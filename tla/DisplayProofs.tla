---------------------------- MODULE DisplayProofs ----------------------------
(* Theorems about the two displays of a thread in its page, the pills       *)
(* (Pills) and the icon (Favicon), for every number of jobs, tabs and       *)
(* icons, every limit of writes and every set of disturbances.              *)
(*                                                                          *)
(* Pills. SaidInv follows a status wherever it is kept or on its way: in a  *)
(* page, in storage, in a poll, a hydration or a check. Whatever is said of *)
(* a job there is true of it (Good), and stays true as the job goes its way *)
(* (RowsMove), so a step has only to say true things (SaidStays). PillInv   *)
(* adds that a page that knows a job to run has its pill, or has asked for  *)
(* it to be restored.                                                       *)
(*                                                                          *)
(* Favicon. Every way to write the icon keeps the page's own icons in its   *)
(* head or set aside (Kept), and an icon that is gone has left nothing      *)
(* behind (Fine, AtRest).                                                   *)
EXTENDS Pills, Favicon, FiniteSetTheorems, TLAPS

----------------------------------------------------------------------------
(* Pills: what is told and what it leaves                                   *)

LEMMA SessionToldIs ==
  ASSUME NEW p \in Page, NEW j \in Jobs, NEW s \in Statuses, NEW q, q = SessionTold(p, j, s)
  PROVE  /\ q \in Page /\ q.pill = p.pill /\ q.shown = p.shown
         /\ \A i \in Jobs : \/ q.session[i] = p.session[i]
                            \/ i = j /\ p.session[i] # "none" /\ q.session[i] = s
  BY DEF SessionTold, Moves, Page, Lists

LEMMA PillToldIs ==
  ASSUME NEW p \in Page, NEW j \in Jobs, NEW s \in Statuses, NEW q, q = PillTold(p, j, s)
  PROVE  /\ q \in Page /\ q.session = p.session /\ q.shown = p.shown
         /\ \A i \in Jobs : \/ q.pill[i] = p.pill[i]
                            \/ i = j /\ p.pill[i] # "none" /\ q.pill[i] = s
  BY DEF PillTold, Page, Lists

LEMMA PillAddedIs ==
  ASSUME NEW p \in Page, NEW j \in Jobs, NEW s \in Statuses, NEW q, q = PillAdded(p, j, s)
  PROVE  /\ q \in Page /\ q.session = p.session /\ q.shown = p.shown
         /\ \A i \in Jobs : \/ q.pill[i] = p.pill[i] /\ (i = j => p.pill[i] # "none")
                            \/ i = j /\ p.pill[i] = "none" /\ q.pill[i] = s
  BY DEF PillAdded, Page, Lists

LEMMA StoredToldIs ==
  ASSUME stored \in Lists, NEW p, NEW S, NEW said, \A j \in S : j \in Jobs => said[j] \in Statuses
  PROVE  /\ StoredTold(p, S, said) \in Lists
         /\ \A i \in Jobs : \/ StoredTold(p, S, said)[i] = stored[i]
                            \/ /\ i \in S /\ stored[i] # "none"
                               /\ StoredTold(p, S, said)[i] = said[i]
  BY DEF StoredTold, Lists

LEMMA TrackedIs ==
  ASSUME toolbar \in [Jobs -> Tabs \cup {NoTab}], NEW p, NEW t \in Tabs
  PROVE  Tracked(p, t) \in [Jobs -> Tabs \cup {NoTab}]
  BY DEF Tracked

LEMMA NoJobsIs == NoJobs \in Lists /\ \A j \in Jobs : NoJobs[j] = "none"
  BY DEF NoJobs, Lists, Statuses

LEMMA FreshPageIs ==
  /\ FreshPage \in Page /\ [FreshPage EXCEPT !.shown = FALSE] \in Page
  /\ FreshPage.session = NoJobs /\ FreshPage.pill = NoJobs
  /\ [FreshPage EXCEPT !.shown = FALSE].session = NoJobs
  /\ [FreshPage EXCEPT !.shown = FALSE].pill = NoJobs
  BY NoJobsIs DEF FreshPage, Page

LEMMA FoundIs ==
  ASSUME row \in Lists, NEW j \in Jobs, NEW s \in Found(j)
  PROVE  /\ s \in Statuses
         /\ \/ s = row[j]
            \/ s = Plain(row[j]) /\ Unbatched
            \/ s = "none" /\ "net" \in may
<1>1. row[j] \in Statuses /\ {"done", "none"} \subseteq Statuses BY DEF Lists, Statuses, Ended
<1> QED BY <1>1 DEF Found, Plain

LEMMA CorrectedIs ==
  ASSUME NEW p \in Page, NEW c \in Checks, NEW q, q = Corrected(p, c)
  PROVE  /\ q \in Page /\ q.pill = p.pill
         /\ \A i \in Jobs : \/ q.session[i] = p.session[i]
                            \/ i \in c.jobs /\ p.session[i] # "none" /\ q.session[i] = c.said[i]
<1>1. c.said \in Lists /\ Said(c) \subseteq c.jobs /\ c.jobs \subseteq Jobs BY DEF Checks, Said
<1>2. \A i \in Jobs :
        /\ SessionTold(p, i, c.said[i]).session[i] \in Statuses
        /\ \/ SessionTold(p, i, c.said[i]).session[i] = p.session[i]
           \/ p.session[i] # "none" /\ SessionTold(p, i, c.said[i]).session[i] = c.said[i]
  <2> SUFFICES ASSUME NEW i \in Jobs
               PROVE  /\ SessionTold(p, i, c.said[i]).session[i] \in Statuses
                      /\ \/ SessionTold(p, i, c.said[i]).session[i] = p.session[i]
                         \/ /\ p.session[i] # "none"
                            /\ SessionTold(p, i, c.said[i]).session[i] = c.said[i]
    OBVIOUS
  <2>1. PICK r : r = SessionTold(p, i, c.said[i]) OBVIOUS
  <2>2. c.said[i] \in Statuses BY <1>1 DEF Lists
  <2>3. /\ r \in Page
        /\ r.session[i] = p.session[i] \/ (p.session[i] # "none" /\ r.session[i] = c.said[i])
    BY <2>1, <2>2, SessionToldIs
  <2> QED BY <2>1, <2>3 DEF Page, Lists
<1> DEFINE f == [j \in Jobs |-> IF j \in Said(c) THEN SessionTold(p, j, c.said[j]).session[j]
                                ELSE p.session[j]]
<1>3. /\ f \in Lists
      /\ \A i \in Jobs : \/ f[i] = p.session[i]
                         \/ i \in c.jobs /\ p.session[i] # "none" /\ f[i] = c.said[i]
  BY <1>1, <1>2 DEF Lists, Page
<1>4. q = [p EXCEPT !.session = f] BY DEF Corrected
<1> HIDE DEF f
<1> QED BY <1>3, <1>4 DEF Page

----------------------------------------------------------------------------
(* Pills: what is said of a job is true of it                               *)

Undisturbed == {"close", "stale", "net"} \cap may = {}

\* What may be said of a job
Good(j, s) ==
  /\ s \in Ended => row[j] \in Ended /\ (s = row[j] \/ (Unbatched /\ s = Plain(row[j])))
  /\ s # "none" => row[j] # "none"
  /\ Undisturbed => s # "stale"

\* by a page, a poll, a stored list, an answer. One that is undisturbed leaves
\* no job out.
PageGood(p) == \A j \in Jobs : Good(j, p.session[j]) /\ Good(j, p.pill[j])
PollGood(m) == Good(m.job, m.status)
ListGood(list) == \A j \in Jobs : Good(j, list[j])
CheckGood(c) ==
  /\ ListGood(c.said)
  /\ \A j \in c.jobs : /\ row[j] # "none"
                       /\ Undisturbed /\ c.said # NoJobs => c.said[j] # "none"

\* The invariant
SaidInv ==
  /\ \A j \in Jobs : Undisturbed => row[j] # "stale"
  /\ ListGood(stored)
  /\ \A t \in Tabs : PageGood(page[t])
  /\ \A m \in polled : PollGood(m)
  /\ \A l \in loads : ListGood(l.list)
  /\ \A c \in checks : CheckGood(c)

\* How a job goes its way: it ends once, and in one way.
RowsMove ==
  \A j \in Jobs :
    \/ row'[j] = row[j]
    \/ row[j] = "none" /\ row'[j] = "open"
    \/ row[j] = "open" /\ row'[j] \in Ended
    \/ row[j] \in {"open", "stale"} /\ row'[j] \in {"open", "stale"}
       /\ (row'[j] = "stale" => "stale" \in may)

LEMMA StaysGood ==
  ASSUME RowsMove, may' = may, NEW j \in Jobs
  PROVE  /\ \A s : Good(j, s) => Good(j, s)'
         /\ row[j] # "none" => row'[j] # "none"
         /\ (Undisturbed => row[j] # "stale") => (Undisturbed' => row'[j] # "stale")
<1>1. (Undisturbed' <=> Undisturbed) /\ (Unbatched' <=> Unbatched) BY DEF Undisturbed, Unbatched
<1>2. \/ row'[j] = row[j]
      \/ row[j] = "none" /\ row'[j] = "open"
      \/ row[j] = "open" /\ row'[j] \in Ended
      \/ row[j] \in {"open", "stale"} /\ row'[j] \in {"open", "stale"}
         /\ (row'[j] = "stale" => "stale" \in may)
  BY DEF RowsMove
<1>3. \A s : Good(j, s) => Good(j, s)' BY <1>1, <1>2 DEF Good, Plain, Ended
<1>4. row[j] # "none" => row'[j] # "none" BY <1>2 DEF Ended
<1>5. (Undisturbed => row[j] # "stale") => (Undisturbed => row'[j] # "stale")
  BY <1>2 DEF Ended, Undisturbed
<1> QED BY <1>1, <1>3, <1>4, <1>5

Messages == [job : Jobs, status : Statuses \ {"none"}]

\* A step keeps the invariant if what it lets anybody say is true.
LEMMA SaidAfter ==
  ASSUME PillTypeOK, SaidInv, may' = may, RowsMove, row' \in Lists,
         stored' \in Lists, \A j \in Jobs : stored'[j] = stored[j] \/ \E s : s = stored'[j] /\ Good(j, s)',
         page' \in [Tabs -> Page],
         \A t \in Tabs : page'[t] = page[t] \/ \E p : p = page'[t] /\ PageGood(p)',
         toolbar' \in [Jobs -> Tabs \cup {NoTab}],
         \A m \in polled' : m \in polled \/ (m \in Messages /\ PollGood(m)'),
         \A l \in loads' : l \in loads \/ (l \in Loads /\ ListGood(l.list)'),
         \A c \in checks' : c \in checks \/ (c \in Checks /\ CheckGood(c)')
  PROVE  PillTypeOK' /\ SaidInv'
<1>1. PillTypeOK' BY DEF PillTypeOK, Messages
<1>2. \A j \in Jobs : Undisturbed' => row'[j] # "stale" BY StaysGood DEF SaidInv
<1>3. \A list : ListGood(list) => ListGood(list)' BY StaysGood DEF ListGood
<1>4. ListGood(stored)'
  <2> SUFFICES ASSUME NEW j \in Jobs PROVE Good(j, stored[j])' BY DEF ListGood
  <2>1. PICK s : s = stored[j] OBVIOUS
  <2>2. Good(j, s) BY <2>1 DEF SaidInv, ListGood
  <2>3. Good(j, s)' BY <2>2, StaysGood
  <2>4. CASE stored'[j] = stored[j] BY <2>1, <2>3, <2>4 DEF Good
  <2>5. CASE \E r : r = stored'[j] /\ Good(j, r)' BY <2>5 DEF Good
  <2> QED BY <2>4, <2>5
<1>5. \A p : PageGood(p) => PageGood(p)' BY StaysGood DEF PageGood
<1>6. ASSUME NEW t \in Tabs PROVE PageGood(page[t])'
  <2>1. PICK p : p = page[t] OBVIOUS
  <2>2. PageGood(p)' BY <1>5, <2>1 DEF SaidInv
  <2>3. PICK q : q = page'[t] /\ PageGood(q)' BY <2>1, <2>2
  <2> QED BY <2>3 DEF PageGood, Good
<1>7. \A m \in polled' : PollGood(m)'
  <2> SUFFICES ASSUME NEW m \in polled PROVE PollGood(m)' OBVIOUS
  <2>1. m.job \in Jobs BY DEF PillTypeOK
  <2> QED BY <2>1, StaysGood DEF SaidInv, PollGood
<1>8. \A l \in loads' : ListGood(l.list)' BY <1>3 DEF SaidInv
<1>9. \A c \in checks' : CheckGood(c)'
  <2> SUFFICES ASSUME NEW c \in checks PROVE CheckGood(c)' OBVIOUS
  <2>1. CheckGood(c) /\ c.jobs \subseteq Jobs BY DEF SaidInv, PillTypeOK, Checks
  <2>2. ListGood(c.said)' BY <1>3, <2>1 DEF CheckGood
  <2>3. \A j \in c.jobs : row'[j] # "none" BY <2>1, StaysGood DEF CheckGood
  <2> QED BY <2>1, <2>2, <2>3 DEF CheckGood, Undisturbed
<1> QED BY <1>1, <1>2, <1>4, <1>6, <1>7, <1>8, <1>9 DEF SaidInv
----------------------------------------------------------------------------
(* Pills: every step says what is true                                      *)

\* The same for a step that moves no job.
LEMMA SaidStays ==
  ASSUME PillTypeOK, SaidInv, may' = may, row' = row,
         stored' \in Lists, \A j \in Jobs : stored'[j] = stored[j] \/ Good(j, stored'[j]),
         page' \in [Tabs -> Page], \A t \in Tabs : page'[t] = page[t] \/ PageGood(page'[t]),
         toolbar' \in [Jobs -> Tabs \cup {NoTab}],
         \A m \in polled' : m \in polled \/ (m \in Messages /\ PollGood(m)),
         \A l \in loads' : l \in loads \/ (l \in Loads /\ ListGood(l.list)),
         \A c \in checks' : c \in checks \/ (c \in Checks /\ CheckGood(c))
  PROVE  PillTypeOK' /\ SaidInv'
<1>1. RowsMove /\ row' \in Lists BY DEF RowsMove, PillTypeOK
<1>2. Undisturbed' <=> Undisturbed BY DEF Undisturbed
<1>3. \A j, s : Good(j, s)' <=> Good(j, s) BY <1>2 DEF Good, Plain, Unbatched
<1>4. \A j \in Jobs : stored'[j] = stored[j] \/ \E s : s = stored'[j] /\ Good(j, s)' BY <1>3
<1>5. \A p : PageGood(p) => PageGood(p)' BY <1>3 DEF PageGood
<1>6. \A t \in Tabs : page'[t] = page[t] \/ \E p : p = page'[t] /\ PageGood(p)' BY <1>5
<1>7. \A m \in polled' : m \in polled \/ (m \in Messages /\ PollGood(m)')
  BY <1>3 DEF PollGood
<1>8. \A list : ListGood(list) => ListGood(list)' BY <1>3 DEF ListGood
<1>9. \A l \in loads' : l \in loads \/ (l \in Loads /\ ListGood(l.list)') BY <1>8
<1>10. \A c \in checks' : c \in checks \/ (c \in Checks /\ CheckGood(c)')
  BY <1>2, <1>8 DEF CheckGood
<1> QED BY <1>1, <1>4, <1>6, <1>7, <1>9, <1>10, SaidAfter

\* One page changes, and says what is true.
LEMMA OnePage ==
  ASSUME page \in [Tabs -> Page], NEW t \in Tabs, NEW q \in Page, PageGood(q),
         page' = [page EXCEPT ![t] = q]
  PROVE  /\ page' \in [Tabs -> Page]
         /\ \A u \in Tabs : page'[u] = page[u] \/ PageGood(page'[u])
  OBVIOUS

LEMMA PagesAre ==
  ASSUME PillTypeOK, SaidInv, NEW t \in Tabs
  PROVE  page[t] \in Page /\ PageGood(page[t])
  BY DEF PillTypeOK, SaidInv

\* What is told of a job is kept for it, and for no other.
LEMMA TellingIsGood ==
  ASSUME NEW p \in Page, PageGood(p), NEW j \in Jobs, NEW s \in Statuses, Good(j, s)
  PROVE  /\ SessionTold(p, j, s) \in Page /\ PageGood(SessionTold(p, j, s))
         /\ PillTold(p, j, s) \in Page /\ PageGood(PillTold(p, j, s))
         /\ PillAdded(p, j, s) \in Page /\ PageGood(PillAdded(p, j, s))
<1>1. SessionTold(p, j, s) \in Page /\ PageGood(SessionTold(p, j, s))
  <2>1. PICK q : q = SessionTold(p, j, s) OBVIOUS
  <2>2. /\ q \in Page /\ q.pill = p.pill
        /\ \A i \in Jobs : q.session[i] = p.session[i] \/ (i = j /\ q.session[i] = s)
    BY <2>1, SessionToldIs
  <2>3. PageGood(q) BY <2>2 DEF PageGood
  <2> QED BY <2>1, <2>2, <2>3
<1>2. PillTold(p, j, s) \in Page /\ PageGood(PillTold(p, j, s))
  <2>1. PICK q : q = PillTold(p, j, s) OBVIOUS
  <2>2. /\ q \in Page /\ q.session = p.session
        /\ \A i \in Jobs : q.pill[i] = p.pill[i] \/ (i = j /\ q.pill[i] = s)
    BY <2>1, PillToldIs
  <2>3. PageGood(q) BY <2>2 DEF PageGood
  <2> QED BY <2>1, <2>2, <2>3
<1>3. PillAdded(p, j, s) \in Page /\ PageGood(PillAdded(p, j, s))
  <2>1. PICK q : q = PillAdded(p, j, s) OBVIOUS
  <2>2. /\ q \in Page /\ q.session = p.session
        /\ \A i \in Jobs : q.pill[i] = p.pill[i] \/ (i = j /\ q.pill[i] = s)
    BY <2>1, PillAddedIs
  <2>3. PageGood(q) BY <2>2 DEF PageGood
  <2> QED BY <2>1, <2>2, <2>3
<1> QED BY <1>1, <1>2, <1>3

\* So is what is told to storage.
LEMMA StoringIsGood ==
  ASSUME PillTypeOK, SaidInv, NEW p, NEW S, NEW said,
         \A j \in S \cap Jobs : said[j] \in Statuses /\ Good(j, said[j]),
         stored' = StoredTold(p, S, said)
  PROVE  stored' \in Lists /\ \A j \in Jobs : stored'[j] = stored[j] \/ Good(j, stored'[j])
<1>1. stored \in Lists BY DEF PillTypeOK
<1>2. \A j \in S : j \in Jobs => said[j] \in Statuses OBVIOUS
<1>3. PICK u : u = StoredTold(p, S, said) OBVIOUS
<1>4. u \in Lists /\ \A i \in Jobs : u[i] = stored[i] \/ (i \in S /\ u[i] = said[i])
  BY <1>1, <1>2, <1>3, StoredToldIs
<1> QED BY <1>3, <1>4

\* The relay's own word is good.
LEMMA RowIsGood ==
  ASSUME PillTypeOK, SaidInv, NEW j \in Jobs PROVE Good(j, row[j])
  BY DEF SaidInv, Good

LEMMA NothingIsGood == \A j \in Jobs : Good(j, "none")
  BY DEF Good, Ended

LEMMA OpenIsGood == ASSUME NEW j \in Jobs, row[j] # "none" PROVE Good(j, "open")
  BY DEF Good, Ended

----------------------------------------------------------------------------
\* The relay moves a job.
LEMMA RelayMovesSays ==
  ASSUME PillTypeOK, SaidInv, NEW j \in Jobs, RelayMoves(j)
  PROVE  PillTypeOK' /\ SaidInv'
<1>1. row \in Lists /\ {"open", "stale"} \cup Ended \subseteq Statuses
  BY DEF PillTypeOK, Statuses, Open
<1>2. /\ row' \in Lists /\ \A i \in Jobs \ {j} : row'[i] = row[i]
      /\ \/ row[j] = "open" /\ row'[j] \in Ended
         \/ row[j] = "open" /\ "stale" \in may /\ row'[j] = "stale"
         \/ row[j] = "stale" /\ row'[j] = "open"
  BY <1>1 DEF RelayMoves, Lists
<1>3. RowsMove BY <1>2 DEF RowsMove
<1>4. UNCHANGED <<may, stored, page, toolbar, polled, loads, checks>> BY DEF RelayMoves
<1> QED BY <1>2, <1>3, <1>4, SaidAfter DEF PillTypeOK

\* A dispatch, whose job is open from then on for everybody who heard of it.
LEMMA DispatchSays ==
  ASSUME PillTypeOK, SaidInv, NEW t \in Tabs, NEW j \in Jobs, Dispatch(t, j)
  PROVE  PillTypeOK' /\ SaidInv'
<1> DEFINE b == [page[t] EXCEPT !.session[j] = "open"]
           p == PillAdded(b, j, "open")
           q == [p EXCEPT !.hydrated = TRUE]
<1>1. /\ row[j] = "none" /\ row' = [row EXCEPT ![j] = "open"]
      /\ toolbar' = [toolbar EXCEPT ![j] = t]
      /\ loads' = loads \cup Hydrating(t, p)
      /\ page' = [page EXCEPT ![t] = q]
      /\ stored' = [stored EXCEPT ![j] = "open"]
      /\ may' = may /\ polled' = polled /\ checks' = checks
  BY DEF Dispatch
<1>2. /\ row \in Lists /\ stored \in Lists /\ "open" \in Statuses
      /\ toolbar \in [Jobs -> Tabs \cup {NoTab}] /\ page \in [Tabs -> Page]
  BY DEF PillTypeOK, Statuses, Open
<1>3. page[t] \in Page /\ PageGood(page[t]) BY PagesAre
<1>4. b \in Page /\ b.pill = page[t].pill /\ \A i \in Jobs \ {j} : b.session[i] = page[t].session[i]
  BY <1>2, <1>3 DEF Page, Lists
<1>5. b.session[j] = "open" BY <1>3 DEF Page, Lists
<1> HIDE DEF b
<1>6. /\ p \in Page /\ p.session = b.session
      /\ \A i \in Jobs : p.pill[i] = b.pill[i] \/ (i = j /\ p.pill[i] = "open")
  BY <1>2, <1>4, PillAddedIs
<1> HIDE DEF p
<1>7. q \in Page /\ q.session = p.session /\ q.pill = p.pill BY <1>6 DEF Page
<1> HIDE DEF q
<1>8. RowsMove /\ row' \in Lists /\ row'[j] = "open" BY <1>1, <1>2 DEF RowsMove, Lists
<1>9. Good(j, "open")' BY <1>8 DEF Good, Ended
<1>11. PICK r : r = q OBVIOUS
<1>10. ASSUME NEW i \in Jobs PROVE Good(i, r.session[i])' /\ Good(i, r.pill[i])'
  <2> DEFINE a == page[t].session[i]
             z == page[t].pill[i]
  <2>1. Good(i, a) /\ Good(i, z) BY <1>3 DEF PageGood
  <2>2. PICK c : c = r.session[i] OBVIOUS
  <2>3. PICK d : d = r.pill[i] OBVIOUS
  <2>4. PICK e : e = a /\ Good(i, e) BY <2>1
  <2>5. PICK f : f = z /\ Good(i, f) BY <2>1
  <2>6. Good(i, e)' /\ Good(i, f)' BY <1>1, <1>8, <2>4, <2>5, StaysGood
  <2>7. c = e \/ (i = j /\ c = "open") BY <1>4, <1>5, <1>6, <1>7, <1>11, <2>2, <2>4
  <2>8. d = f \/ (i = j /\ d = "open") BY <1>4, <1>6, <1>7, <1>11, <2>3, <2>5
  <2>9. Good(i, c)' BY <2>6, <2>7, <1>9
  <2>10. Good(i, d)' BY <2>6, <2>8, <1>9
  <2> QED BY <2>2, <2>3, <2>9, <2>10
<1>12. PageGood(r)' BY <1>10 DEF PageGood
<1>13. \A u \in Tabs : page'[u] = page[u] \/ \E x : x = page'[u] /\ PageGood(x)'
  BY <1>1, <1>2, <1>11, <1>12
<1>14. page' \in [Tabs -> Page] BY <1>1, <1>2, <1>7
<1>15. \A l \in loads' : l \in loads \/ (l \in Loads /\ ListGood(l.list)')
  <2> SUFFICES ASSUME NEW l \in Hydrating(t, p) PROVE l \in Loads /\ ListGood(l.list)'
    BY <1>1
  <2>1. l.list = stored /\ l \in Loads BY <1>2 DEF Hydrating, Loads
  <2>2. ASSUME NEW i \in Jobs PROVE Good(i, l.list[i])'
    <3>1. PICK s : s = stored[i] /\ Good(i, s) BY DEF SaidInv, ListGood
    <3>2. Good(i, s)' BY <1>1, <1>8, <3>1, StaysGood
    <3> QED BY <2>1, <3>1, <3>2 DEF Good
  <2> QED BY <2>1, <2>2 DEF ListGood
<1>16. /\ stored' \in Lists
       /\ \A i \in Jobs : stored'[i] = stored[i] \/ \E s : s = stored'[i] /\ Good(i, s)'
  BY <1>1, <1>2, <1>9 DEF Lists
<1>17. toolbar' \in [Jobs -> Tabs \cup {NoTab}] BY <1>1, <1>2
<1> QED BY <1>1, <1>8, <1>13, <1>14, <1>15, <1>16, <1>17, SaidAfter

\* A hydration reads what is stored.
LEMMA HydratePageSays ==
  ASSUME PillTypeOK, SaidInv, NEW t \in Tabs, HydratePage(t)
  PROVE  PillTypeOK' /\ SaidInv'
<1> DEFINE q == [page[t] EXCEPT !.hydrated = TRUE]
<1>1. page[t] \in Page /\ PageGood(page[t]) BY PagesAre
<1>2. q \in Page /\ q.session = page[t].session /\ q.pill = page[t].pill BY <1>1 DEF Page
<1>3. PageGood(q) BY <1>1, <1>2 DEF PageGood
<1>4. page \in [Tabs -> Page] /\ stored \in Lists BY DEF PillTypeOK
<1>5. page' = [page EXCEPT ![t] = q] BY <1>4 DEF HydratePage
<1> HIDE DEF q
<1>6. /\ page' \in [Tabs -> Page]
      /\ \A u \in Tabs : page'[u] = page[u] \/ PageGood(page'[u])
  BY <1>2, <1>3, <1>4, <1>5, OnePage
<1>7. \A l \in loads' : l \in loads \/ (l \in Loads /\ ListGood(l.list))
  <2> SUFFICES ASSUME NEW l \in Hydrating(t, page[t]) PROVE l \in Loads /\ ListGood(l.list)
    BY DEF HydratePage
  <2>1. l.list = stored /\ l \in Loads BY <1>4 DEF Hydrating, Loads
  <2> QED BY <2>1 DEF SaidInv
<1>8. UNCHANGED <<may, row, stored, toolbar, polled, checks>> BY DEF HydratePage
<1> QED BY <1>6, <1>7, <1>8, SaidStays DEF PillTypeOK
----------------------------------------------------------------------------
\* It takes over what it read, and asks about the jobs that were open.
LEMMA LoadedSays ==
  ASSUME PillTypeOK, SaidInv, NEW l \in loads, Loaded(l)
  PROVE  PillTypeOK' /\ SaidInv'
<1>1. l \in Loads /\ ListGood(l.list) BY DEF PillTypeOK, SaidInv
<1>2. PICK t \in Tabs : t = l.tab /\ l.list \in Lists BY <1>1 DEF Loads
<1>3. page[t] \in Page /\ PageGood(page[t]) BY PagesAre
<1> DEFINE p == Merged(page[t], l.list)
<1>4. /\ p \in Page /\ p.pill = page[t].pill
      /\ \A j \in Jobs : p.session[j] = page[t].session[j] \/ p.session[j] = l.list[j]
  BY <1>2, <1>3 DEF Merged, Page, Lists
<1>5. /\ loads' = loads \ {l} /\ page' = [page EXCEPT ![t] = p]
      /\ checks' = IF OpenIn(p) = {} THEN checks
                   ELSE checks \cup {[by |-> "restore", tab |-> t, jobs |-> OpenIn(p), said |-> NoJobs]}
      /\ UNCHANGED <<may, row, stored, toolbar, polled>>
  BY <1>2 DEF Loaded
<1> HIDE DEF p
<1>6. PageGood(p) BY <1>1, <1>3, <1>4 DEF PageGood, ListGood
<1>7. page \in [Tabs -> Page] BY DEF PillTypeOK
<1>8. /\ page' \in [Tabs -> Page]
      /\ \A u \in Tabs : page'[u] = page[u] \/ PageGood(page'[u])
  BY <1>4, <1>5, <1>6, <1>7, OnePage
<1>9. \A j \in OpenIn(p) : j \in Jobs /\ row[j] # "none"
  BY <1>6 DEF OpenIn, PageGood, Good, Open
<1>10. \A c \in checks' : c \in checks \/ (c \in Checks /\ CheckGood(c))
  <2> SUFFICES ASSUME NEW c, c = [by |-> "restore", tab |-> t, jobs |-> OpenIn(p), said |-> NoJobs]
               PROVE c \in Checks /\ CheckGood(c)
    BY <1>5
  <2>1. c \in Checks BY <1>9, NoJobsIs DEF Checks
  <2>2. ListGood(c.said) BY NoJobsIs, NothingIsGood DEF ListGood
  <2> QED BY <1>9, <2>1, <2>2 DEF CheckGood
<1> QED BY <1>5, <1>8, <1>10, SaidStays DEF PillTypeOK

\* The worker's answer names what the relay says of them.
LEMMA AnswerSays ==
  ASSUME PillTypeOK, SaidInv, NEW c \in checks, Answer(c)
  PROVE  PillTypeOK' /\ SaidInv'
<1>1. c \in Checks /\ CheckGood(c) BY DEF PillTypeOK, SaidInv
<1>2. PICK said \in Lists :
        /\ \A j \in Jobs : said[j] \in IF j \in c.jobs THEN Found(j) ELSE {"none"}
        /\ checks' = (checks \ {c}) \cup {[c EXCEPT !.said = said]}
  BY DEF Answer
<1>3. row \in Lists BY DEF PillTypeOK
<1>4. ASSUME NEW j \in Jobs
      PROVE  /\ Good(j, said[j])
             /\ j \in c.jobs /\ Undisturbed => said[j] # "none"
  <2>1. CASE j \notin c.jobs BY <1>2, <2>1, NothingIsGood
  <2>2. CASE j \in c.jobs
    <3>1. said[j] \in Found(j) BY <1>2, <2>2
    <3>2. row[j] # "none" BY <1>1, <2>2 DEF CheckGood
    <3>3. \/ said[j] = row[j]
          \/ said[j] = Plain(row[j]) /\ Unbatched
          \/ said[j] = "none" /\ "net" \in may
      BY <1>3, <3>1, FoundIs
    <3>4. Good(j, row[j]) /\ Good(j, "none") BY RowIsGood, NothingIsGood
    <3> QED BY <3>2, <3>3, <3>4 DEF Good, Plain, Undisturbed, Ended
  <2> QED BY <2>1, <2>2
<1>5. PICK d : d = [c EXCEPT !.said = said] OBVIOUS
<1>6. d \in Checks /\ d.said = said /\ d.jobs = c.jobs BY <1>1, <1>5 DEF Checks
<1>7. c.jobs \subseteq Jobs BY <1>1 DEF Checks
<1>8. CheckGood(d) BY <1>1, <1>4, <1>6, <1>7 DEF CheckGood, ListGood
<1>9. \A x \in checks' : x \in checks \/ (x \in Checks /\ CheckGood(x)) BY <1>2, <1>5, <1>6, <1>8
<1>10. UNCHANGED <<may, row, stored, page, toolbar, polled, loads>> BY DEF Answer
<1> QED BY <1>9, <1>10, SaidStays DEF PillTypeOK

\* The page takes the answer over.
LEMMA RestoredSays ==
  ASSUME PillTypeOK, SaidInv, NEW c \in checks, Restored(c)
  PROVE  PillTypeOK' /\ SaidInv'
<1>1. c \in Checks /\ CheckGood(c) BY DEF PillTypeOK, SaidInv
<1>2. PICK t \in Tabs : t = c.tab /\ c.jobs \subseteq Jobs /\ c.said \in Lists BY <1>1 DEF Checks
<1>3. page[t] \in Page /\ PageGood(page[t]) BY PagesAre
<1> DEFINE p == Corrected(page[t], c)
           back == {j \in c.jobs : p.session[j] \in Open}
           q == [p EXCEPT !.pill = [j \in Jobs |-> IF j \in back THEN p.session[j] ELSE p.pill[j]]]
<1>4. /\ checks' = checks \ {c} /\ page' = [page EXCEPT ![t] = q]
      /\ stored' = StoredTold(page[t], Said(c), c.said)
      /\ toolbar' = Tracked(q, t)
      /\ UNCHANGED <<may, row, polled, loads>>
  BY <1>2 DEF Restored
<1>5. /\ p \in Page /\ p.pill = page[t].pill
      /\ \A i \in Jobs : p.session[i] = page[t].session[i] \/ (i \in c.jobs /\ p.session[i] = c.said[i])
  BY <1>1, <1>3, CorrectedIs
<1> HIDE DEF p
<1>6. PageGood(p) BY <1>1, <1>3, <1>5 DEF PageGood, CheckGood, ListGood
<1>7. /\ q \in Page /\ q.session = p.session
      /\ \A j \in Jobs : q.pill[j] = p.pill[j] \/ q.pill[j] = p.session[j]
  BY <1>5 DEF Page, Lists
<1> HIDE DEF q
<1>8. PageGood(q) BY <1>6, <1>7 DEF PageGood
<1>9. page \in [Tabs -> Page] /\ toolbar \in [Jobs -> Tabs \cup {NoTab}] BY DEF PillTypeOK
<1>10. /\ page' \in [Tabs -> Page]
       /\ \A u \in Tabs : page'[u] = page[u] \/ PageGood(page'[u])
  BY <1>4, <1>7, <1>8, <1>9, OnePage
<1>11. \A j \in Said(c) \cap Jobs : c.said[j] \in Statuses /\ Good(j, c.said[j])
  BY <1>1, <1>2 DEF Lists, CheckGood, ListGood
<1>12. /\ stored' \in Lists
       /\ \A j \in Jobs : stored'[j] = stored[j] \/ Good(j, stored'[j])
  BY <1>4, <1>11, StoringIsGood
<1>13. toolbar' \in [Jobs -> Tabs \cup {NoTab}] BY <1>4, <1>9, TrackedIs
<1> QED BY <1>4, <1>10, <1>12, <1>13, SaidStays

\* A poll reads the relay's word.
LEMMA PollSays ==
  ASSUME PillTypeOK, SaidInv, Poll PROVE PillTypeOK' /\ SaidInv'
<1>1. PICK met \in SUBSET Jobs :
        /\ \A j \in met : row[j] # "none"
        /\ polled' = polled \cup {[job |-> j, status |-> row[j]] : j \in met}
  <2>1. PICK batch \in {Jobs} \cup (IF "aged" \in may THEN SUBSET Jobs ELSE {}) :
          LET met == {j \in batch : toolbar[j] # NoTab /\ row[j] # "none"} IN
          polled' = polled \cup {[job |-> j, status |-> row[j]] : j \in met}
    BY DEF Poll
  <2>2. batch \subseteq Jobs OBVIOUS
  <2> DEFINE met == {j \in batch : toolbar[j] # NoTab /\ row[j] # "none"}
  <2> QED BY <2>1, <2>2
<1>2. row \in Lists BY DEF PillTypeOK
<1>3. \A m \in polled' : m \in polled \/ (m \in Messages /\ PollGood(m))
  <2> SUFFICES ASSUME NEW j \in met, NEW m, m = [job |-> j, status |-> row[j]]
               PROVE  m \in Messages /\ PollGood(m)
    BY <1>1
  <2> QED BY <1>1, <1>2, RowIsGood DEF Messages, PollGood, Lists
<1>4. UNCHANGED <<may, row, stored, page, toolbar, loads, checks>> BY DEF Poll
<1> QED BY <1>3, <1>4, SaidStays DEF PillTypeOK

\* It is handed on to a page.
LEMMA TellSays ==
  ASSUME PillTypeOK, SaidInv, NEW m \in polled, Tell(m)
  PROVE  PillTypeOK' /\ SaidInv'
<1>1. m.job \in Jobs /\ m.status \in Statuses /\ Good(m.job, m.status)
  BY DEF PillTypeOK, SaidInv, PollGood
<1> DEFINE t == toolbar[m.job]
<1>2. polled' = polled \ {m} /\ UNCHANGED <<may, row, loads, checks>> BY DEF Tell
<1>3. CASE UNCHANGED <<page, stored, toolbar>> BY <1>2, <1>3, SaidStays DEF PillTypeOK
<1>4. CASE t # NoTab /\ page[t].shown
  <2>1. /\ page' = [page EXCEPT ![t] =
                      PillTold(SessionTold(page[t], m.job, m.status), m.job, m.status)]
        /\ stored' = StoredTold(page[t], {m.job}, [j \in Jobs |-> m.status])
        /\ toolbar' = [toolbar EXCEPT ![m.job] = IF m.status \in Ended THEN NoTab ELSE t]
    BY <1>4 DEF Tell
  <2>2. page \in [Tabs -> Page] /\ toolbar \in [Jobs -> Tabs \cup {NoTab}] BY DEF PillTypeOK
  <2>3. t \in Tabs BY <1>1, <1>4, <2>2
  <2>4. toolbar' \in [Jobs -> Tabs \cup {NoTab}] BY <2>1, <2>2, <2>3
  <2> HIDE DEF t
  <2>5. page[t] \in Page /\ PageGood(page[t]) BY <2>3, PagesAre
  <2>6. PICK r : r = SessionTold(page[t], m.job, m.status) OBVIOUS
  <2>7. r \in Page /\ PageGood(r) BY <1>1, <2>5, <2>6, TellingIsGood
  <2>8. PICK q : q = PillTold(r, m.job, m.status) OBVIOUS
  <2>9. q \in Page /\ PageGood(q) BY <1>1, <2>7, <2>8, TellingIsGood
  <2>10. page' = [page EXCEPT ![t] = q] BY <2>1, <2>6, <2>8
  <2>11. /\ page' \in [Tabs -> Page]
         /\ \A u \in Tabs : page'[u] = page[u] \/ PageGood(page'[u])
    BY <2>2, <2>3, <2>9, <2>10, OnePage
  <2>12. PICK said : said = [j \in Jobs |-> m.status] OBVIOUS
  <2>13. \A j \in {m.job} \cap Jobs : said[j] \in Statuses /\ Good(j, said[j]) BY <1>1, <2>12
  <2>14. stored' = StoredTold(page[t], {m.job}, said) BY <2>1, <2>12
  <2>15. /\ stored' \in Lists
         /\ \A j \in Jobs : stored'[j] = stored[j] \/ Good(j, stored'[j])
    BY <2>13, <2>14, StoringIsGood
  <2> QED BY <1>2, <2>4, <2>11, <2>15, SaidStays
<1> QED BY <1>3, <1>4 DEF Tell

\* A result tells of the end itself.
LEMMA WakeSays ==
  ASSUME PillTypeOK, SaidInv, NEW t \in Tabs, NEW j \in Jobs, Wake(t, j)
  PROVE  PillTypeOK' /\ SaidInv'
<1>1. /\ page' = [page EXCEPT ![t] = SessionTold(page[t], j, row[j])]
      /\ stored' = StoredTold(page[t], {j}, row)
      /\ UNCHANGED <<may, row, toolbar, polled, loads, checks>>
  BY DEF Wake
<1>2. /\ page \in [Tabs -> Page] /\ row \in Lists /\ page[t] \in Page /\ PageGood(page[t])
      /\ toolbar \in [Jobs -> Tabs \cup {NoTab}]
  BY PagesAre DEF PillTypeOK
<1>3. \A i \in Jobs : row[i] \in Statuses /\ Good(i, row[i]) BY <1>2, RowIsGood DEF Lists
<1>4. PICK q : q = SessionTold(page[t], j, row[j]) OBVIOUS
<1>5. q \in Page /\ PageGood(q) BY <1>2, <1>3, <1>4, TellingIsGood
<1>6. /\ page' \in [Tabs -> Page]
      /\ \A u \in Tabs : page'[u] = page[u] \/ PageGood(page'[u])
  BY <1>1, <1>2, <1>4, <1>5, OnePage
<1>7. /\ stored' \in Lists
      /\ \A i \in Jobs : stored'[i] = stored[i] \/ Good(i, stored'[i])
  BY <1>1, <1>3, StoringIsGood
<1> QED BY <1>1, <1>2, <1>6, <1>7, SaidStays
----------------------------------------------------------------------------
\* The sweep asks about pills, whose jobs were dispatched.
LEMMA ReapSays ==
  ASSUME PillTypeOK, SaidInv, NEW t \in Tabs, Reap(t)
  PROVE  PillTypeOK' /\ SaidInv'
<1>1. page[t] \in Page /\ PageGood(page[t]) BY PagesAre
<1>2. \A j \in Silent(t) : j \in Jobs /\ row[j] # "none"
  BY <1>1 DEF Silent, PageGood, Good, Open
<1>3. \A c \in checks' : c \in checks \/ (c \in Checks /\ CheckGood(c))
  <2> SUFFICES ASSUME NEW c, c = [by |-> "reap", tab |-> t, jobs |-> Silent(t), said |-> NoJobs]
               PROVE c \in Checks /\ CheckGood(c)
    BY DEF Reap
  <2>1. c \in Checks BY <1>2, NoJobsIs DEF Checks
  <2>2. ListGood(c.said) BY NoJobsIs, NothingIsGood DEF ListGood
  <2> QED BY <1>2, <2>1, <2>2 DEF CheckGood
<1>4. UNCHANGED <<may, row, stored, page, toolbar, polled, loads>> BY DEF Reap
<1> QED BY <1>3, <1>4, SaidStays DEF PillTypeOK

\* What the sweep makes of an answer is good.
LEMMA VerdictIsGood ==
  ASSUME PillTypeOK, SaidInv, NEW c \in checks, c.said # NoJobs \/ "net" \in may, NEW j \in c.jobs
  PROVE  j \in Jobs /\ Verdict(c, j) \in Statuses \ {"none"} /\ Good(j, Verdict(c, j))
<1>1. c \in Checks /\ CheckGood(c) BY DEF PillTypeOK, SaidInv
<1>2. /\ j \in Jobs /\ c.said[j] \in Statuses /\ "stale" \in Statuses
      /\ row[j] # "none" /\ Good(j, c.said[j])
      /\ Undisturbed /\ c.said # NoJobs => c.said[j] # "none"
  BY <1>1 DEF Checks, Lists, CheckGood, ListGood, Statuses
<1>3. c.said[j] = "none" => Good(j, "stale") BY <1>2 DEF Good, Undisturbed, Ended
<1> QED BY <1>2, <1>3 DEF Verdict

\* The page as the sweep leaves it
Swept(p, c) ==
  [p EXCEPT
     !.pill = [j \in Jobs |-> IF j \in Settled(p, c) THEN Verdict(c, j) ELSE p.pill[j]],
     !.session = [j \in Jobs |-> IF j \in Settled(p, c)
                   THEN SessionTold(p, j, Verdict(c, j)).session[j] ELSE p.session[j]]]

LEMMA SweptIs ==
  ASSUME NEW p \in Page, NEW c, \A j \in c.jobs : j \in Jobs => Verdict(c, j) \in Statuses \ {"none"}
  PROVE  /\ Swept(p, c) \in Page
         /\ \A j \in Jobs :
              /\ \/ Swept(p, c).pill[j] = p.pill[j]
                 \/ j \in Settled(p, c) /\ Swept(p, c).pill[j] = Verdict(c, j)
              /\ \/ Swept(p, c).session[j] = p.session[j]
                 \/ j \in Settled(p, c) /\ Swept(p, c).session[j] = Verdict(c, j)
<1>1. \A j \in Settled(p, c) : j \in c.jobs BY DEF Settled
<1>2. ASSUME NEW j \in Jobs, j \in Settled(p, c)
      PROVE  /\ SessionTold(p, j, Verdict(c, j)).session[j] \in Statuses
             /\ \/ SessionTold(p, j, Verdict(c, j)).session[j] = p.session[j]
                \/ SessionTold(p, j, Verdict(c, j)).session[j] = Verdict(c, j)
  <2>1. PICK s : s = Verdict(c, j) OBVIOUS
  <2>2. s \in Statuses BY <1>1, <1>2, <2>1
  <2>3. PICK r : r = SessionTold(p, j, s) OBVIOUS
  <2>4. r \in Page /\ (r.session[j] = p.session[j] \/ r.session[j] = s) BY <2>2, <2>3, SessionToldIs
  <2> QED BY <2>1, <2>3, <2>4 DEF Page, Lists
<1>3. PICK f : f = [j \in Jobs |-> IF j \in Settled(p, c) THEN Verdict(c, j) ELSE p.pill[j]] OBVIOUS
<1>4. PICK g : g = [j \in Jobs |-> IF j \in Settled(p, c)
                      THEN SessionTold(p, j, Verdict(c, j)).session[j] ELSE p.session[j]]
  OBVIOUS
<1>5. /\ f \in Lists
      /\ \A j \in Jobs : f[j] = p.pill[j] \/ (j \in Settled(p, c) /\ f[j] = Verdict(c, j))
  BY <1>1, <1>3 DEF Lists, Page
<1>6. /\ g \in Lists
      /\ \A j \in Jobs : g[j] = p.session[j] \/ (j \in Settled(p, c) /\ g[j] = Verdict(c, j))
  BY <1>2, <1>4 DEF Lists, Page
<1>7. Swept(p, c) = [p EXCEPT !.pill = f, !.session = g] BY <1>3, <1>4 DEF Swept
<1>8. Swept(p, c) \in Page /\ Swept(p, c).pill = f /\ Swept(p, c).session = g
  BY <1>5, <1>6, <1>7 DEF Page
<1> QED BY <1>5, <1>6, <1>8

\* What the answer to a sweep does.
LEMMA ReapedIs ==
  ASSUME PillTypeOK, NEW c \in checks, Reaped(c)
  PROVE  /\ c.tab \in Tabs /\ c.by = "reap" /\ (c.said # NoJobs \/ "net" \in may)
         /\ checks' = checks \ {c}
         /\ page' = [page EXCEPT ![c.tab] = Swept(page[c.tab], c)]
         /\ stored' = StoredTold(page[c.tab], Settled(page[c.tab], c), [j \in Jobs |-> Verdict(c, j)])
         /\ toolbar' = toolbar \/ toolbar' = Tracked(Swept(page[c.tab], c), c.tab)
         /\ UNCHANGED <<may, row, polled, loads>>
<1>1. c.tab \in Tabs BY DEF PillTypeOK, Checks
<1>2. page' = [page EXCEPT ![c.tab] = Swept(page[c.tab], c)] BY DEF Reaped, Swept
<1>3. toolbar' = toolbar \/ toolbar' = Tracked(Swept(page[c.tab], c), c.tab) BY DEF Reaped, Swept
<1> QED BY <1>1, <1>2, <1>3 DEF Reaped

\* The page takes its verdicts over.
LEMMA ReapedSays ==
  ASSUME PillTypeOK, SaidInv, NEW c \in checks, Reaped(c)
  PROVE  PillTypeOK' /\ SaidInv'
<1>1. PICK t \in Tabs :
        /\ t = c.tab /\ checks' = checks \ {c}
        /\ page' = [page EXCEPT ![t] = Swept(page[t], c)]
        /\ stored' = StoredTold(page[t], Settled(page[t], c), [j \in Jobs |-> Verdict(c, j)])
        /\ toolbar' = toolbar \/ toolbar' = Tracked(Swept(page[t], c), t)
        /\ UNCHANGED <<may, row, polled, loads>>
        /\ (c.said # NoJobs \/ "net" \in may)
  BY ReapedIs
<1>2. page[t] \in Page /\ PageGood(page[t]) BY PagesAre
<1>3. \A j \in c.jobs :
        j \in Jobs /\ Verdict(c, j) \in Statuses \ {"none"} /\ Good(j, Verdict(c, j))
  BY <1>1, VerdictIsGood
<1>4. PICK q : q = Swept(page[t], c) OBVIOUS
<1>5. Settled(page[t], c) \subseteq c.jobs BY DEF Settled
<1>6. /\ q \in Page
      /\ \A j \in Jobs :
           /\ q.pill[j] = page[t].pill[j] \/ (j \in c.jobs /\ q.pill[j] = Verdict(c, j))
           /\ q.session[j] = page[t].session[j] \/ (j \in c.jobs /\ q.session[j] = Verdict(c, j))
  BY <1>2, <1>3, <1>4, <1>5, SweptIs
<1>7. PageGood(q) BY <1>2, <1>3, <1>6 DEF PageGood
<1>8. page \in [Tabs -> Page] /\ toolbar \in [Jobs -> Tabs \cup {NoTab}] BY DEF PillTypeOK
<1>9. /\ page' \in [Tabs -> Page]
      /\ \A u \in Tabs : page'[u] = page[u] \/ PageGood(page'[u])
  BY <1>1, <1>4, <1>6, <1>7, <1>8, OnePage
<1>10. PICK said : said = [j \in Jobs |-> Verdict(c, j)] OBVIOUS
<1>11. \A j \in Settled(page[t], c) \cap Jobs : said[j] \in Statuses /\ Good(j, said[j])
  BY <1>3, <1>5, <1>10
<1>12. /\ stored' \in Lists
       /\ \A j \in Jobs : stored'[j] = stored[j] \/ Good(j, stored'[j])
  BY <1>1, <1>10, <1>11, StoringIsGood
<1>13. toolbar' \in [Jobs -> Tabs \cup {NoTab}] BY <1>1, <1>8, TrackedIs
<1> QED BY <1>1, <1>9, <1>12, <1>13, SaidStays

\* No answer, nothing said.
LEMMA ReapFailsSays ==
  ASSUME PillTypeOK, SaidInv, NEW c \in checks, ReapFails(c)
  PROVE  PillTypeOK' /\ SaidInv'
<1>1. checks' = checks \ {c} /\ UNCHANGED <<may, row, stored, page, toolbar, polled, loads>>
  BY DEF ReapFails
<1> QED BY <1>1, SaidStays DEF PillTypeOK

\* A pill goes.
LEMMA PillGoes ==
  ASSUME PillTypeOK, SaidInv, NEW t \in Tabs, NEW j \in Jobs,
         page' = [page EXCEPT ![t].pill[j] = "none"],
         UNCHANGED <<may, row, stored, toolbar, polled, loads, checks>>
  PROVE  PillTypeOK' /\ SaidInv'
<1>1. page[t] \in Page /\ PageGood(page[t]) /\ page \in [Tabs -> Page] BY PagesAre DEF PillTypeOK
<1> DEFINE q == [page[t] EXCEPT !.pill[j] = "none"]
<1>2. "none" \in Statuses BY DEF Statuses
<1>3. q \in Page /\ q.session = page[t].session BY <1>1, <1>2 DEF Page, Lists
<1>4. \A i \in Jobs : q.pill[i] = page[t].pill[i] \/ q.pill[i] = "none" BY <1>1 DEF Page, Lists
<1>5. page' = [page EXCEPT ![t] = q] BY <1>1
<1> HIDE DEF q
<1>6. PageGood(q) BY <1>1, <1>3, <1>4, NothingIsGood DEF PageGood
<1>7. /\ page' \in [Tabs -> Page]
      /\ \A u \in Tabs : page'[u] = page[u] \/ PageGood(page'[u])
  BY <1>1, <1>3, <1>5, <1>6, OnePage
<1> QED BY <1>7, SaidStays DEF PillTypeOK

\* A pill that comes back shows what the session knows.
LEMMA ReopenPillSays ==
  ASSUME PillTypeOK, SaidInv, NEW t \in Tabs, NEW j \in Jobs, ReopenPill(t, j)
  PROVE  PillTypeOK' /\ SaidInv'
<1>1. page[t] \in Page /\ PageGood(page[t]) /\ page \in [Tabs -> Page] BY PagesAre DEF PillTypeOK
<1>2. PICK s : s = page[t].session[j] OBVIOUS
<1>3. s \in Statuses /\ Good(j, s) BY <1>1, <1>2 DEF Page, Lists, PageGood
<1>4. PICK q : q = PillAdded(page[t], j, s) OBVIOUS
<1>5. q \in Page /\ PageGood(q) BY <1>1, <1>3, <1>4, TellingIsGood
<1>6. /\ page' = [page EXCEPT ![t] = q]
      /\ UNCHANGED <<may, row, stored, toolbar, polled, loads, checks>>
  BY <1>2, <1>4 DEF ReopenPill
<1>7. /\ page' \in [Tabs -> Page]
      /\ \A u \in Tabs : page'[u] = page[u] \/ PageGood(page'[u])
  BY <1>1, <1>5, <1>6, OnePage
<1> QED BY <1>6, <1>7, SaidStays DEF PillTypeOK

\* A new page says nothing.
LEMMA FreshSays ==
  ASSUME PillTypeOK, SaidInv, NEW t \in Tabs, NEW q \in {FreshPage, [FreshPage EXCEPT !.shown = FALSE]},
         page' = [page EXCEPT ![t] = q], loads' \subseteq loads, checks' \subseteq checks,
         UNCHANGED <<may, row, stored, toolbar, polled>>
  PROVE  PillTypeOK' /\ SaidInv'
<1>1. q \in Page /\ q.session = NoJobs /\ q.pill = NoJobs BY FreshPageIs
<1>2. PageGood(q) BY <1>1, NoJobsIs, NothingIsGood DEF PageGood
<1>3. /\ page' \in [Tabs -> Page]
      /\ \A u \in Tabs : page'[u] = page[u] \/ PageGood(page'[u])
  BY <1>1, <1>2, OnePage DEF PillTypeOK
<1> QED BY <1>3, SaidStays DEF PillTypeOK

\* Nor does a worker that starts again.
LEMMA RestartWorkerSays ==
  ASSUME PillTypeOK, SaidInv, RestartWorker
  PROVE  PillTypeOK' /\ SaidInv'
<1>1. /\ toolbar' \in [Jobs -> Tabs \cup {NoTab}] /\ polled' = {}
      /\ UNCHANGED <<may, row, stored, page, loads, checks>>
  BY DEF RestartWorker
<1> QED BY <1>1, SaidStays DEF PillTypeOK

\* So every step says what is true,
LEMMA SaidStep ==
  ASSUME PillTypeOK, SaidInv, [PillNext]_pillVars
  PROVE  PillTypeOK' /\ SaidInv'
<1>1. ASSUME NEW j \in Jobs, RelayMoves(j) PROVE PillTypeOK' /\ SaidInv' BY <1>1, RelayMovesSays
<1>2. ASSUME NEW t \in Tabs, LeavePage(t) PROVE PillTypeOK' /\ SaidInv'
  <2>1. PICK q : q = [FreshPage EXCEPT !.shown = FALSE] OBVIOUS
  <2>2. /\ page' = [page EXCEPT ![t] = q] /\ loads' \subseteq loads /\ checks' \subseteq checks
        /\ UNCHANGED <<may, row, stored, toolbar, polled>>
    BY <1>2, <2>1 DEF LeavePage
  <2> QED BY <2>1, <2>2, FreshSays
<1>3. ASSUME NEW t \in Tabs, LoadPage(t) PROVE PillTypeOK' /\ SaidInv'
  <2>1. PICK q : q = FreshPage OBVIOUS
  <2>2. /\ page' = [page EXCEPT ![t] = q] /\ loads' \subseteq loads /\ checks' \subseteq checks
        /\ UNCHANGED <<may, row, stored, toolbar, polled>>
    BY <1>3, <2>1 DEF LoadPage
  <2> QED BY <2>1, <2>2, FreshSays
<1>4. ASSUME NEW t \in Tabs, HydratePage(t) PROVE PillTypeOK' /\ SaidInv' BY <1>4, HydratePageSays
<1>5. ASSUME NEW t \in Tabs, Reap(t) PROVE PillTypeOK' /\ SaidInv' BY <1>5, ReapSays
<1>6. ASSUME NEW t \in Tabs, NEW j \in Jobs, Dispatch(t, j) PROVE PillTypeOK' /\ SaidInv'
  BY <1>6, DispatchSays
<1>7. ASSUME NEW t \in Tabs, NEW j \in Jobs, Wake(t, j) PROVE PillTypeOK' /\ SaidInv'
  BY <1>7, WakeSays
<1>8. ASSUME NEW t \in Tabs, NEW j \in Jobs, ClosePill(t, j) PROVE PillTypeOK' /\ SaidInv'
  BY <1>8, PillGoes DEF ClosePill
<1>9. ASSUME NEW t \in Tabs, NEW j \in Jobs, ReopenPill(t, j) PROVE PillTypeOK' /\ SaidInv'
  BY <1>9, ReopenPillSays
<1>10. ASSUME NEW t \in Tabs, NEW j \in Jobs, Expire(t, j) PROVE PillTypeOK' /\ SaidInv'
  BY <1>10, PillGoes DEF Expire
<1>11. CASE Poll BY <1>11, PollSays
<1>12. CASE RestartWorker BY <1>12, RestartWorkerSays
<1>13. ASSUME NEW m \in polled, Tell(m) PROVE PillTypeOK' /\ SaidInv' BY <1>13, TellSays
<1>14. ASSUME NEW l \in loads, Loaded(l) PROVE PillTypeOK' /\ SaidInv' BY <1>14, LoadedSays
<1>15. ASSUME NEW c \in checks, Answer(c) PROVE PillTypeOK' /\ SaidInv' BY <1>15, AnswerSays
<1>16. ASSUME NEW c \in checks, Restored(c) PROVE PillTypeOK' /\ SaidInv' BY <1>16, RestoredSays
<1>17. ASSUME NEW c \in checks, Reaped(c) PROVE PillTypeOK' /\ SaidInv' BY <1>17, ReapedSays
<1>18. ASSUME NEW c \in checks, ReapFails(c) PROVE PillTypeOK' /\ SaidInv' BY <1>18, ReapFailsSays
<1>19. CASE UNCHANGED pillVars BY <1>19, SaidStays DEF pillVars, PillTypeOK
<1> QED BY <1>1, <1>2, <1>3, <1>4, <1>5, <1>6, <1>7, <1>8, <1>9, <1>10, <1>11, <1>12, <1>13,
           <1>14, <1>15, <1>16, <1>17, <1>18, <1>19 DEF PillNext

\* as the first state does, that says nothing,
LEMMA SaidInit ==
  ASSUME PillInit PROVE PillTypeOK /\ SaidInv
<1>1. /\ may \in Settings /\ row = NoJobs /\ stored = NoJobs
      /\ page = [t \in Tabs |-> FreshPage] /\ toolbar = [j \in Jobs |-> NoTab]
      /\ polled = {} /\ loads = {} /\ checks = {}
  BY DEF PillInit
<1>2. PillTypeOK BY <1>1, NoJobsIs, FreshPageIs DEF PillTypeOK
<1>3. \A t \in Tabs : PageGood(page[t]) BY <1>1, FreshPageIs, NoJobsIs, NothingIsGood DEF PageGood
<1>4. ListGood(stored) BY <1>1, NoJobsIs, NothingIsGood DEF ListGood
<1> QED BY <1>1, <1>2, <1>3, <1>4, NoJobsIs DEF SaidInv

\* and every state.
LEMMA SaidHolds == PillSpec => [](PillTypeOK /\ SaidInv)
<1>1. PillTypeOK /\ SaidInv /\ [PillNext]_pillVars => (PillTypeOK /\ SaidInv)' BY SaidStep
<1> QED BY <1>1, SaidInit, PTL DEF PillSpec

(* The variables have their types, and a poll reads no job that is not      *)
(* there.                                                                   *)
THEOREM PillTypeCorrect == PillSpec => []PillTypeOK
  BY SaidHolds, PTL

(* A page shows a job as ended only if it has ended, and in no other way    *)
(* than it has but for the plain end that status.php tells of a failed job  *)
(* when it is asked in place of the batch: whoever told the page, in        *)
(* whatever order (updateSessionJobStatus, setJobBarStatus,                 *)
(* reapSilentPills, restoreRunningJobBars, fetchSingleJobStatus).           *)
THEOREM ShownEndsAreTrue == PillSpec => []EndsAreTrue
<1>1. PillTypeOK /\ SaidInv => EndsAreTrue
  <2> SUFFICES ASSUME PillTypeOK, SaidInv, NEW t \in Tabs, NEW j \in Jobs,
                      NEW s \in {page[t].session[j], page[t].pill[j]} \cap Ended
               PROVE  row[j] \in Ended /\ (s = row[j] \/ (Unbatched /\ s = Plain(row[j])))
    BY DEF EndsAreTrue
  <2>1. Good(j, s) BY PagesAre DEF PageGood
  <2> QED BY <2>1 DEF Good
<1> QED BY <1>1, SaidHolds, PTL
----------------------------------------------------------------------------
(* Pills: a job that runs has a pill, or its pill is on its way             *)

Backed(p, calls, t, j) ==
  \/ p.pill[j] # "none"
  \/ \E c \in calls : c.by = "restore" /\ c.tab = t /\ j \in c.jobs

PillInv ==
  Undisturbed =>
    \A t \in Tabs, j \in Jobs :
      page[t].session[j] = "open" /\ row[j] = "open" => Backed(page[t], checks, t, j)

LEMMA BackedAfter ==
  ASSUME PillInv, may' = may,
         \A t \in Tabs, j \in Jobs :
           Undisturbed /\ page'[t].session[j] = "open" /\ row'[j] = "open" =>
             \/ Backed(page'[t], checks', t, j)
             \/ /\ page[t].session[j] = "open" /\ row[j] = "open"
                /\ Backed(page[t], checks, t, j) => Backed(page'[t], checks', t, j)
  PROVE  PillInv'
<1>1. (Undisturbed' <=> Undisturbed) /\ (Unbatched' <=> Unbatched) BY DEF Undisturbed, Unbatched
<1>2. ASSUME Undisturbed, NEW t \in Tabs, NEW j \in Jobs,
             page'[t].session[j] = "open", row'[j] = "open"
      PROVE  Backed(page'[t], checks', t, j)
  BY <1>2 DEF PillInv
<1>3. ASSUME NEW t \in Tabs, NEW j \in Jobs, Backed(page'[t], checks', t, j)
      PROVE  Backed(page[t], checks, t, j)'
  BY <1>3 DEF Backed
<1> QED BY <1>1, <1>2, <1>3 DEF PillInv

\* A step that moves no job, shows no more of them as open and takes back no
\* pill and no request.
LEMMA BackedStays ==
  ASSUME PillInv, may' = may, row' = row, checks \subseteq checks',
         \A t \in Tabs, j \in Jobs :
           Undisturbed /\ row[j] = "open" =>
             /\ page'[t].session[j] = "open" => page[t].session[j] = "open"
             /\ page[t].pill[j] # "none" => page'[t].pill[j] # "none"
  PROVE  PillInv'
<1>1. \A t \in Tabs, j \in Jobs :
        Undisturbed /\ page'[t].session[j] = "open" /\ row'[j] = "open" =>
          /\ page[t].session[j] = "open" /\ row[j] = "open"
          /\ Backed(page[t], checks, t, j) => Backed(page'[t], checks', t, j)
  BY DEF Backed
<1> QED BY <1>1, BackedAfter

\* What is said of a job that runs, when nothing disturbs it
LEMMA RunningIsOpen ==
  ASSUME NEW j \in Jobs, NEW s \in Statuses, Good(j, s), Undisturbed, row[j] = "open"
  PROVE  s \in {"none", "open"}
  BY DEF Good, Statuses, Ended, Open

LEMMA PagesOfRunning ==
  ASSUME PillTypeOK, SaidInv, NEW t \in Tabs, NEW j \in Jobs, Undisturbed, row[j] = "open"
  PROVE  page[t].session[j] \in {"none", "open"} /\ page[t].pill[j] \in {"none", "open"}
<1>1. page[t] \in Page /\ PageGood(page[t]) BY PagesAre
<1> QED BY <1>1, RunningIsOpen DEF Page, Lists, PageGood

\* A job that the relay moves has not come to run by it.
LEMMA RelayMovesBacks ==
  ASSUME PillTypeOK, SaidInv, PillInv, NEW j \in Jobs, RelayMoves(j) PROVE PillInv'
<1>1. UNCHANGED <<may, page, checks>> BY DEF RelayMoves
<1>2. \A i \in Jobs : Undisturbed /\ row'[i] = "open" => row[i] = "open"
  BY DEF RelayMoves, SaidInv, PillTypeOK, Lists, Ended
<1> QED BY <1>1, <1>2, BackedAfter

\* A job gets its pill as it is dispatched.
LEMMA DispatchBacks ==
  ASSUME PillTypeOK, SaidInv, PillInv, NEW t \in Tabs, NEW j \in Jobs, Dispatch(t, j) PROVE PillInv'
<1> DEFINE b == [page[t] EXCEPT !.session[j] = "open"]
           p == PillAdded(b, j, "open")
           q == [p EXCEPT !.hydrated = TRUE]
<1>1. /\ row[j] = "none" /\ row' = [row EXCEPT ![j] = "open"]
      /\ page' = [page EXCEPT ![t] = q]
      /\ may' = may /\ checks' = checks
  BY DEF Dispatch
<1>2. /\ row \in Lists /\ page \in [Tabs -> Page] /\ page[t] \in Page /\ "open" \in Statuses
  BY DEF PillTypeOK, Statuses, Open
<1>3. b \in Page /\ b.pill = page[t].pill /\ \A i \in Jobs \ {j} : b.session[i] = page[t].session[i]
  BY <1>2 DEF Page, Lists
<1> HIDE DEF b
<1>4. /\ p \in Page /\ p.session = b.session
      /\ \A i \in Jobs : \/ p.pill[i] = b.pill[i] /\ (i = j => b.pill[i] # "none")
                         \/ i = j /\ b.pill[i] = "none" /\ p.pill[i] = "open"
  BY <1>2, <1>3, PillAddedIs
<1> HIDE DEF p
<1>5. q.session = p.session /\ q.pill = p.pill BY <1>4 DEF Page
<1> HIDE DEF q
<1>6. page'[t] = q /\ \A u \in Tabs \ {t} : page'[u] = page[u] BY <1>1, <1>2
<1>7. q.pill[j] # "none" BY <1>4, <1>5
<1>8. ASSUME NEW i \in Jobs, i # j
      PROVE  q.pill[i] = page[t].pill[i] /\ q.session[i] = page[t].session[i] /\ row'[i] = row[i]
  BY <1>1, <1>2, <1>3, <1>4, <1>5, <1>8 DEF Lists
<1>9. ASSUME NEW u \in Tabs PROVE page[u].session[j] = "none"
  BY <1>1, PagesAre DEF PageGood, Good
<1>10. ASSUME NEW u \in Tabs, NEW i \in Jobs, page'[u].session[i] = "open", row'[i] = "open"
       PROVE  \/ Backed(page'[u], checks', u, i)
              \/ /\ page[u].session[i] = "open" /\ row[i] = "open"
                 /\ Backed(page[u], checks, u, i) => Backed(page'[u], checks', u, i)
  <2>1. CASE i = j /\ u = t BY <1>6, <1>7, <2>1 DEF Backed
  <2>2. CASE i = j /\ u # t BY <1>6, <1>9, <1>10, <2>2
  <2>3. CASE i # j /\ u = t BY <1>1, <1>6, <1>8, <1>10, <2>3 DEF Backed
  <2>4. CASE i # j /\ u # t BY <1>1, <1>6, <1>8, <1>10, <2>4 DEF Backed
  <2> QED BY <2>1, <2>2, <2>3, <2>4
<1> QED BY <1>1, <1>10, BackedAfter

\* Every open job of a hydrated session is asked about.
LEMMA LoadedBacks ==
  ASSUME PillTypeOK, SaidInv, PillInv, NEW l \in loads, Loaded(l) PROVE PillInv'
<1>1. PICK t \in Tabs : t = l.tab BY DEF PillTypeOK, Loads
<1> DEFINE p == Merged(page[t], l.list)
           d == [by |-> "restore", tab |-> t, jobs |-> OpenIn(p), said |-> NoJobs]
<1>2. /\ page' = [page EXCEPT ![t] = p]
      /\ checks' = IF OpenIn(p) = {} THEN checks ELSE checks \cup {d}
      /\ UNCHANGED <<may, row>>
  BY <1>1 DEF Loaded
<1>3. page'[t] = p /\ \A u \in Tabs \ {t} : page'[u] = page[u] BY <1>2 DEF PillTypeOK
<1>4. ASSUME NEW j \in Jobs, page'[t].session[j] = "open" PROVE Backed(page'[t], checks', t, j)
  <2>1. j \in OpenIn(p) BY <1>3, <1>4 DEF OpenIn, Open
  <2>2. d \in checks' /\ d.by = "restore" /\ d.tab = t /\ j \in d.jobs BY <1>2, <2>1
  <2> QED BY <2>2 DEF Backed
<1>5. checks \subseteq checks' BY <1>2
<1>6. ASSUME NEW u \in Tabs \ {t}, NEW j \in Jobs, Backed(page[u], checks, u, j)
      PROVE  Backed(page'[u], checks', u, j)
  BY <1>3, <1>5, <1>6 DEF Backed
<1>7. may' = may /\ row' = row BY <1>2
<1> QED BY <1>3, <1>4, <1>6, <1>7, BackedAfter

\* The answered request is about the same jobs.
LEMMA AnswerBacks ==
  ASSUME PillTypeOK, PillInv, NEW c \in checks, Answer(c) PROVE PillInv'
<1>1. PICK said \in Lists : checks' = (checks \ {c}) \cup {[c EXCEPT !.said = said]} BY DEF Answer
<1>2. PICK d : d = [c EXCEPT !.said = said] OBVIOUS
<1>3. d.by = c.by /\ d.tab = c.tab /\ d.jobs = c.jobs BY <1>2 DEF PillTypeOK, Checks
<1>4. UNCHANGED <<may, row, page>> BY DEF Answer
<1>5. ASSUME NEW t \in Tabs, NEW j \in Jobs, Backed(page[t], checks, t, j)
      PROVE  Backed(page'[t], checks', t, j)
  BY <1>1, <1>2, <1>3, <1>4, <1>5 DEF Backed
<1> QED BY <1>4, <1>5, BackedAfter

\* They get their pills back if they are open still.
LEMMA RestoredBacks ==
  ASSUME PillTypeOK, SaidInv, PillInv, NEW c \in checks, Restored(c) PROVE PillInv'
<1>1. c \in Checks BY DEF PillTypeOK
<1>2. PICK t \in Tabs : t = c.tab /\ c.jobs \subseteq Jobs BY <1>1 DEF Checks
<1>3. page[t] \in Page /\ page \in [Tabs -> Page] BY DEF PillTypeOK
<1> DEFINE p == Corrected(page[t], c)
           back == {j \in c.jobs : p.session[j] \in Open}
           q == [p EXCEPT !.pill = [j \in Jobs |-> IF j \in back THEN p.session[j] ELSE p.pill[j]]]
<1>4. checks' = checks \ {c} /\ page' = [page EXCEPT ![t] = q] /\ UNCHANGED <<may, row>>
  BY <1>2 DEF Restored
<1>5. /\ p \in Page /\ p.pill = page[t].pill
      /\ \A i \in Jobs : p.session[i] = page[t].session[i] \/ i \in c.jobs
  BY <1>1, <1>3, CorrectedIs
<1> HIDE DEF p
<1>6. /\ q.session = p.session
      /\ \A j \in Jobs : q.pill[j] = IF j \in back THEN p.session[j] ELSE p.pill[j]
  BY <1>5 DEF Page
<1>7. page'[t] = q /\ \A u \in Tabs \ {t} : page'[u] = page[u] BY <1>3, <1>4
<1>8. ASSUME NEW j \in Jobs, q.session[j] = "open", j \in c.jobs PROVE q.pill[j] # "none"
  BY <1>6, <1>8 DEF Open
<1>9. ASSUME NEW j \in Jobs, j \notin c.jobs
      PROVE  q.session[j] = page[t].session[j] /\ q.pill[j] = page[t].pill[j]
  BY <1>5, <1>6, <1>9
<1> HIDE DEF q, back
<1>10. ASSUME NEW u \in Tabs, NEW j \in Jobs, page'[u].session[j] = "open", row'[j] = "open"
       PROVE  \/ Backed(page'[u], checks', u, j)
              \/ /\ page[u].session[j] = "open" /\ row[j] = "open"
                 /\ Backed(page[u], checks, u, j) => Backed(page'[u], checks', u, j)
  <2>1. CASE u = t /\ j \in c.jobs BY <1>7, <1>8, <1>10, <2>1 DEF Backed
  <2>2. CASE u = t /\ j \notin c.jobs BY <1>4, <1>7, <1>9, <1>10, <2>2 DEF Backed
  <2>3. CASE u # t BY <1>2, <1>4, <1>7, <1>10, <2>3 DEF Backed
  <2> QED BY <2>1, <2>2, <2>3
<1> QED BY <1>4, <1>10, BackedAfter

\* What a pill is told keeps it there, and opens no job.
LEMMA TellBacks ==
  ASSUME PillTypeOK, SaidInv, PillInv, NEW m \in polled, Tell(m) PROVE PillInv'
<1>1. m.job \in Jobs /\ m.status \in Statuses \ {"none"} BY DEF PillTypeOK
<1> DEFINE t == toolbar[m.job]
<1>2. may' = may /\ row' = row /\ checks' = checks BY DEF Tell
<1>3. CASE page' = page BY <1>2, <1>3, BackedStays
<1>4. CASE t # NoTab /\ page[t].shown
  <2>1. page' = [page EXCEPT ![t] =
                   PillTold(SessionTold(page[t], m.job, m.status), m.job, m.status)]
    BY <1>4 DEF Tell
  <2>2. page \in [Tabs -> Page] /\ toolbar \in [Jobs -> Tabs \cup {NoTab}] BY DEF PillTypeOK
  <2>3. t \in Tabs BY <1>1, <1>4, <2>2
  <2> HIDE DEF t
  <2>4. page[t] \in Page BY <2>2, <2>3
  <2>5. PICK r : r = SessionTold(page[t], m.job, m.status) OBVIOUS
  <2>6. /\ r \in Page /\ r.pill = page[t].pill
        /\ \A i \in Jobs : r.session[i] = page[t].session[i] \/ page[t].session[i] # "none"
    BY <1>1, <2>4, <2>5, SessionToldIs
  <2>7. PICK q : q = PillTold(r, m.job, m.status) OBVIOUS
  <2>8. /\ q.session = r.session
        /\ \A i \in Jobs : q.pill[i] = r.pill[i] \/ q.pill[i] = m.status
    BY <1>1, <2>6, <2>7, PillToldIs
  <2>9. page'[t] = q /\ \A u \in Tabs \ {t} : page'[u] = page[u] BY <2>1, <2>2, <2>3, <2>5, <2>7
  <2>10. \A j \in Jobs : page[t].pill[j] # "none" => q.pill[j] # "none" BY <1>1, <2>6, <2>8
  <2>11. \A j \in Jobs : Undisturbed /\ row[j] = "open" /\ q.session[j] = "open"
           => page[t].session[j] = "open"
    BY <2>3, <2>6, <2>8, PagesOfRunning
  <2> QED BY <1>2, <2>9, <2>10, <2>11, BackedStays
<1> QED BY <1>3, <1>4 DEF Tell

\* A job that has ended needs no pill.
LEMMA WakeBacks ==
  ASSUME PillTypeOK, SaidInv, PillInv, NEW t \in Tabs, NEW j \in Jobs, Wake(t, j) PROVE PillInv'
<1>1. /\ page' = [page EXCEPT ![t] = SessionTold(page[t], j, row[j])] /\ row[j] \in Ended
      /\ may' = may /\ row' = row /\ checks' = checks
  BY DEF Wake
<1>2. page \in [Tabs -> Page] /\ page[t] \in Page /\ row[j] \in Statuses BY DEF PillTypeOK, Lists
<1>3. PICK q : q = SessionTold(page[t], j, row[j]) OBVIOUS
<1>4. q.pill = page[t].pill /\ \A i \in Jobs \ {j} : q.session[i] = page[t].session[i]
  BY <1>2, <1>3, SessionToldIs
<1>5. page'[t] = q /\ \A u \in Tabs \ {t} : page'[u] = page[u] BY <1>1, <1>2, <1>3
<1>6. row[j] # "open" BY <1>1 DEF Ended
<1> QED BY <1>1, <1>4, <1>5, <1>6, BackedStays

\* The sweep takes no pill away, and opens no job.
LEMMA ReapedBacks ==
  ASSUME PillTypeOK, SaidInv, PillInv, NEW c \in checks, Reaped(c) PROVE PillInv'
<1>1. PICK t \in Tabs :
        /\ t = c.tab /\ c.by = "reap" /\ checks' = checks \ {c}
        /\ page' = [page EXCEPT ![t] = Swept(page[t], c)]
        /\ UNCHANGED <<may, row>>
        /\ (c.said # NoJobs \/ "net" \in may)
  BY ReapedIs
<1>2. \A j \in c.jobs : Verdict(c, j) \in Statuses \ {"none"} BY <1>1, VerdictIsGood
<1>3. page \in [Tabs -> Page] /\ page[t] \in Page BY DEF PillTypeOK
<1>4. PICK q : q = Swept(page[t], c) OBVIOUS
<1>5. \A j \in Settled(page[t], c) : j \in c.jobs /\ Verdict(c, j) # "open" BY DEF Settled, Open
<1>6. \A j \in Jobs :
        /\ q.pill[j] = page[t].pill[j] \/ q.pill[j] # "none"
        /\ q.session[j] = page[t].session[j] \/ q.session[j] # "open"
  BY <1>2, <1>3, <1>4, <1>5, SweptIs
<1>7. page'[t] = q /\ \A u \in Tabs \ {t} : page'[u] = page[u] BY <1>1, <1>3, <1>4
<1>8. ASSUME NEW u \in Tabs, NEW j \in Jobs, page'[u].session[j] = "open", row'[j] = "open"
      PROVE  /\ page[u].session[j] = "open" /\ row[j] = "open"
             /\ Backed(page[u], checks, u, j) => Backed(page'[u], checks', u, j)
  <2>1. page[u].session[j] = "open" /\ row[j] = "open" BY <1>1, <1>6, <1>7, <1>8
  <2>2. page[u].pill[j] # "none" => page'[u].pill[j] # "none" BY <1>6, <1>7
  <2>3. \A d \in checks : d.by = "restore" => d \in checks' BY <1>1
  <2> QED BY <2>1, <2>2, <2>3 DEF Backed
<1>9. may' = may BY <1>1
<1> QED BY <1>8, <1>9, BackedAfter

\* A sweep that fails changes nothing of that.
LEMMA ReapFailsBacks ==
  ASSUME PillInv, NEW c \in checks, ReapFails(c) PROVE PillInv'
<1>1. c.by = "reap" /\ checks' = checks \ {c} /\ UNCHANGED <<may, row, page>> BY DEF ReapFails
<1>2. \A d \in checks : d.by = "restore" => d \in checks' BY <1>1
<1>3. \A t \in Tabs, j \in Jobs : Backed(page[t], checks, t, j) => Backed(page'[t], checks', t, j)
  BY <1>1, <1>2 DEF Backed
<1> QED BY <1>1, <1>3, BackedAfter

\* A pill that goes says that its job has ended, as it has.
LEMMA ExpireBacks ==
  ASSUME PillTypeOK, SaidInv, PillInv, NEW t \in Tabs, NEW j \in Jobs, Expire(t, j) PROVE PillInv'
<1>1. /\ page' = [page EXCEPT ![t].pill[j] = "none"] /\ page[t].pill[j] \in Ended \cup {"stale"}
      /\ may' = may /\ row' = row /\ checks' = checks
  BY DEF Expire
<1>2. Undisturbed => row[j] # "open" BY <1>1, PagesOfRunning DEF Ended
<1>3. page \in [Tabs -> Page] /\ page[t] \in Page BY DEF PillTypeOK
<1>4. \A u \in Tabs, i \in Jobs :
        /\ page'[u].session[i] = page[u].session[i]
        /\ page'[u].pill[i] = page[u].pill[i] \/ i = j
  BY <1>1, <1>3 DEF Page, Lists
<1> QED BY <1>1, <1>2, <1>4, BackedStays

\* A page that starts again knows no job.
LEMMA FreshBacks ==
  ASSUME PillTypeOK, PillInv, NEW t \in Tabs, NEW q \in {FreshPage, [FreshPage EXCEPT !.shown = FALSE]},
         page' = [page EXCEPT ![t] = q], \A c \in checks : c.tab # t => c \in checks',
         UNCHANGED <<may, row>>
  PROVE  PillInv'
<1>1. \A j \in Jobs : q.session[j] # "open" BY FreshPageIs, NoJobsIs
<1>2. page'[t] = q /\ \A u \in Tabs \ {t} : page'[u] = page[u] BY DEF PillTypeOK
<1>3. \A u \in Tabs \ {t}, j \in Jobs :
        Backed(page[u], checks, u, j) => Backed(page'[u], checks', u, j)
  BY <1>2 DEF Backed
<1>4. \A u \in Tabs, j \in Jobs :
        page'[u].session[j] = "open" /\ row'[j] = "open" =>
          /\ page[u].session[j] = "open" /\ row[j] = "open"
          /\ Backed(page[u], checks, u, j) => Backed(page'[u], checks', u, j)
  BY <1>1, <1>2, <1>3
<1> QED BY <1>4, BackedAfter

\* So every step leaves the jobs that run their pills.
LEMMA PillStep ==
  ASSUME PillTypeOK, SaidInv, PillInv, [PillNext]_pillVars PROVE PillInv'
<1>1. ASSUME NEW j \in Jobs, RelayMoves(j) PROVE PillInv' BY <1>1, RelayMovesBacks
<1>2. ASSUME NEW t \in Tabs, LeavePage(t) PROVE PillInv'
  <2>1. PICK q : q = [FreshPage EXCEPT !.shown = FALSE] OBVIOUS
  <2>2. page' = [page EXCEPT ![t] = q] /\ UNCHANGED <<may, row>> BY <1>2, <2>1 DEF LeavePage
  <2>3. \A c \in checks : c.tab # t => c \in checks' BY <1>2 DEF LeavePage, Of
  <2> QED BY <2>1, <2>2, <2>3, FreshBacks
<1>3. ASSUME NEW t \in Tabs, LoadPage(t) PROVE PillInv'
  <2>1. PICK q : q = FreshPage OBVIOUS
  <2>2. page' = [page EXCEPT ![t] = q] /\ UNCHANGED <<may, row, checks>> BY <1>3, <2>1 DEF LoadPage
  <2> QED BY <2>1, <2>2, FreshBacks
<1>4. ASSUME NEW t \in Tabs, HydratePage(t) PROVE PillInv'
  <2>1. page' = [page EXCEPT ![t].hydrated = TRUE] /\ UNCHANGED <<may, row, checks>>
    BY <1>4 DEF HydratePage
  <2>2. page \in [Tabs -> Page] BY DEF PillTypeOK
  <2>3. \A u \in Tabs : page'[u].session = page[u].session /\ page'[u].pill = page[u].pill
    BY <2>1, <2>2 DEF Page
  <2> QED BY <2>1, <2>3, BackedStays
<1>5. ASSUME NEW t \in Tabs, Reap(t) PROVE PillInv' BY <1>5, BackedStays DEF Reap
<1>6. ASSUME NEW t \in Tabs, NEW j \in Jobs, Dispatch(t, j) PROVE PillInv' BY <1>6, DispatchBacks
<1>7. ASSUME NEW t \in Tabs, NEW j \in Jobs, Wake(t, j) PROVE PillInv' BY <1>7, WakeBacks
<1>8. ASSUME "close" \in may, may' = may PROVE PillInv' BY <1>8 DEF PillInv, Undisturbed
<1>9. ASSUME NEW t \in Tabs, NEW j \in Jobs, ClosePill(t, j) \/ ReopenPill(t, j) PROVE PillInv'
  BY <1>8, <1>9 DEF ClosePill, ReopenPill
<1>10. ASSUME NEW t \in Tabs, NEW j \in Jobs, Expire(t, j) PROVE PillInv' BY <1>10, ExpireBacks
<1>11. CASE Poll BY <1>11, BackedStays DEF Poll
<1>12. CASE RestartWorker BY <1>12, BackedStays DEF RestartWorker
<1>13. ASSUME NEW m \in polled, Tell(m) PROVE PillInv' BY <1>13, TellBacks
<1>14. ASSUME NEW l \in loads, Loaded(l) PROVE PillInv' BY <1>14, LoadedBacks
<1>15. ASSUME NEW c \in checks, Answer(c) PROVE PillInv' BY <1>15, AnswerBacks
<1>16. ASSUME NEW c \in checks, Restored(c) PROVE PillInv' BY <1>16, RestoredBacks
<1>17. ASSUME NEW c \in checks, Reaped(c) PROVE PillInv' BY <1>17, ReapedBacks
<1>18. ASSUME NEW c \in checks, ReapFails(c) PROVE PillInv' BY <1>18, ReapFailsBacks
<1>19. CASE UNCHANGED pillVars BY <1>19, BackedStays DEF pillVars
<1> QED BY <1>1, <1>2, <1>3, <1>4, <1>5, <1>6, <1>7, <1>9, <1>10, <1>11, <1>12, <1>13,
           <1>14, <1>15, <1>16, <1>17, <1>18, <1>19 DEF PillNext

(* A job that runs, and that the page knows to run, has a pill there once   *)
(* no hydration and no check of the page's is under way, unless the user    *)
(* closed it or the job was stale for a time (restoreRunningJobBars,        *)
(* addJobBar, tryExpireTerminalPill).                                       *)
THEOREM RunningArePilled == PillSpec => []RunningJobsHavePills
<1>1. PillInit => PillInv BY NoJobsIs DEF PillInit, PillInv
<1>2. PillTypeOK /\ SaidInv /\ PillInv /\ [PillNext]_pillVars => PillInv' BY PillStep
<1>3. PillInv => RunningJobsHavePills
  <2> SUFFICES ASSUME PillInv, Undisturbed, NEW t \in Tabs, Of(t, checks) = {},
                      NEW j \in OpenIn(page[t]), row[j] \in Open
               PROVE  page[t].pill[j] # "none"
    BY DEF RunningJobsHavePills, Undisturbed
  <2>1. Backed(page[t], checks, t, j) BY DEF PillInv, OpenIn, Open
  <2> QED BY <2>1 DEF Backed, Of
<1> QED BY <1>1, <1>2, <1>3, SaidHolds, PTL DEF PillSpec

----------------------------------------------------------------------------
(* Favicon: the icon and the head it writes to                              *)

(* What holds of the indicator between any two of its writes: an icon that  *)
(* is gone, or has given up, has left nothing behind.                       *)
AtRest(f) == ~ f.tick /\ ~ f.captured /\ f.own = "none" /\ f.pending = "none"
Fine(f) ==
  /\ f \in Fav
  /\ f.due => f.pending # "none"
  /\ f.broken \/ f.state = "none" => AtRest(f)
  /\ ~ f.captured => f.saved = {}

(* The page's icons are in its head, or set aside.                          *)
Home(f, icons) ==
  IF f.captured THEN f.saved = icons /\ f.links \subseteq icons ELSE f.links = icons

\* What a write keeps.
Kept(f, g) ==
  /\ Fine(g) /\ g.state = f.state
  /\ \A icons : Home(f, icons) => Home(g, icons)
  /\ f.captured => g.captured \/ g.broken
  /\ f.broken => g.broken
  /\ g.broken \/ g.tick = f.tick

On(f) == Fine(f) /\ f.state # "none" /\ ~ f.broken

-----------------------------------------------------------------------------
(* The ways to the head.                                                    *)

\* The indicator gives up.
LEMMA DisabledIs ==
  ASSUME NEW f, f \in Fav, ~ f.captured => f.saved = {}
  PROVE  Kept(f, Disabled(f)) /\ Disabled(f).broken
<1> DEFINE g == Disabled(f)
<1>1. /\ g \in Fav /\ g.broken = TRUE /\ g.tick = FALSE /\ g.pending = "none" /\ g.due = FALSE
      /\ g.links = f.links \cup f.saved /\ g.saved = {} /\ g.captured = FALSE /\ g.own = "none"
      /\ g.state = f.state
  BY DEF Disabled, Fav, Shown
<1>. HIDE DEF g
<1>2. Fine(g)
  BY <1>1 DEF Fine, AtRest
<1>3. \A icons : Home(f, icons) => Home(g, icons)
  BY <1>1 DEF Home, Fav
<1>4. Kept(f, g) /\ g.broken
  BY <1>1, <1>2, <1>3 DEF Kept
<1>. QED
  BY <1>4 DEF g

\* Writes are counted.
LEMMA CountedIs ==
  ASSUME NEW f, On(f), NEW n \in Nat
  PROVE  Kept(f, Counted(f, n))
<1> DEFINE h == [f EXCEPT !.recent = f.recent + n]
<1>1. CASE f.recent + n > WriteLimit
  <2> DEFINE g == [h EXCEPT !.recent = 0]
  <2>1. Counted(f, n) = Disabled(g)
    BY <1>1 DEF Counted, On, Fine, Fav
  <2>2. /\ g \in Fav /\ g.captured = f.captured /\ g.saved = f.saved /\ g.links = f.links /\ g.state = f.state
    <3>1. f \in Fav /\ 0 \in 0 .. WriteLimit
      BY LimitAssumption DEF On, Fine
    <3>2. g = [f EXCEPT !.recent = 0]
      BY <3>1 DEF Fav
    <3>. HIDE DEF g
    <3>. QED
      BY <3>1, <3>2 DEF Fav
  <2>. HIDE DEF g, h
  <2>3. Kept(g, Disabled(g)) /\ Disabled(g).broken
    BY <2>2, DisabledIs DEF On, Fine
  <2>4. \A icons : Home(f, icons) => Home(g, icons)
    BY <2>2 DEF Home
  <2>. QED
    BY <2>1, <2>2, <2>3, <2>4 DEF Kept
<1>2. CASE ~ (f.recent + n > WriteLimit)
  <2>1. Counted(f, n) = h
    BY <1>2 DEF Counted, On, Fine, Fav
  <2>2. f.recent + n \in 0 .. WriteLimit
    BY <1>2, LimitAssumption DEF On, Fine, Fav
  <2>3. /\ h \in Fav /\ h.captured = f.captured /\ h.saved = f.saved /\ h.links = f.links /\ h.state = f.state
        /\ h.due = f.due /\ h.pending = f.pending /\ h.broken = f.broken /\ h.tick = f.tick /\ h.own = f.own
    BY <2>2 DEF On, Fine, Fav
  <2>. HIDE DEF h
  <2>. QED
    BY <2>1, <2>3 DEF Kept, Home, On, Fine, AtRest
<1>. QED
  BY <1>1, <1>2

\* The icon is written; an icon that says nothing is never written.
LEMMA DoApplyIs ==
  ASSUME NEW f, On(f), NEW href \in Shown
  PROVE  Kept(f, DoApply(f, href))
<1> DEFINE g == Written(f, href)
<1>1. /\ g \in Fav /\ g.captured = f.captured /\ g.saved = f.saved /\ g.links = f.links /\ g.state = f.state
      /\ g.due = f.due /\ g.pending = f.pending /\ g.broken = f.broken /\ g.tick = f.tick
  BY DEF Written, On, Fine, Fav
<1>. HIDE DEF g
<1>2. On(g) /\ Kept(f, g)
  BY <1>1 DEF On, Fine, Kept, Home
<1>3. Kept(g, Counted(g, 1))
  BY <1>2, CountedIs
<1>4. Kept(f, f)
  BY DEF Kept, On
<1>. QED
  BY <1>1, <1>2, <1>3, <1>4 DEF DoApply, Kept, g, On

\* A write waits for the end of the rate floor.
LEMMA ApplyIs ==
  ASSUME NEW f, On(f), NEW href \in Shown, href # "none"
  PROVE  Kept(f, Apply(f, href))
<1>1. CASE f.hot
  <2> DEFINE g == [f EXCEPT !.pending = href]
  <2>1. /\ g \in Fav /\ g.captured = f.captured /\ g.saved = f.saved /\ g.links = f.links /\ g.state = f.state
        /\ g.due = f.due /\ g.pending = href /\ g.broken = f.broken /\ g.tick = f.tick
    BY DEF On, Fine, Fav
  <2>2. Apply(f, href) = g
    BY <1>1 DEF Apply, On
  <2>. HIDE DEF g
  <2>. QED
    BY <2>1, <2>2 DEF On, Fine, Kept, Home
<1>2. CASE ~ f.hot
  <2> DEFINE g == [f EXCEPT !.hot = TRUE]
  <2>1. /\ g \in Fav /\ g.captured = f.captured /\ g.saved = f.saved /\ g.links = f.links /\ g.state = f.state
        /\ g.due = f.due /\ g.pending = f.pending /\ g.broken = f.broken /\ g.tick = f.tick
    BY DEF On, Fine, Fav
  <2>2. Apply(f, href) = DoApply(g, href)
    BY <1>2 DEF Apply, On
  <2>. HIDE DEF g
  <2>3. On(g) /\ Kept(f, g)
    BY <2>1 DEF On, Fine, Kept, Home
  <2>4. Kept(g, DoApply(g, href))
    BY <2>3, DoApplyIs
  <2>. QED
    BY <2>1, <2>2, <2>3, <2>4 DEF Kept
<1>. QED
  BY <1>1, <1>2

\* The page's icons are removed.
LEMMA RemovedIs ==
  ASSUME NEW f, On(f), f.captured
  PROVE  Kept(f, Removed(f))
<1> DEFINE g == [f EXCEPT !.links = {}]
<1>1. /\ g \in Fav /\ g.captured = f.captured /\ g.saved = f.saved /\ g.links = {} /\ g.state = f.state
      /\ g.due = f.due /\ g.pending = f.pending /\ g.broken = f.broken /\ g.tick = f.tick
  BY DEF On, Fine, Fav
<1>2. Cardinality(f.links) \in Nat
  BY LimitAssumption, FS_Subset, FS_CardinalityType DEF On, Fine, Fav
<1>3. Removed(f) = IF f.links = {} THEN f ELSE Counted(g, Cardinality(f.links))
  BY DEF Removed
<1>. HIDE DEF g
<1>4. On(g) /\ Kept(f, g)
  BY <1>1 DEF On, Fine, Kept, Home
<1>5. Kept(g, Counted(g, Cardinality(f.links)))
  BY <1>2, <1>4, CountedIs
<1>6. Kept(f, f)
  BY DEF Kept, On
<1>. QED
  BY <1>1, <1>3, <1>4, <1>5, <1>6 DEF Kept

\* They are set aside, once.
LEMMA CapturedIs ==
  ASSUME NEW f, On(f)
  PROVE  Kept(f, Captured(f)) /\ (Captured(f).captured \/ Captured(f).broken)
<1> DEFINE g == [f EXCEPT !.captured = TRUE, !.saved = f.links]
<1>1. CASE f.captured
  BY <1>1 DEF Captured, Kept, On
<1>2. CASE ~ f.captured
  <2>1. /\ g \in Fav /\ g.captured /\ g.saved = f.links /\ g.links = f.links /\ g.state = f.state
        /\ g.due = f.due /\ g.pending = f.pending /\ g.broken = f.broken /\ g.tick = f.tick
    BY DEF On, Fine, Fav
  <2>2. Captured(f) = Removed(g)
    BY <1>2 DEF Captured
  <2>. HIDE DEF g
  <2>3. On(g) /\ Kept(f, g)
    BY <1>2, <2>1 DEF On, Fine, Kept, Home
  <2>4. Kept(g, Removed(g))
    BY <2>1, <2>3, RemovedIs
  <2>. QED
    BY <2>1, <2>2, <2>3, <2>4 DEF Kept
<1>. QED
  BY <1>1, <1>2

\* What an icon that says something shows.
LEMMA HrefIs ==
  ASSUME NEW f, On(f)
  PROVE  Href(f) \in Shown /\ Href(f) # "none"
<1>1. f.state \in {"running", "outputting", "waiting", "success", "error"}
  BY DEF On, Fine, Fav, States
<1>2. CASE f.state = "outputting"
  BY <1>2 DEF Href, Shown
<1>3. CASE f.state = "running"
  BY <1>3 DEF Href, Shown
<1>4. CASE f.state \in {"waiting", "success", "error"}
  <2>1. Href(f) = f.state
    BY <1>4 DEF Href
  <2>. QED
    BY <1>4, <2>1 DEF Shown
<1>. QED
  BY <1>1, <1>2, <1>3, <1>4

\* Frames are asked for.
LEMMA AskedIs ==
  ASSUME NEW f, On(f)
  PROVE  Kept(f, Asked(f)) /\ On(Asked(f)) /\ Asked(f).captured = f.captured
<1>1. CASE f.state # "running" \/ f.still
  BY <1>1 DEF Asked, Kept, On
<1>2. CASE ~ (f.state # "running" \/ f.still)
  <2> DEFINE frames == IF f.frames = "unasked" THEN "loading" ELSE f.frames
             g == [f EXCEPT !.frames = frames, !.still = f.frames = "failed"]
  <2>1. Asked(f) = g
    BY <1>2 DEF Asked, On, Fine, Fav
  <2>2. /\ g \in Fav /\ g.captured = f.captured /\ g.saved = f.saved /\ g.links = f.links /\ g.state = f.state
        /\ g.due = f.due /\ g.pending = f.pending /\ g.broken = f.broken /\ g.tick = f.tick
    <3>1. frames \in {"unasked", "loading", "ready", "failed"} /\ (f.frames = "failed") \in BOOLEAN
      BY DEF On, Fine, Fav
    <3>. HIDE DEF frames
    <3>. QED
      BY <3>1 DEF On, Fine, Fav
  <2>. HIDE DEF g
  <2>. QED
    BY <2>1, <2>2 DEF On, Fine, Kept, Home
<1>. QED
  BY <1>1, <1>2

-----------------------------------------------------------------------------
(* The indicator between two steps.                                         *)
Homely(f, icons) ==
  /\ Home(f, icons)
  /\ displace /\ ~ f.broken /\ f.state # "none" => f.captured

FavInv ==
  /\ Fine(fav) /\ (fav.tick <=> fav.state # "none" /\ ~ fav.broken)
  /\ {"rewrite", "displace"} \cap may = {} => Homely(fav, wanted)

OtherTypes ==
  /\ may \in Settings
  /\ status \in [Ids -> JobStatuses]
  /\ talking \in BOOLEAN /\ watch \in {"none", "first", "idle"}
  /\ enabled \in BOOLEAN /\ displace \in BOOLEAN
  /\ wanted \subseteq Icons

IconInv == OtherTypes /\ FavInv

\* A step that leaves the icon out of its hands.
Ticking(f) == Fine(f) /\ (f.tick <=> f.state # "none" /\ ~ f.broken)

\* The icon steps aside.
LEMMA ClearedIs ==
  ASSUME NEW f, Fine(f)
  PROVE  LET g == Cleared(f) IN
         Ticking(g) /\ \A icons : Home(f, icons) => Homely(g, icons)
<1> DEFINE g == Cleared(f)
<1>1. /\ g \in Fav /\ g.broken = f.broken /\ g.tick = FALSE /\ g.pending = "none" /\ g.due = FALSE
      /\ g.links = f.links \cup f.saved /\ g.saved = {} /\ g.captured = FALSE /\ g.own = "none"
      /\ g.state = "none"
  BY DEF Cleared, Fine, Fav, Shown, States
<1>. HIDE DEF g
<1>2. Ticking(g)
  BY <1>1 DEF Fine, AtRest, Ticking
<1>3. \A icons : Home(f, icons) => Homely(g, icons)
  BY <1>1 DEF Home, Homely, Fine, Fav
<1>. QED
  BY <1>2, <1>3 DEF g

\* A new state is shown.
LEMMA SetStateIs ==
  ASSUME NEW f, Ticking(f), NEW s \in States
  PROVE  LET g == SetState(f, s) IN
         Ticking(g) /\ \A icons : Homely(f, icons) => Homely(g, icons)
<1>1. CASE f.broken \/ f.state = s
  BY <1>1 DEF SetState
<1>2. CASE ~ f.broken /\ f.state # s /\ s = "none"
  <2>1. SetState(f, s) = Cleared(f)
    BY <1>2 DEF SetState
  <2>. QED
    BY <2>1, ClearedIs DEF Ticking, Homely
<1>3. CASE ~ f.broken /\ f.state # s /\ s # "none"
  <2> DEFINE e == [f EXCEPT !.state = s]
             g == IF displace THEN Captured(e) ELSE e
             h == Apply(Asked(g), Href(Asked(g)))
  <2>1. /\ e \in Fav /\ e.captured = f.captured /\ e.saved = f.saved /\ e.links = f.links /\ e.state = s
        /\ e.due = f.due /\ e.pending = f.pending /\ e.broken = f.broken /\ e.tick = f.tick
    BY DEF Ticking, Fine, Fav
  <2>2. SetState(f, s) = IF g.broken \/ h.broken THEN IF g.broken THEN g ELSE h ELSE [h EXCEPT !.tick = TRUE]
    BY <1>3 DEF SetState
  <2>. HIDE DEF e
  <2>3. On(e) /\ (\A icons : Home(f, icons) => Home(e, icons))
    BY <1>3, <2>1 DEF On, Fine, Home, Ticking
  <2>4. Kept(e, g) /\ (displace => g.captured \/ g.broken)
    BY <2>3, CapturedIs DEF Kept, On
  <2>. HIDE DEF g
  <2>5. CASE g.broken
    <3>1. SetState(f, s) = g
      BY <2>2, <2>5
    <3>2. Ticking(g) /\ \A icons : Home(f, icons) => Homely(g, icons)
      BY <2>3, <2>4, <2>5 DEF Ticking, Homely, Kept, Fine, AtRest
    <3>. QED
      BY <3>1, <3>2 DEF Homely
  <2>6. CASE ~ g.broken
    <3>1. On(g)
      BY <1>3, <2>1, <2>4, <2>6 DEF On, Kept
    <3>2. Kept(g, Asked(g)) /\ On(Asked(g)) /\ Asked(g).captured = g.captured
      BY <3>1, AskedIs
    <3>3. Kept(Asked(g), h)
      BY <3>2, HrefIs, ApplyIs
    <3>. HIDE DEF h
    <3>4. Fine(h) /\ h.state = s /\ (\A icons : Home(f, icons) => Home(h, icons)) /\ (displace => h.captured \/ h.broken)
      BY <2>1, <2>3, <2>4, <2>6, <3>2, <3>3 DEF Kept
    <3>5. CASE h.broken
      <4>1. SetState(f, s) = h
        BY <2>2, <2>6, <3>5
      <4>2. Ticking(h) /\ \A icons : Home(f, icons) => Homely(h, icons)
        BY <3>4, <3>5 DEF Ticking, Homely, Fine, AtRest
      <4>. QED
        BY <4>1, <4>2 DEF Homely
    <3>6. CASE ~ h.broken
      <4> DEFINE u == [h EXCEPT !.tick = TRUE]
      <4>1. SetState(f, s) = u
        BY <2>2, <2>6, <3>6
      <4>2. /\ u \in Fav /\ u.captured = h.captured /\ u.saved = h.saved /\ u.links = h.links /\ u.state = h.state
            /\ u.due = h.due /\ u.pending = h.pending /\ u.broken = h.broken /\ u.tick = TRUE
        BY <3>4 DEF Fine, Fav
      <4>. HIDE DEF u
      <4>3. Ticking(u) /\ \A icons : Home(f, icons) => Homely(u, icons)
        BY <1>3, <3>4, <3>6, <4>2 DEF Ticking, Homely, Home, Fine
      <4>. QED
        BY <4>1, <4>3 DEF Homely
    <3>. QED
      BY <3>5, <3>6
  <2>. QED
    BY <2>5, <2>6
<1>. QED
  BY <1>1, <1>2, <1>3

\* What the icon should say is something it can.
LEMMA TargetIs == \A ids, st, w : Target(ids, st, w) \in States
BY DEF Target, OfLatest, States

-----------------------------------------------------------------------------
(* The steps.                                                               *)

\* A step that gives the icon a new face, or none.
LEMMA NewFace ==
  ASSUME IconInv, OtherTypes', UNCHANGED <<may, displace, wanted>>,
         NEW g, fav' = g, Ticking(g),
         {"rewrite", "displace"} \cap may = {} => Homely(g, wanted)
  PROVE  IconInv'
<1>1. Homely(g, wanted) => Homely(g, wanted)'
  BY DEF Homely, Home
<1>2. FavInv'
  BY <1>1 DEF FavInv, Ticking
<1>. QED
  BY <1>2 DEF IconInv

\* The icon follows the session and the watcher.
LEMMA UpdateInv ==
  ASSUME IconInv, OtherTypes', UNCHANGED <<may, displace, wanted>>, Update
  PROVE  IconInv'
<1>1. CASE enabled'
  <2> DEFINE s == Target(log', status', watch')
             g == SetState(fav, s)
  <2>1. fav' = g
    BY <1>1 DEF Update
  <2>2. Ticking(g) /\ \A icons : Homely(fav, icons) => Homely(g, icons)
    <3>1. s \in States /\ Ticking(fav)
      BY TargetIs DEF IconInv, FavInv, Ticking
    <3>. HIDE DEF s
    <3>. QED
      BY <3>1, SetStateIs
  <2>. HIDE DEF g
  <2>. QED
    BY <2>1, <2>2, NewFace DEF IconInv, FavInv
<1>2. CASE ~ enabled'
  <2>1. fav' = fav
    BY <1>2 DEF Update
  <2>. QED
    BY <2>1, NewFace DEF IconInv, FavInv, Ticking
<1>. QED
  BY <1>1, <1>2

\* Steps of the session, the watcher and the settings.
LEMMA TellingInv ==
  ASSUME IconInv,
         \/ \E j \in Jobs : Record(j) \/ Hydrate(j) \/ Told(j) \/ Delivered(j) \/ RemoveSessionJob(j)
         \/ Talk \/ OutputWatchTick \/ ToggleIndicator
  PROVE  IconInv'
<1>0. OtherTypes /\ \A j \in Jobs : j \in Ids /\ Delivery(j) \in Ids
  BY DEF IconInv, Ids
<1>1. ASSUME NEW j \in Jobs, Record(j) PROVE IconInv'
  <2>1. OtherTypes' /\ UNCHANGED <<may, displace, wanted>> /\ Update
    BY <1>0, <1>1 DEF Record, OtherTypes, JobStatuses
  <2>. QED
    BY <2>1, UpdateInv
<1>2. ASSUME NEW j \in Jobs, Hydrate(j) PROVE IconInv'
  <2>1. OtherTypes' /\ UNCHANGED <<may, displace, wanted>> /\ Update
    BY <1>0, <1>2 DEF Hydrate, OtherTypes, JobStatuses
  <2>. QED
    BY <2>1, UpdateInv
<1>3. ASSUME NEW j \in Jobs, Told(j) PROVE IconInv'
  <2>1. OtherTypes' /\ UNCHANGED <<may, displace, wanted>> /\ Update
    BY <1>0, <1>3 DEF Told, OtherTypes, JobStatuses
  <2>. QED
    BY <2>1, UpdateInv
<1>4. ASSUME NEW j \in Jobs, Delivered(j) PROVE IconInv'
  <2>1. OtherTypes' /\ UNCHANGED <<may, displace, wanted>>
    BY <1>0, <1>4 DEF Delivered, OtherTypes, JobStatuses
  <2>2. Update \/ fav' = fav
    BY <1>4 DEF Delivered
  <2>. QED
    BY <2>1, <2>2, UpdateInv, NewFace DEF IconInv, FavInv, Ticking
<1>5. ASSUME NEW j \in Jobs, RemoveSessionJob(j) PROVE IconInv'
  <2>1. OtherTypes' /\ UNCHANGED <<may, displace, wanted>> /\ fav' = fav
    BY <1>0, <1>5 DEF RemoveSessionJob, OtherTypes, JobStatuses
  <2>. QED
    BY <2>1, NewFace DEF IconInv, FavInv, Ticking
<1>6. ASSUME Talk PROVE IconInv'
  <2>1. OtherTypes' /\ UNCHANGED <<may, displace, wanted>> /\ fav' = fav
    BY <1>0, <1>6 DEF Talk, OtherTypes
  <2>. QED
    BY <2>1, NewFace DEF IconInv, FavInv, Ticking
<1>7. ASSUME OutputWatchTick PROVE IconInv'
  <2>1. UNCHANGED <<may, log, status, talking, enabled, displace, wanted>> /\ (Update \/ fav' = fav)
    BY <1>7 DEF OutputWatchTick, session
  <2>2. watch' \in {"none", "first", "idle"}
    BY <1>7 DEF OutputWatchTick
  <2>3. OtherTypes'
    BY <1>0, <2>1, <2>2 DEF OtherTypes
  <2>. QED
    BY <2>1, <2>3, UpdateInv, NewFace DEF IconInv, FavInv, Ticking
<1>8. ASSUME ToggleIndicator PROVE IconInv'
  <2>1. OtherTypes' /\ UNCHANGED <<may, displace, wanted>> /\ Update
    BY <1>0, <1>8 DEF ToggleIndicator, OtherTypes, session
  <2>. QED
    BY <2>1, UpdateInv
<1>. QED
  BY <1>1, <1>2, <1>3, <1>4, <1>5, <1>6, <1>7, <1>8

\* The setting is switched while the icon is up; nothing happens to it.
LEMMA ToggleDisplaceInv == IconInv /\ ToggleDisplace => IconInv'
BY DEF ToggleDisplace, IconInv, OtherTypes, FavInv

\* The page puts its icons back.
LEMMA PageReassertsInv == IconInv /\ PageReasserts => IconInv'
<1>. SUFFICES ASSUME IconInv, PageReasserts PROVE IconInv'
  OBVIOUS
<1> DEFINE g == [fav EXCEPT !.links = wanted, !.last = FALSE]
<1>1. fav' = g /\ UNCHANGED <<may, log, status, talking, watch, enabled, displace, wanted>>
  BY DEF PageReasserts
<1>2. /\ g \in Fav /\ g.captured = fav.captured /\ g.saved = fav.saved /\ g.links = wanted /\ g.state = fav.state
      /\ g.due = fav.due /\ g.pending = fav.pending /\ g.broken = fav.broken /\ g.tick = fav.tick /\ g.own = fav.own
  BY DEF IconInv, OtherTypes, FavInv, Fine, Fav
<1>. HIDE DEF g
<1>3. Ticking(g)
  BY <1>2 DEF IconInv, FavInv, Ticking, Fine, AtRest
<1>4. Homely(fav, wanted) => Homely(g, wanted)
  BY <1>2 DEF Homely, Home
<1>5. OtherTypes'
  BY <1>1 DEF IconInv, OtherTypes
<1>. QED
  BY <1>1, <1>3, <1>4, <1>5, NewFace DEF IconInv, FavInv

\* The page rewrites its head.
LEMMA PageRewritesInv == IconInv /\ PageRewrites => IconInv'
<1>. SUFFICES ASSUME IconInv, PageRewrites PROVE IconInv'
  OBVIOUS
<1>1. PICK icons \in SUBSET Icons :
        /\ wanted' = icons
        /\ fav' = [fav EXCEPT !.links = icons, !.own = "none", !.last = FALSE]
  BY DEF PageRewrites
<1> DEFINE g == [fav EXCEPT !.links = icons, !.own = "none", !.last = FALSE]
<1>2. "rewrite" \in may /\ UNCHANGED <<may, log, status, talking, watch, enabled, displace>>
  BY DEF PageRewrites
<1>3. /\ g \in Fav /\ g.captured = fav.captured /\ g.saved = fav.saved /\ g.state = fav.state
      /\ g.due = fav.due /\ g.pending = fav.pending /\ g.broken = fav.broken /\ g.tick = fav.tick /\ g.own = "none"
  BY DEF IconInv, FavInv, Fine, Fav, Shown
<1>4. fav' = g
  BY <1>1
<1>. HIDE DEF g
<1>5. Ticking(g)
  BY <1>3 DEF IconInv, FavInv, Ticking, Fine, AtRest
<1>6. OtherTypes'
  BY <1>1, <1>2 DEF IconInv, OtherTypes
<1>. QED
  BY <1>2, <1>4, <1>5, <1>6 DEF IconInv, FavInv, Ticking

\* The rate floor has passed.
LEMMA CoolInv == IconInv /\ Cool => IconInv'
<1>. SUFFICES ASSUME IconInv, Cool PROVE IconInv'
  OBVIOUS
<1> DEFINE g == [fav EXCEPT !.hot = FALSE, !.due = fav.pending # "none"]
<1>1. fav' = g /\ UNCHANGED <<may, log, status, talking, watch, enabled, displace, wanted>>
  BY DEF Cool, only
<1>2. /\ g \in Fav /\ g.captured = fav.captured /\ g.saved = fav.saved /\ g.links = fav.links /\ g.state = fav.state
      /\ (g.due <=> fav.pending # "none") /\ g.pending = fav.pending /\ g.broken = fav.broken
      /\ g.tick = fav.tick /\ g.own = fav.own
  <2> DEFINE due == fav.pending # "none"
  <2>1. due \in BOOLEAN /\ fav \in Fav
    BY DEF IconInv, FavInv, Fine
  <2>. HIDE DEF due
  <2>2. LET h == [fav EXCEPT !.hot = FALSE, !.due = due] IN
        /\ h \in Fav /\ h.captured = fav.captured /\ h.saved = fav.saved /\ h.links = fav.links /\ h.state = fav.state
        /\ h.due = due /\ h.pending = fav.pending /\ h.broken = fav.broken
        /\ h.tick = fav.tick /\ h.own = fav.own
    BY <2>1 DEF Fav
  <2>. QED
    BY <2>2 DEF due
<1>. HIDE DEF g
<1>3. Ticking(g)
  BY <1>2 DEF IconInv, FavInv, Ticking, Fine, AtRest
<1>4. Homely(fav, wanted) => Homely(g, wanted)
  BY <1>2 DEF Homely, Home
<1>5. OtherTypes'
  BY <1>1 DEF IconInv, OtherTypes
<1>. QED
  BY <1>1, <1>3, <1>4, <1>5, NewFace DEF IconInv, FavInv

\* What waited is written.
LEMMA FirePendingInv == IconInv /\ FirePending => IconInv'
<1>. SUFFICES ASSUME IconInv, FirePending PROVE IconInv'
  OBVIOUS
<1> DEFINE f == [fav EXCEPT !.hot = TRUE, !.pending = "none", !.due = FALSE]
           g == DoApply(f, fav.pending)
<1>1. fav' = g /\ fav.due /\ UNCHANGED <<may, log, status, talking, watch, enabled, displace, wanted>>
  BY DEF FirePending, only
<1>2. /\ f \in Fav /\ f.captured = fav.captured /\ f.saved = fav.saved /\ f.links = fav.links /\ f.state = fav.state
      /\ f.due = FALSE /\ f.pending = "none" /\ f.broken = fav.broken /\ f.tick = fav.tick /\ f.own = fav.own
  BY DEF IconInv, FavInv, Fine, Fav, Shown
<1>. HIDE DEF f
<1>3. fav.pending \in Shown /\ fav.pending # "none" /\ On(fav)
  BY <1>1 DEF IconInv, FavInv, Fine, Fav, AtRest, On
<1>4. On(f)
  BY <1>2, <1>3 DEF On, Fine
<1>5. Kept(f, g)
  BY <1>3, <1>4, DoApplyIs
<1>. HIDE DEF g
<1>6. Ticking(g)
  BY <1>2, <1>3, <1>5 DEF IconInv, FavInv, Ticking, Kept, Fine, AtRest, On
<1>7. Homely(fav, wanted) => Homely(g, wanted)
  BY <1>2, <1>5 DEF Homely, Home, Kept
<1>8. OtherTypes'
  BY <1>1 DEF IconInv, OtherTypes
<1>. QED
  BY <1>1, <1>6, <1>7, <1>8, NewFace DEF IconInv, FavInv

\* The budget is renewed.
LEMMA ForgetInv == IconInv /\ Forget => IconInv'
<1>. SUFFICES ASSUME IconInv, Forget PROVE IconInv'
  OBVIOUS
<1> DEFINE n == fav.recent - 1
           g == [fav EXCEPT !.recent = n]
<1>1. fav' = g /\ fav.recent > 0 /\ UNCHANGED <<may, log, status, talking, watch, enabled, displace, wanted>>
  BY DEF Forget, only
<1>2. n \in 0 .. WriteLimit /\ fav \in Fav
  BY <1>1, LimitAssumption DEF IconInv, FavInv, Fine, Fav
<1>. HIDE DEF n
<1>3. /\ g \in Fav /\ g.captured = fav.captured /\ g.saved = fav.saved /\ g.links = fav.links /\ g.state = fav.state
      /\ g.due = fav.due /\ g.pending = fav.pending /\ g.broken = fav.broken /\ g.tick = fav.tick /\ g.own = fav.own
  BY <1>2 DEF Fav
<1>. HIDE DEF g
<1>4. Ticking(g)
  BY <1>3 DEF IconInv, FavInv, Ticking, Fine, AtRest
<1>5. Homely(fav, wanted) => Homely(g, wanted)
  BY <1>3 DEF Homely, Home
<1>6. OtherTypes'
  BY <1>1 DEF IconInv, OtherTypes
<1>. QED
  BY <1>1, <1>4, <1>5, <1>6, NewFace DEF IconInv, FavInv

\* The frames are there, or will never be.
LEMMA FramesComeInv == IconInv /\ FramesCome => IconInv'
<1>. SUFFICES ASSUME IconInv, FramesCome PROVE IconInv'
  OBVIOUS
<1>1. PICK r \in {"ready", "failed"} : fav' = [fav EXCEPT !.frames = r]
  BY DEF FramesCome
<1> DEFINE g == [fav EXCEPT !.frames = r]
<1>2. fav' = g /\ UNCHANGED <<may, log, status, talking, watch, enabled, displace, wanted>>
  BY <1>1 DEF FramesCome, only
<1>3. /\ g \in Fav /\ g.captured = fav.captured /\ g.saved = fav.saved /\ g.links = fav.links /\ g.state = fav.state
      /\ g.due = fav.due /\ g.pending = fav.pending /\ g.broken = fav.broken /\ g.tick = fav.tick /\ g.own = fav.own
  BY DEF IconInv, FavInv, Fine, Fav
<1>. HIDE DEF g
<1>4. Ticking(g)
  BY <1>3 DEF IconInv, FavInv, Ticking, Fine, AtRest
<1>5. Homely(fav, wanted) => Homely(g, wanted)
  BY <1>3 DEF Homely, Home
<1>6. OtherTypes'
  BY <1>2 DEF IconInv, OtherTypes
<1>. QED
  BY <1>2, <1>4, <1>5, <1>6, NewFace DEF IconInv, FavInv

\* A frame of an animation, a fault of it, or a reassertion.
LEMMA StepIs ==
  ASSUME NEW f, On(f), NEW g \in Step(f)
  PROVE  Kept(f, g)
<1>0. Href(f) \in Shown /\ Href(f) # "none"
  BY HrefIs
<1>1. CASE g = Written(f, Href(f))
  <2>1. /\ g \in Fav /\ g.captured = f.captured /\ g.saved = f.saved /\ g.links = f.links /\ g.state = f.state
        /\ g.due = f.due /\ g.pending = f.pending /\ g.broken = f.broken /\ g.tick = f.tick
    BY <1>0, <1>1 DEF Written, On, Fine, Fav
  <2>. QED
    BY <2>1 DEF On, Fine, Kept, Home
<1>2. CASE g = Apply([f EXCEPT !.still = TRUE], "waiting")
  <2> DEFINE h == [f EXCEPT !.still = TRUE]
  <2>1. /\ h \in Fav /\ h.captured = f.captured /\ h.saved = f.saved /\ h.links = f.links /\ h.state = f.state
        /\ h.due = f.due /\ h.pending = f.pending /\ h.broken = f.broken /\ h.tick = f.tick
    BY DEF On, Fine, Fav
  <2>2. g = Apply(h, "waiting")
    BY <1>2
  <2>. HIDE DEF h
  <2>3. On(h) /\ Kept(f, h)
    BY <2>1 DEF On, Fine, Kept, Home
  <2>4. Kept(h, g)
    BY <2>2, <2>3, ApplyIs DEF Shown
  <2>. QED
    BY <2>3, <2>4 DEF Kept
<1>3. CASE g = Apply(Asked(f), Href(Asked(f)))
  <2>1. Kept(f, Asked(f)) /\ On(Asked(f))
    BY AskedIs
  <2>2. Kept(Asked(f), g)
    BY <1>3, <2>1, HrefIs, ApplyIs
  <2>. QED
    BY <2>1, <2>2 DEF Kept
<1>. QED
  BY <1>1, <1>2, <1>3 DEF Step, Advanced

\* Icons are removed, whether or not they were set aside.
LEMMA RemovedLoosely ==
  ASSUME NEW f, On(f)
  PROVE  Fine(Removed(f)) /\ Removed(f).state = f.state
<1> DEFINE g == [f EXCEPT !.links = {}]
<1>1. /\ g \in Fav /\ g.captured = f.captured /\ g.saved = f.saved /\ g.links = {} /\ g.state = f.state
      /\ g.due = f.due /\ g.pending = f.pending /\ g.broken = f.broken /\ g.tick = f.tick
  BY DEF On, Fine, Fav
<1>2. Cardinality(f.links) \in Nat
  BY LimitAssumption, FS_Subset, FS_CardinalityType DEF On, Fine, Fav
<1>3. Removed(f) = IF f.links = {} THEN f ELSE Counted(g, Cardinality(f.links))
  BY DEF Removed
<1>. HIDE DEF g
<1>4. On(g)
  BY <1>1 DEF On, Fine
<1>5. Kept(g, Counted(g, Cardinality(f.links)))
  BY <1>2, <1>4, CountedIs
<1>. QED
  BY <1>1, <1>3, <1>5 DEF Kept, On

\* The one timer fires.
LEMMA TickInv == IconInv /\ Tick => IconInv'
<1>. SUFFICES ASSUME IconInv, Tick PROVE IconInv'
  OBVIOUS
<1> DEFINE e == [fav EXCEPT !.tick = FALSE]
<1>1. UNCHANGED <<may, log, status, talking, watch, enabled, displace, wanted>> /\ fav.tick
  BY DEF Tick, only
<1>2. PICK f \in Step(e) :
        LET g == IF displace /\ ~ f.broken THEN Removed(f) ELSE f IN
        fav' = IF g.broken THEN g ELSE [g EXCEPT !.tick = TRUE]
  BY DEF Tick
<1> DEFINE g == IF displace /\ ~ f.broken THEN Removed(f) ELSE f
           h == IF g.broken THEN g ELSE [g EXCEPT !.tick = TRUE]
<1>3. fav' = h
  BY <1>2
<1>4. /\ e \in Fav /\ e.captured = fav.captured /\ e.saved = fav.saved /\ e.links = fav.links /\ e.state = fav.state
      /\ e.due = fav.due /\ e.pending = fav.pending /\ e.broken = fav.broken /\ e.tick = FALSE
  BY DEF IconInv, FavInv, Fine, Fav
<1>. HIDE DEF e
<1>5. On(e)
  BY <1>1, <1>4 DEF On, IconInv, FavInv, Fine
<1>6. Kept(e, f)
  BY <1>5, StepIs
<1>7. Fine(g) /\ g.state = fav.state /\ g.state # "none"
  BY <1>4, <1>5, <1>6, RemovedLoosely DEF Kept, On
<1>8. ASSUME Homely(fav, wanted)
      PROVE  Home(g, wanted) /\ (displace /\ ~ g.broken => g.captured)
  <2>1. Home(f, wanted) /\ (displace /\ ~ f.broken => f.captured)
    BY <1>4, <1>5, <1>6, <1>8 DEF Homely, Home, Kept, On
  <2>2. CASE displace /\ ~ f.broken
    <3>1. On(f) /\ f.captured
      BY <1>5, <1>6, <2>1, <2>2 DEF Kept, On
    <3>. QED
      BY <2>1, <2>2, <3>1, RemovedIs DEF Kept
  <2>3. CASE ~ (displace /\ ~ f.broken)
    BY <2>1, <2>3
  <2>. QED
    BY <2>2, <2>3
<1>. HIDE DEF g
<1>9. Ticking(h) /\ (Homely(fav, wanted) => Homely(h, wanted))
  <2>1. CASE g.broken
    BY <1>7, <1>8, <2>1 DEF Ticking, Fine, AtRest, Homely
  <2>2. CASE ~ g.broken
    <3> DEFINE u == [g EXCEPT !.tick = TRUE]
    <3>1. /\ u \in Fav /\ u.captured = g.captured /\ u.saved = g.saved /\ u.links = g.links /\ u.state = g.state
          /\ u.due = g.due /\ u.pending = g.pending /\ u.broken = g.broken /\ u.tick = TRUE
      BY <1>7 DEF Fine, Fav
    <3>2. h = u
      BY <2>2
    <3>. HIDE DEF u, h
    <3>3. Ticking(u)
      BY <1>7, <2>2, <3>1 DEF Ticking, Fine
    <3>4. Homely(fav, wanted) => Homely(u, wanted)
      BY <1>8, <2>2, <3>1 DEF Homely, Home
    <3>. QED
      BY <3>2, <3>3, <3>4
  <2>. QED
    BY <2>1, <2>2
<1>10. OtherTypes'
  BY <1>1 DEF IconInv, OtherTypes
<1>. HIDE DEF h
<1>. QED
  BY <1>1, <1>3, <1>9, <1>10, NewFace DEF IconInv, FavInv

-----------------------------------------------------------------------------
\* Initially there is no icon of ours.
LEMMA IconInitInv == IconInit => IconInv
<1>. SUFFICES ASSUME IconInit PROVE IconInv
  OBVIOUS
<1>1. OtherTypes
  BY DEF IconInit, OtherTypes, JobStatuses
<1>2. fav \in Fav
  BY LimitAssumption DEF IconInit, Fav, States, Shown
<1>3. /\ fav.state = "none" /\ fav.broken = FALSE /\ fav.own = "none" /\ fav.links = Icons /\ fav.captured = FALSE
      /\ fav.saved = {} /\ fav.pending = "none" /\ fav.due = FALSE /\ fav.tick = FALSE /\ wanted = Icons
  BY DEF IconInit
<1>. QED
  BY <1>1, <1>2, <1>3 DEF IconInv, FavInv, Fine, AtRest, Homely, Home

\* Every step keeps the invariant.
LEMMA IconStepInv == IconInv /\ [IconNext]_iconVars => IconInv'
<1>. SUFFICES ASSUME IconInv, [IconNext]_iconVars PROVE IconInv'
  OBVIOUS
<1>1. CASE UNCHANGED iconVars
  BY <1>1 DEF iconVars, IconInv, OtherTypes, FavInv, Homely
<1>2. CASE IconNext
  BY <1>2, TellingInv, ToggleDisplaceInv, PageReassertsInv, PageRewritesInv, CoolInv, FirePendingInv,
     ForgetInv, FramesComeInv, TickInv DEF IconNext
<1>. QED
  BY <1>1, <1>2

\* The invariant holds throughout.
LEMMA IconInvariance == IconSpec => []IconInv
<1>. QED
  BY IconInitInv, IconStepInv, PTL DEF IconSpec

-----------------------------------------------------------------------------
\* The variables have their types; the budget of writes is never exceeded
\* without the indicator giving up (fv2RawWrite, fv2Disable).
THEOREM IconTypeCorrect == IconSpec => []IconTypeOK
<1>1. IconInv => IconTypeOK
  BY DEF IconInv, OtherTypes, FavInv, Fine, IconTypeOK
<1>. QED
  BY <1>1, IconInvariance, PTL

\* While the icon shows something its one timer is set; once it does not, or
\* has given up, nothing can bring it back (fv2SetState, fv2Tick, fv2Disable).
THEOREM TimersAreSet == IconSpec => []TimersMatchState
<1>1. IconInv => TimersMatchState
  BY DEF IconInv, FavInv, Fine, AtRest, TimersMatchState
<1>. QED
  BY <1>1, IconInvariance, PTL

\* The page gets back the icons it had (fv2CaptureCompetitors,
\* fv2RestoreCompetitors).
THEOREM IconsAreReturned == IconSpec => []PageIconsReturn
<1>1. IconInv => PageIconsReturn
  BY DEF IconInv, FavInv, Fine, AtRest, Homely, Home, PageIconsReturn
<1>. QED
  BY <1>1, IconInvariance, PTL
==============================================================================
