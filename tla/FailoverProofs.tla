---------------------------- MODULE FailoverProofs ----------------------------
(* Theorems about Failover, for every number of relays and requests, every  *)
(* threshold, every set of tokens and every set of disturbances.            *)
EXTENDS Failover, FiniteSetTheorems, TLAPS

-----------------------------------------------------------------------------
(* The operators the model is built from.                                   *)

\* A set of natural numbers has a minimum: the least of the intervals up to
\* its members, of which one is a strict subset of the other.
LEMMA MinOfNats ==
  ASSUME NEW S \in SUBSET Nat, S # {}
  PROVE  Min(S) \in S /\ \A y \in S : Min(S) <= y
<1> DEFINE T == {0 .. k : k \in S}
<1>1. T \subseteq FiniteSubsetsOf(Nat)
  <2>1. \A k \in S : IsFiniteSet(0 .. k) /\ 0 .. k \in SUBSET Nat
    BY FS_Interval
  <2>. QED
    BY <2>1 DEF FiniteSubsetsOf
<1>2. T # {}
  OBVIOUS
<1>3. PICK least \in T : \A t \in T : <<t, least>> \notin StrictSubsetOrdering(Nat)
  <2> HIDE DEF T
  <2>. QED
    BY <1>1, <1>2, FS_StrictSubsetOrderingWellFounded, WFMin, Zenon
<1>4. PICK x \in S : least = 0 .. x
  OBVIOUS
<1>5. ASSUME NEW y \in S, ~ (x <= y) PROVE FALSE
  <2>1. x \in Nat /\ y \in Nat /\ y < x
    BY <1>5
  <2>2. 0 .. y \subseteq 0 .. x /\ x \in 0 .. x /\ x \notin 0 .. y
    BY <2>1
  <2>3. 0 .. y \in SUBSET Nat /\ 0 .. x \in SUBSET Nat /\ 0 .. y # 0 .. x
    BY <2>1, <2>2
  <2>4. <<0 .. y, least>> \in StrictSubsetOrdering(Nat)
    BY <1>4, <2>2, <2>3 DEF StrictSubsetOrdering
  <2>. QED
    BY <1>3, <2>4
<1>6. \E m \in S : \A y \in S : m <= y
  BY <1>5
<1>. QED
  BY <1>6 DEF Min

\* The places a search visits are relays, and it misses none.
LEMMA PlacesCover ==
  ASSUME NEW start \in Relays
  PROVE  /\ \A k \in 0 .. Count - 1 : Places(start)[k] \in Relays
         /\ \A r \in Relays : \E k \in 0 .. Count - 1 : Places(start)[k] = r
<1>0. Count \in Nat \ {0} /\ start \in 1 .. Count
  BY CountAssumption DEF Relays
<1>1. \A k \in 0 .. Count - 1 : Places(start)[k] = ((start - 1 + k) % Count) + 1
  BY DEF Places
<1>2. \A k \in 0 .. Count - 1 : Places(start)[k] \in Relays
  BY <1>0, <1>1 DEF Relays
<1>3. ASSUME NEW r \in Relays PROVE \E k \in 0 .. Count - 1 : Places(start)[k] = r
  <2>0. r \in 1 .. Count
    BY DEF Relays
  <2>1. CASE r >= start
    <3>1. r - start \in 0 .. Count - 1 /\ start - 1 + (r - start) = r - 1
      BY <1>0, <2>0, <2>1
    <3>2. ((r - 1) % Count) + 1 = r
      BY <1>0, <2>0
    <3>. QED
      BY <1>1, <3>1, <3>2
  <2>2. CASE r < start
    <3>1. r - start + Count \in 0 .. Count - 1 /\ start - 1 + (r - start + Count) = r - 1 + Count
      BY <1>0, <2>0, <2>2
    <3>2. ((r - 1 + Count) % Count) + 1 = r
      BY <1>0, <2>0
    <3>. QED
      BY <1>1, <3>1, <3>2
  <2>. QED
    BY <1>0, <2>0, <2>1, <2>2
<1>. QED
  BY <1>2, <1>3

\* The search finds a usable relay unless there is none.
LEMMA FirstUsableIs ==
  ASSUME NEW list, NEW start \in Relays
  PROVE  \/ /\ FirstUsable(list, start) = 0
            /\ \A r \in Relays : ~ Usable(list[r])
         \/ /\ FirstUsable(list, start) \in Relays
            /\ Usable(list[FirstUsable(list, start)])
<1> DEFINE found == {k \in 0 .. Count - 1 : Usable(list[Places(start)[k]])}
<1>1. CASE found = {}
  BY <1>1, PlacesCover DEF FirstUsable
<1>2. CASE found # {}
  <2>0. found \in SUBSET Nat
    BY CountAssumption
  <2>1. Min(found) \in found
    BY <1>2, <2>0, MinOfNats
  <2>2. FirstUsable(list, start) = Places(start)[Min(found)]
    BY <1>2 DEF FirstUsable
  <2>. QED
    BY <2>1, <2>2, PlacesCover
<1>. QED
  BY <1>1, <1>2

\* A strike counts up to the threshold.
LEMMA StrikesCount ==
  ASSUME NEW relay \in Relay PROVE Strikes(relay) \in 0 .. Threshold
<1>1. relay.failures + 1 \in Nat /\ Threshold \in Nat /\ Threshold \in {relay.failures + 1, Threshold}
  BY CountAssumption DEF Relay
<1>2. /\ Min({relay.failures + 1, Threshold}) \in {relay.failures + 1, Threshold}
      /\ Min({relay.failures + 1, Threshold}) <= Threshold
  BY <1>1, MinOfNats
<1>. QED
  BY <1>1, <1>2 DEF Strikes

-----------------------------------------------------------------------------
(* Types. A request holds a relay of a list that was loaded; lists are      *)
(* loaded once at the start and once per change of the tokens.              *)

Lists == Seq([Relays -> Relay])
Workers == [lists : Lists, loaded : BOOLEAN, loading : {None} \cup ([Relays -> Tokens] \X Relays),
            active : Relays, oks : 0 .. OksNeeded - 1]

TypeInv ==
  /\ may \in Settings /\ server \in [Relays -> {"up", "down"}]
  /\ tokens \in [Relays -> Tokens] /\ stored \in Relays /\ edits \in 0 .. MaxEdits
  /\ worker \in Workers
  /\ Len(worker.lists) <= edits + (IF worker.loaded THEN 1 ELSE 0)
  /\ worker.loaded => Len(worker.lists) >= 1 /\ worker.loading = None
  /\ call \in [Callers -> Call]
  /\ \A c \in Callers : call[c].at # "idle" => call[c].list \in 1 .. Len(worker.lists)
  /\ register \in BOOLEAN
  /\ rule = None \/ rule \in [relay : Relays, token : Tokens]
  /\ bucket \in Relays \cup {None}

\* The same lists, as far as tokens go, at the same stage of loading.
Alike(w, v) ==
  /\ w \in Workers /\ v \in Workers
  /\ w.loaded = v.loaded /\ w.loading = v.loading /\ Len(w.lists) = Len(v.lists)
  /\ \A l \in 1 .. Len(v.lists), r \in Relays : w.lists[l][r].token = v.lists[l][r].token

\* ... and no relay has refused its token in the one and not in the other.
Twins(w, v) ==
  /\ Alike(w, v)
  /\ \A l \in 1 .. Len(v.lists), r \in Relays : w.lists[l][r].rejected = v.lists[l][r].rejected

\* Relays are numbered from one.
LEMMA PrimaryIsARelay == Primary \in Relays /\ Relays \subseteq Nat \ {0}
BY CountAssumption DEF Primary, Relays

\* A worker with other lists.
LEMMA Relisted ==
  ASSUME NEW w \in Workers, NEW lists \in Lists
  PROVE  LET u == [lists |-> lists, loaded |-> w.loaded, loading |-> w.loading,
                   active |-> w.active, oks |-> w.oks]
         IN  /\ u \in Workers /\ u.lists = lists /\ u.loaded = w.loaded
             /\ u.loading = w.loading /\ u.active = w.active
BY DEF Workers

\* A change of one relay's record leaves the others alone.
LEMMA Booked ==
  ASSUME NEW w \in Workers, NEW l \in 1 .. Len(w.lists), NEW r \in Relays, NEW n \in 0 .. Threshold
  PROVE  Twins([w EXCEPT !.lists[l][r].failures = n], w)
<1> DEFINE v == [w EXCEPT !.lists[l][r].failures = n]
           list == [w.lists[l] EXCEPT ![r].failures = n]
           lists == [w.lists EXCEPT ![l] = list]
<1>1. w.lists \in Lists /\ w.lists[l] \in [Relays -> Relay]
  BY DEF Workers, Lists
<1>2. /\ list \in [Relays -> Relay]
      /\ \A q \in Relays : list[q].token = w.lists[l][q].token /\ list[q].rejected = w.lists[l][q].rejected
  BY <1>1 DEF Relay
<1>3. /\ lists \in Lists /\ Len(lists) = Len(w.lists) /\ lists[l] = list
      /\ \A k \in 1 .. Len(w.lists) : k # l => lists[k] = w.lists[k]
  <2> HIDE DEF list
  <2>. QED
    BY <1>1, <1>2 DEF Lists
<1>4. v = [lists |-> lists, loaded |-> w.loaded, loading |-> w.loading, active |-> w.active, oks |-> w.oks]
  BY DEF Workers
<1>5. v \in Workers /\ v.lists = lists /\ v.loaded = w.loaded /\ v.loading = w.loading
  <2> HIDE DEF lists, v
  <2>. QED
    BY <1>3, <1>4, Relisted
<1>. HIDE DEF lists, list, v
<1>6. Twins(v, w)
  BY <1>2, <1>3, <1>5 DEF Twins, Alike
<1>. QED
  BY <1>6 DEF v

\* A refusal is entered at one relay.
Entered(v, w, l, r) ==
  /\ Alike(v, w) /\ v.active = w.active
  /\ v.lists[l][r].rejected
  /\ \A k \in 1 .. Len(w.lists), q \in Relays :
       k # l \/ q # r => v.lists[k][q].rejected = w.lists[k][q].rejected

\* It is entered so by a request that is refused.
LEMMA Refusal ==
  ASSUME NEW w \in Workers, NEW l \in 1 .. Len(w.lists), NEW r \in Relays
  PROVE  Entered([w EXCEPT !.lists[l][r].rejected = TRUE], w, l, r)
<1> DEFINE v == [w EXCEPT !.lists[l][r].rejected = TRUE]
           list == [w.lists[l] EXCEPT ![r].rejected = TRUE]
           lists == [w.lists EXCEPT ![l] = list]
<1>1. w.lists \in Lists /\ w.lists[l] \in [Relays -> Relay]
  BY DEF Workers, Lists
<1>2. /\ list \in [Relays -> Relay] /\ list[r].rejected
      /\ \A q \in Relays : list[q].token = w.lists[l][q].token
      /\ \A q \in Relays \ {r} : list[q].rejected = w.lists[l][q].rejected
  BY <1>1 DEF Relay
<1>3. /\ lists \in Lists /\ Len(lists) = Len(w.lists) /\ lists[l] = list
      /\ \A k \in 1 .. Len(w.lists) : k # l => lists[k] = w.lists[k]
  <2> HIDE DEF list
  <2>. QED
    BY <1>1, <1>2 DEF Lists
<1>4. v = [lists |-> lists, loaded |-> w.loaded, loading |-> w.loading, active |-> w.active, oks |-> w.oks]
  <2>1. v = [w EXCEPT !.lists = lists]
    OBVIOUS
  <2>2. [w EXCEPT !.lists = lists]
        = [lists |-> lists, loaded |-> w.loaded, loading |-> w.loading, active |-> w.active, oks |-> w.oks]
    <3> HIDE DEF lists
    <3>. QED
      BY DEF Workers
  <2>. QED
    BY <2>1, <2>2
<1>5. v \in Workers /\ v.lists = lists /\ v.loaded = w.loaded /\ v.loading = w.loading /\ v.active = w.active
  <2> HIDE DEF lists, v
  <2>. QED
    BY <1>3, <1>4, Relisted
<1>. HIDE DEF lists, list, v
<1>6. Entered(v, w, l, r)
  BY <1>2, <1>3, <1>5 DEF Alike, Entered
<1>. QED
  BY <1>6 DEF v

\* Likeness is passed on.
LEMMA AlikeChains ==
  ASSUME NEW u, NEW v, NEW w, Twins(u, v)
  PROVE  Twins(v, w) => Twins(u, w)
BY DEF Twins, Alike

\* A relay is left for a usable one, or kept when there is no other.
Switched(v, w, l, r) ==
  /\ Twins(v, w)
  /\ ~ IsActive(w, l, r) => v = w
  /\ IsActive(w, l, r) => \/ Usable(w.lists[l][v.active])
                          \/ \A q \in Relays : ~ Usable(w.lists[l][q])

\* It is left so by SwitchAway.
LEMMA SwitchedIs ==
  ASSUME NEW w \in Workers, NEW l \in 1 .. Len(w.lists), NEW r \in Relays
  PROVE  Switched(SwitchAway(w, l, r), w, l, r)
<1> DEFINE start == (r % Count) + 1
           next == FirstUsable(w.lists[l], start)
           v == SwitchAway(w, l, r)
<1>0. start \in Relays
  BY CountAssumption DEF Relays
<1>1. \/ next = 0 /\ \A q \in Relays : ~ Usable(w.lists[l][q])
      \/ next \in Relays /\ Usable(w.lists[l][next])
  <2> HIDE DEF start
  <2>. QED
    BY <1>0, FirstUsableIs
<1>2. CASE ~ IsActive(w, l, r)
  <2>1. v = w
    BY <1>2 DEF SwitchAway
  <2>. QED
    <3> HIDE DEF v
    <3>1. Switched(v, w, l, r)
      BY <1>2, <2>1 DEF Twins, Alike, Switched
    <3>. QED
      BY <3>1 DEF v
<1>3. CASE IsActive(w, l, r) /\ next \in {0, r}
  <2>1. v = [w EXCEPT !.lists[l][r].failures = 0]
    BY <1>3 DEF SwitchAway
  <2>2. v.active = w.active
    BY <2>1 DEF Workers
  <2>3. w.active = r
    BY <1>3 DEF IsActive
  <2>4. Twins(v, w)
    BY <2>1, Booked, CountAssumption
  <2>. QED
    <3> HIDE DEF v, next
    <3>1. Switched(v, w, l, r)
      BY <1>1, <1>3, <2>2, <2>3, <2>4, PrimaryIsARelay DEF Switched
    <3>. QED
      BY <3>1 DEF v
<1>4. CASE IsActive(w, l, r) /\ next \notin {0, r}
  <2> DEFINE a == [w EXCEPT !.active = next, !.oks = 0]
             b == [a EXCEPT !.lists[l][r].failures = 0]
             c == [b EXCEPT !.lists[l][next].failures = 0]
  <2>1. v = [w EXCEPT !.active = next, !.oks = 0, !.lists[l][r].failures = 0, !.lists[l][next].failures = 0]
    BY <1>4 DEF SwitchAway
  <2>2. v = c
    BY <2>1, Zenon
  <2>3. next \in Relays /\ 0 \in 0 .. OksNeeded - 1 /\ 0 \in 0 .. Threshold
    BY <1>1, <1>4, CountAssumption
  <2>4. a \in Workers /\ a.lists = w.lists /\ a.loaded = w.loaded /\ a.loading = w.loading /\ a.active = next
    <3> HIDE DEF next
    <3>. QED
      BY <2>3 DEF Workers
  <2>5. Twins(a, w)
    BY <2>4 DEF Twins, Alike
  <2>6. Twins(b, a) /\ b.active = next /\ b \in Workers /\ Len(b.lists) = Len(w.lists)
    <3> HIDE DEF a, next
    <3>1. b.active = next
      BY <2>4 DEF Workers
    <3>. QED
      BY <2>3, <2>4, <3>1, Booked DEF Twins, Alike
  <2>7. Twins(c, b) /\ c.active = next
    <3> HIDE DEF b, next
    <3>1. c.active = next
      BY <2>6 DEF Workers
    <3>. QED
      BY <2>3, <2>6, <3>1, Booked
  <2>8. Twins(c, w)
    <3> HIDE DEF a, b, c, next
    <3>. QED
      BY <2>5, <2>6, <2>7, AlikeChains
  <2>. QED
    <3> HIDE DEF a, b, c, next, v
    <3>1. Switched(v, w, l, r)
      BY <1>1, <1>4, <2>2, <2>3, <2>7, <2>8 DEF Switched
    <3>. QED
      BY <3>1 DEF v
<1>. QED
  <2> HIDE DEF next
  <2>. QED
    BY <1>2, <1>3, <1>4

-----------------------------------------------------------------------------
(* The invariants. Between a switch and its rules somebody is moved; a list *)
(* that is not loaded yet has a start or a change of tokens behind it.      *)

RulesInv ==
  /\ ~ worker.loaded => register
  /\ worker.loaded /\ ~ register /\ (\A c \in Callers : call[c].at # "moved") => rule = ActiveRule

(* The relay in use is usable if one is, and only a token that is not good  *)
(* is refused.                                                              *)
UsableCore(w) ==
  /\ \A l \in 1 .. Len(w.lists), r \in Relays :
       w.lists[l][r].rejected => w.lists[l][r].token # "good"
  /\ w.loaded /\ (\E r \in Relays : Usable(w.lists[Len(w.lists)][r]))
       => Usable(w.lists[Len(w.lists)][w.active])

ProbeIsPrimary ==
  /\ call[Probe].at \in {"idle", "sent", "moved", "ruled"}
  /\ call[Probe].at = "sent" => call[Probe].relay = Primary
  /\ call[Probe].at \in {"moved", "ruled"} => call[Probe].next = "throw"

\* Once successes are counted, a probe is of the list that is in use.
ProbeIsFresh(w) == call[Probe].at = "sent" /\ w.oks # 0 => w.loaded /\ call[Probe].list = Len(w.lists)

UsableInv == ProbeIsPrimary /\ ProbeIsFresh(worker) /\ UsableCore(worker)

Inv == TypeInv /\ RulesInv /\ UsableInv

\* The rules a worker would set depend on tokens and the relay in use.
LEMMA RuleOfTwins ==
  ASSUME TypeInv, NEW w, Alike(w, worker), worker.loaded, w.active = worker.active, worker' = w
  PROVE  ActiveRule' = ActiveRule
BY DEF ActiveRule, Current, Alike, TypeInv, Workers

\* Leaving a relay, with the housekeeping it leads to.
LEMMA LeaveKeeps ==
  ASSUME Inv, NEW c \in Callers, UnderWay(c), NEW next \in {"retry", "recheck", "throw"},
         c = Probe => next = "throw",
         NEW w, Alike(w, worker), UsableCore(w), c # Probe => w.oks \in {worker.oks, 0},
         Leave(c, w, next)
  PROVE  Inv'
<1>0. /\ worker \in Workers /\ w \in Workers /\ call \in [Callers -> Call]
      /\ UNCHANGED <<may, server, tokens, edits, register, rule, bucket>> /\ worker' = w
      /\ Len(w.lists) = Len(worker.lists) /\ w.loaded = worker.loaded /\ w.loading = worker.loading
      /\ w.lists \in Lists
  BY DEF Inv, TypeInv, Leave, Alike, Workers
<1>01. call[c].at \in {"sent", "resent"} /\ call[c].list \in 1 .. Len(w.lists)
  BY <1>0 DEF UnderWay, Inv, TypeInv
<1>02. Len(w.lists) \in 0 .. MaxEdits + 1 /\ (w.loaded => Len(w.lists) \in 1 .. MaxEdits + 1)
  BY <1>0, CountAssumption DEF Inv, TypeInv, Lists
<1>1. call' = [call EXCEPT ![c] = Goes(c, w, next)] /\ stored' = IF Moved(w) THEN w.active ELSE stored
  BY DEF Leave
<1>2. \/ /\ Moved(w) /\ Goes(c, w, next) = [call[c] EXCEPT !.at = "moved", !.next = next]
      \/ ~ Moved(w) /\ Goes(c, w, next) = Idle
      \/ /\ ~ Moved(w) /\ next # "throw" /\ w.loaded
         /\ Goes(c, w, next) = [at |-> "resent", list |-> Len(w.lists), relay |-> w.active, next |-> "none"]
  <2>1. CASE Moved(w)
    BY <2>1 DEF Goes
  <2>2. CASE ~ Moved(w) /\ (next = "throw" \/ IsActive(w, call[c].list, call[c].relay))
    BY <2>2 DEF Goes
  <2>3. CASE ~ Moved(w) /\ ~ (next = "throw" \/ IsActive(w, call[c].list, call[c].relay))
    <3>1. Goes(c, w, next) = Resent(w)
      BY <2>3 DEF Goes
    <3>. QED
      BY <2>3, <3>1 DEF Resent
  <2>. QED
    BY <2>1, <2>2, <2>3
<1>3. /\ Goes(c, w, next) \in Call
      /\ Goes(c, w, next).at # "idle" => Goes(c, w, next).list \in 1 .. Len(w.lists)
      /\ Goes(c, w, next).at = "moved" <=> Moved(w)
      /\ c = Probe => Goes(c, w, next).at \in {"idle", "moved"}
      /\ Goes(c, w, next).at = "moved" => Goes(c, w, next).next = next
  <2>1. CASE Moved(w) /\ Goes(c, w, next) = [call[c] EXCEPT !.at = "moved", !.next = next]
    BY <1>0, <1>01, <2>1 DEF Call
  <2>2. CASE ~ Moved(w) /\ Goes(c, w, next) = Idle
    BY <2>2, PrimaryIsARelay, CountAssumption DEF Call, Idle
  <2>3. CASE /\ ~ Moved(w) /\ next # "throw" /\ w.loaded
             /\ Goes(c, w, next) = [at |-> "resent", list |-> Len(w.lists), relay |-> w.active, next |-> "none"]
    BY <1>0, <1>02, <2>3 DEF Call, Workers
  <2>. QED
    BY <1>2, <2>1, <2>2, <2>3
<1>4. TypeInv'
  <2>1. stored' \in Relays
    BY <1>0, <1>1 DEF Inv, TypeInv, Workers
  <2>2. call' \in [Callers -> Call]
    BY <1>0, <1>1, <1>3
  <2>3. \A d \in Callers : call'[d].at # "idle" => call'[d].list \in 1 .. Len(w.lists)
    BY <1>0, <1>1, <1>3 DEF Inv, TypeInv
  <2>. QED
    BY <1>0, <2>1, <2>2, <2>3 DEF Inv, TypeInv
<1>5. RulesInv'
  <2>1. CASE Moved(w)
    BY <1>0, <1>1, <1>3, <2>1 DEF Inv, RulesInv
  <2>2. CASE ~ Moved(w)
    <3>1. \A d \in Callers : call'[d].at = "moved" <=> call[d].at = "moved"
      BY <1>0, <1>01, <1>1, <1>3, <2>2
    <3>2. w.loaded => ActiveRule' = ActiveRule
      BY <1>0, <2>2, RuleOfTwins DEF Inv, Moved
    <3>. QED
      BY <1>0, <3>1, <3>2 DEF Inv, RulesInv
  <2>. QED
    BY <2>1, <2>2
<1>6. UsableInv'
  <2>1. ProbeIsPrimary'
    BY <1>0, <1>1, <1>3, ClientsAssumption DEF Inv, UsableInv, ProbeIsPrimary, Callers
  <2>2. ProbeIsFresh(worker)'
    BY <1>0, <1>1, <1>3, ClientsAssumption DEF Inv, UsableInv, ProbeIsFresh, Callers
  <2>. QED
    BY <1>0, <2>1, <2>2 DEF Inv, UsableInv
<1>. QED
  BY <1>4, <1>5, <1>6 DEF Inv

\* A switch leaves a usable relay in use; so does a switch that did not
\* concern the relay in use.
LEMMA SwitchKeepsCore ==
  ASSUME NEW w \in Workers, NEW l \in 1 .. Len(w.lists), NEW r \in Relays,
         \A k \in 1 .. Len(w.lists), q \in Relays :
           w.lists[k][q].rejected => w.lists[k][q].token # "good",
         ~ IsActive(w, l, r) => UsableCore(w)
  PROVE  Alike(SwitchAway(w, l, r), w) /\ UsableCore(SwitchAway(w, l, r))
<1> DEFINE v == SwitchAway(w, l, r)
<1>1. Switched(v, w, l, r)
  BY SwitchedIs
<1> HIDE DEF v
<1>2. ASSUME ~ IsActive(w, l, r) PROVE Alike(v, w) /\ UsableCore(v)
  BY <1>1, <1>2 DEF Switched, Twins
<1>3. ASSUME IsActive(w, l, r) PROVE Alike(v, w) /\ UsableCore(v)
  <2>1. \A k \in 1 .. Len(w.lists), q \in Relays :
          Usable(v.lists[k][q]) <=> Usable(w.lists[k][q])
    BY <1>1 DEF Switched, Twins, Alike, Usable
  <2>2. v.active \in Relays /\ Len(v.lists) = Len(w.lists) /\ Alike(v, w)
    BY <1>1 DEF Switched, Twins, Alike, Workers
  <2>3. \A k \in 1 .. Len(v.lists), q \in Relays :
          v.lists[k][q].rejected => v.lists[k][q].token # "good"
    BY <1>1 DEF Switched, Twins, Alike
  <2>4. (\E q \in Relays : Usable(v.lists[Len(v.lists)][q])) => Usable(v.lists[Len(v.lists)][v.active])
    <3>1. Usable(w.lists[l][v.active]) \/ \A q \in Relays : ~ Usable(w.lists[l][q])
      BY <1>1, <1>3 DEF Switched
    <3>2. l = Len(w.lists)
      BY <1>3 DEF IsActive
    <3>. QED
      BY <2>1, <2>2, <3>1, <3>2
  <2>. QED
    BY <2>2, <2>3, <2>4 DEF UsableCore
<1>. QED
  BY <1>2, <1>3 DEF v

\* A switch forgets the successes of the probe, or leaves them alone.
LEMMA SwitchCounts ==
  ASSUME NEW w \in Workers, NEW l, NEW r
  PROVE  SwitchAway(w, l, r).oks \in {w.oks, 0}
<1> DEFINE next == FirstUsable(w.lists[l], (r % Count) + 1)
<1>. HIDE DEF next
<1>1. \/ SwitchAway(w, l, r) = w
      \/ SwitchAway(w, l, r) = [w EXCEPT !.lists[l][r].failures = 0]
      \/ SwitchAway(w, l, r) = [w EXCEPT !.active = next, !.oks = 0, !.lists[l][r].failures = 0,
                                         !.lists[l][next].failures = 0]
  <2>1. CASE ~ IsActive(w, l, r)
    BY <2>1 DEF SwitchAway
  <2>2. CASE IsActive(w, l, r) /\ next \in {0, r}
    BY <2>2 DEF SwitchAway, next
  <2>3. CASE IsActive(w, l, r) /\ next \notin {0, r}
    BY <2>3 DEF SwitchAway, next
  <2>. QED
    BY <2>1, <2>2, <2>3
<1>. QED
  BY <1>1 DEF Workers

\* Likeness with the same relay in use keeps what is usable.
LEMMA TwinsKeepCore ==
  ASSUME NEW v \in Workers, NEW w \in Workers, Twins(w, v), w.active = v.active, UsableCore(v)
  PROVE  UsableCore(w)
<1>1. \A k \in 1 .. Len(v.lists), q \in Relays : Usable(w.lists[k][q]) <=> Usable(v.lists[k][q])
  BY DEF Twins, Alike, Usable
<1>2. v.active \in Relays /\ Len(w.lists) = Len(v.lists) /\ w.loaded = v.loaded
  BY DEF Twins, Alike, Workers
<1>3. \A k \in 1 .. Len(w.lists), q \in Relays : w.lists[k][q].rejected => w.lists[k][q].token # "good"
  BY DEF Twins, Alike, UsableCore
<1>4. ASSUME w.loaded, \E r \in Relays : Usable(w.lists[Len(w.lists)][r])
      PROVE  Usable(w.lists[Len(w.lists)][w.active])
  <2>1. CASE Len(v.lists) \in 1 .. Len(v.lists)
    BY <1>1, <1>2, <1>4, <2>1 DEF UsableCore
  <2>2. CASE Len(v.lists) \notin 1 .. Len(v.lists)
    <3>1. Len(v.lists) = 0
      BY <2>2 DEF Workers, Lists
    <3>. QED
      BY <1>1, <1>2, <1>4, <3>1 DEF UsableCore, Twins, Alike
  <2>. QED
    BY <2>1, <2>2
<1>. QED
  BY <1>3, <1>4 DEF UsableCore

\* A refusal of a token that is not good, of a relay that is not in use.
LEMMA EnteredKeepsCore ==
  ASSUME NEW v \in Workers, NEW w \in Workers, NEW l \in 1 .. Len(v.lists), NEW r \in Relays,
         Entered(w, v, l, r), v.lists[l][r].token # "good", UsableCore(v)
  PROVE  /\ \A k \in 1 .. Len(w.lists), q \in Relays :
              w.lists[k][q].rejected => w.lists[k][q].token # "good"
         /\ ~ IsActive(w, l, r) => UsableCore(w)
<1>1. \A k \in 1 .. Len(w.lists), q \in Relays : w.lists[k][q].rejected => w.lists[k][q].token # "good"
  BY DEF Entered, Alike, UsableCore
<1>2. ASSUME ~ IsActive(w, l, r), w.loaded, NEW q \in Relays, Usable(w.lists[Len(w.lists)][q])
      PROVE  Usable(w.lists[Len(w.lists)][w.active])
  <2> DEFINE n == Len(v.lists)
  <2>1. /\ Len(w.lists) = n /\ n \in 1 .. n /\ v.loaded /\ w.active = v.active /\ v.active \in Relays
    <3>1. n \in Nat
      BY DEF Workers, Lists
    <3>. QED
      BY <1>2, <3>1 DEF Entered, Alike, Workers
  <2>2. n # l \/ w.active # r
    BY <1>2, <2>1 DEF IsActive
  <2>3. n # l \/ q # r
    BY <1>2, <2>1 DEF Entered, Usable
  <2>. HIDE DEF n
  <2>4. Usable(v.lists[n][q])
    BY <1>2, <2>1, <2>3 DEF Entered, Alike, Usable
  <2>5. Usable(v.lists[n][v.active])
    BY <2>1, <2>4 DEF UsableCore, n
  <2>. QED
    BY <2>1, <2>2, <2>5 DEF Entered, Alike, Usable, n
<1>. QED
  BY <1>1, <1>2 DEF UsableCore

-----------------------------------------------------------------------------
(* The steps.                                                               *)

\* Initially nothing is loaded and the rules are to be registered.
LEMMA InitInv == Init => Inv
<1>. SUFFICES ASSUME Init PROVE Inv
  OBVIOUS
<1>1. NoRelays \in Workers /\ Len(NoRelays.lists) = 0 /\ ~ NoRelays.loaded
  BY PrimaryIsARelay, CountAssumption DEF NoRelays, Workers, Lists
<1>2. Idle \in Call /\ Idle.at = "idle"
  BY PrimaryIsARelay, CountAssumption DEF Idle, Call
<1>3. call = [c \in Callers |-> Idle] /\ worker = NoRelays /\ edits = 0 /\ register = TRUE /\ stored \in Relays
  BY PrimaryIsARelay DEF Init
<1>4. TypeInv
  <2>1. call \in [Callers -> Call] /\ \A c \in Callers : call[c].at = "idle"
    BY <1>2, <1>3
  <2>. QED
    BY <1>1, <1>3, <2>1, ProfilesAssumption, CountAssumption DEF Init, TypeInv
<1>5. RulesInv
  BY <1>3 DEF RulesInv
<1>6. UsableInv
  BY <1>1, <1>2, <1>3 DEF UsableInv, ProbeIsPrimary, ProbeIsFresh, UsableCore, Callers
<1>. QED
  BY <1>4, <1>5, <1>6 DEF Inv

\* Storage is read.
LEMMA StartLoadInv == Inv /\ StartLoad => Inv'
<1>. SUFFICES ASSUME Inv, StartLoad PROVE Inv'
  OBVIOUS
<1>1. /\ worker' = [worker EXCEPT !.loading = <<tokens, stored>>] /\ ~ worker.loaded
      /\ UNCHANGED <<may, server, tokens, edits, stored, call, register, rule, bucket>>
  BY DEF StartLoad
<1>2. /\ worker' \in Workers /\ worker'.lists = worker.lists /\ ~ worker'.loaded
      /\ worker'.oks = worker.oks
  BY <1>1 DEF Inv, TypeInv, Workers
<1>. QED
  BY <1>1, <1>2 DEF Inv, TypeInv, RulesInv, UsableInv, ProbeIsPrimary, ProbeIsFresh, UsableCore

\* The stored relay stays in use if it is usable.
LEMMA LoadedIs ==
  ASSUME NEW list, NEW index \in Relays
  PROVE  /\ LoadedIndex(list, index) \in Relays
         /\ (\E r \in Relays : Usable(list[r])) => Usable(list[LoadedIndex(list, index)])
BY FirstUsableIs, PrimaryIsARelay DEF LoadedIndex

\* The list is made of what was read.
LEMMA FinishLoadInv == Inv /\ FinishLoad => Inv'
<1>. SUFFICES ASSUME Inv, FinishLoad PROVE Inv'
  OBVIOUS
<1> DEFINE list == [r \in Relays |-> [token |-> worker.loading[1][r], failures |-> 0, rejected |-> FALSE]]
           index == LoadedIndex(list, worker.loading[2])
           lists == Append(worker.lists, list)
<1>1. /\ worker.loading \in [Relays -> Tokens] \X Relays /\ ~ worker.loaded
      /\ worker.lists \in Lists /\ worker \in Workers
  BY DEF FinishLoad, Inv, TypeInv, Workers
<1>2. list \in [Relays -> Relay] /\ \A r \in Relays : ~ list[r].rejected
  BY <1>1, CountAssumption DEF Relay
<1>3. index \in Relays /\ ((\E r \in Relays : Usable(list[r])) => Usable(list[index]))
  <2> HIDE DEF list
  <2>. QED
    BY <1>1, LoadedIs
<1>4. worker' = [worker EXCEPT !.lists = lists, !.loaded = TRUE, !.loading = None, !.active = index]
  BY DEF FinishLoad
<1>5. UNCHANGED <<may, server, tokens, edits, stored, call, register, rule, bucket>>
  BY DEF FinishLoad
<1>. HIDE DEF list, index
<1>6. /\ lists \in Lists /\ Len(lists) = Len(worker.lists) + 1 /\ lists[Len(lists)] = list
      /\ \A k \in 1 .. Len(worker.lists) : lists[k] = worker.lists[k]
  BY <1>1, <1>2 DEF Lists
<1>. HIDE DEF lists
<1>7. /\ worker' \in Workers /\ worker'.lists = lists /\ worker'.loaded /\ worker'.loading = None
      /\ worker'.active = index /\ worker'.oks = worker.oks
  BY <1>1, <1>3, <1>4, <1>6 DEF Workers
<1>8. TypeInv'
  <2>1. Len(worker.lists) \in Nat /\ Len(worker.lists) <= edits /\ edits \in 0 .. MaxEdits
    BY <1>1 DEF Inv, TypeInv, Lists
  <2>2. Len(lists) \in Nat /\ Len(lists) <= edits + 1 /\ Len(lists) >= 1
    BY <1>6, <2>1, CountAssumption
  <2>3. \A c \in Callers : call[c].at # "idle" => call[c].list \in 1 .. Len(lists)
    BY <1>6, <2>1 DEF Inv, TypeInv
  <2>. QED
    BY <1>5, <1>7, <2>2, <2>3 DEF Inv, TypeInv
<1>9. RulesInv'
  BY <1>1, <1>5, <1>7 DEF Inv, RulesInv
<1>10. UsableInv'
  <2>1. UsableCore(worker')
    <3>1. \A l \in 1 .. Len(lists), r \in Relays : lists[l][r].rejected => lists[l][r].token # "good"
      <4>1. Len(worker.lists) \in Nat
        BY <1>1 DEF Lists
      <4>2. \A l \in 1 .. Len(worker.lists), r \in Relays :
              lists[l][r].rejected => lists[l][r].token # "good"
        BY <1>6 DEF Inv, UsableInv, UsableCore
      <4>3. \A l \in 1 .. Len(lists) : l \in 1 .. Len(worker.lists) \/ l = Len(lists)
        BY <1>6, <4>1
      <4>. QED
        BY <1>2, <1>6, <4>2, <4>3
    <3>. QED
      BY <1>3, <1>6, <1>7, <3>1 DEF UsableCore
  <2>2. ProbeIsFresh(worker)'
    BY <1>1, <1>5, <1>7 DEF Inv, UsableInv, ProbeIsFresh
  <2>. QED
    BY <1>5, <2>1, <2>2 DEF Inv, UsableInv, ProbeIsPrimary
<1>. QED
  BY <1>8, <1>9, <1>10 DEF Inv

\* What holds of a request under way, and of the list it holds.
LEMMA Holding ==
  ASSUME Inv, NEW c \in Callers, call[c].at # "idle"
  PROVE  /\ call[c].list \in 1 .. Len(worker.lists) /\ call[c].relay \in Relays /\ Held(c) \in Relay
         /\ worker \in Workers /\ call[c] \in Call
<1>1. /\ call[c].list \in 1 .. Len(worker.lists) /\ call[c] \in Call /\ worker \in Workers
      /\ Len(worker.lists) \in Nat
  BY DEF Inv, TypeInv, Workers, Lists
<1>2. call[c].relay \in Relays /\ worker.lists[call[c].list] \in [Relays -> Relay]
  BY <1>1 DEF Call, Workers, Lists
<1>. QED
  BY <1>1, <1>2 DEF Held

\* A step that changes the counts of the worker and one request, which has
\* no housekeeping to do.
LEMMA CallKeeps ==
  ASSUME Inv, NEW c \in Callers, NEW d \in Call, call' = [call EXCEPT ![c] = d],
         d.at # "idle" => d.list \in 1 .. Len(worker.lists),
         d.at # "moved", call[c].at # "moved",
         c = Probe => \/ d.at = "idle"
                      \/ d.at = "sent" /\ d.relay = Primary /\ worker.loaded /\ d.list = Len(worker.lists),
         NEW w \in Workers, worker' = w, Twins(w, worker), w.active = worker.active,
         c # Probe => w.oks = worker.oks,
         bucket' \in Relays \cup {None},
         UNCHANGED <<may, server, tokens, edits, stored, register, rule>>
  PROVE  Inv'
<1>1. /\ Len(w.lists) = Len(worker.lists) /\ w.loaded = worker.loaded /\ w.loading = worker.loading
      /\ worker \in Workers /\ call \in [Callers -> Call]
  BY DEF Twins, Alike, Inv, TypeInv
<1>2. TypeInv'
  <2>1. call' \in [Callers -> Call] /\ \A e \in Callers : call'[e].at # "idle" => call'[e].list \in 1 .. Len(worker.lists)
    BY <1>1 DEF Inv, TypeInv
  <2>. QED
    BY <1>1, <2>1 DEF Inv, TypeInv
<1>3. RulesInv'
  <2>1. \A e \in Callers : call'[e].at = "moved" <=> call[e].at = "moved"
    BY <1>1
  <2>2. worker.loaded => ActiveRule' = ActiveRule
    BY RuleOfTwins DEF Inv, Twins
  <2>. QED
    BY <1>1, <2>1, <2>2 DEF Inv, RulesInv
<1>4. UsableInv'
  <2>1. UsableCore(w)
    BY <1>1, TwinsKeepCore DEF Inv, UsableInv
  <2>2. ProbeIsPrimary'
    BY <1>1 DEF Inv, UsableInv, ProbeIsPrimary, Callers
  <2>3. ProbeIsFresh(worker)'
    BY <1>1 DEF Inv, UsableInv, ProbeIsFresh, Callers
  <2>. QED
    BY <2>1, <2>2, <2>3 DEF Inv, UsableInv
<1>. QED
  BY <1>2, <1>3, <1>4 DEF Inv

\* A worker is its own twin.
LEMMA OwnTwin == \A w \in Workers : Twins(w, w)
BY DEF Twins, Alike

\* No request is under way.
LEMMA IdleIs == Idle \in Call /\ Idle.at = "idle"
BY PrimaryIsARelay, CountAssumption DEF Idle, Call

\* A request goes to the relay in use.
LEMMA StartInv == \A c \in Clients : Inv /\ Start(c) => Inv'
<1>. SUFFICES ASSUME NEW c \in Clients, Inv, Start(c) PROVE Inv'
  OBVIOUS
<1> DEFINE d == [at |-> "sent", list |-> Current, relay |-> worker.active, next |-> "none"]
<1>1. /\ call' = [call EXCEPT ![c] = d] /\ worker \in Workers /\ worker.loaded
      /\ call[c] = Idle /\ c \in Callers /\ c # Probe
      /\ UNCHANGED <<may, server, tokens, edits, stored, worker, register, rule, bucket>>
  BY ClientsAssumption DEF Start, Inv, TypeInv, Callers
<1>2. Current \in 1 .. Len(worker.lists) /\ Current \in 0 .. MaxEdits + 1 /\ worker.active \in Relays
  BY <1>1, CountAssumption DEF Current, Inv, TypeInv, Workers, Lists
<1>3. d \in Call /\ d.at = "sent" /\ d.list = Current
  BY <1>2 DEF Call
<1>4. Twins(worker, worker) /\ bucket \in Relays \cup {None} /\ call[c].at = "idle"
  BY <1>1, OwnTwin, IdleIs DEF Inv, TypeInv
<1>. HIDE DEF d
<1>. QED
  BY <1>1, <1>2, <1>3, <1>4, CallKeeps

\* A relay answers.
LEMMA AnsweredInv == \A c \in Clients : Inv /\ Answered(c) => Inv'
<1>. SUFFICES ASSUME NEW c \in Clients, Inv, Answered(c) PROVE Inv'
  OBVIOUS
<1>1. /\ call' = [call EXCEPT ![c] = Idle] /\ worker' = Succeeded(c) /\ worker \in Workers
      /\ c \in Callers /\ call[c].at \in {"sent", "resent"}
      /\ UNCHANGED <<may, server, tokens, edits, stored, register, rule>>
  BY DEF Answered, UnderWay, Inv, TypeInv, Callers
<1>2. call[c].list \in 1 .. Len(worker.lists) /\ call[c].relay \in Relays
  BY <1>1, Holding
<1>3. Twins(Succeeded(c), worker) /\ Succeeded(c).active = worker.active
  <2>1. Twins(Succeeded(c), worker)
    <3>1. 0 \in 0 .. Threshold
      BY CountAssumption
    <3>2. Twins([worker EXCEPT !.lists[call[c].list][call[c].relay].failures = 0], worker)
      BY <1>1, <1>2, <3>1, Booked
    <3>. QED
      BY <3>2 DEF Succeeded
  <2>2. Succeeded(c).active = worker.active
    BY <1>1 DEF Succeeded, Workers
  <2>. QED
    BY <2>1, <2>2
<1>4. Succeeded(c) \in Workers
  BY <1>3 DEF Twins, Alike
<1>5. bucket' \in Relays \cup {None}
  BY <1>2 DEF Answered, Inv, TypeInv
<1>6. call[c].at # "moved" /\ Idle.at # "moved" /\ Idle \in Call /\ Idle.at = "idle"
  BY <1>1, IdleIs
<1> DEFINE w == Succeeded(c)
<1>7. worker' = w /\ Twins(w, worker) /\ w.active = worker.active /\ w \in Workers
  BY <1>1, <1>3, <1>4
<1>8. w.oks = worker.oks /\ c # Probe
  BY <1>1, ClientsAssumption DEF Succeeded, Workers
<1>. HIDE DEF w
<1>. QED
  BY <1>1, <1>5, <1>6, <1>7, <1>8, CallKeeps

\* The list a second attempt holds is the last one.
LEMMA ResentIs ==
  ASSUME Inv
  PROVE  /\ Resent(worker) \in Call /\ Resent(worker).at \in {"idle", "resent"}
         /\ Resent(worker).at # "idle" => Resent(worker).list \in 1 .. Len(worker.lists)
<1>1. CASE worker.loaded
  <2>1. /\ Len(worker.lists) \in 1 .. Len(worker.lists) /\ Len(worker.lists) \in 0 .. MaxEdits + 1
        /\ worker.active \in Relays
    BY <1>1, CountAssumption DEF Inv, TypeInv, Workers, Lists
  <2>. QED
    BY <1>1, <2>1 DEF Resent, Call
<1>2. CASE ~ worker.loaded
  BY <1>2, IdleIs DEF Resent
<1>. QED
  BY <1>1, <1>2 DEF Inv, TypeInv, Workers

\* The housekeeping ends.
LEMMA DropCachesInv == \A c \in Callers : Inv /\ DropCaches(c) => Inv'
<1>. SUFFICES ASSUME NEW c \in Callers, Inv, DropCaches(c) PROVE Inv'
  OBVIOUS
<1> DEFINE again == \/ call[c].next = "retry"
                    \/ call[c].next = "recheck" /\ ~ IsActive(worker, call[c].list, call[c].relay)
           d == IF again THEN Resent(worker) ELSE Idle
<1>1. /\ call' = [call EXCEPT ![c] = d] /\ worker \in Workers /\ worker' = worker /\ bucket' = None
      /\ call[c].at = "ruled"
      /\ UNCHANGED <<may, server, tokens, edits, stored, register, rule>>
  BY DEF DropCaches, Inv, TypeInv
<1>2. d \in Call /\ d.at \in {"idle", "resent"} /\ (d.at # "idle" => d.list \in 1 .. Len(worker.lists))
  <2>1. CASE again
    BY <2>1, ResentIs
  <2>2. CASE ~ again
    BY <2>2, IdleIs
  <2>. QED
    BY <2>1, <2>2
<1>3. c = Probe => d.at = "idle"
  <2>1. ASSUME c = Probe PROVE call[c].next = "throw"
    BY <1>1, <2>1 DEF Inv, UsableInv, ProbeIsPrimary
  <2>. QED
    BY <2>1, IdleIs
<1>4. Twins(worker, worker)
  BY <1>1, OwnTwin
<1>5. call[c].at # "moved" /\ d.at # "moved" /\ bucket' \in Relays \cup {None} /\ worker.active = worker.active
  BY <1>1, <1>2
<1>. HIDE DEF d
<1>. QED
  BY <1>1, <1>2, <1>3, <1>4, <1>5, CallKeeps

\* The rule that is set is a rule.
LEMMA ActiveRuleIs ==
  ASSUME Inv, worker.loaded
  PROVE  ActiveRule \in [relay : Relays, token : Tokens]
<1>1. Len(worker.lists) \in 1 .. Len(worker.lists) /\ worker.active \in Relays
  BY DEF Inv, TypeInv, Workers, Lists
<1>2. worker.lists[Len(worker.lists)] \in [Relays -> Relay]
  BY <1>1 DEF Inv, TypeInv, Workers, Lists
<1>. QED
  BY <1>1, <1>2 DEF ActiveRule, Current, Relay

\* The rules follow.
LEMMA SetRulesInv == \A c \in Callers : Inv /\ SetRules(c) => Inv'
<1>. SUFFICES ASSUME NEW c \in Callers, Inv, SetRules(c) PROVE Inv'
  OBVIOUS
<1>1. /\ call' = [call EXCEPT ![c].at = "ruled"] /\ rule' = ActiveRule /\ worker.loaded
      /\ call[c].at = "moved" /\ call \in [Callers -> Call]
      /\ UNCHANGED <<may, server, tokens, edits, stored, worker, register, bucket>>
  BY DEF SetRules, Inv, TypeInv
<1>2. ActiveRule \in [relay : Relays, token : Tokens] /\ ActiveRule' = ActiveRule
  BY <1>1, ActiveRuleIs DEF ActiveRule, Current
<1>3. /\ call' \in [Callers -> Call] /\ call'[c].at = "ruled" /\ call'[c].list = call[c].list
      /\ call'[c].next = call[c].next
      /\ \A e \in Callers : e # c => call'[e] = call[e]
  BY <1>1 DEF Call
<1>4. TypeInv'
  <2>1. \A e \in Callers : call'[e].at # "idle" => call'[e].list \in 1 .. Len(worker.lists)
    BY <1>1, <1>3 DEF Inv, TypeInv
  <2>. QED
    BY <1>1, <1>2, <1>3, <2>1 DEF Inv, TypeInv
<1>5. RulesInv'
  BY <1>1, <1>2 DEF Inv, RulesInv
<1>6. UsableInv'
  <2>1. ProbeIsPrimary'
    BY <1>1, <1>3 DEF Inv, UsableInv, ProbeIsPrimary, Callers
  <2>2. ProbeIsFresh(worker)'
    BY <1>1, <1>3 DEF Inv, UsableInv, ProbeIsFresh, Callers
  <2>. QED
    BY <1>1, <2>1, <2>2 DEF Inv, UsableInv
<1>. QED
  BY <1>4, <1>5, <1>6 DEF Inv

\* The rules that were asked for at the start, or after a change of tokens.
LEMMA RegisterInv == Inv /\ Register => Inv'
<1>. SUFFICES ASSUME Inv, Register PROVE Inv'
  OBVIOUS
<1>1. /\ rule' = ActiveRule /\ worker.loaded /\ register' = FALSE
      /\ UNCHANGED <<may, server, tokens, edits, stored, worker, call, bucket>>
  BY DEF Register
<1>2. ActiveRule \in [relay : Relays, token : Tokens] /\ ActiveRule' = ActiveRule
  BY <1>1, ActiveRuleIs DEF ActiveRule, Current
<1>. QED
  BY <1>1, <1>2 DEF Inv, TypeInv, RulesInv, UsableInv, ProbeIsPrimary, ProbeIsFresh

\* Other counts of the probe make a twin.
LEMMA Counted ==
  ASSUME NEW w \in Workers, NEW n \in 0 .. OksNeeded - 1
  PROVE  Twins([w EXCEPT !.oks = n], w) /\ [w EXCEPT !.oks = n].active = w.active
<1> DEFINE v == [w EXCEPT !.oks = n]
<1>1. /\ v \in Workers /\ v.lists = w.lists /\ v.loaded = w.loaded /\ v.loading = w.loading /\ v.active = w.active
  BY DEF Workers
<1>. HIDE DEF v
<1>2. Twins(v, w) /\ v.active = w.active
  BY <1>1 DEF Twins, Alike
<1>. QED
  BY <1>2 DEF v

\* The probe of the primary starts.
LEMMA ProbeStartInv == Inv /\ ProbeStart => Inv'
<1>. SUFFICES ASSUME Inv, ProbeStart PROVE Inv'
  OBVIOUS
<1>1. /\ call[Probe] = Idle /\ worker.loaded /\ Probe \in Callers /\ worker \in Workers
      /\ UNCHANGED <<may, server, tokens, edits, stored, register, rule, bucket>>
      /\ bucket \in Relays \cup {None} /\ call \in [Callers -> Call]
  BY DEF ProbeStart, Callers, Inv, TypeInv
<1>2. CASE worker.active = Primary
  <2> DEFINE w == [worker EXCEPT !.oks = 0]
  <2>1. worker' = w /\ call' = call
    BY <1>2 DEF ProbeStart
  <2>2. Twins(w, worker) /\ w.active = worker.active
    BY <1>1, Counted, CountAssumption
  <2>3. call' = [call EXCEPT ![Probe] = Idle] /\ w \in Workers
    BY <1>1, <2>1, <2>2 DEF Twins, Alike
  <2>4. Idle \in Call /\ Idle.at = "idle" /\ Idle.at # "moved" /\ call[Probe].at # "moved"
    BY <1>1, IdleIs
  <2>. HIDE DEF w
  <2>. QED
    BY <1>1, <2>1, <2>2, <2>3, <2>4, CallKeeps
<1>3. CASE worker.active # Primary
  <2> DEFINE d == [at |-> "sent", list |-> Current, relay |-> Primary, next |-> "none"]
  <2>1. worker' = worker /\ call' = [call EXCEPT ![Probe] = d]
    BY <1>3 DEF ProbeStart
  <2>2. Current \in 1 .. Len(worker.lists) /\ Current \in 0 .. MaxEdits + 1
    BY <1>1, CountAssumption DEF Current, Inv, TypeInv, Workers, Lists
  <2>3. d \in Call /\ d.at = "sent" /\ d.list = Current /\ d.relay = Primary /\ d.list = Len(worker.lists)
    BY <2>2, PrimaryIsARelay DEF Call, Current
  <2>4. Twins(worker, worker) /\ call[Probe].at # "moved" /\ worker.active = worker.active
    BY <1>1, OwnTwin, IdleIs
  <2>. HIDE DEF d
  <2>. QED
    BY <1>1, <2>1, <2>2, <2>3, <2>4, CallKeeps
<1>. QED
  BY <1>2, <1>3

\* A server comes or goes.
LEMMA FlapInv == \A r \in Relays : Inv /\ Flap(r) => Inv'
<1>. SUFFICES ASSUME NEW r \in Relays, Inv, Flap(r) PROVE Inv'
  OBVIOUS
<1>1. /\ server' \in [Relays -> {"up", "down"}]
      /\ UNCHANGED <<may, tokens, edits, stored, worker, call, register, rule, bucket>>
  BY DEF Flap, Inv, TypeInv
<1>2. ActiveRule' = ActiveRule
  BY <1>1 DEF ActiveRule, Current
<1>. QED
  BY <1>1, <1>2 DEF Inv, TypeInv, RulesInv, UsableInv, ProbeIsPrimary, ProbeIsFresh

\* The worker is stopped and started.
LEMMA RestartWorkerInv == Inv /\ RestartWorker => Inv'
<1>. SUFFICES ASSUME Inv, RestartWorker PROVE Inv'
  OBVIOUS
<1>1. /\ worker' = NoRelays /\ call' = [c \in Callers |-> Idle] /\ register' = TRUE /\ bucket' = None
      /\ UNCHANGED <<may, server, tokens, edits, stored, rule>>
  BY DEF RestartWorker
<1>2. NoRelays \in Workers /\ Len(NoRelays.lists) = 0 /\ ~ NoRelays.loaded
  BY PrimaryIsARelay, CountAssumption DEF NoRelays, Workers, Lists
<1>3. call' \in [Callers -> Call] /\ \A c \in Callers : call'[c].at = "idle"
  BY <1>1, IdleIs
<1>4. TypeInv'
  <2>1. /\ may' \in Settings /\ server' \in [Relays -> {"up", "down"}] /\ tokens' \in [Relays -> Tokens]
        /\ stored' \in Relays /\ edits' \in 0 .. MaxEdits
        /\ (rule' = None \/ rule' \in [relay : Relays, token : Tokens])
    BY <1>1 DEF Inv, TypeInv
  <2>2. Len(worker'.lists) <= edits' + (IF worker'.loaded THEN 1 ELSE 0)
    BY <1>1, <1>2, <2>1, CountAssumption
  <2>. QED
    BY <1>1, <1>2, <1>3, <2>1, <2>2 DEF TypeInv
<1>5. RulesInv' /\ UsableInv'
  BY <1>1, <1>2, <1>3 DEF Inv, RulesInv, UsableInv, ProbeIsPrimary, ProbeIsFresh, UsableCore, Callers
<1>. QED
  BY <1>4, <1>5 DEF Inv

\* The list is dropped and loaded again.
LEMMA ReloadInv == Inv /\ Reload /\ tokens' \in [Relays -> Tokens] => Inv'
<1>. SUFFICES ASSUME Inv, Reload, tokens' \in [Relays -> Tokens] PROVE Inv'
  OBVIOUS
<1> DEFINE loading == IF worker.loading = None THEN <<tokens', stored>> ELSE worker.loading
<1>1. /\ edits < MaxEdits /\ edits' = edits + 1 /\ register' = TRUE
      /\ UNCHANGED <<may, server, stored, call, rule, bucket>>
      /\ worker' = [worker EXCEPT !.loaded = FALSE, !.oks = 0, !.loading = loading]
  BY DEF Reload
<1>3. loading \in {None} \cup ([Relays -> Tokens] \X Relays)
  BY DEF Inv, TypeInv, Workers
<1>. HIDE DEF loading
<1>4. /\ worker' \in Workers /\ worker'.lists = worker.lists /\ ~ worker'.loaded /\ worker'.oks = 0
  <2>1. worker \in Workers /\ 0 \in 0 .. OksNeeded - 1
    BY CountAssumption DEF Inv, TypeInv
  <2>. QED
    BY <1>1, <1>3, <2>1 DEF Workers
<1>5. edits' \in 0 .. MaxEdits /\ Len(worker.lists) \in Nat /\ Len(worker.lists) <= edits'
  BY <1>1, CountAssumption DEF Inv, TypeInv, Workers, Lists
<1>6. TypeInv'
  BY <1>1, <1>4, <1>5 DEF Inv, TypeInv
<1>7. RulesInv' /\ UsableInv'
  BY <1>1, <1>4 DEF Inv, RulesInv, UsableInv, ProbeIsPrimary, ProbeIsFresh, UsableCore
<1>. QED
  BY <1>6, <1>7 DEF Inv

\* A token is changed.
LEMMA EditInv == \A r \in Relays : Inv /\ Edit(r) => Inv'
BY ReloadInv DEF Edit, Inv, TypeInv

\* The first list is written.
LEMMA MigrateInv == Inv /\ Migrate => Inv'
BY ReloadInv DEF Migrate, Inv, TypeInv

\* Likeness is passed on.
LEMMA AlikeIsPassedOn == \A u, v, w : Alike(u, v) /\ Alike(v, w) => Alike(u, w)
BY DEF Alike

\* A request fails.
LEMMA FailedInv == \A c \in Clients : Inv /\ Failed(c) => Inv'
<1>. SUFFICES ASSUME NEW c \in Clients, Inv, Failed(c) PROVE Inv'
  OBVIOUS
<1> DEFINE l == call[c].list
           r == call[c].relay
           w == [worker EXCEPT !.lists[l][r].failures = Strikes(Held(c))]
           v == SwitchAway(w, l, r)
<1>1. UnderWay(c) /\ c \in Callers /\ c # Probe /\ call[c].at \in {"sent", "resent"}
  BY ClientsAssumption DEF Failed, UnderWay, Callers
<1>2. /\ l \in 1 .. Len(worker.lists) /\ r \in Relays /\ Held(c) \in Relay /\ worker \in Workers
  BY <1>1, Holding
<1>3. \/ Leave(c, worker, "throw") \/ Leave(c, worker, "recheck")
      \/ Leave(c, v, "retry") \/ Leave(c, w, "throw")
  <2> HIDE DEF v, w
  <2>. QED
    <3>1. CASE call[c].at = "resent"
      BY <1>1, <3>1 DEF Failed, v, w
    <3>2. CASE call[c].at = "sent" /\ Held(c).rejected
      BY <1>1, <3>2 DEF Failed, v, w
    <3>3. CASE call[c].at = "sent" /\ ~ Held(c).rejected /\ Strikes(Held(c)) = Threshold
      BY <1>1, <3>3 DEF Failed, v, w
    <3>4. CASE call[c].at = "sent" /\ ~ Held(c).rejected /\ Strikes(Held(c)) # Threshold
      BY <1>1, <3>4 DEF Failed, v, w
    <3>. QED
      BY <1>1, <3>1, <3>2, <3>3, <3>4
<1>4. Strikes(Held(c)) \in 0 .. Threshold
  BY <1>2, StrikesCount
<1>5. Twins(w, worker) /\ w.active = worker.active /\ w \in Workers
  <2> HIDE DEF l, r
  <2>1. Twins(w, worker)
    BY <1>2, <1>4, Booked
  <2>2. w.active = worker.active
    BY <1>2 DEF Workers
  <2>. QED
    BY <2>1, <2>2 DEF Twins, Alike
<1>. HIDE DEF w, l, r
<1>6. UsableCore(worker) /\ UsableCore(w)
  BY <1>2, <1>5, TwinsKeepCore DEF Inv, UsableInv
<1>7. Alike(v, worker) /\ UsableCore(v)
  <2>1. l \in 1 .. Len(w.lists) /\ Len(w.lists) = Len(worker.lists) /\ Alike(w, worker)
    BY <1>2, <1>5 DEF Twins, Alike
  <2>2. Alike(v, w)
    BY <1>2, <1>5, <2>1, SwitchedIs DEF Switched, Twins
  <2>3. UsableCore(v)
    <3>1. /\ UsableCore(w)
          /\ \A k \in 1 .. Len(w.lists), q \in Relays :
               w.lists[k][q].rejected => w.lists[k][q].token # "good"
      BY <1>6 DEF UsableCore
    <3>. QED
      BY <1>2, <1>5, <2>1, <3>1, SwitchKeepsCore
  <2> HIDE DEF v
  <2>. QED
    BY <2>1, <2>2, <2>3, AlikeIsPassedOn
<1>8. Alike(worker, worker) /\ Alike(w, worker)
  BY <1>2, <1>5, OwnTwin DEF Twins
<1>9. w.oks = worker.oks /\ v.oks \in {worker.oks, 0}
  <2>1. w.oks = worker.oks
    BY <1>2 DEF w, Workers
  <2>. QED
    BY <1>5, <2>1, SwitchCounts
<1>. HIDE DEF v
<1>. QED
  BY <1>1, <1>3, <1>6, <1>7, <1>8, <1>9, LeaveKeeps

\* A relay that refuses a token is left for a usable one.
LEMMA RefusedIsLeft ==
  ASSUME Inv, NEW c \in Callers, call[c].at # "idle", Held(c).token # "good"
  PROVE  LET v == SwitchAway(Rejected(c), call[c].list, call[c].relay)
         IN  Alike(v, worker) /\ UsableCore(v) /\ v.oks \in {worker.oks, 0}
<1> DEFINE l == call[c].list
           r == call[c].relay
           w == [worker EXCEPT !.lists[l][r].rejected = TRUE]
           v == SwitchAway(w, l, r)
<1>1. /\ l \in 1 .. Len(worker.lists) /\ r \in Relays /\ worker \in Workers
      /\ worker.lists[l][r].token # "good"
  BY Holding DEF Held
<1>2. SwitchAway(Rejected(c), call[c].list, call[c].relay) = v
  BY DEF Rejected
<1>. HIDE DEF l, r
<1>3. Entered(w, worker, l, r)
  BY <1>1, Refusal
<1>. HIDE DEF w
<1>4. Alike(w, worker) /\ w \in Workers /\ l \in 1 .. Len(w.lists) /\ Len(w.lists) = Len(worker.lists)
  BY <1>1, <1>3 DEF Entered, Alike
<1>5. Alike(v, w)
  BY <1>1, <1>4, SwitchedIs DEF Switched, Twins
<1>6. UsableCore(v)
  <2>1. UsableCore(worker)
    BY DEF Inv, UsableInv
  <2>2. /\ \A k \in 1 .. Len(w.lists), q \in Relays :
             w.lists[k][q].rejected => w.lists[k][q].token # "good"
        /\ ~ IsActive(w, l, r) => UsableCore(w)
    BY <1>1, <1>3, <1>4, <2>1, EnteredKeepsCore
  <2>. QED
    BY <1>1, <1>4, <2>1, <2>2, SwitchKeepsCore
<1>7. v.oks \in {worker.oks, 0}
  <2>1. w.oks = worker.oks
    BY <1>1 DEF w, Workers
  <2>. QED
    BY <1>4, <2>1, SwitchCounts
<1>. HIDE DEF v
<1>8. Alike(v, worker)
  BY <1>4, <1>5, AlikeIsPassedOn
<1>. QED
  BY <1>2, <1>6, <1>7, <1>8

\* A token is refused.
LEMMA RefusedInv == \A c \in Clients : Inv /\ Refused(c) => Inv'
<1>. SUFFICES ASSUME NEW c \in Clients, Inv, Refused(c) PROVE Inv'
  OBVIOUS
<1> DEFINE v == SwitchAway(Rejected(c), call[c].list, call[c].relay)
           w == IF Held(c).rejected THEN worker ELSE v
           next == IF call[c].at = "resent" THEN "throw" ELSE "recheck"
<1>1. /\ UnderWay(c) /\ c \in Callers /\ c # Probe /\ call[c].at # "idle" /\ Held(c).token # "good"
      /\ Leave(c, w, next) /\ next \in {"retry", "recheck", "throw"}
  BY ClientsAssumption DEF Refused, UnderWay, Callers
<1>2. Alike(v, worker) /\ UsableCore(v) /\ v.oks \in {worker.oks, 0}
  BY <1>1, RefusedIsLeft
<1>3. Alike(worker, worker) /\ UsableCore(worker)
  BY OwnTwin DEF Twins, Inv, TypeInv, UsableInv
<1>. HIDE DEF v, next
<1>4. Alike(w, worker) /\ UsableCore(w) /\ w.oks \in {worker.oks, 0}
  BY <1>2, <1>3
<1>. HIDE DEF w
<1>. QED
  BY <1>1, <1>4, LeaveKeeps

\* The probe fails, or its token is refused.
LEMMA ProbeFailedInv == Inv /\ ProbeFailed => Inv'
<1>. SUFFICES ASSUME Inv, ProbeFailed PROVE Inv'
  OBVIOUS
<1> DEFINE v == SwitchAway(Rejected(Probe), call[Probe].list, Primary)
           u == IF Up(Probe) /\ ~ Held(Probe).rejected THEN v ELSE worker
           w == [u EXCEPT !.oks = 0]
<1>1. /\ UnderWay(Probe) /\ Probe \in Callers /\ call[Probe].at # "idle" /\ Leave(Probe, w, "throw")
      /\ ~ (Up(Probe) /\ Held(Probe).token = "good")
  BY DEF ProbeFailed, UnderWay, Callers
<1>2. call[Probe].relay = Primary
  BY DEF ProbeFailed, UnderWay, Inv, UsableInv, ProbeIsPrimary
<1>3. ASSUME Held(Probe).token # "good" PROVE Alike(v, worker) /\ UsableCore(v)
  <2> DEFINE x == SwitchAway(Rejected(Probe), call[Probe].list, call[Probe].relay)
  <2>1. Alike(x, worker) /\ UsableCore(x)
    BY <1>1, <1>3, RefusedIsLeft
  <2>2. x = v
    BY <1>2
  <2>. HIDE DEF v, x
  <2>. QED
    BY <2>1, <2>2
<1>4. Alike(worker, worker) /\ UsableCore(worker)
  BY OwnTwin DEF Twins, Inv, TypeInv, UsableInv
<1>. HIDE DEF v
<1>5. Alike(u, worker) /\ UsableCore(u) /\ u \in Workers
  BY <1>1, <1>3, <1>4 DEF Alike
<1>. HIDE DEF u
<1>6. Twins(w, u) /\ w.active = u.active
  BY <1>5, Counted, CountAssumption
<1>. HIDE DEF w
<1>7. w \in Workers /\ Alike(w, u)
  BY <1>6 DEF Twins, Alike
<1>8. Alike(w, worker) /\ UsableCore(w)
  BY <1>5, <1>6, <1>7, TwinsKeepCore, AlikeIsPassedOn
<1>. QED
  BY <1>1, <1>8, LeaveKeeps

\* The probe succeeds; often enough, the extension goes back to the primary.
LEMMA ProbeOkInv == Inv /\ ProbeOk => Inv'
<1>. SUFFICES ASSUME Inv, ProbeOk PROVE Inv'
  OBVIOUS
<1> DEFINE s == Succeeded(Probe)
           l == call[Probe].list
<1>1. /\ Probe \in Callers /\ call[Probe].at = "sent" /\ call[Probe].relay = Primary
      /\ Held(Probe).token = "good" /\ call \in [Callers -> Call] /\ bucket \in Relays \cup {None}
      /\ UNCHANGED <<may, server, tokens, edits, register, rule, bucket>>
  BY DEF ProbeOk, UnderWay, Inv, TypeInv, UsableInv, ProbeIsPrimary, Callers
<1>2. /\ l \in 1 .. Len(worker.lists) /\ worker \in Workers /\ call[Probe] \in Call
      /\ worker.lists[l][Primary].token = "good"
  BY <1>1, Holding DEF Held
<1>3. Twins(s, worker) /\ s.active = worker.active
  <2>1. 0 \in 0 .. Threshold
    BY CountAssumption
  <2>2. Twins([worker EXCEPT !.lists[l][Primary].failures = 0], worker)
    BY <1>2, <2>1, PrimaryIsARelay, Booked
  <2>3. [worker EXCEPT !.lists[l][Primary].failures = 0].active = worker.active
    BY <1>2 DEF Workers
  <2>. QED
    BY <1>1, <2>2, <2>3 DEF Succeeded
<1>4. s \in Workers /\ worker.oks \in 0 .. OksNeeded - 1 /\ s.oks = worker.oks
  <2>1. s \in Workers
    BY <1>3 DEF Twins, Alike
  <2>2. s.oks = worker.oks
    BY <1>2 DEF Succeeded, Workers
  <2>. QED
    BY <1>2, <2>1, <2>2 DEF Workers
<1>. HIDE DEF s
<1>5. ASSUME NEW n \in 0 .. OksNeeded - 1, worker' = [s EXCEPT !.oks = n],
             call' = [call EXCEPT ![Probe] = Idle], stored' = stored
      PROVE  Inv'
  <2> DEFINE w == [s EXCEPT !.oks = n]
  <2>1. Twins(w, s) /\ w.active = s.active
    BY <1>4, Counted
  <2>2. worker' = w
    BY <1>5
  <2>. HIDE DEF w
  <2>3. Twins(w, worker) /\ w.active = worker.active /\ w \in Workers
    BY <1>3, <2>1, AlikeChains DEF Twins, Alike
  <2>4. Idle \in Call /\ Idle.at = "idle" /\ Idle.at # "moved" /\ call[Probe].at # "moved"
    BY <1>1, IdleIs
  <2>. QED
    BY <1>1, <1>5, <2>2, <2>3, <2>4, CallKeeps
<1>6. CASE worker.oks + 1 < OksNeeded
  <2>1. worker' = [s EXCEPT !.oks = s.oks + 1] /\ call' = [call EXCEPT ![Probe] = Idle] /\ stored' = stored
    <3>0. ~ (worker.oks + 1 >= OksNeeded)
      BY <1>4, <1>6, CountAssumption
    <3>1. worker' = [s EXCEPT !.oks = @ + 1] /\ call' = [call EXCEPT ![Probe] = Idle] /\ stored' = stored
      BY <1>6, <3>0 DEF ProbeOk, s
    <3>. QED
      BY <3>1
  <2>2. s.oks + 1 \in 0 .. OksNeeded - 1
    BY <1>4, <1>6, CountAssumption
  <2>. QED
    BY <1>5, <2>1, <2>2
<1>7. CASE worker.oks + 1 >= OksNeeded /\ ~ worker.loaded
  <2>1. worker' = [s EXCEPT !.oks = 0] /\ call' = [call EXCEPT ![Probe] = Idle] /\ stored' = stored
    <3>1. ~ (worker.oks + 1 < OksNeeded)
      BY <1>4, <1>7, CountAssumption
    <3>. QED
      BY <1>7, <3>1 DEF ProbeOk, s
  <2>. QED
    BY <1>5, <2>1, CountAssumption
<1>8. CASE worker.oks + 1 >= OksNeeded /\ worker.loaded
  <2> DEFINE d == [call[Probe] EXCEPT !.at = "moved", !.next = "throw"]
             w == [s EXCEPT !.active = Primary, !.oks = 0]
  <2>1. worker' = w /\ stored' = Primary /\ call' = [call EXCEPT ![Probe] = d]
    <3>1. ~ (worker.oks + 1 < OksNeeded) /\ ~ (worker.oks + 1 >= OksNeeded /\ ~ worker.loaded)
      BY <1>4, <1>8, CountAssumption
    <3>2. /\ worker' = [s EXCEPT !.active = Primary, !.oks = 0] /\ stored' = Primary
          /\ call' = [call EXCEPT ![Probe].at = "moved", ![Probe].next = "throw"]
      BY <3>1 DEF ProbeOk, s
    <3>. QED
      BY <1>1, <3>2
  <2>2. d \in Call /\ d.at = "moved" /\ d.list = l /\ d.next = "throw"
    BY <1>2 DEF Call
  <2>3. /\ w \in Workers /\ w.active = Primary /\ w.lists = s.lists /\ w.loaded = s.loaded /\ w.loading = s.loading
    <3>1. 0 \in 0 .. OksNeeded - 1 /\ Primary \in Relays
      BY PrimaryIsARelay, CountAssumption
    <3>. QED
      BY <1>4, <3>1 DEF Workers
  <2>. HIDE DEF d, w
  <2>4. Alike(w, worker) /\ Twins(w, s)
    BY <1>3, <2>3 DEF Twins, Alike
  <2>5. /\ call' \in [Callers -> Call] /\ call'[Probe] = d
        /\ \A e \in Callers : e # Probe => call'[e] = call[e]
    BY <1>1, <2>1, <2>2
  <2>6. TypeInv'
    <3>1. \A e \in Callers : call'[e].at # "idle" => call'[e].list \in 1 .. Len(w.lists)
      BY <1>2, <2>2, <2>4, <2>5 DEF Inv, TypeInv, Alike
    <3>. QED
      BY <1>1, <2>1, <2>3, <2>4, <2>5, <3>1, PrimaryIsARelay DEF Inv, TypeInv, Alike
  <2>7. RulesInv'
    BY <1>1, <1>8, <2>1, <2>2, <2>4, <2>5 DEF Inv, RulesInv, Alike
  <2>8. UsableCore(w)
    <3>0. worker.oks # 0
      BY <1>4, <1>8, CountAssumption
    <3>1. /\ UsableCore(worker) /\ l = Len(worker.lists) /\ Len(w.lists) = Len(worker.lists)
          /\ Len(w.lists) = Len(s.lists)
      BY <1>1, <1>2, <2>3, <2>4, <3>0 DEF Inv, UsableInv, ProbeIsFresh, Alike
    <3>2. \A k \in 1 .. Len(w.lists), q \in Relays :
            /\ w.lists[k][q].token = worker.lists[k][q].token
            /\ w.lists[k][q].rejected = worker.lists[k][q].rejected
      BY <1>3, <2>3, <3>1 DEF Twins, Alike
    <3>3. \A k \in 1 .. Len(w.lists), q \in Relays :
            w.lists[k][q].rejected => w.lists[k][q].token # "good"
      BY <3>1, <3>2 DEF UsableCore
    <3>4. w.lists[l][Primary].token = "good" /\ ~ w.lists[l][Primary].rejected
      BY <1>2, <3>1, <3>2, <3>3, PrimaryIsARelay
    <3>. QED
      BY <2>3, <3>1, <3>3, <3>4 DEF UsableCore, Usable
  <2>9. UsableInv'
    <3>1. ProbeIsPrimary'
      BY <2>2, <2>5 DEF ProbeIsPrimary
    <3>2. ProbeIsFresh(worker)'
      BY <2>2, <2>5 DEF ProbeIsFresh
    <3>. QED
      BY <1>1, <2>1, <2>8, <3>1, <3>2 DEF Inv, UsableInv
  <2>. QED
    BY <2>6, <2>7, <2>9 DEF Inv
<1>. QED
  BY <1>4, <1>6, <1>7, <1>8, CountAssumption

\* Every step keeps the invariant.
LEMMA StepInv == Inv /\ [Next]_vars => Inv'
<1>. SUFFICES ASSUME Inv, [Next]_vars PROVE Inv'
  OBVIOUS
<1>1. CASE UNCHANGED vars
  BY <1>1 DEF vars, Inv, TypeInv, RulesInv, UsableInv, ProbeIsPrimary, ProbeIsFresh, UsableCore,
           ActiveRule, Current
<1>2. CASE Next
  BY <1>2, StartLoadInv, FinishLoadInv, RegisterInv, StartInv, AnsweredInv, FailedInv, RefusedInv,
     SetRulesInv, DropCachesInv, ProbeStartInv, ProbeOkInv, ProbeFailedInv, EditInv, FlapInv,
     MigrateInv, RestartWorkerInv DEF Next
<1>. QED
  BY <1>1, <1>2

\* The invariant holds throughout.
LEMMA Invariance == Spec => []Inv
<1>. QED
  BY InitInv, StepInv, PTL DEF Spec

-----------------------------------------------------------------------------
\* The variables have their types, and no more lists are loaded than there
\* were reasons to load one (ensureRelaysLoaded).
THEOREM TypeCorrect == Spec => []TypeOK
<1>1. Inv => TypeOK
  <2>. SUFFICES ASSUME Inv PROVE TypeOK
    OBVIOUS
  <2>1. Len(worker.lists) \in Nat /\ edits \in 0 .. MaxEdits /\ DOMAIN worker.lists = 1 .. Len(worker.lists)
    BY DEF Inv, TypeInv, Workers, Lists
  <2>2. Len(worker.lists) <= MaxEdits + 1
    BY <2>1, CountAssumption DEF Inv, TypeInv
  <2>3. \A l \in DOMAIN worker.lists : worker.lists[l] \in [Relays -> Relay]
    BY <2>1 DEF Inv, TypeInv, Workers, Lists
  <2>. QED
    BY <2>2, <2>3 DEF Inv, TypeInv, TypeOK, Workers
<1>. QED
  BY <1>1, Invariance, PTL

\* The relay in use has a token that it has not refused, if there is such a
\* relay, whatever answers cross and tokens change (switchAwayFrom,
\* markRelayTokenRejected, probePrimaryRelay).
THEOREM TheActiveRelayIsUsable == Spec => []ActiveIsUsable
<1>1. Inv => ActiveIsUsable
  BY DEF Inv, UsableInv, UsableCore, ActiveIsUsable, Current
<1>. QED
  BY <1>1, Invariance, PTL

\* When nobody has housekeeping left, the rules are for the relay in use, and
\* carry its token, restarts of the worker included (onActiveRelayChanged,
\* registerRelayRules).
THEOREM TheRulesFollow == Spec => []RulesFollowActive
<1>1. Inv => RulesFollowActive
  <2>. SUFFICES ASSUME Inv, worker.loaded, ~ register,
                       \A c \in Callers : call[c].at # "moved"
                PROVE  rule = ActiveRule
    BY DEF RulesFollowActive
  <2>. QED
    BY DEF Inv, RulesInv
<1>. QED
  BY <1>1, Invariance, PTL
=============================================================================
