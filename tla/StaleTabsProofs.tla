--------------------------- MODULE StaleTabsProofs ---------------------------
(* Theorems about StaleTabs: a reload spares text and deliveries, and no    *)
(* stale page stays unannounced, for every number of tabs and sweeps.       *)
EXTENDS StaleTabs, FiniteSetTheorems, TLAPS

SweepRecord == [at : {"idle", "query", "probe", "banner", "tell", "setting"},
                todo : SUBSET Tabs, tab : Tabs \cup {NoTab}, stale : SUBSET Entries]
CallRecord == [at : {"idle", "owed", "next", "fresh", "reload", "tell"},
               todo : SUBSET Tabs, tab : Tabs \cup {NoTab},
               safe : SUBSET Tabs, gone : SUBSET Tabs, late : SUBSET Tabs]

\* What an await leaves to do is at a tab.
PlacesOK ==
  /\ \A s \in Sweeps : sweep[s].at = "banner" => sweep[s].tab \in Tabs
  /\ \A c \in Callers : call[c].at \in {"fresh", "reload"} => call[c].tab \in Tabs

TypeInv == TypeOK /\ PlacesOK

\* A new document is a page like any other.
LEMMA FreshType == /\ Fresh \in Pages
                   /\ [Fresh EXCEPT !.build = "closed"] \in Pages
                   /\ [Fresh EXCEPT !.build = "away"] \in Pages
BY DEF Fresh, Pages, Builds, Composers

\* A loop that is through is a loop like any other.
LEMMA IdleType == SweepIdle \in SweepRecord /\ CallIdle \in CallRecord
BY DEF SweepIdle, CallIdle, SweepRecord, CallRecord

\* The tabs of a list are tabs, its key is one of tabs and builds.
LEMMA ListType ==
  ASSUME NEW list \in SUBSET Entries
  PROVE  TabsOf(list) \in SUBSET Tabs /\ KeyOf(list) \in SUBSET (Tabs \X Builds)
BY DEF TabsOf, KeyOf, Entries

\* A notification names tabs.
LEMMA NotifyType ==
  ASSUME TypeOK, Notify
  PROVE  /\ key' \in SUBSET (Tabs \X Builds)
         /\ notice' \in [tabs : SUBSET Tabs, button : BOOLEAN]
<1>1. latest \in SUBSET Entries /\ notice \in [tabs : SUBSET Tabs, button : BOOLEAN]
  BY DEF TypeOK
<1>2. NoNotice \in [tabs : SUBSET Tabs, button : BOOLEAN]
  BY DEF NoNotice
<1>3. [tabs |-> TabsOf(latest), button |-> \E e \in latest : e.empty]
        \in [tabs : SUBSET Tabs, button : BOOLEAN]
  <2>1. \A b \in BOOLEAN : [tabs |-> TabsOf(latest), button |-> b]
                              \in [tabs : SUBSET Tabs, button : BOOLEAN]
    BY <1>1, ListType
  <2>2. (\E e \in latest : e.empty) \in BOOLEAN
    OBVIOUS
  <2>. QED
    BY <2>1, <2>2, Zenon
<1>. QED
  BY <1>1, <1>2, <1>3, ListType DEF Notify

\* What a sweep or a reload starts with is a call of the right type.
LEMMA BegunType == TypeOK => Begun \in CallRecord
<1> SUFFICES ASSUME TypeOK PROVE Begun \in CallRecord
  OBVIOUS
<1>1. TabsOf(latest) \in SUBSET Tabs
  BY ListType DEF TypeOK
<1>2. TabsOf(sends) \in SUBSET Tabs
  BY DEF TypeOK, TabsOf
<1>3. Protected(TabsOf(sends)) \in SUBSET Tabs
  BY <1>2 DEF TypeOK, Protected
<1>. QED
  BY <1>1, <1>3 DEF Begun, CallIdle, CallRecord

\* A wake leaves the calls as they are, but for its mark.
LEMMA WakeMarks ==
  ASSUME TypeInv, NEW t \in Tabs, Wake(t)
  PROVE  /\ call' \in [Callers -> CallRecord]
         /\ \A c \in Callers :
              /\ call'[c].at = call[c].at /\ call'[c].tab = call[c].tab /\ call'[c].todo = call[c].todo
              /\ call'[c].safe = call[c].safe /\ call'[c].gone = call[c].gone
              /\ call[c].late \subseteq call'[c].late
              /\ t \in call[c].todo \cup {call[c].tab} => t \in call'[c].late
<1>1. call \in [Callers -> CallRecord]
  BY DEF TypeInv, TypeOK, CallRecord
<1>2. call' = [c \in Callers |-> IF t \in call[c].todo \cup {call[c].tab}
                                 THEN [call[c] EXCEPT !.late = @ \cup {t}] ELSE call[c]]
  BY DEF Wake
<1>3. \A c \in Callers : [call[c] EXCEPT !.late = @ \cup {t}] \in CallRecord
  BY <1>1 DEF CallRecord
<1>4. call' \in [Callers -> CallRecord]
  BY <1>1, <1>2, <1>3
<1>. QED
  BY <1>1, <1>2, <1>4 DEF CallRecord

\* The worker starts well formed.
LEMMA InitTypes == Init => TypeInv
<1> SUFFICES ASSUME Init PROVE TypeInv
  OBVIOUS
<1>1. page \in [Tabs -> Pages]
  <2>1. [build : {"old", "none"}, composer : Composers, banner : {FALSE}] \subseteq Pages
    BY DEF Pages, Builds
  <2>. QED
    BY <2>1 DEF Init
<1>2. sweep \in [Sweeps -> SweepRecord]
  <2>1. [SweepIdle EXCEPT !.at = "query"] \in SweepRecord
    BY DEF SweepIdle, SweepRecord
  <2>. QED
    BY <2>1, IdleType DEF Init
<1>3. call \in [Callers -> CallRecord]
  BY IdleType DEF Init
<1>4. notice \in [tabs : SUBSET Tabs, button : BOOLEAN]
  BY DEF Init, NoNotice
<1>5. PlacesOK
  BY DEF Init, PlacesOK, SweepIdle, CallIdle
<1>. QED
  BY <1>1, <1>2, <1>3, <1>4, <1>5 DEF Init, TypeInv, TypeOK, SweepRecord, CallRecord

\* Every step of a loop, a page or a delivery keeps the state well formed.
LEMMA StepTypes == TypeInv /\ [Next]_vars => TypeInv'
<1> SUFFICES ASSUME TypeInv, [Next]_vars PROVE TypeInv'
  OBVIOUS
<1> USE DEF Callers, Open, Stale
<1>0. /\ page \in [Tabs -> Pages] /\ sweep \in [Sweeps -> SweepRecord]
      /\ call \in [Callers -> CallRecord]
  BY DEF TypeInv, TypeOK, SweepRecord, CallRecord
<1>a. ASSUME sweep' \in [Sweeps -> SweepRecord], UNCHANGED <<may, heal, active, delivery, notice, reg, latest, key, call>>,
             page' \in [Tabs -> Pages], inject' \in SUBSET Tabs,
             \A s \in Sweeps : sweep'[s].at = "banner" => sweep'[s].tab \in Tabs
      PROVE  TypeInv'
  BY <1>a DEF TypeInv, TypeOK, PlacesOK, SweepRecord, CallRecord, delivery
<1>b. ASSUME call' \in [Callers -> CallRecord], UNCHANGED <<may, heal, active, delivery, inject, sweep, key, notice>>,
             page' \in [Tabs -> Pages], reg' \in Tabs \cup {NoTab}, latest' \in SUBSET Entries,
             \A c \in Callers : call'[c].at \in {"fresh", "reload"} => call'[c].tab \in Tabs
      PROVE  TypeInv'
  BY <1>b DEF TypeInv, TypeOK, PlacesOK, SweepRecord, CallRecord, delivery
<1>c. ASSUME UNCHANGED <<may, notice, latest, key, inject, sweep, call>>, heal' \in BOOLEAN,
             page' \in [Tabs -> Pages], active' \in Tabs \cup {NoTab}, reg' \in Tabs \cup {NoTab},
             sends' \in SUBSET [tab : Tabs, of : Tabs \cup {NoTab}], owed' \in SUBSET Tabs
      PROVE  TypeInv'
  BY <1>c DEF TypeInv, TypeOK, PlacesOK
<1>1. ASSUME NEW t \in Tabs, Inject(t) PROVE TypeInv'
  <2>1. page' \in [Tabs -> Pages]
    BY <1>0, <1>1 DEF Inject, Pages, Builds
  <2>. QED
    BY <1>0, <1>1, <1>a, <2>1 DEF Inject, TypeInv, TypeOK, PlacesOK
<1>2. ASSUME NEW s \in Sweeps, Query(s) \/ Conclude(s) PROVE TypeInv'
  <2>1. sweep' \in [Sweeps -> SweepRecord]
    BY <1>0, <1>2 DEF Query, Conclude, SweepRecord
  <2>2. latest' \in SUBSET Entries
    BY <1>0, <1>2 DEF Query, Conclude, SweepRecord, TypeInv, TypeOK
  <2>3. \A r \in Sweeps : sweep'[r].at = "banner" => sweep'[r].tab \in Tabs
    BY <1>0, <1>2 DEF Query, Conclude, SweepRecord, TypeInv, PlacesOK
  <2>. QED
    BY <1>0, <1>2, <2>1, <2>2, <2>3 DEF Query, Conclude, TypeInv, TypeOK, PlacesOK, SweepRecord, CallRecord, delivery
<1>3. ASSUME NEW s \in Sweeps, NEW t \in Tabs, Probe(s, t) PROVE TypeInv'
  <2>1. page[t].build \in Builds /\ (page[t].composer = "empty") \in BOOLEAN
    BY <1>0 DEF Pages
  <2>2. [tab |-> t, build |-> page[t].build, empty |-> page[t].composer = "empty"] \in Entries
    BY <2>1 DEF Entries
  <2>3. sweep' \in [Sweeps -> SweepRecord]
    BY <1>0, <1>3, <2>2 DEF Probe, SweepRecord
  <2>4. \A r \in Sweeps : sweep'[r].at = "banner" => sweep'[r].tab \in Tabs
    BY <1>0, <1>3 DEF Probe, SweepRecord, TypeInv, PlacesOK
  <2>. QED
    BY <1>0, <1>3, <1>a, <2>3, <2>4 DEF Probe, TypeInv, TypeOK
<1>4. ASSUME NEW s \in Sweeps, Banner(s) PROVE TypeInv'
  <2>1. sweep' \in [Sweeps -> SweepRecord]
    BY <1>0, <1>4 DEF Banner, SweepRecord
  <2>2. page' \in [Tabs -> Pages]
    BY <1>0, <1>4 DEF Banner, Pages
  <2>3. \A r \in Sweeps : sweep'[r].at = "banner" => sweep'[r].tab \in Tabs
    BY <1>0, <1>4 DEF Banner, SweepRecord, TypeInv, PlacesOK
  <2>. QED
    BY <1>0, <1>4, <1>a, <2>1, <2>2, <2>3 DEF Banner, TypeInv, TypeOK
<1>5. ASSUME NEW s \in Sweeps, TellSwept(s) PROVE TypeInv'
  <2>1. sweep' \in [Sweeps -> SweepRecord]
    BY <1>0, <1>5, IdleType DEF TellSwept, SweepRecord
  <2>2. \A r \in Sweeps : sweep'[r].at = "banner" => sweep'[r].tab \in Tabs
    BY <1>0, <1>5 DEF TellSwept, SweepRecord, TypeInv, PlacesOK, SweepIdle
  <2>. QED
    BY <1>5, <2>1, <2>2, NotifyType DEF TellSwept, TypeInv, TypeOK, PlacesOK, SweepRecord, CallRecord, delivery
<1>6. ASSUME NEW s \in Sweeps, AutoHeal(s) PROVE TypeInv'
  <2>1. sweep' \in [Sweeps -> SweepRecord] /\ call' \in [Callers -> CallRecord]
    BY <1>0, <1>6, IdleType, BegunType DEF AutoHeal, TypeInv
  <2>2. PlacesOK'
    BY <1>0, <1>6 DEF AutoHeal, TypeInv, PlacesOK, SweepIdle, Begun, CallIdle
  <2>. QED
    BY <1>6, <2>1, <2>2 DEF AutoHeal, TypeInv, TypeOK, SweepRecord, CallRecord, delivery
<1>7. ASSUME NEW b \in Buttons, PressButton(b) PROVE TypeInv'
  <2>1. call' \in [Callers -> CallRecord] /\ notice' \in [tabs : SUBSET Tabs, button : BOOLEAN]
    BY <1>0, <1>7, BegunType DEF PressButton, TypeInv, NoNotice
  <2>2. PlacesOK'
    BY <1>0, <1>7 DEF PressButton, TypeInv, PlacesOK, Begun, CallIdle
  <2>. QED
    BY <1>7, <2>1, <2>2 DEF PressButton, TypeInv, TypeOK, SweepRecord, CallRecord, delivery
<1>8. ASSUME NEW c \in Callers, ReadOwed(c) PROVE TypeInv'
  <2>1. Protected(owed) \in SUBSET Tabs
    BY DEF TypeInv, TypeOK, Protected
  <2>2. call' \in [Callers -> CallRecord]
    BY <1>0, <1>8, <2>1 DEF ReadOwed, CallRecord
  <2>3. \A d \in Callers : call'[d].at \in {"fresh", "reload"} => call'[d].tab \in Tabs
    BY <1>0, <1>8 DEF ReadOwed, CallRecord, TypeInv, PlacesOK
  <2>. QED
    BY <1>8, <1>b, <2>2, <2>3 DEF ReadOwed, TypeInv, TypeOK
<1>9. ASSUME NEW c \in Callers, NEW t \in Tabs, Look(c, t) PROVE TypeInv'
  <2>1. call' \in [Callers -> CallRecord]
    <3>1. call' \in {[call EXCEPT ![c].todo = @ \ {t}],
                     [call EXCEPT ![c].todo = @ \ {t}, ![c].tab = t, ![c].at = "fresh"]}
      BY <1>9 DEF Look
    <3>. QED
      BY <1>0, <3>1 DEF CallRecord
  <2>2. \A d \in Callers : call'[d].at \in {"fresh", "reload"} => call'[d].tab \in Tabs
    BY <1>0, <1>9 DEF Look, CallRecord, TypeInv, PlacesOK
  <2>. QED
    BY <1>9, <1>b, <2>1, <2>2 DEF Look, TypeInv, TypeOK
<1>10. ASSUME NEW c \in Callers, ProbeAgain(c) PROVE TypeInv'
  <2>1. call[c].tab \in Tabs
    BY <1>10 DEF ProbeAgain, TypeInv, PlacesOK
  <2>2. call' \in [Callers -> CallRecord]
    <3>1. call[c].gone \cup {call[c].tab} \in SUBSET Tabs
      BY <1>0, <2>1 DEF CallRecord
    <3>2. call' \in {[call EXCEPT ![c].at = "next", ![c].gone = @ \cup {call[c].tab}],
                     [call EXCEPT ![c].at = "reload"], [call EXCEPT ![c].at = "next"]}
      BY <1>10 DEF ProbeAgain
    <3>. QED
      BY <1>0, <3>1, <3>2 DEF CallRecord
  <2>3. \A d \in Callers : call'[d].at \in {"fresh", "reload"} => call'[d].tab \in Tabs
    BY <1>0, <1>10, <2>1 DEF ProbeAgain, CallRecord, TypeInv, PlacesOK
  <2>. QED
    BY <1>10, <1>b, <2>2, <2>3 DEF ProbeAgain, TypeInv, TypeOK
<1>11. ASSUME NEW c \in Callers, Reload(c) PROVE TypeInv'
  <2>1. call[c].tab \in Tabs
    BY <1>11 DEF Reload, TypeInv, PlacesOK
  <2>2. call' \in [Callers -> CallRecord]
    BY <1>0, <1>11, <2>1 DEF Reload, CallRecord
  <2>3. \A d \in Callers : call'[d].at \in {"fresh", "reload"} => call'[d].tab \in Tabs
    BY <1>0, <1>11, <2>1 DEF Reload, CallRecord, TypeInv, PlacesOK
  <2>4. page' \in [Tabs -> Pages] /\ reg' \in Tabs \cup {NoTab}
    BY <1>0, <1>11, <2>1, FreshType DEF Reload, Loaded, TypeInv, TypeOK
  <2>. QED
    BY <1>11, <1>b, <2>2, <2>3, <2>4 DEF Reload, TypeInv, TypeOK
<1>12. ASSUME NEW c \in Callers, Finish(c) PROVE TypeInv'
  <2>1. call' \in [Callers -> CallRecord]
    BY <1>0, <1>12 DEF Finish, CallRecord, CallIdle
  <2>2. \A d \in Callers : call'[d].at \in {"fresh", "reload"} => call'[d].tab \in Tabs
    BY <1>0, <1>12 DEF Finish, CallRecord, CallIdle, TypeInv, PlacesOK
  <2>. QED
    BY <1>12, <1>b, <2>1, <2>2 DEF Finish, TypeInv, TypeOK
<1>13. ASSUME NEW c \in Callers, TellReloaded(c) PROVE TypeInv'
  <2>1. call' \in [Callers -> CallRecord]
    BY <1>0, <1>13, IdleType DEF TellReloaded
  <2>2. PlacesOK'
    BY <1>0, <1>13 DEF TellReloaded, CallIdle, TypeInv, PlacesOK
  <2>. QED
    BY <1>13, <2>1, <2>2, NotifyType DEF TellReloaded, TypeInv, TypeOK, SweepRecord, CallRecord, delivery
<1>14. ASSUME NEW t \in Tabs, Types(t) \/ SendsOrClears(t) \/ Discards(t) PROVE TypeInv'
  <2>1. page' \in [Tabs -> Pages]
    BY <1>0, <1>14, FreshType DEF Types, SendsOrClears, Discards, Pages, Composers
  <2>. QED
    BY <1>14, <1>c, <2>1 DEF Types, SendsOrClears, Discards, TypeInv, TypeOK, worker, delivery
<1>15. ASSUME NEW t \in Tabs, Activates(t) \/ Loads(t) PROVE TypeInv'
  <2>1. page' \in [Tabs -> Pages] /\ reg' \in Tabs \cup {NoTab} /\ active' \in Tabs \cup {NoTab}
    BY <1>0, <1>15, FreshType DEF Activates, Loads, Loaded, TypeInv, TypeOK
  <2>. QED
    BY <1>15, <1>c, <2>1 DEF Activates, Loads, TypeInv, TypeOK, delivery
<1>16. ASSUME NEW t \in Tabs, Closes(t) PROVE TypeInv'
  <2>1. page' \in [Tabs -> Pages]
    BY <1>0, <1>16, FreshType DEF Closes
  <2>. QED
    BY <1>16, <1>c, <2>1 DEF Closes, TypeInv, TypeOK
<1>17. CASE SetStaleAutoHealEnabled
  BY <1>17, <1>c DEF SetStaleAutoHealEnabled, TypeInv, TypeOK, worker, delivery
<1>18. ASSUME NEW t \in Tabs, DispatchFrom(t) \/ HandOff(t) PROVE TypeInv'
  BY <1>18, <1>c DEF DispatchFrom, HandOff, TypeInv, TypeOK, delivery
<1>19. ASSUME NEW t \in Tabs, QueueSend(t) PROVE TypeInv'
  <2>1. (IF reg = NoTab THEN t ELSE reg) \in Tabs
    BY DEF TypeInv, TypeOK
  <2>. QED
    BY <1>19, <1>c, <2>1 DEF QueueSend, TypeInv, TypeOK, worker
<1>20. ASSUME NEW e \in sends, Delivered(e) PROVE TypeInv'
  BY <1>20, <1>c DEF Delivered, TypeInv, TypeOK, worker
<1>21. CASE Sleep
  BY <1>21, <1>0, IdleType DEF Sleep, TypeInv, TypeOK, PlacesOK, SweepRecord, CallRecord, SweepIdle, CallIdle
<1>22. ASSUME NEW s \in Sweeps, Update(s) PROVE TypeInv'
  <2>1. page' \in [Tabs -> Pages]
    BY <1>0, <1>22 DEF Update, Pages, Builds
  <2>2. sweep' \in [Sweeps -> SweepRecord] /\ call' \in [Callers -> CallRecord]
    <3>1. [SweepIdle EXCEPT !.at = "query"] \in SweepRecord
      BY DEF SweepIdle, SweepRecord
    <3>. QED
      BY <1>22, <3>1, IdleType DEF Update
  <2>3. PlacesOK'
    BY <1>22 DEF Update, PlacesOK, SweepIdle, CallIdle
  <2>. QED
    BY <1>22, <2>1, <2>2, <2>3 DEF Update, TypeInv, TypeOK, SweepRecord, CallRecord
<1>23. CASE UNCHANGED vars
  BY <1>23 DEF vars, TypeInv, TypeOK, PlacesOK, worker, delivery
<1>24. ASSUME NEW t \in Tabs, Wake(t) PROVE TypeInv'
  <2>1. sends' \in SUBSET [tab : Tabs, of : Tabs \cup {NoTab}]
    BY <1>24 DEF Wake, Undelivered, TypeInv, TypeOK
  <2>2. PlacesOK'
    BY <1>24, WakeMarks DEF Wake, TypeInv, PlacesOK
  <2>. QED
    BY <1>24, <2>1, <2>2, WakeMarks DEF Wake, TypeInv, TypeOK, SweepRecord, CallRecord
<1>. QED
  BY <1>1, <1>2, <1>3, <1>4, <1>5, <1>6, <1>7, <1>8, <1>9, <1>10, <1>11, <1>12, <1>13, <1>14,
     <1>15, <1>16, <1>17, <1>18, <1>19, <1>20, <1>21, <1>22, <1>23, <1>24
  DEF Next, SweepSteps, ReloadSteps, UserSteps, DeliverySteps, Restarts

\* The worker's lists, its loops and the pages keep their form, whatever comes between.
THEOREM TypeCorrect == Spec => []TypeOK
BY InitTypes, StepTypes, PTL DEF Spec, TypeInv

\* The disturbances of a behaviour are settled at its start.
LEMMA MayStays == [Next]_vars => UNCHANGED may
BY DEF Next, SweepSteps, ReloadSteps, UserSteps, DeliverySteps, Restarts, vars,
   Inject, Probe, Query, Banner, Conclude, TellSwept, AutoHeal, Look, ReadOwed, ProbeAgain,
   Reload, Finish, TellReloaded, Types, SendsOrClears, Activates, Loads, Closes, Discards,
   PressButton, SetStaleAutoHealEnabled, DispatchFrom, HandOff, QueueSend, Wake, Delivered, Sleep, Update

-----------------------------------------------------------------------------
(* Pages. Only an update makes pages stale, and what a call is about to     *)
(* reload has no text and no delivery.                                      *)

NoNewStale == \A t \in Tabs : Stale(t)' => Stale(t)

\* No page goes back to an old build but by an update.
LEMMA StalenessIsOld ==
  ASSUME TypeInv, [Next]_vars, \A s \in Sweeps : ~ Update(s)
  PROVE  NoNewStale
<1> USE DEF Stale, NoNewStale
<1>0. page \in [Tabs -> Pages]
  BY DEF TypeInv, TypeOK
<1>1. ASSUME UNCHANGED page PROVE NoNewStale
  BY <1>1
<1>2. ASSUME NEW t \in Tabs, Inject(t) PROVE NoNewStale
  BY <1>0, <1>2 DEF Inject, Pages
<1>3. ASSUME NEW s \in Sweeps, Banner(s) PROVE NoNewStale
  BY <1>0, <1>3 DEF Banner, Pages
<1>4. ASSUME NEW c \in Callers, Reload(c) PROVE NoNewStale
  BY <1>0, <1>4 DEF Reload, Loaded, Fresh
<1>5. ASSUME NEW t \in Tabs, Types(t) \/ SendsOrClears(t) PROVE NoNewStale
  BY <1>0, <1>5 DEF Types, SendsOrClears, Pages
<1>6. ASSUME NEW t \in Tabs, Activates(t) \/ Loads(t) PROVE NoNewStale
  BY <1>0, <1>6 DEF Activates, Loads, Loaded, Fresh
<1>7. ASSUME NEW t \in Tabs, Closes(t) \/ Discards(t) PROVE NoNewStale
  BY <1>0, <1>7 DEF Closes, Discards, Fresh
<1>8. ASSUME NEW s \in Sweeps,
             Query(s) \/ Conclude(s) \/ TellSwept(s) \/ AutoHeal(s) \/ \E t \in Tabs : Probe(s, t)
      PROVE  UNCHANGED page
  BY <1>8 DEF Query, Conclude, TellSwept, AutoHeal, Probe
<1>9. ASSUME NEW c \in Callers,
             \/ ReadOwed(c) \/ ProbeAgain(c) \/ Finish(c) \/ TellReloaded(c)
             \/ \E t \in Tabs : Look(c, t)
      PROVE  UNCHANGED page
  BY <1>9 DEF Look, ReadOwed, ProbeAgain, Finish, TellReloaded
<1>10. ASSUME NEW t \in Tabs, DispatchFrom(t) \/ HandOff(t) \/ QueueSend(t) \/ Wake(t) PROVE UNCHANGED page
  BY <1>10 DEF DispatchFrom, HandOff, QueueSend, Wake
<1>11. ASSUME NEW e \in sends, Delivered(e) PROVE UNCHANGED page
  BY <1>11 DEF Delivered
<1>12. CASE (\E b \in Buttons : PressButton(b)) \/ SetStaleAutoHealEnabled \/ Sleep \/ UNCHANGED vars
  BY <1>1, <1>12 DEF PressButton, SetStaleAutoHealEnabled, Sleep, vars
<1>. QED
  BY <1>1, <1>2, <1>3, <1>4, <1>5, <1>6, <1>7, <1>8, <1>9, <1>10, <1>11, <1>12
  DEF Next, SweepSteps, ReloadSteps, UserSteps, DeliverySteps, Restarts

\* A page is reloaded in the step its probe allowed, if nobody was quicker.
ReloadIsEmpty ==
  "quick" \notin may =>
    \A c \in Callers : call[c].at = "reload" => page[call[c].tab].composer = "empty"

\* No step but typing fills a composer, and typing comes before the last probe.
LEMMA StepText == TypeInv /\ ReloadIsEmpty /\ [Next]_vars => ReloadIsEmpty'
<1> SUFFICES ASSUME TypeInv, ReloadIsEmpty, [Next]_vars PROVE ReloadIsEmpty'
  OBVIOUS
<1> USE DEF ReloadIsEmpty
<1>0. /\ page \in [Tabs -> Pages] /\ call \in [Callers -> CallRecord]
      /\ \A c \in Callers : call[c].at = "reload" => call[c].tab \in Tabs
  BY DEF TypeInv, TypeOK, PlacesOK, CallRecord
<1>a. ASSUME UNCHANGED <<may, call>>,
             \A t \in Tabs : page[t].composer = "empty" => page'[t].composer = "empty"
      PROVE  ReloadIsEmpty'
  BY <1>0, <1>a
<1>b. ASSUME UNCHANGED <<may, page>>,
             \A c \in Callers : call'[c].at = "reload" => call'[c] = call[c]
      PROVE  ReloadIsEmpty'
  BY <1>0, <1>b
<1>1. ASSUME NEW t \in Tabs, Inject(t) PROVE ReloadIsEmpty'
  BY <1>0, <1>1, <1>a DEF Inject, Pages
<1>2. ASSUME NEW s \in Sweeps, Banner(s) PROVE ReloadIsEmpty'
  BY <1>0, <1>2, <1>a DEF Banner, Pages
<1>3. ASSUME NEW s \in Sweeps, Query(s) \/ Conclude(s) \/ TellSwept(s) \/ \E t \in Tabs : Probe(s, t)
      PROVE  ReloadIsEmpty'
  BY <1>3, <1>b DEF Query, Conclude, TellSwept, Probe
<1>4. ASSUME NEW s \in Sweeps, AutoHeal(s) PROVE ReloadIsEmpty'
  BY <1>0, <1>4, <1>b DEF AutoHeal, Begun, CallIdle, Callers
<1>5. ASSUME NEW b \in Buttons, PressButton(b) PROVE ReloadIsEmpty'
  BY <1>0, <1>5, <1>b DEF PressButton, Begun, CallIdle, Callers
<1>6. ASSUME NEW c \in Callers, ReadOwed(c) \/ Finish(c) \/ TellReloaded(c) \/ \E t \in Tabs : Look(c, t)
      PROVE  ReloadIsEmpty'
  <2>1. \A d \in Callers : call'[d].at = "reload" => call'[d] = call[d]
    <3>1. CASE ReadOwed(c) \/ Finish(c) \/ TellReloaded(c)
      BY <1>0, <3>1 DEF ReadOwed, Finish, TellReloaded, CallIdle, CallRecord
    <3>2. ASSUME NEW t \in Tabs, Look(c, t)
          PROVE  \A d \in Callers : call'[d].at = "reload" => call'[d] = call[d]
      BY <1>0, <3>2 DEF Look, CallRecord
    <3>. QED
      BY <1>6, <3>1, <3>2
  <2>. QED
    BY <1>6, <2>1, <1>b DEF ReadOwed, Finish, TellReloaded, Look
<1>7. ASSUME NEW c \in Callers, ProbeAgain(c) PROVE ReloadIsEmpty'
  <2>1. \/ call' = [call EXCEPT ![c].at = "next", ![c].gone = @ \cup {call[c].tab}]
        \/ call' = [call EXCEPT ![c].at = "next"]
        \/ call' = [call EXCEPT ![c].at = "reload"] /\ page[call[c].tab].composer = "empty"
    BY <1>7 DEF ProbeAgain
  <2>2. \A d \in Callers : call'[d].at = "reload" =>
          /\ call'[d].tab = call[d].tab
          /\ call[d].at = "reload" \/ page[call[d].tab].composer = "empty"
    BY <1>0, <2>1 DEF CallRecord
  <2>3. UNCHANGED <<may, page>>
    BY <1>7 DEF ProbeAgain
  <2>. QED
    BY <2>2, <2>3
<1>8. ASSUME NEW c \in Callers, Reload(c) PROVE ReloadIsEmpty'
  <2>1. \A d \in Callers : call'[d].at = "reload" => call'[d] = call[d]
    BY <1>0, <1>8 DEF Reload, CallRecord
  <2>2. \A t \in Tabs : page[t].composer = "empty" => page'[t].composer = "empty"
    BY <1>0, <1>8 DEF Reload, Loaded, Fresh
  <2>. QED
    BY <1>0, <1>8, <2>1, <2>2 DEF Reload
<1>9. ASSUME NEW t \in Tabs, Types(t) PROVE ReloadIsEmpty'
  BY <1>0, <1>9 DEF Types, Free, worker
<1>10. ASSUME NEW t \in Tabs, SendsOrClears(t) \/ Activates(t) \/ Loads(t) \/ Closes(t) \/ Discards(t)
       PROVE  ReloadIsEmpty'
  <2>1. \A u \in Tabs : page[u].composer = "empty" => page'[u].composer = "empty"
    BY <1>0, <1>10 DEF SendsOrClears, Activates, Loads, Loaded, Closes, Discards, Fresh, Pages
  <2>. QED
    BY <1>10, <2>1, <1>a DEF SendsOrClears, Activates, Loads, Closes, Discards, worker
<1>11. ASSUME NEW t \in Tabs, DispatchFrom(t) \/ HandOff(t) \/ QueueSend(t) PROVE ReloadIsEmpty'
  BY <1>11, <1>a DEF DispatchFrom, HandOff, QueueSend, worker
<1>12. ASSUME NEW e \in sends, Delivered(e) PROVE ReloadIsEmpty'
  BY <1>12, <1>a DEF Delivered, worker
<1>13. CASE SetStaleAutoHealEnabled
  BY <1>13, <1>a DEF SetStaleAutoHealEnabled, worker
<1>14. CASE Sleep \/ \E s \in Sweeps : Update(s)
  BY <1>14 DEF Sleep, Update, CallIdle
<1>15. CASE UNCHANGED vars
  BY <1>15, <1>a DEF vars, worker
<1>16. ASSUME NEW t \in Tabs, Wake(t) PROVE ReloadIsEmpty'
  BY <1>0, <1>16, WakeMarks DEF Wake
<1>. QED
  BY <1>1, <1>2, <1>3, <1>4, <1>5, <1>6, <1>7, <1>8, <1>9, <1>10, <1>11, <1>12, <1>13, <1>14, <1>15,
     <1>16
  DEF Next, SweepSteps, ReloadSteps, UserSteps, DeliverySteps, Restarts

\* No reload destroys text the last probe of the page could have seen.
THEOREM TextIsSpared == Spec => TextSurvives
<1>1. Init => ReloadIsEmpty
  BY DEF Init, ReloadIsEmpty, CallIdle
<1>2. ReloadIsEmpty /\ [Next]_vars
        => [\A c \in Callers, t \in Tabs :
              Reloads(c, t) /\ "quick" \notin may => page[t].composer # "text"]_vars
  BY DEF ReloadIsEmpty, Reloads
<1>. QED
  BY <1>1, <1>2, InitTypes, StepTypes, StepText, PTL DEF Spec, TextSurvives

-----------------------------------------------------------------------------
(* Deliveries. A send of the watcher is for a job that is owed, and is in   *)
(* its tab or in a fresh one; one of a wake waits where no call has missed  *)
(* it. So a stale tab that is not protected is owed nothing, and stays so   *)
(* until it is reloaded.                                                    *)

\* A call will come to the tab, and neither spares it nor was late for it.
Missed(c, t) == t \in (call[c].todo \cup {call[c].tab}) \ (call[c].safe \cup call[c].late)

SendsAreKnown ==
  \A e \in sends : \/ e.of \in owed /\ e.tab = e.of
                   \/ ~ Stale(e.tab)
                   \/ \A c \in Callers : ~ Missed(c, e.tab)
OneSendEach == \A e, f \in sends : e.of # NoTab /\ e.of = f.of => e = f
RegIsFresh == reg # NoTab => ~ Stale(reg)
SafeCovers ==
  \A c \in Callers : call[c].at \in {"next", "fresh", "reload"} =>
    \A t \in owed \ call[c].safe : ~ Stale(t)
PickedIsUnsafe ==
  \A c \in Callers : call[c].at \in {"fresh", "reload"} => call[c].tab \notin call[c].safe
ReloadIsFree ==
  "quick" \notin may =>
    \A c \in Callers : call[c].at = "reload" =>
      /\ call[c].tab \notin owed
      /\ call[c].tab \in TabsOf(sends) => call[c].tab \in call[c].late

DeliveryInv ==
  SendsAreKnown /\ OneSendEach /\ RegIsFresh /\ SafeCovers /\ PickedIsUnsafe /\ ReloadIsFree

\* Tabs, dispatches and sends keep the books straight.
LEMMA StepDelivery == TypeInv /\ DeliveryInv /\ [Next]_vars => DeliveryInv'
<1> SUFFICES ASSUME TypeInv, DeliveryInv, [Next]_vars PROVE DeliveryInv'
  OBVIOUS
<1> USE DEF DeliveryInv
<1>0. /\ page \in [Tabs -> Pages] /\ call \in [Callers -> CallRecord]
      /\ sends \in SUBSET [tab : Tabs, of : Tabs \cup {NoTab}] /\ owed \in SUBSET Tabs /\ reg \in Tabs \cup {NoTab}
      /\ \A c \in Callers : call[c].at \in {"fresh", "reload"} => call[c].tab \in Tabs
      /\ NoTab \notin Tabs /\ \A e \in sends : e.tab \in Tabs
  BY NamesAssumption DEF TypeInv, TypeOK, PlacesOK, CallRecord
<1>01. (\A s \in Sweeps : ~ Update(s)) => NoNewStale
  BY StalenessIsOld
<1>a. ASSUME NoNewStale, UNCHANGED <<may, sends, owed, reg>>,
             \A c \in Callers : \/ call'[c].at \notin {"next", "fresh", "reload"}
                                \/ call'[c].safe = call[c].safe /\ call[c].at = "fresh" /\ call'[c].at = "next"
                                \/ call'[c].safe = call[c].safe /\ call[c].at = "reload" /\ call'[c].at = "next"
                                \/ /\ call'[c].safe = call[c].safe /\ call'[c].at = call[c].at
                                   /\ call'[c].at \in {"fresh", "reload"} => call'[c].tab = call[c].tab
                                   /\ call'[c].late = call[c].late,
             \A c \in Callers, e \in sends : Missed(c, e.tab)' => Missed(c, e.tab)
      PROVE  DeliveryInv'
  <2>1. SendsAreKnown' /\ OneSendEach' /\ RegIsFresh'
    <3>1. SendsAreKnown'
      <4> SUFFICES ASSUME NEW e \in sends
                   PROVE  \/ e.of \in owed /\ e.tab = e.of
                          \/ ~ Stale(e.tab)'
                          \/ \A c \in Callers : ~ Missed(c, e.tab)'
        BY <1>a DEF SendsAreKnown
      <4>. QED
        BY <1>0, <1>a DEF SendsAreKnown, NoNewStale
    <3>2. OneSendEach' /\ RegIsFresh'
      BY <1>0, <1>a DEF OneSendEach, RegIsFresh, NoNewStale
    <3>. QED
      BY <3>1, <3>2
  <2>2. SafeCovers'
    BY <1>0, <1>a DEF SafeCovers, NoNewStale
  <2>3. PickedIsUnsafe' /\ ReloadIsFree'
    BY <1>0, <1>a DEF PickedIsUnsafe, ReloadIsFree, TabsOf
  <2>. QED
    BY <2>1, <2>2, <2>3
<1>1. ASSUME \/ \E t \in Tabs : Inject(t) \/ Types(t) \/ SendsOrClears(t) \/ Discards(t)
             \/ \E s \in Sweeps : Query(s) \/ Banner(s) \/ Conclude(s) \/ TellSwept(s) \/ \E t \in Tabs : Probe(s, t)
             \/ SetStaleAutoHealEnabled
             \/ UNCHANGED vars,
             \A s \in Sweeps : ~ Update(s)
      PROVE  DeliveryInv'
  BY <1>01, <1>1, <1>a
  DEF Missed, Inject, Types, SendsOrClears, Discards, Query, Banner, Conclude, TellSwept, Probe,
      SetStaleAutoHealEnabled, vars, worker, delivery
<1>2. ASSUME \A s \in Sweeps : ~ Update(s), (\E b \in Buttons : PressButton(b)) \/ \E s \in Sweeps : AutoHeal(s)
      PROVE  DeliveryInv'
  <2>1. \A c \in Callers : call'[c] = call[c] \/ call'[c] = Begun
    BY <1>0, <1>2 DEF PressButton, AutoHeal, Callers
  <2>2. Begun.at = "owed" /\ TabsOf(sends) \subseteq Begun.safe
    BY DEF Begun, CallIdle, Protected
  <2>3. \A e \in sends : e.tab \in Begun.safe
    BY <2>2 DEF TabsOf
  <2>4. \A c \in Callers, e \in sends : Missed(c, e.tab)' => Missed(c, e.tab)
    BY <2>1, <2>3 DEF Missed
  <2>5. \A c \in Callers : call'[c] = call[c] \/ call'[c].at = "owed"
    BY <2>1, <2>2
  <2>6. NoNewStale /\ UNCHANGED <<may, sends, owed, reg>>
    BY <1>01, <1>2 DEF PressButton, AutoHeal, delivery
  <2>. QED
    BY <1>a, <2>4, <2>5, <2>6
<1>3. ASSUME NEW c \in Callers, TellReloaded(c) \/ Finish(c), \A s \in Sweeps : ~ Update(s)
      PROVE  DeliveryInv'
  <2>1. \A d \in Callers :
          \/ call'[d] = call[d]
          \/ call'[d].at \in {"idle", "tell"} /\ call'[d].todo = {} /\ call'[d].tab = NoTab
    BY <1>0, <1>3 DEF TellReloaded, Finish, CallIdle
  <2>2. \A d \in Callers, e \in sends : Missed(d, e.tab)' => Missed(d, e.tab)
    BY <1>0, <2>1 DEF Missed
  <2>. QED
    BY <1>01, <1>3, <2>1, <2>2, <1>a DEF TellReloaded, Finish, delivery
<1>4. ASSUME NEW c \in Callers, ReadOwed(c), \A s \in Sweeps : ~ Update(s) PROVE DeliveryInv'
  <2>1. UNCHANGED <<may, page, sends, owed, reg>>
    BY <1>4 DEF ReadOwed, delivery
  <2>2. /\ call'[c].at = "next" /\ owed \subseteq call'[c].safe
        /\ call[c].safe \subseteq call'[c].safe /\ call'[c].late = call[c].late
        /\ call'[c].todo = call[c].todo /\ call'[c].tab = call[c].tab
        /\ \A d \in Callers \ {c} : call'[d] = call[d]
    BY <1>0, <1>4 DEF ReadOwed, Protected, CallRecord
  <2>. QED
    BY <1>0, <2>1, <2>2
    DEF SendsAreKnown, OneSendEach, Missed, RegIsFresh, SafeCovers, PickedIsUnsafe, ReloadIsFree, Stale, TabsOf
<1>5. ASSUME NEW c \in Callers, NEW t \in Tabs, Look(c, t) PROVE DeliveryInv'
  <2>1. UNCHANGED <<may, page, sends, owed, reg>>
    BY <1>5 DEF Look, delivery
  <2>2. /\ call[c].at = "next" /\ call'[c].at \in {"next", "fresh"}
        /\ call'[c].safe = call[c].safe /\ call'[c].late = call[c].late
        /\ call'[c].at = "fresh" => call'[c].tab \notin call[c].safe
        /\ call'[c].todo \cup {call'[c].tab} \subseteq call[c].todo \cup {call[c].tab}
        /\ \A d \in Callers \ {c} : call'[d] = call[d]
    BY <1>0, <1>5 DEF Look, CallRecord
  <2>. QED
    BY <1>0, <2>1, <2>2
    DEF SendsAreKnown, OneSendEach, Missed, RegIsFresh, SafeCovers, PickedIsUnsafe, ReloadIsFree, Stale, TabsOf
<1>6. ASSUME NEW c \in Callers, ProbeAgain(c) PROVE DeliveryInv'
  <2>1. UNCHANGED <<may, page, sends, owed, reg>>
    BY <1>6 DEF ProbeAgain, delivery
  <2>2. /\ call[c].at = "fresh" /\ call'[c].at \in {"next", "reload"}
        /\ call'[c].safe = call[c].safe /\ call'[c].tab = call[c].tab
        /\ call'[c].late = call[c].late /\ call'[c].todo = call[c].todo
        /\ call'[c].at = "reload" => Stale(call[c].tab)
        /\ \A d \in Callers \ {c} : call'[d] = call[d]
    BY <1>0, <1>6 DEF ProbeAgain, CallRecord
  <2>3. call'[c].at = "reload" =>
          /\ call[c].tab \notin owed
          /\ \A e \in sends : e.tab = call[c].tab => call[c].tab \in call[c].late
    <3> SUFFICES ASSUME call'[c].at = "reload"
                 PROVE  /\ call[c].tab \notin owed
                        /\ \A e \in sends : e.tab = call[c].tab => call[c].tab \in call[c].late
      OBVIOUS
    <3>1. call[c].tab \notin owed /\ call[c].tab \notin call[c].safe
      BY <2>2 DEF SafeCovers, PickedIsUnsafe
    <3>2. ASSUME NEW e \in sends, e.tab = call[c].tab PROVE call[c].tab \in call[c].late
      <4>1. ~ Missed(c, e.tab)
        BY <2>2, <3>1, <3>2 DEF SendsAreKnown
      <4>. QED
        BY <3>1, <3>2, <4>1 DEF Missed
    <3>. QED
      BY <3>1, <3>2
  <2>4. SendsAreKnown' /\ OneSendEach' /\ RegIsFresh'
    BY <1>0, <2>1, <2>2 DEF SendsAreKnown, OneSendEach, Missed, RegIsFresh, Stale
  <2>5. SafeCovers' /\ PickedIsUnsafe'
    BY <2>1, <2>2 DEF SafeCovers, PickedIsUnsafe, Stale
  <2>6. ReloadIsFree'
    BY <2>1, <2>2, <2>3 DEF ReloadIsFree, TabsOf
  <2>. QED
    BY <2>4, <2>5, <2>6
<1>7. ASSUME NEW c \in Callers, Reload(c), \A s \in Sweeps : ~ Update(s) PROVE DeliveryInv'
  <2>1. \A d \in Callers : \/ call'[d] = call[d]
                           \/ /\ call'[d].safe = call[d].safe /\ call'[d].late = call[d].late
                              /\ call'[d].todo = call[d].todo /\ call'[d].tab = call[d].tab
                              /\ call[d].at = "reload" /\ call'[d].at = "next"
    BY <1>0, <1>7 DEF Reload, CallRecord
  <2>2. UNCHANGED <<may, sends, owed>>
    BY <1>7 DEF Reload, delivery
  <2>3. RegIsFresh'
    BY <1>0, <1>01, <1>7 DEF Reload, Loaded, Fresh, RegIsFresh, NoNewStale, Stale
  <2>4. SendsAreKnown' /\ OneSendEach'
    <3>1. \A d \in Callers, e \in sends : Missed(d, e.tab)' => Missed(d, e.tab)
      BY <2>1 DEF Missed
    <3>2. \A e \in sends : Stale(e.tab)' => Stale(e.tab)
      BY <1>0, <1>01, <1>7 DEF NoNewStale
    <3>3. OneSendEach'
      BY <2>2 DEF OneSendEach
    <3>4. ASSUME NEW e \in sends
          PROVE  \/ e.of \in owed /\ e.tab = e.of
                 \/ ~ Stale(e.tab)'
                 \/ \A d \in Callers : ~ Missed(d, e.tab)'
      BY <3>1, <3>2 DEF SendsAreKnown
    <3>. QED
      BY <2>2, <3>3, <3>4 DEF SendsAreKnown
  <2>5. SafeCovers'
    BY <1>0, <1>01, <1>7, <2>1, <2>2 DEF SafeCovers, NoNewStale
  <2>6. PickedIsUnsafe' /\ ReloadIsFree'
    BY <2>1, <2>2 DEF PickedIsUnsafe, ReloadIsFree, TabsOf
  <2>. QED
    BY <2>3, <2>4, <2>5, <2>6
<1>8. ASSUME NEW t \in Tabs, Activates(t) \/ Loads(t), \A s \in Sweeps : ~ Update(s) PROVE DeliveryInv'
  <2>1. UNCHANGED <<may, sends, owed, call>>
    BY <1>8 DEF Activates, Loads, delivery
  <2>2. RegIsFresh'
    BY <1>0, <1>01, <1>8 DEF Activates, Loads, Loaded, Fresh, RegIsFresh, NoNewStale, Stale
  <2>. QED
    BY <1>0, <1>01, <1>8, <2>1, <2>2
    DEF SendsAreKnown, OneSendEach, Missed, SafeCovers, PickedIsUnsafe, ReloadIsFree, NoNewStale, TabsOf
<1>9. ASSUME NEW t \in Tabs, Closes(t), \A s \in Sweeps : ~ Update(s) PROVE DeliveryInv'
  <2>1. UNCHANGED <<may, owed, call>> /\ sends' \subseteq sends /\ reg' \in {reg, NoTab}
    BY <1>9 DEF Closes
  <2>. QED
    BY <1>0, <1>01, <1>9, <2>1
    DEF SendsAreKnown, OneSendEach, Missed, RegIsFresh, SafeCovers, PickedIsUnsafe, ReloadIsFree, NoNewStale, TabsOf
<1>10. ASSUME NEW t \in Tabs, DispatchFrom(t) \/ HandOff(t) PROVE DeliveryInv'
  <2>1. UNCHANGED <<may, page, sends, call>> /\ reg' = t /\ owed \subseteq owed' /\ owed' \subseteq owed \cup {t}
    BY <1>10 DEF DispatchFrom, HandOff, delivery
  <2>2. ~ Stale(t)
    BY <1>10 DEF DispatchFrom, HandOff, Stale
  <2>3. "quick" \in may \/ \A c \in Callers : call[c].at = "reload" => call[c].tab # t
    BY <1>10 DEF DispatchFrom, HandOff, Free
  <2>. QED
    BY <1>0, <2>1, <2>2, <2>3
    DEF SendsAreKnown, OneSendEach, Missed, RegIsFresh, SafeCovers, PickedIsUnsafe, ReloadIsFree, Stale, TabsOf
<1>11. ASSUME NEW t \in Tabs, QueueSend(t) PROVE DeliveryInv'
  <2> DEFINE u == IF reg = NoTab THEN t ELSE reg
  <2>1. /\ UNCHANGED <<may, page, owed, reg, call>>
        /\ t \in owed /\ \A e \in sends : e.of # t
        /\ sends' = sends \cup {[tab |-> u, of |-> t]}
        /\ "quick" \in may \/ \A c \in Callers : call[c].at = "reload" => call[c].tab # u
    BY <1>11 DEF QueueSend, Free, worker
  <2>2. SendsAreKnown' /\ OneSendEach'
    <3>1. u = t \/ ~ Stale(u)
      BY DEF RegIsFresh
    <3>2. OneSendEach'
      BY <2>1 DEF OneSendEach
    <3>3. SendsAreKnown'
      BY <2>1, <3>1 DEF SendsAreKnown, Missed, Stale
    <3>. QED
      BY <3>2, <3>3
  <2>3. RegIsFresh' /\ SafeCovers' /\ PickedIsUnsafe'
    BY <2>1 DEF RegIsFresh, SafeCovers, PickedIsUnsafe, Stale
  <2>4. ReloadIsFree'
    BY <2>1 DEF ReloadIsFree, TabsOf
  <2>. QED
    BY <2>2, <2>3, <2>4
<1>12. ASSUME NEW e \in sends, Delivered(e) PROVE DeliveryInv'
  <2>1. UNCHANGED <<may, page, reg, call>> /\ sends' = sends \ {e} /\ owed' = owed \ {e.of}
    BY <1>12 DEF Delivered, worker
  <2>2. SendsAreKnown' /\ OneSendEach'
    <3>1. \A f \in sends \ {e} : f.of \in owed => f.of \in owed \ {e.of}
      BY <1>0 DEF OneSendEach
    <3>2. OneSendEach'
      BY <2>1 DEF OneSendEach
    <3>3. SendsAreKnown'
      BY <2>1, <3>1 DEF SendsAreKnown, Missed, Stale
    <3>. QED
      BY <3>2, <3>3
  <2>. QED
    BY <1>0, <2>1, <2>2 DEF RegIsFresh, SafeCovers, PickedIsUnsafe, ReloadIsFree, Stale, TabsOf
<1>w. ASSUME NEW t \in Tabs, Wake(t) PROVE DeliveryInv'
  <2>1. UNCHANGED <<may, page, owed, reg>>
    BY <1>w DEF Wake
  <2>2. PICK x \in owed \cup {NoTab} :
          /\ x = NoTab \/ \A e \in sends : e.of # x
          /\ sends' = sends \cup {[tab |-> t, of |-> x]}
    BY <1>w DEF Wake, Undelivered
  <2>3. \A c \in Callers :
          /\ call'[c].at = call[c].at /\ call'[c].tab = call[c].tab /\ call'[c].todo = call[c].todo
          /\ call'[c].safe = call[c].safe /\ call[c].late \subseteq call'[c].late
          /\ t \in call[c].todo \cup {call[c].tab} => t \in call'[c].late
    BY <1>w, WakeMarks
  <2>4. \A c \in Callers : /\ ~ Missed(c, t)'
                           /\ \A u \in Tabs : Missed(c, u)' => Missed(c, u)
    BY <2>3 DEF Missed
  <2>5. SendsAreKnown'
    <3> SUFFICES ASSUME NEW e \in sends'
                 PROVE  \/ e.of \in owed /\ e.tab = e.of
                        \/ ~ Stale(e.tab)
                        \/ \A c \in Callers : ~ Missed(c, e.tab)'
      BY <2>1 DEF SendsAreKnown, Stale
    <3>1. CASE e \in sends
      BY <1>0, <2>4, <3>1 DEF SendsAreKnown
    <3>2. CASE e.tab = t
      BY <2>4, <3>2
    <3>. QED
      BY <2>2, <3>1, <3>2
  <2>6. OneSendEach'
    BY <1>0, <2>1, <2>2 DEF OneSendEach
  <2>7. RegIsFresh' /\ SafeCovers' /\ PickedIsUnsafe'
    BY <2>1, <2>3 DEF RegIsFresh, SafeCovers, PickedIsUnsafe, Stale
  <2>8. ReloadIsFree'
    <3>1. \A u \in Tabs : u \in TabsOf(sends)' => u \in TabsOf(sends) \/ u = t
      <4>1. \A e \in sends' : e \in sends \/ e.tab = t
        BY <2>2
      <4>. QED
        BY <4>1 DEF TabsOf
    <3>2. SUFFICES ASSUME "quick" \notin may', NEW c \in Callers, call'[c].at = "reload"
                   PROVE  /\ call'[c].tab \notin owed'
                          /\ call'[c].tab \in TabsOf(sends)' => call'[c].tab \in call'[c].late
      BY DEF ReloadIsFree
    <3>. QED
      BY <1>0, <2>1, <2>3, <3>1, <3>2 DEF ReloadIsFree
  <2>. QED
    BY <2>5, <2>6, <2>7, <2>8
<1>13. CASE Sleep \/ \E s \in Sweeps : Update(s)
  BY <1>13 DEF Sleep, Update, SendsAreKnown, OneSendEach, RegIsFresh, SafeCovers, PickedIsUnsafe, ReloadIsFree, CallIdle
<1>. QED
  BY <1>1, <1>2, <1>3, <1>4, <1>5, <1>6, <1>7, <1>8, <1>9, <1>10, <1>11, <1>12, <1>w, <1>13
  DEF Next, SweepSteps, ReloadSteps, UserSteps, DeliverySteps, Restarts

\* background.js getDeliveryProtectedTabIds, reloadStaleEmptyTabs: whatever is
\* dispatched, queued and delivered while loops run, no tab is reloaded to which
\* a result is owed or in which a send waits, but for a wake that came too late.
THEOREM DeliveriesAreSpared == Spec => DeliverySpared
<1>1. Init => DeliveryInv
  BY DEF Init, DeliveryInv, SendsAreKnown, OneSendEach, RegIsFresh, SafeCovers, PickedIsUnsafe,
     ReloadIsFree, CallIdle
<1>2. DeliveryInv /\ [Next]_vars
        => [\A c \in Callers, t \in Tabs : Reloads(c, t) /\ "quick" \notin may /\ Open(t) =>
              /\ t \notin owed
              /\ t \in TabsOf(sends) => t \in call[c].late]_vars
  BY DEF DeliveryInv, ReloadIsFree, Reloads
<1>. QED
  BY <1>1, <1>2, InitTypes, StepTypes, StepDelivery, PTL DEF Spec, DeliverySpared

-----------------------------------------------------------------------------
(* Announcements. Every sweep collects all stale pages on its way, so that  *)
(* the list of whichever concludes last has them all; what a reload takes   *)
(* from the list is fresh.                                                  *)

Early(s) == sweep[s].at \in {"query", "probe", "banner"}
Covers(list) == \A t \in Tabs : Stale(t) => t \in TabsOf(list) /\ page[t].banner

SomeListCovers == (\E s \in Sweeps : Early(s)) \/ Covers(latest)
SweptIsListed ==
  \A s \in Sweeps, t \in Tabs :
    sweep[s].at \in {"probe", "banner", "tell", "setting"} /\ Stale(t) =>
      \/ sweep[s].at \in {"probe", "banner"} /\ t \in sweep[s].todo
      \/ /\ t \in TabsOf(sweep[s].stale)
         /\ page[t].banner \/ (sweep[s].at = "banner" /\ sweep[s].tab = t)
KeyIsCurrent ==
  \/ key = KeyOf(latest)
  \/ \E s \in Sweeps : sweep[s].at = "tell"
  \/ \E c \in Callers : call[c].at = "tell"
GoneIsFresh == \A c \in Callers : \A t \in call[c].gone : ~ Stale(t)

CoverInv ==
  "sleep" \notin may => SomeListCovers /\ SweptIsListed /\ KeyIsCurrent /\ GoneIsFresh

\* A banner goes with its page only.
LEMMA BannersStay ==
  ASSUME TypeInv, [Next]_vars, NEW t \in Tabs, page[t].banner, Stale(t)'
  PROVE  page'[t].banner
<1> USE DEF Stale
<1>0. page \in [Tabs -> Pages]
  BY DEF TypeInv, TypeOK
<1>1. ASSUME UNCHANGED page PROVE page'[t].banner
  BY <1>1
<1>2. ASSUME NEW u \in Tabs, Inject(u) \/ Types(u) \/ SendsOrClears(u) PROVE page'[t].banner
  BY <1>0, <1>2 DEF Inject, Types, SendsOrClears, Pages
<1>3. ASSUME NEW s \in Sweeps, Banner(s) PROVE page'[t].banner
  BY <1>0, <1>3 DEF Banner, Pages
<1>4. ASSUME NEW c \in Callers, Reload(c) PROVE page'[t].banner
  BY <1>0, <1>4 DEF Reload, Loaded, Fresh
<1>5. ASSUME NEW u \in Tabs, Activates(u) \/ Loads(u) PROVE page'[t].banner
  BY <1>0, <1>5 DEF Activates, Loads, Loaded, Fresh
<1>6. ASSUME NEW u \in Tabs, Closes(u) \/ Discards(u) PROVE page'[t].banner
  BY <1>0, <1>6 DEF Closes, Discards, Fresh
<1>7. ASSUME NEW s \in Sweeps, Update(s) PROVE page'[t].banner
  BY <1>0, <1>7 DEF Update, Pages
<1>8. ASSUME NEW s \in Sweeps,
             Query(s) \/ Conclude(s) \/ TellSwept(s) \/ AutoHeal(s) \/ \E u \in Tabs : Probe(s, u)
      PROVE  UNCHANGED page
  BY <1>8 DEF Query, Conclude, TellSwept, AutoHeal, Probe
<1>9. ASSUME NEW c \in Callers,
             \/ ReadOwed(c) \/ ProbeAgain(c) \/ Finish(c) \/ TellReloaded(c)
             \/ \E u \in Tabs : Look(c, u)
      PROVE  UNCHANGED page
  BY <1>9 DEF Look, ReadOwed, ProbeAgain, Finish, TellReloaded
<1>10. ASSUME NEW u \in Tabs, DispatchFrom(u) \/ HandOff(u) \/ QueueSend(u) \/ Wake(u) PROVE UNCHANGED page
  BY <1>10 DEF DispatchFrom, HandOff, QueueSend, Wake
<1>11. ASSUME NEW e \in sends, Delivered(e) PROVE UNCHANGED page
  BY <1>11 DEF Delivered
<1>12. CASE (\E b \in Buttons : PressButton(b)) \/ SetStaleAutoHealEnabled \/ Sleep \/ UNCHANGED vars
  BY <1>1, <1>12 DEF PressButton, SetStaleAutoHealEnabled, Sleep, vars
<1>. QED
  BY <1>1, <1>2, <1>3, <1>4, <1>5, <1>6, <1>7, <1>8, <1>9, <1>10, <1>11, <1>12
  DEF Next, SweepSteps, ReloadSteps, UserSteps, DeliverySteps, Restarts

\* Sweeps list what is stale, reloads unlist what is not.
LEMMA StepCover == TypeInv /\ CoverInv /\ [Next]_vars => CoverInv'
<1> SUFFICES ASSUME TypeInv, CoverInv, [Next]_vars, "sleep" \notin may'
             PROVE  SomeListCovers' /\ SweptIsListed' /\ KeyIsCurrent' /\ GoneIsFresh'
  BY DEF CoverInv
<1> DEFINE Goal == SomeListCovers' /\ SweptIsListed' /\ KeyIsCurrent' /\ GoneIsFresh'
<1>0. /\ page \in [Tabs -> Pages] /\ call \in [Callers -> CallRecord]
      /\ sweep \in [Sweeps -> SweepRecord] /\ latest \in SUBSET Entries
      /\ \A s \in Sweeps : sweep[s].at = "banner" => sweep[s].tab \in Tabs
      /\ \A c \in Callers : call[c].at \in {"fresh", "reload"} => call[c].tab \in Tabs
  BY DEF TypeInv, TypeOK, PlacesOK, CallRecord, SweepRecord
<1>01. (\A s \in Sweeps : ~ Update(s)) => NoNewStale
  BY StalenessIsOld
<1>02. \A t \in Tabs : page[t].banner /\ Stale(t)' => page'[t].banner
  BY BannersStay
<1>03. UNCHANGED may
  BY MayStays
<1>04. SomeListCovers /\ SweptIsListed /\ KeyIsCurrent /\ GoneIsFresh
  BY <1>03 DEF CoverInv
<1>a. ASSUME NoNewStale, UNCHANGED <<sweep, latest, key>>,
             \A c \in Callers : /\ call'[c].at = "tell" <=> call[c].at = "tell"
                                /\ \A t \in call'[c].gone : t \in call[c].gone \/ (t \in Tabs /\ ~ Stale(t)')
      PROVE  Goal
  <2>1. SomeListCovers'
    BY <1>0, <1>02, <1>04, <1>a DEF SomeListCovers, Early, Covers, NoNewStale
  <2>2. SweptIsListed'
    BY <1>0, <1>02, <1>04, <1>a DEF SweptIsListed, NoNewStale
  <2>3. KeyIsCurrent' /\ GoneIsFresh'
    BY <1>0, <1>04, <1>a DEF KeyIsCurrent, GoneIsFresh, NoNewStale, CallRecord
  <2>. QED
    BY <2>1, <2>2, <2>3
<1>1. ASSUME \/ \E t \in Tabs : \/ Inject(t) \/ Types(t) \/ SendsOrClears(t) \/ Activates(t)
                                \/ Loads(t) \/ Closes(t) \/ Discards(t)
                                \/ DispatchFrom(t) \/ HandOff(t) \/ QueueSend(t)
             \/ \E e \in sends : Delivered(e)
             \/ SetStaleAutoHealEnabled
             \/ UNCHANGED vars,
             \A s \in Sweeps : ~ Update(s)
      PROVE  Goal
  <2>1. UNCHANGED <<sweep, latest, key, call>>
    BY <1>1 DEF Inject, Types, SendsOrClears, Activates, Loads, Closes, Discards, DispatchFrom,
       HandOff, QueueSend, Delivered, SetStaleAutoHealEnabled, vars, worker
  <2>. QED
    BY <1>01, <1>1, <1>a, <2>1
<1>2. ASSUME NEW c \in Callers, ReadOwed(c) \/ ProbeAgain(c) \/ \E t \in Tabs : Look(c, t),
             \A s \in Sweeps : ~ Update(s)
      PROVE  Goal
  <2>1. UNCHANGED <<sweep, latest, key, page>>
    BY <1>2 DEF ReadOwed, ProbeAgain, Look
  <2>2. CASE ReadOwed(c)
    <3>1. \A d \in Callers : /\ call'[d].at = "tell" <=> call[d].at = "tell"
                             /\ call'[d].gone = call[d].gone
      BY <1>0, <2>2 DEF ReadOwed, CallRecord
    <3>. QED
      BY <1>01, <1>2, <1>a, <2>1, <3>1
  <2>3. ASSUME NEW t \in Tabs, Look(c, t) PROVE Goal
    <3>1. \/ call' = [call EXCEPT ![c].todo = @ \ {t}]
          \/ call' = [call EXCEPT ![c].todo = @ \ {t}, ![c].tab = t, ![c].at = "fresh"]
      BY <2>3 DEF Look
    <3>2. call[c].at = "next"
      BY <2>3 DEF Look
    <3>3. \A d \in Callers : /\ call'[d].at = "tell" <=> call[d].at = "tell"
                             /\ call'[d].gone = call[d].gone
      BY <1>0, <3>1, <3>2 DEF CallRecord
    <3>. QED
      BY <1>01, <1>2, <1>a, <2>1, <3>3
  <2>4. CASE ProbeAgain(c)
    <3>1. call[c].at = "fresh"
      BY <2>4 DEF ProbeAgain
    <3>2. PICK u \in Tabs : u = call[c].tab
      BY <1>0, <3>1
    <3>3. \/ call' = [call EXCEPT ![c].at = "next", ![c].gone = @ \cup {u}] /\ page[u].build = "cur"
          \/ call' = [call EXCEPT ![c].at = "next"]
          \/ call' = [call EXCEPT ![c].at = "reload"]
      BY <2>4, <3>2 DEF ProbeAgain
    <3>4. page[u].build = "cur" => ~ Stale(u)'
      BY <2>1 DEF Stale
    <3>5. \A d \in Callers : /\ call'[d].at = "tell" <=> call[d].at = "tell"
                             /\ \/ call'[d].gone = call[d].gone
                                \/ call'[d].gone = call[d].gone \cup {u} /\ page[u].build = "cur"
      BY <1>0, <3>1, <3>3 DEF CallRecord
    <3>6. \A d \in Callers : \A t \in call'[d].gone : t \in call[d].gone \/ (t \in Tabs /\ ~ Stale(t)')
      BY <3>4, <3>5
    <3>. QED
      BY <1>01, <1>2, <1>a, <2>1, <3>5, <3>6
  <2>. QED
    BY <1>2, <2>2, <2>3, <2>4
<1>3. ASSUME NEW c \in Callers, Reload(c), \A s \in Sweeps : ~ Update(s) PROVE Goal
  <2>1. UNCHANGED <<sweep, latest, key>> /\ call[c].at = "reload"
    BY <1>3 DEF Reload
  <2>2. PICK u \in Tabs : u = call[c].tab
    BY <1>0, <2>1
  <2>3. \/ call' = [call EXCEPT ![c].at = "next", ![c].gone = @ \cup {u}] /\ page' = [page EXCEPT ![u] = Fresh]
        \/ call' = [call EXCEPT ![c].at = "next"]
    BY <1>3, <2>2 DEF Reload, Loaded
  <2>4. page' = [page EXCEPT ![u] = Fresh] => ~ Stale(u)'
    BY <1>0 DEF Stale, Fresh
  <2>5. \A d \in Callers : /\ call'[d].at = "tell" <=> call[d].at = "tell"
                           /\ \/ call'[d].gone = call[d].gone
                              \/ call'[d].gone = call[d].gone \cup {u} /\ page' = [page EXCEPT ![u] = Fresh]
    BY <1>0, <2>1, <2>3 DEF CallRecord
  <2>6. \A d \in Callers : \A t \in call'[d].gone : t \in call[d].gone \/ (t \in Tabs /\ ~ Stale(t)')
    BY <2>4, <2>5
  <2>. QED
    BY <1>01, <1>3, <1>a, <2>1, <2>5, <2>6
<1>4. ASSUME NEW b \in Buttons, PressButton(b) PROVE Goal
  <2>1. UNCHANGED <<sweep, latest, key, page>>
    BY <1>4 DEF PressButton
  <2>2. \A d \in Callers : /\ call'[d].at = "tell" <=> call[d].at = "tell"
                           /\ call'[d].gone = call[d].gone \/ call'[d].gone = {}
    BY <1>0, <1>4 DEF PressButton, Begun, CallIdle, Callers
  <2>3. NoNewStale
    BY <2>1 DEF NoNewStale, Stale
  <2>. QED
    BY <1>a, <2>1, <2>2, <2>3
<1>5. ASSUME NEW c \in Callers, Finish(c) PROVE Goal
  <2>1. /\ UNCHANGED <<sweep, page, key>> /\ call[c].at = "next"
        /\ latest' = {e \in latest : e.tab \notin call[c].gone}
        /\ call[c].gone # {} => call'[c].at = "tell"
        /\ call'[c].gone = {}
        /\ \A d \in Callers \ {c} : call'[d] = call[d]
    BY <1>0, <1>5 DEF Finish, CallIdle
  <2>2. SomeListCovers'
    BY <1>04, <2>1 DEF SomeListCovers, Early, Covers, GoneIsFresh, TabsOf, Stale
  <2>3. SweptIsListed' /\ GoneIsFresh'
    BY <1>04, <2>1 DEF SweptIsListed, GoneIsFresh, Stale
  <2>4. KeyIsCurrent'
    <3>1. CASE call[c].gone # {}
      BY <2>1, <3>1 DEF KeyIsCurrent
    <3>2. CASE call[c].gone = {}
      <4>1. latest' = latest
        BY <2>1, <3>2
      <4>. QED
        BY <1>04, <2>1, <4>1 DEF KeyIsCurrent
    <3>. QED
      BY <3>1, <3>2
  <2>. QED
    BY <2>2, <2>3, <2>4
<1>6. ASSUME NEW c \in Callers, TellReloaded(c) PROVE Goal
  <2>1. /\ UNCHANGED <<sweep, page, latest>> /\ key' = KeyOf(latest)
        /\ \A d \in Callers : call'[d] = call[d] \/ call'[d] = CallIdle
    BY <1>0, <1>6 DEF TellReloaded, Notify
  <2>2. KeyIsCurrent'
    BY <2>1 DEF KeyIsCurrent
  <2>. QED
    BY <1>04, <2>1, <2>2 DEF SomeListCovers, Early, Covers, SweptIsListed, GoneIsFresh, Stale, CallIdle
<1>7. ASSUME NEW s \in Sweeps, Query(s) PROVE Goal
  <2>1. /\ UNCHANGED <<page, latest, key, call>> /\ sweep[s].at = "query"
        /\ sweep' = [sweep EXCEPT ![s].at = "probe", ![s].todo = {t \in Tabs : Open(t)}]
    BY <1>7 DEF Query
  <2> DEFINE todo == {t \in Tabs : Open(t)}
  <2>2. /\ sweep'[s].at = "probe" /\ sweep'[s].todo = todo
        /\ \A r \in Sweeps \ {s} : sweep'[r] = sweep[r]
    <3> HIDE DEF todo
    <3>1. sweep' = [sweep EXCEPT ![s].at = "probe", ![s].todo = todo]
      BY <2>1 DEF todo
    <3>. QED
      BY <1>0, <3>1 DEF SweepRecord
  <2>3. SomeListCovers'
    BY <2>2 DEF SomeListCovers, Early
  <2>4. SweptIsListed'
    <3>1. \A t \in Tabs : Stale(t)' => Stale(t) /\ t \in todo
      BY <2>1 DEF Stale, Open
    <3>2. \A r \in Sweeps, t \in Tabs : r # s /\ Stale(t) =>
            sweep'[r] = sweep[r] /\ page'[t] = page[t]
      BY <2>1, <2>2
    <3>. HIDE DEF todo
    <3>. QED
      BY <1>04, <2>2, <3>1, <3>2 DEF SweptIsListed
  <2>5. KeyIsCurrent' /\ GoneIsFresh'
    BY <1>04, <2>1, <2>2 DEF KeyIsCurrent, GoneIsFresh, Stale
  <2>. QED
    BY <2>3, <2>4, <2>5
<1>8. ASSUME NEW s \in Sweeps, NEW u \in Tabs, Probe(s, u) PROVE Goal
  <2>1. /\ UNCHANGED <<page, latest, key, call>> /\ sweep[s].at = "probe"
        /\ \A r \in Sweeps \ {s} : sweep'[r] = sweep[r]
        /\ sweep'[s].todo = sweep[s].todo \ {u}
    BY <1>0, <1>8 DEF Probe, SweepRecord
  <2>2. \/ ~ Stale(u) /\ sweep'[s].at = "probe" /\ sweep'[s].stale = sweep[s].stale
        \/ /\ sweep'[s].at = "banner" /\ sweep'[s].tab = u
           /\ \E e : e.tab = u /\ sweep'[s].stale = sweep[s].stale \cup {e}
    <3>1. CASE Stale(u)
      <4> DEFINE e == [tab |-> u, build |-> page[u].build, empty |-> page[u].composer = "empty"]
      <4>1. /\ sweep'[s].at = "banner" /\ sweep'[s].tab = u
            /\ sweep'[s].stale = sweep[s].stale \cup {e}
        BY <1>0, <1>8, <3>1 DEF Probe, SweepRecord
      <4>2. e.tab = u
        OBVIOUS
      <4>. QED
        BY <4>1, <4>2
    <3>2. CASE ~ Stale(u)
      BY <1>0, <1>8, <3>2 DEF Probe, SweepRecord
    <3>. QED
      BY <3>1, <3>2
  <2>3. SomeListCovers'
    BY <2>2 DEF SomeListCovers, Early
  <2>4. SweptIsListed'
    <3> SUFFICES ASSUME NEW r \in Sweeps, NEW t \in Tabs,
                        sweep'[r].at \in {"probe", "banner", "tell", "setting"}, Stale(t)
                 PROVE  \/ sweep'[r].at \in {"probe", "banner"} /\ t \in sweep'[r].todo
                        \/ /\ t \in TabsOf(sweep'[r].stale)
                           /\ page[t].banner \/ (sweep'[r].at = "banner" /\ sweep'[r].tab = t)
      BY <2>1 DEF SweptIsListed, Stale
    <3>1. CASE r # s
      BY <1>04, <2>1, <3>1 DEF SweptIsListed
    <3>2. CASE r = s /\ t = u
      BY <2>2, <3>2 DEF TabsOf
    <3>3. CASE r = s /\ t # u
      BY <1>04, <2>1, <2>2, <3>3 DEF SweptIsListed, TabsOf
    <3>. QED
      BY <3>1, <3>2, <3>3
  <2>5. KeyIsCurrent' /\ GoneIsFresh'
    BY <1>04, <2>1, <2>2 DEF KeyIsCurrent, GoneIsFresh, Stale
  <2>. QED
    BY <2>3, <2>4, <2>5
<1>9. ASSUME NEW s \in Sweeps, Banner(s), \A r \in Sweeps : ~ Update(r) PROVE Goal
  <2> DEFINE u == sweep[s].tab
  <2>1. /\ UNCHANGED <<latest, key, call>> /\ sweep[s].at = "banner" /\ u \in Tabs
        /\ \A r \in Sweeps \ {s} : sweep'[r] = sweep[r]
        /\ sweep'[s].todo = sweep[s].todo /\ sweep'[s].at = "probe" /\ sweep'[s].stale = sweep[s].stale
    BY <1>0, <1>9 DEF Banner, SweepRecord
  <2>2. Stale(u) => page'[u].banner
    BY <1>0, <1>9, <2>1 DEF Banner, Stale, Pages
  <2>3. NoNewStale
    BY <1>01, <1>9
  <2>4. SomeListCovers'
    BY <2>1 DEF SomeListCovers, Early
  <2>5. SweptIsListed'
    <3> SUFFICES ASSUME NEW r \in Sweeps, NEW t \in Tabs,
                        sweep'[r].at \in {"probe", "banner", "tell", "setting"}, Stale(t)'
                 PROVE  \/ sweep'[r].at \in {"probe", "banner"} /\ t \in sweep'[r].todo
                        \/ /\ t \in TabsOf(sweep'[r].stale)
                           /\ page'[t].banner \/ (sweep'[r].at = "banner" /\ sweep'[r].tab = t)
      BY DEF SweptIsListed
    <3>1. Stale(t)
      BY <2>3 DEF NoNewStale
    <3>2. CASE r # s
      BY <1>02, <1>04, <2>1, <3>1, <3>2 DEF SweptIsListed
    <3>3. CASE r = s /\ t = u
      BY <1>04, <2>1, <2>2, <3>1, <3>3 DEF SweptIsListed
    <3>4. CASE r = s /\ t # u
      BY <1>02, <1>04, <2>1, <3>1, <3>4 DEF SweptIsListed
    <3>. QED
      BY <3>2, <3>3, <3>4
  <2>6. KeyIsCurrent'
    BY <1>04, <2>1 DEF KeyIsCurrent
  <2>7. GoneIsFresh'
    BY <1>0, <1>04, <2>1, <2>3 DEF GoneIsFresh, NoNewStale, CallRecord
  <2>. QED
    BY <2>4, <2>5, <2>6, <2>7
<1>10. ASSUME NEW s \in Sweeps, Conclude(s) PROVE Goal
  <2>1. /\ UNCHANGED <<page, key, call>> /\ sweep[s].at = "probe" /\ sweep[s].todo = {}
        /\ latest' = sweep[s].stale
        /\ \A r \in Sweeps \ {s} : sweep'[r] = sweep[r]
        /\ sweep'[s].at = "tell" /\ sweep'[s].stale = sweep[s].stale
    BY <1>0, <1>10 DEF Conclude, SweepRecord
  <2>2. SomeListCovers'
    BY <1>04, <2>1 DEF SomeListCovers, SweptIsListed, Covers, Stale
  <2>3. SweptIsListed'
    BY <1>04, <2>1 DEF SweptIsListed, Stale
  <2>4. KeyIsCurrent' /\ GoneIsFresh'
    BY <1>04, <2>1 DEF KeyIsCurrent, GoneIsFresh, Stale
  <2>. QED
    BY <2>2, <2>3, <2>4
<1>11. ASSUME NEW s \in Sweeps, TellSwept(s) PROVE Goal
  <2>1. /\ UNCHANGED <<page, latest, call>> /\ sweep[s].at = "tell" /\ key' = KeyOf(latest)
        /\ \A r \in Sweeps \ {s} : sweep'[r] = sweep[r]
        /\ \/ sweep'[s].at = "idle"
           \/ sweep'[s].at = "setting" /\ sweep'[s].stale = sweep[s].stale
    BY <1>0, <1>11 DEF TellSwept, Notify, SweepIdle, SweepRecord
  <2>2. SomeListCovers'
    BY <1>04, <2>1 DEF SomeListCovers, Early, Covers, Stale
  <2>3. SweptIsListed'
    BY <1>04, <2>1 DEF SweptIsListed, Stale
  <2>4. KeyIsCurrent' /\ GoneIsFresh'
    BY <1>04, <2>1 DEF KeyIsCurrent, GoneIsFresh, Stale
  <2>. QED
    BY <2>2, <2>3, <2>4
<1>12. ASSUME NEW s \in Sweeps, AutoHeal(s) PROVE Goal
  <2>1. /\ UNCHANGED <<page, latest, key>> /\ sweep[s].at = "setting"
        /\ \A r \in Sweeps \ {s} : sweep'[r] = sweep[r]
        /\ sweep'[s].at = "idle"
        /\ call[s] = CallIdle
        /\ \A d \in Callers : call'[d] = call[d] \/ (d = s /\ call'[d].at = "owed" /\ call'[d].gone = {})
    BY <1>0, <1>12 DEF AutoHeal, SweepIdle, Begun, CallIdle, Callers
  <2>2. SomeListCovers'
    BY <1>04, <2>1 DEF SomeListCovers, Early, Covers, Stale
  <2>3. SweptIsListed'
    BY <1>04, <2>1 DEF SweptIsListed, Stale
  <2>4. KeyIsCurrent' /\ GoneIsFresh'
    BY <1>04, <2>1 DEF KeyIsCurrent, GoneIsFresh, Stale, CallIdle
  <2>. QED
    BY <2>2, <2>3, <2>4
<1>13. ASSUME NEW s \in Sweeps, Update(s) PROVE Goal
  <2>1. /\ sweep' = [r \in Sweeps |-> IF r = s THEN [SweepIdle EXCEPT !.at = "query"] ELSE SweepIdle]
        /\ call' = [c \in Callers |-> CallIdle] /\ latest' = {} /\ key' = {}
    BY <1>13 DEF Update
  <2>2. sweep'[s].at = "query" /\ \A r \in Sweeps : sweep'[r].at \in {"query", "idle"}
    BY <2>1 DEF SweepIdle
  <2>. QED
    BY <2>1, <2>2 DEF SomeListCovers, Early, SweptIsListed, KeyIsCurrent, KeyOf, GoneIsFresh, CallIdle
<1>14. ~ Sleep
  BY <1>03 DEF Sleep
<1>15. ASSUME NEW t \in Tabs, Wake(t), \A s \in Sweeps : ~ Update(s) PROVE Goal
  BY <1>01, <1>15, <1>a, WakeMarks DEF Wake
<1>. QED
  BY <1>1, <1>2, <1>3, <1>4, <1>5, <1>6, <1>7, <1>8, <1>9, <1>10, <1>11, <1>12, <1>13, <1>14, <1>15
  DEF Next, SweepSteps, ReloadSteps, UserSteps, DeliverySteps, Restarts

\* The worker starts with a sweep.
LEMMA InitCover == Init => CoverInv
<1> SUFFICES ASSUME Init PROVE SomeListCovers /\ SweptIsListed /\ KeyIsCurrent /\ GoneIsFresh
  BY DEF CoverInv
<1>1. \E s \in Sweeps : sweep[s].at = "query"
  <2>1. PICK begun \in SUBSET Sweeps :
          /\ IF "both" \in may THEN begun = Sweeps ELSE Cardinality(begun) = 1
          /\ sweep = [s \in Sweeps |-> IF s \in begun THEN [SweepIdle EXCEPT !.at = "query"]
                                        ELSE SweepIdle]
    BY DEF Init
  <2>2. begun # {}
    BY <2>1, SweepsAssumption, FS_EmptySet
  <2>. QED
    BY <2>1, <2>2 DEF SweepIdle
<1>. QED
  BY <1>1 DEF Init, SomeListCovers, Early, SweptIsListed, KeyIsCurrent, KeyOf, GoneIsFresh, CallIdle, SweepIdle

\* When the loops are through, every stale page that is open is in the list,
\* has its banner, and was notified.
THEOREM StaleTabsAreSurfaced == Spec => []StaleIsSurfaced
<1>1. CoverInv => StaleIsSurfaced
  BY DEF CoverInv, StaleIsSurfaced, Quiet, SomeListCovers, Early, Covers, KeyIsCurrent, SweepIdle, CallIdle
<1>. QED
  BY <1>1, InitTypes, StepTypes, InitCover, StepCover, PTL DEF Spec

-----------------------------------------------------------------------------
(* Healing. If nobody is in the way, a hidden stale page with an empty      *)
(* composer is always ahead of some loop: a sweep that has not begun its    *)
(* reloads, or a call that has yet to come to it.                           *)

Unhindered == may \subseteq {"update", "load", "both", "twice"}
Ahead(c, t) ==
  \/ call[c].at \in {"owed", "next", "fresh", "reload"} /\ t \in call[c].todo
  \/ call[c].at \in {"fresh", "reload"} /\ call[c].tab = t
Sweeping == \E s \in Sweeps : sweep[s].at # "idle"
Hidden(t) == Stale(t) /\ page[t].composer = "empty" /\ t # active
HiddenIsAhead == \A t \in Tabs : Hidden(t) => Sweeping \/ \E c \in Callers : Ahead(c, t)

NobodyIsSpared == heal /\ sends = {} /\ owed = {} /\ \A c \in Callers : call[c].safe = {}

HealInv == Unhindered => NobodyIsSpared /\ HiddenIsAhead

\* With nobody in the way only some steps are left.
Unobserved ==
  /\ \A t \in Tabs : /\ ~ Types(t) /\ ~ SendsOrClears(t) /\ ~ Activates(t) /\ ~ Discards(t)
                     /\ ~ DispatchFrom(t) /\ ~ HandOff(t) /\ ~ QueueSend(t) /\ ~ Wake(t)
  /\ \A e \in sends : ~ Delivered(e)
  /\ ~ SetStaleAutoHealEnabled /\ ~ Sleep

\* The user, the browser and deliveries are away.
LEMMA Alone == Unhindered /\ NobodyIsSpared => Unobserved
BY DEF Unhindered, NobodyIsSpared, Unobserved, Types, SendsOrClears, Activates, Discards,
   DispatchFrom, HandOff, QueueSend, Wake, Delivered, SetStaleAutoHealEnabled, Sleep

\* Then no page comes to need healing but by an update.
LEMMA NoNewHidden ==
  ASSUME TypeInv, Unobserved, [Next]_vars, \A s \in Sweeps : ~ Update(s), NEW t \in Tabs, Hidden(t)'
  PROVE  Hidden(t)
<1>0. page \in [Tabs -> Pages] /\ Stale(t)
  BY StalenessIsOld DEF TypeInv, TypeOK, Hidden, NoNewStale
<1>1. ASSUME UNCHANGED <<page, active>> PROVE Hidden(t)
  BY <1>1 DEF Hidden, Stale
<1>2. ASSUME NEW u \in Tabs, Inject(u) PROVE Hidden(t)
  BY <1>0, <1>2 DEF Hidden, Inject, Pages
<1>3. ASSUME NEW s \in Sweeps, Banner(s) PROVE Hidden(t)
  BY <1>0, <1>3 DEF Hidden, Banner, Pages
<1>4. ASSUME NEW c \in Callers, Reload(c) PROVE Hidden(t)
  BY <1>0, <1>4 DEF Hidden, Stale, Reload, Loaded, Fresh
<1>5. ASSUME NEW u \in Tabs, Loads(u) \/ Closes(u) PROVE Hidden(t)
  BY <1>0, <1>5 DEF Hidden, Stale, Loads, Loaded, Closes, Fresh
<1>6. ASSUME NEW s \in Sweeps,
             Query(s) \/ Conclude(s) \/ TellSwept(s) \/ AutoHeal(s) \/ \E u \in Tabs : Probe(s, u)
      PROVE  UNCHANGED <<page, active>>
  BY <1>6 DEF Query, Conclude, TellSwept, AutoHeal, Probe
<1>7. ASSUME NEW c \in Callers,
             \/ ReadOwed(c) \/ ProbeAgain(c) \/ Finish(c) \/ TellReloaded(c)
             \/ \E u \in Tabs : Look(c, u)
      PROVE  UNCHANGED <<page, active>>
  BY <1>7 DEF Look, ReadOwed, ProbeAgain, Finish, TellReloaded
<1>8. CASE (\E b \in Buttons : PressButton(b)) \/ UNCHANGED vars
  BY <1>1, <1>8 DEF PressButton, vars
<1>. QED
  BY <1>1, <1>2, <1>3, <1>4, <1>5, <1>6, <1>7, <1>8
  DEF Next, SweepSteps, ReloadSteps, UserSteps, DeliverySteps, Restarts, Unobserved

\* A step passes over a page that needs healing only if it heals it.
LEMMA StepHeal == TypeInv /\ CoverInv /\ HealInv /\ [Next]_vars => HealInv'
<1> SUFFICES ASSUME TypeInv, CoverInv, HealInv, [Next]_vars, Unhindered'
             PROVE  NobodyIsSpared' /\ HiddenIsAhead'
  BY DEF HealInv
<1> DEFINE Goal == NobodyIsSpared' /\ HiddenIsAhead'
<1>0. /\ page \in [Tabs -> Pages] /\ call \in [Callers -> CallRecord]
      /\ sweep \in [Sweeps -> SweepRecord] /\ latest \in SUBSET Entries
      /\ \A c \in Callers : call[c].at \in {"fresh", "reload"} => call[c].tab \in Tabs
  BY DEF TypeInv, TypeOK, PlacesOK, CallRecord, SweepRecord
<1>1. NobodyIsSpared /\ HiddenIsAhead /\ SomeListCovers /\ SweptIsListed /\ "delivery" \notin may
  <2>1. may' = may
    BY MayStays
  <2>. QED
    BY <2>1 DEF Unhindered, HealInv, CoverInv
<1>2. Unobserved
  BY <1>1, MayStays, Alone DEF Unhindered
<1>3. (\A s \in Sweeps : ~ Update(s)) => \A t \in Tabs : Hidden(t)' => Hidden(t)
  BY <1>2, NoNewHidden
<1>a. ASSUME \A t \in Tabs : Hidden(t)' => Hidden(t), UNCHANGED <<heal, owed>>, sends' \subseteq sends,
             \A c \in Callers : call'[c].safe = {},
             Sweeping => Sweeping',
             \A t \in Tabs, c \in Callers : Hidden(t)' /\ Ahead(c, t) => Ahead(c, t)'
      PROVE  Goal
  BY <1>1, <1>a DEF NobodyIsSpared, HiddenIsAhead
<1>4. ASSUME \A s \in Sweeps : ~ Update(s), UNCHANGED <<heal, sends, owed, call>>, Sweeping => Sweeping'
      PROVE  Goal
  BY <1>1, <1>3, <1>4, <1>a DEF NobodyIsSpared, Ahead
<1>5. ASSUME \A s \in Sweeps : ~ Update(s),
             UNCHANGED vars \/ \E t \in Tabs : Inject(t) \/ Loads(t) \/ Closes(t)
      PROVE  Goal
  <2>1. UNCHANGED <<heal, owed, call, sweep>> /\ sends' \subseteq sends
    BY <1>5 DEF Inject, Loads, Closes, vars, delivery, worker
  <2>. QED
    BY <1>1, <1>3, <1>5, <1>a, <2>1 DEF NobodyIsSpared, Ahead, Sweeping
<1>6. ASSUME \A s \in Sweeps : ~ Update(s),
             NEW s \in Sweeps, Query(s) \/ Banner(s) \/ Conclude(s) \/ \E t \in Tabs : Probe(s, t)
      PROVE  Goal
  <2>1. UNCHANGED <<heal, sends, owed, call>>
    BY <1>6 DEF Query, Banner, Conclude, Probe, delivery
  <2>2. sweep'[s].at # "idle"
    <3>1. CASE Query(s) \/ Banner(s) \/ Conclude(s)
      BY <1>0, <3>1 DEF Query, Banner, Conclude, SweepRecord
    <3>2. ASSUME NEW t \in Tabs, Probe(s, t) PROVE sweep'[s].at # "idle"
      BY <1>0, <3>2 DEF Probe, SweepRecord
    <3>. QED
      BY <1>6, <3>1, <3>2
  <2>. QED
    BY <1>4, <1>6, <2>1, <2>2 DEF Sweeping
<1>7. ASSUME \A s \in Sweeps : ~ Update(s), NEW s \in Sweeps, TellSwept(s) PROVE Goal
  <2>1. UNCHANGED <<heal, sends, owed, call, page>> /\ sweep[s].at = "tell"
    BY <1>7 DEF TellSwept, delivery
  <2>2. CASE sweep[s].stale = {}
    <3>1. \A t \in Tabs : ~ Stale(t)
      BY <1>1, <2>1, <2>2 DEF SweptIsListed, TabsOf
    <3>. QED
      BY <1>1, <2>1, <3>1 DEF NobodyIsSpared, HiddenIsAhead, Hidden, Stale
  <2>3. CASE sweep[s].stale # {}
    <3>1. sweep'[s].at # "idle"
      BY <1>0, <1>7, <2>3 DEF TellSwept, SweepRecord
    <3>. QED
      BY <1>4, <1>7, <2>1, <3>1 DEF Sweeping
  <2>. QED
    BY <2>2, <2>3
<1>b. Begun.at = "owed" /\ Begun.todo = TabsOf(latest) /\ Begun.safe = {}
  BY <1>1 DEF Begun, CallIdle, NobodyIsSpared, TabsOf, Protected
<1>8. ASSUME \A s \in Sweeps : ~ Update(s), NEW s \in Sweeps, AutoHeal(s) PROVE Goal
  <2>1. /\ UNCHANGED <<heal, sends, owed, page, active>>
        /\ call' = [call EXCEPT ![s] = Begun] /\ sweep' = [sweep EXCEPT ![s] = SweepIdle]
    BY <1>1, <1>8 DEF AutoHeal, NobodyIsSpared, delivery
  <2>2. call'[s] = Begun /\ \A c \in Callers \ {s} : call'[c] = call[c]
    BY <1>0, <2>1 DEF Callers
  <2>3. NobodyIsSpared'
    BY <1>1, <1>b, <2>1, <2>2 DEF NobodyIsSpared, Callers
  <2>4. HiddenIsAhead'
    <3> SUFFICES ASSUME NEW t \in Tabs, Hidden(t)', ~ Sweeping' PROVE \E c \in Callers : Ahead(c, t)'
      BY DEF HiddenIsAhead
    <3>1. \A r \in Sweeps : ~ Early(r)
      BY <1>0, <1>8, <2>1 DEF Sweeping, Early, AutoHeal
    <3>2. t \in TabsOf(latest)
      BY <1>1, <2>1, <3>1 DEF SomeListCovers, Covers, Hidden, Stale
    <3>3. Ahead(s, t)'
      BY <1>b, <2>2, <3>2 DEF Ahead
    <3>. QED
      BY <3>3 DEF Callers
  <2>. QED
    BY <2>3, <2>4
<1>9. ASSUME \A s \in Sweeps : ~ Update(s), NEW b \in Buttons, PressButton(b) PROVE Goal
  <2>1. UNCHANGED <<heal, sends, owed, sweep>> /\ call[b] = CallIdle
        /\ call' = [call EXCEPT ![b] = Begun]
    BY <1>9 DEF PressButton, delivery
  <2>2. call'[b] = Begun /\ \A c \in Callers \ {b} : call'[c] = call[c]
    BY <1>0, <2>1 DEF Callers
  <2>3. \A c \in Callers : call'[c].safe = {}
    BY <1>1, <1>b, <2>2 DEF NobodyIsSpared
  <2>4. \A t \in Tabs, c \in Callers : Ahead(c, t) => Ahead(c, t)'
    BY <2>1, <2>2 DEF Ahead, CallIdle
  <2>. QED
    BY <1>3, <1>9, <1>a, <2>1, <2>3, <2>4 DEF Sweeping
<1>10. ASSUME \A s \in Sweeps : ~ Update(s), NEW c \in Callers, ReadOwed(c) PROVE Goal
  <2>1. UNCHANGED <<heal, sends, owed, sweep>> /\ Protected(owed) = {}
    BY <1>1, <1>10 DEF ReadOwed, delivery, NobodyIsSpared, Protected
  <2>2. /\ call'[c].at = "next" /\ call'[c].todo = call[c].todo /\ call[c].at = "owed"
        /\ call'[c].safe = call[c].safe
        /\ \A d \in Callers \ {c} : call'[d] = call[d]
    BY <1>0, <1>10, <2>1 DEF ReadOwed, CallRecord
  <2>. QED
    BY <1>1, <1>3, <1>10, <1>a, <2>1, <2>2 DEF NobodyIsSpared, Ahead, Sweeping
<1>11. ASSUME \A s \in Sweeps : ~ Update(s), NEW c \in Callers, NEW t \in Tabs, Look(c, t) PROVE Goal
  <2>1. UNCHANGED <<heal, sends, owed, sweep, page, active>> /\ call[c].at = "next"
    BY <1>11 DEF Look, delivery
  <2>2. /\ call'[c].todo = call[c].todo \ {t} /\ call'[c].safe = call[c].safe
        /\ \A d \in Callers \ {c} : call'[d] = call[d]
        /\ \/ call'[c].at = "fresh" /\ call'[c].tab = t
           \/ call'[c].at = "next" /\ (t \in call[c].safe \/ ~ Open(t) \/ active = t)
    <3>1. CASE t \in call[c].safe \/ ~ Open(t) \/ (c \in Sweeps /\ active = t)
      BY <1>0, <1>11, <3>1 DEF Look, CallRecord
    <3>2. CASE ~ (t \in call[c].safe \/ ~ Open(t) \/ (c \in Sweeps /\ active = t))
      BY <1>0, <1>11, <3>2 DEF Look, CallRecord
    <3>. QED
      BY <3>1, <3>2
  <2>3. Hidden(t)' => call'[c].at = "fresh" /\ call'[c].tab = t
    BY <1>1, <2>1, <2>2 DEF Hidden, Stale, Open, NobodyIsSpared
  <2>4. \A u \in Tabs, d \in Callers : Hidden(u)' /\ Ahead(d, u) => Ahead(d, u)'
    BY <2>1, <2>2, <2>3 DEF Ahead
  <2>. QED
    BY <1>1, <1>3, <1>11, <1>a, <2>1, <2>2, <2>4 DEF NobodyIsSpared, Sweeping
<1>12. ASSUME \A s \in Sweeps : ~ Update(s), NEW c \in Callers, ProbeAgain(c) PROVE Goal
  <2>1. UNCHANGED <<heal, sends, owed, sweep, page, active>> /\ call[c].at = "fresh"
    BY <1>12 DEF ProbeAgain, delivery
  <2>2. /\ call'[c].todo = call[c].todo /\ call'[c].safe = call[c].safe /\ call'[c].tab = call[c].tab
        /\ \A d \in Callers \ {c} : call'[d] = call[d]
        /\ \/ call'[c].at = "reload"
           \/ call'[c].at = "next" /\ ~ (Stale(call[c].tab) /\ page[call[c].tab].composer = "empty")
    BY <1>0, <1>12 DEF ProbeAgain, CallRecord, Stale
  <2>3. \A u \in Tabs, d \in Callers : Hidden(u)' /\ Ahead(d, u) => Ahead(d, u)'
    BY <2>1, <2>2 DEF Ahead, Hidden, Stale
  <2>. QED
    BY <1>1, <1>3, <1>12, <1>a, <2>1, <2>2, <2>3 DEF NobodyIsSpared, Sweeping
<1>13. ASSUME \A s \in Sweeps : ~ Update(s), NEW c \in Callers, Reload(c) PROVE Goal
  <2>1. UNCHANGED <<heal, sends, owed, sweep, active>> /\ call[c].at = "reload"
    BY <1>13 DEF Reload, delivery
  <2>t. PICK u \in Tabs : u = call[c].tab
    BY <1>0, <2>1
  <2>2. /\ call'[c].todo = call[c].todo /\ call'[c].safe = call[c].safe /\ call'[c].at = "next"
        /\ \A d \in Callers \ {c} : call'[d] = call[d]
    BY <1>0, <1>13 DEF Reload, CallRecord
  <2>3. ~ Stale(u)'
    <3>1. page' = [page EXCEPT ![u] = Fresh] \/ (~ Open(u) /\ page' = page)
      BY <1>13, <2>t DEF Reload, Loaded
    <3>. QED
      BY <1>0, <3>1 DEF Fresh, Stale, Open
  <2>4. \A t \in Tabs, d \in Callers : Hidden(t)' /\ Ahead(d, t) => Ahead(d, t)'
    BY <2>2, <2>t, <2>3 DEF Ahead, Hidden
  <2>. QED
    BY <1>1, <1>3, <1>13, <1>a, <2>1, <2>2, <2>4 DEF NobodyIsSpared, Sweeping
<1>14. ASSUME \A s \in Sweeps : ~ Update(s), NEW c \in Callers, Finish(c) \/ TellReloaded(c) PROVE Goal
  <2>1. UNCHANGED <<heal, sends, owed, sweep>>
    BY <1>14 DEF Finish, TellReloaded, delivery
  <2>2. /\ call[c].at = "tell" \/ (call[c].at = "next" /\ call[c].todo = {})
        /\ call'[c].safe = {}
        /\ \A d \in Callers \ {c} : call'[d] = call[d]
    BY <1>0, <1>14 DEF Finish, TellReloaded, CallIdle
  <2>3. \A u \in Tabs, d \in Callers : Ahead(d, u) => Ahead(d, u)'
    BY <2>2 DEF Ahead
  <2>. QED
    BY <1>1, <1>3, <1>14, <1>a, <2>1, <2>2, <2>3 DEF NobodyIsSpared, Sweeping
<1>15. ASSUME NEW s \in Sweeps, Update(s) PROVE Goal
  <2>1. /\ sweep' = [r \in Sweeps |-> IF r = s THEN [SweepIdle EXCEPT !.at = "query"] ELSE SweepIdle]
        /\ call' = [c \in Callers |-> CallIdle] /\ sends' = {} /\ UNCHANGED <<heal, owed>>
    BY <1>15 DEF Update
  <2>2. Sweeping'
    BY <2>1 DEF Sweeping, SweepIdle
  <2>. QED
    BY <1>1, <2>1, <2>2 DEF NobodyIsSpared, HiddenIsAhead, CallIdle
<1>. QED
  BY <1>2, <1>5, <1>6, <1>7, <1>8, <1>9, <1>10, <1>11, <1>12, <1>13, <1>14, <1>15
  DEF Next, SweepSteps, ReloadSteps, UserSteps, DeliverySteps, Restarts, Unobserved

\* A sweep begins with the worker.
LEMMA InitHeal == Init => HealInv
<1> SUFFICES ASSUME Init, Unhindered PROVE NobodyIsSpared /\ HiddenIsAhead
  BY DEF HealInv
<1>1. NobodyIsSpared
  BY DEF Init, Unhindered, NobodyIsSpared, CallIdle
<1>2. SomeListCovers /\ latest = {}
  BY InitCover DEF Init, Unhindered, CoverInv
<1>3. HiddenIsAhead
  BY <1>2 DEF SomeListCovers, Early, Covers, TabsOf, HiddenIsAhead, Sweeping, Hidden
<1>. QED
  BY <1>1, <1>3

\* background.js sweepStaleTabs, reloadStaleEmptyTabs: with nobody in the way,
\* updates, page loads and two sweeps at once included, no stale page in the
\* background with an empty composer is left when the loops are through.
THEOREM HiddenTabsAreHealed == Spec => []HiddenStaleAreHealed
<1>1. HealInv => HiddenStaleAreHealed
  BY DEF HealInv, HiddenStaleAreHealed, Unhindered, HiddenIsAhead, Hidden, Ahead, Sweeping, Quiet,
     SweepIdle, CallIdle
<1>. QED
  BY <1>1, InitTypes, StepTypes, InitCover, StepCover, InitHeal, StepHeal, PTL DEF Spec
=============================================================================
