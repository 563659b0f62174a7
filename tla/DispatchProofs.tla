---------------------------- MODULE DispatchProofs ----------------------------
(* Theorems about Dispatch, for every number of tabs, blocks and buckets,   *)
(* whatever the assistant writes, and every set of disturbances.            *)
EXTENDS Dispatch, TLAPS

-----------------------------------------------------------------------------
(* Types.                                                                   *)

TabState ==
  [seen : SUBSET Nat, hydrated : BOOLEAN, durable : Keys, fetched : BOOLEAN, overdue : BOOLEAN,
   instance : Nat, asked : SUBSET Buckets, local : SUBSET Blocks, beacon : Nat, posted : Nat,
   inFlight : SUBSET Blocks, heldKeys : SUBSET Blocks, refired : SUBSET Blocks, pills : SUBSET Pill]
WorkerState ==
  [instance : Nat, keys : Keys, fetched : BOOLEAN, polled : SUBSET Buckets, beacon : Nat]

TypeInv ==
  /\ may \in Settings
  /\ chat \in Seq(Blocks)
  /\ sends \in Nat /\ closed \in Nat /\ beacon \in Nat
  /\ listening \in BOOLEAN /\ armed \in BOOLEAN /\ busy \in BOOLEAN /\ waiting \in BOOLEAN
  /\ ran \subseteq Blocks /\ auto \in [Blocks -> 0 .. 2]
  /\ worker \in WorkerState
  /\ reads \in Keys
  /\ tab \in [Tabs -> TabState]
  /\ calls \subseteq Call

(* Whatever is taken for a record of dispatched blocks names blocks that    *)
(* ran: what a tab marked, and what went from the relay through an answer   *)
(* on its way and the worker to the tabs.                                   *)
SoundKeys(ks) == \A k \in Buckets : ks[k] = Unfetched \/ ks[k] \subseteq ran
SoundInv ==
  /\ \A t \in Tabs : tab[t].local \subseteq ran /\ SoundKeys(tab[t].durable)
  /\ SoundKeys(worker.keys) /\ SoundKeys(reads)
  /\ \A c \in calls : c.stage = "landed" => c.block \in ran

(* A block has one mark in a tab, and one scan that will take it away.      *)
FlightInv ==
  /\ \A t \in Tabs, b \in Blocks :
       b \in tab[t].inFlight <=> \E c \in calls : c.tab = t /\ c.block = b /\ c.site = "scan"
  /\ \A c, d \in calls :
       c.site = "scan" /\ d.site = "scan" /\ c.tab = d.tab /\ c.tab # NoTab /\ c.block = d.block => c = d

(* Nobody knows of a send that was not made.                                *)
SendsInv ==
  /\ beacon <= sends /\ worker.beacon <= sends
  /\ \A t \in Tabs : tab[t].beacon <= sends /\ tab[t].posted <= sends

Inv == TypeInv /\ SoundInv /\ FlightInv /\ SendsInv

-----------------------------------------------------------------------------
(* Facts the steps share.                                                   *)

\* Open tabs are tabs.
LEMMA OpenTabs == ASSUME NEW t \in Open PROVE t \in Tabs
BY NullAssumption DEF Open

\* No bucket's keys are those of a bucket that was never fetched.
LEMMA NoKeys == \A bs \in SUBSET Blocks : bs # Unfetched
BY NullAssumption

\* A page starts with nothing.
LEMMA FreshTabIs ==
  /\ FreshTab \in TabState /\ FreshTab.local = {} /\ FreshTab.inFlight = {} /\ FreshTab.pills = {}
  /\ FreshTab.beacon = 0 /\ FreshTab.posted = 0 /\ \A k \in Buckets : FreshTab.durable[k] = Unfetched
BY DEF FreshTab, TabState, Keys

\* So does a worker.
LEMMA FreshWorkerIs ==
  ASSUME NEW n \in Nat
  PROVE  /\ FreshWorker(n) \in WorkerState /\ FreshWorker(n).beacon = 0
         /\ \A k \in Buckets : FreshWorker(n).keys[k] = Unfetched
BY DEF FreshWorker, WorkerState, Keys

\* The worker is asked to poll buckets.
LEMMA EnrolIs ==
  ASSUME TypeInv, NEW ks \in SUBSET Buckets
  PROVE  Enrol(ks) \in WorkerState /\ Enrol(ks).keys = worker.keys /\ Enrol(ks).beacon = worker.beacon
BY DEF TypeInv, Enrol, WorkerState

\* Initially nothing is known.
LEMMA InitInv == Init => Inv
<1>. SUFFICES ASSUME Init PROVE Inv
  OBVIOUS
<1>1. TypeInv
  <2>1. worker \in WorkerState
    BY FreshWorkerIs, 1 \in Nat DEF Init
  <2>2. tab \in [Tabs -> TabState]
    BY FreshTabIs DEF Init
  <2>3. reads \in Keys
    BY DEF Init, Keys
  <2>4. chat \in Seq(Blocks)
    BY DEF Init
  <2>5. auto \in [Blocks -> 0 .. 2]
    BY DEF Init
  <2>6. /\ may \in Settings /\ sends \in Nat /\ closed \in Nat /\ beacon \in Nat
        /\ listening \in BOOLEAN /\ armed \in BOOLEAN /\ busy \in BOOLEAN /\ waiting \in BOOLEAN
        /\ ran \subseteq Blocks /\ calls \subseteq Call
    BY DEF Init
  <2>. QED
    BY <2>1, <2>2, <2>3, <2>4, <2>5, <2>6 DEF TypeInv
<1>2. SoundInv /\ FlightInv /\ SendsInv
  BY FreshTabIs, FreshWorkerIs DEF Init, SoundInv, SoundKeys, FlightInv, SendsInv
<1>. QED
  BY <1>1, <1>2 DEF Inv

(* A step of the user, the assistant or another thread: nothing that is     *)
(* known, marked or asked changes.                                          *)
LEMMA WorldKeeps ==
  ASSUME Inv, UNCHANGED <<may, sends, ran, auto, waiting, beacon, worker, reads, tab, calls>>,
         chat' \in Seq(Blocks), closed' \in Nat, listening' \in BOOLEAN,
         armed' \in BOOLEAN, busy' \in BOOLEAN
  PROVE  Inv'
<1>1. TypeInv'
  BY DEF Inv, TypeInv
<1>2. SoundInv' /\ FlightInv'
  BY DEF Inv, SoundInv, SoundKeys, FlightInv
<1>3. SendsInv'
  BY DEF Inv, SendsInv
<1>. QED
  BY <1>1, <1>2, <1>3 DEF Inv

(* A step that changes one tab and what is asked of the worker, but no      *)
(* record and no mark.                                                      *)
LEMMA TabKeeps ==
  ASSUME Inv, NEW t \in Tabs, NEW r \in TabState, tab' = [tab EXCEPT ![t] = r],
         r.local = tab[t].local, r.durable = tab[t].durable, r.inFlight = tab[t].inFlight,
         r.beacon = tab[t].beacon, r.posted = tab[t].posted,
         NEW ks \in SUBSET Buckets, worker' = Enrol(ks) \/ worker' = worker,
         UNCHANGED <<may, reads, calls>>, UNCHANGED world, UNCHANGED relay
  PROVE  Inv'
<1>1. /\ worker' \in WorkerState /\ worker'.keys = worker.keys /\ worker'.beacon = worker.beacon
  BY EnrolIs DEF Inv, TypeInv
<1>2. /\ tab' \in [Tabs -> TabState] /\ tab'[t] = r /\ \A u \in Tabs : u # t => tab'[u] = tab[u]
  BY DEF Inv, TypeInv
<1>3. TypeInv'
  BY <1>1, <1>2 DEF Inv, TypeInv, world, relay
<1>4. SoundInv'
  BY <1>1, <1>2 DEF Inv, SoundInv, SoundKeys, world, relay
<1>5. FlightInv'
  BY <1>2 DEF Inv, FlightInv
<1>6. SendsInv'
  BY <1>1, <1>2 DEF Inv, SendsInv, world, relay
<1>. QED
  BY <1>3, <1>4, <1>5, <1>6 DEF Inv

(* A step of one tab that starts dispatches nobody marks: a click, a re-fire *)
(* of a dropped pill, the held pills autopilot releases.                     *)
LEMMA StartKeeps ==
  ASSUME Inv, NEW t \in Tabs, NEW r \in TabState, tab' = [tab EXCEPT ![t] = r],
         r.local = tab[t].local, r.durable = tab[t].durable, r.inFlight = tab[t].inFlight,
         r.beacon = tab[t].beacon, r.posted = tab[t].posted,
         NEW ks \in SUBSET Buckets, worker' = Enrol(ks) \/ worker' = worker,
         NEW new \in SUBSET Call, calls' = calls \cup new,
         \A c \in new : c.stage = "sent" /\ c.site # "scan",
         waiting' \in BOOLEAN, armed' \in BOOLEAN,
         UNCHANGED <<may, reads, chat, sends, closed, listening, ran, auto, busy, beacon>>
  PROVE  Inv'
<1>1. /\ worker' \in WorkerState /\ worker'.keys = worker.keys /\ worker'.beacon = worker.beacon
  BY EnrolIs DEF Inv, TypeInv
<1>2. /\ tab' \in [Tabs -> TabState] /\ tab'[t] = r /\ \A u \in Tabs : u # t => tab'[u] = tab[u]
  BY DEF Inv, TypeInv
<1>3. TypeInv'
  BY <1>1, <1>2 DEF Inv, TypeInv
<1>4. SoundInv'
  BY <1>1, <1>2 DEF Inv, SoundInv, SoundKeys
<1>5. FlightInv'
  BY <1>2 DEF Inv, FlightInv
<1>6. SendsInv'
  BY <1>1, <1>2 DEF Inv, SendsInv
<1>. QED
  BY <1>3, <1>4, <1>5, <1>6 DEF Inv
-----------------------------------------------------------------------------
(* The scan of a message.                                                   *)

\* A message's block is a block, and messages are numbered.
LEMMA BlockOf ==
  ASSUME TypeInv, NEW i \in 1 .. Len(chat) PROVE chat[i] \in Blocks /\ BucketOf[chat[i]] \in Buckets /\ i \in Nat
BY BucketAssumption DEF TypeInv

\* Nothing is done with the message.
LEMMA IgnoreKeeps ==
  ASSUME Inv, NEW t \in Tabs, NEW i \in 1 .. Len(chat), Ignore(t, i),
         UNCHANGED <<may, reads>>, UNCHANGED world, UNCHANGED relay
  PROVE  Inv'
<1>. DEFINE r == [tab[t] EXCEPT !.seen = @ \cup {i}]
<1>0. tab[t] \in TabState /\ i \in Nat
  BY BlockOf DEF Inv, TypeInv
<1>1. tab' = [tab EXCEPT ![t] = r] /\ UNCHANGED <<worker, calls>>
  BY DEF Inv, TypeInv, TabState, Ignore, See
<1>2. /\ r \in TabState
      /\ r.local = tab[t].local /\ r.durable = tab[t].durable /\ r.inFlight = tab[t].inFlight
      /\ r.beacon = tab[t].beacon /\ r.posted = tab[t].posted /\ r.pills = tab[t].pills
  BY <1>0 DEF TabState
<1>. HIDE DEF r
<1>3. {} \in SUBSET Buckets
  OBVIOUS
<1>. QED
  BY <1>1, <1>2, <1>3, TabKeeps

\* The message waits until the durable record is known.
LEMMA DeferKeeps ==
  ASSUME Inv, NEW t \in Tabs, NEW i \in 1 .. Len(chat), Defer(t, i),
         UNCHANGED <<may, reads>>, UNCHANGED world, UNCHANGED relay
  PROVE  Inv'
<1>. DEFINE ks == {BucketOf[chat[i]]}
            r == [tab[t] EXCEPT !.asked = @ \cup ks]
<1>0. ks \in SUBSET Buckets
  BY BlockOf DEF Inv
<1>1. r \in TabState /\ tab' = [tab EXCEPT ![t] = r]
  BY <1>0 DEF Inv, TypeInv, TabState, Defer
<1>2. /\ r.local = tab[t].local /\ r.durable = tab[t].durable /\ r.inFlight = tab[t].inFlight
      /\ r.beacon = tab[t].beacon /\ r.posted = tab[t].posted /\ r.pills = tab[t].pills
  BY DEF Inv, TypeInv, TabState
<1>3. worker' = Enrol(ks) /\ UNCHANGED calls
  BY DEF Defer
<1>. HIDE DEF ks, r
<1>. QED
  BY <1>0, <1>1, <1>2, <1>3, TabKeeps

\* A pill, and nothing else, stands for the block.
LEMMA HoldKeeps ==
  ASSUME Inv, NEW t \in Tabs, NEW i \in 1 .. Len(chat), Hold(t, i),
         UNCHANGED <<may, reads>>, UNCHANGED world, UNCHANGED relay
  PROVE  Inv'
<1>. DEFINE b == chat[i]
            new == IF b \in tab[t].heldKeys THEN {} ELSE {HeldPill(b)}
            r == [tab[t] EXCEPT !.seen = @ \cup {i}, !.heldKeys = @ \cup {b}, !.pills = @ \cup new]
<1>0. b \in Blocks /\ i \in Nat /\ new \in SUBSET Pill /\ \A p \in new : p.kind # "dropped"
  BY BlockOf DEF Inv, HeldPill, Pill, Kinds
<1>1. tab' = [tab EXCEPT ![t] = r] /\ UNCHANGED <<worker, calls>>
  BY DEF Inv, TypeInv, TabState, Hold
<1>2. tab[t] \in TabState
  BY DEF Inv, TypeInv
<1>. HIDE DEF new, b
<1>3. /\ r \in TabState
      /\ r.local = tab[t].local /\ r.durable = tab[t].durable /\ r.inFlight = tab[t].inFlight
      /\ r.beacon = tab[t].beacon /\ r.posted = tab[t].posted /\ r.pills = tab[t].pills \cup new
  BY <1>0, <1>2 DEF TabState
<1>. HIDE DEF r
<1>. QED
  BY <1>0, <1>1, <1>3, TabKeeps

\* A send a tab counts as recent is recent.
LEMMA AuthorisedIs ==
  ASSUME Inv, NEW t \in Tabs, Authorised(t)
  PROVE  armed \/ closed < sends
<1>1. tab[t] \in TabState /\ sends \in Nat /\ closed \in Nat
  BY DEF Inv, TypeInv
<1>2. tab[t].beacon \in Nat /\ tab[t].posted \in Nat
  BY <1>1 DEF TabState
<1>3. tab[t].beacon <= sends /\ tab[t].posted <= sends
  BY DEF Inv, SendsInv
<1>. QED
  BY <1>1, <1>2, <1>3 DEF Authorised, RecentSend, Latest

\* The block is marked as its dispatch begins.
LEMMA FireKeeps ==
  ASSUME Inv, NEW t \in Tabs, NEW i \in 1 .. Len(chat), Fire(t, i),
         UNCHANGED <<may, reads>>, UNCHANGED world, UNCHANGED relay
  PROVE  Inv'
<1>. DEFINE b == chat[i]
            ks == {BucketOf[chat[i]]} \cap {Thread}
            r == [tab[t] EXCEPT !.seen = @ \cup {i}, !.inFlight = @ \cup {b}]
            c == Running(t, b, "scan")
<1>0. b \in Blocks /\ i \in Nat /\ ks \in SUBSET Buckets
  BY BlockOf DEF Inv
<1>1. CASE b \in tab[t].inFlight
  BY <1>1, IgnoreKeeps DEF Fire
<1>2. CASE b \notin tab[t].inFlight
  <2>1. tab' = [tab EXCEPT ![t] = r] /\ worker' = Enrol(ks) /\ calls' = calls \cup {c}
    BY <1>2 DEF Inv, TypeInv, TabState, Fire
  <2>2. /\ c \in Call /\ c.tab = t /\ c.block = b /\ c.site = "scan" /\ c.stage = "sent"
    BY <1>0 DEF Call, Sites, Running
  <2>3. tab[t] \in TabState
    BY DEF Inv, TypeInv
  <2>. HIDE DEF b, ks, c
  <2>4. /\ r \in TabState
        /\ r.local = tab[t].local /\ r.durable = tab[t].durable /\ r.inFlight = tab[t].inFlight \cup {b}
        /\ r.beacon = tab[t].beacon /\ r.posted = tab[t].posted /\ r.pills = tab[t].pills
    BY <1>0, <2>3 DEF TabState
  <2>. HIDE DEF r
  <2>5. /\ worker' \in WorkerState /\ worker'.keys = worker.keys /\ worker'.beacon = worker.beacon
    BY <1>0, <2>1, EnrolIs DEF Inv
  <2>6. /\ tab' \in [Tabs -> TabState] /\ tab'[t] = r /\ \A u \in Tabs : u # t => tab'[u] = tab[u]
    BY <2>1, <2>4 DEF Inv, TypeInv
  <2>7. TypeInv'
    BY <2>1, <2>2, <2>5, <2>6 DEF Inv, TypeInv, world, relay
  <2>8. SoundInv'
    BY <2>1, <2>2, <2>4, <2>5, <2>6 DEF Inv, SoundInv, SoundKeys, relay
  <2>9. FlightInv'
    BY <1>0, <1>2, <2>1, <2>2, <2>4, <2>6 DEF Inv, FlightInv
  <2>10. SendsInv'
    BY <2>1, <2>2, <2>4, <2>5, <2>6 DEF Inv, SendsInv, world, relay
  <2>. QED
    BY <2>7, <2>8, <2>9, <2>10 DEF Inv
<1>. QED
  BY <1>1, <1>2

\* However a message is decided, the invariant holds.
LEMMA ScanKeeps ==
  ASSUME Inv, NEW t \in Tabs, NEW i \in Messages, Scan(t, i)
  PROVE  Inv'
<1>0. i \in 1 .. Len(chat) /\ UNCHANGED <<may, reads>> /\ UNCHANGED world /\ UNCHANGED relay
  BY DEF Scan
<1>1. CASE Ignore(t, i)
  BY <1>0, <1>1, IgnoreKeeps
<1>2. CASE Defer(t, i)
  BY <1>0, <1>2, DeferKeeps
<1>3. CASE Fire(t, i)
  BY <1>0, <1>3, FireKeeps
<1>4. CASE Hold(t, i)
  BY <1>0, <1>4, HoldKeeps
<1>5. Ignore(t, i) \/ Defer(t, i) \/ Fire(t, i) \/ Hold(t, i)
  BY DEF Scan, Decide
<1>. QED
  BY <1>1, <1>2, <1>3, <1>4, <1>5
-----------------------------------------------------------------------------
(* The rest of what a tab does.                                             *)

\* The thread's blocks will be asked for.
LEMMA HydrateKeeps == ASSUME Inv, NEW t \in Tabs, Hydrate(t) PROVE Inv'
<1>. DEFINE r == [tab[t] EXCEPT !.hydrated = TRUE]
<1>0. tab[t] \in TabState /\ {Thread} \in SUBSET Buckets
  BY BucketAssumption DEF Inv, TypeInv
<1>1. /\ tab' = [tab EXCEPT ![t] = r] /\ worker' = Enrol({Thread})
      /\ UNCHANGED <<may, reads, calls>> /\ UNCHANGED world /\ UNCHANGED relay
  BY DEF Inv, TypeInv, TabState, Hydrate
<1>2. /\ r \in TabState
      /\ r.local = tab[t].local /\ r.durable = tab[t].durable /\ r.inFlight = tab[t].inFlight
      /\ r.beacon = tab[t].beacon /\ r.posted = tab[t].posted /\ r.pills = tab[t].pills
  BY <1>0 DEF TabState
<1>. HIDE DEF r
<1>. QED
  BY <1>0, <1>1, <1>2, TabKeeps

\* A message is forgotten.
LEMMA VirtualizeKeeps == ASSUME Inv, NEW t \in Tabs, Virtualize(t) PROVE Inv'
<1>1. PICK i \in tab[t].seen : tab' = [tab EXCEPT ![t].seen = @ \ {i}]
  BY DEF Virtualize
<1>. DEFINE r == [tab[t] EXCEPT !.seen = @ \ {i}]
<1>0. tab[t] \in TabState /\ {} \in SUBSET Buckets
  BY DEF Inv, TypeInv
<1>2. /\ tab' = [tab EXCEPT ![t] = r] /\ worker' = worker
      /\ UNCHANGED <<may, reads, calls>> /\ UNCHANGED world /\ UNCHANGED relay
  BY <1>1 DEF Inv, TypeInv, TabState, Virtualize
<1>3. /\ r \in TabState
      /\ r.local = tab[t].local /\ r.durable = tab[t].durable /\ r.inFlight = tab[t].inFlight
      /\ r.beacon = tab[t].beacon /\ r.posted = tab[t].posted /\ r.pills = tab[t].pills
  BY <1>0 DEF TabState
<1>. HIDE DEF r
<1>. QED
  BY <1>0, <1>2, <1>3, TabKeeps

\* The tab gives in.
LEMMA FailOpenKeeps == ASSUME Inv, NEW t \in Tabs, FailOpen(t) PROVE Inv'
<1>. DEFINE r == [tab[t] EXCEPT !.overdue = TRUE]
<1>0. tab[t] \in TabState /\ {} \in SUBSET Buckets
  BY DEF Inv, TypeInv
<1>1. /\ tab' = [tab EXCEPT ![t] = r] /\ worker' = worker
      /\ UNCHANGED <<may, reads, calls>> /\ UNCHANGED world /\ UNCHANGED relay
  BY DEF Inv, TypeInv, TabState, FailOpen
<1>2. /\ r \in TabState
      /\ r.local = tab[t].local /\ r.durable = tab[t].durable /\ r.inFlight = tab[t].inFlight
      /\ r.beacon = tab[t].beacon /\ r.posted = tab[t].posted /\ r.pills = tab[t].pills
  BY <1>0 DEF TabState
<1>. HIDE DEF r
<1>. QED
  BY <1>0, <1>1, <1>2, TabKeeps

\* The first pill is fired again.
LEMMA RefireKeeps == ASSUME Inv, NEW t \in Tabs, RepoFreeWake(t) PROVE Inv'
<1>0. tab[t] \in TabState /\ waiting' = FALSE /\ UNCHANGED <<may, ran, auto, busy, beacon>> /\ UNCHANGED world
  BY DEF Inv, TypeInv, RepoFreeWake
<1>1. CASE Refirable(t) = {}
  <2>1. UNCHANGED <<tab, calls, worker, reads>>
    BY <1>1 DEF RepoFreeWake
  <2>2. TypeInv' /\ SoundInv' /\ FlightInv' /\ SendsInv'
    BY <1>0, <2>1 DEF Inv, TypeInv, SoundInv, SoundKeys, FlightInv, SendsInv, world
  <2>. QED
    BY <2>2 DEF Inv
<1>2. CASE Refirable(t) # {}
  <2>1. PICK b \in Refirable(t) :
          /\ tab' = [tab EXCEPT ![t].pills = @ \ {DroppedPill(b)}, ![t].refired = @ \cup {b}]
          /\ Start(t, b, "refire")
    BY <1>2 DEF RepoFreeWake
  <2>. DEFINE r == [tab[t] EXCEPT !.pills = @ \ {DroppedPill(b)}, !.refired = @ \cup {b}]
              ks == {BucketOf[b]} \cap {Thread}
              new == {Running(t, b, "refire")}
  <2>2. b \in Blocks
    BY <2>1 DEF Refirable
  <2>3. tab' = [tab EXCEPT ![t] = r]
    BY <2>1 DEF Inv, TypeInv, TabState
  <2>4. /\ r \in TabState
        /\ r.local = tab[t].local /\ r.durable = tab[t].durable /\ r.inFlight = tab[t].inFlight
        /\ r.beacon = tab[t].beacon /\ r.posted = tab[t].posted
    BY <1>0, <2>2 DEF TabState
  <2>5. ks \in SUBSET Buckets /\ worker' = Enrol(ks) /\ calls' = calls \cup new /\ UNCHANGED reads
    BY <2>1, <2>2, BucketAssumption DEF Start
  <2>6. new \in SUBSET Call /\ \A c \in new : c.stage = "sent" /\ c.site = "refire"
    BY <2>2 DEF Running, Call, Sites
  <2>. HIDE DEF r, ks, new
  <2>. QED
    BY <1>0, <2>2, <2>3, <2>4, <2>5, <2>6, StartKeeps DEF world, Inv, TypeInv
<1>. QED
  BY <1>1, <1>2

\* A pill is clicked.
LEMMA ClickKeeps == ASSUME Inv, NEW t \in Tabs, Click(t) PROVE Inv'
<1>1. PICK p \in tab[t].pills :
        tab' = [tab EXCEPT ![t].pills = @ \ {p}] /\ Start(t, p.block, "click")
  BY DEF Click
<1>. DEFINE r == [tab[t] EXCEPT !.pills = @ \ {p}]
            ks == {BucketOf[p.block]} \cap {Thread}
            new == {Running(t, p.block, "click")}
<1>2. /\ tab[t] \in TabState /\ p.block \in Blocks
      /\ UNCHANGED may /\ UNCHANGED world /\ UNCHANGED relay
  BY <1>1 DEF Inv, TypeInv, TabState, Pill, Click
<1>3. tab' = [tab EXCEPT ![t] = r]
  BY <1>1 DEF Inv, TypeInv, TabState
<1>4. /\ r \in TabState
      /\ r.local = tab[t].local /\ r.durable = tab[t].durable /\ r.inFlight = tab[t].inFlight
      /\ r.beacon = tab[t].beacon /\ r.posted = tab[t].posted
  BY <1>2 DEF TabState
<1>5. ks \in SUBSET Buckets /\ worker' = Enrol(ks) /\ calls' = calls \cup new /\ UNCHANGED reads
  BY <1>1, <1>2, BucketAssumption DEF Start
<1>6. new \in SUBSET Call /\ \A c \in new : c.stage = "sent" /\ c.site = "click"
  BY <1>2 DEF Running, Call, Sites
<1>. HIDE DEF r, ks, new
<1>. QED
  BY <1>2, <1>3, <1>4, <1>5, <1>6, StartKeeps DEF world, relay, Inv, TypeInv

\* The newest block is asked for.
LEMMA RescueKeeps == ASSUME Inv, NEW t \in Tabs, Rescue(t) PROVE Inv'
<1>. DEFINE b == chat[Len(chat)]
            ks == {BucketOf[b]} \cap {Thread}
            new == {Running(t, b, "click")}
<1>2. /\ tab[t] \in TabState /\ b \in Blocks /\ Start(t, b, "click")
      /\ UNCHANGED <<may, tab>> /\ UNCHANGED world /\ UNCHANGED relay
  BY DEF Inv, TypeInv, Rescue
<1>3. tab' = [tab EXCEPT ![t] = tab[t]]
  BY <1>2 DEF Inv, TypeInv
<1>5. ks \in SUBSET Buckets /\ worker' = Enrol(ks) /\ calls' = calls \cup new /\ UNCHANGED reads
  BY <1>2, BucketAssumption DEF Start
<1>6. new \in SUBSET Call /\ \A c \in new : c.stage = "sent" /\ c.site = "click"
  BY <1>2 DEF Running, Call, Sites
<1>. HIDE DEF b, ks, new
<1>. QED
  BY <1>2, <1>3, <1>5, <1>6, StartKeeps DEF world, relay, Inv, TypeInv

\* The held blocks are released.
LEMMA ArmKeeps == ASSUME Inv, NEW t \in Tabs, Arm(t) PROVE Inv'
<1>. DEFINE r == [tab[t] EXCEPT !.pills = @ \ Held(t)]
            ks == {BucketOf[p.block] : p \in Held(t)} \cap {Thread}
            new == {Running(t, p.block, "autopilot") : p \in Held(t)}
<1>2. /\ tab[t] \in TabState /\ armed' = TRUE
      /\ \A p \in Held(t) : p.block \in Blocks
      /\ UNCHANGED <<may, chat, sends, closed, listening, reads>> /\ UNCHANGED relay
  BY DEF Inv, TypeInv, TabState, Pill, Arm, Held
<1>3. tab' = [tab EXCEPT ![t] = r]
  BY DEF Inv, TypeInv, TabState, Arm
<1>4. /\ r \in TabState
      /\ r.local = tab[t].local /\ r.durable = tab[t].durable /\ r.inFlight = tab[t].inFlight
      /\ r.beacon = tab[t].beacon /\ r.posted = tab[t].posted
  BY <1>2 DEF TabState
<1>5. ks \in SUBSET Buckets /\ worker' = Enrol(ks) /\ calls' = calls \cup new
  BY <1>2, BucketAssumption DEF Arm
<1>6. new \in SUBSET Call /\ \A c \in new : c.stage = "sent" /\ c.site = "autopilot"
  BY <1>2 DEF Running, Call, Sites
<1>. HIDE DEF r, ks, new
<1>. QED
  BY <1>2, <1>3, <1>4, <1>5, <1>6, StartKeeps DEF relay, Inv, TypeInv
-----------------------------------------------------------------------------
(* The record on its way.                                                   *)

\* What the relay says was dispatched ran.
LEMMA SpentRan == \A k \in Buckets : Spent(k) \subseteq ran
BY DEF Spent

\* An answer is read.
LEMMA ReadKeysKeeps == ASSUME Inv, NEW k \in Buckets, ReadKeys(k) PROVE Inv'
<1>1. /\ reads' = [reads EXCEPT ![k] = Spent(k)]
      /\ UNCHANGED <<may, worker, tab, calls>> /\ UNCHANGED world /\ UNCHANGED relay
  BY DEF ReadKeys
<1>2. reads' \in Keys
  BY <1>1, SpentRan DEF Inv, TypeInv, Keys
<1>3. TypeInv' /\ FlightInv' /\ SendsInv'
  BY <1>1, <1>2 DEF Inv, TypeInv, FlightInv, SendsInv, world, relay
<1>4. SoundInv'
  BY <1>1, SpentRan DEF Inv, TypeInv, Keys, SoundInv, SoundKeys, relay
<1>. QED
  BY <1>3, <1>4 DEF Inv

\* An answer replaces what the worker had.
LEMMA LandKeysKeeps == ASSUME Inv, NEW k \in Buckets, LandKeys(k) PROVE Inv'
<1>1. PICK ks \in {Unfetched} \cup SUBSET Blocks :
        /\ worker' = [worker EXCEPT !.keys[k] = ks, !.fetched = TRUE]
        /\ ks = Unfetched \/ ks \subseteq ran
  <2>1. CASE "slow" \in may
    BY <2>1 DEF LandKeys, Inv, TypeInv, Keys, SoundInv, SoundKeys
  <2>2. CASE "slow" \notin may
    BY <2>2, SpentRan DEF LandKeys, Inv, TypeInv
  <2>. QED
    BY <2>1, <2>2
<1>2. /\ reads' = [reads EXCEPT ![k] = Unfetched]
      /\ UNCHANGED <<may, tab, calls>> /\ UNCHANGED world /\ UNCHANGED relay
  BY DEF LandKeys
<1>3. /\ worker' \in WorkerState /\ worker'.beacon = worker.beacon
      /\ worker'.keys = [worker.keys EXCEPT ![k] = ks]
  BY <1>1 DEF Inv, TypeInv, WorkerState, Keys
<1>4. reads' \in Keys
  BY <1>2 DEF Inv, TypeInv, Keys
<1>5. TypeInv' /\ FlightInv' /\ SendsInv'
  BY <1>2, <1>3, <1>4 DEF Inv, TypeInv, FlightInv, SendsInv, world, relay
<1>6. worker.keys \in Keys /\ reads \in Keys
  BY DEF Inv, TypeInv, WorkerState
<1>7. SoundInv'
  BY <1>1, <1>2, <1>3, <1>6 DEF Inv, Keys, SoundInv, SoundKeys, relay
<1>. QED
  BY <1>5, <1>7 DEF Inv

\* The worker has the relay's beacon.
LEMMA RefreshKeeps == ASSUME Inv, RefreshEnds PROVE Inv'
<1>1. /\ worker' = [worker EXCEPT !.fetched = TRUE, !.beacon = beacon]
      /\ UNCHANGED <<may, reads, tab, calls>> /\ UNCHANGED world /\ UNCHANGED relay
  BY DEF RefreshEnds
<1>2. worker' \in WorkerState /\ worker'.keys = worker.keys /\ worker'.beacon = beacon
  BY <1>1 DEF Inv, TypeInv, WorkerState
<1>3. TypeInv' /\ SoundInv' /\ FlightInv'
  BY <1>1, <1>2 DEF Inv, TypeInv, SoundInv, SoundKeys, FlightInv, world, relay
<1>4. SendsInv'
  BY <1>1, <1>2 DEF Inv, SendsInv, world, relay
<1>. QED
  BY <1>3, <1>4 DEF Inv

\* Sound keys over sound keys are sound.
LEMMA MergedSound ==
  ASSUME NEW f \in Keys, NEW g \in Keys, SoundKeys(f), SoundKeys(g)
  PROVE  Merged(f, g) \in Keys /\ SoundKeys(Merged(f, g))
BY DEF Keys, SoundKeys, Merged

\* A tab takes over what the worker has.
LEMMA SyncKeeps == ASSUME Inv, NEW t \in Tabs, Sync(t) PROVE Inv'
<1>. DEFINE m == Merged(tab[t].durable, worker.keys)
            f == tab[t].fetched \/ worker.fetched
            r == [tab[t] EXCEPT !.durable = m, !.fetched = f, !.beacon = worker.beacon, !.instance = worker.instance]
            ks == Announced(t)
<1>0. tab[t] \in TabState /\ worker \in WorkerState
  BY DEF Inv, TypeInv
<1>1. m \in Keys /\ SoundKeys(m)
  <2>1. tab[t].durable \in Keys /\ worker.keys \in Keys
    BY <1>0 DEF TabState, WorkerState
  <2>. QED
    BY <2>1, MergedSound DEF Inv, SoundInv
<1>2. ks \in SUBSET Buckets
  BY <1>0, BucketAssumption DEF Announced, TabState
<1>3. /\ tab' = [tab EXCEPT ![t] = r] /\ worker' = Enrol(ks)
      /\ UNCHANGED <<may, reads, calls>> /\ UNCHANGED world /\ UNCHANGED relay
  BY DEF Inv, TypeInv, TabState, Sync
<1>4. f \in BOOLEAN
  OBVIOUS
<1>. HIDE DEF m, f, ks
<1>5. /\ r \in TabState
      /\ r.local = tab[t].local /\ r.durable = m /\ r.inFlight = tab[t].inFlight
      /\ r.beacon = worker.beacon /\ r.posted = tab[t].posted /\ r.pills = tab[t].pills
  BY <1>0, <1>1, <1>4 DEF TabState, WorkerState
<1>. HIDE DEF r
<1>6. /\ worker' \in WorkerState /\ worker'.keys = worker.keys /\ worker'.beacon = worker.beacon
  BY <1>2, <1>3, EnrolIs DEF Inv
<1>7. /\ tab' \in [Tabs -> TabState] /\ tab'[t] = r /\ \A u \in Tabs : u # t => tab'[u] = tab[u]
  BY <1>3, <1>5 DEF Inv, TypeInv
<1>8. TypeInv'
  BY <1>3, <1>6, <1>7 DEF Inv, TypeInv, world, relay
<1>9. SoundInv'
  BY <1>1, <1>3, <1>5, <1>6, <1>7 DEF Inv, SoundInv, SoundKeys, relay
<1>10. FlightInv'
  BY <1>3, <1>5, <1>7 DEF Inv, FlightInv
<1>11. SendsInv'
  BY <1>3, <1>5, <1>6, <1>7 DEF Inv, SendsInv, world, relay
<1>. QED
  BY <1>8, <1>9, <1>10, <1>11 DEF Inv

-----------------------------------------------------------------------------
(* A dispatch.                                                              *)

\* A call moves on.
LEMMA AtIs ==
  ASSUME Inv, NEW c \in calls, NEW stage \in {"sent", "landed", "refused", "failed"}, At(c, stage),
         NEW d, d = [c EXCEPT !.stage = stage]
  PROVE  /\ d \in Call /\ d.tab = c.tab /\ d.block = c.block /\ d.site = c.site /\ d.stage = stage
         /\ calls' = (calls \ {c}) \cup {d}
BY DEF Inv, TypeInv, Call, At

\* The marks do not depend on how far a call is.
LEMMA FlightOfAt ==
  ASSUME FlightInv, NEW c \in calls, NEW d, d.tab = c.tab, d.block = c.block, d.site = c.site,
         calls' = (calls \ {c}) \cup {d}, UNCHANGED tab
  PROVE  FlightInv'
<1>1. ASSUME NEW t \in Tabs, NEW b \in Blocks
      PROVE  tab'[t].inFlight = tab[t].inFlight
             /\ ((\E e \in calls : e.tab = t /\ e.block = b /\ e.site = "scan")
                   <=> \E e \in calls' : e.tab = t /\ e.block = b /\ e.site = "scan")
  OBVIOUS
<1>2. \A t \in Tabs, b \in Blocks :
        b \in tab'[t].inFlight <=> \E e \in calls' : e.tab = t /\ e.block = b /\ e.site = "scan"
  BY <1>1 DEF FlightInv
<1>3. \A e, g \in calls' :
        e.site = "scan" /\ g.site = "scan" /\ e.tab = g.tab /\ e.tab # NoTab /\ e.block = g.block => e = g
  BY DEF FlightInv
<1>. QED
  BY <1>2, <1>3 DEF FlightInv

\* job.php has the dispatch.
LEMMA PostKeeps == ASSUME Inv, NEW c \in calls, Post(c) PROVE Inv'
<1>0. /\ c \in Call /\ UNCHANGED <<may, busy, beacon, worker, reads, tab>> /\ UNCHANGED world
  BY DEF Inv, TypeInv, Post
<1>1. CASE busy
  <2>. DEFINE d == [c EXCEPT !.stage = "refused"]
  <2>1. At(c, "refused") /\ UNCHANGED <<ran, auto>> /\ waiting' \in BOOLEAN
    BY <1>1 DEF Post, Inv, TypeInv
  <2>2. /\ d \in Call /\ d.tab = c.tab /\ d.block = c.block /\ d.site = c.site /\ d.stage = "refused"
        /\ calls' = (calls \ {c}) \cup {d}
    BY <2>1, AtIs
  <2>. HIDE DEF d
  <2>3. FlightInv'
    BY <1>0, <2>2, FlightOfAt DEF Inv
  <2>4. TypeInv'
    BY <1>0, <2>1, <2>2 DEF Inv, TypeInv, world
  <2>5. SoundInv'
    BY <1>0, <2>1, <2>2 DEF Inv, SoundInv, SoundKeys, world
  <2>6. SendsInv'
    BY <1>0, <1>1, <2>1, <2>2 DEF Inv, SendsInv, world
  <2>. QED
    BY <2>3, <2>4, <2>5, <2>6 DEF Inv
<1>2. CASE ~ busy
  <2>. DEFINE d == [c EXCEPT !.stage = "landed"]
              n == IF auto[c.block] < 2 THEN auto[c.block] + 1 ELSE 2
  <2>1. /\ At(c, "landed") /\ ran' = ran \cup {c.block} /\ waiting' = waiting
        /\ auto' = IF c.site = "click" THEN auto ELSE OneMore(auto, c.block)
    BY <1>2 DEF Post
  <2>2. /\ d \in Call /\ d.tab = c.tab /\ d.block = c.block /\ d.site = c.site /\ d.stage = "landed"
        /\ calls' = (calls \ {c}) \cup {d}
    BY <2>1, AtIs
  <2>3. c.block \in Blocks /\ n \in 0 .. 2
    BY <1>0 DEF Call, Inv, TypeInv
  <2>4. OneMore(auto, c.block) = [auto EXCEPT ![c.block] = n]
    BY <2>3 DEF OneMore, Inv, TypeInv
  <2>. HIDE DEF d, n
  <2>5. auto' \in [Blocks -> 0 .. 2] /\ (c.site = "click" => auto' = auto)
    BY <2>1, <2>3, <2>4 DEF Inv, TypeInv
  <2>6. FlightInv'
    BY <1>0, <2>2, FlightOfAt DEF Inv
  <2>7. TypeInv'
    BY <1>0, <2>1, <2>2, <2>3, <2>5 DEF Inv, TypeInv, world
  <2>8. SoundInv'
    BY <1>0, <2>1, <2>2 DEF Inv, SoundInv, SoundKeys, world
  <2>9. SendsInv'
    BY <1>0, <2>1, <2>2, <2>5 DEF Inv, SendsInv, world
  <2>. QED
    BY <2>6, <2>7, <2>8, <2>9 DEF Inv
<1>. QED
  BY <1>1, <1>2

\* The request fails.
LEMMA PostFailsKeeps == ASSUME Inv, NEW c \in calls, PostFails(c) PROVE Inv'
<1>. DEFINE d == [c EXCEPT !.stage = "failed"]
<1>1. /\ At(c, "failed") /\ UNCHANGED <<may, worker, reads, tab>> /\ UNCHANGED world /\ UNCHANGED relay
  BY DEF PostFails
<1>2. /\ d \in Call /\ d.tab = c.tab /\ d.block = c.block /\ d.site = c.site /\ d.stage = "failed"
      /\ calls' = (calls \ {c}) \cup {d}
  BY <1>1, AtIs
<1>. HIDE DEF d
<1>3. FlightInv'
  BY <1>1, <1>2, FlightOfAt DEF Inv
<1>4. TypeInv'
  BY <1>1, <1>2 DEF Inv, TypeInv, world, relay
<1>5. SoundInv'
  BY <1>1, <1>2 DEF Inv, SoundInv, SoundKeys, relay
<1>6. SendsInv'
  BY <1>1, <1>2 DEF Inv, SendsInv, world, relay
<1>. QED
  BY <1>3, <1>4, <1>5, <1>6 DEF Inv
\* A call that ends takes its mark away, if it set one.
LEMMA FlightOfAnswer ==
  ASSUME FlightInv, calls \subseteq Call, NEW c \in calls, calls' = calls \ {c},
         \A t \in Tabs : tab'[t].inFlight = IF t = c.tab THEN tab[t].inFlight \ Unmark(c) ELSE tab[t].inFlight
  PROVE  FlightInv'
<1>1. ASSUME NEW t \in Tabs, NEW b \in Blocks
      PROVE  b \in tab'[t].inFlight <=> \E e \in calls' : e.tab = t /\ e.block = b /\ e.site = "scan"
  <2>0. b \in tab[t].inFlight <=> \E e \in calls : e.tab = t /\ e.block = b /\ e.site = "scan"
    BY DEF FlightInv
  <2>1. CASE t = c.tab /\ b = c.block /\ c.site = "scan"
    <3>1. b \notin tab'[t].inFlight
      BY <2>1 DEF Unmark
    <3>2. ASSUME NEW e \in calls', e.tab = t, e.block = b, e.site = "scan" PROVE FALSE
      BY <2>1, <3>2, NullAssumption DEF FlightInv
    <3>. QED
      BY <3>1, <3>2
  <2>2. CASE ~ (t = c.tab /\ b = c.block /\ c.site = "scan")
    <3>1. b \in tab'[t].inFlight <=> b \in tab[t].inFlight
      BY <2>2 DEF Unmark
    <3>. QED
      BY <2>0, <2>2, <3>1
  <2>. QED
    BY <2>1, <2>2
<1>2. \A e, g \in calls' :
        e.site = "scan" /\ g.site = "scan" /\ e.tab = g.tab /\ e.tab # NoTab /\ e.block = g.block => e = g
  BY DEF FlightInv
<1>. QED
  BY <1>1, <1>2 DEF FlightInv

\* The write-through cache names what ran.
LEMMA RecordedSound ==
  ASSUME NEW f \in Keys, SoundKeys(f), NEW b \in Blocks, b \in ran
  PROVE  Recorded(f, b) \in Keys /\ SoundKeys(Recorded(f, b))
BY BucketAssumption DEF Keys, SoundKeys, Recorded

\* An answer is handled.
LEMMA AnswerKeeps == ASSUME Inv, NEW c \in calls, Answer(c) PROVE Inv'
<1>0. /\ c \in Call /\ calls' = calls \ {c} /\ UNCHANGED <<may, reads>> /\ UNCHANGED world /\ UNCHANGED relay
      /\ calls \subseteq Call
  BY DEF Inv, TypeInv, Answer
<1>1. CASE Ok(c)
  <2>. DEFINE ks == Recorded(worker.keys, c.block)
              rt(t) == [tab[t] EXCEPT !.inFlight = @ \ Unmark(c), !.local = @ \cup {c.block}, !.pills = @ \ Twins(c.block)]
  <2>0. c.block \in ran /\ c.block \in Blocks
    BY <1>0, <1>1 DEF Ok, Inv, SoundInv, Call
  <2>1. ks \in Keys /\ SoundKeys(ks)
    BY <2>0, RecordedSound DEF Inv, TypeInv, SoundInv, WorkerState
  <2>2. worker' = [worker EXCEPT !.keys = ks]
    BY <1>1 DEF Ok
  <2>. HIDE DEF ks
  <2>3. worker' \in WorkerState /\ worker'.keys = ks /\ worker'.beacon = worker.beacon
    BY <2>1, <2>2 DEF Inv, TypeInv, WorkerState
  <2>4. ASSUME NEW t \in Tabs
        PROVE  /\ rt(t) \in TabState /\ rt(t).local = tab[t].local \cup {c.block} /\ rt(t).durable = tab[t].durable
               /\ rt(t).inFlight = tab[t].inFlight \ Unmark(c) /\ rt(t).pills \subseteq tab[t].pills
               /\ rt(t).beacon = tab[t].beacon /\ rt(t).posted = tab[t].posted
    <3>1. tab[t] \in TabState
      BY DEF Inv, TypeInv
    <3>. QED
      BY <2>0, <3>1 DEF TabState
  <2>5. tab' = IF c.tab = NoTab THEN tab ELSE [tab EXCEPT ![c.tab] = rt(c.tab)]
    BY <1>0, <1>1 DEF Ok, Inv, TypeInv, TabState, Call
  <2>. HIDE DEF rt
  <2>6. /\ tab' \in [Tabs -> TabState]
        /\ \A t \in Tabs : tab'[t] = IF t = c.tab THEN rt(t) ELSE tab[t]
    BY <1>0, <2>4, <2>5, NullAssumption DEF Inv, TypeInv, Call
  <2>7. FlightInv'
    BY <1>0, <2>4, <2>6, FlightOfAnswer DEF Inv
  <2>8. TypeInv'
    BY <1>0, <2>3, <2>6 DEF Inv, TypeInv, world, relay
  <2>9. SoundInv'
    BY <1>0, <2>0, <2>1, <2>3, <2>4, <2>6 DEF Inv, SoundInv, SoundKeys, relay
  <2>10. SendsInv'
    BY <1>0, <2>3, <2>4, <2>6 DEF Inv, SendsInv, world, relay
  <2>. QED
    BY <2>7, <2>8, <2>9, <2>10 DEF Inv
<1>2. CASE NotOk(c)
  <2>. DEFINE new == {PillAfter(c)}
              rt(t) == [tab[t] EXCEPT !.inFlight = @ \ Unmark(c), !.pills = @ \cup new]
  <2>0. c.block \in Blocks /\ UNCHANGED worker /\ c.stage \in {"refused", "failed"}
    BY <1>0, <1>2 DEF NotOk, Call
  <2>1. new \in SUBSET Pill /\ \A p \in new : p.kind = "dropped" => c.stage = "refused"
    BY <2>0 DEF PillAfter, DroppedPill, FailedPill, Pill, Kinds
  <2>5. tab' = IF c.tab = NoTab THEN tab ELSE [tab EXCEPT ![c.tab] = rt(c.tab)]
    BY <1>0, <1>2 DEF NotOk, Inv, TypeInv, TabState, Call
  <2>. HIDE DEF new
  <2>4. ASSUME NEW t \in Tabs
        PROVE  /\ rt(t) \in TabState /\ rt(t).local = tab[t].local /\ rt(t).durable = tab[t].durable
               /\ rt(t).inFlight = tab[t].inFlight \ Unmark(c) /\ rt(t).pills = tab[t].pills \cup new
               /\ rt(t).beacon = tab[t].beacon /\ rt(t).posted = tab[t].posted
    <3>1. tab[t] \in TabState
      BY DEF Inv, TypeInv
    <3>. QED
      BY <2>0, <2>1, <3>1 DEF TabState
  <2>. HIDE DEF rt
  <2>6. /\ tab' \in [Tabs -> TabState]
        /\ \A t \in Tabs : tab'[t] = IF t = c.tab THEN rt(t) ELSE tab[t]
    BY <1>0, <2>4, <2>5, NullAssumption DEF Inv, TypeInv, Call
  <2>7. FlightInv'
    BY <1>0, <2>4, <2>6, FlightOfAnswer DEF Inv
  <2>8. TypeInv'
    BY <1>0, <2>0, <2>6 DEF Inv, TypeInv, world, relay
  <2>9. SoundInv'
    BY <1>0, <2>0, <2>4, <2>6 DEF Inv, SoundInv, SoundKeys, relay
  <2>10. SendsInv'
    BY <1>0, <2>0, <2>1, <2>4, <2>6 DEF Inv, SendsInv, world, relay
  <2>. QED
    BY <2>7, <2>8, <2>9, <2>10 DEF Inv
<1>. QED
  BY <1>1, <1>2 DEF Answer

-----------------------------------------------------------------------------
(* Sends, reloads and restarts.                                             *)

\* A send is noted in the tab, the worker and the relay, or nowhere.
LEMMA SendKeeps == ASSUME Inv, NEW t \in Tabs, Send(t) PROVE Inv'
<1>. DEFINE r == [tab[t] EXCEPT !.posted = sends + 1]
<1>0. /\ sends' = sends + 1 /\ sends \in Nat /\ sends' \in Nat /\ sends' # 0
      /\ UNCHANGED <<may, chat, closed, listening, armed, reads, calls>> /\ UNCHANGED <<ran, auto, busy, waiting>>
  BY DEF Inv, TypeInv, Send
<1>1. tab[t] \in TabState /\ worker \in WorkerState /\ tab \in [Tabs -> TabState]
  BY DEF Inv, TypeInv
<1>2. /\ r \in TabState /\ r.local = tab[t].local /\ r.durable = tab[t].durable /\ r.inFlight = tab[t].inFlight
  BY <1>0, <1>1 DEF TabState
<1>3. tab' = tab \/ tab' = [tab EXCEPT ![t] = r]
  BY <1>0, <1>1 DEF Send, NoteSend, TabState
<1>. HIDE DEF r
<1>4. /\ tab' \in [Tabs -> TabState]
      /\ \A u \in Tabs : /\ tab'[u].local = tab[u].local /\ tab'[u].durable = tab[u].durable
                         /\ tab'[u].inFlight = tab[u].inFlight
  BY <1>1, <1>2, <1>3
<1>5. worker' \in WorkerState /\ worker'.keys = worker.keys /\ beacon' \in Nat
  BY <1>0, <1>1 DEF Send, NoteSend, WorkerState, Inv, TypeInv
<1>6. TypeInv'
  BY <1>0, <1>4, <1>5 DEF Inv, TypeInv
<1>7. SoundInv' /\ FlightInv'
  BY <1>0, <1>4, <1>5 DEF Inv, SoundInv, SoundKeys, FlightInv
<1>8. SendsInv'
  <2>1. \A m \in Nat : m <= sends => m <= sends'
    BY <1>0
  <2>2. /\ beacon \in Nat /\ worker.beacon \in Nat
        /\ \A u \in Tabs : tab[u].beacon \in Nat /\ tab[u].posted \in Nat
    BY <1>1 DEF Inv, TypeInv, WorkerState, TabState
  <2>3. beacon <= sends' /\ worker.beacon <= sends' /\ sends' <= sends'
    BY <1>0, <2>1, <2>2 DEF Inv, SendsInv
  <2>4. beacon' <= sends' /\ worker'.beacon <= sends'
    <3>1. /\ beacon' = sends' \/ beacon' = beacon
          /\ worker'.beacon = sends' \/ worker' = worker
      BY <1>0, <1>1 DEF Send, NoteSend, WorkerState
    <3>. QED
      BY <2>3, <3>1
  <2>5. ASSUME NEW u \in Tabs PROVE tab'[u].beacon <= sends' /\ tab'[u].posted <= sends'
    <3>1. /\ tab'[u].beacon = tab[u].beacon
          /\ tab'[u].posted = tab[u].posted \/ tab'[u].posted = sends'
      BY <1>0, <1>1 DEF Send, NoteSend, TabState
    <3>2. tab[u].beacon <= sends' /\ tab[u].posted <= sends'
      BY <2>1, <2>2 DEF Inv, SendsInv
    <3>. QED
      BY <2>3, <3>1, <3>2
  <2>. QED
    BY <2>4, <2>5 DEF SendsInv
<1>. QED
  BY <1>6, <1>7, <1>8 DEF Inv

\* The page forgets, its calls answer to nobody.
LEMMA ReloadKeeps == ASSUME Inv, NEW t \in Tabs, Reload(t) PROVE Inv'
<1>. DEFINE moved(c) == IF c.tab = t THEN [c EXCEPT !.tab = NoTab] ELSE c
<1>0. /\ tab' = [tab EXCEPT ![t] = FreshTab] /\ calls' = {moved(c) : c \in calls}
      /\ UNCHANGED <<may, worker, reads>> /\ UNCHANGED world /\ UNCHANGED relay
  BY DEF Reload
<1>1. ASSUME NEW c \in calls
      PROVE  /\ moved(c) \in Call /\ moved(c).block = c.block /\ moved(c).site = c.site
             /\ moved(c).stage = c.stage /\ moved(c).tab = IF c.tab = t THEN NoTab ELSE c.tab
             /\ c.tab # t => moved(c) = c
  BY DEF Inv, TypeInv, Call
<1>. HIDE DEF moved
<1>2. /\ tab' \in [Tabs -> TabState] /\ tab'[t] = FreshTab /\ \A u \in Tabs : u # t => tab'[u] = tab[u]
  BY <1>0, FreshTabIs DEF Inv, TypeInv
<1>3. TypeInv'
  BY <1>0, <1>1, <1>2 DEF Inv, TypeInv, world, relay
<1>4. SoundInv'
  BY <1>0, <1>1, <1>2, FreshTabIs DEF Inv, SoundInv, SoundKeys, relay
<1>5. ASSUME NEW u \in Tabs, NEW b \in Blocks
      PROVE  b \in tab'[u].inFlight <=> \E e \in calls' : e.tab = u /\ e.block = b /\ e.site = "scan"
  <2>1. CASE u = t
    BY <2>1, <1>0, <1>1, <1>2, FreshTabIs, NullAssumption
  <2>2. CASE u # t
    <3>1. b \in tab[u].inFlight <=> \E e \in calls : e.tab = u /\ e.block = b /\ e.site = "scan"
      BY DEF Inv, FlightInv
    <3>2. ASSUME NEW e \in calls, e.tab = u, e.block = b, e.site = "scan" PROVE e \in calls'
      BY <2>2, <3>2, <1>0, <1>1
    <3>3. ASSUME NEW e \in calls', e.tab = u, e.block = b, e.site = "scan" PROVE e \in calls
      BY <2>2, <3>3, <1>0, <1>1, NullAssumption
    <3>. QED
      BY <2>2, <1>2, <3>1, <3>2, <3>3
  <2>. QED
    BY <2>1, <2>2
<1>6. ASSUME NEW e \in calls', NEW g \in calls', e.site = "scan", g.site = "scan", e.tab = g.tab, e.tab # NoTab,
             e.block = g.block
      PROVE  e = g
  <2>1. e \in calls /\ g \in calls
    BY <1>0, <1>1, <1>6
  <2>. QED
    BY <2>1, <1>6 DEF Inv, FlightInv
<1>7. FlightInv'
  BY <1>5, <1>6 DEF FlightInv
<1>8. SendsInv'
  <2>1. 0 <= sends
    BY DEF Inv, TypeInv
  <2>. QED
    BY <2>1, <1>0, <1>2, FreshTabIs DEF Inv, SendsInv, world, relay
<1>. QED
  BY <1>3, <1>4, <1>7, <1>8 DEF Inv

\* The worker forgets, its calls fail.
LEMMA RestartKeeps == ASSUME Inv, RestartWorker PROVE Inv'
<1>. DEFINE moved(c) == [c EXCEPT !.stage = "failed"]
<1>0. /\ worker' = FreshWorker(worker.instance + 1) /\ reads' = [k \in Buckets |-> Unfetched]
      /\ calls' = {moved(c) : c \in calls}
      /\ UNCHANGED <<may, tab>> /\ UNCHANGED world /\ UNCHANGED relay
  BY DEF RestartWorker
<1>1. ASSUME NEW c \in calls
      PROVE  /\ moved(c) \in Call /\ moved(c).block = c.block /\ moved(c).site = c.site
             /\ moved(c).stage = "failed" /\ moved(c).tab = c.tab
  BY DEF Inv, TypeInv, Call
<1>. HIDE DEF moved
<1>2. /\ worker' \in WorkerState /\ worker'.beacon = 0 /\ \A k \in Buckets : worker'.keys[k] = Unfetched
  <2>1. worker.instance + 1 \in Nat
    BY DEF Inv, TypeInv, WorkerState
  <2>. QED
    BY <1>0, <2>1, FreshWorkerIs
<1>3. reads' \in Keys
  BY <1>0 DEF Keys
<1>4. TypeInv'
  BY <1>0, <1>1, <1>2, <1>3 DEF Inv, TypeInv, world, relay
<1>5. SoundInv'
  BY <1>0, <1>1, <1>2 DEF Inv, SoundInv, SoundKeys, relay
<1>6. ASSUME NEW u \in Tabs, NEW b \in Blocks
      PROVE  b \in tab'[u].inFlight <=> \E e \in calls' : e.tab = u /\ e.block = b /\ e.site = "scan"
  <2>1. b \in tab[u].inFlight <=> \E e \in calls : e.tab = u /\ e.block = b /\ e.site = "scan"
    BY DEF Inv, FlightInv
  <2>. QED
    BY <2>1, <1>0, <1>1
<1>7. \A e, g \in calls' :
        e.site = "scan" /\ g.site = "scan" /\ e.tab = g.tab /\ e.tab # NoTab /\ e.block = g.block => e = g
  BY <1>0, <1>1 DEF Inv, FlightInv
<1>8. FlightInv'
  BY <1>6, <1>7 DEF FlightInv
<1>9. SendsInv'
  <2>1. 0 <= sends
    BY DEF Inv, TypeInv
  <2>. QED
    BY <2>1, <1>0, <1>2 DEF Inv, SendsInv, world, relay
<1>. QED
  BY <1>4, <1>5, <1>8, <1>9 DEF Inv

\* Nothing but the world changes.
LEMMA WorldStepsKeep ==
  ASSUME Inv, Disarm \/ WindowCloses \/ Write \/ ToggleListening \/ ToggleRepo PROVE Inv'
<1>0. /\ chat \in Seq(Blocks) /\ closed \in Nat /\ sends \in Nat /\ listening \in BOOLEAN /\ armed \in BOOLEAN
      /\ busy \in BOOLEAN
  BY DEF Inv, TypeInv
<1>1. UNCHANGED <<may, sends, ran, auto, waiting, beacon, worker, reads, tab, calls>>
  BY DEF Disarm, WindowCloses, Write, ToggleListening, ToggleRepo, world, relay
<1>2. chat' \in Seq(Blocks)
  <2>1. CASE Write
    <3>1. PICK s \in Scripts : Len(chat) < Len(s) /\ chat' = Append(chat, s[Len(chat) + 1])
      BY <2>1 DEF Write
    <3>2. s \in Seq(Blocks)
      BY BoundAssumption
    <3>3. s[Len(chat) + 1] \in Blocks
      BY <1>0, <3>1, <3>2
    <3>. QED
      BY <1>0, <3>1, <3>3
  <2>2. CASE ~ Write
    BY <1>0, <2>2 DEF Disarm, WindowCloses, ToggleListening, ToggleRepo, world
  <2>. QED
    BY <2>1, <2>2
<1>3. /\ closed' \in Nat /\ listening' \in BOOLEAN /\ armed' \in BOOLEAN
      /\ busy' \in BOOLEAN
  <2>1. CASE Disarm \/ WindowCloses \/ Write
    <3>1. /\ closed' = closed \/ closed' = sends
          /\ UNCHANGED <<listening, busy>>
          /\ armed' = FALSE \/ armed' = armed
      BY <2>1 DEF Disarm, WindowCloses, Write, relay
    <3>2. closed' \in Nat
      BY <1>0, <3>1
    <3>3. armed' \in BOOLEAN
      BY <1>0, <3>1
    <3>. QED
      BY <1>0, <3>1, <3>2, <3>3, Zenon
  <2>2. CASE ToggleListening
    <3>1. listening' \in BOOLEAN /\ UNCHANGED <<closed, armed, busy>>
      BY <2>2, Zenon DEF ToggleListening, relay
    <3>. QED
      BY <1>0, <3>1
  <2>3. CASE ToggleRepo
    <3>1. busy' \in BOOLEAN /\ UNCHANGED <<closed, armed, listening>>
      BY <2>3, Zenon DEF ToggleRepo, world
    <3>. QED
      BY <1>0, <3>1
  <2>. QED
    BY <2>1, <2>2, <2>3
<1>. QED
  BY <1>1, <1>2, <1>3, WorldKeeps

-----------------------------------------------------------------------------
(* The theorems.                                                            *)

\* Every step keeps the invariant.
LEMMA StepInv == Inv /\ [Next]_vars => Inv'
<1>. SUFFICES ASSUME Inv, [Next]_vars PROVE Inv'
  OBVIOUS
<1>1. ASSUME NEW t \in Open, NEW i \in Messages, Scan(t, i) PROVE Inv'
  BY <1>1, OpenTabs, ScanKeeps
<1>2. ASSUME NEW t \in Open, Hydrate(t) \/ Virtualize(t) \/ FailOpen(t) \/ Sync(t) PROVE Inv'
  BY <1>2, OpenTabs, HydrateKeeps, VirtualizeKeeps, FailOpenKeeps, SyncKeeps
<1>3. ASSUME NEW t \in Open, RepoFreeWake(t) \/ Click(t) \/ Rescue(t) \/ Arm(t) PROVE Inv'
  BY <1>3, OpenTabs, RefireKeeps, ClickKeeps, RescueKeeps, ArmKeeps
<1>4. ASSUME NEW t \in Open, Send(t) \/ Reload(t) PROVE Inv'
  BY <1>4, OpenTabs, SendKeeps, ReloadKeeps
<1>5. ASSUME NEW c \in calls, Post(c) \/ PostFails(c) \/ Answer(c) PROVE Inv'
  BY <1>5, PostKeeps, PostFailsKeeps, AnswerKeeps
<1>6. ASSUME NEW k \in Buckets, ReadKeys(k) \/ LandKeys(k) PROVE Inv'
  BY <1>6, ReadKeysKeeps, LandKeysKeeps
<1>7. CASE RefreshEnds \/ RestartWorker
  BY <1>7, RefreshKeeps, RestartKeeps
<1>8. CASE Disarm \/ WindowCloses \/ Write \/ ToggleListening \/ ToggleRepo
  BY <1>8, WorldStepsKeep
<1>9. CASE UNCHANGED vars
  <2>1. TypeInv' /\ SoundInv' /\ FlightInv' /\ SendsInv'
    BY <1>9 DEF vars, Inv, TypeInv, SoundInv, SoundKeys, FlightInv, SendsInv
  <2>. QED
    BY <2>1 DEF Inv
<1>. QED
  BY <1>1, <1>2, <1>3, <1>4, <1>5, <1>6, <1>7, <1>8, <1>9 DEF Next

\* Reachable states satisfy the invariant.
THEOREM Invariance == Spec => []Inv
BY InitInv, StepInv, PTL DEF Spec

\* Every variable keeps its type.
THEOREM TypeCorrect == Spec => []TypeOK
<1>1. Inv => TypeOK
  BY DEF Inv, TypeInv, TypeOK, TabState, WorkerState
<1>. QED
  BY <1>1, Invariance, PTL

\* content.js scan(), isStableKeyDispatched: a block is ignored as dispatched
\* only if the relay has a job of it, whatever order answers come in and
\* whatever is reloaded or restarted.
THEOREM NoBlockIsIgnoredUnrun == Spec => []IgnoredBlocksRan
<1>1. Inv => IgnoredBlocksRan
  <2>. SUFFICES ASSUME Inv, NEW t \in Tabs, NEW b \in Blocks, Known(t, b) PROVE b \in ran
    BY DEF IgnoredBlocksRan
  <2>1. BucketOf[b] \in Buckets
    BY BucketAssumption
  <2>. QED
    BY <2>1 DEF Known, Inv, SoundInv, SoundKeys
<1>. QED
  BY <1>1, Invariance, PTL

\* content.js dispatchCcswBlock: the in-flight mark of a block is there while
\* the scan that set it awaits its answer, and no longer.
THEOREM MarksAreTakenAway == Spec => []InFlightIsRunning
<1>1. Inv => InFlightIsRunning
  BY DEF Inv, FlightInv, InFlightIsRunning
<1>. QED
  BY <1>1, Invariance, PTL

-----------------------------------------------------------------------------
(* Every dispatch has its authority.                                        *)

\* What RunsAreAuthorised says of one step.
AuthorisedStep ==
  \A c \in calls' \ calls : c.stage = "sent" /\ c.tab # NoTab =>
    \/ c.site = "click"
    \/ c.site = "scan" /\ Newest(c.block) /\ (armed \/ closed < sends)
    \/ c.site = "autopilot" /\ armed' /\ HeldPill(c.block) \in tab[c.tab].pills
    \/ c.site = "refire" /\ DroppedPill(c.block) \in tab[c.tab].pills

\* The scan of a message fires it only if it is the newest, in an open window.
LEMMA ScanIsAuthorised ==
  ASSUME Inv, NEW t \in Tabs, NEW i \in Messages, Scan(t, i) PROVE AuthorisedStep
<1>1. CASE UNCHANGED calls
  BY <1>1 DEF AuthorisedStep
<1>2. CASE ~ UNCHANGED calls
  <2>1. Authorised(t) /\ Fire(t, i) /\ ~ (i < Len(chat)) /\ i \in 1 .. Len(chat)
    BY <1>2 DEF Scan, Decide, Ignore, Defer, Hold
  <2>2. armed \/ closed < sends
    BY <2>1, AuthorisedIs
  <2>3. chat \in Seq(Blocks) /\ Len(chat) \in Nat
    BY DEF Inv, TypeInv
  <2>4. i = Len(chat) /\ Newest(chat[i])
    BY <2>1, <2>3 DEF Newest
  <2>5. calls' \subseteq calls \cup {Running(t, chat[i], "scan")}
    BY <2>1, <1>2 DEF Fire, Ignore
  <2>. QED
    BY <2>2, <2>4, <2>5 DEF AuthorisedStep, Running
<1>. QED
  BY <1>1, <1>2

\* A wake re-fires what was dropped, autopilot releases what was held.
LEMMA TabIsAuthorised ==
  ASSUME Inv, NEW t \in Tabs, RepoFreeWake(t) \/ Click(t) \/ Rescue(t) \/ Arm(t) PROVE AuthorisedStep
<1>1. CASE RepoFreeWake(t)
  <2>1. CASE Refirable(t) = {}
    BY <1>1, <2>1 DEF RepoFreeWake, AuthorisedStep
  <2>2. CASE Refirable(t) # {}
    <3>1. PICK b \in Refirable(t) : Start(t, b, "refire")
      BY <1>1, <2>2 DEF RepoFreeWake
    <3>2. DroppedPill(b) \in tab[t].pills /\ calls' = calls \cup {Running(t, b, "refire")}
      BY <3>1 DEF Refirable, Start
    <3>. QED
      BY <3>2 DEF AuthorisedStep, Running
  <2>. QED
    BY <2>1, <2>2
<1>2. CASE Click(t) \/ Rescue(t)
  <2>1. \E b : calls' = calls \cup {Running(t, b, "click")}
    BY <1>2 DEF Click, Rescue, Start
  <2>. QED
    BY <2>1 DEF AuthorisedStep, Running
<1>3. CASE Arm(t)
  <2>1. armed' = TRUE /\ calls' = calls \cup {Running(t, p.block, "autopilot") : p \in Held(t)}
    BY <1>3 DEF Arm
  <2>2. ASSUME NEW p \in Held(t) PROVE p = HeldPill(p.block) /\ p \in tab[t].pills
    BY DEF Held, HeldPill, Inv, TypeInv, TabState, Pill
  <2>3. ASSUME NEW c \in calls' \ calls
        PROVE  c.site = "autopilot" /\ HeldPill(c.block) \in tab[c.tab].pills
    <3>1. PICK p \in Held(t) : c = Running(t, p.block, "autopilot")
      BY <2>1
    <3>2. c.site = "autopilot" /\ c.tab = t /\ c.block = p.block
      BY <3>1 DEF Running
    <3>. QED
      BY <2>2, <3>2
  <2>. QED
    BY <2>1, <2>3 DEF AuthorisedStep
<1>. QED
  BY <1>1, <1>2, <1>3

\* A dispatch that moves on, or whose page or worker is gone, is none that is sent.
LEMMA CallsAreNotSent ==
  ASSUME Inv, \/ \E c \in calls : Post(c) \/ PostFails(c) \/ Answer(c)
              \/ \E t \in Tabs : Reload(t)
              \/ RestartWorker
  PROVE  AuthorisedStep
<1>0. \A c \in calls : c \in Call
  BY DEF Inv, TypeInv
<1>1. ASSUME NEW c \in calls, Post(c) \/ PostFails(c)
      PROVE  \A d \in calls' \ calls : d.stage # "sent"
  <2>1. PICK stage \in {"refused", "landed", "failed"} : At(c, stage)
    BY <1>1 DEF Post, PostFails
  <2>. QED
    BY <1>0, <2>1 DEF At, Call
<1>2. ASSUME NEW c \in calls, Answer(c) PROVE calls' \ calls = {}
  BY <1>2 DEF Answer
<1>3. ASSUME NEW t \in Tabs, Reload(t) PROVE \A d \in calls' \ calls : d.tab = NoTab
  BY <1>0, <1>3 DEF Reload, Call
<1>4. CASE RestartWorker
  BY <1>0, <1>4 DEF RestartWorker, Call, AuthorisedStep
<1>. QED
  BY <1>1, <1>2, <1>3, <1>4 DEF AuthorisedStep

\* Every step keeps to it.
LEMMA StepIsAuthorised == Inv /\ [Next]_vars => AuthorisedStep
<1>. SUFFICES ASSUME Inv, [Next]_vars PROVE AuthorisedStep
  OBVIOUS
<1>1. ASSUME NEW t \in Open, NEW i \in Messages, Scan(t, i) PROVE AuthorisedStep
  BY <1>1, OpenTabs, ScanIsAuthorised
<1>2. ASSUME NEW t \in Open, RepoFreeWake(t) \/ Click(t) \/ Rescue(t) \/ Arm(t) PROVE AuthorisedStep
  BY <1>2, OpenTabs, TabIsAuthorised
<1>3. ASSUME NEW t \in Open, Reload(t) PROVE AuthorisedStep
  BY <1>3, OpenTabs, CallsAreNotSent
<1>4. CASE (\E c \in calls : Post(c) \/ PostFails(c) \/ Answer(c)) \/ RestartWorker
  BY <1>4, CallsAreNotSent
<1>5. ASSUME UNCHANGED calls PROVE AuthorisedStep
  BY <1>5 DEF AuthorisedStep
<1>6. ASSUME NEW t \in Open, Hydrate(t) \/ Virtualize(t) \/ FailOpen(t) \/ Sync(t) \/ Send(t)
      PROVE  UNCHANGED calls
  BY <1>6 DEF Hydrate, Virtualize, FailOpen, Sync, Send
<1>7. CASE (\E k \in Buckets : ReadKeys(k) \/ LandKeys(k)) \/ RefreshEnds \/ Disarm \/ WindowCloses
             \/ Write \/ ToggleListening \/ ToggleRepo \/ UNCHANGED vars
  <2>1. UNCHANGED calls
    BY <1>7 DEF ReadKeys, LandKeys, RefreshEnds, Disarm, WindowCloses, Write, ToggleListening, ToggleRepo, vars
  <2>. QED
    BY <2>1, <1>5
<1>. QED
  BY <1>1, <1>2, <1>3, <1>4, <1>5, <1>6, <1>7 DEF Next

\* content.js scan, decideCcswDispatch, releaseAutopilotHeldPills and
\* tryAutoRefireDroppedForRepo: nothing is dispatched without authority at that
\* moment, whatever tabs and worker remember, reload or restart.
THEOREM RunsHaveAuthority == Spec => RunsAreAuthorised
<1>1. Inv /\ [Next]_vars => [AuthorisedStep]_vars
  BY StepIsAuthorised
<1>. QED
  BY <1>1, Invariance, PTL DEF Spec, RunsAreAuthorised, AuthorisedStep

-----------------------------------------------------------------------------
(* A block runs by itself once.                                             *)

\* One page that lives on, a relay and a worker that answer, a repo that is free.
Calm == may \cap {"tabs", "drop", "net", "reload", "worker", "autopilot"} = {}
Only == CHOOSE t \in Tabs : TRUE

\* The one tab to come back to a block that ran by itself has marked it, or will
\* as the answer it waits for arrives; a scan whose request is out is its first.
MarkedOrMarking(b) ==
  \/ b \in tab[Only].local
  \/ \E c \in calls : c.block = b /\ c.site = "scan" /\ c.stage = "landed"
OnceInv ==
  Calm => /\ ~ armed /\ ~ busy /\ ~ waiting
          /\ \A c \in calls : /\ c.tab = Only
                              /\ c.site \in {"scan", "click"}
                              /\ c.stage \in {"sent", "landed"}
          /\ \A c \in calls : c.site = "scan" /\ c.stage = "sent" => auto[c.block] = 0
          /\ \A b \in Blocks : auto[b] <= 1
          /\ \A b \in Blocks : auto[b] = 1 => MarkedOrMarking(b)

\* Nothing comes to be, but clicks.
LEMMA ClicksKeepOnce ==
  ASSUME OnceInv, may' = may, auto' = auto, waiting' = waiting,
         armed' = FALSE \/ armed' = armed, ~ Calm \/ busy' = busy,
         calls \subseteq calls',
         \A c \in calls' \ calls : c.tab = Only /\ c.site = "click" /\ c.stage = "sent",
         tab[Only].local \subseteq tab'[Only].local
  PROVE  OnceInv'
BY DEF OnceInv, Calm, MarkedOrMarking

\* Only is the tab that is open.
LEMMA OnlyIsOpen == /\ Only \in Tabs /\ Only # NoTab
                    /\ Calm => \A t \in Open : t = Only
BY NullAssumption DEF Only, Open, Calm

\* A scan fires a block that is neither marked nor in flight.
LEMMA ScanKeepsOnce ==
  ASSUME Inv, OnceInv, NEW t \in Open, NEW i \in Messages, Scan(t, i)
  PROVE  OnceInv'
<1>. SUFFICES ASSUME Calm PROVE OnceInv'
  BY DEF Scan, OnceInv, Calm
<1>0. /\ i \in 1 .. Len(chat) /\ t = Only /\ t \in Tabs /\ Only # NoTab
      /\ UNCHANGED may /\ UNCHANGED world /\ UNCHANGED relay
  BY OnlyIsOpen DEF Scan
<1>1. tab'[Only].local = tab[Only].local
  <2>1. Ignore(t, i) \/ Defer(t, i) \/ Fire(t, i) \/ Hold(t, i)
    BY DEF Scan, Decide
  <2>2. tab \in [Tabs -> TabState]
    BY DEF Inv, TypeInv
  <2>. QED
    BY <1>0, <2>1, <2>2 DEF Ignore, See, Defer, Fire, Hold, TabState
<1>2. CASE calls' = calls
  BY <1>0, <1>1, <1>2, ClicksKeepOnce DEF world, relay
<1>3. CASE calls' # calls
  <2>. DEFINE b == chat[i]
              c == Running(t, b, "scan")
  <2>1. ~ Known(t, b) /\ b \notin tab[t].inFlight /\ calls' = calls \cup {c}
    BY <1>3 DEF Scan, Decide, Ignore, Defer, Hold, Fire
  <2>2. b \in Blocks /\ c.tab = Only /\ c.block = b /\ c.site = "scan" /\ c.stage = "sent"
    BY <1>0, BlockOf DEF Inv, Running
  <2>3. b \notin tab[Only].local /\ ~ \E e \in calls : e.block = b /\ e.site = "scan"
    BY <1>0, <2>1, <2>2 DEF Known, Inv, FlightInv, OnceInv
  <2>4. auto[b] \in 0 .. 1
    BY <2>2 DEF OnceInv, Inv, TypeInv
  <2>5. auto[b] = 0
    BY <2>2, <2>3, <2>4 DEF OnceInv, MarkedOrMarking
  <2>. HIDE DEF b, c
  <2>. QED
    BY <1>0, <1>1, <2>1, <2>2, <2>5 DEF OnceInv, Calm, MarkedOrMarking, world, relay
<1>. QED
  BY <1>2, <1>3

\* The relay takes a block for the first time, or a click.
LEMMA PostKeepsOnce ==
  ASSUME Inv, OnceInv, NEW c \in calls, Post(c)
  PROVE  OnceInv'
<1>. SUFFICES ASSUME Calm PROVE OnceInv'
  BY DEF Post, OnceInv, Calm
<1>. DEFINE d == [c EXCEPT !.stage = "landed"]
<1>0. At(c, "landed") /\ ~ busy
  BY DEF OnceInv, Post
<1>1. /\ c.stage = "sent"
      /\ auto' = IF c.site = "click" THEN auto ELSE OneMore(auto, c.block)
      /\ waiting' = waiting /\ UNCHANGED <<may, busy, tab>> /\ UNCHANGED world
  BY <1>0 DEF Post
<1>2. /\ d.tab = c.tab /\ d.block = c.block /\ d.site = c.site /\ d.stage = "landed"
      /\ calls' = (calls \ {c}) \cup {d}
  <2>1. c \in Call
    BY DEF Inv, TypeInv
  <2>. QED
    BY <1>0, <2>1 DEF At, Call
<1>. HIDE DEF d
<1>3. c.block \in Blocks /\ c.tab = Only /\ auto \in [Blocks -> 0 .. 2]
  <2>1. c \in Call /\ auto \in [Blocks -> 0 .. 2]
    BY DEF Inv, TypeInv
  <2>. QED
    BY <2>1 DEF Call, OnceInv
<1>4. CASE c.site = "click"
  BY <1>0, <1>1, <1>2, <1>4 DEF OnceInv, Calm, MarkedOrMarking, world
<1>5. CASE c.site # "click"
  <2>1. c.site = "scan" /\ auto[c.block] = 0
    BY <1>1, <1>5 DEF OnceInv
  <2>2. auto' = [auto EXCEPT ![c.block] = 1]
    BY <1>1, <1>3, <1>5, <2>1 DEF OneMore
  <2>3. ASSUME NEW e \in calls', e.site = "scan", e.stage = "sent" PROVE auto'[e.block] = 0
    <3>1. e \in calls /\ e # c /\ auto[e.block] = 0 /\ e.tab = c.tab
      BY <1>2, <2>3 DEF OnceInv
    <3>2. e.block # c.block
      BY <1>3, <2>1, <2>3, <3>1, OnlyIsOpen DEF Inv, FlightInv
    <3>. QED
      BY <1>3, <2>2, <3>1, <3>2
  <2>4. \A b \in Blocks : auto'[b] <= 1
    BY <1>3, <2>2 DEF OnceInv
  <2>5. ASSUME NEW b \in Blocks, auto'[b] = 1 PROVE MarkedOrMarking(b)'
    <3>1. CASE b = c.block
      BY <1>2, <2>1, <3>1 DEF MarkedOrMarking
    <3>2. CASE b # c.block
      <4>1. MarkedOrMarking(b)
        BY <1>3, <2>2, <2>5, <3>2 DEF OnceInv
      <4>. QED
        BY <1>1, <1>2, <3>2, <4>1 DEF MarkedOrMarking
    <3>. QED
      BY <3>1, <3>2
  <2>. QED
    BY <1>0, <1>1, <1>2, <2>3, <2>4, <2>5 DEF OnceInv, Calm, world
<1>. QED
  BY <1>4, <1>5

\* As the answer comes the block is marked.
LEMMA AnswerKeepsOnce ==
  ASSUME Inv, OnceInv, NEW c \in calls, Answer(c)
  PROVE  OnceInv'
<1>. SUFFICES ASSUME Calm PROVE OnceInv'
  BY DEF Answer, OnceInv, Calm
<1>1. Ok(c) /\ calls' = calls \ {c} /\ UNCHANGED may /\ UNCHANGED world /\ UNCHANGED relay
  BY DEF Answer, NotOk, OnceInv
<1>2. tab \in [Tabs -> TabState] /\ c.tab = Only /\ Only \in Tabs /\ Only # NoTab
  BY OnlyIsOpen DEF Inv, TypeInv, OnceInv
<1>3. tab'[Only].local = tab[Only].local \cup {c.block}
  BY <1>1, <1>2 DEF Ok, TabState
<1>4. \A b \in Blocks : MarkedOrMarking(b) => MarkedOrMarking(b)'
  BY <1>1, <1>3 DEF MarkedOrMarking
<1>. QED
  BY <1>1, <1>4 DEF OnceInv, Calm, world, relay

\* Whatever else a tab does, it forgets no mark and starts no dispatch but a click.
LEMMA TabKeepsOnce ==
  ASSUME Inv, OnceInv, NEW t \in Open,
         Hydrate(t) \/ Virtualize(t) \/ FailOpen(t) \/ Sync(t) \/ RepoFreeWake(t) \/ Click(t)
           \/ Rescue(t) \/ Arm(t) \/ Send(t) \/ Reload(t)
  PROVE  OnceInv'
<1>. SUFFICES ASSUME Calm PROVE OnceInv'
  BY DEF Hydrate, Virtualize, FailOpen, Sync, RepoFreeWake, Click, Rescue, Arm, Send, Reload, OnceInv, Calm
<1>0. tab \in [Tabs -> TabState] /\ t = Only /\ Only \in Tabs
  BY OnlyIsOpen DEF Inv, TypeInv
<1>1. ~ RepoFreeWake(t) /\ ~ Arm(t) /\ ~ Reload(t)
  BY DEF RepoFreeWake, Arm, Reload, OnceInv, Calm
<1>2. CASE Hydrate(t) \/ Virtualize(t) \/ FailOpen(t) \/ Sync(t) \/ Send(t)
  <2>1. tab'[Only].local = tab[Only].local
    BY <1>0, <1>2 DEF Hydrate, Virtualize, FailOpen, Sync, Send, NoteSend, TabState
  <2>2. UNCHANGED <<may, auto, armed, busy, waiting, calls>>
    BY <1>2 DEF Hydrate, Virtualize, FailOpen, Sync, Send, world, relay
  <2>. QED
    BY <2>1, <2>2, ClicksKeepOnce
<1>3. CASE Click(t) \/ Rescue(t)
  <2>1. UNCHANGED <<may, auto, armed, busy, waiting>>
    BY <1>3 DEF Click, Rescue, world, relay
  <2>2. tab'[Only].local = tab[Only].local
    BY <1>0, <1>3 DEF Click, Rescue, TabState
  <2>3. \E b : calls' = calls \cup {Running(t, b, "click")}
    BY <1>3 DEF Click, Rescue, Start
  <2>. QED
    BY <1>0, <2>1, <2>2, <2>3, ClicksKeepOnce DEF Running
<1>. QED
  BY <1>1, <1>2, <1>3

\* Every step keeps to it.
LEMMA StepOnce == Inv /\ OnceInv /\ [Next]_vars => OnceInv'
<1>. SUFFICES ASSUME Inv, OnceInv, [Next]_vars PROVE OnceInv'
  OBVIOUS
<1>1. ASSUME NEW t \in Open, NEW i \in Messages, Scan(t, i) PROVE OnceInv'
  BY <1>1, ScanKeepsOnce
<1>2. ASSUME NEW t \in Open,
             Hydrate(t) \/ Virtualize(t) \/ FailOpen(t) \/ Sync(t) \/ RepoFreeWake(t) \/ Click(t)
               \/ Rescue(t) \/ Arm(t) \/ Send(t) \/ Reload(t)
      PROVE  OnceInv'
  BY <1>2, TabKeepsOnce
<1>3. ASSUME NEW c \in calls, Post(c) \/ PostFails(c) \/ Answer(c) PROVE OnceInv'
  BY <1>3, PostKeepsOnce, AnswerKeepsOnce DEF PostFails, OnceInv, Calm
<1>4. CASE (\E k \in Buckets : ReadKeys(k) \/ LandKeys(k)) \/ RefreshEnds
  <2>1. UNCHANGED <<may, auto, armed, busy, waiting, calls, tab>>
    BY <1>4 DEF ReadKeys, LandKeys, RefreshEnds, world, relay
  <2>. QED
    BY <2>1, ClicksKeepOnce
<1>5. CASE Disarm \/ WindowCloses \/ Write \/ ToggleListening \/ ToggleRepo
  <2>1. /\ UNCHANGED <<may, auto, waiting, calls, tab>>
        /\ armed' = FALSE \/ armed' = armed
        /\ ~ Calm \/ busy' = busy
    BY <1>5 DEF Disarm, WindowCloses, Write, ToggleListening, ToggleRepo, world, relay, Calm
  <2>. QED
    BY <2>1, ClicksKeepOnce
<1>6. CASE RestartWorker
  BY <1>6 DEF RestartWorker, OnceInv, Calm
<1>7. CASE UNCHANGED vars
  BY <1>7 DEF vars, OnceInv, Calm, MarkedOrMarking
<1>. QED
  BY <1>1, <1>2, <1>3, <1>4, <1>5, <1>6, <1>7 DEF Next

\* content.js dispatchCcswBlock, isStableKeyDispatched: whatever is re-created,
\* clicked, paused or answered late, one page over a relay and a worker that
\* stay up, with no drops and no autopilot, never runs a block by itself a second
\* time.
THEOREM OneRunPerBlock == Spec => []RunsByItselfOnce
<1>1. Init => OnceInv
  BY DEF Init, OnceInv
<1>2. OnceInv => RunsByItselfOnce
  BY DEF OnceInv, Calm, RunsByItselfOnce
<1>. QED
  BY Invariance, StepOnce, <1>1, <1>2, PTL DEF Spec
=============================================================================
