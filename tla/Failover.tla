------------------------------ MODULE Failover ------------------------------
(* The extension's relays: an ordered list of deployments, of which one is  *)
(* in use. A relay that fails several requests in a row, or refuses the     *)
(* token, is left for the next usable one; a probe of the first one, the    *)
(* primary, brings the extension back. What else is bound to the relay      *)
(* (the header rules, the cached keys of dispatched blocks) follows.        *)
(*                                                                          *)
(* A request that is answered renews the cached keys if its client reads    *)
(* them, whole; the beacons, the board's cookie and the relay's address in  *)
(* the tabs are left out. The two rules are one, and a 404 is an answer.    *)
EXTENDS Integers, Sequences, FiniteSets, FiniteSetsExt

CONSTANTS
  Count,        \* how many relays are configured
  Threshold,    \* RELAY_FAILURE_THRESHOLD
  OksNeeded,    \* RELAY_PROBE_OKS_TO_SWITCH_BACK
  Clients,      \* requests that may be under way at once
  Readers,      \* those that read dispatched.php
  Probe,        \* the probe of the primary
  None,
  Profiles,     \* the tokens a behaviour may start with
  MaxEdits,     \* bound on the changes of the stored relays in a behaviour
  Settings      \* what may happen around it, in one behaviour or another

ASSUME CountAssumption ==
  Count \in Nat \ {0} /\ Threshold \in Nat \ {0} /\ OksNeeded \in Nat \ {0, 1} /\ MaxEdits \in Nat
ASSUME ClientsAssumption == Readers \subseteq Clients /\ Probe \notin Clients

VARIABLES
  may,       \* the disturbances of this behaviour, one of Settings
  server,    \* each relay, "up" or "down"
  tokens,    \* chrome.storage.local: ccswRelays, and ccswToken where it counts
  edits,     \* how often ccswRelays was written, up to MaxEdits
  stored,    \* chrome.storage.local: ccswActiveRelay
  worker,    \* the relays in the worker's memory
  call,      \* each request under way, and what it does around a switch
  register,  \* whether a start or a change of tokens has rules to register
  rule,      \* the declarativeNetRequest rules: their relay and its token
  bucket     \* durableDispatchedKeys: the relay they come from

vars == <<may, server, tokens, edits, stored, worker, call, register, rule, bucket>>

----------------------------------------------------------------------------
Relays == 1 .. Count
Primary == 1
Tokens == {"none", "bad", "good"}
Callers == Clients \cup {Probe}
ASSUME ProfilesAssumption == Profiles \subseteq [Relays -> Tokens]

Relay == [token : Tokens, failures : 0 .. Threshold, rejected : BOOLEAN]
Call == [at : {"idle", "sent", "resent", "moved", "ruled"}, list : 0 .. MaxEdits + 1, relay : Relays,
         next : {"none", "retry", "recheck", "throw"}]
Idle == [at |-> "idle", list |-> 0, relay |-> Primary, next |-> "none"]

\* A request holds the relay it was given, in the list that was loaded then.
Held(c) == worker.lists[call[c].list][call[c].relay]
Current == Len(worker.lists)
IsActive(w, l, r) == w.loaded /\ l = Len(w.lists) /\ r = w.active

Usable(relay) == relay.token # "none" /\ ~ relay.rejected

\* firstUsableRelayIndex, and 0 for -1
Places(start) == [k \in 0 .. Count - 1 |-> ((start - 1 + k) % Count) + 1]
FirstUsable(list, start) ==
  LET found == {k \in 0 .. Count - 1 : Usable(list[Places(start)[k]])} IN
  IF found = {} THEN 0 ELSE Places(start)[Min(found)]

----------------------------------------------------------------------------
(* ensureRelaysLoaded: storage is read, and only later made the list; a     *)
(* load under way serves everybody who asks meanwhile.                      *)
StartLoad ==
  /\ ~ worker.loaded /\ worker.loading = None
  /\ worker' = [worker EXCEPT !.loading = <<tokens, stored>>]
  /\ UNCHANGED <<may, server, tokens, edits, stored, call, register, rule, bucket>>

(* The stored relay stays in use if it is usable.                           *)
LoadedIndex(list, index) ==
  IF Usable(list[index]) THEN index
  ELSE IF FirstUsable(list, Primary) = 0 THEN Primary ELSE FirstUsable(list, Primary)

FinishLoad ==
  LET list == [r \in Relays |-> [token |-> worker.loading[1][r], failures |-> 0, rejected |-> FALSE]] IN
  /\ worker.loading # None
  /\ worker' = [worker EXCEPT !.lists = Append(@, list), !.loaded = TRUE, !.loading = None,
                              !.active = LoadedIndex(list, worker.loading[2])]
  /\ UNCHANGED <<may, server, tokens, edits, stored, call, register, rule, bucket>>

----------------------------------------------------------------------------
\* Mutant: the relay that is left keeps its place when it is the last one usable.
SwitchToNext(w, l, r) ==
  IF ~ IsActive(w, l, r) THEN w
  ELSE [w EXCEPT !.active = (r % Count) + 1, !.oks = 0]

(* switchAwayFrom a relay, if it is still the active one and another one is *)
(* usable.                                                                  *)
SwitchAway(w, l, r) ==
  LET next == FirstUsable(w.lists[l], (r % Count) + 1) IN
  CASE ~ IsActive(w, l, r) -> w
    [] IsActive(w, l, r) /\ next \in {0, r} -> [w EXCEPT !.lists[l][r].failures = 0]
    [] OTHER -> [w EXCEPT !.active = next, !.oks = 0,
                          !.lists[l][r].failures = 0, !.lists[l][next].failures = 0]

Moved(w) == w.loaded /\ w.active # worker.active

\* The second attempt, on the relay in use now; a list that is being loaded fails it.
Resent(w) ==
  IF w.loaded THEN [at |-> "resent", list |-> Len(w.lists), relay |-> w.active, next |-> "none"] ELSE Idle

(* What becomes of a request whose relay is left: whoever moved the         *)
(* extension does the housekeeping first (onActiveRelayChanged).            *)
Goes(c, w, next) ==
  CASE Moved(w) -> [call[c] EXCEPT !.at = "moved", !.next = next]
    [] ~ Moved(w) /\ (next = "throw" \/ IsActive(w, call[c].list, call[c].relay)) -> Idle
    [] OTHER -> Resent(w)

\* The new index is persisted as the extension moves.
Leave(c, w, next) ==
  /\ worker' = w
  /\ call' = [call EXCEPT ![c] = Goes(c, w, next)]
  /\ stored' = IF Moved(w) THEN w.active ELSE stored
  /\ UNCHANGED <<may, server, tokens, edits, register, rule, bucket>>

----------------------------------------------------------------------------
(* ccswFetch: a request goes to the relay in use.                           *)
Start(c) ==
  /\ call[c] = Idle /\ worker.loaded
  /\ call' = [call EXCEPT ![c] = [at |-> "sent", list |-> Current, relay |-> worker.active, next |-> "none"]]
  /\ UNCHANGED <<may, server, tokens, edits, stored, worker, register, rule, bucket>>

UnderWay(c) == call[c].at \in {"sent", "resent"}
Up(c) == server[call[c].relay] = "up"
Succeeded(c) == [worker EXCEPT !.lists[call[c].list][call[c].relay].failures = 0]
Rejected(c) == [worker EXCEPT !.lists[call[c].list][call[c].relay].rejected = TRUE]

\* relaySend, recordRelaySuccess
Answered(c) ==
  /\ UnderWay(c) /\ Up(c) /\ Held(c).token = "good"
  /\ worker' = Succeeded(c)
  /\ call' = [call EXCEPT ![c] = Idle]
  /\ bucket' = IF c \in Readers THEN call[c].relay ELSE bucket
  /\ UNCHANGED <<may, server, tokens, edits, stored, register, rule>>

\* Strikes in a row; beyond the threshold they need no counting.
Strikes(relay) == Min({relay.failures + 1, Threshold})

(* No answer in time, or a 5xx (handleRelayFailure): a strike, unless the   *)
(* token was refused meanwhile; a second attempt is not booked.             *)
Failed(c) ==
  LET w == [worker EXCEPT !.lists[call[c].list][call[c].relay].failures = Strikes(Held(c))]
      out == Strikes(Held(c)) = Threshold IN
  /\ UnderWay(c) /\ ~ Up(c)
  /\ CASE call[c].at = "resent" -> Leave(c, worker, "throw")
       [] call[c].at = "sent" /\ Held(c).rejected -> Leave(c, worker, "recheck")
       [] call[c].at = "sent" /\ ~ Held(c).rejected /\ out ->
            Leave(c, SwitchAway(w, call[c].list, call[c].relay), "retry")
       [] OTHER -> Leave(c, w, "throw")

(* 401 (markRelayTokenRejected): the relay is out of the rotation.          *)
Refused(c) ==
  /\ UnderWay(c) /\ Up(c) /\ Held(c).token # "good"
  /\ Leave(c, IF Held(c).rejected THEN worker ELSE SwitchAway(Rejected(c), call[c].list, call[c].relay),
           IF call[c].at = "resent" THEN "throw" ELSE "recheck")

----------------------------------------------------------------------------
(* onActiveRelayChanged, by whoever moved the extension: the rules, for     *)
(* whichever relay is in use by then; then the caches are dropped, and a    *)
(* request is tried again.                                                  *)
ActiveRule == [relay |-> worker.active, token |-> worker.lists[Current][worker.active].token]

SetRules(c) ==
  /\ call[c].at = "moved" /\ worker.loaded
  /\ rule' = ActiveRule
  /\ call' = [call EXCEPT ![c].at = "ruled"]
  /\ UNCHANGED <<may, server, tokens, edits, stored, worker, register, bucket>>

DropCaches(c) ==
  LET again == \/ call[c].next = "retry"
               \/ call[c].next = "recheck" /\ ~ IsActive(worker, call[c].list, call[c].relay) IN
  /\ call[c].at = "ruled"
  /\ bucket' = None
  /\ call' = [call EXCEPT ![c] = IF again THEN Resent(worker) ELSE Idle]
  /\ UNCHANGED <<may, server, tokens, edits, stored, worker, register, rule>>

----------------------------------------------------------------------------
(* probePrimaryRelay.                                                       *)
ProbeStart ==
  /\ call[Probe] = Idle /\ worker.loaded
  /\ IF worker.active = Primary
     THEN worker' = [worker EXCEPT !.oks = 0] /\ UNCHANGED call
     ELSE /\ Usable(worker.lists[Current][Primary])
          /\ call' = [call EXCEPT ![Probe] = [at |-> "sent", list |-> Current, relay |-> Primary, next |-> "none"]]
          /\ UNCHANGED worker
  /\ UNCHANGED <<may, server, tokens, edits, stored, register, rule, bucket>>

\* Mutant: the extension goes back but leaves its rules behind.
ProbeOkBare ==
  /\ UnderWay(Probe) /\ Up(Probe) /\ Held(Probe).token = "good"
  /\ worker' = [Succeeded(Probe) EXCEPT !.active = Primary, !.oks = 0]
  /\ stored' = Primary
  /\ call' = [call EXCEPT ![Probe] = Idle]
  /\ UNCHANGED <<may, server, tokens, edits, register, rule, bucket>>

ProbeOk ==
  /\ UnderWay(Probe) /\ Up(Probe) /\ Held(Probe).token = "good"
  /\ CASE worker.oks + 1 < OksNeeded ->
            /\ worker' = [Succeeded(Probe) EXCEPT !.oks = @ + 1]
            /\ call' = [call EXCEPT ![Probe] = Idle] /\ UNCHANGED stored
       [] worker.oks + 1 >= OksNeeded /\ ~ worker.loaded ->
            /\ worker' = [Succeeded(Probe) EXCEPT !.oks = 0]
            /\ call' = [call EXCEPT ![Probe] = Idle] /\ UNCHANGED stored
       [] OTHER ->
            /\ worker' = [Succeeded(Probe) EXCEPT !.active = Primary, !.oks = 0]
            /\ stored' = Primary
            /\ call' = [call EXCEPT ![Probe].at = "moved", ![Probe].next = "throw"]
  /\ UNCHANGED <<may, server, tokens, edits, register, rule, bucket>>

ProbeFailed ==
  /\ UnderWay(Probe) /\ ~ (Up(Probe) /\ Held(Probe).token = "good")
  /\ LET w == IF Up(Probe) /\ ~ Held(Probe).rejected
              THEN SwitchAway(Rejected(Probe), call[Probe].list, Primary) ELSE worker IN
     Leave(Probe, [w EXCEPT !.oks = 0], "throw")

----------------------------------------------------------------------------
\* Mutant: the list in memory is kept.
ReloadNothing ==
  /\ edits < MaxEdits /\ edits' = edits + 1
  /\ register' = TRUE
  /\ UNCHANGED <<may, server, stored, worker, call, rule, bucket>>

(* storage.onChanged: the list is dropped and loaded again, by the load     *)
(* under way if there is one, with what that has read already.              *)
Reload ==
  /\ edits < MaxEdits /\ edits' = edits + 1
  /\ worker' = [worker EXCEPT !.loaded = FALSE, !.oks = 0,
                              !.loading = IF @ = None THEN <<tokens', stored>> ELSE @]
  /\ register' = TRUE
  /\ UNCHANGED <<may, server, stored, call, rule, bucket>>

(* The user fills in, changes or removes a token: between two loads, or     *)
(* under "race" within one, which has read the old tokens.                  *)
Edit(r) ==
  /\ "edit" \in may /\ ("race" \in may <=> worker.loading # None)
  /\ \E t \in Tokens \ {tokens[r]} : tokens' = [tokens EXCEPT ![r] = t]
  /\ Reload

(* The first load writes the list it made up from the defaults, and is told *)
(* of that as of any change, before it ends or soon after.                  *)
Migrate ==
  /\ "first" \in may /\ edits = 0
  /\ worker.loaded \/ worker.loading # None
  /\ UNCHANGED tokens
  /\ Reload

Register ==
  /\ register /\ worker.loaded
  /\ rule' = ActiveRule
  /\ register' = FALSE
  /\ UNCHANGED <<may, server, tokens, edits, stored, worker, call, bucket>>

Flap(r) ==
  /\ "flap" \in may
  /\ server' = [server EXCEPT ![r] = IF @ = "up" THEN "down" ELSE "up"]
  /\ UNCHANGED <<may, tokens, edits, stored, worker, call, register, rule, bucket>>

NoRelays == [lists |-> <<>>, loaded |-> FALSE, loading |-> None, active |-> Primary, oks |-> 0]

\* The worker is stopped and started, which has the rules registered again.
RestartWorker ==
  /\ "restart" \in may
  /\ worker' = NoRelays
  /\ call' = [c \in Callers |-> Idle]
  /\ register' = TRUE
  /\ bucket' = None
  /\ UNCHANGED <<may, server, tokens, edits, stored, rule>>

----------------------------------------------------------------------------
Init ==
  /\ may \in Settings
  /\ server \in [Relays -> {"up", "down"}]
  /\ tokens \in Profiles
  /\ stored = Primary /\ edits = 0
  /\ worker = NoRelays
  /\ call = [c \in Callers |-> Idle]
  /\ register = TRUE /\ rule = None
  /\ bucket = None

Next ==
  \/ StartLoad \/ FinishLoad \/ Register
  \/ \E c \in Clients : Start(c) \/ Answered(c) \/ Failed(c) \/ Refused(c)
  \/ \E c \in Callers : SetRules(c) \/ DropCaches(c)
  \/ ProbeStart \/ ProbeOk \/ ProbeFailed
  \/ \E r \in Relays : Edit(r) \/ Flap(r)
  \/ Migrate \/ RestartWorker

Spec == Init /\ [][Next]_vars

(* Timers poll and probe, requests end (RELAY_TIMEOUT_MS).                  *)
FairSpec ==
  /\ Spec
  /\ WF_vars(StartLoad \/ FinishLoad) /\ WF_vars(Register)
  /\ \A c \in Clients :
       WF_vars(Start(c) \/ Answered(c) \/ Failed(c) \/ Refused(c) \/ SetRules(c) \/ DropCaches(c))
  /\ WF_vars(ProbeStart \/ ProbeOk \/ ProbeFailed \/ SetRules(Probe) \/ DropCaches(Probe))

----------------------------------------------------------------------------
\* The variables have their types.
TypeOK ==
  /\ may \in Settings
  /\ server \in [Relays -> {"up", "down"}]
  /\ tokens \in [Relays -> Tokens] /\ stored \in Relays /\ edits \in 0 .. MaxEdits
  /\ Len(worker.lists) <= MaxEdits + 1 /\ \A l \in DOMAIN worker.lists : worker.lists[l] \in [Relays -> Relay]
  /\ worker.loaded \in BOOLEAN /\ worker.active \in Relays /\ worker.oks \in 0 .. OksNeeded - 1
  /\ call \in [Callers -> Call]
  /\ register \in BOOLEAN
  /\ rule = None \/ rule \in [relay : Relays, token : Tokens]
  /\ bucket \in Relays \cup {None}

(* The relay in use has a token and has not refused it, if there is such a  *)
(* relay, whatever answers cross and tokens change (switchAwayFrom,         *)
(* markRelayTokenRejected, probePrimaryRelay, ensureRelaysLoaded): a probe  *)
(* that was sent with a token since removed counts once, and not enough.    *)
ActiveIsUsable ==
  worker.loaded /\ (\E r \in Relays : Usable(worker.lists[Current][r]))
    => Usable(worker.lists[Current][worker.active])

(* When nobody has housekeeping left to do, the rules are for the relay in  *)
(* use and carry its token, in whatever order switches, changes of tokens   *)
(* and restarts went (onActiveRelayChanged, registerRelayRules).            *)
RulesFollowActive ==
  worker.loaded /\ ~ register /\ (\A c \in Callers : call[c].at # "moved") => rule = ActiveRule

(* Once the relays stay as they are, the extension comes to use one that    *)
(* takes the token stored for it, if there is one, the primary if it does,  *)
(* and its cached keys come to be that relay's (ccswFetch,                  *)
(* handleRelayFailure, probePrimaryRelay, storage.onChanged,                *)
(* fetchDispatchedKeysForThread). A change that lands within a load is not  *)
(* read: there, the tokens are the loaded ones.                             *)
Token(r) == IF "race" \in may THEN worker.lists[Current][r].token ELSE tokens[r]
Serves(r) == server[r] = "up" /\ Token(r) = "good"
Recovers ==
  <>[][~ RestartWorker /\ \A r \in Relays : ~ Edit(r) /\ ~ Flap(r)]_vars
  => <>[](worker.loaded /\ ((\E r \in Relays : Serves(r)) =>
            Serves(worker.active) /\ bucket = worker.active /\ (Serves(Primary) => worker.active = Primary)))
=============================================================================
