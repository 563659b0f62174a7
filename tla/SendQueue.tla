----------------------------- MODULE SendQueue -----------------------------
(* The send state machine of background.js for one tab: deliveries queue up *)
(* and the head of the queue is held until the composer is free, typed into *)
(* it, submitted and verified. Every look at the page is a script run in    *)
(* the tab (chrome.scripting.executeScript): it acts on the page at once    *)
(* and its reply is handled later, in the order the scripts were issued.    *)
(*                                                                          *)
(* A text is the set of the deliveries and of the user's words it is made   *)
(* of, and its hash is that set. Waits that only delay (backoff, settle     *)
(* time, the ticks within a timeout that find nothing new) are left out: a  *)
(* check stands for the last of its window. The experimental concurrent     *)
(* send is off, as by default; the resend of the user's own message with    *)
(* results bundled into it is left out.                                     *)
EXTENDS Integers, Sequences

CONSTANTS
  Keys,            \* deliveries to the tab, named by their queue key
  Words,           \* what the user types
  NoKey,           \* no delivery
  MaxAttempts,     \* SEND_MAX_ATTEMPTS
  MaxContextLost,  \* SEND_MAX_CONTEXT_LOST_RETRIES
  MaxReclaims,     \* SEND_MAX_RECLAIM_RETRIES
  HoldCap,         \* SEND_HOLD_TIMEOUT_MS, in checks
  LandedCap,       \* landings counted per part (a bound of the model)
  Settings         \* what may happen around it, in one behaviour or another

ASSUME KeysAssumption == Keys \cap Words = {} /\ NoKey \notin Keys
ASSUME LimitsAssumption ==
  /\ MaxAttempts \in Nat \ {0}
  /\ MaxContextLost \in Nat
  /\ MaxReclaims \in Nat
  /\ HoldCap \in Nat \ {0}
  /\ LandedCap \in Nat \ {0}

VARIABLES
  may,        \* the disturbances of this behaviour, one of Settings
  composer,   \* text in the page's input
  mounted,    \* the page shows an input
  marker,     \* window.__ccswSendMarker
  markHash,   \* window.__ccswSendMarkerHash, {} for none
  typed,      \* __ccswLastKeystrokeAt > __ccswSendMarkerAt
  recent,     \* a keystroke within SEND_TYPING_HOLD_MS
  open,       \* the tab exists
  queue,      \* keys of pendingSends, in insertion order
  entry,      \* the entry of each key, kept while a step of it is in flight
  last,       \* lastInjectedByTab
  fetching,   \* keys that await the status footer of their text
  calls,      \* scripts that ran and whose replies are not handled yet
  outcome,    \* how a key's last delivery ended
  landed,     \* how often a part of a text was submitted to Claude
  delivered   \* the delivered ledger

page == <<composer, mounted, marker, markHash, typed, recent>>
worker == <<queue, entry, last, outcome, delivered>>
vars == <<may, page, open, worker, fetching, calls, landed>>

----------------------------------------------------------------------------
Texts == SUBSET (Keys \cup Words)
Phases == {"none", "hold", "insert", "find", "await"}
Scripts == {"gate", "reclaim", "insert", "recheck", "click", "enter", "fallback", "check",
            "last check", "guard reclaim", "last reclaim", "sentinel", "heal"}
Statuses == {"user", "system", "free", "no input", "user text", "ok", "not ready",
             "blocked user", "blocked ours", "dispatched", "context lost", "cleared",
             "full", "refused", "stranded", "fine", "error"}
Outcomes == {"none", "sent", "failed", "hold-timeout", "tab-gone", "no-input",
             "user-text-guard"}
NoEntry == [phase |-> "none", attempt |-> 0, fallback |-> FALSE,
            recheck |-> FALSE, escalated |-> FALSE, lost |-> 0,
            reclaims |-> 0, held |-> 0, text |-> {}, batch |-> {}]
NoLast == [key |-> NoKey, hash |-> {}]

\* Entries of one tab that have a step in flight (entry.busy). The stranded
\* sentinel's scripts belong to no entry.
SentinelCalls == {"sentinel", "heal"}
Busy(k) ==
  \/ k \in fetching
  \/ \E i \in 1..Len(calls) : calls[i].who = k /\ calls[i].call \notin SentinelCalls

Queued(k) == \E i \in 1..Len(queue) : queue[i] = k
IsHead(k) == queue # <<>> /\ Head(queue) = k

\* A queue after pendingSends.delete of some keys.
Without(q, gone) ==
  LET kept[n \in 0..Len(q)] ==
        IF n = 0 THEN <<>>
        ELSE IF q[n] \in gone THEN kept[n - 1] ELSE Append(kept[n - 1], q[n])
  IN  kept[Len(q)]

\* The page's text as a script reads it: a missing input reads as empty.
Shown == IF mounted THEN composer ELSE {}

\* A text that is still the last one typed into this tab.
StillOurs(text) == text # {} /\ text = last.hash

----------------------------------------------------------------------------
(* The page. Claude's page takes a submitted text or ignores the event.     *)

Landing(text) == [x \in Keys \cup Words |-> IF x \in text /\ landed[x] < LandedCap
                                             THEN landed[x] + 1 ELSE landed[x]]

Submit == mounted /\ composer' = {} /\ landed' = Landing(composer)
SubmitOrNot == Submit \/ UNCHANGED <<composer, landed>>

----------------------------------------------------------------------------
(* Scripts. `pending` are the replies not handled yet.                      *)

Reply(pending, k, call, status, text) ==
  calls' = Append(pending, [who |-> k, call |-> call, status |-> status, text |-> text])

\* ccswInjProbeDelivery reads. Whether Claude is generating, the send button
\* is missing or a probe is stale is the page's: it holds when `system`.
RunProbe(pending, k, call) ==
  /\ \E system \in BOOLEAN :
       Reply(pending, k, call,
             IF Shown # {} \/ recent THEN "user"
             ELSE IF system \/ ~mounted THEN "system" ELSE "free", Shown)
  /\ UNCHANGED <<page, landed>>

\* ccswInjInsertText types over an empty composer or over our own text.
RunInsert(pending, k, text) ==
  \/ /\ ~mounted
     /\ Reply(pending, k, "insert", "no input", {})
     /\ UNCHANGED <<page, landed>>
  \/ /\ mounted /\ composer \notin {{}, markHash, last.hash}
     /\ Reply(pending, k, "insert", "user text", {})
     /\ UNCHANGED <<page, landed>>
  \/ /\ mounted /\ composer \in {{}, markHash, last.hash}
     /\ composer' = text /\ marker' = k /\ markHash' = text /\ typed' = FALSE
     /\ Reply(pending, k, "insert", "ok", text)
     /\ UNCHANGED <<mounted, recent, landed>>

\* The guard of both submitting scripts, and the submission.
RunSubmit(pending, k, call) ==
  \/ /\ typed \/ Shown # markHash
     /\ Reply(pending, k, call, IF Shown = markHash THEN "blocked ours" ELSE "blocked user", {})
     /\ UNCHANGED <<page, landed>>
  \/ /\ ~typed /\ Shown = markHash
     /\ Reply(pending, k, call, "dispatched", {})
     /\ SubmitOrNot
     /\ UNCHANGED <<mounted, marker, markHash, typed, recent>>

ContextLost(pending, k, call) ==
  /\ marker # k
  /\ Reply(pending, k, call, "context lost", {})
  /\ UNCHANGED <<page, landed>>

\* ccswInjTryClickSend. The button is disabled while the composer is empty,
\* and may be disabled or missing whatever the composer holds.
RunClick(pending, k) ==
  \/ ContextLost(pending, k, "click")
  \/ /\ marker = k
     /\ Reply(pending, k, "click", "not ready", {})
     /\ UNCHANGED <<page, landed>>
  \/ marker = k /\ (mounted => composer # {}) /\ RunSubmit(pending, k, "click")

\* ccswInjTryEnterSend
RunEnter(pending, k, call) ==
  \/ ContextLost(pending, k, call)
  \/ /\ marker = k /\ ~mounted
     /\ Reply(pending, k, call, "no input", {})
     /\ UNCHANGED <<page, landed>>
  \/ marker = k /\ mounted /\ RunSubmit(pending, k, call)

\* Mutant: an empty input counts as cleared in whatever document it is.
CheckAnyDocument(pending, k, call) ==
  /\ Reply(pending, k, call, IF Shown = {} THEN "cleared" ELSE "full", {})
  /\ UNCHANGED <<page, landed>>

\* ccswInjCheckCleared: a missing input counts as cleared.
RunCheck(pending, k, call) ==
  \/ ContextLost(pending, k, call)
  \/ /\ marker = k
     /\ Reply(pending, k, call, IF Shown = {} THEN "cleared" ELSE "full", {})
     /\ UNCHANGED <<page, landed>>

\* Mutant: the wipe trusts the look its caller had at the composer.
ClearUnchecked(pending, k, call, expected) ==
  /\ composer' = IF mounted THEN {} ELSE composer
  /\ Reply(pending, k, call, "cleared", expected)
  /\ UNCHANGED <<mounted, marker, markHash, typed, recent, landed>>

\* ccswInjClearComposer wipes the text it is told to expect, and no other.
RunClear(pending, k, call, expected) ==
  \/ /\ Shown # {} /\ Shown # expected
     /\ Reply(pending, k, call, "refused", expected)
     /\ UNCHANGED <<page, landed>>
  \/ /\ Shown = {} \/ Shown = expected
     /\ composer' = IF mounted THEN {} ELSE composer
     /\ Reply(pending, k, call, "cleared", expected)
     /\ UNCHANGED <<mounted, marker, markHash, typed, recent, landed>>

----------------------------------------------------------------------------
(* Ends. An entry object outlives its place in the queue only while one of  *)
(* its own steps is in flight.                                              *)

\* finishSend for each of `done`, while a reply to `self` is handled.
FinishSends(done, self, result) ==
  /\ queue' = Without(queue, done)
  /\ entry' = [k \in Keys |->
                 IF k = self \/ (k \in done /\ ~Busy(k)) THEN NoEntry ELSE entry[k]]
  /\ outcome' = [k \in Keys |-> IF k \in done THEN result ELSE outcome[k]]
  /\ delivered' = IF result = "sent" THEN delivered \cup done ELSE delivered

FinishSend(k, result) == FinishSends({k}, k, result)

\* Mutant: only the head of a batch is finished.
FinishHeadOnly(k) == FinishSends({k}, k, "sent")

\* finishBatchedSend: members that are still queued share the head's fate.
FinishBatchedSend(k) ==
  FinishSends({k} \cup {m \in entry[k].batch : Queued(m)}, k, "sent")

SetEntry(k, e) ==
  /\ entry' = [entry EXCEPT ![k] = e]
  /\ UNCHANGED <<queue, outcome, delivered>>
KeepEntry(k) == SetEntry(k, entry[k])

----------------------------------------------------------------------------
(* The queue                                                                *)

FreshEntry(text) == [NoEntry EXCEPT !.phase = "hold", !.text = text]

Enqueue(k, text) ==
  /\ queue' = Append(queue, k)
  /\ entry' = [entry EXCEPT ![k] = FreshEntry(text)]
  /\ UNCHANGED <<outcome, delivered>>

\* queueSend refuses a key that is queued, and one that was delivered unless
\* the user asks for it. (A key is queued again once its last step is over.)
QueueSend(k) ==
  /\ ~Queued(k) /\ ~Busy(k)
  /\ k \in delivered => "redeliver" \in may
  /\ Enqueue(k, {k})
  /\ UNCHANGED <<may, page, open, last, fetching, calls, landed>>

\* forceFlushKey; the step it asks for is an Advance.
ForceFlush(k) ==
  /\ "flush" \in may
  /\ Queued(k) /\ ~IsHead(k)
  /\ queue' = <<k>> \o Without(queue, {k})
  /\ UNCHANGED <<may, page, open, entry, last, fetching, calls, outcome, landed, delivered>>

----------------------------------------------------------------------------
(* advanceSend: one step of the head, which starts with a script            *)

Advance(k) ==
  /\ IsHead(k) /\ ~Busy(k) /\ open
  /\ entry[k].phase # "insert"
  /\ UNCHANGED <<may, open, queue, last, fetching, outcome, delivered>>
  /\ \/ entry[k].phase = "hold" /\ RunProbe(calls, k, "gate") /\ UNCHANGED entry
     \/ /\ entry[k].phase = "find" /\ entry[k].recheck
        /\ RunProbe(calls, k, "recheck")
        /\ entry' = [entry EXCEPT ![k].recheck = FALSE]
     \/ /\ entry[k].phase = "find" /\ ~entry[k].recheck /\ entry[k].escalated
        /\ RunEnter(calls, k, "enter") /\ UNCHANGED entry
     \/ /\ entry[k].phase = "find" /\ ~entry[k].recheck /\ ~entry[k].escalated
        /\ RunClick(calls, k) /\ UNCHANGED entry
     \/ entry[k].phase = "await" /\ RunCheck(calls, k, "check") /\ UNCHANGED entry

\* The insert phase first fetches the status footer from the content script.
FetchFooter(k) ==
  /\ IsHead(k) /\ ~Busy(k) /\ open
  /\ entry[k].phase = "insert"
  /\ fetching' = fetching \cup {k}
  /\ UNCHANGED <<may, page, open, worker, calls, landed>>

\* It inserts then, whether or not it is still the head of the queue.
Insert(k) ==
  /\ k \in fetching
  /\ fetching' = fetching \ {k}
  /\ RunInsert(calls, k, entry[k].text \cup entry[k].batch)
  /\ UNCHANGED <<may, open, worker>>

\* advanceSend finds that its tab is gone.
TabGone(k) ==
  /\ IsHead(k) /\ ~Busy(k) /\ ~open
  /\ FinishSend(k, "tab-gone")
  /\ UNCHANGED <<may, page, open, last, fetching, calls, landed>>

----------------------------------------------------------------------------
(* Replies. `rest` are the replies behind the one at hand.                  *)

rest == Tail(calls)
Handles(k, call) ==
  /\ calls # <<>> /\ Head(calls).who = k /\ Head(calls).call = call
  /\ UNCHANGED <<may, open, fetching>>
Status == Head(calls).status
Handled == calls' = rest /\ UNCHANGED <<page, landed>>

\* enterInsertPhase and composeBatchForHead: those of the others on hold that
\* fit ride along.
EnterInsertPhase(k, e) ==
  \E fit \in SUBSET {m \in Keys \ {k} : Queued(m) /\ entry[m].phase = "hold"} :
    SetEntry(k, [e EXCEPT !.phase = "insert", !.batch = fit])

\* advanceHoldPhase, held: only a hold that is not the user's runs the cap down,
\* and at the cap it is given up (generation is live) or let go all the same.
HoldOn(k) ==
  \/ Status = "user" /\ SetEntry(k, [entry[k] EXCEPT !.held = 0])
  \/ /\ Status = "system" /\ entry[k].held < HoldCap
     /\ SetEntry(k, [entry[k] EXCEPT !.held = @ + 1])
  \/ /\ Status = "system" /\ entry[k].held >= HoldCap
     /\ FinishSend(k, "hold-timeout") \/ EnterInsertPhase(k, entry[k])

\* advanceHoldPhase, not held any more: the settle wait of a user who has just
\* typed is part of `recent`, so of a "user" reply.
HoldCleared(k) ==
  Status = "free" /\ EnterInsertPhase(k, [entry[k] EXCEPT !.held = 0])

\* advanceHoldPhase
GateReply(k) ==
  /\ Handles(k, "gate") /\ Status # "error"
  /\ UNCHANGED last
  /\ \/ /\ StillOurs(Head(calls).text)
        /\ RunClear(rest, k, "reclaim", last.hash)
        /\ UNCHANGED <<queue, entry, outcome, delivered>>
     \/ /\ ~StillOurs(Head(calls).text) /\ Handled
        /\ HoldOn(k) \/ HoldCleared(k)

\* reclaimStrandedComposer forgets the text whatever came of the wipe.
ReclaimReply(k) ==
  /\ Handles(k, "reclaim") /\ Handled
  /\ last' = NoLast
  /\ KeepEntry(k)

\* Mutant: what was typed into the tab is not remembered.
InsertReplyForgets(k) ==
  /\ Handles(k, "insert") /\ Status = "ok" /\ Handled
  /\ UNCHANGED last
  /\ SetEntry(k, [entry[k] EXCEPT !.phase = "find", !.attempt = 1])

\* advanceInsertPhase
InsertReply(k) ==
  /\ Handles(k, "insert") /\ Status # "error" /\ Handled
  /\ \/ /\ Status = "ok"
        /\ last' = [key |-> k, hash |-> Head(calls).text]
        /\ SetEntry(k, [entry[k] EXCEPT !.phase = "find", !.attempt = 1,
                          !.fallback = FALSE, !.recheck = FALSE, !.escalated = FALSE])
     \/ /\ Status = "user text"
        /\ UNCHANGED last
        /\ SetEntry(k, [entry[k] EXCEPT !.phase = "hold", !.batch = {}])
     \/ Status = "no input" /\ UNCHANGED last /\ FinishSend(k, "no-input")

\* restartAfterContextLoss
RestartAfterContextLoss(k) ==
  \/ entry[k].lost >= MaxContextLost /\ FinishSend(k, "failed")
  \/ /\ entry[k].lost < MaxContextLost
     /\ SetEntry(k, [entry[k] EXCEPT !.phase = "insert", !.lost = @ + 1, !.fallback = FALSE,
                       !.recheck = FALSE, !.escalated = FALSE])

\* Mutant: reclaims are not counted.
StartReclaimUncounted(k, call) == KeepEntry(k) /\ RunClear(rest, k, call, last.hash)

\* handleUserTextGuard and handleSendExhausted count a reclaim and wipe.
StartReclaim(k, call) ==
  /\ SetEntry(k, [entry[k] EXCEPT !.reclaims = @ + 1])
  /\ RunClear(rest, k, call, last.hash)

\* The attempt is over: the next one, after a backoff, or the last check.
NextAttempt(k) ==
  \/ /\ entry[k].attempt < MaxAttempts
     /\ SetEntry(k, [entry[k] EXCEPT !.phase = "find", !.attempt = @ + 1, !.fallback = FALSE])
     /\ Handled
  \/ /\ entry[k].attempt >= MaxAttempts
     /\ RunCheck(rest, k, "last check")
     /\ KeepEntry(k)

\* What a reply of either submitting script leads to; a click is verified
\* before the next one (awaitingClickClearCheck).
SubmitReply(k, e) ==
  \/ Status = "context lost" /\ RestartAfterContextLoss(k) /\ Handled
  \/ Status = "blocked user" /\ FinishSend(k, "user-text-guard") /\ Handled
  \/ Status = "blocked ours" /\ StartReclaim(k, "guard reclaim")
  \/ Status = "dispatched" /\ SetEntry(k, [e EXCEPT !.phase = "await"]) /\ Handled

RecheckReply(k) ==
  /\ Handles(k, "recheck")
  /\ UNCHANGED last
  /\ LET stuck == Status # "error" /\ StillOurs(Head(calls).text) IN
     /\ SetEntry(k, [entry[k] EXCEPT !.escalated = stuck])
     /\ IF stuck THEN RunEnter(rest, k, "enter") ELSE RunClick(rest, k)

ClickReply(k) ==
  /\ Handles(k, "click") /\ Status # "error"
  /\ UNCHANGED last
  /\ \/ SubmitReply(k, [entry[k] EXCEPT !.recheck = TRUE])
     \/ /\ Status = "not ready" /\ ~entry[k].fallback
        /\ SetEntry(k, [entry[k] EXCEPT !.fallback = TRUE])
        /\ RunEnter(rest, k, "fallback")
     \/ Status = "not ready" /\ entry[k].fallback /\ NextAttempt(k)

EnterReply(k) ==
  /\ Handles(k, "enter") \/ Handles(k, "fallback")
  /\ Status # "error"
  /\ UNCHANGED last
  /\ SubmitReply(k, entry[k]) \/ (Status = "no input" /\ NextAttempt(k))

CheckReply(k) ==
  /\ Handles(k, "check") /\ Status # "error"
  /\ UNCHANGED last
  /\ \/ Status = "context lost" /\ RestartAfterContextLoss(k) /\ Handled
     \/ Status = "cleared" /\ FinishBatchedSend(k) /\ Handled
     \/ Status = "full" /\ NextAttempt(k)

\* handleSendExhausted
LastCheckReply(k) ==
  /\ Handles(k, "last check")
  /\ UNCHANGED last
  /\ \/ Status = "cleared" /\ FinishBatchedSend(k) /\ Handled
     \/ Status # "cleared" /\ StartReclaim(k, "last reclaim")

BackToHold(k) ==
  SetEntry(k, [entry[k] EXCEPT !.phase = "hold", !.attempt = 0, !.fallback = FALSE,
                 !.recheck = FALSE, !.escalated = FALSE, !.lost = 0, !.batch = {}])

CountedReclaimReply(k) ==
  /\ \/ Handles(k, "guard reclaim")
     \/ Handles(k, "last reclaim")
  /\ Handled
  /\ last' = NoLast
  /\ \/ Status = "refused" /\ FinishSend(k, "user-text-guard")
     \/ /\ Status # "refused" /\ entry[k].reclaims > MaxReclaims
        /\ FinishSend(k, IF Head(calls).call = "last reclaim" THEN "failed"
                         ELSE "user-text-guard")
     \/ Status # "refused" /\ entry[k].reclaims <= MaxReclaims /\ BackToHold(k)

\* Any other script that failed: the step is tried again on the next tick.
StepFailed(k) ==
  /\ \E call \in {"gate", "insert", "click", "enter", "fallback", "check"} : Handles(k, call)
  /\ Status = "error" /\ Handled
  /\ UNCHANGED last
  /\ KeepEntry(k)

----------------------------------------------------------------------------
(* runStrandedSentinelSweep, for a tab with nothing queued                  *)

SentinelSweep ==
  /\ queue = <<>> /\ open /\ last # NoLast
  /\ ~ \E i \in 1..Len(calls) : calls[i].call \in SentinelCalls
  /\ Reply(calls, last.key, "sentinel", IF StillOurs(Shown) THEN "stranded" ELSE "fine", last.hash)
  /\ UNCHANGED <<may, page, open, worker, fetching, landed>>

\* It wipes what it found, unless it did so a short while ago.
SentinelReply(k) ==
  /\ Handles(k, "sentinel")
  /\ UNCHANGED worker
  /\ \/ Handled
     \/ Status = "stranded" /\ RunClear(rest, k, "heal", Head(calls).text)

\* What was wiped is queued again, as one text under the key it was typed for.
HealReply(k) ==
  /\ Handles(k, "heal") /\ Handled
  /\ last' = NoLast
  /\ \/ /\ Status # "refused" /\ ~Queued(k) /\ ~Busy(k) /\ k \notin delivered
        /\ Enqueue(k, Head(calls).text)
     \/ /\ Status = "refused" \/ Queued(k) \/ Busy(k) \/ k \in delivered
        /\ UNCHANGED <<queue, entry, outcome, delivered>>

----------------------------------------------------------------------------
(* Around it: the user, the page, the browser                               *)

Keystroke == typed' = TRUE /\ recent' = TRUE

\* The user edits the text, or presses a key that changes nothing.
UserTypes ==
  /\ "type" \in may /\ open /\ mounted
  /\ \/ UNCHANGED composer
     \/ \E word \in Words : composer' \in {composer \cup {word}, composer \ {word}}
  /\ Keystroke
  /\ UNCHANGED <<mounted, marker, markHash, may, open, worker, fetching, calls, landed>>

UserErases ==
  /\ "erase" \in may /\ open /\ mounted /\ composer # {}
  /\ composer' = {} /\ Keystroke
  /\ UNCHANGED <<mounted, marker, markHash, may, open, worker, fetching, calls, landed>>

\* The user sends by hand what is in the composer, with Enter or the button.
UserSends ==
  /\ "send" \in may /\ open /\ mounted /\ composer # {}
  /\ Submit
  /\ Keystroke \/ UNCHANGED <<typed, recent>>
  /\ UNCHANGED <<mounted, marker, markHash, may, open, worker, fetching, calls>>

UserPauses ==
  /\ recent
  /\ recent' = FALSE
  /\ UNCHANGED <<composer, mounted, marker, markHash, typed,
                 may, open, worker, fetching, calls, landed>>

\* A new document has no marker; the site may have kept the text.
Reload ==
  /\ "reload" \in may /\ open
  /\ composer' \in {{}, composer}
  /\ mounted' = TRUE /\ marker' = NoKey /\ markHash' = {} /\ typed' = FALSE /\ recent' = FALSE
  /\ UNCHANGED <<may, open, worker, fetching, calls, landed>>

\* The page takes its input away for a while.
Remount ==
  /\ "unmount" \in may /\ open
  /\ mounted' = ~mounted
  /\ UNCHANGED <<composer, marker, markHash, typed, recent,
                 may, open, worker, fetching, calls, landed>>

\* A reply is lost: the script's frame went away under it, say.
ScriptFails ==
  /\ "fail" \in may /\ calls # <<>> /\ Head(calls).status # "error"
  /\ Head(calls).call \notin SentinelCalls
  /\ calls' = [calls EXCEPT ![1].status = "error"]
  /\ UNCHANGED <<may, page, open, worker, fetching, landed>>

\* chrome.tabs.onRemoved drops the tab's entries.
CloseTab ==
  /\ "close" \in may /\ open
  /\ open' = FALSE
  /\ composer' = {} /\ mounted' = TRUE /\ marker' = NoKey /\ markHash' = {}
  /\ typed' = FALSE /\ recent' = FALSE
  /\ calls' = <<>> /\ fetching' = {} /\ last' = NoLast
  /\ \/ queue' = <<>> /\ entry' = [k \in Keys |-> NoEntry]
     \/ UNCHANGED <<queue, entry>>
  /\ UNCHANGED <<may, outcome, delivered, landed>>

\* The browser stops the service worker; its memory is gone, not its storage.
WorkerRestarts ==
  /\ "restart" \in may
  /\ queue' = <<>> /\ entry' = [k \in Keys |-> NoEntry]
  /\ last' = NoLast /\ calls' = <<>> /\ fetching' = {}
  /\ UNCHANGED <<may, page, open, outcome, delivered, landed>>

----------------------------------------------------------------------------
Init ==
  /\ may \in Settings
  /\ composer = {} /\ mounted = TRUE /\ marker = NoKey /\ markHash = {}
  /\ typed = FALSE /\ recent = FALSE /\ open = TRUE
  /\ queue = <<>> /\ entry = [k \in Keys |-> NoEntry]
  /\ last = NoLast /\ calls = <<>> /\ fetching = {}
  /\ outcome = [k \in Keys |-> "none"]
  /\ landed = [x \in Keys \cup Words |-> 0]
  /\ delivered = {}

HandleReply(k) ==
  \/ GateReply(k) \/ ReclaimReply(k) \/ InsertReply(k) \/ RecheckReply(k)
  \/ ClickReply(k) \/ EnterReply(k) \/ CheckReply(k) \/ LastCheckReply(k)
  \/ CountedReclaimReply(k) \/ StepFailed(k) \/ SentinelReply(k) \/ HealReply(k)

\* The extension's own steps
Machine ==
  \/ \E k \in Keys : \/ QueueSend(k) \/ ForceFlush(k) \/ TabGone(k)
                     \/ Advance(k) \/ FetchFooter(k) \/ Insert(k) \/ HandleReply(k)
  \/ SentinelSweep

Around ==
  \/ UserTypes \/ UserErases \/ UserSends \/ UserPauses
  \/ Reload \/ Remount \/ ScriptFails \/ CloseTab \/ WorkerRestarts

Next == Machine \/ Around

Spec == Init /\ [][Next]_vars

\* The send tick advances heads, replies arrive, and nobody types for ever.
Fairness ==
  /\ \A k \in Keys : /\ WF_vars(Advance(k)) /\ WF_vars(FetchFooter(k)) /\ WF_vars(Insert(k))
                     /\ WF_vars(TabGone(k)) /\ WF_vars(HandleReply(k))
  /\ WF_vars(UserPauses)
FairSpec == Spec /\ Fairness

----------------------------------------------------------------------------
(* Properties                                                               *)

\* "USER TEXT IS SACRED": no step of the extension wipes, submits or types over
\* a composer the user has written into, whatever happens between the scripts.
UserTextIsSacred ==
  [][Machine => (composer \cap Words # {} => composer' = composer)]_vars

\* A delivery that is reported as sent, and acknowledged, was submitted.
SentAlwaysMeansLanded == \A k \in Keys : outcome[k] = "sent" => landed[k] > 0

\* So it is as long as nobody but the extension empties the composer unsent: the
\* user erases it, the page takes it away, a flush has another delivery type over it.
SentMeansLanded == may \cap {"erase", "unmount", "flush"} = {} => SentAlwaysMeansLanded

\* Left alone, a result is submitted once, batched or alone.
LandedOnce == may \subseteq {"close"} => \A k \in Keys : landed[k] <= 1

\* Text of ours in the composer is known to be ours, so that it can be wiped:
\* it is what lastInjectedByTab describes, or will be when a reply is handled.
\* That holds until something other than a submission parts the two.
ComposerIsAccountedFor ==
  may \subseteq {"close", "reload", "send", "redeliver"} /\ composer # {} =>
    \/ StillOurs(composer)
    \/ \E i \in 1..Len(calls) : calls[i].call = "insert" /\ calls[i].text = composer

\* Whatever is queued reaches an outcome.
EveryDeliveryEnds == \A k \in Keys : Queued(k) ~> ~Queued(k)
=============================================================================
