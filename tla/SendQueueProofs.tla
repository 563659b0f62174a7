-------------------------- MODULE SendQueueProofs --------------------------
(* Theorems about SendQueue.                                                *)
(*                                                                          *)
(* The user's text: all that the extension compares a composer with before  *)
(* it acts on it (markHash, last.hash, the texts of entries and of the      *)
(* replies that carry a text on) is made of deliveries alone, so a          *)
(* comparison that succeeds shows that the composer holds nothing of the    *)
(* user's at that instant.                                                  *)
(*                                                                          *)
(* One step in flight: without a flush only the head of the queue is past   *)
(* its hold, and at most one reply of it is pending, so that nothing comes  *)
(* between a delivery's steps but the page, the user and the sentinel.      *)
(* The three arguments about the composer rest on it.                       *)
(*                                                                          *)
(* Sent means landed: what was typed for a delivery is in the composer or   *)
(* was submitted, as long as the document bears the delivery's mark.        *)
(*                                                                          *)
(* The composer is accounted for: what is in it is what is remembered as    *)
(* typed, or a reply that tells it is pending.                              *)
(*                                                                          *)
(* Submitted once: left alone, the composer and the ledger are known at     *)
(* each stage of the delivery at work (Rests, CallStage).                   *)
(*                                                                          *)
(* Type correctness comes last; that a queue stays one when keys are taken  *)
(* from it is WithoutKeeps.                                                 *)
EXTENDS SendQueue, SequenceTheorems, WellFoundedInduction, TLAPS

\* Scripts whose replies carry a text that is acted on later.
CarryingCalls == {"insert", "sentinel", "heal"}

CallShape ==
  {c \in [who : Keys \cup {NoKey}, call : Scripts, status : Statuses, text : Texts] :
     c.call \in CarryingCalls => c.text \subseteq Keys}

EntryShape ==
  [phase : Phases, attempt : Nat, fallback : BOOLEAN, recheck : BOOLEAN,
   escalated : BOOLEAN, lost : Nat, reclaims : Nat, held : Nat,
   text : SUBSET Keys, batch : SUBSET Keys]

PageInv ==
  /\ composer \in Texts
  /\ markHash \in SUBSET Keys
  /\ calls \in Seq(CallShape)

EntryInv == entry \in [Keys -> EntryShape]
LastInv == last \in [key : Keys \cup {NoKey}, hash : SUBSET Keys]

\* The invariant: what the extension takes for its own text is its own.
OwnTextInv == PageInv /\ EntryInv /\ LastInv

\* What one step must leave alone.
Spares == composer \cap Words # {} => composer' = composer

----------------------------------------------------------------------------
(* Scripts                                                                  *)

\* A reply that carries no text on, or a text of deliveries, has the shape.
LEMMA ReplyHasShape ==
  ASSUME NEW pending \in Seq(CallShape), NEW who \in Keys \cup {NoKey},
         NEW call \in Scripts, NEW status \in Statuses, NEW text \in Texts,
         call \in CarryingCalls => text \subseteq Keys
  PROVE  Append(pending, [who |-> who, call |-> call, status |-> status, text |-> text])
           \in Seq(CallShape)
<1>1. [who |-> who, call |-> call, status |-> status, text |-> text] \in CallShape
  BY DEF CallShape
<1> QED BY <1>1

\* A reply that got lost keeps its shape.
LEMMA ErrorHasShape ==
  ASSUME NEW c \in CallShape
  PROVE  [c EXCEPT !.status = "error"] \in CallShape
<1> DEFINE Shape == [who : Keys \cup {NoKey}, call : Scripts, status : Statuses, text : Texts]
           failed == [c EXCEPT !.status = "error"]
<1>1. c \in Shape /\ (c.call \in CarryingCalls => c.text \subseteq Keys)
  BY DEF CallShape
<1>2. failed \in Shape /\ failed.call = c.call /\ failed.text = c.text
  <2>1. "error" \in Statuses BY DEF Statuses
  <2> QED BY <1>1, <2>1
<1>3. failed.call \in CarryingCalls => failed.text \subseteq Keys
  BY <1>1, <1>2
<1> QED BY <1>2, <1>3 DEF CallShape

\* The text a script sees is the composer's or none.
LEMMA ShownIsAText == PageInv => Shown \in Texts
  BY DEF PageInv, Shown, Texts

\* A script that only reads.
LEMMA ReadingSpares ==
  ASSUME PageInv, calls' \in Seq(CallShape), UNCHANGED page
  PROVE  PageInv' /\ Spares
  BY DEF PageInv, Spares, page

\* Typing a delivery's text spares the user's: RunInsert compares first.
LEMMA InsertSpares ==
  ASSUME PageInv, LastInv, NEW pending \in Seq(CallShape), NEW k \in Keys \cup {NoKey},
         NEW text \in SUBSET Keys, RunInsert(pending, k, text)
  PROVE  PageInv' /\ Spares
<1>0. {} \in Texts /\ text \in Texts BY DEF Texts
<1>1. CASE UNCHANGED <<page, landed>> /\ ~(mounted /\ composer \in {{}, markHash, last.hash})
  <2>1. \E status \in Statuses :
          calls' = Append(pending, [who |-> k, call |-> "insert", status |-> status, text |-> {}])
    BY <1>1 DEF RunInsert, Reply, Statuses
  <2>2. calls' \in Seq(CallShape)
    BY <1>0, <2>1, ReplyHasShape DEF Scripts
  <2> QED BY <1>1, <2>2, ReadingSpares DEF PageInv, Spares, page
<1>2. CASE mounted /\ composer \in {{}, markHash, last.hash}
  <2>1. composer' = text /\ markHash' = text /\ Reply(pending, k, "insert", "ok", text)
    BY <1>2 DEF RunInsert
  <2>2. calls' \in Seq(CallShape)
    BY <1>0, <2>1, ReplyHasShape DEF Reply, Scripts, Statuses, CarryingCalls
  <2>3. composer \cap Words = {}
    BY <1>2, KeysAssumption DEF PageInv, LastInv
  <2> QED BY <1>0, <2>1, <2>2, <2>3 DEF PageInv, Spares
<1> QED BY <1>1, <1>2 DEF RunInsert

\* Submitting spares the user's text: RunSubmit compares first.
LEMMA SubmitSpares ==
  ASSUME PageInv, NEW pending \in Seq(CallShape), NEW k \in Keys \cup {NoKey},
         NEW call \in Scripts \ CarryingCalls, RunSubmit(pending, k, call)
  PROVE  PageInv' /\ Spares
<1>0. {} \in Texts BY DEF Texts
<1>1. calls' \in Seq(CallShape)
  <2>1. \E status \in Statuses :
          calls' = Append(pending, [who |-> k, call |-> call, status |-> status, text |-> {}])
    BY DEF RunSubmit, Reply, Statuses
  <2> QED BY <1>0, <2>1, ReplyHasShape
<1>2. markHash' = markHash BY DEF RunSubmit, page
<1>3. composer' = composer \/ (composer' = {} /\ mounted /\ Shown = markHash)
  BY DEF RunSubmit, SubmitOrNot, Submit, page
<1>4. mounted /\ Shown = markHash => composer \cap Words = {}
  BY KeysAssumption DEF PageInv, Shown
<1> QED BY <1>0, <1>1, <1>2, <1>3, <1>4 DEF PageInv, Spares

LEMMA ContextLostSpares ==
  ASSUME PageInv, NEW pending \in Seq(CallShape), NEW k \in Keys \cup {NoKey},
         NEW call \in Scripts \ CarryingCalls, ContextLost(pending, k, call)
  PROVE  PageInv' /\ Spares
  BY ReplyHasShape, ReadingSpares DEF Reply, Scripts, Statuses, ContextLost, Texts

LEMMA ClickSpares ==
  ASSUME PageInv, NEW pending \in Seq(CallShape), NEW k \in Keys \cup {NoKey},
         RunClick(pending, k)
  PROVE  PageInv' /\ Spares
<1>1. "click" \in Scripts \ CarryingCalls BY DEF Scripts, CarryingCalls
<1>2. CASE ContextLost(pending, k, "click") BY <1>1, <1>2, ContextLostSpares
<1>3. CASE Reply(pending, k, "click", "not ready", {}) /\ UNCHANGED <<page, landed>>
  BY <1>1, <1>3, ReplyHasShape, ReadingSpares DEF Reply, Scripts, Statuses, Texts
<1>4. CASE RunSubmit(pending, k, "click") BY <1>1, <1>4, SubmitSpares
<1> QED BY <1>2, <1>3, <1>4 DEF RunClick

LEMMA EnterSpares ==
  ASSUME PageInv, NEW pending \in Seq(CallShape), NEW k \in Keys \cup {NoKey},
         NEW call \in Scripts \ CarryingCalls, RunEnter(pending, k, call)
  PROVE  PageInv' /\ Spares
<1>2. CASE ContextLost(pending, k, call) BY <1>2, ContextLostSpares
<1>3. CASE Reply(pending, k, call, "no input", {}) /\ UNCHANGED <<page, landed>>
  BY <1>3, ReplyHasShape, ReadingSpares DEF Reply, Scripts, Statuses, Texts
<1>4. CASE RunSubmit(pending, k, call) BY <1>4, SubmitSpares
<1> QED BY <1>2, <1>3, <1>4 DEF RunEnter

LEMMA CheckSpares ==
  ASSUME PageInv, NEW pending \in Seq(CallShape), NEW k \in Keys \cup {NoKey},
         NEW call \in Scripts \ CarryingCalls, RunCheck(pending, k, call)
  PROVE  PageInv' /\ Spares
<1>2. CASE ContextLost(pending, k, call) BY <1>2, ContextLostSpares
<1>3. CASE /\ Reply(pending, k, call, IF Shown = {} THEN "cleared" ELSE "full", {})
           /\ UNCHANGED <<page, landed>>
  <2>1. \E status \in Statuses :
          calls' = Append(pending, [who |-> k, call |-> call, status |-> status, text |-> {}])
    BY <1>3 DEF Reply, Statuses
  <2> QED BY <1>3, <2>1, ReplyHasShape, ReadingSpares DEF Texts
<1> QED BY <1>2, <1>3 DEF RunCheck

LEMMA ProbeSpares ==
  ASSUME PageInv, NEW pending \in Seq(CallShape), NEW k \in Keys \cup {NoKey},
         NEW call \in Scripts \ CarryingCalls, RunProbe(pending, k, call)
  PROVE  PageInv' /\ Spares
<1>1. \E status \in Statuses :
        calls' = Append(pending, [who |-> k, call |-> call, status |-> status, text |-> Shown])
  BY DEF RunProbe, Reply, Statuses
<1>2. calls' \in Seq(CallShape) BY <1>1, ReplyHasShape, ShownIsAText
<1> QED BY <1>2, ReadingSpares DEF RunProbe

\* Wiping spares the user's text: RunClear compares first.
LEMMA ClearSpares ==
  ASSUME PageInv, NEW pending \in Seq(CallShape), NEW k \in Keys \cup {NoKey},
         NEW call \in Scripts, NEW expected \in SUBSET Keys,
         RunClear(pending, k, call, expected)
  PROVE  PageInv' /\ Spares
<1>0. {} \in Texts /\ expected \in Texts BY DEF Texts
<1>1. calls' \in Seq(CallShape)
  <2>1. \E status \in Statuses :
          calls' = Append(pending, [who |-> k, call |-> call, status |-> status, text |-> expected])
    BY DEF RunClear, Reply, Statuses
  <2> QED BY <1>0, <2>1, ReplyHasShape
<1>2. markHash' = markHash BY DEF RunClear, page
<1>3. composer' = composer \/ (composer' = {} /\ mounted /\ Shown \in {{}, expected})
  BY DEF RunClear, page
<1>4. mounted /\ Shown \in {{}, expected} => composer \cap Words = {}
  BY KeysAssumption DEF Shown
<1> QED BY <1>0, <1>1, <1>2, <1>3, <1>4 DEF PageInv, Spares

----------------------------------------------------------------------------
(* The worker's own state                                                   *)

LEMMA NoEntryShape == NoEntry \in EntryShape
  BY DEF NoEntry, EntryShape, Phases

\* The counters of an entry count.
LEMMA CountedShape ==
  ASSUME NEW e \in EntryShape
  PROVE  /\ [e EXCEPT !.phase = "insert", !.lost = @ + 1, !.fallback = FALSE,
                      !.recheck = FALSE, !.escalated = FALSE] \in EntryShape
         /\ [e EXCEPT !.reclaims = @ + 1] \in EntryShape
         /\ [e EXCEPT !.phase = "find", !.attempt = @ + 1, !.fallback = FALSE] \in EntryShape
<1>1. e.lost + 1 \in Nat /\ e.reclaims + 1 \in Nat /\ e.attempt + 1 \in Nat
  BY DEF EntryShape
<1> QED BY <1>1 DEF EntryShape, Phases

LEMMA SetEntryShape ==
  ASSUME EntryInv, NEW k \in Keys, NEW e \in EntryShape, SetEntry(k, e)
  PROVE  EntryInv'
  BY DEF EntryInv, SetEntry

LEMMA KeepEntryShape ==
  ASSUME EntryInv, NEW k \in Keys, KeepEntry(k)
  PROVE  EntryInv'
  BY DEF EntryInv, KeepEntry, SetEntry

LEMMA FinishShape ==
  ASSUME EntryInv, NEW done, NEW self, NEW result, FinishSends(done, self, result)
  PROVE  EntryInv'
  BY NoEntryShape DEF EntryInv, FinishSends

LEMMA EnqueueShape ==
  ASSUME EntryInv, NEW k \in Keys, NEW text \in SUBSET Keys, Enqueue(k, text)
  PROVE  EntryInv'
<1>1. FreshEntry(text) \in EntryShape
  BY DEF FreshEntry, NoEntry, EntryShape, Phases
<1> QED BY <1>1 DEF EntryInv, Enqueue

LEMMA EnterInsertShape ==
  ASSUME EntryInv, NEW k \in Keys, NEW e \in EntryShape, EnterInsertPhase(k, e)
  PROVE  EntryInv'
<1>1. PICK fit \in SUBSET {m \in Keys \ {k} : Queued(m) /\ entry[m].phase = "hold"} :
        SetEntry(k, [e EXCEPT !.phase = "insert", !.batch = fit])
  BY DEF EnterInsertPhase
<1>2. [e EXCEPT !.phase = "insert", !.batch = fit] \in EntryShape
  BY DEF EntryShape, Phases
<1> QED BY <1>1, <1>2, SetEntryShape

LEMMA RestartShape ==
  ASSUME EntryInv, NEW k \in Keys, RestartAfterContextLoss(k)
  PROVE  EntryInv'
<1>1. CASE FinishSend(k, "failed") BY <1>1, FinishShape DEF FinishSend
<1>2. CASE SetEntry(k, [entry[k] EXCEPT !.phase = "insert", !.lost = @ + 1, !.fallback = FALSE,
                          !.recheck = FALSE, !.escalated = FALSE])
  <2>1. [entry[k] EXCEPT !.phase = "insert", !.lost = @ + 1, !.fallback = FALSE,
                         !.recheck = FALSE, !.escalated = FALSE] \in EntryShape
    BY CountedShape DEF EntryInv
  <2> QED BY <1>2, <2>1, SetEntryShape
<1> QED BY <1>1, <1>2 DEF RestartAfterContextLoss

----------------------------------------------------------------------------
(* Replies: the one at hand and those behind it have the shape.             *)

LEMMA HeadAndRest ==
  ASSUME PageInv, calls # <<>>
  PROVE  Head(calls) \in CallShape /\ rest \in Seq(CallShape)
  BY DEF PageInv, rest

\* What a reply carries on is a text of deliveries.
LEMMA CarriedText ==
  ASSUME PageInv, NEW k \in Keys, NEW call \in CarryingCalls, Handles(k, call)
  PROVE  Head(calls).text \in SUBSET Keys /\ rest \in Seq(CallShape)
  BY HeadAndRest DEF Handles, CallShape

LEMMA HandledSpares ==
  ASSUME PageInv, calls # <<>>, Handled
  PROVE  PageInv' /\ Spares
  BY HeadAndRest, ReadingSpares DEF Handled

LEMMA StartReclaimSpares ==
  ASSUME OwnTextInv, NEW k \in Keys, NEW call \in Scripts, calls # <<>>,
         StartReclaim(k, call)
  PROVE  PageInv' /\ EntryInv' /\ Spares
<1>1. last.hash \in SUBSET Keys BY DEF OwnTextInv, LastInv
<1>2. PageInv' /\ Spares
  BY <1>1, HeadAndRest, ClearSpares DEF StartReclaim, OwnTextInv
<1>3. EntryInv'
  <2>1. [entry[k] EXCEPT !.reclaims = @ + 1] \in EntryShape
    BY CountedShape DEF OwnTextInv, EntryInv
  <2> QED BY <2>1, SetEntryShape DEF StartReclaim, OwnTextInv
<1> QED BY <1>2, <1>3

LEMMA NextAttemptSpares ==
  ASSUME OwnTextInv, NEW k \in Keys, calls # <<>>, NextAttempt(k)
  PROVE  PageInv' /\ EntryInv' /\ Spares
<1>1. CASE /\ SetEntry(k, [entry[k] EXCEPT !.phase = "find", !.attempt = @ + 1, !.fallback = FALSE])
           /\ Handled
  <2>1. PageInv' /\ Spares BY <1>1, HandledSpares DEF OwnTextInv
  <2>2. EntryInv'
    <3>1. [entry[k] EXCEPT !.phase = "find", !.attempt = @ + 1, !.fallback = FALSE]
            \in EntryShape
      BY CountedShape DEF OwnTextInv, EntryInv
    <3> QED BY <1>1, <3>1, SetEntryShape DEF OwnTextInv
  <2> QED BY <2>1, <2>2
<1>2. CASE RunCheck(rest, k, "last check") /\ KeepEntry(k)
  <2>1. "last check" \in Scripts \ CarryingCalls BY DEF Scripts, CarryingCalls
  <2>2. PageInv' /\ Spares BY <1>2, <2>1, HeadAndRest, CheckSpares DEF OwnTextInv
  <2> QED BY <1>2, <2>2, KeepEntryShape DEF OwnTextInv
<1> QED BY <1>1, <1>2 DEF NextAttempt

LEMMA SubmitReplySpares ==
  ASSUME OwnTextInv, NEW k \in Keys, NEW e \in EntryShape, calls # <<>>, SubmitReply(k, e)
  PROVE  PageInv' /\ EntryInv' /\ Spares
<1>1. CASE RestartAfterContextLoss(k) /\ Handled
  BY <1>1, RestartShape, HandledSpares DEF OwnTextInv
<1>2. CASE FinishSend(k, "user-text-guard") /\ Handled
  BY <1>2, FinishShape, HandledSpares DEF OwnTextInv, FinishSend
<1>3. CASE StartReclaim(k, "guard reclaim")
  BY <1>3, StartReclaimSpares DEF Scripts
<1>4. CASE SetEntry(k, [e EXCEPT !.phase = "await"]) /\ Handled
  <2>1. [e EXCEPT !.phase = "await"] \in EntryShape BY DEF EntryShape, Phases
  <2> QED BY <1>4, <2>1, SetEntryShape, HandledSpares DEF OwnTextInv
<1> QED BY <1>1, <1>2, <1>3, <1>4 DEF SubmitReply

----------------------------------------------------------------------------
(* The extension's steps: each keeps the invariant and spares the user's    *)
(* text.                                                                    *)

LEMMA AdvanceSpares ==
  ASSUME OwnTextInv, NEW k \in Keys, Advance(k)
  PROVE  OwnTextInv' /\ Spares
<1>1. calls \in Seq(CallShape) /\ PageInv BY DEF OwnTextInv, PageInv
<1>2. LastInv' BY DEF Advance, OwnTextInv, LastInv
<1>3. CASE RunProbe(calls, k, "gate") /\ UNCHANGED entry
  <2>1. "gate" \in Scripts \ CarryingCalls BY DEF Scripts, CarryingCalls
  <2> QED BY <1>1, <1>2, <1>3, <2>1, ProbeSpares DEF OwnTextInv, EntryInv
<1>4. CASE RunProbe(calls, k, "recheck") /\ entry' = [entry EXCEPT ![k].recheck = FALSE]
  <2>1. "recheck" \in Scripts \ CarryingCalls BY DEF Scripts, CarryingCalls
  <2>0. entry[k] \in EntryShape BY DEF OwnTextInv, EntryInv
  <2>2. [entry[k] EXCEPT !.recheck = FALSE] \in EntryShape BY <2>0 DEF EntryShape
  <2>3. EntryInv' BY <1>4, <2>2 DEF OwnTextInv, EntryInv
  <2> QED BY <1>1, <1>2, <1>4, <2>1, <2>3, ProbeSpares DEF OwnTextInv
<1>5. CASE RunEnter(calls, k, "enter") /\ UNCHANGED entry
  <2>1. "enter" \in Scripts \ CarryingCalls BY DEF Scripts, CarryingCalls
  <2> QED BY <1>1, <1>2, <1>5, <2>1, EnterSpares DEF OwnTextInv, EntryInv
<1>6. CASE RunClick(calls, k) /\ UNCHANGED entry
  BY <1>1, <1>2, <1>6, ClickSpares DEF OwnTextInv, EntryInv
<1>7. CASE RunCheck(calls, k, "check") /\ UNCHANGED entry
  <2>1. "check" \in Scripts \ CarryingCalls BY DEF Scripts, CarryingCalls
  <2> QED BY <1>1, <1>2, <1>7, <2>1, CheckSpares DEF OwnTextInv, EntryInv
<1> QED BY <1>3, <1>4, <1>5, <1>6, <1>7 DEF Advance

LEMMA InsertStepSpares ==
  ASSUME OwnTextInv, NEW k \in Keys, Insert(k)
  PROVE  OwnTextInv' /\ Spares
<1>1. entry[k].text \cup entry[k].batch \in SUBSET Keys
  BY DEF OwnTextInv, EntryInv, EntryShape
<1>2. PageInv' /\ Spares
  BY <1>1, InsertSpares DEF Insert, OwnTextInv, PageInv
<1> QED BY <1>2 DEF Insert, worker, OwnTextInv, EntryInv, LastInv

\* The steps that run no script.
LEMMA QueueStepSpares ==
  ASSUME OwnTextInv, NEW k \in Keys,
         QueueSend(k) \/ ForceFlush(k) \/ TabGone(k) \/ FetchFooter(k)
  PROVE  OwnTextInv' /\ Spares
<1>1. UNCHANGED <<page, last, calls>>
  BY DEF QueueSend, ForceFlush, TabGone, FetchFooter, worker
<1>2. PageInv' /\ Spares
  BY <1>1, ReadingSpares DEF OwnTextInv, PageInv
<1>3. LastInv' BY <1>1 DEF OwnTextInv, LastInv
<1>4. EntryInv'
  <2>1. CASE QueueSend(k) BY <2>1, EnqueueShape DEF QueueSend, OwnTextInv
  <2>2. CASE TabGone(k) BY <2>2, FinishShape DEF TabGone, FinishSend, OwnTextInv
  <2>3. CASE ForceFlush(k) \/ FetchFooter(k)
    BY <2>3 DEF ForceFlush, FetchFooter, worker, OwnTextInv, EntryInv
  <2> QED BY <2>1, <2>2, <2>3
<1> QED BY <1>2, <1>3, <1>4 DEF OwnTextInv

LEMMA GateReplySpares ==
  ASSUME OwnTextInv, NEW k \in Keys, GateReply(k)
  PROVE  OwnTextInv' /\ Spares
<1>1. calls # <<>> /\ PageInv /\ EntryInv BY DEF GateReply, Handles, OwnTextInv
<1>2. LastInv' BY DEF GateReply, OwnTextInv, LastInv
<1>3. CASE /\ RunClear(rest, k, "reclaim", last.hash)
           /\ UNCHANGED <<queue, entry, outcome, delivered>>
  <2>1. "reclaim" \in Scripts /\ last.hash \in SUBSET Keys
    BY DEF Scripts, OwnTextInv, LastInv
  <2> QED BY <1>1, <1>2, <1>3, <2>1, HeadAndRest, ClearSpares DEF OwnTextInv, EntryInv
<1>4. CASE Handled
  <2>1. PageInv' /\ Spares BY <1>1, <1>4, HandledSpares
  <2>2. entry[k] \in EntryShape BY <1>1 DEF EntryInv
  <2>3. /\ [entry[k] EXCEPT !.held = 0] \in EntryShape
        /\ [entry[k] EXCEPT !.held = @ + 1] \in EntryShape
    BY <2>2 DEF EntryShape
  <2>4. EntryInv'
    <3>1. CASE SetEntry(k, [entry[k] EXCEPT !.held = 0])
      BY <1>1, <2>3, <3>1, SetEntryShape
    <3>2. CASE SetEntry(k, [entry[k] EXCEPT !.held = @ + 1])
      BY <1>1, <2>3, <3>2, SetEntryShape
    <3>3. CASE FinishSend(k, "hold-timeout")
      BY <1>1, <3>3, FinishShape DEF FinishSend
    <3>4. CASE EnterInsertPhase(k, entry[k])
      BY <1>1, <2>2, <3>4, EnterInsertShape
    <3>5. CASE EnterInsertPhase(k, [entry[k] EXCEPT !.held = 0])
      BY <1>1, <2>3, <3>5, EnterInsertShape
    <3>6. UNCHANGED <<queue, entry, outcome, delivered>> => EntryInv'
      BY <1>1 DEF EntryInv
    <3> QED BY <3>1, <3>2, <3>3, <3>4, <3>5, <3>6 DEF GateReply, HoldOn, HoldCleared
  <2> QED BY <1>2, <2>1, <2>4 DEF OwnTextInv
<1> QED BY <1>3, <1>4 DEF GateReply, HoldOn, HoldCleared

LEMMA InsertReplySpares ==
  ASSUME OwnTextInv, NEW k \in Keys, InsertReply(k)
  PROVE  OwnTextInv' /\ Spares
<1>1. Head(calls).text \in SUBSET Keys
  BY CarriedText DEF InsertReply, OwnTextInv, CarryingCalls
<1>2. PageInv' /\ Spares
  BY HandledSpares DEF InsertReply, Handles, OwnTextInv
<1>3. LastInv'
  <2>1. last' = last \/ last' = [key |-> k, hash |-> Head(calls).text]
    BY DEF InsertReply
  <2> QED BY <1>1, <2>1 DEF OwnTextInv, LastInv
<1>4. EntryInv /\ entry[k] \in EntryShape BY DEF OwnTextInv, EntryInv
<1>5. CASE SetEntry(k, [entry[k] EXCEPT !.phase = "find", !.attempt = 1,
                          !.fallback = FALSE, !.recheck = FALSE, !.escalated = FALSE])
  <2>1. [entry[k] EXCEPT !.phase = "find", !.attempt = 1,
           !.fallback = FALSE, !.recheck = FALSE, !.escalated = FALSE] \in EntryShape
    BY <1>4 DEF EntryShape, Phases
  <2>2. EntryInv' BY <1>4, <1>5, <2>1, SetEntryShape
  <2> QED BY <1>2, <1>3, <2>2 DEF OwnTextInv
<1>6. CASE SetEntry(k, [entry[k] EXCEPT !.phase = "hold", !.batch = {}])
  <2>1. [entry[k] EXCEPT !.phase = "hold", !.batch = {}] \in EntryShape
    BY <1>4 DEF EntryShape, Phases
  <2>2. EntryInv' BY <1>4, <1>6, <2>1, SetEntryShape
  <2> QED BY <1>2, <1>3, <2>2 DEF OwnTextInv
<1>7. CASE FinishSend(k, "no-input")
  BY <1>2, <1>3, <1>4, <1>7, FinishShape DEF FinishSend, OwnTextInv
<1> QED BY <1>5, <1>6, <1>7 DEF InsertReply

LEMMA ReclaimReplySpares ==
  ASSUME OwnTextInv, NEW k \in Keys, ReclaimReply(k)
  PROVE  OwnTextInv' /\ Spares
<1>1. PageInv' /\ Spares
  BY HandledSpares DEF ReclaimReply, Handles, OwnTextInv
<1>2. LastInv' BY DEF ReclaimReply, LastInv, NoLast
<1>3. EntryInv' BY KeepEntryShape DEF ReclaimReply, OwnTextInv
<1> QED BY <1>1, <1>2, <1>3 DEF OwnTextInv

LEMMA RecheckReplySpares ==
  ASSUME OwnTextInv, NEW k \in Keys, RecheckReply(k)
  PROVE  OwnTextInv' /\ Spares
<1>1. calls # <<>> /\ PageInv /\ entry[k] \in EntryShape /\ rest \in Seq(CallShape)
  BY HeadAndRest DEF RecheckReply, Handles, OwnTextInv, EntryInv
<1>2. LastInv' BY DEF RecheckReply, OwnTextInv, LastInv
<1>3. PICK stuck \in BOOLEAN :
        /\ SetEntry(k, [entry[k] EXCEPT !.escalated = stuck])
        /\ RunEnter(rest, k, "enter") \/ RunClick(rest, k)
  BY DEF RecheckReply
<1>4. [entry[k] EXCEPT !.escalated = stuck] \in EntryShape BY <1>1 DEF EntryShape
<1>5. EntryInv' BY <1>3, <1>4, SetEntryShape DEF OwnTextInv
<1>6. "enter" \in Scripts \ CarryingCalls BY DEF Scripts, CarryingCalls
<1>7. PageInv' /\ Spares BY <1>1, <1>3, <1>6, EnterSpares, ClickSpares
<1> QED BY <1>2, <1>5, <1>7 DEF OwnTextInv

LEMMA ClickReplySpares ==
  ASSUME OwnTextInv, NEW k \in Keys, ClickReply(k)
  PROVE  OwnTextInv' /\ Spares
<1>1. calls # <<>> /\ PageInv /\ entry[k] \in EntryShape /\ rest \in Seq(CallShape)
  BY HeadAndRest DEF ClickReply, Handles, OwnTextInv, EntryInv
<1>2. LastInv' BY DEF ClickReply, OwnTextInv, LastInv
<1>3. /\ [entry[k] EXCEPT !.recheck = TRUE] \in EntryShape
      /\ [entry[k] EXCEPT !.fallback = TRUE] \in EntryShape
  BY <1>1 DEF EntryShape
<1>4. CASE SubmitReply(k, [entry[k] EXCEPT !.recheck = TRUE])
  BY <1>1, <1>2, <1>3, <1>4, SubmitReplySpares DEF OwnTextInv
<1>5. CASE /\ SetEntry(k, [entry[k] EXCEPT !.fallback = TRUE])
           /\ RunEnter(rest, k, "fallback")
  <2>1. "fallback" \in Scripts \ CarryingCalls BY DEF Scripts, CarryingCalls
  <2>2. PageInv' /\ Spares BY <1>1, <1>5, <2>1, EnterSpares
  <2>3. EntryInv' BY <1>3, <1>5, SetEntryShape DEF OwnTextInv
  <2> QED BY <1>2, <2>2, <2>3 DEF OwnTextInv
<1>6. CASE NextAttempt(k)
  BY <1>1, <1>2, <1>6, NextAttemptSpares DEF OwnTextInv
<1> QED BY <1>4, <1>5, <1>6 DEF ClickReply

LEMMA EnterReplySpares ==
  ASSUME OwnTextInv, NEW k \in Keys, EnterReply(k)
  PROVE  OwnTextInv' /\ Spares
<1>1. calls # <<>> /\ entry[k] \in EntryShape
  BY DEF EnterReply, Handles, OwnTextInv, EntryInv
<1>2. LastInv' BY DEF EnterReply, OwnTextInv, LastInv
<1>3. SubmitReply(k, entry[k]) \/ NextAttempt(k) BY DEF EnterReply
<1> QED BY <1>1, <1>2, <1>3, SubmitReplySpares, NextAttemptSpares DEF OwnTextInv

LEMMA CheckReplySpares ==
  ASSUME OwnTextInv, NEW k \in Keys, CheckReply(k)
  PROVE  OwnTextInv' /\ Spares
<1>1. calls # <<>> BY DEF CheckReply, Handles
<1>2. LastInv' BY DEF CheckReply, OwnTextInv, LastInv
<1>3. CASE Handled /\ (RestartAfterContextLoss(k) \/ FinishBatchedSend(k))
  BY <1>1, <1>2, <1>3, HandledSpares, RestartShape, FinishShape DEF FinishBatchedSend, OwnTextInv
<1>4. CASE NextAttempt(k)
  BY <1>1, <1>2, <1>4, NextAttemptSpares DEF OwnTextInv
<1> QED BY <1>3, <1>4 DEF CheckReply

LEMMA LastCheckReplySpares ==
  ASSUME OwnTextInv, NEW k \in Keys, LastCheckReply(k)
  PROVE  OwnTextInv' /\ Spares
<1>1. calls # <<>> BY DEF LastCheckReply, Handles
<1>2. LastInv' BY DEF LastCheckReply, OwnTextInv, LastInv
<1>3. CASE Handled /\ FinishBatchedSend(k)
  BY <1>1, <1>2, <1>3, HandledSpares, FinishShape DEF FinishBatchedSend, OwnTextInv
<1>4. CASE StartReclaim(k, "last reclaim")
  BY <1>1, <1>2, <1>4, StartReclaimSpares DEF OwnTextInv, Scripts
<1> QED BY <1>3, <1>4 DEF LastCheckReply

LEMMA CountedReclaimReplySpares ==
  ASSUME OwnTextInv, NEW k \in Keys, CountedReclaimReply(k)
  PROVE  OwnTextInv' /\ Spares
<1>1. PageInv' /\ Spares
  BY HandledSpares DEF CountedReclaimReply, Handles, OwnTextInv
<1>2. LastInv' BY DEF CountedReclaimReply, LastInv, NoLast
<1>3. CASE \E result : FinishSend(k, result)
  BY <1>1, <1>2, <1>3, FinishShape DEF FinishSend, OwnTextInv
<1>4. CASE BackToHold(k)
  <2>1. entry[k] \in EntryShape BY DEF OwnTextInv, EntryInv
  <2>2. [entry[k] EXCEPT !.phase = "hold", !.attempt = 0, !.fallback = FALSE,
           !.recheck = FALSE, !.escalated = FALSE, !.lost = 0, !.batch = {}] \in EntryShape
    BY <2>1 DEF EntryShape, Phases
  <2>3. EntryInv' BY <1>4, <2>2, SetEntryShape DEF BackToHold, OwnTextInv
  <2> QED BY <1>1, <1>2, <2>3 DEF OwnTextInv
<1> QED BY <1>3, <1>4 DEF CountedReclaimReply

LEMMA StepFailedSpares ==
  ASSUME OwnTextInv, NEW k \in Keys, StepFailed(k)
  PROVE  OwnTextInv' /\ Spares
<1>1. PageInv' /\ Spares
  BY HandledSpares DEF StepFailed, Handles, OwnTextInv
<1> QED BY <1>1, KeepEntryShape DEF StepFailed, OwnTextInv, LastInv

----------------------------------------------------------------------------
(* The sentinel                                                             *)

LEMMA SentinelSweepSpares ==
  ASSUME OwnTextInv, SentinelSweep
  PROVE  OwnTextInv' /\ Spares
<1>1. last.key \in Keys \cup {NoKey} /\ last.hash \in SUBSET Keys
  BY DEF OwnTextInv, LastInv
<1>2. \E status \in Statuses :
        calls' = Append(calls, [who |-> last.key, call |-> "sentinel",
                                status |-> status, text |-> last.hash])
  BY DEF SentinelSweep, Reply, Statuses
<1>3. calls' \in Seq(CallShape)
  BY <1>1, <1>2, ReplyHasShape DEF OwnTextInv, PageInv, Scripts, Texts
<1>4. PageInv' /\ Spares
  BY <1>3, ReadingSpares DEF SentinelSweep, OwnTextInv
<1> QED BY <1>4 DEF SentinelSweep, worker, OwnTextInv, EntryInv, LastInv

LEMMA SentinelReplySpares ==
  ASSUME OwnTextInv, NEW k \in Keys, SentinelReply(k)
  PROVE  OwnTextInv' /\ Spares
<1>1. Head(calls).text \in SUBSET Keys /\ rest \in Seq(CallShape) /\ calls # <<>>
  BY CarriedText DEF SentinelReply, Handles, OwnTextInv, CarryingCalls
<1>2. PageInv' /\ Spares
  <2>1. "heal" \in Scripts BY DEF Scripts
  <2> QED BY <1>1, <2>1, HandledSpares, ClearSpares DEF SentinelReply, OwnTextInv
<1> QED BY <1>2 DEF SentinelReply, worker, OwnTextInv, EntryInv, LastInv

LEMMA HealReplySpares ==
  ASSUME OwnTextInv, NEW k \in Keys, HealReply(k)
  PROVE  OwnTextInv' /\ Spares
<1>1. Head(calls).text \in SUBSET Keys
  BY CarriedText DEF HealReply, OwnTextInv, CarryingCalls
<1>2. PageInv' /\ Spares
  BY HandledSpares DEF HealReply, Handles, OwnTextInv
<1>3. LastInv' BY DEF HealReply, LastInv, NoLast
<1>4. EntryInv'
  BY <1>1, EnqueueShape DEF HealReply, OwnTextInv, EntryInv
<1> QED BY <1>2, <1>3, <1>4 DEF OwnTextInv

----------------------------------------------------------------------------
(* Putting it together                                                      *)

LEMMA InitOwnText == Init => OwnTextInv
<1> SUFFICES ASSUME Init PROVE OwnTextInv OBVIOUS
<1>1. PageInv BY DEF Init, PageInv, Texts
<1>2. EntryInv BY NoEntryShape DEF Init, EntryInv
<1>3. LastInv BY DEF Init, LastInv, NoLast
<1> QED BY <1>1, <1>2, <1>3 DEF OwnTextInv

\* Every step of the extension keeps the invariant and spares the user's text.
LEMMA MachineSpares ==
  ASSUME OwnTextInv, Machine
  PROVE  OwnTextInv' /\ Spares
<1>1. CASE SentinelSweep BY <1>1, SentinelSweepSpares
<1>2. ASSUME NEW k \in Keys, HandleReply(k)
      PROVE  OwnTextInv' /\ Spares
  BY <1>2, GateReplySpares, ReclaimReplySpares, InsertReplySpares, RecheckReplySpares,
     ClickReplySpares, EnterReplySpares, CheckReplySpares, LastCheckReplySpares,
     CountedReclaimReplySpares, StepFailedSpares, SentinelReplySpares, HealReplySpares
     DEF HandleReply
<1>3. ASSUME NEW k \in Keys,
             QueueSend(k) \/ ForceFlush(k) \/ TabGone(k) \/ Advance(k)
               \/ FetchFooter(k) \/ Insert(k)
      PROVE  OwnTextInv' /\ Spares
  BY <1>3, QueueStepSpares, AdvanceSpares, InsertStepSpares
<1> QED BY <1>1, <1>2, <1>3 DEF Machine

\* The user, the page and the browser cannot make a foreign text look like ours.
LEMMA AroundKeeps ==
  ASSUME OwnTextInv, Around
  PROVE  OwnTextInv'
<1>1. CASE UserTypes \/ UserErases \/ UserSends \/ UserPauses \/ Reload \/ Remount
  <2>1. UNCHANGED <<entry, last, calls>>
    BY <1>1 DEF UserTypes, UserErases, UserSends, UserPauses, Reload, Remount, worker
  <2>2. composer' \in Texts
    BY <1>1 DEF UserTypes, UserErases, UserSends, UserPauses, Reload, Remount, Submit,
                OwnTextInv, PageInv, Texts
  <2>3. markHash' \in {markHash, {}}
    BY <1>1 DEF UserTypes, UserErases, UserSends, UserPauses, Reload, Remount
  <2> QED BY <2>1, <2>2, <2>3 DEF OwnTextInv, PageInv, EntryInv, LastInv
<1>2. CASE ScriptFails
  <2>1. calls # <<>> /\ calls \in Seq(CallShape) BY <1>2 DEF ScriptFails, OwnTextInv, PageInv
  <2>2. calls[1] \in CallShape BY <2>1
  <2>3. [calls[1] EXCEPT !.status = "error"] \in CallShape
    BY <2>2, ErrorHasShape
  <2>4. calls' = [calls EXCEPT ![1] = [calls[1] EXCEPT !.status = "error"]]
    BY <1>2 DEF ScriptFails
  <2>5. calls' \in Seq(CallShape) BY <2>1, <2>3, <2>4, ExceptSeq
  <2> QED BY <1>2, <2>5 DEF ScriptFails, page, worker, OwnTextInv, PageInv, EntryInv, LastInv
<1>3. CASE CloseTab \/ WorkerRestarts
  <2>1. calls' = <<>> /\ last' = NoLast BY <1>3 DEF CloseTab, WorkerRestarts
  <2>2. composer' \in {composer, {}} /\ markHash' \in {markHash, {}}
    BY <1>3 DEF CloseTab, WorkerRestarts, page
  <2>3. entry' \in {entry, [k \in Keys |-> NoEntry]}
    BY <1>3 DEF CloseTab, WorkerRestarts
  <2>4. PageInv'
    BY <2>1, <2>2 DEF OwnTextInv, PageInv, Texts
  <2>5. EntryInv'
    BY <2>3, NoEntryShape DEF OwnTextInv, EntryInv
  <2> QED BY <2>1, <2>4, <2>5 DEF OwnTextInv, LastInv, NoLast
<1> QED BY <1>1, <1>2, <1>3 DEF Around

\* What the extension takes for its own text is its own.
THEOREM OwnTextIsOwn == Spec => []OwnTextInv
<1>1. OwnTextInv /\ [Next]_vars => OwnTextInv'
  <2>1. CASE UNCHANGED vars
    BY <2>1 DEF vars, page, worker, OwnTextInv, PageInv, EntryInv, LastInv
  <2> QED BY <2>1, MachineSpares, AroundKeeps DEF Next
<1> QED BY <1>1, InitOwnText, PTL DEF Spec

\* No step of the extension wipes, submits or types over a composer the user
\* has written into, whatever happens between its scripts.
THEOREM UserTextSpared == Spec => UserTextIsSacred
<1>1. OwnTextInv /\ [Next]_vars
        => [Machine => (composer \cap Words # {} => composer' = composer)]_vars
  BY MachineSpares DEF Spares
<1> QED BY <1>1, OwnTextIsOwn, PTL DEF Spec, UserTextIsSacred

----------------------------------------------------------------------------
(* Sequences and sets the queue is reasoned about with                      *)

\* A set of naturals that is not empty has a least element.
LEMMA Least ==
  ASSUME NEW bad, bad \subseteq Nat, bad # {}
  PROVE  \E n \in bad : \A m \in bad : n <= m
<1> DEFINE R == {p \in Nat \X Nat : p[1] < p[2]}
<1>1. IsWellFoundedOn(R, Nat) BY NatLessThanWellFounded DEF OpToRel
<1>2. \A m, n \in Nat : m < n => <<m, n>> \in R OBVIOUS
<1> HIDE DEF R
<1>3. PICK n \in bad : \A m \in bad : <<m, n>> \notin R
  BY <1>1, WFMin
<1>4. \A m \in bad : n <= m
  <2> TAKE m \in bad
  <2>1. m \in Nat /\ n \in Nat OBVIOUS
  <2>2. ~(m < n) BY <1>2, <1>3, <2>1
  <2> QED BY <2>1, <2>2
<1> QED BY <1>4

\* Induction along the indices of a sequence, for a set of them.
LEMMA UpToTheEnd ==
  ASSUME NEW L \in Nat, NEW G, 0 \in G, \A n \in 1..L : n - 1 \in G => n \in G
  PROVE  0..L \subseteq G
<1> DEFINE bad == (0..L) \ G
<1> SUFFICES ASSUME bad # {} PROVE FALSE OBVIOUS
<1>0. bad \subseteq Nat OBVIOUS
<1>1. PICK n \in bad : \A m \in bad : n <= m
  <2> HIDE DEF bad
  <2> QED BY <1>0, Least
<1>2. n \in 1..L /\ n - 1 \in 0..L BY <1>1
<1>3. n - 1 \notin bad BY <1>1, <1>2
<1> QED BY <1>1, <1>2, <1>3

\* What is left of a queue are elements of it that were not deleted.
LEMMA WithoutKeeps ==
  ASSUME NEW S, NEW q \in Seq(S), NEW gone
  PROVE  Without(q, gone) \in Seq({q[j] : j \in 1..Len(q)} \ gone)
<1> DEFINE Kept == {q[j] : j \in 1..Len(q)} \ gone
           Step(s, n) == IF q[n] \in gone THEN s ELSE Append(s, q[n])
           Upto(f, n) == /\ f \in [0..n -> Seq(Kept)]
                         /\ f[0] = <<>>
                         /\ \A i \in 1..n : f[i] = Step(f[i - 1], i)
           good == {n \in Nat : \E f : Upto(f, n)}
<1>0. Len(q) \in Nat OBVIOUS
<1>1. \A s \in Seq(Kept), n \in 1..Len(q) : Step(s, n) \in Seq(Kept)
  BY AppendProperties
<1>2. 0..Len(q) \subseteq good
  <2>1. 0 \in good
    <3> DEFINE g == [i \in 0..0 |-> <<>>]
    <3>1. g \in [0..0 -> Seq(Kept)] BY EmptySeq
    <3>2. Upto(g, 0) BY <3>1
    <3> HIDE DEF Upto, g
    <3> QED BY <3>2
  <2>2. ASSUME NEW n \in 1..Len(q), n - 1 \in good PROVE n \in good
    <3>1. PICK f : Upto(f, n - 1) BY <2>2
    <3> DEFINE g == [i \in 0..n |-> IF i = n THEN Step(f[n - 1], n) ELSE f[i]]
    <3> HIDE DEF Step, Kept
    <3>2. n \in Nat /\ n - 1 \in 0..(n - 1) BY <1>0
    <3>5. Step(f[n - 1], n) \in Seq(Kept) BY <1>1, <3>1, <3>2
    <3>6. g \in [0..n -> Seq(Kept)] BY <3>1, <3>2, <3>5
    <3>7. g[0] = <<>> BY <3>1, <3>2
    <3>8. \A i \in 1..n : g[i] = Step(g[i - 1], i)
      <4> TAKE i \in 1..n
      <4>1. CASE i = n BY <4>1, <3>2
      <4>2. CASE i # n
        <5>1. i \in 1..(n - 1) /\ i - 1 \in 0..n /\ i - 1 # n /\ i \in 0..n BY <4>2, <3>2
        <5>2. f[i] = Step(f[i - 1], i) BY <3>1, <5>1
        <5> QED BY <4>2, <5>1, <5>2
      <4> QED BY <4>1, <4>2
    <3>9. Upto(g, n) BY <3>6, <3>7, <3>8
    <3> HIDE DEF Upto, g
    <3> QED BY <3>2, <3>9
  <2> HIDE DEF good
  <2> QED BY <1>0, <2>1, <2>2, UpToTheEnd
<1>3. PICK f : Upto(f, Len(q))
  <2>1. Len(q) \in good
    <3> HIDE DEF good
    <3> QED BY <1>0, <1>2
  <2> HIDE DEF Upto
  <2> QED BY <2>1
<1> DEFINE Body(g) == [n \in 0..Len(q) |-> IF n = 0 THEN <<>> ELSE Step(g[n - 1], n)]
           kept == CHOOSE g : g = Body(g)
<1>4. f = Body(f)
  <2> HIDE DEF Step
  <2> QED BY <1>0, <1>3
<1>5. kept = Body(kept)
  <2> HIDE DEF Body
  <2> QED BY <1>4
<1>6. Without(q, gone) = kept[Len(q)] BY DEF Without
<1>7. 0..Len(q) \subseteq {n \in Nat : kept[n] \in Seq(Kept)}
  <2> DEFINE G == {n \in Nat : kept[n] \in Seq(Kept)}
  <2> HIDE DEF kept, Kept
  <2>1. 0 \in G
    <3>1. kept[0] = <<>> BY <1>0, <1>5
    <3> QED BY <3>1, EmptySeq
  <2>2. ASSUME NEW n \in 1..Len(q), n - 1 \in G PROVE n \in G
    <3> HIDE DEF Step
    <3>1. n \in 0..Len(q) /\ n # 0 /\ n \in Nat BY <1>0
    <3>2. Body(kept)[n] = Step(kept[n - 1], n) BY <3>1
    <3>3. kept[n] = Step(kept[n - 1], n)
      <4> HIDE DEF Body
      <4> QED BY <1>5, <3>2
    <3>4. kept[n - 1] \in Seq(Kept) BY <2>2
    <3> QED BY <1>1, <3>1, <3>3, <3>4
  <2> HIDE DEF G
  <2>3. 0..Len(q) \subseteq G BY <1>0, <2>1, <2>2, UpToTheEnd
  <2> QED BY <2>3 DEF G
<1>8. Len(q) \in 0..Len(q) BY <1>0
<1> HIDE DEF kept
<1> QED BY <1>6, <1>7, <1>8

----------------------------------------------------------------------------
(* One step in flight                                                       *)

Pending == 1..Len(calls)
Own(i) == calls[i].call \notin SentinelCalls
Past(k) == entry[k].phase \notin {"none", "hold"}

\* The phases whose step runs a script.
PhasesOf(call) ==
  CASE call \in {"gate", "reclaim"} -> {"hold"}
    [] call = "insert" -> {"insert"}
    [] call = "check" -> {"await"}
    [] call \in {"recheck", "click", "enter", "fallback"} -> {"find"}
    [] OTHER -> {"find", "await"}

QueueInv == queue \in Seq(Keys)

\* Only the head of the queue is past its hold, and it has one step in flight.
OneFlight ==
  /\ \A i \in Pending : Own(i) =>
       /\ calls[i].who \in Keys /\ IsHead(calls[i].who)
       /\ entry[calls[i].who].phase \in PhasesOf(calls[i].call)
       /\ fetching = {}
  /\ \A i, j \in Pending : Own(i) /\ Own(j) => i = j
  /\ \A k \in fetching : k \in Keys /\ IsHead(k) /\ entry[k].phase = "insert"
  /\ \A k \in Keys : Past(k) => IsHead(k)

\* The sentinel has one script in flight; its look is the first reply there is
\* and still up to date, and its wipe ran before anything was typed.
OneSentinel ==
  /\ \A i, j \in Pending : ~Own(i) /\ ~Own(j) => i = j
  /\ \A i \in Pending : calls[i].call = "sentinel" =>
       /\ i = 1
       /\ calls[i].text = last.hash
       /\ \A k \in Keys : ~Past(k)
  /\ \A i, j \in Pending : calls[i].call = "heal" /\ calls[j].call = "insert" => i < j

\* The invariant, unless a flush moves a key past a head whose step is in flight.
FlightInv == "flush" \notin may => QueueInv /\ OneFlight /\ OneSentinel

\* A script that ran: its reply is the last of those pending, and not lost yet.
Issues(pending, k, call) ==
  \E status \in Statuses \ {"error"}, text \in Texts :
    calls' = Append(pending, [who |-> k, call |-> call, status |-> status, text |-> text])

LEMMA RestIndex ==
  ASSUME NEW S, NEW s \in Seq(S), s # <<>>
  PROVE  /\ Tail(s) \in Seq(S)
         /\ Len(Tail(s)) = Len(s) - 1
         /\ Len(s) \in Nat \ {0}
         /\ s[1] = Head(s)
         /\ \A i \in 1..Len(Tail(s)) : i + 1 \in 1..Len(s) /\ Tail(s)[i] = s[i + 1]
  OBVIOUS

LEMMA AppendIndex ==
  ASSUME NEW S, NEW s \in Seq(S), NEW c
  PROVE  /\ Len(s) \in Nat
         /\ Len(Append(s, c)) = Len(s) + 1
         /\ Append(s, c)[Len(s) + 1] = c
         /\ \A i \in 1..Len(s) : Append(s, c)[i] = s[i]
<1>1. s \in Seq(S \cup {c}) OBVIOUS
<1> QED BY <1>1, AppendProperties

\* Every script replies once.
LEMMA ScriptsIssue ==
  ASSUME PageInv, NEW pending, NEW k, NEW call, NEW text \in Texts
  PROVE  /\ RunProbe(pending, k, call) => Issues(pending, k, call)
         /\ RunInsert(pending, k, text) => Issues(pending, k, "insert")
         /\ RunClick(pending, k) => Issues(pending, k, "click")
         /\ RunEnter(pending, k, call) => Issues(pending, k, call)
         /\ RunCheck(pending, k, call) => Issues(pending, k, call)
         /\ RunClear(pending, k, call, text) => Issues(pending, k, call)
<1>0. {} \in Texts /\ Shown \in Texts BY ShownIsAText DEF Texts
<1>1. RunProbe(pending, k, call) => Issues(pending, k, call)
  BY <1>0 DEF RunProbe, Reply, Issues, Statuses
<1>2. RunInsert(pending, k, text) => Issues(pending, k, "insert")
  BY <1>0 DEF RunInsert, Reply, Issues, Statuses
<1>3. ContextLost(pending, k, call) => Issues(pending, k, call)
  BY <1>0 DEF ContextLost, Reply, Issues, Statuses
<1>4. RunSubmit(pending, k, call) => Issues(pending, k, call)
  BY <1>0 DEF RunSubmit, Reply, Issues, Statuses
<1>5. RunClick(pending, k) => Issues(pending, k, "click")
  <2>1. ContextLost(pending, k, "click") => Issues(pending, k, "click")
    BY <1>0 DEF ContextLost, Reply, Issues, Statuses
  <2>2. RunSubmit(pending, k, "click") => Issues(pending, k, "click")
    BY <1>0 DEF RunSubmit, Reply, Issues, Statuses
  <2> QED BY <1>0, <2>1, <2>2 DEF RunClick, Reply, Issues, Statuses
<1>6. RunEnter(pending, k, call) => Issues(pending, k, call)
  BY <1>0, <1>3, <1>4 DEF RunEnter, Reply, Issues, Statuses
<1>7. RunCheck(pending, k, call) => Issues(pending, k, call)
  BY <1>0, <1>3 DEF RunCheck, Reply, Issues, Statuses
<1>8. RunClear(pending, k, call, text) => Issues(pending, k, call)
  BY DEF RunClear, Reply, Issues, Statuses
<1> QED BY <1>1, <1>2, <1>5, <1>6, <1>7, <1>8

\* A step that leaves the head alone with at most one new script.
LEMMA FlightAfter ==
  ASSUME NEW pending \in Seq(CallShape),
         \A i \in 1..Len(pending) : pending[i].call \in SentinelCalls,
         NEW k \in Keys,
         \/ calls' = pending
         \/ \E call \in Scripts \ SentinelCalls :
              Issues(pending, k, call) /\ IsHead(k)' /\ entry[k].phase' \in PhasesOf(call),
         fetching' = {},
         \A m \in Keys : Past(m)' => IsHead(m)'
  PROVE  OneFlight'
<1>1. CASE calls' = pending BY <1>1 DEF OneFlight, Pending, Own
<1>2. ASSUME NEW call \in Scripts \ SentinelCalls, Issues(pending, k, call), IsHead(k)',
             entry[k].phase' \in PhasesOf(call)
      PROVE  OneFlight'
  <2>1. PICK status \in Statuses, text \in Texts :
          calls' = Append(pending, [who |-> k, call |-> call, status |-> status, text |-> text])
    BY <1>2 DEF Issues
  <2> DEFINE c == [who |-> k, call |-> call, status |-> status, text |-> text]
             n == Len(pending) + 1
  <2>2. c.who = k /\ c.call = call OBVIOUS
  <2> HIDE DEF c
  <2>3. /\ n \in Nat /\ Len(calls') = n /\ calls'[n] = c
        /\ \A i \in 1..Len(pending) : calls'[i] = pending[i]
    BY <2>1, AppendIndex DEF c
  <2>4. \A i \in 1..n : i # n => i \in 1..Len(pending) BY <2>3
  <2>5. \A i \in Pending' : Own(i)' => i = n
    BY <2>3, <2>4 DEF Pending, Own
  <2>6. \A i \in Pending' : Own(i)' =>
          /\ (calls[i].who)' = k
          /\ (calls[i].call)' = call
    BY <2>2, <2>3, <2>5
  <2>7. \A i \in Pending' : Own(i)' => (entry[calls[i].who].phase)' = entry[k].phase'
    BY <2>6
  <2> QED BY <1>2, <2>5, <2>6, <2>7 DEF OneFlight, IsHead
<1> QED BY <1>1, <1>2

\* Replies of an entry's own scripts.
OwnReply(k) ==
  \/ GateReply(k) \/ ReclaimReply(k) \/ InsertReply(k) \/ RecheckReply(k)
  \/ ClickReply(k) \/ EnterReply(k) \/ CheckReply(k) \/ LastCheckReply(k)
  \/ CountedReclaimReply(k) \/ StepFailed(k)

Wipes == {"reclaim", "guard reclaim", "last reclaim"}

\* The script a handler of such a reply runs next.
Runs(pending, k, call) ==
  \/ call \in {"gate", "recheck"} /\ RunProbe(pending, k, call)
  \/ call = "click" /\ RunClick(pending, k)
  \/ call \in {"enter", "fallback"} /\ RunEnter(pending, k, call)
  \/ call \in {"check", "last check"} /\ RunCheck(pending, k, call)
  \/ call \in Wipes /\ RunClear(pending, k, call, last.hash)

\* What it leaves: the delivery is over, as sent only when its composer was seen
\* to be clear, or its entry is updated and one script of its phase has run or none.
Ends(k) ==
  /\ Handled
  /\ \E done, result :
       /\ k \in done /\ FinishSends(done, k, result)
       /\ result = "sent" =>
            /\ done = {k} \cup {m \in entry[k].batch : Queued(m)}
            /\ Head(calls).call \in {"check", "last check"} /\ Status = "cleared"
GoesOn(k, e) ==
  /\ SetEntry(k, e)
  /\ e.text = entry[k].text
  /\ e.phase \in {"find", "await"} =>
       /\ e.batch = entry[k].batch
       /\ \/ Head(calls).call \in {"recheck", "click", "enter", "fallback", "check", "last check"}
          \/ Head(calls).call = "insert" /\ Status = "ok"
  /\ \/ Handled
     \/ /\ Head(calls).call # "insert"
        /\ \E call \in Scripts \ SentinelCalls : Runs(rest, k, call) /\ e.phase \in PhasesOf(call)
Moves(k) == Ends(k) \/ \E e \in EntryShape : GoesOn(k, e)

\* It remembers what was typed and forgets what was wiped.
Remembers(k) ==
  IF Head(calls).call = "insert" /\ Status = "ok"
  THEN last' = [key |-> k, hash |-> Head(calls).text]
  ELSE last' = last \/ (Head(calls).call \in Wipes /\ last' = NoLast)

\* The reply at hand, when it is of an entry's own script.
AtHand(k) ==
  /\ k \in Keys /\ calls # <<>> /\ Own(1) /\ Head(calls).who = k
  /\ entry[k].phase \in PhasesOf(Head(calls).call)
  /\ entry[k] \in EntryShape

\* The reply of a script that looks at a text in the composer or submits it.
AtWork(k) ==
  /\ AtHand(k) /\ entry[k].phase \in {"find", "await"}
  /\ Head(calls).call \in {"recheck", "click", "enter", "fallback", "check", "last check"}

LEMMA RunsIssue ==
  ASSUME OwnTextInv, NEW pending, NEW k, NEW call, Runs(pending, k, call)
  PROVE  Issues(pending, k, call)
<1>1. {} \in Texts /\ last.hash \in Texts BY DEF OwnTextInv, LastInv, Texts
<1> QED BY <1>1, ScriptsIssue DEF Runs, OwnTextInv

LEMMA OwnReplyIsAtHand ==
  ASSUME OwnTextInv, OneFlight, NEW k \in Keys, OwnReply(k)
  PROVE  AtHand(k) /\ fetching = {} /\ fetching' = {} /\ IsHead(k) /\ may' = may
<1>1. /\ calls # <<>> /\ Head(calls).who = k /\ fetching' = fetching /\ may' = may
      /\ Head(calls).call \notin SentinelCalls
  BY DEF OwnReply, GateReply, HoldOn, HoldCleared, ReclaimReply, InsertReply, RecheckReply, ClickReply, EnterReply,
         CheckReply, LastCheckReply, CountedReclaimReply, StepFailed, Handles, SentinelCalls
<1>2. 1 \in Pending /\ calls[1] = Head(calls)
  BY <1>1 DEF Pending, OwnTextInv, PageInv
<1>3. Own(1) /\ calls[1].who = k BY <1>1, <1>2 DEF Own
<1>4. /\ IsHead(calls[1].who) /\ fetching = {}
      /\ entry[calls[1].who].phase \in PhasesOf(calls[1].call)
  BY <1>2, <1>3 DEF OneFlight
<1>5. entry[k] \in EntryShape BY DEF OwnTextInv, EntryInv
<1> QED BY <1>1, <1>2, <1>3, <1>4, <1>5 DEF AtHand

LEMMA FinishMoves ==
  ASSUME NEW k \in Keys, NEW result, result # "sent", FinishSend(k, result), Handled
  PROVE  Moves(k)
  BY DEF FinishSend, Moves, Ends

LEMMA BatchMoves ==
  ASSUME NEW k \in Keys, FinishBatchedSend(k), Handled, Status = "cleared",
         Head(calls).call \in {"check", "last check"}
  PROVE  Moves(k)
  BY DEF FinishBatchedSend, Moves, Ends

\* An entry that is not, or no longer, in its find or await phase.
LEMMA AsideMoves ==
  ASSUME NEW k \in Keys, NEW e \in EntryShape, SetEntry(k, e), e.text = entry[k].text,
         e.phase \notin {"find", "await"}, Handled
  PROVE  Moves(k)
  BY DEF Moves, GoesOn

\* An entry that is or stays there.
LEMMA WorkMoves ==
  ASSUME NEW k \in Keys, AtWork(k), NEW e \in EntryShape, SetEntry(k, e),
         e.text = entry[k].text, e.batch = entry[k].batch,
         \/ Handled
         \/ \E call \in Scripts \ SentinelCalls : Runs(rest, k, call) /\ e.phase \in PhasesOf(call)
  PROVE  Moves(k)
  BY DEF Moves, GoesOn, AtWork

LEMMA RestartMoves ==
  ASSUME NEW k \in Keys, AtHand(k), RestartAfterContextLoss(k), Handled
  PROVE  Moves(k)
<1> DEFINE e == [entry[k] EXCEPT !.phase = "insert", !.lost = @ + 1, !.fallback = FALSE,
                                 !.recheck = FALSE, !.escalated = FALSE]
<1>1. e \in EntryShape BY CountedShape DEF AtHand
<1>2. e.text = entry[k].text /\ e.phase = "insert" BY DEF AtHand, EntryShape
<1>3. FinishSend(k, "failed") \/ SetEntry(k, e) BY DEF RestartAfterContextLoss
<1> HIDE DEF e
<1> QED BY <1>1, <1>2, <1>3, FinishMoves, AsideMoves

LEMMA StartReclaimMoves ==
  ASSUME NEW k \in Keys, AtWork(k), NEW call \in {"guard reclaim", "last reclaim"},
         StartReclaim(k, call)
  PROVE  Moves(k)
<1> DEFINE e == [entry[k] EXCEPT !.reclaims = @ + 1]
<1>1. e \in EntryShape BY CountedShape DEF AtWork, AtHand
<1>2. e.phase = entry[k].phase /\ e.text = entry[k].text /\ e.batch = entry[k].batch
  BY DEF AtWork, AtHand, EntryShape
<1>3. SetEntry(k, e) /\ Runs(rest, k, call) BY DEF StartReclaim, Runs, Wipes
<1>4. call \in Scripts \ SentinelCalls /\ PhasesOf(call) = {"find", "await"}
  <2>1. CASE call = "guard reclaim" BY <2>1 DEF Scripts, SentinelCalls, PhasesOf
  <2>2. CASE call = "last reclaim" BY <2>2 DEF Scripts, SentinelCalls, PhasesOf
  <2> QED BY <2>1, <2>2
<1> HIDE DEF e
<1>5. e.phase \in PhasesOf(call) BY <1>2, <1>4 DEF AtWork
<1> QED BY <1>1, <1>2, <1>3, <1>4, <1>5, WorkMoves

LEMMA NextAttemptMoves ==
  ASSUME NEW k \in Keys, AtWork(k), NextAttempt(k)
  PROVE  Moves(k)
<1> DEFINE e == [entry[k] EXCEPT !.phase = "find", !.attempt = @ + 1, !.fallback = FALSE]
<1>1. CASE SetEntry(k, e) /\ Handled
  <2>1. e \in EntryShape BY CountedShape DEF AtWork, AtHand
  <2>2. e.text = entry[k].text /\ e.batch = entry[k].batch BY DEF AtWork, AtHand, EntryShape
  <2> HIDE DEF e
  <2> QED BY <1>1, <2>1, <2>2, WorkMoves
<1>2. CASE RunCheck(rest, k, "last check") /\ KeepEntry(k)
  <2>1. Runs(rest, k, "last check") BY <1>2 DEF Runs
  <2>2. "last check" \in Scripts \ SentinelCalls /\ entry[k].phase \in PhasesOf("last check")
    BY DEF Scripts, SentinelCalls, PhasesOf, AtWork
  <2> QED BY <1>2, <2>1, <2>2, WorkMoves DEF KeepEntry, AtWork, AtHand
<1> QED BY <1>1, <1>2 DEF NextAttempt

LEMMA SubmitReplyMoves ==
  ASSUME NEW k \in Keys, AtWork(k), NEW e \in EntryShape, e.text = entry[k].text,
         e.batch = entry[k].batch, SubmitReply(k, e)
  PROVE  Moves(k)
<1>1. CASE RestartAfterContextLoss(k) /\ Handled BY <1>1, RestartMoves DEF AtWork
<1>2. CASE FinishSend(k, "user-text-guard") /\ Handled BY <1>2, FinishMoves
<1>3. CASE StartReclaim(k, "guard reclaim") BY <1>3, StartReclaimMoves
<1>4. CASE SetEntry(k, [e EXCEPT !.phase = "await"]) /\ Handled
  <2> DEFINE f == [e EXCEPT !.phase = "await"]
  <2>1. f \in EntryShape /\ f.text = e.text /\ f.batch = e.batch BY DEF EntryShape, Phases
  <2> HIDE DEF f
  <2> QED BY <1>4, <2>1, WorkMoves DEF f
<1> QED BY <1>1, <1>2, <1>3, <1>4 DEF SubmitReply

LEMMA GateReplyMoves ==
  ASSUME OwnTextInv, NEW k \in Keys, AtHand(k), GateReply(k)
  PROVE  Moves(k)
<1>0. entry[k].phase = "hold" BY DEF AtHand, GateReply, Handles, PhasesOf
<1>1. CASE /\ RunClear(rest, k, "reclaim", last.hash)
           /\ UNCHANGED <<queue, entry, outcome, delivered>>
  <2>1. Runs(rest, k, "reclaim") BY <1>1 DEF Runs, Wipes
  <2>2. "reclaim" \in Scripts \ SentinelCalls /\ entry[k].phase \in PhasesOf("reclaim")
    BY <1>0 DEF Scripts, SentinelCalls, PhasesOf
  <2>3. SetEntry(k, entry[k]) BY <1>1 DEF SetEntry, OwnTextInv, EntryInv
  <2>4. Head(calls).call = "gate" BY DEF GateReply, Handles
  <2> QED BY <1>0, <2>1, <2>2, <2>3, <2>4 DEF Moves, GoesOn, AtHand
<1>2. CASE Handled
  <2>1. entry[k] \in EntryShape BY DEF AtHand
  <2>2. ASSUME NEW e \in EntryShape, e.text = entry[k].text, EnterInsertPhase(k, e)
        PROVE  Moves(k)
    <3>1. PICK fit \in SUBSET {m \in Keys \ {k} : Queued(m) /\ entry[m].phase = "hold"} :
            SetEntry(k, [e EXCEPT !.phase = "insert", !.batch = fit])
      BY <2>2 DEF EnterInsertPhase
    <3> DEFINE f == [e EXCEPT !.phase = "insert", !.batch = fit]
    <3>2. f \in EntryShape /\ f.text = e.text /\ f.phase = "insert" BY DEF EntryShape, Phases
    <3>3. SetEntry(k, f) BY <3>1
    <3> HIDE DEF f
    <3> QED BY <1>2, <2>2, <3>2, <3>3, AsideMoves
  <2>3. ASSUME NEW n \in Nat, NEW e, e = [entry[k] EXCEPT !.held = n]
        PROVE  e \in EntryShape /\ e.text = entry[k].text /\ e.phase = "hold"
    BY <1>0, <2>1, <2>3 DEF EntryShape
  <2>4. \/ \E n \in Nat : SetEntry(k, [entry[k] EXCEPT !.held = n])
        \/ FinishSend(k, "hold-timeout")
        \/ EnterInsertPhase(k, entry[k])
        \/ EnterInsertPhase(k, [entry[k] EXCEPT !.held = 0])
        \/ SetEntry(k, entry[k])
    <3>1. CASE UNCHANGED <<queue, entry, outcome, delivered>>
      BY <3>1 DEF SetEntry, OwnTextInv, EntryInv
    <3>2. entry[k].held + 1 \in Nat BY <2>1 DEF EntryShape
    <3>3. CASE SetEntry(k, [entry[k] EXCEPT !.held = @ + 1]) BY <3>2, <3>3
    <3>4. CASE SetEntry(k, [entry[k] EXCEPT !.held = 0]) BY <3>4
    <3> QED BY <3>1, <3>3, <3>4 DEF GateReply, HoldOn, HoldCleared
  <2>5. ASSUME NEW n \in Nat, SetEntry(k, [entry[k] EXCEPT !.held = n]) PROVE Moves(k)
    <3> DEFINE e == [entry[k] EXCEPT !.held = n]
    <3>1. e \in EntryShape /\ e.text = entry[k].text /\ e.phase = "hold" BY <2>3
    <3>2. SetEntry(k, e) BY <2>5
    <3> HIDE DEF e
    <3> QED BY <1>2, <3>1, <3>2, AsideMoves
  <2>6. ASSUME EnterInsertPhase(k, [entry[k] EXCEPT !.held = 0]) PROVE Moves(k)
    BY <2>2, <2>3, <2>6
  <2>7. ASSUME SetEntry(k, entry[k]) PROVE Moves(k)
    BY <1>0, <1>2, <2>1, <2>7, AsideMoves
  <2> QED BY <1>2, <2>1, <2>2, <2>4, <2>5, <2>6, <2>7, FinishMoves
<1> QED BY <1>1, <1>2 DEF GateReply, HoldOn, HoldCleared

LEMMA InsertReplyMoves ==
  ASSUME NEW k \in Keys, AtHand(k), InsertReply(k)
  PROVE  Moves(k)
<1>0. entry[k] \in EntryShape /\ Handled BY DEF AtHand, InsertReply
<1>1. CASE Status = "ok"
  <2> DEFINE e == [entry[k] EXCEPT !.phase = "find", !.attempt = 1,
                     !.fallback = FALSE, !.recheck = FALSE, !.escalated = FALSE]
  <2>1. e \in EntryShape /\ e.text = entry[k].text /\ e.batch = entry[k].batch
    BY <1>0 DEF EntryShape, Phases
  <2>2. SetEntry(k, e) /\ Head(calls).call = "insert" BY <1>1 DEF InsertReply, Handles
  <2> HIDE DEF e
  <2> QED BY <1>0, <1>1, <2>1, <2>2 DEF Moves, GoesOn
<1>2. CASE SetEntry(k, [entry[k] EXCEPT !.phase = "hold", !.batch = {}])
  <2> DEFINE e == [entry[k] EXCEPT !.phase = "hold", !.batch = {}]
  <2>1. e \in EntryShape /\ e.text = entry[k].text /\ e.phase = "hold"
    BY <1>0 DEF EntryShape, Phases
  <2> HIDE DEF e
  <2> QED BY <1>0, <1>2, <2>1, AsideMoves DEF e
<1>3. CASE FinishSend(k, "no-input") BY <1>0, <1>3, FinishMoves
<1> QED BY <1>1, <1>2, <1>3 DEF InsertReply

LEMMA RecheckReplyMoves ==
  ASSUME NEW k \in Keys, AtHand(k), RecheckReply(k)
  PROVE  Moves(k)
<1>1. PICK stuck \in BOOLEAN :
        /\ SetEntry(k, [entry[k] EXCEPT !.escalated = stuck])
        /\ RunEnter(rest, k, "enter") \/ RunClick(rest, k)
  BY DEF RecheckReply
<1> DEFINE e == [entry[k] EXCEPT !.escalated = stuck]
<1>2. /\ e \in EntryShape /\ e.phase = entry[k].phase
      /\ e.text = entry[k].text /\ e.batch = entry[k].batch
  BY DEF AtHand, EntryShape
<1>3. entry[k].phase = "find" /\ AtWork(k)
  BY DEF AtWork, AtHand, RecheckReply, Handles, PhasesOf
<1>4. SetEntry(k, e) /\ (Runs(rest, k, "enter") \/ Runs(rest, k, "click"))
  BY <1>1 DEF Runs
<1> HIDE DEF e
<1>5. /\ "enter" \in Scripts \ SentinelCalls /\ e.phase \in PhasesOf("enter")
      /\ "click" \in Scripts \ SentinelCalls /\ e.phase \in PhasesOf("click")
  BY <1>2, <1>3 DEF Scripts, SentinelCalls, PhasesOf
<1> QED BY <1>2, <1>3, <1>4, <1>5, WorkMoves

LEMMA ClickReplyMoves ==
  ASSUME NEW k \in Keys, AtHand(k), ClickReply(k)
  PROVE  Moves(k)
<1>1. entry[k].phase = "find" /\ AtWork(k)
  BY DEF AtWork, AtHand, ClickReply, Handles, PhasesOf
<1>2. CASE SubmitReply(k, [entry[k] EXCEPT !.recheck = TRUE])
  <2> DEFINE e == [entry[k] EXCEPT !.recheck = TRUE]
  <2>1. e \in EntryShape /\ e.text = entry[k].text /\ e.batch = entry[k].batch
    BY DEF AtHand, EntryShape
  <2> HIDE DEF e
  <2> QED BY <1>1, <1>2, <2>1, SubmitReplyMoves DEF e
<1>3. CASE /\ SetEntry(k, [entry[k] EXCEPT !.fallback = TRUE])
           /\ RunEnter(rest, k, "fallback")
  <2> DEFINE e == [entry[k] EXCEPT !.fallback = TRUE]
  <2>1. /\ e \in EntryShape /\ e.phase = "find"
        /\ e.text = entry[k].text /\ e.batch = entry[k].batch
    BY <1>1 DEF AtHand, EntryShape
  <2>2. SetEntry(k, e) /\ Runs(rest, k, "fallback") BY <1>3 DEF Runs
  <2> HIDE DEF e
  <2>3. "fallback" \in Scripts \ SentinelCalls /\ e.phase \in PhasesOf("fallback")
    BY <2>1 DEF Scripts, SentinelCalls, PhasesOf
  <2> QED BY <1>1, <2>1, <2>2, <2>3, WorkMoves
<1>4. CASE NextAttempt(k) BY <1>1, <1>4, NextAttemptMoves
<1> QED BY <1>2, <1>3, <1>4 DEF ClickReply

LEMMA OwnReplyMoves ==
  ASSUME OwnTextInv, OneFlight, NEW k \in Keys, OwnReply(k)
  PROVE  Moves(k) /\ Remembers(k)
<1>0. AtHand(k) /\ entry[k] \in EntryShape BY OwnReplyIsAtHand DEF AtHand
<1>1. CASE GateReply(k)
  BY <1>0, <1>1, GateReplyMoves DEF GateReply, Handles, Remembers
<1>2. CASE ReclaimReply(k) \/ StepFailed(k)
  <2>1. Remembers(k) BY <1>2 DEF ReclaimReply, StepFailed, Handles, Remembers, Wipes
  <2>2. SetEntry(k, entry[k]) /\ Handled BY <1>2 DEF ReclaimReply, StepFailed, KeepEntry
  <2>3. CASE entry[k].phase \notin {"find", "await"} BY <1>0, <2>1, <2>2, <2>3, AsideMoves
  <2>4. CASE entry[k].phase \in {"find", "await"}
    <3>1. Head(calls).call \in {"gate", "reclaim", "insert", "click", "enter", "fallback", "check"}
      BY <1>2 DEF ReclaimReply, StepFailed, Handles
    <3>2. Head(calls).call \notin {"gate", "reclaim", "insert"}
      BY <1>0, <2>4 DEF AtHand, PhasesOf
    <3>3. AtWork(k) BY <1>0, <2>4, <3>1, <3>2 DEF AtWork
    <3> QED BY <1>0, <2>1, <2>2, <3>3, WorkMoves
  <2> QED BY <2>3, <2>4
<1>3. CASE InsertReply(k)
  BY <1>0, <1>3, InsertReplyMoves DEF InsertReply, Handles, Remembers
<1>4. CASE RecheckReply(k)
  BY <1>0, <1>4, RecheckReplyMoves DEF RecheckReply, Handles, Remembers
<1>5. CASE ClickReply(k)
  BY <1>0, <1>5, ClickReplyMoves DEF ClickReply, Handles, Remembers
<1>6. CASE EnterReply(k)
  <2>1. AtWork(k) BY <1>0, <1>6 DEF AtWork, AtHand, EnterReply, Handles, PhasesOf
  <2> QED BY <1>0, <1>6, <2>1, SubmitReplyMoves, NextAttemptMoves
          DEF EnterReply, Handles, Remembers
<1>7. CASE CheckReply(k)
  <2>1. AtWork(k) /\ Head(calls).call = "check" /\ last' = last
    BY <1>0, <1>7 DEF AtWork, AtHand, CheckReply, Handles, PhasesOf
  <2> QED BY <1>0, <1>7, <2>1, RestartMoves, BatchMoves, NextAttemptMoves
          DEF CheckReply, Remembers
<1>8. CASE LastCheckReply(k)
  <2>1. AtWork(k) /\ Head(calls).call = "last check" /\ last' = last
    BY <1>0, <1>8 DEF AtWork, AtHand, LastCheckReply, Handles, PhasesOf
  <2> QED BY <1>0, <1>8, <2>1, BatchMoves, StartReclaimMoves DEF LastCheckReply, Remembers
<1>9. CASE CountedReclaimReply(k)
  <2> DEFINE e == [entry[k] EXCEPT !.phase = "hold", !.attempt = 0, !.fallback = FALSE,
                     !.recheck = FALSE, !.escalated = FALSE, !.lost = 0, !.batch = {}]
  <2>1. e \in EntryShape /\ e.text = entry[k].text /\ e.phase = "hold"
    BY <1>0 DEF EntryShape, Phases
  <2>2. \/ SetEntry(k, e)
        \/ \E result \in {"user-text-guard", "failed"} : FinishSend(k, result)
    BY <1>9 DEF CountedReclaimReply, BackToHold
  <2>3. Handled /\ Remembers(k) BY <1>9 DEF CountedReclaimReply, Handles, Remembers, Wipes
  <2> HIDE DEF e
  <2> QED BY <2>1, <2>2, <2>3, FinishMoves, AsideMoves
<1> QED BY <1>1, <1>2, <1>3, <1>4, <1>5, <1>6, <1>7, <1>8, <1>9 DEF OwnReply

----------------------------------------------------------------------------
(* One step in flight: the steps                                            *)

\* What FinishSends leaves of the entries and the queue.
LEMMA FinishLeaves ==
  ASSUME EntryInv, QueueInv, NEW done, NEW self, NEW result, FinishSends(done, self, result),
         \A m \in Keys : Past(m) => m = self
  PROVE  (\A m \in Keys : ~Past(m)') /\ QueueInv'
<1>1. queue' \in Seq(Keys)
  <2>1. queue' \in Seq({queue[j] : j \in 1..Len(queue)} \ done)
    BY WithoutKeeps DEF FinishSends, QueueInv
  <2>2. {queue[j] : j \in 1..Len(queue)} \ done \subseteq Keys BY DEF QueueInv
  <2> QED BY <2>1, <2>2, SeqMonotonic
<1>2. \A m \in Keys : entry'[m] = NoEntry \/ (entry'[m] = entry[m] /\ m # self)
  BY DEF FinishSends, EntryInv
<1>3. NoEntry.phase = "none" BY DEF NoEntry
<1> QED BY <1>1, <1>2, <1>3 DEF Past, QueueInv

\* Behind an entry's own reply there are only the sentinel's.
LEMMA RestIsSentinels ==
  ASSUME OwnTextInv, OneFlight, NEW k \in Keys, AtHand(k)
  PROVE  /\ rest \in Seq(CallShape)
         /\ \A i \in 1..Len(rest) : rest[i].call \in SentinelCalls
<1>1. calls \in Seq(CallShape) /\ calls # <<>> BY DEF AtHand, OwnTextInv, PageInv
<1>2. rest \in Seq(CallShape) /\ Len(calls) \in Nat \ {0}
  BY <1>1, RestIndex DEF rest
<1>3. ASSUME NEW i \in 1..Len(rest) PROVE rest[i].call \in SentinelCalls
  <2>1. i + 1 \in Pending /\ i + 1 # 1 /\ 1 \in Pending /\ rest[i] = calls[i + 1]
    BY <1>1, <1>2, RestIndex DEF rest, Pending
  <2>2. ~Own(i + 1) BY <2>1 DEF OneFlight, AtHand
  <2> QED BY <2>1, <2>2 DEF Own
<1> QED BY <1>2, <1>3

\* So there are before a step of an entry that has none in flight.
LEMMA IdleIsSentinels ==
  ASSUME OwnTextInv, OneFlight, NEW k \in Keys, IsHead(k),
         ~ \E i \in 1..Len(calls) : calls[i].who = k /\ calls[i].call \notin SentinelCalls
  PROVE  /\ calls \in Seq(CallShape)
         /\ \A i \in 1..Len(calls) : calls[i].call \in SentinelCalls
<1>1. \A i \in 1..Len(calls) : Own(i) => calls[i].who = k
  BY DEF OneFlight, Pending, IsHead
<1> QED BY <1>1 DEF Own, OwnTextInv, PageInv

LEMMA MovesKeepFlight ==
  ASSUME OwnTextInv, QueueInv, OneFlight, NEW k \in Keys, AtHand(k), fetching' = {}, Moves(k)
  PROVE  OneFlight' /\ QueueInv'
<1>1. IsHead(k)
  BY DEF AtHand, OneFlight, Own, Pending, OwnTextInv, PageInv
<1>2. \A m \in Keys : Past(m) => m = k BY <1>1 DEF OneFlight, IsHead
<1>3. CASE Ends(k)
  <2>1. (\A m \in Keys : ~Past(m)') /\ QueueInv' BY <1>2, <1>3, FinishLeaves DEF Ends, OwnTextInv
  <2> QED BY <1>3, <2>1, RestIsSentinels, FlightAfter DEF Ends, Handled
<1>4. ASSUME NEW e \in EntryShape, GoesOn(k, e) PROVE OneFlight' /\ QueueInv'
  <2>1. queue' = queue /\ entry' = [entry EXCEPT ![k] = e] BY <1>4 DEF GoesOn, SetEntry
  <2>2. IsHead(k)' /\ QueueInv' BY <1>1, <2>1 DEF IsHead, QueueInv
  <2>3. entry'[k] = e /\ \A m \in Keys \ {k} : entry'[m] = entry[m]
    BY <2>1 DEF OwnTextInv, EntryInv
  <2>4. \A m \in Keys : Past(m)' => IsHead(m)'
    BY <1>2, <2>2, <2>3 DEF Past
  <2>5. \/ calls' = rest
        \/ \E call \in Scripts \ SentinelCalls :
             Issues(rest, k, call) /\ IsHead(k)' /\ entry[k].phase' \in PhasesOf(call)
    BY <1>4, <2>2, <2>3, RunsIssue DEF GoesOn, Handled
  <2> QED BY <2>2, <2>4, <2>5, RestIsSentinels, FlightAfter
<1> QED BY <1>3, <1>4 DEF Moves

LEMMA AdvanceKeepsFlight ==
  ASSUME OwnTextInv, QueueInv, OneFlight, NEW k \in Keys, Advance(k)
  PROVE  OneFlight' /\ QueueInv'
<1>1. IsHead(k) /\ ~Busy(k) /\ queue' = queue /\ fetching' = fetching BY DEF Advance
<1>2. fetching' = {} BY <1>1 DEF Busy, OneFlight, IsHead
<1>3. IsHead(k)' /\ QueueInv' BY <1>1 DEF IsHead, QueueInv
<1>4. \A m \in Keys : entry'[m].phase = entry[m].phase
  BY DEF Advance, OwnTextInv, EntryInv, EntryShape
<1>5. \A m \in Keys : Past(m)' => IsHead(m)'
  BY <1>1, <1>4 DEF OneFlight, Past, IsHead
<1>6. PageInv /\ {} \in Texts BY DEF OwnTextInv, Texts
<1>7. \E call \in Scripts \ SentinelCalls :
        Issues(calls, k, call) /\ entry[k].phase \in PhasesOf(call)
  <2>1. \/ entry[k].phase = "hold" /\ Issues(calls, k, "gate")
        \/ entry[k].phase = "find" /\ Issues(calls, k, "recheck")
        \/ entry[k].phase = "find" /\ Issues(calls, k, "enter")
        \/ entry[k].phase = "find" /\ Issues(calls, k, "click")
        \/ entry[k].phase = "await" /\ Issues(calls, k, "check")
    BY <1>6, ScriptsIssue DEF Advance
  <2>2. /\ PhasesOf("gate") = {"hold"} /\ PhasesOf("check") = {"await"}
        /\ PhasesOf("recheck") = {"find"} /\ PhasesOf("enter") = {"find"}
        /\ PhasesOf("click") = {"find"}
    BY DEF PhasesOf
  <2>3. {"gate", "recheck", "enter", "click", "check"} \subseteq Scripts \ SentinelCalls
    BY DEF Scripts, SentinelCalls
  <2> QED BY <2>1, <2>2, <2>3
<1>8. /\ calls \in Seq(CallShape)
      /\ \A i \in 1..Len(calls) : calls[i].call \in SentinelCalls
  BY <1>1, IdleIsSentinels DEF Busy
<1> QED BY <1>2, <1>3, <1>4, <1>5, <1>7, <1>8, FlightAfter

LEMMA InsertKeepsFlight ==
  ASSUME OwnTextInv, QueueInv, OneFlight, NEW k \in Keys, Insert(k)
  PROVE  OneFlight' /\ QueueInv'
<1>1. /\ k \in fetching /\ queue' = queue /\ entry' = entry /\ fetching' = fetching \ {k}
      /\ RunInsert(calls, k, entry[k].text \cup entry[k].batch)
  BY DEF Insert, worker
<1>2. IsHead(k) /\ entry[k].phase = "insert" /\ fetching' = {}
  BY <1>1 DEF OneFlight, IsHead
<1>3. IsHead(k)' /\ QueueInv' BY <1>1, <1>2 DEF IsHead, QueueInv
<1>4. entry[k].text \cup entry[k].batch \in Texts
  BY DEF OwnTextInv, EntryInv, EntryShape, Texts
<1>5. Issues(calls, k, "insert") BY <1>1, <1>4, ScriptsIssue DEF OwnTextInv
<1>6. "insert" \in Scripts \ SentinelCalls /\ entry[k].phase' \in PhasesOf("insert")
  BY <1>1, <1>2 DEF Scripts, SentinelCalls, PhasesOf
<1>7. \A m \in Keys : Past(m)' => IsHead(m)'
  BY <1>1 DEF OneFlight, Past, IsHead
<1>8. /\ calls \in Seq(CallShape)
      /\ \A i \in 1..Len(calls) : calls[i].call \in SentinelCalls
  BY <1>1 DEF OneFlight, Own, Pending, OwnTextInv, PageInv
<1> QED BY <1>2, <1>3, <1>5, <1>6, <1>7, <1>8, FlightAfter

LEMMA TabGoneKeepsFlight ==
  ASSUME OwnTextInv, QueueInv, OneFlight, NEW k \in Keys, TabGone(k)
  PROVE  OneFlight' /\ QueueInv'
<1>1. /\ IsHead(k) /\ ~Busy(k) /\ FinishSends({k}, k, "tab-gone")
      /\ calls' = calls /\ fetching' = fetching
  BY DEF TabGone, FinishSend
<1>2. fetching' = {} BY <1>1 DEF Busy, OneFlight, IsHead
<1>3. \A m \in Keys : Past(m) => m = k BY <1>1 DEF OneFlight, IsHead
<1>4. (\A m \in Keys : ~Past(m)') /\ QueueInv' BY <1>1, <1>3, FinishLeaves DEF OwnTextInv
<1>5. /\ calls \in Seq(CallShape)
      /\ \A i \in 1..Len(calls) : calls[i].call \in SentinelCalls
  BY <1>1, IdleIsSentinels DEF Busy
<1> QED BY <1>1, <1>2, <1>4, <1>5, FlightAfter

\* A key that is queued goes to the end and has nothing in flight.
LEMMA EnqueueKeepsFlight ==
  ASSUME OwnTextInv, QueueInv, OneFlight, NEW k \in Keys, NEW text, Enqueue(k, text),
         ~Queued(k), ~Busy(k), fetching' = fetching,
         \A i \in Pending' : Own(i)' =>
           \E j \in Pending : Own(j) /\ calls[j] = calls'[i],
         \A i, j \in Pending' : Own(i)' /\ Own(j)' => i = j
  PROVE  OneFlight' /\ QueueInv'
<1>1. queue' = Append(queue, k) /\ entry' = [entry EXCEPT ![k] = FreshEntry(text)]
  BY DEF Enqueue
<1>2. QueueInv' BY <1>1, AppendProperties DEF QueueInv
<1>3. \A m \in Keys : IsHead(m) => IsHead(m)' /\ m # k
  <2> SUFFICES ASSUME NEW m \in Keys, IsHead(m) PROVE IsHead(m)' /\ m # k OBVIOUS
  <2>1. queue # <<>> /\ Head(queue) = m /\ queue \in Seq(Keys) BY DEF IsHead, QueueInv
  <2>2. 1 \in 1..Len(queue) /\ queue[1] = m BY <2>1
  <2>3. m # k BY <2>2 DEF Queued
  <2>4. queue' # <<>> /\ Head(queue') = m BY <1>1, <2>1, <2>2
  <2> QED BY <2>3, <2>4 DEF IsHead
<1>4. entry'[k].phase = "hold" /\ \A m \in Keys \ {k} : entry'[m] = entry[m]
  BY <1>1 DEF OwnTextInv, EntryInv, FreshEntry, NoEntry
<1>5. \A m \in Keys : Past(m)' => IsHead(m)'
  BY <1>3, <1>4 DEF OneFlight, Past
<1>6. \A m \in fetching' : m \in Keys /\ IsHead(m)' /\ entry'[m].phase = "insert"
  BY <1>3, <1>4 DEF OneFlight
<1>7. ASSUME NEW i \in Pending', Own(i)'
      PROVE  /\ calls'[i].who \in Keys /\ IsHead(calls[i].who)'
             /\ entry'[calls'[i].who].phase \in PhasesOf(calls'[i].call)
             /\ fetching' = {}
  <2>1. PICK j \in Pending : Own(j) /\ calls[j] = calls'[i] BY <1>7
  <2>2. /\ calls[j].who \in Keys /\ IsHead(calls[j].who) /\ fetching = {}
        /\ entry[calls[j].who].phase \in PhasesOf(calls[j].call)
    BY <2>1 DEF OneFlight
  <2>3. PICK u \in Keys : u = calls[j].who BY <2>2
  <2>4. u # k /\ queue' # <<>> /\ Head(queue') = u
    BY <1>3, <2>2, <2>3 DEF IsHead
  <2>5. calls'[i].who = u /\ calls'[i].call = calls[j].call BY <2>1, <2>3
  <2>6. entry'[u].phase \in PhasesOf(calls[j].call) BY <1>4, <2>2, <2>3, <2>4
  <2> QED BY <2>2, <2>4, <2>5, <2>6 DEF IsHead
<1> QED BY <1>2, <1>5, <1>6, <1>7 DEF OneFlight

\* The scripts of entries are as they were.
OwnKept ==
  /\ \A i \in Pending' : Own(i)' => \E j \in Pending : Own(j) /\ calls[j] = calls'[i]
  /\ \A i, j \in Pending' : Own(i)' /\ Own(j)' => i = j

LEMMA SameOwn ==
  ASSUME OneFlight, calls' = calls
  PROVE  OwnKept
  BY DEF OwnKept, OneFlight, Pending, Own

LEMMA RestKeepsOwn ==
  ASSUME OwnTextInv, OneFlight, calls # <<>>, calls' = rest
  PROVE  OwnKept
<1>1. calls \in Seq(CallShape) BY DEF OwnTextInv, PageInv
<1>2. \A i \in Pending' : i + 1 \in Pending /\ calls'[i] = calls[i + 1]
  BY <1>1, RestIndex DEF rest, Pending
<1>3. \A i \in Pending' : Own(i)' => Own(i + 1) BY <1>2 DEF Own
<1>4. \A i, j \in Pending' : Own(i)' /\ Own(j)' => i = j
  BY <1>2, <1>3 DEF OneFlight, Pending
<1> QED BY <1>2, <1>3, <1>4 DEF OwnKept

\* A script of the sentinel behind those of `pending`.
LEMMA SentinelIssued ==
  ASSUME OwnTextInv, OneFlight, NEW k \in Keys \cup {NoKey}, NEW call \in SentinelCalls,
         \/ Issues(calls, k, call)
         \/ calls # <<>> /\ Issues(rest, k, call)
  PROVE  OwnKept
<1>0. calls \in Seq(CallShape) BY DEF OwnTextInv, PageInv
<1>1. ASSUME NEW pending \in Seq(CallShape), NEW d \in Nat, Issues(pending, k, call),
             \A i \in 1..Len(pending) : i + d \in Pending /\ pending[i] = calls[i + d]
      PROVE  OwnKept
  <2>1. PICK status \in Statuses, text \in Texts :
          calls' = Append(pending, [who |-> k, call |-> call, status |-> status, text |-> text])
    BY <1>1 DEF Issues
  <2> DEFINE c == [who |-> k, call |-> call, status |-> status, text |-> text]
  <2>2. c.call = call OBVIOUS
  <2> HIDE DEF c
  <2>3. /\ Len(pending) \in Nat /\ Len(calls') = Len(pending) + 1 /\ calls'[Len(pending) + 1] = c
        /\ \A i \in 1..Len(pending) : calls'[i] = pending[i]
    BY <2>1, AppendIndex DEF c
  <2>4. \A i \in Pending' : Own(i)' => i # Len(pending) + 1
    BY <2>2, <2>3 DEF Own, Pending
  <2>5. \A i \in Pending' : Own(i)' => i \in 1..Len(pending)
    BY <2>3, <2>4 DEF Pending
  <2>6. \A i \in Pending' : Own(i)' => i + d \in Pending /\ calls'[i] = calls[i + d] /\ Own(i + d)
    BY <1>1, <2>3, <2>5 DEF Own
  <2>7. \A i, j \in Pending' : Own(i)' /\ Own(j)' => i = j
    <3> SUFFICES ASSUME NEW i \in Pending', NEW j \in Pending', Own(i)', Own(j)' PROVE i = j
      OBVIOUS
    <3>1. i + d = j + d BY <2>6 DEF OneFlight
    <3>2. i \in Nat /\ j \in Nat BY <2>3 DEF Pending
    <3> QED BY <3>1, <3>2
  <2> QED BY <2>6, <2>7 DEF OwnKept
<1>2. CASE Issues(calls, k, call)
  <2>1. \A i \in 1..Len(calls) : i + 0 \in Pending /\ calls[i] = calls[i + 0]
    BY <1>0 DEF Pending
  <2> QED BY <1>0, <1>1, <1>2, <2>1
<1>3. CASE calls # <<>> /\ Issues(rest, k, call)
  <2>1. rest \in Seq(CallShape) /\ \A i \in 1..Len(rest) : i + 1 \in Pending /\ rest[i] = calls[i + 1]
    BY <1>0, <1>3, RestIndex DEF rest, Pending
  <2> QED BY <1>1, <1>3, <2>1
<1> QED BY <1>2, <1>3

LEMMA OwnKeptKeepsFlight ==
  ASSUME OneFlight, OwnKept, UNCHANGED <<queue, entry, fetching>>
  PROVE  OneFlight'
<1>1. \A i \in Pending' : Own(i)' =>
        \E j \in Pending : Own(j) /\ calls[j].who = calls'[i].who /\ calls[j].call = calls'[i].call
  BY DEF OwnKept
<1>2. \A i \in Pending' : Own(i)' =>
        /\ calls'[i].who \in Keys /\ IsHead(calls'[i].who)
        /\ entry[calls'[i].who].phase \in PhasesOf(calls'[i].call)
        /\ fetching = {}
  BY <1>1 DEF OneFlight, IsHead
<1>3. \A k \in Keys : Past(k)' => IsHead(k)' BY DEF OneFlight, Past, IsHead
<1>4. \A k \in fetching' : k \in Keys /\ IsHead(k)' /\ entry'[k].phase = "insert"
  BY DEF OneFlight, IsHead
<1> QED BY <1>2, <1>3, <1>4 DEF OneFlight, OwnKept, IsHead

LEMMA QueueSendKeepsFlight ==
  ASSUME OwnTextInv, QueueInv, OneFlight, NEW k \in Keys, QueueSend(k)
  PROVE  OneFlight' /\ QueueInv'
<1>1. OwnKept BY SameOwn DEF QueueSend
<1> QED BY <1>1, EnqueueKeepsFlight DEF QueueSend, OwnKept

LEMMA FetchFooterKeepsFlight ==
  ASSUME OwnTextInv, QueueInv, OneFlight, NEW k \in Keys, FetchFooter(k)
  PROVE  OneFlight' /\ QueueInv'
<1>1. /\ IsHead(k) /\ ~Busy(k) /\ entry[k].phase = "insert" /\ fetching' = fetching \cup {k}
      /\ UNCHANGED <<queue, entry, calls>>
  BY DEF FetchFooter, worker
<1>2. \A i \in Pending : calls[i].call \in SentinelCalls
  BY <1>1, IdleIsSentinels DEF Busy, Pending
<1>3. \A i \in Pending' : ~Own(i)' BY <1>1, <1>2 DEF Pending, Own
<1>4. \A m \in fetching' : m \in Keys /\ IsHead(m)' /\ entry'[m].phase = "insert"
  BY <1>1 DEF OneFlight, IsHead
<1>5. \A m \in Keys : Past(m)' => IsHead(m)' BY <1>1 DEF OneFlight, Past, IsHead
<1> QED BY <1>1, <1>3, <1>4, <1>5 DEF OneFlight, QueueInv

LEMMA SentinelKeepsFlight ==
  ASSUME OwnTextInv, QueueInv, OneFlight,
         SentinelSweep \/ \E k \in Keys : SentinelReply(k) \/ HealReply(k)
  PROVE  OneFlight' /\ QueueInv'
<1>1. CASE SentinelSweep
  <2>1. UNCHANGED <<queue, entry, fetching>> /\ last.key \in Keys \cup {NoKey}
    BY <1>1 DEF SentinelSweep, worker, OwnTextInv, LastInv
  <2>2. Issues(calls, last.key, "sentinel")
    BY <1>1 DEF SentinelSweep, Reply, Issues, Statuses, Texts, OwnTextInv, LastInv
  <2>3. OwnKept BY <2>1, <2>2, SentinelIssued DEF SentinelCalls
  <2> QED BY <2>1, <2>3, OwnKeptKeepsFlight DEF QueueInv
<1>2. ASSUME NEW k \in Keys, SentinelReply(k) PROVE OneFlight' /\ QueueInv'
  <2>1. UNCHANGED <<queue, entry, fetching>> /\ calls # <<>>
    BY <1>2 DEF SentinelReply, worker, Handles
  <2>2. Head(calls).text \in Texts
    BY <2>1, HeadAndRest DEF OwnTextInv, CallShape
  <2>3. calls' = rest \/ Issues(rest, k, "heal")
    BY <1>2, <2>2, ScriptsIssue DEF SentinelReply, Handled, OwnTextInv
  <2>4. OwnKept BY <2>1, <2>3, RestKeepsOwn, SentinelIssued DEF SentinelCalls
  <2> QED BY <2>1, <2>4, OwnKeptKeepsFlight DEF QueueInv
<1>3. ASSUME NEW k \in Keys, HealReply(k) PROVE OneFlight' /\ QueueInv'
  <2>1. fetching' = fetching /\ calls # <<>> /\ calls' = rest
    BY <1>3 DEF HealReply, Handles, Handled
  <2>2. OwnKept BY <2>1, RestKeepsOwn
  <2>3. CASE ~Queued(k) /\ ~Busy(k) /\ Enqueue(k, Head(calls).text)
    BY <2>1, <2>2, <2>3, EnqueueKeepsFlight DEF OwnKept
  <2>4. CASE UNCHANGED <<queue, entry>>
    BY <2>1, <2>2, <2>4, OwnKeptKeepsFlight DEF QueueInv
  <2> QED BY <1>3, <2>3, <2>4 DEF HealReply
<1> QED BY <1>1, <1>2, <1>3

LEMMA AroundKeepsFlight ==
  ASSUME OwnTextInv, QueueInv, OneFlight, Around
  PROVE  OneFlight' /\ QueueInv'
<1>1. CASE UserTypes \/ UserErases \/ UserSends \/ UserPauses \/ Reload \/ Remount
  <2>1. UNCHANGED <<queue, entry, fetching, calls>>
    BY <1>1 DEF UserTypes, UserErases, UserSends, UserPauses, Reload, Remount, worker
  <2> QED BY <2>1, SameOwn, OwnKeptKeepsFlight DEF QueueInv
<1>2. CASE ScriptFails
  <2>1. /\ UNCHANGED <<queue, entry, fetching>> /\ calls \in Seq(CallShape) /\ calls # <<>>
        /\ calls' = [calls EXCEPT ![1].status = "error"]
    BY <1>2 DEF ScriptFails, worker, OwnTextInv, PageInv
  <2>2. Pending' = Pending /\ 1 \in Pending BY <2>1 DEF Pending
  <2>3. \A i \in Pending : calls'[i].who = calls[i].who /\ calls'[i].call = calls[i].call
    BY <2>1, <2>2 DEF CallShape, Pending
  <2>4. \A i \in Pending : Own(i)' <=> Own(i) BY <2>2, <2>3 DEF Own
  <2>5. \A i \in Pending' : Own(i)' =>
          /\ calls'[i].who \in Keys /\ IsHead(calls'[i].who)
          /\ entry[calls'[i].who].phase \in PhasesOf(calls'[i].call)
          /\ fetching = {}
    BY <2>2, <2>3, <2>4 DEF OneFlight
  <2>6. \A k \in Keys : Past(k)' => IsHead(k)' BY <2>1 DEF OneFlight, Past, IsHead
  <2>7. \A k \in fetching' : k \in Keys /\ IsHead(k)' /\ entry'[k].phase = "insert"
    BY <2>1 DEF OneFlight, IsHead
  <2>8. \A i, j \in Pending' : Own(i)' /\ Own(j)' => i = j BY <2>2, <2>4 DEF OneFlight
  <2> QED BY <2>1, <2>5, <2>6, <2>7, <2>8 DEF OneFlight, QueueInv, IsHead
<1>3. CASE CloseTab \/ WorkerRestarts
  <2>1. calls' = <<>> /\ fetching' = {} BY <1>3 DEF CloseTab, WorkerRestarts
  <2>2. \/ queue' = <<>> /\ entry' = [k \in Keys |-> NoEntry]
        \/ UNCHANGED <<queue, entry>>
    BY <1>3 DEF CloseTab, WorkerRestarts
  <2>3. \A k \in Keys : Past(k)' => IsHead(k)'
    BY <2>2 DEF OneFlight, Past, IsHead, NoEntry
  <2>4. QueueInv' BY <2>2, EmptySeq DEF QueueInv
  <2>5. Pending' = {} BY <2>1 DEF Pending
  <2> QED BY <2>1, <2>3, <2>4, <2>5 DEF OneFlight
<1> QED BY <1>1, <1>2, <1>3 DEF Around

----------------------------------------------------------------------------
(* The sentinel's script                                                    *)

\* A step that leaves its script where it is, with at most one script behind it.
LEMMA SentinelKept ==
  ASSUME OwnTextInv, OneSentinel, NEW k,
         calls' = calls \/ \E call \in Scripts \ SentinelCalls : Issues(calls, k, call),
         last' = last, \A m \in Keys : Past(m)' => Past(m)
  PROVE  OneSentinel'
<1>0. calls \in Seq(CallShape) BY DEF OwnTextInv, PageInv
<1>1. CASE calls' = calls BY <1>1 DEF OneSentinel, Pending, Own
<1>2. ASSUME NEW call \in Scripts \ SentinelCalls, Issues(calls, k, call) PROVE OneSentinel'
  <2>1. PICK status \in Statuses, text \in Texts :
          calls' = Append(calls, [who |-> k, call |-> call, status |-> status, text |-> text])
    BY <1>2 DEF Issues
  <2> DEFINE c == [who |-> k, call |-> call, status |-> status, text |-> text]
             n == Len(calls) + 1
  <2>2. c.call = call OBVIOUS
  <2> HIDE DEF c
  <2>3. /\ n \in Nat /\ Len(calls') = n /\ calls'[n] = c /\ calls'[n].call = call
        /\ \A i \in 1..Len(calls) : calls'[i] = calls[i]
    BY <1>0, <2>1, <2>2, AppendIndex DEF c
  <2>4. \A i \in Pending' : i # n => i \in Pending /\ i < n /\ calls'[i] = calls[i]
    BY <2>3 DEF Pending
  <2>5. \A i \in Pending' : ~Own(i)' => i # n BY <2>3 DEF Own
  <2>6. \A i \in Pending' : i # n => (Own(i)' <=> Own(i)) BY <2>4 DEF Own
  <2>7. \A i, j \in Pending' : ~Own(i)' /\ ~Own(j)' => i = j
    BY <2>4, <2>5, <2>6 DEF OneSentinel
  <2>8. \A i \in Pending' : calls'[i].call \in {"sentinel", "heal"} => i # n
    BY <2>3 DEF SentinelCalls
  <2>9. \A i \in Pending' : calls'[i].call = "sentinel" =>
          /\ i = 1
          /\ calls'[i].text = last'.hash
          /\ \A m \in Keys : ~Past(m)'
    BY <2>4, <2>8 DEF OneSentinel
  <2>10. \A i, j \in Pending' : calls'[i].call = "heal" /\ calls'[j].call = "insert" => i < j
    <3> SUFFICES ASSUME NEW i \in Pending', NEW j \in Pending', calls'[i].call = "heal",
                        calls'[j].call = "insert"
                 PROVE  i < j
      OBVIOUS
    <3>1. i \in Pending /\ i < n /\ calls[i].call = "heal" BY <2>4, <2>8
    <3> QED BY <2>4, <3>1 DEF OneSentinel
  <2> QED BY <2>7, <2>9, <2>10 DEF OneSentinel
<1> QED BY <1>1, <1>2

\* After an entry's own reply was handled, a look of the sentinel is not pending.
LEMMA SentinelRest ==
  ASSUME OwnTextInv, OneSentinel, NEW k \in Keys, AtHand(k),
         calls' = rest \/ \E call \in Scripts \ SentinelCalls : Issues(rest, k, call)
  PROVE  OneSentinel'
<1>0. /\ calls \in Seq(CallShape) /\ calls # <<>> /\ rest \in Seq(CallShape)
      /\ Len(rest) \in Nat
      /\ \A i \in 1..Len(rest) : i + 1 \in Pending /\ rest[i] = calls[i + 1]
  BY RestIndex DEF OwnTextInv, PageInv, AtHand, rest, Pending
<1>1. \A i \in 1..Len(rest) : rest[i].call # "sentinel"
  BY <1>0 DEF OneSentinel
<1>2. \A i, j \in 1..Len(rest) :
        rest[i].call \in SentinelCalls /\ rest[j].call \in SentinelCalls => i = j
  <2> SUFFICES ASSUME NEW i \in 1..Len(rest), NEW j \in 1..Len(rest),
                      rest[i].call \in SentinelCalls, rest[j].call \in SentinelCalls
               PROVE  i = j
    OBVIOUS
  <2>1. i + 1 = j + 1 BY <1>0 DEF OneSentinel, Own
  <2> QED BY <2>1
<1>3. \A i, j \in 1..Len(rest) : rest[i].call = "heal" /\ rest[j].call = "insert" => i < j
  <2> SUFFICES ASSUME NEW i \in 1..Len(rest), NEW j \in 1..Len(rest),
                      rest[i].call = "heal", rest[j].call = "insert"
               PROVE  i < j
    OBVIOUS
  <2>1. i + 1 < j + 1 BY <1>0 DEF OneSentinel
  <2> QED BY <2>1
<1>4. CASE calls' = rest
  BY <1>1, <1>2, <1>3, <1>4 DEF OneSentinel, Pending, Own
<1>5. ASSUME NEW call \in Scripts \ SentinelCalls, Issues(rest, k, call) PROVE OneSentinel'
  <2>1. PICK status \in Statuses, text \in Texts :
          calls' = Append(rest, [who |-> k, call |-> call, status |-> status, text |-> text])
    BY <1>5 DEF Issues
  <2> DEFINE c == [who |-> k, call |-> call, status |-> status, text |-> text]
             n == Len(rest) + 1
  <2>2. c.call = call OBVIOUS
  <2> HIDE DEF c
  <2>3. /\ n \in Nat /\ Len(calls') = n /\ calls'[n] = c /\ calls'[n].call = call
        /\ \A i \in 1..Len(rest) : calls'[i] = rest[i]
    BY <1>0, <2>1, <2>2, AppendIndex DEF c
  <2>4. \A i \in Pending' : i # n => i \in 1..Len(rest) /\ i < n /\ calls'[i] = rest[i]
    BY <2>3 DEF Pending
  <2>5. \A i \in Pending' : calls'[i].call \in SentinelCalls => i # n
    BY <2>3
  <2>6. \A i, j \in Pending' : ~Own(i)' /\ ~Own(j)' => i = j
    BY <1>2, <2>4, <2>5 DEF Own
  <2>7. \A i \in Pending' : calls'[i].call # "sentinel"
    BY <1>1, <2>4, <2>5 DEF SentinelCalls
  <2>8. \A i, j \in Pending' : calls'[i].call = "heal" /\ calls'[j].call = "insert" => i < j
    <3> SUFFICES ASSUME NEW i \in Pending', NEW j \in Pending', calls'[i].call = "heal",
                        calls'[j].call = "insert"
                 PROVE  i < j
      OBVIOUS
    <3>1. i \in 1..Len(rest) /\ i < n /\ rest[i].call = "heal"
      BY <2>4, <2>5 DEF SentinelCalls
    <3> QED BY <1>3, <2>4, <3>1
  <2> QED BY <2>6, <2>7, <2>8 DEF OneSentinel
<1> QED BY <1>4, <1>5

\* When the sentinel's reply is handled, all others are of entries.
LEMMA BehindTheSentinel ==
  ASSUME OwnTextInv, OneSentinel, calls # <<>>, Head(calls).call \in SentinelCalls
  PROVE  /\ rest \in Seq(CallShape) /\ Len(rest) \in Nat /\ 1 \in Pending /\ calls[1] = Head(calls)
         /\ \A i \in 1..Len(rest) : /\ i + 1 \in Pending /\ rest[i] = calls[i + 1]
                                    /\ rest[i].call \notin SentinelCalls
<1>0. /\ calls \in Seq(CallShape) /\ rest \in Seq(CallShape) /\ Len(rest) \in Nat
      /\ 1 \in Pending /\ calls[1] = Head(calls)
      /\ \A i \in 1..Len(rest) : i + 1 \in Pending /\ i + 1 # 1 /\ rest[i] = calls[i + 1]
  BY RestIndex DEF OwnTextInv, PageInv, rest, Pending
<1>1. ~Own(1) BY <1>0 DEF Own
<1>2. ASSUME NEW i \in 1..Len(rest) PROVE rest[i].call \notin SentinelCalls
  <2>1. Own(i + 1) BY <1>0, <1>1 DEF OneSentinel
  <2> QED BY <1>0, <2>1 DEF Own
<1> QED BY <1>0, <1>2

LEMMA SentinelStepsKeepSentinel ==
  ASSUME OwnTextInv, OneFlight, OneSentinel,
         SentinelSweep \/ \E k \in Keys : SentinelReply(k) \/ HealReply(k)
  PROVE  OneSentinel'
<1>0. calls \in Seq(CallShape) BY DEF OwnTextInv, PageInv
<1>1. CASE SentinelSweep
  <2>1. queue = <<>> /\ UNCHANGED <<queue, entry, last>>
    BY <1>1 DEF SentinelSweep, worker
  <2>2. \A i \in Pending : ~Own(i) BY <2>1 DEF OneFlight, IsHead
  <2>3. Len(calls) = 0
    <3>1. ~ \E i \in Pending : TRUE BY <1>1, <2>2 DEF SentinelSweep, Own, Pending
    <3>2. Len(calls) \in Nat /\ (Len(calls) # 0 => 1 \in Pending) BY <1>0 DEF Pending
    <3> QED BY <3>1, <3>2
  <2>4. PICK status \in Statuses :
          calls' = Append(calls, [who |-> last.key, call |-> "sentinel", status |-> status,
                                  text |-> last.hash])
    BY <1>1 DEF SentinelSweep, Reply, Statuses
  <2>5. calls' = <<[who |-> last.key, call |-> "sentinel", status |-> status,
                    text |-> last.hash]>>
    BY <1>0, <2>3, <2>4
  <2>6. Pending' = {1} /\ calls'[1].call = "sentinel" /\ calls'[1].text = last.hash
    BY <2>5 DEF Pending
  <2>7. \A k \in Keys : ~Past(k)' BY <2>1 DEF OneFlight, Past, IsHead
  <2> QED BY <2>1, <2>6, <2>7 DEF OneSentinel
<1>2. ASSUME NEW k \in Keys, SentinelReply(k) PROVE OneSentinel'
  <2>1. calls # <<>> /\ Head(calls).call = "sentinel" /\ UNCHANGED <<queue, entry, last>>
    BY <1>2 DEF SentinelReply, Handles, worker
  <2>2. /\ rest \in Seq(CallShape) /\ Len(rest) \in Nat /\ 1 \in Pending /\ calls[1] = Head(calls)
        /\ \A i \in 1..Len(rest) : /\ i + 1 \in Pending /\ rest[i] = calls[i + 1]
                                   /\ rest[i].call \notin SentinelCalls
    BY <2>1, BehindTheSentinel DEF SentinelCalls
  <2>3. \A m \in Keys : ~Past(m) BY <2>1, <2>2 DEF OneSentinel
  <2>4. \A i \in 1..Len(rest) : rest[i].call # "insert"
    <3> SUFFICES ASSUME NEW i \in 1..Len(rest), rest[i].call = "insert" PROVE FALSE OBVIOUS
    <3>1. Own(i + 1) /\ i + 1 \in Pending /\ calls[i + 1].call = "insert" BY <2>2 DEF Own
    <3>2. PhasesOf("insert") = {"insert"} BY DEF PhasesOf
    <3>3. Past(calls[i + 1].who) /\ calls[i + 1].who \in Keys
      BY <3>1, <3>2 DEF OneFlight, Past
    <3> QED BY <2>3, <3>3
  <2>5. CASE calls' = rest BY <2>2, <2>5 DEF OneSentinel, Pending, Own, SentinelCalls
  <2>6. CASE Issues(rest, k, "heal")
    <3>1. PICK status \in Statuses, text \in Texts :
            calls' = Append(rest, [who |-> k, call |-> "heal", status |-> status, text |-> text])
      BY <2>6 DEF Issues
    <3> DEFINE c == [who |-> k, call |-> "heal", status |-> status, text |-> text]
               n == Len(rest) + 1
    <3>2. c.call = "heal" OBVIOUS
    <3> HIDE DEF c
    <3>3. /\ n \in Nat /\ Len(calls') = n /\ calls'[n] = c /\ calls'[n].call = "heal"
          /\ \A i \in 1..Len(rest) : calls'[i] = rest[i]
      BY <2>2, <3>1, <3>2, AppendIndex DEF c
    <3>4. \A i \in Pending' : i # n => i \in 1..Len(rest) /\ calls'[i] = rest[i]
      BY <3>3 DEF Pending
    <3>5. \A i \in Pending' : i # n => Own(i)' BY <2>2, <3>4 DEF Own
    <3>6. \A i \in Pending' : calls'[i].call # "insert" BY <2>4, <3>3, <3>4
    <3>7. \A i \in Pending' : calls'[i].call # "sentinel"
      BY <2>2, <3>3, <3>4 DEF SentinelCalls
    <3> QED BY <3>5, <3>6, <3>7 DEF OneSentinel
  <2>7. calls' = rest \/ Issues(rest, k, "heal")
    <3>1. Head(calls).text \in Texts
      BY <2>1, HeadAndRest DEF OwnTextInv, CallShape
    <3> QED BY <1>2, <3>1, ScriptsIssue DEF SentinelReply, Handled, OwnTextInv
  <2> QED BY <2>5, <2>6, <2>7
<1>3. ASSUME NEW k \in Keys, HealReply(k) PROVE OneSentinel'
  <2>1. calls # <<>> /\ Head(calls).call = "heal" /\ calls' = rest
    BY <1>3 DEF HealReply, Handles, Handled
  <2>2. \A i \in 1..Len(rest) : rest[i].call \notin SentinelCalls
    BY <2>1, BehindTheSentinel DEF SentinelCalls
  <2>3. \A i \in Pending' : Own(i)' BY <2>1, <2>2 DEF Pending, Own
  <2> QED BY <2>3 DEF OneSentinel, Own, SentinelCalls
<1> QED BY <1>1, <1>2, <1>3

LEMMA AroundKeepsSentinel ==
  ASSUME OwnTextInv, OneSentinel, Around
  PROVE  OneSentinel'
<1>1. CASE UserTypes \/ UserErases \/ UserSends \/ UserPauses \/ Reload \/ Remount
  <2>1. UNCHANGED <<entry, last, calls>>
    BY <1>1 DEF UserTypes, UserErases, UserSends, UserPauses, Reload, Remount, worker
  <2> QED BY <2>1 DEF OneSentinel, Pending, Own, Past
<1>2. CASE ScriptFails
  <2>1. /\ UNCHANGED <<entry, last>> /\ calls \in Seq(CallShape) /\ calls # <<>>
        /\ calls' = [calls EXCEPT ![1].status = "error"]
    BY <1>2 DEF ScriptFails, worker, OwnTextInv, PageInv
  <2>2. Pending' = Pending /\ 1 \in Pending BY <2>1 DEF Pending
  <2>3. \A i \in Pending : calls'[i].text = calls[i].text /\ calls'[i].call = calls[i].call
    BY <2>1, <2>2 DEF CallShape, Pending
  <2>4. \A i \in Pending : Own(i)' <=> Own(i) BY <2>2, <2>3 DEF Own
  <2>5. \A m \in Keys : Past(m)' <=> Past(m) BY <2>1 DEF Past
  <2> QED BY <2>1, <2>2, <2>3, <2>4, <2>5 DEF OneSentinel
<1>3. CASE CloseTab \/ WorkerRestarts
  <2>1. Pending' = {} BY <1>3 DEF CloseTab, WorkerRestarts, Pending
  <2> QED BY <2>1 DEF OneSentinel
<1> QED BY <1>1, <1>2, <1>3 DEF Around

----------------------------------------------------------------------------
(* Putting it together                                                      *)

LEMMA MayStays ==
  ASSUME [Next]_vars
  PROVE  may' = may
<1>1. CASE UNCHANGED vars BY <1>1 DEF vars
<1>2. CASE SentinelSweep BY <1>2 DEF SentinelSweep
<1>3. ASSUME NEW k \in Keys, HandleReply(k) PROVE may' = may
  BY <1>3 DEF HandleReply, GateReply, HoldOn, HoldCleared, ReclaimReply, InsertReply, RecheckReply, ClickReply,
              EnterReply, CheckReply, LastCheckReply, CountedReclaimReply, StepFailed,
              SentinelReply, HealReply, Handles
<1>4. ASSUME NEW k \in Keys,
             QueueSend(k) \/ ForceFlush(k) \/ TabGone(k) \/ Advance(k)
               \/ FetchFooter(k) \/ Insert(k)
      PROVE  may' = may
  BY <1>4 DEF QueueSend, ForceFlush, TabGone, Advance, FetchFooter, Insert
<1>5. CASE Around
  BY <1>5 DEF Around, UserTypes, UserErases, UserSends, UserPauses, Reload, Remount,
              ScriptFails, CloseTab, WorkerRestarts
<1> QED BY <1>1, <1>2, <1>3, <1>4, <1>5 DEF Next, Machine

\* A head's step and the steps of a queue
QueueStep(k) == QueueSend(k) \/ TabGone(k) \/ Advance(k) \/ FetchFooter(k) \/ Insert(k)

\* The steps there are when nothing is flushed.
LEMMA Steps ==
  ASSUME Next, "flush" \notin may
  PROVE  \/ \E k \in Keys : QueueStep(k) \/ OwnReply(k)
         \/ SentinelSweep \/ \E k \in Keys : SentinelReply(k) \/ HealReply(k)
         \/ Around
<1>1. CASE Around BY <1>1
<1>2. CASE SentinelSweep BY <1>2
<1>3. ASSUME NEW k \in Keys, HandleReply(k)
      PROVE  OwnReply(k) \/ SentinelReply(k) \/ HealReply(k)
  BY <1>3 DEF HandleReply, OwnReply
<1>4. ASSUME NEW k \in Keys,
             QueueSend(k) \/ ForceFlush(k) \/ TabGone(k) \/ Advance(k)
               \/ FetchFooter(k) \/ Insert(k)
      PROVE  QueueStep(k)
  BY <1>4 DEF QueueStep, ForceFlush
<1> QED BY <1>1, <1>2, <1>3, <1>4 DEF Next, Machine

LEMMA QueueStepKeepsFlight ==
  ASSUME OwnTextInv, QueueInv, OneFlight, OneSentinel, NEW k \in Keys, QueueStep(k)
  PROVE  QueueInv' /\ OneFlight' /\ OneSentinel'
<1>1. OneFlight' /\ QueueInv'
  BY QueueSendKeepsFlight, TabGoneKeepsFlight, AdvanceKeepsFlight, FetchFooterKeepsFlight,
     InsertKeepsFlight DEF QueueStep
<1>2. CASE QueueSend(k)
  <2>1. calls' = calls /\ last' = last /\ entry' = [entry EXCEPT ![k] = FreshEntry({k})]
    BY <1>2 DEF QueueSend, Enqueue
  <2>2. FreshEntry({k}).phase = "hold" BY DEF FreshEntry, NoEntry
  <2>3. \A m \in Keys : Past(m)' => Past(m)
    BY <2>1, <2>2 DEF Past, OwnTextInv, EntryInv
  <2> QED BY <1>1, <2>1, <2>3, SentinelKept
<1>3. CASE TabGone(k)
  <2>1. IsHead(k) /\ calls' = calls /\ last' = last /\ FinishSends({k}, k, "tab-gone")
    BY <1>3 DEF TabGone, FinishSend
  <2>2. \A m \in Keys : Past(m) => m = k BY <2>1 DEF OneFlight, IsHead
  <2>3. \A m \in Keys : ~Past(m)' BY <2>1, <2>2, FinishLeaves DEF OwnTextInv
  <2> QED BY <1>1, <2>1, <2>3, SentinelKept
<1>4. CASE FetchFooter(k)
  <2>1. UNCHANGED <<calls, last, entry>> BY <1>4 DEF FetchFooter, worker
  <2> QED BY <1>1, <2>1, SentinelKept DEF Past
<1>5. CASE Insert(k)
  <2>1. last' = last /\ entry' = entry BY <1>5 DEF Insert, worker
  <2>2. entry[k].text \cup entry[k].batch \in Texts
    BY DEF OwnTextInv, EntryInv, EntryShape, Texts
  <2>3. Issues(calls, k, "insert") BY <1>5, <2>2, ScriptsIssue DEF Insert, OwnTextInv
  <2> QED BY <1>1, <2>1, <2>3, SentinelKept DEF Past, Scripts, SentinelCalls
<1>6. CASE Advance(k)
  <2>1. last' = last /\ \A m \in Keys : Past(m)' => Past(m)
    BY <1>6 DEF Advance, Past, OwnTextInv, EntryInv, EntryShape
  <2>2. \/ Issues(calls, k, "gate") \/ Issues(calls, k, "recheck") \/ Issues(calls, k, "enter")
        \/ Issues(calls, k, "click") \/ Issues(calls, k, "check")
    <3>1. {} \in Texts BY DEF Texts
    <3> QED BY <1>6, <3>1, ScriptsIssue DEF Advance, OwnTextInv
  <2>3. {"gate", "recheck", "enter", "click", "check"} \subseteq Scripts \ SentinelCalls
    BY DEF Scripts, SentinelCalls
  <2>4. \E call \in Scripts \ SentinelCalls : Issues(calls, k, call) BY <2>2, <2>3
  <2> QED BY <1>1, <2>1, <2>4, SentinelKept
<1> QED BY <1>2, <1>3, <1>4, <1>5, <1>6 DEF QueueStep

LEMMA OwnReplyKeepsFlight ==
  ASSUME OwnTextInv, QueueInv, OneFlight, OneSentinel, NEW k \in Keys, OwnReply(k)
  PROVE  QueueInv' /\ OneFlight' /\ OneSentinel'
<1>1. AtHand(k) /\ fetching' = {} /\ Moves(k) BY OwnReplyIsAtHand, OwnReplyMoves
<1>2. OneFlight' /\ QueueInv' BY <1>1, MovesKeepFlight
<1>3. calls' = rest \/ \E call \in Scripts \ SentinelCalls : Issues(rest, k, call)
  BY <1>1, RunsIssue DEF Moves, Ends, GoesOn, Handled
<1> QED BY <1>1, <1>2, <1>3, SentinelRest

LEMMA StepKeepsFlight ==
  ASSUME OwnTextInv, FlightInv, [Next]_vars
  PROVE  FlightInv'
<1>0. may' = may BY MayStays
<1> SUFFICES ASSUME "flush" \notin may PROVE (QueueInv /\ OneFlight /\ OneSentinel)'
  BY <1>0 DEF FlightInv
<1> USE DEF FlightInv
<1>1. CASE UNCHANGED vars
  <2>1. UNCHANGED <<queue, entry, last, calls, fetching>> BY <1>1 DEF vars, worker
  <2> QED BY <2>1 DEF QueueInv, OneFlight, OneSentinel, Pending, Own, Past, IsHead
<1>2. CASE Around BY <1>2, AroundKeepsFlight, AroundKeepsSentinel
<1>3. CASE SentinelSweep \/ \E k \in Keys : SentinelReply(k) \/ HealReply(k)
  BY <1>3, SentinelKeepsFlight, SentinelStepsKeepSentinel
<1>4. ASSUME NEW k \in Keys, QueueStep(k) \/ OwnReply(k)
      PROVE  (QueueInv /\ OneFlight /\ OneSentinel)'
  BY <1>4, QueueStepKeepsFlight, OwnReplyKeepsFlight
<1> QED BY <1>1, <1>2, <1>3, <1>4, Steps

\* Unless a flush puts another key at the head, one delivery of a tab at a time
\* is past its hold and has one step in flight, and the sentinel never looks
\* while one is.
THEOREM OneStepInFlight == Spec => []FlightInv
<1>1. Init => FlightInv
  <2> SUFFICES ASSUME Init PROVE QueueInv /\ OneFlight /\ OneSentinel BY DEF FlightInv
  <2>1. Pending = {} BY DEF Init, Pending
  <2> QED BY <2>1 DEF Init, QueueInv, OneFlight, OneSentinel, Past, NoEntry
<1>2. OwnTextInv /\ FlightInv /\ [Next]_vars => FlightInv' BY StepKeepsFlight
<1> QED BY <1>1, <1>2, OwnTextIsOwn, PTL DEF Spec

----------------------------------------------------------------------------
(* Sent means landed: what was typed for a delivery is in the composer, or  *)
(* was submitted, as long as the document is the one it was typed into.     *)

TextOf(k) == entry[k].text \cup entry[k].batch
Landed(T) == \A x \in T : landed[x] > 0
There(k, T) == marker = k => T \subseteq composer \/ Landed(T)

LandedShape == landed \in [Keys \cup Words -> Nat]

\* A text is that of the delivery it is typed for, among others.
OwnPart ==
  /\ \A k \in Keys : entry[k].phase # "none" => k \in entry[k].text
  /\ last = NoLast \/ (last.key \in Keys /\ last.key \in last.hash)
  /\ \A i \in Pending : ~Own(i) => calls[i].who \in calls[i].text

\* A wipe that an entry asked for, after which it does not look at the composer again.
WipeIn == \E i \in Pending : Own(i) /\ calls[i].call \in Wipes

LandInv ==
  /\ mounted
  /\ \A i \in Pending : Own(i) /\ calls[i].call = "insert" /\ calls[i].status = "ok" =>
       calls[i].text = TextOf(calls[i].who) /\ There(calls[i].who, calls[i].text)
  /\ \A k \in Keys : entry[k].phase \in {"find", "await"} => There(k, TextOf(k)) \/ WipeIn
  /\ \A i \in Pending :
       Own(i) /\ calls[i].call \in {"check", "last check"} /\ calls[i].status = "cleared" =>
         Landed(TextOf(calls[i].who))

\* The invariant, as long as only the extension empties the composer unsent.
SentParts == LandedShape /\ OwnPart /\ LandInv /\ SentAlwaysMeansLanded
SentInv == may \cap {"erase", "unmount", "flush"} = {} => SentParts

\* A step of the page after which what was typed is still there or was submitted.
LosesNothing ==
  /\ mounted'
  /\ \A T \in SUBSET Keys : Landed(T) => Landed(T)'
  /\ \A k \in Keys, T \in SUBSET Keys : There(k, T) => There(k, T)'

LEMMA ReadingLosesNothing ==
  ASSUME mounted, UNCHANGED <<page, landed>>
  PROVE  LosesNothing
  BY DEF LosesNothing, There, Landed, page

LEMMA SubmitLosesNothing ==
  ASSUME OwnTextInv, LandedShape, mounted, mounted' = mounted, marker' = marker, Submit
  PROVE  LosesNothing /\ LandedShape'
<1>1. landed' = Landing(composer) /\ composer \in Texts BY DEF Submit, OwnTextInv, PageInv
<1>2. \A x \in Keys \cup Words :
        /\ landed'[x] \in Nat
        /\ landed[x] > 0 => landed'[x] > 0
        /\ x \in composer => landed'[x] > 0
  BY <1>1, LimitsAssumption DEF Landing, LandedShape
<1>3. LandedShape' BY <1>1, <1>2 DEF Landing, LandedShape
<1>4. \A T \in SUBSET Keys : Landed(T) \/ T \subseteq composer => Landed(T)'
  BY <1>2 DEF Landed
<1> QED BY <1>3, <1>4 DEF LosesNothing, There

\* The scripts that look and those that submit
LEMMA RunSubmitLosesNothing ==
  ASSUME OwnTextInv, LandedShape, mounted, NEW pending, NEW k, NEW call,
         RunSubmit(pending, k, call)
  PROVE  LosesNothing /\ LandedShape'
<1>1. CASE UNCHANGED <<page, landed>> BY <1>1, ReadingLosesNothing DEF LandedShape
<1>2. CASE SubmitOrNot /\ UNCHANGED <<mounted, marker, markHash, typed, recent>>
  <2>1. CASE Submit BY <1>2, <2>1, SubmitLosesNothing
  <2>2. CASE UNCHANGED <<composer, landed>>
    BY <1>2, <2>2, ReadingLosesNothing DEF LandedShape, page
  <2> QED BY <1>2, <2>1, <2>2 DEF SubmitOrNot
<1> QED BY <1>1, <1>2 DEF RunSubmit

LEMMA WorkLosesNothing ==
  ASSUME OwnTextInv, LandedShape, mounted, NEW pending, NEW k, NEW call,
         \/ RunProbe(pending, k, call) \/ RunCheck(pending, k, call)
         \/ RunClick(pending, k) \/ RunEnter(pending, k, call)
  PROVE  LosesNothing /\ LandedShape'
<1>1. CASE UNCHANGED <<page, landed>> BY <1>1, ReadingLosesNothing DEF LandedShape
<1>2. CASE RunSubmit(pending, k, "click") BY <1>2, RunSubmitLosesNothing
<1>3. CASE RunSubmit(pending, k, call) BY <1>3, RunSubmitLosesNothing
<1> QED BY <1>1, <1>2, <1>3 DEF RunProbe, RunCheck, RunClick, RunEnter, ContextLost

\* A check whose composer is clear only when a text was submitted.
Sees(pending, k, call, T) ==
  \E status \in Statuses, text \in Texts :
    /\ calls' = Append(pending, [who |-> k, call |-> call, status |-> status, text |-> text])
    /\ status = "cleared" => Landed(T)

\* A look that finds the composer clear, in the document of a text that had a part.
LEMMA CheckMeansLanded ==
  ASSUME mounted, NEW pending, NEW k \in Keys, NEW call, NEW T, T # {}, There(k, T),
         RunCheck(pending, k, call)
  PROVE  landed' = landed /\ Sees(pending, k, call, T)
<1>0. {} \in Texts /\ {"context lost", "full", "cleared"} \subseteq Statuses
  BY DEF Texts, Statuses
<1>1. landed' = landed BY DEF RunCheck, ContextLost
<1>2. ASSUME NEW status \in Statuses, Reply(pending, k, call, status, {}),
             status = "cleared" => Landed(T)
      PROVE  Sees(pending, k, call, T)
  BY <1>0, <1>2 DEF Reply, Sees
<1>3. CASE ContextLost(pending, k, call)
  BY <1>0, <1>1, <1>2, <1>3 DEF ContextLost
<1>4. CASE marker = k /\ Reply(pending, k, call, IF Shown = {} THEN "cleared" ELSE "full", {})
  <2>1. Shown = {} => Landed(T) BY <1>4 DEF Shown, There
  <2>2. CASE Shown = {} BY <1>0, <1>1, <1>2, <1>4, <2>1, <2>2
  <2>3. CASE Shown # {} BY <1>0, <1>1, <1>2, <1>4, <2>3
  <2> QED BY <2>2, <2>3
<1> QED BY <1>3, <1>4 DEF RunCheck

\* A wipe submits nothing.
LEMMA ClearLandsNothing ==
  ASSUME mounted, NEW pending, NEW k, NEW call, NEW text, RunClear(pending, k, call, text)
  PROVE  mounted' /\ landed' = landed
  BY DEF RunClear, page

\* A step after which the head has at most one script in flight, and not an insert.
LEMMA LandAfter ==
  ASSUME NEW pending \in Seq(CallShape),
         \A i \in 1..Len(pending) : pending[i].call \in SentinelCalls,
         NEW k \in Keys, mounted',
         \/ calls' = pending
         \/ \E call \in Scripts \ (SentinelCalls \cup {"insert"}),
               status \in Statuses, text \in Texts :
              /\ calls' = Append(pending, [who |-> k, call |-> call, status |-> status, text |-> text])
              /\ call \in {"check", "last check"} /\ status = "cleared" => Landed(TextOf(k))',
         \A m \in Keys : entry'[m].phase \in {"find", "await"} =>
           m = k /\ (There(k, TextOf(k))' \/ WipeIn')
  PROVE  LandInv'
<1>1. \A m \in Keys : entry'[m].phase \in {"find", "await"} => There(m, TextOf(m))' \/ WipeIn'
  OBVIOUS
<1>2. CASE calls' = pending
  <2>1. \A i \in Pending' : ~Own(i)' BY <1>2 DEF Pending, Own
  <2> QED BY <1>1, <2>1 DEF LandInv
<1>3. ASSUME NEW call \in Scripts \ (SentinelCalls \cup {"insert"}),
             NEW status \in Statuses, NEW text \in Texts,
             calls' = Append(pending, [who |-> k, call |-> call, status |-> status, text |-> text]),
             call \in {"check", "last check"} /\ status = "cleared" => Landed(TextOf(k))'
      PROVE  LandInv'
  <2> DEFINE c == [who |-> k, call |-> call, status |-> status, text |-> text]
             n == Len(pending) + 1
  <2>0. calls' = Append(pending, c) BY <1>3
  <2>1. c.who = k /\ c.call = call /\ c.status = status OBVIOUS
  <2> HIDE DEF c
  <2>2. /\ Len(pending) \in Nat /\ Len(calls') = n /\ calls'[n] = c
        /\ \A i \in 1..Len(pending) : calls'[i] = pending[i]
    <3>1. pending \in Seq(CallShape) OBVIOUS
    <3> QED BY ONLY <2>0, <3>1, AppendIndex
  <2>3. \A i \in Pending' : Own(i)' => i = n
    <3>1. \A i \in Pending' : i # n => i \in 1..Len(pending)
      BY ONLY <2>2 DEF Pending
    <3> QED BY <2>2, <3>1 DEF Own
  <2>4. \A i \in Pending' : Own(i)' =>
          calls'[i].who = k /\ calls'[i].call = call /\ calls'[i].status = status
    BY <2>1, <2>2, <2>3
  <2>5. \A i \in Pending' :
          Own(i)' /\ calls'[i].call \in {"check", "last check"} /\ calls'[i].status = "cleared" =>
            Landed(TextOf(calls[i].who))'
    BY <1>3, <2>4 DEF Landed, TextOf
  <2>6. \A i \in Pending' : Own(i)' => calls'[i].call # "insert" BY <2>4
  <2> QED BY <1>1, <2>5, <2>6 DEF LandInv
<1> QED BY <1>2, <1>3

\* The sentinel's replies keep their shape.
LEMMA SentinelPart ==
  ASSUME NEW pending \in Seq(CallShape), NEW k,
         \A i \in 1..Len(pending) :
           pending[i].call \in SentinelCalls => pending[i].who \in pending[i].text,
         calls' = pending \/ \E call \in Scripts \ SentinelCalls : Issues(pending, k, call)
  PROVE  \A i \in Pending' : ~Own(i)' => calls'[i].who \in calls'[i].text
<1>1. CASE calls' = pending BY <1>1 DEF Pending, Own
<1>2. ASSUME NEW call \in Scripts \ SentinelCalls, Issues(pending, k, call)
      PROVE  \A i \in Pending' : ~Own(i)' => calls'[i].who \in calls'[i].text
  <2>1. PICK status \in Statuses, text \in Texts :
          calls' = Append(pending, [who |-> k, call |-> call, status |-> status, text |-> text])
    BY <1>2 DEF Issues
  <2> DEFINE c == [who |-> k, call |-> call, status |-> status, text |-> text]
             n == Len(pending) + 1
  <2>2. c.call = call OBVIOUS
  <2> HIDE DEF c
  <2>3. /\ n \in Nat /\ Len(calls') = n /\ calls'[n] = c
        /\ \A i \in 1..Len(pending) : calls'[i] = pending[i]
    BY <2>1, AppendIndex DEF c
  <2>4. \A i \in Pending' : ~Own(i)' => i \in 1..Len(pending) /\ calls'[i] = pending[i]
    BY <2>2, <2>3 DEF Pending, Own
  <2> QED BY <2>4 DEF Own
<1> QED BY <1>1, <1>2

LEMMA RestParts ==
  ASSUME OwnTextInv, OwnPart, calls # <<>>
  PROVE  /\ rest \in Seq(CallShape)
         /\ \A i \in 1..Len(rest) :
              rest[i].call \in SentinelCalls => rest[i].who \in rest[i].text
<1>1. calls \in Seq(CallShape) BY DEF OwnTextInv, PageInv
<1>2. \A i \in 1..Len(rest) : i + 1 \in Pending /\ rest[i] = calls[i + 1]
  BY <1>1, RestIndex DEF rest, Pending
<1>3. rest \in Seq(CallShape) BY <1>1, RestIndex DEF rest
<1> QED BY <1>2, <1>3 DEF OwnPart, Own

\* An entry's own reply: what its text came to
LEMMA ThereAtHand ==
  ASSUME OneFlight, LandInv, OwnTextInv, NEW k \in Keys, AtHand(k)
  PROVE  /\ Head(calls).call \in {"recheck", "click", "enter", "fallback", "check", "last check"}
              => There(k, TextOf(k))
         /\ Head(calls).call = "insert" /\ Status = "ok"
              => There(k, TextOf(k)) /\ Head(calls).text = TextOf(k)
         /\ Head(calls).call \in {"check", "last check"} /\ Status = "cleared"
              => Landed(TextOf(k))
<1>1. 1 \in Pending /\ calls[1] = Head(calls) /\ Own(1) /\ calls[1].who = k
  BY DEF AtHand, OwnTextInv, PageInv, Pending
<1>2. WipeIn => Head(calls).call \in Wipes BY <1>1 DEF WipeIn, OneFlight
<1>3. CASE Head(calls).call \in {"recheck", "click", "enter", "fallback", "check", "last check"}
  <2>1. entry[k].phase \in {"find", "await"} BY <1>3 DEF AtHand, PhasesOf
  <2>2. ~WipeIn BY <1>2, <1>3 DEF Wipes
  <2>3. There(k, TextOf(k)) BY <2>1, <2>2 DEF LandInv
  <2> QED BY <1>1, <1>3, <2>3 DEF LandInv, Status
<1>4. CASE Head(calls).call = "insert" /\ Status = "ok"
  BY <1>1, <1>4 DEF LandInv, Status
<1> QED BY <1>3, <1>4

\* A script of the head's phase after which the head stays in its work.
LEMMA RunKeepsLand ==
  ASSUME OwnTextInv, LandedShape, mounted, NEW pending \in Seq(CallShape),
         \A i \in 1..Len(pending) : pending[i].call \in SentinelCalls,
         NEW k \in Keys, NEW call \in Scripts \ SentinelCalls, Runs(pending, k, call),
         entry'[k].phase \in PhasesOf(call),
         entry'[k].phase \in {"find", "await"} =>
           k \in TextOf(k) /\ TextOf(k)' = TextOf(k) /\ There(k, TextOf(k)),
         \A m \in Keys : entry'[m].phase \in {"find", "await"} => m = k
  PROVE  LandInv' /\ LandedShape' /\ \A x \in Keys : landed[x] > 0 => landed'[x] > 0
<1>0. TextOf(k) \in SUBSET Keys BY DEF TextOf, OwnTextInv, EntryInv, EntryShape
<1>1. Issues(pending, k, call) BY RunsIssue
<1>2. CASE call \in Wipes
  <2>1. RunClear(pending, k, call, last.hash) BY <1>2 DEF Runs, Wipes
  <2>2. mounted' /\ landed' = landed BY <2>1, ClearLandsNothing
  <2>3. PICK status \in Statuses, text \in Texts :
          calls' = Append(pending, [who |-> k, call |-> call, status |-> status, text |-> text])
    BY <1>1 DEF Issues
  <2>4. WipeIn'
    <3> DEFINE c == [who |-> k, call |-> call, status |-> status, text |-> text]
               n == Len(pending) + 1
    <3>1. c.call = call OBVIOUS
    <3> HIDE DEF c
    <3>2. n \in Nat /\ Len(calls') = n /\ calls'[n] = c BY <2>3, AppendIndex DEF c
    <3>3. PICK j \in Nat : j = n BY <3>2
    <3>4. j \in Pending' /\ Own(j)' /\ calls'[j].call \in Wipes
      BY <1>2, <3>1, <3>2, <3>3 DEF Pending, Own
    <3> QED BY <3>4 DEF WipeIn
  <2>5. call \notin {"insert", "check", "last check"} BY <1>2 DEF Wipes
  <2>6. LandInv' BY <2>2, <2>3, <2>4, <2>5, LandAfter
  <2> QED BY <2>2, <2>6 DEF LandedShape
<1>3. CASE call \in {"check", "last check"}
  <2>1. RunCheck(pending, k, call) BY <1>3 DEF Runs, Wipes
  <2>2. entry'[k].phase \in {"find", "await"} BY <1>3 DEF PhasesOf
  <2>3. \E status \in Statuses, text \in Texts :
          /\ calls' = Append(pending, [who |-> k, call |-> call, status |-> status, text |-> text])
          /\ status = "cleared" => Landed(TextOf(k))'
    <3>1. PICK T \in SUBSET Keys : T = TextOf(k) BY <1>0
    <3>2. T # {} /\ There(k, T) BY <2>2, <3>1
    <3>0. mounted /\ k \in Keys OBVIOUS
    <3>3. landed' = landed /\ Sees(pending, k, call, T)
      BY ONLY <2>1, <3>0, <3>2, CheckMeansLanded
    <3>4. Landed(T) => Landed(TextOf(k))'
      <4>1. TextOf(k)' = T BY <2>2, <3>1
      <4> QED BY <3>3, <4>1 DEF Landed
    <3> QED BY <3>3, <3>4 DEF Sees
  <2>4. LosesNothing /\ LandedShape' BY <2>1, WorkLosesNothing
  <2>5. There(k, TextOf(k))' BY <1>0, <2>2, <2>4 DEF LosesNothing, There, Landed
  <2>6. call # "insert" BY <1>3
  <2>7. LandInv' BY <2>3, <2>4, <2>5, <2>6, LandAfter DEF LosesNothing
  <2>8. \A x \in Keys : landed[x] > 0 => landed'[x] > 0
    BY <2>1 DEF RunCheck, ContextLost
  <2> QED BY <2>4, <2>7, <2>8
<1>4. CASE call \notin Wipes \cup {"check", "last check"}
  <2>1. /\ \/ RunProbe(pending, k, call) \/ RunClick(pending, k) \/ RunEnter(pending, k, call)
        /\ call # "insert"
    BY <1>4 DEF Runs
  <2>2. LosesNothing /\ LandedShape' BY <2>1, WorkLosesNothing
  <2>3. entry'[k].phase \in {"find", "await"} => There(k, TextOf(k))'
    BY <1>0, <2>2 DEF LosesNothing, There, Landed
  <2>4. LandInv'
    <3>1. PICK status \in Statuses, text \in Texts :
            calls' = Append(pending, [who |-> k, call |-> call, status |-> status, text |-> text])
      BY <1>1 DEF Issues
    <3> QED BY <1>4, <2>1, <2>2, <2>3, <3>1, LandAfter DEF LosesNothing
  <2>5. ASSUME NEW x \in Keys, landed[x] > 0 PROVE landed'[x] > 0
    <3>1. Landed({x}) => Landed({x})' BY <2>2 DEF LosesNothing
    <3> QED BY <2>5, <3>1 DEF Landed
  <2> QED BY <2>2, <2>4, <2>5
<1> QED BY <1>2, <1>3, <1>4

\* A text that is remembered has the delivery it was typed for.
LEMMA RememberedHasOwn ==
  ASSUME OwnTextInv, OneFlight, OwnPart, LandInv, NEW k \in Keys, AtHand(k), Remembers(k)
  PROVE  k \in TextOf(k) /\ (last' = NoLast \/ (last'.key \in Keys /\ last'.key \in last'.hash))
<1>1. k \in TextOf(k)
  <2>1. entry[k].phase # "none" BY DEF AtHand, PhasesOf
  <2> QED BY <2>1 DEF OwnPart, TextOf
<1>2. CASE Head(calls).call = "insert" /\ Status = "ok"
  <2>1. last' = [key |-> k, hash |-> Head(calls).text] BY <1>2 DEF Remembers
  <2>2. Head(calls).text = TextOf(k) BY <1>2, ThereAtHand
  <2> QED BY <1>1, <2>1, <2>2
<1>3. CASE ~(Head(calls).call = "insert" /\ Status = "ok")
  <2>1. last' = last \/ last' = NoLast BY <1>3 DEF Remembers
  <2> QED BY <1>1, <2>1 DEF OwnPart
<1> QED BY <1>1, <1>2, <1>3

\* A delivery ends: as sent only when its text, and so its batch, was submitted.
LEMMA EndsKeepsSent ==
  ASSUME OwnTextInv, QueueInv, OneFlight, SentParts, NEW k \in Keys, AtHand(k),
         Remembers(k), Ends(k), \A m \in Keys : Past(m) => m = k
  PROVE  SentParts'
<1>0. LandedShape /\ OwnPart /\ LandInv /\ SentAlwaysMeansLanded BY DEF SentParts
<1>1. calls' = rest /\ UNCHANGED <<page, landed>> /\ calls # <<>>
  BY DEF Ends, Handled, AtHand
<1>2. PICK done, result :
        /\ k \in done /\ FinishSends(done, k, result)
        /\ result = "sent" =>
             /\ done = {k} \cup {m \in entry[k].batch : Queued(m)}
             /\ Head(calls).call \in {"check", "last check"} /\ Status = "cleared"
  BY DEF Ends
<1>3. \A m \in Keys : ~Past(m)' BY <1>2, FinishLeaves DEF OwnTextInv
<1>4. /\ rest \in Seq(CallShape)
      /\ \A i \in 1..Len(rest) : rest[i].call \in SentinelCalls
      /\ \A i \in 1..Len(rest) : rest[i].call \in SentinelCalls => rest[i].who \in rest[i].text
  BY <1>0, <1>1, RestIsSentinels, RestParts
<1>5. LandInv'
  <2>1. \A m \in Keys : entry'[m].phase \notin {"find", "await"} BY <1>3 DEF Past
  <2>2. mounted' BY <1>0, <1>1 DEF LandInv, page
  <2> QED BY <1>1, <1>4, <2>1, <2>2, LandAfter
<1>6. OwnPart'
  <2>1. \A i \in Pending' : ~Own(i)' => calls'[i].who \in calls'[i].text
    BY <1>1, <1>4, SentinelPart
  <2>2. \A m \in Keys : entry'[m] = NoEntry \/ entry'[m] = entry[m]
    BY <1>2 DEF FinishSends, OwnTextInv, EntryInv
  <2>3. \A m \in Keys : entry'[m].phase # "none" => m \in entry'[m].text
    BY <1>0, <2>2 DEF OwnPart, NoEntry
  <2>4. last' = NoLast \/ (last'.key \in Keys /\ last'.key \in last'.hash)
    BY <1>0, RememberedHasOwn
  <2> QED BY <2>1, <2>3, <2>4 DEF OwnPart
<1>7. SentAlwaysMeansLanded'
  <2> SUFFICES ASSUME NEW m \in Keys, outcome'[m] = "sent" PROVE landed[m] > 0
    BY <1>1 DEF SentAlwaysMeansLanded
  <2>1. outcome'[m] = IF m \in done THEN result ELSE outcome[m] BY <1>2 DEF FinishSends
  <2>2. CASE m \notin done BY <1>0, <2>1, <2>2 DEF SentAlwaysMeansLanded
  <2>3. CASE m \in done
    <3>1. Landed(TextOf(k)) BY <1>0, <1>2, <2>1, <2>3, ThereAtHand
    <3>2. m \in TextOf(k)
      BY <1>0, <1>2, <2>1, <2>3, RememberedHasOwn DEF TextOf
    <3> QED BY <3>1, <3>2 DEF Landed
  <2> QED BY <2>2, <2>3
<1> QED BY <1>0, <1>1, <1>5, <1>6, <1>7 DEF SentParts, LandedShape

\* A delivery goes on.
LEMMA GoesOnKeepsSent ==
  ASSUME OwnTextInv, QueueInv, OneFlight, SentParts, NEW k \in Keys, AtHand(k),
         Remembers(k), NEW e \in EntryShape, GoesOn(k, e), \A m \in Keys : Past(m) => m = k
  PROVE  SentParts'
<1>0. LandedShape /\ OwnPart /\ LandInv /\ SentAlwaysMeansLanded /\ mounted
  BY DEF SentParts, LandInv
<1>1. entry' = [entry EXCEPT ![k] = e] /\ outcome' = outcome /\ calls # <<>>
  BY DEF GoesOn, SetEntry, AtHand
<1>2. entry'[k] = e /\ \A m \in Keys \ {k} : entry'[m] = entry[m]
  BY <1>1 DEF OwnTextInv, EntryInv
<1>3. \A m \in Keys : entry'[m].phase \in {"find", "await"} => m = k
  BY <1>2 DEF Past
<1>4. /\ rest \in Seq(CallShape)
      /\ \A i \in 1..Len(rest) : rest[i].call \in SentinelCalls
      /\ \A i \in 1..Len(rest) : rest[i].call \in SentinelCalls => rest[i].who \in rest[i].text
  BY <1>0, <1>1, RestIsSentinels, RestParts
<1>5. k \in TextOf(k) BY <1>0, RememberedHasOwn
<1>6. e.phase \in {"find", "await"} => TextOf(k)' = TextOf(k) /\ There(k, TextOf(k))
  <2>1. SUFFICES ASSUME e.phase \in {"find", "await"}
                 PROVE  TextOf(k)' = TextOf(k) /\ There(k, TextOf(k))
    OBVIOUS
  <2>2. TextOf(k)' = TextOf(k) BY <1>2, <2>1 DEF TextOf, GoesOn
  <2>3. There(k, TextOf(k)) BY <1>0, <2>1, ThereAtHand DEF GoesOn
  <2> QED BY <2>2, <2>3
<1>7. LandInv' /\ LandedShape' /\ \A x \in Keys : landed[x] > 0 => landed'[x] > 0
  <2>1. CASE Handled
    <3>1. calls' = rest /\ UNCHANGED <<page, landed>> BY <2>1 DEF Handled
    <3>2. entry'[k].phase \in {"find", "await"} => There(k, TextOf(k))'
      BY <1>2, <1>6, <3>1 DEF There, Landed, page
    <3>3. mounted' BY <1>0, <3>1 DEF page
    <3>4. LandInv' BY <1>3, <1>4, <3>1, <3>2, <3>3, LandAfter
    <3> QED BY <1>0, <3>1, <3>4 DEF LandedShape
  <2>2. ASSUME NEW call \in Scripts \ SentinelCalls, Runs(rest, k, call), e.phase \in PhasesOf(call)
        PROVE  LandInv' /\ LandedShape' /\ \A x \in Keys : landed[x] > 0 => landed'[x] > 0
    BY <1>0, <1>2, <1>3, <1>4, <1>5, <1>6, <2>2, RunKeepsLand
  <2> QED BY <2>1, <2>2 DEF GoesOn
<1>8. OwnPart'
  <2>1. calls' = rest \/ \E call \in Scripts \ SentinelCalls : Issues(rest, k, call)
    BY RunsIssue DEF GoesOn, Handled
  <2>2. \A i \in Pending' : ~Own(i)' => calls'[i].who \in calls'[i].text
    BY <1>4, <2>1, SentinelPart
  <2>3. \A m \in Keys : entry'[m].phase # "none" => m \in entry'[m].text
    <3>1. k \in e.text
      <4>1. entry[k].phase # "none" BY DEF AtHand, PhasesOf
      <4> QED BY <1>0, <4>1 DEF OwnPart, GoesOn
    <3> QED BY <1>0, <1>2, <3>1 DEF OwnPart
  <2>4. last' = NoLast \/ (last'.key \in Keys /\ last'.key \in last'.hash)
    BY <1>0, RememberedHasOwn
  <2> QED BY <2>2, <2>3, <2>4 DEF OwnPart
<1>9. SentAlwaysMeansLanded' BY <1>0, <1>1, <1>7 DEF SentAlwaysMeansLanded
<1> QED BY <1>7, <1>8, <1>9 DEF SentParts

LEMMA OwnReplyKeepsSent ==
  ASSUME OwnTextInv, QueueInv, OneFlight, SentParts, NEW k \in Keys, OwnReply(k)
  PROVE  SentParts'
<1>1. AtHand(k) /\ IsHead(k) /\ Moves(k) /\ Remembers(k) BY OwnReplyIsAtHand, OwnReplyMoves
<1>2. \A m \in Keys : Past(m) => m = k BY <1>1 DEF OneFlight, IsHead
<1> QED BY <1>1, <1>2, EndsKeepsSent, GoesOnKeepsSent DEF Moves

----------------------------------------------------------------------------
(* Sent means landed: the steps that handle no reply of an entry            *)

\* A step that leaves the page alone and the entries that have a step in flight.
LEMMA QuietKeepsLand ==
  ASSUME OneFlight, LandInv, UNCHANGED <<page, landed>>, OwnKept, WipeIn => WipeIn',
         \A m \in Keys : entry'[m] = entry[m]
                         \/ (~Busy(m) /\ entry'[m].phase \notin {"find", "await"})
  PROVE  LandInv'
<1>1. mounted' BY DEF LandInv, page
<1>2. ASSUME NEW m \in Keys, entry'[m].phase \in {"find", "await"}
      PROVE  There(m, TextOf(m))' \/ WipeIn'
  <2>1. entry'[m] = entry[m] BY <1>2
  <2>2. There(m, TextOf(m)) \/ WipeIn BY <1>2, <2>1 DEF LandInv
  <2> QED BY <2>1, <2>2 DEF There, Landed, TextOf, page
<1>3. ASSUME NEW i \in Pending', Own(i)'
      PROVE  /\ calls'[i].call = "insert" /\ calls'[i].status = "ok" =>
                  calls'[i].text = TextOf(calls[i].who)' /\ There(calls[i].who, calls[i].text)'
             /\ calls'[i].call \in {"check", "last check"} /\ calls'[i].status = "cleared" =>
                  Landed(TextOf(calls[i].who))'
  <2>1. PICK j \in Pending : Own(j) /\ calls[j] = calls'[i] BY <1>3 DEF OwnKept
  <2>2. PICK u \in Keys : u = calls[j].who BY <2>1 DEF OneFlight
  <2>3. Busy(u) BY <2>1, <2>2 DEF Busy, Pending, Own
  <2>4. entry'[u] = entry[u] /\ calls'[i].who = u BY <2>1, <2>2, <2>3
  <2>5. TextOf(calls[i].who)' = TextOf(u) BY <2>4 DEF TextOf
  <2> QED BY <2>1, <2>2, <2>4, <2>5 DEF LandInv, There, Landed, page
<1> QED BY <1>1, <1>2, <1>3 DEF LandInv

\* A step while no delivery is past its hold
LEMMA CalmKeepsLand ==
  ASSUME OneFlight, OwnKept, mounted', \A m \in Keys : ~Past(m) /\ ~Past(m)'
  PROVE  LandInv'
<1>1. \A m \in Keys : entry'[m].phase \notin {"find", "await"} BY DEF Past
<1>2. ASSUME NEW i \in Pending', Own(i)'
      PROVE  calls'[i].call \notin {"insert", "check", "last check"}
  <2>1. PICK j \in Pending : Own(j) /\ calls[j] = calls'[i] BY <1>2 DEF OwnKept
  <2>2. PICK u \in Keys : u = calls[j].who BY <2>1 DEF OneFlight
  <2>3. entry[u].phase \in PhasesOf(calls[j].call) /\ entry[u].phase \in {"none", "hold"}
    BY <2>1, <2>2 DEF OneFlight, Past
  <2> QED BY <2>1, <2>3 DEF PhasesOf
<1> QED BY <1>1, <1>2 DEF LandInv

LEMMA QueueSendKeepsSent ==
  ASSUME OwnTextInv, QueueInv, OneFlight, SentParts, NEW k \in Keys, QueueSend(k)
  PROVE  SentParts'
<1>0. LandedShape /\ OwnPart /\ LandInv /\ SentAlwaysMeansLanded BY DEF SentParts
<1>1. /\ ~Busy(k) /\ UNCHANGED <<page, calls, last, landed, outcome>>
      /\ entry' = [entry EXCEPT ![k] = FreshEntry({k})]
  BY DEF QueueSend, Enqueue
<1>2. /\ entry'[k].phase = "hold" /\ entry'[k].text = {k}
      /\ \A m \in Keys \ {k} : entry'[m] = entry[m]
  BY <1>1 DEF OwnTextInv, EntryInv, FreshEntry, NoEntry
<1>3. OwnKept /\ (WipeIn => WipeIn') BY <1>1, SameOwn DEF WipeIn, Pending, Own
<1>4. LandInv' BY <1>0, <1>1, <1>2, <1>3, QuietKeepsLand
<1>5. OwnPart' BY <1>0, <1>1, <1>2 DEF OwnPart, Pending, Own
<1> QED BY <1>0, <1>1, <1>4, <1>5 DEF SentParts, LandedShape, SentAlwaysMeansLanded

LEMMA TabGoneKeepsSent ==
  ASSUME OwnTextInv, QueueInv, OneFlight, SentParts, NEW k \in Keys, TabGone(k)
  PROVE  SentParts'
<1>0. LandedShape /\ OwnPart /\ LandInv /\ SentAlwaysMeansLanded BY DEF SentParts
<1>1. /\ IsHead(k) /\ ~Busy(k) /\ UNCHANGED <<page, calls, last, landed>>
      /\ FinishSends({k}, k, "tab-gone")
  BY DEF TabGone, FinishSend
<1>2. \A m \in Keys : ~Past(m)' BY <1>1, FinishLeaves DEF OwnTextInv, OneFlight, IsHead
<1>3. /\ calls \in Seq(CallShape)
      /\ \A i \in 1..Len(calls) : calls[i].call \in SentinelCalls
  BY <1>1, IdleIsSentinels DEF Busy
<1>4. LandInv'
  <2>1. \A m \in Keys : entry'[m].phase \notin {"find", "await"} BY <1>2 DEF Past
  <2>2. mounted' BY <1>0, <1>1 DEF LandInv, page
  <2> QED BY <1>1, <1>3, <2>1, <2>2, LandAfter
<1>5. \A m \in Keys : entry'[m] = NoEntry \/ entry'[m] = entry[m]
  BY <1>1 DEF FinishSends, OwnTextInv, EntryInv
<1>6. OwnPart' BY <1>0, <1>1, <1>5 DEF OwnPart, NoEntry, Pending, Own
<1>7. \A m \in Keys : outcome'[m] = "sent" => outcome[m] = "sent"
  BY <1>1 DEF FinishSends
<1> QED BY <1>0, <1>1, <1>4, <1>6, <1>7 DEF SentParts, LandedShape, SentAlwaysMeansLanded

LEMMA AdvanceKeepsSent ==
  ASSUME OwnTextInv, QueueInv, OneFlight, SentParts, NEW k \in Keys, Advance(k)
  PROVE  SentParts'
<1>0. LandedShape /\ OwnPart /\ LandInv /\ SentAlwaysMeansLanded /\ mounted
  BY DEF SentParts, LandInv
<1>1. IsHead(k) /\ ~Busy(k) /\ last' = last /\ outcome' = outcome BY DEF Advance
<1>2. /\ calls \in Seq(CallShape)
      /\ \A i \in 1..Len(calls) : calls[i].call \in SentinelCalls
  BY <1>1, IdleIsSentinels DEF Busy
<1>3. \A m \in Keys : /\ entry'[m].phase = entry[m].phase
                      /\ entry'[m].text = entry[m].text /\ entry'[m].batch = entry[m].batch
  BY DEF Advance, OwnTextInv, EntryInv, EntryShape
<1>4. \A m \in Keys : entry'[m].phase \in {"find", "await"} => m = k
  BY <1>1, <1>3 DEF OneFlight, Past, IsHead
<1>5. TextOf(k)' = TextOf(k) BY <1>3 DEF TextOf
<1>6. entry[k].phase \in {"find", "await"} => k \in TextOf(k) /\ There(k, TextOf(k))
  <2>1. ~WipeIn BY <1>2 DEF WipeIn, Pending, Own
  <2> QED BY <1>0, <2>1 DEF LandInv, OwnPart, TextOf
<1>7. \E call \in Scripts \ SentinelCalls : Runs(calls, k, call) /\ entry[k].phase \in PhasesOf(call)
  <2>1. \/ entry[k].phase = "hold" /\ RunProbe(calls, k, "gate")
        \/ entry[k].phase = "find" /\ RunProbe(calls, k, "recheck")
        \/ entry[k].phase = "find" /\ RunEnter(calls, k, "enter")
        \/ entry[k].phase = "find" /\ RunClick(calls, k)
        \/ entry[k].phase = "await" /\ RunCheck(calls, k, "check")
    BY DEF Advance
  <2>2. /\ PhasesOf("gate") = {"hold"} /\ PhasesOf("check") = {"await"}
        /\ PhasesOf("recheck") = {"find"} /\ PhasesOf("enter") = {"find"}
        /\ PhasesOf("click") = {"find"}
    BY DEF PhasesOf
  <2>3. {"gate", "recheck", "enter", "click", "check"} \subseteq Scripts \ SentinelCalls
    BY DEF Scripts, SentinelCalls
  <2>4. /\ RunProbe(calls, k, "gate") => Runs(calls, k, "gate")
        /\ RunProbe(calls, k, "recheck") => Runs(calls, k, "recheck")
        /\ RunEnter(calls, k, "enter") => Runs(calls, k, "enter")
        /\ RunClick(calls, k) => Runs(calls, k, "click")
        /\ RunCheck(calls, k, "check") => Runs(calls, k, "check")
    BY DEF Runs
  <2> QED BY <2>1, <2>2, <2>3, <2>4
<1>8. PICK call \in Scripts \ SentinelCalls : Runs(calls, k, call) /\ entry[k].phase \in PhasesOf(call)
  BY <1>7
<1>9. LandInv' /\ LandedShape' /\ \A x \in Keys : landed[x] > 0 => landed'[x] > 0
  BY <1>0, <1>2, <1>3, <1>4, <1>5, <1>6, <1>8, RunKeepsLand
<1>10. OwnPart'
  <2>1. Issues(calls, k, call) BY <1>8, RunsIssue
  <2>2. \A i \in 1..Len(calls) :
          calls[i].call \in SentinelCalls => calls[i].who \in calls[i].text
    BY <1>0 DEF OwnPart, Own, Pending
  <2>3. \A i \in Pending' : ~Own(i)' => calls'[i].who \in calls'[i].text
    BY <1>2, <2>1, <2>2, SentinelPart
  <2> QED BY <1>0, <1>1, <1>3, <2>3 DEF OwnPart
<1>11. SentAlwaysMeansLanded' BY <1>0, <1>1, <1>9 DEF SentAlwaysMeansLanded
<1> QED BY <1>9, <1>10, <1>11 DEF SentParts

LEMMA FetchFooterKeepsSent ==
  ASSUME OneFlight, SentParts, NEW k \in Keys, FetchFooter(k)
  PROVE  SentParts'
<1>1. UNCHANGED <<page, calls, last, landed, outcome, entry>> BY DEF FetchFooter, worker
<1>2. OwnKept /\ (WipeIn => WipeIn') BY <1>1, SameOwn DEF WipeIn, Pending, Own
<1>3. LandInv' BY <1>1, <1>2, QuietKeepsLand DEF SentParts
<1> QED BY <1>1, <1>3 DEF SentParts, LandedShape, OwnPart, SentAlwaysMeansLanded, Pending, Own

LEMMA InsertKeepsSent ==
  ASSUME OwnTextInv, QueueInv, OneFlight, SentParts, NEW k \in Keys, Insert(k)
  PROVE  SentParts'
<1>0. LandedShape /\ OwnPart /\ LandInv /\ SentAlwaysMeansLanded /\ mounted
  BY DEF SentParts, LandInv
<1>1. /\ k \in fetching /\ UNCHANGED <<entry, last, outcome>>
      /\ RunInsert(calls, k, TextOf(k))
  BY DEF Insert, worker, TextOf
<1>2. IsHead(k) /\ entry[k].phase = "insert" /\ TextOf(k) \in Texts
  BY <1>1 DEF OneFlight, TextOf, OwnTextInv, EntryInv, EntryShape, Texts
<1>3. /\ calls \in Seq(CallShape)
      /\ \A i \in 1..Len(calls) : calls[i].call \in SentinelCalls
  BY <1>1 DEF OneFlight, Own, Pending, OwnTextInv, PageInv
<1>4. mounted' /\ landed' = landed BY <1>0, <1>1 DEF RunInsert, page
<1>5. PICK status \in Statuses, text \in Texts :
        /\ Reply(calls, k, "insert", status, text)
        /\ status = "ok" => text = TextOf(k) /\ composer' = TextOf(k)
  <2>1. {"no input", "user text", "ok"} \subseteq Statuses /\ {} \in Texts
    BY DEF Statuses, Texts
  <2> QED BY <1>1, <1>2, <2>1 DEF RunInsert
<1> DEFINE c == [who |-> k, call |-> "insert", status |-> status, text |-> text]
           n == Len(calls) + 1
<1>6. c.who = k /\ c.call = "insert" /\ c.status = status /\ c.text = text OBVIOUS
<1>7. calls' = Append(calls, c) BY <1>5 DEF Reply
<1> HIDE DEF c
<1>8. /\ Len(calls) \in Nat /\ Len(calls') = n /\ calls'[n] = c
      /\ \A i \in 1..Len(calls) : calls'[i] = calls[i]
  BY ONLY <1>3, <1>7, AppendIndex
<1>9. \A i \in Pending' : calls'[i] = c \/ (i \in 1..Len(calls) /\ calls'[i] = calls[i])
  BY ONLY <1>8 DEF Pending
<1>10. \A i \in Pending' : Own(i)' => calls'[i] = c BY <1>3, <1>9 DEF Own
<1>11. LandInv'
  <2>1. \A m \in Keys : entry'[m].phase \notin {"find", "await"}
    BY <1>1, <1>2 DEF OneFlight, Past, IsHead
  <2>2. status = "ok" => text = TextOf(k)' /\ There(k, TextOf(k))'
    BY <1>1, <1>5 DEF There, TextOf
  <2>3. ASSUME NEW i \in Pending', Own(i)'
        PROVE  /\ calls'[i].call = "insert"
               /\ calls'[i].status = "ok" =>
                    calls'[i].text = TextOf(calls[i].who)' /\ There(calls[i].who, calls[i].text)'
    <3>1. calls'[i].who = k /\ calls'[i].call = "insert" /\ calls'[i].status = status
          /\ calls'[i].text = text
      BY <1>6, <1>10, <2>3
    <3> QED BY <2>2, <3>1 DEF There, Landed, TextOf
  <2> QED BY <1>4, <2>1, <2>3 DEF LandInv
<1>12. OwnPart'
  <2>1. \A i \in Pending' : ~Own(i)' => calls'[i].who \in calls'[i].text
    BY <1>0, <1>6, <1>9 DEF OwnPart, Own, SentinelCalls, Pending
  <2> QED BY <1>0, <1>1, <2>1 DEF OwnPart
<1> QED BY <1>0, <1>1, <1>4, <1>11, <1>12 DEF SentParts, LandedShape, SentAlwaysMeansLanded

\* The sentinel wipes what nobody is working with.
LEMMA SentinelSweepKeepsSent ==
  ASSUME OwnTextInv, QueueInv, OneFlight, SentParts, SentinelSweep
  PROVE  SentParts'
<1>0. LandedShape /\ OwnPart /\ LandInv /\ SentAlwaysMeansLanded /\ mounted
  BY DEF SentParts, LandInv
<1>1. /\ queue = <<>> /\ last # NoLast /\ UNCHANGED <<page, entry, last, outcome, landed>>
      /\ last.key \in Keys \cup {NoKey} /\ last.hash \in Texts
  BY DEF SentinelSweep, worker, OwnTextInv, LastInv, Texts
<1>2. PICK status \in Statuses \ {"error"} :
        Reply(calls, last.key, "sentinel", status, last.hash)
  BY DEF SentinelSweep, Statuses
<1>3. OwnKept
  <2>1. Issues(calls, last.key, "sentinel") BY <1>1, <1>2 DEF Issues, Reply
  <2> QED BY <1>1, <2>1, SentinelIssued DEF SentinelCalls
<1>4. LandInv'
  <2>1. \A m \in Keys : ~Past(m) /\ ~Past(m)' BY <1>1 DEF OneFlight, Past, IsHead
  <2> QED BY <1>0, <1>1, <1>3, <2>1, CalmKeepsLand DEF page
<1>5. OwnPart'
  <2> DEFINE c == [who |-> last.key, call |-> "sentinel", status |-> status, text |-> last.hash]
             n == Len(calls) + 1
  <2>1. c.who \in c.text BY <1>0, <1>1 DEF OwnPart
  <2>2. calls' = Append(calls, c) BY <1>2 DEF Reply
  <2> HIDE DEF c
  <2>3. calls \in Seq(CallShape) BY DEF OwnTextInv, PageInv
  <2>4. /\ Len(calls) \in Nat /\ Len(calls') = n /\ calls'[n] = c
        /\ \A i \in 1..Len(calls) : calls'[i] = calls[i]
    BY ONLY <2>2, <2>3, AppendIndex
  <2>5. \A i \in Pending' : calls'[i] = c \/ (i \in 1..Len(calls) /\ calls'[i] = calls[i])
    BY ONLY <2>4 DEF Pending
  <2>6. \A i \in Pending' : ~Own(i)' => calls'[i].who \in calls'[i].text
    BY <1>0, <2>1, <2>5 DEF OwnPart, Own, Pending
  <2> QED BY <1>0, <1>1, <2>6 DEF OwnPart
<1> QED BY <1>0, <1>1, <1>4, <1>5 DEF SentParts, LandedShape, SentAlwaysMeansLanded

LEMMA SentinelReplyKeepsSent ==
  ASSUME OwnTextInv, QueueInv, OneFlight, OneSentinel, SentParts, NEW k \in Keys, SentinelReply(k)
  PROVE  SentParts'
<1>0. LandedShape /\ OwnPart /\ LandInv /\ SentAlwaysMeansLanded /\ mounted
  BY DEF SentParts, LandInv
<1>1. /\ calls # <<>> /\ Head(calls).call = "sentinel" /\ Head(calls).who = k
      /\ UNCHANGED <<queue, entry, last, outcome>>
  BY DEF SentinelReply, Handles, worker
<1>2. /\ rest \in Seq(CallShape) /\ Len(rest) \in Nat /\ 1 \in Pending /\ calls[1] = Head(calls)
      /\ \A i \in 1..Len(rest) : rest[i].call \notin SentinelCalls
  BY <1>1, BehindTheSentinel DEF SentinelCalls
<1>3. \A m \in Keys : ~Past(m) BY <1>1, <1>2 DEF OneSentinel
<1>4. Head(calls).text \in Texts BY <1>1, HeadAndRest DEF OwnTextInv, CallShape
<1>5. calls' = rest \/ Issues(rest, k, "heal")
  BY <1>4, ScriptsIssue DEF SentinelReply, Handled, OwnTextInv
<1>6. OwnKept BY <1>1, <1>5, RestKeepsOwn, SentinelIssued DEF SentinelCalls
<1>7. mounted' /\ landed' = landed
  BY <1>0, ClearLandsNothing DEF SentinelReply, Handled, page
<1>8. LandInv' BY <1>1, <1>3, <1>6, <1>7, CalmKeepsLand DEF Past
<1>9. \A i \in Pending' : ~Own(i)' => calls'[i].who \in calls'[i].text
  <2>1. CASE calls' = rest BY <1>2, <2>1 DEF Pending, Own
  <2>2. CASE RunClear(rest, k, "heal", Head(calls).text)
    <3>1. k \in Head(calls).text
      BY <1>0, <1>1, <1>2 DEF OwnPart, Own, SentinelCalls
    <3>2. PICK status \in Statuses : Reply(rest, k, "heal", status, Head(calls).text)
      BY <2>2 DEF RunClear, Statuses
    <3> DEFINE c == [who |-> k, call |-> "heal", status |-> status, text |-> Head(calls).text]
               n == Len(rest) + 1
    <3>3. c.who \in c.text BY <3>1
    <3>4. calls' = Append(rest, c) BY <3>2 DEF Reply
    <3> HIDE DEF c
    <3>5. /\ Len(rest) \in Nat /\ Len(calls') = n /\ calls'[n] = c
          /\ \A i \in 1..Len(rest) : calls'[i] = rest[i]
      BY ONLY <1>2, <3>4, AppendIndex
    <3>6. \A i \in Pending' : calls'[i] = c \/ (i \in 1..Len(rest) /\ calls'[i] = rest[i])
      BY ONLY <3>5 DEF Pending
    <3> QED BY <1>2, <3>3, <3>6 DEF Own
  <2> QED BY <2>1, <2>2 DEF SentinelReply, Handled
<1>10. OwnPart' BY <1>0, <1>1, <1>9 DEF OwnPart
<1> QED BY <1>0, <1>1, <1>7, <1>8, <1>10 DEF SentParts, LandedShape, SentAlwaysMeansLanded

\* What it wiped is queued again under the key it was typed for.
LEMMA HealReplyKeepsSent ==
  ASSUME OwnTextInv, QueueInv, OneFlight, OneSentinel, SentParts, NEW k \in Keys, HealReply(k)
  PROVE  SentParts'
<1>0. LandedShape /\ OwnPart /\ LandInv /\ SentAlwaysMeansLanded BY DEF SentParts
<1>1. /\ calls # <<>> /\ Head(calls).call = "heal" /\ Head(calls).who = k
      /\ calls' = rest /\ UNCHANGED <<page, landed>> /\ last' = NoLast /\ outcome' = outcome
  BY DEF HealReply, Handles, Handled, Enqueue
<1>2. calls \in Seq(CallShape) /\ 1 \in Pending /\ calls[1] = Head(calls) /\ ~Own(1)
  BY <1>1 DEF OwnTextInv, PageInv, Pending, Own, SentinelCalls
<1>3. /\ rest \in Seq(CallShape) /\ Len(rest) = Len(calls) - 1 /\ Len(calls) \in Nat \ {0}
      /\ \A i \in 1..Len(rest) : i + 1 \in Pending /\ rest[i] = calls[i + 1]
  BY <1>1, <1>2, RestIndex DEF rest, Pending
<1>4. OwnKept BY <1>1, RestKeepsOwn
<1>5. WipeIn => WipeIn'
  <2> SUFFICES ASSUME NEW i \in Pending, Own(i), calls[i].call \in Wipes PROVE WipeIn'
    BY DEF WipeIn
  <2>1. i # 1 BY <1>2
  <2>2. PICK j \in 1..Len(rest) : i = j + 1
    <3>1. i - 1 \in 1..Len(rest) /\ i = (i - 1) + 1 BY <1>3, <2>1 DEF Pending
    <3> QED BY <3>1
  <2>3. j \in Pending' /\ calls'[j] = calls[i] BY <1>1, <1>3, <2>2 DEF Pending
  <2> QED BY <2>3 DEF WipeIn, Own
<1>6. k \in Head(calls).text BY <1>0, <1>1, <1>2 DEF OwnPart
<1>7. \/ entry' = entry
      \/ ~Busy(k) /\ entry' = [entry EXCEPT ![k] = FreshEntry(Head(calls).text)]
  BY DEF HealReply, Enqueue
<1>8. \A m \in Keys : \/ entry'[m] = entry[m]
                      \/ ~Busy(m) /\ entry'[m].phase = "hold" /\ m \in entry'[m].text
  BY <1>6, <1>7 DEF OwnTextInv, EntryInv, FreshEntry, NoEntry
<1>9. LandInv' BY <1>0, <1>1, <1>4, <1>5, <1>8, QuietKeepsLand
<1>10. OwnPart'
  <2>1. \A i \in Pending' : ~Own(i)' => calls'[i].who \in calls'[i].text
    BY <1>0, <1>1, <1>3 DEF OwnPart, Own, Pending
  <2> QED BY <1>0, <1>1, <1>8, <2>1 DEF OwnPart
<1> QED BY <1>0, <1>1, <1>9, <1>10 DEF SentParts, LandedShape, SentAlwaysMeansLanded

\* What happens to the page, when nothing in the composer gets lost.
LEMMA PageKeepsSent ==
  ASSUME OwnTextInv, OneFlight, SentParts, LosesNothing, LandedShape',
         UNCHANGED <<entry, last, calls, outcome>>
  PROVE  SentParts'
<1>0. LandedShape /\ OwnPart /\ LandInv /\ SentAlwaysMeansLanded BY DEF SentParts
<1>1. \A m \in Keys : TextOf(m)' = TextOf(m) /\ TextOf(m) \in SUBSET Keys
  BY DEF TextOf, OwnTextInv, EntryInv, EntryShape
<1>2. WipeIn => WipeIn' BY DEF WipeIn, Pending, Own
<1>3. ASSUME NEW m \in Keys, entry'[m].phase \in {"find", "await"}
      PROVE  There(m, TextOf(m))' \/ WipeIn'
  <2>1. There(m, TextOf(m)) \/ WipeIn BY <1>0, <1>3 DEF LandInv
  <2>2. PICK T \in SUBSET Keys : T = TextOf(m) BY <1>1
  <2>3. There(m, T) => There(m, T)' BY DEF LosesNothing
  <2>4. TextOf(m)' = T BY <1>1, <2>2
  <2> QED BY <1>2, <2>1, <2>2, <2>3, <2>4 DEF There, Landed
<1>4. ASSUME NEW i \in Pending', Own(i)'
      PROVE  /\ calls'[i].call = "insert" /\ calls'[i].status = "ok" =>
                  calls'[i].text = TextOf(calls[i].who)' /\ There(calls[i].who, calls[i].text)'
             /\ calls'[i].call \in {"check", "last check"} /\ calls'[i].status = "cleared" =>
                  Landed(TextOf(calls[i].who))'
  <2>1. i \in Pending /\ Own(i) /\ calls'[i] = calls[i] BY <1>4 DEF Pending, Own
  <2>2. PICK u \in Keys : u = calls[i].who BY <2>1 DEF OneFlight
  <2>3. PICK T \in SUBSET Keys : T = TextOf(u) BY <1>1
  <2>4. TextOf(u)' = T /\ TextOf(calls[i].who)' = T /\ TextOf(calls[i].who) = T
    BY <1>1, <2>1, <2>2, <2>3 DEF TextOf
  <2>5. (There(u, T) => There(u, T)') /\ (Landed(T) => Landed(T)') BY DEF LosesNothing
  <2>6. CASE calls[i].call = "insert" /\ calls[i].status = "ok"
    <3>1. calls[i].text = T /\ There(u, T) BY <1>0, <2>1, <2>2, <2>4, <2>6 DEF LandInv
    <3>2. calls'[i].text = T /\ calls'[i].who = u BY <2>1, <2>2, <3>1
    <3> QED BY <2>1, <2>4, <2>5, <2>6, <3>1, <3>2 DEF There, Landed
  <2>7. CASE calls[i].call \in {"check", "last check"} /\ calls[i].status = "cleared"
    <3>1. Landed(T) BY <1>0, <2>1, <2>2, <2>4, <2>7 DEF LandInv
    <3> QED BY <2>1, <2>4, <2>5, <2>7, <3>1 DEF Landed
  <2> QED BY <2>1, <2>6, <2>7
<1>5. mounted' BY DEF LosesNothing
<1>6. LandInv' BY <1>3, <1>4, <1>5 DEF LandInv
<1>7. OwnPart' BY <1>0 DEF OwnPart, Pending, Own
<1>8. SentAlwaysMeansLanded'
  <2> SUFFICES ASSUME NEW m \in Keys, outcome'[m] = "sent" PROVE landed'[m] > 0
    BY DEF SentAlwaysMeansLanded
  <2>1. landed[m] > 0 BY <1>0 DEF SentAlwaysMeansLanded
  <2>2. Landed({m}) => Landed({m})' BY DEF LosesNothing
  <2> QED BY <2>1, <2>2 DEF Landed
<1> QED BY <1>6, <1>7, <1>8 DEF SentParts

\* The scripts of a tab or a worker that is gone are gone too.
LEMMA GoneKeepsSent ==
  ASSUME OwnTextInv, SentParts, CloseTab \/ WorkerRestarts
  PROVE  SentParts'
<1>0. LandedShape /\ OwnPart /\ LandInv /\ SentAlwaysMeansLanded BY DEF SentParts
<1>1. calls' = <<>> /\ last' = NoLast /\ landed' = landed /\ outcome' = outcome /\ mounted'
  BY <1>0 DEF CloseTab, WorkerRestarts, LandInv, page
<1>2. Pending' = {} BY <1>1 DEF Pending
<1>3. \A m \in Keys : entry'[m] = NoEntry \/ entry'[m] = entry[m]
  BY DEF CloseTab, WorkerRestarts
<1>4. OwnPart' BY <1>0, <1>1, <1>2, <1>3 DEF OwnPart, NoEntry
<1>5. \A m \in Keys : entry'[m].phase \in {"find", "await"} => There(m, TextOf(m))'
  <2>1. CASE CloseTab
    <3>1. marker' = NoKey BY <2>1 DEF CloseTab
    <3> QED BY <3>1, KeysAssumption DEF There
  <2>2. CASE WorkerRestarts
    <3>1. \A m \in Keys : entry'[m] = NoEntry BY <2>2 DEF WorkerRestarts
    <3> QED BY <3>1 DEF NoEntry
  <2> QED BY <2>1, <2>2
<1>6. LandInv' BY <1>1, <1>2, <1>5 DEF LandInv
<1> QED BY <1>0, <1>1, <1>4, <1>6 DEF SentParts, LandedShape, SentAlwaysMeansLanded

LEMMA FailsKeepsSent ==
  ASSUME OwnTextInv, OneFlight, SentParts, ScriptFails
  PROVE  SentParts'
<1>0. LandedShape /\ OwnPart /\ LandInv /\ SentAlwaysMeansLanded BY DEF SentParts
<1>1. /\ UNCHANGED <<page, landed, outcome, entry, last>> /\ calls \in Seq(CallShape) /\ calls # <<>>
      /\ calls' = [calls EXCEPT ![1].status = "error"]
  BY DEF ScriptFails, worker, OwnTextInv, PageInv
<1>2. Pending' = Pending /\ 1 \in Pending BY <1>1 DEF Pending
<1>3. \A i \in Pending : /\ calls'[i].who = calls[i].who /\ calls'[i].call = calls[i].call
                         /\ calls'[i].text = calls[i].text
                         /\ calls'[i].status = calls[i].status \/ calls'[i].status = "error"
  BY <1>1, <1>2 DEF CallShape, Pending
<1>4. \A i \in Pending : Own(i)' <=> Own(i) BY <1>2, <1>3 DEF Own
<1>5. OwnPart' BY <1>0, <1>1, <1>2, <1>3, <1>4 DEF OwnPart
<1>6. WipeIn => WipeIn' BY <1>2, <1>3, <1>4 DEF WipeIn
<1>7. mounted' BY <1>0, <1>1 DEF LandInv, page
<1>8. ASSUME NEW m \in Keys, entry'[m].phase \in {"find", "await"}
      PROVE  There(m, TextOf(m))' \/ WipeIn'
  <2>1. There(m, TextOf(m)) \/ WipeIn BY <1>0, <1>1, <1>8 DEF LandInv
  <2> QED BY <1>1, <1>6, <2>1 DEF There, Landed, TextOf, page
<1>9. ASSUME NEW i \in Pending', Own(i)'
      PROVE  /\ calls'[i].call = "insert" /\ calls'[i].status = "ok" =>
                  calls'[i].text = TextOf(calls[i].who)' /\ There(calls[i].who, calls[i].text)'
             /\ calls'[i].call \in {"check", "last check"} /\ calls'[i].status = "cleared" =>
                  Landed(TextOf(calls[i].who))'
  <2>1. i \in Pending /\ Own(i) BY <1>2, <1>4, <1>9
  <2>2. /\ calls'[i].who = calls[i].who /\ calls'[i].call = calls[i].call
        /\ calls'[i].text = calls[i].text
        /\ calls'[i].status \in {"ok", "cleared"} => calls'[i].status = calls[i].status
    BY <1>3, <2>1
  <2> QED BY <1>0, <1>1, <2>1, <2>2 DEF LandInv, There, Landed, TextOf, page
<1>10. LandInv' BY <1>7, <1>8, <1>9 DEF LandInv
<1> QED BY <1>0, <1>1, <1>5, <1>10 DEF SentParts, LandedShape, SentAlwaysMeansLanded

LEMMA AroundKeepsSent ==
  ASSUME OwnTextInv, OneFlight, SentParts, Around, "erase" \notin may, "unmount" \notin may
  PROVE  SentParts'
<1>0. LandedShape /\ mounted BY DEF SentParts, LandInv
<1>1. CASE CloseTab \/ WorkerRestarts BY <1>1, GoneKeepsSent
<1>2. CASE ScriptFails BY <1>2, FailsKeepsSent
<1>3. CASE UserTypes \/ UserSends \/ UserPauses \/ Reload
  <2>1. UNCHANGED <<entry, last, calls, outcome>>
    BY <1>3 DEF UserTypes, UserSends, UserPauses, Reload, worker
  <2>2. LosesNothing /\ LandedShape'
    <3>1. CASE UserTypes
      <4>1. UNCHANGED <<mounted, marker, landed>> BY <3>1 DEF UserTypes
      <4>2. \A T \in SUBSET Keys : T \subseteq composer => T \subseteq composer'
        BY <3>1, KeysAssumption DEF UserTypes
      <4>3. \A k \in Keys, T \in SUBSET Keys : There(k, T) => There(k, T)'
        BY <4>1, <4>2 DEF There, Landed
      <4> QED BY <1>0, <4>1, <4>3 DEF LosesNothing, Landed, LandedShape
    <3>2. CASE UserSends BY <1>0, <3>2, SubmitLosesNothing DEF UserSends
    <3>3. CASE UserPauses
      <4>1. UNCHANGED <<composer, mounted, marker, landed>> BY <3>3 DEF UserPauses
      <4> QED BY <1>0, <4>1 DEF LosesNothing, There, Landed, LandedShape
    <3>4. CASE Reload
      <4>1. mounted' /\ marker' = NoKey /\ landed' = landed BY <3>4 DEF Reload
      <4>2. \A k \in Keys : marker' # k BY <4>1, KeysAssumption
      <4> QED BY <1>0, <4>1, <4>2 DEF LosesNothing, There, Landed, LandedShape
    <3> QED BY <1>3, <3>1, <3>2, <3>3, <3>4
  <2> QED BY <2>1, <2>2, PageKeepsSent
<1> QED BY <1>1, <1>2, <1>3 DEF Around, UserErases, Remount

LEMMA StepKeepsSent ==
  ASSUME OwnTextInv, FlightInv, SentInv, [Next]_vars
  PROVE  SentInv'
<1>0. may' = may BY MayStays
<1> SUFFICES ASSUME "erase" \notin may, "unmount" \notin may, "flush" \notin may
             PROVE  SentParts'
  BY <1>0 DEF SentInv
<1>1. QueueInv /\ OneFlight /\ OneSentinel /\ SentParts BY DEF FlightInv, SentInv
<1>2. CASE UNCHANGED vars
  <2>1. UNCHANGED <<page, entry, last, calls, landed, outcome>> BY <1>2 DEF vars, worker
  <2>2. LosesNothing BY <1>1, <2>1, ReadingLosesNothing DEF SentParts, LandInv
  <2> QED BY <1>1, <2>1, <2>2, PageKeepsSent DEF SentParts, LandedShape
<1>3. CASE Around BY <1>1, <1>3, AroundKeepsSent
<1>4. CASE SentinelSweep BY <1>1, <1>4, SentinelSweepKeepsSent
<1>5. ASSUME NEW k \in Keys, SentinelReply(k) \/ HealReply(k) PROVE SentParts'
  BY <1>1, <1>5, SentinelReplyKeepsSent, HealReplyKeepsSent
<1>6. ASSUME NEW k \in Keys, QueueStep(k) PROVE SentParts'
  BY <1>1, <1>6, QueueSendKeepsSent, TabGoneKeepsSent, AdvanceKeepsSent, FetchFooterKeepsSent,
     InsertKeepsSent DEF QueueStep
<1>7. ASSUME NEW k \in Keys, OwnReply(k) PROVE SentParts'
  BY <1>1, <1>7, OwnReplyKeepsSent
<1> QED BY <1>2, <1>3, <1>4, <1>5, <1>6, <1>7, Steps

\* A delivery that is reported as sent was submitted, however the scripts, their
\* replies and the user's typing interleave, as long as nobody but the extension
\* empties the composer unsent.
THEOREM SentIsLanded == Spec => []SentMeansLanded
<1>1. Init => SentInv
  <2> SUFFICES ASSUME Init PROVE SentParts BY DEF SentInv
  <2>1. Pending = {} BY DEF Init, Pending
  <2>2. \A k \in Keys : entry[k] = NoEntry BY DEF Init
  <2>3. LandedShape /\ SentAlwaysMeansLanded BY DEF Init, LandedShape, SentAlwaysMeansLanded
  <2>4. OwnPart BY <2>1, <2>2 DEF Init, OwnPart, NoEntry
  <2>5. LandInv BY <2>1, <2>2 DEF Init, LandInv, NoEntry
  <2> QED BY <2>3, <2>4, <2>5 DEF SentParts
<1>2. OwnTextInv /\ FlightInv /\ SentInv /\ [Next]_vars => SentInv' BY StepKeepsSent
<1>3. SentInv => SentMeansLanded BY DEF SentInv, SentParts, SentMeansLanded
<1> QED BY <1>1, <1>2, <1>3, OwnTextIsOwn, OneStepInFlight, PTL DEF Spec

----------------------------------------------------------------------------
(* The composer is accounted for: while nothing but a submission parts what *)
(* was typed from what is remembered of it.                                 *)

\* The reply that will tell what was typed is on its way.
TypedIn == \E i \in Pending : calls[i].call = "insert" /\ calls[i].text = composer

AccountParts ==
  /\ mounted
  /\ \A i \in Pending : calls[i].status # "error"
  /\ \A i \in Pending : calls[i].call \in Wipes => composer = {}
  /\ \A i \in Pending : calls[i].call = "insert" =>
       IF calls[i].status = "ok" THEN composer \in {{}, calls[i].text} ELSE calls[i].text = {}
  /\ \A i \in Pending : calls[i].call = "heal" => composer = {} \/ TypedIn
  /\ composer = {} \/ composer = last.hash \/ TypedIn

AccountInv == may \subseteq {"close", "reload", "send", "redeliver"} => AccountParts

\* Scripts run over a composer that is clear or holds what is remembered.
LEMMA RunKeepsComposer ==
  ASSUME mounted, composer \in {{}, last.hash}, NEW pending, NEW k, NEW call,
         Runs(pending, k, call)
  PROVE  mounted' /\ composer' \in {{}, composer} /\ (call \in Wipes => composer' = {})
<1>1. CASE UNCHANGED <<page, landed>> /\ call \notin Wipes BY <1>1 DEF page
<1>2. CASE \E c : RunSubmit(pending, k, c) /\ call \notin Wipes
  BY <1>2 DEF RunSubmit, SubmitOrNot, Submit, page
<1>3. CASE RunClear(pending, k, call, last.hash) BY <1>3 DEF RunClear, Shown, page
<1>4. CASE RunProbe(pending, k, call) /\ call \notin Wipes BY <1>1, <1>4 DEF RunProbe
<1>5. CASE RunClick(pending, k) /\ call \notin Wipes
  BY <1>1, <1>2, <1>5 DEF RunClick, ContextLost
<1>6. CASE RunEnter(pending, k, call) /\ call \notin Wipes
  BY <1>1, <1>2, <1>6 DEF RunEnter, ContextLost
<1>7. CASE RunCheck(pending, k, call) /\ call \notin Wipes
  BY <1>1, <1>7 DEF RunCheck, ContextLost
<1> QED BY <1>3, <1>4, <1>5, <1>6, <1>7 DEF Runs, Wipes

\* A step after which the head has at most one script in flight, and not an insert.
LEMMA AccountAfter ==
  ASSUME NEW pending \in Seq(CallShape),
         \A i \in 1..Len(pending) : /\ pending[i].call \in SentinelCalls
                                    /\ pending[i].status # "error"
                                    /\ pending[i].call = "heal" => composer' = {},
         NEW k, mounted', composer' = {} \/ composer' = last'.hash,
         \/ calls' = pending
         \/ \E call \in Scripts \ (SentinelCalls \cup {"insert"}) :
              Issues(pending, k, call) /\ (call \in Wipes => composer' = {})
  PROVE  AccountParts'
<1>1. CASE calls' = pending
  BY <1>1 DEF AccountParts, Pending, SentinelCalls, Wipes
<1>2. ASSUME NEW call \in Scripts \ (SentinelCalls \cup {"insert"}), Issues(pending, k, call),
             call \in Wipes => composer' = {}
      PROVE  AccountParts'
  <2>1. PICK status \in Statuses \ {"error"}, text \in Texts :
          calls' = Append(pending, [who |-> k, call |-> call, status |-> status, text |-> text])
    BY <1>2 DEF Issues
  <2> DEFINE c == [who |-> k, call |-> call, status |-> status, text |-> text]
             n == Len(pending) + 1
  <2>2. c.call = call /\ c.status # "error" OBVIOUS
  <2>3. calls' = Append(pending, c) BY <2>1
  <2> HIDE DEF c
  <2>4. pending \in Seq(CallShape) OBVIOUS
  <2>5. /\ Len(pending) \in Nat /\ Len(calls') = n /\ calls'[n] = c
        /\ \A i \in 1..Len(pending) : calls'[i] = pending[i]
    BY ONLY <2>3, <2>4, AppendIndex
  <2>6. \A i \in Pending' : calls'[i] = c \/ (i \in 1..Len(pending) /\ calls'[i] = pending[i])
    BY ONLY <2>5 DEF Pending
  <2>7. \A i \in Pending' : calls'[i].status # "error" BY <2>2, <2>6
  <2>8. \A i \in Pending' : /\ calls'[i].call # "insert"
                            /\ calls'[i].call \in Wipes \cup {"heal"} => composer' = {}
    BY <1>2, <2>2, <2>6 DEF SentinelCalls, Wipes
  <2> QED BY <2>7, <2>8 DEF AccountParts
<1> QED BY <1>1, <1>2

\* No delivery's script is in flight: nothing is being typed.
LEMMA IdleIsAccountedFor ==
  ASSUME AccountParts, \A i \in 1..Len(calls) : calls[i].call \in SentinelCalls
  PROVE  /\ composer = {} \/ composer = last.hash
         /\ \A i \in 1..Len(calls) : /\ calls[i].status # "error"
                                     /\ calls[i].call = "heal" => composer = {}
<1>1. ~TypedIn BY DEF TypedIn, Pending, SentinelCalls
<1> QED BY <1>1 DEF AccountParts, Pending

\* When an entry's own reply is handled, what it typed is remembered.
LEMMA AtHandIsAccountedFor ==
  ASSUME OwnTextInv, OneFlight, OneSentinel, AccountParts, NEW k \in Keys, AtHand(k), Remembers(k)
  PROVE  /\ composer = {} \/ composer = last'.hash
         /\ Head(calls).call # "insert" => composer = {} \/ composer = last.hash
         /\ \A i \in 1..Len(rest) : /\ rest[i].status # "error"
                                    /\ rest[i].call = "heal" => composer = {}
<1>1. /\ calls \in Seq(CallShape) /\ calls # <<>> /\ rest \in Seq(CallShape)
      /\ 1 \in Pending /\ calls[1] = Head(calls) /\ Own(1)
      /\ \A i \in 1..Len(rest) : i + 1 \in Pending /\ i + 1 > 1 /\ rest[i] = calls[i + 1]
  BY RestIndex DEF AtHand, OwnTextInv, PageInv, rest, Pending
<1>2. \A i \in Pending : calls[i].call = "insert" => i = 1
  BY <1>1 DEF OneFlight, Own, SentinelCalls
<1>3. TypedIn => Head(calls).call = "insert" /\ Head(calls).text = composer
  BY <1>1, <1>2 DEF TypedIn
<1>4. ASSUME NEW i \in 1..Len(rest), rest[i].call = "heal" PROVE composer = {}
  <2>1. i + 1 \in Pending /\ calls[i + 1].call = "heal" /\ i + 1 > 1 BY <1>1, <1>4
  <2>2. Head(calls).call # "insert"
    <3> SUFFICES ASSUME Head(calls).call = "insert" PROVE FALSE OBVIOUS
    <3>1. i + 1 < 1 BY <1>1, <2>1 DEF OneSentinel
    <3>2. i \in Nat OBVIOUS
    <3> QED BY <3>1, <3>2
  <2> QED BY <1>3, <2>1, <2>2 DEF AccountParts
<1>5. \A i \in 1..Len(rest) : rest[i].status # "error" BY <1>1 DEF AccountParts
<1>6. Head(calls).call # "insert" => composer = {} \/ composer = last.hash
  BY <1>3 DEF AccountParts
<1>7. composer = {} \/ composer = last'.hash
  <2>1. CASE Head(calls).call = "insert" /\ Status = "ok"
    BY <1>1, <2>1 DEF AccountParts, Remembers, Status
  <2>2. CASE Head(calls).call = "insert" /\ Status # "ok"
    <3>1. last' = last BY <2>2 DEF Remembers, Wipes
    <3>2. Head(calls).text = {} BY <1>1, <2>2 DEF AccountParts, Status
    <3> QED BY <1>3, <3>1, <3>2 DEF AccountParts
  <2>3. CASE Head(calls).call # "insert"
    <3>1. last' = last \/ Head(calls).call \in Wipes BY <2>3 DEF Remembers
    <3> QED BY <1>1, <1>6, <2>3, <3>1 DEF AccountParts
  <2> QED BY <2>1, <2>2, <2>3
<1> QED BY <1>4, <1>5, <1>6, <1>7

LEMMA OwnReplyKeepsAccount ==
  ASSUME OwnTextInv, QueueInv, OneFlight, OneSentinel, AccountParts, NEW k \in Keys, OwnReply(k)
  PROVE  AccountParts'
<1>1. AtHand(k) /\ Moves(k) /\ Remembers(k) BY OwnReplyIsAtHand, OwnReplyMoves
<1>2. mounted BY DEF AccountParts
<1>3. /\ composer = {} \/ composer = last'.hash
      /\ Head(calls).call # "insert" => composer = {} \/ composer = last.hash
      /\ \A i \in 1..Len(rest) : /\ rest[i].status # "error"
                                 /\ rest[i].call = "heal" => composer = {}
  BY <1>1, AtHandIsAccountedFor
<1>4. /\ rest \in Seq(CallShape)
      /\ \A i \in 1..Len(rest) : rest[i].call \in SentinelCalls
  BY <1>1, RestIsSentinels
<1>5. CASE Handled
  <2>1. calls' = rest /\ mounted' /\ composer' = composer BY <1>2, <1>5 DEF Handled, page
  <2> QED BY <1>3, <1>4, <2>1, AccountAfter
<1>6. ASSUME NEW call \in Scripts \ SentinelCalls, Runs(rest, k, call), Head(calls).call # "insert"
      PROVE  AccountParts'
  <2>1. Issues(rest, k, call) BY <1>6, RunsIssue
  <2>2. mounted' /\ composer' \in {{}, composer} /\ (call \in Wipes => composer' = {})
    BY <1>2, <1>3, <1>6, RunKeepsComposer
  <2>3. call # "insert" BY <1>6 DEF Runs, Wipes
  <2>4. call \in Scripts \ (SentinelCalls \cup {"insert"}) BY <2>3
  <2>5. composer' = {} \/ composer' = last'.hash BY <1>3, <2>2
  <2>6. \A i \in 1..Len(rest) : /\ rest[i].call \in SentinelCalls
                                /\ rest[i].status # "error"
                                /\ rest[i].call = "heal" => composer' = {}
    BY <1>3, <1>4, <2>2
  <2> QED BY <1>4, <2>1, <2>2, <2>4, <2>5, <2>6, AccountAfter
<1> QED BY <1>1, <1>5, <1>6 DEF Moves, Ends, GoesOn

\* A step of neither the page nor a script
LEMMA StillKeepsAccount ==
  ASSUME AccountParts, UNCHANGED <<composer, mounted, calls, last>>
  PROVE  AccountParts'
  BY DEF AccountParts, TypedIn, Pending

LEMMA AdvanceKeepsAccount ==
  ASSUME OwnTextInv, QueueInv, OneFlight, AccountParts, NEW k \in Keys, Advance(k)
  PROVE  AccountParts'
<1>1. IsHead(k) /\ ~Busy(k) /\ last' = last /\ mounted BY DEF Advance, AccountParts
<1>2. /\ calls \in Seq(CallShape)
      /\ \A i \in 1..Len(calls) : calls[i].call \in SentinelCalls
  BY <1>1, IdleIsSentinels DEF Busy
<1>3. /\ composer = {} \/ composer = last.hash
      /\ \A i \in 1..Len(calls) : /\ calls[i].status # "error"
                                  /\ calls[i].call = "heal" => composer = {}
  BY <1>2, IdleIsAccountedFor
<1>4. \E call \in {"gate", "recheck", "enter", "click", "check"} : Runs(calls, k, call)
  BY DEF Advance, Runs
<1>5. PICK call \in {"gate", "recheck", "enter", "click", "check"} : Runs(calls, k, call)
  BY <1>4
<1>6. call \in Scripts \ (SentinelCalls \cup {"insert"}) BY DEF Scripts, SentinelCalls
<1>7. mounted' /\ composer' \in {{}, composer} /\ (call \in Wipes => composer' = {})
  BY <1>1, <1>3, <1>5, RunKeepsComposer
<1>8. Issues(calls, k, call) BY <1>5, RunsIssue
<1>9. composer' = {} \/ composer' = last'.hash BY <1>1, <1>3, <1>7
<1>10. \A i \in 1..Len(calls) : /\ calls[i].call \in SentinelCalls
                                /\ calls[i].status # "error"
                                /\ calls[i].call = "heal" => composer' = {}
  BY <1>2, <1>3, <1>7
<1> QED BY <1>2, <1>6, <1>7, <1>8, <1>9, <1>10, AccountAfter

LEMMA InsertKeepsAccount ==
  ASSUME OwnTextInv, QueueInv, OneFlight, AccountParts, NEW k \in Keys, Insert(k)
  PROVE  AccountParts'
<1>1. /\ k \in fetching /\ last' = last /\ mounted
      /\ RunInsert(calls, k, entry[k].text \cup entry[k].batch)
  BY DEF Insert, worker, AccountParts
<1>2. /\ calls \in Seq(CallShape)
      /\ \A i \in 1..Len(calls) : calls[i].call \in SentinelCalls
  BY <1>1 DEF OneFlight, Own, Pending, OwnTextInv, PageInv
<1>3. /\ composer = {} \/ composer = last.hash
      /\ \A i \in 1..Len(calls) : /\ calls[i].status # "error"
                                  /\ calls[i].call = "heal" => composer = {}
  BY <1>2, IdleIsAccountedFor
<1>4. PICK status, text :
        /\ status \in Statuses \ {"error"}
        /\ calls' = Append(calls, [who |-> k, call |-> "insert", status |-> status, text |-> text])
        /\ mounted'
        /\ \/ status = "ok" /\ composer' = text
           \/ status # "ok" /\ text = {} /\ composer' = composer
  <2> DEFINE Ran(status, text) ==
        /\ status \in Statuses \ {"error"}
        /\ calls' = Append(calls, [who |-> k, call |-> "insert", status |-> status, text |-> text])
        /\ mounted'
        /\ \/ status = "ok" /\ composer' = text
           \/ status # "ok" /\ text = {} /\ composer' = composer
  <2>1. {"no input", "user text", "ok"} \subseteq Statuses \ {"error"} BY DEF Statuses
  <2>2. \/ Ran("no input", {}) \/ Ran("user text", {})
        \/ Ran("ok", entry[k].text \cup entry[k].batch)
    BY <1>1, <2>1 DEF RunInsert, Reply, page
  <2>3. \E status, text : Ran(status, text)
    <3> HIDE DEF Ran
    <3> QED BY <2>2
  <2> QED BY <2>3
<1> DEFINE c == [who |-> k, call |-> "insert", status |-> status, text |-> text]
           n == Len(calls) + 1
<1>5. c.call = "insert" /\ c.status = status /\ c.text = text OBVIOUS
<1>6. calls' = Append(calls, c) BY <1>4
<1> HIDE DEF c
<1>7. /\ Len(calls) \in Nat /\ Len(calls') = n /\ calls'[n] = c
      /\ \A i \in 1..Len(calls) : calls'[i] = calls[i]
  BY ONLY <1>2, <1>6, AppendIndex
<1>8. \A i \in Pending' : calls'[i] = c \/ (i \in 1..Len(calls) /\ calls'[i] = calls[i])
  BY ONLY <1>7 DEF Pending
<1>9. PICK j \in Pending' : calls'[j] = c
  <2>1. n \in 1..Len(calls') BY ONLY <1>7
  <2> QED BY <1>7, <2>1 DEF Pending
<1>10. composer' = text => TypedIn' BY <1>5, <1>9 DEF TypedIn
<1>11. \A i \in Pending' : calls'[i].status # "error" BY <1>3, <1>4, <1>5, <1>8
<1>12. \A i \in Pending' : calls'[i].call \notin Wipes
  BY <1>2, <1>5, <1>8 DEF SentinelCalls, Wipes
<1>13. \A i \in Pending' : calls'[i].call = "insert" =>
         IF calls'[i].status = "ok" THEN composer' \in {{}, calls'[i].text} ELSE calls'[i].text = {}
  <2>1. IF status = "ok" THEN composer' \in {{}, text} ELSE text = {} BY <1>4
  <2> QED BY <1>2, <1>5, <1>8, <2>1 DEF SentinelCalls
<1>14. \A i \in Pending' : calls'[i].call = "heal" => composer' = {} \/ TypedIn'
  BY <1>3, <1>4, <1>5, <1>8, <1>10
<1>15. composer' = {} \/ composer' = last'.hash \/ TypedIn'
  BY <1>1, <1>3, <1>4, <1>10
<1> QED BY <1>4, <1>11, <1>12, <1>13, <1>14, <1>15 DEF AccountParts

LEMMA SentinelSweepKeepsAccount ==
  ASSUME OwnTextInv, QueueInv, OneFlight, AccountParts, SentinelSweep
  PROVE  AccountParts'
<1>1. queue = <<>> /\ last' = last /\ composer' = composer /\ mounted' /\ last.hash \in Texts
  BY DEF SentinelSweep, worker, page, AccountParts, OwnTextInv, LastInv, Texts
<1>2. \A i \in 1..Len(calls) : calls[i].call \in SentinelCalls
  BY <1>1 DEF OneFlight, IsHead, Own, Pending
<1>3. \A i \in 1..Len(calls) : calls[i].call # "heal"
  BY DEF SentinelSweep, SentinelCalls
<1>4. /\ composer = {} \/ composer = last.hash
      /\ \A i \in 1..Len(calls) : calls[i].status # "error"
  BY <1>2, IdleIsAccountedFor
<1>5. PICK status \in Statuses \ {"error"} :
        Reply(calls, last.key, "sentinel", status, last.hash)
  BY DEF SentinelSweep, Statuses
<1> DEFINE c == [who |-> last.key, call |-> "sentinel", status |-> status, text |-> last.hash]
           n == Len(calls) + 1
<1>6. c.call = "sentinel" /\ c.status # "error" OBVIOUS
<1>7. calls' = Append(calls, c) BY <1>5 DEF Reply
<1> HIDE DEF c
<1>8. calls \in Seq(CallShape) BY DEF OwnTextInv, PageInv
<1>9. /\ Len(calls) \in Nat /\ Len(calls') = n /\ calls'[n] = c
      /\ \A i \in 1..Len(calls) : calls'[i] = calls[i]
  BY ONLY <1>7, <1>8, AppendIndex
<1>10. \A i \in Pending' : calls'[i] = c \/ (i \in 1..Len(calls) /\ calls'[i] = calls[i])
  BY ONLY <1>9 DEF Pending
<1>11. \A i \in Pending' : calls'[i].status # "error" BY <1>4, <1>6, <1>10
<1>12. \A i \in Pending' : calls'[i].call = "sentinel"
  BY <1>2, <1>3, <1>6, <1>10 DEF SentinelCalls
<1> QED BY <1>1, <1>4, <1>11, <1>12 DEF AccountParts, Wipes

LEMMA SentinelReplyKeepsAccount ==
  ASSUME OwnTextInv, QueueInv, OneFlight, OneSentinel, AccountParts, NEW k \in Keys, SentinelReply(k)
  PROVE  AccountParts'
<1>1. /\ calls # <<>> /\ Head(calls).call = "sentinel" /\ last' = last /\ mounted
  BY DEF SentinelReply, Handles, worker, AccountParts
<1>2. /\ rest \in Seq(CallShape) /\ Len(rest) \in Nat /\ 1 \in Pending /\ calls[1] = Head(calls)
      /\ \A i \in 1..Len(rest) : /\ i + 1 \in Pending /\ rest[i] = calls[i + 1]
                                 /\ rest[i].call \notin SentinelCalls
  BY <1>1, BehindTheSentinel DEF SentinelCalls
<1>3. \A i \in Pending : calls[i].call # "insert"
  <2> SUFFICES ASSUME NEW i \in Pending, calls[i].call = "insert" PROVE FALSE OBVIOUS
  <2>1. Own(i) BY DEF Own, SentinelCalls
  <2>2. PICK u \in Keys : u = calls[i].who BY <2>1 DEF OneFlight
  <2>3. entry[u].phase \in PhasesOf("insert") BY <2>1, <2>2 DEF OneFlight
  <2>4. Past(u) BY <2>3 DEF Past, PhasesOf
  <2> QED BY <1>1, <1>2, <2>4 DEF OneSentinel
<1>4. composer = {} \/ composer = last.hash
  BY <1>3 DEF AccountParts, TypedIn
<1>5. \A i \in 1..Len(rest) : /\ rest[i].status # "error"
                              /\ rest[i].call # "insert"
                              /\ rest[i].call \in Wipes => composer = {}
  BY <1>2, <1>3 DEF AccountParts
<1>6. CASE Handled
  <2>1. calls' = rest /\ mounted' /\ composer' = composer BY <1>1, <1>6 DEF Handled, page
  <2> QED BY <1>1, <1>2, <1>4, <1>5, <2>1 DEF AccountParts, Pending, SentinelCalls
<1>7. CASE RunClear(rest, k, "heal", Head(calls).text)
  <2>1. Head(calls).text = last.hash BY <1>1, <1>2 DEF OneSentinel
  <2>2. mounted' /\ composer' = {} BY <1>1, <1>4, <1>7, <2>1 DEF RunClear, Shown, page
  <2>3. PICK status \in Statuses \ {"error"} : Reply(rest, k, "heal", status, Head(calls).text)
    BY <1>7 DEF RunClear, Statuses
  <2> DEFINE c == [who |-> k, call |-> "heal", status |-> status, text |-> Head(calls).text]
             n == Len(rest) + 1
  <2>4. c.call = "heal" /\ c.status # "error" OBVIOUS
  <2>5. calls' = Append(rest, c) BY <2>3 DEF Reply
  <2> HIDE DEF c
  <2>6. /\ Len(rest) \in Nat /\ Len(calls') = n /\ calls'[n] = c
        /\ \A i \in 1..Len(rest) : calls'[i] = rest[i]
    BY ONLY <1>2, <2>5, AppendIndex
  <2>7. \A i \in Pending' : calls'[i] = c \/ (i \in 1..Len(rest) /\ calls'[i] = rest[i])
    BY ONLY <2>6 DEF Pending
  <2>8. \A i \in Pending' : calls'[i].status # "error" /\ calls'[i].call # "insert"
    BY <1>5, <2>4, <2>7
  <2> QED BY <2>2, <2>8 DEF AccountParts
<1> QED BY <1>6, <1>7 DEF SentinelReply

LEMMA HealReplyKeepsAccount ==
  ASSUME OwnTextInv, QueueInv, OneFlight, OneSentinel, AccountParts, NEW k \in Keys, HealReply(k)
  PROVE  AccountParts'
<1>1. /\ calls # <<>> /\ Head(calls).call = "heal" /\ calls' = rest
      /\ composer' = composer /\ mounted' /\ calls \in Seq(CallShape)
  BY DEF HealReply, Handles, Handled, page, AccountParts, OwnTextInv, PageInv
<1>2. /\ rest \in Seq(CallShape) /\ Len(rest) = Len(calls) - 1 /\ Len(calls) \in Nat \ {0}
      /\ 1 \in Pending /\ calls[1] = Head(calls)
      /\ \A i \in 1..Len(rest) : i + 1 \in Pending /\ rest[i] = calls[i + 1]
  BY <1>1, RestIndex DEF rest, Pending
<1>3. \A i \in Pending' : i + 1 \in Pending /\ calls'[i] = calls[i + 1] /\ calls'[i].call # "heal"
  BY <1>1, <1>2, BehindTheSentinel DEF SentinelCalls, Pending
<1>4. TypedIn => TypedIn'
  <2> SUFFICES ASSUME NEW i \in Pending, calls[i].call = "insert", calls[i].text = composer
               PROVE  TypedIn'
    BY DEF TypedIn
  <2>1. i # 1 BY <1>1, <1>2
  <2>2. i - 1 \in Pending' /\ calls'[i - 1] = calls[i]
    <3>1. i - 1 \in 1..Len(rest) /\ (i - 1) + 1 = i BY <1>2, <2>1 DEF Pending
    <3> QED BY <1>1, <1>2, <3>1 DEF Pending
  <2>3. PICK j \in Pending' : calls'[j] = calls[i] BY <2>2
  <2> QED BY <1>1, <2>3 DEF TypedIn
<1>5. composer = {} \/ TypedIn BY <1>1, <1>2 DEF AccountParts
<1>6. \A i \in Pending' :
        /\ calls'[i].status # "error"
        /\ calls'[i].call \in Wipes => composer = {}
        /\ calls'[i].call = "insert" =>
             IF calls'[i].status = "ok" THEN composer \in {{}, calls'[i].text} ELSE calls'[i].text = {}
  BY <1>3 DEF AccountParts
<1> QED BY <1>1, <1>3, <1>4, <1>5, <1>6 DEF AccountParts

LEMMA AroundKeepsAccount ==
  ASSUME OwnTextInv, AccountParts, Around, may \subseteq {"close", "reload", "send", "redeliver"}
  PROVE  AccountParts'
<1>1. CASE UserSends \/ Reload
  <2>1. mounted' /\ composer' \in {{}, composer} /\ calls' = calls /\ last' = last
    BY <1>1 DEF UserSends, Reload, Submit, worker
  <2>2. CASE composer' = {}
    BY <2>1, <2>2 DEF AccountParts, Pending
  <2>3. CASE composer' = composer
    BY <2>1, <2>3 DEF AccountParts, Pending, TypedIn
  <2> QED BY <2>1, <2>2, <2>3
<1>2. CASE UserPauses
  BY <1>2, StillKeepsAccount DEF UserPauses, worker
<1>3. CASE CloseTab
  <2>1. mounted' /\ composer' = {} /\ Pending' = {} BY <1>3 DEF CloseTab, Pending
  <2> QED BY <2>1 DEF AccountParts
<1> QED BY <1>1, <1>2, <1>3
        DEF Around, UserTypes, UserErases, Remount, ScriptFails, WorkerRestarts

LEMMA StepKeepsAccount ==
  ASSUME OwnTextInv, FlightInv, AccountInv, [Next]_vars
  PROVE  AccountInv'
<1>0. may' = may BY MayStays
<1> SUFFICES ASSUME may \subseteq {"close", "reload", "send", "redeliver"} PROVE AccountParts'
  BY <1>0 DEF AccountInv
<1>1. "flush" \notin may /\ QueueInv /\ OneFlight /\ OneSentinel /\ AccountParts
  BY DEF FlightInv, AccountInv
<1>2. CASE UNCHANGED vars
  BY <1>1, <1>2, StillKeepsAccount DEF vars, page, worker
<1>3. CASE Around BY <1>1, <1>3, AroundKeepsAccount
<1>4. CASE SentinelSweep BY <1>1, <1>4, SentinelSweepKeepsAccount
<1>5. ASSUME NEW k \in Keys, SentinelReply(k) \/ HealReply(k) PROVE AccountParts'
  BY <1>1, <1>5, SentinelReplyKeepsAccount, HealReplyKeepsAccount
<1>6. ASSUME NEW k \in Keys, QueueStep(k) PROVE AccountParts'
  <2>1. CASE QueueSend(k) \/ TabGone(k) \/ FetchFooter(k)
    <3>1. UNCHANGED <<composer, mounted, calls, last>>
      BY <2>1 DEF QueueSend, TabGone, FetchFooter, page, worker
    <3> QED BY <1>1, <3>1, StillKeepsAccount
  <2> QED BY <1>1, <1>6, <2>1, AdvanceKeepsAccount, InsertKeepsAccount DEF QueueStep
<1>7. ASSUME NEW k \in Keys, OwnReply(k) PROVE AccountParts'
  BY <1>1, <1>7, OwnReplyKeepsAccount
<1> QED BY <1>1, <1>2, <1>3, <1>4, <1>5, <1>6, <1>7, Steps

\* Text in the composer is what is remembered of the tab, or a reply that will
\* make it so is pending, as long as only submissions, reloads and the end of the
\* tab part the two: so the extension can always tell its own leftovers.
THEOREM ComposerIsKnown == Spec => []ComposerIsAccountedFor
<1>1. Init => AccountInv
  <2> SUFFICES ASSUME Init PROVE AccountParts BY DEF AccountInv
  <2>1. Pending = {} BY DEF Init, Pending
  <2> QED BY <2>1 DEF Init, AccountParts
<1>2. OwnTextInv /\ FlightInv /\ AccountInv /\ [Next]_vars => AccountInv' BY StepKeepsAccount
<1>3. AccountInv => ComposerIsAccountedFor
  <2> SUFFICES ASSUME AccountParts, composer # {}
               PROVE  \/ StillOurs(composer)
                      \/ \E i \in 1..Len(calls) : calls[i].call = "insert" /\ calls[i].text = composer
    BY DEF AccountInv, ComposerIsAccountedFor
  <2> QED BY DEF AccountParts, StillOurs, TypedIn, Pending
<1> QED BY <1>1, <1>2, <1>3, OwnTextIsOwn, OneStepInFlight, PTL DEF Spec

----------------------------------------------------------------------------
(* Submitted once: left alone, the delivery at the head goes through its    *)
(* stages, and every look at the page tells which one it is in.             *)

\* Its text is in the composer and not submitted, was submitted, or was wiped.
Full(k) ==
  /\ composer = TextOf(k) /\ marker = k /\ markHash = TextOf(k)
  /\ \A x \in TextOf(k) : landed[x] = 0
Gone(k) == composer = {} /\ marker = k
Wiped(k) == composer = {} /\ \A x \in TextOf(k) : landed[x] = 0

\* Between two scripts
Rests(k) ==
  /\ entry[k].phase = "insert" => composer = {}
  /\ entry[k].phase = "find" => Full(k)
  /\ entry[k].phase = "await" => Full(k) \/ Gone(k)

\* While the reply of a script is pending
CallStage(k, call, status, text) ==
  \/ call = "gate" /\ text = {}
  \/ call = "insert" /\ status = "ok" /\ text = TextOf(k) /\ Full(k)
  \/ call = "recheck" /\ Full(k)
  \/ call \in {"click", "enter", "fallback"} /\ status = "dispatched" /\ (Full(k) \/ Gone(k))
  \/ call \in {"click", "enter", "fallback"} /\ status = "not ready" /\ Full(k)
  \/ call = "check" /\ status = "cleared" /\ Gone(k)
  \/ call \in {"check", "last check"} /\ status = "full" /\ Full(k)
  \/ call = "last reclaim" /\ status = "cleared" /\ Wiped(k)
  \/ call = "sentinel" /\ status = "fine"

Free(k) == \A i \in Pending : Own(i) => calls[i].who # k

\* What was submitted once is acknowledged, or will be by the delivery at work.
Ledger ==
  \A x \in Keys :
    /\ landed[x] <= 1
    /\ landed[x] > 0 =>
         \/ x \in delivered
         \/ \E k \in Keys : entry[k].phase \in {"find", "await"} /\ x \in TextOf(k)

OnceParts ==
  /\ ~typed /\ mounted /\ LandedShape
  /\ \A k \in Keys : Queued(k) => k \notin delivered
  /\ \A k \in Keys : entry[k].phase # "none" => entry[k].text = {k}
  /\ \A k \in Keys : Past(k) => \A m \in entry[k].batch : Queued(m)
  /\ Ledger
  /\ (\A k \in Keys : ~Past(k)) => composer = {}
  /\ \A k \in Keys : Past(k) /\ Free(k) => Rests(k)
  /\ \A k \in Keys : entry[k].phase \in {"find", "await"} => last.hash = TextOf(k)
  /\ \A i \in Pending : CallStage(calls[i].who, calls[i].call, calls[i].status, calls[i].text)

\* The invariant, as long as the user and the page do nothing but close the tab.
AloneInv ==
  may \subseteq {"close"} =>
    /\ \A x \in Keys : landed[x] <= 1
    /\ IF open THEN OnceParts ELSE calls = <<>> /\ fetching = {}

\* What one key's stage comes to, for all of them.
LEMMA OnceAfter ==
  ASSUME NEW pending \in Seq(CallShape),
         \A i \in 1..Len(pending) : pending[i].call = "sentinel" /\ pending[i].status = "fine",
         NEW k \in Keys, ~typed', mounted', LandedShape',
         \A m \in Keys : Queued(m)' => m \notin delivered',
         \A m \in Keys : entry'[m].phase # "none" => entry'[m].text = {m},
         \A m \in Keys : Past(m)' => m = k /\ \A b \in entry'[m].batch : Queued(b)',
         Ledger',
         ~Past(k)' => composer' = {},
         entry'[k].phase \in {"find", "await"} => last'.hash = TextOf(k)',
         \/ calls' = pending /\ Rests(k)'
         \/ \E call \in Scripts \ SentinelCalls : \E status, text :
              /\ Reply(pending, k, call, status, text)
              /\ CallStage(k, call, status, text)'
  PROVE  OnceParts'
<1>1. ASSUME NEW i, NEW u, NEW call, NEW status, NEW text,
             calls'[i].who = u /\ calls'[i].call = call
               /\ calls'[i].status = status /\ calls'[i].text = text,
             CallStage(u, call, status, text)'
      PROVE  CallStage(calls[i].who, calls[i].call, calls[i].status, calls[i].text)'
  BY ONLY <1>1 DEF CallStage, Full, Gone, Wiped, TextOf
<1>2. ASSUME NEW i, calls'[i].call = "sentinel" /\ calls'[i].status = "fine"
      PROVE  CallStage(calls[i].who, calls[i].call, calls[i].status, calls[i].text)'
  BY ONLY <1>2 DEF CallStage
<1>5. /\ \A m \in Keys : entry'[m].phase \in {"find", "await"} => last'.hash = TextOf(m)'
      /\ \A m \in Keys : Past(m)' => \A b \in entry'[m].batch : Queued(b)'
      /\ (\A m \in Keys : ~Past(m)') => composer' = {}
  <2>1. \A m \in Keys : entry'[m].phase \in {"find", "await"} => m = k BY DEF Past
  <2> QED BY <2>1
<1>3. CASE calls' = pending /\ Rests(k)'
  <2>1. \A i \in Pending' :
          CallStage(calls[i].who, calls[i].call, calls[i].status, calls[i].text)'
    BY <1>2, <1>3 DEF Pending
  <2>2. \A m \in Keys : Past(m)' /\ Free(m)' => Rests(m)' BY <1>3
  <2> QED BY <1>5, <2>1, <2>2 DEF OnceParts
<1>4. ASSUME NEW call \in Scripts \ SentinelCalls, NEW status, NEW text,
             Reply(pending, k, call, status, text), CallStage(k, call, status, text)'
      PROVE  OnceParts'
  <2> DEFINE c == [who |-> k, call |-> call, status |-> status, text |-> text]
             n == Len(pending) + 1
  <2>1. c.who = k /\ c.call = call /\ c.status = status /\ c.text = text OBVIOUS
  <2>2. calls' = Append(pending, c) BY <1>4 DEF Reply
  <2> HIDE DEF c
  <2>3. pending \in Seq(CallShape) OBVIOUS
  <2>4. /\ Len(pending) \in Nat /\ Len(calls') = n /\ calls'[n] = c
        /\ \A i \in 1..Len(pending) : calls'[i] = pending[i]
    BY ONLY <2>2, <2>3, AppendIndex
  <2>5. \A i \in Pending' : calls'[i] = c \/ (i \in 1..Len(pending) /\ calls'[i] = pending[i])
    BY ONLY <2>4 DEF Pending
  <2>6. \A i \in Pending' :
          CallStage(calls[i].who, calls[i].call, calls[i].status, calls[i].text)'
    BY <1>1, <1>2, <1>4, <2>1, <2>5
  <2>7. ~Free(k)'
    <3>1. n \in 1..Len(calls') BY ONLY <2>4
    <3>2. PICK j \in 1..Len(calls') : calls'[j] = c BY <2>4, <3>1
    <3> QED BY <2>1, <3>2 DEF Free, Pending, Own
  <2>8. \A m \in Keys : Past(m)' /\ Free(m)' => Rests(m)' BY <2>7
  <2> QED BY <1>5, <2>6, <2>8 DEF OnceParts
<1> QED BY <1>3, <1>4

\* What is known when an entry's own reply is handled
AloneAtHand(k) ==
  /\ AtHand(k) /\ IsHead(k)
  /\ rest \in Seq(CallShape)
  /\ \A i \in 1..Len(rest) : rest[i].call = "sentinel" /\ rest[i].status = "fine"
  /\ CallStage(k, Head(calls).call, Status, Head(calls).text)
  /\ \A m \in Keys : Past(m) => m = k
  /\ k \in TextOf(k) /\ TextOf(k) = {k} \cup entry[k].batch
  /\ TextOf(k) \in SUBSET Keys
  /\ entry[k].text = {k}

LEMMA AtHandIsAlone ==
  ASSUME OwnTextInv, QueueInv, OneFlight, OneSentinel, OnceParts, NEW k \in Keys, AtHand(k)
  PROVE  AloneAtHand(k)
<1>1. /\ calls \in Seq(CallShape) /\ calls # <<>> /\ rest \in Seq(CallShape)
      /\ 1 \in Pending /\ calls[1] = Head(calls) /\ Own(1) /\ calls[1].who = k
      /\ \A i \in 1..Len(rest) : i + 1 \in Pending /\ rest[i] = calls[i + 1]
  BY RestIndex DEF AtHand, OwnTextInv, PageInv, rest, Pending
<1>2. IsHead(k) BY <1>1 DEF OneFlight
<1>3. \A m \in Keys : Past(m) => m = k BY <1>2 DEF OneFlight, IsHead
<1>4. CallStage(k, Head(calls).call, Status, Head(calls).text)
  <2>1. CallStage(calls[1].who, calls[1].call, calls[1].status, calls[1].text)
    BY <1>1 DEF OnceParts
  <2> QED BY <1>1, <2>1 DEF Status
<1>5. ASSUME NEW i \in 1..Len(rest)
      PROVE  rest[i].call = "sentinel" /\ rest[i].status = "fine"
  <2>1. rest[i].call \in SentinelCalls BY RestIsSentinels
  <2>2. CallStage(rest[i].who, rest[i].call, rest[i].status, rest[i].text)
    BY <1>1 DEF OnceParts
  <2> QED BY <2>1, <2>2 DEF CallStage, SentinelCalls
<1>6. entry[k].phase # "none" BY DEF AtHand, PhasesOf
<1>7. entry[k].text = {k} BY <1>6 DEF OnceParts
<1>8. TextOf(k) \in SUBSET Keys BY DEF TextOf, OwnTextInv, EntryInv, EntryShape
<1> QED BY <1>1, <1>2, <1>3, <1>4, <1>5, <1>7, <1>8 DEF AloneAtHand, TextOf

\* What is deleted from the queue is not queued.
LEMMA FinishUnqueues ==
  ASSUME QueueInv, NEW done, NEW self, NEW result, FinishSends(done, self, result)
  PROVE  \A m : Queued(m)' => Queued(m) /\ m \notin done
<1>1. queue' \in Seq({queue[j] : j \in 1..Len(queue)} \ done)
  BY WithoutKeeps DEF FinishSends, QueueInv
<1> QED BY <1>1 DEF Queued

\* A delivery ends with the composer clear.
LEMMA FinishOnce ==
  ASSUME OwnTextInv, QueueInv, OnceParts, NEW k \in Keys, NEW pending \in Seq(CallShape),
         \A i \in 1..Len(pending) : pending[i].call = "sentinel" /\ pending[i].status = "fine",
         \A m \in Keys : Past(m) => m = k,
         NEW done, NEW result, FinishSends(done, k, result), calls' = pending,
         UNCHANGED <<page, landed>>, composer = {},
         \A x \in Keys : landed[x] > 0 => x \in delivered \/ (result = "sent" /\ x \in done)
  PROVE  OnceParts'
<1>1. (\A m \in Keys : ~Past(m)') /\ QueueInv' BY FinishLeaves DEF OwnTextInv
<1>2. ~typed' /\ mounted' /\ LandedShape' /\ composer' = {}
  BY DEF OnceParts, page, LandedShape
<1>3. \A m \in Keys : Queued(m)' => m \notin delivered'
  <2>1. \A m \in Keys : Queued(m)' => Queued(m) /\ m \notin done BY FinishUnqueues
  <2>2. delivered' \subseteq delivered \cup done BY DEF FinishSends
  <2>3. \A m \in Keys : Queued(m) => m \notin delivered BY DEF OnceParts
  <2> QED BY <2>1, <2>2, <2>3
<1>4. \A m \in Keys : entry'[m].phase # "none" => entry'[m].text = {m}
  <2>1. \A m \in Keys : entry'[m] = NoEntry \/ entry'[m] = entry[m]
    BY DEF FinishSends, OwnTextInv, EntryInv
  <2> QED BY <2>1 DEF OnceParts, NoEntry
<1>5. Ledger' BY DEF Ledger, OnceParts, FinishSends
<1>6. Rests(k)' /\ entry'[k].phase \notin {"find", "await"} BY <1>1 DEF Rests, Past
<1> QED BY <1>1, <1>2, <1>3, <1>4, <1>5, <1>6, OnceAfter

\* A delivery goes on to a stage.
LEMMA StageOnce ==
  ASSUME OwnTextInv, OnceParts, NEW k \in Keys, NEW pending \in Seq(CallShape),
         \A i \in 1..Len(pending) : pending[i].call = "sentinel" /\ pending[i].status = "fine",
         \A m \in Keys : Past(m) => m = k,
         NEW e, entry' = [entry EXCEPT ![k] = e], e.text = {k}, UNCHANGED <<queue, delivered>>,
         e.phase \notin {"none", "hold"} => \A b \in e.batch : Queued(b),
         e.phase \in {"none", "hold"} => composer' = {},
         ~typed', mounted', LandedShape', Ledger',
         e.phase \in {"find", "await"} => last'.hash = TextOf(k)',
         \/ calls' = pending /\ Rests(k)'
         \/ \E call \in Scripts \ SentinelCalls : \E status, text :
              /\ Reply(pending, k, call, status, text)
              /\ CallStage(k, call, status, text)'
  PROVE  OnceParts'
<1>1. entry'[k] = e /\ \A m \in Keys \ {k} : entry'[m] = entry[m]
  BY DEF OwnTextInv, EntryInv
<1>2. \A m \in Keys : Queued(m)' => m \notin delivered' BY DEF OnceParts, Queued
<1>3. \A m \in Keys : entry'[m].phase # "none" => entry'[m].text = {m}
  BY <1>1 DEF OnceParts
<1>4. \A m \in Keys : Past(m)' => m = k /\ \A b \in entry'[m].batch : Queued(b)'
  BY <1>1 DEF Past, Queued
<1>5. ~Past(k)' => composer' = {} BY <1>1 DEF Past
<1>6. entry'[k].phase \in {"find", "await"} => last'.hash = TextOf(k)' BY <1>1
<1> QED BY <1>2, <1>3, <1>4, <1>5, <1>6, OnceAfter

\* The ledger after a step that submits nothing, or the text of the delivery at work
LEMMA LedgerAfter ==
  ASSUME Ledger, NEW k \in Keys, \A m \in Keys : Past(m) => m = k,
         \A x \in Keys : landed'[x] <= 1 /\ (landed'[x] > 0 => landed[x] > 0 \/ x \in TextOf(k)),
         TextOf(k)' = TextOf(k), entry'[k].phase \in {"find", "await"}, delivered' = delivered
  PROVE  Ledger'
<1> SUFFICES ASSUME NEW x \in Keys, landed'[x] > 0, x \notin delivered'
             PROVE  x \in TextOf(k)'
  BY DEF Ledger
<1>1. CASE landed[x] > 0
  <2>1. PICK m \in Keys : entry[m].phase \in {"find", "await"} /\ x \in TextOf(m)
    BY <1>1 DEF Ledger
  <2>2. m = k BY <2>1 DEF Past
  <2> QED BY <2>1, <2>2
<1>2. CASE x \in TextOf(k) BY <1>2
<1> QED BY <1>1, <1>2

\* A submission of the text in the composer, or an attempt at it
LEMMA SubmitAlone ==
  ASSUME LandedShape, mounted, ~typed, NEW k \in Keys, NEW pending, NEW call,
         Full(k), k \in TextOf(k), TextOf(k) \in SUBSET Keys, TextOf(k)' = TextOf(k),
         call \in {"click", "enter", "fallback"},
         \A x \in Keys : landed[x] <= 1,
         RunSubmit(pending, k, call)
  PROVE  /\ ~typed' /\ mounted' /\ LandedShape'
         /\ \A x \in Keys : landed'[x] <= 1 /\ (landed'[x] > 0 => landed[x] > 0 \/ x \in TextOf(k))
         /\ Reply(pending, k, call, "dispatched", {}) /\ (Full(k)' \/ Gone(k)')
<1>1. /\ composer = TextOf(k) /\ marker = k /\ markHash = TextOf(k) /\ Shown = markHash
      /\ \A x \in TextOf(k) : landed[x] = 0
  BY DEF Full, Shown
<1>2. /\ Reply(pending, k, call, "dispatched", {}) /\ SubmitOrNot
      /\ UNCHANGED <<mounted, marker, markHash, typed>>
  BY <1>1 DEF RunSubmit
<1>3. CASE UNCHANGED <<composer, landed>>
  <2>1. Full(k)' BY <1>1, <1>2, <1>3 DEF Full
  <2> QED BY <1>2, <1>3, <2>1 DEF LandedShape
<1>4. CASE Submit
  <2>1. composer' = {} /\ landed' = Landing(TextOf(k)) BY <1>1, <1>4 DEF Submit
  <2>2. \A x \in Keys \cup Words :
          landed'[x] = IF x \in TextOf(k) /\ landed[x] < LandedCap THEN landed[x] + 1 ELSE landed[x]
    BY <2>1 DEF Landing
  <2>3. LandedShape'
    <3>1. \A x \in Keys \cup Words : landed'[x] \in Nat BY <2>2 DEF LandedShape
    <3> QED BY <2>1, <3>1 DEF Landing, LandedShape
  <2>4. \A x \in Keys : landed'[x] <= 1 /\ (landed'[x] > 0 => landed[x] > 0 \/ x \in TextOf(k))
    BY <1>1, <2>2 DEF LandedShape
  <2>5. Gone(k)' BY <1>1, <1>2, <2>1 DEF Gone
  <2> QED BY <1>2, <2>3, <2>4, <2>5
<1> QED BY <1>2, <1>3, <1>4 DEF SubmitOrNot

\* A click or an Enter for the text in the composer
LEMMA WorkAlone ==
  ASSUME OwnTextInv, OnceParts, NEW k \in Keys, NEW pending \in Seq(CallShape),
         \A i \in 1..Len(pending) : pending[i].call = "sentinel" /\ pending[i].status = "fine",
         \A m \in Keys : Past(m) => m = k,
         Full(k), k \in TextOf(k), TextOf(k) \in SUBSET Keys,
         entry[k].text = {k}, entry[k].phase = "find",
         NEW e, SetEntry(k, e), e.text = {k}, e.batch = entry[k].batch, e.phase = "find",
         last' = last,
         NEW call, \/ call = "click" /\ RunClick(pending, k)
                   \/ call \in {"enter", "fallback"} /\ RunEnter(pending, k, call)
  PROVE  OnceParts'
<1>1. /\ ~typed /\ mounted /\ LandedShape /\ Ledger /\ \A x \in Keys : landed[x] <= 1
      /\ marker = k /\ last.hash = TextOf(k)
  BY DEF OnceParts, Ledger, Full
<1>2. entry' = [entry EXCEPT ![k] = e] /\ queue' = queue /\ delivered' = delivered
  BY DEF SetEntry
<1>3. entry'[k] = e BY <1>2 DEF OwnTextInv, EntryInv
<1>4. TextOf(k)' = TextOf(k) BY <1>3 DEF TextOf
<1>5. \A b \in e.batch : Queued(b) BY DEF OnceParts, Past
<1>6. /\ ~typed' /\ mounted' /\ LandedShape'
      /\ \A x \in Keys : landed'[x] <= 1 /\ (landed'[x] > 0 => landed[x] > 0 \/ x \in TextOf(k))
      /\ \/ Reply(pending, k, call, "dispatched", {}) /\ (Full(k)' \/ Gone(k)')
         \/ Reply(pending, k, call, "not ready", {}) /\ Full(k)'
  <2>1. CASE RunSubmit(pending, k, call)
    BY <1>1, <1>4, <2>1, SubmitAlone
  <2>2. CASE Reply(pending, k, call, "not ready", {}) /\ UNCHANGED <<page, landed>>
    <3>1. Full(k)' BY <1>4, <2>2 DEF Full, page
    <3> QED BY <1>1, <2>2, <3>1 DEF page, LandedShape
  <2> QED BY <1>1, <2>1, <2>2 DEF RunClick, RunEnter, ContextLost
<1>7. Ledger' BY <1>1, <1>2, <1>3, <1>4, <1>6, LedgerAfter
<1>8. call \in Scripts \ SentinelCalls BY DEF Scripts, SentinelCalls
<1>9. \E status, text :
        Reply(pending, k, call, status, text) /\ CallStage(k, call, status, text)'
  <2>1. CASE Reply(pending, k, call, "dispatched", {}) /\ (Full(k)' \/ Gone(k)')
    <3>1. CallStage(k, call, "dispatched", {})' BY <2>1 DEF CallStage
    <3> QED BY <2>1, <3>1
  <2>2. CASE Reply(pending, k, call, "not ready", {}) /\ Full(k)'
    <3>1. CallStage(k, call, "not ready", {})' BY <2>2 DEF CallStage
    <3> QED BY <2>2, <3>1
  <2> QED BY <1>6, <2>1, <2>2
<1> QED BY <1>1, <1>2, <1>4, <1>5, <1>6, <1>7, <1>8, <1>9, StageOnce

\* A look at whether the composer is clear
LEMMA CheckAlone ==
  ASSUME mounted, NEW k \in Keys, NEW pending, NEW call, k \in TextOf(k), TextOf(k)' = TextOf(k),
         \/ call \in {"check", "last check"} /\ Full(k)
         \/ call = "check" /\ Gone(k),
         RunCheck(pending, k, call)
  PROVE  /\ UNCHANGED <<page, landed>>
         /\ \E status, text :
              Reply(pending, k, call, status, text) /\ CallStage(k, call, status, text)'
<1>1. /\ marker = k /\ UNCHANGED <<page, landed>>
      /\ Reply(pending, k, call, IF composer = {} THEN "cleared" ELSE "full", {})
  BY DEF RunCheck, ContextLost, Full, Gone, Shown
<1>2. CASE Full(k) /\ call \in {"check", "last check"}
  <2>1. composer # {} /\ Full(k)' BY <1>1, <1>2 DEF Full, page
  <2>2. CallStage(k, call, "full", {})' BY <1>2, <2>1 DEF CallStage
  <2>3. Reply(pending, k, call, "full", {}) BY <1>1, <2>1
  <2> QED BY <1>1, <2>2, <2>3
<1>3. CASE Gone(k) /\ call = "check"
  <2>1. composer = {} /\ Gone(k)' BY <1>1, <1>3 DEF Gone, page
  <2>2. CallStage(k, call, "cleared", {})' BY <1>3, <2>1 DEF CallStage
  <2>3. Reply(pending, k, call, "cleared", {}) BY <1>1, <2>1
  <2> QED BY <1>1, <2>2, <2>3
<1> QED BY <1>2, <1>3

\* The entry stays at work, and nothing or a check is run.
LEMMA PauseOnce ==
  ASSUME OwnTextInv, OnceParts, NEW k \in Keys, NEW pending \in Seq(CallShape),
         \A i \in 1..Len(pending) : pending[i].call = "sentinel" /\ pending[i].status = "fine",
         \A m \in Keys : Past(m) => m = k,
         k \in TextOf(k), TextOf(k) \in SUBSET Keys, entry[k].phase \in {"find", "await"},
         NEW e, SetEntry(k, e), e.text = {k}, entry[k].text = {k}, e.batch = entry[k].batch,
         e.phase \in {"find", "await"}, last' = last, UNCHANGED <<page, landed>>,
         \/ calls' = pending /\ (Full(k) \/ (e.phase = "await" /\ Gone(k)))
         \/ \E call \in Scripts \ SentinelCalls : \E status, text :
              /\ Reply(pending, k, call, status, text)
              /\ CallStage(k, call, status, text)'
  PROVE  OnceParts'
<1>1. ~typed /\ mounted /\ LandedShape /\ Ledger /\ last.hash = TextOf(k)
  BY DEF OnceParts
<1>2. entry' = [entry EXCEPT ![k] = e] /\ queue' = queue /\ delivered' = delivered
  BY DEF SetEntry
<1>3. entry'[k] = e BY <1>2 DEF OwnTextInv, EntryInv
<1>4. TextOf(k)' = TextOf(k) BY <1>3 DEF TextOf
<1>5. \A b \in e.batch : Queued(b) BY DEF OnceParts, Past
<1>6. ~typed' /\ mounted' /\ LandedShape' BY <1>1 DEF page, LandedShape
<1>7. Ledger'
  <2>1. \A x \in Keys : landed'[x] <= 1 /\ (landed'[x] > 0 => landed[x] > 0 \/ x \in TextOf(k))
    BY <1>1 DEF Ledger
  <2> QED BY <1>1, <1>2, <1>3, <1>4, <2>1, LedgerAfter
<1>8. calls' = pending /\ (Full(k) \/ (e.phase = "await" /\ Gone(k))) => Rests(k)'
  BY <1>3, <1>4 DEF Rests, Full, Gone, page
<1> QED BY <1>1, <1>2, <1>4, <1>5, <1>6, <1>7, <1>8, StageOnce

LEMMA NextAttemptOnce ==
  ASSUME OwnTextInv, OnceParts, NEW k \in Keys, AloneAtHand(k), Full(k),
         entry[k].phase \in {"find", "await"}, NextAttempt(k), last' = last
  PROVE  OnceParts'
<1>0. /\ entry[k] \in EntryShape /\ entry[k].text = {k} /\ k \in TextOf(k)
      /\ TextOf(k) \in SUBSET Keys /\ \A m \in Keys : Past(m) => m = k
      /\ rest \in Seq(CallShape)
      /\ \A i \in 1..Len(rest) : rest[i].call = "sentinel" /\ rest[i].status = "fine"
  BY DEF AloneAtHand, AtHand
<1> DEFINE e == [entry[k] EXCEPT !.phase = "find", !.attempt = @ + 1, !.fallback = FALSE]
<1>1. CASE SetEntry(k, e) /\ Handled
  <2>1. e.text = {k} /\ e.batch = entry[k].batch /\ e.phase = "find" BY <1>0 DEF EntryShape
  <2>2. SetEntry(k, e) /\ calls' = rest /\ UNCHANGED <<page, landed>> BY <1>1 DEF Handled
  <2> HIDE DEF e
  <2> QED BY <1>0, <2>1, <2>2, PauseOnce
<1>2. CASE RunCheck(rest, k, "last check") /\ SetEntry(k, entry[k])
  <2>1. TextOf(k)' = TextOf(k) BY <1>2 DEF SetEntry, TextOf, OwnTextInv, EntryInv
  <2>2. mounted BY DEF OnceParts
  <2>3. /\ UNCHANGED <<page, landed>>
        /\ \E status, text :
             Reply(rest, k, "last check", status, text) /\ CallStage(k, "last check", status, text)'
    BY <1>0, <1>2, <2>1, <2>2, CheckAlone
  <2>4. "last check" \in Scripts \ SentinelCalls BY DEF Scripts, SentinelCalls
  <2> QED BY <1>0, <1>2, <2>3, <2>4, PauseOnce
<1> QED BY <1>1, <1>2 DEF NextAttempt, KeepEntry

\* The entry is or stays before its work, with the composer clear.
LEMMA HoldOnce ==
  ASSUME OwnTextInv, OnceParts, NEW k \in Keys, AloneAtHand(k), composer = {},
         \A x \in Keys : landed[x] > 0 => x \in delivered,
         NEW e, SetEntry(k, e), e.text = {k}, e.phase \in {"hold", "insert"},
         e.phase = "insert" => \A b \in e.batch : Queued(b), Handled
  PROVE  OnceParts'
<1>1. ~typed' /\ mounted' /\ LandedShape' /\ composer' = {}
  BY DEF OnceParts, Handled, page, LandedShape
<1>2. entry' = [entry EXCEPT ![k] = e] /\ UNCHANGED <<queue, delivered>> BY DEF SetEntry
<1>3. Ledger' BY <1>2 DEF OnceParts, Ledger, Handled
<1>4. entry'[k] = e BY <1>2 DEF OwnTextInv, EntryInv
<1>5. calls' = rest /\ Rests(k)' BY <1>1, <1>4 DEF Rests, Handled
<1> QED BY <1>1, <1>2, <1>3, <1>5, StageOnce DEF AloneAtHand

LEMMA GateReplyOnce ==
  ASSUME OwnTextInv, QueueInv, OnceParts, NEW k \in Keys, AloneAtHand(k),
         GateReply(k) \/ StepFailed(k)
  PROVE  OnceParts'
<1>1. Head(calls).call = "gate" /\ Head(calls).text = {}
  BY DEF GateReply, StepFailed, Handles, AloneAtHand, CallStage
<1>2. entry[k] \in EntryShape /\ entry[k].phase = "hold" /\ entry[k].text = {k}
  BY <1>1 DEF AloneAtHand, AtHand, PhasesOf
<1>3. \A m \in Keys : ~Past(m) BY <1>2 DEF AloneAtHand, Past
<1>4. composer = {} /\ \A x \in Keys : landed[x] > 0 => x \in delivered
  BY <1>3 DEF OnceParts, Ledger, Past
<1>5. ~StillOurs(Head(calls).text) BY <1>1 DEF StillOurs
<1>6. Handled BY <1>5 DEF GateReply, StepFailed
<1>7. CASE StepFailed(k)
  <2>1. SetEntry(k, entry[k]) BY <1>7 DEF StepFailed, KeepEntry
  <2> QED BY <1>2, <1>4, <1>6, <2>1, HoldOnce
<1>8. ASSUME NEW e \in EntryShape, e.text = {k}, EnterInsertPhase(k, e) PROVE OnceParts'
  <2>1. PICK fit \in SUBSET {m \in Keys \ {k} : Queued(m) /\ entry[m].phase = "hold"} :
          SetEntry(k, [e EXCEPT !.phase = "insert", !.batch = fit])
    BY <1>8 DEF EnterInsertPhase
  <2> DEFINE f == [e EXCEPT !.phase = "insert", !.batch = fit]
  <2>2. f.text = {k} /\ f.phase = "insert" /\ f.batch = fit BY <1>8 DEF EntryShape
  <2>3. SetEntry(k, f) BY <2>1
  <2>4. \A b \in fit : Queued(b) OBVIOUS
  <2> HIDE DEF f
  <2> QED BY <1>4, <1>6, <2>2, <2>3, <2>4, HoldOnce
<1>9. ASSUME NEW n, NEW e, e = [entry[k] EXCEPT !.held = n]
      PROVE  e.text = {k} /\ e.phase = "hold" /\ (n \in Nat => e \in EntryShape)
  BY <1>2, <1>9 DEF EntryShape
<1>10. ASSUME NEW n, SetEntry(k, [entry[k] EXCEPT !.held = n]) PROVE OnceParts'
  <2> DEFINE e == [entry[k] EXCEPT !.held = n]
  <2>1. e.text = {k} /\ e.phase = "hold" BY <1>9
  <2>2. SetEntry(k, e) BY <1>10
  <2> HIDE DEF e
  <2> QED BY <1>4, <1>6, <2>1, <2>2, HoldOnce
<1>11. ASSUME FinishSend(k, "hold-timeout") PROVE OnceParts'
  <2>1. FinishSends({k}, k, "hold-timeout") BY <1>11 DEF FinishSend
  <2> QED BY <1>4, <1>6, <2>1, FinishOnce DEF AloneAtHand, Handled
<1>12. CASE GateReply(k)
  <2>1. \/ \E n : SetEntry(k, [entry[k] EXCEPT !.held = n])
        \/ FinishSend(k, "hold-timeout")
        \/ EnterInsertPhase(k, entry[k])
        \/ EnterInsertPhase(k, [entry[k] EXCEPT !.held = 0])
    BY <1>5, <1>12 DEF GateReply, HoldOn, HoldCleared
  <2>2. ASSUME EnterInsertPhase(k, [entry[k] EXCEPT !.held = 0]) PROVE OnceParts'
    BY <1>8, <1>9, <2>2
  <2> QED BY <1>2, <1>8, <1>10, <1>11, <2>1, <2>2
<1> QED BY <1>7, <1>12

LEMMA InsertReplyOnce ==
  ASSUME OwnTextInv, QueueInv, OnceParts, NEW k \in Keys, AloneAtHand(k), InsertReply(k)
  PROVE  OnceParts'
<1>1. Head(calls).call = "insert" /\ calls' = rest /\ UNCHANGED <<page, landed>>
  BY DEF InsertReply, Handles, Handled
<1>2. Status = "ok" /\ Head(calls).text = TextOf(k) /\ Full(k)
  BY <1>1 DEF AloneAtHand, CallStage
<1>3. entry[k] \in EntryShape /\ entry[k].phase = "insert" /\ entry[k].text = {k}
  BY <1>1 DEF AloneAtHand, AtHand, PhasesOf
<1> DEFINE e == [entry[k] EXCEPT !.phase = "find", !.attempt = 1,
                   !.fallback = FALSE, !.recheck = FALSE, !.escalated = FALSE]
<1>4. e.text = {k} /\ e.phase = "find" /\ e.batch = entry[k].batch BY <1>3 DEF EntryShape
<1>5. SetEntry(k, e) /\ last' = [key |-> k, hash |-> Head(calls).text]
  BY <1>2 DEF InsertReply
<1> HIDE DEF e
<1>6. entry' = [entry EXCEPT ![k] = e] /\ UNCHANGED <<queue, delivered>> BY <1>5 DEF SetEntry
<1>7. entry'[k] = e BY <1>6 DEF OwnTextInv, EntryInv
<1>8. TextOf(k)' = TextOf(k) BY <1>3, <1>4, <1>7 DEF TextOf
<1>9. \A b \in e.batch : Queued(b) BY <1>3, <1>4 DEF OnceParts, Past
<1>10. ~typed' /\ mounted' /\ LandedShape' BY <1>1 DEF OnceParts, page, LandedShape
<1>11. Ledger'
  <2>1. Ledger /\ \A x \in Keys : landed'[x] <= 1 /\ (landed'[x] > 0 => landed[x] > 0)
    BY <1>1 DEF OnceParts, Ledger
  <2>2. \A m \in Keys : Past(m) => m = k BY DEF AloneAtHand
  <2> QED BY <1>4, <1>6, <1>7, <1>8, <2>1, <2>2, LedgerAfter
<1>12. Rests(k)' BY <1>1, <1>2, <1>4, <1>7, <1>8 DEF Rests, Full, page
<1>13. last'.hash = TextOf(k)' BY <1>2, <1>5, <1>8
<1> QED BY <1>1, <1>4, <1>6, <1>9, <1>10, <1>11, <1>12, <1>13, StageOnce DEF AloneAtHand

LEMMA RecheckReplyOnce ==
  ASSUME OwnTextInv, QueueInv, OnceParts, NEW k \in Keys, AloneAtHand(k), RecheckReply(k)
  PROVE  OnceParts'
<1>1. Head(calls).call = "recheck" /\ last' = last BY DEF RecheckReply, Handles
<1>2. Full(k) BY <1>1 DEF AloneAtHand, CallStage
<1>3. entry[k] \in EntryShape /\ entry[k].phase = "find" /\ entry[k].text = {k}
  BY <1>1 DEF AloneAtHand, AtHand, PhasesOf
<1>4. PICK stuck \in BOOLEAN :
        /\ SetEntry(k, [entry[k] EXCEPT !.escalated = stuck])
        /\ RunEnter(rest, k, "enter") \/ RunClick(rest, k)
  BY DEF RecheckReply
<1> DEFINE e == [entry[k] EXCEPT !.escalated = stuck]
<1>5. e.phase = "find" /\ e.text = {k} /\ e.batch = entry[k].batch BY <1>3 DEF EntryShape
<1>6. SetEntry(k, e) BY <1>4
<1> HIDE DEF e
<1> QED BY <1>1, <1>2, <1>3, <1>4, <1>5, <1>6, WorkAlone DEF AloneAtHand

\* The submission was dispatched: it awaits the composer to clear.
LEMMA SubmitReplyOnce ==
  ASSUME OwnTextInv, OnceParts, NEW k \in Keys, AloneAtHand(k), entry[k].phase = "find",
         NEW e \in EntryShape, e.text = {k}, e.batch = entry[k].batch, SubmitReply(k, e),
         Head(calls).call \in {"click", "enter", "fallback"}, last' = last
  PROVE  OnceParts'
<1>1. Status \in {"dispatched", "not ready"} /\ (Status = "dispatched" => Full(k) \/ Gone(k))
  BY DEF AloneAtHand, CallStage
<1> DEFINE f == [e EXCEPT !.phase = "await"]
<1>2. Status = "dispatched" /\ SetEntry(k, f) /\ Handled
  BY <1>1 DEF SubmitReply
<1>3. f.text = {k} /\ f.batch = entry[k].batch /\ f.phase = "await" BY DEF EntryShape
<1> HIDE DEF f
<1> QED BY <1>1, <1>2, <1>3, PauseOnce DEF AloneAtHand, Handled

LEMMA ClickReplyOnce ==
  ASSUME OwnTextInv, QueueInv, OnceParts, NEW k \in Keys, AloneAtHand(k), ClickReply(k)
  PROVE  OnceParts'
<1>1. Head(calls).call = "click" /\ last' = last BY DEF ClickReply, Handles
<1>2. Status = "not ready" => Full(k) BY <1>1 DEF AloneAtHand, CallStage
<1>3. entry[k] \in EntryShape /\ entry[k].phase = "find" /\ entry[k].text = {k}
  BY <1>1 DEF AloneAtHand, AtHand, PhasesOf
<1>4. CASE SubmitReply(k, [entry[k] EXCEPT !.recheck = TRUE])
  <2> DEFINE e == [entry[k] EXCEPT !.recheck = TRUE]
  <2>1. e \in EntryShape /\ e.text = {k} /\ e.batch = entry[k].batch BY <1>3 DEF EntryShape
  <2> HIDE DEF e
  <2> QED BY <1>1, <1>3, <1>4, <2>1, SubmitReplyOnce DEF e
<1>5. CASE /\ Status = "not ready" /\ SetEntry(k, [entry[k] EXCEPT !.fallback = TRUE])
           /\ RunEnter(rest, k, "fallback")
  <2> DEFINE e == [entry[k] EXCEPT !.fallback = TRUE]
  <2>1. e.phase = "find" /\ e.text = {k} /\ e.batch = entry[k].batch BY <1>3 DEF EntryShape
  <2>2. SetEntry(k, e) BY <1>5
  <2> HIDE DEF e
  <2> QED BY <1>1, <1>2, <1>3, <1>5, <2>1, <2>2, WorkAlone DEF AloneAtHand
<1>6. CASE Status = "not ready" /\ NextAttempt(k)
  BY <1>1, <1>2, <1>3, <1>6, NextAttemptOnce
<1> QED BY <1>4, <1>5, <1>6 DEF ClickReply

LEMMA EnterReplyOnce ==
  ASSUME OwnTextInv, QueueInv, OnceParts, NEW k \in Keys, AloneAtHand(k), EnterReply(k)
  PROVE  OnceParts'
<1>1. Head(calls).call \in {"enter", "fallback"} /\ last' = last
  BY DEF EnterReply, Handles
<1>2. Status # "no input" BY <1>1 DEF AloneAtHand, CallStage
<1>3. entry[k] \in EntryShape /\ entry[k].phase = "find" /\ entry[k].text = {k}
  BY <1>1 DEF AloneAtHand, AtHand, PhasesOf
<1>4. SubmitReply(k, entry[k]) BY <1>2 DEF EnterReply
<1> QED BY <1>1, <1>3, <1>4, SubmitReplyOnce

\* The composer is clear, so the delivery and its batch, all queued still, are done.
LEMMA ClearedOnce ==
  ASSUME OwnTextInv, QueueInv, OnceParts, NEW k \in Keys, AloneAtHand(k), Gone(k),
         entry[k].phase \in {"find", "await"}, FinishBatchedSend(k), Handled
  PROVE  OnceParts'
<1> DEFINE done == {k} \cup {m \in entry[k].batch : Queued(m)}
<1>1. FinishSends(done, k, "sent") BY DEF FinishBatchedSend
<1>2. done = TextOf(k) BY DEF AloneAtHand, OnceParts, Past
<1>3. \A x \in Keys : landed[x] > 0 => x \in delivered \/ x \in TextOf(k)
  <2> SUFFICES ASSUME NEW x \in Keys, landed[x] > 0, x \notin delivered PROVE x \in TextOf(k)
    OBVIOUS
  <2>1. PICK m \in Keys : entry[m].phase \in {"find", "await"} /\ x \in TextOf(m)
    BY DEF OnceParts, Ledger
  <2>2. m = k BY <2>1 DEF AloneAtHand, Past
  <2> QED BY <2>1, <2>2
<1>4. composer = {} BY DEF Gone
<1> HIDE DEF done
<1> QED BY <1>1, <1>2, <1>3, <1>4, FinishOnce DEF AloneAtHand, Handled

LEMMA CheckReplyOnce ==
  ASSUME OwnTextInv, QueueInv, OnceParts, NEW k \in Keys, AloneAtHand(k), CheckReply(k)
  PROVE  OnceParts'
<1>1. Head(calls).call = "check" /\ last' = last BY DEF CheckReply, Handles
<1>2. \/ Status = "cleared" /\ Gone(k)
      \/ Status = "full" /\ Full(k)
  BY <1>1 DEF AloneAtHand, CallStage
<1>3. entry[k].phase = "await" BY <1>1 DEF AloneAtHand, AtHand, PhasesOf
<1>4. CASE Status = "cleared"
  BY <1>2, <1>3, <1>4, ClearedOnce DEF CheckReply
<1>5. CASE Status = "full"
  BY <1>1, <1>2, <1>3, <1>5, NextAttemptOnce DEF CheckReply
<1> QED BY <1>2, <1>4, <1>5

\* The last attempt failed: what was typed is wiped.
LEMMA LastCheckReplyOnce ==
  ASSUME OwnTextInv, QueueInv, OnceParts, NEW k \in Keys, AloneAtHand(k), LastCheckReply(k)
  PROVE  OnceParts'
<1>1. Head(calls).call = "last check" /\ last' = last BY DEF LastCheckReply, Handles
<1>2. Status = "full" /\ Full(k) BY <1>1 DEF AloneAtHand, CallStage
<1>3. entry[k] \in EntryShape /\ entry[k].phase \in {"find", "await"} /\ entry[k].text = {k}
  BY <1>1 DEF AloneAtHand, AtHand, PhasesOf
<1>4. RunClear(rest, k, "last reclaim", last.hash)
  BY <1>2 DEF LastCheckReply, StartReclaim
<1>5. last.hash = TextOf(k) /\ mounted /\ ~typed /\ LandedShape /\ Ledger
  BY <1>3 DEF OnceParts
<1>6. /\ composer' = {} /\ UNCHANGED <<mounted, typed, landed>>
      /\ Reply(rest, k, "last reclaim", "cleared", last.hash)
  BY <1>2, <1>4, <1>5 DEF RunClear, Shown, Full
<1> DEFINE e == [entry[k] EXCEPT !.reclaims = @ + 1]
<1>7. e.text = {k} /\ e.phase = entry[k].phase /\ e.batch = entry[k].batch
  BY <1>3 DEF EntryShape
<1>8. SetEntry(k, e) BY <1>2 DEF LastCheckReply, StartReclaim
<1> HIDE DEF e
<1>9. entry' = [entry EXCEPT ![k] = e] /\ UNCHANGED <<queue, delivered>> BY <1>8 DEF SetEntry
<1>10. entry'[k] = e BY <1>9 DEF OwnTextInv, EntryInv
<1>11. TextOf(k)' = TextOf(k) BY <1>3, <1>7, <1>10 DEF TextOf
<1>12. Wiped(k)' BY <1>2, <1>6, <1>11 DEF Wiped, Full
<1>13. Ledger'
  <2>1. \A x \in Keys : landed'[x] <= 1 /\ (landed'[x] > 0 => landed[x] > 0)
    BY <1>5, <1>6 DEF Ledger
  <2>2. \A m \in Keys : Past(m) => m = k BY DEF AloneAtHand
  <2> QED BY <1>3, <1>5, <1>7, <1>9, <1>10, <1>11, <2>1, <2>2, LedgerAfter
<1>14. \A b \in e.batch : Queued(b) BY <1>3, <1>7 DEF OnceParts, Past
<1>15. \E status, text :
         /\ Reply(rest, k, "last reclaim", status, text)
         /\ CallStage(k, "last reclaim", status, text)'
  <2>1. PICK text : text = last.hash OBVIOUS
  <2>2. CallStage(k, "last reclaim", "cleared", text)' BY <1>12 DEF CallStage
  <2>3. Reply(rest, k, "last reclaim", "cleared", text) BY <1>6, <2>1
  <2> QED BY <2>2, <2>3
<1>16. "last reclaim" \in Scripts \ SentinelCalls BY DEF Scripts, SentinelCalls
<1>17. ~typed' /\ mounted' /\ LandedShape' BY <1>5, <1>6 DEF LandedShape
<1>18. last'.hash = TextOf(k)' BY <1>1, <1>5, <1>11
<1> QED BY <1>6, <1>7, <1>9, <1>13, <1>14, <1>15, <1>16, <1>17, <1>18, StageOnce DEF AloneAtHand

LEMMA CountedReclaimReplyOnce ==
  ASSUME OwnTextInv, QueueInv, OnceParts, NEW k \in Keys, AloneAtHand(k), CountedReclaimReply(k)
  PROVE  OnceParts'
<1>1. Head(calls).call = "last reclaim" /\ Status = "cleared" /\ Wiped(k) /\ Handled
  BY DEF CountedReclaimReply, Handles, AloneAtHand, CallStage
<1>2. composer = {} /\ \A x \in Keys : landed[x] > 0 => x \in delivered
  <2> SUFFICES ASSUME NEW x \in Keys, landed[x] > 0, x \notin delivered PROVE FALSE
    BY <1>1 DEF Wiped
  <2>1. PICK m \in Keys : entry[m].phase \in {"find", "await"} /\ x \in TextOf(m)
    BY DEF OnceParts, Ledger
  <2>2. m = k BY <2>1 DEF AloneAtHand, Past
  <2>3. x \in TextOf(k) BY <2>1, <2>2
  <2>4. landed[x] = 0 BY <1>1, <2>3 DEF Wiped
  <2> QED BY <2>4
<1>3. CASE FinishSend(k, "failed")
  <2>1. FinishSends({k}, k, "failed") BY <1>3 DEF FinishSend
  <2> QED BY <1>1, <1>2, <2>1, FinishOnce DEF AloneAtHand, Handled
<1>4. CASE BackToHold(k)
  <2> DEFINE e == [entry[k] EXCEPT !.phase = "hold", !.attempt = 0, !.fallback = FALSE,
                     !.recheck = FALSE, !.escalated = FALSE, !.lost = 0, !.batch = {}]
  <2>1. entry[k] \in EntryShape /\ entry[k].text = {k} BY DEF AloneAtHand, AtHand
  <2>2. e.text = {k} /\ e.phase = "hold" BY <2>1 DEF EntryShape
  <2>3. SetEntry(k, e) BY <1>4 DEF BackToHold
  <2> HIDE DEF e
  <2> QED BY <1>1, <1>2, <2>2, <2>3, HoldOnce
<1> QED BY <1>1, <1>3, <1>4 DEF CountedReclaimReply

LEMMA OwnReplyOnce ==
  ASSUME OwnTextInv, QueueInv, OneFlight, OneSentinel, OnceParts, NEW k \in Keys, OwnReply(k)
  PROVE  OnceParts'
<1>1. AloneAtHand(k) BY OwnReplyIsAtHand, AtHandIsAlone
<1>2. ~ReclaimReply(k) BY <1>1 DEF AloneAtHand, CallStage, ReclaimReply, Handles
<1> QED BY <1>1, <1>2, GateReplyOnce, InsertReplyOnce, RecheckReplyOnce, ClickReplyOnce,
           EnterReplyOnce, CheckReplyOnce, LastCheckReplyOnce, CountedReclaimReplyOnce
        DEF OwnReply

----------------------------------------------------------------------------
(* Submitted once: the steps that handle no reply of an entry               *)

\* No script of an entry is pending: those there are find nothing.
LEMMA IdleIsAlone ==
  ASSUME OnceParts, \A i \in 1..Len(calls) : calls[i].call \in SentinelCalls
  PROVE  \A i \in 1..Len(calls) : calls[i].call = "sentinel" /\ calls[i].status = "fine"
<1> SUFFICES ASSUME NEW i \in 1..Len(calls)
             PROVE  calls[i].call = "sentinel" /\ calls[i].status = "fine"
  OBVIOUS
<1>1. CallStage(calls[i].who, calls[i].call, calls[i].status, calls[i].text)
  BY DEF OnceParts, Pending
<1>2. calls[i].call \in {"sentinel", "heal"} BY DEF SentinelCalls
<1> QED BY <1>1, <1>2 DEF CallStage

\* A pending reply of which nothing changed
LEMMA SameStage ==
  ASSUME NEW i, NEW u, NEW call, NEW status, NEW text, CallStage(u, call, status, text),
         calls'[i].who = u /\ calls'[i].call = call
           /\ calls'[i].status = status /\ calls'[i].text = text,
         UNCHANGED <<composer, marker, markHash, landed>>,
         call = "sentinel" \/ TextOf(u)' = TextOf(u)
  PROVE  CallStage(calls[i].who, calls[i].call, calls[i].status, calls[i].text)'
<1>1. CallStage(u, call, status, text)'
  <2>1. CASE call = "sentinel" BY <2>1 DEF CallStage
  <2>2. CASE TextOf(u)' = TextOf(u)
    <3>1. /\ Full(u) => Full(u)'
          /\ Gone(u) => Gone(u)'
          /\ Wiped(u) => Wiped(u)'
      BY <2>2 DEF Full, Gone, Wiped
    <3> QED BY <2>2, <3>1 DEF CallStage
  <2> QED BY <2>1, <2>2
<1>2. calls'[i].who = u /\ calls'[i].call = call /\ calls'[i].status = status /\ calls'[i].text = text
  OBVIOUS
<1> QED BY ONLY <1>1, <1>2 DEF CallStage, Full, Gone, Wiped, TextOf

LEMMA StillOnce ==
  ASSUME OnceParts, UNCHANGED <<composer, mounted, marker, markHash, typed, landed>>,
         UNCHANGED <<queue, entry, last, delivered, calls>>
  PROVE  OnceParts'
<1>1. ~typed' /\ mounted' /\ LandedShape' BY DEF OnceParts, LandedShape
<1>2. \A k \in Keys : Queued(k)' => k \notin delivered' BY DEF OnceParts, Queued
<1>3. \A k \in Keys : entry'[k].phase # "none" => entry'[k].text = {k} BY DEF OnceParts
<1>4. \A k \in Keys : Past(k)' => \A m \in entry'[k].batch : Queued(m)'
  BY DEF OnceParts, Past, Queued
<1>5. \A k \in Keys : TextOf(k)' = TextOf(k) BY DEF TextOf
<1>6. Ledger' BY <1>5 DEF OnceParts, Ledger
<1>7. (\A k \in Keys : ~Past(k)') => composer' = {} BY DEF OnceParts, Past
<1>8. \A k \in Keys : Past(k)' /\ Free(k)' => Rests(k)'
  BY <1>5 DEF OnceParts, Past, Free, Pending, Own, Rests, Full, Gone
<1>9. \A k \in Keys : entry'[k].phase \in {"find", "await"} => last'.hash = TextOf(k)'
  BY <1>5 DEF OnceParts
<1>10. ASSUME NEW i \in Pending'
       PROVE  CallStage(calls[i].who, calls[i].call, calls[i].status, calls[i].text)'
  <2>1. i \in Pending /\ calls'[i] = calls[i] BY DEF Pending
  <2>2. PICK u, call, status, text :
          u = calls[i].who /\ call = calls[i].call /\ status = calls[i].status /\ text = calls[i].text
    OBVIOUS
  <2>3. CallStage(u, call, status, text) BY <2>1, <2>2 DEF OnceParts
  <2>4. TextOf(u)' = TextOf(u) BY DEF TextOf
  <2> QED BY <2>1, <2>2, <2>3, <2>4, SameStage
<1> QED BY <1>1, <1>2, <1>3, <1>4, <1>6, <1>7, <1>8, <1>9, <1>10 DEF OnceParts

LEMMA QueueSendOnce ==
  ASSUME OwnTextInv, QueueInv, OneFlight, OnceParts, NEW k \in Keys, QueueSend(k),
         "redeliver" \notin may
  PROVE  OnceParts'
<1>1. /\ ~Queued(k) /\ ~Busy(k) /\ k \notin delivered /\ delivered' = delivered
      /\ UNCHANGED <<composer, mounted, marker, markHash, typed, calls, last, landed>>
      /\ queue' = Append(queue, k) /\ entry' = [entry EXCEPT ![k] = FreshEntry({k})]
  BY DEF QueueSend, Enqueue, page
<1>2. /\ entry'[k].phase = "hold" /\ entry'[k].text = {k}
      /\ \A m \in Keys \ {k} : entry'[m] = entry[m]
  BY <1>1 DEF OwnTextInv, EntryInv, FreshEntry, NoEntry
<1>3. ~Past(k)
  <2> SUFFICES ASSUME Past(k) PROVE FALSE OBVIOUS
  <2>1. queue # <<>> /\ Head(queue) = k /\ queue \in Seq(Keys)
    BY DEF OneFlight, IsHead, QueueInv
  <2>2. 1 \in 1..Len(queue) /\ queue[1] = k BY <2>1
  <2> QED BY <1>1, <2>2 DEF Queued
<1>4. \A m \in Keys : Past(m)' => Past(m) /\ m # k BY <1>2 DEF Past
<1>5. \A m : Queued(m) => Queued(m)'
  <2> SUFFICES ASSUME NEW i \in 1..Len(queue) PROVE \E j \in 1..Len(queue') : queue'[j] = queue[i]
    BY DEF Queued
  <2>1. queue \in Seq(Keys) BY DEF QueueInv
  <2>2. i \in 1..Len(queue') /\ queue'[i] = queue[i] BY <1>1, <2>1, AppendIndex
  <2> QED BY <2>2
<1>6. \A m : Queued(m)' => Queued(m) \/ m = k
  <2> SUFFICES ASSUME NEW i \in 1..Len(queue')
               PROVE  queue'[i] = k \/ \E j \in 1..Len(queue) : queue[j] = queue'[i]
    BY DEF Queued
  <2>1. queue \in Seq(Keys) BY DEF QueueInv
  <2>2. /\ Len(queue) \in Nat /\ Len(queue') = Len(queue) + 1 /\ queue'[Len(queue) + 1] = k
        /\ \A j \in 1..Len(queue) : queue'[j] = queue[j]
    BY ONLY <1>1, <2>1, AppendIndex
  <2>3. i = Len(queue) + 1 \/ i \in 1..Len(queue) BY <2>2
  <2> QED BY <2>2, <2>3
<1>7. \A m \in Keys \ {k} : TextOf(m)' = TextOf(m) BY <1>2 DEF TextOf
<1>8. ~typed' /\ mounted' /\ LandedShape' BY <1>1 DEF OnceParts, LandedShape
<1>9. \A m \in Keys : Queued(m)' => m \notin delivered' BY <1>1, <1>6 DEF OnceParts
<1>10. \A m \in Keys : entry'[m].phase # "none" => entry'[m].text = {m}
  BY <1>2 DEF OnceParts
<1>11. \A m \in Keys : Past(m)' => \A b \in entry'[m].batch : Queued(b)'
  BY <1>2, <1>4, <1>5 DEF OnceParts
<1>12. Ledger'
  <2> SUFFICES ASSUME NEW x \in Keys, landed[x] > 0, x \notin delivered
               PROVE  \E m \in Keys : entry'[m].phase \in {"find", "await"} /\ x \in TextOf(m)'
    BY <1>1 DEF Ledger, OnceParts
  <2>1. PICK m \in Keys : entry[m].phase \in {"find", "await"} /\ x \in TextOf(m)
    BY DEF OnceParts, Ledger
  <2>2. m # k BY <1>3, <2>1 DEF Past
  <2> QED BY <1>2, <1>7, <2>1, <2>2
<1>13. (\A m \in Keys : ~Past(m)') => composer' = {}
  BY <1>1, <1>2, <1>3 DEF OnceParts, Past
<1>14. \A m \in Keys : Past(m)' /\ Free(m)' => Rests(m)'
  <2> SUFFICES ASSUME NEW m \in Keys, Past(m)', Free(m)' PROVE Rests(m)' OBVIOUS
  <2>1. m # k /\ Past(m) /\ Free(m) BY <1>1, <1>4 DEF Free, Pending, Own
  <2>2. Rests(m) /\ entry'[m] = entry[m] /\ TextOf(m)' = TextOf(m) BY <1>2, <1>7, <2>1 DEF OnceParts
  <2> QED BY <1>1, <2>2 DEF Rests, Full, Gone
<1>15. \A m \in Keys : entry'[m].phase \in {"find", "await"} => last'.hash = TextOf(m)'
  BY <1>1, <1>2, <1>7 DEF OnceParts
<1>16. ASSUME NEW i \in Pending'
       PROVE  CallStage(calls[i].who, calls[i].call, calls[i].status, calls[i].text)'
  <2>1. i \in Pending /\ calls'[i] = calls[i] BY <1>1 DEF Pending
  <2>2. PICK u, call, status, text :
          u = calls[i].who /\ call = calls[i].call /\ status = calls[i].status /\ text = calls[i].text
    OBVIOUS
  <2>3. CallStage(u, call, status, text) BY <2>1, <2>2 DEF OnceParts
  <2>4. call = "sentinel" \/ TextOf(u)' = TextOf(u)
    <3>1. CASE Own(i)
      <4>1. u \in Keys BY <2>1, <2>2, <3>1 DEF OneFlight
      <4>2. u # k BY <1>1, <2>1, <2>2, <3>1 DEF Busy, Pending, Own
      <4> QED BY <1>7, <4>1, <4>2
    <3>2. CASE ~Own(i)
      BY <2>2, <2>3, <3>2 DEF Own, SentinelCalls, CallStage
    <3> QED BY <3>1, <3>2
  <2> QED BY <1>1, <2>1, <2>2, <2>3, <2>4, SameStage
<1> QED BY <1>8, <1>9, <1>10, <1>11, <1>12, <1>13, <1>14, <1>15, <1>16 DEF OnceParts

\* The head inserts: its composer is clear, and nothing of its text has landed.
LEMMA InsertOnce ==
  ASSUME OwnTextInv, QueueInv, OneFlight, OnceParts, NEW k \in Keys, Insert(k)
  PROVE  OnceParts'
<1>1. /\ k \in fetching /\ UNCHANGED <<queue, entry, last, delivered>>
      /\ RunInsert(calls, k, TextOf(k))
  BY DEF Insert, worker, TextOf
<1>2. IsHead(k) /\ entry[k].phase = "insert" /\ \A i \in Pending : ~Own(i)
  BY <1>1 DEF OneFlight
<1>3. /\ calls \in Seq(CallShape)
      /\ \A i \in 1..Len(calls) : calls[i].call = "sentinel" /\ calls[i].status = "fine"
  <2>1. \A i \in 1..Len(calls) : calls[i].call \in SentinelCalls
    BY <1>2 DEF Pending, Own
  <2> QED BY <2>1, IdleIsAlone DEF OwnTextInv, PageInv
<1>4. Past(k) /\ \A m \in Keys : Past(m) => m = k BY <1>2 DEF Past, OneFlight, IsHead
<1>5. composer = {}
  <2>1. Free(k) BY <1>2 DEF Free
  <2>2. Rests(k) BY <1>4, <2>1 DEF OnceParts
  <2> QED BY <1>2, <2>2 DEF Rests
<1>6. entry[k].text = {k} /\ \A b \in entry[k].batch : Queued(b)
  BY <1>2, <1>4 DEF OnceParts
<1>7. \A x \in TextOf(k) : x \in Keys /\ landed[x] = 0
  <2> SUFFICES ASSUME NEW x \in TextOf(k) PROVE x \in Keys /\ landed[x] = 0 OBVIOUS
  <2>1. Queued(k)
    <3>1. queue \in Seq(Keys) /\ queue # <<>> /\ Head(queue) = k BY <1>2 DEF IsHead, QueueInv
    <3>2. 1 \in 1..Len(queue) /\ queue[1] = k BY <3>1
    <3> QED BY <3>2 DEF Queued
  <2>2. Queued(x) BY <1>6, <2>1 DEF TextOf
  <2>3. x \in Keys BY <2>2 DEF Queued, QueueInv
  <2>4. x \notin delivered BY <2>2, <2>3 DEF OnceParts
  <2>5. ~ (landed[x] > 0)
    <3> SUFFICES ASSUME landed[x] > 0 PROVE FALSE OBVIOUS
    <3>1. PICK m \in Keys : entry[m].phase \in {"find", "await"}
      BY <2>3, <2>4 DEF OnceParts, Ledger
    <3> QED BY <1>2, <1>4, <3>1 DEF Past
  <2>6. landed[x] \in Nat BY <2>3 DEF OnceParts, LandedShape
  <2> QED BY <2>3, <2>5, <2>6
<1>8. /\ composer' = TextOf(k) /\ marker' = k /\ markHash' = TextOf(k) /\ typed' = FALSE
      /\ Reply(calls, k, "insert", "ok", TextOf(k)) /\ UNCHANGED <<mounted, landed>>
  BY <1>1, <1>5 DEF RunInsert, OnceParts
<1>9. TextOf(k)' = TextOf(k) BY <1>1 DEF TextOf
<1>10. \E status, text :
         Reply(calls, k, "insert", status, text) /\ CallStage(k, "insert", status, text)'
  <2>1. PICK text : text = TextOf(k) OBVIOUS
  <2>2. Full(k)' BY <1>7, <1>8, <1>9 DEF Full
  <2>3. CallStage(k, "insert", "ok", text)' BY <1>9, <2>1, <2>2 DEF CallStage
  <2>4. Reply(calls, k, "insert", "ok", text) BY <1>8, <2>1
  <2> QED BY <2>3, <2>4
<1>11. ~typed' /\ mounted' /\ LandedShape' BY <1>8 DEF OnceParts, LandedShape
<1>12. Ledger' BY <1>1, <1>8 DEF OnceParts, Ledger, TextOf
<1>13. entry' = [entry EXCEPT ![k] = entry[k]] BY <1>1 DEF OwnTextInv, EntryInv
<1>14. "insert" \in Scripts \ SentinelCalls BY DEF Scripts, SentinelCalls
<1> QED BY <1>1, <1>2, <1>3, <1>4, <1>6, <1>10, <1>11, <1>12, <1>13, <1>14, StageOnce

\* A step of the head that starts with a script
LEMMA AdvanceOnce ==
  ASSUME OwnTextInv, QueueInv, OneFlight, OnceParts, NEW k \in Keys, Advance(k)
  PROVE  OnceParts'
<1>1. IsHead(k) /\ ~Busy(k) /\ UNCHANGED <<queue, last, delivered, outcome>> BY DEF Advance
<1>2. /\ calls \in Seq(CallShape)
      /\ \A i \in 1..Len(calls) : calls[i].call \in SentinelCalls
  BY <1>1, IdleIsSentinels DEF Busy
<1>3. \A i \in 1..Len(calls) : calls[i].call = "sentinel" /\ calls[i].status = "fine"
  BY <1>2, IdleIsAlone
<1>4. \A m \in Keys : Past(m) => m = k BY <1>1 DEF OneFlight, IsHead
<1>5. Past(k) => Rests(k)
  <2>1. Free(k) BY <1>2 DEF Free, Pending, Own
  <2> QED BY <2>1 DEF OnceParts
<1>6. entry[k] \in EntryShape /\ TextOf(k) \in SUBSET Keys
  BY DEF OwnTextInv, EntryInv, EntryShape, TextOf
<1>7. entry[k].phase # "none" => entry[k].text = {k} /\ k \in TextOf(k)
  BY DEF OnceParts, TextOf
<1>8. entry[k].phase = "find" => Full(k) BY <1>5 DEF Past, Rests
<1>9. entry[k].phase = "await" => Full(k) \/ Gone(k) BY <1>5 DEF Past, Rests
<1>10. UNCHANGED entry => SetEntry(k, entry[k])
  BY <1>1 DEF SetEntry, OwnTextInv, EntryInv
<1>11. /\ mounted /\ ~typed /\ LandedShape /\ Ledger BY DEF OnceParts
<1>12. CASE entry[k].phase = "hold" /\ RunProbe(calls, k, "gate") /\ UNCHANGED entry
  <2>1. composer = {} BY <1>4, <1>12 DEF OnceParts, Past
  <2>2. UNCHANGED <<page, landed>> /\ \E status : Reply(calls, k, "gate", status, {})
    BY <1>12, <2>1 DEF RunProbe, Shown
  <2>3. ~typed' /\ mounted' /\ LandedShape' /\ composer' = {}
    BY <1>11, <2>1, <2>2 DEF page, LandedShape
  <2>4. Ledger' BY <1>1, <1>11, <1>12, <2>2 DEF Ledger, TextOf
  <2>5. \E status, text :
          Reply(calls, k, "gate", status, text) /\ CallStage(k, "gate", status, text)'
    <3>1. PICK status : Reply(calls, k, "gate", status, {}) BY <2>2
    <3>2. CallStage(k, "gate", status, {})' BY DEF CallStage
    <3> QED BY <3>1, <3>2
  <2>6. entry' = [entry EXCEPT ![k] = entry[k]] BY <1>12 DEF OwnTextInv, EntryInv
  <2>7. "gate" \in Scripts \ SentinelCalls BY DEF Scripts, SentinelCalls
  <2> QED BY <1>1, <1>2, <1>3, <1>4, <1>7, <1>12, <2>3, <2>4, <2>5, <2>6, <2>7, StageOnce
<1>13. CASE /\ entry[k].phase = "find" /\ RunProbe(calls, k, "recheck")
            /\ entry' = [entry EXCEPT ![k].recheck = FALSE]
  <2> DEFINE e == [entry[k] EXCEPT !.recheck = FALSE]
  <2>1. e.text = {k} /\ e.phase = "find" /\ e.batch = entry[k].batch
    BY <1>6, <1>7, <1>13 DEF EntryShape
  <2>2. SetEntry(k, e) BY <1>1, <1>13 DEF SetEntry
  <2>3. UNCHANGED <<page, landed>> /\ \E status, text : Reply(calls, k, "recheck", status, text)
    BY <1>13 DEF RunProbe
  <2>4. entry' = [entry EXCEPT ![k] = e] BY <2>2 DEF SetEntry
  <2> HIDE DEF e
  <2>5. entry'[k] = e BY <2>4 DEF OwnTextInv, EntryInv
  <2>6. TextOf(k)' = TextOf(k) BY <1>7, <1>13, <2>1, <2>5 DEF TextOf
  <2>7. Full(k)' BY <1>8, <1>13, <2>3, <2>6 DEF Full, page
  <2>8. \E status, text :
          Reply(calls, k, "recheck", status, text) /\ CallStage(k, "recheck", status, text)'
    <3>1. PICK status, text : Reply(calls, k, "recheck", status, text) BY <2>3
    <3>2. CallStage(k, "recheck", status, text)' BY <2>7 DEF CallStage
    <3> QED BY <3>1, <3>2
  <2>9. "recheck" \in Scripts \ SentinelCalls BY DEF Scripts, SentinelCalls
  <2> QED BY <1>1, <1>2, <1>3, <1>4, <1>6, <1>7, <1>13, <2>1, <2>2, <2>3, <2>8, <2>9, PauseOnce
<1>14. CASE /\ entry[k].phase = "find" /\ UNCHANGED entry
            /\ RunEnter(calls, k, "enter") \/ RunClick(calls, k)
  BY <1>1, <1>2, <1>3, <1>4, <1>6, <1>7, <1>8, <1>10, <1>14, WorkAlone
<1>15. CASE entry[k].phase = "await" /\ RunCheck(calls, k, "check") /\ UNCHANGED entry
  <2>1. TextOf(k)' = TextOf(k) BY <1>15 DEF TextOf
  <2>2. /\ UNCHANGED <<page, landed>>
        /\ \E status, text :
             Reply(calls, k, "check", status, text) /\ CallStage(k, "check", status, text)'
    BY <1>7, <1>9, <1>11, <1>15, <2>1, CheckAlone
  <2>3. "check" \in Scripts \ SentinelCalls BY DEF Scripts, SentinelCalls
  <2> QED BY <1>1, <1>2, <1>3, <1>4, <1>6, <1>7, <1>10, <1>15, <2>2, <2>3, PauseOnce
<1> QED BY <1>12, <1>13, <1>14, <1>15 DEF Advance

\* With nothing queued nothing is at work, so the composer is clear.
LEMMA SentinelSweepOnce ==
  ASSUME OwnTextInv, OneFlight, OnceParts, SentinelSweep
  PROVE  OnceParts'
<1>1. /\ queue = <<>> /\ UNCHANGED <<composer, mounted, marker, markHash, typed, landed>>
      /\ UNCHANGED <<queue, entry, last, delivered>>
  BY DEF SentinelSweep, page, worker
<1>2. (\A i \in Pending : ~Own(i)) /\ \A k \in Keys : ~Past(k) BY <1>1 DEF OneFlight, IsHead
<1>3. composer = {} BY <1>2 DEF OnceParts
<1>4. calls \in Seq(CallShape) /\ Len(calls) = 0
  <2>1. ~ \E i \in Pending : TRUE BY <1>2 DEF SentinelSweep, Own, Pending
  <2>2. calls \in Seq(CallShape) BY DEF OwnTextInv, PageInv
  <2>3. Len(calls) \in Nat /\ (Len(calls) # 0 => 1 \in Pending) BY <2>2 DEF Pending
  <2> QED BY <2>1, <2>2, <2>3
<1>5. calls' = Append(calls, [who |-> last.key, call |-> "sentinel", status |-> "fine",
                              text |-> last.hash])
  BY <1>3 DEF SentinelSweep, Reply, Shown, StillOurs
<1>6. Pending' = {1} /\ calls'[1].call = "sentinel" /\ calls'[1].status = "fine"
  BY <1>4, <1>5 DEF Pending
<1>7. \A i \in Pending' :
        CallStage(calls[i].who, calls[i].call, calls[i].status, calls[i].text)'
  <2> SUFFICES ASSUME NEW i, calls'[i].call = "sentinel" /\ calls'[i].status = "fine"
               PROVE  CallStage(calls[i].who, calls[i].call, calls[i].status, calls[i].text)'
    BY <1>6
  <2> QED BY DEF CallStage
<1>8. ~typed' /\ mounted' /\ LandedShape' BY <1>1 DEF OnceParts, LandedShape
<1>9. \A k \in Keys : Queued(k)' => k \notin delivered' BY <1>1 DEF OnceParts, Queued
<1>10. \A k \in Keys : ~Past(k)' BY <1>1, <1>2 DEF Past
<1>11. \A k \in Keys : entry'[k].phase # "none" => entry'[k].text = {k}
  BY <1>1 DEF OnceParts
<1>12. Ledger' BY <1>1 DEF OnceParts, Ledger, TextOf
<1>13. composer' = {} BY <1>1, <1>3
<1>14. \A k \in Keys : entry'[k].phase \notin {"find", "await"} BY <1>10 DEF Past
<1> QED BY <1>7, <1>8, <1>9, <1>10, <1>11, <1>12, <1>13, <1>14 DEF OnceParts

\* The sentinel saw nothing to heal.
LEMMA SentinelReplyOnce ==
  ASSUME OwnTextInv, OneFlight, OneSentinel, OnceParts, NEW k \in Keys, SentinelReply(k)
  PROVE  OnceParts'
<1>1. calls # <<>> /\ Head(calls).call = "sentinel" /\ UNCHANGED <<queue, entry, last, delivered>>
  BY DEF SentinelReply, Handles, worker
<1>2. /\ rest \in Seq(CallShape) /\ Len(rest) \in Nat /\ 1 \in Pending /\ calls[1] = Head(calls)
      /\ \A i \in 1..Len(rest) : i + 1 \in Pending /\ rest[i] = calls[i + 1]
  BY <1>1, BehindTheSentinel DEF SentinelCalls
<1>3. Status = "fine"
  <2>1. CallStage(calls[1].who, calls[1].call, calls[1].status, calls[1].text)
    BY <1>2 DEF OnceParts
  <2> QED BY <1>1, <1>2, <2>1 DEF CallStage, Status
<1>4. calls' = rest /\ UNCHANGED <<composer, mounted, marker, markHash, typed, landed>>
  BY <1>3 DEF SentinelReply, Handled, page
<1>5. \A m \in Keys : ~Past(m) BY <1>1, <1>2 DEF OneSentinel
<1>6. ASSUME NEW i \in Pending'
      PROVE  CallStage(calls[i].who, calls[i].call, calls[i].status, calls[i].text)'
  <2>1. i + 1 \in Pending /\ calls'[i] = calls[i + 1] BY <1>2, <1>4 DEF Pending
  <2>2. PICK u, call, status, text :
          /\ u = calls[i + 1].who /\ call = calls[i + 1].call
          /\ status = calls[i + 1].status /\ text = calls[i + 1].text
    OBVIOUS
  <2>3. CallStage(u, call, status, text) BY <2>1, <2>2 DEF OnceParts
  <2>4. TextOf(u)' = TextOf(u) BY <1>1 DEF TextOf
  <2> QED BY <1>4, <2>1, <2>2, <2>3, <2>4, SameStage
<1>7. ~typed' /\ mounted' /\ LandedShape' BY <1>4 DEF OnceParts, LandedShape
<1>8. \A m \in Keys : Queued(m)' => m \notin delivered' BY <1>1 DEF OnceParts, Queued
<1>9. \A m \in Keys : ~Past(m)' BY <1>1, <1>5 DEF Past
<1>10. \A m \in Keys : entry'[m].phase # "none" => entry'[m].text = {m}
  BY <1>1 DEF OnceParts
<1>11. Ledger' BY <1>1, <1>4 DEF OnceParts, Ledger, TextOf
<1>12. composer' = {} BY <1>4, <1>5 DEF OnceParts
<1>13. \A m \in Keys : entry'[m].phase \notin {"find", "await"} BY <1>9 DEF Past
<1> QED BY <1>6, <1>7, <1>8, <1>9, <1>10, <1>11, <1>12, <1>13 DEF OnceParts

\* No wipe of the sentinel is pending.
LEMMA NothingToHeal ==
  ASSUME OwnTextInv, OnceParts, NEW k \in Keys
  PROVE  ~HealReply(k)
<1> SUFFICES ASSUME calls # <<>>, Head(calls).call = "heal" PROVE FALSE
  BY DEF HealReply, Handles
<1>1. 1 \in Pending /\ calls[1] = Head(calls) BY DEF OwnTextInv, PageInv, Pending
<1>2. CallStage(calls[1].who, calls[1].call, calls[1].status, calls[1].text)
  BY <1>1 DEF OnceParts
<1> QED BY <1>1, <1>2 DEF CallStage

----------------------------------------------------------------------------
(* Submitted once: putting it together                                      *)

\* Once the tab is closed, nothing of it is left to run.
ClosedInv == (\A x \in Keys : landed[x] <= 1) /\ calls = <<>> /\ fetching = {}

LEMMA ClosedStays ==
  ASSUME ~open, ClosedInv, Next, may \subseteq {"close"}
  PROVE  ~open' /\ ClosedInv'
<1>1. ASSUME UNCHANGED <<open, calls, fetching, landed>> PROVE ~open' /\ ClosedInv'
  BY <1>1 DEF ClosedInv
<1>2. CASE Around
  <2>1. UserPauses
    BY <1>2 DEF Around, UserTypes, UserErases, UserSends, Reload, Remount, ScriptFails, CloseTab,
                WorkerRestarts
  <2> QED BY <1>1, <2>1 DEF UserPauses
<1>3. ~SentinelSweep BY DEF SentinelSweep
<1>4. ASSUME NEW k \in Keys PROVE ~HandleReply(k)
  BY DEF ClosedInv, HandleReply, GateReply, HoldOn, HoldCleared, ReclaimReply, InsertReply, RecheckReply, ClickReply,
         EnterReply, CheckReply, LastCheckReply, CountedReclaimReply, StepFailed, SentinelReply,
         HealReply, Handles
<1>5. ASSUME NEW k \in Keys, QueueSend(k) \/ ForceFlush(k) \/ TabGone(k) \/ Advance(k)
                               \/ FetchFooter(k) \/ Insert(k)
      PROVE  UNCHANGED <<open, calls, fetching, landed>>
  BY <1>5 DEF ClosedInv, QueueSend, ForceFlush, TabGone, Advance, FetchFooter, Insert
<1> QED BY <1>1, <1>2, <1>3, <1>4, <1>5 DEF Next, Machine

\* While the tab is open
LEMMA OpenStepOnce ==
  ASSUME OwnTextInv, QueueInv, OneFlight, OneSentinel, OnceParts, open, Next,
         may \subseteq {"close"}
  PROVE  (open' /\ OnceParts') \/ (~open' /\ calls' = <<>> /\ fetching' = {} /\ landed' = landed)
<1>1. CASE Around
  <2>1. UserPauses \/ CloseTab
    BY <1>1 DEF Around, UserTypes, UserErases, UserSends, Reload, Remount, ScriptFails,
                WorkerRestarts
  <2>2. CASE UserPauses
    <3>1. /\ open' = open /\ UNCHANGED <<composer, mounted, marker, markHash, typed, landed>>
          /\ UNCHANGED <<queue, entry, last, delivered, calls>>
      BY <2>2 DEF UserPauses, worker
    <3> QED BY <3>1, StillOnce
  <2>3. CASE CloseTab BY <2>3 DEF CloseTab
  <2> QED BY <2>1, <2>2, <2>3
<1>2. CASE SentinelSweep BY <1>2, SentinelSweepOnce DEF SentinelSweep
<1>3. ASSUME NEW k \in Keys, SentinelReply(k) \/ HealReply(k)
      PROVE  open' /\ OnceParts'
  <2>1. SentinelReply(k) BY <1>3, NothingToHeal
  <2> QED BY <2>1, SentinelReplyOnce DEF SentinelReply, Handles
<1>4. ASSUME NEW k \in Keys, OwnReply(k) PROVE open' /\ OnceParts'
  <2>1. open' = open
    BY <1>4 DEF OwnReply, GateReply, HoldOn, HoldCleared, ReclaimReply, InsertReply, RecheckReply, ClickReply,
                EnterReply, CheckReply, LastCheckReply, CountedReclaimReply, StepFailed, Handles
  <2> QED BY <1>4, <2>1, OwnReplyOnce
<1>5. ASSUME NEW k \in Keys, QueueStep(k) PROVE open' /\ OnceParts'
  <2>1. ~TabGone(k) BY DEF TabGone
  <2>2. CASE QueueSend(k) BY <2>2, QueueSendOnce DEF QueueSend
  <2>3. CASE FetchFooter(k) BY <2>3, StillOnce DEF FetchFooter, page, worker
  <2>4. CASE Advance(k) BY <2>4, AdvanceOnce DEF Advance
  <2>5. CASE Insert(k) BY <2>5, InsertOnce DEF Insert
  <2> QED BY <1>5, <2>1, <2>2, <2>3, <2>4, <2>5 DEF QueueStep
<1> QED BY <1>1, <1>2, <1>3, <1>4, <1>5, Steps

LEMMA StepKeepsOnce ==
  ASSUME OwnTextInv, FlightInv, AloneInv, [Next]_vars
  PROVE  AloneInv'
<1>0. may' = may BY MayStays
<1> SUFFICES ASSUME may \subseteq {"close"}
             PROVE  /\ \A x \in Keys : landed'[x] <= 1
                    /\ IF open' THEN OnceParts' ELSE calls' = <<>> /\ fetching' = {}
  BY <1>0 DEF AloneInv
<1>1. /\ QueueInv /\ OneFlight /\ OneSentinel
      /\ \A x \in Keys : landed[x] <= 1
      /\ IF open THEN OnceParts ELSE calls = <<>> /\ fetching = {}
  BY DEF FlightInv, AloneInv
<1>2. CASE UNCHANGED vars
  <2>1. /\ UNCHANGED <<open, calls, fetching, landed>>
        /\ UNCHANGED <<composer, mounted, marker, markHash, typed, landed>>
        /\ UNCHANGED <<queue, entry, last, delivered, calls>>
    BY <1>2 DEF vars, page, worker
  <2>2. open => OnceParts' BY <1>1, <2>1, StillOnce
  <2> QED BY <1>1, <2>1, <2>2
<1>3. CASE Next /\ open
  <2>1. (open' /\ OnceParts') \/ (~open' /\ calls' = <<>> /\ fetching' = {} /\ landed' = landed)
    BY <1>1, <1>3, OpenStepOnce
  <2>2. OnceParts' => \A x \in Keys : landed'[x] <= 1 BY DEF OnceParts, Ledger
  <2> QED BY <1>1, <2>1, <2>2
<1>4. CASE Next /\ ~open
  <2>1. ~open' /\ ClosedInv' BY <1>1, <1>4, ClosedStays DEF ClosedInv
  <2> QED BY <2>1 DEF ClosedInv
<1> QED BY <1>2, <1>3, <1>4

\* Left alone but for the tab's closing, no delivery is submitted twice, however
\* its attempts, batches, reclaims and the sentinel's looks interleave.
THEOREM SubmittedOnce == Spec => []LandedOnce
<1>1. Init => AloneInv
  <2> SUFFICES ASSUME Init
               PROVE  /\ \A x \in Keys : landed[x] <= 1
                      /\ IF open THEN OnceParts ELSE calls = <<>> /\ fetching = {}
    BY DEF AloneInv
  <2>1. /\ composer = {} /\ mounted /\ ~typed /\ open /\ queue = <<>> /\ calls = <<>>
        /\ \A k \in Keys : entry[k].phase = "none"
        /\ landed = [x \in Keys \cup Words |-> 0]
    BY DEF Init, NoEntry
  <2>2. \A i \in Pending : FALSE BY <2>1 DEF Pending
  <2>3. \A k \in Keys : ~Past(k) BY <2>1 DEF Past
  <2>4. \A k \in Keys : ~Queued(k)
    <3>1. 1..Len(queue) = {} BY <2>1
    <3> QED BY <3>1 DEF Queued
  <2>5. \A x \in Keys : landed[x] = 0 BY <2>1
  <2>6. Ledger
    <3>1. \A n : n = 0 => n <= 1 /\ ~(n > 0) OBVIOUS
    <3>2. \A x \in Keys : landed[x] <= 1 /\ ~(landed[x] > 0) BY <2>5, <3>1
    <3> QED BY <3>2 DEF Ledger
  <2>7. LandedShape BY <2>1 DEF LandedShape
  <2> QED BY <2>1, <2>2, <2>3, <2>4, <2>5, <2>6, <2>7 DEF OnceParts
<1>2. OwnTextInv /\ FlightInv /\ AloneInv /\ [Next]_vars => AloneInv' BY StepKeepsOnce
<1>3. AloneInv => LandedOnce BY DEF AloneInv, LandedOnce
<1> QED BY <1>1, <1>2, <1>3, OwnTextIsOwn, OneStepInFlight, PTL DEF Spec

----------------------------------------------------------------------------
(* Type correctness                                                         *)

PageTypes ==
  /\ mounted \in BOOLEAN /\ typed \in BOOLEAN /\ recent \in BOOLEAN
  /\ marker \in Keys \cup {NoKey}
  /\ landed \in [Keys \cup Words -> 0..LandedCap]

QueueTypes == queue \in Seq(Keys) /\ outcome \in [Keys -> Outcomes] /\ delivered \subseteq Keys

TypeOK ==
  /\ may \in Settings /\ open \in BOOLEAN /\ fetching \subseteq Keys
  /\ OwnTextInv /\ PageTypes /\ QueueTypes

\* A submission counts what it lands, up to the bound of the model.
LEMMA SubmitTypes ==
  ASSUME landed \in [Keys \cup Words -> 0..LandedCap], NEW text, landed' = Landing(text)
  PROVE  landed' \in [Keys \cup Words -> 0..LandedCap]
<1>1. \A x \in Keys \cup Words : landed[x] < LandedCap => landed[x] + 1 \in 0..LandedCap
  BY LimitsAssumption
<1> QED BY <1>1 DEF Landing

\* A script leaves the page its types.
LEMMA SubmittingTypes ==
  ASSUME PageTypes, NEW pending, NEW k, NEW call, RunSubmit(pending, k, call)
  PROVE  PageTypes'
<1>1. CASE UNCHANGED <<page, landed>> BY <1>1 DEF PageTypes, page
<1>2. CASE SubmitOrNot /\ UNCHANGED <<mounted, marker, markHash, typed, recent>>
  <2>1. landed' \in [Keys \cup Words -> 0..LandedCap]
    BY <1>2, SubmitTypes DEF SubmitOrNot, Submit, PageTypes
  <2> QED BY <1>2, <2>1 DEF PageTypes
<1> QED BY <1>1, <1>2 DEF RunSubmit

LEMMA ScriptTypes ==
  ASSUME PageTypes, NEW pending, NEW k \in Keys \cup {NoKey}, NEW call, NEW text,
         \/ RunProbe(pending, k, call) \/ RunInsert(pending, k, text)
         \/ RunClick(pending, k) \/ RunEnter(pending, k, call)
         \/ RunCheck(pending, k, call) \/ RunClear(pending, k, call, text)
  PROVE  PageTypes'
<1>1. CASE UNCHANGED <<page, landed>> BY <1>1 DEF PageTypes, page
<1>2. CASE \E c : RunSubmit(pending, k, c) BY <1>2, SubmittingTypes
<1>3. CASE marker' = k /\ typed' = FALSE /\ UNCHANGED <<mounted, recent, landed>>
  BY <1>3 DEF PageTypes
<1>4. CASE UNCHANGED <<mounted, marker, typed, recent, landed>> BY <1>4 DEF PageTypes
<1> QED BY <1>1, <1>2, <1>3, <1>4
        DEF RunProbe, RunInsert, RunClick, RunEnter, RunCheck, RunClear, ContextLost

LEMMA HandledTypes == ASSUME PageTypes, Handled PROVE PageTypes'
  BY DEF PageTypes, Handled, page

\* The ends of sends leave the queue its types.
LEMMA FinishTypes ==
  ASSUME QueueTypes, NEW done \in SUBSET Keys, NEW self, NEW result \in Outcomes,
         FinishSends(done, self, result)
  PROVE  QueueTypes'
<1>1. queue' \in Seq(Keys)
  <2>1. queue' \in Seq({queue[j] : j \in 1..Len(queue)} \ done)
    BY WithoutKeeps DEF FinishSends, QueueTypes
  <2>2. {queue[j] : j \in 1..Len(queue)} \ done \subseteq Keys BY DEF QueueTypes
  <2> QED BY <2>1, <2>2, SeqMonotonic
<1>2. outcome' \in [Keys -> Outcomes] /\ delivered' \subseteq Keys
  BY DEF FinishSends, QueueTypes
<1> QED BY <1>1, <1>2 DEF QueueTypes

LEMMA FinishSendTypes ==
  ASSUME QueueTypes, NEW k \in Keys, NEW result \in Outcomes, FinishSend(k, result)
  PROVE  QueueTypes'
<1>1. {k} \in SUBSET Keys OBVIOUS
<1> QED BY <1>1, FinishTypes DEF FinishSend

LEMMA FinishBatchTypes ==
  ASSUME OwnTextInv, QueueTypes, NEW k \in Keys, FinishBatchedSend(k) PROVE QueueTypes'
<1> DEFINE done == {k} \cup {m \in entry[k].batch : Queued(m)}
<1>1. done \in SUBSET Keys BY DEF OwnTextInv, EntryInv, EntryShape
<1>2. "sent" \in Outcomes BY DEF Outcomes
<1>3. FinishSends(done, k, "sent") BY DEF FinishBatchedSend
<1> HIDE DEF done
<1> QED BY <1>1, <1>2, <1>3, FinishTypes

LEMMA SetTypes ==
  ASSUME QueueTypes, UNCHANGED <<queue, outcome, delivered>> PROVE QueueTypes'
  BY DEF QueueTypes

LEMMA EnqueueTypes ==
  ASSUME QueueTypes, NEW k \in Keys, NEW text, Enqueue(k, text) PROVE QueueTypes'
<1>1. queue' \in Seq(Keys) BY AppendProperties DEF Enqueue, QueueTypes
<1> QED BY <1>1 DEF Enqueue, QueueTypes

\* What a reply leads to
LEMMA ContextLossTypes ==
  ASSUME QueueTypes, NEW k \in Keys, RestartAfterContextLoss(k) PROVE QueueTypes'
<1>1. "failed" \in Outcomes BY DEF Outcomes
<1> QED BY <1>1, FinishSendTypes, SetTypes DEF RestartAfterContextLoss, SetEntry

LEMMA ReclaimTypes ==
  ASSUME PageTypes, QueueTypes, NEW k \in Keys, NEW call, StartReclaim(k, call)
  PROVE  PageTypes' /\ QueueTypes'
  BY ScriptTypes, SetTypes DEF StartReclaim, SetEntry

LEMMA NextAttemptTypes ==
  ASSUME PageTypes, QueueTypes, NEW k \in Keys, NextAttempt(k)
  PROVE  PageTypes' /\ QueueTypes'
<1>1. QueueTypes' BY SetTypes DEF NextAttempt, SetEntry, KeepEntry
<1>2. PageTypes' BY ScriptTypes, HandledTypes DEF NextAttempt
<1> QED BY <1>1, <1>2

LEMMA SubmitReplyTypes ==
  ASSUME PageTypes, QueueTypes, NEW k \in Keys, NEW e, SubmitReply(k, e)
  PROVE  PageTypes' /\ QueueTypes'
<1>1. CASE RestartAfterContextLoss(k) /\ Handled BY <1>1, ContextLossTypes, HandledTypes
<1>2. CASE FinishSend(k, "user-text-guard") /\ Handled
  <2>1. "user-text-guard" \in Outcomes BY DEF Outcomes
  <2> QED BY <1>2, <2>1, FinishSendTypes, HandledTypes
<1>3. CASE StartReclaim(k, "guard reclaim") BY <1>3, ReclaimTypes
<1>4. CASE SetEntry(k, [e EXCEPT !.phase = "await"]) /\ Handled
  BY <1>4, SetTypes, HandledTypes DEF SetEntry
<1> QED BY <1>1, <1>2, <1>3, <1>4 DEF SubmitReply

LEMMA ReplyTypes ==
  ASSUME OwnTextInv, PageTypes, QueueTypes, NEW k \in Keys, HandleReply(k)
  PROVE  PageTypes' /\ QueueTypes'
<1>0. {"hold-timeout", "no-input", "failed", "user-text-guard"} \subseteq Outcomes BY DEF Outcomes
<1>1. CASE GateReply(k)
  <2>1. CASE RunClear(rest, k, "reclaim", last.hash) /\ UNCHANGED <<queue, entry, outcome, delivered>>
    BY <2>1, ScriptTypes, SetTypes
  <2>2. CASE Handled /\ (FinishSend(k, "hold-timeout") \/ UNCHANGED <<queue, outcome, delivered>>)
    BY <1>0, <2>2, HandledTypes, FinishSendTypes, SetTypes
  <2> QED BY <1>1, <2>1, <2>2 DEF GateReply, HoldOn, HoldCleared, SetEntry, EnterInsertPhase
<1>2. CASE ReclaimReply(k) BY <1>2, HandledTypes, SetTypes DEF ReclaimReply, KeepEntry, SetEntry
<1>3. CASE InsertReply(k)
  <2>1. Handled BY <1>3 DEF InsertReply
  <2>2. FinishSend(k, "no-input") \/ UNCHANGED <<queue, outcome, delivered>>
    BY <1>3 DEF InsertReply, SetEntry
  <2> QED BY <1>0, <2>1, <2>2, HandledTypes, FinishSendTypes, SetTypes
<1>4. CASE RecheckReply(k)
  <2>1. QueueTypes' BY <1>4, SetTypes DEF RecheckReply, SetEntry
  <2>2. RunEnter(rest, k, "enter") \/ RunClick(rest, k) BY <1>4 DEF RecheckReply
  <2> QED BY <2>1, <2>2, ScriptTypes
<1>5. CASE ClickReply(k)
  <2>1. CASE \E e : SubmitReply(k, e) BY <2>1, SubmitReplyTypes
  <2>2. CASE UNCHANGED <<queue, outcome, delivered>> /\ RunEnter(rest, k, "fallback")
    BY <2>2, ScriptTypes, SetTypes
  <2>3. CASE NextAttempt(k) BY <2>3, NextAttemptTypes
  <2> QED BY <1>5, <2>1, <2>2, <2>3 DEF ClickReply, SetEntry
<1>6. CASE EnterReply(k) BY <1>6, SubmitReplyTypes, NextAttemptTypes DEF EnterReply
<1>7. CASE CheckReply(k)
  BY <1>7, ContextLossTypes, FinishBatchTypes, HandledTypes, NextAttemptTypes DEF CheckReply
<1>8. CASE LastCheckReply(k)
  BY <1>8, FinishBatchTypes, HandledTypes, ReclaimTypes DEF LastCheckReply
<1>9. CASE CountedReclaimReply(k)
  <2>1. Handled BY <1>9 DEF CountedReclaimReply
  <2>2. \/ FinishSend(k, "user-text-guard") \/ FinishSend(k, "failed")
        \/ UNCHANGED <<queue, outcome, delivered>>
    BY <1>9 DEF CountedReclaimReply, BackToHold, SetEntry
  <2> QED BY <1>0, <2>1, <2>2, HandledTypes, FinishSendTypes, SetTypes
<1>10. CASE StepFailed(k) BY <1>10, HandledTypes, SetTypes DEF StepFailed, KeepEntry, SetEntry
<1>11. CASE SentinelReply(k)
  <2>1. QueueTypes' BY <1>11, SetTypes DEF SentinelReply, worker
  <2>2. Handled \/ RunClear(rest, k, "heal", Head(calls).text) BY <1>11 DEF SentinelReply
  <2> QED BY <2>1, <2>2, HandledTypes, ScriptTypes
<1>12. CASE HealReply(k)
  <2>1. Handled BY <1>12 DEF HealReply
  <2>2. Enqueue(k, Head(calls).text) \/ UNCHANGED <<queue, entry, outcome, delivered>>
    BY <1>12 DEF HealReply
  <2> QED BY <2>1, <2>2, HandledTypes, EnqueueTypes, SetTypes
<1> QED BY <1>1, <1>2, <1>3, <1>4, <1>5, <1>6, <1>7, <1>8, <1>9, <1>10, <1>11, <1>12 DEF HandleReply

LEMMA QueueStepTypes ==
  ASSUME TypeOK, NEW k \in Keys,
         \/ QueueSend(k) \/ ForceFlush(k) \/ TabGone(k)
         \/ Advance(k) \/ FetchFooter(k) \/ Insert(k)
  PROVE  may' = may /\ open' = open /\ fetching' \subseteq Keys /\ PageTypes' /\ QueueTypes'
<1>0. PageTypes /\ QueueTypes /\ fetching \subseteq Keys BY DEF TypeOK
<1>1. CASE QueueSend(k)
  <2>1. QueueTypes' BY <1>0, <1>1, EnqueueTypes DEF QueueSend
  <2>2. PageTypes' BY <1>0, <1>1 DEF QueueSend, PageTypes, page
  <2> QED BY <1>0, <1>1, <2>1, <2>2 DEF QueueSend
<1>2. CASE ForceFlush(k)
  <2>1. Without(queue, {k}) \in Seq({queue[j] : j \in 1..Len(queue)} \ {k})
    BY <1>0, WithoutKeeps DEF QueueTypes
  <2>2. {queue[j] : j \in 1..Len(queue)} \ {k} \subseteq Keys BY <1>0 DEF QueueTypes
  <2>3. PICK behind : behind = Without(queue, {k}) OBVIOUS
  <2>4. behind \in Seq(Keys) BY <2>1, <2>2, <2>3, SeqMonotonic
  <2>5. queue' = <<k>> \o behind BY <1>2, <2>3 DEF ForceFlush
  <2>6. queue' \in Seq(Keys) BY <2>4, <2>5
  <2>7. QueueTypes' BY <1>0, <1>2, <2>6 DEF ForceFlush, QueueTypes
  <2>8. PageTypes' BY <1>0, <1>2 DEF ForceFlush, PageTypes, page
  <2> QED BY <1>0, <1>2, <2>7, <2>8 DEF ForceFlush
<1>3. CASE TabGone(k)
  <2>1. "tab-gone" \in Outcomes BY DEF Outcomes
  <2>2. QueueTypes' BY <1>0, <1>3, <2>1, FinishSendTypes DEF TabGone
  <2>3. PageTypes' BY <1>0, <1>3 DEF TabGone, PageTypes, page
  <2> QED BY <1>0, <1>3, <2>2, <2>3 DEF TabGone
<1>4. CASE Advance(k)
  <2>1. QueueTypes' BY <1>0, <1>4, SetTypes DEF Advance
  <2>2. \/ \E call : RunProbe(calls, k, call) \/ RunEnter(calls, k, call) \/ RunCheck(calls, k, call)
        \/ RunClick(calls, k)
    BY <1>4 DEF Advance
  <2>3. PageTypes' BY <1>0, <2>2, ScriptTypes
  <2> QED BY <1>0, <1>4, <2>1, <2>3 DEF Advance
<1>5. CASE FetchFooter(k)
  BY <1>0, <1>5 DEF FetchFooter, PageTypes, QueueTypes, page, worker
<1>6. CASE Insert(k)
  <2>1. QueueTypes' BY <1>0, <1>6 DEF Insert, QueueTypes, worker
  <2>2. PageTypes' BY <1>0, <1>6, ScriptTypes DEF Insert
  <2> QED BY <1>0, <1>6, <2>1, <2>2 DEF Insert
<1> QED BY <1>1, <1>2, <1>3, <1>4, <1>5, <1>6

LEMMA AroundTypes ==
  ASSUME TypeOK, Around
  PROVE  may' = may /\ open' \in BOOLEAN /\ fetching' \subseteq Keys /\ PageTypes' /\ QueueTypes'
<1>0. PageTypes /\ QueueTypes /\ fetching \subseteq Keys /\ open \in BOOLEAN BY DEF TypeOK
<1>1. CASE UserTypes \/ UserErases \/ UserPauses \/ Reload \/ Remount \/ ScriptFails
  BY <1>0, <1>1 DEF UserTypes, UserErases, UserPauses, Reload, Remount, ScriptFails, Keystroke,
                    PageTypes, QueueTypes, page, worker
<1>2. CASE UserSends
  <2>1. landed' \in [Keys \cup Words -> 0..LandedCap]
    BY <1>0, <1>2, SubmitTypes DEF UserSends, Submit, PageTypes
  <2> QED BY <1>0, <1>2, <2>1 DEF UserSends, Keystroke, PageTypes, QueueTypes, worker
<1>3. CASE CloseTab \/ WorkerRestarts
  <2>1. queue' = <<>> \/ queue' = queue BY <1>3 DEF CloseTab, WorkerRestarts
  <2>2. queue' \in Seq(Keys) BY <1>0, <2>1, EmptySeq DEF QueueTypes
  <2> QED BY <1>0, <1>3, <2>2 DEF CloseTab, WorkerRestarts, PageTypes, QueueTypes, page
<1> QED BY <1>1, <1>2, <1>3 DEF Around

\* The variables have their types.
THEOREM TypeCorrect == Spec => []TypeOK
<1>1. Init => TypeOK
  <2> SUFFICES ASSUME Init PROVE TypeOK OBVIOUS
  <2>1. 0 \in 0..LandedCap /\ "none" \in Outcomes BY LimitsAssumption DEF Outcomes
  <2>2. PageTypes BY <2>1 DEF Init, PageTypes
  <2>3. QueueTypes BY <2>1, EmptySeq DEF Init, QueueTypes
  <2> QED BY <2>2, <2>3, InitOwnText DEF Init, TypeOK
<1>2. OwnTextInv /\ OwnTextInv' /\ TypeOK /\ [Next]_vars => TypeOK'
  <2> SUFFICES ASSUME OwnTextInv, OwnTextInv', TypeOK, [Next]_vars PROVE TypeOK' OBVIOUS
  <2>1. CASE UNCHANGED vars BY <2>1 DEF vars, page, worker, TypeOK, PageTypes, QueueTypes
  <2>2. ASSUME NEW k \in Keys, QueueSend(k) \/ ForceFlush(k) \/ TabGone(k)
                               \/ Advance(k) \/ FetchFooter(k) \/ Insert(k)
        PROVE  TypeOK'
    BY <2>2, QueueStepTypes DEF TypeOK
  <2>3. ASSUME NEW k \in Keys, HandleReply(k) PROVE TypeOK'
    <3>1. PageTypes' /\ QueueTypes' BY <2>3, ReplyTypes DEF TypeOK
    <3>2. UNCHANGED <<may, open, fetching>>
      BY <2>3 DEF HandleReply, GateReply, HoldOn, HoldCleared, ReclaimReply, InsertReply, RecheckReply, ClickReply, EnterReply,
         CheckReply, LastCheckReply, CountedReclaimReply, StepFailed, SentinelReply, HealReply, Handles
    <3> QED BY <3>1, <3>2 DEF TypeOK
  <2>4. CASE SentinelSweep
    BY <2>4 DEF SentinelSweep, TypeOK, PageTypes, QueueTypes, page, worker
  <2>5. CASE Around BY <2>5, AroundTypes DEF TypeOK
  <2> QED BY <2>1, <2>2, <2>3, <2>4, <2>5 DEF Next, Machine
<1> QED BY <1>1, <1>2, OwnTextIsOwn, PTL DEF Spec
=============================================================================
