----------------------------- MODULE MCDispatch -----------------------------
(* Instances of Dispatch for TLC.                                          *)
EXTENDS Dispatch, TLC

CONSTANTS t1, t2, b1, b2, thread, url

\* One declares no thread and is deduplicated under the conversation's URL.
MixedBlocks == b1 :> thread @@ b2 :> url

TwoBlocks == {<<b1, b2>>}

DispatchSettings ==
  {{"more", "virtualize"}, {"more", "slow"}, {"more", "pause"},
   {"virtualize", "net"}, {"virtualize", "manual"}, {"more", "drop"},
   {"reload", "worker"}, {"more", "worker"}, {"tabs"},
   {"virtualize", "autopilot"}}
=============================================================================
