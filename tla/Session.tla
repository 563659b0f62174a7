------------------------------ MODULE Session ------------------------------
(* What the two displays of a thread in its page (Pills, Favicon) have in   *)
(* common.                                                                  *)

CONSTANTS
  Jobs,      \* jobs of the thread
  Settings   \* what may happen around a display, in one behaviour or another

VARIABLE
  may        \* the disturbances of this behaviour, one of Settings
=============================================================================
