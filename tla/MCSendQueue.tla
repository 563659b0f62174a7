---------------------------- MODULE MCSendQueue ----------------------------
(* Instances of SendQueue for TLC.                                          *)
EXTENDS SendQueue, TLC

\* Deliveries differ in nothing but the order they were queued in.
KeySymmetry == Permutations(Keys)
=============================================================================
