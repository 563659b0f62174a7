----------------------------- MODULE MCStaleTabs -----------------------------
(* StaleTabs with two tabs: the sweep of an update and that of a browser    *)
(* that has just started, and disturbances a few at a time.                 *)
EXTENDS StaleTabs, TLC
Alike == Permutations(Tabs) \cup Permutations(Sweeps)
StaleSettings ==
  {{"user"}, {"load"}, {"away"}, {"delivery", "sleep"}, {"wake"}, {"update"},
   {"update", "toggle"}, {"both"}}
=============================================================================
