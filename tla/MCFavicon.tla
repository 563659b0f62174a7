----------------------------- MODULE MCFavicon -----------------------------
(* Instances of Favicon for TLC.                                            *)
EXTENDS Favicon

\* Each disturbance, with the ones it meets.
IconSettings ==
  {{"talk"}, {"results"}, {"results", "park"}, {"refire"}, {"hydrate", "displace"},
   {"fight"}, {"rewrite"}, {"fault"}, {"off"}}
=============================================================================
