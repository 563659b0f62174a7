----------------------------- MODULE MCFailover -----------------------------
(* Instances of Failover for TLC.                                           *)
EXTENDS Failover

\* Relays that come and go, tokens that change between two loads or within one,
\* a first run, a worker that is restarted.
RelaySettings == {{"flap"}, {"edit"}, {"edit", "race"}, {"first"}, {"restart"}}

\* One relay has a token that it takes, and the other one may.
TwoRelays == {<<"good", "good">>} \cup ({"good"} \X {"none", "bad"}) \cup ({"none", "bad"} \X {"good"})
=============================================================================
