----------------------------- MODULE MCDelivery -----------------------------
(* Instances of Delivery for TLC.                                           *)
EXTENDS Delivery

\* Each disturbance, alone or with the one it meets.
DeliverySettings ==
  {{}, {"close", "net"}, {"worker", "close"}, {"net", "worker"}, {"fail", "worker"},
   {"guard"}, {"stale"}, {"advice", "fail"}}
=============================================================================
