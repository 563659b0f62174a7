------------------------------ MODULE MCPills ------------------------------
EXTENDS Pills

\* Each disturbance, alone or with the one it meets.
PillSettings == {{"reload"}, {"worker"}, {"aged"}, {"net"}, {"stale"}, {"close"}, {"slow"}}
=============================================================================
