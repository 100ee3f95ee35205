--------------------------- MODULE MCPowerCommit ---------------------------
\* DEMO is on the first switch and the ADCS on the last; the last is on at
\* startup.
EXTENDS PowerCommit
MCRail    == [l \in Loads |-> IF l = "demo" THEN 0 ELSE SwitchCount - 1]
MCStartup == [s \in Switches |-> s = SwitchCount - 1]
=============================================================================
