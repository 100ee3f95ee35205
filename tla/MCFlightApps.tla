----------------------------- MODULE MCFlightApps -----------------------------
\* FlightApps with its constants given in the configuration.
EXTENDS FlightApps

\* Two frames, one of the greatest length; packets that fit a frame together,
\* that do not, and one that no frame can hold.
FrameLengths == <<3, 4>>
PacketSizes  == <<1, 2, 4>>
\* A second boot off the same time file takes two restarts.
Restarts == [a \in Apps |-> IF a = "adcs" THEN 2 ELSE 1]
=============================================================================
