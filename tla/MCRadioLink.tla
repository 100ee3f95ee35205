---------------------------- MODULE MCRadioLink ----------------------------
\* RadioLink with its constants given in the configurations.
EXTENDS RadioLink

TwoTicks == [d \in Dir |-> 2]
Lossless == [d \in Dir |-> FALSE]
=============================================================================
