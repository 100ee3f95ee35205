--------------------------- MODULE MCTickProtocol ---------------------------
\* TickProtocol with the three kinds of participant SHIRE has.
EXTENDS TickProtocol

CONSTANTS director, fsw, observer

MCKind == [c \in Clients |-> CASE c = director -> "phased"
                               [] c = fsw      -> "tick"
                               [] OTHER        -> "loop"]
=============================================================================
