---------------------------- MODULE MCClosedLoop ----------------------------
\* ClosedLoop with its constants given in the configurations.
EXTENDS ClosedLoop
=============================================================================
