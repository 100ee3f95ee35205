-------------------------- MODULE MCDirectorWorkers --------------------------
\* DirectorWorkers with the Director's thread and three components.
EXTENDS DirectorWorkers

CONSTANTS director, demo, eps, radio
=============================================================================
