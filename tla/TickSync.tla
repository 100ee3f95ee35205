------------------------------ MODULE TickSync ------------------------------
(***************************************************************************)
(* What the Simulith tick barrier promises, without mutexes, condition     *)
(* variables or sockets.  Simulated time is cut into rounds: round r is    *)
(* phase Phase(r) (1 = PREPARE, 2 = EXECUTE, 3 = COMMIT) of tick number    *)
(* (r-1) \div 3.  A round is opened only when every participant of the     *)
(* round before it has finished its work, and a participant works at most  *)
(* once in a round.  A stop ends the rounds for good; work that is under   *)
(* way when the stop arrives, that fails, or that a client declines        *)
(* because it was asked to stop, is abandoned and never counted.           *)
(*                                                                         *)
(* TickProtocol.tla (the shared-memory barrier, its server and its         *)
(* clients) is checked to implement this specification.                    *)
(***************************************************************************)
EXTENDS Naturals

CONSTANTS Clients,      \* the registered participants
          PhaseMask     \* [Clients -> SUBSET 1..3]: the phases of each of them

VARIABLES round,        \* the round that is open; 0 before the first
          work,         \* what each client has done in that round
          stopped       \* the barrier has been stopped

vars == <<round, work, stopped>>

\* The phase that round r >= 1 belongs to.
Phase(r) == ((r - 1) % 3) + 1

Participants(r) == IF r = 0 THEN {} ELSE {c \in Clients : Phase(r) \in PhaseMask[c]}

TypeOK == /\ round \in Nat
          /\ work \in [Clients -> {"idle", "busy", "done", "gone"}]
          /\ stopped \in BOOLEAN

Init == /\ round = 0
        /\ work = [c \in Clients |-> "idle"]
        /\ stopped = FALSE

(***************************************************************************)
(* The next round opens once everybody the current one needs is done.  A   *)
(* stop can overtake an opening that is already under way, so Open does    *)
(* not look at stopped; nothing finishes after a stop, so at most one      *)
(* round that needs somebody opens after it.                               *)
(***************************************************************************)
Open == /\ \A c \in Participants(round) : work[c] = "done"
        /\ round' = round + 1
        /\ work' = [c \in Clients |-> "idle"]
        /\ UNCHANGED stopped

Begin(c) == /\ c \in Participants(round)
            /\ work[c] = "idle"
            /\ work' = [work EXCEPT ![c] = "busy"]
            /\ UNCHANGED <<round, stopped>>

Finish(c) == /\ ~stopped
             /\ work[c] = "busy"
             /\ work' = [work EXCEPT ![c] = "done"]
             /\ UNCHANGED <<round, stopped>>

Abandon(c) == /\ c \in Participants(round)
              /\ work[c] \in {"idle", "busy"}
              /\ work' = [work EXCEPT ![c] = "gone"]
              /\ UNCHANGED <<round, stopped>>

Stop == /\ stopped' = TRUE
        /\ UNCHANGED <<round, work>>

Next == \/ Open
        \/ Stop
        \/ \E c \in Clients : Begin(c) \/ Finish(c) \/ Abandon(c)

Spec == Init /\ [][Next]_vars
=============================================================================
