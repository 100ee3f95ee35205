------------------------------- MODULE LoopSync -------------------------------
(***************************************************************************)
(* What the loop between the Director and 42 promises, without sequence    *)
(* numbers, frames, queues or threads.  A tick begins when the one before  *)
(* is committed; the components emit commands for it; 42 applies all that  *)
(* has been emitted for the tick, at once and once; and the tick is        *)
(* committed after that.  Where a side fails, the tick stays as it is and  *)
(* no other begins.                                                        *)
(*                                                                         *)
(* ClosedLoop.tla (three kinds of link, the command queue, the control     *)
(* trace and a 42 that may refuse, be slow or stop) implements this        *)
(* specification: ClosedLoop_proofs.tla.                                   *)
(***************************************************************************)
EXTENDS Naturals, Sequences

CONSTANTS Steps,      \* the ticks, and the step 42 is in after the last
          Emissions   \* for each of them, what one component may emit in it

VARIABLES tick,       \* the tick that has begun; 0 before the first
          emitted,    \* the commands of each tick
          applied,    \* the batches 42 has applied in each of its steps
          committed   \* the last tick that is committed

vars == <<tick, emitted, applied, committed>>

Init == /\ tick = 0 /\ committed = 0
        /\ emitted = [k \in Steps |-> <<>>]
        /\ applied = [k \in Steps |-> <<>>]

Begin == /\ committed = tick
         /\ tick' = tick + 1
         /\ UNCHANGED <<emitted, applied, committed>>

\* Nothing is added to a tick that has been applied or committed.
Emit == /\ committed < tick /\ applied[tick] = <<>>
        /\ \E more \in Emissions[tick] : emitted' = [emitted EXCEPT ![tick] = @ \o more]
        /\ UNCHANGED <<tick, applied, committed>>

Apply == /\ committed < tick /\ applied[tick] = <<>>
         /\ applied' = [applied EXCEPT ![tick] = <<emitted[tick]>>]
         /\ UNCHANGED <<tick, emitted, committed>>

Commit == /\ committed < tick /\ applied[tick] # <<>>
          /\ committed' = tick
          /\ UNCHANGED <<tick, emitted, applied>>

Next == Begin \/ Emit \/ Apply \/ Commit

Spec == Init /\ [][Next]_vars
=============================================================================
