---------------------------- MODULE TickProtocol ----------------------------
(***************************************************************************)
(* The tick protocol over the shared-memory barrier:                       *)
(*   simulith_shared_barrier.c   the barrier object and its operations     *)
(*   simulith_server.c           simulith_server_run, the tick loop        *)
(*   simulith_client.c           handshake, receive, complete, the loops   *)
(*                                                                         *)
(* Every section the code runs under the barrier's mutex is one step,      *)
(* except publication: a fast receiver reads the payload with no lock, so  *)
(* the server's stores and the receiver's loads are steps of their own.    *)
(* The mutex is held exactly while the server is inside a publication.     *)
(*                                                                         *)
(* time_ns is written, read and advanced together with the sequence and is *)
(* always sequence * tick_interval_ns; it is not a variable of its own.    *)
(* A client's slot is the client itself.                                   *)
(***************************************************************************)
EXTENDS Integers, FiniteSets

CONSTANTS Clients,      \* participants the server waits for
          Kind,         \* the loop each client runs
          Duration,     \* configured_duration_ns in ticks; 0 runs forever
          Faulty,       \* clients that may fail or be asked to stop
          StartPaused,  \* SIMULITH_START_PAUSED
          Commands,     \* commands that may arrive at the server
          ExternalStop  \* whether another thread may call request_stop

\* Loops: the Director's phased loop, flight software's EXECUTE loop, and the
\* COMMIT-only loop of a default client.
Kinds == {"phased", "tick", "loop"}
Phases == 1..3
NoSequence == -1
None == "none"
AllCommands == {"pause", "resume", "step", "p", "quit"}

ASSUME KindAssumption == Kind \in [Clients -> Kinds]
ASSUME DurationAssumption == Duration \in Nat
ASSUME FaultyAssumption == Faulty \subseteq Clients
ASSUME StartPausedAssumption == StartPaused \in BOOLEAN
ASSUME CommandsAssumption == Commands \subseteq AllCommands
ASSUME ExternalStopAssumption == ExternalStop \in BOOLEAN

VARIABLES
    \* the server's thread
    spc, ready, paused, stepPending, running, stopRequested,
    sequence, phase, responded,
    \* the barrier in shared memory
    generation, pubSequence, pubPhase, participants, completions, stopping,
    \* the clients
    cpc, lastGeneration, gotSequence, gotPhase, lastSequence, lastPhase,
    completed, interrupted

control == <<paused, stepPending, running, stopRequested>>
server  == <<spc, ready, control, sequence, phase, responded>>
payload == <<pubSequence, pubPhase, participants>>
barrier == <<generation, payload, completions, stopping>>
client  == <<cpc, lastGeneration, gotSequence, gotPhase, lastSequence,
             lastPhase, completed, interrupted>>
vars    == <<server, barrier, client>>

-----------------------------------------------------------------------------
\* SIMULITH_PHASE_MASK_* of each loop.
PhaseMask == [c \in Clients |-> CASE Kind[c] = "phased" -> Phases
                                  [] Kind[c] = "tick"   -> {2}
                                  [] OTHER              -> {3}]

\* Fault: every client takes the lock-free path.
FastReceiveAlways(c) == TRUE

\* fast_receive_safe: only a participant of every phase may skip the mutex.
FastReceiveSafe(c) == PhaseMask[c] = Phases

\* required_phase_mask for the server's current phase.
Required == {c \in Clients : phase \in PhaseMask[c]}

PublishSteps == {"pub_phase", "pub_generation", "pub_signal"}
ServerSteps  == {"handshake", "poll", "decide", "publish"} \cup PublishSteps \cup
                {"phase_test", "collect", "dispatch", "stop", "done"}
ClientSteps  == {"start", "connect", "receive", "copy_sequence", "copy_phase",
                 "asleep", "woken", "validate", "work", "complete",
                 "exited", "failed"}

MutexFree == spc \notin PublishSteps

\* Fault: the signal is lost.
WakeNobody(pc, slots) == pc

\* The waiters of a set of condition variables, once signalled.
Wake(pc, slots) == [c \in Clients |-> IF c \in slots /\ pc[c] = "asleep"
                                      THEN "woken" ELSE pc[c]]

Init == /\ spc = "handshake"
        /\ ready = {}
        /\ paused = StartPaused
        /\ stepPending = FALSE
        /\ running = TRUE
        /\ stopRequested = FALSE
        /\ sequence = 0 /\ phase = 1
        /\ responded = {}
        /\ generation = 0
        /\ pubSequence = 0 /\ pubPhase = 0
        /\ participants = {} /\ completions = {}
        /\ stopping = FALSE
        /\ cpc = [c \in Clients |-> "start"]
        /\ lastGeneration = [c \in Clients |-> 0]
        /\ gotSequence = [c \in Clients |-> 0]
        /\ gotPhase = [c \in Clients |-> 0]
        /\ lastSequence = [c \in Clients |-> NoSequence]
        /\ lastPhase = [c \in Clients |-> 0]
        /\ completed = [c \in Clients |-> FALSE]
        /\ interrupted = [c \in Clients |-> FALSE]

-----------------------------------------------------------------------------
(***************************************************************************)
(* The handshake.  A READY is answered only while the server is in its     *)
(* handshake loop.  One that is malformed, names a client already known or *)
(* another transport than the session's, or finds no slot is rejected: the *)
(* server changes nothing and the client fails.  A client whose reply is   *)
(* late, or that cannot map the barrier, gives up and its slot stays taken.*)
(***************************************************************************)
Register(c) ==
    /\ spc = "handshake" /\ ~stopRequested
    /\ cpc[c] = "start"
    /\ ready' = ready \cup {c}
    /\ cpc' = [cpc EXCEPT ![c] = "connect"]
    /\ spc' = IF ready' = Clients THEN "poll" ELSE "handshake"
    /\ UNCHANGED <<control, sequence, phase, responded, barrier,
                   lastGeneration, gotSequence, gotPhase, lastSequence,
                   lastPhase, completed, interrupted>>

\* ERR, DUP_ID or ERR TRANSPORT instead of an ACK.
Rejected(c) ==
    c \in Faulty /\ cpc[c] = "start" /\ spc = "handshake" /\ ~stopRequested

HandshakeFails(c) ==
    /\ cpc[c] \in {"start", "connect"}
    /\ \/ Rejected(c)
       \/ c \in Faulty
       \/ cpc[c] = "start" /\ spc = "done"
    /\ cpc' = [cpc EXCEPT ![c] = "failed"]
    /\ UNCHANGED <<server, barrier, lastGeneration, gotSequence, gotPhase,
                   lastSequence, lastPhase, completed, interrupted>>

\* Fault: a phase published before the client attached is taken as seen.
ConnectAtCurrent(c) ==
    /\ cpc[c] = "connect" /\ MutexFree
    /\ lastGeneration' = [lastGeneration EXCEPT ![c] = generation]
    /\ cpc' = [cpc EXCEPT ![c] = "receive"]
    /\ UNCHANGED <<server, barrier, gotSequence, gotPhase, lastSequence,
                   lastPhase, completed, interrupted>>

\* simulith_shared_barrier_connect: a phase published before the client
\* attached is still to be received.
Connect(c) ==
    /\ cpc[c] = "connect" /\ MutexFree
    /\ lastGeneration' = [lastGeneration EXCEPT
                            ![c] = IF generation > 0 THEN generation - 1 ELSE 0]
    /\ cpc' = [cpc EXCEPT ![c] = "receive"]
    /\ UNCHANGED <<server, barrier, gotSequence, gotPhase, lastSequence,
                   lastPhase, completed, interrupted>>

\* The handshake loop sees a stop request and returns.
AbandonHandshake ==
    /\ spc = "handshake" /\ stopRequested
    /\ spc' = "done"
    /\ UNCHANGED <<ready, control, sequence, phase, responded, barrier, client>>

-----------------------------------------------------------------------------
(***************************************************************************)
(* Commands.  One line of stdin and one backdoor datagram are read by each *)
(* poll, in that order; the datagram cannot quit.                          *)
(***************************************************************************)
ApplyPaused(command, isPaused) ==
    CASE command \in {"pause", "step"} -> TRUE
      [] command = "resume"            -> FALSE
      [] command = "p"                 -> ~isPaused
      [] OTHER                         -> isPaused

ApplyStep(command, isPending) ==
    CASE command = "step"                -> TRUE
      [] command \in {"pause", "resume"} -> FALSE
      [] OTHER                           -> isPending

PollAndDispatch(cli, backdoor) ==
    /\ cli \in Commands \cup {None}
    /\ backdoor \in (Commands \cap {"pause", "resume", "step"}) \cup {None}
    /\ paused' = ApplyPaused(backdoor, ApplyPaused(cli, paused))
    /\ stepPending' = ApplyStep(backdoor, ApplyStep(cli, stepPending))
    /\ running' = (running /\ cli # "quit")

\* The top of the main loop.
Poll ==
    /\ spc = "poll" /\ running /\ ~stopRequested
    /\ \E cli, backdoor \in AllCommands \cup {None} : PollAndDispatch(cli, backdoor)
    /\ spc' = IF running' THEN "decide" ELSE "stop"
    /\ UNCHANGED <<ready, stopRequested, sequence, phase, responded, barrier, client>>

\* Fault: the tick starts at EXECUTE.
StartTickAtExecute ==
    /\ spc = "decide" /\ (~paused \/ stepPending)
    /\ stepPending' = FALSE
    /\ phase' = 2
    /\ spc' = IF stopRequested THEN "stop" ELSE "publish"
    /\ UNCHANGED <<ready, paused, running, stopRequested, sequence, responded,
                   barrier, client>>

StartTick ==
    /\ spc = "decide" /\ (~paused \/ stepPending)
    /\ stepPending' = FALSE
    /\ phase' = 1
    /\ spc' = IF stopRequested THEN "stop" ELSE "publish"
    /\ UNCHANGED <<ready, paused, running, stopRequested, sequence, responded,
                   barrier, client>>

StayPaused ==
    /\ spc = "decide" /\ paused /\ ~stepPending
    /\ spc' = "poll"
    /\ UNCHANGED <<ready, control, sequence, phase, responded, barrier, client>>

-----------------------------------------------------------------------------
(***************************************************************************)
(* simulith_shared_barrier_publish.  The mutex is taken by the first step  *)
(* and released by the last.                                               *)
(***************************************************************************)
PublishSequence ==
    /\ spc = "publish"
    /\ responded' = {}                       \* reset_responses
    /\ pubSequence' = sequence
    /\ spc' = "pub_phase"
    /\ UNCHANGED <<ready, control, sequence, phase, generation, pubPhase,
                   participants, completions, stopping, client>>

PublishPhase ==
    /\ spc = "pub_phase"
    /\ pubPhase' = phase
    /\ participants' = Required
    /\ completions' = {}
    /\ spc' = "pub_generation"
    /\ UNCHANGED <<ready, control, sequence, phase, responded, generation,
                   pubSequence, stopping, client>>

PublishGeneration ==
    /\ spc = "pub_generation"
    /\ generation' = generation + 1
    /\ spc' = "pub_signal"
    /\ UNCHANGED <<ready, control, sequence, phase, responded, payload,
                   completions, stopping, client>>

PublishSignal ==
    /\ spc = "pub_signal"
    /\ cpc' = Wake(cpc, participants)
    /\ spc' = "phase_test"
    /\ UNCHANGED <<ready, control, sequence, phase, responded, barrier,
                   lastGeneration, gotSequence, gotPhase, lastSequence,
                   lastPhase, completed, interrupted>>

(***************************************************************************)
(* Collecting the completions of a phase.  simulith_shared_barrier_wait    *)
(* returns within its timeout whatever happens, so a wait is a read of the *)
(* completion mask; the watchdog only logs.                                *)
(***************************************************************************)
\* Fault: the first completion ends the phase.
AnyResponded == Required = {} \/ Required \cap responded # {}

AllResponded == Required \subseteq responded

PhaseUnderway == ~AllResponded /\ running /\ ~stopRequested

EnterWait ==
    /\ spc = "phase_test" /\ PhaseUnderway
    /\ spc' = "collect"
    /\ UNCHANGED <<ready, control, sequence, phase, responded, barrier, client>>

\* Fault: completions are not recorded while paused.
CollectUnlessPaused ==
    /\ spc = "collect"
    /\ responded' = IF paused THEN responded ELSE responded \cup (completions \cap Required)
    /\ spc' = "dispatch"
    /\ UNCHANGED <<ready, control, sequence, phase, barrier, client>>

Collect ==
    /\ spc = "collect"
    /\ responded' = responded \cup (completions \cap Required)
    /\ spc' = "dispatch"
    /\ UNCHANGED <<ready, control, sequence, phase, barrier, client>>

Dispatch ==
    /\ spc = "dispatch"
    /\ \E cli, backdoor \in AllCommands \cup {None} : PollAndDispatch(cli, backdoor)
    /\ spc' = "phase_test"
    /\ UNCHANGED <<ready, stopRequested, sequence, phase, responded, barrier, client>>

(***************************************************************************)
(* The end of a phase: on to the next one, out of a tick that was cut      *)
(* short, or on to the next tick.  The for loop advances current_phase     *)
(* before it looks at running, so a COMMIT that is cut short leaves it     *)
(* past COMMIT and takes the path of a completed tick.                     *)
(***************************************************************************)
EndPhase ==
    /\ spc = "phase_test" /\ ~PhaseUnderway
    /\ phase < 3
    /\ phase' = phase + 1
    /\ spc' = IF running /\ ~stopRequested THEN "publish" ELSE "stop"
    /\ UNCHANGED <<ready, control, sequence, responded, barrier, client>>

EndTick ==
    /\ spc = "phase_test" /\ ~PhaseUnderway
    /\ phase = 3
    /\ phase' = 4
    /\ sequence' = sequence + 1
    /\ running' = (running /\ (Duration > 0 => sequence' < Duration))
    /\ spc' = IF running' /\ ~stopRequested THEN "poll" ELSE "stop"
    /\ UNCHANGED <<ready, paused, stepPending, stopRequested, responded,
                   barrier, client>>

(***************************************************************************)
(* Stopping.  request_stop may be called by another thread at any time: it *)
(* sets the flag, then stops the barrier under the mutex.  The server's    *)
(* own thread stops the barrier when its loop has ended.                   *)
(***************************************************************************)
RequestServerStop ==
    /\ ExternalStop /\ ~stopRequested /\ spc # "done"
    /\ stopRequested' = TRUE
    /\ UNCHANGED <<spc, ready, paused, stepPending, running, sequence, phase,
                   responded, barrier, client>>

StopBarrier ==
    /\ MutexFree /\ ~stopping
    /\ \/ /\ spc = "stop" /\ spc' = "done"
       \/ /\ stopRequested /\ UNCHANGED spc
    /\ stopping' = TRUE
    /\ cpc' = Wake(cpc, Clients)
    /\ UNCHANGED <<ready, control, sequence, phase, responded, generation,
                   payload, completions, lastGeneration, gotSequence, gotPhase,
                   lastSequence, lastPhase, completed, interrupted>>

LeaveServer ==
    /\ spc = "stop" /\ stopping
    /\ spc' = "done"
    /\ UNCHANGED <<ready, control, sequence, phase, responded, barrier, client>>

\* The main loop finds its condition false before it polls.
LeaveLoop ==
    /\ spc = "poll" /\ (~running \/ stopRequested)
    /\ spc' = "stop"
    /\ UNCHANGED <<ready, control, sequence, phase, responded, barrier, client>>

-----------------------------------------------------------------------------
(***************************************************************************)
(* A client receives.  The bounded spin may end either way, so a client    *)
(* of every phase takes the lock-free path or the locked one.              *)
(***************************************************************************)
FastReceive(c) ==
    /\ cpc[c] = "receive" /\ FastReceiveSafe(c) /\ ~interrupted[c]
    /\ generation # lastGeneration[c]
    /\ lastGeneration' = [lastGeneration EXCEPT ![c] = generation]
    /\ cpc' = [cpc EXCEPT ![c] = "copy_sequence"]
    /\ UNCHANGED <<server, barrier, gotSequence, gotPhase, lastSequence,
                   lastPhase, completed, interrupted>>

CopySequence(c) ==
    /\ cpc[c] = "copy_sequence"
    /\ gotSequence' = [gotSequence EXCEPT ![c] = pubSequence]
    /\ cpc' = [cpc EXCEPT ![c] = "copy_phase"]
    /\ UNCHANGED <<server, barrier, lastGeneration, gotPhase, lastSequence,
                   lastPhase, completed, interrupted>>

CopyPhase(c) ==
    /\ cpc[c] = "copy_phase"
    /\ gotPhase' = [gotPhase EXCEPT ![c] = pubPhase]
    /\ cpc' = [cpc EXCEPT ![c] = "validate"]
    /\ UNCHANGED <<server, barrier, lastGeneration, gotSequence, lastSequence,
                   lastPhase, completed, interrupted>>

LockedReceive(c) ==
    /\ cpc[c] \in {"receive", "woken"} /\ MutexFree
    /\ ~interrupted[c] /\ ~stopping
    /\ generation # lastGeneration[c]
    /\ lastGeneration' = [lastGeneration EXCEPT ![c] = generation]
    /\ gotSequence' = [gotSequence EXCEPT ![c] = pubSequence]
    /\ gotPhase' = [gotPhase EXCEPT ![c] = pubPhase]
    /\ cpc' = [cpc EXCEPT ![c] = "validate"]
    /\ UNCHANGED <<server, barrier, lastSequence, lastPhase, completed, interrupted>>

Sleep(c) ==
    /\ cpc[c] \in {"receive", "woken"} /\ MutexFree
    /\ ~interrupted[c] /\ ~stopping
    /\ generation = lastGeneration[c]
    /\ cpc' = [cpc EXCEPT ![c] = "asleep"]
    /\ UNCHANGED <<server, barrier, lastGeneration, gotSequence, gotPhase,
                   lastSequence, lastPhase, completed, interrupted>>

\* POSIX allows a condition wait to return with no signal.
SpuriousWake(c) ==
    /\ cpc[c] = "asleep"
    /\ cpc' = [cpc EXCEPT ![c] = "woken"]
    /\ UNCHANGED <<server, barrier, lastGeneration, gotSequence, gotPhase,
                   lastSequence, lastPhase, completed, interrupted>>

\* receive reports the stop or the interruption, or the loop test sees it.
Leave(c) ==
    /\ cpc[c] \in {"receive", "woken"}
    /\ interrupted[c] \/ (MutexFree /\ stopping)
    /\ cpc' = [cpc EXCEPT ![c] = "exited"]
    /\ UNCHANGED <<server, barrier, lastGeneration, gotSequence, gotPhase,
                   lastSequence, lastPhase, completed, interrupted>>

(***************************************************************************)
(* simulith_client_receive_phase checks what was received against what the *)
(* client received last, then the loop keeps the phases it works in.       *)
(***************************************************************************)
\* Fault: a later phase of the same tick counts as stale.
StaleTick(c) == lastSequence[c] # NoSequence /\ gotSequence[c] <= lastSequence[c]

Stale(c) ==
    /\ lastSequence[c] # NoSequence
    /\ \/ gotSequence[c] < lastSequence[c]
       \/ gotSequence[c] = lastSequence[c] /\ gotPhase[c] <= lastPhase[c]

Gap(c) ==
    /\ lastSequence[c] # NoSequence
    /\ gotSequence[c] > lastSequence[c] + 1

AfterReceive(c) == CASE Kind[c] = "loop" /\ interrupted[c] -> "exited"
                     [] gotPhase[c] \in PhaseMask[c]       -> "work"
                     [] OTHER                              -> "receive"

Validate(c) ==
    /\ cpc[c] = "validate"
    /\ IF Stale(c) \/ Gap(c)
       THEN /\ cpc' = [cpc EXCEPT ![c] = "receive"]
            /\ UNCHANGED <<lastSequence, lastPhase, completed>>
       ELSE /\ lastSequence' = [lastSequence EXCEPT ![c] = gotSequence[c]]
            /\ lastPhase' = [lastPhase EXCEPT ![c] = gotPhase[c]]
            /\ completed' = [completed EXCEPT ![c] = FALSE]
            /\ cpc' = [cpc EXCEPT ![c] = AfterReceive(c)]
    /\ UNCHANGED <<server, barrier, lastGeneration, gotSequence, gotPhase, interrupted>>

(***************************************************************************)
(* The callback returns.  Only the phased loop looks at its result: an     *)
(* error ends the loop and the completion is withheld.                     *)
(***************************************************************************)
CallbackFails(c) ==
    /\ cpc[c] = "work" /\ Kind[c] = "phased" /\ c \in Faulty
    /\ cpc' = [cpc EXCEPT ![c] = "failed"]
    /\ UNCHANGED <<server, barrier, lastGeneration, gotSequence, gotPhase,
                   lastSequence, lastPhase, completed, interrupted>>

\* simulith_client_complete_tick claims the phase before it publishes.
Claim(c) ==
    /\ cpc[c] = "work" /\ ~completed[c]
    /\ completed' = [completed EXCEPT ![c] = TRUE]
    /\ cpc' = [cpc EXCEPT ![c] = "complete"]
    /\ UNCHANGED <<server, barrier, lastGeneration, gotSequence, gotPhase,
                   lastSequence, lastPhase, interrupted>>

\* simulith_shared_barrier_complete and what the caller does with its result.
Accepts(c) == /\ ~stopping
              /\ c \in participants \ completions
              /\ pubSequence = lastSequence[c] /\ pubPhase = lastPhase[c]

Complete(c) ==
    /\ cpc[c] = "complete" /\ MutexFree /\ Accepts(c)
    /\ completions' = completions \cup {c}
    /\ cpc' = [cpc EXCEPT ![c] = "receive"]
    /\ UNCHANGED <<server, generation, payload, stopping, lastGeneration,
                   gotSequence, gotPhase, lastSequence, lastPhase, completed,
                   interrupted>>

CompletionRejected(c) ==
    /\ cpc[c] = "complete" /\ MutexFree /\ ~Accepts(c)
    /\ completed' = [completed EXCEPT ![c] = FALSE]
    /\ cpc' = [cpc EXCEPT ![c] = IF Kind[c] = "phased" THEN "failed" ELSE "receive"]
    /\ UNCHANGED <<server, barrier, lastGeneration, gotSequence, gotPhase,
                   lastSequence, lastPhase, interrupted>>

(***************************************************************************)
(* simulith_client_request_stop, called by another thread: the flags       *)
(* first, then the broadcast under the mutex.                              *)
(***************************************************************************)
RequestStop(c) ==
    /\ c \in Faulty /\ ~interrupted[c]
    /\ cpc[c] \notin {"start", "connect", "exited", "failed"}
    /\ interrupted' = [interrupted EXCEPT ![c] = TRUE]
    /\ UNCHANGED <<server, barrier, cpc, lastGeneration, gotSequence, gotPhase,
                   lastSequence, lastPhase, completed>>

Interrupt(c) ==
    /\ interrupted[c] /\ cpc[c] = "asleep" /\ MutexFree
    /\ cpc' = Wake(cpc, {c})
    /\ UNCHANGED <<server, barrier, lastGeneration, gotSequence, gotPhase,
                   lastSequence, lastPhase, completed, interrupted>>

-----------------------------------------------------------------------------
ServerNext ==
    \/ AbandonHandshake \/ Poll \/ StartTick \/ StayPaused
    \/ PublishSequence \/ PublishPhase \/ PublishGeneration \/ PublishSignal
    \/ EnterWait \/ Collect \/ Dispatch \/ EndPhase \/ EndTick
    \/ StopBarrier \/ LeaveServer \/ LeaveLoop

\* What a client's own threads do without outside interference.
ClientNext(c) ==
    \/ Register(c) \/ Connect(c)
    \/ FastReceive(c) \/ CopySequence(c) \/ CopyPhase(c)
    \/ LockedReceive(c) \/ Sleep(c) \/ Leave(c)
    \/ Validate(c) \/ Claim(c) \/ Complete(c) \/ CompletionRejected(c)
    \/ Interrupt(c)

\* What may go wrong, or be asked for, at any time.
Environment(c) ==
    SpuriousWake(c) \/ CallbackFails(c) \/ RequestStop(c) \/ HandshakeFails(c)

Ended == spc = "done" /\ \A c \in Clients : cpc[c] \in {"exited", "failed"}

Terminated == Ended /\ UNCHANGED vars

Next == \/ ServerNext
        \/ \E c \in Clients : ClientNext(c) \/ Environment(c)
        \/ RequestServerStop
        \/ Terminated

(***************************************************************************)
(* Threads are scheduled: the server's loop and each client's thread keep  *)
(* going, and a handshake that nobody will answer times out.  Nothing is   *)
(* assumed of commands, failures, stop requests or spurious wakeups.       *)
(***************************************************************************)
Fairness == /\ WF_vars(ServerNext)
            /\ \A c \in Clients : WF_vars(ClientNext(c))
            /\ \A c \in Clients : WF_vars(HandshakeFails(c) /\ spc = "done")

Spec == Init /\ [][Next]_vars /\ Fairness

-----------------------------------------------------------------------------
\* Rounds are numbered as the abstract barrier numbers them.
RoundOf(seq, ph) == 3 * seq + ph

TypeOK ==
    /\ spc \in ServerSteps /\ ready \subseteq Clients
    /\ paused \in BOOLEAN /\ stepPending \in BOOLEAN /\ running \in BOOLEAN
    /\ stopRequested \in BOOLEAN /\ stopping \in BOOLEAN
    /\ sequence \in Nat /\ phase \in 1..4
    /\ responded \subseteq Clients
    /\ generation \in Nat
    /\ pubSequence \in Nat /\ pubPhase \in 0..3
    /\ participants \subseteq Clients /\ completions \subseteq participants
    /\ cpc \in [Clients -> ClientSteps]
    /\ lastGeneration \in [Clients -> Nat]
    /\ gotSequence \in [Clients -> Nat]
    /\ gotPhase \in [Clients -> 0..3]
    /\ lastSequence \in [Clients -> Nat \cup {NoSequence}]
    /\ lastPhase \in [Clients -> 0..3]
    /\ completed \in [Clients -> BOOLEAN]
    /\ interrupted \in [Clients -> BOOLEAN]

Busy(c) == cpc[c] \in {"work", "complete"}

(***************************************************************************)
(* Lock step.  While a participant works on a phase the barrier holds that *)
(* very phase and is not being overwritten: the server cannot run ahead of *)
(* a callback (simulith_server_run, the loop at 1037), so two participants *)
(* are never at work in different phases.                                  *)
(***************************************************************************)
Lockstep ==
    \A c \in Clients : Busy(c) =>
        /\ lastSequence[c] = pubSequence /\ lastPhase[c] = pubPhase
        /\ RoundOf(lastSequence[c], lastPhase[c]) = generation
        /\ c \in participants \ completions

(***************************************************************************)
(* The lock-free receive (simulith_shared_barrier_receive, 236-251) never  *)
(* mixes two publications: what it copied is the payload of the generation *)
(* it saw, although the payload is written and read in several steps.      *)
(***************************************************************************)
NoTornRead ==
    \A c \in Clients : cpc[c] = "validate" =>
        RoundOf(gotSequence[c], gotPhase[c]) = lastGeneration[c]

(***************************************************************************)
(* The order check of simulith_client_receive_phase (357-380) never turns  *)
(* away a phase the server is waiting for: the server would wait forever,  *)
(* for nothing publishes a phase twice.                                    *)
(***************************************************************************)
NoLivePhaseRejected ==
    \A c \in Clients :
        (cpc[c] = "validate" /\ gotPhase[c] \in PhaseMask[c]) => ~(Stale(c) \/ Gap(c))

(***************************************************************************)
(* Refinement.  The generation counter is the round; a client is busy from *)
(* the moment it accepts a phase until the barrier accepts its completion. *)
(***************************************************************************)
TakesPart(c) == generation > 0 /\ ((generation - 1) % 3) + 1 \in PhaseMask[c]

WorkOf(c) ==
    IF ~TakesPart(c) THEN "idle"
    ELSE IF spc \in {"pub_phase", "pub_generation"} \/ c \in completions THEN "done"
    ELSE IF lastSequence[c] = NoSequence \/
            RoundOf(lastSequence[c], lastPhase[c]) # generation THEN "idle"
    ELSE IF Busy(c) THEN "busy" ELSE "gone"

Sync == INSTANCE TickSync WITH round   <- generation,
                               work    <- [c \in Clients |-> WorkOf(c)],
                               stopped <- stopping

\* Every step of the protocol is a step of the abstract barrier or a stutter:
\* no round opens before everybody it needs has finished the one before.
ImplementsTickSync == Sync!Init /\ [][Sync!Next]_(Sync!vars)

(***************************************************************************)
(* A session of a fixed duration in which nobody fails runs every tick to  *)
(* its end and then releases every client.                                 *)
(***************************************************************************)
RunCompletes == <>(Ended /\ sequence = Duration)

(***************************************************************************)
(* When the server's loop has ended every client's loop ends, and a client *)
(* asked to stop leaves its loop while the server goes on: no client stays *)
(* asleep on its condition variable, whenever the stop or interrupt came.  *)
(***************************************************************************)
StopReleases ==
    /\ (spc \in {"stop", "done"}) ~> Ended
    /\ \A c \in Clients : interrupted[c] ~> (cpc[c] \in {"exited", "failed"})

(***************************************************************************)
(* A pause that arrives in the middle of a tick does not strand it: the    *)
(* tick under way still reaches its end, because commands are polled only  *)
(* between waits and the wait loop does not look at paused.  Only a client *)
(* that has left can hold it.                                              *)
(***************************************************************************)
PauseNeverStrandsTick ==
    (spc = "publish") ~>
        (spc \in {"poll", "stop"} \/ \E c \in Clients : cpc[c] \in {"exited", "failed"})

=============================================================================
