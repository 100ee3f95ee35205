----------------------------- MODULE ClosedLoop -----------------------------
(***************************************************************************)
(* The loop through the dynamics simulator 42: the Director's thread       *)
(* (simulith_director.c, simulith_director_main.c) takes a state from 42   *)
(* in PREPARE, has the components queue actuator commands in ACTUATE       *)
(* (simulith_42_command_api.c), sends them as one batch, waits for 42's    *)
(* acknowledgement (simulith_42_socket_client.c) and hands the tick to the *)
(* control trace and its writer thread (simulith_control_trace.c).         *)
(*                                                                         *)
(* 42 is an external program, modelled from how the client uses it: it     *)
(* publishes a state, waits for that step's commands, applies them,        *)
(* acknowledges and computes the next state.                               *)
(***************************************************************************)
EXTENDS Integers, Sequences, FiniteSets, SequencesExt

CONSTANTS Modes,       \* FORTYTWO_IPC_MODE: of "shared", "binary", "text"
          Components,  \* how many components have an actuate callback
          Emits,       \* the numbers of commands one of them may emit
          QueueSize,   \* SIMULITH_42_CMD_QUEUE_SIZE
          TraceSize,   \* TRACE_QUEUE_CAPACITY
          Ticks,       \* bound: the ticks of the session
          LinkFaults,  \* 42 may stop, be slow or refuse a batch
          OtherFaults  \* strays, unsupported commands, failed injections and writes

ASSUME LoopAssumption ==
    /\ Modes \subseteq {"shared", "binary", "text"}
    /\ {Components, QueueSize, TraceSize, Ticks} \subseteq Nat /\ TraceSize > 0
    /\ Emits \subseteq Nat /\ LinkFaults \in BOOLEAN /\ OtherFaults \in BOOLEAN

VARIABLES mode,
          pc, tick, at, ok,  \* Director: place, tick, component, phase_status
          context,           \* the state it holds: its step, 0 for none
          queue, batch,      \* g_command_queue; the commands of process_42_commands
          seq, connected,    \* g_client.shared_seq and g_client.connected
          shm,               \* shire_ipc_shared_t
          toDir, to42,       \* the two directions of the socket
          sim,               \* 42: its step, where it is in it, what it holds
          trace,             \* the queue, stop, error, opened, timed of the trace
          wpc, local,        \* the writer thread and the record it holds
          asleep,            \* the threads in a condition wait of the trace
          disk, file,        \* the records written; the name of the file
          emitted, applied, committed \* history: see below

director == <<pc, tick, at, ok, context, batch>>
link     == <<seq, connected, shm, toDir, to42>>
tracing  == <<trace, wpc, local, asleep, disk, file>>
history  == <<emitted, applied, committed>>
vars     == <<mode, director, queue, link, sim, tracing, history>>

Steps == 1..(Ticks + 1)

(***************************************************************************)
(* History, read by no action: the commands the components meant to emit   *)
(* in each tick's ACTUATE, what 42 applied in each of its steps, and the   *)
(* last tick whose batch the Director saw acknowledged.                    *)
(***************************************************************************)
Init ==
    /\ mode \in Modes
    /\ pc = "connect" /\ tick = 0 /\ at = 0 /\ ok = TRUE /\ context = 0
    /\ queue = <<>> /\ batch = <<>>
    /\ seq = 1 /\ connected = FALSE
    /\ shm = [stateSeq |-> 0, state |-> 0, commandSeq |-> 0, commands |-> <<>>,
              ackSeq |-> 0, status |-> 0]
    /\ toDir = <<>> /\ to42 = <<>>
    /\ sim = [step |-> 1, at |-> "compute", held |-> <<>>, status |-> 0]
    /\ trace = [queue |-> <<>>, stop |-> FALSE, error |-> FALSE,
                opened |-> FALSE, timed |-> FALSE]
    /\ wpc = "ended" /\ local = <<>> /\ asleep = {} /\ disk = <<>> /\ file = "partial"
    /\ emitted = [k \in Steps |-> <<>>] /\ applied = [k \in Steps |-> <<>>] /\ committed = 0

-----------------------------------------------------------------------------
(***************************************************************************)
(* main: initialize_42 connects, after some attempts, or gives up, and     *)
(* then there is no session; the trace is opened if it has a directory,    *)
(* and a SIMULITH_DURATION tells it which tick is the last.                *)
(***************************************************************************)
\* The shared file is locked by a live 42, not left behind by an earlier one.
LiveOwner == mode = "shared" /\ sim.at # "gone"
Listening == mode # "shared" /\ sim.at # "gone"

Connect ==
    /\ pc = "connect"
    /\ \/ (LiveOwner \/ Listening) /\ connected' = TRUE /\ pc' = "open"
       \/ LinkFaults /\ pc' = "done" /\ UNCHANGED connected
    /\ UNCHANGED <<mode, tick, at, ok, context, batch, queue, seq, shm, toDir, to42, sim,
                   tracing, history>>

OpenTrace ==
    /\ pc = "open"
    /\ \/ \E opened, timed \in BOOLEAN :
             /\ trace' = [trace EXCEPT !.opened = opened, !.timed = timed]
             /\ wpc' = (IF opened THEN "look" ELSE "ended") /\ pc' = "idle"
       \/ OtherFaults /\ pc' = "done" /\ UNCHANGED <<trace, wpc>>
    /\ UNCHANGED <<mode, tick, at, ok, context, batch, queue, link, sim, local, asleep, disk,
                   file, history>>

\* Fault: the loop goes on after a callback that returned an error.
FailQuietly == pc' = "idle"

\* A callback that returns an error ends the phased loop; main goes on to the
\* terminal metrics.
Fail == pc' = "terminal"

GoTo(p) == pc' = p

\* A component that queues a command outside ACTUATE breaks the lifecycle.
Stray == \/ UNCHANGED queue
         \/ /\ OtherFaults /\ Len(queue) < QueueSize
            /\ queue' = Append(queue, <<tick, "stray">>)

\* require_empty_command_queue, then the next place.
RequireEmpty(p) == IF queue = <<>> THEN GoTo(p) ELSE Fail

\* Between two ticks the server opens the next.
BeginTick ==
    /\ pc = "idle" /\ tick < Ticks
    /\ tick' = tick + 1 /\ RequireEmpty("state")
    /\ UNCHANGED <<mode, at, ok, context, batch, queue, link, sim, tracing, history>>

\* Between two phases the loop of the client ends when it is told to stop.
Stop == /\ pc \in {"idle", "execute", "quiesced"} /\ GoTo("terminal")
        /\ UNCHANGED <<mode, tick, at, ok, context, batch, queue, link, sim, tracing, history>>

-----------------------------------------------------------------------------
(* The client of 42. *)

\* Fault: a wait that times out is taken for a success.
WaitEndsAnyway(word) == word = seq \/ (word < seq /\ LinkFaults)

\* A word of the shared memory that has not reached the expected number may
\* time out (42 is slow, or gone); one that has passed it is an error.
WaitEnds(word) == word = seq
WaitFails(word) == word > seq \/ (word < seq /\ LinkFaults)

\* recv on a socket whose peer has gone.
HungUp == sim.at = "gone" /\ toDir = <<>>

StateArrives == IF mode = "shared" THEN WaitEnds(shm.stateSeq)
                ELSE toDir # <<>> /\ Head(toDir).kind = "state"

StateFails == IF mode = "shared" THEN WaitFails(shm.stateSeq)
              ELSE HungUp \/ (toDir # <<>> /\ Head(toDir).kind # "state")

\* receive_binary_state, or a text frame, which is acknowledged at once.
TakeState ==
    /\ context' = IF mode = "shared" THEN shm.state ELSE Head(toDir).step
    /\ toDir' = IF mode = "shared" THEN toDir ELSE Tail(toDir)
    /\ to42' = IF mode = "text" THEN Append(to42, [kind |-> "ack", batch |-> <<>>]) ELSE to42
    /\ UNCHANGED <<seq, connected, shm>>

\* A text frame is acknowledged before it is parsed.
Unparsed == mode = "text" /\ OtherFaults

LoseLink == connected' = FALSE /\ UNCHANGED <<seq, shm, toDir, to42>>

\* populate_42_context in PREPARE; on_tick runs in the next step.
FetchState ==
    /\ pc = "state"
    /\ \/ ~connected /\ Fail /\ UNCHANGED <<context, link>>
       \/ connected /\ StateArrives /\ TakeState /\ GoTo("on_tick")
       \/ connected /\ StateFails /\ LoseLink /\ Fail /\ UNCHANGED context
       \/ connected /\ Unparsed /\ StateArrives /\ TakeState /\ Fail
    /\ ok' = TRUE
    /\ UNCHANGED <<mode, tick, at, batch, queue, sim, tracing, history>>

\* The components' on_tick, and the second check of PREPARE.
OnTick == /\ pc = "on_tick" /\ Stray /\ GoTo("prepared")
          /\ UNCHANGED <<mode, tick, at, ok, context, batch, link, sim, tracing, history>>

Prepared == /\ pc = "prepared" /\ RequireEmpty("execute")
            /\ UNCHANGED <<mode, tick, at, ok, context, batch, queue, link, sim, tracing, history>>

\* EXECUTE: the workers' services; the server then opens COMMIT.
Execute == /\ pc = "execute" /\ Stray /\ GoTo("quiesced")
           /\ UNCHANGED <<mode, tick, at, ok, context, batch, link, sim, tracing, history>>

Quiesced == /\ pc = "quiesced" /\ RequireEmpty("power")
            /\ UNCHANGED <<mode, tick, at, ok, context, batch, queue, link, sim, tracing, history>>

\* The backdoor datagram and the power transitions.
Power == /\ pc = "power" /\ Stray /\ GoTo("powered")
         /\ UNCHANGED <<mode, tick, at, ok, context, batch, link, sim, tracing, history>>

Powered == /\ pc = "powered" /\ RequireEmpty("actuate") /\ at' = 1
           /\ UNCHANGED <<mode, tick, ok, context, batch, queue, link, sim, tracing, history>>

-----------------------------------------------------------------------------
(* ACTUATE and the batch. *)

\* The n commands component `at` means to emit.
Emission(n) == [k \in 1..n |-> <<tick, at, k>>]

\* Fault: the component ignores the result of enqueue_command.
EnqueueQuietly(commands) ==
    LET room == QueueSize - Len(queue)
    IN  /\ queue' = IF Len(commands) <= room THEN queue \o commands
                    ELSE queue \o SubSeq(commands, 1, room)
        /\ UNCHANGED ok

\* enqueue_command refuses what does not fit, and the component reports it.
Enqueue(commands) ==
    LET room == QueueSize - Len(queue)
    IN  IF Len(commands) <= room THEN queue' = queue \o commands /\ UNCHANGED ok
        ELSE queue' = queue \o SubSeq(commands, 1, room) /\ ok' = FALSE

Actuate ==
    /\ pc = "actuate" /\ at <= Components
    /\ \E n \in Emits :
          /\ Enqueue(Emission(n))
          /\ emitted' = [emitted EXCEPT ![tick] = @ \o Emission(n)]
    /\ at' = at + 1
    /\ UNCHANGED <<mode, pc, tick, context, batch, link, sim, tracing, applied, committed>>

\* component_phase_succeeded; the queue is emptied into the batch.
Collect ==
    /\ pc = "actuate" /\ at > Components
    /\ IF ok THEN batch' = queue /\ queue' = <<>> /\ GoTo("send")
       ELSE Fail /\ UNCHANGED <<batch, queue>>
    /\ UNCHANGED <<mode, tick, at, ok, context, link, sim, tracing, history>>

(***************************************************************************)
(* simulith_42_send_command_batch and ..._empty_commands.  In shared       *)
(* memory the batch is copied before its number is stored, in two steps.   *)
(***************************************************************************)
CopyBatch ==
    /\ shm' = [shm EXCEPT !.commands = batch] /\ UNCHANGED <<seq, connected, toDir, to42>>

WriteBatch ==
    /\ to42' = Append(to42, [kind |-> "commands", batch |-> batch])
    /\ UNCHANGED <<seq, connected, shm, toDir>>

SendBatch ==
    /\ pc = "send"
    /\ \/ ~connected /\ Fail /\ UNCHANGED link
       \/ connected /\ mode = "shared" /\ CopyBatch /\ GoTo("store")
       \/ connected /\ mode # "shared" /\ sim.at # "gone" /\ WriteBatch /\ GoTo("ack")
       \/ connected /\ mode # "shared" /\ sim.at = "gone" /\ LoseLink /\ Fail
       \/ OtherFaults /\ batch # <<>> /\ Fail /\ UNCHANGED link \* unsupported type
    /\ UNCHANGED <<mode, tick, at, ok, context, batch, queue, sim, tracing, history>>

StoreSequence ==
    /\ pc = "store" /\ GoTo("ack")
    /\ shm' = [shm EXCEPT !.commandSeq = seq]
    /\ UNCHANGED <<mode, tick, at, ok, context, batch, queue, seq, connected, toDir, to42,
                   sim, tracing, history>>

AckArrives == IF mode = "shared" THEN WaitEnds(shm.ackSeq) /\ shm.status = 0
              ELSE toDir # <<>> /\ Head(toDir) = [kind |-> "ack", step |-> 0]

AckFails == IF mode = "shared" THEN WaitFails(shm.ackSeq)
                                    \/ (shm.ackSeq = seq /\ shm.status # 0)
            ELSE HungUp \/ (toDir # <<>> /\ Head(toDir) # [kind |-> "ack", step |-> 0])

\* Fault: the number stays.
TakeAckStill ==
    /\ toDir' = IF mode = "shared" THEN toDir ELSE Tail(toDir)
    /\ UNCHANGED <<seq, connected, shm, to42>>

\* receive_binary_ack: the number the client expects next goes up only here.
TakeAck ==
    /\ seq' = IF mode = "shared" THEN seq + 1 ELSE seq
    /\ toDir' = IF mode = "shared" THEN toDir ELSE Tail(toDir)
    /\ UNCHANGED <<connected, shm, to42>>

AwaitAck ==
    /\ pc = "ack"
    /\ \/ AckArrives /\ TakeAck /\ committed' = tick /\ GoTo("inject")
       \/ AckFails /\ LoseLink /\ Fail /\ UNCHANGED committed
    /\ UNCHANGED <<mode, tick, at, ok, context, batch, queue, sim, tracing, emitted, applied>>

\* director_inject_scenario_commands: a packet that cannot be sent is an error.
Inject ==
    /\ pc = "inject"
    /\ GoTo("trace") \/ (OtherFaults /\ Fail)
    /\ UNCHANGED <<mode, tick, at, ok, context, batch, queue, link, sim, tracing, history>>

-----------------------------------------------------------------------------
(* The control trace: the Director's side. *)

Record == [tick |-> tick, state |-> context, batch |-> batch]

\* Where COMMIT goes when the record is queued.
AfterTrace == IF trace.timed /\ tick = Ticks THEN GoTo("finish") ELSE GoTo("idle")

\* Fault: the queue is never full.
FullNever == FALSE

Full == Len(trace.queue) = TraceSize

\* simulith_control_trace_tick; without a trace directory it does nothing.
TraceTick ==
    /\ pc = "trace" /\ "director" \notin asleep
    /\ \/ /\ ~trace.opened /\ AfterTrace /\ UNCHANGED <<trace, asleep>>
       \/ /\ trace.opened /\ trace.error /\ Fail /\ UNCHANGED <<trace, asleep>>
       \/ /\ trace.opened /\ ~trace.error /\ ~Full /\ AfterTrace
          /\ trace' = [trace EXCEPT !.queue = Append(@, Record)]
          /\ asleep' = asleep \ {"writer"}
       \/ /\ trace.opened /\ ~trace.error /\ Full
          /\ asleep' = asleep \cup {"director"} /\ UNCHANGED <<pc, trace>>
    /\ UNCHANGED <<mode, tick, at, ok, context, batch, queue, link, sim, wpc, local, disk,
                   file, history>>

\* simulith_control_trace_finish and ..._abort: stop the writer and join it.
StopWriter(from, join, unopened) ==
    /\ pc = from
    /\ IF trace.opened
       THEN /\ trace' = [trace EXCEPT !.stop = TRUE] /\ asleep' = asleep \ {"writer"}
            /\ GoTo(join)
       ELSE GoTo(unopened) /\ UNCHANGED <<trace, asleep>>
    /\ UNCHANGED <<mode, tick, at, ok, context, batch, queue, link, sim, wpc, local, disk,
                   file, history>>

StartFinish == StopWriter("finish", "join", "idle")
StartAbort == StopWriter("abort", "abort_join", "done")

\* What is flushed and closed without an error takes its final name.
Finish ==
    /\ pc = "join" /\ wpc = "ended"
    /\ trace' = [trace EXCEPT !.opened = FALSE]
    /\ \/ ~trace.error /\ file' = "complete" /\ GoTo("idle")
       \/ (trace.error \/ OtherFaults) /\ Fail /\ UNCHANGED file
    /\ UNCHANGED <<mode, tick, at, ok, context, batch, queue, link, sim, wpc, local, asleep,
                   disk, history>>

Abort ==
    /\ pc = "abort_join" /\ wpc = "ended" /\ GoTo("done")
    /\ trace' = [trace EXCEPT !.opened = FALSE]
    /\ UNCHANGED <<mode, tick, at, ok, context, batch, queue, link, sim, wpc, local, asleep,
                   disk, file, history>>

\* director_write_terminal_metrics asks 42 for one more state.
Terminal ==
    /\ pc = "terminal" /\ GoTo("abort")
    /\ \/ ~connected /\ UNCHANGED <<context, link>>
       \/ connected /\ StateArrives /\ TakeState
       \/ connected /\ StateFails /\ LoseLink /\ UNCHANGED context
    /\ UNCHANGED <<mode, tick, at, ok, batch, queue, sim, tracing, history>>

-----------------------------------------------------------------------------
(* The writer thread. *)

\* Fault: it ends when it is told to stop.
DrainedAtOnce == trace.stop

\* It ends when it is told to stop and the queue is drained.
Drained == trace.stop /\ trace.queue = <<>>

WriterLooks ==
    /\ wpc = "look" /\ "writer" \notin asleep
    /\ \/ /\ Drained /\ wpc' = "ended" /\ UNCHANGED <<trace, local, asleep>>
       \/ /\ ~Drained /\ trace.queue = <<>> /\ asleep' = asleep \cup {"writer"}
          /\ UNCHANGED <<trace, wpc, local>>
       \/ /\ ~Drained /\ trace.queue # <<>>
          /\ local' = <<Head(trace.queue)>> /\ trace' = [trace EXCEPT !.queue = Tail(@)]
          /\ wpc' = "write" /\ asleep' = asleep \ {"director"}
    /\ UNCHANGED <<mode, director, queue, link, sim, disk, file, history>>

WriterWrites ==
    /\ wpc = "write"
    /\ \/ disk' = disk \o local /\ local' = <<>> /\ wpc' = "look"
       \/ OtherFaults /\ wpc' = "failed" /\ UNCHANGED <<disk, local>>
    /\ UNCHANGED <<mode, director, queue, link, sim, trace, asleep, file, history>>

\* Fault: nobody is told.
WriterFailsQuietly ==
    /\ wpc = "failed" /\ wpc' = "ended"
    /\ trace' = [trace EXCEPT !.error = TRUE] /\ UNCHANGED asleep
    /\ UNCHANGED <<mode, director, queue, link, sim, local, disk, file, history>>

\* A write that failed: everybody who waits for room is told, and the thread ends.
WriterFails ==
    /\ wpc = "failed" /\ wpc' = "ended"
    /\ trace' = [trace EXCEPT !.error = TRUE] /\ asleep' = asleep \ {"director"}
    /\ UNCHANGED <<mode, director, queue, link, sim, local, disk, file, history>>

SpuriousWake ==
    /\ \E t \in asleep : asleep' = asleep \ {t}
    /\ UNCHANGED <<mode, director, queue, link, sim, trace, wpc, local, disk, file, history>>

-----------------------------------------------------------------------------
(* 42, external. *)

Compute ==
    /\ sim.at = "compute"
    /\ IF mode = "shared"
       THEN /\ shm' = [shm EXCEPT !.state = sim.step] /\ sim' = [sim EXCEPT !.at = "publish"]
            /\ UNCHANGED toDir
       ELSE /\ toDir' = Append(toDir, [kind |-> "state", step |-> sim.step])
            /\ sim' = [sim EXCEPT !.at = IF mode = "text" THEN "state_ack" ELSE "commands"]
            /\ UNCHANGED shm
    /\ UNCHANGED <<mode, director, queue, seq, connected, to42, tracing, history>>

Publish ==
    /\ sim.at = "publish"
    /\ shm' = [shm EXCEPT !.stateSeq = sim.step] /\ sim' = [sim EXCEPT !.at = "commands"]
    /\ UNCHANGED <<mode, director, queue, seq, connected, toDir, to42, tracing, history>>

TakeStateAck ==
    /\ sim.at = "state_ack" /\ to42 # <<>> /\ Head(to42).kind = "ack"
    /\ to42' = Tail(to42) /\ sim' = [sim EXCEPT !.at = "commands"]
    /\ UNCHANGED <<mode, director, queue, seq, connected, shm, toDir, tracing, history>>

TakeCommands ==
    /\ sim.at = "commands"
    /\ IF mode = "shared"
       THEN /\ shm.commandSeq = sim.step /\ UNCHANGED to42
            /\ sim' = [sim EXCEPT !.at = "apply", !.held = shm.commands]
       ELSE /\ to42 # <<>> /\ Head(to42).kind = "commands" /\ to42' = Tail(to42)
            /\ sim' = [sim EXCEPT !.at = "apply", !.held = Head(to42).batch]
    /\ UNCHANGED <<mode, director, queue, seq, connected, shm, toDir, tracing, history>>

\* 42 takes the whole batch or refuses it.
Apply ==
    /\ sim.at = "apply"
    /\ \/ /\ sim' = [sim EXCEPT !.at = "answer", !.status = 0]
          /\ applied' = [applied EXCEPT ![sim.step] = Append(@, sim.held)]
       \/ /\ LinkFaults /\ sim' = [sim EXCEPT !.at = "answer", !.status = 1]
          /\ UNCHANGED applied
    /\ UNCHANGED <<mode, director, queue, link, tracing, emitted, committed>>

Answer ==
    /\ sim.at = "answer"
    /\ sim' = [sim EXCEPT !.at = "compute", !.step = @ + 1, !.held = <<>>]
    /\ IF mode = "shared"
       THEN shm' = [shm EXCEPT !.status = sim.status, !.ackSeq = sim.step] /\ UNCHANGED toDir
       ELSE toDir' = Append(toDir, [kind |-> "ack", step |-> sim.status]) /\ UNCHANGED shm
    /\ UNCHANGED <<mode, director, queue, seq, connected, to42, tracing, history>>

Vanish ==
    /\ LinkFaults /\ sim.at # "gone" /\ sim' = [sim EXCEPT !.at = "gone"]
    /\ UNCHANGED <<mode, director, queue, link, tracing, history>>

-----------------------------------------------------------------------------
Callback == \/ Connect \/ OpenTrace \/ FetchState \/ OnTick \/ Prepared \/ Execute \/ Quiesced \/ Power \/ Powered
            \/ Actuate \/ Collect \/ SendBatch \/ StoreSequence \/ AwaitAck \/ Inject
            \/ TraceTick \/ StartFinish \/ Finish \/ Terminal \/ StartAbort \/ Abort
Writer == WriterLooks \/ WriterWrites \/ WriterFails
FortyTwo == Compute \/ Publish \/ TakeStateAck \/ TakeCommands \/ Apply \/ Answer

Next == BeginTick \/ Stop \/ Callback \/ Writer \/ SpuriousWake \/ FortyTwo \/ Vanish

(***************************************************************************)
(* The Director's thread inside a callback or on its way out, the writer   *)
(* and a 42 that is there go on.  Nobody has to open a tick or to stop.    *)
(***************************************************************************)
Fairness == WF_vars(Callback) /\ WF_vars(Writer) /\ WF_vars(FortyTwo)

Spec == Init /\ [][Next]_vars /\ Fairness

-----------------------------------------------------------------------------
Working == {"on_tick", "prepared", "execute", "quiesced", "power", "powered", "actuate",
            "send", "store"}

\* The types; both queues stay within their capacity, and the socket never
\* holds more than an acknowledgement and a state, or an Ack and a batch.
TypeOK ==
    /\ mode \in Modes /\ tick \in 0..Ticks /\ at \in 0..(Components + 1)
    /\ pc \in Working \cup {"connect", "open", "idle", "state", "ack", "inject", "trace", "finish", "join",
                            "terminal", "abort", "abort_join", "done"}
    /\ ok \in BOOLEAN /\ connected \in BOOLEAN /\ context \in 0..(Ticks + 1)
    /\ Len(queue) <= QueueSize /\ Len(trace.queue) <= TraceSize
    /\ seq \in Steps /\ Len(toDir) <= 2 /\ Len(to42) <= 2
    /\ sim.step \in Steps /\ asleep \subseteq {"director", "writer"}

(***************************************************************************)
(* What 42 applies in its k-th step is all that the components meant to    *)
(* emit in tick k's ACTUATE, in order, and once: never part of a batch     *)
(* that did not fit into the queue, a command queued outside ACTUATE, or   *)
(* commands of another tick.                                               *)
(***************************************************************************)
AppliedWhole ==
    \A k \in Steps : applied[k] # <<>> => k <= tick /\ applied[k] = <<emitted[k]>>

(***************************************************************************)
(* A batch the Director took as acknowledged has been applied, in the step *)
(* whose state it had been computed from (receive_binary_ack 271-295).     *)
(***************************************************************************)
CommitMeansApplied ==
    /\ \A k \in 1..committed : applied[k] = <<emitted[k]>>
    /\ pc \in {"inject", "trace", "finish", "join"} => committed = tick

(***************************************************************************)
(* The closed loop does not slip: from the state to the batch the Director *)
(* works on the state of the step 42 is in, which is the tick's, and 42    *)
(* waits; and the terminal state is that of 42's present step (1590-1595). *)
(***************************************************************************)
InStep ==
    /\ pc \in Working => /\ context = tick /\ sim.step = tick
                         /\ sim.at \in {"state_ack", "commands", "gone"}
    /\ pc \in {"abort", "abort_join"} /\ connected => context = sim.step

(***************************************************************************)
(* The control trace has one record for each tick, in order, with the      *)
(* state it was computed from and the batch 42 applied; no committed tick  *)
(* is missing while the session goes on, and a trace that gets its final   *)
(* name holds all of them (simulith_control_trace.c 127-252).              *)
(***************************************************************************)
TraceFaithful ==
    LET all == disk \o local \o trace.queue
    IN  /\ \A i \in 1..Len(all) : all[i] = [tick |-> i, state |-> i, batch |-> emitted[i]]
        /\ pc = "idle" /\ trace.opened /\ wpc \in {"look", "write"} => Len(all) = committed
        /\ file = "complete" => Len(disk) = committed

(***************************************************************************)
(* Over shared memory a callback returns and the shutdown ends, whatever   *)
(* 42, the disk and the writer do: the Director never waits for a 42 that  *)
(* has gone, for room that nobody makes or for a writer that has ended.    *)
(***************************************************************************)
CallbackEnds == (mode = "shared" /\ pc # "idle") ~> pc \in {"idle", "done"}

(***************************************************************************)
(* "Fetch it once here after STOP" (simulith_director.c 1593): the         *)
(* terminal metrics take one state of 42 and the Director shuts down.      *)
(***************************************************************************)
TerminalEnds == pc = "terminal" ~> pc = "done"

(***************************************************************************)
(* Refinement.  A tick is opened only over one that is committed, nothing  *)
(* is added to a tick 42 has applied, and 42 applies all of the tick that  *)
(* is open and nothing else: a tick that failed anywhere between its state *)
(* and its acknowledgement is the last (director_prepare_tick to           *)
(* director_commit_tick, simulith_client_run_phased_loop 231-258).         *)
(***************************************************************************)
\* What component a may emit in tick k.
EmissionsOf(k) == {[i \in 1..n |-> <<k, a, i>>] : n \in Emits, a \in 1..Components}

Loop == INSTANCE LoopSync WITH Emissions <- [k \in Steps |-> EmissionsOf(k)]

ImplementsLoopSync == Loop!Init /\ [][Loop!Next]_(Loop!vars)
=============================================================================
