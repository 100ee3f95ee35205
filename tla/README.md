# SHIRE: a verification project for the simulation's tick, its devices, its links and its flight applications

SHIRE runs a spacecraft's flight software against simulated hardware.  Simulith is its
simulation core: a server cuts simulated time into ticks and every tick into three phases,
and every participant (the Director that hosts the component simulators, the flight
software's time hook, observers) works in step with it.  What makes the code hard is that
this lock step is built out of processes, threads, futexes and condition variables, that the
flight software talks to the component simulators through sockets at any time it likes, and
that the physics (the program 42) and the ground are processes of their own at its two ends.

This directory holds TLA+ models of that system, TLC configurations that check them on small
instances, and TLAPS proofs of the properties that matter most for every size.  Source
references are to the repository (`simulith/src/...` stands for `src/simulith/src/...`).

    tlasany M.tla                       parse a module
    tlc -workers 2 -config X.cfg M      one run (PROJECT.json names module and cfg)
    tlapm M_proofs.tla                  check the proofs of a module

## 1. Inventory

### The parts, their state and their operations

| Part | State it keeps | Operations |
|---|---|---|
| Shared-memory tick barrier, `simulith_shared_barrier.c` | generation, the published sequence, time and phase, participant and completion masks, stop flag; a process-shared mutex and one condition variable per slot | create, register, publish, receive (lock-free or locked), complete, wait, interrupt, stop |
| Server loop, `simulith_server.c` | registered clients, current sequence, time and phase, completion mask, paused / step pending / running / stop requested, speed and pacing deadline | handshake, poll commands, run a tick, collect completions, watchdog, pace, stop |
| Client, `simulith_client.c` | last generation seen, last accepted sequence and phase, completion claim, stop flags | handshake, receive a phase, complete it, the phased / EXECUTE / COMMIT loops, request stop |
| Director, `simulith_director.c` | `execute_active`, `threads_exit`, the parked and the active counts, each component's `phase_status` and interrupt eventfd | start and join workers; PREPARE, EXECUTE, COMMIT callbacks; power and backdoor in COMMIT |
| Component workers, `component_worker` | where each thread is | wait for a request, park, serve, report an error, exit |
| Device transactions, `simulith_transport.c`, `*_device.c`, `*_sim.c` service callbacks | next transaction number, receive buffer, the two directions of the socket | flush, request and wait for its acknowledgement, read; receive, echo, execute, answer, acknowledge |
| Electrical power, `eps_sim.c`, `simulith_power.h`, `director_commit_power` | requested, effective and stuck state of each switch, transition queue and overflow; each load's supply, boot deadline and memory | switch requests, faults, CLEAR_FAULTS, RESET, apply the queue, power edges and resets of the loads |
| ADCS simulator, `adcs_sim.c` | mode, target, gains, control deadline, pending zero commands | commands, sampling, control, ACTUATE |
| 42 client, `simulith_42_socket_client.c` | expected sequence number, connection; the shared memory's state, command and acknowledgement words | connect, fetch a state, send a batch, take its acknowledgement, give up |
| Actuator commands and trace, `simulith_42_command_api.c`, `simulith_control_trace.c` | 64-slot queue; bounded trace queue and its writer | enqueue, dequeue, COMMIT's batch; tick, finish, abort |
| Radio simulator, `radio_sim.c`, `radio_link.c` | receive ring and its interrupt, delayed packet queues, mode, GPIO, rail, link settings | ground thread, admission, release, delivery, SPI commands, backdoor, power reset, cleanup |
| Flight applications, `demo_app.c`, `eps_app.c`, `adcs_app.c`, `adcs_tbl.c`, `adcs_time.c`, `radio_app.c` | enabled flag, open interfaces, counters; gains table; GPS time and its file; uplink buffer; downlink frame | software bus packets, one after the other; uplink and downlink service; start of the process |

Command line tools, cFS configuration, ground databases, and the Python that builds and
orchestrates are listed in PROJECT.json with the reason why they are not modelled.

### How they interact

* Server, Director and flight software share the barrier's memory.  The server publishes a
  phase, each participant of it works and completes, the server opens the next one.
* The Director's phase callback is the client's callback: PREPARE fetches the state of the
  dynamics simulator 42 and runs `on_tick`; EXECUTE opens service and acknowledges once
  every parked request is admitted; COMMIT closes service, waits for the callbacks under
  way, applies power and one backdoor datagram, calls `actuate`, sends the commands to 42,
  waits for its acknowledgement and hands the tick to the control trace.
* A worker thread per component blocks in `wait_for_service` on the component's socket and
  shares only `tick_mutex`, `tick_cond` and two counters with the Director.
* A flight driver calls `simulith_transport_request` from a flight task; its request may be
  served in the present EXECUTE or parked for the next one.
* The EPS's service and backdoor queue rail transitions; the Director applies them to the
  loads between quiescence and ACTUATE, so `on_tick`, `service` and `actuate` never see a
  rail change half way.
* 42 and the Director alternate over shared memory (sequence words and futexes) or a socket:
  a state, a batch of commands, an acknowledgement.
* The ground sends UDP datagrams at any time; the radio's ground thread takes them through
  the link into the ring (or a delay queue), the flight application reads the ring over SPI.

### What is hard, and what makes each part correct

* **Lock step.** The server must not publish while a participant works; a lock-free reader
  must not see half of a publication; the client's stale and gap checks must never turn
  away the phase the server waits for; a stop must reach clients asleep or about to sleep.
* **Admission and quiescence.** Requests come in any phase.  The two counters must be exact
  on every path out of a worker's loop; no callback may overlap PREPARE, ACTUATE or
  destruction; no parked request may outlive the acknowledgement of its EXECUTE; an error
  must stop the tick it belongs to.
* **Timeouts.** A driver gives up, the device does not: late acknowledgements, echoes and
  answers meet the next transaction on the same socket.
* **Power.** Requests, faults and resets of one tick share a bounded queue whose order is
  their meaning; a power cycle may begin and end inside one tick.
* **The loop through 42.** A batch is applied whole, once, in the step it was computed from,
  although the bounded queue may overflow, a component may queue outside ACTUATE and 42 may
  be slow, refuse or go; the trace must hold what was applied although its queue is bounded
  and its writer may fail.
* **The radio link.** A thread beside the ticks writes the ring that the flight software
  reads; packets wait out delays that are changed meanwhile; what a reset of the rail, a
  switch by GPIO and a reset of the link clear is not the same.
* **The flight applications.** Counters must tell what happened on every path; the time file
  is truncated before it is written and the process may die in between; uplink frames arrive
  in parts that do not respect their boundaries; a packet that does not fit a downlink frame
  is in hand when the frame goes out, or when the link is lost.

PROJECT.json "hazards" lists these line by line with the properties that watch each of them;
the two that no property watches (the ZeroMQ publication, a process that dies inside the
barrier's mutex) say why.

## 2. The modules

| Module | Contents |
|---|---|
| `TickSync` | what the barrier promises: rounds, work, stop |
| `TickProtocol` | barrier, server loop and client loops, load by load where there is no lock |
| `TickProtocol_proofs`, `TickProtocol_refinement` | invariants; that TickProtocol implements TickSync |
| `DirectorWorkers`, `DirectorWorkers_proofs` | the Director's phases and the workers |
| `DeviceTransport`, `DeviceTransport_proofs` | one device port: driver, transport, service callback |
| `PowerCommit`, `PowerCommit_proofs` | EPS queue, power commit, loads, ADCS zeros |
| `LoopSync` | what the loop with 42 promises: begin, emit, apply, commit |
| `ClosedLoop`, `ClosedLoop_proofs` | states, batches and acknowledgements between Director and 42; command queue; control trace; that it implements LoopSync |
| `RadioLink`, `RadioLink_proofs` | the radio simulator between the ground's socket and the SPI bus |
| `DeviceApp`, `AdcsApp`, `RadioApp`, composed in `FlightApps`; `FlightApps_proofs` | the four flight applications |
| `MC...` | the constants of the runs |

Definitions under a comment "Fault:" are slips of the code that a property must
catch.  No specification uses them; PROJECT.json "mutants" pairs each with the definition
it would replace and the property that then fails.

### TickProtocol

`spc` is where `simulith_server_run` is, `cpc[c]` where client c's loop is.  What the code
does under the barrier's mutex is one step.  A publication is not: a client that takes part
in every phase spins on the generation and then reads sequence and phase without the mutex,
so the server's stores (`PublishSequence`, `PublishPhase`, `PublishGeneration`,
`PublishSignal`, the mutex held throughout) and the reader's loads (`FastReceive`,
`CopySequence`, `CopyPhase`) are single steps.  The atomics are acquire/release and
sequentially consistent where they order anything, so interleaving is a sound model.
Condition variables are the state "asleep" with `Wake` and `SpuriousWake`; an interrupt or
stop sets its flag first and signals under the mutex afterwards, in two steps.  A wait with
a timeout is a plain read of the completion mask.  The watchdog only logs and is not a step.

A handshake is accepted, abandoned, or rejected (malformed, known already, another transport,
no slot): a rejection changes nothing in the server and fails the client (`Rejected`).
`time_ns` is always `sequence * tick_interval_ns` and is not a variable.  ZeroMQ, pacing,
the speed command and the telemetry are not in this module.

Abstraction: `Sync == INSTANCE TickSync WITH round <- generation, ...`.  A client is busy
from the moment it accepts a phase until the barrier accepts its completion.  `Open` demands
that everybody the current round needs is done; a stop may overtake an opening under way.

### DirectorWorkers

`dpc` is the Director's thread between and inside its callbacks, `wpc[w]` each worker.  A
section under `tick_mutex` is a step, cut where it waits on `tick_cond`; `asleep` is the set
of threads waiting there.  Errors are `failed` (phase_status) and the end of a worker is
remembered as the cause of its death (`dead_wait`, `dead_service`).  `on_tick` and `actuate`
are one step each, because no other thread reads what they write.  42 and the command queue
are reduced to the fact that their call may fail; ClosedLoop opens that call.

### DeviceTransport

One port.  `cpc` follows a driver's `CommandDevice` and `Request...` calls, `dpc` the service
callback.  Each direction of the socket is a queue.  A frame carries its kind, the request
it belongs to and that request's command: enough to tell what the drivers can tell (framing,
length, comparison of the echo) from what they cannot (whose answer it is).  `Parses` states
which frames a driver would take for its answer: DEMO's housekeeping cannot be told from an
echo.  `late` remembers which requests were still at the device when the driver flushed.

### PowerCommit

A tick is EXECUTE, one backdoor datagram at most, the transitions, ACTUATE.  Loops over
switches (CLEAR_FAULTS, RESET) and over transitions take one step per iteration, with the
early returns the code has: RESET gives up when a reset transition does not fit, but goes on
when one of its `queue_switch` calls does not.  Time is counted in ticks.  `level`, `rises`,
`touched` and `onAt` are history, written beside the accepted commands and read by no
action: they let the properties say "as often as the rail was driven on" and "since then".
Energy, solar input, load scales and the housekeeping frame are data no decision here reads.
A command 42 does not take fails ACTUATE and the tick (`ActuateFails`).  The first call of
`director_commit_power`, which loads the components and checks that every rail has its
consumer, is over before the first tick and is not an action.

### ClosedLoop

`pc` is the Director's thread from the connection through every check and call of a tick's
callbacks to the terminal metrics and the trace's abort; `wpc` is the trace's writer.  `shm`
holds the words of the shared memory: a batch is copied (`CopyBatch`) before its number is
stored (`StoreSequence`), a state before its number (`Compute`, `Publish`), so a reader that
looked at the wrong word would see half.  `toDir` and `to42` are the socket's directions in
the binary and text modes; a text state is acknowledged before it is parsed.  `sim` is 42,
external: modelled from what the client relies on (publish, wait for that step's commands,
apply or refuse the whole batch, acknowledge) and free to be slow, to refuse and to go.  A
timed wait may fail while its word is behind and fails when it is past (`WaitFails`).
Components emit 0 or 2 commands each into a bounded queue, and may queue at the wrong time
(`Stray`).  The trace's mutex and condition variables are treated as in DirectorWorkers.

### RadioLink

Two threads: the ground thread (`Select`, `Receive`) and the thread of the phases, which is
the Director's in `on_tick` and COMMIT and the worker's in between.  Each section under
`buffer_mutex` is a step; between `select` and `recvfrom` no lock is held and the socket may
be emptied.  The ring is modelled cell by cell with head, tail and wrap-around, and `pending`
is the queue of bytes it ought to be.  Packets carry when they may cross and under which
epoch (resets of the rail, switches by GPIO) they were sent.  A radio on a rail learns the
time of a tick when the Director asks for its power (`Snapshot`), before `on_tick` runs;
`on_tick` then releases the uplink in one section, the downlink packet by packet, and brings
the interrupt line up to date in another.  A send to the ground may be refused and the packet
is gone; an error of `select` ends the ground thread for good.  Loss and geometry are choices;
the arithmetic of link budgets is data.

### FlightApps

Each application is one task that handles a packet to the end, so a behaviour is that of one
application, `app`; the software bus only orders packets.  `DeviceApp` holds what they share
(enable, disable, counters, polling); `AdcsApp` the gains table (loaded, managed, snapshot,
device) and the GPS time with its fallback file, whose truncation and write are separate
steps; `RadioApp` the uplink, cell by cell through the buffer that is cut into frames, and
the downlink, packet by packet into frames.  `FlightApps` adds the death of the process at
any step and its restart; device, file and ground survive it.  The radio takes any of its modes,
SLEEP included, and forgets it when it is off; a downlink frame that could not be finished has
lost its free space to the idle packet.  What a save writes is cFE's clock, which the GPS
sets, or slews, or does not; the elapsed MET that a resubmission adds is left out, so that
only the start value of a boot is recorded.  An exchange with a device is
what DeviceTransport has shown: success means executed, except for `ADCS_CommandDevice`.

## 3. The runs

| Run | Instance | What it shows |
|---|---|---|
| `TickProtocol_run` | three clients, one of each kind, 3 ticks, no faults | whole lock-free reads, no live phase turned away, the session completes |
| `TickProtocol_control` | two clients, 2 ticks, starting paused, every command at every poll, Director may fail or be stopped, external stop | lock step, refinement of TickSync under control; a pause strands no tick; stops and interrupts release everybody |
| `DirectorWorkers_phases` | three components, each may fail to wait, serve, prepare or actuate | quiescence, admission before the acknowledgement, service errors withheld; EXECUTE and COMMIT end and cleanup joins everybody |
| `DirectorWorkers_waiterror` | one component whose wait may fail | **violation**, finding 1 |
| `DeviceTransport_port` | DEMO's or ADCS's driver, 3 transactions, timeouts, rejections, failed sends, buffer of 4 frames | a success is an execution of that request, responses precede the acknowledgement, no stale and no foreign answer, a waiting driver is answered |
| `DeviceTransport_setmode` | ADCS driver, SET_MODE | **violation**, finding 2 |
| `PowerCommit_rails` | two rails, one load each, queue of 2, 3 requests a tick, boot of 2 ticks, 5 ticks | rails and loads as commanded, OFF-ON is a power cycle, untouched loads untouched, nothing of a command survives a power cycle or precedes a boot, an inactive ADCS leaves zeros, an overflowed queue is not applied |
| `ClosedLoop_session` | three modes of the link, two components, queue of 3, trace of 1, 3 ticks, every fault | whole batches in their own step, an acknowledged batch is an applied one, the loop does not slip and refines LoopSync, stops between phases included, the trace is complete; over shared memory callbacks and shutdown end |
| `ClosedLoop_terminal` | binary socket, one tick, one component | **violation**, finding 3 |
| `RadioLink_session` | two uplink and one downlink packet of 2 bytes, ring of 4 cells, 3 ticks, 2 operations | the ring is a faithful queue and its interrupt is not lost, delayed packets keep order and time, nothing from before a reset, cleanup joins the thread |
| `RadioLink_poweroff` | the same | **violation**, finding 4 |
| `FlightApps_session` | each application, restarts, table loads, a time file, two uplink frames, packets that share a frame and one no frame holds | counters tell the truth, boots off one file give increasing times, uplink and downlink neither lose nor misread unnoticed, tasks return |

Every type invariant is proved.  Those of TickProtocol, DirectorWorkers and PowerCommit are
not checked again by a run; those of the other modules are.

### Findings

1. A `wait_for_service` error latched between COMMIT's last check and PREPARE's reset is
   erased, its worker is gone, and the ticks go on (`simulith_director.c:1415`,
   `comp/demo/README.md:106-107`).
2. `ADCS_CommandDevice` loses the error of its write: commands the device never executed are
   counted and announced as forwarded (`adcs_device.c:113`).
3. After a tick that failed between its state and its batch, the terminal metrics ask a 42
   that waits for that batch for one more state; over a socket the read has no timeout and
   the Director never shuts down (`simulith_director.c:1595`).
4. A packet that waits out its delay survives the GPIO's power-off, and is received or
   transmitted afterwards (`radio_sim.c:759`, `comp/radio/README.md:104`).

Observations made while modelling, for which no run is claimed:

* `adcs_time.h:25-29` promises monotonic timestamps for repeated boots off one file.  The
  start values do advance (`BootsAdvance`), but a boot that ran longer than the offset per
  boot has given out later times than its successor starts with, and if the file cannot be
  opened again the next boot repeats the start.
* `RADIO_Configure` counts a packet that is wrong in two ways twice (DEMO has a comment
  against exactly that).
* `RADIO_Disable` followed by `RADIO_Enable` keeps the first part of a frame from before; a
  failed `RADIO_Enable` leaves the interfaces it opened open; a downlink frame that could not
  be secured is transmitted all the same; the guard against an overflow of the uplink buffer
  can never be reached; the downlink's gate on the mode reads the last housekeeping copy.
* `ADCS_Enable` ignores the result of the push of the gains.

### Bounds, and why they are enough

* *Clients and components.* The code treats all clients of a kind alike and all components
  alike; interference is pairwise (a client and the server, a worker and the Director, two
  workers over one counter).  One client of each kind, and three workers so that one can be
  parked, one serving and one dying.  The proofs cover every number.
* *Ticks.* The client's checks compare with the last accepted phase only; three ticks have
  each kind of client cross a tick boundary twice, skipping phases it is not part of.
* *Transactions.* Three: one given up on, the next that meets its remains, one after a
  recovery.  A buffer of four frames holds two answered requests and overflows on a third.
* *Power.* The queue is small so that it overflows both in EXECUTE and in a backdoor, with
  a RESET interrupted at every place.  Two rails tell a disturbance from an effect; a power
  cycle, its boot and the next request, and a controller started, armed and cut off, fit into
  five ticks.  A queue of two never takes a whole RESET: that one applies whole is for the
  proofs, which cover every number of rails, every queue and any load assignment.
* *The loop.* Two components of zero or two commands against a queue of three overflow in the
  middle of the second component's batch.  A trace of one record makes the Director wait for
  its writer.  A second tick meets what the first one left, a third the second's late answer.
* *Radio.* A ring of four cells holds three bytes, so the second packet of two is cut and the
  head wraps; two operations are a change of the link or of the power and its undoing, with a
  delay of two ticks between them.  The third tick is the one in which both are over.
* *Flight applications.* Two uplink frames, of which one has the greatest length (and none
  below the header, which is what a damaged stream yields), read two cells at a time; packets
  of 1, 2 and 4 against a data field of 3: two that share a frame, one that has to wait for
  the next, one that fits none; at most three in one behaviour.  Two restarts of the ADCS are
  a second boot off one file, each may die between any two accesses.  One restart for others.
* Counters and ticks are capped by constants named in the modules.  `CHECK_DEADLOCK FALSE`
  stands where a model ends at its bound (DeviceTransport, PowerCommit, ClosedLoop,
  RadioLink, FlightApps).  The threaded models of the tick check deadlock; their end is
  `Terminated`.

### Fairness, and why the code justifies it

* TickProtocol: the server's loop and each client's thread are weakly fair.  Each is one
  thread that is never blocked for good but by a condition wait, which the model does not
  call enabled, and the mutex is held only for bounded sections.  A handshake nobody can
  answer times out.  Commands, stops, failures and spurious wakeups are never assumed.
* DirectorWorkers: the Director's thread and each worker's thread, for the same reason; that
  a service callback returns is the contract of `simulith_component.h`.
* DeviceTransport: the driver's task, and the device's service as long as ticks go on, which
  is what DirectorWorkers shows.  A timeout may come at any time or never.
* ClosedLoop: the Director inside a callback or on its way out, the trace's writer, and a 42
  that has not gone.  Nobody has to open a tick; 42 may go at any step, after which nothing
  is assumed of it.
* RadioLink: the ground thread, whose `select` times out, and the cleanup's join.  Traffic,
  operations, ticks and an error of `select` are not assumed.
* FlightApps: a service or an access to the file that has begun goes on; cFS schedules every
  task.  That packets arrive is not assumed.
* PowerCommit claims no liveness and assumes no fairness.

## 4. What is proved

All theorems hold for every value of the constants that the named assumptions allow.

**TickProtocol.** The inductive invariant joins the types with four laws.  *GenerationLaw*
ties the generation to the server's sequence, phase and program counter.  *PayloadLaw* says
what the payload holds at each stage of a publication.  *ResponseLaw* says that recorded
completions are completions of the current round.  *ClientLaw* says, for each place of a
client's loop, how far it can be behind: the generation it saw last is the current one or
the one before, and a participant that has not completed pins the generation.  The last is
what `Lockstep` and `NoTornRead` lack on their own: a lock-free reader is always a
participant of the round it reads, so the server cannot store over what it reads.
Theorems `TypeCorrect`, `LockstepHolds`, `ReadsAreWhole`.

**Refinement.** Two more conjuncts, *CaughtUp* and *Ordered*, relate what a client accepted
last to the rounds it takes part in; with them the order check is harmless
(`OrderCheckHarmless`) and each action is matched with a TickSync action or a stutter
(`ProtocolImplementsSync`).

**DirectorWorkers.** `IInv` adds to the types and the exact counters: *Doors* (service is
open exactly from EXECUTE's opening to COMMIT's closing, and stays as it was in cleanup),
*Quiescent*, *AdmittedBeforeAck* and *Latched* (a dead service has its error recorded until
the Director has looked at it).  Counting needs cardinalities of finite sets, for any finite
set of components.  Theorems `TypeCorrect`, `CountersExact`, `ServiceQuiescent`,
`ParkedAdmitted`, `ServiceErrorLatched`.

**DeviceTransport.** `IInv` adds to the types: *InOrder* (requests reach the device in the
order of their numbers, so one that waits is newer than one that is served), *Undecided* (a
request that waits or is being served has no outcome yet), *AcksTrue* (a positive
acknowledgement on its way, or read and not yet looked at, is of a request the device has
executed) and *Confirmed* (the request whose positive acknowledgement the DEMO driver has
accepted was executed).  An acknowledgement is
therefore true whenever it is read, however late; what it is an acknowledgement of is the
number comparison in `simulith_transport_request`.  Theorems `TypeCorrect`,
`SuccessAlwaysMeansExecuted`.

What the driver reads is a property of the byte stream, the receive buffer followed by what is
on its way to it.  `late` are the requests that were still at the device when the driver
flushed.  *Earlier* and *Attributed*: every frame and every request under way belongs to one
of these or to the driver's own.  *Served*: while the driver waits, the stream is frames of
late requests, then exactly what the device has said of the own request so far, which depends
on the device's place.  *Paired*, *Echoed*, *Aligned*: an echo that announces an answer is
followed by it, or the device is about to send it or has failed, so that a driver that takes
one echo too early still finds frames whole and in pairs.  `ResponsesBuffered` and
`AnswerFresh` are conjuncts of the same invariant, because the late frames are what the next
flush has to remove.  Theorems `StreamKept`, `ResponsesAreBuffered`, `AnswerIsFresh`.

**PowerCommit.** `RailFollowsRequest` speaks of the end of a COMMIT; the invariant has to
say what a queue *will* do.  `Leaves(s, k, v)`: once the transitions from the k-th on are
applied, rail s is in state v.  *Settled*: that is well defined for every rail.
*Commanded*: v is what the last request and the fault call for, unless the queue overflowed
or RESET is between the reset of that rail and its requests.  *SupplyLaw*: a load follows
its rail through the loop, transition by transition.  *PhaseLaw*: where an overflow can be
outstanding and that an applied queue is empty.  `LeavesAppended` (a transition has the last
word on its own rail only) and `LeavesApplied` (one iteration of the loop) are the two
lemmas everything rests on.  Theorems `TypeCorrect` (with it the bound of the queue),
`RailsFollow`, `OverflowSafe`.

**PowerCommit's history.** A second strengthening, on top of the first, relates the queue to
what the accepted commands said.  *LevelLaw*: the queue leaves a rail where it was driven
last.  *AlternationLaw*: the transitions of a rail that are still to be applied alternate,
beginning with the opposite of its present state, so each of them is a real edge for its
loads.  Hence the power cycles to come are the on-transitions in the queue and can be counted
(*CycleLaw*: cycles so far plus the cardinality of that set are the rises).  *QueueLaw* and
*BootLaw* give a load its boot deadline: either an edge lies ahead of it, or its deadline is
that of its rail's last rise; *MemoryLaw* and *ZeroLaw* say what supply and deadline mean for
the memory and the actuators.  Theorems `CyclesAsCommanded`, `MemoryOfThisBoot`,
`InactiveMeansZero`, `CommitDisturbsNothing`.

**ClosedLoop.** The two sides of the link alternate over step k of 42, so the invariant names
where each of them is.  `Stage(p, a, k)`: 42 is (or was, when it went) at place a of step k,
and the Director has not taken that state, has got it, has sent its batch, or has been
answered without having looked (p).  *Meets* says which pairs are possible for each kind of
link; *Words* and *Frames* say what then is in the shared memory and in the two directions of
the socket; *Outcome* what has been applied and what the Director knows of it.  *Here* ties p
and k to the Director's place and tick, *Emitted* the queue and the batch to what the
components meant to emit.  A slow, refusing or vanished 42 and every failure of a callback are
in it: a link that is given up keeps its stage.  For the trace, `TraceInv` says how many
ticks have been handed over for each place of the Director, that disk, writer and queue
joined are their records, and that a writer that ended without an error was stopped and had
drained; `Bounds` adds the types and the capacities.  Theorems `BatchesApplyWhole`,
`AcknowledgedIsApplied`, `LoopDoesNotSlip`, `TraceIsFaithful`, `TypeCorrect`.

`LoopSync` is the loop without a link.  Its variables are those of the same names in
ClosedLoop; opening a tick, a component's emission, 42's application of a batch and the
acknowledgement are its four actions, and every other step stutters
(`LoopImplementsSync`).  Where one of the invariants says what must hold of a finished step,
this says what no step may do: open a tick over one that is not committed, add a command to
a tick that 42 has applied, apply a batch that is not all of the tick's, or of another tick,
or again.  The step that applies needs *Stage* and *Here* together: the Director may long
have given the link up, but then its tick stands still.  `ClosedLoop_session` checks the
refinement as a property; a loop that went on after a callback's error would break it.

**RadioLink.** `IInv == Types /\ Ring /\ Current /\ Ordered /\ OnTime`.  *Ring* says which byte
each cell between tail and head holds, that of two bytes in a row the second follows the first
or begins a packet, and how the remembered interrupt and its line go with the count.
*Current* says, place by place (socket, queues of the link, last packet for a replay, ring,
ground), since which reset a packet was sent and whether it has waited: a reset of the rail
empties exactly the places that would otherwise violate it.  *Ordered*: packets are numbered
as they are sent; those in the socket and in a queue rise, and a packet that has waited and
crossed was sent before all that still wait, which is what keeps a packet with a smaller delay
from overtaking.  *OnTime*: what is due has left the queues.  The release loop, which delivers
the packets that are due one after another, is a recursive function (`Delivered`); what it
leaves in the ring is proved by induction over the number of packets (`Induction`, from the library's minimum of a well-founded set).  Theorems
`Inductive`, `TypeCorrect`, `RingIsFaithful`, `NothingIsFromBefore`, `DelayIsKept`.

**FlightApps.** *TimeInv*: the starting times given since the last save increase
(*Increasing*), all lie below what the next boot will compute from the file (*BelowFile*) and
not above the fallback in hand (*BelowFallback*), at each place of the file's load, truncation
and write; a crash that leaves the file empty ends the series, because the next boot has no
fallback at all.  *CountInv*: what handling a packet has counted, at every step of every
service.  Theorems `BootsAlwaysAdvance`, `CountersAlwaysTruthful`.

The uplink's invariant *UpInv* is about the stream of bytes not yet handled, the buffer and the
ring behind it.  *Sound*: each byte is one of a frame that was sent, and they are in the order
of sending, whatever is missing.  *Past*: frames that were published precede everything that
is still to come.  *Unbroken*, while nothing was lost: from the first byte of frame `next` on no
byte is missing, so the header the parser reads is a header.  *UpRoom*: a buffer that is full
holds a whole frame, so a read always has room; it needs a header of at least two bytes that
fits the buffer, as the code's constants do (`RadioAssumption`).  The downlink's *DownInv* is
a line: packets on the air, in the frame, in hand, in the pipe, each before the next, and
together with the dropped ones exactly what was published (*Line*); *FrameFits* bounds a
frame, *DownPlaces* says when a packet is in hand.  Where nothing was lost these are
`UplinkFaithful` and `DownlinkFaithful` with all that keeps them so.  The type invariant
follows from the four invariants and the places of task, service, boot and files
(*TaskTypes*, *BootTypes*, *TableTypes*, *ClockTypes*, *DeviceTypes*): its bounds on counters,
buffers and frames are theirs.  Theorems `UplinkAlwaysFaithful`, `DownlinkAlwaysFaithful`,
`TypeCorrect`.

**Only model-checked.** Every invariant and action property that a run expects to hold is also
proved, and so are the refinements of TickSync and of LoopSync.  What stays with TLC is liveness
(`RunCompletes`, `StopReleases`, `PauseNeverStrandsTick`, `DirectorProceeds`, `Answered`,
`CallbackEnds`, `CleanupEnds`, `TaskReturns`): fairness needs ENABLED, which the prover does
not handle.  So do the four violations, whose counterexamples are behaviours of one instance.
The library's induction theorems take a predicate as a parameter, which the provers cannot
instantiate; where a recursive function has to be reasoned about (`Delivered` of RadioLink,
`Used` of RadioApp), the predicate is replaced by the set of numbers that satisfy it.

## 5. Not modelled, and why

* *The ZeroMQ phase transport.* Without shared memory the server publishes phases on a PUB
  socket and a responder thread collects completions.  It is the fallback of the same
  protocol; its losses are those of the library, which would have to be modelled whole.
* *Pacing, the speed command, watchdog, telemetry, metrics.* Wall-clock time and output; no
  decision of the protocol reads them.
* *A process that dies while it holds the barrier's mutex.* A section under the mutex is one
  step of TickProtocol.
* *Start-up.* Creating and unlinking shared memory, loading components with `dlopen`, argument
  and environment parsing, connection retries: sequential, and over before the models begin.
* *Control laws, dynamics, link budgets, sensor models.* Floating-point functions of the
  state; the models keep the decisions that depend on them as choices.
* *Formats.* Layout of packets, checksums, the text and binary socket formats of 42, the
  trace's serialisation, CryptoLib and TM_SDLP.
* *cFS.* Executive, OSAL, PSP, hwlib and the lab applications are git submodules that are not
  part of this tree; what is here are their tables (mostly unused entries of the limit
  checker, data storage and housekeeping tables) and platform headers: constants that no code
  here computes with.
* *Command line tools, Python, ground databases, tests.* Menus over the drivers, process
  orchestration, packet definitions; the tests were read as statements of intent.

The map covers about a sixth of the repository's implementation lines.  Nearly all of the rest
is in the last three items above (unit tests, tables, tools) and in the floating-point and
formatting parts of the simulators.  Of the C code that keeps state which two actors share,
what is left is named here.

Worth adding next: the ZeroMQ transport against the same TickSync; EPS's I2C exchange with its retries as a second driver of DeviceTransport;
the ADCS target and sampling deadlines as a module of their own.
