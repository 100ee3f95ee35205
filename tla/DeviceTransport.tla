-------------------------- MODULE DeviceTransport --------------------------
(***************************************************************************)
(* One device transaction port: a flight-side device driver                *)
(* (demo_device.c, adcs_device.c) that commands a simulated device through *)
(* simulith_transport.c, and the device's service callback (demo_sim.c,    *)
(* adcs_sim.c) at the other end of the socket pair.                        *)
(*                                                                         *)
(* A command is flushed, sent with a transaction number, executed, echoed, *)
(* answered and acknowledged.  The driver gives up after a timeout, but a  *)
(* request it gave up on stays at the device and is executed later.        *)
(*                                                                         *)
(* Each direction of the socket pair is a queue that loses nothing.  A     *)
(* frame is its kind, the request it belongs to and that request's command *)
(* (code and payload together); the bytes of a frame are read whole.       *)
(* Transaction numbers are 64 bits wide and never come round.              *)
(***************************************************************************)
EXTENDS Integers, Sequences

CONSTANTS Drivers,       \* of "demo" and "adcs": whose CommandDevice it may be
          Codes,         \* the commands the driver sends
          MaxRequests,   \* bound on the number of transactions
          BufferSize,    \* SIMULITH_TRANSPORT_BUFFER_SIZE, in frames
          DeviceRejects, \* whether the device may reject a command
          Faults         \* whether sends may fail

Asks == {"hk", "data"}   \* the commands answered with a frame of their own
AllCodes == {"set", "mode"} \cup Asks

ASSUME DriversAssumption == Drivers \subseteq {"demo", "adcs"}
ASSUME CodesAssumption == Codes \subseteq AllCodes
ASSUME BoundsAssumption == MaxRequests \in Nat /\ BufferSize \in Nat \ {0}
ASSUME SwitchesAssumption == DeviceRejects \in BOOLEAN /\ Faults \in BOOLEAN

VARIABLES owner,     \* the driver this port belongs to
          cpc,       \* where the driver is
          code,      \* the command it is sending
          id,        \* next_transaction_id
          late,      \* requests still at the device when the driver flushed
          rxBuf,     \* rx_buf, in frames
          got,       \* the frame the driver took as the answer
          dpc,       \* where the device's service callback is
          job,       \* the request it is serving
          outcome,   \* what became of each request
          toDevice, toClient   \* the two directions of the socket pair

driver == <<owner, cpc, code, id, late, rxBuf, got>>
device == <<dpc, job, outcome>>
vars   == <<driver, device, toDevice, toClient>>

Ids == 1..MaxRequests
NoFrame == [kind |-> "none", id |-> 0, code |-> "set"]
Request(i, c) == [id |-> i, code |-> c]
Echo(r)   == [kind |-> "echo", id |-> r.id, code |-> r.code]
Answer(r) == [kind |-> "answer", id |-> r.id, code |-> r.code]
Ack(i, ok) == [kind |-> "ack", id |-> i, ok |-> ok]

\* What a successful command leaves on the way to the driver, before its ack.
Responses(r) == IF r.code \in Asks THEN <<Echo(r), Answer(r)>> ELSE <<Echo(r)>>

\* The requests the device has not finished with.
AtDevice == {toDevice[k].id : k \in 1..Len(toDevice)} \cup
            (IF dpc \in {"free", "dead"} THEN {} ELSE {job.id})

Init == /\ owner \in Drivers
        /\ cpc = "idle" /\ code = "set" /\ id = 0 /\ late = {}
        /\ rxBuf = <<>> /\ got = NoFrame
        /\ dpc = "free" /\ job = Request(0, "set")
        /\ outcome = [i \in Ids |-> "none"]
        /\ toDevice = <<>> /\ toClient = <<>>

-----------------------------------------------------------------------------
(***************************************************************************)
(* The driver.  CommandDevice flushes, writes, and compares the echo; the  *)
(* Request functions then read one more frame.  A failed write is reported *)
(* by DEMO_CommandDevice; ADCS_CommandDevice returns the flush's status.   *)
(***************************************************************************)
AfterEcho == IF code \in Asks THEN "reading" ELSE "succeeded"

WriteFails == cpc' = IF owner = "demo" THEN "failed" ELSE AfterEcho

\* Fault: the transport's buffer is cleared, its socket is not drained.
FlushBufferOnly(c) ==
    /\ cpc \in {"idle", "succeeded", "failed"}
    /\ code' = c
    /\ rxBuf' = <<>>
    /\ got' = NoFrame
    /\ late' = AtDevice
    /\ cpc' = "flushed"
    /\ UNCHANGED <<owner, id, device, toDevice, toClient>>

\* simulith_transport_flush ends on a receive that finds the socket empty.
Flush(c) ==
    /\ cpc \in {"idle", "succeeded", "failed"}
    /\ code' = c
    /\ rxBuf' = <<>> /\ toClient' = <<>>
    /\ got' = NoFrame
    /\ late' = AtDevice
    /\ cpc' = "flushed"
    /\ UNCHANGED <<owner, id, device, toDevice>>

Send ==
    /\ cpc = "flushed" /\ id < MaxRequests
    /\ id' = id + 1
    /\ toDevice' = Append(toDevice, Request(id', code))
    /\ cpc' = "waiting"
    /\ UNCHANGED <<owner, code, late, rxBuf, got, device, toClient>>

SendFails ==
    /\ Faults
    /\ cpc = "flushed" /\ id < MaxRequests
    /\ id' = id + 1
    /\ WriteFails
    /\ UNCHANGED <<owner, code, late, rxBuf, got, device, toDevice, toClient>>

\* Fault: the room left in the buffer is not looked at.
BufferUnchecked ==
    /\ cpc = "waiting" /\ toClient # <<>> /\ Head(toClient).kind # "ack"
    /\ toClient' = Tail(toClient)
    /\ rxBuf' = Append(rxBuf, Head(toClient))
    /\ UNCHANGED <<owner, cpc, code, id, late, got, device, toDevice>>

\* simulith_transport_request: whatever is not an acknowledgement is buffered.
Buffer ==
    /\ cpc = "waiting" /\ toClient # <<>> /\ Head(toClient).kind # "ack"
    /\ toClient' = Tail(toClient)
    /\ IF Len(rxBuf) < BufferSize
       THEN rxBuf' = Append(rxBuf, Head(toClient)) /\ UNCHANGED cpc
       ELSE WriteFails /\ UNCHANGED rxBuf
    /\ UNCHANGED <<owner, code, id, late, got, device, toDevice>>

\* Fault: any acknowledgement will do.
OwnAny(ack) == TRUE

Own(ack) == ack.id = id

SkipStaleAck ==
    /\ cpc = "waiting" /\ toClient # <<>> /\ Head(toClient).kind = "ack"
    /\ ~Own(Head(toClient))
    /\ toClient' = Tail(toClient)
    /\ UNCHANGED <<driver, device, toDevice>>

TakeAck ==
    /\ cpc = "waiting" /\ toClient # <<>> /\ Head(toClient).kind = "ack"
    /\ Own(Head(toClient))
    /\ toClient' = Tail(toClient)
    /\ IF Head(toClient).ok THEN cpc' = "echo" ELSE WriteFails
    /\ UNCHANGED <<owner, code, id, late, rxBuf, got, device, toDevice>>

TimeOut ==
    /\ cpc = "waiting"
    /\ WriteFails
    /\ UNCHANGED <<owner, code, id, late, rxBuf, got, device, toDevice, toClient>>

ReadEcho ==
    /\ cpc = "echo" /\ rxBuf # <<>>
    /\ rxBuf' = Tail(rxBuf)
    /\ cpc' = IF Head(rxBuf).kind = "echo" /\ Head(rxBuf).code = code
              THEN AfterEcho ELSE "failed"
    /\ UNCHANGED <<owner, code, id, late, got, device, toDevice, toClient>>

(***************************************************************************)
(* The answer is recognised by its framing and its length alone.  DEMO's   *)
(* housekeeping has the framing and the length of an echo.                 *)
(***************************************************************************)
Parses(frame) ==
    \/ frame.kind = "answer" /\ frame.code = code
    \/ frame.kind = "echo" /\ owner = "demo" /\ code = "hk"

ReadAnswer ==
    /\ cpc = "reading" /\ rxBuf # <<>>
    /\ rxBuf' = Tail(rxBuf)
    /\ got' = Head(rxBuf)
    /\ cpc' = IF Parses(Head(rxBuf)) THEN "succeeded" ELSE "failed"
    /\ UNCHANGED <<owner, code, id, late, device, toDevice, toClient>>

\* ReadData polls while nothing is buffered: transport_buffer_next_message.
Poll ==
    /\ cpc \in {"echo", "reading"} /\ rxBuf = <<>> /\ toClient # <<>>
    /\ toClient' = Tail(toClient)
    /\ rxBuf' = IF Head(toClient).kind = "ack" THEN <<>> ELSE <<Head(toClient)>>
    /\ UNCHANGED <<owner, cpc, code, id, late, got, device, toDevice>>

ReadTimesOut ==
    /\ cpc \in {"echo", "reading"} /\ rxBuf = <<>>
    /\ cpc' = "failed"
    /\ UNCHANGED <<owner, code, id, late, rxBuf, got, device, toDevice, toClient>>

-----------------------------------------------------------------------------
(***************************************************************************)
(* The device's service callback: receive, echo, execute, answer, and only *)
(* then acknowledge.  A device without power and a badly framed command    *)
(* are rejected before the echo.  These drivers send no unknown command,   *)
(* the only kind rejected after it.                                        *)
(***************************************************************************)
Receive ==
    /\ dpc = "free" /\ toDevice # <<>>
    /\ job' = Head(toDevice)
    /\ toDevice' = Tail(toDevice)
    /\ dpc' = "echoing"
    /\ UNCHANGED <<driver, outcome, toClient>>

\* Fault: a command to a device without power is dropped.
RejectAtOnceSilently ==
    /\ DeviceRejects
    /\ dpc = "free" /\ toDevice # <<>>
    /\ job' = Head(toDevice)
    /\ toDevice' = Tail(toDevice)
    /\ outcome' = [outcome EXCEPT ![job'.id] = "rejected"]
    /\ UNCHANGED <<driver, dpc, toClient>>

RejectAtOnce ==
    /\ DeviceRejects
    /\ dpc = "free" /\ toDevice # <<>>
    /\ job' = Head(toDevice)
    /\ toDevice' = Tail(toDevice)
    /\ outcome' = [outcome EXCEPT ![job'.id] = "rejected"]
    /\ dpc' = "acking"
    /\ UNCHANGED <<driver, toClient>>

SendEcho ==
    /\ dpc = "echoing"
    /\ toClient' = Append(toClient, Echo(job))
    /\ dpc' = "executing"
    /\ UNCHANGED <<driver, job, outcome, toDevice>>

\* Fault: the acknowledgement overtakes the answer.
ExecuteAckFirst ==
    /\ dpc = "executing"
    /\ outcome' = [outcome EXCEPT ![job.id] = "executed"]
    /\ toClient' = toClient \o <<Ack(job.id, TRUE)>> \o Tail(Responses(job))
    /\ dpc' = "free"
    /\ UNCHANGED <<driver, job, toDevice>>

Execute ==
    /\ dpc = "executing"
    /\ outcome' = [outcome EXCEPT ![job.id] = "executed"]
    /\ toClient' = IF job.code \in Asks THEN Append(toClient, Answer(job)) ELSE toClient
    /\ dpc' = "acking"
    /\ UNCHANGED <<driver, job, toDevice>>

\* A response that cannot be sent fails the command and the component.
ResponseFails ==
    /\ Faults
    /\ dpc \in {"echoing", "executing"}
    /\ outcome' = [outcome EXCEPT ![job.id] = "error"]
    /\ dpc' = "failing"
    /\ UNCHANGED <<driver, job, toDevice, toClient>>

\* simulith_transport_complete_request; its own failure fails the component.
Acknowledge ==
    /\ dpc \in {"acking", "failing"}
    /\ toClient' = Append(toClient, Ack(job.id, outcome[job.id] = "executed"))
    /\ dpc' = IF dpc = "failing" THEN "dead" ELSE "free"
    /\ UNCHANGED <<driver, job, outcome, toDevice>>

AckFails ==
    /\ Faults
    /\ dpc \in {"acking", "failing"}
    /\ dpc' = "dead"
    /\ UNCHANGED <<driver, job, outcome, toDevice, toClient>>

-----------------------------------------------------------------------------
DriverNext ==
    \/ \E c \in Codes : Flush(c)
    \/ Send \/ Buffer \/ SkipStaleAck \/ TakeAck
    \/ ReadEcho \/ ReadAnswer \/ Poll

GivesUp == SendFails \/ TimeOut \/ ReadTimesOut

DeviceNext == Receive \/ RejectAtOnce \/ SendEcho \/ Execute \/ Acknowledge

DeviceFails == ResponseFails \/ AckFails

Next == DriverNext \/ GivesUp \/ DeviceNext \/ DeviceFails

(***************************************************************************)
(* The driver's task is scheduled and the device is serviced, as it is     *)
(* whenever ticks go on (DirectorWorkers.tla).  A timeout may come at any  *)
(* time or never.                                                          *)
(***************************************************************************)
Fairness == WF_vars(DriverNext) /\ WF_vars(DeviceNext)

Spec == Init /\ [][Next]_vars /\ Fairness

-----------------------------------------------------------------------------
Frames   == [kind : {"none", "echo", "answer"}, id : 0..MaxRequests, code : AllCodes]
Acks     == [kind : {"ack"}, id : Ids, ok : BOOLEAN]
Requests == [id : 0..MaxRequests, code : AllCodes]
Queued   == [id : Ids, code : AllCodes]

TypeOK ==
    /\ owner \in Drivers
    /\ cpc \in {"idle", "flushed", "waiting", "echo", "reading", "succeeded", "failed"}
    /\ code \in AllCodes
    /\ id \in 0..MaxRequests
    /\ late \subseteq Ids
    /\ rxBuf \in Seq(Frames) /\ Len(rxBuf) <= BufferSize
    /\ got \in Frames
    /\ dpc \in {"free", "echoing", "executing", "acking", "failing", "dead"}
    /\ job \in Requests /\ (dpc # "free" => job.id \in Ids)
    /\ outcome \in [Ids -> {"none", "executed", "rejected", "error"}]
    /\ toDevice \in Seq(Queued)
    /\ toClient \in Seq(Frames \cup Acks)

Executed == cpc = "succeeded" => outcome[id] = "executed"

(***************************************************************************)
(* When DEMO_CommandDevice reports success this very transaction has been  *)
(* executed: no acknowledgement of an earlier one, no timeout and no       *)
(* rejection is taken for it (simulith_transport_request, 381-395).        *)
(***************************************************************************)
SuccessMeansExecuted == owner = "demo" => Executed

(***************************************************************************)
(* The same of ADCS_CommandDevice, on whose success the application counts *)
(* the command and sends "ADCS: Set mode command forwarded to device"      *)
(* (adcs_app.c:362).                                                       *)
(***************************************************************************)
ForwardedMeansExecuted == owner = "adcs" => Executed

(***************************************************************************)
(* "Completion is deliberately sent only after command validation, modeled *)
(* state changes, and every response byte has been sent" (demo_sim.c       *)
(* 336-337), so when the acknowledgement is taken the responses of the     *)
(* transaction are all in the driver's buffer, in order, behind nothing    *)
(* but frames of requests that were late: ReadData never has to wait.      *)
(***************************************************************************)
ResponsesBuffered ==
    cpc = "echo" =>
        LET own == Responses(Request(id, code))
            n   == Len(rxBuf) - Len(own)
        IN /\ n >= 0
           /\ SubSeq(rxBuf, n + 1, Len(rxBuf)) = own
           /\ \A k \in 1..n : rxBuf[k].id \in late

(***************************************************************************)
(* The frame a driver takes as the answer answers that very command,       *)
(* although framing alone does not tell DEMO's housekeeping from an echo:  *)
(* the echo comparison keeps the driver aligned (DEMO_CommandDevice        *)
(* 88-97).  It is no older than the flush: it belongs to this transaction  *)
(* or to one of the same command that was still at the device when the     *)
(* driver flushed.  Housekeeping whose bytes happen to be those of the     *)
(* echo is left out.                                                       *)
(***************************************************************************)
AnswerFresh ==
    cpc = "succeeded" /\ code \in Asks =>
        got.kind = "answer" /\ got.code = code /\ got.id \in late \cup {id}

(***************************************************************************)
(* A driver that waits is answered, accepted or rejected, without the help *)
(* of its timeout, unless the device has failed and its component with it. *)
(***************************************************************************)
Answered == (cpc = "waiting") ~> (cpc # "waiting" \/ dpc = "dead")
=============================================================================
