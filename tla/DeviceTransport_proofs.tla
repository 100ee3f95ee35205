----------------------- MODULE DeviceTransport_proofs -----------------------
(***************************************************************************)
(* Theorems about DeviceTransport for every set of commands, number of     *)
(* transactions and size of buffer, with and without faults: its type      *)
(* invariant; that DEMO_CommandDevice never reports a success that was not *)
(* one; that the responses of a command are buffered when it is            *)
(* acknowledged; and that the answer a driver takes is one to its command. *)
(*                                                                         *)
(* The second needs that requests reach the device in the order of their   *)
(* numbers and each once: then what has become of a request is decided     *)
(* once, and an acknowledgement, however late it is read, is true.  The    *)
(* last two need the order of what is on its way to the driver: first what *)
(* late requests still had to say, then what has been said of its own.     *)
(***************************************************************************)
EXTENDS DeviceTransport, SequenceTheorems, TLAPS

USE DriversAssumption, CodesAssumption, BoundsAssumption, SwitchesAssumption

\* What the two sides put into the queues, and tell apart in them.
LEMMA Messages ==
  /\ Ids \subseteq 0..MaxRequests
  /\ Queued \subseteq Requests /\ \A r \in Queued : r.id \in Ids
  /\ NoFrame \in Frames
  /\ \A i \in Ids, c \in AllCodes : Request(i, c) \in Queued
  /\ \A r \in Requests : Echo(r) \in Frames /\ Answer(r) \in Frames
  /\ \A i \in Ids, ok \in BOOLEAN : Ack(i, ok) \in Acks
  /\ \A m \in Frames \cup Acks : m.kind # "ack" => m \in Frames
  /\ \A m \in Frames \cup Acks : m.kind = "ack" => m \in Acks /\ m.id \in Ids
<1>1. Ids \subseteq 0..MaxRequests
  BY DEF Ids
<1>2. /\ Queued \subseteq Requests /\ \A r \in Queued : r.id \in Ids
      /\ \A i \in Ids, c \in AllCodes : Request(i, c) \in Queued
  BY <1>1 DEF Queued, Requests, AllCodes, Request
<1>3. NoFrame \in Frames /\ \A r \in Requests : Echo(r) \in Frames /\ Answer(r) \in Frames
  BY DEF NoFrame, Frames, Requests, Echo, Answer, AllCodes
<1>4. \A i \in Ids, ok \in BOOLEAN : Ack(i, ok) \in Acks
  BY DEF Ack, Acks
<1>5. \A m \in Frames \cup Acks : /\ m.kind # "ack" => m \in Frames
                                  /\ m.kind = "ack" => m \in Acks /\ m.id \in Ids
  <2>1. (\A m \in Acks : m.kind = "ack" /\ m.id \in Ids) /\ \A m \in Frames : m.kind # "ack"
    BY DEF Acks, Frames
  <2> QED  BY <2>1
<1> QED  BY <1>1, <1>2, <1>3, <1>4, <1>5

\* The steps of the flight side.
LEMMA DriverTypes ==
  TypeOK /\ (DriverNext \/ GivesUp) => TypeOK'
<1> SUFFICES ASSUME TypeOK, DriverNext \/ GivesUp PROVE TypeOK'
  OBVIOUS
<1> USE Messages DEF TypeOK
<1>1. ASSUME NEW c \in Codes, Flush(c) PROVE TypeOK'
  <2>1. AtDevice \subseteq Ids
    <3>1. \A k \in 1..Len(toDevice) : toDevice[k] \in Queued
      OBVIOUS
    <3>2. (IF dpc \in {"free", "dead"} THEN {} ELSE {job.id}) \subseteq Ids
      OBVIOUS
    <3> QED  BY <3>1, <3>2 DEF AtDevice
  <2> QED  BY <1>1, <2>1 DEF Flush, device
<1>2. CASE Send
  BY <1>2 DEF Send, device, Ids
<1>3. CASE SendFails \/ TimeOut
  <2>1. cpc' \in {"failed", "reading", "succeeded"} /\ id' \in 0..MaxRequests
    BY <1>3 DEF SendFails, TimeOut, WriteFails, AfterEcho
  <2> QED  BY <1>3, <2>1 DEF SendFails, TimeOut, device
<1>4. CASE Buffer
  <2>1. Head(toClient) \in Frames /\ toClient' \in Seq(Frames \cup Acks)
    BY <1>4 DEF Buffer
  <2>2. cpc' \in {"failed", "reading", "succeeded", "waiting"}
    BY <1>4 DEF Buffer, WriteFails, AfterEcho
  <2>3. rxBuf' \in Seq(Frames) /\ Len(rxBuf') <= BufferSize
    <3>1. CASE Len(rxBuf) < BufferSize
      <4>1. Append(rxBuf, Head(toClient)) \in Seq(Frames) /\ Len(Append(rxBuf, Head(toClient))) = Len(rxBuf) + 1
        BY <2>1
      <4>2. rxBuf' = Append(rxBuf, Head(toClient))
        BY <1>4, <3>1 DEF Buffer
      <4>3. Len(rxBuf) \in Nat /\ Len(rxBuf) + 1 <= BufferSize
        BY <3>1
      <4> HIDE DEF TypeOK
      <4> QED  BY <4>1, <4>2, <4>3
    <3>2. CASE ~(Len(rxBuf) < BufferSize)
      BY <1>4, <3>2 DEF Buffer
    <3> QED  BY <3>1, <3>2
  <2> QED  BY <1>4, <2>1, <2>2, <2>3 DEF Buffer, device
<1>5. CASE SkipStaleAck
  BY <1>5 DEF SkipStaleAck, driver, device
<1>6. CASE TakeAck
  <2>1. cpc' \in {"failed", "reading", "succeeded", "echo"}
    BY <1>6 DEF TakeAck, WriteFails, AfterEcho
  <2> QED  BY <1>6, <2>1 DEF TakeAck, device
<1>7. CASE ReadEcho \/ ReadAnswer
  <2>1. rxBuf # <<>>
    BY <1>7 DEF ReadEcho, ReadAnswer
  <2>2. Head(rxBuf) \in Frames /\ Tail(rxBuf) \in Seq(Frames) /\ Len(Tail(rxBuf)) <= BufferSize
    BY <2>1
  <2>3. cpc' \in {"failed", "reading", "succeeded"}
    BY <1>7 DEF ReadEcho, ReadAnswer, AfterEcho
  <2> QED  BY <1>7, <2>2, <2>3 DEF ReadEcho, ReadAnswer, device
<1>8. CASE Poll
  <2>1. Head(toClient) \in Frames \cup Acks /\ toClient' \in Seq(Frames \cup Acks)
    BY <1>8 DEF Poll
  <2>2. rxBuf' \in Seq(Frames) /\ Len(rxBuf') <= BufferSize
    BY <1>8, <2>1 DEF Poll
  <2> QED  BY <1>8, <2>1, <2>2 DEF Poll, device
<1>9. CASE ReadTimesOut
  BY <1>9 DEF ReadTimesOut, device
<1> QED  BY <1>1, <1>2, <1>3, <1>4, <1>5, <1>6, <1>7, <1>8, <1>9 DEF DriverNext, GivesUp

\* The steps of the device.
LEMMA DeviceTypes ==
  TypeOK /\ (DeviceNext \/ DeviceFails) => TypeOK'
<1> SUFFICES ASSUME TypeOK, DeviceNext \/ DeviceFails PROVE TypeOK'
  OBVIOUS
<1> USE Messages DEF TypeOK
<1>1. ASSUME toDevice # <<>>
      PROVE  Head(toDevice) \in Requests /\ Head(toDevice).id \in Ids /\ Tail(toDevice) \in Seq(Queued)
  BY <1>1
<1>2. CASE Receive
  BY <1>1, <1>2 DEF Receive, driver
<1>3. CASE RejectAtOnce
  BY <1>1, <1>3 DEF RejectAtOnce, driver
<1>4. CASE SendEcho
  BY <1>4 DEF SendEcho, driver
<1>5. CASE Execute
  <2>1. Append(toClient, Answer(job)) \in Seq(Frames \cup Acks)
    OBVIOUS
  <2> QED  BY <1>5, <2>1 DEF Execute, driver
<1>6. CASE ResponseFails
  BY <1>6 DEF ResponseFails, driver
<1>7. CASE Acknowledge \/ AckFails
  <2>1. ASSUME dpc # "free"
        PROVE  Append(toClient, Ack(job.id, outcome[job.id] = "executed")) \in Seq(Frames \cup Acks)
    <3>1. job.id \in Ids /\ (outcome[job.id] = "executed") \in BOOLEAN
      BY <2>1
    <3>2. Ack(job.id, outcome[job.id] = "executed") \in Acks
      BY <3>1, Zenon
    <3> QED  BY <3>2
  <2> QED  BY <1>7, <2>1 DEF Acknowledge, AckFails, driver
<1> QED  BY <1>2, <1>3, <1>4, <1>5, <1>6, <1>7 DEF DeviceNext, DeviceFails

\* The variables have their types at first.
LEMMA TypeInit == Init => TypeOK
<1>1. Request(0, "set") \in Requests /\ "set" \in AllCodes
  BY DEF Request, Requests, AllCodes
<1> QED  BY <1>1, Messages DEF Init, TypeOK

\* Whatever the two sides do, every variable has its type; so the transport's
\* buffer never holds more than BufferSize frames (the bound that
\* simulith_transport_request looks at before it copies a reply, 365-377).
THEOREM TypeCorrect == Spec => []TypeOK
<1>1. Init => TypeOK
  BY TypeInit
<1>2. TypeOK /\ UNCHANGED vars => TypeOK'
  BY DEF TypeOK, vars, driver, device
<1>3. TypeOK /\ [Next]_vars => TypeOK'
  BY <1>2, DriverTypes, DeviceTypes DEF Next
<1> QED  BY <1>1, <1>3, PTL DEF Spec

-----------------------------------------------------------------------------
(***************************************************************************)
(* What the device has decided.  Requests reach it in the order of their   *)
(* numbers, so that it has never decided one it has yet to serve; what it  *)
(* acknowledges as done has been executed and stays so.                    *)
(***************************************************************************)
InOrder ==
    /\ job.id <= id
    /\ \A k \in 1..Len(toDevice) : toDevice[k].id <= id /\ job.id < toDevice[k].id
    /\ \A k, l \in 1..Len(toDevice) : k < l => toDevice[k].id < toDevice[l].id

Undecided ==
    /\ \A k \in 1..Len(toDevice) : outcome[toDevice[k].id] = "none"
    /\ dpc \in {"echoing", "executing"} => outcome[job.id] = "none"
    /\ \A i \in Ids : i > id => outcome[i] = "none"

TrueAck(m, o) == m.kind = "ack" /\ m.ok => o[m.id] = "executed"
AcksTrue   == \A k \in 1..Len(toClient) : TrueAck(toClient[k], outcome)

Confirmed ==
    owner = "demo" /\ cpc \in {"echo", "reading", "succeeded"} =>
        id \in Ids /\ outcome[id] = "executed"

IInv == TypeOK /\ InOrder /\ Undecided /\ AcksTrue /\ Confirmed

\* On the way to the driver acknowledgements are only taken away by it.
LEMMA DriverTakes ==
  TypeOK /\ (DriverNext \/ GivesUp) =>
      UNCHANGED device /\ toClient' \in {toClient, Tail(toClient), <<>>}
                       /\ (toClient' = Tail(toClient) => toClient # <<>> \/ toClient' = toClient)
<1> SUFFICES ASSUME TypeOK, DriverNext \/ GivesUp
             PROVE  UNCHANGED device /\ toClient' \in {toClient, Tail(toClient), <<>>}
                       /\ (toClient' = Tail(toClient) => toClient # <<>> \/ toClient' = toClient)
  OBVIOUS
<1>1. ASSUME NEW c \in Codes, Flush(c) PROVE UNCHANGED device /\ toClient' = <<>>
  BY <1>1 DEF Flush
<1>2. CASE Send \/ SendFails \/ TimeOut \/ ReadEcho \/ ReadAnswer \/ ReadTimesOut
  BY <1>2 DEF Send, SendFails, TimeOut, ReadEcho, ReadAnswer, ReadTimesOut
<1>3. CASE Buffer \/ SkipStaleAck \/ TakeAck \/ Poll
  BY <1>3 DEF Buffer, SkipStaleAck, TakeAck, Poll
<1> QED  BY <1>1, <1>2, <1>3 DEF DriverNext, GivesUp

\* The driver decides nothing, and believes only its own acknowledgement.
LEMMA DriverSafe ==
  IInv /\ (DriverNext \/ GivesUp) => IInv'
<1> SUFFICES ASSUME IInv, DriverNext \/ GivesUp PROVE IInv'
  OBVIOUS
<1> USE DEF IInv
<1>1. TypeOK'
  BY DriverTypes
<1>2. InOrder' /\ Undecided'
  <2>1. CASE Send
    <3>1. id \in Nat /\ id' = id + 1 /\ id' \in Ids /\ UNCHANGED <<dpc, job, outcome>>
      BY <2>1 DEF Send, TypeOK, Ids, device
    <3>2. /\ Len(toDevice') = Len(toDevice) + 1 /\ Len(toDevice) \in Nat
          /\ \A k \in 1..Len(toDevice) : toDevice'[k] = toDevice[k]
          /\ toDevice'[Len(toDevice) + 1].id = id'
      BY <2>1 DEF Send, Request, TypeOK
    <3>3. \A k \in 1..Len(toDevice) : toDevice[k].id \in Ids
      BY Messages DEF TypeOK
    <3>4. job.id \in 0..MaxRequests
      BY DEF TypeOK, Requests
    <3>5. InOrder'
      <4>1. \A k \in 1..Len(toDevice') : k \in 1..Len(toDevice) \/ k = Len(toDevice) + 1
        BY <3>2
      <4>2. /\ \A k \in 1..Len(toDevice) : toDevice[k].id <= id /\ job.id < toDevice[k].id
            /\ job.id <= id /\ job.id \in Nat
            /\ \A k \in 1..Len(toDevice) : toDevice[k].id \in Nat
        BY <3>3, <3>4 DEF InOrder, Ids
      <4>3. /\ job'.id <= id'
            /\ \A k \in 1..Len(toDevice') : toDevice'[k].id <= id' /\ job'.id < toDevice'[k].id
        BY <3>1, <3>2, <4>1, <4>2
      <4>4. ASSUME NEW k \in 1..Len(toDevice'), NEW l \in 1..Len(toDevice'), k < l
            PROVE  toDevice'[k].id < toDevice'[l].id
        <5>1. k \in 1..Len(toDevice)
          BY <3>2, <4>4
        <5>2. CASE l \in 1..Len(toDevice)
          BY <3>2, <4>4, <5>1, <5>2 DEF InOrder
        <5>3. CASE l = Len(toDevice) + 1
          BY <3>1, <3>2, <4>2, <5>1, <5>3
        <5> QED  BY <4>1, <5>2, <5>3
      <4> QED  BY <4>3, <4>4 DEF InOrder
    <3>6. Undecided'
      BY <3>1, <3>2, <3>3 DEF Undecided, Ids
    <3> QED  BY <3>5, <3>6
  <2>2. CASE SendFails
    <3>1. id \in Nat /\ id' = id + 1 /\ UNCHANGED <<dpc, job, outcome, toDevice>>
      BY <2>2 DEF SendFails, TypeOK, device
    <3>2. /\ \A k \in 1..Len(toDevice) : toDevice[k].id \in Nat
          /\ job.id \in Nat
      BY Messages DEF TypeOK, Ids, Requests
    <3> QED  BY <3>1, <3>2 DEF InOrder, Undecided, Ids
  <2>3. ASSUME NEW c \in Codes, Flush(c) PROVE InOrder' /\ Undecided'
    BY <2>3 DEF Flush, InOrder, Undecided, device
  <2>4. CASE TimeOut \/ ReadEcho \/ ReadAnswer \/ ReadTimesOut \/ Buffer \/ SkipStaleAck \/ TakeAck \/ Poll
    BY <2>4 DEF TimeOut, ReadEcho, ReadAnswer, ReadTimesOut, Buffer, SkipStaleAck, TakeAck, Poll,
                driver, device, InOrder, Undecided
  <2> QED  BY <2>1, <2>2, <2>3, <2>4 DEF DriverNext, GivesUp
<1>3. AcksTrue'
  <2>1. outcome' = outcome /\ toClient \in Seq(Frames \cup Acks)
    BY DriverTakes DEF device, TypeOK
  <2>2. CASE toClient' \in {toClient, <<>>}
    BY <2>1, <2>2 DEF AcksTrue, TrueAck
  <2>3. CASE toClient' = Tail(toClient) /\ toClient # <<>>
    <3>1. \A k \in 1..Len(toClient') : k + 1 \in 1..Len(toClient) /\ toClient'[k] = toClient[k + 1]
      BY <2>1, <2>3
    <3> QED  BY <2>1, <3>1 DEF AcksTrue, TrueAck
  <2> QED  BY <2>2, <2>3, DriverTakes
<1>4. Confirmed'
  <2>1. CASE TakeAck
    <3>1. Head(toClient) = toClient[1] /\ 1 \in 1..Len(toClient)
      BY <2>1 DEF TakeAck, TypeOK
    <3>2. TrueAck(Head(toClient), outcome) /\ Head(toClient).id = id /\ Head(toClient).kind = "ack"
          /\ id \in Ids
      BY <2>1, <3>1, Messages DEF TakeAck, Own, AcksTrue, TypeOK
    <3> QED  BY <2>1, <3>2 DEF TakeAck, WriteFails, Confirmed, TrueAck, device
  <2>2. ASSUME NEW c \in Codes, Flush(c) PROVE Confirmed'
    BY <2>2 DEF Flush, Confirmed
  <2>3. CASE Send \/ SendFails \/ TimeOut \/ Buffer
    BY <2>3 DEF Send, SendFails, TimeOut, Buffer, WriteFails, Confirmed, device
  <2>4. CASE SkipStaleAck \/ Poll \/ ReadTimesOut
    BY <2>4 DEF SkipStaleAck, Poll, ReadTimesOut, Confirmed, driver, device
  <2>5. CASE ReadEcho \/ ReadAnswer
    BY <2>5 DEF ReadEcho, ReadAnswer, AfterEcho, Confirmed, device
  <2> QED  BY <2>1, <2>2, <2>3, <2>4, <2>5 DEF DriverNext, GivesUp
<1> QED  BY <1>1, <1>2, <1>3, <1>4

\* A request the device takes is undecided, and is not any that wait.
LEMMA Taken ==
  ASSUME IInv, toDevice # <<>>
  PROVE  LET r == Head(toDevice)
         IN  /\ r.id \in Ids /\ r.id <= id /\ outcome[r.id] = "none"
             /\ \A k \in 1..Len(Tail(toDevice)) :
                   /\ k + 1 \in 1..Len(toDevice) /\ Tail(toDevice)[k] = toDevice[k + 1]
                   /\ r.id < toDevice[k + 1].id
<1>1. toDevice \in Seq(Queued) /\ Head(toDevice) = toDevice[1] /\ 1 \in 1..Len(toDevice)
  BY DEF IInv, TypeOK
<1>2. \A k \in 1..Len(Tail(toDevice)) :
         k \in Nat /\ 1 < k + 1 /\ k + 1 \in 1..Len(toDevice) /\ Tail(toDevice)[k] = toDevice[k + 1]
  BY <1>1
<1>3. toDevice[1].id \in Ids
  BY <1>1, Messages
<1> QED  BY <1>1, <1>2, <1>3 DEF IInv, InOrder, Undecided

\* What the device adds on the way to the driver is true, what was there stays so.
LEMMA Told ==
  ASSUME IInv, NEW m \in Frames \cup Acks, toClient' \in {toClient, Append(toClient, m)},
         TrueAck(m, outcome'),
         \A i \in Ids : outcome[i] = "executed" => outcome'[i] = "executed"
  PROVE  AcksTrue'
<1>1. toClient \in Seq(Frames \cup Acks)
  BY DEF IInv, TypeOK
<1>2. ASSUME NEW k \in 1..Len(toClient) PROVE TrueAck(toClient[k], outcome')
  <2>1. toClient[k] \in Frames \cup Acks /\ TrueAck(toClient[k], outcome)
    BY <1>1 DEF IInv, AcksTrue
  <2>2. toClient[k].kind = "ack" => toClient[k].id \in Ids
    BY <2>1, Messages
  <2> QED  BY <2>1, <2>2 DEF TrueAck
<1>3. CASE toClient' = toClient
  BY <1>2, <1>3 DEF AcksTrue
<1>4. CASE toClient' = Append(toClient, m)
  <2>1. \A k \in 1..Len(toClient') :
           \/ k \in 1..Len(toClient) /\ toClient'[k] = toClient[k]
           \/ toClient'[k] = m
    BY <1>1, <1>4
  <2> QED  BY <2>1, <1>2 DEF AcksTrue
<1> QED  BY <1>3, <1>4

\* A request is decided while it is not, and after that no longer.
LEMMA Decides ==
  ASSUME IInv, NEW i \in Ids, outcome[i] = "none", NEW o, outcome' = [outcome EXCEPT ![i] = o]
  PROVE  /\ \A j \in Ids : outcome[j] = "executed" => outcome'[j] = "executed"
         /\ \A j \in Ids : j # i => outcome'[j] = outcome[j]
         /\ outcome'[i] = o
<1>1. outcome \in [Ids -> {"none", "executed", "rejected", "error"}]
  BY DEF IInv, TypeOK
<1> QED  BY <1>1

\* The device decides the request it serves, once, and tells the truth of it.
LEMMA DeviceSafe ==
  IInv /\ (DeviceNext \/ DeviceFails) => IInv'
<1> SUFFICES ASSUME IInv, DeviceNext \/ DeviceFails PROVE IInv'
  OBVIOUS
<1>1. TypeOK'
  BY DeviceTypes DEF IInv
<1>2. /\ id \in 0..MaxRequests /\ dpc \in {"free", "echoing", "executing", "acking", "failing", "dead"}
      /\ job \in Requests /\ job.id \in 0..MaxRequests /\ (dpc # "free" => job.id \in Ids)
      /\ NoFrame \in Frames
      /\ \A k \in 1..Len(toDevice) : toDevice[k].id \in Ids
  BY Messages DEF IInv, TypeOK, Requests
<1>3. UNCHANGED <<owner, cpc, id>>
  BY DEF DeviceNext, DeviceFails, Receive, RejectAtOnce, SendEcho, Execute, ResponseFails,
         Acknowledge, AckFails, driver
<1>4. CASE Receive \/ RejectAtOnce
  <2>1. toDevice # <<>> /\ job' = Head(toDevice) /\ toDevice' = Tail(toDevice) /\ toClient' = toClient
    BY <1>4 DEF Receive, RejectAtOnce, driver
  <2>2. /\ job'.id \in Ids /\ job'.id <= id /\ outcome[job'.id] = "none"
        /\ \A k \in 1..Len(toDevice') :
              /\ k + 1 \in 1..Len(toDevice) /\ toDevice'[k] = toDevice[k + 1]
              /\ job'.id < toDevice'[k].id
    BY <2>1, Taken
  <2>3. \/ outcome' = outcome /\ dpc' = "echoing"
        \/ outcome' = [outcome EXCEPT ![job'.id] = "rejected"] /\ dpc' = "acking"
    BY <1>4 DEF Receive, RejectAtOnce
  <2>4. /\ \A j \in Ids : outcome[j] = "executed" => outcome'[j] = "executed"
        /\ \A j \in Ids : j # job'.id => outcome'[j] = outcome[j]
        /\ dpc' = "echoing" => outcome' = outcome
    <3>1. CASE outcome' = outcome
      BY <3>1
    <3>2. CASE outcome' = [outcome EXCEPT ![job'.id] = "rejected"] /\ dpc' = "acking"
      BY <2>2, <3>2, Decides
    <3> QED  BY <2>3, <3>1, <3>2
  <2>5. InOrder'
    <3>1. \A k \in 1..Len(toDevice') : toDevice'[k].id <= id
      BY <2>2 DEF IInv, InOrder
    <3>2. ASSUME NEW k \in 1..Len(toDevice'), NEW l \in 1..Len(toDevice'), k < l
          PROVE  toDevice'[k].id < toDevice'[l].id
      <4>1. k + 1 < l + 1
        BY <3>2
      <4> QED  BY <2>2, <4>1 DEF IInv, InOrder
    <3> QED  BY <1>3, <2>2, <3>1, <3>2 DEF InOrder
  <2>6. Undecided'
    <3>1. ASSUME NEW k \in 1..Len(toDevice') PROVE outcome'[toDevice'[k].id] = "none"
      <4>1. toDevice'[k].id \in Ids /\ toDevice'[k].id # job'.id /\ outcome[toDevice'[k].id] = "none"
        BY <1>2, <2>2 DEF IInv, Undecided, Ids
      <4> QED  BY <2>4, <4>1
    <3>2. ASSUME NEW i \in Ids, i > id PROVE outcome'[i] = "none"
      <4>1. i # job'.id /\ outcome[i] = "none"
        BY <1>2, <2>2, <3>2 DEF IInv, Undecided, Ids
      <4> QED  BY <2>4, <4>1
    <3>3. dpc' \in {"echoing", "executing"} => outcome'[job'.id] = "none"
      BY <2>2, <2>3, <2>4
    <3> QED  BY <1>3, <3>1, <3>2, <3>3 DEF Undecided
  <2>7. AcksTrue'
    <3>1. NoFrame \in Frames \cup Acks /\ TrueAck(NoFrame, outcome')
      BY <1>2 DEF NoFrame, TrueAck
    <3> QED  BY <2>1, <2>4, <3>1, Told
  <2>8. Confirmed'
    BY <1>3, <2>4 DEF IInv, Confirmed
  <2> QED  BY <1>1, <2>5, <2>6, <2>7, <2>8 DEF IInv
<1>5. ASSUME NEW m \in Frames \cup Acks, toClient' \in {toClient, Append(toClient, m)},
             TrueAck(m, outcome'), UNCHANGED <<job, outcome, toDevice>>,
             dpc' \in {"executing"} => dpc = "echoing", dpc' # "echoing"
      PROVE  IInv'
  <2>1. InOrder' /\ Undecided'
    BY <1>3, <1>5 DEF IInv, InOrder, Undecided
  <2>2. Confirmed'
    BY <1>3, <1>5 DEF IInv, Confirmed
  <2>3. AcksTrue'
    BY <1>5, Told
  <2> QED  BY <1>1, <2>1, <2>2, <2>3 DEF IInv
<1>6. CASE SendEcho
  <2>1. Echo(job) \in Frames \cup Acks /\ TrueAck(Echo(job), outcome')
    BY <1>2, Messages DEF Echo, TrueAck
  <2> QED  BY <1>5, <1>6, <2>1 DEF SendEcho
<1>7. CASE Acknowledge
  <2> DEFINE ack == Ack(job.id, outcome[job.id] = "executed")
  <2>1. job.id \in Ids /\ (outcome[job.id] = "executed") \in BOOLEAN
    BY <1>2, <1>7 DEF Acknowledge
  <2>2. ack \in Frames \cup Acks
    BY <2>1, Messages, Zenon
  <2>3. TrueAck(ack, outcome)
    BY DEF TrueAck, Ack
  <2>4. /\ toClient' = Append(toClient, ack) /\ UNCHANGED <<job, outcome, toDevice>>
        /\ dpc' \in {"dead", "free"}
    BY <1>7 DEF Acknowledge
  <2> HIDE DEF ack
  <2> QED  BY <1>5, <2>2, <2>3, <2>4
<1>8. CASE AckFails
  <2>1. NoFrame \in Frames \cup Acks /\ TrueAck(NoFrame, outcome')
    BY <1>2 DEF NoFrame, TrueAck
  <2> QED  BY <1>5, <1>8, <2>1 DEF AckFails
<1>9. CASE Execute \/ ResponseFails
  <2>1. /\ job.id \in Ids /\ outcome[job.id] = "none" /\ UNCHANGED <<job, toDevice>>
        /\ dpc' \in {"acking", "failing"}
        /\ \E o : outcome' = [outcome EXCEPT ![job.id] = o]
        /\ toClient' \in {toClient, Append(toClient, Answer(job))}
    BY <1>2, <1>9 DEF IInv, Undecided, Execute, ResponseFails, driver
  <2>2. /\ \A j \in Ids : outcome[j] = "executed" => outcome'[j] = "executed"
        /\ \A j \in Ids : j # job.id => outcome'[j] = outcome[j]
    BY <2>1, Decides
  <2>3. InOrder'
    BY <1>3, <2>1 DEF IInv, InOrder
  <2>4. Undecided'
    <3>1. \A k \in 1..Len(toDevice) : toDevice[k].id # job.id
      BY <1>2 DEF IInv, InOrder, Ids
    <3>2. \A i \in Ids : i > id => i # job.id
      BY <1>2 DEF IInv, InOrder, Ids
    <3> QED  BY <1>2, <1>3, <2>1, <2>2, <3>1, <3>2 DEF IInv, Undecided
  <2>5. AcksTrue'
    <3>1. Answer(job) \in Frames \cup Acks /\ TrueAck(Answer(job), outcome')
      BY <1>2, Messages DEF Answer, TrueAck
    <3> QED  BY <2>1, <2>2, <3>1, Told
  <2>6. Confirmed'
    BY <1>3, <2>2 DEF IInv, Confirmed
  <2> QED  BY <1>1, <2>3, <2>4, <2>5, <2>6 DEF IInv
<1> QED  BY <1>4, <1>6, <1>7, <1>8, <1>9 DEF DeviceNext, DeviceFails

\* What the device has decided holds at first, and every step keeps it.
LEMMA Inductive == (Init => IInv) /\ (IInv /\ [Next]_vars => IInv')
<1>1. Init => IInv
  <2>1. Init => TypeOK
    BY TypeInit
  <2>2. Init => InOrder /\ Undecided /\ AcksTrue /\ Confirmed
    BY DEF Init, InOrder, Undecided, AcksTrue, Confirmed, Request, Ids
  <2> QED  BY <2>1, <2>2 DEF IInv
<1>2. IInv /\ UNCHANGED vars => IInv'
  <2> SUFFICES ASSUME IInv, UNCHANGED vars PROVE IInv'
    OBVIOUS
  <2>1. TypeOK'
    BY DEF IInv, TypeOK, vars, driver, device
  <2>2. InOrder' /\ Undecided' /\ AcksTrue' /\ Confirmed'
    BY DEF IInv, InOrder, Undecided, AcksTrue, TrueAck, Confirmed, vars, driver, device
  <2> QED  BY <2>1, <2>2 DEF IInv
<1> QED  BY <1>1, <1>2, DriverSafe, DeviceSafe DEF Next

\* Whatever is lost, late, rejected or fails, what DEMO_CommandDevice reports as a
\* success was executed (simulith_transport_request accepts only its own
\* acknowledgement; demo_sim.c acknowledges only what it has done).
THEOREM SuccessAlwaysMeansExecuted == Spec => []SuccessMeansExecuted
<1>1. IInv => SuccessMeansExecuted
  BY DEF IInv, Confirmed, SuccessMeansExecuted, Executed
<1> QED  BY <1>1, Inductive, PTL DEF Spec

-----------------------------------------------------------------------------
(***************************************************************************)
(* What is on its way to the driver.  A flush leaves nothing but what the  *)
(* requests then at the device have yet to say (late); the device serves   *)
(* the driver's request after them all, so that everything it has said of  *)
(* it stands behind everything else, in the order in which it says it.     *)
(***************************************************************************)
Stream == rxBuf \o toClient

\* Whose frames there can be, once the driver has flushed.
Awaited == IF cpc \in {"idle", "flushed"} THEN late ELSE late \cup {id}

Earlier ==
    /\ cpc = "idle" => late = {}
    /\ \A i \in late : i <= id /\ (cpc # "flushed" => i < id)

Attributed ==
    /\ AtDevice \subseteq Awaited
    /\ \A k \in 1..Len(rxBuf) : rxBuf[k].id \in Awaited
    /\ \A k \in 1..Len(toClient) : toClient[k].id \in Awaited

Mine == Request(id, code)

\* What the device can have said of the request the driver waits for, and when.
Said(s) ==
    \/ s = <<>> /\ job.id # id
    \/ /\ s = <<>> /\ job.id = id
       /\ dpc \in {"echoing", "acking", "failing", "dead"}
       /\ dpc # "dead" => outcome[id] # "executed"
    \/ /\ s = <<Echo(Mine)>> /\ job.id = id
       /\ dpc \in {"executing", "failing", "dead"}
       /\ dpc # "dead" => outcome[id] # "executed"
    \/ /\ s = Responses(Mine) /\ job.id = id
       /\ dpc \in {"acking", "dead"} /\ outcome[id] = "executed"
    \/ s = Append(Responses(Mine), Ack(id, TRUE)) /\ job.id = id /\ dpc = "free"
    \/ /\ s \in {<<Ack(id, FALSE)>>, <<Echo(Mine), Ack(id, FALSE)>>} /\ job.id = id
       /\ dpc \in {"free", "dead"}

\* The stream ends with s, and everything before it was late.
EndsWith(n, s) ==
    /\ Len(Stream) = n + Len(s)
    /\ \A p \in 1..n : Stream[p].id \in late
    /\ \A k \in 1..Len(s) : Stream[n + k] = s[k]

Served ==
    cpc = "waiting" =>
        /\ \A k \in 1..Len(toDevice) : (toDevice[k].id = id => toDevice[k].code = code)
        /\ job.id = id => job.code = code
        /\ \E n \in Nat, s \in Seq(Frames \cup Acks) : Said(s) /\ EndsWith(n, s)

\* An echo that announces an answer is followed by it, or the device is not there
\* yet, or never will be.
AsksEcho(m) == m.kind = "echo" /\ m.code \in Asks
Answers(m, e) == m.kind = "answer" /\ m.code = e.code

Paired ==
    cpc \in {"flushed", "waiting"} =>
        \A p \in 1..Len(Stream) : AsksEcho(Stream[p]) =>
            \/ p < Len(Stream) /\ Answers(Stream[p + 1], Stream[p])
            \/ p = Len(Stream) /\ dpc = "executing" /\ Stream[p] = Echo(job)
            \/ p = Len(Stream) /\ dpc \in {"failing", "dead"}
            \/ p + 1 = Len(Stream) /\ dpc = "dead" /\ Stream[p + 1].kind = "ack"

Echoed ==
    cpc = "echo" =>
        \A p \in 1..Len(rxBuf) : AsksEcho(rxBuf[p]) =>
            p < Len(rxBuf) /\ Answers(rxBuf[p + 1], rxBuf[p])

\* Past the echo, DEMO finds the answer next; ADCS may get here without an echo.
Aligned ==
    cpc = "reading" =>
        /\ code \in Asks
        /\ owner = "demo" => rxBuf # <<>> /\ rxBuf[1].kind = "answer" /\ rxBuf[1].code = code

StreamInv == Earlier /\ Attributed /\ Served /\ Paired /\ Echoed /\ Aligned
                     /\ ResponsesBuffered /\ AnswerFresh

\* The stream, frame by frame.
LEMMA StreamIs ==
  ASSUME TypeOK
  PROVE  /\ Len(rxBuf) \in Nat /\ Len(toClient) \in Nat
         /\ Stream \in Seq(Frames \cup Acks)
         /\ Len(Stream) = Len(rxBuf) + Len(toClient)
         /\ \A p \in 1..Len(rxBuf) : Stream[p] = rxBuf[p]
         /\ \A p \in 1..Len(toClient) : Stream[Len(rxBuf) + p] = toClient[p]
<1>1. rxBuf \in Seq(Frames \cup Acks) /\ toClient \in Seq(Frames \cup Acks)
  BY DEF TypeOK
<1> QED  BY <1>1 DEF Stream

\* The device adds a frame behind the stream.
LEMMA StreamGrows ==
  ASSUME TypeOK, NEW m \in Frames \cup Acks, rxBuf' = rxBuf, toClient' = Append(toClient, m)
  PROVE  /\ Len(Stream) \in Nat /\ Len(Stream') = Len(Stream) + 1
         /\ \A p \in 1..Len(Stream) : Stream'[p] = Stream[p]
         /\ Stream'[Len(Stream) + 1] = m
<1>1. rxBuf \in Seq(Frames \cup Acks) /\ toClient \in Seq(Frames \cup Acks)
  BY DEF TypeOK
<1>2. Stream' = rxBuf \o Append(toClient, m)
  BY DEF Stream
<1> QED  BY <1>1, <1>2 DEF Stream

\* simulith_transport_request moves a frame from one part of it to the other.
LEMMA StreamMoves ==
  ASSUME TypeOK, toClient # <<>>, rxBuf' = Append(rxBuf, Head(toClient)), toClient' = Tail(toClient)
  PROVE  Stream' = Stream
<1>1. rxBuf \in Seq(Frames \cup Acks) /\ toClient \in Seq(Frames \cup Acks)
  BY DEF TypeOK
<1>2. Stream' = Append(rxBuf, Head(toClient)) \o Tail(toClient)
  BY DEF Stream
<1> QED  BY <1>1, <1>2 DEF Stream

\* A frame is taken from the socket and not kept.
LEMMA StreamSkips ==
  ASSUME TypeOK, toClient # <<>>, rxBuf' = rxBuf, toClient' = Tail(toClient)
  PROVE  LET b == Len(rxBuf) + 1
         IN  /\ Len(Stream) \in Nat /\ b \in 1..Len(Stream) /\ Stream[b] = Head(toClient)
             /\ Len(Stream') = Len(Stream) - 1
             /\ \A p \in 1..Len(Stream') : Stream'[p] = IF p < b THEN Stream[p] ELSE Stream[p + 1]
<1>1. rxBuf \in Seq(Frames \cup Acks) /\ toClient \in Seq(Frames \cup Acks)
  BY DEF TypeOK
<1>2. Stream' = rxBuf \o Tail(toClient)
  BY DEF Stream
<1> QED  BY <1>1, <1>2 DEF Stream

\* What a step of the driver leaves as it was.
LEMMA DriverKeeps ==
  ASSUME DriverNext \/ GivesUp
  PROVE  /\ UNCHANGED <<owner, dpc, job, outcome>>
         /\ cpc' # "idle"
         /\ cpc' = "flushed" => \E c \in Codes : Flush(c)
         /\ cpc' = "waiting" => Send \/ Buffer \/ SkipStaleAck
         /\ cpc' = "echo" => TakeAck \/ Poll
<1>1. ASSUME NEW c \in Codes, Flush(c)
      PROVE UNCHANGED <<owner, dpc, job, outcome>> /\ cpc' = "flushed"
  BY <1>1 DEF Flush, device
<1>2. CASE Send \/ Buffer \/ SkipStaleAck
  BY <1>2 DEF Send, Buffer, SkipStaleAck, WriteFails, AfterEcho, driver, device
<1>3. CASE TakeAck \/ Poll
  BY <1>3 DEF TakeAck, Poll, WriteFails, AfterEcho, device
<1>4. CASE SendFails \/ TimeOut \/ ReadEcho \/ ReadAnswer \/ ReadTimesOut
  BY <1>4 DEF SendFails, TimeOut, ReadEcho, ReadAnswer, ReadTimesOut, WriteFails, AfterEcho, device
<1> QED  BY <1>1, <1>2, <1>3, <1>4 DEF DriverNext, GivesUp

\* The requests at the device carry numbers the driver has given.
LEMMA AtDeviceGiven ==
  ASSUME TypeOK, InOrder
  PROVE  AtDevice \subseteq Ids /\ \A i \in AtDevice : i <= id
<1>1. ASSUME NEW i \in AtDevice PROVE i \in Ids /\ i <= id
  <2>1. CASE \E k \in 1..Len(toDevice) : i = toDevice[k].id
    BY <2>1, Messages DEF TypeOK, InOrder
  <2>2. CASE i = job.id /\ dpc \notin {"free", "dead"}
    BY <2>2 DEF TypeOK, InOrder
  <2> QED  BY <2>1, <2>2 DEF AtDevice
<1> QED  BY <1>1

\* A request that is late was sent before the transaction that finds it so.
LEMMA DriverEarlier ==
  ASSUME IInv, StreamInv, DriverNext \/ GivesUp
  PROVE  Earlier'
<1> USE DEF Earlier
<1>0. id \in Nat /\ late \subseteq Nat /\ cpc' # "idle" /\ (\A i \in late : i <= id /\ (cpc # "flushed" => i < id))
  BY DriverKeeps DEF IInv, TypeOK, Ids, StreamInv
<1>1. ASSUME NEW c \in Codes, Flush(c) PROVE Earlier'
  BY <1>0, <1>1, AtDeviceGiven DEF Flush, IInv
<1>2. CASE Send \/ SendFails
  <2>1. id' = id + 1 /\ late' = late
    BY <1>2 DEF Send, SendFails
  <2> QED  BY <1>0, <2>1
<1>3. CASE ~(Send \/ SendFails) /\ ~\E c \in Codes : Flush(c)
  <2>1. id' = id /\ late' = late /\ cpc # "flushed"
    BY <1>3 DEF DriverNext, GivesUp, Buffer, SkipStaleAck, TakeAck, ReadEcho, ReadAnswer, Poll,
                TimeOut, ReadTimesOut, driver
  <2> QED  BY <1>0, <2>1
<1> QED  BY <1>1, <1>2, <1>3

\* What the driver keeps, or still has to read, is as expected as it was.
LEMMA DriverAttributed ==
  ASSUME IInv, StreamInv, DriverNext \/ GivesUp
  PROVE  Attributed'
<1>0. /\ rxBuf \in Seq(Frames) /\ toClient \in Seq(Frames \cup Acks) /\ toDevice \in Seq(Queued)
      /\ AtDevice \subseteq Awaited
      /\ \A k \in 1..Len(rxBuf) : rxBuf[k].id \in Awaited
      /\ \A k \in 1..Len(toClient) : toClient[k].id \in Awaited
      /\ UNCHANGED <<dpc, job>>
  BY DriverKeeps DEF IInv, TypeOK, StreamInv, Attributed
<1>1. ASSUME NEW c \in Codes, Flush(c) PROVE Attributed'
  <2>1. AtDevice' = AtDevice /\ Awaited' = AtDevice /\ rxBuf' = <<>> /\ toClient' = <<>>
    BY <1>1 DEF Flush, AtDevice, Awaited, device
  <2> QED  BY <2>1 DEF Attributed
<1>2. CASE Send
  <2>1. Awaited = late /\ Awaited' = late \cup {id'} /\ rxBuf' = rxBuf /\ toClient' = toClient
    BY <1>2 DEF Send, Awaited
  <2>2. AtDevice' \subseteq AtDevice \cup {id'}
    <3>1. toDevice' = Append(toDevice, Request(id', code))
      BY <1>2 DEF Send
    <3>2. \A k \in 1..Len(toDevice') : \/ k \in 1..Len(toDevice) /\ toDevice'[k] = toDevice[k]
                                       \/ toDevice'[k].id = id'
      BY <1>0, <3>1 DEF Request
    <3> QED  BY <1>0, <3>2 DEF AtDevice
  <2> QED  BY <1>0, <2>1, <2>2 DEF Attributed
<1>3. CASE SendFails
  <2>1. Awaited \subseteq Awaited' /\ rxBuf' = rxBuf /\ toClient' = toClient /\ AtDevice' = AtDevice
    BY <1>3, <1>0 DEF SendFails, Awaited, AtDevice, WriteFails, AfterEcho
  <2> QED  BY <1>0, <2>1 DEF Attributed
<1>4. CASE ~(Send \/ SendFails) /\ ~\E c \in Codes : Flush(c)
  <2>1. Awaited' = Awaited /\ AtDevice' = AtDevice
    BY <1>0, <1>4, DriverKeeps
       DEF DriverNext, GivesUp, Buffer, SkipStaleAck, TakeAck, ReadEcho, ReadAnswer, Poll,
           TimeOut, ReadTimesOut, driver, Awaited, AtDevice, device
  <2>2. \/ toClient' = toClient
        \/ toClient # <<>> /\ toClient' = Tail(toClient)
    BY <1>4 DEF DriverNext, GivesUp, Buffer, SkipStaleAck, TakeAck, ReadEcho, ReadAnswer, Poll,
                TimeOut, ReadTimesOut
  <2>3. \/ rxBuf' = rxBuf
        \/ rxBuf # <<>> /\ rxBuf' = Tail(rxBuf)
        \/ rxBuf' = <<>>
        \/ toClient # <<>> /\ rxBuf' = <<Head(toClient)>>
        \/ toClient # <<>> /\ rxBuf' = Append(rxBuf, Head(toClient))
    BY <1>4 DEF DriverNext, GivesUp, Buffer, SkipStaleAck, TakeAck, ReadEcho, ReadAnswer, Poll,
                TimeOut, ReadTimesOut, driver
  <2>4. \A k \in 1..Len(toClient') : toClient'[k].id \in Awaited
    <3>1. CASE toClient # <<>> /\ toClient' = Tail(toClient)
      <4>1. \A k \in 1..Len(toClient') : k + 1 \in 1..Len(toClient) /\ toClient'[k] = toClient[k + 1]
        BY <1>0, <3>1
      <4> QED  BY <1>0, <4>1
    <3> QED  BY <1>0, <2>2, <3>1
  <2>5. \A k \in 1..Len(rxBuf') : rxBuf'[k].id \in Awaited
    <3>1. toClient # <<>> => Head(toClient).id \in Awaited
      <4>1. toClient # <<>> => Head(toClient) = toClient[1] /\ 1 \in 1..Len(toClient)
        BY <1>0
      <4> QED  BY <1>0, <4>1
    <3>2. CASE rxBuf # <<>> /\ rxBuf' = Tail(rxBuf)
      <4>1. \A k \in 1..Len(rxBuf') : k + 1 \in 1..Len(rxBuf) /\ rxBuf'[k] = rxBuf[k + 1]
        BY <1>0, <3>2
      <4> QED  BY <1>0, <4>1
    <3>3. CASE toClient # <<>> /\ rxBuf' = <<Head(toClient)>>
      BY <3>1, <3>3
    <3>4. CASE toClient # <<>> /\ rxBuf' = Append(rxBuf, Head(toClient))
      <4>1. \A k \in 1..Len(rxBuf') : \/ k \in 1..Len(rxBuf) /\ rxBuf'[k] = rxBuf[k]
                                      \/ rxBuf'[k] = Head(toClient)
        BY <1>0, <3>4
      <4> QED  BY <1>0, <3>1, <3>4, <4>1
    <3>5. CASE rxBuf' = <<>>
      BY <3>5
    <3> QED  BY <1>0, <2>3, <3>2, <3>3, <3>4, <3>5
  <2> QED  BY <1>0, <2>1, <2>4, <2>5 DEF Attributed
<1> QED  BY <1>1, <1>2, <1>3, <1>4

\* Sequences written out and appended to.
LEMMA Appended ==
  ASSUME NEW a, NEW b, NEW c
  PROVE  /\ Append(<<>>, a) = <<a>> /\ Append(<<a>>, b) = <<a, b>>
         /\ Append(<<a, b>>, c) = <<a, b, c>>
<1> DEFINE S == {a, b, c}
<1>1. <<>> \in Seq(S) /\ <<a>> \in Seq(S) /\ <<a, b>> \in Seq(S) /\ <<a, b, c>> \in Seq(S)
  OBVIOUS
<1>2. Append(<<>>, a) = <<a>>
  <2>1. Append(<<>>, a) \in Seq(S) /\ Len(Append(<<>>, a)) = 1 /\ Append(<<>>, a)[1] = a
    BY <1>1
  <2> QED  BY <1>1, <2>1, SeqEqual, Z3
<1>3. Append(<<a>>, b) = <<a, b>>
  <2>1. /\ Append(<<a>>, b) \in Seq(S) /\ Len(Append(<<a>>, b)) = 2
        /\ Append(<<a>>, b)[1] = a /\ Append(<<a>>, b)[2] = b
    BY <1>1
  <2>2. \A i \in 1..2 : i = 1 \/ i = 2
    OBVIOUS
  <2>3. \A i \in 1..2 : Append(<<a>>, b)[i] = <<a, b>>[i]
    BY <2>1, <2>2
  <2>4. Len(<<a, b>>) = 2
    OBVIOUS
  <2> HIDE DEF S
  <2> QED  BY <1>1, <2>1, <2>3, <2>4, SeqEqual, Zenon
<1>4. Append(<<a, b>>, c) = <<a, b, c>>
  <2>1. /\ Append(<<a, b>>, c) \in Seq(S) /\ Len(Append(<<a, b>>, c)) = 3
        /\ Append(<<a, b>>, c)[1] = a /\ Append(<<a, b>>, c)[2] = b /\ Append(<<a, b>>, c)[3] = c
    BY <1>1
  <2>2. \A i \in 1..3 : i = 1 \/ i = 2 \/ i = 3
    OBVIOUS
  <2>3. \A i \in 1..3 : Append(<<a, b>>, c)[i] = <<a, b, c>>[i]
    BY <2>1, <2>2
  <2>4. Len(<<a, b, c>>) = 3
    OBVIOUS
  <2> HIDE DEF S
  <2> QED  BY <1>1, <2>1, <2>3, <2>4, SeqEqual, Zenon
<1> QED  BY <1>2, <1>3, <1>4

\* Everything that is said of the driver's request carries its number.
LEMMA SaidIsMine ==
  ASSUME NEW s \in Seq(Frames \cup Acks), Said(s), NEW k \in 1..Len(s)
  PROVE  s[k].id = id
<1>1. PICK e : e = Echo(Mine)
  OBVIOUS
<1>2. PICK a : a = Answer(Mine)
  OBVIOUS
<1>3. PICK y : y = Ack(id, TRUE)
  OBVIOUS
<1>4. PICK n : n = Ack(id, FALSE)
  OBVIOUS
<1>5. e.id = id /\ a.id = id
  BY <1>1, <1>2 DEF Echo, Answer, Mine, Request
<1>6. y.id = id /\ n.id = id
  BY <1>3, <1>4 DEF Ack
<1>7. Append(<<e>>, y) = <<e, y>> /\ Append(<<e, a>>, y) = <<e, a, y>>
  BY Appended
<1>8. s \in {<<>>, <<e>>, <<n>>, <<e, a>>, <<e, n>>, <<e, y>>, <<e, a, y>>}
  BY <1>1, <1>2, <1>3, <1>4, <1>7 DEF Said, Responses
<1> HIDE DEF Said
<1> QED  BY <1>5, <1>6, <1>8

\* A step of the driver moves the boundary of its buffer along the stream, or takes
\* an old acknowledgement out of it; what is said of its own request stays behind.
LEMMA DriverServed ==
  ASSUME IInv, StreamInv, DriverNext \/ GivesUp
  PROVE  Served'
<1>0. /\ TypeOK /\ InOrder /\ id \in Nat /\ late \subseteq Nat
      /\ (\A i \in late : i <= id /\ (cpc \notin {"idle", "flushed"} => i < id))
      /\ UNCHANGED <<dpc, job, outcome>>
  BY DriverKeeps DEF IInv, TypeOK, Ids, StreamInv, Earlier
<1>1. CASE Send
  <2>1. /\ id' = id + 1 /\ late' = late /\ rxBuf' = rxBuf /\ toClient' = toClient /\ cpc = "flushed"
        /\ toDevice' = Append(toDevice, Request(id', code)) /\ code' = code
    BY <1>1 DEF Send
  <2>2. /\ toDevice \in Seq(Queued) /\ \A k \in 1..Len(toDevice) : toDevice[k].id \in Ids
        /\ job.id <= id /\ job.id \in Nat
        /\ \A k \in 1..Len(toDevice) : toDevice[k].id <= id
    <3>1. toDevice \in Seq(Queued) /\ job \in Requests
      BY <1>0 DEF TypeOK
    <3>2. job.id \in Nat /\ \A k \in 1..Len(toDevice) : toDevice[k].id \in Ids
      BY <3>1, Messages DEF Requests
    <3> QED  BY <1>0, <3>1, <3>2 DEF InOrder
  <2>3. \A k \in 1..Len(toDevice') : \/ toDevice'[k].id <= id /\ toDevice'[k].id \in Ids
                                     \/ toDevice'[k].code = code
    <3>1. \A k \in 1..Len(toDevice') : \/ k \in 1..Len(toDevice) /\ toDevice'[k] = toDevice[k]
                                       \/ toDevice'[k] = Request(id', code)
      BY <2>1, <2>2
    <3> QED  BY <2>2, <3>1 DEF Request
  <2>4. \A k \in 1..Len(toDevice') : toDevice'[k].id = id' => toDevice'[k].code = code'
    BY <1>0, <2>1, <2>3 DEF Ids
  <2>5. job'.id # id'
    BY <1>0, <2>1, <2>2
  <2>6. Said(<<>>)' /\ <<>> \in Seq(Frames \cup Acks)
    <3>1. Said(<<>>)'
      BY <2>5, Zenon DEF Said
    <3> QED  BY <3>1
  <2>7. \E n \in Nat : EndsWith(n, <<>>)'
    <3>1. Stream' = Stream /\ Len(Stream) \in Nat
      BY <1>0, <2>1, StreamIs DEF Stream
    <3>2. \A p \in 1..Len(Stream) : Stream[p].id \in late
      <4>1. /\ \A k \in 1..Len(rxBuf) : rxBuf[k].id \in late
            /\ \A k \in 1..Len(toClient) : toClient[k].id \in late
        BY <2>1 DEF StreamInv, Attributed, Awaited
      <4>2. \A p \in 1..Len(Stream) : p \in 1..Len(rxBuf) \/ p - Len(rxBuf) \in 1..Len(toClient)
        BY <1>0, StreamIs
      <4>3. \A p \in 1..Len(Stream) : p = Len(rxBuf) + (p - Len(rxBuf))
        BY <1>0, StreamIs
      <4> QED  BY <1>0, StreamIs, <4>1, <4>2, <4>3
    <3>3. PICK n \in Nat : n = Len(Stream)
      BY <3>1
    <3>4. EndsWith(n, <<>>)'
      BY <2>1, <3>1, <3>2, <3>3 DEF EndsWith
    <3> QED  BY <3>4
  <2> HIDE DEF Said, EndsWith
  <2> QED  BY <2>4, <2>5, <2>6, <2>7 DEF Served
<1>2. CASE cpc = "waiting" /\ Buffer
  <2>1. CASE cpc' = "waiting"
    <3>1. /\ rxBuf' = Append(rxBuf, Head(toClient)) /\ toClient' = Tail(toClient) /\ toClient # <<>>
          /\ UNCHANGED <<id, code, late, toDevice>>
      BY <1>2, <2>1 DEF Buffer, WriteFails, AfterEcho
    <3>2. Stream' = Stream
      BY <1>0, <3>1, StreamMoves
    <3>3. \A s : Said(s)' <=> Said(s)
      BY <1>0, <3>1 DEF Said, Mine
    <3>4. \A n, s : EndsWith(n, s)' <=> EndsWith(n, s)
      BY <3>1, <3>2 DEF EndsWith
    <3> HIDE DEF Said, EndsWith
    <3> QED  BY <1>0, <1>2, <3>1, <3>3, <3>4 DEF StreamInv, Served
  <2>2. CASE cpc' # "waiting"
    BY <2>2 DEF Served
  <2> QED  BY <2>1, <2>2
<1>3. CASE SkipStaleAck
  <2>1. /\ rxBuf' = rxBuf /\ toClient' = Tail(toClient) /\ toClient # <<>> /\ cpc = "waiting" /\ cpc' = cpc
        /\ UNCHANGED <<id, code, late, toDevice>> /\ Head(toClient).id # id
    BY <1>3 DEF SkipStaleAck, Own, driver, device
  <2> DEFINE b == Len(rxBuf) + 1
  <2>2. /\ Len(Stream) \in Nat /\ b \in 1..Len(Stream) /\ Stream[b] = Head(toClient)
        /\ Len(Stream') = Len(Stream) - 1
        /\ \A p \in 1..Len(Stream') : Stream'[p] = IF p < b THEN Stream[p] ELSE Stream[p + 1]
    BY <1>0, <2>1, StreamSkips
  <2> HIDE DEF b
  <2>3. PICK n \in Nat, s \in Seq(Frames \cup Acks) : Said(s) /\ EndsWith(n, s)
    BY <2>1 DEF StreamInv, Served
  <2>4. Len(s) \in Nat
    OBVIOUS
  <2>5. /\ Len(Stream) = n + Len(s)
        /\ \A p \in 1..n : Stream[p].id \in late
        /\ \A k \in 1..Len(s) : Stream[n + k] = s[k]
    BY <2>3 DEF EndsWith
  <2>6. b <= n
    <3> SUFFICES ASSUME ~(b <= n) PROVE FALSE
      OBVIOUS
    <3>1. b - n \in 1..Len(s) /\ b = n + (b - n)
      BY <2>2, <2>4, <2>5
    <3>2. Stream[b] = s[b - n]
      BY <2>5, <3>1
    <3>3. s[b - n].id = id
      BY <2>3, <3>1, SaidIsMine
    <3> QED  BY <2>1, <2>2, <3>2, <3>3
  <2>7. n - 1 \in Nat /\ Len(Stream') = (n - 1) + Len(s)
    BY <2>2, <2>4, <2>5, <2>6
  <2>8. \A p \in 1..(n - 1) : Stream'[p].id \in late
    <3> TAKE p \in 1..(n - 1)
    <3>1. p \in 1..Len(Stream') /\ p \in 1..n /\ p + 1 \in 1..n
      BY <2>4, <2>7
    <3> QED  BY <2>2, <2>5, <3>1
  <2>9. \A k \in 1..Len(s) : Stream'[(n - 1) + k] = s[k]
    <3> TAKE k \in 1..Len(s)
    <3>1. (n - 1) + k \in 1..Len(Stream') /\ ~((n - 1) + k < b) /\ (n - 1) + k + 1 = n + k
      BY <2>2, <2>4, <2>6, <2>7
    <3> QED  BY <2>2, <2>5, <3>1
  <2>10. EndsWith(n - 1, s)'
    BY <2>1, <2>7, <2>8, <2>9 DEF EndsWith
  <2>11. Said(s)'
    BY <1>0, <2>1, <2>3 DEF Said, Mine
  <2> QED  BY <1>0, <2>1, <2>7, <2>10, <2>11 DEF StreamInv, Served
<1>4. CASE cpc' # "waiting"
  BY <1>4 DEF Served
<1>5. cpc' = "waiting" => Send \/ (cpc = "waiting" /\ Buffer) \/ SkipStaleAck
  BY DriverKeeps DEF Buffer
<1> QED  BY <1>1, <1>2, <1>3, <1>4, <1>5

\* What the driver takes out of the stream is an acknowledgement, never an answer.
LEMMA DriverPaired ==
  ASSUME IInv, StreamInv, DriverNext \/ GivesUp
  PROVE  Paired'
<1>0. TypeOK /\ UNCHANGED <<dpc, job>>
  BY DriverKeeps DEF IInv
<1>1. ASSUME NEW c \in Codes, Flush(c) PROVE Paired'
  <2>1. rxBuf' = <<>> /\ toClient' = <<>>
    BY <1>1 DEF Flush
  <2>2. Len(Stream') = 0
    BY <2>1 DEF Stream
  <2> QED  BY <2>2 DEF Paired
<1>2. CASE cpc' = "waiting" /\ (Send \/ Buffer)
  <2>1. cpc \in {"flushed", "waiting"} /\ Stream' = Stream
    <3>1. CASE Send
      BY <3>1 DEF Send, Stream
    <3>2. CASE Buffer
      <4>1. /\ rxBuf' = Append(rxBuf, Head(toClient)) /\ toClient' = Tail(toClient) /\ toClient # <<>>
            /\ cpc = "waiting"
        BY <1>2, <3>2 DEF Buffer, WriteFails, AfterEcho
      <4> QED  BY <1>0, <4>1, StreamMoves
    <3> QED  BY <1>2, <3>1, <3>2
  <2> QED  BY <1>0, <2>1 DEF StreamInv, Paired
<1>3. CASE SkipStaleAck
  <2>1. /\ rxBuf' = rxBuf /\ toClient' = Tail(toClient) /\ toClient # <<>> /\ cpc = "waiting"
        /\ Head(toClient).kind = "ack"
    BY <1>3 DEF SkipStaleAck, driver
  <2> DEFINE b == Len(rxBuf) + 1
  <2>2. /\ Len(Stream) \in Nat /\ b \in 1..Len(Stream) /\ Stream[b] = Head(toClient)
        /\ Len(Stream') = Len(Stream) - 1
        /\ \A p \in 1..Len(Stream') : Stream'[p] = IF p < b THEN Stream[p] ELSE Stream[p + 1]
    BY <1>0, <2>1, StreamSkips
  <2> HIDE DEF b
  <2>3. ASSUME NEW p \in 1..Len(Stream'), AsksEcho(Stream'[p])
        PROVE  \/ p < Len(Stream') /\ Answers(Stream'[p + 1], Stream'[p])
               \/ p = Len(Stream') /\ dpc = "executing" /\ Stream'[p] = Echo(job)
               \/ p = Len(Stream') /\ dpc \in {"failing", "dead"}
               \/ p + 1 = Len(Stream') /\ dpc = "dead" /\ Stream'[p + 1].kind = "ack"
    <3>1. PICK q \in 1..Len(Stream) : q = IF p < b THEN p ELSE p + 1
      BY <2>2
    <3>2. Stream'[p] = Stream[q] /\ AsksEcho(Stream[q]) /\ q # b
      BY <2>2, <2>3, <3>1
    <3>3. \/ q < Len(Stream) /\ Answers(Stream[q + 1], Stream[q])
          \/ q = Len(Stream) /\ dpc = "executing" /\ Stream[q] = Echo(job)
          \/ q = Len(Stream) /\ dpc \in {"failing", "dead"}
          \/ q + 1 = Len(Stream) /\ dpc = "dead" /\ Stream[q + 1].kind = "ack"
      BY <2>1, <3>2 DEF StreamInv, Paired
    <3>4. CASE q + 1 = b
      <4>1. p = q /\ ~Answers(Stream[q + 1], Stream[q]) /\ q < Len(Stream)
        BY <2>1, <2>2, <3>1, <3>4 DEF Answers
      <4>2. q + 1 = Len(Stream) /\ dpc = "dead"
        BY <2>2, <3>1, <3>3, <4>1
      <4> QED  BY <2>2, <4>1, <4>2
    <3>5. CASE q + 1 # b /\ q < Len(Stream)
      <4>1. p < Len(Stream') /\ Stream'[p + 1] = Stream[q + 1] /\ (q + 1 = Len(Stream) => p + 1 = Len(Stream'))
        BY <2>2, <3>1, <3>5, SMTT(60)
      <4> QED  BY <2>2, <3>1, <3>2, <3>3, <3>5, <4>1
    <3>6. CASE q = Len(Stream)
      <4>1. p = Len(Stream')
        BY <2>2, <3>1, <3>2, <3>6
      <4>2. (dpc = "executing" /\ Stream[q] = Echo(job)) \/ dpc \in {"failing", "dead"}
        BY <2>2, <3>3, <3>6
      <4> QED  BY <3>2, <4>1, <4>2
    <3>7. q + 1 = b \/ (q + 1 # b /\ q < Len(Stream)) \/ q = Len(Stream)
      BY <2>2, <3>1
    <3> QED  BY <3>4, <3>5, <3>6, <3>7, Zenon
  <2> QED  BY <1>0, <2>3 DEF Paired
<1>4. CASE cpc' \notin {"flushed", "waiting"}
  BY <1>4 DEF Paired
<1> QED  BY <1>1, <1>2, <1>3, <1>4, DriverKeeps

\* When the driver takes its own acknowledgement that the command has been
\* executed, that is the end of the stream, and what the command leaves is before it.
LEMMA AckIsLast ==
  ASSUME IInv, StreamInv, TakeAck, Head(toClient).ok
  PROVE  LET own == Responses(Mine)
             n   == Len(rxBuf) - Len(own)
         IN  /\ n \in Nat /\ Len(Stream) = Len(rxBuf) + 1 /\ dpc = "free"
             /\ \A k \in 1..n : rxBuf[k].id \in late
             /\ \A k \in 1..Len(own) : rxBuf[n + k] = own[k]
             /\ Stream[Len(rxBuf) + 1].kind = "ack" /\ code = Mine.code
<1> DEFINE own == Responses(Mine)
<1>0. TypeOK /\ id \in Nat /\ late \subseteq Nat /\ (\A i \in late : cpc = "waiting" => i < id)
  BY DEF IInv, TypeOK, Ids, StreamInv, Earlier
<1>1. cpc = "waiting" /\ toClient # <<>> /\ Head(toClient).kind = "ack" /\ Head(toClient).id = id
  BY DEF TakeAck, Own
<1>2. PICK n \in Nat, s \in Seq(Frames \cup Acks) : Said(s) /\ EndsWith(n, s)
  BY <1>1 DEF StreamInv, Served
<1>3. /\ Len(Stream) = n + Len(s) /\ Len(s) \in Nat
      /\ \A p \in 1..n : Stream[p].id \in late
      /\ \A k \in 1..Len(s) : Stream[n + k] = s[k]
  BY <1>2 DEF EndsWith
<1>4. /\ Len(rxBuf) \in Nat /\ Len(toClient) \in Nat \ {0}
      /\ Len(Stream) = Len(rxBuf) + Len(toClient)
      /\ \A p \in 1..Len(rxBuf) : Stream[p] = rxBuf[p]
      /\ Stream[Len(rxBuf) + 1] = Head(toClient)
  <2>1. Head(toClient) = toClient[1] /\ Len(toClient) \in Nat \ {0}
    BY <1>0, <1>1 DEF TypeOK
  <2>2. 1 \in 1..Len(toClient)
    BY <2>1
  <2> QED  BY <1>0, <2>1, <2>2, StreamIs
<1>5. PICK k \in 1..Len(s) : n + k = Len(rxBuf) + 1
  <2>1. ~(Len(rxBuf) + 1 <= n)
    BY <1>0, <1>1, <1>3, <1>4
  <2>2. (Len(rxBuf) + 1) - n \in 1..Len(s) /\ n + ((Len(rxBuf) + 1) - n) = Len(rxBuf) + 1
    BY <1>3, <1>4, <2>1
  <2> QED  BY <2>2
<1>6. s[k] = Head(toClient) /\ s[k].kind = "ack" /\ s[k].ok
  BY <1>1, <1>3, <1>4, <1>5
<1>7. PICK e, a, y, f : e = Echo(Mine) /\ a = Answer(Mine) /\ y = Ack(id, TRUE) /\ f = Ack(id, FALSE)
  OBVIOUS
<1>8. e.kind = "echo" /\ a.kind = "answer" /\ y.kind = "ack" /\ f.kind = "ack" /\ ~f.ok
  BY <1>7 DEF Echo, Answer, Ack
<1>9. Append(<<e>>, y) = <<e, y>> /\ Append(<<e, a>>, y) = <<e, a, y>>
  BY Appended
<1>10. \/ s \in {<<>>, <<e>>, <<e, a>>, <<f>>, <<e, f>>}
       \/ dpc = "free" /\ own = <<e>> /\ s = <<e, y>>
       \/ dpc = "free" /\ own = <<e, a>> /\ s = <<e, a, y>>
  BY <1>2, <1>7, <1>9 DEF Said, Responses
<1> HIDE DEF own
<1>11. s \notin {<<>>, <<e>>, <<e, a>>, <<f>>, <<e, f>>}
  BY <1>6, <1>8
<1>12. k = Len(s) /\ Len(own) = Len(s) - 1 /\ dpc = "free" /\ \A j \in 1..Len(own) : own[j] = s[j]
  <2>1. CASE own = <<e>> /\ s = <<e, y>>
    BY <1>6, <1>8, <1>10, <1>11, <2>1
  <2>2. CASE own = <<e, a>> /\ s = <<e, a, y>>
    BY <1>6, <1>8, <1>10, <1>11, <2>2
  <2> QED  BY <1>10, <1>11, <2>1, <2>2
<1>13. n = Len(rxBuf) - Len(own) /\ Len(Stream) = Len(rxBuf) + 1 /\ Len(own) \in Nat
  BY <1>3, <1>4, <1>5, <1>12
<1>14. \A p \in 1..n : rxBuf[p].id \in late
  BY <1>3, <1>4, <1>13
<1>15. \A j \in 1..Len(own) : rxBuf[n + j] = own[j]
  <2> TAKE j \in 1..Len(own)
  <2>1. n + j \in 1..Len(rxBuf) /\ j \in 1..Len(s)
    BY <1>3, <1>4, <1>12, <1>13
  <2> QED  BY <1>3, <1>4, <1>12, <2>1
<1> QED  BY <1>1, <1>4, <1>12, <1>13, <1>14, <1>15 DEF own, Mine, Request

\* In the terms of the property: what the command leaves ends the buffer.
LEMMA OwnAtTheEnd ==
  ASSUME IInv, StreamInv, TakeAck, Head(toClient).ok
  PROVE  ResponsesBuffered' /\ Echoed'
<1> DEFINE own == Responses(Mine)
<1>0. /\ TypeOK /\ rxBuf \in Seq(Frames) /\ rxBuf' = rxBuf /\ code' = code /\ id' = id /\ late' = late
      /\ own \in Seq({Echo(Mine), Answer(Mine)}) /\ Len(own) \in Nat
  <2>1. <<Echo(Mine)>> \in Seq({Echo(Mine), Answer(Mine)})
        /\ <<Echo(Mine), Answer(Mine)>> \in Seq({Echo(Mine), Answer(Mine)})
    OBVIOUS
  <2>2. own \in Seq({Echo(Mine), Answer(Mine)})
    BY <2>1, Zenon DEF Responses
  <2> HIDE DEF own
  <2> QED  BY <2>2 DEF IInv, TypeOK, TakeAck
<1>1. PICK n \in Nat : n = Len(rxBuf) - Len(own)
  BY AckIsLast
<1>2. /\ Len(Stream) = Len(rxBuf) + 1 /\ dpc = "free"
      /\ \A k \in 1..n : rxBuf[k].id \in late
      /\ \A k \in 1..Len(own) : rxBuf[n + k] = own[k]
      /\ Stream[Len(rxBuf) + 1].kind = "ack" /\ code = Mine.code
  BY <1>1, AckIsLast
<1> HIDE DEF own
<1>3. ResponsesBuffered'
  <2>1. SubSeq(rxBuf, n + 1, Len(rxBuf)) = own
    <3>1. /\ SubSeq(rxBuf, n + 1, Len(rxBuf)) \in Seq(Frames)
          /\ Len(SubSeq(rxBuf, n + 1, Len(rxBuf))) = Len(own)
          /\ \A k \in 1..Len(own) : SubSeq(rxBuf, n + 1, Len(rxBuf))[k] = rxBuf[n + k]
      BY <1>0, <1>1
    <3> DEFINE u == SubSeq(rxBuf, n + 1, Len(rxBuf))
               S == Frames \cup {Echo(Mine), Answer(Mine)}
    <3>2. u \in Seq(S) /\ own \in Seq(S)
      BY <1>0, <3>1
    <3>3. Len(u) = Len(own) /\ \A k \in 1..Len(u) : u[k] = own[k]
      BY <1>2, <3>1
    <3> HIDE DEF u, S
    <3>4. u = own
      BY <3>2, <3>3, SeqEqual
    <3> QED  BY <3>4 DEF u
  <2>2. own = Responses(Request(id, code))
    BY DEF own, Mine
  <2> QED  BY <1>0, <1>1, <1>2, <2>1, <2>2 DEF ResponsesBuffered
<1>4. Echoed'
  <2>1. ASSUME NEW p \in 1..Len(rxBuf), AsksEcho(rxBuf[p])
        PROVE  p < Len(rxBuf) /\ Answers(rxBuf[p + 1], rxBuf[p])
    <3>1. Len(rxBuf) \in Nat /\ p \in 1..Len(Stream) /\ Stream[p] = rxBuf[p]
          /\ (p < Len(rxBuf) => Stream[p + 1] = rxBuf[p + 1])
      <4>1. Len(rxBuf) \in Nat /\ \A i \in 1..Len(rxBuf) : Stream[i] = rxBuf[i]
        BY <1>0, StreamIs
      <4>2. p \in 1..Len(Stream) /\ (p < Len(rxBuf) => p + 1 \in 1..Len(rxBuf))
        BY <1>2, <4>1
      <4> QED  BY <4>1, <4>2
    <3>2. p < Len(Stream) /\ Answers(Stream[p + 1], Stream[p])
      <4>1. cpc = "waiting" /\ p # Len(Stream) /\ AsksEcho(Stream[p])
        BY <1>2, <2>1, <3>1 DEF TakeAck
      <4> QED  BY <1>2, <3>1, <4>1 DEF StreamInv, Paired
    <3>3. p # Len(rxBuf)
      BY <1>2, <3>2 DEF Answers
    <3> QED  BY <3>1, <3>2, <3>3
  <2> QED  BY <1>0, <2>1 DEF Echoed
<1> QED  BY <1>3, <1>4

\* The driver gets to its echo only by its own acknowledgement.
LEMMA DriverBuffered ==
  ASSUME IInv, StreamInv, DriverNext \/ GivesUp
  PROVE  ResponsesBuffered' /\ Echoed'
<1>1. CASE TakeAck /\ Head(toClient).ok
  BY <1>1, OwnAtTheEnd
<1>2. CASE TakeAck /\ ~Head(toClient).ok
  <2>1. cpc' # "echo"
    BY <1>2 DEF TakeAck, WriteFails, AfterEcho
  <2> QED  BY <2>1 DEF ResponsesBuffered, Echoed
<1>3. CASE Poll /\ cpc' = "echo"
  <2>1. cpc = "echo" /\ rxBuf = <<>>
    BY <1>3 DEF Poll
  <2>2. Len(rxBuf) - Len(Responses(Request(id, code))) >= 0
    BY <2>1 DEF StreamInv, ResponsesBuffered
  <2>3. Len(Responses(Request(id, code))) \in {1, 2}
    BY DEF Responses
  <2>4. Len(rxBuf) = 0
    BY <2>1
  <2> QED  BY <2>2, <2>3, <2>4
<1>4. CASE cpc' # "echo"
  BY <1>4 DEF ResponsesBuffered, Echoed
<1> QED  BY <1>1, <1>2, <1>3, <1>4, DriverKeeps

\* The driver leaves the echo behind, and finds the answer after it.
LEMMA DriverAligned ==
  ASSUME IInv, StreamInv, DriverNext \/ GivesUp
  PROVE  Aligned'
<1>0. rxBuf \in Seq(Frames) /\ owner' = owner
  BY DriverKeeps DEF IInv, TypeOK
<1>1. CASE ReadEcho
  <2> SUFFICES ASSUME cpc' = "reading"
               PROVE  code' \in Asks /\ rxBuf' # <<>> /\ rxBuf'[1].kind = "answer" /\ rxBuf'[1].code = code'
    BY DEF Aligned
  <2>1. /\ rxBuf # <<>> /\ rxBuf' = Tail(rxBuf) /\ code' = code /\ cpc = "echo"
        /\ code \in Asks /\ AsksEcho(Head(rxBuf)) /\ Head(rxBuf).code = code
    BY <1>1 DEF ReadEcho, AfterEcho, AsksEcho
  <2>2. 1 \in 1..Len(rxBuf) /\ Head(rxBuf) = rxBuf[1] /\ Len(rxBuf) \in Nat
    BY <1>0, <2>1
  <2>3. 1 < Len(rxBuf) /\ Answers(rxBuf[2], rxBuf[1])
    BY <2>1, <2>2 DEF StreamInv, Echoed
  <2>4. rxBuf' # <<>> /\ rxBuf'[1] = rxBuf[2]
    <3>1. Len(Tail(rxBuf)) = Len(rxBuf) - 1 /\ Tail(rxBuf) \in Seq(Frames)
      BY <1>0, <2>1
    <3>2. Len(Tail(rxBuf)) # 0 /\ 1 \in 1..Len(Tail(rxBuf))
      BY <2>2, <2>3, <3>1
    <3>3. Tail(rxBuf)[1] = rxBuf[1 + 1]
      BY <1>0, <2>1, <3>2
    <3>4. Tail(rxBuf) # <<>> /\ 1 + 1 = 2
      <4>1. Len(<<>>) = 0 /\ 1 + 1 = 2
        OBVIOUS
      <4> QED  BY <3>2, <4>1, Zenon
    <3>5. rxBuf' = Tail(rxBuf)
      BY <2>1
    <3> QED  BY <3>3, <3>4, <3>5, Zenon
  <2> QED  BY <2>1, <2>2, <2>3, <2>4 DEF Answers
<1>2. CASE SendFails \/ TimeOut \/ Buffer \/ (TakeAck /\ ~Head(toClient).ok)
  <2>1. code' = code /\ cpc' \in {cpc, IF owner = "demo" THEN "failed" ELSE AfterEcho} /\ cpc # "reading"
    BY <1>2 DEF SendFails, TimeOut, Buffer, TakeAck, WriteFails
  <2> QED  BY <1>0, <2>1 DEF Aligned, AfterEcho
<1>3. CASE Poll
  BY <1>0, <1>3 DEF Poll, StreamInv, Aligned
<1>4. ASSUME NEW c \in Codes, Flush(c) PROVE Aligned'
  BY <1>4 DEF Flush, Aligned
<1>5. CASE Send \/ SkipStaleAck \/ (TakeAck /\ Head(toClient).ok) \/ ReadAnswer \/ ReadTimesOut
  BY <1>5 DEF Send, SkipStaleAck, TakeAck, ReadAnswer, ReadTimesOut, driver, Aligned
<1> QED  BY <1>1, <1>2, <1>3, <1>4, <1>5 DEF DriverNext, GivesUp

\* The driver succeeds only on a frame that is an answer to its command.
LEMMA DriverFresh ==
  ASSUME IInv, StreamInv, DriverNext \/ GivesUp
  PROVE  AnswerFresh'
<1>1. CASE ReadAnswer
  <2>1. /\ cpc = "reading" /\ rxBuf # <<>> /\ got' = Head(rxBuf) /\ code' = code /\ id' = id /\ late' = late
        /\ owner \in {"demo", "adcs"} /\ rxBuf \in Seq(Frames)
        /\ cpc' = "succeeded" => Parses(Head(rxBuf))
    BY <1>1 DEF ReadAnswer, IInv, TypeOK
  <2>2. Head(rxBuf) = rxBuf[1] /\ 1 \in 1..Len(rxBuf)
    BY <2>1
  <2>3. rxBuf[1].id \in late \cup {id}
    BY <2>1, <2>2 DEF StreamInv, Attributed, Awaited
  <2>4. owner = "demo" => rxBuf[1].kind = "answer"
    BY <2>1 DEF StreamInv, Aligned
  <2> QED  BY <2>1, <2>2, <2>3, <2>4 DEF AnswerFresh, Parses
<1>2. CASE ReadEcho \/ SendFails \/ TimeOut \/ Buffer \/ TakeAck
  <2>1. code' = code /\ (cpc' = "succeeded" => code \notin Asks)
    BY <1>2 DEF ReadEcho, SendFails, TimeOut, Buffer, TakeAck, WriteFails, AfterEcho
  <2> QED  BY <2>1 DEF AnswerFresh
<1>3. CASE Send \/ Poll \/ ReadTimesOut \/ SkipStaleAck
  BY <1>3 DEF Send, Poll, ReadTimesOut, SkipStaleAck, driver, AnswerFresh
<1>4. ASSUME NEW c \in Codes, Flush(c) PROVE AnswerFresh'
  BY <1>4 DEF Flush, AnswerFresh
<1> QED  BY <1>1, <1>2, <1>3, <1>4 DEF DriverNext, GivesUp

\* No step of the driver disturbs the stream.
LEMMA DriverStream ==
  IInv /\ StreamInv /\ (DriverNext \/ GivesUp) => StreamInv'
BY DriverEarlier, DriverAttributed, DriverServed, DriverPaired, DriverBuffered, DriverAligned, DriverFresh
   DEF StreamInv

\* What a step of the device leaves as it was, and what it adds to the stream.
LEMMA DeviceKeeps ==
  DeviceNext \/ DeviceFails => UNCHANGED <<owner, cpc, code, id, late, rxBuf, got>>
BY DEF DeviceNext, DeviceFails, Receive, RejectAtOnce, SendEcho, Execute, ResponseFails,
       Acknowledge, AckFails, driver

\* One step of the device adds one frame at most, in the name of the request it serves.
LEMMA DeviceSays ==
  ASSUME IInv, SendEcho \/ Execute \/ ResponseFails \/ Acknowledge \/ AckFails
  PROVE  /\ dpc \notin {"free", "dead"} /\ job.id \in Ids /\ job' = job /\ toDevice' = toDevice
         /\ \E m \in Frames \cup Acks : m.id = job.id /\ toClient' \in {toClient, Append(toClient, m)}
<1>0. /\ job \in Requests /\ (dpc # "free" => job.id \in Ids)
      /\ Echo(job).id = job.id /\ Answer(job).id = job.id
      /\ Echo(job) \in Frames /\ Answer(job) \in Frames
  BY Messages DEF IInv, TypeOK, Echo, Answer
<1>1. CASE SendEcho \/ Execute
  BY <1>0, <1>1 DEF SendEcho, Execute
<1>2. CASE ResponseFails \/ AckFails
  BY <1>0, <1>2 DEF ResponseFails, AckFails
<1>3. CASE Acknowledge
  <2>1. PICK ok \in BOOLEAN : ok = (outcome[job.id] = "executed")
    OBVIOUS
  <2>2. toClient' = Append(toClient, Ack(job.id, ok)) /\ dpc \in {"acking", "failing"}
        /\ job' = job /\ toDevice' = toDevice
    BY <1>3, <2>1, Zenon DEF Acknowledge
  <2>3. Ack(job.id, ok) \in Acks /\ Ack(job.id, ok).id = job.id
    BY <1>0, <2>2, Messages DEF Ack
  <2> QED  BY <1>0, <2>2, <2>3
<1> QED  BY <1>1, <1>2, <1>3

\* Nothing comes from the device but in the name of a request it has.
LEMMA DeviceAttributed ==
  ASSUME IInv, StreamInv, DeviceNext \/ DeviceFails
  PROVE  Attributed'
<1>0. /\ toClient \in Seq(Frames \cup Acks) /\ toDevice \in Seq(Queued)
      /\ Awaited' = Awaited /\ rxBuf' = rxBuf /\ AtDevice \subseteq Awaited
      /\ \A k \in 1..Len(rxBuf) : rxBuf[k].id \in Awaited
      /\ \A k \in 1..Len(toClient) : toClient[k].id \in Awaited
  BY DeviceKeeps DEF IInv, TypeOK, StreamInv, Attributed, Awaited
<1>1. CASE Receive \/ RejectAtOnce
  <2>1. /\ dpc = "free" /\ toDevice # <<>> /\ job' = Head(toDevice) /\ toDevice' = Tail(toDevice)
        /\ toClient' = toClient
    BY <1>1 DEF Receive, RejectAtOnce
  <2>2. Head(toDevice) = toDevice[1] /\ 1 \in 1..Len(toDevice)
    BY <1>0, <2>1
  <2>3. \A k \in 1..Len(toDevice') : k + 1 \in 1..Len(toDevice) /\ toDevice'[k] = toDevice[k + 1]
    BY <1>0, <2>1
  <2>4. AtDevice' \subseteq AtDevice
    BY <2>1, <2>2, <2>3 DEF AtDevice
  <2> QED  BY <1>0, <2>1, <2>4 DEF Attributed
<1>2. CASE SendEcho \/ Execute \/ ResponseFails \/ Acknowledge \/ AckFails
  <2>1. PICK m \in Frames \cup Acks : m.id = job.id /\ toClient' \in {toClient, Append(toClient, m)}
    BY <1>2, DeviceSays
  <2>2. job.id \in AtDevice /\ AtDevice' \subseteq AtDevice
    BY <1>2, DeviceSays DEF AtDevice
  <2>3. \A k \in 1..Len(toClient') : toClient'[k].id \in Awaited
    <3>1. CASE toClient' = Append(toClient, m)
      <4>1. \A k \in 1..Len(toClient') : \/ k \in 1..Len(toClient) /\ toClient'[k] = toClient[k]
                                         \/ toClient'[k] = m
        BY <1>0, <3>1
      <4> QED  BY <1>0, <2>1, <2>2, <4>1
    <3> QED  BY <1>0, <2>1, <3>1
  <2> QED  BY <1>0, <2>2, <2>3 DEF Attributed
<1> QED  BY <1>1, <1>2 DEF DeviceNext, DeviceFails

\* A frame more at the end: of what was said, or of what is late.
LEMMA Grown ==
  ASSUME TypeOK, NEW m \in Frames \cup Acks, rxBuf' = rxBuf, toClient' = Append(toClient, m), late' = late,
         NEW n \in Nat, NEW s \in Seq(Frames \cup Acks), EndsWith(n, s), NEW t, t = Append(s, m)
  PROVE  EndsWith(n, t)' /\ (s = <<>> /\ m.id \in late => EndsWith(n + 1, <<>>)')
<1>1. /\ Len(Stream) \in Nat /\ Len(Stream') = Len(Stream) + 1
      /\ \A p \in 1..Len(Stream) : Stream'[p] = Stream[p]
      /\ Stream'[Len(Stream) + 1] = m
  BY StreamGrows
<1>2. /\ Len(Stream) = n + Len(s) /\ Len(s) \in Nat
      /\ \A p \in 1..n : Stream[p].id \in late
      /\ \A k \in 1..Len(s) : Stream[n + k] = s[k]
  BY DEF EndsWith
<1>3. /\ t \in Seq(Frames \cup Acks) /\ Len(t) = Len(s) + 1 /\ t[Len(s) + 1] = m
      /\ \A k \in 1..Len(s) : t[k] = s[k]
  OBVIOUS
<1>4. \A p \in 1..n : Stream'[p].id \in late
  BY <1>1, <1>2
<1>5. EndsWith(n, t)'
  <2>1. ASSUME NEW k \in 1..Len(t) PROVE Stream'[n + k] = t[k]
    <3>1. CASE k \in 1..Len(s)
      <4>1. n + k \in 1..Len(Stream)
        BY <1>2, <3>1
      <4> QED  BY <1>1, <1>2, <1>3, <3>1, <4>1
    <3>2. CASE k = Len(s) + 1
      <4>1. n + k = Len(Stream) + 1
        BY <1>2, <3>2
      <4> QED  BY <1>1, <1>3, <3>2, <4>1
    <3>3. k \in 1..Len(s) \/ k = Len(s) + 1
      BY <1>2, <1>3
    <3> QED  BY <3>1, <3>2, <3>3
  <2>2. Len(Stream') = n + Len(t)
    BY <1>1, <1>2, <1>3
  <2> QED  BY <1>4, <2>1, <2>2 DEF EndsWith
<1>6. ASSUME s = <<>>, m.id \in late PROVE EndsWith(n + 1, <<>>)'
  <2>1. Len(Stream) = n /\ Len(<<>>) = 0
    BY <1>2, <1>6
  <2>2. \A p \in 1..(n + 1) : p \in 1..n \/ p = n + 1
    OBVIOUS
  <2>3. \A p \in 1..(n + 1) : Stream'[p].id \in late
    BY <1>1, <1>4, <1>6, <2>1, <2>2
  <2>4. Len(Stream') = (n + 1) + Len(<<>>) /\ 1..Len(<<>>) = {}
    BY <1>1, <2>1
  <2> QED  BY <2>3, <2>4 DEF EndsWith
<1> QED  BY <1>5, <1>6

\* Of a request the device takes, nothing has been said.
LEMMA TakenServed ==
  ASSUME IInv, StreamInv, Receive \/ RejectAtOnce
  PROVE  Served'
<1> SUFFICES ASSUME cpc' = "waiting" PROVE Served'
  BY DEF Served
<1>0. /\ UNCHANGED <<cpc, code, id, late, rxBuf, toClient>> /\ cpc = "waiting" /\ id \in Nat
      /\ toDevice # <<>> /\ dpc = "free" /\ job' = Head(toDevice) /\ toDevice' = Tail(toDevice)
      /\ toDevice \in Seq(Queued)
  BY DEF Receive, RejectAtOnce, driver, IInv, TypeOK
<1>1. Head(toDevice) = toDevice[1] /\ 1 \in 1..Len(toDevice)
  BY <1>0
<1>2. job.id # id
  <2>1. job.id < toDevice[1].id /\ toDevice[1].id <= id
    BY <1>1 DEF IInv, InOrder
  <2>2. toDevice[1].id \in Nat /\ job.id \in Nat
    BY <1>0, <1>1, Messages DEF IInv, TypeOK, Ids, Requests
  <2> QED  BY <1>0, <2>1, <2>2
<1>3. /\ job'.id \in Ids /\ outcome[job'.id] = "none"
      /\ \A k \in 1..Len(toDevice') : k + 1 \in 1..Len(toDevice) /\ toDevice'[k] = toDevice[k + 1]
  BY <1>0, Taken
<1>4. \/ dpc' = "echoing" /\ outcome' = outcome
      \/ dpc' = "acking" /\ outcome' = [outcome EXCEPT ![job'.id] = "rejected"]
  BY DEF Receive, RejectAtOnce
<1>5. dpc' \in {"echoing", "acking"} /\ outcome'[job'.id] # "executed"
  BY <1>3, <1>4 DEF IInv, TypeOK
<1>6. Said(<<>>)'
  BY <1>5, Zenon DEF Said
<1>7. PICK n \in Nat, s \in Seq(Frames \cup Acks) : Said(s) /\ EndsWith(n, s)
  BY <1>0 DEF StreamInv, Served
<1>8. s = <<>> /\ <<>> \in Seq(Frames \cup Acks)
  BY <1>2, <1>7 DEF Said
<1>9. EndsWith(n, <<>>)'
  <2>1. Stream' = Stream
    BY <1>0 DEF Stream
  <2> QED  BY <1>0, <1>7, <1>8, <2>1 DEF EndsWith
<1>10. /\ \A k \in 1..Len(toDevice) : toDevice[k].id = id => toDevice[k].code = code
       /\ \A k \in 1..Len(toDevice') : toDevice'[k].id = id => toDevice'[k].code = code
       /\ job'.id = id => job'.code = code
  <2>1. \A k \in 1..Len(toDevice) : toDevice[k].id = id => toDevice[k].code = code
    BY <1>0 DEF StreamInv, Served
  <2> QED  BY <1>0, <1>1, <1>3, <2>1
<1> HIDE DEF Said, EndsWith
<1> QED  BY <1>0, <1>6, <1>7, <1>8, <1>9, <1>10 DEF Served

\* What the device says of a late request; nothing is said of the driver's yet.
LEMMA OthersServed ==
  ASSUME IInv, StreamInv, SendEcho \/ Execute \/ ResponseFails \/ Acknowledge \/ AckFails, job.id # id
  PROVE  Served'
<1> SUFFICES ASSUME cpc' = "waiting" PROVE Served'
  BY DEF Served
<1>0. UNCHANGED <<cpc, code, id, late, rxBuf>> /\ cpc = "waiting" /\ TypeOK
  BY DeviceKeeps DEF DeviceNext, DeviceFails, IInv
<1>1. PICK m \in Frames \cup Acks : m.id = job.id /\ toClient' \in {toClient, Append(toClient, m)}
  BY DeviceSays
<1>2. job.id \in late /\ job' = job /\ toDevice' = toDevice
  <2>1. job.id \in AtDevice /\ job' = job /\ toDevice' = toDevice
    BY DeviceSays DEF AtDevice
  <2> QED  BY <1>0, <2>1 DEF StreamInv, Attributed, Awaited
<1>3. PICK n \in Nat, s \in Seq(Frames \cup Acks) : Said(s) /\ EndsWith(n, s)
  BY <1>0 DEF StreamInv, Served
<1>4. s = <<>> /\ <<>> \in Seq(Frames \cup Acks)
  BY <1>3 DEF Said
<1>5. Said(<<>>)'
  BY <1>0, <1>2, Zenon DEF Said
<1>6. \E i \in Nat : EndsWith(i, <<>>)'
  <2>1. CASE toClient' = toClient
    <3>1. Stream' = Stream
      BY <1>0, <2>1 DEF Stream
    <3> QED  BY <1>0, <1>3, <1>4, <3>1 DEF EndsWith
  <2>2. CASE toClient' = Append(toClient, m)
    <3>1. EndsWith(n + 1, <<>>)'
      BY <1>0, <1>1, <1>2, <1>3, <1>4, <2>2, Grown
    <3> QED  BY <3>1
  <2> QED  BY <1>1, <2>1, <2>2
<1>7. /\ \A k \in 1..Len(toDevice) : toDevice[k].id = id => toDevice[k].code = code
      /\ job.id = id => job.code = code
  BY <1>0 DEF StreamInv, Served
<1> HIDE DEF Said, EndsWith
<1> QED  BY <1>0, <1>2, <1>4, <1>5, <1>6, <1>7 DEF Served

\* What the device says of the driver's own request, step by step.
LEMMA OwnServed ==
  ASSUME IInv, StreamInv, SendEcho \/ Execute \/ ResponseFails \/ Acknowledge \/ AckFails, job.id = id
  PROVE  Served'
<1> SUFFICES ASSUME cpc' = "waiting" PROVE Served'
  BY DEF Served
<1>0. UNCHANGED <<cpc, code, id, late, rxBuf>> /\ cpc = "waiting" /\ TypeOK /\ Mine' = Mine
  BY DeviceKeeps DEF DeviceNext, DeviceFails, IInv, Mine
<1>1. /\ job' = job /\ toDevice' = toDevice /\ job.id \in Ids /\ job \in Requests /\ job.code = code
      /\ \A k \in 1..Len(toDevice) : toDevice[k].id = id => toDevice[k].code = code
  <2>1. job' = job /\ toDevice' = toDevice /\ job.id \in Ids
    BY DeviceSays
  <2> QED  BY <1>0, <2>1 DEF StreamInv, Served, TypeOK
<1>2. PICK n \in Nat, s \in Seq(Frames \cup Acks) : Said(s) /\ EndsWith(n, s)
  BY <1>0 DEF StreamInv, Served
<1>3. PICK e \in Frames \cup Acks : e = Echo(Mine) /\ e = Echo(job)
  BY <1>1, Messages DEF Echo, Mine, Request
<1>4. PICK a \in Frames \cup Acks : a = Answer(Mine) /\ a = Answer(job)
  BY <1>1, Messages DEF Answer, Mine, Request
<1>5. PICK y \in Frames \cup Acks : y = Ack(id, TRUE)
  BY <1>1, Messages
<1>6. PICK f \in Frames \cup Acks : f = Ack(id, FALSE)
  BY <1>1, Messages
<1>7. /\ Append(<<>>, e) = <<e>> /\ Append(<<>>, f) = <<f>> /\ Append(<<e>>, a) = <<e, a>>
      /\ Append(<<e>>, f) = <<e, f>>
      /\ {<<>>, <<e>>, <<f>>, <<e, a>>, <<e, f>>} \subseteq Seq(Frames \cup Acks)
      /\ Append(<<e>>, y) \in Seq(Frames \cup Acks) /\ Append(<<e, a>>, y) \in Seq(Frames \cup Acks)
  <2>1. /\ Append(<<>>, e) = <<e>> /\ Append(<<>>, f) = <<f>> /\ Append(<<e>>, a) = <<e, a>>
        /\ Append(<<e>>, f) = <<e, f>>
    BY Appended
  <2> QED  BY <2>1
<1>8. outcome \in [Ids -> {"none", "executed", "rejected", "error"}]
  BY <1>0 DEF TypeOK
\* The end of the stream that is enough.
<1>9. ASSUME NEW t \in Seq(Frames \cup Acks), Said(t)', EndsWith(n, t)' PROVE Served'
  <2> HIDE DEF Said, EndsWith
  <2> QED  BY <1>0, <1>1, <1>9 DEF Served
<1>10. ASSUME toClient' = toClient PROVE EndsWith(n, s)'
  <2>1. Stream' = Stream
    BY <1>0, <1>10 DEF Stream
  <2> QED  BY <1>0, <1>2, <2>1 DEF EndsWith
<1>11. ASSUME NEW m \in Frames \cup Acks, toClient' = Append(toClient, m), NEW t, t = Append(s, m)
       PROVE  EndsWith(n, t)'
  BY <1>0, <1>2, <1>11, Grown
<1>12. CASE SendEcho
  <2>1. toClient' = Append(toClient, e) /\ dpc = "echoing" /\ dpc' = "executing" /\ outcome' = outcome
    BY <1>3, <1>12 DEF SendEcho
  <2>2. s = <<>> /\ outcome[id] # "executed"
    BY <1>2, <2>1 DEF Said
  <2>3. Said(<<e>>)'
    BY <1>0, <1>1, <1>3, <2>1, <2>2, Zenon DEF Said
  <2> QED  BY <1>7, <1>9, <1>11, <2>1, <2>2, <2>3
<1>13. CASE Execute
  <2>1. /\ dpc = "executing" /\ dpc' = "acking" /\ outcome' = [outcome EXCEPT ![job.id] = "executed"]
        /\ code \in Asks => toClient' = Append(toClient, a)
        /\ code \notin Asks => toClient' = toClient
    BY <1>1, <1>4, <1>13 DEF Execute
  <2>2. s = <<e>> /\ outcome'[id] = "executed"
    BY <1>1, <1>2, <1>3, <1>8, <2>1 DEF Said
  <2>3. PICK r \in Seq(Frames \cup Acks) :
           r = Responses(Mine) /\ r = IF code \in Asks THEN <<e, a>> ELSE <<e>>
    BY <1>3, <1>4, <1>7 DEF Responses, Mine, Request
  <2>4. Said(r)'
    BY <1>0, <1>1, <2>1, <2>2, <2>3, Zenon DEF Said, Responses
  <2>5. EndsWith(n, r)'
    <3>1. CASE code \in Asks
      BY <1>7, <1>11, <2>1, <2>2, <2>3, <3>1
    <3>2. CASE code \notin Asks
      BY <1>10, <2>1, <2>2, <2>3, <3>2
    <3> QED  BY <3>1, <3>2
  <2> QED  BY <1>9, <2>4, <2>5
<1>14. CASE ResponseFails
  <2>1. /\ dpc \in {"echoing", "executing"} /\ dpc' = "failing" /\ toClient' = toClient
        /\ outcome' = [outcome EXCEPT ![job.id] = "error"]
    BY <1>14 DEF ResponseFails
  <2>2. s \in {<<>>, <<e>>} /\ outcome'[id] # "executed"
    BY <1>1, <1>2, <1>3, <1>8, <2>1 DEF Said
  <2>3. Said(s)'
    BY <1>0, <1>1, <1>3, <2>1, <2>2 DEF Said
  <2> QED  BY <1>9, <1>10, <2>1, <2>3
<1>15. CASE AckFails
  <2>1. dpc \in {"acking", "failing"} /\ dpc' = "dead" /\ toClient' = toClient /\ outcome' = outcome
    BY <1>15 DEF AckFails
  <2>2. s \in {<<>>, <<e>>} \/ (s = Responses(Mine) /\ outcome[id] = "executed")
    BY <1>2, <1>3, <2>1 DEF Said
  <2>3. Said(s)'
    BY <1>0, <1>1, <1>3, <2>1, <2>2 DEF Said, Responses
  <2> QED  BY <1>9, <1>10, <2>1, <2>3
<1>16. CASE Acknowledge /\ outcome[id] = "executed"
  <2>1. (outcome[job.id] = "executed") = TRUE
    BY <1>16
  <2>2. /\ toClient' = Append(toClient, y) /\ dpc \in {"acking", "failing"}
        /\ dpc' = IF dpc = "failing" THEN "dead" ELSE "free"
    BY <1>5, <1>16, <2>1 DEF Acknowledge
  <2>3. s = Responses(Mine) /\ dpc = "acking"
    BY <1>2, <1>16, <2>2 DEF Said
  <2>4. PICK t \in Seq(Frames \cup Acks) : t = Append(s, y)
    <3>1. s \in Seq(Frames \cup Acks) /\ y \in Frames \cup Acks
      BY <1>2, <1>5
    <3>2. Append(s, y) \in Seq(Frames \cup Acks)
      BY <3>1, AppendProperties, Zenon
    <3> QED  BY <3>2, Zenon
  <2>5. Said(t)'
    <3>1. t = Append(Responses(Mine), Ack(id, TRUE)) /\ dpc' = "free"
      BY <1>5, <2>2, <2>3, <2>4
    <3> QED  BY <1>0, <1>1, <3>1, Zenon DEF Said, Responses
  <2>6. EndsWith(n, t)'
    BY <1>11, <2>2, <2>4
  <2> QED  BY <1>9, <2>5, <2>6
<1>17. CASE Acknowledge /\ outcome[id] # "executed"
  <2>1. (outcome[job.id] = "executed") = FALSE
    BY <1>17
  <2>2. /\ toClient' = Append(toClient, f) /\ dpc \in {"acking", "failing"}
        /\ dpc' \in {"dead", "free"}
    BY <1>6, <1>17, <2>1 DEF Acknowledge
  <2>3. s \in {<<>>, <<e>>}
    BY <1>2, <1>3, <1>17, <2>2 DEF Said
  <2>4. PICK t \in Seq(Frames \cup Acks) : t = Append(s, f) /\ t \in {<<f>>, <<e, f>>}
    BY <1>7, <2>3
  <2>5. Said(t)'
    BY <1>0, <1>1, <1>3, <1>6, <2>2, <2>4 DEF Said
  <2>6. EndsWith(n, t)'
    BY <1>11, <2>2, <2>4
  <2> QED  BY <1>9, <2>5, <2>6
<1> QED  BY <1>12, <1>13, <1>14, <1>15, <1>16, <1>17

\* Whatever the device does, the stream ends with what it has said of the driver's
\* request.
LEMMA DeviceServed ==
  ASSUME IInv, StreamInv, DeviceNext \/ DeviceFails
  PROVE  Served'
<1>1. CASE Receive \/ RejectAtOnce
  BY <1>1, TakenServed
<1>2. CASE SendEcho \/ Execute \/ ResponseFails \/ Acknowledge \/ AckFails
  BY <1>2, OthersServed, OwnServed
<1> QED  BY <1>1, <1>2 DEF DeviceNext, DeviceFails

\* The device answers what it has just echoed, or says nothing more than that it
\* has failed.
LEMMA DevicePaired ==
  ASSUME IInv, StreamInv, DeviceNext \/ DeviceFails
  PROVE  Paired'
<1> SUFFICES ASSUME cpc' \in {"flushed", "waiting"}
             PROVE  \A p \in 1..Len(Stream') : AsksEcho(Stream'[p]) =>
                       \/ p < Len(Stream') /\ Answers(Stream'[p + 1], Stream'[p])
                       \/ p = Len(Stream') /\ dpc' = "executing" /\ Stream'[p] = Echo(job')
                       \/ p = Len(Stream') /\ dpc' \in {"failing", "dead"}
                       \/ p + 1 = Len(Stream') /\ dpc' = "dead" /\ Stream'[p + 1].kind = "ack"
  <2>1. Echo(job)' = Echo(job')
    BY DEF Echo
  <2> QED  BY <2>1 DEF Paired
<1>0. rxBuf' = rxBuf /\ TypeOK
  BY DeviceKeeps DEF IInv
<1>1. \A p \in 1..Len(Stream) : AsksEcho(Stream[p]) =>
         \/ p < Len(Stream) /\ Answers(Stream[p + 1], Stream[p])
         \/ p = Len(Stream) /\ dpc = "executing" /\ Stream[p] = Echo(job)
         \/ p = Len(Stream) /\ dpc \in {"failing", "dead"}
         \/ p + 1 = Len(Stream) /\ dpc = "dead" /\ Stream[p + 1].kind = "ack"
  BY DeviceKeeps DEF StreamInv, Paired
<1> HIDE DEF AsksEcho, Answers
<1>2. CASE toClient' = toClient
  <2>1. Stream' = Stream
    BY <1>0, <1>2 DEF Stream
  <2>2. CASE Receive \/ RejectAtOnce
    <3>1. dpc = "free"
      BY <2>2 DEF Receive, RejectAtOnce
    <3> QED  BY <1>1, <2>1, <3>1
  <2>3. CASE ResponseFails \/ AckFails
    <3>1. dpc \notin {"free", "dead"} /\ dpc' \in {"failing", "dead"}
      BY <2>3 DEF ResponseFails, AckFails
    <3> QED  BY <1>1, <2>1, <3>1
  <2>4. CASE Execute
    <3>1. dpc = "executing" /\ (job.code \in Asks => toClient' = Append(toClient, Answer(job)))
      BY <2>4 DEF Execute
    <3>2. toClient \in Seq(Frames \cup Acks) /\ Answer(job) \in Frames \cup Acks
      BY <1>0, Messages DEF TypeOK
    <3>3. job.code \notin Asks
      BY <1>2, <3>1, <3>2
    <3>4. ~AsksEcho(Echo(job))
      BY <3>3 DEF AsksEcho, Echo
    <3> QED  BY <1>1, <2>1, <3>1, <3>4
  <2>5. CASE SendEcho \/ Acknowledge
    <3>1. toClient \in Seq(Frames \cup Acks) /\ \E m \in Frames \cup Acks : toClient' = Append(toClient, m)
      <4>1. CASE SendEcho
        BY <1>0, <4>1, Messages DEF SendEcho, TypeOK
      <4>2. CASE Acknowledge
        <5>1. PICK ok \in BOOLEAN : ok = (outcome[job.id] = "executed")
          OBVIOUS
        <5>2. toClient' = Append(toClient, Ack(job.id, ok)) /\ Ack(job.id, ok) \in Acks
          <6>1. job.id \in Ids /\ toClient' = Append(toClient, Ack(job.id, ok))
            BY <1>0, <4>2, <5>1, DeviceSays, Zenon DEF Acknowledge
          <6> QED  BY <6>1, Messages
        <5> QED  BY <1>0, <5>2 DEF TypeOK
      <4> QED  BY <2>5, <4>1, <4>2
    <3> QED  BY <1>2, <3>1
  <2> QED  BY <2>2, <2>3, <2>4, <2>5 DEF DeviceNext, DeviceFails
<1>3. ASSUME NEW m \in Frames \cup Acks, toClient' = Append(toClient, m)
      PROVE  /\ Len(Stream) \in Nat /\ Len(Stream') = Len(Stream) + 1
             /\ \A p \in 1..Len(Stream) : Stream'[p] = Stream[p]
             /\ Stream'[Len(Stream) + 1] = m
             /\ \A p \in 1..Len(Stream') : p \in 1..Len(Stream) \/ p = Len(Stream) + 1
  <2>1. /\ Len(Stream) \in Nat /\ Len(Stream') = Len(Stream) + 1
        /\ \A p \in 1..Len(Stream) : Stream'[p] = Stream[p]
        /\ Stream'[Len(Stream) + 1] = m
    BY <1>0, <1>3, StreamGrows
  <2> QED  BY <2>1
<1>4. CASE SendEcho
  <2>1. PICK m \in Frames \cup Acks : m = Echo(job) /\ toClient' = Append(toClient, m)
    BY <1>0, <1>4, Messages DEF SendEcho, TypeOK
  <2>2. dpc = "echoing" /\ dpc' = "executing" /\ job' = job
    BY <1>4 DEF SendEcho
  <2>3. \A p \in 1..Len(Stream) : AsksEcho(Stream[p]) => p < Len(Stream) /\ Answers(Stream[p + 1], Stream[p])
    BY <1>1, <2>2
  <2>4. ASSUME NEW p \in 1..Len(Stream), AsksEcho(Stream'[p])
        PROVE  p < Len(Stream') /\ Answers(Stream'[p + 1], Stream'[p])
    <3>1. Stream'[p] = Stream[p] /\ p < Len(Stream) /\ Answers(Stream[p + 1], Stream[p])
      BY <1>3, <2>1, <2>3, <2>4
    <3>2. p + 1 \in 1..Len(Stream) /\ p < Len(Stream')
      BY <1>3, <2>1, <3>1
    <3> QED  BY <1>3, <2>1, <3>1, <3>2
  <2>5. \A p \in 1..Len(Stream') : p \in 1..Len(Stream) \/ (p = Len(Stream') /\ Stream'[p] = Echo(job'))
    BY <1>3, <2>1, <2>2
  <2> QED  BY <2>2, <2>4, <2>5
<1>5. CASE Execute /\ toClient' # toClient
  <2>1. PICK m \in Frames \cup Acks : m = Answer(job) /\ toClient' = Append(toClient, m)
    BY <1>0, <1>5, Messages DEF Execute, TypeOK
  <2>2. dpc = "executing"
    BY <1>5 DEF Execute
  <2>3. ~AsksEcho(m) /\ Answers(m, Echo(job))
    BY <2>1 DEF AsksEcho, Answers, Answer, Echo
  <2>4. ASSUME NEW p \in 1..Len(Stream), AsksEcho(Stream'[p])
        PROVE  p < Len(Stream') /\ Answers(Stream'[p + 1], Stream'[p])
    <3>1. Stream'[p] = Stream[p] /\ p < Len(Stream')
      BY <1>3, <2>1
    <3>2. CASE p < Len(Stream) /\ Answers(Stream[p + 1], Stream[p])
      <4>1. p + 1 \in 1..Len(Stream)
        BY <1>3, <2>1, <3>2
      <4> QED  BY <1>3, <2>1, <3>1, <3>2, <4>1
    <3>3. CASE p = Len(Stream) /\ Stream[p] = Echo(job)
      BY <1>3, <2>1, <2>3, <3>1, <3>3
    <3> QED  BY <1>1, <2>2, <2>4, <3>1, <3>2, <3>3
  <2> QED  BY <1>3, <2>1, <2>3, <2>4
<1>6. CASE Acknowledge
  <2>1. PICK m \in Frames \cup Acks : m.kind = "ack" /\ toClient' = Append(toClient, m)
    <3>1. PICK ok \in BOOLEAN : ok = (outcome[job.id] = "executed")
      OBVIOUS
    <3>2. job.id \in Ids /\ toClient' = Append(toClient, Ack(job.id, ok))
      BY <1>0, <1>6, <3>1, DeviceSays, Zenon DEF Acknowledge
    <3>3. Ack(job.id, ok) \in Acks /\ Ack(job.id, ok).kind = "ack"
      BY <3>2, Messages DEF Ack
    <3> QED  BY <3>2, <3>3
  <2>2. dpc \in {"acking", "failing"} /\ (dpc = "failing" => dpc' = "dead")
    BY <1>6 DEF Acknowledge
  <2>3. ~AsksEcho(m)
    BY <2>1 DEF AsksEcho
  <2>4. ASSUME NEW p \in 1..Len(Stream), AsksEcho(Stream'[p])
        PROVE  \/ p < Len(Stream') /\ Answers(Stream'[p + 1], Stream'[p])
               \/ p + 1 = Len(Stream') /\ dpc' = "dead" /\ Stream'[p + 1].kind = "ack"
    <3>1. Stream'[p] = Stream[p] /\ p < Len(Stream')
      BY <1>3, <2>1
    <3>2. CASE p < Len(Stream) /\ Answers(Stream[p + 1], Stream[p])
      <4>1. p + 1 \in 1..Len(Stream)
        BY <1>3, <2>1, <3>2
      <4> QED  BY <1>3, <2>1, <3>1, <3>2, <4>1
    <3>3. CASE p = Len(Stream) /\ dpc = "failing"
      BY <1>3, <2>1, <2>2, <3>3
    <3> QED  BY <1>1, <2>2, <2>4, <3>1, <3>2, <3>3
  <2> QED  BY <1>3, <2>1, <2>3, <2>4
<1> QED  BY <1>2, <1>4, <1>5, <1>6 DEF DeviceNext, DeviceFails, Receive, RejectAtOnce, ResponseFails, AckFails

\* No step of the device disturbs the stream.
LEMMA DeviceStream ==
  IInv /\ StreamInv /\ (DeviceNext \/ DeviceFails) => StreamInv'
<1> SUFFICES ASSUME IInv, StreamInv, DeviceNext \/ DeviceFails PROVE StreamInv'
  OBVIOUS
<1>1. Attributed' /\ Served' /\ Paired'
  BY DeviceAttributed, DeviceServed, DevicePaired
<1>2. Earlier' /\ Echoed' /\ Aligned' /\ ResponsesBuffered' /\ AnswerFresh'
  BY DeviceKeeps DEF StreamInv, Earlier, Echoed, Aligned, ResponsesBuffered, AnswerFresh
<1> QED  BY <1>1, <1>2 DEF StreamInv

\* Nothing is on its way at first.
LEMMA StreamInit == Init => StreamInv
<1> SUFFICES ASSUME Init PROVE StreamInv
  OBVIOUS
<1>1. /\ cpc = "idle" /\ late = {} /\ rxBuf = <<>> /\ toClient = <<>> /\ toDevice = <<>> /\ dpc = "free"
  BY DEF Init
<1>2. Earlier /\ Served /\ Paired /\ Echoed /\ Aligned /\ ResponsesBuffered /\ AnswerFresh
  BY <1>1 DEF Earlier, Served, Paired, Echoed, Aligned, ResponsesBuffered, AnswerFresh
<1>3. AtDevice = {}
  BY <1>1 DEF AtDevice
<1>4. Attributed
  BY <1>1, <1>3 DEF Attributed
<1> QED  BY <1>2, <1>4 DEF StreamInv

\* The whole invariant: what the queues hold and what the two sides make of it.
THEOREM StreamKept == Spec => [](IInv /\ StreamInv)
<1>1. IInv /\ StreamInv /\ UNCHANGED vars => StreamInv'
  <2> SUFFICES ASSUME StreamInv, UNCHANGED vars PROVE StreamInv'
    OBVIOUS
  <2>1. Earlier' /\ Attributed' /\ Echoed' /\ Aligned' /\ ResponsesBuffered' /\ AnswerFresh'
    BY DEF StreamInv, Earlier, Attributed, Awaited, AtDevice, Echoed, Aligned, ResponsesBuffered,
           AnswerFresh, vars, driver, device
  <2>2. Served'
    <3>1. UNCHANGED <<cpc, id, code, job, dpc, outcome, toDevice, late, rxBuf, toClient>>
      BY DEF vars, driver, device
    <3>2. Stream' = Stream /\ Mine' = Mine
      BY <3>1 DEF Stream, Mine, Request
    <3>3. \A s : Said(s)' <=> Said(s)
      BY <3>1, <3>2 DEF Said
    <3>4. \A n, s : EndsWith(n, s)' <=> EndsWith(n, s)
      BY <3>1, <3>2 DEF EndsWith
    <3> QED  BY <3>1, <3>3, <3>4 DEF StreamInv, Served
  <2>3. Paired'
    BY DEF StreamInv, Paired, Stream, Echo, vars, driver, device
  <2> QED  BY <2>1, <2>2, <2>3 DEF StreamInv
<1>2. IInv /\ StreamInv /\ [Next]_vars => (IInv /\ StreamInv)'
  BY <1>1, Inductive, DriverStream, DeviceStream DEF Next
<1> QED  BY <1>2, Inductive, StreamInit, PTL DEF Spec

\* When a driver takes its acknowledgement, the echo and the answer of that very
\* transaction are in its buffer, behind nothing but what requests that were late
\* at the flush have left: the order in which demo_sim.c and adcs_sim.c respond and
\* only then complete, and in which simulith_transport_request buffers, is enough.
THEOREM ResponsesAreBuffered == Spec => []ResponsesBuffered
BY StreamKept, PTL DEF StreamInv

\* The frame a driver takes as the answer is one, to that command, and no older than
\* the flush, however many requests it had given up on before (demo_device.c and
\* adcs_device.c: flush, write, compare the echo, read).
THEOREM AnswerIsFresh == Spec => []AnswerFresh
BY StreamKept, PTL DEF StreamInv
=============================================================================
