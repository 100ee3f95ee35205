------------------------------- MODULE RadioApp -------------------------------
(***************************************************************************)
(* What is particular to the RADIO application (radio_app.c): it powers    *)
(* the device through a GPIO, and in RADIO_Service, which the scheduler    *)
(* asks for in turn, it reads the uplink into a buffer it cuts into frames *)
(* for CryptoLib, and packs the packets of the downlink pipe into frames.  *)
(* Crypto, frame packing and the software bus are external, modelled from  *)
(* how the application uses them; the device, its ring and the ground are  *)
(* those of RadioLink, cut down to what the application sees.              *)
(***************************************************************************)
EXTENDS DeviceApp, Sequences, SequencesExt

CONSTANTS Frames,      \* bound: the lengths of the frames of the uplink
          Packets,     \* bound: the sizes of the packets for the downlink
          MaxTraffic,  \* bound: the frames and packets of a behaviour
          HeaderSize,  \* of a TC frame: 5
          MaxPayload,  \* RADIO_MAX_PAYLOAD_SIZE, the longest TC frame
          MaxRx,       \* RADIO_CFG_MAX_RX_MSGS_PER_POLL
          FieldLength, \* dataFieldLength of a TM frame
          MaxTx        \* RADIO_CFG_MAX_TX_MSGS_PER_POLL

ASSUME RadioAssumption ==
    /\ Frames \in Seq(HeaderSize..MaxPayload) /\ Packets \in Seq(Nat \ {0})
    /\ {MaxTraffic, MaxPayload, MaxRx, FieldLength, MaxTx} \subseteq Nat \ {0}
    /\ HeaderSize \in Nat \ {0, 1} /\ HeaderSize <= MaxPayload

VARIABLES radio,     \* the device: whether it is powered, and its mode
          hkMode,    \* DeviceHK.Mode, as the last housekeeping reported it
          ring,      \* the cells the device has received and not handed over
          buffer,    \* ReceiveBuffer, as far as ReceiveBuffLength
          attempts,  \* max_rx_transactions
          sent, published, \* frames sent, frames whose packets were published
          next, damaged,   \* history: see Uplink
          pipe,      \* RADIO_DownlinkPipe
          held,      \* the packet in hand, if any: SBBufPtr and pkt_len
          frame,     \* radio_frame_info: isReady, the packets in it, and
                     \* whether an idle packet has taken what they left
          count,     \* pkt_count
          made, taken, dropped, onAir \* packets published, and of those taken
                     \* from the pipe: all, lost with an error, transmitted

uplinkVars   == <<ring, buffer, attempts, sent, published, next, damaged>>
downlinkVars == <<pipe, held, frame, count, made, taken, dropped, onAir>>
radioVars    == <<radio, hkMode, uplinkVars, downlinkVars>>

Receiving    == {"rx", "duplex"}
Transmitting == {"tx", "duplex"}
Modes        == {"sleep", "rx", "tx", "duplex"}
EmptyFrame   == [ready |-> FALSE, packets |-> <<>>, full |-> FALSE]

RadioInit ==
    /\ radio = [powered |-> FALSE, mode |-> "sleep"] /\ hkMode = "sleep"
    /\ buffer = <<>> /\ attempts = 0 /\ ring = <<>> /\ sent = 0 /\ published = <<>> /\ next = 1 /\ damaged = FALSE
    /\ pipe = <<>> /\ held = <<>> /\ frame = EmptyFrame /\ count = 0
    /\ made = 0 /\ taken = <<>> /\ dropped = {} /\ onAir = <<>>

\* In a new process, but for the bytes of the uplink and what was in the frame.
RadioStarts ==
    /\ hkMode' = "sleep" /\ attempts' = 0
    /\ pipe' = <<>> /\ held' = <<>> /\ frame' = EmptyFrame /\ count' = 0
    /\ UNCHANGED <<radio, sent, published, made, taken, onAir>>

\* A frame of the uplink is a sequence of cells, numbered from 1; the first
\* HeaderSize of them say how long it is.
Cells(f) == [i \in 1..Frames[f] |-> <<f, i>>]

\* The bytes still to be handled are the frames from next on, unless bytes of
\* the stream were lost: then the stream is damaged until nothing of it is left.
Uplink(b, r, n, d) ==
    LET empty == b = <<>> /\ r = <<>>
    IN  /\ buffer' = b /\ ring' = r
        /\ damaged' = (d /\ ~empty) /\ next' = IF empty THEN sent + 1 ELSE n

\* Bound: a service counts errors, and frames it has sent, no further than one.
Count(c) == counted' = [counted EXCEPT ![c] = 1]

-----------------------------------------------------------------------------
(***************************************************************************)
(* The device and the ground. While the radio is on and its mode receives, *)
(* a frame arrives, perhaps cut by a full ring. The rail may be cycled.    *)
(***************************************************************************)
FrameArrives ==
    /\ app = "radio" /\ sent < Len(Frames) /\ sent + made < MaxTraffic /\ radio.powered /\ radio.mode \in Receiving
    /\ sent' = sent + 1
    /\ \E cut \in {0, 1} :
          Uplink(buffer, ring \o SubSeq(Cells(sent'), 1, Frames[sent'] - cut), next,
                 damaged \/ cut > 0)
    /\ UNCHANGED <<appVars, radio, hkMode, attempts, published, downlinkVars>>

\* What a frame in the buffer was the beginning of is lost with the ring.
RingLost == Uplink(buffer, <<>>, next, TRUE)

RailCycled ==
    /\ app = "radio" /\ radio.powered /\ ring # <<>> /\ radio' = [radio EXCEPT !.mode = "duplex"]
    /\ RingLost
    /\ UNCHANGED <<appVars, hkMode, attempts, sent, published, downlinkVars>>

PacketMade ==
    /\ app = "radio" /\ made < Len(Packets) /\ sent + made < MaxTraffic
    /\ made' = made + 1 /\ pipe' = Append(pipe, made')
    /\ UNCHANGED <<appVars, radio, hkMode, uplinkVars, held, frame, count, taken, dropped,
                   onAir>>

-----------------------------------------------------------------------------
\* RADIO_Enable: RADIO_InitDevice opens one interface after the other, and
\* RADIO_PowerOn writes the GPIO; whatever is open stays so if a step fails.
\* A radio that was off, and is on a rail, starts in duplex mode.
EnableRadio ==
    /\ app = "radio" /\ ~enabled /\ Handle("command")
    /\ open' \in BOOLEAN
    /\ \E powered \in {FALSE, open'} :
          /\ enabled' = powered /\ counted' = Accepted(powered)
          /\ radio' = IF powered /\ ~radio.powered
                       THEN [powered |-> TRUE, mode |-> "duplex"] ELSE radio
    /\ executed' = TRUE /\ UNCHANGED <<step, hkMode, uplinkVars, downlinkVars>>

\* RADIO_PowerOff, whose result nobody looks at, and the closing of every
\* interface. The device forgets its mode; ReceiveBuffLength is not touched.
PowerOffAndClose ==
    /\ enabled' = FALSE /\ open' = FALSE
    /\ \/ radio' = [powered |-> FALSE, mode |-> "sleep"] /\ RingLost
       \/ UNCHANGED <<radio, ring, buffer, next, damaged>>

DisableRadio ==
    /\ app = "radio" /\ enabled /\ Handle("command") /\ PowerOffAndClose
    /\ counted' = Accepted(TRUE) /\ executed' = TRUE
    /\ UNCHANGED <<step, hkMode, attempts, sent, published, downlinkVars>>

ExitRadio ==
    /\ app = "radio" /\ step = "idle" /\ step' = "exited"
    /\ IF enabled THEN PowerOffAndClose
                  ELSE UNCHANGED <<enabled, open, radio, ring, buffer, next, damaged>>
    /\ UNCHANGED <<app, message, counted, executed, hkMode, attempts, sent, published,
                   downlinkVars>>

\* RADIO_Configure counts a packet that breaks two rules twice, unlike DEMO.
ConfigureRadio ==
    /\ app = "radio" /\ Handle("command")
    /\ \E valid \in BOOLEAN, x \in Exchange, mode \in Modes :
          IF enabled /\ valid
          THEN /\ counted' = Accepted(x.ok)
               /\ radio' = IF x.done THEN [radio EXCEPT !.mode = mode] ELSE radio
          ELSE /\ counted' = [Nothing EXCEPT !.cmdErr = IF enabled \/ valid THEN 1 ELSE 2]
               /\ UNCHANGED radio
    /\ executed' = TRUE /\ UNCHANGED <<step, enabled, open, hkMode, uplinkVars, downlinkVars>>

HousekeepingRadio ==
    /\ app = "radio" /\ Poll
    /\ hkMode' = IF counted'.dev = 1 THEN radio.mode ELSE hkMode
    /\ UNCHANGED <<radio, uplinkVars, downlinkVars>>

-----------------------------------------------------------------------------
(***************************************************************************)
(* RADIO_Service: the uplink, if the mode last reported receives.          *)
(***************************************************************************)
Service ==
    /\ app = "radio" /\ Handle("request") /\ counted' = Nothing
    /\ attempts' = MaxRx
    /\ step' = IF enabled /\ hkMode \in Receiving THEN "receive" ELSE "downlink"
    /\ executed' = TRUE
    /\ UNCHANGED <<enabled, open, radio, hkMode, ring, buffer, sent, published, next, damaged,
                   downlinkVars>>

serviceOnly == <<app, enabled, open, message, executed, radio, hkMode>>

\* RADIO_ReceiveData: as much as there is and the buffer has room for. A failed
\* exchange may have taken the bytes out of the device's ring.
Room == IF Len(ring) < MaxPayload - Len(buffer) THEN Len(ring) ELSE MaxPayload - Len(buffer)

Receive ==
    /\ step = "receive" /\ attempts > 0
    /\ LET rest == SubSeq(ring, Room + 1, Len(ring))
       IN  \/ /\ Uplink(buffer \o SubSeq(ring, 1, Room), rest, next, damaged)
              /\ step' = (IF Room = 0 THEN "downlink" ELSE "parse") /\ UNCHANGED counted
           \/ /\ Count("devErr") /\ step' = "downlink"
              /\ \/ Room > 0 /\ Uplink(buffer, rest, next, TRUE)
                 \/ UNCHANGED <<ring, buffer, next, damaged>>
    /\ UNCHANGED <<serviceOnly, attempts, sent, published, downlinkVars>>

ReceivedEnough ==
    /\ step = "receive" /\ attempts = 0 /\ step' = "downlink"
    /\ UNCHANGED <<serviceOnly, counted, uplinkVars, downlinkVars>>

\* Only a true header says how long its frame is; other bytes may say anything.
TrueHeader(b) == Len(b) >= HeaderSize /\ \A i \in 1..HeaderSize : b[i] = <<b[1][1], i>>
Apparent(b)   == IF TrueHeader(b) THEN {Frames[b[1][1]]} ELSE 1..MaxPayload
Whole(b)      == TrueHeader(b) /\ SubSeq(b, 1, Frames[b[1][1]]) = Cells(b[1][1])

\* Fault: a frame waits for what comes after it.
PartialUntilMore(b, length) == Len(b) < HeaderSize \/ length >= Len(b)

\* Less than a header, or than the frame: kept for what comes next.
Partial(b, length) == Len(b) < HeaderSize \/ length > Len(b)

\* Crypto_TC_ProcessSecurity on the bytes of one frame: no bytes but those of a
\* whole frame pass it, and a frame may be refused.
Secure(b) ==
    \/ /\ Whole(b) /\ published' = Append(published, b[1][1]) /\ UNCHANGED counted
    \/ /\ Count("devErr") /\ UNCHANGED published

Parse ==
    /\ step = "parse"
    /\ \E length \in Apparent(buffer) :
          \/ /\ Partial(buffer, length)
             /\ step' = "receive" /\ attempts' = attempts - 1
             /\ UNCHANGED <<counted, ring, buffer, published, next, damaged>>
          \/ /\ ~Partial(buffer, length) /\ length >= HeaderSize
             /\ Secure(SubSeq(buffer, 1, length))
             /\ Uplink(SubSeq(buffer, length + 1, Len(buffer)), ring, next + 1, damaged)
             /\ UNCHANGED <<step, attempts>>
    /\ UNCHANGED <<serviceOnly, sent, downlinkVars>>

\* A length shorter than a header: go on where bytes look like a frame that is
\* all there; a true header with its frame is not passed over. Or drop it all.
Resync ==
    /\ step = "parse" /\ Len(buffer) >= HeaderSize /\ ~TrueHeader(buffer)
    /\ LET From(k)  == SubSeq(buffer, k, Len(buffer))
           Fits(k)  == TrueHeader(From(k)) => ~Partial(From(k), Frames[buffer[k][1]])
           Sure(k)  == TrueHeader(From(k)) /\ Fits(k)
           Places   == 2..(Len(buffer) - HeaderSize + 1)
       IN  \/ \E k \in Places :
                 /\ Fits(k) /\ \A j \in Places : Sure(j) => k <= j
                 /\ Uplink(From(k), ring, next, damaged)
           \/ /\ \A k \in Places : ~Sure(k)
              /\ Uplink(<<>>, ring, next, damaged)
    /\ UNCHANGED <<serviceOnly, step, counted, attempts, sent, published, downlinkVars>>

-----------------------------------------------------------------------------
(***************************************************************************)
(* Then the downlink, if the mode last reported transmits; otherwise the   *)
(* packets that wait are thrown away.                                      *)
(***************************************************************************)
\* The service ends, and with it its locals.
Return == step' = "idle" /\ count' = 0
Fail   == Count("devErr") /\ Return
Lose(packets) == dropped' = dropped \cup ToSet(packets)
Size(p) == Packets[p]
Used(f) ==
    LET sum[n \in 0..Len(f.packets)] == IF n = 0 THEN 0 ELSE sum[n - 1] + Size(f.packets[n])
    IN  sum[Len(f.packets)]
Free(f) == IF f.full THEN 0 ELSE FieldLength - Used(f)

Downlink ==
    /\ step = "downlink"
    /\ IF enabled /\ hkMode \in Transmitting
       THEN /\ UNCHANGED pipe
            /\ \/ /\ step' = "fill" /\ count' = 0 /\ frame' = [frame EXCEPT !.ready = TRUE]
                  /\ UNCHANGED counted
               \/ ~frame.ready /\ Fail /\ UNCHANGED frame
       ELSE pipe' = <<>> /\ Return /\ UNCHANGED <<counted, frame>>
    /\ attempts' = 0
    /\ UNCHANGED <<serviceOnly, ring, buffer, sent, published, next, damaged, held, made, taken, dropped, onAir>>

\* Nothing is in hand: take a packet, or make do with the frame as it is.
TakePacket ==
    /\ step = "fill" /\ count < MaxTx /\ held = <<>>
    /\ IF pipe = <<>>
       THEN count' = MaxTx /\ step' = "complete" /\ UNCHANGED <<pipe, held, taken>>
       ELSE /\ pipe' = Tail(pipe) /\ held' = <<Head(pipe)>> /\ taken' = Append(taken, Head(pipe))
            /\ UNCHANGED <<count, step>>
    /\ UNCHANGED <<serviceOnly, counted, uplinkVars, frame, made, dropped, onAir>>

\* Fault: a packet no frame can hold waits for the next frame, for ever.
OversizedNever(p) == FALSE

Oversized(p) == Size(p) >= FieldLength

\* A frame that could not be started takes the packet in hand with it.
StartFails ==
    /\ step = "fill" /\ count < MaxTx /\ held # <<>> /\ ~frame.ready
    /\ Fail /\ Lose(held) /\ held' = <<>>
    /\ UNCHANGED <<serviceOnly, uplinkVars, pipe, frame, made, taken, onAir>>

DropOversized ==
    /\ step = "fill" /\ count < MaxTx /\ held # <<>> /\ Oversized(held[1])
    /\ Count("devErr") /\ Lose(held) /\ held' = <<>> /\ count' = count + 1
    /\ frame' = [frame EXCEPT !.ready = TRUE]
    /\ UNCHANGED <<serviceOnly, step, uplinkVars, pipe, made, taken, onAir>>

AddPacket ==
    /\ step = "fill" /\ count < MaxTx /\ held # <<>> /\ ~Oversized(held[1])
    /\ Size(held[1]) < Free(frame) /\ held' = <<>>
    /\ \/ /\ frame' = [ready |-> TRUE, packets |-> frame.packets \o held, full |-> FALSE]
          /\ count' = count + 1 /\ UNCHANGED <<counted, step, dropped>>
       \/ /\ frame' = [frame EXCEPT !.ready = TRUE]
          /\ Fail /\ Lose(held)
    /\ UNCHANGED <<serviceOnly, uplinkVars, pipe, made, taken, onAir>>

\* Fault: the packet that does not fit is forgotten with the frame it was for.
FrameFullForgets ==
    /\ step = "fill" /\ (count < MaxTx => held # <<>>)
    /\ count < MaxTx => ~Oversized(held[1]) /\ Size(held[1]) >= Free(frame)
    /\ step' = "complete" /\ held' = <<>>
    /\ UNCHANGED <<serviceOnly, counted, uplinkVars, pipe, frame, count, made, taken, dropped,
                   onAir>>

\* The packet in hand must wait for the next frame, or this poll's packets are
\* all handled.
FrameFull ==
    /\ step = "fill" /\ (count < MaxTx => held # <<>>)
    /\ count < MaxTx => ~Oversized(held[1]) /\ Size(held[1]) >= Free(frame)
    /\ step' = "complete"
    /\ UNCHANGED <<serviceOnly, counted, uplinkVars, pipe, held, frame, count, made, taken,
                   dropped, onAir>>

\* The frame is filled up, finished, secured, synchronised and sent. One that
\* cannot be secured is counted and sent nevertheless; one that cannot be
\* finished keeps its packets, and the idle packet, for the next poll.
CompleteFrame ==
    /\ step = "complete"
    /\ \/ \E secured, transmitted \in BOOLEAN :
             /\ counted' = [counted EXCEPT !.dev = IF transmitted THEN 1 ELSE @,
                                           !.devErr = IF secured /\ transmitted THEN @ ELSE 1]
             /\ onAir' = (IF transmitted THEN onAir \o frame.packets ELSE onAir)
             /\ IF transmitted THEN UNCHANGED dropped ELSE Lose(frame.packets)
             /\ frame' = EmptyFrame /\ UNCHANGED held
             /\ IF count < MaxTx THEN step' = "fill" /\ UNCHANGED count ELSE Return
       \/ /\ Fail /\ Lose(held) /\ held' = <<>> /\ frame' = [frame EXCEPT !.full = TRUE]
          /\ UNCHANGED onAir
       \/ /\ Fail /\ Lose(held \o frame.packets) /\ held' = <<>> /\ frame' = EmptyFrame
          /\ UNCHANGED onAir
    /\ UNCHANGED <<serviceOnly, uplinkVars, pipe, made, taken>>

ServiceStep ==
    \/ Receive \/ ReceivedEnough \/ Parse \/ Resync
    \/ Downlink \/ TakePacket \/ StartFails \/ DropOversized \/ AddPacket \/ FrameFull
    \/ CompleteFrame

RadioNext ==
    \/ FrameArrives \/ RailCycled \/ PacketMade
    \/ EnableRadio \/ DisableRadio \/ ExitRadio \/ ConfigureRadio \/ HousekeepingRadio
    \/ Service \/ ServiceStep

-----------------------------------------------------------------------------
RadioTypes ==
    /\ radio \in [powered : BOOLEAN, mode : Modes] /\ hkMode \in Modes
    /\ attempts \in 0..MaxRx /\ count \in 0..MaxTx /\ Len(held) <= 1
    /\ Len(buffer) <= MaxPayload
    /\ dropped \subseteq ToSet(taken) /\ Len(taken) <= made

\* What comes after a cell when nothing is lost.
Follows(c) == IF c[2] < Frames[c[1]] THEN <<c[1], c[2] + 1>> ELSE <<c[1] + 1, 1>>

\* The frames of the uplink are published in their order and none twice. As long
\* as no byte was lost on the way, each has been handed to CryptoLib as it was
\* sent, to be published or refused, or is still to be handled: however the reads
\* cut the stream, what there is of it is, cell by cell, the frames from next on.
\* And a read always finds room for at least one byte.
UplinkFaithful ==
    LET stream == buffer \o ring
    IN  /\ \A i, j \in DOMAIN published : i < j => published[i] < published[j]
        /\ ~damaged /\ stream = <<>> => next = sent + 1
        /\ ~damaged /\ stream # <<>> =>
              /\ stream[1] = <<next, 1>> /\ stream[Len(stream)] = <<sent, Frames[sent]>>
              /\ \A k \in 1..(Len(stream) - 1) : stream[k + 1] = Follows(stream[k])
        /\ step # "parse" => Len(buffer) < MaxPayload

\* No packet the downlink has taken is lost without an error: in the order of
\* their publication and once each they are on the air, in the frame or in hand,
\* or were dropped with an error, the one in hand, which only a local knows,
\* before the service returns; no frame holds too much, none is finished that
\* was not begun.
DownlinkFaithful ==
    LET kept == onAir \o frame.packets \o held
    IN  /\ ToSet(kept) = ToSet(taken) \ dropped
        /\ \A i, j \in DOMAIN kept : i < j => kept[i] < kept[j]
        /\ Used(frame) < FieldLength
        /\ step = "complete" => frame.ready
        /\ step = "idle" => held = <<>>
=============================================================================
