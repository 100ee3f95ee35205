------------------------------ MODULE RadioLink ------------------------------
(***************************************************************************)
(* The radio simulator (comp/radio/sim): packets cross the RF link between *)
(* the ground's UDP socket and the flight software's SPI bus.  Two threads *)
(* share it: the ground thread, which receives uplink packets at any time, *)
(* and the thread of the phases, which is the Director's in on_tick and    *)
(* COMMIT and the component's worker in between (DirectorWorkers shows     *)
(* that the two never run together).  Each step that holds buffer_mutex is *)
(* one action.                                                             *)
(*                                                                         *)
(* Packet contents, the counters and the random generator are left out: a  *)
(* lossy direction may or may not drop a packet, and 42's geometry may put *)
(* the spacecraft in view or not.                                          *)
(***************************************************************************)
EXTENDS Integers, Sequences, FiniteSets, SequencesExt

CONSTANTS Delays,     \* link delays, in ticks
          DefaultMode, DefaultDelay, DefaultLossy, \* the configured link
          QueueDepth, \* RADIO_CFG_LINK_QUEUE_DEPTH
          RxSize,     \* RADIO_SIM_RX_BUFFER_SIZE
          Threshold,  \* RADIO_SIM_INTERRUPT_THRESHOLD
          Period,     \* RADIO_INTERRUPT_UPDATE_PERIOD_NS, in ticks
          BootDelay,  \* of the radio on its rail, in ticks
          Length,     \* bytes of a packet
          Reads,      \* lengths the flight software asks for
          Uplinks, Downlinks, MaxTime, \* bounds: packets each way, ticks
          Operations  \* bound: mode, power and backdoor commands of a run

Dir == {"up", "down"}
LinkModes == {"auto", "always", "never"}

ASSUME RadioAssumption ==
    /\ Delays \subseteq Nat /\ DefaultMode \in LinkModes
    /\ DefaultDelay \in [Dir -> Nat] /\ DefaultLossy \in [Dir -> BOOLEAN]
    /\ {QueueDepth, RxSize, Threshold, Period, Length} \subseteq Nat \ {0}
    /\ BootDelay \in Nat /\ Reads \subseteq Nat
    /\ {Uplinks, Downlinks, MaxTime, Operations} \subseteq Nat

VARIABLES phase,    \* of the Director; "commit" until the next tick begins
          time,     \* power_time_ns, in ticks
          socket,   \* datagrams waiting in the receive socket
          thread, running, \* the ground thread and udp_thread_running
          power,    \* power_gpio.value and the power runtime
          mode,     \* config.Mode and its mirror in the housekeeping
          link,     \* settings and visibility of the RF link
          queue,    \* the packets waiting out a delay, by direction
          last,     \* the last packet that crossed, by direction
          rx,       \* the ring of bytes for the flight software
          irq,      \* interrupt_gpio.value, interrupt_asserted, forced by the host
          nextUpdate, \* next_interrupt_update_ns
          sent, operations, \* packets sent each way, commands given: for the bounds
          pending, ground, resets, offs \* history: see below

radio == <<power, mode, link, queue, last>>
host  == <<rx, irq>>
bound == <<sent, operations>>
epoch == <<resets, offs>>
vars  == <<phase, time, socket, thread, running, radio, host, nextUpdate, bound,
           pending, ground, epoch>>

None == [id |-> 0]

\* A packet knows, for the properties only, how often the radio had been reset
\* by its rail and switched off by its GPIO when it was sent, when it may
\* cross (0 if it did not wait), and if it is a replay.
Packet(n) == [id |-> n, resets |-> resets, offs |-> offs, release |-> 0, replay |-> FALSE]

(***************************************************************************)
(* History, read by no action: the bytes the simulator accepted for the    *)
(* flight software and it has not read, the packets transmitted to the     *)
(* ground, the resets of the radio and the times its GPIO went off.        *)
(***************************************************************************)
EmptyRing == [cell |-> [i \in 0..(RxSize - 1) |-> <<>>], head |-> 0, tail |-> 0]

LinkReset == [mode |-> DefaultMode, up |-> DefaultMode = "always", impaired |-> TRUE,
              delay |-> DefaultDelay, lossy |-> DefaultLossy]

NoInterrupt == [line |-> FALSE, asserted |-> FALSE, forced |-> FALSE]

Init ==
    /\ phase = "commit" /\ time = 0 /\ socket = <<>> /\ thread = "select" /\ running = TRUE
    /\ power = [gpio |-> TRUE, managed |-> FALSE, supply |-> FALSE, boot |-> 0]
    /\ mode = "duplex"
    /\ link = LinkReset
    /\ queue = [d \in Dir |-> <<>>] /\ last = [d \in Dir |-> None]
    /\ rx = EmptyRing /\ irq = NoInterrupt /\ nextUpdate = Period
    /\ sent = [d \in Dir |-> 0] /\ operations = 0
    /\ pending = <<>> /\ ground = <<>> /\ resets = 0 /\ offs = 0

-----------------------------------------------------------------------------
(* The ring of received bytes and its interrupt line. *)

\* Fault: the cell that tells a full ring from an empty one is used too.
SpaceWithoutGap(r) == RxSize - (IF r.head >= r.tail THEN r.head - r.tail
                                ELSE RxSize - r.tail + r.head)

Count(r) == IF r.head >= r.tail THEN r.head - r.tail ELSE RxSize - r.tail + r.head

Space(r) == RxSize - Count(r) - 1

\* Fault: the head of the ring is not wrapped.
WriteUnwrapped(r, p) ==
    LET n == IF Length > Space(r) THEN Space(r) ELSE Length
    IN [r EXCEPT !.head = r.head + n]

\* radio_sim_write_to_rx_buffer: the end of a packet that does not fit is dropped.
Write(r, p) ==
    LET n == IF Length > Space(r) THEN Space(r) ELSE Length
        At(k) == (r.head + k - 1) % RxSize
    IN [r EXCEPT !.head = (r.head + n) % RxSize,
                 !.cell = [i \in DOMAIN r.cell |->
                              IF \E k \in 1..n : At(k) = i
                              THEN <<p, CHOOSE k \in 1..n : At(k) = i>> ELSE r.cell[i]]]

\* The n oldest bytes, and the ring without them.
Bytes(r, n) == [k \in 1..n |-> r.cell[(r.tail + k - 1) % RxSize]]
Without(r, n) ==
    [r EXCEPT !.tail = (r.tail + n) % RxSize,
              !.cell = [i \in DOMAIN r.cell |->
                           IF \E k \in 1..n : (r.tail + k - 1) % RxSize = i
                           THEN <<>> ELSE r.cell[i]]]

UpdateInterrupt(i, r) ==
    LET should == Count(r) >= Threshold
    IN IF i.asserted # should THEN [line |-> should, asserted |-> should, forced |-> FALSE]
       ELSE i

\* radio_sim_deliver_uplink; a packet that does not fit is accepted in part.
DeliverOne(h, p) ==
    LET r == Write(h.rx, p)
        n == Min({Length, RxSize - 1 - Len(h.pending)})
    IN [rx |-> r, irq |-> UpdateInterrupt(h.irq, r),
        pending |-> h.pending \o [k \in 1..n |-> <<p, k>>]]

\* The packets of ps, one after another.
Delivered(h, ps) ==
    LET after[k \in 0..Len(ps)] == IF k = 0 THEN h ELSE DeliverOne(after[k - 1], ps[k])
    IN after[Len(ps)]

Deliver(ps) ==
    LET h == Delivered([rx |-> rx, irq |-> irq, pending |-> pending], ps)
    IN rx' = h.rx /\ irq' = h.irq /\ pending' = h.pending

Ready(t) == ~power.managed \/ (power.supply /\ power.gpio /\ t >= power.boot)
Listens(t) == power.gpio /\ Ready(t) /\ mode \in {"rx", "duplex"}

-----------------------------------------------------------------------------
(* The RF link. *)

\* radio_link_admit: out of view it drops everything.
Admitted(d) == IF ~link.up THEN {FALSE}
               ELSE IF link.impaired /\ link.lossy[d] THEN BOOLEAN ELSE {TRUE}

Delay(d) == IF link.impaired THEN link.delay[d] ELSE 0

\* radio_link_enqueue: a full queue drops the packet.
Enqueue(q, p) == IF Len(q) >= QueueDepth THEN q ELSE Append(q, p)

\* Fault: packets that are due leave before one that is not.
DueAnywhere(q, t) == SelectSeq(q, LAMBDA p : p.release <= t)

\* radio_link_peek_due, until it returns nothing.
Due(q, t) == SubSeq(q, 1, Max({n \in 0..Len(q) : \A i \in 1..n : q[i].release <= t}))

\* radio_link_pop for each of those packets: it takes the head.
Rest(q, t) == SubSeq(q, Len(Due(q, t)) + 1, Len(q))

\* radio_link_update: geometry decides in "auto", when 42 gives any.
InView(m, up) == CASE m = "always" -> {TRUE} [] m = "never" -> {FALSE} [] OTHER -> up

-----------------------------------------------------------------------------
(* The ground and the ground thread. *)

\* The ground sends a datagram, whatever the radio does.
GroundSends ==
    /\ sent["up"] < Uplinks /\ phase # "closed"
    /\ sent' = [sent EXCEPT !["up"] = @ + 1]
    /\ socket' = Append(socket, Packet(sent["up"] + 1))
    /\ UNCHANGED <<phase, time, thread, running, radio, host, nextUpdate, operations, pending,
                   ground, epoch>>

\* Fault: the ground thread does not read the running flag.
SelectForever ==
    /\ thread = "select" /\ socket # <<>> /\ thread' = "receive"
    /\ UNCHANGED <<phase, time, socket, running, radio, host, nextUpdate, bound, pending,
                   ground, epoch>>

\* An error of select, whatever its reason, ends the thread for good.
SelectFails ==
    /\ thread = "select" /\ running /\ thread' = "ended"
    /\ UNCHANGED <<phase, time, socket, running, radio, host, nextUpdate, bound, pending,
                   ground, epoch>>

\* One round of the thread: it ends if it must; select finds the socket
\* readable, or times out and another round begins.  No lock is held after it:
\* a reset may empty the socket before the thread receives.
Select ==
    /\ thread = "select"
    /\ \/ ~running /\ thread' = "ended"
       \/ running /\ socket # <<>> /\ thread' = "receive"
    /\ UNCHANGED <<phase, time, socket, running, radio, host, nextUpdate, bound, pending,
                   ground, epoch>>

\* The packet at the head of the socket, through the link if the radio listens.
Receive ==
    /\ thread = "receive" /\ thread' = "select"
    /\ IF socket = <<>> THEN UNCHANGED <<socket, queue, last, rx, irq, pending>> ELSE
       LET p == Head(socket) IN
       /\ socket' = Tail(socket)
       /\ \E ok \in IF Listens(time) THEN Admitted("up") ELSE {FALSE} :
             /\ last' = IF ok THEN [last EXCEPT !["up"] = p] ELSE last
             /\ queue' = IF ok /\ Delay("up") > 0
                         THEN [queue EXCEPT !["up"] =
                                 Enqueue(@, [p EXCEPT !.release = time + Delay("up")])]
                         ELSE queue
             /\ IF ok /\ Delay("up") = 0 THEN Deliver(<<p>>) ELSE UNCHANGED <<rx, irq, pending>>
    /\ UNCHANGED <<phase, time, running, power, mode, link, nextUpdate, bound, ground, epoch>>

-----------------------------------------------------------------------------
(* The Director's thread: PREPARE. *)

TickBegins == phase = "commit" /\ time < MaxTime

\* The Director asks a radio on a rail for its power first: with its answer the
\* radio has the time of the new tick, before on_tick releases anything.
Snapshot ==
    /\ TickBegins /\ power.managed
    /\ phase' = "tick" /\ time' = time + 1
    /\ UNCHANGED <<socket, thread, running, radio, host, nextUpdate, bound, pending, ground, epoch>>

\* The first critical section of on_tick: the time, the geometry, then the
\* uplink packets that are due.  One whose radio does not listen any more is lost.
OnTick ==
    /\ \/ phase = "tick" /\ time' = time
       \/ TickBegins /\ ~power.managed /\ time' = time + 1
    /\ phase' = "release"
    /\ \E up \in InView(link.mode, BOOLEAN) : link' = [link EXCEPT !.up = up]
    /\ queue' = [queue EXCEPT !["up"] = Rest(@, time')]
    /\ Deliver(IF Listens(time') THEN Due(queue["up"], time') ELSE <<>>)
    /\ UNCHANGED <<socket, thread, running, power, mode, last, nextUpdate, bound, ground, epoch>>

\* radio_sim_transmit_to_ground: the socket may refuse the packet.
Transmit(p) == ground' \in {ground, Append(ground, [packet |-> p, epoch |-> epoch])}

DownlinkDue == queue["down"] # <<>> /\ Head(queue["down"]).release <= time

\* The downlink packets that are due, one after another, whatever the radio's
\* power and mode.
ReleaseDownlink ==
    /\ phase = "release" /\ DownlinkDue
    /\ queue' = [queue EXCEPT !["down"] = Tail(@)] /\ Transmit(Head(queue["down"]))
    /\ UNCHANGED <<phase, time, socket, thread, running, power, mode, link, last, host, nextUpdate,
                   bound, pending, epoch>>

\* The last critical section of on_tick: the interrupt line at its own rate.
EndTick ==
    /\ phase = "release" /\ ~DownlinkDue /\ phase' = "service"
    /\ IF time < nextUpdate THEN UNCHANGED <<irq, nextUpdate>> ELSE
       /\ irq' = UpdateInterrupt(irq, rx)
       /\ nextUpdate' = nextUpdate + ((time - nextUpdate) \div Period + 1) * Period
    /\ UNCHANGED <<time, socket, thread, running, radio, rx, bound, pending, ground, epoch>>

-----------------------------------------------------------------------------
(* The component's worker: one request of the flight software. *)

Operate == operations < Operations /\ operations' = operations + 1

\* What every power loss does to the volatile state of the radio.
ClearBuffers == /\ socket' = <<>>   \* radio_discard_udp
                /\ rx' = EmptyRing /\ irq' = NoInterrupt /\ pending' = <<>>

\* The flight software switches the radio.  Off empties the buffers and puts it
\* to sleep; on configures it again only if its rail is managed.
PowerOn ==
    /\ phase = "service" /\ Operate /\ ~power.gpio
    /\ power' = [power EXCEPT !.gpio = TRUE,
                              !.boot = IF power.managed /\ power.supply
                                       THEN time + BootDelay ELSE @]
    /\ mode' = IF power.managed THEN "duplex" ELSE mode
    /\ UNCHANGED <<phase, time, socket, thread, running, link, queue, last, host, nextUpdate,
                   sent, pending, ground, epoch>>

PowerOff ==
    /\ phase = "service" /\ Operate /\ power.gpio
    /\ power' = [power EXCEPT !.gpio = FALSE] /\ mode' = "sleep"
    /\ ClearBuffers /\ offs' = offs + 1
    /\ UNCHANGED <<phase, time, thread, running, link, queue, last, nextUpdate, sent, ground,
                   resets>>

\* The flight software may write the interrupt line, which is no input to it.
ForceInterrupt ==
    /\ phase = "service" /\ Operate
    /\ \E line \in BOOLEAN : irq' = [irq EXCEPT !.line = line, !.forced = TRUE]
    /\ UNCHANGED <<phase, time, socket, thread, running, radio, rx, nextUpdate, sent, pending,
                   ground, epoch>>

\* radio_sim_handle_spi_command; without power, or while it boots, the radio
\* refuses.  SET_CFG takes any mode; all but three of them are like "sleep".
SetConfiguration ==
    /\ phase = "service" /\ power.gpio /\ Ready(time) /\ Operate
    /\ mode' \in {"sleep", "tx", "rx", "duplex"} \ {mode}
    /\ UNCHANGED <<phase, time, socket, thread, running, power, link, queue, last, host,
                   nextUpdate, sent, pending, ground, epoch>>

ReceiveData ==
    /\ phase = "service" /\ power.gpio /\ Ready(time)
    /\ \E requested \in Reads :
          LET n == Min({requested, Count(rx)})
          IN n > 0 /\ rx' = Without(rx, n) /\ pending' = SubSeq(pending, n + 1, Len(pending))
    /\ UNCHANGED <<phase, time, socket, thread, running, radio, irq, nextUpdate, bound, ground,
                   epoch>>

\* A packet of the flight software crosses the link, or is dropped unnoticed.
SendData ==
    /\ phase = "service" /\ power.gpio /\ Ready(time) /\ sent["down"] < Downlinks
    /\ sent' = [sent EXCEPT !["down"] = @ + 1]
    /\ LET p == Packet(sent["down"] + 1) IN
       \E ok \in IF mode \in {"tx", "duplex"} THEN Admitted("down") ELSE {FALSE} :
          /\ last' = IF ok THEN [last EXCEPT !["down"] = p] ELSE last
          /\ queue' = IF ok /\ Delay("down") > 0
                      THEN [queue EXCEPT !["down"] =
                              Enqueue(@, [p EXCEPT !.release = time + Delay("down")])]
                      ELSE queue
          /\ IF ok /\ Delay("down") = 0 THEN Transmit(p) ELSE UNCHANGED ground
    /\ UNCHANGED <<phase, time, socket, thread, running, power, mode, link, host, nextUpdate,
                   operations, pending, epoch>>

EndService == /\ phase = "service" /\ phase' = "commit"
              /\ UNCHANGED <<time, socket, thread, running, radio, host, nextUpdate, bound,
                             pending, ground, epoch>>

-----------------------------------------------------------------------------
(* The Director's thread: COMMIT. *)

Committing == phase = "commit" /\ time > 0   \* there is none before the first tick

\* radio_power_configure: from here on the radio hangs on a rail, which is off.
Manage ==
    /\ Committing /\ ~power.managed
    /\ power' = [power EXCEPT !.managed = TRUE, !.supply = FALSE]
    /\ UNCHANGED <<phase, time, socket, thread, running, mode, link, queue, last, host,
                   nextUpdate, bound, pending, ground, epoch>>

\* Fault: datagrams that arrived before the reset are received after it.
PowerResetKeepsSocket ==
    /\ rx' = EmptyRing /\ irq' = NoInterrupt /\ pending' = <<>> /\ UNCHANGED socket
    /\ mode' = "duplex" /\ resets' = resets + 1 /\ queue' = [d \in Dir |-> <<>>]

\* radio_power_reset.
PowerReset ==
    /\ ClearBuffers /\ mode' = "duplex" /\ resets' = resets + 1
    /\ queue' = [d \in Dir |-> <<>>]

\* radio_power_set, for a real edge of the rail, and radio_power_reset_component.
PowerSet ==
    /\ Committing /\ Operate /\ power.managed
    /\ power' = [power EXCEPT !.supply = ~@, !.boot = IF power.supply THEN @ ELSE time + BootDelay]
    /\ PowerReset
    /\ UNCHANGED <<phase, time, thread, running, link, last, nextUpdate, sent, ground, offs>>

ResetComponent ==
    /\ Committing /\ Operate /\ power.managed /\ PowerReset
    /\ UNCHANGED <<phase, time, thread, running, power, link, last, nextUpdate, sent, ground, offs>>

\* radio_component_backdoor: a setting of the link.
SetLink ==
    /\ Committing /\ Operate
    /\ \/ \E m \in LinkModes :
             \E up \in InView(m, {link.up}) : link' = [link EXCEPT !.mode = m, !.up = up]
       \/ \E ds \in SUBSET Dir \ {{}}, n \in Delays :
             link' = [link EXCEPT !.delay = [d \in Dir |-> IF d \in ds THEN n ELSE @[d]]]
       \/ \E ds \in SUBSET Dir \ {{}}, l \in BOOLEAN :
             link' = [link EXCEPT !.lossy = [d \in Dir |-> IF d \in ds THEN l ELSE @[d]]]
       \/ \E b \in BOOLEAN : link' = [link EXCEPT !.impaired = b]
    /\ UNCHANGED <<phase, time, socket, thread, running, power, mode, queue, last, host,
                   nextUpdate, sent, pending, ground, epoch>>

\* Replay: the last packet that crossed, uplink only if the radio listens.
Replay ==
    /\ Committing /\ Operate
    /\ \/ /\ last["up"] # None /\ Listens(time)
          /\ Deliver(<<[last["up"] EXCEPT !.replay = TRUE]>>) /\ UNCHANGED ground
       \/ /\ last["down"] # None /\ mode \in {"tx", "duplex"}
          /\ Transmit([last["down"] EXCEPT !.replay = TRUE])
          /\ UNCHANGED <<rx, irq, pending>>
    /\ UNCHANGED <<phase, time, socket, thread, running, radio, nextUpdate, sent, epoch>>

\* radio_link_reset: the configured link, no packet in flight or remembered.
ResetLink ==
    /\ Committing /\ Operate
    /\ link' = LinkReset
    /\ queue' = [d \in Dir |-> <<>>] /\ last' = [d \in Dir |-> None]
    /\ UNCHANGED <<phase, time, socket, thread, running, power, mode, host, nextUpdate, sent,
                   pending, ground, epoch>>

-----------------------------------------------------------------------------
(* The end of the session: radio_sim_cleanup. *)

Stop ==
    /\ phase = "commit" /\ phase' = "joining" /\ running' = FALSE
    /\ UNCHANGED <<time, socket, thread, radio, host, nextUpdate, bound, pending, ground, epoch>>

Join ==
    /\ phase = "joining" /\ thread = "ended" /\ phase' = "closed"
    /\ socket' = <<>> /\ queue' = [d \in Dir |-> <<>>]
    /\ UNCHANGED <<time, thread, running, power, mode, link, last, host, nextUpdate, bound,
                   pending, ground, epoch>>

GroundThread == Select \/ Receive
Worker == PowerOn \/ PowerOff \/ ForceInterrupt \/ SetConfiguration \/ ReceiveData \/ SendData
Commit == Manage \/ PowerSet \/ ResetComponent \/ SetLink \/ Replay \/ ResetLink

Next == \/ GroundSends \/ GroundThread
        \/ SelectFails
        \/ Snapshot \/ OnTick \/ ReleaseDownlink \/ EndTick \/ Worker \/ EndService \/ Commit
        \/ Stop \/ Join

\* The operating system runs the ground thread, and main the cleanup; select
\* need not fail.
Spec == Init /\ [][Next]_vars /\ WF_vars(GroundThread) /\ WF_vars(Join)

-----------------------------------------------------------------------------
PacketOK(p) == /\ p.id \in 1..(Uplinks + Downlinks) /\ p.resets \in Nat /\ p.offs \in Nat
               /\ p.release \in Nat /\ p.replay \in BOOLEAN

\* Types: the queues of the link and the ring stay within their limits.
TypeOK ==
    /\ phase \in {"commit", "tick", "release", "service", "joining", "closed"}
    /\ time \in 0..MaxTime
    /\ thread \in {"select", "receive", "ended"} /\ running \in BOOLEAN
    /\ power \in [gpio : BOOLEAN, managed : BOOLEAN, supply : BOOLEAN, boot : Nat]
    /\ mode \in {"sleep", "tx", "rx", "duplex"}
    /\ link \in [mode : LinkModes, up : BOOLEAN, impaired : BOOLEAN, delay : [Dir -> Nat],
                 lossy : [Dir -> BOOLEAN]]
    /\ DOMAIN queue = Dir /\ DOMAIN last = Dir /\ DOMAIN sent = Dir
    /\ \A d \in Dir : Len(queue[d]) <= QueueDepth /\ \A i \in DOMAIN queue[d] : PacketOK(queue[d][i])
    /\ {rx.head, rx.tail} \subseteq 0..(RxSize - 1)
    /\ irq \in [line : BOOLEAN, asserted : BOOLEAN, forced : BOOLEAN]
    /\ nextUpdate \in Nat /\ operations \in 0..Operations

\* The ring of the simulator is a queue of bytes: it holds exactly the bytes
\* that were accepted and not read, in their order, and between two packets
\* nothing but the end of the first may be missing. No interrupt is lost: while
\* enough bytes wait for the flight software the line is asserted, unless the
\* flight software itself has written it.
RingFaithful ==
    /\ Bytes(rx, Count(rx)) = pending
    /\ \A i \in 1..(Len(pending) - 1) :
          \/ pending[i + 1][2] = 1
          \/ pending[i + 1] = <<pending[i][1], pending[i][2] + 1>>
    /\ Len(pending) >= Threshold => irq.asserted /\ (irq.line \/ irq.forced)

\* Nothing sent before the rail of the radio was last switched or reset crosses
\* the link after it, and no datagram sent before the flight software last
\* switched the radio off is received after it; only replays are older.
NothingFromBefore ==
    /\ \A p \in ToSet(socket) : p.resets = resets /\ p.offs = offs
    /\ \A d \in Dir : \A p \in ToSet(queue[d]) : p.resets = resets
    /\ \A b \in ToSet(pending) : b[1].replay \/
          (b[1].resets = resets /\ (b[1].release = 0 => b[1].offs = offs))
    /\ \A g \in ToSet(ground) : g.packet.replay \/ g.packet.resets = g.epoch[1]

\* Packets that wait out a delay cross in the order in which they were sent,
\* even when the delay is changed meanwhile; none crosses before its delay is
\* over, and once the tick has released the packets none that could cross waits.
Waited(p) == p.release > 0 /\ ~p.replay
InOrder(ps) ==
    \A i, j \in DOMAIN ps : (i < j /\ Waited(ps[i]) /\ Waited(ps[j])) => ps[i].id <= ps[j].id
DelayKept ==
    LET up   == [i \in DOMAIN pending |-> pending[i][1]]
        down == [i \in DOMAIN ground |-> ground[i].packet]
    IN /\ InOrder(up) /\ InOrder(down)
       /\ \A p \in ToSet(up) \cup ToSet(down) : p.release <= time
       /\ (phase # "tick" /\ queue["up"] # <<>>) => Head(queue["up"]).release > time
       /\ (phase \notin {"tick", "release"} /\ queue["down"] # <<>>) =>
             Head(queue["down"]).release > time

\* The cleanup of the component ends: the ground thread notices that it must
\* stop, at the latest after its select has timed out.
CleanupEnds == (phase = "joining") ~> (phase = "closed")

\* What the README of the component says: a packet that is in flight when the
\* radio loses power is lost.
InFlightLost ==
    /\ \A b \in ToSet(pending) : ~b[1].replay => b[1].offs = offs
    /\ \A g \in ToSet(ground) : ~g.packet.replay => g.packet.offs = g.epoch[2]
=============================================================================
