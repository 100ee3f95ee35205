-------------------------- MODULE RadioLink_proofs --------------------------
(***************************************************************************)
(* RadioLink for any delays, any depth of the queues, any size of the ring *)
(* and of a packet, and sessions of any length: the types, that the ring   *)
(* is a faithful queue of bytes, that nothing of before a reset crosses    *)
(* after it, and that delayed packets cross in their order and in time.    *)
(*                                                                         *)
(* The invariant says where each byte and packet comes from.  Ring: which  *)
(* byte each cell holds.  Current: the resets and delays of the packets    *)
(* that wait.  Ordered: packets are numbered as they are sent; those that  *)
(* wait in a queue or in the socket rise, and every one that has crossed   *)
(* after a delay was sent before those that still wait.                    *)
(***************************************************************************)
EXTENDS RadioLink, SequenceTheorems, WellFoundedInduction, TLAPS

\* What a packet, a byte, the ring and its interrupt can be.
Packets == [id : 1..(Uplinks + Downlinks), resets : Nat, offs : Nat, release : Nat,
            replay : BOOLEAN]
ByteSet == Packets \X Nat
Rings   == [cell : [0..(RxSize - 1) -> ByteSet \cup {<<>>}],
            head : 0..(RxSize - 1), tail : 0..(RxSize - 1)]
Lines   == [line : BOOLEAN, asserted : BOOLEAN, forced : BOOLEAN]

\* The cell x places after the first of the ring.
Slot(x) == x % RxSize

\* Of two bytes, the second follows the first in its packet or begins another.
NoGap(bytes) ==
    \A i \in 1..(Len(bytes) - 1) :
        \/ bytes[i + 1][2] = 1
        \/ bytes[i + 1] = <<bytes[i][1], bytes[i][2] + 1>>

\* A ring, its line and the bytes that were accepted and not read.
RingOK(h) ==
    /\ h.rx \in Rings /\ h.irq \in Lines /\ h.pending \in Seq(ByteSet)
    /\ Len(h.pending) = Count(h.rx)
    /\ \A i \in 0..(Len(h.pending) - 1) : h.pending[i + 1] = h.rx.cell[Slot(h.rx.tail + i)]
    /\ NoGap(h.pending)
    /\ Len(h.pending) >= Threshold => h.irq.asserted
    /\ h.irq.asserted => h.irq.line \/ h.irq.forced

\* The types, of the packets inside the sequences too.
Types ==
    /\ phase \in {"commit", "tick", "release", "service", "joining", "closed"}
    /\ time \in 0..MaxTime
    /\ thread \in {"select", "receive", "ended"} /\ running \in BOOLEAN
    /\ power \in [gpio : BOOLEAN, managed : BOOLEAN, supply : BOOLEAN, boot : Nat]
    /\ mode \in {"sleep", "tx", "rx", "duplex"}
    /\ link \in [mode : LinkModes, up : BOOLEAN, impaired : BOOLEAN, delay : [Dir -> Nat],
                 lossy : [Dir -> BOOLEAN]]
    /\ socket \in Seq(Packets) /\ queue \in [Dir -> Seq(Packets)]
    /\ \A d \in Dir : Len(queue[d]) <= QueueDepth
    /\ last \in [Dir -> Packets \cup {None}]
    /\ nextUpdate \in Nat /\ sent \in [Dir -> Nat] /\ operations \in 0..Operations
    /\ ground \in Seq([packet : Packets, epoch : Nat \X Nat])
    /\ resets \in Nat /\ offs \in Nat

Ring == RingOK([rx |-> rx, irq |-> irq, pending |-> pending])

\* Packets that were sent since the radio was last reset (n) and switched off
\* (m): those in the socket, those that wait, those remembered for a replay,
\* those the flight software may read and those that reached the ground by t.
Unread(n, m)     == {p \in Packets : p.release = 0 /\ ~p.replay /\ p.resets = n /\ p.offs = m}
Delayed(n)       == {p \in Packets : p.release > 0 /\ ~p.replay /\ p.resets = n}
Plain            == {p \in Packets : p.release = 0 /\ ~p.replay}
Arrived(n, m, t) == {p \in Packets : /\ p.replay \/ (p.resets = n /\ (p.release = 0 => p.offs = m))
                                     /\ p.release <= t}
Departed(t)      == {g \in [packet : Packets, epoch : Nat \X Nat] :
                        /\ g.packet.replay \/ g.packet.resets = g.epoch[1]
                        /\ g.packet.release <= t}

\* Nothing from before, by place.
SocketCurrent  == \A i \in DOMAIN socket : socket[i] \in Unread(resets, offs)
QueueCurrent   == \A d \in Dir : \A i \in DOMAIN queue[d] : queue[d][i] \in Delayed(resets)
LastPlain      == \A d \in Dir : last[d] \in Plain \cup {None}
PendingCurrent == \A i \in DOMAIN pending : pending[i][1] \in Arrived(resets, offs, time)
GroundCurrent  == \A i \in DOMAIN ground : ground[i] \in Departed(time)

Current == SocketCurrent /\ QueueCurrent /\ LastPlain /\ PendingCurrent /\ GroundCurrent

\* The packets of ps were sent one after another.
Rising(ps) == \A i, j \in DOMAIN ps : i < j => ps[i].id < ps[j].id

\* Packets that were sent before those of q and s and up to the n-th, if they
\* have waited.
Before(p, ps)  == \A j \in DOMAIN ps : p.id <= ps[j].id
First(q, s, n) == {p \in Packets : Waited(p) => Before(p, q) /\ Before(p, s) /\ p.id <= n}

\* The packets of the bytes that wait in the ring, and those the ground received.
Received == [i \in DOMAIN pending |-> pending[i][1]]
Transmitted == [i \in DOMAIN ground |-> ground[i].packet]

\* Datagrams and delayed packets wait in the order in which they were sent, and
\* what has crossed was sent before them.
SocketRising == Rising(socket) /\ \A i \in DOMAIN socket : socket[i].id <= sent["up"]
QueueRising  == \A d \in Dir : /\ Rising(queue[d])
                               /\ \A i \in DOMAIN queue[d] : queue[d][i].id <= sent[d]
QueueFirst   == \A i \in DOMAIN queue["up"], j \in DOMAIN socket :
                   queue["up"][i].id < socket[j].id
UpOrdered    == /\ InOrder(Received)
                /\ \A i \in DOMAIN pending :
                      pending[i][1] \in First(queue["up"], socket, sent["up"])
DownOrdered  == /\ InOrder(Transmitted)
                /\ \A i \in DOMAIN ground :
                      ground[i].packet \in First(queue["down"], <<>>, sent["down"])

Ordered == SocketRising /\ QueueRising /\ QueueFirst /\ UpOrdered /\ DownOrdered

\* What is due has left the queues.
OnTime ==
    /\ (phase # "tick" /\ queue["up"] # <<>>) => queue["up"][1].release > time
    /\ (phase \notin {"tick", "release"} /\ queue["down"] # <<>>) => queue["down"][1].release > time

\* The inductive invariant.
IInv == Types /\ Ring /\ Current /\ Ordered /\ OnTime

-----------------------------------------------------------------------------
\* A set of numbers that is not empty has a least one.
LEMMA LeastNumber ==
    ASSUME NEW T \in SUBSET Nat, T # {}
    PROVE  \E x \in T : \A y \in T : x <= y
<1> DEFINE R == {ss \in Nat \X Nat : ss[1] < ss[2]}
<1>1. IsWellFoundedOn(R, Nat)
    BY NatLessThanWellFounded DEF OpToRel
<1>2. PICK x \in T : \A y \in T : ~(<<y, x>> \in R)
    BY <1>1, WFMin
<1>3. ASSUME NEW y \in T PROVE x <= y
    <2>1. <<y, x>> \in Nat \X Nat /\ <<y, x>>[1] = y /\ <<y, x>>[2] = x
        OBVIOUS
    <2>2. ~(y < x)
        BY <1>2, <2>1
    <2> QED BY <2>2
<1> QED BY <1>3

\* Induction, with a set in place of a predicate.
LEMMA Induction ==
    ASSUME NEW S, 0 \in S, \A n \in Nat : n \in S => n + 1 \in S
    PROVE  Nat \subseteq S
<1> SUFFICES ASSUME Nat \ S # {} PROVE FALSE
    OBVIOUS
<1>1. PICK x \in Nat \ S : \A y \in Nat \ S : x <= y
    BY LeastNumber
<1>2. x - 1 \in Nat /\ ~(x - 1 \in Nat \ S)
    BY <1>1
<1> QED BY <1>1, <1>2

\* The sizes of the ring, of a packet and of a queue are positive.
LEMMA Sizes == RxSize \in Nat /\ RxSize > 0 /\ Length \in Nat /\ Length > 0
               /\ Threshold \in Nat /\ Threshold > 0 /\ Period \in Nat /\ Period > 0
               /\ QueueDepth \in Nat /\ QueueDepth > 0
    BY RadioAssumption

\* Within two turns of the ring, the remainder is a subtraction.
LEMMA Wrap ==
    \A x \in 0..(2 * RxSize - 1) : Slot(x) = IF x < RxSize THEN x ELSE x - RxSize
<1> SUFFICES ASSUME NEW x \in 0..(2 * RxSize - 1)
             PROVE  x % RxSize = IF x < RxSize THEN x ELSE x - RxSize
    BY DEF Slot
<1>1. CASE x < RxSize
    BY <1>1, Sizes
<1>2. CASE x >= RxSize
    BY <1>2, Sizes
<1> QED BY <1>1, <1>2, Sizes

\* The smaller of two numbers.
LEMMA Least ==
    ASSUME NEW a \in Int, NEW b \in Int
    PROVE  Min({a, b}) = IF a > b THEN b ELSE a
    BY DEF Min

\* The number of bytes in the ring, and where its head is.
LEMMA CountRange ==
    ASSUME NEW r \in Rings
    PROVE  /\ Count(r) \in 0..(RxSize - 1)
           /\ r.head = Slot(r.tail + Count(r))
<1>1. r.head \in 0..(RxSize - 1) /\ r.tail \in 0..(RxSize - 1)
    BY DEF Rings
<1>2. Count(r) \in 0..(RxSize - 1)
    BY <1>1, Sizes DEF Count
<1>3. CASE r.head >= r.tail
    <2>1. r.tail + Count(r) = r.head
        BY <1>1, <1>3 DEF Count
    <2> QED BY <1>1, <1>2, <2>1, Wrap, Sizes
<1>4. CASE ~(r.head >= r.tail)
    <2>1. r.tail + Count(r) = RxSize + r.head
        BY <1>1, <1>4, Sizes DEF Count
    <2> QED BY <1>1, <1>2, <2>1, Wrap, Sizes
<1> QED BY <1>3, <1>4

\* How far two places are apart round the ring.
LEMMA Apart ==
    ASSUME NEW t \in 0..(RxSize - 1), NEW c \in 0..(RxSize - 1), NEW h, h = Slot(t + c)
    PROVE  (IF h >= t THEN h - t ELSE RxSize - t + h) = c
<1>1. t + c \in 0..(2 * RxSize - 1)
    BY Sizes
<1>2. h = IF t + c < RxSize THEN t + c ELSE (t + c) - RxSize
    BY <1>1, Wrap
<1>3. CASE t + c < RxSize
    BY <1>2, <1>3, Sizes
<1>4. CASE ~(t + c < RxSize)
    BY <1>2, <1>4, Sizes
<1> QED BY <1>3, <1>4

\* The cells from the tail on are distinct.
LEMMA Distinct ==
    ASSUME NEW t \in 0..(RxSize - 1), NEW i \in 0..(RxSize - 1), NEW j \in 0..(RxSize - 1),
           Slot(t + i) = Slot(t + j)
    PROVE  i = j
    BY Wrap, Sizes

\* Going on from a cell is going on from the tail.
LEMMA GoOn ==
    ASSUME NEW t \in 0..(RxSize - 1), NEW c \in 0..(RxSize - 1), NEW k \in 0..(RxSize - 1),
           c + k <= RxSize - 1
    PROVE  Slot(Slot(t + c) + k) = Slot(t + (c + k))
    BY Wrap, Sizes

\* How many bytes of a packet fit.
Room(r) == IF Length > Space(r) THEN Space(r) ELSE Length

\* What is written fits and leaves one cell free.
LEMMA RoomRange ==
    ASSUME NEW r \in Rings
    PROVE  Room(r) \in Nat /\ Count(r) + Room(r) <= RxSize - 1
    BY CountRange, Sizes DEF Room, Space

\* The k-th byte that is written takes the k-th cell after those in use.
LEMMA WriteAt ==
    ASSUME NEW r \in Rings, NEW k \in 1..Room(r)
    PROVE  (r.head + k - 1) % RxSize = Slot(r.tail + (Count(r) + (k - 1)))
<1>1. /\ r.tail \in 0..(RxSize - 1) /\ Count(r) \in 0..(RxSize - 1) /\ k - 1 \in 0..(RxSize - 1)
      /\ Count(r) + (k - 1) <= RxSize - 1 /\ r.head = Slot(r.tail + Count(r)) /\ r.head \in Int
    BY CountRange, RoomRange, Sizes DEF Rings
<1>2. Slot(Slot(r.tail + Count(r)) + (k - 1)) = Slot(r.tail + (Count(r) + (k - 1)))
    BY <1>1, GoOn
<1>3. r.head + k - 1 = r.head + (k - 1)
    BY <1>1
<1> QED BY <1>1, <1>2, <1>3 DEF Slot

\* A place in the ring is one of its cells.
LEMMA SlotRange ==
    ASSUME NEW t \in 0..(RxSize - 1), NEW i \in 0..RxSize
    PROVE  Slot(t + i) \in 0..(RxSize - 1)
    BY Wrap, Sizes

\* radio_sim_write_to_rx_buffer adds its bytes after those in use.
LEMMA WriteRing ==
    ASSUME NEW r \in Rings, NEW p \in Packets
    PROVE  /\ Write(r, p) \in Rings
           /\ Write(r, p).tail = r.tail
           /\ Count(Write(r, p)) = Count(r) + Room(r)
           /\ \A i \in 0..(Count(r) - 1) :
                 Write(r, p).cell[Slot(r.tail + i)] = r.cell[Slot(r.tail + i)]
           /\ \A k \in 1..Room(r) :
                 Write(r, p).cell[Slot(r.tail + (Count(r) + (k - 1)))] = <<p, k>>
<1> DEFINE w == Write(r, p)
           c == Count(r)
           n == Room(r)
           At(k) == (r.head + k - 1) % RxSize
           Cell(i) == IF \E k \in 1..n : At(k) = i
                      THEN <<p, CHOOSE k \in 1..n : At(k) = i>> ELSE r.cell[i]
<1>1. /\ r.tail \in 0..(RxSize - 1) /\ r.head \in 0..(RxSize - 1)
      /\ r.cell \in [0..(RxSize - 1) -> ByteSet \cup {<<>>}] /\ DOMAIN r = {"cell", "head", "tail"}
    BY DEF Rings
<1>2. c \in 0..(RxSize - 1) /\ n \in Nat /\ c + n <= RxSize - 1
    BY CountRange, RoomRange
<1>3. \A k \in 1..n : At(k) = Slot(r.tail + (c + (k - 1)))
    BY WriteAt
<1>4. w = [r EXCEPT !.head = (r.head + n) % RxSize, !.cell = [i \in DOMAIN r.cell |-> Cell(i)]]
    BY DEF Write, Room
<1>5. /\ w.tail = r.tail /\ w.head = Slot(r.head + n)
      /\ w.cell = [i \in 0..(RxSize - 1) |-> Cell(i)]
      /\ w = [cell |-> w.cell, head |-> w.head, tail |-> w.tail]
    BY <1>1, <1>4 DEF Slot
<1> HIDE DEF w, c, n, At
<1>6. w.head = Slot(r.tail + (c + n))
    <2>1. r.head = Slot(r.tail + c)
        BY CountRange DEF c
    <2>2. n \in 0..(RxSize - 1)
        BY <1>2, Sizes
    <2> QED BY <1>1, <1>2, <1>5, <2>1, <2>2, GoOn
<1>7. w.head \in 0..(RxSize - 1)
    <2>1. c + n \in 0..RxSize
        BY <1>2, Sizes
    <2> QED BY <1>1, <1>6, <2>1, SlotRange
<1>8. ASSUME NEW i \in 0..(RxSize - 1) PROVE Cell(i) \in ByteSet \cup {<<>>}
    <2>1. CASE \E k \in 1..n : At(k) = i
        <3>1. (CHOOSE k \in 1..n : At(k) = i) \in 1..n
            BY <2>1
        <3>2. (CHOOSE k \in 1..n : At(k) = i) \in Nat
            BY <1>2, <3>1
        <3> QED BY <2>1, <3>2 DEF ByteSet
    <2>2. CASE ~\E k \in 1..n : At(k) = i
        BY <1>1, <2>2
    <2> QED BY <2>1, <2>2
<1>9. w \in Rings
    <2> HIDE DEF Cell
    <2>1. w.cell \in [0..(RxSize - 1) -> ByteSet \cup {<<>>}]
        BY <1>5, <1>8
    <2> QED BY <1>1, <1>5, <1>7, <2>1 DEF Rings
<1>10. Count(w) = c + n
    <2>1. c + n \in 0..(RxSize - 1)
        BY <1>2, Sizes
    <2>2. PICK t \in 0..(RxSize - 1), a \in 0..(RxSize - 1) : t = r.tail /\ a = c + n
        BY <1>1, <2>1
    <2>3. (IF w.head >= t THEN w.head - t ELSE RxSize - t + w.head) = a
        BY <1>6, <2>2, Apart
    <2> QED BY <1>5, <2>2, <2>3 DEF Count
<1>11. ASSUME NEW i \in 0..(c - 1) PROVE w.cell[Slot(r.tail + i)] = r.cell[Slot(r.tail + i)]
    <2>1. Slot(r.tail + i) \in 0..(RxSize - 1)
        <3>1. i \in 0..RxSize
            BY <1>2, Sizes
        <3> QED BY <1>1, <3>1, SlotRange
    <2>2. ASSUME NEW k \in 1..n PROVE At(k) # Slot(r.tail + i)
        <3>1. i \in 0..(RxSize - 1) /\ c + (k - 1) \in 0..(RxSize - 1) /\ i # c + (k - 1)
            BY <1>2, Sizes
        <3> QED BY <1>1, <1>3, <3>1, Distinct
    <2> QED BY <1>5, <2>1, <2>2
<1>12. ASSUME NEW k \in 1..n PROVE w.cell[Slot(r.tail + (c + (k - 1)))] = <<p, k>>
    <2> DEFINE a == Slot(r.tail + (c + (k - 1)))
    <2>1. c + (k - 1) \in 0..(RxSize - 1)
        BY <1>2, Sizes
    <2>2. a \in 0..(RxSize - 1)
        BY <1>1, <2>1, SlotRange, Sizes
    <2>3. At(k) = a
        BY <1>3
    <2>4. ASSUME NEW l \in 1..n, At(l) = a PROVE l = k
        <3>1. c + (l - 1) \in 0..(RxSize - 1)
            BY <1>2, Sizes
        <3>2. Slot(r.tail + (c + (l - 1))) = Slot(r.tail + (c + (k - 1)))
            BY <1>3, <2>4
        <3>3. c + (l - 1) = c + (k - 1)
            BY <1>1, <2>1, <3>1, <3>2, Distinct
        <3> QED BY <1>2, <3>3
    <2>5. (CHOOSE l \in 1..n : At(l) = a) = k
        BY <2>3, <2>4
    <2> HIDE DEF a
    <2>6. Cell(a) = <<p, k>>
        BY <2>3, <2>5
    <2>7. w.cell[a] = Cell(a)
        BY <1>5, <2>2
    <2> QED BY <2>6, <2>7 DEF a
<1> QED BY <1>5, <1>9, <1>10, <1>11, <1>12 DEF w, c, n

\* Reading n bytes leaves the others where they are.
LEMMA WithoutRing ==
    ASSUME NEW r \in Rings, NEW n \in 1..Count(r)
    PROVE  /\ Without(r, n) \in Rings
           /\ Without(r, n).tail = Slot(r.tail + n)
           /\ Count(Without(r, n)) = Count(r) - n
           /\ \A i \in 0..(Count(r) - n - 1) :
                 Without(r, n).cell[Slot(r.tail + (n + i))] = r.cell[Slot(r.tail + (n + i))]
<1> DEFINE w == Without(r, n)
           c == Count(r)
           At(k) == (r.tail + k - 1) % RxSize
           Cell(i) == IF \E k \in 1..n : At(k) = i THEN <<>> ELSE r.cell[i]
<1>1. /\ r.tail \in 0..(RxSize - 1) /\ r.head \in 0..(RxSize - 1)
      /\ r.cell \in [0..(RxSize - 1) -> ByteSet \cup {<<>>}] /\ DOMAIN r = {"cell", "head", "tail"}
    BY DEF Rings
<1>2. c \in 0..(RxSize - 1) /\ n \in 1..c
    BY CountRange
<1>3. ASSUME NEW k \in 1..n PROVE At(k) = Slot(r.tail + (k - 1))
    <2>1. r.tail + k - 1 = r.tail + (k - 1)
        BY <1>1, <1>2
    <2> QED BY <2>1 DEF Slot
<1>4. w = [r EXCEPT !.tail = (r.tail + n) % RxSize, !.cell = [i \in DOMAIN r.cell |-> Cell(i)]]
    BY DEF Without
<1>5. /\ w.head = r.head /\ w.tail = Slot(r.tail + n)
      /\ w.cell = [i \in 0..(RxSize - 1) |-> Cell(i)]
      /\ w = [cell |-> w.cell, head |-> w.head, tail |-> w.tail]
    BY <1>1, <1>4 DEF Slot
<1>6. r.head = Slot(r.tail + c)
    BY CountRange DEF c
<1> HIDE DEF w, c, At
<1>7. w.tail \in 0..(RxSize - 1)
    <2>1. n \in 0..RxSize
        BY <1>2, Sizes
    <2> QED BY <1>1, <1>5, <2>1, SlotRange
<1>8. w \in Rings
    <2>1. ASSUME NEW i \in 0..(RxSize - 1) PROVE Cell(i) \in ByteSet \cup {<<>>}
        BY <1>1
    <2> HIDE DEF Cell
    <2>2. w.cell \in [0..(RxSize - 1) -> ByteSet \cup {<<>>}]
        BY <1>5, <2>1
    <2> QED BY <1>1, <1>5, <1>7, <2>2 DEF Rings
<1>9. Count(w) = c - n
    <2>1. r.tail + c \in 0..(2 * RxSize - 1) /\ r.tail + n \in 0..(2 * RxSize - 1)
        BY <1>1, <1>2, Sizes
    <2>2. PICK x \in 0..(2 * RxSize - 1), y \in 0..(2 * RxSize - 1) :
              x = r.tail + c /\ y = r.tail + n
        BY <2>1
    <2>3. /\ w.head = IF x < RxSize THEN x ELSE x - RxSize
          /\ w.tail = IF y < RxSize THEN y ELSE y - RxSize
        BY <1>5, <1>6, <2>2, Wrap
    <2> QED BY <1>1, <1>2, <2>2, <2>3, Sizes, SMTT(60) DEF Count
<1>10. ASSUME NEW i \in 0..(c - n - 1)
       PROVE  w.cell[Slot(r.tail + (n + i))] = r.cell[Slot(r.tail + (n + i))]
    <2>1. n + i \in 0..(RxSize - 1) /\ n + i \in 0..RxSize
        BY <1>2, Sizes
    <2>2. Slot(r.tail + (n + i)) \in 0..(RxSize - 1)
        BY <1>1, <2>1, SlotRange
    <2>3. ASSUME NEW k \in 1..n PROVE At(k) # Slot(r.tail + (n + i))
        <3>1. k - 1 \in 0..(RxSize - 1) /\ k - 1 # n + i
            BY <1>2, Sizes
        <3> QED BY <1>1, <1>3, <2>1, <3>1, Distinct
    <2> QED BY <1>5, <2>2, <2>3
<1> QED BY <1>5, <1>8, <1>9, <1>10 DEF w, c

\* radio_sim_update_interrupt leaves the line as the threshold asks.
LEMMA Interrupt ==
    ASSUME NEW i \in Lines, NEW r \in Rings, i.asserted => i.line \/ i.forced
    PROVE  /\ UpdateInterrupt(i, r) \in Lines
           /\ UpdateInterrupt(i, r).asserted <=> Count(r) >= Threshold
           /\ UpdateInterrupt(i, r).asserted
                => UpdateInterrupt(i, r).line \/ UpdateInterrupt(i, r).forced
<1>1. (Count(r) >= Threshold) \in BOOLEAN /\ i.asserted \in BOOLEAN
    BY CountRange, Sizes DEF Lines
<1>2. CASE i.asserted # (Count(r) >= Threshold)
    BY <1>1, <1>2 DEF UpdateInterrupt, Lines
<1>3. CASE i.asserted = (Count(r) >= Threshold)
    BY <1>1, <1>3 DEF UpdateInterrupt
<1> QED BY <1>1, <1>2, <1>3

\* A packet that is delivered adds its first bytes, as many as fit.
LEMMA DeliverOneKeeps ==
    ASSUME NEW h, RingOK(h), NEW p \in Packets
    PROVE  LET d == DeliverOne(h, p)
           IN /\ RingOK(d)
              /\ Len(d.pending) = Len(h.pending) + Room(h.rx)
              /\ \A i \in 1..Len(h.pending) : d.pending[i] = h.pending[i]
              /\ \A k \in 1..Room(h.rx) : d.pending[Len(h.pending) + k] = <<p, k>>
<1> DEFINE d == DeliverOne(h, p)
           r == Write(h.rx, p)
           c == Len(h.pending)
           n == Room(h.rx)
           new == [k \in 1..n |-> <<p, k>>]
<1>1. /\ h.rx \in Rings /\ h.irq \in Lines /\ h.pending \in Seq(ByteSet)
      /\ c = Count(h.rx) /\ c \in Nat /\ n \in Nat /\ c + n <= RxSize - 1
      /\ h.irq.asserted => h.irq.line \/ h.irq.forced
    BY RoomRange, CountRange, LenProperties DEF RingOK
<1>2. Min({Length, RxSize - 1 - c}) = n
    BY <1>1, Least, Sizes DEF Room, Space
<1>3. d.rx = r /\ d.irq = UpdateInterrupt(h.irq, r) /\ d.pending = h.pending \o new
    BY <1>2 DEF DeliverOne
<1>4. /\ r \in Rings /\ r.tail = h.rx.tail /\ Count(r) = c + n
      /\ \A i \in 0..(c - 1) : r.cell[Slot(h.rx.tail + i)] = h.rx.cell[Slot(h.rx.tail + i)]
      /\ \A k \in 1..n : r.cell[Slot(h.rx.tail + (c + (k - 1)))] = <<p, k>>
    <2> HIDE DEF c, n
    <2>1. /\ r \in Rings /\ r.tail = h.rx.tail /\ Count(r) = Count(h.rx) + n
          /\ \A i \in 0..(Count(h.rx) - 1) :
                r.cell[Slot(h.rx.tail + i)] = h.rx.cell[Slot(h.rx.tail + i)]
          /\ \A k \in 1..n : r.cell[Slot(h.rx.tail + (Count(h.rx) + (k - 1)))] = <<p, k>>
        BY <1>1, WriteRing DEF n
    <2> HIDE DEF r
    <2> QED BY <1>1, <2>1
<1> HIDE DEF r, n, d
<1>5. new \in Seq(ByteSet) /\ Len(new) = n /\ \A k \in 1..n : new[k] = <<p, k>>
    <2>1. \A k \in 1..n : <<p, k>> \in ByteSet
        BY <1>1 DEF ByteSet
    <2> QED BY <1>1, <2>1, IsASeq
<1> HIDE DEF new
<1>6. /\ d.pending \in Seq(ByteSet) /\ Len(d.pending) = c + n
      /\ \A i \in 1..(c + n) : d.pending[i] = IF i <= c THEN h.pending[i] ELSE new[i - c]
    <2>1. /\ h.pending \o new \in Seq(ByteSet)
          /\ Len(h.pending \o new) = Len(h.pending) + Len(new)
          /\ \A i \in 1..(Len(h.pending) + Len(new)) :
                (h.pending \o new)[i] = IF i <= Len(h.pending) THEN h.pending[i]
                                        ELSE new[i - Len(h.pending)]
        <3>1. PICK old \in Seq(ByteSet) : old = h.pending
            BY <1>1
        <3>2. /\ old \o new \in Seq(ByteSet)
              /\ Len(old \o new) = Len(old) + Len(new)
              /\ \A i \in 1..(Len(old) + Len(new)) :
                    (old \o new)[i] = IF i <= Len(old) THEN old[i] ELSE new[i - Len(old)]
            BY <1>5, ConcatProperties
        <3> QED BY <3>1, <3>2
    <2> HIDE DEF c
    <2>2. Len(h.pending) = c /\ Len(new) = n
        BY <1>5 DEF c
    <2> QED BY <1>3, <2>1, <2>2
<1> HIDE DEF c
<1>7. ASSUME NEW i \in 1..c PROVE d.pending[i] = h.pending[i]
    <2>1. i \in 1..(c + n) /\ i <= c
        BY <1>1
    <2> QED BY <1>6, <2>1
<1>8. ASSUME NEW k \in 1..n PROVE d.pending[c + k] = <<p, k>>
    <2>1. c + k \in 1..(c + n) /\ ~(c + k <= c) /\ (c + k) - c = k
        BY <1>1
    <2> QED BY <1>5, <1>6, <2>1
<1>9. ASSUME NEW i \in 0..(c + n - 1)
      PROVE  d.pending[i + 1] = r.cell[Slot(r.tail + i)]
    <2>1. CASE i < c
        <3>1. i \in 0..(c - 1) /\ i + 1 \in 1..c
            BY <1>1, <2>1
        <3>2. h.pending[i + 1] = h.rx.cell[Slot(h.rx.tail + i)]
            BY <3>1 DEF RingOK, c
        <3> QED BY <1>4, <1>7, <3>1, <3>2
    <2>2. CASE i >= c
        <3>1. PICK k \in 1..n : k = i + 1 - c
            BY <1>1, <2>2
        <3>2. i + 1 = c + k /\ i = c + (k - 1)
            BY <1>1, <3>1
        <3> QED BY <1>4, <1>8, <3>2
    <2> QED BY <1>1, <2>1, <2>2
<1>10. NoGap(d.pending)
    <2> SUFFICES ASSUME NEW i \in 1..(c + n - 1)
                 PROVE  \/ d.pending[i + 1][2] = 1
                        \/ d.pending[i + 1] = <<d.pending[i][1], d.pending[i][2] + 1>>
        <3>1. PICK s : s = d.pending
            OBVIOUS
        <3>2. Len(s) - 1 = c + n - 1
            BY <1>1, <1>6, <3>1
        <3>3. \A i \in 1..(Len(s) - 1) : \/ s[i + 1][2] = 1
                                         \/ s[i + 1] = <<s[i][1], s[i][2] + 1>>
            BY <3>1, <3>2
        <3>4. NoGap(s)
            BY <3>3 DEF NoGap
        <3> QED BY <3>1, <3>4
    <2>1. CASE i < c
        <3>1. i \in 1..c /\ i + 1 \in 1..c /\ i \in 1..(c - 1)
            BY <1>1, <2>1
        <3>2. \/ h.pending[i + 1][2] = 1
              \/ h.pending[i + 1] = <<h.pending[i][1], h.pending[i][2] + 1>>
            BY <3>1 DEF RingOK, NoGap, c
        <3> QED BY <1>7, <3>1, <3>2
    <2>2. CASE i = c
        <3>1. 1 \in 1..n
            BY <1>1, <2>2
        <3> QED BY <1>8, <2>2, <3>1
    <2>3. CASE i > c
        <3>1. PICK k \in 1..n : k = i - c /\ k + 1 \in 1..n
            BY <1>1, <2>3
        <3>2. i = c + k /\ i + 1 = c + (k + 1)
            BY <1>1, <3>1
        <3> QED BY <1>8, <3>1, <3>2
    <2> QED BY <1>1, <2>1, <2>2, <2>3
<1>11. /\ d.irq \in Lines
       /\ d.irq.asserted => d.irq.line \/ d.irq.forced
       /\ c + n >= Threshold => d.irq.asserted
    BY <1>1, <1>3, <1>4, Interrupt
<1>12. RingOK(d)
    <2>1. d.rx \in Rings /\ Count(d.rx) = c + n
        BY <1>3, <1>4
    <2>2. ASSUME NEW i \in 0..(Len(d.pending) - 1)
          PROVE  d.pending[i + 1] = d.rx.cell[Slot(d.rx.tail + i)]
        <3>1. i \in 0..(c + n - 1)
            BY <1>1, <1>6
        <3> QED BY <1>3, <1>9, <3>1
    <2>3. Len(d.pending) >= Threshold => d.irq.asserted
        BY <1>6, <1>11
    <2>4. Len(d.pending) = Count(d.rx) /\ d.pending \in Seq(ByteSet)
        BY <1>6, <2>1
    <2> QED BY <1>10, <1>11, <2>1, <2>2, <2>3, <2>4, Zenon DEF RingOK
<1> QED BY <1>6, <1>7, <1>8, <1>12 DEF d, c, n

\* The function that Delivered is built on exists, and unfolds.
LEMMA DeliveredUnfolds ==
    ASSUME NEW h, NEW ps, Len(ps) \in Nat
    PROVE  \E f : /\ f[0] = h
                  /\ \A k \in 1..Len(ps) : f[k] = DeliverOne(f[k - 1], ps[k])
                  /\ Delivered(h, ps) = f[Len(ps)]
<1> DEFINE After(n) == \E f : f = [k \in 0..n |-> IF k = 0 THEN h ELSE DeliverOne(f[k - 1], ps[k])]
           S == {n \in Nat : After(n)}
<1>1. 0 \in S
    <2> DEFINE f == [k \in 0..0 |-> h]
    <2>1. f = [k \in 0..0 |-> IF k = 0 THEN h ELSE DeliverOne(f[k - 1], ps[k])]
        OBVIOUS
    <2> HIDE DEF f
    <2>2. After(0)
        BY <2>1
    <2> QED BY <2>2
<1>2. ASSUME NEW n \in Nat, n \in S PROVE n + 1 \in S
    <2>1. PICK f : f = [k \in 0..n |-> IF k = 0 THEN h ELSE DeliverOne(f[k - 1], ps[k])]
        BY <1>2
    <2> DEFINE g == [k \in 0..(n + 1) |-> IF k = n + 1 THEN DeliverOne(f[n], ps[n + 1]) ELSE f[k]]
    <2>2. ASSUME NEW k \in 0..(n + 1)
          PROVE  g[k] = IF k = 0 THEN h ELSE DeliverOne(g[k - 1], ps[k])
        <3>1. CASE k = n + 1
            <4>1. g[k] = DeliverOne(f[n], ps[n + 1]) /\ k # 0 /\ k - 1 = n
                BY <3>1
            <4>2. g[n] = f[n] /\ n \in 0..(n + 1)
                OBVIOUS
            <4> HIDE DEF g
            <4> QED BY <3>1, <4>1, <4>2
        <3>2. CASE k # n + 1
            <4>1. k \in 0..n /\ g[k] = f[k]
                BY <3>2
            <4>2. k # 0 => g[k - 1] = f[k - 1]
                BY <4>1
            <4>3. f[k] = IF k = 0 THEN h ELSE DeliverOne(f[k - 1], ps[k])
                BY <2>1, <4>1
            <4> HIDE DEF g
            <4> QED BY <4>1, <4>2, <4>3
        <3> QED BY <3>1, <3>2
    <2>3. g = [k \in 0..(n + 1) |-> g[k]]
        OBVIOUS
    <2> HIDE DEF g
    <2>4. g = [k \in 0..(n + 1) |-> IF k = 0 THEN h ELSE DeliverOne(g[k - 1], ps[k])]
        BY <2>2, <2>3
    <2>5. After(n + 1)
        BY <2>4
    <2> QED BY <2>5
<1> HIDE DEF After
<1>3. Len(ps) \in S
    BY <1>1, <1>2, Induction
<1>4. After(Len(ps))
    BY <1>3
<1> DEFINE f == CHOOSE f : f = [k \in 0..Len(ps) |-> IF k = 0 THEN h ELSE DeliverOne(f[k - 1], ps[k])]
<1>5. f = [k \in 0..Len(ps) |-> IF k = 0 THEN h ELSE DeliverOne(f[k - 1], ps[k])]
    BY <1>4 DEF After
<1>6. Delivered(h, ps) = f[Len(ps)]
    BY DEF Delivered
<1> HIDE DEF f
<1>7. f[0] = h
    BY <1>5
<1>8. \A k \in 1..Len(ps) : f[k] = DeliverOne(f[k - 1], ps[k])
    BY <1>5
<1> QED BY <1>6, <1>7, <1>8

\* The bytes of new are those of old and then some of the first m packets of
\* ps, packet after packet.
Extends(old, new, ps, m) ==
    /\ Len(new) \in Nat /\ Len(old) <= Len(new)
    /\ \A i \in 1..Len(old) : new[i] = old[i]
    /\ \E src \in [(Len(old) + 1)..Len(new) -> 1..m] :
          /\ \A i, j \in (Len(old) + 1)..Len(new) : i < j => src[i] <= src[j]
          /\ \A i \in (Len(old) + 1)..Len(new) : new[i][1] = ps[src[i]]

\* One more packet.
LEMMA ExtendsByOne ==
    ASSUME NEW old \in Seq(ByteSet), NEW new \in Seq(ByteSet), NEW ps \in Seq(Packets),
           NEW m \in Nat, m + 1 <= Len(ps), Extends(old, new, ps, m),
           NEW more \in Seq(ByteSet), NEW n \in Nat, Len(more) = Len(new) + n,
           \A i \in 1..Len(new) : more[i] = new[i],
           \A k \in 1..n : more[Len(new) + k] = <<ps[m + 1], k>>
    PROVE  Extends(old, more, ps, m + 1)
<1>1. PICK src \in [(Len(old) + 1)..Len(new) -> 1..m] :
          /\ \A i, j \in (Len(old) + 1)..Len(new) : i < j => src[i] <= src[j]
          /\ \A i \in (Len(old) + 1)..Len(new) : new[i][1] = ps[src[i]]
    BY DEF Extends
<1>2. /\ Len(old) \in Nat /\ Len(new) \in Nat /\ Len(more) \in Nat
      /\ Len(old) <= Len(new) /\ Len(new) <= Len(more)
      /\ \A i \in 1..Len(old) : new[i] = old[i]
    BY LenProperties DEF Extends
<1> DEFINE a == Len(old)
           b == Len(new)
           c == Len(more)
           to == [i \in (a + 1)..c |-> IF i <= b THEN src[i] ELSE m + 1]
<1> HIDE DEF a, b, c
<1>3. ASSUME NEW i \in (a + 1)..c PROVE to[i] \in 1..(m + 1)
    <2>1. CASE i <= b
        <3>1. i \in (a + 1)..b
            BY <1>2, <2>1 DEF a, b, c
        <3>2. src[i] \in 1..m
            BY <1>1, <3>1 DEF a, b
        <3> QED BY <2>1, <3>2
    <2>2. CASE ~(i <= b)
        BY <2>2
    <2> QED BY <2>1, <2>2
<1>4. to \in [(a + 1)..c -> 1..(m + 1)]
    BY <1>3
<1>5. ASSUME NEW i \in (a + 1)..c, NEW j \in (a + 1)..c, i < j PROVE to[i] <= to[j]
    <2>1. CASE j <= b
        <3>1. i \in (a + 1)..b /\ j \in (a + 1)..b
            BY <1>2, <1>5, <2>1 DEF a, b, c
        <3>2. src[i] <= src[j]
            BY <1>1, <1>5, <3>1 DEF a, b
        <3> QED BY <2>1, <3>1, <3>2
    <2>2. CASE ~(j <= b)
        <3>1. to[j] = m + 1
            BY <2>2
        <3> HIDE DEF to
        <3> QED BY <1>3, <3>1
    <2> QED BY <2>1, <2>2
<1>6. ASSUME NEW i \in (a + 1)..c PROVE more[i][1] = ps[to[i]]
    <2>1. CASE i <= b
        <3>1. i \in (a + 1)..b /\ i \in 1..b
            BY <1>2, <2>1 DEF a, b, c
        <3>2. new[i][1] = ps[src[i]] /\ more[i] = new[i]
            BY <1>1, <3>1 DEF a, b
        <3> QED BY <2>1, <3>2
    <2>2. CASE ~(i <= b)
        <3>1. i - b \in 1..n /\ b + (i - b) = i
            BY <1>2, <2>2 DEF a, b, c
        <3>2. more[b + (i - b)] = <<ps[m + 1], i - b>>
            BY <3>1 DEF b
        <3> QED BY <2>2, <3>1, <3>2
    <2> QED BY <2>1, <2>2
<1>7. ASSUME NEW i \in 1..a PROVE more[i] = old[i]
    <2>1. i \in 1..b
        BY <1>2 DEF a, b
    <2> QED BY <1>2, <2>1 DEF a, b
<1> HIDE DEF to
<1>8. /\ to \in [(Len(old) + 1)..Len(more) -> 1..(m + 1)]
      /\ \A i, j \in (Len(old) + 1)..Len(more) : i < j => to[i] <= to[j]
      /\ \A i \in (Len(old) + 1)..Len(more) : more[i][1] = ps[to[i]]
    BY <1>4, <1>5, <1>6 DEF a, c
<1>9. Len(more) \in Nat /\ Len(old) <= Len(more) /\ \A i \in 1..Len(old) : more[i] = old[i]
    BY <1>2, <1>7 DEF a
<1> HIDE DEF to
<1> QED BY <1>8, <1>9, Zenon DEF Extends

\* The packets of ps, one after another, by induction on their number.
LEMMA DeliveredKeeps ==
    ASSUME NEW h, RingOK(h), NEW ps \in Seq(Packets)
    PROVE  /\ RingOK(Delivered(h, ps))
           /\ Extends(h.pending, Delivered(h, ps).pending, ps, Len(ps))
<1>1. Len(ps) \in Nat /\ \A k \in 1..Len(ps) : ps[k] \in Packets
    BY LenProperties
<1>2. PICK f : /\ f[0] = h
               /\ \A k \in 1..Len(ps) : f[k] = DeliverOne(f[k - 1], ps[k])
               /\ Delivered(h, ps) = f[Len(ps)]
    BY <1>1, DeliveredUnfolds
<1> DEFINE Good(k) == RingOK(f[k]) /\ Extends(h.pending, f[k].pending, ps, k)
           S == {k \in Nat : k <= Len(ps) => Good(k)}
<1>3. 0 \in S
    <2>1. h.pending \in Seq(ByteSet) /\ Len(h.pending) \in Nat
        BY LenProperties DEF RingOK
    <2> DEFINE src == [i \in {} |-> 1]
    <2>2. (Len(h.pending) + 1)..Len(h.pending) = {}
        BY <2>1
    <2>3. src \in [{} -> 1..0]
        OBVIOUS
    <2> HIDE DEF src
    <2>4. \E to \in [(Len(h.pending) + 1)..Len(h.pending) -> 1..0] :
              /\ \A i, j \in (Len(h.pending) + 1)..Len(h.pending) : i < j => to[i] <= to[j]
              /\ \A i \in (Len(h.pending) + 1)..Len(h.pending) : h.pending[i][1] = ps[to[i]]
        <3>1. /\ \A i, j \in {} : i < j => src[i] <= src[j]
              /\ \A i \in {} : h.pending[i][1] = ps[src[i]]
            OBVIOUS
        <3> QED BY <2>2, <2>3, <3>1, Zenon
    <2>5. Extends(h.pending, h.pending, ps, 0)
        BY <2>1, <2>4 DEF Extends
    <2> QED BY <1>2, <2>5
<1>4. ASSUME NEW k \in Nat, k \in S PROVE k + 1 \in S
    <2> SUFFICES ASSUME k + 1 <= Len(ps) PROVE Good(k + 1)
        OBVIOUS
    <2>1. Good(k)
        BY <1>1, <1>4
    <2>2. k + 1 \in 1..Len(ps) /\ (k + 1) - 1 = k
        BY <1>1
    <2>3. f[k + 1] = DeliverOne(f[k], ps[k + 1]) /\ ps[k + 1] \in Packets
        BY <1>1, <1>2, <2>2
    <2> DEFINE old == f[k]
               new == f[k + 1]
               n == Room(f[k].rx)
    <2>4. /\ RingOK(new) /\ Len(new.pending) = Len(old.pending) + n
          /\ \A i \in 1..Len(old.pending) : new.pending[i] = old.pending[i]
          /\ \A j \in 1..n : new.pending[Len(old.pending) + j] = <<ps[k + 1], j>>
        <3>1. LET d == DeliverOne(old, ps[k + 1])
              IN /\ RingOK(d)
                 /\ Len(d.pending) = Len(old.pending) + Room(old.rx)
                 /\ \A i \in 1..Len(old.pending) : d.pending[i] = old.pending[i]
                 /\ \A j \in 1..Room(old.rx) :
                       d.pending[Len(old.pending) + j] = <<ps[k + 1], j>>
            <4> HIDE DEF old
            <4> QED BY <2>1, <2>3, DeliverOneKeeps DEF old
        <3> QED BY <2>3, <3>1
    <2>5. /\ h.pending \in Seq(ByteSet) /\ old.pending \in Seq(ByteSet)
          /\ new.pending \in Seq(ByteSet) /\ n \in Nat
        BY <2>1, <2>4, RoomRange DEF RingOK
    <2>6. Extends(h.pending, new.pending, ps, k + 1)
        BY <2>1, <2>4, <2>5, ExtendsByOne
    <2> QED BY <2>4, <2>6
<1>5. Len(ps) \in S
    BY <1>1, <1>3, <1>4, Induction
<1> QED BY <1>1, <1>2, <1>5

-----------------------------------------------------------------------------
\* What the assumption says of the constants that are numbers.
LEMMA Numbers ==
    /\ Uplinks \in Nat /\ Downlinks \in Nat /\ MaxTime \in Nat /\ Operations \in Nat
    /\ BootDelay \in Nat /\ Delays \subseteq Nat
    /\ DefaultMode \in LinkModes /\ DefaultDelay \in [Dir -> Nat]
    /\ DefaultLossy \in [Dir -> BOOLEAN]
    BY RadioAssumption

\* A packet that is sent.
LEMMA PacketTyped ==
    ASSUME Types, NEW n \in 1..(Uplinks + Downlinks)
    PROVE  Packet(n) \in Packets
    BY DEF Types, Packet, Packets

\* The front of a queue.
LEMMA Beginning ==
    ASSUME NEW q \in Seq(Packets), NEW n \in 0..Len(q)
    PROVE  /\ SubSeq(q, 1, n) \in Seq(Packets) /\ Len(SubSeq(q, 1, n)) = n
           /\ \A i \in 1..n : SubSeq(q, 1, n)[i] = q[i]
<1>1. Len(q) \in Nat /\ \A i \in 1..n : q[i] \in Packets
    BY LenProperties
<1> QED BY <1>1, SubSeqProperties

\* What is due is the beginning of the queue, all of it that may cross; the
\* rest begins with a packet that may not.
LEMMA DueAndRest ==
    ASSUME NEW q \in Seq(Packets), NEW t \in Nat
    PROVE  \E n \in 0..Len(q) :
              /\ Due(q, t) \in Seq(Packets) /\ Len(Due(q, t)) = n
              /\ \A i \in 1..n : Due(q, t)[i] = q[i] /\ q[i].release <= t
              /\ Rest(q, t) \in Seq(Packets) /\ Len(Rest(q, t)) = Len(q) - n
              /\ \A i \in 1..(Len(q) - n) : Rest(q, t)[i] = q[n + i]
              /\ n < Len(q) => q[n + 1].release > t
<1> DEFINE D == {n \in 0..Len(q) : \A i \in 1..n : q[i].release <= t}
           C == {Len(q) - n : n \in D}
<1>1. Len(q) \in Nat /\ \A i \in 1..Len(q) : q[i] \in Packets
    BY LenProperties
<1>2. 0 \in D
    BY <1>1
<1>3. C \in SUBSET Nat /\ C # {}
    BY <1>1, <1>2
<1> HIDE DEF C
<1>4. PICK x \in C : \A y \in C : x <= y
    BY <1>3, LeastNumber
<1>5. PICK n \in D : x = Len(q) - n
    BY <1>4 DEF C
<1>6. ASSUME NEW m \in D PROVE m <= n
    <2>1. Len(q) - m \in C
        BY DEF C
    <2>2. Len(q) - n <= Len(q) - m
        BY <1>4, <1>5, <2>1
    <2> QED BY <1>1, <2>2
<1>7. n \in 0..Len(q) /\ \A i \in 1..n : q[i].release <= t
    OBVIOUS
<1>8. n < Len(q) => q[n + 1].release > t
    <2> SUFFICES ASSUME n < Len(q), ~(q[n + 1].release > t) PROVE FALSE
        OBVIOUS
    <2>1. n + 1 \in 1..Len(q) /\ n + 1 \in 0..Len(q)
        BY <1>1, <1>7
    <2>2. q[n + 1].release <= t
        BY <1>1, <2>1 DEF Packets
    <2>3. \A i \in 1..(n + 1) : q[i].release <= t
        BY <1>1, <1>7, <2>2
    <2>4. n + 1 \in D
        BY <2>1, <2>3
    <2> QED BY <1>6, <1>7, <2>4
<1>9. Max(D) = n
    <2>1. n \in D /\ \A m \in D : n >= m
        BY <1>6
    <2>2. \A m \in D : m \in Int
        BY <1>1
    <2> HIDE DEF D
    <2> QED BY <2>1, <2>2 DEF Max
<1>10. Due(q, t) = SubSeq(q, 1, n)
    BY <1>9 DEF Due
<1>11. /\ Due(q, t) \in Seq(Packets) /\ Len(Due(q, t)) = n
       /\ \A i \in 1..n : Due(q, t)[i] = q[i]
    <2> HIDE DEF D
    <2>1. n \in 0..Len(q)
        BY <1>7
    <2>2. SubSeq(q, 1, n) \in Seq(Packets) /\ Len(SubSeq(q, 1, n)) = n
        BY <2>1, Beginning
    <2>3. \A i \in 1..n : SubSeq(q, 1, n)[i] = q[i]
        BY <2>1, Beginning
    <2> QED BY <1>10, <2>2, <2>3
<1>12. Rest(q, t) = SubSeq(q, n + 1, Len(q))
    BY <1>11 DEF Rest
<1>13. /\ Rest(q, t) \in Seq(Packets) /\ Len(Rest(q, t)) = Len(q) - n
       /\ \A i \in 1..(Len(q) - n) : Rest(q, t)[i] = q[n + i]
    <2>1. ASSUME NEW i \in 1..(Len(q) - n) PROVE (n + 1) + i - 1 = n + i
        BY <1>1, <1>7
    <2>2. \A i \in (n + 1)..Len(q) : q[i] \in Packets
        BY <1>1, <1>7
    <2> QED BY <1>1, <1>7, <1>12, <2>1, <2>2, SubSeqProperties
<1> QED BY <1>7, <1>8, <1>11, <1>13

\* radio_link_enqueue leaves what waits and adds the packet, or drops it.
LEMMA Enqueued ==
    ASSUME NEW q \in Seq(Packets), Len(q) <= QueueDepth, NEW p \in Packets
    PROVE  /\ Enqueue(q, p) \in Seq(Packets) /\ Len(Enqueue(q, p)) <= QueueDepth
           /\ Len(Enqueue(q, p)) \in {Len(q), Len(q) + 1}
           /\ \A i \in 1..Len(q) : Enqueue(q, p)[i] = q[i]
           /\ Len(Enqueue(q, p)) = Len(q) + 1 => Enqueue(q, p)[Len(q) + 1] = p
<1>1. Len(q) \in Nat
    BY LenProperties
<1>2. CASE Len(q) >= QueueDepth
    BY <1>1, <1>2 DEF Enqueue
<1>3. CASE ~(Len(q) >= QueueDepth)
    <2>1. Enqueue(q, p) = Append(q, p)
        BY <1>3 DEF Enqueue
    <2> QED BY <1>1, <1>3, <2>1, AppendProperties, Sizes
<1> QED BY <1>2, <1>3

\* What the ground receives.
Tails == [packet : Packets, epoch : Nat \X Nat]

\* The types: at first, and after each action.
LEMMA TypesInit == Init => Types
<1> SUFFICES ASSUME Init PROVE Types
    OBVIOUS
<1>1. LinkReset \in [mode : LinkModes, up : BOOLEAN, impaired : BOOLEAN, delay : [Dir -> Nat],
                     lossy : [Dir -> BOOLEAN]]
    BY Numbers DEF LinkReset
<1>2. <<>> \in Seq(Packets) /\ Len(<<>>) = 0 /\ <<>> \in Seq(Tails)
    BY EmptySeq
<1>3. queue \in [Dir -> Seq(Packets)] /\ \A d \in Dir : Len(queue[d]) <= QueueDepth
    BY <1>2, Sizes DEF Init
<1>4. last \in [Dir -> Packets \cup {None}] /\ sent \in [Dir -> Nat]
    BY DEF Init
<1> QED BY <1>1, <1>2, <1>3, <1>4, Numbers, Sizes DEF Init, Types, Tails

\* One more operation stays within the bound.
LEMMA OneMore ==
    ASSUME Types, Operate
    PROVE  operations' \in 0..Operations
    BY Numbers DEF Types, Operate

\* The time is a number.
LEMMA Timed ==
    ASSUME Types
    PROVE  time \in Nat /\ time <= MaxTime /\ time + BootDelay \in Nat /\ power.boot \in Nat
    BY Numbers DEF Types

LEMMA TypesWorker ==
    ASSUME Types, PowerOn \/ ForceInterrupt \/ SetConfiguration \/ ReceiveData \/ EndService
    PROVE  Types'
<1>1. CASE PowerOn
    <2>1. operations' \in 0..Operations
        BY <1>1, OneMore DEF PowerOn
    <2>2. power' \in [gpio : BOOLEAN, managed : BOOLEAN, supply : BOOLEAN, boot : Nat]
        <3>1. time + BootDelay \in Nat /\ power.boot \in Nat
            BY Timed
        <3>2. (IF power.managed /\ power.supply THEN time + BootDelay ELSE power.boot) \in Nat
            BY <3>1
        <3> QED BY <1>1, <3>2 DEF PowerOn, Types
    <2>3. mode' \in {"sleep", "tx", "rx", "duplex"}
        BY <1>1 DEF PowerOn, Types
    <2> QED BY <1>1, <2>1, <2>2, <2>3 DEF PowerOn, Types, host, epoch
<1>2. CASE ForceInterrupt
    <2>1. operations' \in 0..Operations
        BY <1>2, OneMore DEF ForceInterrupt
    <2> QED BY <1>2, <2>1 DEF ForceInterrupt, Types, radio, epoch
<1>3. CASE SetConfiguration
    <2>1. operations' \in 0..Operations
        BY <1>3, OneMore DEF SetConfiguration
    <2> QED BY <1>3, <2>1 DEF SetConfiguration, Types, epoch
<1>4. CASE ReceiveData
    BY <1>4 DEF ReceiveData, Types, radio, bound, epoch
<1>5. CASE EndService
    BY <1>5 DEF EndService, Types, radio, bound, epoch
<1> QED BY <1>1, <1>2, <1>3, <1>4, <1>5

LEMMA TypesPower ==
    ASSUME Types, PowerOff \/ Manage \/ PowerSet \/ ResetComponent
    PROVE  Types'
<1>1. <<>> \in Seq(Packets) /\ Len(<<>>) = 0
    BY EmptySeq
<1>2. CASE PowerOff
    <2>1. operations' \in 0..Operations
        BY <1>2, OneMore DEF PowerOff
    <2>2. power' \in [gpio : BOOLEAN, managed : BOOLEAN, supply : BOOLEAN, boot : Nat]
        BY <1>2 DEF PowerOff, Types
    <2>3. socket' \in Seq(Packets) /\ offs' \in Nat /\ mode' \in {"sleep", "tx", "rx", "duplex"}
        BY <1>1, <1>2 DEF PowerOff, ClearBuffers, Types
    <2> QED BY <1>2, <2>1, <2>2, <2>3 DEF PowerOff, Types
<1>3. CASE Manage
    BY <1>3 DEF Manage, Types, bound, epoch
<1>4. ASSUME PowerReset, Operate, UNCHANGED <<last, link, sent, ground, offs, nextUpdate>>
      PROVE  /\ socket' \in Seq(Packets) /\ queue' \in [Dir -> Seq(Packets)]
             /\ \A d \in Dir : Len(queue'[d]) <= QueueDepth
             /\ operations' \in 0..Operations /\ resets' \in Nat /\ mode' = "duplex"
    BY <1>1, <1>4, OneMore, Sizes DEF PowerReset, ClearBuffers, Types
<1>5. CASE PowerSet
    <2>1. power' \in [gpio : BOOLEAN, managed : BOOLEAN, supply : BOOLEAN, boot : Nat]
        <3>1. (~power.supply) \in BOOLEAN /\ time + BootDelay \in Nat /\ power.boot \in Nat
            BY Timed
        <3>2. (IF power.supply THEN power.boot ELSE time + BootDelay) \in Nat
            BY <3>1
        <3> QED BY <1>5, <3>1, <3>2 DEF PowerSet, Types
    <2> QED BY <1>4, <1>5, <2>1 DEF PowerSet, Types
<1>6. CASE ResetComponent
    BY <1>4, <1>6 DEF ResetComponent, Types
<1> QED BY <1>2, <1>3, <1>5, <1>6

\* What is transmitted to the ground.
LEMMA TypesTransmit ==
    ASSUME Types, NEW p \in Packets, Transmit(p)
    PROVE  /\ ground' \in Seq(Tails)
           /\ UNCHANGED ground \/ ground' = Append(ground, [packet |-> p, epoch |-> epoch])
<1>1. ground \in Seq(Tails) /\ [packet |-> p, epoch |-> epoch] \in Tails
    BY DEF Types, Tails, epoch
<1>2. Append(ground, [packet |-> p, epoch |-> epoch]) \in Seq(Tails)
    BY <1>1, AppendProperties
<1> QED BY <1>1, <1>2 DEF Transmit

LEMMA TypesLink ==
    ASSUME Types, SetLink \/ Replay \/ ResetLink
    PROVE  Types'
<1>1. <<>> \in Seq(Packets) /\ Len(<<>>) = 0
    BY EmptySeq
<1>2. CASE SetLink
    <2>1. /\ operations' \in 0..Operations
          /\ UNCHANGED <<phase, time, socket, thread, running, power, mode, queue, last, nextUpdate,
                         sent, ground, resets, offs>>
        BY <1>2, OneMore DEF SetLink, epoch
    <2>2. link' \in [mode : LinkModes, up : BOOLEAN, impaired : BOOLEAN, delay : [Dir -> Nat],
                     lossy : [Dir -> BOOLEAN]]
        <3>1. ASSUME NEW m \in LinkModes, NEW up \in InView(m, {link.up}),
                     link' = [link EXCEPT !.mode = m, !.up = up]
              PROVE  link' \in [mode : LinkModes, up : BOOLEAN, impaired : BOOLEAN,
                                delay : [Dir -> Nat], lossy : [Dir -> BOOLEAN]]
            BY <3>1 DEF InView, Types
        <3>2. ASSUME NEW ds \in SUBSET Dir, NEW n \in Delays,
                     link' = [link EXCEPT !.delay = [d \in Dir |-> IF d \in ds THEN n ELSE @[d]]]
              PROVE  link' \in [mode : LinkModes, up : BOOLEAN, impaired : BOOLEAN,
                                delay : [Dir -> Nat], lossy : [Dir -> BOOLEAN]]
            <4>1. /\ link.mode \in LinkModes /\ link.up \in BOOLEAN /\ link.impaired \in BOOLEAN
                  /\ link.delay \in [Dir -> Nat] /\ link.lossy \in [Dir -> BOOLEAN]
                  /\ DOMAIN link = {"mode", "up", "impaired", "delay", "lossy"} /\ n \in Nat
                BY Numbers DEF Types
            <4>2. [d \in Dir |-> IF d \in ds THEN n ELSE link.delay[d]] \in [Dir -> Nat]
                BY <4>1
            <4>3. link' = [link EXCEPT !.delay =
                              [d \in Dir |-> IF d \in ds THEN n ELSE link.delay[d]]]
                BY <3>2
            <4> QED BY <4>1, <4>2, <4>3 DEF Types
        <3>3. ASSUME NEW ds \in SUBSET Dir, NEW l \in BOOLEAN,
                     link' = [link EXCEPT !.lossy = [d \in Dir |-> IF d \in ds THEN l ELSE @[d]]]
              PROVE  link' \in [mode : LinkModes, up : BOOLEAN, impaired : BOOLEAN,
                                delay : [Dir -> Nat], lossy : [Dir -> BOOLEAN]]
            BY <3>3 DEF Types
        <3>4. ASSUME NEW b \in BOOLEAN, link' = [link EXCEPT !.impaired = b]
              PROVE  link' \in [mode : LinkModes, up : BOOLEAN, impaired : BOOLEAN,
                                delay : [Dir -> Nat], lossy : [Dir -> BOOLEAN]]
            BY <3>4 DEF Types
        <3>5. CASE \E m \in LinkModes : \E up \in InView(m, {link.up}) :
                     link' = [link EXCEPT !.mode = m, !.up = up]
            BY <3>1, <3>5
        <3>6. CASE \E ds \in SUBSET Dir \ {{}}, n \in Delays :
                     link' = [link EXCEPT !.delay = [d \in Dir |-> IF d \in ds THEN n ELSE @[d]]]
            BY <3>2, <3>6
        <3>7. CASE \E ds \in SUBSET Dir \ {{}}, l \in BOOLEAN :
                     link' = [link EXCEPT !.lossy = [d \in Dir |-> IF d \in ds THEN l ELSE @[d]]]
            BY <3>3, <3>7
        <3>8. CASE \E b \in BOOLEAN : link' = [link EXCEPT !.impaired = b]
            BY <3>4, <3>8
        <3> QED BY <1>2, <3>5, <3>6, <3>7, <3>8, Zenon DEF SetLink
    <2> QED BY <2>1, <2>2 DEF Types
<1>3. CASE Replay
    <2>1. /\ operations' \in 0..Operations
          /\ UNCHANGED <<phase, time, socket, thread, running, power, mode, link, queue, last,
                         nextUpdate, sent, resets, offs>>
        BY <1>3, OneMore DEF Replay, epoch, radio
    <2>2. ground' \in Seq(Tails)
        <3>1. ground \in Seq(Tails)
            BY DEF Types, Tails
        <3>2. ASSUME last["down"] # None, Transmit([last["down"] EXCEPT !.replay = TRUE])
              PROVE  ground' \in Seq(Tails)
            <4>1. last["down"] \in Packets
                BY <3>2 DEF Types, Dir
            <4>2. [last["down"] EXCEPT !.replay = TRUE] \in Packets
                BY <4>1 DEF Packets
            <4> QED BY <3>2, <4>2, TypesTransmit
        <3> QED BY <1>3, <3>1, <3>2 DEF Replay
    <2> QED BY <2>1, <2>2 DEF Types, Tails
<1>4. CASE ResetLink
    <2>1. LinkReset \in [mode : LinkModes, up : BOOLEAN, impaired : BOOLEAN,
                         delay : [Dir -> Nat], lossy : [Dir -> BOOLEAN]]
        BY Numbers DEF LinkReset
    <2>2. /\ queue' \in [Dir -> Seq(Packets)] /\ \A d \in Dir : Len(queue'[d]) <= QueueDepth
          /\ last' \in [Dir -> Packets \cup {None}] /\ operations' \in 0..Operations
        BY <1>1, <1>4, Sizes, OneMore DEF ResetLink, Types
    <2> QED BY <1>4, <2>1, <2>2 DEF ResetLink, Types, epoch
<1> QED BY <1>2, <1>3, <1>4

\* The two directions.
LEMMA EitherWay == "up" \in Dir /\ "down" \in Dir /\ \A d \in Dir : d = "up" \/ d = "down"
    BY DEF Dir

\* What crosses the link, or waits in its queue.
LEMMA Waiting ==
    ASSUME Types, NEW p \in Packets, NEW d \in Dir, Delay(d) > 0
    PROVE  /\ [p EXCEPT !.release = time + Delay(d)] \in Packets
           /\ time + Delay(d) > time
<1>1. Delay(d) \in Nat
    BY DEF Delay, Types
<1>2. time \in Nat /\ time + Delay(d) \in Nat /\ time + Delay(d) > time
    BY <1>1, Timed
<1> QED BY <1>2 DEF Packets

LEMMA TypesGround ==
    ASSUME Types, GroundSends \/ Select \/ SelectFails
    PROVE  Types'
<1>1. CASE GroundSends
    <2>1. sent["up"] \in Nat /\ sent["up"] < Uplinks
        BY <1>1 DEF GroundSends, Types, Dir
    <2>2. sent["up"] + 1 \in 1..(Uplinks + Downlinks)
        BY <2>1, Numbers
    <2>3. socket' \in Seq(Packets)
        BY <1>1, <2>2, PacketTyped, AppendProperties DEF GroundSends, Types
    <2>4. sent' \in [Dir -> Nat]
        <3>1. sent' = [sent EXCEPT !["up"] = sent["up"] + 1] /\ sent["up"] + 1 \in Nat
            BY <1>1, <2>1 DEF GroundSends
        <3> QED BY <3>1 DEF Types
    <2> QED BY <1>1, <2>3, <2>4 DEF GroundSends, Types, radio, epoch
<1>2. CASE Select \/ SelectFails
    BY <1>2 DEF Select, SelectFails, Types, radio, bound, epoch
<1> QED BY <1>1, <1>2

LEMMA TypesReceive ==
    ASSUME Types, Receive
    PROVE  Types'
<1>1. /\ thread' = "select"
      /\ UNCHANGED <<phase, time, running, power, mode, link, nextUpdate, sent, operations,
                     ground, resets, offs>>
    BY DEF Receive, bound, epoch
<1>2. /\ socket' \in Seq(Packets) /\ queue' \in [Dir -> Seq(Packets)]
      /\ \A d \in Dir : Len(queue'[d]) <= QueueDepth
      /\ last' \in [Dir -> Packets \cup {None}]
    <2>1. CASE socket = <<>>
        BY <2>1 DEF Receive, Types
    <2>2. CASE socket # <<>>
        <3>1. Tail(socket) \in Seq(Packets) /\ Head(socket) \in Packets
            BY <2>2, HeadTailProperties DEF Types
        <3>2. PICK ok \in BOOLEAN :
                  /\ socket' = Tail(socket)
                  /\ last' = IF ok THEN [last EXCEPT !["up"] = Head(socket)] ELSE last
                  /\ queue' = IF ok /\ Delay("up") > 0
                              THEN [queue EXCEPT !["up"] =
                                       Enqueue(@, [Head(socket) EXCEPT !.release =
                                                       time + Delay("up")])]
                              ELSE queue
            BY <2>2 DEF Receive, Admitted
        <3>3. last' \in [Dir -> Packets \cup {None}]
            BY <3>1, <3>2 DEF Types
        <3>4. queue' \in [Dir -> Seq(Packets)] /\ \A d \in Dir : Len(queue'[d]) <= QueueDepth
            <4>1. CASE ok /\ Delay("up") > 0
                <5> DEFINE p == [Head(socket) EXCEPT !.release = time + Delay("up")]
                <5>1. p \in Packets
                    BY <3>1, <4>1, Waiting, EitherWay
                <5>2. queue["up"] \in Seq(Packets) /\ Len(queue["up"]) <= QueueDepth
                    BY EitherWay DEF Types
                <5>3. queue' = [queue EXCEPT !["up"] = Enqueue(queue["up"], p)]
                    BY <3>2, <4>1
                <5> HIDE DEF p
                <5>4. Enqueue(queue["up"], p) \in Seq(Packets)
                      /\ Len(Enqueue(queue["up"], p)) <= QueueDepth
                    BY <5>1, <5>2, Enqueued
                <5> QED BY <5>3, <5>4 DEF Types
            <4>2. CASE ~(ok /\ Delay("up") > 0)
                BY <3>2, <4>2 DEF Types
            <4> QED BY <4>1, <4>2
        <3> QED BY <3>1, <3>2, <3>3, <3>4
    <2> QED BY <2>1, <2>2
<1> QED BY <1>1, <1>2 DEF Types

\* What is left of a queue.
LEMMA RestTyped ==
    ASSUME Types, NEW d \in Dir, NEW t \in Nat, queue' = [queue EXCEPT ![d] = Rest(@, t)]
    PROVE  queue' \in [Dir -> Seq(Packets)] /\ \A c \in Dir : Len(queue'[c]) <= QueueDepth
<1>1. queue[d] \in Seq(Packets) /\ Len(queue[d]) <= QueueDepth /\ Len(queue[d]) \in Nat
    BY LenProperties DEF Types
<1>2. Rest(queue[d], t) \in Seq(Packets) /\ Len(Rest(queue[d], t)) <= QueueDepth
    <2>1. PICK n \in 0..Len(queue[d]) :
              /\ Rest(queue[d], t) \in Seq(Packets)
              /\ Len(Rest(queue[d], t)) = Len(queue[d]) - n
        BY <1>1, DueAndRest
    <2> QED BY <1>1, <2>1, Sizes
<1> QED BY <1>2 DEF Types

\* A tick begins with Snapshot or with OnTick, which sets the time either way.
LEMMA Ticking ==
    ASSUME Types, Snapshot \/ OnTick
    PROVE  time' \in 0..MaxTime /\ time' \in Nat /\ time <= time'
    BY Timed, Numbers DEF Snapshot, OnTick, TickBegins

LEMMA TypesTick ==
    ASSUME Types, Snapshot \/ OnTick
    PROVE  Types'
<1>1. CASE Snapshot
    <2>1. time' \in 0..MaxTime
        BY <1>1, Ticking
    <2> QED BY <1>1, <2>1 DEF Snapshot, Types, radio, bound, epoch
<1>2. CASE OnTick
    <2>1. PICK t \in Nat : t = time' /\ t \in 0..MaxTime
        BY <1>2, Ticking
    <2>2. queue' = [queue EXCEPT !["up"] = Rest(@, t)]
        BY <1>2, <2>1 DEF OnTick
    <2>3. queue' \in [Dir -> Seq(Packets)] /\ \A d \in Dir : Len(queue'[d]) <= QueueDepth
        BY <2>2, RestTyped, EitherWay
    <2>4. link' \in [mode : LinkModes, up : BOOLEAN, impaired : BOOLEAN, delay : [Dir -> Nat],
                     lossy : [Dir -> BOOLEAN]]
        BY <1>2 DEF OnTick, InView, Types
    <2> QED BY <1>2, <2>1, <2>3, <2>4 DEF OnTick, Types, bound, epoch
<1> QED BY <1>1, <1>2

\* A packet that is due is the first of its queue and leaves it.
LEMMA DownlinkFirstIs ==
    ASSUME Types, ReleaseDownlink
    PROVE  \E q \in Seq(Packets) :
              /\ q = queue["down"] /\ Len(q) \in Nat \ {0} /\ q[1] \in Packets
              /\ q[1].release <= time /\ Transmit(q[1])
              /\ queue' = [queue EXCEPT !["down"] = Tail(q)]
              /\ Tail(q) \in Seq(Packets) /\ Len(Tail(q)) = Len(q) - 1
              /\ \A i \in 1..(Len(q) - 1) : Tail(q)[i] = q[1 + i]
<1>1. PICK q \in Seq(Packets) : q = queue["down"] /\ q # <<>>
    BY EitherWay DEF ReleaseDownlink, DownlinkDue, Types
<1>2. Head(q) \in Packets /\ Head(q) = q[1] /\ Tail(q) \in Seq(Packets)
    BY <1>1, HeadTailProperties
<1>3. Len(q) \in Nat \ {0} /\ Len(Tail(q)) = Len(q) - 1
    BY <1>1, EmptySeq, LenProperties, HeadTailProperties
<1>4. \A i \in 1..(Len(q) - 1) : Tail(q)[i] = q[1 + i]
    <2>1. \A i \in 1..(Len(q) - 1) : Tail(q)[i] = q[i + 1] /\ i + 1 = 1 + i
        BY <1>1, <1>3, HeadTailProperties
    <2> QED BY <2>1
<1>5. Head(q).release <= time /\ Transmit(Head(q)) /\ queue' = [queue EXCEPT !["down"] = Tail(q)]
    BY <1>1 DEF ReleaseDownlink, DownlinkDue
<1> QED BY <1>1, <1>2, <1>3, <1>4, <1>5

LEMMA TypesRelease ==
    ASSUME Types, ReleaseDownlink \/ EndTick
    PROVE  Types'
<1>1. CASE ReleaseDownlink
    <2>1. PICK q \in Seq(Packets) :
              /\ q = queue["down"] /\ Len(q) \in Nat \ {0} /\ q[1] \in Packets
              /\ Transmit(q[1])
              /\ queue' = [queue EXCEPT !["down"] = Tail(q)]
              /\ Tail(q) \in Seq(Packets) /\ Len(Tail(q)) = Len(q) - 1
        BY <1>1, DownlinkFirstIs
    <2>2. ground' \in Seq(Tails)
        BY <2>1, TypesTransmit
    <2>3. Len(Tail(q)) <= QueueDepth
        <3>1. Len(q) <= QueueDepth
            BY <2>1, EitherWay DEF Types
        <3> QED BY <2>1, <3>1, Sizes
    <2>4. queue' \in [Dir -> Seq(Packets)] /\ \A d \in Dir : Len(queue'[d]) <= QueueDepth
        BY <2>1, <2>3 DEF Types
    <2> QED BY <1>1, <2>2, <2>4 DEF ReleaseDownlink, Types, Tails, bound, epoch
<1>2. CASE EndTick
    <2>1. time \in Nat /\ nextUpdate \in Nat
        BY Timed DEF Types
    <2>2. nextUpdate' \in Nat
        <3>1. CASE time < nextUpdate
            BY <1>2, <2>1, <3>1 DEF EndTick
        <3>2. CASE ~(time < nextUpdate)
            <4>1. (time - nextUpdate) \div Period \in Nat
                BY <2>1, <3>2, Sizes
            <4>2. PICK k \in Nat : k = (time - nextUpdate) \div Period
                BY <4>1
            <4>3. nextUpdate' = nextUpdate + (k + 1) * Period
                BY <1>2, <3>2, <4>2 DEF EndTick
            <4>4. (k + 1) * Period \in Nat
                BY Sizes
            <4> QED BY <2>1, <4>3, <4>4
        <3> QED BY <3>1, <3>2
    <2> QED BY <1>2, <2>2 DEF EndTick, Types, radio, bound, epoch
<1> QED BY <1>1, <1>2

LEMMA TypesSend ==
    ASSUME Types, SendData
    PROVE  Types'
<1>1. sent["down"] \in Nat /\ sent["down"] < Downlinks
    BY EitherWay DEF SendData, Types
<1>2. PICK n \in 1..(Uplinks + Downlinks) : n = sent["down"] + 1
    BY <1>1, Numbers
<1>3. PICK p \in Packets : p = Packet(n)
    BY PacketTyped
<1>4. PICK ok \in BOOLEAN :
          /\ last' = IF ok THEN [last EXCEPT !["down"] = p] ELSE last
          /\ queue' = IF ok /\ Delay("down") > 0
                      THEN [queue EXCEPT !["down"] =
                               Enqueue(@, [p EXCEPT !.release = time + Delay("down")])]
                      ELSE queue
          /\ IF ok /\ Delay("down") = 0 THEN Transmit(p) ELSE UNCHANGED ground
    BY <1>2, <1>3 DEF SendData, Admitted
<1>5. last' \in [Dir -> Packets \cup {None}]
    BY <1>4 DEF Types
<1>6. queue' \in [Dir -> Seq(Packets)] /\ \A d \in Dir : Len(queue'[d]) <= QueueDepth
    <2>1. CASE ok /\ Delay("down") > 0
        <3> DEFINE w == [p EXCEPT !.release = time + Delay("down")]
        <3>1. w \in Packets
            BY <2>1, Waiting, EitherWay
        <3>2. queue["down"] \in Seq(Packets) /\ Len(queue["down"]) <= QueueDepth
            BY EitherWay DEF Types
        <3>3. queue' = [queue EXCEPT !["down"] = Enqueue(queue["down"], w)]
            BY <1>4, <2>1
        <3> HIDE DEF w
        <3>4. Enqueue(queue["down"], w) \in Seq(Packets)
              /\ Len(Enqueue(queue["down"], w)) <= QueueDepth
            BY <3>1, <3>2, Enqueued
        <3> QED BY <3>3, <3>4 DEF Types
    <2>2. CASE ~(ok /\ Delay("down") > 0)
        BY <1>4, <2>2 DEF Types
    <2> QED BY <2>1, <2>2
<1>7. ground' \in Seq(Tails)
    <2>1. ground \in Seq(Tails)
        BY DEF Types, Tails
    <2> QED BY <1>4, <2>1, TypesTransmit
<1>8. sent' \in [Dir -> Nat]
    <2>1. sent' = [sent EXCEPT !["down"] = sent["down"] + 1] /\ sent["down"] + 1 \in Nat
        BY <1>1 DEF SendData
    <2> QED BY <2>1 DEF Types
<1>9. UNCHANGED <<phase, time, socket, thread, running, power, mode, link, nextUpdate, operations,
                  resets, offs>>
    BY DEF SendData, epoch
<1> QED BY <1>5, <1>6, <1>7, <1>8, <1>9 DEF Types, Tails

LEMMA TypesEnd ==
    ASSUME Types, Stop \/ Join
    PROVE  Types'
<1>1. <<>> \in Seq(Packets) /\ Len(<<>>) = 0
    BY EmptySeq
<1>2. CASE Stop
    BY <1>2 DEF Stop, Types, radio, bound, epoch
<1>3. CASE Join
    BY <1>1, <1>3, Sizes DEF Join, Types, bound, epoch
<1> QED BY <1>2, <1>3

\* Every step keeps the types.
LEMMA TypesStep ==
    ASSUME Types, [Next]_vars
    PROVE  Types'
<1>1. CASE Next
    BY <1>1, TypesWorker, TypesPower, TypesLink, TypesGround, TypesReceive, TypesTick, TypesRelease,
       TypesSend, TypesEnd DEF Next, GroundThread, Worker, Commit
<1>2. CASE UNCHANGED vars
    BY <1>2 DEF vars, radio, host, bound, epoch, Types
<1> QED BY <1>1, <1>2

-----------------------------------------------------------------------------
\* Deliver keeps the ring and extends what waits in it.
LEMMA RingDelivers ==
    ASSUME Ring, NEW ps \in Seq(Packets), Deliver(ps)
    PROVE  Ring' /\ Extends(pending, pending', ps, Len(ps))
<1> DEFINE h == [rx |-> rx, irq |-> irq, pending |-> pending]
<1>1. PICK a, b, c : a = rx /\ b = irq /\ c = pending
    OBVIOUS
<1> DEFINE g == [rx |-> a, irq |-> b, pending |-> c]
<1>2. RingOK(g)
    BY <1>1 DEF Ring
<1>3. RingOK(Delivered(g, ps)) /\ Extends(c, Delivered(g, ps).pending, ps, Len(ps))
    <2>1. g.pending = c
        OBVIOUS
    <2> HIDE DEF g
    <2>2. Extends(g.pending, Delivered(g, ps).pending, ps, Len(ps))
        BY <1>2, DeliveredKeeps
    <2> QED BY <1>2, <2>1, <2>2, DeliveredKeeps
<1>4. PICK d : d = Delivered(g, ps)
    OBVIOUS
<1>5. rx' = d.rx /\ irq' = d.irq /\ pending' = d.pending
    BY <1>1, <1>4 DEF Deliver
<1>6. RingOK([rx |-> d.rx, irq |-> d.irq, pending |-> d.pending])
    <2>1. RingOK(d)
        BY <1>3, <1>4
    <2> QED BY <2>1 DEF RingOK
<1>7. Ring'
    BY <1>5, <1>6 DEF Ring
<1> QED BY <1>1, <1>3, <1>4, <1>5, <1>7

\* The parts of Ring, of the variables themselves.
LEMMA RingParts ==
    ASSUME Ring
    PROVE  /\ rx \in Rings /\ irq \in Lines /\ pending \in Seq(ByteSet)
           /\ Len(pending) = Count(rx) /\ Len(pending) \in Nat
           /\ \A i \in 0..(Len(pending) - 1) : pending[i + 1] = rx.cell[Slot(rx.tail + i)]
           /\ NoGap(pending)
           /\ Len(pending) >= Threshold => irq.asserted
           /\ irq.asserted => irq.line \/ irq.forced
    BY LenProperties DEF Ring, RingOK

\* The ring at first and after a loss of power.
LEMMA RingEmpty ==
    RingOK([rx |-> EmptyRing, irq |-> NoInterrupt, pending |-> <<>>])
<1>1. EmptyRing \in Rings /\ Count(EmptyRing) = 0
    BY Sizes DEF EmptyRing, Rings, Count
<1>2. <<>> \in Seq(ByteSet) /\ Len(<<>>) = 0
    BY EmptySeq
<1>3. NoGap(<<>>)
    BY <1>2 DEF NoGap
<1>4. NoInterrupt \in Lines /\ ~NoInterrupt.asserted
    BY DEF NoInterrupt, Lines
<1> HIDE DEF EmptyRing, NoInterrupt
<1> QED BY <1>1, <1>2, <1>3, <1>4, Sizes DEF RingOK

\* A loss of power empties the ring.
LEMMA RingClears ==
    ASSUME ClearBuffers
    PROVE  Ring'
    BY RingEmpty DEF ClearBuffers, Ring

\* The interrupt line is updated, or written by the flight software.
LEMMA RingInterrupts ==
    ASSUME Ring, UNCHANGED <<rx, pending>>,
           \/ irq' = UpdateInterrupt(irq, rx)
           \/ \E line \in BOOLEAN : irq' = [irq EXCEPT !.line = line, !.forced = TRUE]
    PROVE  Ring'
<1>1. /\ irq' \in Lines
      /\ Len(pending) >= Threshold => irq'.asserted
      /\ irq'.asserted => irq'.line \/ irq'.forced
    <2>1. CASE irq' = UpdateInterrupt(irq, rx)
        BY <2>1, RingParts, Interrupt
    <2>2. CASE \E line \in BOOLEAN : irq' = [irq EXCEPT !.line = line, !.forced = TRUE]
        BY <2>2, RingParts DEF Lines
    <2> QED BY <2>1, <2>2
<1>2. PICK a, b, c : a = rx /\ b = irq' /\ c = pending
    OBVIOUS
<1>3. RingOK([rx |-> a, irq |-> b, pending |-> c])
    BY <1>1, <1>2, RingParts DEF RingOK
<1> QED BY <1>2, <1>3 DEF Ring

\* Reading takes the oldest bytes, and no other.
LEMMA Reading ==
    ASSUME Ring, ReceiveData
    PROVE  \E n \in 1..Len(pending) :
              /\ rx' = Without(rx, n) /\ UNCHANGED irq
              /\ pending' \in Seq(ByteSet) /\ Len(pending') = Len(pending) - n
              /\ \A i \in 1..(Len(pending) - n) : pending'[i] = pending[n + i]
<1>1. PICK requested \in Reads :
          LET n == Min({requested, Count(rx)})
          IN n > 0 /\ rx' = Without(rx, n) /\ pending' = SubSeq(pending, n + 1, Len(pending))
    BY DEF ReceiveData
<1>2. requested \in Nat /\ Count(rx) \in Nat /\ Count(rx) = Len(pending)
    BY RingParts, RadioAssumption
<1>3. PICK n \in 1..Len(pending) : n = Min({requested, Count(rx)})
    BY <1>1, <1>2, Least
<1>4. PICK s \in Seq(ByteSet) : s = pending
    BY RingParts
<1>5. Len(s) \in Nat /\ n \in 1..Len(s) /\ \A i \in 1..Len(s) : s[i] \in ByteSet
    BY <1>3, <1>4, LenProperties
<1>6. pending' = SubSeq(s, n + 1, Len(s))
    BY <1>1, <1>3, <1>4
<1>7. /\ SubSeq(s, n + 1, Len(s)) \in Seq(ByteSet)
      /\ Len(SubSeq(s, n + 1, Len(s))) = Len(s) - n
      /\ \A i \in 1..(Len(s) - n) : SubSeq(s, n + 1, Len(s))[i] = s[n + i]
    <2>1. ASSUME NEW i \in 1..(Len(s) - n) PROVE (n + 1) + i - 1 = n + i
        BY <1>5
    <2>2. \A i \in (n + 1)..Len(s) : s[i] \in ByteSet
        BY <1>5
    <2> QED BY <1>5, <2>1, <2>2, SubSeqProperties
<1> QED BY <1>1, <1>3, <1>4, <1>6, <1>7 DEF ReceiveData

\* RECEIVE takes bytes off the ring without updating the line.
LEMMA RingReads ==
    ASSUME Ring, ReceiveData
    PROVE  Ring'
<1>1. PICK n \in 1..Len(pending) :
          /\ rx' = Without(rx, n) /\ UNCHANGED irq
          /\ pending' \in Seq(ByteSet) /\ Len(pending') = Len(pending) - n
          /\ \A i \in 1..(Len(pending) - n) : pending'[i] = pending[n + i]
    BY Reading
<1>2. PICK a, b, c, s, r : a = rx' /\ b = irq /\ c = pending' /\ s = pending /\ r = rx
    OBVIOUS
<1>3. /\ r \in Rings /\ b \in Lines /\ s \in Seq(ByteSet) /\ Len(s) = Count(r) /\ Len(s) \in Nat
      /\ \A i \in 0..(Len(s) - 1) : s[i + 1] = r.cell[Slot(r.tail + i)]
      /\ NoGap(s) /\ (Len(s) >= Threshold => b.asserted)
      /\ b.asserted => b.line \/ b.forced
    BY <1>2, RingParts
<1>4. /\ a = Without(r, n) /\ c \in Seq(ByteSet) /\ Len(c) = Len(s) - n
      /\ \A i \in 1..(Len(s) - n) : c[i] = s[n + i]
      /\ n \in 1..Count(r) /\ n \in 1..Len(s)
    BY <1>1, <1>2, <1>3
<1>5. /\ a \in Rings /\ a.tail = Slot(r.tail + n) /\ Count(a) = Count(r) - n
      /\ \A i \in 0..(Count(r) - n - 1) :
            a.cell[Slot(r.tail + (n + i))] = r.cell[Slot(r.tail + (n + i))]
    BY <1>3, <1>4, WithoutRing
<1>6. ASSUME NEW i \in 0..(Len(c) - 1) PROVE c[i + 1] = a.cell[Slot(a.tail + i)]
    <2>1. n + i \in 0..(Len(s) - 1) /\ i + 1 \in 1..(Len(s) - n) /\ i \in 0..(Count(r) - n - 1)
          /\ n + (i + 1) = (n + i) + 1
        BY <1>3, <1>4
    <2>2. c[i + 1] = r.cell[Slot(r.tail + (n + i))]
        BY <1>3, <1>4, <2>1
    <2>3. Slot(Slot(r.tail + n) + i) = Slot(r.tail + (n + i))
        <3>1. /\ r.tail \in 0..(RxSize - 1) /\ n \in 0..(RxSize - 1) /\ i \in 0..(RxSize - 1)
              /\ n + i <= RxSize - 1
            <4>1. r.tail \in 0..(RxSize - 1) /\ Count(r) \in 0..(RxSize - 1)
                BY <1>3, CountRange DEF Rings
            <4> QED BY <1>3, <1>4, <2>1, <4>1, Sizes
        <3> QED BY <3>1, GoOn
    <2> QED BY <1>5, <2>1, <2>2, <2>3
<1>7. NoGap(c)
    <2> SUFFICES ASSUME NEW i \in 1..(Len(c) - 1)
                 PROVE  \/ c[i + 1][2] = 1
                        \/ c[i + 1] = <<c[i][1], c[i][2] + 1>>
        BY DEF NoGap
    <2>1. /\ i \in 1..(Len(s) - n) /\ i + 1 \in 1..(Len(s) - n) /\ n + i \in 1..(Len(s) - 1)
          /\ n + (i + 1) = (n + i) + 1
        BY <1>3, <1>4
    <2>2. c[i] = s[n + i] /\ c[i + 1] = s[(n + i) + 1]
        BY <1>4, <2>1
    <2> QED BY <1>3, <2>1, <2>2 DEF NoGap
<1>8. Len(c) = Count(a) /\ (Len(c) >= Threshold => b.asserted)
    BY <1>3, <1>4, <1>5, Sizes
<1>9. RingOK([rx |-> a, irq |-> b, pending |-> c])
    BY <1>3, <1>4, <1>5, <1>6, <1>7, <1>8 DEF RingOK
<1> QED BY <1>1, <1>2, <1>9 DEF Ring

\* What each action delivers.
LEMMA ReceiveDelivers ==
    ASSUME Types, Receive
    PROVE  \/ UNCHANGED <<rx, irq, pending>>
           \/ /\ socket # <<>>
              /\ \E ps \in Seq(Packets) : Len(ps) = 1 /\ ps[1] = socket[1] /\ Deliver(ps)
<1>1. CASE socket = <<>>
    BY <1>1 DEF Receive
<1>2. CASE socket # <<>>
    <2>1. PICK p : p = Head(socket)
        OBVIOUS
    <2>2. p \in Packets /\ p = socket[1]
        BY <1>2, <2>1, HeadTailProperties DEF Types
    <2>3. <<p>> \in Seq(Packets) /\ Len(<<p>>) = 1 /\ <<p>>[1] = p
        BY <2>2
    <2>4. UNCHANGED <<rx, irq, pending>> \/ Deliver(<<p>>)
        BY <1>2, <2>1 DEF Receive
    <2> QED BY <1>2, <2>2, <2>3, <2>4
<1> QED BY <1>1, <1>2

\* What on_tick delivers: the first packets of the queue, or nothing.
LEMMA TickDelivers ==
    ASSUME Types, OnTick
    PROVE  \E n \in 0..Len(queue["up"]) :
              /\ \A i \in 1..n : queue["up"][i].release <= time'
              /\ Len(queue'["up"]) = Len(queue["up"]) - n
              /\ \A i \in 1..(Len(queue["up"]) - n) : queue'["up"][i] = queue["up"][n + i]
              /\ n < Len(queue["up"]) => queue["up"][n + 1].release > time'
              /\ \E ps \in Seq(Packets) :
                    /\ Len(ps) <= n /\ \A i \in 1..Len(ps) : ps[i] = queue["up"][i]
                    /\ Deliver(ps)
<1>1. queue["up"] \in Seq(Packets) /\ Len(queue["up"]) \in Nat /\ time' \in Nat
    BY EitherWay, Ticking, LenProperties DEF Types
<1>2. PICK q \in Seq(Packets), t \in Nat : q = queue["up"] /\ t = time'
    BY <1>1
<1>3. PICK n \in 0..Len(q) :
              /\ Due(q, t) \in Seq(Packets) /\ Len(Due(q, t)) = n
              /\ \A i \in 1..n : Due(q, t)[i] = q[i] /\ q[i].release <= t
              /\ Rest(q, t) \in Seq(Packets) /\ Len(Rest(q, t)) = Len(q) - n
              /\ \A i \in 1..(Len(q) - n) : Rest(q, t)[i] = q[n + i]
              /\ n < Len(q) => q[n + 1].release > t
    BY DueAndRest
<1>4. queue'["up"] = Rest(q, t)
    BY <1>2, EitherWay DEF OnTick, Types
<1>5. \E ps \in Seq(Packets) : /\ Len(ps) <= n /\ \A i \in 1..Len(ps) : ps[i] = q[i]
                               /\ Deliver(ps)
    <2>1. <<>> \in Seq(Packets) /\ Len(<<>>) = 0
        BY EmptySeq
    <2>2. PICK ps : ps = IF Listens(time') THEN Due(queue["up"], time') ELSE <<>>
        OBVIOUS
    <2>3. ps = Due(q, t) \/ ps = <<>>
        BY <1>2, <2>2
    <2>4. Deliver(ps)
        BY <2>2 DEF OnTick
    <2>5. ps \in Seq(Packets) /\ Len(ps) <= n /\ \A i \in 1..Len(ps) : ps[i] = q[i]
        <3>1. Len(q) \in Nat /\ n \in Nat
            BY LenProperties
        <3>2. CASE ps = Due(q, t)
            BY <1>3, <3>1, <3>2
        <3>3. CASE ps = <<>>
            BY <2>1, <3>1, <3>3
        <3> QED BY <2>3, <3>2, <3>3
    <2> QED BY <2>4, <2>5, Zenon
<1> QED BY <1>2, <1>3, <1>4, <1>5, ZenonT(60)

\* A replay delivers the last packet that crossed.
LEMMA ReplayDelivers ==
    ASSUME Types, Replay
    PROVE  \/ UNCHANGED <<rx, irq, pending>>
           \/ /\ last["up"] # None /\ UNCHANGED ground
              /\ \E ps \in Seq(Packets) :
                    /\ Len(ps) = 1 /\ ps[1] = [last["up"] EXCEPT !.replay = TRUE]
                    /\ Deliver(ps)
<1>1. CASE UNCHANGED <<rx, irq, pending>>
    BY <1>1
<1>2. CASE ~UNCHANGED <<rx, irq, pending>>
    <2>1. PICK p : p = [last["up"] EXCEPT !.replay = TRUE]
        OBVIOUS
    <2>2. last["up"] # None /\ UNCHANGED ground /\ Deliver(<<p>>)
        BY <1>2, <2>1 DEF Replay
    <2>3. last["up"] \in Packets
        BY <2>2, EitherWay DEF Types
    <2>4. p \in Packets
        BY <2>1, <2>3 DEF Packets
    <2>5. <<p>> \in Seq(Packets) /\ Len(<<p>>) = 1 /\ <<p>>[1] = p
        BY <2>4
    <2> QED BY <2>1, <2>2, <2>5
<1> QED BY <1>1, <1>2

\* Every step keeps the ring.
LEMMA RingStep ==
    ASSUME Types, Ring, [Next]_vars
    PROVE  Ring'
<1>1. CASE UNCHANGED <<rx, irq, pending>>
    BY <1>1 DEF Ring
<1>2. CASE Receive
    BY <1>1, <1>2, ReceiveDelivers, RingDelivers
<1>3. CASE OnTick
    BY <1>3, TickDelivers, RingDelivers
<1>4. CASE Replay
    BY <1>1, <1>4, ReplayDelivers, RingDelivers
<1>5. CASE EndTick
    <2>1. UNCHANGED <<rx, pending>> /\ (UNCHANGED irq \/ irq' = UpdateInterrupt(irq, rx))
        BY <1>5 DEF EndTick
    <2> QED BY <1>1, <2>1, RingInterrupts
<1>6. CASE ForceInterrupt
    BY <1>6, RingInterrupts DEF ForceInterrupt
<1>7. CASE ReceiveData
    BY <1>7, RingReads
<1>8. CASE PowerOff \/ PowerSet \/ ResetComponent
    BY <1>8, RingClears DEF PowerOff, PowerSet, ResetComponent, PowerReset
<1>9. CASE GroundSends \/ Select \/ PowerOn \/ SetConfiguration \/ SendData \/ EndService
    BY <1>1, <1>9 DEF GroundSends, Select, PowerOn, SetConfiguration, SendData, EndService, host
<1>11. CASE SelectFails \/ Snapshot \/ ReleaseDownlink
    BY <1>1, <1>11 DEF SelectFails, Snapshot, ReleaseDownlink, host
<1>10. CASE Manage \/ SetLink \/ ResetLink \/ Stop \/ Join \/ UNCHANGED vars
    BY <1>1, <1>10 DEF Manage, SetLink, ResetLink, Stop, Join, host, vars
<1> QED BY <1>2, <1>3, <1>4, <1>5, <1>6, <1>7, <1>8, <1>9, <1>10, <1>11
        DEF Next, GroundThread, Worker, Commit

-----------------------------------------------------------------------------
\* Which actions change what.
LEMMA SocketChanges ==
    ASSUME [Next]_vars
    PROVE  \/ UNCHANGED <<socket, resets, offs>>
           \/ GroundSends \/ Receive \/ PowerOff \/ PowerSet \/ ResetComponent \/ Join
<1>1. CASE Select \/ SelectFails \/ UNCHANGED vars
    BY <1>1 DEF Select, SelectFails, vars, epoch
<1>4. CASE Snapshot \/ OnTick \/ ReleaseDownlink \/ EndTick
    BY <1>4 DEF Snapshot, OnTick, ReleaseDownlink, EndTick, epoch
<1>2. CASE PowerOn \/ ForceInterrupt \/ SetConfiguration \/ ReceiveData \/ SendData \/ EndService
    BY <1>2 DEF PowerOn, ForceInterrupt, SetConfiguration, ReceiveData, SendData, EndService, epoch
<1>3. CASE Manage \/ SetLink \/ Replay \/ ResetLink \/ Stop
    BY <1>3 DEF Manage, SetLink, Replay, ResetLink, Stop, epoch
<1> QED BY <1>1, <1>2, <1>3, <1>4 DEF Next, GroundThread, Worker, Commit

LEMMA QueueChanges ==
    ASSUME [Next]_vars
    PROVE  \/ UNCHANGED <<queue, resets>>
           \/ Receive \/ OnTick \/ ReleaseDownlink \/ SendData
           \/ /\ queue' = [d \in Dir |-> <<>>]
              /\ PowerSet \/ ResetComponent \/ ResetLink \/ Join
<1>1. CASE GroundSends \/ Select \/ SelectFails \/ Snapshot \/ EndTick \/ UNCHANGED vars
    BY <1>1 DEF GroundSends, Select, SelectFails, Snapshot, EndTick, vars, radio, epoch
<1>2. CASE PowerOn \/ PowerOff \/ ForceInterrupt \/ SetConfiguration \/ ReceiveData \/ EndService
    BY <1>2 DEF PowerOn, PowerOff, ForceInterrupt, SetConfiguration, ReceiveData, EndService,
                radio, epoch
<1>3. CASE Manage \/ SetLink \/ Replay \/ Stop
    BY <1>3 DEF Manage, SetLink, Replay, Stop, radio, epoch
<1>4. CASE PowerSet \/ ResetComponent \/ ResetLink \/ Join
    BY <1>4 DEF PowerSet, ResetComponent, PowerReset, ResetLink, Join
<1> QED BY <1>1, <1>2, <1>3, <1>4 DEF Next, GroundThread, Worker, Commit

LEMMA PendingChanges ==
    ASSUME [Next]_vars
    PROVE  \/ UNCHANGED <<pending, resets, offs, time>>
           \/ Receive \/ OnTick \/ ReceiveData \/ (Replay /\ UNCHANGED <<resets, offs, time>>)
           \/ Snapshot /\ UNCHANGED <<pending, resets, offs>>
           \/ pending' = <<>>
<1>1. CASE GroundSends \/ Select \/ SelectFails \/ ReleaseDownlink \/ EndTick \/ UNCHANGED vars
    BY <1>1 DEF GroundSends, Select, SelectFails, ReleaseDownlink, EndTick, vars, epoch
<1>6. CASE Snapshot
    BY <1>6 DEF Snapshot, epoch
<1>2. CASE PowerOn \/ ForceInterrupt \/ SetConfiguration \/ SendData \/ EndService
    BY <1>2 DEF PowerOn, ForceInterrupt, SetConfiguration, SendData, EndService, epoch
<1>3. CASE Manage \/ SetLink \/ ResetLink \/ Stop \/ Join
    BY <1>3 DEF Manage, SetLink, ResetLink, Stop, Join, epoch
<1>4. CASE PowerOff \/ PowerSet \/ ResetComponent
    BY <1>4 DEF PowerOff, PowerSet, ResetComponent, PowerReset, ClearBuffers
<1>5. CASE Replay
    BY <1>5 DEF Replay, epoch
<1> QED BY <1>1, <1>2, <1>3, <1>4, <1>5, <1>6 DEF Next, GroundThread, Worker, Commit

LEMMA GroundChanges ==
    ASSUME [Next]_vars
    PROVE  \/ UNCHANGED <<ground, time>>
           \/ Snapshot \/ OnTick \/ ReleaseDownlink \/ SendData \/ Replay
<1>1. CASE GroundSends \/ Select \/ SelectFails \/ Receive \/ EndTick \/ UNCHANGED vars
    BY <1>1 DEF GroundSends, Select, SelectFails, Receive, EndTick, vars
<1>2. CASE PowerOn \/ PowerOff \/ ForceInterrupt \/ SetConfiguration \/ ReceiveData \/ EndService
    BY <1>2 DEF PowerOn, PowerOff, ForceInterrupt, SetConfiguration, ReceiveData, EndService
<1>3. CASE Manage \/ PowerSet \/ ResetComponent \/ SetLink \/ ResetLink \/ Stop \/ Join
    BY <1>3 DEF Manage, PowerSet, ResetComponent, SetLink, ResetLink, Stop, Join
<1> QED BY <1>1, <1>2, <1>3 DEF Next, GroundThread, Worker, Commit

LEMMA LastChanges ==
    ASSUME [Next]_vars
    PROVE  UNCHANGED last \/ Receive \/ SendData \/ last' = [d \in Dir |-> None]
<1>1. CASE GroundSends \/ Select \/ SelectFails \/ UNCHANGED vars
    BY <1>1 DEF GroundSends, Select, SelectFails, vars, radio
<1>5. CASE Snapshot \/ OnTick \/ ReleaseDownlink \/ EndTick
    BY <1>5 DEF Snapshot, OnTick, ReleaseDownlink, EndTick, radio
<1>2. CASE PowerOn \/ PowerOff \/ ForceInterrupt \/ SetConfiguration \/ ReceiveData \/ EndService
    BY <1>2 DEF PowerOn, PowerOff, ForceInterrupt, SetConfiguration, ReceiveData, EndService, radio
<1>3. CASE Manage \/ PowerSet \/ ResetComponent \/ SetLink \/ Replay \/ Stop \/ Join
    BY <1>3 DEF Manage, PowerSet, ResetComponent, SetLink, Replay, Stop, Join, radio
<1>4. CASE ResetLink
    BY <1>4 DEF ResetLink
<1> QED BY <1>1, <1>2, <1>3, <1>4, <1>5 DEF Next, GroundThread, Worker, Commit

-----------------------------------------------------------------------------
\* What the actions do to the socket and to the queues.
LEMMA GroundSendsOne ==
    ASSUME Types, GroundSends
    PROVE  /\ UNCHANGED <<resets, offs, queue, pending>>
           /\ sent["up"] \in Nat /\ sent' = [sent EXCEPT !["up"] = @ + 1]
           /\ Len(socket') = Len(socket) + 1 /\ socket' \in Seq(Packets)
           /\ \A i \in 1..Len(socket) : socket'[i] = socket[i]
           /\ socket'[Len(socket) + 1] = Packet(sent["up"] + 1)
           /\ Packet(sent["up"] + 1) \in Unread(resets, offs)
<1>1. sent["up"] \in Nat /\ sent["up"] < Uplinks
    BY EitherWay DEF GroundSends, Types
<1>2. sent["up"] + 1 \in 1..(Uplinks + Downlinks)
    BY <1>1, Numbers
<1>3. PICK p \in Packets : p = Packet(sent["up"] + 1)
    BY <1>2, PacketTyped
<1>4. p \in Unread(resets, offs)
    BY <1>3 DEF Packet, Unread
<1>5. PICK s \in Seq(Packets) : s = socket
    BY DEF Types
<1>6. socket' = Append(s, p)
    BY <1>3, <1>5 DEF GroundSends
<1>7. /\ Append(s, p) \in Seq(Packets) /\ Len(Append(s, p)) = Len(s) + 1
      /\ \A i \in 1..Len(s) : Append(s, p)[i] = s[i]
      /\ Append(s, p)[Len(s) + 1] = p
    BY AppendProperties
<1> QED BY <1>1, <1>3, <1>4, <1>5, <1>6, <1>7 DEF GroundSends, radio, epoch

\* What the ground thread takes off the socket and where it may go.
LEMMA ReceiveTakes ==
    ASSUME Types, Receive
    PROVE  /\ UNCHANGED <<resets, offs, time, sent, ground>>
           /\ \/ UNCHANGED <<socket, queue, last, pending>>
              \/ /\ socket # <<>> /\ socket[1] \in Packets
                 /\ Len(socket) \in Nat \ {0} /\ Len(socket') = Len(socket) - 1
                 /\ \A i \in 1..(Len(socket) - 1) : socket'[i] = socket[i + 1]
                 /\ UNCHANGED last \/ last' = [last EXCEPT !["up"] = socket[1]]
                 /\ \/ UNCHANGED queue
                    \/ /\ Delay("up") > 0
                       /\ queue' = [queue EXCEPT !["up"] =
                              Enqueue(@, [socket[1] EXCEPT !.release = time + Delay("up")])]
<1>1. UNCHANGED <<resets, offs, time, sent, ground>>
    BY DEF Receive, epoch, bound
<1>2. CASE socket = <<>>
    BY <1>1, <1>2 DEF Receive
<1>3. CASE socket # <<>>
    <2>1. PICK s \in Seq(Packets) : s = socket
        BY DEF Types
    <2>2. /\ Head(s) \in Packets /\ Head(s) = s[1] /\ Len(s) \in Nat \ {0}
          /\ Len(Tail(s)) = Len(s) - 1
          /\ \A i \in 1..(Len(s) - 1) : Tail(s)[i] = s[i + 1]
        <3>1. s # <<>> /\ Len(s) \in Nat
            BY <1>3, <2>1, LenProperties
        <3>2. Head(s) \in Packets /\ Head(s) = s[1] /\ Len(s) # 0
            BY <3>1, HeadTailProperties, EmptySeq
        <3>3. Len(Tail(s)) = Len(s) - 1 /\ \A i \in 1..(Len(s) - 1) : Tail(s)[i] = s[i + 1]
            BY <3>1, HeadTailProperties
        <3> QED BY <3>1, <3>2, <3>3
    <2>3. PICK p : p = Head(socket)
        OBVIOUS
    <2>4. PICK ok \in BOOLEAN :
              /\ socket' = Tail(socket)
              /\ last' = IF ok THEN [last EXCEPT !["up"] = p] ELSE last
              /\ queue' = IF ok /\ Delay("up") > 0
                          THEN [queue EXCEPT !["up"] =
                                   Enqueue(@, [p EXCEPT !.release = time + Delay("up")])]
                          ELSE queue
        BY <1>3, <2>3 DEF Receive, Admitted
    <2>5. /\ p = socket[1] /\ socket[1] \in Packets /\ Len(socket) \in Nat \ {0}
          /\ Len(socket') = Len(socket) - 1
          /\ \A i \in 1..(Len(socket) - 1) : socket'[i] = socket[i + 1]
        BY <2>1, <2>2, <2>3, <2>4
    <2>6. \/ UNCHANGED queue
          \/ /\ Delay("up") > 0
             /\ queue' = [queue EXCEPT !["up"] =
                    Enqueue(@, [socket[1] EXCEPT !.release = time + Delay("up")])]
        BY <2>4, <2>5
    <2>7. UNCHANGED last \/ last' = [last EXCEPT !["up"] = socket[1]]
        BY <2>4, <2>5
    <2> QED BY <1>1, <1>3, <2>5, <2>6, <2>7
<1> QED BY <1>2, <1>3

\* Where a packet of the flight software may go.
LEMMA SendGoes ==
    ASSUME Types, SendData
    PROVE  /\ UNCHANGED <<resets, offs, time, phase, socket, pending>> /\ phase = "service"
           /\ sent["down"] \in Nat /\ sent' = [sent EXCEPT !["down"] = @ + 1]
           /\ Packet(sent["down"] + 1) \in Unread(resets, offs)
           /\ UNCHANGED last \/ last' = [last EXCEPT !["down"] = Packet(sent["down"] + 1)]
           /\ \/ UNCHANGED queue
              \/ /\ Delay("down") > 0
                 /\ queue' = [queue EXCEPT !["down"] =
                        Enqueue(@, [Packet(sent["down"] + 1) EXCEPT !.release =
                                        time + Delay("down")])]
           /\ \/ UNCHANGED ground
              \/ ground' = Append(ground, [packet |-> Packet(sent["down"] + 1), epoch |-> epoch])
<1>1. sent["down"] \in Nat /\ sent["down"] < Downlinks
    BY EitherWay DEF SendData, Types
<1>2. sent["down"] + 1 \in 1..(Uplinks + Downlinks)
    BY <1>1, Numbers
<1>3. PICK p \in Packets : p = Packet(sent["down"] + 1)
    BY <1>2, PacketTyped
<1>4. p \in Unread(resets, offs)
    BY <1>3 DEF Packet, Unread
<1>5. PICK ok \in BOOLEAN :
          /\ last' = IF ok THEN [last EXCEPT !["down"] = p] ELSE last
          /\ queue' = IF ok /\ Delay("down") > 0
                      THEN [queue EXCEPT !["down"] =
                               Enqueue(@, [p EXCEPT !.release = time + Delay("down")])]
                      ELSE queue
          /\ IF ok /\ Delay("down") = 0 THEN Transmit(p) ELSE UNCHANGED ground
    BY <1>3 DEF SendData, Admitted
<1>6. /\ UNCHANGED <<resets, offs, time, phase, socket, pending>> /\ phase = "service"
      /\ sent' = [sent EXCEPT !["down"] = @ + 1]
    BY DEF SendData, epoch
<1>7. \/ UNCHANGED queue
      \/ /\ Delay("down") > 0
         /\ queue' = [queue EXCEPT !["down"] =
                Enqueue(@, [p EXCEPT !.release = time + Delay("down")])]
    BY <1>5
<1>8. UNCHANGED last \/ last' = [last EXCEPT !["down"] = p]
    BY <1>5
<1>9. UNCHANGED ground \/ ground' = Append(ground, [packet |-> p, epoch |-> epoch])
    BY <1>5, TypesTransmit
<1> QED BY <1>1, <1>3, <1>4, <1>6, <1>7, <1>8, <1>9

\* A queue after a packet with a delay was enqueued.
LEMMA Grown ==
    ASSUME Types, NEW d \in Dir, NEW p \in Packets, Delay(d) > 0,
           queue' = [queue EXCEPT ![d] = Enqueue(@, [p EXCEPT !.release = time + Delay(d)])]
    PROVE  \E w \in Packets :
              /\ w.id = p.id /\ w.resets = p.resets /\ w.replay = p.replay
              /\ w.release > time
              /\ Len(queue[d]) \in Nat /\ Len(queue'[d]) \in {Len(queue[d]), Len(queue[d]) + 1}
              /\ \A i \in 1..Len(queue[d]) : queue'[d][i] = queue[d][i]
              /\ Len(queue'[d]) = Len(queue[d]) + 1 => queue'[d][Len(queue[d]) + 1] = w
              /\ \A c \in Dir : c # d => queue'[c] = queue[c]
<1>1. PICK w \in Packets : w = [p EXCEPT !.release = time + Delay(d)]
    BY Waiting
<1>2. PICK q \in Seq(Packets) : q = queue[d]
    BY DEF Types
<1>3. Len(q) \in Nat /\ Len(q) <= QueueDepth
    BY <1>2, LenProperties DEF Types
<1>4. queue'[d] = Enqueue(q, w) /\ \A c \in Dir : c # d => queue'[c] = queue[c]
    BY <1>1, <1>2 DEF Types
<1>5. /\ Len(Enqueue(q, w)) \in {Len(q), Len(q) + 1}
      /\ \A i \in 1..Len(q) : Enqueue(q, w)[i] = q[i]
      /\ Len(Enqueue(q, w)) = Len(q) + 1 => Enqueue(q, w)[Len(q) + 1] = w
    BY <1>3, Enqueued
<1>6. w.id = p.id /\ w.resets = p.resets /\ w.replay = p.replay /\ w.release > time
    <2>1. time + Delay(d) > time
        BY Waiting
    <2> QED BY <1>1, <2>1 DEF Packets
<1> QED BY <1>2, <1>3, <1>4, <1>5, <1>6

\* What on_tick transmits: the first packet of the queue, if the socket takes it.
LEMMA ReleaseSends ==
    ASSUME Types, ReleaseDownlink
    PROVE  /\ UNCHANGED <<resets, offs, time, phase, sent, socket, pending>> /\ phase = "release"
           /\ \A c \in Dir : c # "down" => queue'[c] = queue[c]
           /\ Len(queue["down"]) \in Nat \ {0} /\ Len(queue'["down"]) = Len(queue["down"]) - 1
           /\ \A i \in 1..(Len(queue["down"]) - 1) : queue'["down"][i] = queue["down"][1 + i]
           /\ queue["down"][1] \in Packets /\ queue["down"][1].release <= time
           /\ \/ UNCHANGED ground
              \/ ground' = Append(ground, [packet |-> queue["down"][1], epoch |-> epoch])
<1>1. UNCHANGED <<resets, offs, time, phase, sent, socket, pending>> /\ phase = "release"
    BY DEF ReleaseDownlink, epoch, bound
<1>2. PICK q \in Seq(Packets) :
          /\ q = queue["down"] /\ Len(q) \in Nat \ {0} /\ q[1] \in Packets
          /\ q[1].release <= time /\ Transmit(q[1])
          /\ queue' = [queue EXCEPT !["down"] = Tail(q)]
          /\ Len(Tail(q)) = Len(q) - 1
          /\ \A i \in 1..(Len(q) - 1) : Tail(q)[i] = q[1 + i]
    BY DownlinkFirstIs
<1>3. queue'["down"] = Tail(q) /\ \A c \in Dir : c # "down" => queue'[c] = queue[c]
    BY <1>2, EitherWay DEF Types
<1>4. UNCHANGED ground \/ ground' = Append(ground, [packet |-> q[1], epoch |-> epoch])
    BY <1>2, TypesTransmit
<1> QED BY <1>1, <1>2, <1>3, <1>4

\* One more packet reaches the ground.
LEMMA GroundHears ==
    ASSUME Types, NEW g \in Tails, ground' = Append(ground, g)
    PROVE  /\ Len(ground) \in Nat /\ Len(ground') = Len(ground) + 1
           /\ \A i \in 1..Len(ground) : ground'[i] = ground[i]
           /\ ground'[Len(ground) + 1] = g
<1>1. PICK s \in Seq(Tails) : s = ground
    BY DEF Types, Tails
<1> QED BY <1>1, AppendProperties, LenProperties

\* Every sequence of the state has the indices from 1 to its length.
LEMMA Indices ==
    ASSUME Types, Ring
    PROVE  /\ DOMAIN socket = 1..Len(socket) /\ Len(socket) \in Nat
           /\ \A d \in Dir : DOMAIN queue[d] = 1..Len(queue[d]) /\ Len(queue[d]) \in Nat
           /\ DOMAIN pending = 1..Len(pending) /\ Len(pending) \in Nat
           /\ DOMAIN ground = 1..Len(ground) /\ Len(ground) \in Nat
    BY RingParts, LenProperties DEF Types

\* The same after a step.
LEMMA IndicesNext ==
    ASSUME Types', Ring'
    PROVE  /\ DOMAIN socket' = 1..Len(socket') /\ Len(socket') \in Nat
           /\ \A d \in Dir : DOMAIN queue'[d] = 1..Len(queue'[d]) /\ Len(queue'[d]) \in Nat
           /\ DOMAIN pending' = 1..Len(pending') /\ Len(pending') \in Nat
           /\ DOMAIN ground' = 1..Len(ground') /\ Len(ground') \in Nat
<1>1. pending' \in Seq(ByteSet)
    BY DEF Ring, RingOK
<1> QED BY <1>1, LenProperties DEF Types

\* The socket holds nothing from before.
LEMMA SocketStep ==
    ASSUME Types, Ring, Types', Ring', SocketCurrent, [Next]_vars
    PROVE  SocketCurrent'
<1>1. CASE UNCHANGED <<socket, resets, offs>>
    BY <1>1 DEF SocketCurrent
<1>2. CASE GroundSends
    <2> SUFFICES ASSUME NEW i \in 1..Len(socket') PROVE socket'[i] \in Unread(resets, offs)
        BY <1>2, GroundSendsOne, IndicesNext DEF SocketCurrent
    <2>1. CASE i <= Len(socket)
        <3>1. i \in 1..Len(socket)
            BY <2>1, Indices, IndicesNext
        <3> QED BY <1>2, <3>1, GroundSendsOne, Indices DEF SocketCurrent
    <2>2. CASE i = Len(socket) + 1
        BY <1>2, <2>2, GroundSendsOne
    <2>3. i <= Len(socket) \/ i = Len(socket) + 1
        BY <1>2, GroundSendsOne, Indices
    <2> QED BY <2>1, <2>2, <2>3
<1>3. CASE Receive /\ ~UNCHANGED socket
    <2> SUFFICES ASSUME NEW i \in 1..Len(socket') PROVE socket'[i] \in Unread(resets, offs)
        BY <1>3, ReceiveTakes, IndicesNext DEF SocketCurrent
    <2>1. /\ Len(socket) \in Nat /\ Len(socket') = Len(socket) - 1
          /\ \A j \in 1..(Len(socket) - 1) : socket'[j] = socket[j + 1]
        BY <1>3, ReceiveTakes
    <2>2. i \in 1..(Len(socket) - 1) /\ i + 1 \in 1..Len(socket)
        BY <2>1
    <2> QED BY <2>1, <2>2, Indices DEF SocketCurrent
<1>4. CASE PowerOff \/ PowerSet \/ ResetComponent \/ Join
    <2>1. socket' = <<>>
        BY <1>4 DEF PowerOff, PowerSet, ResetComponent, PowerReset, ClearBuffers, Join
    <2>2. Len(<<>>) = 0
        BY EmptySeq
    <2> QED BY <2>1, <2>2, IndicesNext DEF SocketCurrent
<1> QED BY <1>1, <1>2, <1>3, <1>4, SocketChanges, ReceiveTakes

\* A queue of which only a beginning left.
LEMMA QueueShrinks ==
    ASSUME Types, Ring, Types', Ring', NEW d \in Dir, NEW n \in 0..Len(queue[d]),
           Len(queue'[d]) = Len(queue[d]) - n,
           \A i \in 1..(Len(queue[d]) - n) : queue'[d][i] = queue[d][n + i],
           NEW i \in DOMAIN queue'[d]
    PROVE  n + i \in DOMAIN queue[d] /\ queue'[d][i] = queue[d][n + i]
<1>1. /\ Len(queue[d]) \in Nat /\ DOMAIN queue[d] = 1..Len(queue[d])
      /\ DOMAIN queue'[d] = 1..Len(queue'[d])
    BY Indices, IndicesNext
<1>2. i \in 1..(Len(queue[d]) - n) /\ n + i \in 1..Len(queue[d])
    BY <1>1
<1> QED BY <1>1, <1>2

\* A queue holds nothing from before.
LEMMA QueueStep ==
    ASSUME Types, Ring, Types', Ring', SocketCurrent, QueueCurrent, [Next]_vars
    PROVE  QueueCurrent'
<1> SUFFICES ASSUME NEW d \in Dir, NEW i \in DOMAIN queue'[d]
             PROVE  queue'[d][i] \in Delayed(resets')
    BY DEF QueueCurrent
<1>1. CASE UNCHANGED <<queue, resets>>
    BY <1>1 DEF QueueCurrent
<1>2. ASSUME NEW c \in Dir, NEW p \in Unread(resets, offs), Delay(c) > 0, UNCHANGED resets,
             queue' = [queue EXCEPT ![c] = Enqueue(@, [p EXCEPT !.release = time + Delay(c)])]
      PROVE  queue'[d][i] \in Delayed(resets')
    <2>1. p \in Packets /\ ~p.replay /\ p.resets = resets
        BY DEF Unread
    <2>2. PICK w \in Packets :
              /\ w.id = p.id /\ w.resets = p.resets /\ w.replay = p.replay
              /\ w.release > time
              /\ Len(queue[c]) \in Nat /\ Len(queue'[c]) \in {Len(queue[c]), Len(queue[c]) + 1}
              /\ \A j \in 1..Len(queue[c]) : queue'[c][j] = queue[c][j]
              /\ Len(queue'[c]) = Len(queue[c]) + 1 => queue'[c][Len(queue[c]) + 1] = w
              /\ \A b \in Dir : b # c => queue'[b] = queue[b]
        BY <1>2, <2>1, Grown
    <2>3. w.release > 0
        <3>1. w.release \in Nat
            BY DEF Packets
        <3> QED BY <2>2, <3>1, Timed
    <2>4. w \in Delayed(resets')
        BY <1>2, <2>1, <2>2, <2>3 DEF Delayed
    <2>5. CASE d # c
        BY <1>2, <2>2, <2>5 DEF QueueCurrent
    <2>6. CASE d = c
        <3>1. i \in 1..Len(queue'[c]) /\ DOMAIN queue[c] = 1..Len(queue[c])
            BY <2>6, Indices, IndicesNext
        <3>2. CASE i \in 1..Len(queue[c])
            BY <1>2, <2>2, <2>6, <3>1, <3>2 DEF QueueCurrent
        <3>3. CASE ~(i \in 1..Len(queue[c]))
            <4>1. Len(queue'[c]) = Len(queue[c]) + 1 /\ i = Len(queue[c]) + 1
                BY <2>2, <3>1, <3>3
            <4> QED BY <2>2, <2>4, <2>6, <4>1
        <3> QED BY <3>2, <3>3
    <2> QED BY <2>5, <2>6
<1>3. CASE Receive
    <2>1. socket # <<>> /\ Len(socket) \in Nat \ {0} => socket[1] \in Unread(resets, offs)
        BY Indices DEF SocketCurrent
    <2> QED BY <1>1, <1>2, <1>3, <2>1, ReceiveTakes, EitherWay
<1>4. CASE SendData
    BY <1>1, <1>2, <1>4, SendGoes, EitherWay
<1>5. CASE OnTick
    <2>1. /\ UNCHANGED resets
          /\ \A c \in Dir : c # "up" => queue'[c] = queue[c]
        BY <1>5, EitherWay DEF OnTick, Types, epoch
    <2>2. PICK n \in 0..Len(queue["up"]) :
              /\ Len(queue'["up"]) = Len(queue["up"]) - n
              /\ \A j \in 1..(Len(queue["up"]) - n) : queue'["up"][j] = queue["up"][n + j]
        BY <1>5, TickDelivers
    <2>3. CASE d = "up"
        BY <2>1, <2>2, <2>3, QueueShrinks, EitherWay, ZenonT(60) DEF QueueCurrent
    <2> QED BY <2>1, <2>3 DEF QueueCurrent
<1>6. CASE ReleaseDownlink
    <2>1. UNCHANGED resets /\ \A c \in Dir : c # "down" => queue'[c] = queue[c]
        BY <1>6, ReleaseSends
    <2>2. PICK n \in 0..Len(queue["down"]) :
              /\ Len(queue'["down"]) = Len(queue["down"]) - n
              /\ \A j \in 1..(Len(queue["down"]) - n) : queue'["down"][j] = queue["down"][n + j]
        <3>1. 1 \in 0..Len(queue["down"])
            BY <1>6, ReleaseSends
        <3> QED BY <1>6, <3>1, ReleaseSends
    <2>3. CASE d = "down"
        BY <2>1, <2>2, <2>3, QueueShrinks, EitherWay, ZenonT(60) DEF QueueCurrent
    <2> QED BY <2>1, <2>3 DEF QueueCurrent
<1>7. CASE queue' = [c \in Dir |-> <<>>]
    <2>1. queue'[d] = <<>> /\ Len(<<>>) = 0
        BY <1>7, EmptySeq
    <2> QED BY <2>1, IndicesNext
<1> QED BY <1>1, <1>3, <1>4, <1>5, <1>6, <1>7, QueueChanges

\* What is remembered for a replay is a packet as it was sent.
LEMMA LastStep ==
    ASSUME Types, Ring, SocketCurrent, LastPlain, [Next]_vars
    PROVE  LastPlain'
<1>1. CASE UNCHANGED last \/ last' = [d \in Dir |-> None]
    BY <1>1 DEF LastPlain
<1>2. ASSUME NEW c \in Dir, NEW p \in Unread(resets, offs), last' = [last EXCEPT ![c] = p]
      PROVE  LastPlain'
    BY <1>2 DEF LastPlain, Unread, Plain, Types
<1>3. CASE Receive
    <2>1. socket # <<>> /\ Len(socket) \in Nat \ {0} => socket[1] \in Unread(resets, offs)
        BY Indices DEF SocketCurrent
    <2> QED BY <1>1, <1>2, <1>3, <2>1, ReceiveTakes, EitherWay
<1>4. CASE SendData
    BY <1>1, <1>2, <1>4, SendGoes, EitherWay
<1> QED BY <1>1, <1>3, <1>4, LastChanges

\* What holds of the old bytes and of the new packets holds of the new bytes.
LEMMA ExtendedAll ==
    ASSUME NEW old \in Seq(ByteSet), NEW new \in Seq(ByteSet), NEW ps \in Seq(Packets),
           Extends(old, new, ps, Len(ps)), NEW G,
           \A i \in DOMAIN old : old[i][1] \in G, \A i \in 1..Len(ps) : ps[i] \in G
    PROVE  \A i \in DOMAIN new : new[i][1] \in G
<1>1. /\ DOMAIN old = 1..Len(old) /\ Len(old) \in Nat
      /\ DOMAIN new = 1..Len(new) /\ Len(new) \in Nat
    BY LenProperties
<1>2. PICK src \in [(Len(old) + 1)..Len(new) -> 1..Len(ps)] :
          \A i \in (Len(old) + 1)..Len(new) : new[i][1] = ps[src[i]]
    BY DEF Extends
<1>3. \A i \in 1..Len(old) : new[i] = old[i]
    BY DEF Extends
<1> SUFFICES ASSUME NEW i \in 1..Len(new) PROVE new[i][1] \in G
    BY <1>1
<1>4. CASE i <= Len(old)
    <2>1. i \in 1..Len(old)
        BY <1>1, <1>4
    <2> QED BY <1>1, <1>3, <2>1
<1>5. CASE ~(i <= Len(old))
    <2>1. i \in (Len(old) + 1)..Len(new)
        BY <1>1, <1>5
    <2> QED BY <1>2, <2>1
<1> QED BY <1>4, <1>5

\* What has arrived stays true as time passes.
LEMMA ArrivedLater ==
    ASSUME NEW n \in Nat, NEW m \in Nat, NEW t \in Nat, NEW u \in Nat, t <= u,
           NEW p \in Arrived(n, m, t)
    PROVE  p \in Arrived(n, m, u)
<1>1. p \in Packets /\ p.release \in Nat /\ p.release <= t
    BY DEF Arrived, Packets
<1>2. p.release <= u
    BY <1>1
<1> QED BY <1>2 DEF Arrived

\* The ring holds nothing from before, and nothing before its time.
LEMMA PendingStep ==
    ASSUME Types, Ring, Types', Ring', SocketCurrent, QueueCurrent, LastPlain, PendingCurrent,
           [Next]_vars
    PROVE  PendingCurrent'
<1>1. CASE UNCHANGED <<pending, resets, offs, time>>
    BY <1>1 DEF PendingCurrent
<1>2. CASE pending' = <<>>
    <2>1. Len(<<>>) = 0
        BY EmptySeq
    <2> QED BY <1>2, <2>1, IndicesNext DEF PendingCurrent
<1>3. pending \in Seq(ByteSet) /\ pending' \in Seq(ByteSet)
    BY DEF Ring, RingOK
<1>4. ASSUME NEW ps \in Seq(Packets), Deliver(ps), UNCHANGED <<resets, offs>>,
             NEW t \in Nat, time' = t, time <= t,
             \A i \in 1..Len(ps) : ps[i] \in Arrived(resets, offs, t)
      PROVE  PendingCurrent'
    <2>1. PICK old \in Seq(ByteSet), new \in Seq(ByteSet), n \in Nat, m \in Nat :
              old = pending /\ new = pending' /\ n = resets /\ m = offs
        BY <1>3 DEF Types
    <2>2. Extends(old, new, ps, Len(ps))
        BY <1>4, <2>1, RingDelivers
    <2>3. ASSUME NEW i \in DOMAIN old PROVE old[i][1] \in Arrived(n, m, t)
        <3>1. old[i][1] \in Arrived(n, m, time)
            BY <2>1 DEF PendingCurrent
        <3> QED BY <1>4, <2>1, <3>1, Timed, ArrivedLater
    <2>4. \A i \in 1..Len(ps) : ps[i] \in Arrived(n, m, t)
        BY <1>4, <2>1
    <2>5. \A i \in DOMAIN new : new[i][1] \in Arrived(n, m, t)
        BY <2>2, <2>3, <2>4, ExtendedAll
    <2> QED BY <1>4, <2>1, <2>5 DEF PendingCurrent
<1>5. CASE Receive
    <2>1. /\ UNCHANGED <<resets, offs, time>>
          /\ socket # <<>> /\ ~UNCHANGED <<socket, queue, last, pending>> =>
                Len(socket) \in Nat \ {0} /\ socket[1] \in Packets
        BY <1>5, ReceiveTakes
    <2>2. CASE UNCHANGED <<rx, irq, pending>>
        BY <1>1, <2>1, <2>2
    <2>3. CASE ~UNCHANGED <<rx, irq, pending>>
        <3>1. PICK ps \in Seq(Packets) : Len(ps) = 1 /\ ps[1] = socket[1] /\ Deliver(ps)
            BY <1>5, <2>3, ReceiveDelivers
        <3>2. socket # <<>>
            BY <1>5, <2>3, ReceiveDelivers
        <3>3. Len(socket) \in Nat \ {0}
            BY <3>2, EmptySeq DEF Types
        <3>4. socket[1] \in Unread(resets, offs)
            BY <3>3, Indices DEF SocketCurrent
        <3>5. socket[1] \in Arrived(resets, offs, time)
            BY <3>4, Timed DEF Unread, Arrived
        <3>6. time' \in Nat /\ time <= time' /\ time' = time
            BY <2>1, Timed
        <3> QED BY <1>4, <2>1, <3>1, <3>5, <3>6
    <2> QED BY <2>2, <2>3
<1>6. CASE OnTick
    <2>1. UNCHANGED <<resets, offs>> /\ time' \in Nat /\ time <= time'
        BY <1>6, Ticking DEF OnTick, epoch
    <2>2. PICK n \in 0..Len(queue["up"]), ps \in Seq(Packets) :
              /\ \A i \in 1..n : queue["up"][i].release <= time'
              /\ Len(ps) <= n /\ \A i \in 1..Len(ps) : ps[i] = queue["up"][i]
              /\ Deliver(ps)
        BY <1>6, TickDelivers
    <2>3. ASSUME NEW i \in 1..Len(ps) PROVE ps[i] \in Arrived(resets, offs, time')
        <3>1. i \in 1..n /\ i \in 1..Len(queue["up"])
            <4>1. Len(ps) \in Nat /\ Len(queue["up"]) \in Nat
                BY LenProperties, Indices, EitherWay
            <4> QED BY <2>2, <4>1
        <3>2. queue["up"][i] \in Delayed(resets)
            BY <3>1, Indices, EitherWay DEF QueueCurrent
        <3>3. queue["up"][i].release <= time'
            BY <2>1, <2>2, <3>1
        <3> QED BY <2>2, <3>2, <3>3 DEF Delayed, Arrived
    <2> QED BY <1>4, <2>1, <2>2, <2>3
<1>7. CASE Replay /\ UNCHANGED <<resets, offs, time>>
    <2>1. CASE UNCHANGED <<rx, irq, pending>>
        BY <1>1, <1>7, <2>1
    <2>2. CASE ~UNCHANGED <<rx, irq, pending>>
        <3>1. PICK ps \in Seq(Packets) :
                  Len(ps) = 1 /\ ps[1] = [last["up"] EXCEPT !.replay = TRUE] /\ Deliver(ps)
            BY <1>7, <2>2, ReplayDelivers
        <3>2. last["up"] # None
            BY <1>7, <2>2, ReplayDelivers
        <3>3. last["up"] \in Plain
            BY <3>2, EitherWay DEF LastPlain
        <3>4. [last["up"] EXCEPT !.replay = TRUE] \in Arrived(resets, offs, time)
            <4>1. PICK p \in Packets : p = last["up"] /\ p.release = 0
                BY <3>3 DEF Plain
            <4>2. [p EXCEPT !.replay = TRUE] \in Packets
                BY DEF Packets
            <4>3. PICK r \in Packets : r = [p EXCEPT !.replay = TRUE]
                BY <4>2
            <4>4. r.replay = TRUE /\ r.release = 0
                BY <4>1, <4>3 DEF Packets
            <4>5. r.replay
                BY <4>4
            <4>6. r.release <= time
                BY <4>4, Timed
            <4>7. r \in Arrived(resets, offs, time)
                BY <4>5, <4>6, Zenon DEF Arrived
            <4> QED BY <4>1, <4>3, <4>7
        <3>5. time' \in Nat /\ time <= time' /\ time' = time
            BY <1>7, Timed
        <3>6. \A i \in 1..Len(ps) : ps[i] \in Arrived(resets, offs, time')
            <4>1. \A i \in 1..Len(ps) : i = 1
                BY <3>1
            <4> QED BY <3>1, <3>4, <3>5, <4>1
        <3> QED BY <1>4, <1>7, <3>1, <3>5, <3>6
    <2> QED BY <2>1, <2>2
<1>8. CASE ReceiveData
    <2>1. UNCHANGED <<resets, offs, time>>
        BY <1>8 DEF ReceiveData, epoch
    <2>2. PICK n \in 1..Len(pending) :
              /\ Len(pending') = Len(pending) - n
              /\ \A i \in 1..(Len(pending) - n) : pending'[i] = pending[n + i]
        BY <1>8, Reading
    <2> SUFFICES ASSUME NEW i \in 1..Len(pending')
                 PROVE  pending'[i][1] \in Arrived(resets, offs, time)
        BY <2>1, IndicesNext DEF PendingCurrent
    <2>3. i \in 1..(Len(pending) - n) /\ n + i \in 1..Len(pending)
        BY <2>2, Indices
    <2> QED BY <2>2, <2>3, Indices DEF PendingCurrent
<1>9. CASE Snapshot /\ UNCHANGED <<pending, resets, offs>>
    <2>1. PICK t \in Nat : t = time' /\ time <= t
        BY <1>9, Ticking
    <2>2. ASSUME NEW i \in DOMAIN pending PROVE pending[i][1] \in Arrived(resets, offs, t)
        <3>1. pending[i][1] \in Arrived(resets, offs, time) /\ resets \in Nat /\ offs \in Nat
            BY DEF PendingCurrent, Types
        <3> QED BY <2>1, <3>1, Timed, ArrivedLater
    <2> QED BY <1>9, <2>1, <2>2 DEF PendingCurrent
<1> QED BY <1>1, <1>2, <1>5, <1>6, <1>7, <1>8, <1>9, PendingChanges

\* What the ground has heard stays true as time passes.
LEMMA DepartedLater ==
    ASSUME NEW t \in Nat, NEW u \in Nat, t <= u
    PROVE  Departed(t) \subseteq Departed(u)
<1> SUFFICES ASSUME NEW g \in Departed(t) PROVE g \in Departed(u)
    OBVIOUS
<1>1. /\ g \in [packet : Packets, epoch : Nat \X Nat] /\ g.packet.release <= t
      /\ g.packet.replay \/ g.packet.resets = g.epoch[1]
    BY DEF Departed
<1>2. g.packet.release \in Nat
    BY <1>1 DEF Packets
<1>3. g.packet.release <= u
    BY <1>1, <1>2
<1> QED BY <1>1, <1>3, Zenon DEF Departed

\* Nothing from before is transmitted, and nothing before its time.
LEMMA GroundStep ==
    ASSUME Types, Ring, Types', Ring', QueueCurrent, LastPlain, GroundCurrent, [Next]_vars
    PROVE  GroundCurrent'
<1>1. CASE UNCHANGED <<ground, time>>
    BY <1>1 DEF GroundCurrent
<1>2. CASE Snapshot \/ OnTick
    <2>1. UNCHANGED ground /\ time' \in Nat /\ time <= time'
        BY <1>2, Ticking DEF Snapshot, OnTick
    <2>2. Departed(time) \subseteq Departed(time')
        BY <2>1, Timed, DepartedLater
    <2> QED BY <2>1, <2>2 DEF GroundCurrent
<1>3. ASSUME NEW g \in Tails, g \in Departed(time), ground' = Append(ground, g), UNCHANGED time
      PROVE  GroundCurrent'
    <2>1. /\ Len(ground) \in Nat /\ Len(ground') = Len(ground) + 1
          /\ \A i \in 1..Len(ground) : ground'[i] = ground[i]
          /\ ground'[Len(ground) + 1] = g
        BY <1>3, GroundHears
    <2> SUFFICES ASSUME NEW i \in 1..Len(ground') PROVE ground'[i] \in Departed(time)
        BY <1>3, IndicesNext DEF GroundCurrent
    <2>2. CASE i \in 1..Len(ground)
        BY <2>1, <2>2, Indices DEF GroundCurrent
    <2>3. CASE ~(i \in 1..Len(ground))
        <3>1. i = Len(ground) + 1
            BY <2>1, <2>3
        <3> QED BY <1>3, <2>1, <3>1
    <2> QED BY <2>2, <2>3
<1>4. epoch \in Nat \X Nat /\ epoch[1] = resets
    BY DEF Types, epoch
<1>5. ASSUME NEW p \in Packets, p.replay \/ p.resets = resets, p.release <= time
      PROVE  /\ [packet |-> p, epoch |-> epoch] \in Tails
             /\ [packet |-> p, epoch |-> epoch] \in Departed(time)
    <2>1. PICK e \in Nat \X Nat : e = epoch /\ e[1] = resets
        BY <1>4
    <2>2. PICK g : g = [packet |-> p, epoch |-> e]
        OBVIOUS
    <2>3. g \in [packet : Packets, epoch : Nat \X Nat] /\ g.packet = p /\ g.epoch = e
        BY <2>2
    <2>4. g.packet.replay \/ g.packet.resets = g.epoch[1]
        BY <1>5, <2>1, <2>3
    <2>5. g.packet.release <= time
        BY <1>5, <2>3
    <2>6. g \in Departed(time)
        BY <2>3, <2>4, <2>5, Zenon DEF Departed
    <2> QED BY <2>1, <2>2, <2>3, <2>6 DEF Tails
<1>6. CASE ReleaseDownlink
    <2>1. PICK p \in Packets : p = queue["down"][1]
        BY <1>6, ReleaseSends
    <2>2. /\ UNCHANGED time /\ p.release <= time
          /\ UNCHANGED ground \/ ground' = Append(ground, [packet |-> p, epoch |-> epoch])
        BY <1>6, <2>1, ReleaseSends
    <2>3. p.resets = resets
        <3>1. 1 \in DOMAIN queue["down"]
            BY <1>6, ReleaseSends, Indices, EitherWay
        <3> QED BY <2>1, <3>1, EitherWay DEF QueueCurrent, Delayed
    <2> QED BY <1>1, <1>3, <1>5, <2>2, <2>3
<1>7. CASE SendData
    <2>1. PICK p : p = Packet(sent["down"] + 1)
        OBVIOUS
    <2>2. /\ p \in Unread(resets, offs) /\ UNCHANGED time
          /\ UNCHANGED ground \/ ground' = Append(ground, [packet |-> p, epoch |-> epoch])
        BY <1>7, <2>1, SendGoes
    <2>3. p \in Packets /\ p.resets = resets /\ p.release <= time
        BY <2>2, Timed DEF Unread
    <2> QED BY <1>1, <1>3, <1>5, <2>2, <2>3
<1>8. CASE Replay
    <2>1. CASE UNCHANGED ground
        BY <1>1, <1>8, <2>1 DEF Replay
    <2>2. CASE ~UNCHANGED ground
        <3>1. PICK p : p = [last["down"] EXCEPT !.replay = TRUE]
            OBVIOUS
        <3>2. last["down"] # None /\ UNCHANGED time /\ Transmit(p)
            BY <1>8, <2>2, <3>1 DEF Replay
        <3>3. PICK l \in Packets : l = last["down"] /\ l.release = 0
            BY <3>2, EitherWay DEF LastPlain, Plain
        <3>4. p \in Packets /\ p.replay = TRUE /\ p.release = 0
            BY <3>1, <3>3 DEF Packets
        <3>6. ground' = Append(ground, [packet |-> p, epoch |-> epoch])
            BY <2>2, <3>2, <3>4, TypesTransmit
        <3>5. p.release <= time
            BY <3>4, Timed
        <3> QED BY <1>3, <1>5, <3>2, <3>4, <3>5, <3>6
    <2> QED BY <2>1, <2>2
<1> QED BY <1>1, <1>2, <1>6, <1>7, <1>8, GroundChanges

-----------------------------------------------------------------------------
\* What the actions that clear something leave alone.
LEMMA Cleared ==
    ASSUME PowerOff \/ PowerSet \/ ResetComponent \/ ResetLink \/ Join
    PROVE  /\ UNCHANGED <<sent, ground, time>>
           /\ UNCHANGED socket \/ socket' = <<>>
           /\ UNCHANGED queue \/ queue' = [d \in Dir |-> <<>>]
           /\ UNCHANGED pending \/ pending' = <<>>
<1>1. CASE PowerOff
    BY <1>1 DEF PowerOff, ClearBuffers
<1>2. CASE PowerSet \/ ResetComponent
    BY <1>2 DEF PowerSet, ResetComponent, PowerReset, ClearBuffers
<1>3. CASE ResetLink \/ Join
    BY <1>3 DEF ResetLink, Join, bound
<1> QED BY <1>1, <1>2, <1>3

\* Which actions can change the order of the packets.
LEMMA OrderChanges ==
    ASSUME [Next]_vars
    PROVE  \/ /\ UNCHANGED <<sent, ground>>
              /\ UNCHANGED socket \/ socket' = <<>>
              /\ UNCHANGED queue \/ queue' = [d \in Dir |-> <<>>]
              /\ UNCHANGED pending \/ pending' = <<>>
           \/ /\ GroundSends \/ Receive \/ OnTick \/ ReleaseDownlink \/ SendData \/ Replay
                 \/ ReceiveData
<1>1. CASE PowerOff \/ PowerSet \/ ResetComponent \/ ResetLink \/ Join
    BY <1>1, Cleared
<1>2. CASE Select \/ PowerOn \/ ForceInterrupt \/ SetConfiguration \/ EndService \/ UNCHANGED vars
    BY <1>2 DEF Select, PowerOn, ForceInterrupt, SetConfiguration, EndService, vars, radio, bound
<1>4. CASE SelectFails \/ Snapshot \/ EndTick
    BY <1>4 DEF SelectFails, Snapshot, EndTick, radio, bound
<1>3. CASE Manage \/ SetLink \/ Stop
    BY <1>3 DEF Manage, SetLink, Stop, radio, bound
<1> QED BY <1>1, <1>2, <1>3, <1>4 DEF Next, GroundThread, Worker, Commit

\* Packets are numbered.
LEMMA IdsAreNumbers ==
    ASSUME Types, Ring
    PROVE  /\ \A i \in 1..Len(socket) : socket[i].id \in Nat
           /\ \A d \in Dir : \A i \in 1..Len(queue[d]) : queue[d][i].id \in Nat
           /\ \A d \in Dir : sent[d] \in Nat
           /\ \A i \in 1..Len(pending) : pending[i][1] \in Packets /\ pending[i][1].id \in Nat
           /\ \A i \in 1..Len(ground) : ground[i].packet \in Packets /\ ground[i].packet.id \in Nat
<1>1. \A p \in Packets : p.id \in Nat
    BY Numbers DEF Packets
<1>2. \A i \in 1..Len(pending) : pending[i] \in ByteSet
    BY RingParts, LenProperties
<1>3. \A i \in 1..Len(pending) : pending[i][1] \in Packets
    BY <1>2 DEF ByteSet
<1>4. \A i \in 1..Len(socket) : socket[i] \in Packets
    BY LenProperties DEF Types
<1>5. \A d \in Dir : \A i \in 1..Len(queue[d]) : queue[d][i] \in Packets
    BY LenProperties DEF Types
<1>6. \A i \in 1..Len(ground) : ground[i].packet \in Packets
    <2>1. ground \in Seq(Tails)
        BY DEF Types, Tails
    <2>2. \A i \in 1..Len(ground) : ground[i] \in Tails
        BY <2>1, LenProperties
    <2> QED BY <2>2 DEF Tails
<1>7. \A d \in Dir : sent[d] \in Nat
    BY DEF Types
<1> QED BY <1>1, <1>3, <1>4, <1>5, <1>6, <1>7

\* The numbers grow.
LEMMA SentGrows ==
    ASSUME Types, [Next]_vars
    PROVE  \A d \in Dir : sent[d] \in Nat /\ sent'[d] \in Nat /\ sent[d] <= sent'[d]
<1>1. sent \in [Dir -> Nat]
    BY DEF Types
<1>2. CASE GroundSends \/ SendData
    <2>1. PICK d \in Dir : sent' = [sent EXCEPT ![d] = @ + 1]
        BY <1>2, EitherWay DEF GroundSends, SendData
    <2> QED BY <1>1, <2>1
<1>3. CASE ~(GroundSends \/ SendData)
    <2>1. UNCHANGED sent
        BY <1>3, OrderChanges DEF Receive, OnTick, ReleaseDownlink, Replay, ReceiveData, bound
    <2> QED BY <1>1, <2>1
<1> QED BY <1>2, <1>3

\* Datagrams wait in the order in which they were sent.
LEMMA SocketRisingStep ==
    ASSUME Types, Ring, Types', Ring', SocketRising, [Next]_vars
    PROVE  SocketRising'
<1>1. CASE UNCHANGED socket
    <2>1. \A i \in 1..Len(socket) : socket[i].id <= sent'["up"]
        BY Indices, IdsAreNumbers, SentGrows, EitherWay DEF SocketRising
    <2> QED BY <1>1, <2>1, Indices DEF SocketRising
<1>2. CASE socket' = <<>>
    <2>1. Len(<<>>) = 0
        BY EmptySeq
    <2> QED BY <1>2, <2>1, IndicesNext DEF SocketRising, Rising
<1>3. CASE GroundSends
    <2>1. /\ sent["up"] \in Nat /\ Len(socket') = Len(socket) + 1 /\ Len(socket) \in Nat
          /\ \A i \in 1..Len(socket) : socket'[i] = socket[i]
          /\ socket'[Len(socket) + 1].id = sent["up"] + 1 /\ sent'["up"] = sent["up"] + 1
        <3>1. sent'["up"] = sent["up"] + 1
            <4>1. sent' = [sent EXCEPT !["up"] = @ + 1]
                BY <1>3, GroundSendsOne
            <4> QED BY <4>1, EitherWay DEF Types
        <3>2. Packet(sent["up"] + 1).id = sent["up"] + 1
            BY DEF Packet
        <3> QED BY <1>3, <3>1, <3>2, GroundSendsOne, Indices
    <2>2. \A i \in 1..Len(socket) : socket[i].id \in Nat /\ socket[i].id <= sent["up"]
        BY IdsAreNumbers, Indices DEF SocketRising
    <2>3. \A i, j \in 1..Len(socket) : i < j => socket[i].id < socket[j].id
        BY Indices DEF SocketRising, Rising
    <2>4. ASSUME NEW i \in 1..Len(socket')
          PROVE  i \in 1..Len(socket) \/ i = Len(socket) + 1
        BY <2>1
    <2>5. ASSUME NEW i \in 1..Len(socket'), NEW j \in 1..Len(socket'), i < j
          PROVE  socket'[i].id < socket'[j].id
        <3>1. i \in 1..Len(socket)
            BY <2>1, <2>5
        <3> QED BY <2>1, <2>2, <2>3, <2>4, <2>5, <3>1
    <2>6. ASSUME NEW i \in 1..Len(socket') PROVE socket'[i].id <= sent'["up"]
        BY <2>1, <2>2, <2>4
    <2> QED BY <2>5, <2>6, IndicesNext DEF SocketRising, Rising
<1>4. CASE Receive /\ ~UNCHANGED socket
    <2>1. /\ Len(socket) \in Nat /\ Len(socket') = Len(socket) - 1
          /\ \A j \in 1..(Len(socket) - 1) : socket'[j] = socket[j + 1]
          /\ UNCHANGED sent
        BY <1>4, ReceiveTakes
    <2>2. ASSUME NEW i \in 1..Len(socket')
          PROVE  /\ i \in 1..(Len(socket) - 1) /\ i + 1 \in DOMAIN socket
                 /\ socket'[i] = socket[i + 1]
        BY <2>1, Indices
    <2>3. ASSUME NEW i \in 1..Len(socket'), NEW j \in 1..Len(socket'), i < j
          PROVE  socket'[i].id < socket'[j].id
        <3>1. i + 1 < j + 1
            BY <2>3
        <3> QED BY <2>2, <3>1 DEF SocketRising, Rising
    <2>4. ASSUME NEW i \in 1..Len(socket') PROVE socket'[i].id <= sent'["up"]
        BY <2>1, <2>2 DEF SocketRising
    <2> QED BY <2>3, <2>4, IndicesNext DEF SocketRising, Rising
<1>5. CASE OnTick \/ ReleaseDownlink \/ SendData \/ Replay \/ ReceiveData
    <2>1. UNCHANGED socket
        BY <1>5 DEF OnTick, ReleaseDownlink, SendData, Replay, ReceiveData
    <2> QED BY <1>1, <2>1
<1> QED BY <1>1, <1>2, <1>3, <1>4, <1>5, OrderChanges

\* What is left of a queue, place by place.
LEMMA Shrunk ==
    ASSUME NEW q \in Seq(Packets), NEW r \in Seq(Packets), NEW n \in 0..Len(q),
           Len(r) = Len(q) - n, \A i \in 1..(Len(q) - n) : r[i] = q[n + i]
    PROVE  \A j \in DOMAIN r : n + j \in DOMAIN q /\ j >= 1 /\ r[j] = q[n + j]
<1>1. DOMAIN q = 1..Len(q) /\ Len(q) \in Nat /\ DOMAIN r = 1..Len(r)
    BY LenProperties
<1> QED BY <1>1

\* What is left of a queue rises, and so does a queue with a later packet.
LEMMA ShrunkRises ==
    ASSUME NEW q \in Seq(Packets), NEW r \in Seq(Packets), NEW n \in 0..Len(q),
           Len(r) = Len(q) - n, \A i \in 1..(Len(q) - n) : r[i] = q[n + i],
           NEW m \in Nat, Rising(q), \A i \in DOMAIN q : q[i].id <= m
    PROVE  Rising(r) /\ \A i \in DOMAIN r : r[i].id <= m
<1>1. DOMAIN q = 1..Len(q) /\ Len(q) \in Nat /\ DOMAIN r = 1..Len(r) /\ Len(r) \in Nat
    BY LenProperties
<1>2. \A i \in DOMAIN r : n + i \in DOMAIN q /\ r[i] = q[n + i]
    BY Shrunk
<1>3. \A i, j \in DOMAIN r : i < j => n + i < n + j
    BY <1>1
<1> QED BY <1>2, <1>3 DEF Rising

LEMMA GrownRises ==
    ASSUME NEW q \in Seq(Packets), NEW r \in Seq(Packets), NEW w \in Packets,
           Len(r) \in {Len(q), Len(q) + 1}, \A i \in 1..Len(q) : r[i] = q[i],
           Len(r) = Len(q) + 1 => r[Len(q) + 1] = w,
           Rising(q), \A i \in DOMAIN q : q[i].id < w.id, NEW m \in Nat, w.id <= m
    PROVE  Rising(r) /\ \A i \in DOMAIN r : r[i].id <= m
<1>1. DOMAIN q = 1..Len(q) /\ Len(q) \in Nat /\ DOMAIN r = 1..Len(r) /\ Len(r) \in Nat
    BY LenProperties
<1>2. w.id \in Nat /\ \A i \in 1..Len(q) : q[i].id \in Nat
    <2>1. \A i \in 1..Len(q) : q[i] \in Packets
        BY LenProperties
    <2>2. \A p \in Packets : p.id \in Nat
        BY Numbers, SMTT(60) DEF Packets
    <2> QED BY <2>1, <2>2
<1> DEFINE a == Len(q)
           b == Len(r)
<1>3. a \in Nat /\ b \in Nat /\ (b = a \/ b = a + 1)
    BY <1>1
<1> HIDE DEF a, b
<1>4. \A i \in 1..b : i \in 1..a \/ (i = a + 1 /\ b = a + 1)
    BY <1>3
<1>5. \A i, j \in 1..b : i < j => i \in 1..a
    BY <1>3
<1>6. \A i \in 1..a : r[i] = q[i] /\ q[i].id \in Nat /\ q[i].id < w.id
    BY <1>1, <1>2 DEF a
<1>7. b = a + 1 => r[a + 1] = w
    BY DEF a, b
<1>8. ASSUME NEW i \in 1..b, NEW j \in 1..b, i < j PROVE r[i].id < r[j].id
    <2>1. i \in 1..a
        BY <1>5, <1>8
    <2>2. CASE j \in 1..a
        <3>1. q[i].id < q[j].id
            BY <1>1, <1>8, <2>1, <2>2 DEF Rising, a
        <3> QED BY <1>6, <2>1, <2>2, <3>1
    <2>3. CASE j = a + 1 /\ b = a + 1
        BY <1>6, <1>7, <2>1, <2>3
    <2> QED BY <1>4, <2>2, <2>3
<1>9. ASSUME NEW i \in 1..b PROVE r[i].id <= m
    <2>1. CASE i \in 1..a
        BY <1>2, <1>6, <2>1
    <2>2. CASE i = a + 1 /\ b = a + 1
        BY <1>7, <2>2
    <2> QED BY <1>4, <2>1, <2>2
<1> QED BY <1>1, <1>8, <1>9 DEF Rising, b

\* So do the packets in the queues of the link.
LEMMA QueueRisingStep ==
    ASSUME Types, Ring, Types', Ring', SocketCurrent, SocketRising, QueueRising, QueueFirst,
           [Next]_vars
    PROVE  QueueRising'
<1> SUFFICES ASSUME NEW d \in Dir
             PROVE  Rising(queue'[d]) /\ \A i \in DOMAIN queue'[d] : queue'[d][i].id <= sent'[d]
    BY DEF QueueRising
<1>1. PICK q \in Seq(Packets), r \in Seq(Packets), m \in Nat, k \in Nat :
          q = queue[d] /\ r = queue'[d] /\ m = sent[d] /\ k = sent'[d]
    BY DEF Types
<1>2. Rising(q) /\ (\A i \in DOMAIN q : q[i].id <= m) /\ m <= k
    BY <1>1, SentGrows DEF QueueRising
<1>3. DOMAIN q = 1..Len(q) /\ Len(q) \in Nat /\ \A i \in DOMAIN q : q[i].id \in Nat
    BY <1>1, Indices, IdsAreNumbers
<1>4. \A i \in DOMAIN q : q[i].id <= k
    BY <1>2, <1>3
<1>5. CASE r = q
    BY <1>1, <1>2, <1>4, <1>5
<1>6. CASE queue' = [c \in Dir |-> <<>>]
    <2>1. r = <<>> /\ Len(<<>>) = 0
        BY <1>1, <1>6, EmptySeq
    <2> QED BY <1>1, <2>1, IndicesNext DEF Rising
<1>7. ASSUME NEW n \in 0..Len(q), Len(r) = Len(q) - n,
             \A i \in 1..(Len(q) - n) : r[i] = q[n + i]
      PROVE  Rising(r) /\ \A i \in DOMAIN r : r[i].id <= k
    BY <1>2, <1>4, <1>7, ShrunkRises
<1>8. CASE Receive
    <2>1. CASE UNCHANGED queue
        BY <1>1, <1>5, <2>1
    <2>2. CASE ~UNCHANGED queue
        <3>1. /\ socket[1] \in Packets /\ Len(socket) \in Nat \ {0}
              /\ Delay("up") > 0 /\ UNCHANGED sent
              /\ queue' = [queue EXCEPT !["up"] =
                     Enqueue(@, [socket[1] EXCEPT !.release = time + Delay("up")])]
            BY <1>8, <2>2, ReceiveTakes
        <3>2. PICK p \in Packets : p = socket[1]
            BY <3>1
        <3>3. 1 \in DOMAIN socket
            BY <3>1, Indices
        <3>4. p.id <= sent["up"] /\ \A i \in DOMAIN queue["up"] : queue["up"][i].id < p.id
            BY <3>2, <3>3 DEF SocketRising, QueueFirst
        <3>9. queue' = [queue EXCEPT !["up"] =
                            Enqueue(@, [p EXCEPT !.release = time + Delay("up")])]
            BY <3>1, <3>2
        <3>10. Delay("up") > 0
            BY <3>1
        <3>5. PICK w \in Packets :
                  /\ w.id = p.id
                  /\ Len(queue'["up"]) \in {Len(queue["up"]), Len(queue["up"]) + 1}
                  /\ \A j \in 1..Len(queue["up"]) : queue'["up"][j] = queue["up"][j]
                  /\ Len(queue'["up"]) = Len(queue["up"]) + 1 =>
                        queue'["up"][Len(queue["up"]) + 1] = w
                  /\ \A b \in Dir : b # "up" => queue'[b] = queue[b]
            BY <3>9, <3>10, Grown, EitherWay
        <3>6. CASE d = "up"
            <4>1. w.id <= k
                BY <1>1, <3>1, <3>4, <3>5, <3>6
            <4>2. /\ Len(r) \in {Len(q), Len(q) + 1} /\ \A i \in 1..Len(q) : r[i] = q[i]
                  /\ Len(r) = Len(q) + 1 => r[Len(q) + 1] = w
                  /\ \A i \in DOMAIN q : q[i].id < w.id
                BY <1>1, <3>4, <3>5, <3>6
            <4> QED BY <1>1, <1>2, <4>1, <4>2, GrownRises
        <3>7. CASE d # "up"
            BY <1>1, <1>5, <3>5, <3>7
        <3> QED BY <3>6, <3>7
    <2> QED BY <2>1, <2>2
<1>9. CASE SendData
    <2>1. CASE UNCHANGED queue
        BY <1>1, <1>5, <2>1
    <2>2. CASE ~UNCHANGED queue
        <3>1. PICK p : p = Packet(sent["down"] + 1)
            OBVIOUS
        <3>2. /\ p \in Packets /\ p.id = sent["down"] + 1
              /\ Delay("down") > 0 /\ sent' = [sent EXCEPT !["down"] = @ + 1]
              /\ queue' = [queue EXCEPT !["down"] =
                     Enqueue(@, [p EXCEPT !.release = time + Delay("down")])]
            BY <1>9, <2>2, <3>1, SendGoes DEF Packet, Unread
        <3>3. PICK w \in Packets :
                  /\ w.id = p.id
                  /\ Len(queue'["down"]) \in {Len(queue["down"]), Len(queue["down"]) + 1}
                  /\ \A j \in 1..Len(queue["down"]) : queue'["down"][j] = queue["down"][j]
                  /\ Len(queue'["down"]) = Len(queue["down"]) + 1 =>
                        queue'["down"][Len(queue["down"]) + 1] = w
                  /\ \A b \in Dir : b # "down" => queue'[b] = queue[b]
            BY <3>2, Grown, EitherWay
        <3>4. CASE d = "down"
            <4>1. w.id = m + 1 /\ k = m + 1
                BY <1>1, <3>2, <3>3, <3>4 DEF Types
            <4>2. w.id <= k /\ \A i \in DOMAIN q : q[i].id < w.id
                BY <1>2, <1>3, <4>1
            <4>3. /\ Len(r) \in {Len(q), Len(q) + 1} /\ \A i \in 1..Len(q) : r[i] = q[i]
                  /\ Len(r) = Len(q) + 1 => r[Len(q) + 1] = w
                BY <1>1, <3>3, <3>4
            <4> QED BY <1>1, <1>2, <4>2, <4>3, GrownRises
        <3>5. CASE d # "down"
            BY <1>1, <1>5, <3>3, <3>5
        <3> QED BY <3>4, <3>5
    <2> QED BY <2>1, <2>2
<1>10. CASE OnTick
    <2>1. \A c \in Dir : c # "up" => queue'[c] = queue[c]
        BY <1>10, EitherWay DEF OnTick, Types
    <2>2. CASE d = "up"
        BY <1>1, <1>7, <1>10, <2>2, TickDelivers
    <2> QED BY <1>1, <1>5, <2>1, <2>2
<1>11. CASE ReleaseDownlink
    <2>1. \A c \in Dir : c # "down" => queue'[c] = queue[c]
        BY <1>11, ReleaseSends
    <2>2. CASE d = "down"
        <3>1. /\ 1 \in 0..Len(q) /\ Len(r) = Len(q) - 1
              /\ \A i \in 1..(Len(q) - 1) : r[i] = q[1 + i]
            BY <1>1, <1>11, <2>2, ReleaseSends
        <3> QED BY <1>1, <1>7, <2>2, <3>1
    <2> QED BY <1>1, <1>5, <2>1, <2>2
<1>12. CASE UNCHANGED queue
    BY <1>1, <1>5, <1>12
<1> QED BY <1>6, <1>8, <1>9, <1>10, <1>11, <1>12, QueueChanges

\* The queue of the uplink only shrinks, except when a packet was received.
LEMMA UplinkQueue ==
    ASSUME Types, Ring, Types', Ring', [Next]_vars, ~Receive
    PROVE  \E n \in Nat : \A i \in DOMAIN queue'["up"] :
              n + i \in DOMAIN queue["up"] /\ queue'["up"][i] = queue["up"][n + i]
<1>1. DOMAIN queue["up"] = 1..Len(queue["up"]) /\ Len(queue["up"]) \in Nat
    BY Indices, EitherWay
<1>2. CASE queue'["up"] = queue["up"]
    <2>1. \A i \in DOMAIN queue'["up"] :
              0 + i \in DOMAIN queue["up"] /\ queue'["up"][i] = queue["up"][0 + i]
        BY <1>1, <1>2
    <2> QED BY <2>1
<1>3. CASE OnTick
    <2>1. PICK n \in 0..Len(queue["up"]) :
              /\ Len(queue'["up"]) = Len(queue["up"]) - n
              /\ \A j \in 1..(Len(queue["up"]) - n) : queue'["up"][j] = queue["up"][n + j]
        BY <1>3, TickDelivers
    <2>2. n \in Nat
        BY <1>1
    <2>3. \A i \in DOMAIN queue'["up"] :
              n + i \in DOMAIN queue["up"] /\ queue'["up"][i] = queue["up"][n + i]
        BY <2>1, QueueShrinks, EitherWay
    <2> QED BY <2>2, <2>3
<1>4. CASE queue' = [c \in Dir |-> <<>>]
    <2>1. queue'["up"] = <<>> /\ Len(<<>>) = 0
        BY <1>4, EitherWay, EmptySeq
    <2>2. \A i \in DOMAIN queue'["up"] :
              0 + i \in DOMAIN queue["up"] /\ queue'["up"][i] = queue["up"][0 + i]
        BY <2>1, IndicesNext, EitherWay
    <2> QED BY <2>2
<1>5. CASE ReleaseDownlink
    <2>1. queue'["up"] = queue["up"]
        BY <1>5, ReleaseSends, EitherWay
    <2> QED BY <1>2, <2>1
<1>6. CASE SendData
    <2>1. UNCHANGED queue \/ queue'["up"] = queue["up"]
        BY <1>6, SendGoes, EitherWay DEF Types
    <2> QED BY <1>2, <2>1
<1> QED BY <1>2, <1>3, <1>4, <1>5, <1>6, QueueChanges

\* So does the socket, except when the ground sends.
LEMMA SocketEmpties ==
    ASSUME Types, Ring, Types', Ring', [Next]_vars, ~GroundSends
    PROVE  \E n \in Nat : \A i \in DOMAIN socket' :
              n + i \in DOMAIN socket /\ socket'[i] = socket[n + i]
<1>1. DOMAIN socket = 1..Len(socket) /\ Len(socket) \in Nat
    BY Indices
<1>2. CASE UNCHANGED socket
    <2>1. \A i \in DOMAIN socket' : 0 + i \in DOMAIN socket /\ socket'[i] = socket[0 + i]
        BY <1>1, <1>2
    <2> QED BY <2>1
<1>3. CASE Receive /\ ~UNCHANGED socket
    <2>1. /\ Len(socket) \in Nat /\ Len(socket') = Len(socket) - 1
          /\ \A j \in 1..(Len(socket) - 1) : socket'[j] = socket[j + 1]
        BY <1>3, ReceiveTakes
    <2>2. \A i \in 1..Len(socket') :
              1 + i \in 1..Len(socket) /\ i \in 1..(Len(socket) - 1) /\ 1 + i = i + 1
        BY <2>1
    <2>3. \A i \in DOMAIN socket' : 1 + i \in DOMAIN socket /\ socket'[i] = socket[1 + i]
        BY <1>1, <2>1, <2>2, IndicesNext
    <2> QED BY <2>3
<1>4. CASE socket' = <<>>
    <2>1. DOMAIN socket' = {}
        <3>1. Len(<<>>) = 0
            BY EmptySeq
        <3> QED BY <1>4, <3>1, IndicesNext
    <2>2. \A i \in DOMAIN socket' : 0 + i \in DOMAIN socket /\ socket'[i] = socket[0 + i]
        BY <2>1
    <2> QED BY <2>2
<1>5. CASE OnTick \/ ReleaseDownlink \/ SendData \/ Replay \/ ReceiveData
    BY <1>2, <1>5 DEF OnTick, ReleaseDownlink, SendData, Replay, ReceiveData
<1> QED BY <1>2, <1>3, <1>4, <1>5, OrderChanges

\* And those in the queue were sent before those in the socket.
LEMMA QueueFirstStep ==
    ASSUME Types, Ring, Types', Ring', SocketCurrent, SocketRising, QueueRising, QueueFirst,
           [Next]_vars
    PROVE  QueueFirst'
<1> SUFFICES ASSUME NEW i \in DOMAIN queue'["up"], NEW j \in DOMAIN socket'
             PROVE  queue'["up"][i].id < socket'[j].id
    BY DEF QueueFirst
<1>1. CASE GroundSends
    <2>1. queue' = queue /\ ~Receive
        BY <1>1, GroundSendsOne DEF GroundSends, Receive
    <2>2. /\ sent["up"] \in Nat /\ Len(socket') = Len(socket) + 1 /\ Len(socket) \in Nat
          /\ \A k \in 1..Len(socket) : socket'[k] = socket[k]
          /\ socket'[Len(socket) + 1].id = sent["up"] + 1
        <3>1. Packet(sent["up"] + 1).id = sent["up"] + 1
            BY DEF Packet
        <3> QED BY <1>1, <3>1, GroundSendsOne, Indices
    <2>3. queue["up"][i].id \in Nat /\ queue["up"][i].id <= sent["up"] /\ i \in DOMAIN queue["up"]
        BY <2>1, IdsAreNumbers, Indices, EitherWay DEF QueueRising
    <2>4. CASE j \in 1..Len(socket)
        BY <2>1, <2>2, <2>3, <2>4, Indices DEF QueueFirst
    <2>5. CASE ~(j \in 1..Len(socket))
        <3>1. j = Len(socket) + 1
            BY <2>2, <2>5, IndicesNext
        <3> QED BY <2>1, <2>2, <2>3, <3>1
    <2> QED BY <2>4, <2>5
<1>2. CASE Receive /\ ~UNCHANGED socket
    <2>1. /\ Len(socket) \in Nat \ {0} /\ Len(socket') = Len(socket) - 1
          /\ \A k \in 1..(Len(socket) - 1) : socket'[k] = socket[k + 1]
          /\ socket[1] \in Packets
        BY <1>2, ReceiveTakes
    <2>2. /\ 1 \in DOMAIN socket /\ j + 1 \in DOMAIN socket /\ 1 < j + 1
          /\ socket'[j] = socket[j + 1]
        BY <2>1, Indices, IndicesNext
    <2>3. socket[1].id < socket'[j].id
        BY <2>2 DEF SocketRising, Rising
    <2>4. CASE i \in DOMAIN queue["up"] /\ queue'["up"][i] = queue["up"][i]
        BY <2>2, <2>4 DEF QueueFirst
    <2>5. CASE UNCHANGED queue
        BY <2>4, <2>5
    <2>6. CASE ~UNCHANGED queue
        <3>1. PICK p \in Packets : p = socket[1]
            BY <2>1
        <3>2. /\ Delay("up") > 0
              /\ queue' = [queue EXCEPT !["up"] =
                     Enqueue(@, [p EXCEPT !.release = time + Delay("up")])]
            BY <1>2, <2>6, <3>1, ReceiveTakes
        <3>3. PICK w \in Packets :
                  /\ w.id = p.id
                  /\ Len(queue'["up"]) \in {Len(queue["up"]), Len(queue["up"]) + 1}
                  /\ \A k \in 1..Len(queue["up"]) : queue'["up"][k] = queue["up"][k]
                  /\ Len(queue'["up"]) = Len(queue["up"]) + 1 =>
                        queue'["up"][Len(queue["up"]) + 1] = w
            BY <3>2, Grown, EitherWay
        <3>4. CASE i \in 1..Len(queue["up"])
            BY <2>4, <3>3, <3>4, Indices, EitherWay
        <3>5. CASE ~(i \in 1..Len(queue["up"]))
            <4>1. i \in 1..Len(queue'["up"]) /\ Len(queue["up"]) \in Nat
                BY Indices, IndicesNext, EitherWay
            <4>2. i = Len(queue["up"]) + 1 /\ Len(queue'["up"]) = Len(queue["up"]) + 1
                BY <3>3, <3>5, <4>1
            <4> QED BY <2>3, <3>1, <3>3, <4>2
        <3> QED BY <3>4, <3>5
    <2> QED BY <2>5, <2>6
<1>3. CASE Receive /\ UNCHANGED socket
    <2>1. UNCHANGED queue
        <3>1. CASE socket # <<>> /\ Len(socket) \in Nat \ {0} /\ Len(socket') = Len(socket) - 1
            BY <1>3, <3>1
        <3> QED BY <1>3, <3>1, ReceiveTakes
    <2> QED BY <1>3, <2>1 DEF QueueFirst
<1>4. CASE ~GroundSends /\ ~Receive
    <2>1. PICK n \in Nat :
              n + i \in DOMAIN queue["up"] /\ queue'["up"][i] = queue["up"][n + i]
        BY <1>4, UplinkQueue
    <2>2. PICK m \in Nat : m + j \in DOMAIN socket /\ socket'[j] = socket[m + j]
        BY <1>4, SocketEmpties
    <2> QED BY <2>1, <2>2 DEF QueueFirst
<1> QED BY <1>1, <1>2, <1>3, <1>4

\* What had been sent before the packets that wait stays before them, when only
\* packets that were waiting already or were sent later join those.
LEMMA FirstGrows ==
    ASSUME NEW q, NEW s, NEW n \in Nat, NEW r, NEW t, NEW m \in Nat, n <= m,
           \A j \in DOMAIN r : r[j].id \in Nat,
           \A j \in DOMAIN r : \/ \E i \in DOMAIN q : r[j].id = q[i].id
                               \/ \E i \in DOMAIN s : r[j].id = s[i].id
                               \/ n < r[j].id,
           \A j \in DOMAIN t : t[j].id \in Nat,
           \A j \in DOMAIN t : \/ \E i \in DOMAIN s : t[j].id = s[i].id
                               \/ n < t[j].id
    PROVE  First(q, s, n) \subseteq First(r, t, m)
<1> SUFFICES ASSUME NEW p \in First(q, s, n), Waited(p) = TRUE
             PROVE  /\ \A j \in DOMAIN r : p.id <= r[j].id
                    /\ \A j \in DOMAIN t : p.id <= t[j].id
                    /\ p.id <= m
    BY DEF First, Waited, Before
<1>1. /\ p \in Packets /\ p.id <= n
      /\ \A j \in DOMAIN q : p.id <= q[j].id
      /\ \A j \in DOMAIN s : p.id <= s[j].id
    BY DEF First, Waited, Before
<1>2. p.id \in Nat
    BY <1>1, Numbers DEF Packets
<1>3. p.id <= m
    BY <1>1, <1>2
<1>4. ASSUME NEW x \in Nat, n < x PROVE p.id <= x
    BY <1>1, <1>2, <1>4
<1> QED BY <1>1, <1>3, <1>4

\* What had been sent before the packets that wait stays before them.
LEMMA UplinkFirst ==
    ASSUME Types, Ring, Types', Ring', [Next]_vars
    PROVE  First(queue["up"], socket, sent["up"]) \subseteq
               First(queue'["up"], socket', sent'["up"])
<1>1. PICK q \in Seq(Packets), s \in Seq(Packets), n \in Nat,
           r \in Seq(Packets), t \in Seq(Packets), m \in Nat :
          /\ q = queue["up"] /\ s = socket /\ n = sent["up"]
          /\ r = queue'["up"] /\ t = socket' /\ m = sent'["up"]
    BY EitherWay DEF Types
<1>2. n <= m
    BY <1>1, SentGrows, EitherWay
<1>3. /\ \A j \in DOMAIN r : r[j].id \in Nat
      /\ \A j \in DOMAIN t : t[j].id \in Nat
    <2>1. \A p \in Packets : p.id \in Nat
        BY Numbers DEF Packets
    <2>2. r \in Seq(Packets) /\ t \in Seq(Packets)
        BY <1>1, EitherWay DEF Types
    <2> QED BY <2>1, <2>2, LenProperties
<1>4. ASSUME \A j \in DOMAIN r : \/ \E i \in DOMAIN q : r[j].id = q[i].id
                                 \/ \E i \in DOMAIN s : r[j].id = s[i].id
                                 \/ n < r[j].id,
             \A j \in DOMAIN t : \/ \E i \in DOMAIN s : t[j].id = s[i].id
                                 \/ n < t[j].id
      PROVE  First(q, s, n) \subseteq First(r, t, m)
    BY <1>2, <1>3, <1>4, FirstGrows
<1>5. ASSUME ~Receive
      PROVE  \A j \in DOMAIN r : \E i \in DOMAIN q : r[j].id = q[i].id
    <2>1. PICK k \in Nat : \A i \in DOMAIN r : k + i \in DOMAIN q /\ r[i] = q[k + i]
        BY <1>1, <1>5, UplinkQueue
    <2> QED BY <2>1
<1>6. ASSUME ~GroundSends
      PROVE  \A j \in DOMAIN t : \E i \in DOMAIN s : t[j].id = s[i].id
    <2>1. PICK k \in Nat : \A i \in DOMAIN t : k + i \in DOMAIN s /\ t[i] = s[k + i]
        BY <1>1, <1>6, SocketEmpties
    <2> QED BY <2>1
<1>7. CASE GroundSends
    <2>1. ~Receive
        BY <1>7, GroundSendsOne DEF GroundSends, Receive
    <2>2. ASSUME NEW j \in DOMAIN t
          PROVE  (\E i \in DOMAIN s : t[j].id = s[i].id) \/ n < t[j].id
        <3>1. /\ sent["up"] \in Nat /\ Len(t) = Len(s) + 1 /\ Len(s) \in Nat
              /\ \A k \in 1..Len(s) : t[k] = s[k]
              /\ t[Len(s) + 1].id = n + 1 /\ DOMAIN s = 1..Len(s)
            <4>1. Packet(sent["up"] + 1).id = sent["up"] + 1
                BY DEF Packet
            <4> QED BY <1>1, <1>7, <4>1, GroundSendsOne, Indices
        <3>2. j \in 1..Len(t)
            BY <1>1, IndicesNext
        <3>3. CASE j \in 1..Len(s)
            BY <3>1, <3>3
        <3>4. CASE ~(j \in 1..Len(s))
            <4>1. j = Len(s) + 1
                BY <3>1, <3>2, <3>4
            <4> QED BY <3>1, <4>1
        <3> QED BY <3>3, <3>4
    <2> QED BY <1>1, <1>4, <1>5, <2>1, <2>2
<1>8. CASE Receive
    <2>1. ~GroundSends
        BY <1>8 DEF GroundSends, Receive
    <2>2. ASSUME NEW j \in DOMAIN r
          PROVE  \/ \E i \in DOMAIN q : r[j].id = q[i].id
                 \/ \E i \in DOMAIN s : r[j].id = s[i].id
        <3>1. CASE UNCHANGED queue
            BY <1>1, <3>1
        <3>2. CASE ~UNCHANGED queue
            <4>1. PICK p \in Packets : p = socket[1]
                BY <1>8, <3>2, ReceiveTakes
            <4>2. /\ Delay("up") > 0
                  /\ queue' = [queue EXCEPT !["up"] =
                         Enqueue(@, [p EXCEPT !.release = time + Delay("up")])]
                BY <1>8, <3>2, <4>1, ReceiveTakes
            <4>3. PICK w \in Packets :
                      /\ w.id = p.id
                      /\ Len(queue'["up"]) \in {Len(queue["up"]), Len(queue["up"]) + 1}
                      /\ \A k \in 1..Len(queue["up"]) : queue'["up"][k] = queue["up"][k]
                      /\ Len(queue'["up"]) = Len(queue["up"]) + 1 =>
                            queue'["up"][Len(queue["up"]) + 1] = w
                BY <4>2, Grown, EitherWay
            <4>4. 1 \in DOMAIN s /\ p = s[1]
                <5>1. Len(socket) \in Nat \ {0}
                    BY <1>8, <3>2, ReceiveTakes
                <5> QED BY <1>1, <4>1, <5>1, Indices
            <4>5. CASE j \in 1..Len(q)
                BY <1>1, <4>3, <4>5, Indices, EitherWay
            <4>6. CASE ~(j \in 1..Len(q))
                <5>1. j \in 1..Len(r) /\ Len(q) \in Nat
                    BY <1>1, Indices, IndicesNext, EitherWay
                <5>2. j = Len(q) + 1 /\ Len(r) = Len(q) + 1
                    BY <1>1, <4>3, <4>6, <5>1
                <5> QED BY <1>1, <4>3, <4>4, <5>2
            <4> QED BY <4>5, <4>6
        <3> QED BY <3>1, <3>2
    <2> QED BY <1>1, <1>4, <1>6, <2>1, <2>2
<1>9. CASE ~GroundSends /\ ~Receive
    BY <1>1, <1>4, <1>5, <1>6, <1>9
<1> QED BY <1>7, <1>8, <1>9

\* The same for the downlink.
LEMMA DownlinkFirst ==
    ASSUME Types, Ring, Types', Ring', [Next]_vars
    PROVE  First(queue["down"], <<>>, sent["down"]) \subseteq
               First(queue'["down"], <<>>, sent'["down"])
<1>1. PICK q \in Seq(Packets), n \in Nat, r \in Seq(Packets), m \in Nat :
          q = queue["down"] /\ n = sent["down"] /\ r = queue'["down"] /\ m = sent'["down"]
    BY EitherWay DEF Types
<1>2. n <= m
    BY <1>1, SentGrows, EitherWay
<1>3. \A j \in DOMAIN r : r[j].id \in Nat
    <2>1. \A p \in Packets : p.id \in Nat
        BY Numbers DEF Packets
    <2> QED BY <2>1, LenProperties
<1>4. PICK e : e = <<>> /\ DOMAIN e = {}
    OBVIOUS
<1>5. ASSUME \A j \in DOMAIN r : (\E i \in DOMAIN q : r[j].id = q[i].id) \/ n < r[j].id
      PROVE  First(q, <<>>, n) \subseteq First(r, <<>>, m)
    <2>1. First(q, e, n) \subseteq First(r, e, m)
        BY <1>2, <1>3, <1>4, <1>5, FirstGrows
    <2> QED BY <1>4, <2>1
<1>6. CASE r = q
    BY <1>1, <1>5, <1>6
<1>7. CASE queue' = [c \in Dir |-> <<>>]
    <2>1. r = <<>> /\ DOMAIN r = {}
        BY <1>1, <1>7, EitherWay
    <2> QED BY <1>1, <1>5, <2>1
<1>8. CASE ReleaseDownlink
    <2>1. /\ 1 \in 0..Len(q) /\ Len(r) = Len(q) - 1
          /\ \A j \in 1..(Len(q) - 1) : r[j] = q[1 + j]
        BY <1>1, <1>8, ReleaseSends
    <2>2. \A i \in DOMAIN r : 1 + i \in DOMAIN q /\ r[i] = q[1 + i]
        BY <2>1, Shrunk
    <2> QED BY <1>1, <1>5, <2>2
<1>9. CASE SendData
    <2>1. CASE UNCHANGED queue
        BY <1>1, <1>6, <2>1
    <2>2. CASE ~UNCHANGED queue
        <3>1. PICK p : p = Packet(sent["down"] + 1)
            OBVIOUS
        <3>2. /\ p \in Packets /\ p.id = sent["down"] + 1
              /\ Delay("down") > 0
              /\ queue' = [queue EXCEPT !["down"] =
                     Enqueue(@, [p EXCEPT !.release = time + Delay("down")])]
            BY <1>9, <2>2, <3>1, SendGoes DEF Packet, Unread
        <3>3. PICK w \in Packets :
                  /\ w.id = p.id
                  /\ Len(queue'["down"]) \in {Len(queue["down"]), Len(queue["down"]) + 1}
                  /\ \A j \in 1..Len(queue["down"]) : queue'["down"][j] = queue["down"][j]
                  /\ Len(queue'["down"]) = Len(queue["down"]) + 1 =>
                        queue'["down"][Len(queue["down"]) + 1] = w
            BY <3>2, Grown, EitherWay
        <3>4. ASSUME NEW j \in DOMAIN r
              PROVE  (\E i \in DOMAIN q : r[j].id = q[i].id) \/ n < r[j].id
            <4>1. CASE j \in 1..Len(q)
                BY <1>1, <3>3, <4>1, Indices, EitherWay
            <4>2. CASE ~(j \in 1..Len(q))
                <5>1. j \in 1..Len(r) /\ Len(q) \in Nat
                    BY <1>1, Indices, IndicesNext, EitherWay
                <5>2. j = Len(q) + 1 /\ Len(r) = Len(q) + 1
                    BY <1>1, <3>3, <4>2, <5>1
                <5>3. r[j].id = n + 1
                    BY <1>1, <3>2, <3>3, <5>2
                <5> QED BY <5>3
            <4> QED BY <4>1, <4>2
        <3> QED BY <1>1, <1>5, <3>4
    <2> QED BY <2>1, <2>2
<1>10. CASE Receive \/ OnTick
    <2>1. queue'["down"] = queue["down"]
        <3>1. CASE OnTick
            BY <3>1, EitherWay DEF OnTick, Types
        <3>2. CASE Receive
            BY <3>2, ReceiveTakes, EitherWay DEF Types
        <3> QED BY <1>10, <3>1, <3>2
    <2> QED BY <1>1, <1>6, <2>1
<1>11. CASE UNCHANGED queue
    BY <1>1, <1>6, <1>11
<1> QED BY <1>7, <1>8, <1>9, <1>10, <1>11, QueueChanges

\* Packets in order, and after them others in order and no earlier.
LEMMA OrderExtends ==
    ASSUME NEW f, NEW g, NEW a \in Nat, NEW b \in Nat, DOMAIN f = 1..a, DOMAIN g = 1..b,
           InOrder(f), \A i \in 1..a : g[i] = f[i],
           \A i, j \in (a + 1)..b : (i < j /\ Waited(g[i]) /\ Waited(g[j])) => g[i].id <= g[j].id,
           \A i \in 1..a, j \in (a + 1)..b : (Waited(f[i]) /\ Waited(g[j])) => f[i].id <= g[j].id
    PROVE  InOrder(g)
<1> SUFFICES ASSUME NEW i \in 1..b, NEW j \in 1..b, i < j, Waited(g[i]), Waited(g[j])
             PROVE  g[i].id <= g[j].id
    BY DEF InOrder
<1>1. CASE j <= a
    <2>1. i \in 1..a /\ j \in 1..a
        BY <1>1
    <2>2. f[i].id <= f[j].id
        BY <2>1 DEF InOrder
    <2> QED BY <2>1, <2>2
<1>2. CASE i <= a /\ ~(j <= a)
    <2>1. i \in 1..a /\ j \in (a + 1)..b
        BY <1>2
    <2> QED BY <2>1
<1>3. CASE ~(i <= a)
    <2>1. i \in (a + 1)..b /\ j \in (a + 1)..b
        BY <1>3
    <2> QED BY <2>1
<1> QED BY <1>1, <1>2, <1>3

\* An end of a sequence in order is in order.
LEMMA OrderShrinks ==
    ASSUME NEW f, NEW g, NEW n \in Nat, InOrder(f), DOMAIN g \subseteq Int,
           \A i \in DOMAIN g : n + i \in DOMAIN f /\ g[i] = f[n + i]
    PROVE  InOrder(g)
<1> SUFFICES ASSUME NEW i \in DOMAIN g, NEW j \in DOMAIN g, i < j, Waited(g[i]), Waited(g[j])
             PROVE  g[i].id <= g[j].id
    BY DEF InOrder
<1>1. n + i < n + j
    OBVIOUS
<1> QED BY <1>1 DEF InOrder

\* The packets in the ring that have waited are in order, and before those that wait.
LEMMA UpOrderedStep ==
    ASSUME Types, Ring, Types', Ring', SocketCurrent, LastPlain, QueueRising, QueueFirst, UpOrdered,
           [Next]_vars
    PROVE  UpOrdered'
<1>1. PICK old \in Seq(ByteSet), new \in Seq(ByteSet) : old = pending /\ new = pending'
    BY DEF Ring, RingOK
<1>2. PICK F, G : /\ F = First(queue["up"], socket, sent["up"])
                  /\ G = First(queue'["up"], socket', sent'["up"])
    OBVIOUS
<1> DEFINE f == [i \in DOMAIN old |-> old[i][1]]
           g == [i \in DOMAIN new |-> new[i][1]]
<1>3. InOrder(f) /\ (\A i \in DOMAIN old : old[i][1] \in F) /\ F \subseteq G
    BY <1>1, <1>2, UplinkFirst DEF UpOrdered, Received
<1> SUFFICES InOrder(g) /\ \A i \in DOMAIN new : new[i][1] \in G
    BY <1>1, <1>2 DEF UpOrdered, Received
<1>4. /\ DOMAIN old = 1..Len(old) /\ Len(old) \in Nat
      /\ DOMAIN new = 1..Len(new) /\ Len(new) \in Nat
    BY LenProperties
<1>5. CASE new = old
    BY <1>3, <1>5
<1>6. CASE new = <<>>
    <2>1. DOMAIN new = {} /\ DOMAIN g = {}
        BY <1>6
    <2> HIDE DEF g
    <2> QED BY <2>1 DEF InOrder
<1>7. ASSUME NEW ps \in Seq(Packets), Deliver(ps), \A k \in 1..Len(ps) : ps[k] \in G,
             \A k, l \in 1..Len(ps) :
                (k <= l /\ Waited(ps[k]) /\ Waited(ps[l])) => ps[k].id <= ps[l].id,
             \A i \in DOMAIN old, k \in 1..Len(ps) :
                (Waited(old[i][1]) /\ Waited(ps[k])) => old[i][1].id <= ps[k].id
      PROVE  InOrder(g) /\ \A i \in DOMAIN new : new[i][1] \in G
    <2>1. Extends(old, new, ps, Len(ps))
        BY <1>1, <1>7, RingDelivers
    <2>2. \A i \in DOMAIN new : new[i][1] \in G
        <3>1. \A i \in DOMAIN old : old[i][1] \in G
            BY <1>3
        <3>2. \A k \in 1..Len(ps) : ps[k] \in G
            BY <1>7
        <3> HIDE DEF f, g
        <3> QED BY <2>1, <3>1, <3>2, ExtendedAll
    <2>3. PICK src \in [(Len(old) + 1)..Len(new) -> 1..Len(ps)] :
              /\ \A i, j \in (Len(old) + 1)..Len(new) : i < j => src[i] <= src[j]
              /\ \A i \in (Len(old) + 1)..Len(new) : new[i][1] = ps[src[i]]
        BY <2>1, SMTT(60) DEF Extends
    <2>4. Len(old) <= Len(new) /\ \A i \in 1..Len(old) : new[i] = old[i]
        BY <2>1 DEF Extends
    <2>5. PICK a \in Nat, b \in Nat : a = Len(old) /\ b = Len(new)
        BY <1>4
    <2>6. /\ DOMAIN f = 1..a /\ DOMAIN g = 1..b
          /\ \A i \in 1..a : g[i] = f[i] /\ f[i] = old[i][1]
        <3>1. 1..a \subseteq 1..b
            BY <2>4, <2>5
        <3> QED BY <1>4, <2>4, <2>5, <3>1
    <2>7. \A i \in (a + 1)..b : src[i] \in 1..Len(ps) /\ g[i] = ps[src[i]]
        <3>1. (a + 1)..b \subseteq 1..b
            BY <2>5
        <3> QED BY <1>4, <2>3, <2>5, <3>1
    <2> HIDE DEF f, g
    <2>8. ASSUME NEW i \in (a + 1)..b, NEW j \in (a + 1)..b, i < j, Waited(g[i]), Waited(g[j])
          PROVE  g[i].id <= g[j].id
        <3>1. src[i] <= src[j]
            BY <2>3, <2>5, <2>8
        <3> QED BY <1>7, <2>7, <2>8, <3>1
    <2>9. ASSUME NEW i \in 1..a, NEW j \in (a + 1)..b, Waited(f[i]), Waited(g[j])
          PROVE  f[i].id <= g[j].id
        <3>1. i \in DOMAIN old /\ f[i] = old[i][1]
            BY <1>4, <2>5, <2>6
        <3>2. src[j] \in 1..Len(ps) /\ g[j] = ps[src[j]]
            BY <2>7
        <3>3. Waited(old[i][1]) /\ Waited(ps[src[j]])
            BY <2>9, <3>1, <3>2
        <3> QED BY <1>7, <3>1, <3>2, <3>3
    <2>10. InOrder(g)
        <3>1. \A i, j \in (a + 1)..b :
                  (i < j /\ Waited(g[i]) /\ Waited(g[j])) => g[i].id <= g[j].id
            BY <2>8
        <3>2. \A i \in 1..a, j \in (a + 1)..b :
                  (Waited(f[i]) /\ Waited(g[j])) => f[i].id <= g[j].id
            BY <2>9
        <3>3. a <= b
            BY <2>4, <2>5
        <3>4. DOMAIN f = 1..a /\ DOMAIN g = 1..b /\ InOrder(f) /\ \A i \in 1..a : g[i] = f[i]
            BY <1>3, <2>6
        <3> QED BY <3>1, <3>2, <3>3, <3>4, OrderExtends
    <2> QED BY <2>2, <2>10
<1>8. ASSUME NEW ps \in Seq(Packets), Deliver(ps), \A k \in 1..Len(ps) : ~Waited(ps[k])
      PROVE  InOrder(g) /\ \A i \in DOMAIN new : new[i][1] \in G
    <2>1. \A k \in 1..Len(ps) : ps[k] \in Packets
        BY LenProperties
    <2>2. \A k \in 1..Len(ps) : ps[k] \in G
        BY <1>2, <1>8, <2>1 DEF First, Waited
    <2> HIDE DEF f, g
    <2> QED BY <1>7, <1>8, <2>2
<1>9. CASE Receive
    <2>1. CASE UNCHANGED pending
        BY <1>1, <1>5, <2>1
    <2>2. CASE ~UNCHANGED pending
        <3>1. PICK ps \in Seq(Packets) : Len(ps) = 1 /\ ps[1] = socket[1] /\ Deliver(ps)
            BY <1>9, <2>2, ReceiveDelivers
        <3>2. socket[1] \in Unread(resets, offs)
            <4>1. DOMAIN socket = 1..Len(socket) /\ Len(socket) \in Nat
                BY Indices
            <4>2. Len(socket) \in Nat \ {0}
                BY <1>9, <2>2, ReceiveTakes
            <4> QED BY <4>1, <4>2 DEF SocketCurrent
        <3>3. ~Waited(socket[1])
            BY <3>2 DEF Unread, Waited
        <3>4. \A k \in 1..Len(ps) : k = 1
            BY <3>1
        <3>5. \A k \in 1..Len(ps) : ~Waited(ps[k])
            BY <3>1, <3>3, <3>4
        <3> HIDE DEF f, g
        <3> QED BY <1>8, <3>1, <3>5
    <2> QED BY <2>1, <2>2
<1>10. CASE Replay
    <2>1. CASE UNCHANGED pending
        BY <1>1, <1>5, <2>1
    <2>2. CASE ~UNCHANGED pending
        <3>1. last["up"] # None
            BY <1>10, <2>2, ReplayDelivers
        <3>2. PICK ps \in Seq(Packets) :
                  Len(ps) = 1 /\ ps[1] = [last["up"] EXCEPT !.replay = TRUE] /\ Deliver(ps)
            BY <1>10, <2>2, ReplayDelivers
        <3>3. PICK l \in Packets : l = last["up"]
            BY <3>1, EitherWay DEF Types
        <3>4. ps[1].replay = TRUE
            BY <3>2, <3>3 DEF Packets
        <3>5. \A k \in 1..Len(ps) : k = 1
            BY <3>2
        <3>6. \A k \in 1..Len(ps) : ~Waited(ps[k])
            BY <3>4, <3>5 DEF Waited
        <3> HIDE DEF f, g
        <3> QED BY <1>8, <3>2, <3>6
    <2> QED BY <2>1, <2>2
<1>11. CASE OnTick
    <2>1. PICK n \in 0..Len(queue["up"]), ps \in Seq(Packets) :
              /\ Len(queue'["up"]) = Len(queue["up"]) - n
              /\ \A i \in 1..(Len(queue["up"]) - n) : queue'["up"][i] = queue["up"][n + i]
              /\ Len(ps) <= n /\ \A i \in 1..Len(ps) : ps[i] = queue["up"][i]
              /\ Deliver(ps)
        BY <1>11, TickDelivers
    <2>2. PICK q \in Seq(Packets), s \in Seq(Packets), m \in Nat, r \in Seq(Packets) :
              /\ q = queue["up"] /\ s = socket /\ m = sent["up"] /\ r = queue'["up"]
              /\ s = socket' /\ m = sent'["up"]
        BY <1>11, EitherWay DEF OnTick, Types, bound
    <2>3. /\ Len(ps) \in Nat /\ DOMAIN q = 1..Len(q) /\ Len(q) \in Nat
          /\ \A i \in DOMAIN q : q[i] \in Packets /\ q[i].id \in Nat
          /\ \A i \in DOMAIN s : s[i].id \in Nat
        <3>1. \A p \in Packets : p.id \in Nat
            BY Numbers DEF Packets
        <3> QED BY <3>1, LenProperties
    <2>4. \A i, j \in DOMAIN q : i < j => q[i].id < q[j].id
        BY <2>2, EitherWay DEF QueueRising, Rising
    <2>5. \A k \in 1..Len(ps) : k \in DOMAIN q /\ k <= n /\ ps[k] = q[k]
        BY <2>1, <2>2, <2>3
    <2>6. \A j \in DOMAIN r : n + j \in DOMAIN q /\ j >= 1 /\ r[j] = q[n + j]
        <3>1. /\ n \in 0..Len(q) /\ Len(r) = Len(q) - n
              /\ \A i \in 1..(Len(q) - n) : r[i] = q[n + i]
            BY <2>1, <2>2
        <3> QED BY <3>1, Shrunk
    <2>7. ASSUME NEW k \in 1..Len(ps) PROVE ps[k] \in G
        <3>1. k \in DOMAIN q /\ k <= n /\ ps[k] = q[k] /\ q[k] \in Packets /\ q[k].id \in Nat
            BY <2>3, <2>5
        <3>2. ASSUME NEW j \in DOMAIN r PROVE q[k].id <= r[j].id
            <4>1. n + j \in DOMAIN q /\ r[j] = q[n + j] /\ k < n + j
                BY <2>1, <2>3, <2>6, <3>1
            <4> QED BY <2>3, <2>4, <3>1, <4>1
        <3>3. ASSUME NEW j \in DOMAIN s PROVE q[k].id <= s[j].id
            <4>1. q[k].id < s[j].id
                BY <2>2, <3>1 DEF QueueFirst
            <4> QED BY <2>3, <3>1, <4>1
        <3>4. q[k].id <= m
            BY <2>2, <3>1, EitherWay DEF QueueRising
        <3> QED BY <1>2, <2>2, <3>1, <3>2, <3>3, <3>4 DEF First, Before
    <2>8. ASSUME NEW k \in 1..Len(ps), NEW l \in 1..Len(ps), k <= l PROVE ps[k].id <= ps[l].id
        <3>1. /\ k \in DOMAIN q /\ l \in DOMAIN q /\ ps[k] = q[k] /\ ps[l] = q[l]
              /\ q[k].id \in Nat /\ q[l].id \in Nat
            BY <2>3, <2>5
        <3>2. CASE k = l
            BY <3>1, <3>2
        <3>3. CASE k # l
            <4>1. k < l
                BY <2>3, <2>8, <3>3
            <4>2. q[k].id < q[l].id
                BY <2>4, <3>1, <4>1
            <4> QED BY <3>1, <4>2
        <3> QED BY <3>2, <3>3
    <2>9. ASSUME NEW i \in DOMAIN old, NEW k \in 1..Len(ps), Waited(old[i][1])
          PROVE  old[i][1].id <= ps[k].id
        <3>1. Before(old[i][1], q)
            BY <1>2, <1>3, <2>2, <2>9 DEF First, Waited
        <3> QED BY <2>5, <3>1 DEF Before
    <2> HIDE DEF f, g
    <2> QED BY <1>7, <2>1, <2>7, <2>8, <2>9
<1>12. CASE ReceiveData
    <2>1. PICK n \in 1..Len(pending) :
              /\ Len(pending') = Len(pending) - n
              /\ \A i \in 1..(Len(pending) - n) : pending'[i] = pending[n + i]
        BY <1>12, Reading
    <2>2. n \in Nat /\ \A i \in DOMAIN new : n + i \in DOMAIN old /\ new[i] = old[n + i]
        BY <1>1, <1>4, <2>1
    <2>3. \A i \in DOMAIN new : new[i][1] \in G
        BY <1>3, <2>2
    <2>4. InOrder(g)
        <3>1. \A i \in DOMAIN g : n + i \in DOMAIN f /\ g[i] = f[n + i]
            BY <2>2
        <3>2. DOMAIN g \subseteq Int
            BY <1>4
        <3> HIDE DEF f, g
        <3> QED BY <1>3, <2>2, <3>1, <3>2, OrderShrinks
    <2> QED BY <2>3, <2>4
<1>13. CASE UNCHANGED pending
    BY <1>1, <1>5, <1>13
<1>14. CASE pending' = <<>>
    BY <1>1, <1>6, <1>14
<1> QED BY <1>9, <1>10, <1>11, <1>12, <1>13, <1>14, PendingChanges

\* The same for the packets that were transmitted.
LEMMA DownOrderedStep ==
    ASSUME Types, Ring, Types', Ring', LastPlain, QueueRising, DownOrdered, [Next]_vars
    PROVE  DownOrdered'
<1>1. PICK old \in Seq(Tails), new \in Seq(Tails) : old = ground /\ new = ground'
    BY DEF Types, Tails
<1>2. PICK F, G : /\ F = First(queue["down"], <<>>, sent["down"])
                  /\ G = First(queue'["down"], <<>>, sent'["down"])
    OBVIOUS
<1> DEFINE f == [i \in DOMAIN old |-> old[i].packet]
           g == [i \in DOMAIN new |-> new[i].packet]
<1>3. InOrder(f) /\ (\A i \in DOMAIN old : f[i] \in F) /\ F \subseteq G
    BY <1>1, <1>2, DownlinkFirst DEF DownOrdered, Transmitted
<1> SUFFICES InOrder(g) /\ \A i \in DOMAIN new : g[i] \in G
    BY <1>1, <1>2 DEF DownOrdered, Transmitted
<1>4. PICK a \in Nat, b \in Nat :
          a = Len(old) /\ b = Len(new) /\ DOMAIN old = 1..a /\ DOMAIN new = 1..b
    BY LenProperties
<1>5. DOMAIN f = 1..a /\ DOMAIN g = 1..b
    BY <1>4
<1>6. CASE new = old
    BY <1>3, <1>6
<1>7. ASSUME NEW n \in Nat, b = a + n, \A i \in 1..a : new[i] = old[i], NEW ps,
             \A k \in 1..n : new[a + k].packet = ps[k] /\ ps[k] \in G,
             \A k, l \in 1..n : (k < l /\ Waited(ps[k]) /\ Waited(ps[l])) => ps[k].id <= ps[l].id,
             \A i \in 1..a, k \in 1..n : (Waited(f[i]) /\ Waited(ps[k])) => f[i].id <= ps[k].id
      PROVE  InOrder(g) /\ \A i \in DOMAIN new : g[i] \in G
    <2>1. \A i \in 1..a : i \in 1..b /\ g[i] = f[i]
        BY <1>4, <1>7
    <2>2. ASSUME NEW i \in (a + 1)..b
          PROVE  i - a \in 1..n /\ a + (i - a) = i /\ g[i] = ps[i - a] /\ g[i] \in G
        <3>1. i - a \in 1..n /\ a + (i - a) = i /\ i \in 1..b
            BY <1>7
        <3> QED BY <1>4, <1>7, <3>1
    <2> HIDE DEF f, g
    <2>3. ASSUME NEW i \in (a + 1)..b, NEW j \in (a + 1)..b, i < j, Waited(g[i]), Waited(g[j])
          PROVE  g[i].id <= g[j].id
        <3>1. i - a < j - a
            BY <2>3
        <3> QED BY <1>7, <2>2, <2>3, <3>1
    <2>4. ASSUME NEW i \in 1..a, NEW j \in (a + 1)..b, Waited(f[i]), Waited(g[j])
          PROVE  f[i].id <= g[j].id
        BY <1>7, <2>2, <2>4
    <2>5. InOrder(g)
        <3>1. \A i, j \in (a + 1)..b :
                  (i < j /\ Waited(g[i]) /\ Waited(g[j])) => g[i].id <= g[j].id
            BY <2>3
        <3>2. \A i \in 1..a, j \in (a + 1)..b :
                  (Waited(f[i]) /\ Waited(g[j])) => f[i].id <= g[j].id
            BY <2>4
        <3>3. a <= b
            BY <1>7
        <3>4. DOMAIN f = 1..a /\ DOMAIN g = 1..b /\ InOrder(f) /\ \A i \in 1..a : g[i] = f[i]
            BY <1>3, <1>5, <2>1
        <3> QED BY <3>1, <3>2, <3>3, <3>4, OrderExtends
    <2>6. ASSUME NEW i \in 1..b PROVE g[i] \in G
        <3>1. i \in 1..a \/ i \in (a + 1)..b
            OBVIOUS
        <3>2. \A k \in 1..a : f[k] \in G
            BY <1>3, <1>4
        <3> QED BY <2>1, <2>2, <3>1, <3>2
    <2> QED BY <1>4, <2>5, <2>6
<1>8. ASSUME NEW p \in Packets, ~Waited(p),
             ground' = Append(ground, [packet |-> p, epoch |-> epoch])
      PROVE  InOrder(g) /\ \A i \in DOMAIN new : g[i] \in G
    <2>1. [packet |-> p, epoch |-> epoch] \in Tails
        BY DEF Tails, Types, epoch
    <2>2. PICK h \in Tails : h = [packet |-> p, epoch |-> epoch]
        BY <2>1
    <2>3. Len(ground') = Len(ground) + 1 /\ (\A i \in 1..Len(ground) : ground'[i] = ground[i])
          /\ ground'[Len(ground) + 1] = h
        BY <1>8, <2>2, GroundHears
    <2>4. b = a + 1 /\ (\A i \in 1..a : new[i] = old[i]) /\ new[a + 1] = h /\ h.packet = p
        BY <1>1, <1>4, <2>2, <2>3
    <2>5. p \in G
        BY <1>2, <1>8 DEF First, Waited
    <2> DEFINE ps == <<p>>
    <2>6. \A k \in 1..1 : k = 1 /\ ps[k] = p
        OBVIOUS
    <2> HIDE DEF f, g, ps
    <2>7. /\ \A k \in 1..1 : new[a + k].packet = ps[k] /\ ps[k] \in G
          /\ \A k, l \in 1..1 : (k < l /\ Waited(ps[k]) /\ Waited(ps[l])) => ps[k].id <= ps[l].id
          /\ \A i \in 1..a, k \in 1..1 : (Waited(f[i]) /\ Waited(ps[k])) => f[i].id <= ps[k].id
        BY <1>8, <2>4, <2>5, <2>6
    <2> QED BY <1>7, <2>4, <2>7
<1>9. CASE ReleaseDownlink
    <2>1. PICK q \in Seq(Packets), m \in Nat, r \in Seq(Packets), p \in Packets :
              /\ q = queue["down"] /\ m = sent["down"] /\ r = queue'["down"] /\ m = sent'["down"]
              /\ p = q[1]
        BY <1>9, EitherWay, ReleaseSends DEF Types
    <2>2. /\ Len(q) \in Nat \ {0} /\ Len(r) = Len(q) - 1
          /\ \A i \in 1..(Len(q) - 1) : r[i] = q[1 + i]
        BY <1>9, <2>1, ReleaseSends
    <2>3. 1 \in DOMAIN q /\ \A j \in DOMAIN r : 1 + j \in DOMAIN q /\ 1 < 1 + j /\ r[j] = q[1 + j]
        <3>1. 1 \in 0..Len(q) /\ DOMAIN q = 1..Len(q) /\ DOMAIN r = 1..Len(r)
            BY <2>2, LenProperties
        <3> QED BY <2>2, <3>1
    <2>4. \A n \in Packets : n.id \in Nat
        BY Numbers DEF Packets
    <2>5. p \in G
        <3>1. ASSUME NEW j \in DOMAIN r PROVE p.id <= r[j].id
            <4>1. q[1].id < q[1 + j].id
                BY <2>1, <2>3, EitherWay DEF QueueRising, Rising
            <4>2. r[j] \in Packets /\ r[j].id \in Nat /\ p.id \in Nat
                BY <2>4, LenProperties
            <4> QED BY <2>1, <2>3, <4>1, <4>2
        <3>2. p.id <= m
            BY <2>1, <2>3, EitherWay DEF QueueRising
        <3>3. PICK e : e = <<>> /\ DOMAIN e = {}
            OBVIOUS
        <3>4. p \in First(r, e, m)
            BY <3>1, <3>2, <3>3 DEF First, Before
        <3> QED BY <1>2, <2>1, <3>3, <3>4
    <2>6. ASSUME NEW i \in 1..a, Waited(f[i]) PROVE f[i].id <= p.id
        <3>1. f[i] \in F
            BY <1>3, <1>4
        <3>2. PICK o : o = f[i]
            OBVIOUS
        <3>3. Before(o, q)
            BY <1>2, <2>1, <2>6, <3>1, <3>2 DEF First, Waited
        <3> QED BY <2>1, <2>3, <3>2, <3>3 DEF Before
    <2>7. CASE UNCHANGED ground
        BY <1>1, <1>6, <2>7
    <2>8. CASE ground' = Append(ground, [packet |-> p, epoch |-> epoch])
        <3>1. PICK h \in Tails : h = [packet |-> p, epoch |-> epoch]
            BY DEF Tails, Types, epoch
        <3>2. b = a + 1 /\ (\A i \in 1..a : new[i] = old[i]) /\ new[a + 1] = h /\ h.packet = p
            <4>1. ground' = Append(ground, h)
                BY <2>8, <3>1
            <4>2. /\ Len(ground') = Len(ground) + 1 /\ ground'[Len(ground) + 1] = h
                  /\ \A i \in 1..Len(ground) : ground'[i] = ground[i]
                BY <4>1, GroundHears
            <4> QED BY <1>1, <1>4, <3>1, <4>2
        <3> DEFINE ps == <<p>>
        <3>3. \A k \in 1..1 : k = 1 /\ ps[k] = p
            OBVIOUS
        <3> HIDE DEF f, g, ps
        <3>4. /\ \A k \in 1..1 : new[a + k].packet = ps[k] /\ ps[k] \in G
              /\ \A k, l \in 1..1 :
                    (k < l /\ Waited(ps[k]) /\ Waited(ps[l])) => ps[k].id <= ps[l].id
              /\ \A i \in 1..a, k \in 1..1 : (Waited(f[i]) /\ Waited(ps[k])) => f[i].id <= ps[k].id
            BY <2>5, <2>6, <3>2, <3>3
        <3> QED BY <1>7, <3>2, <3>4
    <2> QED BY <1>9, <2>1, <2>7, <2>8, ReleaseSends
<1>10. CASE SendData
    <2>1. PICK p : p = Packet(sent["down"] + 1)
        OBVIOUS
    <2>2. /\ p \in Unread(resets, offs)
          /\ UNCHANGED ground \/ ground' = Append(ground, [packet |-> p, epoch |-> epoch])
        BY <1>10, <2>1, SendGoes
    <2>3. p \in Packets /\ ~Waited(p)
        BY <2>2 DEF Unread, Waited
    <2> HIDE DEF f, g
    <2> QED BY <1>1, <1>6, <1>8, <2>2, <2>3
<1>11. CASE Replay
    <2>1. CASE UNCHANGED ground
        BY <1>1, <1>6, <2>1
    <2>2. CASE ~UNCHANGED ground
        <3>1. PICK p : p = [last["down"] EXCEPT !.replay = TRUE]
            OBVIOUS
        <3>2. last["down"] # None /\ Transmit(p)
            BY <1>11, <2>2, <3>1 DEF Replay
        <3>3. PICK l \in Packets : l = last["down"]
            BY <3>2, EitherWay DEF Types
        <3>4. p \in Packets /\ p.replay = TRUE
            BY <3>1, <3>3 DEF Packets
        <3>5. ~Waited(p)
            BY <3>4 DEF Waited
        <3>6. ground' = Append(ground, [packet |-> p, epoch |-> epoch])
            BY <2>2, <3>2, <3>4, TypesTransmit
        <3> HIDE DEF f, g
        <3> QED BY <1>8, <3>4, <3>5, <3>6
    <2> QED BY <2>1, <2>2
<1>12. CASE Snapshot \/ OnTick \/ UNCHANGED ground
    <2>1. UNCHANGED ground
        BY <1>12 DEF Snapshot, OnTick
    <2> QED BY <1>1, <1>6, <2>1
<1> QED BY <1>9, <1>10, <1>11, <1>12, GroundChanges

-----------------------------------------------------------------------------
\* Only the start of a tick changes the time, only OnTick ends its first part
\* and only EndTick the release of the downlink.
LEMMA PhaseChanges ==
    ASSUME [Next]_vars
    PROVE  \/ Snapshot \/ OnTick \/ EndTick
           \/ /\ UNCHANGED time
              /\ phase' # "tick" => phase # "tick"
              /\ phase' \notin {"tick", "release"} => phase \notin {"tick", "release"}
<1>1. CASE GroundSends \/ Select \/ SelectFails \/ Receive \/ ReleaseDownlink \/ UNCHANGED vars
    BY <1>1 DEF GroundSends, Select, SelectFails, Receive, ReleaseDownlink, vars
<1>2. CASE PowerOn \/ PowerOff \/ ForceInterrupt \/ SetConfiguration \/ ReceiveData \/ SendData
           \/ EndService
    BY <1>2 DEF PowerOn, PowerOff, ForceInterrupt, SetConfiguration, ReceiveData, SendData,
                EndService
<1>3. CASE Manage \/ PowerSet \/ ResetComponent \/ SetLink \/ Replay \/ ResetLink \/ Stop \/ Join
    BY <1>3 DEF Manage, PowerSet, ResetComponent, SetLink, Replay, ResetLink, Stop, Join,
                Committing
<1> QED BY <1>1, <1>2, <1>3 DEF Next, GroundThread, Worker, Commit

\* After its release a queue holds nothing that is due.
LEMMA OnTimeStep ==
    ASSUME Types, Ring, Types', Ring', SocketCurrent, OnTime, [Next]_vars
    PROVE  OnTime'
<1>1. ASSUME NEW d \in Dir PROVE queue'[d] # <<>> <=> Len(queue'[d]) \in Nat \ {0}
    <2>1. PICK q \in Seq(Packets) : q = queue'[d]
        BY DEF Types
    <2>2. Len(q) \in Nat /\ (q = <<>> <=> Len(q) = 0)
        BY EmptySeq, LenProperties
    <2> QED BY <2>1, <2>2
<1>2. ASSUME NEW d \in Dir PROVE queue[d] # <<>> <=> Len(queue[d]) \in Nat \ {0}
    <2>1. PICK q \in Seq(Packets) : q = queue[d]
        BY DEF Types
    <2>2. Len(q) \in Nat /\ (q = <<>> <=> Len(q) = 0)
        BY EmptySeq, LenProperties
    <2> QED BY <2>1, <2>2
<1>3. ASSUME NEW d \in Dir, NEW p \in Packets, Delay(d) > 0,
             queue' = [queue EXCEPT ![d] = Enqueue(@, [p EXCEPT !.release = time + Delay(d)])]
      PROVE  /\ \A c \in Dir : c # d => queue'[c] = queue[c]
             /\ queue'[d] # <<>> => \/ queue[d] # <<>> /\ queue'[d][1] = queue[d][1]
                                    \/ queue'[d][1].release > time
    <2>1. PICK w \in Packets :
              /\ w.release > time
              /\ Len(queue[d]) \in Nat /\ Len(queue'[d]) \in {Len(queue[d]), Len(queue[d]) + 1}
              /\ \A i \in 1..Len(queue[d]) : queue'[d][i] = queue[d][i]
              /\ Len(queue'[d]) = Len(queue[d]) + 1 => queue'[d][Len(queue[d]) + 1] = w
              /\ \A c \in Dir : c # d => queue'[c] = queue[c]
        BY <1>3, Grown
    <2>2. CASE Len(queue[d]) # 0
        <3>1. 1 \in 1..Len(queue[d]) /\ Len(queue[d]) \in Nat \ {0}
            BY <2>1, <2>2
        <3>2. queue'[d][1] = queue[d][1] /\ queue[d] # <<>>
            BY <1>2, <2>1, <3>1
        <3> QED BY <2>1, <3>2
    <2>3. CASE Len(queue[d]) = 0
        <3>1. ASSUME queue'[d] # <<>> PROVE queue'[d][1].release > time
            <4>1. Len(queue'[d]) \in Nat \ {0}
                BY <1>1, <3>1
            <4>2. Len(queue'[d]) = Len(queue[d]) + 1 /\ Len(queue[d]) + 1 = 1
                BY <2>1, <2>3, <4>1
            <4> QED BY <2>1, <4>2
        <3> QED BY <2>1, <3>1
    <2> QED BY <2>2, <2>3
<1>4. CASE OnTick
    <2>1. phase' = "release"
        BY <1>4 DEF OnTick
    <2>2. ASSUME queue'["up"] # <<>> PROVE queue'["up"][1].release > time'
        <3>1. PICK n \in 0..Len(queue["up"]) :
                  /\ Len(queue'["up"]) = Len(queue["up"]) - n
                  /\ \A i \in 1..(Len(queue["up"]) - n) : queue'["up"][i] = queue["up"][n + i]
                  /\ n < Len(queue["up"]) => queue["up"][n + 1].release > time'
            BY <1>4, TickDelivers
        <3>2. Len(queue'["up"]) \in Nat \ {0} /\ Len(queue["up"]) \in Nat
            BY <1>1, <2>2, EitherWay, Indices
        <3>3. 1 \in 1..(Len(queue["up"]) - n) /\ n < Len(queue["up"])
            BY <3>1, <3>2
        <3> QED BY <3>1, <3>3
    <2> QED BY <2>1, <2>2 DEF OnTime
<1>5. CASE ReleaseDownlink
    BY <1>5, ReleaseSends, EitherWay DEF OnTime
<1>10. CASE Snapshot
    BY <1>10 DEF Snapshot, OnTime
<1>11. CASE EndTick
    <2>1. UNCHANGED <<time, queue>> /\ phase = "release"
        BY <1>11 DEF EndTick, radio
    <2>2. queue["down"] # <<>> => queue["down"][1].release > time
        <3> SUFFICES ASSUME queue["down"] # <<>> PROVE queue["down"][1].release > time
            OBVIOUS
        <3>1. PICK q \in Seq(Packets) : q = queue["down"] /\ q # <<>>
            BY EitherWay DEF Types
        <3>2. q[1] = Head(q) /\ Head(q) \in Packets
            BY <3>1, HeadTailProperties
        <3>3. Head(q).release \in Nat /\ ~(Head(q).release <= time)
            BY <1>11, <3>1, <3>2 DEF EndTick, DownlinkDue, Packets
        <3> QED BY <3>1, <3>2, <3>3, Timed
    <2> QED BY <2>1, <2>2 DEF OnTime
<1>6. CASE Receive
    <2>1. UNCHANGED <<time, phase>>
        BY <1>6 DEF Receive
    <2>2. CASE UNCHANGED queue
        BY <2>1, <2>2 DEF OnTime
    <2>3. CASE ~UNCHANGED queue
        <3>1. PICK p \in Packets : p = socket[1]
            BY <1>6, <2>3, ReceiveTakes
        <3>2. /\ Delay("up") > 0
              /\ queue' = [queue EXCEPT !["up"] =
                     Enqueue(@, [p EXCEPT !.release = time + Delay("up")])]
            BY <1>6, <2>3, <3>1, ReceiveTakes
        <3>3. /\ queue'["down"] = queue["down"]
              /\ queue'["up"] # <<>> => \/ queue["up"] # <<>> /\ queue'["up"][1] = queue["up"][1]
                                        \/ queue'["up"][1].release > time
            BY <1>3, <3>2, EitherWay
        <3> QED BY <2>1, <3>3 DEF OnTime
    <2> QED BY <2>2, <2>3
<1>7. CASE SendData
    <2>1. UNCHANGED <<time, phase>>
        BY <1>7, SendGoes
    <2>2. CASE UNCHANGED queue
        BY <2>1, <2>2 DEF OnTime
    <2>3. CASE ~UNCHANGED queue
        <3>1. PICK p : p = Packet(sent["down"] + 1)
            OBVIOUS
        <3>2. /\ p \in Packets /\ Delay("down") > 0 /\ phase = "service"
              /\ queue' = [queue EXCEPT !["down"] =
                     Enqueue(@, [p EXCEPT !.release = time + Delay("down")])]
            BY <1>7, <2>3, <3>1, SendGoes DEF Unread
        <3>3. /\ queue'["up"] = queue["up"]
              /\ queue'["down"] # <<>> =>
                    \/ queue["down"] # <<>> /\ queue'["down"][1] = queue["down"][1]
                    \/ queue'["down"][1].release > time
            BY <1>3, <3>2, EitherWay
        <3> QED BY <2>1, <3>2, <3>3 DEF OnTime
    <2> QED BY <2>2, <2>3
<1>8. CASE queue' = [c \in Dir |-> <<>>]
    BY <1>8, EitherWay DEF OnTime
<1>9. CASE UNCHANGED queue
    <2>1. CASE /\ UNCHANGED time /\ (phase' # "tick" => phase # "tick")
               /\ phase' \notin {"tick", "release"} => phase \notin {"tick", "release"}
        BY <1>9, <2>1 DEF OnTime
    <2> QED BY <1>4, <1>10, <1>11, <2>1, PhaseChanges
<1> QED BY <1>4, <1>5, <1>6, <1>7, <1>8, <1>9, QueueChanges

-----------------------------------------------------------------------------
\* The inductive invariant holds at first.
LEMMA IInvInit == Init => IInv
<1> SUFFICES ASSUME Init PROVE IInv
    OBVIOUS
<1>1. Types
    BY TypesInit
<1>2. Ring
    BY RingEmpty DEF Init, Ring
<1>3. /\ DOMAIN socket = {} /\ DOMAIN pending = {} /\ DOMAIN ground = {}
      /\ \A d \in Dir : queue[d] = <<>> /\ DOMAIN queue[d] = {}
      /\ \A d \in Dir : last[d] = None
    BY DEF Init
<1>4. Current
    BY <1>3 DEF Current, SocketCurrent, QueueCurrent, LastPlain, PendingCurrent, GroundCurrent
<1>5. DOMAIN Received = {} /\ DOMAIN Transmitted = {}
    BY <1>3 DEF Received, Transmitted
<1>6. Ordered
    BY <1>3, <1>5, EitherWay
       DEF Ordered, SocketRising, QueueRising, QueueFirst, UpOrdered, DownOrdered, Rising, InOrder
<1>7. OnTime
    BY <1>3, EitherWay DEF OnTime
<1> QED BY <1>1, <1>2, <1>4, <1>6, <1>7 DEF IInv

\* Every step keeps it.
LEMMA IInvStep == IInv /\ [Next]_vars => IInv'
<1> SUFFICES ASSUME IInv, [Next]_vars PROVE IInv'
    OBVIOUS
<1>1. /\ Types /\ Ring /\ OnTime
      /\ SocketCurrent /\ QueueCurrent /\ LastPlain /\ PendingCurrent /\ GroundCurrent
      /\ SocketRising /\ QueueRising /\ QueueFirst /\ UpOrdered /\ DownOrdered
    BY DEF IInv, Current, Ordered
<1>2. Types' /\ Ring'
    BY <1>1, TypesStep, RingStep
<1>3. SocketCurrent' /\ QueueCurrent' /\ LastPlain'
    BY <1>1, <1>2, SocketStep, QueueStep, LastStep
<1>4. PendingCurrent' /\ GroundCurrent'
    BY <1>1, <1>2, PendingStep, GroundStep
<1>5. SocketRising' /\ QueueRising' /\ QueueFirst'
    BY <1>1, <1>2, SocketRisingStep, QueueRisingStep, QueueFirstStep
<1>6. UpOrdered' /\ DownOrdered'
    BY <1>1, <1>2, UpOrderedStep, DownOrderedStep
<1>7. OnTime'
    BY <1>1, <1>2, OnTimeStep
<1> QED BY <1>2, <1>3, <1>4, <1>5, <1>6, <1>7 DEF IInv, Current, Ordered

\* It holds in every state.
THEOREM Inductive == Spec => []IInv
<1>1. Init => IInv
    BY IInvInit
<1>2. IInv /\ [Next]_vars => IInv'
    BY IInvStep
<1> QED BY <1>1, <1>2, PTL DEF Spec

\* For all values of the constants every variable has its type: the queues of the
\* link never hold more than their depth, and the head and the tail of the ring
\* stay inside it.
THEOREM TypeCorrect == Spec => []TypeOK
<1>1. ASSUME IInv PROVE TypeOK
    <2>1. Types /\ Ring
        BY <1>1 DEF IInv
    <2>2. ASSUME NEW p \in Packets PROVE PacketOK(p)
        BY DEF Packets, PacketOK
    <2>3. \A d \in Dir : \A i \in DOMAIN queue[d] : PacketOK(queue[d][i])
        <3>1. \A d \in Dir : \A i \in DOMAIN queue[d] : queue[d][i] \in Packets
            BY <2>1, LenProperties DEF Types
        <3> QED BY <2>2, <3>1
    <2>4. {rx.head, rx.tail} \subseteq 0..(RxSize - 1)
        BY <2>1, RingParts DEF Rings
    <2>5. irq \in [line : BOOLEAN, asserted : BOOLEAN, forced : BOOLEAN]
        BY <2>1, RingParts DEF Lines
    <2>6. DOMAIN queue = Dir /\ DOMAIN last = Dir /\ DOMAIN sent = Dir
        BY <2>1 DEF Types
    <2> QED BY <2>1, <2>3, <2>4, <2>5, <2>6 DEF TypeOK, Types
<1> QED BY <1>1, Inductive, PTL

\* The ring is a queue of bytes: it holds exactly those that were accepted and
\* not read, in their order, with at most the end of a packet missing, and the
\* interrupt is asserted while enough of them wait.
THEOREM RingIsFaithful == Spec => []RingFaithful
<1>1. ASSUME IInv PROVE RingFaithful
    <2>1. Ring
        BY <1>1 DEF IInv
    <2>2. PICK r \in Rings, s \in Seq(ByteSet) : r = rx /\ s = pending
        BY <2>1, RingParts
    <2>3. /\ Len(s) = Count(r) /\ Len(s) \in Nat /\ DOMAIN s = 1..Len(s)
          /\ \A i \in 0..(Len(s) - 1) : s[i + 1] = r.cell[Slot(r.tail + i)]
        BY <2>1, <2>2, RingParts, LenProperties
    <2>4. r.tail \in Int
        BY DEF Rings
    <2>5. ASSUME NEW k \in 1..Len(s) PROVE r.cell[(r.tail + k - 1) % RxSize] = s[k]
        <3>1. k - 1 \in 0..(Len(s) - 1) /\ (k - 1) + 1 = k /\ r.tail + k - 1 = r.tail + (k - 1)
            BY <2>3, <2>4
        <3> QED BY <2>3, <3>1 DEF Slot
    <2>6. Bytes(r, Count(r)) = [k \in 1..Len(s) |-> s[k]]
        BY <2>3, <2>5 DEF Bytes
    <2>7. s = [k \in 1..Len(s) |-> s[k]]
        BY <2>3
    <2>8. Bytes(rx, Count(rx)) = pending
        BY <2>2, <2>6, <2>7
    <2> QED BY <2>1, <2>8, RingParts DEF RingFaithful, NoGap
<1> QED BY <1>1, Inductive, PTL

\* Nothing that was sent before the radio last lost its rail crosses the link
\* after it, except as a replay; nothing from before the GPIO last went off is
\* received without having waited in a queue of the link.
THEOREM NothingIsFromBefore == Spec => []NothingFromBefore
<1>1. ASSUME IInv PROVE NothingFromBefore
    <2>1. SocketCurrent /\ QueueCurrent /\ PendingCurrent /\ GroundCurrent
        BY <1>1 DEF IInv, Current
    <2>2. ASSUME NEW p \in ToSet(socket) PROVE p.resets = resets /\ p.offs = offs
        BY <2>1 DEF SocketCurrent, Unread, ToSet
    <2>3. ASSUME NEW d \in Dir, NEW p \in ToSet(queue[d]) PROVE p.resets = resets
        BY <2>1 DEF QueueCurrent, Delayed, ToSet
    <2>4. ASSUME NEW b \in ToSet(pending)
          PROVE  b[1].replay \/ (b[1].resets = resets /\ (b[1].release = 0 => b[1].offs = offs))
        BY <2>1 DEF PendingCurrent, Arrived, ToSet
    <2>5. ASSUME NEW g \in ToSet(ground) PROVE g.packet.replay \/ g.packet.resets = g.epoch[1]
        BY <2>1 DEF GroundCurrent, Departed, ToSet
    <2> QED BY <2>2, <2>3, <2>4, <2>5 DEF NothingFromBefore
<1> QED BY <1>1, Inductive, PTL

\* Packets that wait out a delay cross in the order in which they were sent,
\* none before its time, and after a tick none that is due waits.
THEOREM DelayIsKept == Spec => []DelayKept
<1>1. ASSUME IInv PROVE DelayKept
    <2>1. Types /\ PendingCurrent /\ GroundCurrent /\ UpOrdered /\ DownOrdered /\ OnTime
        BY <1>1 DEF IInv, Current, Ordered
    <2>2. InOrder(Received) /\ InOrder(Transmitted)
        BY <2>1 DEF UpOrdered, DownOrdered
    <2>3. ASSUME NEW p \in ToSet(Received) PROVE p.release <= time
        BY <2>1 DEF PendingCurrent, Arrived, ToSet, Received
    <2>4. ASSUME NEW p \in ToSet(Transmitted) PROVE p.release <= time
        BY <2>1 DEF GroundCurrent, Departed, ToSet, Transmitted
    <2>5. ASSUME NEW d \in Dir, queue[d] # <<>> PROVE Head(queue[d]) = queue[d][1]
        OBVIOUS
    <2>6. /\ (phase # "tick" /\ queue["up"] # <<>>) => Head(queue["up"]).release > time
          /\ (phase \notin {"tick", "release"} /\ queue["down"] # <<>>) =>
                Head(queue["down"]).release > time
        BY <2>1, <2>5, EitherWay DEF OnTime
    <2> QED BY <2>2, <2>3, <2>4, <2>6 DEF DelayKept, Received, Transmitted
<1> QED BY <1>1, Inductive, PTL
=============================================================================
