-------------------------- MODULE TickProtocol_proofs --------------------------
(***************************************************************************)
(* TickProtocol for any set of clients, any duration, any commands and any *)
(* failures: lock step and the integrity of the lock-free receive.         *)
(***************************************************************************)
EXTENDS TickProtocol, TLAPS

Round == RoundOf(sequence, phase)
PubRound == RoundOf(pubSequence, pubPhase)

\* The server is between two phases, in the middle of a publication, or the
\* phase it published is the one under way (or was when the session ended).
Between  == {"handshake", "poll", "decide", "publish", "pub_phase", "pub_generation"}
UnderWay == {"pub_signal", "phase_test", "collect", "dispatch"}
Open     == UnderWay \cup {"stop", "done"}

\* The generation counts the phases published so far.
GenerationLaw ==
    /\ spc \in {"handshake", "poll", "decide"} => generation = 3 * sequence
    /\ spc \in {"publish", "pub_phase", "pub_generation"} => generation = Round - 1
    /\ spc \in UnderWay => generation = Round
    /\ spc \in UnderWay \cup {"publish", "pub_phase", "pub_generation"} => phase \in Phases

\* What the barrier's payload is, outside and inside a publication.
PayloadLaw ==
    /\ spc \in {"pub_phase", "pub_generation"} => pubSequence = sequence
    /\ spc = "pub_generation" \/ spc \in UnderWay => pubPhase = phase
    /\ spc \in UnderWay => pubSequence = sequence
    /\ spc = "pub_generation" => completions = {}
    /\ (spc \notin {"pub_phase", "pub_generation"} /\ generation > 0) => PubRound = generation
    /\ generation > 0 => pubPhase \in Phases
    /\ participants = {c \in Clients : pubPhase \in PhaseMask[c]}

\* The server opens a phase only when the one before is complete.
ResponseLaw ==
    /\ spc \in {"pub_phase", "pub_generation", "pub_signal"} => responded = {}
    /\ spc \in UnderWay => responded \subseteq completions
    /\ spc \in {"handshake", "poll", "decide", "publish", "pub_phase"} =>
          participants \subseteq completions

\* What a client knows of the barrier.
Attached(c) ==
    /\ lastGeneration[c] <= generation
    /\ c \in completions => lastGeneration[c] = generation
    /\ cpc[c] \in {"start", "connect"} => c \notin completions
    /\ (FastReceiveSafe(c) /\ spc \in Between) => lastGeneration[c] = generation

\* A client that holds the current phase keeps the server where it is.
Holds(c) == /\ spc \in Open /\ generation > 0
            /\ lastGeneration[c] = generation
            /\ c \in participants \ completions

Copying(c) ==
    /\ cpc[c] \in {"copy_sequence", "copy_phase"} => FastReceiveSafe(c) /\ Holds(c)
    /\ cpc[c] = "copy_phase" => gotSequence[c] = pubSequence

Received(c) ==
    cpc[c] = "validate" =>
        /\ RoundOf(gotSequence[c], gotPhase[c]) = lastGeneration[c]
        /\ gotPhase[c] \in Phases
        /\ gotPhase[c] \in PhaseMask[c] =>
             Holds(c) /\ gotSequence[c] = pubSequence /\ gotPhase[c] = pubPhase

Working(c) ==
    Busy(c) => Holds(c) /\ lastSequence[c] = pubSequence /\ lastPhase[c] = pubPhase

ClientLaw == \A c \in Clients : Attached(c) /\ Copying(c) /\ Received(c) /\ Working(c)

IInv == TypeOK /\ GenerationLaw /\ PayloadLaw /\ ResponseLaw /\ ClientLaw

-----------------------------------------------------------------------------
LEMMA MaskInPhases ==
  ASSUME NEW c \in Clients
  PROVE  PhaseMask[c] \subseteq Phases
BY DEF PhaseMask, Phases

\* A client of every phase takes part in whatever was published.
LEMMA FastTakesPart ==
  ASSUME IInv, NEW c \in Clients, FastReceiveSafe(c), generation > 0
  PROVE  c \in participants
BY DEF IInv, PayloadLaw, FastReceiveSafe

\* A broadcast only turns sleepers into woken clients.
LEMMA WakeEffect ==
  ASSUME NEW slots, TypeOK
  PROVE  /\ Wake(cpc, slots) \in [Clients -> ClientSteps]
         /\ \A c \in Clients :
              \/ Wake(cpc, slots)[c] = cpc[c]
              \/ cpc[c] = "asleep" /\ Wake(cpc, slots)[c] = "woken"
BY DEF Wake, TypeOK, ClientSteps

-----------------------------------------------------------------------------
(***************************************************************************)
(* Types.                                                                  *)
(***************************************************************************)
LEMMA CommandTypes ==
  ASSUME NEW command, NEW b \in BOOLEAN
  PROVE  ApplyPaused(command, b) \in BOOLEAN /\ ApplyStep(command, b) \in BOOLEAN
BY DEF ApplyPaused, ApplyStep

LEMMA ServerTypes ==
  ASSUME TypeOK, GenerationLaw, ServerNext \/ RequestServerStop
  PROVE  TypeOK'
<1> USE DEF TypeOK, ServerSteps, PublishSteps, control, server, payload, barrier, client
<1>1. CASE AbandonHandshake \/ StayPaused \/ EnterWait \/ LeaveServer \/ LeaveLoop
           \/ RequestServerStop
  BY <1>1, ZenonT(60) DEF AbandonHandshake, StayPaused, EnterWait, LeaveServer, LeaveLoop,
     RequestServerStop
<1>2. CASE Poll \/ Dispatch
  <2>1. paused' \in BOOLEAN /\ stepPending' \in BOOLEAN /\ running' \in BOOLEAN
    BY <1>2, CommandTypes DEF Poll, Dispatch, PollAndDispatch
  <2> QED  BY <1>2, <2>1 DEF Poll, Dispatch
<1>3. CASE StartTick
  <2>1. stepPending' \in BOOLEAN
    BY <1>3 DEF StartTick
  <2>2. spc' \in ServerSteps /\ phase' \in 1..4
    BY <1>3 DEF StartTick
  <2> QED  BY <1>3, <2>1, <2>2 DEF StartTick
<1>9. CASE EndPhase
  BY <1>9 DEF EndPhase
<1>8. CASE EndTick
  <2>1. running' \in BOOLEAN
    BY <1>8 DEF EndTick
  <2> QED  BY <1>8, <2>1 DEF EndTick
<1>4. CASE PublishSequence \/ PublishGeneration
  BY <1>4 DEF PublishSequence, PublishGeneration
<1>5. CASE PublishPhase
  <2>1. phase \in 0..3
    BY <1>5 DEF PublishPhase, GenerationLaw, Phases
  <2>2. participants' \subseteq Clients /\ completions' \subseteq participants'
    BY <1>5 DEF PublishPhase, Required
  <2> QED  BY <1>5, <2>1, <2>2 DEF PublishPhase
<1>6. CASE Collect
  BY <1>6 DEF Collect
<1>7. CASE PublishSignal
  BY <1>7, WakeEffect DEF PublishSignal
<1>10. CASE StopBarrier
  BY <1>10, WakeEffect DEF StopBarrier
<1> QED
  BY <1>1, <1>2, <1>3, <1>4, <1>5, <1>6, <1>7, <1>8, <1>9, <1>10 DEF ServerNext

LEMMA ClientTypes ==
  ASSUME TypeOK, NEW c \in Clients, ClientNext(c) \/ Environment(c)
  PROVE  TypeOK'
<1> USE DEF TypeOK, ClientSteps, control, server, payload, barrier, client
<1>1. CASE Register(c)
  BY <1>1 DEF Register, ServerSteps
<1>2. CASE HandshakeFails(c) \/ Connect(c)
  <2>1. (IF generation > 0 THEN generation - 1 ELSE 0) \in Nat
    OBVIOUS
  <2> QED  BY <1>2, <2>1 DEF HandshakeFails, Connect
<1>3. CASE FastReceive(c) \/ CopySequence(c) \/ CopyPhase(c)
  BY <1>3 DEF FastReceive, CopySequence, CopyPhase
<1>4. CASE LockedReceive(c)
  BY <1>4 DEF LockedReceive
<1>5. CASE Sleep(c) \/ SpuriousWake(c) \/ Leave(c)
  BY <1>5 DEF Sleep, SpuriousWake, Leave
<1>6. CASE Validate(c)
  <2>1. AfterReceive(c) \in ClientSteps
    BY DEF AfterReceive
  <2> QED  BY <1>6, <2>1, ZenonT(60) DEF Validate
<1>7. CASE CallbackFails(c) \/ Claim(c)
  BY <1>7 DEF CallbackFails, Claim
<1>8. CASE Complete(c)
  BY <1>8 DEF Complete, Accepts
<1>9. CASE CompletionRejected(c)
  BY <1>9 DEF CompletionRejected
<1>10. CASE RequestStop(c)
  BY <1>10 DEF RequestStop
<1>11. CASE Interrupt(c)
  BY <1>11, WakeEffect DEF Interrupt
<1> QED
  BY <1>1, <1>2, <1>3, <1>4, <1>5, <1>6, <1>7, <1>8, <1>9, <1>10, <1>11
  DEF ClientNext, Environment

-----------------------------------------------------------------------------
(***************************************************************************)
(* The server's steps.  A step that leaves the barrier alone and does not  *)
(* leave an open phase preserves what the clients know; so does one that   *)
(* leaves a phase nobody holds.                                            *)
(***************************************************************************)
LEMMA NobodyHolds ==
  ASSUME IInv, participants \subseteq completions
  PROVE  \A c \in Clients : /\ ~Holds(c)
                            /\ ~Busy(c)
                            /\ cpc[c] \notin {"copy_sequence", "copy_phase"}
                            /\ cpc[c] = "validate" => gotPhase[c] \notin PhaseMask[c]
BY DEF IInv, ClientLaw, Holds, Copying, Received, Working

LEMMA FastIsCurrent ==
  ASSUME IInv, participants \subseteq completions, NEW c \in Clients, FastReceiveSafe(c)
  PROVE  lastGeneration[c] = generation
<1>1. CASE generation = 0
  BY <1>1 DEF IInv, TypeOK, ClientLaw, Attached
<1>2. CASE generation > 0
  BY <1>2, FastTakesPart DEF IInv, ClientLaw, Attached
<1> QED  BY <1>1, <1>2 DEF IInv, TypeOK

LEMMA ClientsKept ==
  ASSUME IInv,
         UNCHANGED <<barrier, cpc, lastGeneration, gotSequence, gotPhase,
                     lastSequence, lastPhase>>,
         spc \in Between \/ spc' \in Open \/ participants \subseteq completions
  PROVE  ClientLaw'
<1> SUFFICES ASSUME NEW c \in Clients
             PROVE  (Attached(c) /\ Copying(c) /\ Received(c) /\ Working(c))'
  BY DEF ClientLaw
<1>1. UNCHANGED <<generation, pubSequence, pubPhase, participants, completions>>
  BY DEF barrier, payload
<1>2. Holds(c) => Holds(c)'
  BY <1>1, NobodyHolds DEF Holds, Between, Open, UnderWay
<1>3. Attached(c)'
  BY <1>1, FastIsCurrent, NobodyHolds
  DEF IInv, ClientLaw, Attached, FastReceiveSafe, Between, Open, UnderWay
<1>4. Copying(c)' /\ Received(c)' /\ Working(c)'
  BY <1>1, <1>2 DEF IInv, ClientLaw, Copying, Received, Working, Busy, FastReceiveSafe
<1> QED  BY <1>3, <1>4

Laws == GenerationLaw /\ PayloadLaw /\ ResponseLaw /\ ClientLaw

\* When every required completion has been recorded the phase is complete.
LEMMA PhaseComplete ==
  ASSUME IInv, spc = "phase_test", AllResponded
  PROVE  participants \subseteq completions
BY DEF IInv, PayloadLaw, ResponseLaw, AllResponded, Required, UnderWay

\* Steps of the server that leave the barrier and the clients alone.
LEMMA LoopSteps ==
  ASSUME IInv,
         \/ AbandonHandshake \/ Poll \/ StartTick \/ StayPaused \/ EnterWait
         \/ Collect \/ Dispatch \/ EndPhase \/ EndTick \/ LeaveServer \/ LeaveLoop
         \/ RequestServerStop
  PROVE  Laws'
<1> USE DEF UnderWay
<1>1. UNCHANGED <<barrier, client>>
  BY DEF AbandonHandshake, Poll, StartTick, StayPaused, EnterWait, Collect, Dispatch,
     EndPhase, EndTick, LeaveServer, LeaveLoop, RequestServerStop
<1>2. UNCHANGED <<generation, pubSequence, pubPhase, participants, completions>>
  BY <1>1 DEF barrier, payload
<1>3. /\ spc' \in UnderWay => spc \in UnderWay /\ UNCHANGED <<sequence, phase>>
      /\ spc' \in Between => spc \in Between \/ (spc = "phase_test" /\ AllResponded)
      /\ spc' \in {"pub_phase", "pub_generation", "pub_signal"} => UNCHANGED <<spc, sequence, phase>>
      /\ spc \in {"pub_phase", "pub_generation", "pub_signal"} => UNCHANGED <<spc, sequence, phase>>
      /\ spc \in Between \cup Open /\ spc' \in Between \cup Open
  BY DEF AbandonHandshake, Poll, StartTick, StayPaused, EnterWait, Collect, Dispatch,
     EndPhase, EndTick, LeaveServer, LeaveLoop, RequestServerStop, PhaseUnderway,
     Between, Open, IInv, TypeOK, ServerSteps, PublishSteps
<1>4. GenerationLaw'
  BY <1>2 DEF IInv, TypeOK, GenerationLaw, Round, RoundOf, Phases,
     AbandonHandshake, Poll, StartTick, StayPaused, EnterWait, Collect, Dispatch,
     EndPhase, EndTick, LeaveServer, LeaveLoop, RequestServerStop
<1>5. PayloadLaw'
  BY <1>2, <1>3 DEF IInv, PayloadLaw, PubRound, Between, Open
<1>6. ResponseLaw'
  <2>1. CASE Collect
    BY <2>1, <1>2 DEF IInv, ResponseLaw, Collect
  <2>2. CASE ~Collect
    <3>1. responded' = responded
      BY <2>2 DEF AbandonHandshake, Poll, StartTick, StayPaused, EnterWait, Dispatch,
         EndPhase, EndTick, LeaveServer, LeaveLoop, RequestServerStop
    <3> QED  BY <1>2, <1>3, <3>1, PhaseComplete DEF IInv, ResponseLaw, Between
  <2> QED  BY <2>1, <2>2
<1>7. ClientLaw'
  BY <1>1, <1>3, PhaseComplete, ClientsKept DEF client
<1> QED  BY <1>4, <1>5, <1>6, <1>7 DEF Laws

(***************************************************************************)
(* Publication.  No client holds a phase while the server is in it, and no *)
(* client of every phase looks at the payload before the generation moves. *)
(***************************************************************************)
LEMMA BetweenPhases ==
  ASSUME IInv, spc \in Between, NEW c \in Clients
  PROVE  /\ ~Busy(c)
         /\ cpc[c] \notin {"copy_sequence", "copy_phase"}
         /\ cpc[c] = "validate" => gotPhase[c] \notin PhaseMask[c]
BY DEF IInv, ClientLaw, Copying, Received, Working, Holds, Between, Open, UnderWay

LEMMA PublicationSteps ==
  ASSUME IInv, PublishSequence \/ PublishPhase \/ PublishGeneration
  PROVE  Laws'
<1> USE DEF UnderWay
<1>1. UNCHANGED <<client, sequence, phase>> /\ phase \in Phases
  BY DEF PublishSequence, PublishPhase, PublishGeneration, IInv, GenerationLaw
<1>2. UNCHANGED <<cpc, lastGeneration, gotSequence, gotPhase, lastSequence, lastPhase>>
  BY <1>1 DEF client
<1>3. spc \in Between
  BY DEF Between, PublishSequence, PublishPhase, PublishGeneration
<1>4. CASE PublishSequence
  <2>1. UNCHANGED <<generation, pubPhase, participants, completions>>
    BY <1>4 DEF PublishSequence
  <2>2. GenerationLaw'
    BY <1>1, <1>4, <2>1 DEF IInv, GenerationLaw, PublishSequence, Round
  <2>3. PayloadLaw'
    BY <1>4, <2>1 DEF IInv, PayloadLaw, PublishSequence
  <2>4. ResponseLaw'
    BY <1>4, <2>1 DEF IInv, ResponseLaw, PublishSequence
  <2>5. ClientLaw'
    BY <1>2, <1>3, <1>4, <2>1, BetweenPhases DEF IInv, ClientLaw, Attached, Copying,
       Received, Working, Busy, FastReceiveSafe, Between, PublishSequence
  <2> QED  BY <2>2, <2>3, <2>4, <2>5 DEF Laws
<1>5. CASE PublishPhase
  <2>1. UNCHANGED <<generation, pubSequence>>
    BY <1>5 DEF PublishPhase
  <2>2. GenerationLaw'
    BY <1>1, <1>5, <2>1 DEF IInv, GenerationLaw, PublishPhase, Round
  <2>3. PayloadLaw'
    BY <1>1, <1>5, <2>1 DEF IInv, PayloadLaw, PublishPhase, Required
  <2>4. ResponseLaw'
    BY <1>5 DEF IInv, ResponseLaw, PublishPhase
  <2>5. ClientLaw'
    BY <1>2, <1>3, <1>5, <2>1, BetweenPhases DEF IInv, ClientLaw, Attached, Copying,
       Received, Working, Busy, FastReceiveSafe, Between, PublishPhase
  <2> QED  BY <2>2, <2>3, <2>4, <2>5 DEF Laws
<1>6. CASE PublishGeneration
  <2>1. UNCHANGED <<pubSequence, pubPhase, participants, completions, responded>>
    BY <1>6 DEF PublishGeneration, payload
  <2>2. GenerationLaw'
    BY <1>1, <1>6 DEF IInv, TypeOK, GenerationLaw, PublishGeneration, Round, RoundOf, Phases
  <2>3. PayloadLaw'
    BY <1>1, <1>6, <2>1 DEF IInv, TypeOK, PayloadLaw, GenerationLaw, PublishGeneration,
       PubRound, Round, RoundOf, Phases
  <2>4. ResponseLaw'
    BY <1>6, <2>1 DEF IInv, ResponseLaw, PublishGeneration
  <2>5. ClientLaw'
    BY <1>2, <1>3, <1>6, <2>1, BetweenPhases DEF IInv, TypeOK, PayloadLaw, ClientLaw,
       Attached, Copying, Received, Working, Busy, FastReceiveSafe, Between,
       PublishGeneration
  <2> QED  BY <2>2, <2>3, <2>4, <2>5 DEF Laws
<1> QED  BY <1>4, <1>5, <1>6

LEMMA BroadcastSteps ==
  ASSUME IInv, PublishSignal \/ StopBarrier
  PROVE  Laws'
<1> USE DEF UnderWay
<1>1. /\ UNCHANGED <<generation, pubSequence, pubPhase, participants, completions>>
      /\ UNCHANGED <<sequence, phase, responded, lastGeneration, gotSequence>>
      /\ UNCHANGED <<gotPhase, lastSequence, lastPhase>>
  BY DEF PublishSignal, StopBarrier, barrier, payload
<1>2. \A c \in Clients : \/ cpc'[c] = cpc[c]
                         \/ cpc[c] = "asleep" /\ cpc'[c] = "woken"
  BY WakeEffect DEF IInv, PublishSignal, StopBarrier
<1>3. \/ spc' = spc /\ spc \notin PublishSteps
      \/ spc = "pub_signal" /\ spc' = "phase_test"
      \/ spc = "stop" /\ spc' = "done"
  BY DEF PublishSignal, StopBarrier, MutexFree
<1>4. GenerationLaw' /\ PayloadLaw' /\ ResponseLaw'
  BY <1>1, <1>3 DEF IInv, GenerationLaw, PayloadLaw, ResponseLaw, Round, PubRound
<1>5. ClientLaw'
  <2> SUFFICES ASSUME NEW c \in Clients
               PROVE  (Attached(c) /\ Copying(c) /\ Received(c) /\ Working(c))'
    BY DEF ClientLaw
  <2>1. (spc \in Open <=> spc' \in Open) /\ (spc \in Between <=> spc' \in Between)
    BY <1>3 DEF Open, Between
  <2>2. Attached(c)'
    BY <1>1, <1>2, <2>1 DEF IInv, ClientLaw, Attached, FastReceiveSafe
  <2>3. Holds(c) <=> Holds(c)'
    BY <1>1, <2>1 DEF Holds
  <2>4. Copying(c)' /\ Received(c)' /\ Working(c)'
    BY <1>1, <1>2, <2>3 DEF IInv, ClientLaw, Copying, Received, Working, Busy, FastReceiveSafe
  <2> QED  BY <2>2, <2>4
<1> QED  BY <1>4, <1>5 DEF Laws

-----------------------------------------------------------------------------
(***************************************************************************)
(* A client's steps.  What the other clients know does not change; only    *)
(* Complete touches the barrier, and it only adds the client itself.       *)
(***************************************************************************)
ClientVars == <<cpc, lastGeneration, gotSequence, gotPhase, lastSequence, lastPhase>>

SameFor(d) == /\ cpc'[d] = cpc[d] /\ lastGeneration'[d] = lastGeneration[d]
              /\ gotSequence'[d] = gotSequence[d] /\ gotPhase'[d] = gotPhase[d]
              /\ lastSequence'[d] = lastSequence[d] /\ lastPhase'[d] = lastPhase[d]

LEMMA OthersSame ==
  ASSUME TypeOK, NEW c \in Clients, ClientNext(c) \/ Environment(c),
         NEW d \in Clients, d # c
  PROVE  SameFor(d)
BY DEF TypeOK, SameFor, ClientNext, Environment, Register, HandshakeFails, Connect,
   FastReceive, CopySequence, CopyPhase, LockedReceive, Sleep, SpuriousWake, Leave,
   Validate, CallbackFails, Claim, Complete, CompletionRejected, RequestStop,
   Interrupt, Wake, client

\* The steps of a client that only read the barrier.
LEMMA ReadOnlySteps ==
  ASSUME IInv, NEW c \in Clients, ClientNext(c) \/ Environment(c),
         UNCHANGED <<server, barrier>>,
         (Attached(c) /\ Copying(c) /\ Received(c) /\ Working(c))'
  PROVE  Laws'
<1>1. /\ UNCHANGED <<spc, sequence, phase, responded, generation>>
      /\ UNCHANGED <<pubSequence, pubPhase, participants, completions>>
  BY DEF server, barrier, payload
<1>2. GenerationLaw' /\ PayloadLaw' /\ ResponseLaw'
  BY <1>1 DEF IInv, GenerationLaw, PayloadLaw, ResponseLaw, Round, PubRound
<1>3. ASSUME NEW d \in Clients, d # c
      PROVE  (Attached(d) /\ Copying(d) /\ Received(d) /\ Working(d))'
  <2>1. SameFor(d)
    BY <1>3, OthersSame DEF IInv
  <2>2. Holds(d) <=> Holds(d)'
    BY <1>1, <2>1 DEF Holds, SameFor
  <2> QED
    BY <1>1, <2>1, <2>2 DEF IInv, ClientLaw, SameFor, Attached, Copying, Received, Working,
       Busy, FastReceiveSafe
<1> QED  BY <1>2, <1>3 DEF Laws, ClientLaw

LEMMA ClientReads ==
  ASSUME IInv, NEW c \in Clients,
         \/ HandshakeFails(c) \/ Connect(c) \/ FastReceive(c) \/ CopySequence(c)
         \/ CopyPhase(c) \/ LockedReceive(c) \/ Sleep(c) \/ SpuriousWake(c) \/ Leave(c)
         \/ Validate(c) \/ CallbackFails(c) \/ Claim(c) \/ CompletionRejected(c)
         \/ RequestStop(c) \/ Interrupt(c)
  PROVE  Laws'
<1>1. UNCHANGED <<server, barrier>>
  BY DEF HandshakeFails, Connect, FastReceive, CopySequence, CopyPhase, LockedReceive,
     Sleep, SpuriousWake, Leave, Validate, CallbackFails, Claim, CompletionRejected,
     RequestStop, Interrupt
<1>2. /\ UNCHANGED <<spc, generation, pubSequence, pubPhase, participants, completions>>
  BY <1>1 DEF server, barrier, payload
<1>3. /\ Attached(c) /\ Copying(c) /\ Received(c) /\ Working(c)
      /\ cpc[c] \in ClientSteps /\ lastGeneration[c] \in Nat /\ generation \in Nat
      /\ spc \in Between \cup Open
  BY DEF IInv, ClientLaw, TypeOK, Between, Open, UnderWay, ServerSteps, PublishSteps
<1> DEFINE Good == Attached(c) /\ Copying(c) /\ Received(c) /\ Working(c)
<1>4. ASSUME HandshakeFails(c) \/ Sleep(c) \/ SpuriousWake(c) \/ Leave(c) \/ Interrupt(c)
             \/ CallbackFails(c) \/ CompletionRejected(c) \/ Claim(c) \/ RequestStop(c)
      PROVE  Good'
  <2>1. /\ UNCHANGED <<lastGeneration, gotSequence, gotPhase, lastSequence, lastPhase>>
        /\ cpc'[c] \in {"failed", "asleep", "woken", "exited", "receive"} \/ cpc'[c] = cpc[c]
           \/ (cpc[c] = "work" /\ cpc'[c] = "complete")
    BY <1>4 DEF HandshakeFails, Sleep, SpuriousWake, Leave, Interrupt, Wake, IInv, TypeOK,
       CallbackFails, CompletionRejected, Claim, RequestStop
  <2>2. Holds(c) <=> Holds(c)'
    BY <1>2, <2>1 DEF Holds
  <2> QED
    BY <1>2, <1>3, <2>1, <2>2 DEF Attached, Copying, Received, Working, Busy, FastReceiveSafe
<1>5. ASSUME Connect(c)
      PROVE  Good'
  <2>1. c \notin completions
    BY <1>3, <1>5 DEF Connect, Attached
  <2>2. lastGeneration'[c] = (IF generation > 0 THEN generation - 1 ELSE 0) /\ cpc'[c] = "receive"
    BY <1>5 DEF Connect, IInv, TypeOK
  <2>3. (FastReceiveSafe(c) /\ spc \in Between) => generation = 0
    BY <1>5, <2>1, <1>3, FastTakesPart DEF Connect, MutexFree, PublishSteps, Between, IInv, ResponseLaw,
       PayloadLaw
  <2>4. Attached(c)'
    BY <1>2, <1>3, <2>1, <2>2, <2>3 DEF Attached, FastReceiveSafe
  <2> QED  BY <2>2, <2>4 DEF Copying, Received, Working, Busy
<1>6. ASSUME FastReceive(c)
      PROVE  Good'
  <2>1. spc \in Open /\ generation > 0 /\ c \notin completions
    BY <1>3, <1>6 DEF FastReceive, Attached
  <2>2. lastGeneration'[c] = generation /\ cpc'[c] = "copy_sequence" /\ FastReceiveSafe(c)
    BY <1>6 DEF FastReceive, IInv, TypeOK
  <2>3. Holds(c)'
    BY <1>2, <2>1, <2>2, FastTakesPart DEF Holds
  <2> QED
    BY <1>2, <1>3, <2>1, <2>2, <2>3 DEF Attached, Copying, Received, Working, Busy, FastReceiveSafe
<1>7. ASSUME CopySequence(c) \/ CopyPhase(c)
      PROVE  Good'
  <2>1. Holds(c) /\ FastReceiveSafe(c)
    BY <1>3, <1>7 DEF CopySequence, CopyPhase, Copying
  <2>2. UNCHANGED <<lastGeneration, lastSequence, lastPhase>>
    BY <1>7 DEF CopySequence, CopyPhase
  <2>3. Holds(c)' /\ FastReceiveSafe(c)'
    BY <1>2, <2>1, <2>2 DEF Holds, FastReceiveSafe
  <2>4. \/ cpc'[c] = "copy_phase" /\ gotSequence'[c] = pubSequence
        \/ cpc'[c] = "validate" /\ gotSequence'[c] = pubSequence /\ gotPhase'[c] = pubPhase
    BY <1>3, <1>7 DEF CopySequence, CopyPhase, Copying, IInv, TypeOK
  <2>5. PubRound = lastGeneration[c] /\ pubPhase \in Phases
    BY <2>1 DEF Holds, IInv, PayloadLaw, Open, UnderWay
  <2> QED
    BY <1>2, <1>3, <2>2, <2>3, <2>4, <2>5
    DEF Attached, Copying, Received, Working, Busy, FastReceiveSafe, PubRound
<1>8. ASSUME LockedReceive(c)
      PROVE  Good'
  <2>1. generation > 0 /\ c \notin completions
    BY <1>3, <1>8 DEF LockedReceive, Attached
  <2>2. /\ lastGeneration'[c] = generation /\ cpc'[c] = "validate"
        /\ gotSequence'[c] = pubSequence /\ gotPhase'[c] = pubPhase
    BY <1>8 DEF LockedReceive, IInv, TypeOK
  <2>3. PubRound = generation /\ pubPhase \in Phases
    BY <1>8, <2>1 DEF LockedReceive, MutexFree, PublishSteps, IInv, PayloadLaw
  <2>4. pubPhase \in PhaseMask[c] => Holds(c)'
    <3> SUFFICES ASSUME pubPhase \in PhaseMask[c]
                 PROVE  Holds(c)'
      OBVIOUS
    <3>1. c \in participants \ completions
      BY <2>1 DEF IInv, PayloadLaw
    <3>2. spc \in Open
      BY <1>3, <1>8, <3>1 DEF LockedReceive, MutexFree, PublishSteps, IInv, ResponseLaw, Between
    <3> QED  BY <1>2, <2>1, <2>2, <3>1, <3>2 DEF Holds
  <2> QED
    BY <1>2, <1>3, <2>1, <2>2, <2>3, <2>4
    DEF Attached, Copying, Received, Working, Busy, FastReceiveSafe, PubRound
<1>9. ASSUME Validate(c)
      PROVE  Good'
  <2>1. UNCHANGED <<lastGeneration, gotSequence, gotPhase>>
    BY <1>9 DEF Validate
  <2>2. Holds(c) <=> Holds(c)'
    BY <1>2, <2>1 DEF Holds
  <2>3. \/ cpc'[c] \in {"receive", "exited"}
        \/ /\ cpc'[c] = "work" /\ gotPhase[c] \in PhaseMask[c]
           /\ lastSequence'[c] = gotSequence[c] /\ lastPhase'[c] = gotPhase[c]
    BY <1>9 DEF Validate, AfterReceive, IInv, TypeOK
  <2>4. cpc[c] = "validate"
    BY <1>9 DEF Validate
  <2> QED
    BY <1>2, <1>3, <2>1, <2>2, <2>3, <2>4
    DEF Attached, Copying, Received, Working, Busy, FastReceiveSafe
<1>10. Good'
  BY <1>4, <1>5, <1>6, <1>7, <1>8, <1>9
<1> QED  BY <1>1, <1>10, ReadOnlySteps DEF ClientNext, Environment

LEMMA ClientRegisters ==
  ASSUME IInv, NEW c \in Clients, Register(c)
  PROVE  Laws'
<1>1. /\ UNCHANGED <<sequence, phase, responded, generation>>
      /\ UNCHANGED <<pubSequence, pubPhase, participants, completions>>
      /\ spc = "handshake" /\ spc' \in {"handshake", "poll"}
  BY DEF Register, barrier, payload
<1>2. GenerationLaw' /\ PayloadLaw' /\ ResponseLaw'
  BY <1>1 DEF IInv, GenerationLaw, PayloadLaw, ResponseLaw, PubRound, UnderWay
<1>3. ASSUME NEW d \in Clients
      PROVE  (Attached(d) /\ Copying(d) /\ Received(d) /\ Working(d))'
  <2>1. /\ UNCHANGED <<lastGeneration, gotSequence, gotPhase, lastSequence, lastPhase>>
        /\ cpc'[d] = cpc[d] \/ (cpc[d] = "start" /\ cpc'[d] = "connect")
    BY <1>3 DEF Register, IInv, TypeOK
  <2>2. Holds(d) <=> Holds(d)'
    BY <1>1, <2>1 DEF Holds, Open, UnderWay
  <2> QED
    BY <1>1, <2>1, <2>2 DEF IInv, ClientLaw, Attached, Copying, Received, Working,
       Busy, FastReceiveSafe, Between
<1> QED  BY <1>2, <1>3 DEF Laws, ClientLaw

LEMMA ClientCompletes ==
  ASSUME IInv, NEW c \in Clients, Complete(c)
  PROVE  Laws'
<1>1. /\ UNCHANGED <<spc, sequence, phase, responded, generation>>
      /\ UNCHANGED <<pubSequence, pubPhase, participants>>
      /\ completions' = completions \cup {c}
      /\ spc \notin PublishSteps
  BY DEF Complete, server, payload, MutexFree
<1>2. GenerationLaw' /\ PayloadLaw' /\ ResponseLaw'
  BY <1>1 DEF IInv, GenerationLaw, PayloadLaw, ResponseLaw, Round, PubRound, PublishSteps
<1>3. Holds(c)
  BY DEF Complete, IInv, ClientLaw, Working, Busy
<1>4. ASSUME NEW d \in Clients
      PROVE  (Attached(d) /\ Copying(d) /\ Received(d) /\ Working(d))'
  <2>1. CASE d = c
    <3>1. cpc'[c] = "receive" /\ lastGeneration'[c] = lastGeneration[c]
      BY DEF Complete, IInv, TypeOK
    <3> QED
      BY <1>1, <1>3, <2>1, <3>1 DEF IInv, ClientLaw, Holds, Attached, Copying, Received,
         Working, Busy, FastReceiveSafe
  <2>2. CASE d # c
    <3>1. SameFor(d)
      BY <2>2, OthersSame DEF IInv, ClientNext
    <3>2. Holds(d) <=> Holds(d)'
      BY <1>1, <2>2, <3>1 DEF Holds, SameFor
    <3> QED
      BY <1>1, <2>2, <3>1, <3>2 DEF IInv, ClientLaw, SameFor, Attached, Copying, Received,
         Working, Busy, FastReceiveSafe
  <2> QED  BY <2>1, <2>2
<1> QED  BY <1>2, <1>4 DEF Laws, ClientLaw

-----------------------------------------------------------------------------
LEMMA Unchanged ==
  ASSUME IInv, UNCHANGED vars
  PROVE  IInv'
<1>1. UNCHANGED <<server, barrier, client>>
  BY DEF vars
<1>2. /\ UNCHANGED <<spc, ready, paused, stepPending, running, stopRequested>>
      /\ UNCHANGED <<sequence, phase, responded>>
  BY <1>1 DEF server, control
<1>3. UNCHANGED <<generation, pubSequence, pubPhase, participants, completions, stopping>>
  BY <1>1 DEF barrier, payload
<1>4. /\ UNCHANGED <<cpc, lastGeneration, gotSequence, gotPhase>>
      /\ UNCHANGED <<lastSequence, lastPhase, completed, interrupted>>
  BY <1>1 DEF client
<1>5. TypeOK'
  BY <1>2, <1>3, <1>4 DEF IInv, TypeOK
<1>6. GenerationLaw' /\ PayloadLaw' /\ ResponseLaw'
  BY <1>2, <1>3 DEF IInv, GenerationLaw, PayloadLaw, ResponseLaw, Round, PubRound
<1>7. \A c \in Clients : Holds(c) <=> Holds(c)'
  BY <1>2, <1>3, <1>4 DEF Holds
<1>8. ClientLaw'
  BY <1>2, <1>3, <1>4, <1>7 DEF IInv, ClientLaw, Attached, Copying, Received, Working,
     Busy, FastReceiveSafe
<1> QED  BY <1>5, <1>6, <1>8 DEF IInv

LEMMA Inductive == IInv /\ [Next]_vars => IInv'
<1> SUFFICES ASSUME IInv, [Next]_vars
             PROVE  IInv'
  OBVIOUS
<1>1. CASE ServerNext \/ RequestServerStop
  <2>1. TypeOK'
    BY <1>1, ServerTypes DEF IInv
  <2>2. Laws'
    BY <1>1, LoopSteps, PublicationSteps, BroadcastSteps DEF ServerNext
  <2> QED  BY <2>1, <2>2 DEF IInv, Laws
<1>2. ASSUME NEW c \in Clients, ClientNext(c) \/ Environment(c)
      PROVE  IInv'
  <2>1. TypeOK'
    BY <1>2, ClientTypes DEF IInv
  <2>2. Laws'
    BY <1>2, ClientReads, ClientRegisters, ClientCompletes DEF ClientNext, Environment
  <2> QED  BY <2>1, <2>2 DEF IInv, Laws
<1>3. CASE Terminated \/ UNCHANGED vars
  BY <1>3, Unchanged DEF Terminated
<1> QED  BY <1>1, <1>2, <1>3 DEF Next

LEMMA Initially == Init => IInv
<1> SUFFICES ASSUME Init
             PROVE  IInv
  OBVIOUS
<1>1. TypeOK
  <2>1. /\ paused \in BOOLEAN /\ stepPending \in BOOLEAN /\ running \in BOOLEAN
        /\ stopRequested \in BOOLEAN /\ stopping \in BOOLEAN
        /\ completed \in [Clients -> BOOLEAN] /\ interrupted \in [Clients -> BOOLEAN]
    BY StartPausedAssumption DEF Init
  <2>2. /\ spc \in ServerSteps /\ cpc \in [Clients -> ClientSteps]
        /\ lastSequence \in [Clients -> Nat \cup {NoSequence}]
    BY DEF Init, ServerSteps, ClientSteps
  <2> QED  BY <2>1, <2>2 DEF Init, TypeOK
<1>2. GenerationLaw /\ ResponseLaw
  BY DEF Init, GenerationLaw, ResponseLaw, UnderWay
<1>3. PayloadLaw
  <2>1. participants = {c \in Clients : pubPhase \in PhaseMask[c]}
    BY MaskInPhases DEF Init, Phases
  <2> QED  BY <2>1 DEF Init, PayloadLaw, UnderWay
<1>4. ClientLaw
  BY DEF Init, ClientLaw, Attached, Copying, Received, Working, Busy
<1> QED  BY <1>1, <1>2, <1>3, <1>4 DEF IInv

LEMMA Invariance == Spec => []IInv
BY Initially, Inductive, PTL DEF Spec

-----------------------------------------------------------------------------
\* The variables keep their types, for any clients and any duration.
THEOREM TypeCorrect == Spec => []TypeOK
<1>1. IInv => TypeOK  BY DEF IInv
<1> QED  BY <1>1, Invariance, PTL

\* Nobody works on a phase the barrier no longer holds: the server cannot run
\* ahead of a callback (simulith_server_run 1037-1121).
THEOREM LockstepHolds == Spec => []Lockstep
<1>1. IInv => Lockstep
  <2> SUFFICES ASSUME IInv, NEW c \in Clients, Busy(c)
               PROVE  /\ lastSequence[c] = pubSequence /\ lastPhase[c] = pubPhase
                      /\ RoundOf(lastSequence[c], lastPhase[c]) = generation
                      /\ c \in participants \ completions
    BY DEF Lockstep
  <2>1. Holds(c) /\ lastSequence[c] = pubSequence /\ lastPhase[c] = pubPhase
    BY DEF IInv, ClientLaw, Working
  <2>2. PubRound = generation
    BY <2>1 DEF Holds, Open, UnderWay, IInv, PayloadLaw
  <2> QED  BY <2>1, <2>2 DEF Holds, PubRound
<1> QED  BY <1>1, Invariance, PTL

\* The lock-free receive never mixes two publications
\* (simulith_shared_barrier_receive 236-251).
THEOREM ReadsAreWhole == Spec => []NoTornRead
<1>1. IInv => NoTornRead
  BY DEF IInv, ClientLaw, Received, NoTornRead
<1> QED  BY <1>1, Invariance, PTL
=============================================================================
