------------------------ MODULE TickProtocol_refinement ------------------------
(***************************************************************************)
(* The shared-memory protocol implements the abstract barrier TickSync,    *)
(* and its order check never turns away a phase the server waits for.      *)
(***************************************************************************)
EXTENDS TickProtocol_proofs

Publishing == {"publish", "pub_phase", "pub_generation"}

LastRound(c) == RoundOf(lastSequence[c], lastPhase[c])

\* A client has accepted a phase of every tick the server has finished, and
\* one of the current tick as soon as the server is past it.
CaughtUp(c) ==
    /\ lastSequence[c] >= pubSequence - 1
    /\ spc \in Between \cup UnderWay => lastSequence[c] >= sequence - 1
    /\ (spc \in Publishing \cup UnderWay /\ \E q \in PhaseMask[c] : q < phase) =>
         lastSequence[c] >= sequence
    /\ (c \in completions /\ spc \notin {"pub_phase", "pub_generation"}) =>
         lastSequence[c] >= pubSequence

\* It has accepted nothing it was not shown, and nothing twice.
Ordered(c) ==
    /\ lastSequence[c] # NoSequence =>
         lastPhase[c] \in Phases /\ LastRound(c) <= lastGeneration[c]
    /\ cpc[c] \in {"start", "connect"} => lastSequence[c] = NoSequence
    /\ (cpc[c] \in {"copy_sequence", "copy_phase", "validate"} /\
        lastSequence[c] # NoSequence) => LastRound(c) < lastGeneration[c]

History == \A c \in Clients : CaughtUp(c) /\ Ordered(c)

-----------------------------------------------------------------------------
LEMMA SomePhase ==
  ASSUME NEW c \in Clients
  PROVE  \E q \in PhaseMask[c] : q \in Phases
BY KindAssumption DEF PhaseMask, Phases, Kinds

\* Rounds order the phases of all ticks.
LEMMA RoundOrder ==
  ASSUME NEW s \in Int, NEW t \in Int, NEW p \in Phases, NEW q \in Phases
  PROVE  /\ RoundOf(s, p) < RoundOf(t, q) <=> (s < t \/ (s = t /\ p < q))
         /\ RoundOf(s, p) = RoundOf(t, q) <=> (s = t /\ p = q)
BY DEF RoundOf, Phases

\* Phases alternate as the rounds are counted.
LEMMA PhaseOfRound ==
  ASSUME NEW s \in Nat, NEW p \in Phases
  PROVE  ((RoundOf(s, p) - 1) % 3) + 1 = p
<1>1. CASE p = 1
  <2>1. (3 * s) % 3 = 0
    OBVIOUS
  <2> QED  BY <1>1, <2>1 DEF RoundOf
<1>2. CASE p = 2
  <2>1. (3 * s + 1) % 3 = 1
    OBVIOUS
  <2> QED  BY <1>2, <2>1 DEF RoundOf
<1>3. CASE p = 3
  <2>1. (3 * s + 2) % 3 = 2
    OBVIOUS
  <2> QED  BY <1>3, <2>1 DEF RoundOf
<1> QED  BY <1>1, <1>2, <1>3 DEF Phases

-----------------------------------------------------------------------------
(***************************************************************************)
(* History is preserved.                                                   *)
(***************************************************************************)
LEMMA LoopHistory ==
  ASSUME IInv, History,
         \/ AbandonHandshake \/ Poll \/ StartTick \/ StayPaused \/ EnterWait
         \/ Collect \/ Dispatch \/ EndPhase \/ EndTick \/ LeaveServer \/ LeaveLoop
         \/ RequestServerStop
  PROVE  History'
<1> USE DEF UnderWay, Between, Publishing
<1>1. /\ UNCHANGED <<pubSequence, completions, lastSequence, lastPhase>>
      /\ UNCHANGED <<lastGeneration, cpc>>
  BY DEF AbandonHandshake, Poll, StartTick, StayPaused, EnterWait, Collect, Dispatch,
     EndPhase, EndTick, LeaveServer, LeaveLoop, RequestServerStop, barrier, payload, client
<1> SUFFICES ASSUME NEW c \in Clients
             PROVE  CaughtUp(c)' /\ Ordered(c)'
  BY DEF History
<1>2. Ordered(c)'
  BY <1>1 DEF History, Ordered, LastRound
<1>3. /\ lastSequence[c] \in Int /\ sequence \in Nat /\ pubSequence \in Nat
      /\ phase \in 1..4 /\ PhaseMask[c] \subseteq Phases
  BY MaskInPhases DEF IInv, TypeOK, NoSequence
<1>4. CASE EndPhase \/ EndTick
  <2>1. spc' \in {"publish", "poll"} => participants \subseteq completions
    BY <1>4, PhaseComplete DEF EndPhase, EndTick, PhaseUnderway
  <2>2. /\ pubSequence = sequence /\ pubPhase = phase
        /\ phase \in PhaseMask[c] => c \in participants
    BY <1>4 DEF EndPhase, EndTick, IInv, PayloadLaw
  <2>3. CASE EndPhase
    <3>1. /\ spc = "phase_test" /\ phase' = phase + 1 /\ sequence' = sequence
          /\ spc' \in {"publish", "stop"}
      BY <2>3 DEF EndPhase
    <3>2. spc' = "publish" /\ (\E q \in PhaseMask[c] : q < phase + 1) => lastSequence[c] >= sequence
      <4> SUFFICES ASSUME spc' = "publish", NEW q \in PhaseMask[c], q < phase + 1
                   PROVE  lastSequence[c] >= sequence
        OBVIOUS
      <4>1. CASE q < phase
        BY <4>1, <3>1 DEF History, CaughtUp
      <4>2. CASE q = phase
        BY <4>2, <3>1, <2>1, <2>2 DEF History, CaughtUp
      <4> QED  BY <4>1, <4>2, <1>3 DEF Phases
    <3>3. lastSequence[c] >= pubSequence - 1 /\ lastSequence[c] >= sequence - 1
      BY <3>1 DEF History, CaughtUp
    <3>4. c \in completions => lastSequence[c] >= pubSequence
      BY <3>1 DEF History, CaughtUp
    <3> QED  BY <1>1, <1>2, <3>1, <3>2, <3>3, <3>4 DEF CaughtUp
  <2>4. CASE EndTick
    <3>1. /\ spc = "phase_test" /\ phase = 3 /\ sequence' = sequence + 1
          /\ spc' \in {"poll", "stop"}
      BY <2>4 DEF EndTick
    <3>2. spc' = "poll" => lastSequence[c] >= sequence
      <4> SUFFICES ASSUME spc' = "poll"
                   PROVE  lastSequence[c] >= sequence
        OBVIOUS
      <4>1. PICK q \in PhaseMask[c] : q \in Phases
        BY SomePhase
      <4>2. CASE q < 3
        BY <4>1, <4>2, <3>1 DEF History, CaughtUp
      <4>3. CASE q = 3
        BY <4>3, <3>1, <2>1, <2>2 DEF History, CaughtUp
      <4> QED  BY <4>1, <4>2, <4>3 DEF Phases
    <3>3. /\ lastSequence[c] >= pubSequence - 1
          /\ c \in completions => lastSequence[c] >= pubSequence
      BY <3>1 DEF History, CaughtUp
    <3> QED  BY <1>1, <1>2, <1>3, <3>1, <3>2, <3>3 DEF CaughtUp
  <2> QED  BY <1>4, <2>3, <2>4
<1>5. CASE StartTick
  <2>1. /\ spc = "decide" /\ spc' \in {"stop", "publish"} /\ phase' = 1
        /\ sequence' = sequence
    BY <1>5 DEF StartTick
  <2>2. ~(\E q \in PhaseMask[c] : q < 1)
    BY <1>3 DEF Phases
  <2> QED  BY <1>1, <1>2, <2>1, <2>2 DEF History, CaughtUp
<1>6. CASE ~(EndPhase \/ EndTick \/ StartTick)
  <2>1. /\ UNCHANGED <<sequence, phase>>
        /\ spc' \in Between \cup UnderWay => spc \in Between \cup UnderWay
        /\ spc' \in Publishing \cup UnderWay => spc \in Publishing \cup UnderWay
        /\ spc' \in {"pub_phase", "pub_generation"} <=> spc \in {"pub_phase", "pub_generation"}
    BY <1>6 DEF AbandonHandshake, Poll, StayPaused, EnterWait, Collect, Dispatch,
       LeaveServer, LeaveLoop, RequestServerStop
  <2> QED  BY <1>1, <1>2, <2>1 DEF History, CaughtUp
<1> QED  BY <1>4, <1>5, <1>6

LEMMA PublishHistory ==
  ASSUME IInv, History,
         \/ PublishSequence \/ PublishPhase \/ PublishGeneration
         \/ PublishSignal \/ StopBarrier
  PROVE  History'
<1> USE DEF UnderWay, Between, Publishing
<1>1. /\ UNCHANGED <<sequence, phase, lastSequence, lastPhase, lastGeneration>>
      /\ \A c \in Clients : cpc'[c] = cpc[c] \/ cpc'[c] = "woken"
  BY WakeEffect DEF PublishSequence, PublishPhase, PublishGeneration, PublishSignal,
     StopBarrier, client, IInv
<1> SUFFICES ASSUME NEW c \in Clients
             PROVE  CaughtUp(c)' /\ Ordered(c)'
  BY DEF History
<1>2. Ordered(c)'
  BY <1>1 DEF History, Ordered, LastRound
<1>3. CASE PublishSequence \/ PublishPhase \/ PublishGeneration
  <2>1. /\ spc \in Publishing /\ spc' \in {"pub_phase", "pub_generation", "pub_signal"}
        /\ pubSequence' = sequence
        /\ spc' = "pub_signal" => completions' = {}
    BY <1>3 DEF PublishSequence, PublishPhase, PublishGeneration, IInv, PayloadLaw, payload
  <2> QED  BY <1>1, <1>2, <2>1 DEF History, CaughtUp
<1>4. CASE PublishSignal \/ StopBarrier
  <2>1. /\ UNCHANGED <<pubSequence, completions>>
        /\ \/ spc' = spc \/ (spc = "pub_signal" /\ spc' = "phase_test")
           \/ (spc = "stop" /\ spc' = "done")
    BY <1>4 DEF PublishSignal, StopBarrier, barrier, payload
  <2> QED  BY <1>1, <1>2, <2>1 DEF History, CaughtUp
<1> QED  BY <1>3, <1>4

\* What a client's step does to what it has accepted.
LEMMA Accepting ==
  ASSUME IInv, History, NEW c \in Clients, ClientNext(c) \/ Environment(c)
  PROVE  \/ UNCHANGED <<lastSequence, lastPhase>>
         \/ /\ cpc[c] = "validate" /\ cpc'[c] \in {"receive", "work", "exited"}
            /\ UNCHANGED lastGeneration
            /\ lastSequence'[c] = gotSequence[c] /\ lastPhase'[c] = gotPhase[c]
            /\ lastSequence'[c] >= lastSequence[c]
<1>1. CASE Validate(c) /\ lastSequence' # lastSequence
  BY <1>1 DEF Validate, AfterReceive, Stale, IInv, TypeOK, NoSequence
<1>2. CASE Validate(c) /\ lastSequence' = lastSequence
  BY <1>2 DEF Validate, AfterReceive, Stale, IInv, TypeOK, NoSequence
<1>3. CASE ~Validate(c)
  BY <1>3 DEF ClientNext, Environment, Register, HandshakeFails, Connect, FastReceive,
     CopySequence, CopyPhase, LockedReceive, Sleep, SpuriousWake, Leave, CallbackFails,
     Claim, Complete, CompletionRejected, RequestStop, Interrupt, client
<1> QED  BY <1>1, <1>2, <1>3

LEMMA ClientHistory ==
  ASSUME IInv, History, NEW c \in Clients, ClientNext(c) \/ Environment(c)
  PROVE  History'
<1> USE DEF UnderWay, Between, Publishing
<1>1. /\ UNCHANGED <<pubSequence, sequence, phase>>
      /\ spc' = spc \/ (spc = "handshake" /\ spc' = "poll")
      /\ completions' = completions
         \/ (Complete(c) /\ spc' = spc /\ completions' = completions \cup {c})
  BY DEF ClientNext, Environment, Register, HandshakeFails, Connect, FastReceive,
     CopySequence, CopyPhase, LockedReceive, Sleep, SpuriousWake, Leave, Validate,
     CallbackFails, Claim, Complete, CompletionRejected, RequestStop, Interrupt,
     server, barrier, payload
<1>2. ASSUME NEW d \in Clients, d # c
      PROVE  CaughtUp(d)' /\ Ordered(d)'
  <2>1. SameFor(d)
    BY <1>2, OthersSame DEF IInv
  <2>2. d \in completions' <=> d \in completions
    BY <1>1, <1>2
  <2> QED  BY <1>1, <2>1, <2>2 DEF History, CaughtUp, Ordered, LastRound, SameFor
<1>3. /\ lastSequence[c] \in Int /\ lastSequence'[c] \in Int
      /\ lastSequence'[c] >= lastSequence[c]
      /\ sequence \in Nat /\ pubSequence \in Nat
  <2>1. lastSequence[c] \in Int /\ gotSequence[c] \in Nat /\ sequence \in Nat /\ pubSequence \in Nat
    BY DEF IInv, TypeOK, NoSequence
  <2> QED  BY <2>1, Accepting
<1>4. CaughtUp(c)'
  <2>1. CASE completions' = completions
    BY <1>1, <1>3, <2>1 DEF History, CaughtUp
  <2>2. CASE Complete(c)
    <3>1. lastSequence[c] = pubSequence
      BY <2>2 DEF Complete, Accepts
    <3> QED  BY <1>1, <1>3, <2>2, <3>1 DEF History, CaughtUp
  <2> QED  BY <1>1, <2>1, <2>2
<1>5. Ordered(c)'
  <2>0. /\ lastGeneration[c] \in Nat /\ generation \in Nat
        /\ lastGeneration[c] <= generation /\ cpc[c] \in ClientSteps
        /\ lastSequence[c] # NoSequence => LastRound(c) \in Int
    BY DEF IInv, TypeOK, ClientLaw, Attached, LastRound, RoundOf, Phases
  <2>1. CASE Register(c) \/ HandshakeFails(c) \/ Connect(c)
    <3>1. /\ cpc[c] \in {"start", "connect"} /\ cpc'[c] \in {"connect", "failed", "receive"}
          /\ UNCHANGED <<lastSequence, lastPhase>>
      BY <2>1 DEF Register, HandshakeFails, Connect, IInv, TypeOK
    <3> QED  BY <3>1 DEF History, Ordered
  <2>2. CASE FastReceive(c) \/ LockedReceive(c)
    <3>1. /\ cpc[c] \in {"receive", "woken"} /\ cpc'[c] \in {"copy_sequence", "validate"}
          /\ lastGeneration'[c] = generation /\ generation # lastGeneration[c]
          /\ UNCHANGED <<lastSequence, lastPhase>>
      BY <2>2 DEF FastReceive, LockedReceive, IInv, TypeOK
    <3> QED  BY <2>0, <3>1 DEF History, Ordered, LastRound
  <2>3. CASE CopySequence(c) \/ CopyPhase(c)
    <3>1. /\ cpc[c] \in {"copy_sequence", "copy_phase"} /\ cpc'[c] \in {"copy_phase", "validate"}
          /\ UNCHANGED <<lastSequence, lastPhase, lastGeneration>>
      BY <2>3 DEF CopySequence, CopyPhase, IInv, TypeOK
    <3> QED  BY <3>1 DEF History, Ordered, LastRound
  <2>4. CASE Validate(c)
    <3>1. /\ cpc[c] = "validate" /\ cpc'[c] \in {"receive", "work", "exited"}
          /\ UNCHANGED lastGeneration
          /\ UNCHANGED <<lastSequence, lastPhase>>
             \/ (lastSequence'[c] = gotSequence[c] /\ lastPhase'[c] = gotPhase[c])
      BY <2>4 DEF Validate, AfterReceive, IInv, TypeOK
    <3>2. RoundOf(gotSequence[c], gotPhase[c]) = lastGeneration[c] /\ gotPhase[c] \in Phases
      BY <3>1 DEF IInv, ClientLaw, Received
    <3> QED  BY <2>0, <3>1, <3>2 DEF History, Ordered, LastRound
  <2>5. CASE \/ Sleep(c) \/ SpuriousWake(c) \/ Leave(c) \/ Claim(c) \/ Complete(c)
             \/ CallbackFails(c) \/ CompletionRejected(c) \/ RequestStop(c) \/ Interrupt(c)
    <3>1. /\ UNCHANGED <<lastSequence, lastPhase, lastGeneration>>
          /\ \/ cpc'[c] = cpc[c]
             \/ cpc'[c] \in {"asleep", "woken", "exited", "complete", "receive", "failed"}
      BY <2>5 DEF Sleep, SpuriousWake, Leave, Claim, Complete, CallbackFails,
         CompletionRejected, RequestStop, Interrupt, Wake, IInv, TypeOK
    <3> QED  BY <3>1 DEF History, Ordered, LastRound
  <2> QED  BY <2>1, <2>2, <2>3, <2>4, <2>5 DEF ClientNext, Environment
<1> QED  BY <1>2, <1>4, <1>5 DEF History

LEMMA HistoryInductive == IInv /\ History /\ [Next]_vars => History'
<1> SUFFICES ASSUME IInv, History, [Next]_vars
             PROVE  History'
  OBVIOUS
<1>1. CASE Terminated \/ UNCHANGED vars
  <2>1. UNCHANGED <<server, barrier, client>>
    BY <1>1 DEF Terminated, vars
  <2>2. /\ UNCHANGED <<spc, sequence, phase, pubSequence, completions>>
        /\ UNCHANGED <<cpc, lastGeneration, lastSequence, lastPhase>>
    BY <2>1 DEF server, barrier, payload, client
  <2> QED  BY <2>2 DEF History, CaughtUp, Ordered, LastRound
<1> QED
  BY <1>1, LoopHistory, PublishHistory, ClientHistory DEF Next, ServerNext

LEMMA HistoryInitially == Init => History
BY MaskInPhases DEF Init, History, CaughtUp, Ordered, NoSequence, UnderWay, Between,
   Publishing, Phases

LEMMA HistoryHolds == Spec => []History
<1>1. IInv /\ History /\ [Next]_vars => History'
  BY HistoryInductive
<1> QED  BY <1>1, HistoryInitially, Invariance, PTL DEF Spec

\* The order check of simulith_client_receive_phase (357-380) never turns away
\* a phase the server waits for.
THEOREM OrderCheckHarmless == Spec => []NoLivePhaseRejected
<1>1. IInv /\ History => NoLivePhaseRejected
  <2> SUFFICES ASSUME IInv, History, NEW c \in Clients,
                      cpc[c] = "validate", gotPhase[c] \in PhaseMask[c]
               PROVE  ~Stale(c) /\ ~Gap(c)
    BY DEF NoLivePhaseRejected
  <2>1. /\ gotSequence[c] = pubSequence /\ gotPhase[c] \in Phases
        /\ RoundOf(gotSequence[c], gotPhase[c]) = lastGeneration[c]
    BY DEF IInv, ClientLaw, Received
  <2>2. /\ lastSequence[c] \in Int /\ gotSequence[c] \in Int
        /\ pubSequence \in Int
    BY DEF IInv, TypeOK, NoSequence
  <2>3. ~Gap(c)
    BY <2>1, <2>2 DEF History, CaughtUp, Gap
  <2>4. ~Stale(c)
    BY <2>1, <2>2 DEF History, Ordered, LastRound, Stale, RoundOf, Phases
  <2> QED  BY <2>3, <2>4
<1> QED  BY <1>1, Invariance, HistoryHolds, PTL

-----------------------------------------------------------------------------
(***************************************************************************)
(* Refinement.  First what the mapping sees of a state.                    *)
(***************************************************************************)
Mid == spc \in {"pub_phase", "pub_generation"}

\* The abstract participants of a round are those of the barrier's payload.
LEMMA PartMapped ==
  ASSUME IInv, NEW c \in Clients
  PROVE  /\ TakesPart(c) <=> c \in Sync!Participants(generation)
         /\ (generation > 0 /\ ~Mid) => (TakesPart(c) <=> c \in participants)
<1>1. TakesPart(c) <=> c \in Sync!Participants(generation)
  BY DEF TakesPart, Sync!Participants, Sync!Phase, IInv, TypeOK
<1>2. ASSUME generation > 0, ~Mid
      PROVE  TakesPart(c) <=> c \in participants
  <2>1. PubRound = generation /\ pubPhase \in Phases /\ pubSequence \in Nat
    BY <1>2 DEF Mid, IInv, TypeOK, PayloadLaw
  <2>2. ((generation - 1) % 3) + 1 = pubPhase
    BY <2>1, PhaseOfRound DEF PubRound
  <2> QED  BY <1>2, <2>2 DEF TakesPart, IInv, PayloadLaw
<1> QED  BY <1>1, <1>2

\* A step that changes nothing the mapping looks at.
LEMMA WorkKept ==
  ASSUME IInv, NEW c \in Clients,
         UNCHANGED <<generation, completions>>,
         lastSequence'[c] = lastSequence[c], lastPhase'[c] = lastPhase[c],
         Busy(c)' <=> Busy(c), Mid' <=> Mid
  PROVE  WorkOf(c)' = WorkOf(c)
BY DEF WorkOf, TakesPart, RoundOf, Mid

\* A client that holds a phase takes part in the round that is open.
LEMMA HoldersTakePart ==
  ASSUME IInv, NEW c \in Clients, Holds(c)
  PROVE  TakesPart(c) /\ ~Mid
<1>1. ~Mid /\ generation > 0 /\ c \in participants
  BY DEF Holds, Open, UnderWay, Mid
<1> QED  BY <1>1, PartMapped

WorkMap == [c \in Clients |-> WorkOf(c)]

LEMMA ServerRefines ==
  ASSUME IInv, History, ServerNext \/ RequestServerStop
  PROVE  [Sync!Next]_(Sync!vars)
<1>1. CASE PublishGeneration
  <2>1. /\ generation' = generation + 1 /\ completions' = completions /\ completions = {}
        /\ spc = "pub_generation" /\ spc' = "pub_signal" /\ stopping' = stopping
        /\ UNCHANGED <<cpc, lastGeneration, lastSequence, lastPhase>>
    BY <1>1 DEF PublishGeneration, client, IInv, PayloadLaw
  <2>2. \A c \in Sync!Participants(generation) : WorkMap[c] = "done"
    <3> SUFFICES ASSUME NEW c \in Clients, TakesPart(c)
                 PROVE  WorkOf(c) = "done"
      BY PartMapped DEF WorkMap, Sync!Participants
    <3> QED  BY <2>1 DEF WorkOf
  <2>3. WorkMap' = [c \in Clients |-> "idle"]
    <3> SUFFICES ASSUME NEW c \in Clients
                 PROVE  WorkOf(c)' = "idle"
      BY DEF WorkMap
    <3>1. lastSequence[c] # NoSequence => LastRound(c) # generation'
      BY <2>1 DEF History, Ordered, IInv, TypeOK, ClientLaw, Attached, LastRound, RoundOf, Phases
    <3> QED  BY <2>1, <3>1 DEF WorkOf, LastRound, RoundOf
  <2> QED  BY <2>1, <2>2, <2>3 DEF Sync!Next, Sync!Open, WorkMap
<1>2. CASE StopBarrier
  <2>1. /\ stopping' = TRUE /\ UNCHANGED <<generation, completions, lastSequence, lastPhase>>
        /\ Mid' <=> Mid
    BY <1>2 DEF StopBarrier, Mid, MutexFree, PublishSteps
  <2>2. \A c \in Clients : Busy(c)' <=> Busy(c)
    BY <1>2, WakeEffect DEF StopBarrier, Busy, IInv
  <2>3. WorkMap' = WorkMap
    BY <2>1, <2>2, WorkKept DEF WorkMap
  <2> QED  BY <2>1, <2>3 DEF Sync!Next, Sync!Stop, WorkMap
<1>3. CASE PublishSequence
  <2>1. /\ UNCHANGED <<generation, completions, stopping, cpc, lastSequence, lastPhase>>
        /\ spc = "publish" /\ spc' = "pub_phase"
    BY <1>3 DEF PublishSequence, client
  <2>2. ASSUME NEW c \in Clients
        PROVE  WorkOf(c)' = WorkOf(c)
    <3>1. TakesPart(c)' <=> TakesPart(c)
      BY <2>1 DEF TakesPart
    <3>2. TakesPart(c) => c \in completions
      BY <2>1, PartMapped DEF TakesPart, Mid, IInv, ResponseLaw
    <3> QED  BY <2>1, <3>1, <3>2 DEF WorkOf
  <2> QED  BY <2>1, <2>2 DEF Sync!vars
<1>4. CASE PublishPhase
  <2>1. /\ UNCHANGED <<generation, stopping>>
        /\ spc = "pub_phase" /\ spc' = "pub_generation"
    BY <1>4 DEF PublishPhase
  <2>2. ASSUME NEW c \in Clients
        PROVE  WorkOf(c)' = WorkOf(c)
    BY <2>1 DEF WorkOf, TakesPart
  <2> QED  BY <2>1, <2>2 DEF Sync!vars
<1>5. CASE ~(PublishGeneration \/ StopBarrier \/ PublishSequence \/ PublishPhase)
  <2>1. UNCHANGED <<generation, completions, stopping, lastSequence, lastPhase>>
    BY <1>5 DEF ServerNext, AbandonHandshake, Poll, StartTick, StayPaused, PublishSignal,
       EnterWait, Collect, Dispatch, EndPhase, EndTick, LeaveServer, LeaveLoop,
       RequestServerStop, barrier, client
  <2>2. Mid' <=> Mid
    BY <1>5 DEF Mid, ServerNext, AbandonHandshake, Poll, StartTick, StayPaused, PublishSignal,
       EnterWait, Collect, Dispatch, EndPhase, EndTick, LeaveServer, LeaveLoop,
       RequestServerStop
  <2>3. \A c \in Clients : Busy(c)' <=> Busy(c)
    BY <1>5, WakeEffect DEF IInv, Busy, ServerNext, AbandonHandshake, Poll, StartTick,
       StayPaused, PublishSignal, EnterWait, Collect, Dispatch, EndPhase, EndTick,
       LeaveServer, LeaveLoop, RequestServerStop, client
  <2> QED  BY <2>1, <2>2, <2>3, WorkKept DEF Sync!vars
<1> QED  BY <1>1, <1>2, <1>3, <1>4, <1>5

\* A client's step changes its own work only.
LEMMA OneClient ==
  ASSUME IInv, NEW c \in Clients, ClientNext(c) \/ Environment(c),
         \A d \in Clients : d # c => (d \in completions' <=> d \in completions),
         generation' = generation, stopping' = stopping, Mid' <=> Mid
  PROVE  /\ WorkMap' = [WorkMap EXCEPT ![c] = WorkOf(c)']
         /\ WorkOf(c)' = WorkOf(c) => UNCHANGED Sync!vars
<1>1. ASSUME NEW d \in Clients, d # c
      PROVE  WorkOf(d)' = WorkOf(d)
  <2>1. SameFor(d)
    BY <1>1, OthersSame DEF IInv
  <2> QED
    BY <1>1, <2>1 DEF SameFor, WorkOf, TakesPart, Busy, RoundOf, Mid
<1>2. WorkMap' = [WorkMap EXCEPT ![c] = WorkOf(c)']
  BY <1>1 DEF WorkMap
<1>3. WorkOf(c)' = WorkOf(c) => UNCHANGED WorkMap
  BY <1>1 DEF WorkMap
<1> QED  BY <1>2, <1>3 DEF Sync!vars, WorkMap

LEMMA ClientRefines ==
  ASSUME IInv, History, NEW c \in Clients, ClientNext(c) \/ Environment(c)
  PROVE  [Sync!Next]_(Sync!vars)
<1>1. /\ UNCHANGED <<generation, pubSequence, pubPhase, participants, stopping>>
      /\ Mid' <=> Mid
      /\ completions' = completions \/ (Complete(c) /\ completions' = completions \cup {c})
  BY DEF ClientNext, Environment, Register, HandshakeFails, Connect, FastReceive,
     CopySequence, CopyPhase, LockedReceive, Sleep, SpuriousWake, Leave, Validate,
     CallbackFails, Claim, Complete, CompletionRejected, RequestStop, Interrupt,
     server, barrier, payload, Mid
<1>2. /\ WorkMap' = [WorkMap EXCEPT ![c] = WorkOf(c)']
      /\ WorkOf(c)' = WorkOf(c) => UNCHANGED Sync!vars
  BY <1>1, OneClient
<1>3. WorkMap[c] = WorkOf(c)
  BY DEF WorkMap
<1>4. CASE Complete(c)
  <2>1. /\ Holds(c) /\ Busy(c) /\ ~stopping
        /\ lastSequence[c] = pubSequence /\ lastPhase[c] = pubPhase
    BY <1>4 DEF Complete, Accepts, Busy, IInv, ClientLaw, Working
  <2>2. TakesPart(c) /\ ~Mid /\ PubRound = generation
    BY <2>1, HoldersTakePart DEF Holds, IInv, PayloadLaw, Mid
  <2>3. lastSequence[c] # NoSequence
    BY <2>1 DEF IInv, TypeOK, NoSequence
  <2>4. WorkOf(c) = "busy"
    BY <2>1, <2>2, <2>3 DEF WorkOf, Holds, PubRound, Mid
  <2>5. WorkOf(c)' = "done"
    BY <1>1, <1>4, <2>2 DEF WorkOf, TakesPart, Complete
  <2> QED
    BY <1>1, <1>2, <1>3, <2>1, <2>4, <2>5 DEF Sync!Next, Sync!Finish, WorkMap
<1>5. CASE CompletionRejected(c) \/ CallbackFails(c)
  <2>1. /\ Holds(c) /\ Busy(c)
        /\ lastSequence[c] = pubSequence /\ lastPhase[c] = pubPhase
    BY <1>5 DEF CompletionRejected, CallbackFails, Busy, IInv, ClientLaw, Working
  <2>2. TakesPart(c) /\ ~Mid /\ PubRound = generation
    BY <2>1, HoldersTakePart DEF Holds, IInv, PayloadLaw, Mid
  <2>3. lastSequence[c] # NoSequence
    BY <2>1 DEF IInv, TypeOK, NoSequence
  <2>4. /\ UNCHANGED <<lastSequence, lastPhase, completions>>
        /\ ~Busy(c)'
    BY <1>5 DEF CompletionRejected, CallbackFails, barrier, Busy, IInv, TypeOK
  <2>5. WorkOf(c) = "busy"
    BY <2>1, <2>2, <2>3 DEF WorkOf, Holds, PubRound, Mid
  <2>6. WorkOf(c)' = "gone"
    BY <1>1, <2>1, <2>2, <2>3, <2>4 DEF WorkOf, TakesPart, Holds, PubRound, RoundOf, Mid
  <2>7. c \in Sync!Participants(generation)
    BY <2>2, PartMapped
  <2> QED
    BY <1>1, <1>2, <1>3, <2>5, <2>6, <2>7 DEF Sync!Next, Sync!Abandon, WorkMap
<1>6. CASE Validate(c)
  <2>1. /\ cpc[c] = "validate" /\ completions' = completions
        /\ RoundOf(gotSequence[c], gotPhase[c]) = lastGeneration[c]
        /\ gotPhase[c] \in Phases /\ lastGeneration[c] <= generation
        /\ generation \in Nat /\ gotSequence[c] \in Nat /\ ~Busy(c)
    BY <1>6 DEF Validate, barrier, IInv, TypeOK, ClientLaw, Attached, Received, Busy
  <2>2. /\ cpc'[c] \in {"receive", "work", "exited"}
        /\ \/ lastSequence'[c] = lastSequence[c] /\ lastPhase'[c] = lastPhase[c] /\ ~Busy(c)'
           \/ lastSequence'[c] = gotSequence[c] /\ lastPhase'[c] = gotPhase[c]
        /\ Busy(c)' => gotPhase[c] \in PhaseMask[c]
    BY <1>6 DEF Validate, AfterReceive, IInv, TypeOK, Busy
  <2>3. CASE lastSequence'[c] = lastSequence[c] /\ lastPhase'[c] = lastPhase[c] /\ ~Busy(c)'
    BY <1>1, <1>2, <2>1, <2>3, WorkKept
  <2>4. CASE lastSequence'[c] = gotSequence[c] /\ lastPhase'[c] = gotPhase[c]
    <3>1. WorkOf(c) \in {"idle", "done"}
      <4>1. lastSequence[c] # NoSequence => LastRound(c) # generation
        BY <2>1 DEF History, Ordered, LastRound, RoundOf, Phases, IInv, TypeOK, NoSequence
      <4> QED  BY <4>1 DEF WorkOf, LastRound
    <3>2. TakesPart(c)' <=> TakesPart(c)
      BY <1>1 DEF TakesPart
    <3>3. CASE ~TakesPart(c) \/ Mid \/ c \in completions
      <4>1. WorkOf(c)' = WorkOf(c)
        BY <1>1, <2>1, <3>2, <3>3 DEF WorkOf, Mid
      <4> QED  BY <1>2, <4>1
    <3>4. CASE TakesPart(c) /\ ~Mid /\ c \notin completions
      <4>1. WorkOf(c) = "idle"
        BY <3>1, <3>4 DEF WorkOf, Mid
      <4>2. WorkOf(c)' \in {"idle", "busy", "gone"}
        BY <1>1, <2>1, <3>2, <3>4 DEF WorkOf, Mid
      <4>3. c \in Sync!Participants(generation)
        BY <3>4, PartMapped
      <4>4. CASE WorkOf(c)' = "idle"
        BY <1>2, <4>1, <4>4
      <4>5. CASE WorkOf(c)' = "busy"
        BY <1>1, <1>2, <1>3, <4>1, <4>3, <4>5 DEF Sync!Next, Sync!Begin, WorkMap
      <4>6. CASE WorkOf(c)' = "gone"
        BY <1>1, <1>2, <1>3, <4>1, <4>3, <4>6 DEF Sync!Next, Sync!Abandon, WorkMap
      <4> QED  BY <4>2, <4>4, <4>5, <4>6
    <3> QED  BY <3>3, <3>4
  <2> QED  BY <2>2, <2>3, <2>4
<1>7. CASE ~(Complete(c) \/ CompletionRejected(c) \/ CallbackFails(c) \/ Validate(c))
  <2>1. /\ UNCHANGED <<completions, lastSequence, lastPhase>>
        /\ Busy(c)' <=> Busy(c)
    BY <1>7, WakeEffect DEF ClientNext, Environment, Register, HandshakeFails, Connect,
       FastReceive, CopySequence, CopyPhase, LockedReceive, Sleep, SpuriousWake, Leave,
       Claim, RequestStop, Interrupt, barrier, client, Busy, IInv, TypeOK
  <2> QED  BY <1>1, <1>2, <2>1, WorkKept
<1> QED  BY <1>4, <1>5, <1>6, <1>7

\* What the abstract barrier promises holds of the shared-memory protocol with
\* any clients: no round opens before everybody the one before it needs has
\* finished (simulith_server_run 1014-1128).
THEOREM ProtocolImplementsSync == Spec => ImplementsTickSync
<1>1. Init => Sync!Init
  BY DEF Init, Sync!Init, WorkOf, TakesPart
<1>2. IInv /\ History /\ [Next]_vars => [Sync!Next]_(Sync!vars)
  <2> SUFFICES ASSUME IInv, History, [Next]_vars
               PROVE  [Sync!Next]_(Sync!vars)
    OBVIOUS
  <2>1. CASE Terminated \/ UNCHANGED vars
    <3>1. UNCHANGED <<server, barrier, client>>
      BY <2>1 DEF Terminated, vars
    <3>2. /\ UNCHANGED <<spc, generation, completions, stopping>>
          /\ UNCHANGED <<cpc, lastSequence, lastPhase>>
      BY <3>1 DEF server, barrier, client
    <3>3. \A c \in Clients : WorkOf(c)' = WorkOf(c)
      BY <3>2 DEF WorkOf, TakesPart, Busy
    <3> QED  BY <3>2, <3>3 DEF Sync!vars
  <2> QED  BY <2>1, ServerRefines, ClientRefines DEF Next
<1> QED
  BY <1>1, <1>2, Invariance, HistoryHolds, PTL DEF Spec, ImplementsTickSync
=============================================================================
