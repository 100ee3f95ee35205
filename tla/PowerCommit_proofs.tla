-------------------------- MODULE PowerCommit_proofs --------------------------
(***************************************************************************)
(* PowerCommit for any number of switches, any loads on them, any queue    *)
(* size and any bounds.  First the types, that each COMMIT leaves the      *)
(* rails and the loads as commanded, and that an overflowed queue is never *)
(* applied.  Then what the loads go through: an OFF then ON is a power     *)
(* cycle, nothing of a command survives one, a rail left alone leaves its  *)
(* load alone, and an inactive ADCS has zeroed its actuators.              *)
(***************************************************************************)
EXTENDS PowerCommit, FiniteSetTheorems, TLAPS

\* The transitions of rail s from the k-th on, resets left out.
Later(s, k) == {j \in k..Len(queue) : queue[j].switch = s /\ ~queue[j].reset}

\* Once they are applied, rail s is in state v.
Leaves(s, k, v) ==
    \/ Later(s, k) = {} /\ effective[s] = v
    \/ \E j \in Later(s, k) : (\A i \in Later(s, k) : i <= j) /\ queue[j].on = v

\* The first transition that is still to be applied.
First == IF phase = "applying" THEN at ELSE 1

(***************************************************************************)
(* The inductive invariant.  Settled: what the queue will do to a rail is  *)
(* well defined.  Commanded: it is what requests and faults call for,      *)
(* except between the two halves of a reset and after an overflow.         *)
(***************************************************************************)
Settled == \A s \in Switches : \E v \in BOOLEAN : Leaves(s, First, v)

Commanded ==
    ~overflow => \A s \in Switches : \/ phase = "resetOff" /\ s = at
                                     \/ Leaves(s, First, Forced(fault[s], requested[s]))

SupplyLaw == \A l \in Loads : dev[l].supply = effective[Rail[l]]

PhaseLaw == /\ phase \in {"clear", "reset", "resetOff", "resetOn"} => at \in Switches
            /\ phase = "applying" => at >= 1
            /\ Applied => queue = <<>>
            /\ overflow => \/ phase = "execute" /\ failed
                           \/ phase \in {"reset", "resetOff", "resetOn", "power", "dead"}

IInv == TypeOK /\ Settled /\ Commanded /\ SupplyLaw /\ PhaseLaw

LoadRecords == [supply : BOOLEAN, memory : {"clear", "command", "backdoor"},
                readyAt : Nat, cycles : Nat]

Transitions == [switch : Switches, on : BOOLEAN, reset : BOOLEAN]

-----------------------------------------------------------------------------
LEMMA Sizes == SwitchCount \in Nat \ {0} /\ Switches = 0..(SwitchCount - 1)
BY SwitchesAssumption DEF Switches

\* Scheduled is the state the whole queue leaves the rail in.
LEMMA LeavesScheduled ==
  ASSUME TypeOK, NEW s \in Switches, NEW v, Leaves(s, 1, v)
  PROVE  Scheduled(s) = v
<1> DEFINE on == Later(s, 1)
<1>1. on = {k \in 1..Len(queue) : queue[k].switch = s /\ ~queue[k].reset}
  BY DEF Later
<1>2. CASE on = {}
  BY <1>1, <1>2 DEF Leaves, Scheduled
<1>3. CASE on # {}
  <2>1. PICK j \in on : (\A i \in on : i <= j) /\ queue[j].on = v
    BY <1>3 DEF Leaves
  <2>2. on \subseteq Nat
    BY <1>1
  <2>3. (CHOOSE k \in on : \A i \in on : i <= k) = j
    <3> DEFINE c == CHOOSE k \in on : \A i \in on : i <= k
    <3>1. c \in on /\ \A i \in on : i <= c
      BY <2>1
    <3>2. c <= j /\ j <= c
      BY <2>1, <3>1
    <3>3. c \in Nat /\ j \in Nat
      BY <2>1, <2>2, <3>1
    <3> QED BY <3>2, <3>3
  <2> QED BY <1>1, <1>3, <2>1, <2>3 DEF Scheduled
<1> QED BY <1>2, <1>3

\* A step that touches neither the queue nor the rails changes nothing here.
LEMMA LeavesKept ==
  ASSUME UNCHANGED <<queue, effective>>
  PROVE  \A s, k, v : Leaves(s, k, v)' <=> Leaves(s, k, v)
BY DEF Leaves, Later

\* A transition added at the end has the last word on its own rail only.
LEMMA LeavesAppended ==
  ASSUME TypeOK, NEW t \in Transitions, queue' = Append(queue, t), UNCHANGED effective,
         NEW s \in Switches
  PROVE  /\ (t.switch = s /\ ~t.reset) => Leaves(s, 1, t.on)'
         /\ ~(t.switch = s /\ ~t.reset) => \A v : Leaves(s, 1, v) => Leaves(s, 1, v)'
<1> DEFINE n == Len(queue)
<1>1. queue \in Seq(Transitions) /\ n \in Nat
  BY DEF TypeOK, SupplyTypes, Transitions
<1>2. Len(queue') = n + 1 /\ queue'[n + 1] = t /\ \A j \in 1..n : queue'[j] = queue[j]
  BY <1>1
<1>3. Later(s, 1)' = Later(s, 1) \cup (IF t.switch = s /\ ~t.reset THEN {n + 1} ELSE {})
  <2>1. 1..(n + 1) = 1..n \cup {n + 1}
    BY <1>1
  <2> QED BY <1>1, <1>2, <2>1 DEF Later
<1>4. Later(s, 1) \subseteq 1..n
  BY DEF Later
<1>5. ASSUME t.switch = s, ~t.reset
      PROVE  Leaves(s, 1, t.on)'
  <2>1. n + 1 \in Later(s, 1)' /\ \A i \in Later(s, 1)' : i <= n + 1
    BY <1>1, <1>3, <1>4, <1>5
  <2> QED BY <1>2, <2>1 DEF Leaves
<1>6. ASSUME ~(t.switch = s /\ ~t.reset), NEW v, Leaves(s, 1, v)
      PROVE  Leaves(s, 1, v)'
  <2>1. Later(s, 1)' = Later(s, 1)
    BY <1>3, <1>6
  <2>2. \A j \in Later(s, 1) : queue'[j] = queue[j]
    BY <1>2, <1>4
  <2> QED BY <1>6, <2>1, <2>2 DEF Leaves
<1> QED BY <1>5, <1>6

(***************************************************************************)
(* queue_switch: its own rail will follow the request, unless the queue    *)
(* overflows, and no other rail is disturbed.                              *)
(***************************************************************************)
LEMMA QueueSwitchEffect ==
  ASSUME TypeOK, NEW s \in Switches, NEW on \in BOOLEAN, fault' \in [Switches -> 0..2],
         QueueSwitch(s, on),
         \A r \in Switches : \E v \in BOOLEAN : Leaves(r, 1, v)
  PROVE  /\ \A r \in Switches : \E v \in BOOLEAN : Leaves(r, 1, v)'
         /\ ~overflow' => /\ Leaves(s, 1, Forced(fault[s], on))'
                          /\ requested' = [requested EXCEPT ![s] = on]
         /\ \A r \in Switches \ {s} : \A v : Leaves(r, 1, v) => Leaves(r, 1, v)'
         /\ UNCHANGED effective
<1>0. PICK want \in BOOLEAN : want = Forced(fault'[s], on)
  BY DEF Forced
<1> DEFINE t == Transition(s, want)
<1>1. UNCHANGED effective
  BY DEF QueueSwitch
<1>2. CASE want = Scheduled(s) /\ UNCHANGED queue /\ requested' = [requested EXCEPT ![s] = on]
  <2>1. PICK v \in BOOLEAN : Leaves(s, 1, v)
    OBVIOUS
  <2>2. v = want
    BY <1>2, <2>1, LeavesScheduled
  <2>3. \A r, k, u : Leaves(r, k, u)' <=> Leaves(r, k, u)
    BY <1>1, <1>2, LeavesKept
  <2>4. Leaves(s, 1, Forced(fault[s], on))'
    BY <1>0, <2>1, <2>2, <2>3
  <2> QED BY <1>1, <1>2, <2>3, <2>4
<1>3. CASE queue' = Append(queue, t) /\ requested' = [requested EXCEPT ![s] = on]
  <2>1. t \in Transitions /\ t.switch = s /\ ~t.reset /\ t.on = want
    BY DEF Transition, Transitions
  <2> HIDE DEF t
  <2>2. Leaves(s, 1, t.on)'
    BY <1>1, <1>3, <2>1, LeavesAppended
  <2>3. Leaves(s, 1, Forced(fault[s], on))'
    BY <1>0, <2>1, <2>2
  <2>4. \A r \in Switches \ {s} : \A v : Leaves(r, 1, v) => Leaves(r, 1, v)'
    BY <1>1, <1>3, <2>1, LeavesAppended
  <2>5. \E v \in BOOLEAN : Leaves(s, 1, v)'
    BY <2>1, <2>2
  <2> QED BY <1>1, <1>3, <2>3, <2>4, <2>5
<1>4. CASE overflow' /\ UNCHANGED queue
  <2>1. \A r, k, u : Leaves(r, k, u)' <=> Leaves(r, k, u)
    BY <1>1, <1>4, LeavesKept
  <2> QED BY <1>1, <1>4, <2>1
<1> QED BY <1>0, <1>2, <1>3, <1>4 DEF QueueSwitch

-----------------------------------------------------------------------------
\* A step that leaves a part of the state alone leaves its types alone.
LEMMA TypesKept ==
  ASSUME TypeOK
  PROVE  /\ UNCHANGED <<supply, failing>> => SupplyTypes'
         /\ UNCHANGED <<dev, adcs, out>> => LoadTypes'
         /\ UNCHANGED history => HistoryTypes'
BY DEF TypeOK, supply, history, SupplyTypes, LoadTypes, HistoryTypes

\* The types after a request or a fault has been queued.
LEMMA QueueTypes ==
  ASSUME TypeOK, NEW s \in Switches, NEW on \in BOOLEAN, fault' \in [Switches -> 0..2],
         QueueSwitch(s, on), failing' = failing
  PROVE  SupplyTypes' /\ HistoryTypes'
<1>1. PICK want \in BOOLEAN : want = Forced(fault'[s], on)
  BY DEF Forced
<1>2. Transition(s, want) \in Transitions
  BY DEF Transition, Transitions
<1>3. queue \in Seq(Transitions) /\ Len(queue) <= MaxTransitions
  BY DEF TypeOK, SupplyTypes, Transitions
<1>4. queue' \in Seq(Transitions) /\ Len(queue') <= MaxTransitions
  <2>1. CASE UNCHANGED queue
    BY <1>3, <2>1
  <2>2. CASE Len(queue) < MaxTransitions /\ queue' = Append(queue, Transition(s, want))
    BY <1>2, <1>3, <2>2, BoundsAssumption
  <2> QED BY <1>1, <2>1, <2>2 DEF QueueSwitch
<1>5. HistoryTypes'
  <2>1. Drive(s, want)
    BY <1>1 DEF QueueSwitch
  <2>2. tick \in 0..MaxTicks
    BY DEF TypeOK, DirectorTypes
  <2> QED BY <2>1, <2>2 DEF Drive, TypeOK, HistoryTypes
<1>6. /\ overflow' \in BOOLEAN /\ requested' \in [Switches -> BOOLEAN]
      /\ effective' \in [Switches -> BOOLEAN] /\ failing' \in [left : 0..1, which : {"any", "on"}]
  BY DEF QueueSwitch, TypeOK, SupplyTypes
<1> QED BY <1>4, <1>5, <1>6 DEF SupplyTypes, Transitions

\* What is written into a load's memory is one of its values.
LEMMA MemoryTypes ==
  ASSUME TypeOK, NEW l \in Loads, NEW m \in {"clear", "command", "backdoor"},
         dev' = [dev EXCEPT ![l].memory = m]
  PROVE  dev' \in [Loads -> LoadRecords]
BY DEF TypeOK, LoadTypes, LoadRecords

\* EXECUTE keeps the types.
LEMMA ExecuteTypes ==
  ASSUME TypeOK,
         \/ \E r \in {"hk", "on", "off"} : RequestFails(r)
         \/ \E r \in {"on", "off"}, s \in Switches : SwitchRequest(r, s)
         \/ \E l \in Loads : DeviceRequest(l)
         \/ \E m \in {0, 1} : SetMode(m)
         \/ EndExecute
  PROVE  TypeOK'
<1>0. ASSUME Serve, failed' \in BOOLEAN
      PROVE  DirectorTypes'
  BY <1>0, BoundsAssumption DEF Serve, TypeOK, DirectorTypes, Phases
<1>k. failed \in BOOLEAN
  BY DEF TypeOK, DirectorTypes
<1>1. ASSUME NEW r \in {"hk", "on", "off"}, RequestFails(r)
      PROVE  TypeOK'
  <2>1. DirectorTypes' /\ LoadTypes' /\ HistoryTypes'
    BY <1>0, <1>k, <1>1, TypesKept DEF RequestFails, Serve
  <2>2. SupplyTypes'
    BY <1>1 DEF RequestFails, supply, TypeOK, SupplyTypes
  <2> QED BY <2>1, <2>2 DEF TypeOK
<1>2. ASSUME NEW r \in {"on", "off"}, NEW s \in Switches, SwitchRequest(r, s)
      PROVE  TypeOK'
  <2>1. fault' \in [Switches -> 0..2] /\ QueueSwitch(s, r = "on") /\ (r = "on") \in BOOLEAN
    BY <1>2 DEF SwitchRequest, TypeOK, SupplyTypes
  <2>2. SupplyTypes' /\ HistoryTypes'
    BY <1>2, <2>1, QueueTypes DEF SwitchRequest
  <2>3. DirectorTypes' /\ LoadTypes'
    BY <1>0, <1>2, <2>2, TypesKept DEF SwitchRequest, Serve, SupplyTypes
  <2> QED BY <2>2, <2>3 DEF TypeOK
<1>3. ASSUME NEW l \in Loads, DeviceRequest(l)
      PROVE  TypeOK'
  <2>1. DirectorTypes' /\ SupplyTypes' /\ HistoryTypes'
    BY <1>0, <1>k, <1>3, TypesKept DEF DeviceRequest
  <2>2. LoadTypes'
    <3>1. dev' \in [Loads -> LoadRecords]
      <4>1. CASE Ready(l)
        BY <1>3, <4>1, MemoryTypes DEF DeviceRequest
      <4>2. CASE ~Ready(l)
        BY <1>3, <4>2 DEF DeviceRequest, TypeOK, LoadTypes, LoadRecords
      <4> QED BY <4>1, <4>2
    <3> QED BY <1>3, <3>1 DEF DeviceRequest, Serve, TypeOK, LoadTypes, LoadRecords
  <2> QED BY <2>1, <2>2 DEF TypeOK
<1>4. ASSUME NEW m \in {0, 1}, SetMode(m)
      PROVE  TypeOK'
  <2>1. DirectorTypes' /\ SupplyTypes' /\ HistoryTypes'
    BY <1>0, <1>k, <1>4, TypesKept DEF SetMode
  <2>2. LoadTypes'
    <3>1. CASE Ready("adcs")
      <4>1. dev' = [dev EXCEPT !["adcs"].memory = "command"] /\ "adcs" \in Loads
        BY <1>4, <3>1 DEF SetMode
      <4>2. dev' \in [Loads -> LoadRecords]
        BY <4>1, MemoryTypes
      <4>3. PICK p \in BOOLEAN : adcs' = [mode |-> m, armed |-> FALSE, pending |-> p]
        BY <1>4, <3>1 DEF SetMode
      <4> QED BY <1>4, <4>2, <4>3 DEF SetMode, Serve, TypeOK, LoadTypes, LoadRecords
    <3>2. CASE ~Ready("adcs")
      BY <1>4, <3>2, TypesKept DEF SetMode, Serve
    <3> QED BY <3>1, <3>2
  <2> QED BY <2>1, <2>2 DEF TypeOK
<1>5. CASE EndExecute
  <2>1. DirectorTypes'
    BY <1>5 DEF EndExecute, TypeOK, DirectorTypes, Phases
  <2> QED BY <1>5, <2>1, TypesKept DEF EndExecute, TypeOK
<1> QED BY <1>1, <1>2, <1>3, <1>4, <1>5

\* The backdoor datagram keeps the types.
LEMMA BackdoorTypes ==
  ASSUME TypeOK,
         \/ NoBackdoor \/ BackdoorDemo
         \/ \E s \in Switches, on \in BOOLEAN : BackdoorSwitch(s, on)
         \/ \E s \in Switches, f \in 0..2 : BackdoorFault(s, f)
         \/ \E r \in {"any", "on"} : BackdoorFail(r)
         \/ \E p \in {"clear", "reset"} : BackdoorLoop(p)
  PROVE  TypeOK'
<1>0. ASSUME NEW p \in Phases, Backdoor(p)
      PROVE  DirectorTypes'
  BY <1>0 DEF Backdoor, TypeOK, DirectorTypes
<1>p. "power" \in Phases /\ {"clear", "reset"} \subseteq Phases
  BY DEF Phases
<1>1. CASE NoBackdoor
  BY <1>0, <1>p, <1>1, TypesKept DEF NoBackdoor, Backdoor, TypeOK
<1>2. CASE BackdoorDemo
  <2>1. DirectorTypes' /\ SupplyTypes' /\ HistoryTypes'
    BY <1>0, <1>p, <1>2, TypesKept DEF BackdoorDemo
  <2>2. dev' \in [Loads -> LoadRecords]
    BY <1>2, MemoryTypes DEF BackdoorDemo
  <2> QED BY <1>2, <2>1, <2>2 DEF BackdoorDemo, Backdoor, TypeOK, LoadTypes, LoadRecords
<1>3. ASSUME NEW s \in Switches, NEW on \in BOOLEAN, BackdoorSwitch(s, on)
      PROVE  TypeOK'
  <2>1. fault' \in [Switches -> 0..2] /\ QueueSwitch(s, on) /\ failing' = failing
    BY <1>3 DEF BackdoorSwitch, TypeOK, SupplyTypes
  <2>2. SupplyTypes' /\ HistoryTypes'
    BY <2>1, QueueTypes
  <2> QED BY <1>0, <1>p, <1>3, <2>2, TypesKept DEF BackdoorSwitch, Backdoor, TypeOK
<1>4. ASSUME NEW s \in Switches, NEW f \in 0..2, BackdoorFault(s, f)
      PROVE  TypeOK'
  <2>1. fault' \in [Switches -> 0..2] /\ QueueSwitch(s, requested[s]) /\ failing' = failing
        /\ requested[s] \in BOOLEAN
    BY <1>4 DEF BackdoorFault, TypeOK, SupplyTypes
  <2>2. SupplyTypes' /\ HistoryTypes'
    BY <2>1, QueueTypes
  <2> QED BY <1>0, <1>p, <1>4, <2>2, TypesKept DEF BackdoorFault, Backdoor, TypeOK
<1>5. ASSUME NEW r \in {"any", "on"}, BackdoorFail(r)
      PROVE  TypeOK'
  <2>1. SupplyTypes'
    BY <1>5 DEF BackdoorFail, supply, TypeOK, SupplyTypes
  <2> QED BY <1>0, <1>p, <1>5, <2>1, TypesKept DEF BackdoorFail, Backdoor, TypeOK
<1>6. ASSUME NEW p \in {"clear", "reset"}, BackdoorLoop(p)
      PROVE  TypeOK'
  <2>1. SupplyTypes'
    BY <1>6 DEF BackdoorLoop, supply, TypeOK, SupplyTypes
  <2> QED BY <1>0, <1>p, <1>6, <2>1, TypesKept DEF BackdoorLoop, Backdoor, TypeOK
<1> QED BY <1>1, <1>2, <1>3, <1>4, <1>5, <1>6

\* CLEAR_FAULTS and RESET keep the types.
LEMMA LoopTypes ==
  ASSUME TypeOK, PhaseLaw, ClearFault \/ ResetLoad \/ ResetOff \/ ResetOn
  PROVE  TypeOK'
<1>0. at \in Switches /\ at \in Nat /\ at + 1 \in Nat /\ LoadTypes'
  <2>1. phase \in {"clear", "reset", "resetOff", "resetOn"}
    BY DEF ClearFault, ResetLoad, ResetOff, ResetOn, Looping
  <2>2. UNCHANGED <<dev, adcs, out>>
    BY DEF ClearFault, ResetLoad, ResetOff, ResetOn, Looping
  <2> QED BY <2>1, <2>2, TypesKept DEF PhaseLaw, TypeOK, DirectorTypes
<1>1. ASSUME NEW p, Looping(p), phase' \in Phases, at' \in Nat
      PROVE  DirectorTypes'
  BY <1>1 DEF Looping, TypeOK, DirectorTypes
<1>2. ASSUME NextSwitch
      PROVE  phase' \in Phases /\ at' \in Nat
  BY <1>0, <1>2 DEF NextSwitch, Phases
<1>3. CASE ClearFault
  <2>1. fault' \in [Switches -> 0..2] /\ requested[at] \in BOOLEAN
    BY <1>0, <1>3 DEF ClearFault, TypeOK, SupplyTypes
  <2>2. SupplyTypes' /\ HistoryTypes'
    BY <1>0, <1>3, <2>1, QueueTypes DEF ClearFault, Looping
  <2>3. phase' \in Phases /\ at' \in Nat
    BY <1>0, <1>2, <1>3 DEF ClearFault, Phases
  <2> QED BY <1>0, <1>1, <1>3, <2>2, <2>3 DEF ClearFault, TypeOK
<1>4. CASE ResetLoad
  <2>1. ResetOf(at) \in Transitions
    BY <1>0 DEF ResetOf, Transitions
  <2>2. queue' \in Seq(Transitions) /\ Len(queue') <= MaxTransitions
    <3>1. queue \in Seq(Transitions) /\ Len(queue) <= MaxTransitions
      BY DEF TypeOK, SupplyTypes, Transitions
    <3>2. CASE UNCHANGED queue
      BY <3>1, <3>2
    <3>3. CASE Len(queue) < MaxTransitions /\ queue' = Append(queue, ResetOf(at))
      BY <2>1, <3>1, <3>3, BoundsAssumption
    <3> QED BY <1>4, <3>2, <3>3 DEF ResetLoad
  <2>3. SupplyTypes'
    <3>1. fault' \in [Switches -> 0..2]
      BY <1>0, <1>4 DEF ResetLoad, TypeOK, SupplyTypes
    <3>2. /\ requested' \in [Switches -> BOOLEAN] /\ effective' \in [Switches -> BOOLEAN]
          /\ failing' \in [left : 0..1, which : {"any", "on"}]
      BY <1>4 DEF ResetLoad, Looping, TypeOK, SupplyTypes
    <3>3. overflow' \in BOOLEAN
      BY <1>4 DEF ResetLoad, TypeOK, SupplyTypes
    <3> QED BY <2>2, <3>1, <3>2, <3>3 DEF SupplyTypes, Transitions
  <2>4. HistoryTypes'
    BY <1>0, <1>4 DEF ResetLoad, TypeOK, HistoryTypes
  <2>5. phase' \in Phases /\ at' \in Nat
    BY <1>0, <1>4 DEF ResetLoad, Phases
  <2> QED BY <1>0, <1>1, <1>4, <2>3, <2>4, <2>5 DEF ResetLoad, TypeOK
<1>5. CASE ResetOff
  <2>1. fault' \in [Switches -> 0..2]
    BY <1>5 DEF ResetOff, TypeOK, SupplyTypes
  <2>2. SupplyTypes' /\ HistoryTypes'
    BY <1>0, <1>5, <2>1, QueueTypes DEF ResetOff, Looping
  <2>3. phase' \in Phases /\ at' \in Nat
    BY <1>0, <1>5 DEF ResetOff, Phases
  <2> QED BY <1>0, <1>1, <1>5, <2>2, <2>3 DEF ResetOff, TypeOK
<1>6. CASE ResetOn
  <2>1. fault' \in [Switches -> 0..2] /\ Startup[at] \in BOOLEAN
    BY <1>0, <1>6, SwitchesAssumption DEF ResetOn, TypeOK, SupplyTypes
  <2>2. SupplyTypes' /\ HistoryTypes'
    BY <1>0, <1>6, <2>1, QueueTypes DEF ResetOn, Looping
  <2> QED BY <1>0, <1>1, <1>2, <1>6, <2>2 DEF ResetOn, TypeOK
<1> QED BY <1>3, <1>4, <1>5, <1>6

\* The transitions, ACTUATE and the end of the tick keep the types.
LEMMA PowerTypes ==
  ASSUME TypeOK, PhaseLaw,
         StartPower \/ ApplyTransition \/ EndPower \/ Actuate \/ ActuateFails \/ NextTick
  PROVE  TypeOK'
<1>t. tick \in 0..MaxTicks /\ MaxTicks \in Nat /\ BootDelay \in Nat /\ tick + BootDelay \in Nat
  BY BoundsAssumption DEF TypeOK, DirectorTypes
<1>1. CASE StartPower
  <2>1. DirectorTypes'
    BY <1>1 DEF StartPower, TypeOK, DirectorTypes, Phases
  <2>2. dev' = dev
    BY <1>1 DEF StartPower, Configured, TypeOK, LoadTypes
  <2> QED BY <1>1, <2>1, <2>2, TypesKept DEF StartPower, TypeOK
<1>2. CASE ApplyTransition
  <2>1. PICK t \in Transitions : t = queue[at]
    <3>1. at \in 1..Len(queue)
      BY <1>2 DEF ApplyTransition, PhaseLaw, TypeOK, DirectorTypes
    <3>2. queue \in Seq(Transitions)
      BY DEF TypeOK, SupplyTypes, Transitions
    <3>3. queue[at] \in Transitions
      BY <3>1, <3>2
    <3> QED BY <3>3
  <2>2. t.switch \in Switches /\ t.on \in BOOLEAN /\ t.reset \in BOOLEAN
    BY DEF Transitions
  <2>3. DirectorTypes'
    BY <1>2 DEF ApplyTransition, TypeOK, DirectorTypes
  <2>4. effective' \in [Switches -> BOOLEAN]
    <3>1. effective' = IF t.reset THEN effective ELSE [effective EXCEPT ![t.switch] = t.on]
      BY <1>2, <2>1 DEF ApplyTransition
    <3> QED BY <2>2, <3>1 DEF TypeOK, SupplyTypes
  <2>5. SupplyTypes'
    BY <1>2, <2>4 DEF ApplyTransition, TypeOK, SupplyTypes
  <2>6. ASSUME NEW d \in LoadRecords
        PROVE  PowerSet(d, t.on) \in LoadRecords /\ PowerReset(d) \in LoadRecords
    <3>1. PICK on \in BOOLEAN : on = t.on
      BY <2>2
    <3>2. PowerSet(d, on) \in LoadRecords
      <4>1. CASE d.supply = on
        BY <4>1 DEF PowerSet
      <4>2. CASE d.supply # on
        <5>1. /\ d.readyAt \in Nat /\ d.cycles \in Nat /\ d.cycles + 1 \in Nat
          BY DEF LoadRecords
        <5>2. PICK r \in Nat : r = IF on THEN tick + BootDelay ELSE d.readyAt
          BY <1>t, <5>1
        <5>3. PICK c \in Nat : c = IF on THEN d.cycles + 1 ELSE d.cycles
          BY <5>1
        <5>4. PowerSet(d, on) = [supply |-> on, memory |-> "clear", readyAt |-> r, cycles |-> c]
          BY <4>2, <5>2, <5>3 DEF PowerSet
        <5> QED BY <5>4 DEF LoadRecords
      <4> QED BY <4>1, <4>2
    <3>3. PowerReset(d) \in LoadRecords
      BY DEF PowerReset, LoadRecords
    <3> QED BY <3>1, <3>2, <3>3
  <2>7. dev' \in [Loads -> LoadRecords]
    <3> DEFINE New(l) == IF l \notin {k \in Loads : Rail[k] = t.switch} THEN dev[l]
                         ELSE IF t.reset THEN PowerReset(dev[l]) ELSE PowerSet(dev[l], t.on)
    <3>1. dev' = [l \in Loads |-> New(l)]
      BY <1>2, <2>1 DEF ApplyTransition
    <3>2. \A l \in Loads : dev[l] \in LoadRecords
      BY DEF TypeOK, LoadTypes, LoadRecords
    <3>3. \A l \in Loads : New(l) \in LoadRecords
      BY <2>6, <3>2
    <3> HIDE DEF New
    <3> QED BY <3>1, <3>3
  <2>8. adcs' \in [mode : {0, 1}, armed : BOOLEAN, pending : BOOLEAN]
    BY <1>2 DEF ApplyTransition, TypeOK, LoadTypes
  <2>9. LoadTypes' /\ HistoryTypes'
    BY <1>2, <2>7, <2>8, TypesKept DEF ApplyTransition, TypeOK, LoadTypes, LoadRecords
  <2> QED BY <2>3, <2>5, <2>9 DEF TypeOK
<1>3. CASE EndPower
  <2>1. DirectorTypes' /\ LoadTypes' /\ HistoryTypes'
    BY <1>3, TypesKept DEF EndPower, TypeOK, DirectorTypes, HistoryTypes, Phases
  <2>2. SupplyTypes'
    BY <1>3, BoundsAssumption DEF EndPower, TypeOK, SupplyTypes
  <2> QED BY <2>1, <2>2 DEF TypeOK
<1>4. CASE Actuate
  <2>1. DirectorTypes' /\ SupplyTypes' /\ HistoryTypes'
    BY <1>4, TypesKept DEF Actuate, TypeOK, DirectorTypes, Phases
  <2>2. PICK m \in {0, 1}, a \in BOOLEAN, p \in BOOLEAN :
              adcs = [mode |-> m, armed |-> a, pending |-> p]
    BY DEF TypeOK, LoadTypes
  <2>3. adcs' \in [mode : {0, 1}, armed : BOOLEAN, pending : BOOLEAN]
    <3>1. CASE adcs' = [adcs EXCEPT !.pending = FALSE]
      BY <2>2, <3>1
    <3>2. CASE adcs' = [adcs EXCEPT !.armed = TRUE]
      BY <2>2, <3>2
    <3>3. CASE adcs' = adcs
      BY <2>2, <3>3
    <3> QED BY <1>4, <3>1, <3>2, <3>3 DEF Actuate
  <2>4. out' \in {"zero", "control"}
    BY <1>4 DEF Actuate, TypeOK, LoadTypes
  <2> QED BY <1>4, <2>1, <2>3, <2>4 DEF Actuate, TypeOK, LoadTypes
<1>6. CASE ActuateFails
  <2>1. DirectorTypes' /\ out' \in {"zero", "control"}
    BY <1>6 DEF ActuateFails, TypeOK, DirectorTypes, LoadTypes, Phases
  <2> QED BY <1>6, <2>1, TypesKept DEF ActuateFails, TypeOK, LoadTypes
<1>5. CASE NextTick
  <2>1. DirectorTypes'
    BY <1>t, <1>5, BoundsAssumption DEF NextTick, TypeOK, DirectorTypes, Phases
  <2> QED BY <1>5, <2>1, TypesKept DEF NextTick, TypeOK
<1> QED BY <1>1, <1>2, <1>3, <1>4, <1>5, <1>6

-----------------------------------------------------------------------------
\* Away from the loop of director_commit_power the whole queue counts.
LEMMA FirstIsOne ==
  ASSUME IInv, phase # "applying"
  PROVE  /\ First = 1
         /\ \A s \in Switches : \E v \in BOOLEAN : Leaves(s, 1, v)
         /\ ~overflow => \A s \in Switches :
                            \/ phase = "resetOff" /\ s = at
                            \/ Leaves(s, 1, Forced(fault[s], requested[s]))
BY DEF IInv, First, Settled, Commanded

\* A step that moves neither a rail, the queue nor a command.
LEMMA Unmoved ==
  ASSUME IInv, UNCHANGED supply, First' = First, phase # "resetOff"
  PROVE  Settled' /\ Commanded'
<1>1. UNCHANGED <<requested, effective, fault, queue, overflow>>
  BY DEF supply
<1>2. \A s, k, v : Leaves(s, k, v)' <=> Leaves(s, k, v)
  BY <1>1, LeavesKept
<1>3. Settled'
  BY <1>2 DEF IInv, Settled
<1>4. ASSUME ~overflow', NEW s \in Switches
      PROVE  Leaves(s, First, Forced(fault[s], requested[s]))'
  <2>1. Leaves(s, First, Forced(fault[s], requested[s]))
    BY <1>1, <1>4 DEF IInv, Commanded
  <2>2. Forced(fault[s], requested[s])' = Forced(fault[s], requested[s])
    BY <1>1 DEF Forced
  <2> QED BY <1>2, <2>1, <2>2
<1> QED BY <1>3, <1>4 DEF Commanded

\* queue_switch keeps the queue settled and leaves its rail as commanded.
LEMMA QueueSwitchCommands ==
  ASSUME IInv, NEW s \in Switches, NEW on \in BOOLEAN, QueueSwitch(s, on),
         fault' \in [Switches -> 0..2], \A r \in Switches \ {s} : fault'[r] = fault[r],
         phase \notin {"applying"}, phase' \notin {"applying", "resetOff"},
         phase = "resetOff" => s = at
  PROVE  Settled' /\ Commanded'
<1>0. TypeOK
  BY DEF IInv
<1>1. /\ First = 1 /\ First' = 1
      /\ \A r \in Switches : \E v \in BOOLEAN : Leaves(r, 1, v)
  BY FirstIsOne DEF First
<1>2. /\ \A r \in Switches : \E v \in BOOLEAN : Leaves(r, 1, v)'
      /\ ~overflow' => /\ Leaves(s, 1, Forced(fault[s], on))'
                       /\ requested' = [requested EXCEPT ![s] = on]
      /\ \A r \in Switches \ {s} : \A v : Leaves(r, 1, v) => Leaves(r, 1, v)'
  BY <1>0, <1>1, QueueSwitchEffect
<1>3. Settled'
  BY <1>1, <1>2 DEF Settled
<1>4. ASSUME ~overflow', NEW r \in Switches
      PROVE  Leaves(r, First, Forced(fault[r], requested[r]))'
  <2>1. requested' = [requested EXCEPT ![s] = on] /\ requested \in [Switches -> BOOLEAN]
    BY <1>0, <1>2, <1>4 DEF TypeOK, SupplyTypes
  <2>2. CASE r = s
    <3>1. requested'[s] = on
      BY <2>1
    <3>2. Forced(fault'[s], requested'[s]) = Forced(fault'[s], on)
      BY <3>1
    <3> QED BY <1>1, <1>2, <1>4, <2>2, <3>2
  <2>3. CASE r # s
    <3>1. ~overflow
      BY <1>4 DEF QueueSwitch
    <3>2. Leaves(r, 1, Forced(fault[r], requested[r]))
      BY <2>3, <3>1, FirstIsOne
    <3>3. PICK v : v = Forced(fault[r], requested[r])
      OBVIOUS
    <3>4. requested'[r] = requested[r] /\ fault'[r] = fault[r]
      BY <2>1, <2>3
    <3>5. Forced(fault'[r], requested'[r]) = v
      BY <3>3, <3>4
    <3>6. Leaves(r, 1, v)'
      BY <1>2, <2>3, <3>2, <3>3
    <3> QED BY <1>1, <3>5, <3>6
  <2> QED BY <2>2, <2>3
<1> QED BY <1>3, <1>4 DEF Commanded

-----------------------------------------------------------------------------
\* EXECUTE keeps the invariant.
LEMMA ExecuteLaws ==
  ASSUME IInv,
         \/ \E r \in {"hk", "on", "off"} : RequestFails(r)
         \/ \E r \in {"on", "off"}, s \in Switches : SwitchRequest(r, s)
         \/ \E l \in Loads : DeviceRequest(l)
         \/ \E m \in {0, 1} : SetMode(m)
         \/ EndExecute
  PROVE  IInv'
<1>0. TypeOK /\ TypeOK' /\ SupplyLaw /\ PhaseLaw
  BY ExecuteTypes DEF IInv
<1>1. phase = "execute" /\ phase' \in {"execute", "dead", "backdoor"} /\ First = 1 /\ First' = 1
  BY DEF RequestFails, SwitchRequest, DeviceRequest, SetMode, EndExecute, Serve, First
<1>2. ASSUME NEW r \in {"on", "off"}, NEW s \in Switches, SwitchRequest(r, s)
      PROVE  IInv'
  <2>1. fault' = fault /\ QueueSwitch(s, r = "on") /\ (r = "on") \in BOOLEAN
    BY <1>2 DEF SwitchRequest
  <2>2. fault' \in [Switches -> 0..2]
    BY <1>0, <2>1 DEF TypeOK, SupplyTypes
  <2>3. Settled' /\ Commanded'
    BY <1>1, <2>1, <2>2, QueueSwitchCommands
  <2>4. SupplyLaw'
    BY <1>0, <1>2, <2>1 DEF SwitchRequest, QueueSwitch, SupplyLaw
  <2>5. PhaseLaw'
    BY <1>1, <1>2 DEF SwitchRequest, Serve, PhaseLaw, Applied
  <2> QED BY <1>0, <2>3, <2>4, <2>5 DEF IInv
<1>3. ASSUME \/ \E r \in {"hk", "on", "off"} : RequestFails(r)
             \/ \E l \in Loads : DeviceRequest(l)
             \/ \E m \in {0, 1} : SetMode(m)
             \/ EndExecute
      PROVE  IInv'
  <2>1. UNCHANGED <<supply, failed>>
    BY <1>3 DEF RequestFails, DeviceRequest, SetMode, EndExecute
  <2>2. Settled' /\ Commanded'
    BY <1>1, <2>1, Unmoved
  <2>3. ASSUME NEW l \in Loads
        PROVE  dev'[l].supply = dev[l].supply
    <3>1. dev \in [Loads -> LoadRecords]
      BY <1>0 DEF TypeOK, LoadTypes, LoadRecords
    <3>2. CASE dev' = dev
      BY <3>2
    <3>3. ASSUME NEW k \in Loads, dev' = [dev EXCEPT ![k].memory = "command"]
          PROVE  dev'[l].supply = dev[l].supply
      BY <3>1, <3>3 DEF LoadRecords
    <3>4. "adcs" \in Loads \/ ~\E m \in {0, 1} : SetMode(m)
      BY DEF SetMode
    <3> QED BY <1>3, <3>2, <3>3, <3>4 DEF RequestFails, DeviceRequest, SetMode, EndExecute
  <2>4. SupplyLaw'
    BY <1>0, <2>1, <2>3 DEF supply, SupplyLaw
  <2>5. overflow' => (phase' = "execute" /\ failed') \/ phase' = "dead"
    <3>1. overflow' => failed
      BY <1>0, <1>1, <2>1 DEF supply, PhaseLaw
    <3>2. failed' = failed
      BY <2>1
    <3>3. failed => phase' # "backdoor"
      BY <1>1, <1>3 DEF EndExecute, RequestFails, DeviceRequest, SetMode, Serve
    <3> QED BY <1>1, <3>1, <3>2, <3>3
  <2>6. PhaseLaw'
    BY <1>1, <2>5 DEF PhaseLaw, Applied
  <2> QED BY <1>0, <2>2, <2>4, <2>6 DEF IInv
<1> QED BY <1>2, <1>3

\* The backdoor datagram keeps the invariant.
LEMMA BackdoorLaws ==
  ASSUME IInv,
         \/ NoBackdoor \/ BackdoorDemo
         \/ \E s \in Switches, on \in BOOLEAN : BackdoorSwitch(s, on)
         \/ \E s \in Switches, f \in 0..2 : BackdoorFault(s, f)
         \/ \E r \in {"any", "on"} : BackdoorFail(r)
         \/ \E p \in {"clear", "reset"} : BackdoorLoop(p)
  PROVE  IInv'
<1>0. TypeOK /\ TypeOK' /\ SupplyLaw /\ PhaseLaw
  BY BackdoorTypes DEF IInv
<1>1. /\ phase = "backdoor" /\ phase' \in {"power", "clear", "reset"} /\ at' = 0
      /\ phase' \in {"power"} \/ UNCHANGED supply
  BY DEF NoBackdoor, BackdoorDemo, BackdoorSwitch, BackdoorFault, BackdoorFail, BackdoorLoop,
         Backdoor
<1>2. First = 1 /\ First' = 1 /\ ~overflow
  BY <1>0, <1>1 DEF First, PhaseLaw
<1>3. PhaseLaw'
  <2>1. 0 \in Switches
    BY Sizes
  <2>2. phase' = "power" \/ ~overflow'
    BY <1>1, <1>2 DEF supply
  <2> QED BY <1>1, <2>1, <2>2 DEF PhaseLaw, Applied
<1>4. ASSUME NEW s \in Switches, NEW on \in BOOLEAN, QueueSwitch(s, on), UNCHANGED dev,
             fault' \in [Switches -> 0..2], \A r \in Switches \ {s} : fault'[r] = fault[r]
      PROVE  IInv'
  <2>1. Settled' /\ Commanded'
    BY <1>1, <1>4, QueueSwitchCommands
  <2>2. SupplyLaw'
    BY <1>0, <1>4 DEF QueueSwitch, SupplyLaw
  <2> QED BY <1>0, <1>3, <2>1, <2>2 DEF IInv
<1>5. ASSUME UNCHANGED supply, \A l \in Loads : dev'[l].supply = dev[l].supply
      PROVE  IInv'
  <2>1. Settled' /\ Commanded'
    BY <1>1, <1>2, <1>5, Unmoved
  <2>2. SupplyLaw'
    BY <1>0, <1>5 DEF supply, SupplyLaw
  <2> QED BY <1>0, <1>3, <2>1, <2>2 DEF IInv
<1>6. ASSUME NEW s \in Switches, NEW on \in BOOLEAN, BackdoorSwitch(s, on)
      PROVE  IInv'
  BY <1>0, <1>4, <1>6 DEF BackdoorSwitch, TypeOK, SupplyTypes
<1>7. ASSUME NEW s \in Switches, NEW f \in 0..2, BackdoorFault(s, f)
      PROVE  IInv'
  <2>1. /\ fault' = [fault EXCEPT ![s] = f] /\ fault \in [Switches -> 0..2]
        /\ requested[s] \in BOOLEAN /\ QueueSwitch(s, requested[s]) /\ UNCHANGED dev
    BY <1>0, <1>7 DEF BackdoorFault, TypeOK, SupplyTypes
  <2>2. fault' \in [Switches -> 0..2] /\ \A r \in Switches \ {s} : fault'[r] = fault[r]
    BY <2>1
  <2> QED BY <1>4, <2>1, <2>2
<1>8. CASE BackdoorDemo
  <2>1. dev \in [Loads -> LoadRecords]
    BY <1>0 DEF TypeOK, LoadTypes, LoadRecords
  <2>2. \A l \in Loads : dev'[l].supply = dev[l].supply
    BY <1>8, <2>1 DEF BackdoorDemo, LoadRecords
  <2> QED BY <1>5, <1>8, <2>2 DEF BackdoorDemo
<1>9. ASSUME NoBackdoor \/ (\E r \in {"any", "on"} : BackdoorFail(r))
             \/ \E p \in {"clear", "reset"} : BackdoorLoop(p)
      PROVE  IInv'
  BY <1>5, <1>9 DEF NoBackdoor, BackdoorFail, BackdoorLoop
<1> QED BY <1>6, <1>7, <1>8, <1>9

\* CLEAR_FAULTS and RESET keep the invariant.
LEMMA LoopLaws ==
  ASSUME IInv, ClearFault \/ ResetLoad \/ ResetOff \/ ResetOn
  PROVE  IInv'
<1>0. TypeOK /\ TypeOK' /\ SupplyLaw /\ PhaseLaw
  BY LoopTypes DEF IInv
<1>1. /\ phase \in {"clear", "reset", "resetOff", "resetOn"} /\ UNCHANGED dev
      /\ at \in Switches /\ at \in Nat
  BY <1>0 DEF ClearFault, ResetLoad, ResetOff, ResetOn, Looping, PhaseLaw, TypeOK,
              DirectorTypes
<1>2. ASSUME NextSwitch
      PROVE  /\ phase' \in {"power", "reset", "clear"} /\ (phase' = "clear" => phase = "clear")
             /\ phase' \in {"reset", "clear"} => at' \in Switches
  BY <1>1, <1>2, Sizes DEF NextSwitch
<1>3. SupplyLaw'
  BY <1>0, <1>1 DEF ClearFault, ResetLoad, ResetOff, ResetOn, QueueSwitch, SupplyLaw
<1>4. PhaseLaw'
  <2>1. CASE ClearFault
    <3>1. overflow' => phase' = "power"
      BY <2>1 DEF ClearFault
    <3>2. phase' \in {"power", "reset", "clear"} /\ (phase' # "power" => at' \in Switches)
      BY <1>2, <2>1 DEF ClearFault
    <3> QED BY <3>1, <3>2 DEF PhaseLaw, Applied
  <2>2. CASE ResetLoad \/ ResetOff
    BY <1>1, <2>2 DEF ResetLoad, ResetOff, PhaseLaw, Applied
  <2>3. CASE ResetOn
    <3>1. phase' \in {"power", "reset"} /\ (phase' = "reset" => at' \in Switches)
      BY <1>2, <2>3 DEF ResetOn, Looping
    <3> QED BY <3>1 DEF PhaseLaw, Applied
  <2> QED BY <2>1, <2>2, <2>3
<1>5. Settled' /\ Commanded'
  <2>1. CASE ClearFault
    <3>1. fault' = [fault EXCEPT ![at] = 0] /\ fault \in [Switches -> 0..2]
          /\ requested[at] \in BOOLEAN
      BY <1>0, <1>1, <2>1 DEF ClearFault, TypeOK, SupplyTypes
    <3>2. fault' \in [Switches -> 0..2] /\ \A r \in Switches \ {at} : fault'[r] = fault[r]
      BY <1>1, <3>1, SMTT(30)
    <3>3. phase = "clear" /\ phase' \in {"power", "reset", "clear"}
          /\ QueueSwitch(at, requested[at])
      BY <1>2, <2>1 DEF ClearFault, Looping
    <3> QED BY <1>1, <3>1, <3>2, <3>3, QueueSwitchCommands
  <2>2. CASE ResetOff
    <3>1. fault' \in [Switches -> 0..2] /\ (\A r \in Switches \ {at} : fault'[r] = fault[r])
          /\ phase = "resetOff" /\ phase' = "resetOn" /\ QueueSwitch(at, FALSE)
      BY <1>0, <2>2 DEF ResetOff, Looping, TypeOK, SupplyTypes
    <3> QED BY <1>1, <3>1, QueueSwitchCommands
  <2>3. CASE ResetOn
    <3>1. fault' \in [Switches -> 0..2] /\ (\A r \in Switches \ {at} : fault'[r] = fault[r])
          /\ phase = "resetOn" /\ QueueSwitch(at, Startup[at])
      BY <1>0, <2>3 DEF ResetOn, Looping, TypeOK, SupplyTypes
    <3>2. Startup[at] \in BOOLEAN /\ phase' \in {"power", "reset", "clear"}
      BY <1>1, <1>2, <2>3, SwitchesAssumption DEF ResetOn
    <3> QED BY <1>1, <3>1, <3>2, QueueSwitchCommands
  <2>4. CASE ResetLoad
    <3>1. /\ phase = "reset" /\ phase' \in {"resetOff", "power"} /\ at' = at
          /\ UNCHANGED <<requested, effective>> /\ fault' = [fault EXCEPT ![at] = 0]
      BY <2>4 DEF ResetLoad, Looping
    <3>2. /\ First = 1 /\ First' = 1
          /\ \A r \in Switches : \E v \in BOOLEAN : Leaves(r, 1, v)
      BY <3>1, FirstIsOne DEF First
    <3>3. ASSUME NEW r \in Switches
          PROVE  \A v : Leaves(r, 1, v) => Leaves(r, 1, v)'
      <4>1. CASE UNCHANGED queue
        BY <3>1, <4>1, LeavesKept
      <4>2. CASE queue' = Append(queue, ResetOf(at))
        <5>1. ResetOf(at) \in Transitions /\ ResetOf(at).reset
          BY <1>1 DEF ResetOf, Transitions
        <5> QED BY <1>0, <3>1, <4>2, <5>1, LeavesAppended
      <4> QED BY <2>4, <4>1, <4>2 DEF ResetLoad
    <3>4. Settled'
      BY <3>2, <3>3 DEF Settled
    <3>5. ASSUME ~overflow', NEW r \in Switches \ {at}
          PROVE  Leaves(r, First, Forced(fault[r], requested[r]))'
      <4>1. ~overflow
        BY <2>4, <3>5 DEF ResetLoad
      <4>2. Leaves(r, 1, Forced(fault[r], requested[r]))
        BY <3>1, <4>1, FirstIsOne
      <4>3. fault'[r] = fault[r] /\ requested'[r] = requested[r]
        BY <1>0, <3>1 DEF TypeOK, SupplyTypes
      <4>4. PICK v : v = Forced(fault[r], requested[r])
        OBVIOUS
      <4>5. Forced(fault'[r], requested'[r]) = v
        BY <4>3, <4>4
      <4>6. Leaves(r, 1, v)'
        BY <3>3, <4>2, <4>4
      <4> QED BY <3>2, <4>5, <4>6
    <3>6. ~overflow' => phase' = "resetOff"
      BY <2>4 DEF ResetLoad
    <3> QED BY <3>1, <3>4, <3>5, <3>6 DEF Commanded
  <2> QED BY <2>1, <2>2, <2>3, <2>4
<1> QED BY <1>0, <1>3, <1>4, <1>5 DEF IInv

(***************************************************************************)
(* One iteration of director_commit_power: what is left of the queue still *)
(* leaves every rail in the same state.                                    *)
(***************************************************************************)
LEMMA LeavesApplied ==
  ASSUME TypeOK, PhaseLaw, ApplyTransition, NEW s \in Switches, NEW v,
         NEW k \in Nat, k = at, Leaves(s, k, v)
  PROVE  Leaves(s, k + 1, v)'
<1> DEFINE rest == Later(s, k)
           t == queue[k]
<1>1. /\ k \in 1..Len(queue) /\ Len(queue) \in Nat /\ queue' = queue /\ at' = k + 1
      /\ effective' = IF t.reset THEN effective ELSE [effective EXCEPT ![t.switch] = t.on]
      /\ effective \in [Switches -> BOOLEAN] /\ queue \in Seq(Transitions)
  BY DEF ApplyTransition, PhaseLaw, TypeOK, DirectorTypes, SupplyTypes, Transitions
<1>2. t \in Transitions
  BY <1>1
<1>3. PICK after : after = rest \ {k} /\ after \subseteq (k + 1)..Len(queue)
  <2>1. rest \ {k} \subseteq (k + 1)..Len(queue)
    BY <1>1 DEF Later
  <2> QED BY <2>1
<1>4. {j \in (k + 1)..Len(queue') : queue'[j].switch = s /\ ~queue'[j].reset} = after
  BY <1>1, <1>3 DEF Later
<1>5. CASE k \in rest
  <2>1. t.switch = s /\ ~t.reset
    BY <1>5 DEF Later
  <2>2. effective'[s] = t.on
    BY <1>1, <2>1
  <2>3. PICK j \in rest : (\A i \in rest : i <= j) /\ queue[j].on = v
    BY <1>5 DEF Leaves
  <2>4. CASE j = k
    <3>1. after = {}
      <4>1. \A i \in after : i <= k /\ i >= k + 1 /\ i \in Nat
        BY <1>1, <1>3, <2>3, <2>4
      <4> QED BY <1>1, <4>1
    <3> QED BY <1>1, <1>4, <2>2, <2>3, <2>4, <3>1 DEF Leaves, Later
  <2>5. CASE j # k
    <3>1. j \in after /\ \A i \in after : i <= j
      BY <1>3, <2>3, <2>5
    <3> QED BY <1>1, <1>4, <2>3, <3>1 DEF Leaves, Later
  <2> QED BY <2>4, <2>5
<1>6. CASE k \notin rest
  <2>1. after = rest
    BY <1>3, <1>6
  <2>2. t.switch # s \/ t.reset
    BY <1>1, <1>6 DEF Later
  <2>3. effective'[s] = effective[s]
    BY <1>1, <2>2
  <2>4. CASE rest = {} /\ effective[s] = v
    BY <1>1, <1>4, <2>1, <2>3, <2>4 DEF Leaves, Later
  <2>5. ASSUME NEW j \in rest, \A i \in rest : i <= j, queue[j].on = v
        PROVE  Leaves(s, k + 1, v)'
    BY <1>1, <1>4, <2>1, <2>5 DEF Leaves, Later
  <2> QED BY <2>4, <2>5 DEF Leaves
<1> QED BY <1>5, <1>6

\* The transitions, ACTUATE and the end of the tick keep the invariant.
LEMMA PowerLaws ==
  ASSUME IInv, StartPower \/ ApplyTransition \/ EndPower \/ Actuate \/ ActuateFails \/ NextTick
  PROVE  IInv'
<1>0. TypeOK /\ TypeOK' /\ SupplyLaw /\ PhaseLaw
  BY PowerTypes DEF IInv
<1>1. CASE StartPower \/ Actuate \/ ActuateFails \/ NextTick
  <2>1. /\ phase \in {"power", "actuate", "committed"} /\ UNCHANGED supply
        /\ phase' \in {"dead", "applying", "committed", "execute", "done"}
        /\ phase' = "applying" => at' = 1
    BY <1>1 DEF StartPower, Actuate, ActuateFails, NextTick
  <2>2. dev' = dev
    BY <1>0, <1>1 DEF StartPower, Actuate, ActuateFails, NextTick, Configured, TypeOK, LoadTypes
  <2>3. Settled' /\ Commanded'
    BY <2>1, Unmoved DEF First
  <2>4. SupplyLaw'
    BY <1>0, <2>1, <2>2 DEF supply, SupplyLaw
  <2>5. overflow' => phase' = "dead"
    BY <1>0, <1>1 DEF StartPower, Actuate, ActuateFails, NextTick, supply, PhaseLaw
  <2>6. Applied' => queue' = <<>>
    BY <1>0, <1>1 DEF StartPower, Actuate, ActuateFails, NextTick, supply, PhaseLaw, Applied
  <2>7. PhaseLaw'
    BY <2>1, <2>5, <2>6 DEF PhaseLaw
  <2> QED BY <1>0, <2>3, <2>4, <2>7 DEF IInv
<1>2. CASE ApplyTransition
  <2>1. PICK k \in Nat : k = at
    BY <1>0 DEF TypeOK, DirectorTypes
  <2>2. /\ phase = "applying" /\ phase' = "applying" /\ at' = k + 1 /\ First = k
        /\ First' = k + 1 /\ ~overflow /\ ~overflow' /\ UNCHANGED <<requested, fault>>
    BY <1>0, <1>2, <2>1 DEF ApplyTransition, First, PhaseLaw
  <2>3. \A s \in Switches : \A v : Leaves(s, k, v) => Leaves(s, k + 1, v)'
    BY <1>0, <1>2, <2>1, LeavesApplied
  <2>4. Settled'
    BY <2>2, <2>3 DEF IInv, Settled
  <2>5. ASSUME NEW s \in Switches
        PROVE  Leaves(s, First, Forced(fault[s], requested[s]))'
    <3>1. PICK v : v = Forced(fault[s], requested[s])
      OBVIOUS
    <3>2. Leaves(s, k, v)
      BY <2>2, <3>1 DEF IInv, Commanded
    <3>3. Leaves(s, k + 1, v)'
      BY <2>3, <3>2
    <3>4. Forced(fault'[s], requested'[s]) = v
      BY <2>2, <3>1
    <3> QED BY <2>2, <3>3, <3>4
  <2>6. Commanded'
    BY <2>5 DEF Commanded
  <2>7. SupplyLaw'
    <3> SUFFICES ASSUME NEW l \in Loads
                 PROVE  dev'[l].supply = effective'[Rail[l]]
      BY DEF SupplyLaw
    <3>1. PICK t : t = queue[at]
      OBVIOUS
    <3>2. /\ dev'[l] = IF l \notin {j \in Loads : Rail[j] = t.switch} THEN dev[l]
                       ELSE IF t.reset THEN PowerReset(dev[l]) ELSE PowerSet(dev[l], t.on)
          /\ effective' = IF t.reset THEN effective ELSE [effective EXCEPT ![t.switch] = t.on]
      BY <1>2, <3>1 DEF ApplyTransition
    <3>3. /\ effective \in [Switches -> BOOLEAN] /\ Rail[l] \in Switches
          /\ dev[l] \in LoadRecords /\ dev[l].supply = effective[Rail[l]]
      BY <1>0, LoadsAssumption DEF TypeOK, SupplyTypes, LoadTypes, SupplyLaw, LoadRecords
    <3>4. CASE Rail[l] # t.switch
      BY <3>2, <3>3, <3>4
    <3>5. CASE Rail[l] = t.switch /\ t.reset
      <4>1. dev'[l] = PowerReset(dev[l]) /\ effective' = effective
        BY <3>2, <3>5
      <4>2. PowerReset(dev[l]).supply = dev[l].supply
        BY <3>3 DEF PowerReset, LoadRecords
      <4> QED BY <3>3, <4>1, <4>2
    <3>6. CASE Rail[l] = t.switch /\ ~t.reset
      <4>1. dev'[l] = PowerSet(dev[l], t.on) /\ effective'[Rail[l]] = t.on
        BY <3>2, <3>3, <3>6
      <4>2. PowerSet(dev[l], t.on).supply = t.on
        BY DEF PowerSet
      <4> QED BY <4>1, <4>2
    <3> QED BY <3>4, <3>5, <3>6
  <2>8. PhaseLaw'
    BY <2>2 DEF PhaseLaw, Applied
  <2> QED BY <1>0, <2>4, <2>6, <2>7, <2>8 DEF IInv
<1>3. CASE EndPower
  <2>1. PICK k \in Nat : k = at
    BY <1>0 DEF TypeOK, DirectorTypes
  <2>2. /\ phase = "applying" /\ phase' = "actuate" /\ queue' = <<>> /\ k > Len(queue)
        /\ First = k /\ First' = 1 /\ ~overflow /\ ~overflow'
        /\ UNCHANGED <<requested, fault, effective, dev>>
    BY <1>0, <1>3, <2>1 DEF EndPower, First, PhaseLaw
  <2>3. \A s \in Switches : Later(s, k) = {} /\ Later(s, 1)' = {}
    <3>1. Len(queue) \in Nat
      BY <1>0 DEF TypeOK, SupplyTypes
    <3>2. k..Len(queue) = {} /\ 1..Len(queue') = {}
      BY <2>2, <3>1
    <3> QED BY <3>2 DEF Later
  <2>4. \A s \in Switches : \A v : Leaves(s, k, v) => Leaves(s, 1, v)'
    BY <2>2, <2>3 DEF Leaves
  <2>5. Settled'
    BY <2>2, <2>4 DEF IInv, Settled
  <2>6. ASSUME NEW s \in Switches
        PROVE  Leaves(s, First, Forced(fault[s], requested[s]))'
    <3>1. PICK v : v = Forced(fault[s], requested[s])
      OBVIOUS
    <3>2. Leaves(s, k, v)
      BY <2>2, <3>1 DEF IInv, Commanded
    <3>3. Leaves(s, 1, v)'
      BY <2>4, <3>2
    <3>4. Forced(fault'[s], requested'[s]) = v
      BY <2>2, <3>1
    <3> QED BY <2>2, <3>3, <3>4
  <2>7. Commanded'
    BY <2>6 DEF Commanded
  <2>8. SupplyLaw' /\ PhaseLaw'
    BY <1>0, <2>2 DEF SupplyLaw, PhaseLaw, Applied
  <2> QED BY <1>0, <2>5, <2>7, <2>8 DEF IInv
<1> QED BY <1>1, <1>2, <1>3

-----------------------------------------------------------------------------
LEMMA Initial == Init => IInv
<1> SUFFICES ASSUME Init
             PROVE  IInv
  OBVIOUS
<1>1. TypeOK
  <2>1. DirectorTypes
    <3>1. 0 \in 0..MaxTicks /\ 0 \in 0..MaxRequests
      BY BoundsAssumption
    <3> QED BY <3>1 DEF Init, DirectorTypes, Phases
  <2>2. SupplyTypes
    <3>1. queue \in Seq(Transitions) /\ Len(queue) <= MaxTransitions
      BY BoundsAssumption DEF Init
    <3>2. requested \in [Switches -> BOOLEAN] /\ effective \in [Switches -> BOOLEAN]
      BY SwitchesAssumption DEF Init
    <3>3. fault \in [Switches -> 0..2] /\ failing \in [left : 0..1, which : {"any", "on"}]
      BY DEF Init
    <3>4. overflow \in BOOLEAN
      BY DEF Init
    <3> QED BY <3>1, <3>2, <3>3, <3>4 DEF SupplyTypes, Transitions
  <2>3. HistoryTypes
    BY BoundsAssumption, SwitchesAssumption DEF Init, HistoryTypes
  <2>4. dev \in [Loads -> LoadRecords]
    <3> DEFINE New(l) == [supply |-> Startup[Rail[l]], memory |-> "clear",
                          readyAt |-> IF Startup[Rail[l]] THEN BootDelay ELSE 0,
                          cycles |-> IF Startup[Rail[l]] THEN 1 ELSE 0]
    <3>1. ASSUME NEW l \in Loads
          PROVE  New(l) \in LoadRecords
      <4>1. PICK on \in BOOLEAN : on = Startup[Rail[l]]
        BY LoadsAssumption, SwitchesAssumption
      <4>2. PICK r \in Nat : r = IF Startup[Rail[l]] THEN BootDelay ELSE 0
        BY <4>1, BoundsAssumption
      <4>3. PICK c \in Nat : c = IF Startup[Rail[l]] THEN 1 ELSE 0
        BY <4>1
      <4>4. New(l) = [supply |-> on, memory |-> "clear", readyAt |-> r, cycles |-> c]
        BY <4>1, <4>2, <4>3
      <4> QED BY <4>4 DEF LoadRecords
    <3>2. dev = [l \in Loads |-> New(l)]
      BY DEF Init
    <3> HIDE DEF New
    <3> QED BY <3>1, <3>2
  <2>5. adcs \in [mode : {0, 1}, armed : BOOLEAN, pending : BOOLEAN]
    <3>1. PICK p \in BOOLEAN : p = ("adcs" \in Loads /\ Startup[Rail["adcs"]])
      BY LoadsAssumption, SwitchesAssumption
    <3>2. adcs = [mode |-> 0, armed |-> FALSE, pending |-> p]
      BY <3>1 DEF Init
    <3> QED BY <3>2
  <2>6. LoadTypes
    BY <2>4, <2>5 DEF Init, LoadTypes, LoadRecords
  <2> QED BY <2>1, <2>2, <2>3, <2>6 DEF TypeOK
<1>2. First = 1 /\ \A s \in Switches : Later(s, 1) = {}
  <2>1. 1..Len(queue) = {}
    BY DEF Init
  <2> QED BY <2>1 DEF Init, First, Later
<1>3. \A s \in Switches : \A v : effective[s] = v => Leaves(s, 1, v)
  BY <1>2 DEF Leaves
<1>4. Settled
  BY <1>1, <1>2, <1>3 DEF Settled, TypeOK, SupplyTypes
<1>5. ASSUME NEW s \in Switches
      PROVE  effective[s] = Forced(fault[s], requested[s])
  <2>1. fault[s] = 0 /\ effective[s] = requested[s] /\ requested[s] \in BOOLEAN
    BY SwitchesAssumption DEF Init
  <2> QED BY <2>1 DEF Forced
<1>6. Commanded
  BY <1>2, <1>3, <1>5 DEF Commanded
<1>7. SupplyLaw /\ PhaseLaw
  BY DEF Init, SupplyLaw, PhaseLaw, Applied
<1> QED BY <1>1, <1>4, <1>6, <1>7 DEF IInv

LEMMA Stutter ==
  ASSUME IInv, UNCHANGED vars
  PROVE  IInv'
<1>1. UNCHANGED <<phase, at, tick, asked, failed, requested, effective, fault, queue,
                  overflow, failing, dev, adcs, out, level, rises, touched, onAt>>
  BY DEF vars, supply, history
<1>2. TypeOK'
  BY <1>1 DEF IInv, TypeOK, DirectorTypes, SupplyTypes, LoadTypes, HistoryTypes
<1>3. Settled' /\ Commanded'
  BY <1>1 DEF IInv, Settled, Commanded, Leaves, Later, First, Forced
<1>4. SupplyLaw' /\ PhaseLaw'
  BY <1>1 DEF IInv, SupplyLaw, PhaseLaw, Applied
<1> QED BY <1>2, <1>3, <1>4 DEF IInv

LEMMA Inductive == IInv /\ [Next]_vars => IInv'
<1> SUFFICES ASSUME IInv, Next
             PROVE  IInv'
  BY Stutter
<1>1. CASE \/ \E r \in {"hk", "on", "off"} : RequestFails(r)
           \/ \E r \in {"on", "off"}, s \in Switches : SwitchRequest(r, s)
           \/ \E l \in Loads : DeviceRequest(l)
           \/ \E m \in {0, 1} : SetMode(m)
           \/ EndExecute
  BY <1>1, ExecuteLaws
<1>2. CASE \/ NoBackdoor \/ BackdoorDemo
           \/ \E s \in Switches, on \in BOOLEAN : BackdoorSwitch(s, on)
           \/ \E s \in Switches, f \in 0..2 : BackdoorFault(s, f)
           \/ \E r \in {"any", "on"} : BackdoorFail(r)
           \/ \E p \in {"clear", "reset"} : BackdoorLoop(p)
  BY <1>2, BackdoorLaws
<1>3. CASE ClearFault \/ ResetLoad \/ ResetOff \/ ResetOn
  BY <1>3, LoopLaws
<1>4. CASE StartPower \/ ApplyTransition \/ EndPower \/ Actuate \/ ActuateFails \/ NextTick
  BY <1>4, PowerLaws
<1> QED BY <1>1, <1>2, <1>3, <1>4 DEF Next

(***************************************************************************)
(* For every number of rails, every assignment of loads to them and every  *)
(* queue size, all variables keep their types; the queue its bound.        *)
(***************************************************************************)
THEOREM TypeCorrect == Spec => []TypeOK
<1>1. IInv => TypeOK
  BY DEF IInv
<1> QED BY <1>1, Initial, Inductive, PTL DEF Spec

(***************************************************************************)
(* director_commit_power leaves every rail in the state that its last      *)
(* request and its fault call for, and every load in the state of its      *)
(* rail, however many transitions the tick had queued.                     *)
(***************************************************************************)
THEOREM RailsFollow == Spec => []RailFollowsRequest
<1>1. IInv => RailFollowsRequest
  <2> SUFFICES ASSUME IInv, Applied
               PROVE  /\ \A s \in Switches : effective[s] = Forced(fault[s], requested[s])
                      /\ \A l \in Loads : dev[l].supply = effective[Rail[l]]
    BY DEF RailFollowsRequest
  <2>1. queue = <<>> /\ ~overflow /\ First = 1 /\ phase # "resetOff"
    BY DEF IInv, PhaseLaw, Applied, First
  <2>2. \A s \in Switches : Later(s, 1) = {}
    <3>1. 1..Len(queue) = {}
      BY <2>1
    <3> QED BY <3>1 DEF Later
  <2>3. \A s \in Switches : Leaves(s, 1, Forced(fault[s], requested[s]))
    BY <2>1 DEF IInv, Commanded
  <2>4. \A s \in Switches : effective[s] = Forced(fault[s], requested[s])
    BY <2>2, <2>3 DEF Leaves
  <2> QED BY <2>4 DEF IInv, SupplyLaw
<1> QED BY <1>1, Initial, Inductive, PTL DEF Spec

(***************************************************************************)
(* Once the queue has overflowed no rail, load or actuator is changed any  *)
(* more: neither by the requests and datagrams after it nor by a COMMIT.   *)
(***************************************************************************)
THEOREM OverflowSafe == Spec => OverflowNeverApplied
<1>1. IInv /\ [Next]_vars /\ overflow => /\ UNCHANGED <<effective, out>>
                                         /\ \A l \in Loads : dev'[l].supply = dev[l].supply
  <2> SUFFICES ASSUME IInv, overflow, Next
               PROVE  /\ UNCHANGED <<effective, out>>
                      /\ \A l \in Loads : dev'[l].supply = dev[l].supply
    BY DEF vars, supply
  <2>1. /\ phase \in {"execute", "reset", "resetOff", "resetOn", "power", "dead"}
        /\ dev \in [Loads -> LoadRecords]
    BY DEF IInv, PhaseLaw, TypeOK, LoadTypes, LoadRecords
  <2>2. UNCHANGED <<effective, out>>
    BY <2>1 DEF Next, RequestFails, SwitchRequest, DeviceRequest, SetMode, EndExecute, Serve,
       NoBackdoor, BackdoorDemo, BackdoorSwitch, BackdoorFault, BackdoorFail, BackdoorLoop,
       Backdoor, ClearFault, ResetLoad, ResetOff, ResetOn, Looping, QueueSwitch, StartPower,
       ApplyTransition, EndPower, Actuate, ActuateFails, NextTick, supply
  <2>3. dev' = dev \/ \E k \in Loads : dev' = [dev EXCEPT ![k].memory = "command"]
    BY <2>1 DEF Next, RequestFails, SwitchRequest, DeviceRequest, SetMode, EndExecute, Serve,
       NoBackdoor, BackdoorDemo, BackdoorSwitch, BackdoorFault, BackdoorFail, BackdoorLoop,
       Backdoor, ClearFault, ResetLoad, ResetOff, ResetOn, Looping, StartPower,
       ApplyTransition, EndPower, Actuate, ActuateFails, NextTick
  <2>4. \A l \in Loads : dev'[l].supply = dev[l].supply
    BY <2>1, <2>3 DEF LoadRecords
  <2> QED BY <2>2, <2>4
<1> QED BY <1>1, Initial, Inductive, PTL DEF Spec, OverflowNeverApplied

-----------------------------------------------------------------------------
(***************************************************************************)
(* The strengthening.  What the history says of the rails is what the      *)
(* queue will do, as long as it has not overflowed (LevelLaw, QueueLaw).   *)
(* A load whose supply or deadline is not yet that of its rail has a       *)
(* transition of the other state ahead of it (BootLaw), memory and zeros   *)
(* go with the supply (MemoryLaw, ZeroLaw), and each transition that is    *)
(* still to be applied is a real edge (AlternationLaw), so that the power  *)
(* cycles to come can be counted in the queue (CycleLaw).                  *)
(***************************************************************************)
LevelLaw == ~overflow => \A s \in Switches : Leaves(s, First, level[s])

QueueLaw ==
    ~overflow => \A k \in 1..Len(queue) :
        /\ queue[k].switch \in touched
        /\ queue[k].on /\ ~queue[k].reset => onAt[queue[k].switch] = tick

Ahead(l, k) == queue[k].switch = Rail[l] /\ ~queue[k].reset /\ queue[k].on # dev[l].supply

BootLaw ==
    ~overflow => \A l \in Loads :
        \/ \E k \in First..Len(queue) : Ahead(l, k)
        \/ /\ level[Rail[l]] = dev[l].supply
           /\ dev[l].supply => dev[l].readyAt = onAt[Rail[l]] + BootDelay

MemoryLaw ==
    \A l \in Loads : dev[l].memory = "command" => dev[l].supply /\ tick >= dev[l].readyAt

ZeroLaw ==
    "adcs" \in Loads =>
        /\ out = "control" /\ ~adcs.pending => adcs.mode # 0 /\ Ready("adcs")
        /\ phase = "committed" => ~adcs.pending

\* The transitions of a rail that are still to be applied change it one by one.
Alternates(s, k) ==
    /\ \A j \in Later(s, k) : (\A i \in Later(s, k) : j <= i) => queue[j].on # effective[s]
    /\ \A i, j \in Later(s, k) :
          i < j /\ (\A m \in Later(s, k) : m <= i \/ j <= m) => queue[i].on # queue[j].on

AlternationLaw == ~overflow => \A s \in Switches : Alternates(s, First)

\* A load is still to go through the power cycles that are in the queue.
Rising(s, k) == {j \in Later(s, k) : queue[j].on}

CycleLaw ==
    ~overflow => \A l \in Loads :
        dev[l].cycles + Cardinality(Rising(Rail[l], First)) = rises[Rail[l]]

HInv == /\ IInv /\ LevelLaw /\ QueueLaw /\ BootLaw /\ MemoryLaw /\ ZeroLaw
        /\ AlternationLaw /\ CycleLaw

-----------------------------------------------------------------------------
LEMMA Kinds ==
  ASSUME TypeOK
  PROVE  /\ queue \in Seq(Transitions) /\ Len(queue) \in Nat /\ tick \in Nat
         /\ dev \in [Loads -> LoadRecords] /\ Rail \in [Loads -> Switches] /\ BootDelay \in Nat
         /\ effective \in [Switches -> BOOLEAN] /\ level \in [Switches -> BOOLEAN]
         /\ onAt \in [Switches -> 0..MaxTicks] /\ touched \subseteq Switches
         /\ adcs \in [mode : {0, 1}, armed : BOOLEAN, pending : BOOLEAN]
         /\ rises \in [Switches -> Nat]
BY BoundsAssumption, LoadsAssumption
   DEF TypeOK, DirectorTypes, SupplyTypes, LoadTypes, HistoryTypes, Transitions, LoadRecords

\* What is still to be applied is a finite set of places of the queue.
LEMMA LaterFinite ==
  ASSUME TypeOK, NEW s, NEW k \in Nat
  PROVE  /\ Later(s, k) \subseteq k..Len(queue)
         /\ IsFiniteSet(Rising(s, k)) /\ Cardinality(Rising(s, k)) \in Nat
<1>1. Later(s, k) \subseteq k..Len(queue) /\ Rising(s, k) \subseteq k..Len(queue)
  BY DEF Later, Rising
<1>2. IsFiniteSet(k..Len(queue))
  BY Kinds, FS_Interval
<1> QED  BY <1>1, <1>2, FS_Subset, FS_CardinalityType

\* A transition added at the end is the last of its own rail, if it moves one.
LEMMA LaterAppended ==
  ASSUME TypeOK, NEW t \in Transitions, queue' = Append(queue, t), NEW s,
         NEW n \in Nat, n = Len(queue)
  PROVE  /\ Later(s, 1)' = Later(s, 1) \cup (IF t.switch = s /\ ~t.reset THEN {n + 1} ELSE {})
         /\ Later(s, 1) \subseteq 1..n
         /\ Len(queue') = n + 1 /\ queue'[n + 1] = t /\ \A j \in 1..n : queue'[j] = queue[j]
<1>1. queue \in Seq(Transitions)
  BY Kinds
<1>2. Len(queue') = n + 1 /\ queue'[n + 1] = t /\ \A j \in 1..n : queue'[j] = queue[j]
  BY <1>1
<1>3. 1..Len(queue') = 1..n \cup {n + 1}
  BY <1>2
<1> QED  BY <1>2, <1>3 DEF Later

\* It continues the alternation of its rail when it changes what the queue leaves.
LEMMA AlternatesAppended ==
  ASSUME TypeOK, NEW t \in Transitions, queue' = Append(queue, t), UNCHANGED effective,
         NEW s, NEW v, Leaves(s, 1, v), Alternates(s, 1),
         t.switch = s /\ ~t.reset => t.on # v
  PROVE  Alternates(s, 1)'
<1>1. PICK n \in Nat : n = Len(queue)
  BY Kinds
<1>2. PICK old : old = Later(s, 1)
  OBVIOUS
<1>3. /\ Later(s, 1)' = old \cup (IF t.switch = s /\ ~t.reset THEN {n + 1} ELSE {})
      /\ old \subseteq 1..n
      /\ queue'[n + 1] = t /\ \A j \in 1..n : queue'[j] = queue[j]
  BY <1>1, <1>2, LaterAppended
<1>4. CASE ~(t.switch = s /\ ~t.reset)
  <2>1. Later(s, 1)' = old /\ \A j \in old : queue'[j] = queue[j]
    BY <1>3, <1>4
  <2>2. ASSUME NEW j \in old, \A i \in old : j <= i
        PROVE  queue'[j].on # effective'[s]
    BY <1>2, <2>1, <2>2 DEF Alternates
  <2>3. ASSUME NEW i \in old, NEW j \in old, i < j, \A m \in old : m <= i \/ j <= m
        PROVE  queue'[i].on # queue'[j].on
    BY <1>2, <2>1, <2>3 DEF Alternates
  <2> QED  BY <2>1, <2>2, <2>3 DEF Alternates
<1>5. CASE t.switch = s /\ ~t.reset
  <2>1. Later(s, 1)' = old \cup {n + 1} /\ t.on # v
    BY <1>3, <1>5
  <2>2. \A j \in old : j <= n /\ n + 1 > j /\ queue'[j] = queue[j] /\ j \in Nat
    BY <1>1, <1>3
  <2>3. ASSUME NEW j \in old \cup {n + 1}, \A i \in old \cup {n + 1} : j <= i
        PROVE  queue'[j].on # effective[s]
    <3>1. CASE j \in old
      BY <1>2, <2>2, <2>3, <3>1 DEF Alternates
    <3>2. CASE j = n + 1
      <4>1. old = {}
        BY <2>2, <2>3, <3>2
      <4> QED  BY <1>2, <1>3, <2>1, <3>2, <4>1 DEF Leaves
    <3> QED  BY <3>1, <3>2
  <2>4. ASSUME NEW i \in old \cup {n + 1}, NEW j \in old \cup {n + 1}, i < j,
               \A m \in old \cup {n + 1} : m <= i \/ j <= m
        PROVE  queue'[i].on # queue'[j].on
    <3>1. CASE j \in old
      <4>1. i \in old
        BY <1>1, <2>2, <2>4, <3>1
      <4>2. \A m \in old : m <= i \/ j <= m
        BY <2>4
      <4>3. queue[i].on # queue[j].on
        BY <1>2, <2>4, <3>1, <4>1, <4>2 DEF Alternates
      <4> QED  BY <2>2, <3>1, <4>1, <4>3
    <3>2. CASE j = n + 1
      <4>1. i \in old /\ \A m \in old : m <= i
        BY <1>1, <2>2, <2>4, <3>2
      <4>2. PICK e \in old : (\A m \in old : m <= e) /\ queue[e].on = v
        BY <1>2, <4>1 DEF Leaves
      <4>3. e = i
        BY <2>2, <4>1, <4>2
      <4>4. queue'[i].on = v /\ queue'[j].on = t.on
        BY <1>3, <2>2, <3>2, <4>1, <4>2, <4>3
      <4> QED  BY <2>1, <4>4
    <3> QED  BY <3>1, <3>2
  <2> QED  BY <2>1, <2>3, <2>4 DEF Alternates
<1> QED  BY <1>4, <1>5

\* A step that moves no rail, queues nothing and leaves supplies and deadlines.
LEMMA QuietLaws ==
  ASSUME HInv, UNCHANGED <<supply, history>>, First' = First, tick' = tick \/ queue = <<>>,
         \A l \in Loads : /\ dev'[l].supply = dev[l].supply /\ dev'[l].readyAt = dev[l].readyAt
                          /\ dev'[l].cycles = dev[l].cycles
  PROVE  LevelLaw' /\ QueueLaw' /\ BootLaw' /\ AlternationLaw' /\ CycleLaw'
<1>1. UNCHANGED <<queue, effective, overflow, level, touched, onAt, rises>>
  BY DEF supply, history
<1>2. LevelLaw'
  BY <1>1, LeavesKept DEF HInv, LevelLaw
<1>3. QueueLaw'
  BY <1>1 DEF HInv, QueueLaw
<1>4. BootLaw'
  BY <1>1 DEF HInv, BootLaw, Ahead
<1>5. AlternationLaw' /\ CycleLaw'
  <2>1. \A s, k : Later(s, k)' = Later(s, k) /\ Rising(s, k)' = Rising(s, k)
    BY <1>1 DEF Later, Rising
  <2>2. \A s, k : Alternates(s, k) => Alternates(s, k)'
    BY <1>1, <2>1 DEF Alternates
  <2> QED  BY <1>1, <2>1, <2>2 DEF HInv, AlternationLaw, CycleLaw
<1> QED  BY <1>2, <1>3, <1>4, <1>5

\* queue_switch queues exactly what the history counts as a change of the rail.
LEMMA SwitchLaws ==
  ASSUME HInv, NEW s \in Switches, NEW on \in BOOLEAN, QueueSwitch(s, on),
         fault' \in [Switches -> 0..2], First = 1, First' = 1, UNCHANGED <<dev, tick>>
  PROVE  LevelLaw' /\ QueueLaw' /\ BootLaw' /\ AlternationLaw' /\ CycleLaw'
<1> SUFFICES ASSUME ~overflow'
             PROVE  LevelLaw' /\ QueueLaw' /\ BootLaw' /\ AlternationLaw' /\ CycleLaw'
  BY DEF LevelLaw, QueueLaw, BootLaw, AlternationLaw, CycleLaw
<1>1. PICK want \in BOOLEAN : want = Forced(fault'[s], on)
  BY DEF Forced
<1>2. TypeOK /\ ~overflow /\ \A r \in Switches : Leaves(r, 1, level[r])
  BY DEF QueueSwitch, HInv, IInv, LevelLaw
<1>3. Scheduled(s) = level[s]
  BY <1>2, LeavesScheduled
<1>4. Drive(s, want) /\ UNCHANGED effective
  BY <1>1 DEF QueueSwitch
<1>5. CASE want = level[s] /\ UNCHANGED queue
  <2>1. UNCHANGED <<level, touched, onAt, rises>>
    BY <1>2, <1>4, <1>5, Kinds DEF Drive
  <2>2. LevelLaw'
    BY <1>2, <1>4, <1>5, <2>1, LeavesKept DEF LevelLaw
  <2>3. QueueLaw'
    BY <1>2, <1>5, <2>1 DEF HInv, QueueLaw
  <2>4. BootLaw'
    BY <1>2, <1>5, <2>1 DEF HInv, BootLaw, Ahead
  <2>5. AlternationLaw' /\ CycleLaw'
    <3>1. \A r, k : Later(r, k)' = Later(r, k) /\ Rising(r, k)' = Rising(r, k)
      BY <1>5 DEF Later, Rising
    <3>2. \A r, k : Alternates(r, k) => Alternates(r, k)'
      BY <1>4, <1>5, <3>1 DEF Alternates
    <3> QED  BY <1>2, <2>1, <3>1, <3>2 DEF HInv, AlternationLaw, CycleLaw
  <2> QED  BY <2>2, <2>3, <2>4, <2>5
<1>6. CASE want # level[s] /\ queue' = Append(queue, Transition(s, want))
  <2> DEFINE t == Transition(s, want)
             n == Len(queue)
  <2>1. t \in Transitions /\ t.switch = s /\ t.on = want /\ ~t.reset
    BY DEF Transition, Transitions
  <2>2. /\ n \in Nat /\ Len(queue') = n + 1
        /\ queue'[n + 1] = t /\ \A k \in 1..n : queue'[k] = queue[k]
    BY <1>2, <1>6, <2>1, Kinds
  <2>3. /\ level' = [level EXCEPT ![s] = want] /\ touched' = touched \cup {s}
        /\ onAt' = IF want THEN [onAt EXCEPT ![s] = tick] ELSE onAt
    BY <1>2, <1>4, <1>6, Kinds DEF Drive
  <2>4. /\ level' \in [Switches -> BOOLEAN] /\ level'[s] = want
        /\ \A r \in Switches \ {s} : level'[r] = level[r]
    BY <1>2, <2>3, Kinds
  <2>5. \A r \in Switches : onAt'[r] = onAt[r] \/ (r = s /\ want /\ onAt'[r] = tick)
    BY <1>2, <2>3, Kinds
  <2> HIDE DEF t, n
  <2>6. LevelLaw'
    <3> SUFFICES ASSUME NEW r \in Switches PROVE Leaves(r, 1, level[r])'
      BY DEF LevelLaw
    <3>1. queue' = Append(queue, t)
      BY <1>6 DEF t
    <3>2. CASE r = s
      <4>1. Leaves(s, 1, want)' /\ level'[r] = want
        BY <1>2, <1>4, <2>1, <2>4, <3>1, <3>2, LeavesAppended
      <4> QED  BY <3>2, <4>1
    <3>3. CASE r # s
      <4>1. PICK v : v = level[r]
        OBVIOUS
      <4>2. Leaves(r, 1, v) /\ level'[r] = v
        BY <1>2, <2>4, <3>3, <4>1
      <4>3. Leaves(r, 1, v)'
        BY <1>2, <1>4, <2>1, <3>1, <3>3, <4>2, LeavesAppended
      <4> QED  BY <4>2, <4>3
    <3> QED  BY <3>2, <3>3
  <2>7. QueueLaw'
    <3> SUFFICES ASSUME NEW k \in 1..(n + 1)
                 PROVE  /\ queue'[k].switch \in touched'
                        /\ queue'[k].on /\ ~queue'[k].reset => onAt'[queue'[k].switch] = tick
      BY <2>2 DEF QueueLaw
    <3>1. CASE k = n + 1
      <4>1. want => onAt'[s] = tick
        BY <1>2, <2>3, Kinds
      <4> QED  BY <2>1, <2>2, <2>3, <3>1, <4>1
    <3>2. CASE k \in 1..n
      <4>0. queue[k] \in Transitions
        BY <1>2, <3>2, Kinds DEF n
      <4>1. queue[k].switch \in Switches
        BY <4>0 DEF Transitions
      <4> QED  BY <1>2, <2>2, <2>3, <2>5, <3>2, <4>1 DEF HInv, QueueLaw, n
    <3> QED  BY <2>2, <3>1, <3>2
  <2>8. BootLaw'
    <3> SUFFICES ASSUME NEW l \in Loads
                 PROVE  \/ \E k \in 1..(n + 1) : Ahead(l, k)'
                        \/ /\ level'[Rail[l]] = dev[l].supply
                           /\ dev[l].supply => dev[l].readyAt = onAt'[Rail[l]] + BootDelay
      BY <2>2 DEF BootLaw
    <3>1. Rail[l] \in Switches
      BY <1>2, Kinds
    <3>2. CASE \E k \in 1..n : Ahead(l, k)
      BY <2>2, <3>2 DEF Ahead
    <3>3. CASE /\ level[Rail[l]] = dev[l].supply
               /\ dev[l].supply => dev[l].readyAt = onAt[Rail[l]] + BootDelay
      <4>1. CASE Rail[l] = s
        <5>0. queue'[n + 1].on # dev'[l].supply
          BY <1>6, <2>1, <2>2, <3>3, <4>1
        <5>k. PICK k \in 1..(n + 1) : k = n + 1
          BY <2>2
        <5>1. Ahead(l, k)'
          BY <2>1, <2>2, <4>1, <5>0, <5>k DEF Ahead
        <5> QED  BY <2>2, <5>1
      <4>2. CASE Rail[l] # s
        BY <2>4, <2>5, <3>1, <3>3, <4>2
      <4> QED  BY <4>1, <4>2
    <3> QED  BY <1>2, <3>2, <3>3 DEF HInv, BootLaw, n
  <2>9. AlternationLaw'
    <3> SUFFICES ASSUME NEW r \in Switches
                 PROVE  Alternates(r, 1)'
      BY DEF AlternationLaw
    <3>1. PICK v : v = level[r]
      OBVIOUS
    <3>2. Leaves(r, 1, v) /\ Alternates(r, 1)
      BY <1>2, <3>1 DEF HInv, AlternationLaw
    <3>3. t.switch = r /\ ~t.reset => t.on # v
      BY <1>6, <2>1, <3>1
    <3>4. queue' = Append(queue, t)
      BY <1>6 DEF t
    <3> QED  BY <1>2, <1>4, <2>1, <3>2, <3>3, <3>4, AlternatesAppended
  <2>10. CycleLaw'
    <3> SUFFICES ASSUME NEW l \in Loads
                 PROVE  dev[l].cycles + Cardinality(Rising(Rail[l], 1)') = rises'[Rail[l]]
      BY DEF CycleLaw
    <3>1. PICK r \in Switches : r = Rail[l]
      BY <1>2, Kinds
    <3>2. PICK old : old = Rising(r, 1)
      OBVIOUS
    <3>3. /\ dev[l].cycles + Cardinality(old) = rises[r] /\ dev[l].cycles \in Nat
          /\ rises[r] \in Nat /\ IsFiniteSet(old) /\ Cardinality(old) \in Nat
      BY <1>2, <3>1, <3>2, LaterFinite, Kinds DEF HInv, CycleLaw, LoadRecords
    <3>4. PICK m \in Nat : m = n
      BY <2>2
    <3>5. queue' = Append(queue, t)
      BY <1>6 DEF t
    <3>6. /\ Later(r, 1)' = Later(r, 1) \cup (IF s = r THEN {m + 1} ELSE {})
          /\ Later(r, 1) \subseteq 1..m
          /\ queue'[m + 1] = t /\ \A j \in 1..m : queue'[j] = queue[j]
      BY <1>2, <2>1, <3>4, <3>5, LaterAppended DEF n
    <3>7. Rising(r, 1)' = old \cup (IF s = r /\ want THEN {m + 1} ELSE {}) /\ m + 1 \notin old
      BY <2>1, <3>2, <3>4, <3>6 DEF Rising
    <3>8. rises'[r] = IF s = r /\ want THEN rises[r] + 1 ELSE rises[r]
      BY <1>2, <1>4, <1>6, Kinds DEF Drive
    <3>9. CASE s = r /\ want
      <4>1. Cardinality(old \cup {m + 1}) = Cardinality(old) + 1
        BY <3>3, <3>7, FS_AddElement
      <4>2. Rising(r, 1)' = old \cup {m + 1} /\ rises'[r] = rises[r] + 1
        BY <3>7, <3>8, <3>9
      <4>3. PICK c \in Nat : c = Cardinality(old)
        BY <3>3
      <4>4. Cardinality(Rising(r, 1)') = c + 1
        BY <4>1, <4>2, <4>3
      <4> QED  BY <3>1, <3>3, <4>2, <4>3, <4>4
    <3>10. CASE ~(s = r /\ want)
      BY <3>1, <3>3, <3>7, <3>8, <3>10
    <3> QED  BY <3>9, <3>10
  <2> QED  BY <2>6, <2>7, <2>8, <2>9, <2>10
<1> QED  BY <1>1, <1>3, <1>5, <1>6 DEF QueueSwitch

\* RESET's transition of a load moves no rail.
LEMMA ResetLaws ==
  ASSUME HInv, ResetLoad
  PROVE  LevelLaw' /\ QueueLaw' /\ BootLaw' /\ AlternationLaw' /\ CycleLaw'
<1> SUFFICES ASSUME ~overflow'
             PROVE  LevelLaw' /\ QueueLaw' /\ BootLaw' /\ AlternationLaw' /\ CycleLaw'
  BY DEF LevelLaw, QueueLaw, BootLaw, AlternationLaw, CycleLaw
<1>1. /\ TypeOK /\ ~overflow /\ at \in Switches /\ First = 1 /\ First' = 1
      /\ queue' = Append(queue, ResetOf(at)) /\ touched' = touched \cup {at}
      /\ UNCHANGED <<effective, level, rises, onAt, dev, tick>>
  BY DEF HInv, IInv, PhaseLaw, ResetLoad, Looping, First
<1>2. PICK t \in Transitions : t = ResetOf(at) /\ t.switch = at /\ t.reset
  <2>1. ResetOf(at) \in Transitions /\ ResetOf(at).switch = at /\ ResetOf(at).reset
    BY <1>1 DEF ResetOf, Transitions
  <2> QED  BY <2>1
<1>3. PICK n \in Nat : n = Len(queue)
  BY <1>1, Kinds
<1>4. queue' = Append(queue, t)
  BY <1>1, <1>2
<1>5. /\ Len(queue') = n + 1 /\ queue'[n + 1] = t /\ \A j \in 1..n : queue'[j] = queue[j]
      /\ \A s : Later(s, 1)' = Later(s, 1) /\ Later(s, 1) \subseteq 1..n
  <2>1. ASSUME NEW s
        PROVE  Later(s, 1)' = Later(s, 1) /\ Later(s, 1) \subseteq 1..n
    <3>1. Later(s, 1)' = Later(s, 1) \cup (IF t.switch = s /\ ~t.reset THEN {n + 1} ELSE {})
      BY <1>1, <1>2, <1>3, <1>4, LaterAppended
    <3>2. Later(s, 1) \subseteq 1..n
      BY <1>1, <1>2, <1>3, <1>4, LaterAppended
    <3> QED  BY <1>2, <3>1, <3>2
  <2>2. Len(queue') = n + 1 /\ queue'[n + 1] = t /\ \A j \in 1..n : queue'[j] = queue[j]
    BY <1>1, <1>2, <1>3, <1>4, LaterAppended
  <2> QED  BY <2>1, <2>2
<1>6. ASSUME NEW s \in Switches
      PROVE  Leaves(s, 1, level[s])' /\ Alternates(s, 1)'
  <2>1. PICK v : v = level[s]
    OBVIOUS
  <2>2. Leaves(s, 1, v) /\ Alternates(s, 1)
    BY <1>1, <2>1 DEF HInv, LevelLaw, AlternationLaw
  <2>3. Leaves(s, 1, v)' /\ Alternates(s, 1)'
    BY <1>1, <1>2, <1>4, <2>2, LeavesAppended, AlternatesAppended
  <2> QED  BY <1>1, <2>1, <2>3
<1>7. LevelLaw' /\ AlternationLaw'
  BY <1>1, <1>6 DEF LevelLaw, AlternationLaw
<1>8. QueueLaw'
  <2> SUFFICES ASSUME NEW k \in 1..(n + 1)
               PROVE  /\ queue'[k].switch \in touched'
                      /\ queue'[k].on /\ ~queue'[k].reset => onAt'[queue'[k].switch] = tick'
    BY <1>5 DEF QueueLaw
  <2>1. CASE k = n + 1
    BY <1>1, <1>2, <1>5, <2>1
  <2>2. CASE k \in 1..n
    BY <1>1, <1>3, <1>5, <2>2 DEF HInv, QueueLaw
  <2> QED  BY <1>3, <2>1, <2>2
<1>9. BootLaw'
  <2> SUFFICES ASSUME NEW l \in Loads
               PROVE  \/ \E k \in 1..(n + 1) : Ahead(l, k)'
                      \/ /\ level[Rail[l]] = dev[l].supply
                         /\ dev[l].supply => dev[l].readyAt = onAt[Rail[l]] + BootDelay
    BY <1>1, <1>5 DEF BootLaw
  <2>1. CASE \E k \in 1..n : Ahead(l, k)
    BY <1>1, <1>3, <1>5, <2>1 DEF Ahead
  <2> QED  BY <1>1, <1>3, <2>1 DEF HInv, BootLaw
<1>10. CycleLaw'
  <2>1. \A s : Rising(s, 1)' = Rising(s, 1)
    BY <1>3, <1>5 DEF Rising
  <2> QED  BY <1>1, <2>1 DEF HInv, CycleLaw
<1> QED  BY <1>7, <1>8, <1>9, <1>10

-----------------------------------------------------------------------------
\* One iteration of director_commit_power takes the first transition away.
LEMMA LaterApplied ==
  ASSUME TypeOK, PhaseLaw, ApplyTransition, NEW k \in Nat, k = at, NEW s
  PROVE  /\ Later(s, k + 1)' = Later(s, k) \ {k}
         /\ k \in Later(s, k) <=> queue[k].switch = s /\ ~queue[k].reset
<1>1. k \in 1..Len(queue) /\ Len(queue) \in Nat /\ queue' = queue
  BY Kinds DEF ApplyTransition, PhaseLaw
<1>2. (k + 1)..Len(queue) = (k..Len(queue)) \ {k}
  BY <1>1
<1> QED  BY <1>1, <1>2 DEF Later

\* What is left still alternates, from the state the rail is in now.
LEMMA AlternatesApplied ==
  ASSUME TypeOK, PhaseLaw, ApplyTransition, NEW k \in Nat, k = at, NEW s \in Switches,
         Alternates(s, k)
  PROVE  /\ Alternates(s, k + 1)'
         /\ k \in Later(s, k) => queue[k].on # effective[s]
<1>1. PICK old : old = Later(s, k)
  OBVIOUS
<1>2. /\ Later(s, k + 1)' = old \ {k} /\ old \subseteq k..Len(queue) /\ Len(queue) \in Nat
      /\ k \in old <=> queue[k].switch = s /\ ~queue[k].reset
  BY <1>1, LaterApplied, LaterFinite, Kinds
<1>3. /\ queue' = queue /\ effective \in [Switches -> BOOLEAN]
      /\ effective' = IF queue[k].reset THEN effective
                      ELSE [effective EXCEPT ![queue[k].switch] = queue[k].on]
  BY Kinds DEF ApplyTransition
<1>4. \A j \in old : j \in Nat /\ k <= j
  BY <1>2
<1>5. CASE k \in old
  <2>1. effective'[s] = queue[k].on
    BY <1>2, <1>3, <1>5
  <2>2. ASSUME NEW j \in old \ {k}, \A i \in old \ {k} : j <= i
        PROVE  queue[j].on # effective'[s]
    <3>1. k < j /\ \A m \in old : m <= k \/ j <= m
      BY <1>4, <2>2
    <3> QED  BY <1>1, <1>5, <2>1, <3>1 DEF Alternates
  <2>3. ASSUME NEW i \in old \ {k}, NEW j \in old \ {k}, i < j,
               \A m \in old \ {k} : m <= i \/ j <= m
        PROVE  queue[i].on # queue[j].on
    <3>1. \A m \in old : m <= i \/ j <= m
      BY <1>4, <2>3
    <3> QED  BY <1>1, <2>3, <3>1 DEF Alternates
  <2>4. queue[k].on # effective[s]
    BY <1>1, <1>4, <1>5 DEF Alternates
  <2> QED  BY <1>1, <1>2, <1>3, <2>2, <2>3, <2>4, ZenonT(60) DEF Alternates
<1>6. CASE k \notin old
  <2>1. Later(s, k + 1)' = old /\ effective'[s] = effective[s]
    BY <1>2, <1>3, <1>6
  <2> QED  BY <1>1, <1>3, <1>6, <2>1 DEF Alternates
<1> QED  BY <1>5, <1>6

\* The transition changes the loads of its own rail, each by a real edge.
LEMMA LoadApplied ==
  ASSUME HInv, ApplyTransition, NEW k \in Nat, k = at, NEW l \in Loads
  PROVE  /\ k \in Later(Rail[l], k) =>
               /\ queue[k].on # dev[l].supply /\ dev'[l].supply = queue[k].on
               /\ dev'[l].memory = "clear"
               /\ queue[k].on => dev'[l].readyAt = tick + BootDelay
               /\ dev'[l].cycles = IF queue[k].on THEN dev[l].cycles + 1 ELSE dev[l].cycles
         /\ k \notin Later(Rail[l], k) =>
               /\ dev'[l].supply = dev[l].supply /\ dev'[l].readyAt = dev[l].readyAt
               /\ dev'[l].cycles = dev[l].cycles
               /\ dev'[l] = dev[l] \/ dev'[l].memory = "clear"
<1>1. TypeOK /\ PhaseLaw /\ ~overflow /\ First = k
  BY DEF HInv, IInv, PhaseLaw, ApplyTransition, First
<1>2. PICK r \in Switches : r = Rail[l]
  BY <1>1, Kinds
<1>3. k \in Later(r, k) <=> queue[k].switch = r /\ ~queue[k].reset
  BY <1>1, LaterApplied
<1>4. k \in Later(r, k) => queue[k].on # effective[r]
  BY <1>1, AlternatesApplied DEF HInv, AlternationLaw
<1>5. dev[l].supply = effective[r] /\ dev[l] \in LoadRecords
  BY <1>1, <1>2, Kinds DEF HInv, IInv, SupplyLaw
<1>6. dev'[l] = IF queue[k].switch # r THEN dev[l]
                ELSE IF queue[k].reset THEN PowerReset(dev[l])
                ELSE PowerSet(dev[l], queue[k].on)
  BY <1>2 DEF ApplyTransition
<1>7. CASE k \in Later(r, k)
  <2>1. dev'[l] = PowerSet(dev[l], queue[k].on) /\ queue[k].on # dev[l].supply
    BY <1>3, <1>4, <1>5, <1>6, <1>7
  <2> QED  BY <1>2, <1>7, <2>1 DEF PowerSet
<1>8. CASE k \notin Later(r, k)
  <2>1. dev'[l] = dev[l] \/ dev'[l] = PowerReset(dev[l])
    BY <1>3, <1>6, <1>8
  <2>2. /\ PowerReset(dev[l]).supply = dev[l].supply /\ PowerReset(dev[l]).memory = "clear"
        /\ PowerReset(dev[l]).readyAt = dev[l].readyAt
        /\ PowerReset(dev[l]).cycles = dev[l].cycles
    BY <1>5 DEF PowerReset, LoadRecords
  <2> QED  BY <1>2, <1>8, <2>1, <2>2
<1> QED  BY <1>2, <1>7, <1>8

LEMMA ApplyLaws ==
  ASSUME HInv, ApplyTransition
  PROVE  LevelLaw' /\ QueueLaw' /\ BootLaw' /\ AlternationLaw' /\ CycleLaw'
<1>1. PICK k \in Nat : k = at
  BY DEF HInv, IInv, TypeOK, DirectorTypes
<1>2. /\ TypeOK /\ PhaseLaw /\ ~overflow /\ First = k /\ First' = k + 1
      /\ UNCHANGED <<queue, overflow, tick, level, rises, touched, onAt>>
      /\ Len(queue) \in Nat /\ k \in 1..Len(queue)
  BY <1>1, Kinds DEF HInv, IInv, PhaseLaw, ApplyTransition, First, history
<1>3. \A s : /\ Later(s, k + 1)' = Later(s, k) \ {k}
             /\ k \in Later(s, k) <=> queue[k].switch = s /\ ~queue[k].reset
  BY <1>1, <1>2, LaterApplied
<1>4. ASSUME NEW s \in Switches
      PROVE  Leaves(s, k + 1, level[s])' /\ Alternates(s, k + 1)'
  <2>1. PICK v : v = level[s]
    OBVIOUS
  <2>2. Leaves(s, k, v) /\ Alternates(s, k)
    BY <1>2, <2>1 DEF HInv, LevelLaw, AlternationLaw
  <2>3. Leaves(s, k + 1, v)' /\ Alternates(s, k + 1)'
    BY <1>1, <1>2, <2>2, LeavesApplied, AlternatesApplied
  <2> QED  BY <1>2, <2>1, <2>3
<1>5. LevelLaw' /\ AlternationLaw'
  BY <1>2, <1>4 DEF LevelLaw, AlternationLaw
<1>6. QueueLaw'
  BY <1>2 DEF HInv, QueueLaw
<1>7. BootLaw'
  <2> SUFFICES ASSUME NEW l \in Loads
               PROVE  \/ \E j \in (k + 1)..Len(queue) : Ahead(l, j)'
                      \/ /\ level[Rail[l]] = dev'[l].supply
                         /\ dev'[l].supply => dev'[l].readyAt = onAt[Rail[l]] + BootDelay
    BY <1>2 DEF BootLaw
  <2>1. PICK r \in Switches : r = Rail[l]
    BY <1>2, Kinds
  <2>2. CASE k \in Later(r, k)
    <3>1. PICK v : v = queue[k].on
      OBVIOUS
    <3>2. dev'[l].supply = v /\ (v => dev'[l].readyAt = tick + BootDelay)
      BY <1>1, <2>1, <2>2, <3>1, LoadApplied
    <3>3. v => onAt[r] = tick
      BY <1>2, <1>3, <2>2, <3>1 DEF HInv, QueueLaw
    <3>4. CASE \E j \in Later(r, k + 1)' : queue[j].on # v
      <4>1. PICK j \in (k + 1)..Len(queue) : /\ queue[j].switch = r /\ ~queue[j].reset
                                            /\ queue[j].on # v
        BY <1>2, <3>4 DEF Later
      <4>2. Ahead(l, j)'
        BY <1>2, <2>1, <3>2, <4>1 DEF Ahead
      <4> QED  BY <4>2
    <3>5. CASE \A j \in Later(r, k + 1)' : queue[j].on = v
      <4>1. effective'[r] = v
        BY <1>1, <1>3, <2>2, <3>1, <1>2, Kinds DEF ApplyTransition
      <4>2. level[r] = v
        BY <1>2, <1>4, <3>5, <4>1 DEF Leaves
      <4> QED  BY <2>1, <3>2, <3>3, <4>2
    <3> QED  BY <3>4, <3>5
  <2>3. CASE k \notin Later(r, k)
    <3>1. dev'[l].supply = dev[l].supply /\ dev'[l].readyAt = dev[l].readyAt
      BY <1>1, <2>1, <2>3, LoadApplied
    <3>2. CASE \E j \in k..Len(queue) : Ahead(l, j)
      <4>1. PICK j \in k..Len(queue) : Ahead(l, j)
        BY <3>2
      <4>2. j # k
        BY <1>3, <2>1, <2>3, <4>1 DEF Ahead
      <4>3. j \in (k + 1)..Len(queue)
        BY <1>2, <4>2
      <4> QED  BY <1>2, <3>1, <4>1, <4>3 DEF Ahead
    <3> QED  BY <1>2, <3>1, <3>2 DEF HInv, BootLaw
  <2> QED  BY <2>2, <2>3
<1>8. CycleLaw'
  <2> SUFFICES ASSUME NEW l \in Loads
               PROVE  dev'[l].cycles + Cardinality(Rising(Rail[l], k + 1)') = rises[Rail[l]]
    BY <1>2 DEF CycleLaw
  <2>1. PICK r \in Switches : r = Rail[l]
    BY <1>2, Kinds
  <2>2. PICK old : old = Rising(r, k)
    OBVIOUS
  <2>3. /\ dev[l].cycles + Cardinality(old) = rises[r] /\ dev[l].cycles \in Nat
        /\ rises[r] \in Nat /\ IsFiniteSet(old) /\ Cardinality(old) \in Nat
    BY <1>2, <2>1, <2>2, LaterFinite, Kinds DEF HInv, CycleLaw, LoadRecords
  <2>4. Rising(r, k + 1)' = old \ {k} /\ (k \in old <=> k \in Later(r, k) /\ queue[k].on)
    BY <1>2, <1>3, <2>2 DEF Rising
  <2>5. PICK c \in Nat : c = Cardinality(old)
    BY <2>3
  <2>6. Cardinality(old \ {k}) = IF k \in old THEN c - 1 ELSE c
    BY <2>3, <2>5, FS_RemoveElement
  <2>7. dev'[l].cycles = IF k \in old THEN dev[l].cycles + 1 ELSE dev[l].cycles
    BY <1>1, <2>1, <2>4, LoadApplied
  <2>8. PICK d \in Nat : d = dev[l].cycles
    BY <2>3
  <2>9. CASE k \in old
    <3>1. Cardinality(Rising(r, k + 1)') = c - 1 /\ dev'[l].cycles = d + 1 /\ d + c = rises[r]
      BY <2>3, <2>4, <2>5, <2>6, <2>7, <2>8, <2>9
    <3>2. (d + 1) + (c - 1) = d + c
      OBVIOUS
    <3> QED  BY <2>1, <3>1, <3>2
  <2>10. CASE k \notin old
    <3>1. Cardinality(Rising(r, k + 1)') = c /\ dev'[l].cycles = d /\ d + c = rises[r]
      BY <2>3, <2>4, <2>5, <2>6, <2>7, <2>8, <2>10
    <3> QED  BY <2>1, <3>1
  <2> QED  BY <2>9, <2>10
<1> QED  BY <1>5, <1>6, <1>7, <1>8

\* When the loop is over nothing is left to do.
LEMMA EndLaws ==
  ASSUME HInv, EndPower
  PROVE  LevelLaw' /\ QueueLaw' /\ BootLaw' /\ AlternationLaw' /\ CycleLaw'
<1>1. PICK k \in Nat : k = at
  BY DEF HInv, IInv, TypeOK, DirectorTypes
<1>2. /\ TypeOK /\ ~overflow /\ First = k /\ First' = 1 /\ queue' = <<>>
      /\ UNCHANGED <<effective, dev, tick, level, rises, onAt>>
      /\ k..Len(queue) = {} /\ 1..Len(queue') = {}
  <2>1. Len(queue) \in Nat /\ TypeOK /\ PhaseLaw
    BY Kinds DEF HInv, IInv
  <2>2. k > Len(queue) /\ queue' = <<>>
    BY <1>1 DEF EndPower
  <2>3. k..Len(queue) = {} /\ 1..Len(queue') = {}
    BY <2>1, <2>2
  <2> QED  BY <1>1, <2>1, <2>2, <2>3 DEF EndPower, First, PhaseLaw
<1>3. \A s : Later(s, k) = {} /\ Later(s, 1)' = {} /\ Rising(s, k) = {} /\ Rising(s, 1)' = {}
  BY <1>2 DEF Later, Rising
<1>4. LevelLaw'
  BY <1>2, <1>3 DEF HInv, LevelLaw, Leaves
<1>5. QueueLaw'
  BY <1>2 DEF QueueLaw
<1>6. BootLaw'
  BY <1>2 DEF HInv, BootLaw
<1>7. AlternationLaw'
  BY <1>2, <1>3 DEF AlternationLaw, Alternates
<1>8. CycleLaw'
  BY <1>2, <1>3 DEF HInv, CycleLaw
<1> QED  BY <1>4, <1>5, <1>6, <1>7, <1>8

-----------------------------------------------------------------------------
\* The rails' part of the invariant, step by step.
LEMMA RailLaws ==
  ASSUME HInv, Next
  PROVE  LevelLaw' /\ QueueLaw' /\ BootLaw' /\ AlternationLaw' /\ CycleLaw'
<1>0. /\ TypeOK /\ TypeOK' /\ PhaseLaw
      /\ dev \in [Loads -> LoadRecords] /\ fault \in [Switches -> 0..2]
      /\ requested \in [Switches -> BOOLEAN]
  BY Inductive, Kinds DEF HInv, IInv, TypeOK, SupplyTypes
<1>1. ASSUME NEW s \in Switches, NEW on \in BOOLEAN, QueueSwitch(s, on), UNCHANGED <<dev, tick>>,
             phase # "applying", phase' # "applying"
      PROVE  LevelLaw' /\ QueueLaw' /\ BootLaw' /\ AlternationLaw' /\ CycleLaw'
  <2>1. fault' \in [Switches -> 0..2] /\ First = 1 /\ First' = 1
    BY <1>0, <1>1 DEF TypeOK, SupplyTypes, First
  <2> QED  BY <1>1, <2>1, SwitchLaws
<1>2. ASSUME NEW r \in {"on", "off"}, NEW s \in Switches, SwitchRequest(r, s)
      PROVE  LevelLaw' /\ QueueLaw' /\ BootLaw' /\ AlternationLaw' /\ CycleLaw'
  <2>1. (r = "on") \in BOOLEAN /\ QueueSwitch(s, r = "on") /\ UNCHANGED <<phase, dev, tick>>
        /\ phase = "execute"
    BY <1>2 DEF SwitchRequest, Serve
  <2> QED  BY <1>1, <2>1
<1>3. ASSUME NEW s \in Switches, NEW on \in BOOLEAN, BackdoorSwitch(s, on)
      PROVE  LevelLaw' /\ QueueLaw' /\ BootLaw' /\ AlternationLaw' /\ CycleLaw'
  BY <1>1, <1>3 DEF BackdoorSwitch, Backdoor
<1>4. ASSUME NEW s \in Switches, NEW f \in 0..2, BackdoorFault(s, f)
      PROVE  LevelLaw' /\ QueueLaw' /\ BootLaw' /\ AlternationLaw' /\ CycleLaw'
  BY <1>0, <1>1, <1>4 DEF BackdoorFault, Backdoor
<1>5. CASE ClearFault \/ ResetOff \/ ResetOn
  <2>1. at \in Switches /\ Startup[at] \in BOOLEAN /\ requested[at] \in BOOLEAN
    BY <1>0, <1>5, SwitchesAssumption DEF ClearFault, ResetOff, ResetOn, Looping, PhaseLaw
  <2>2. UNCHANGED <<dev, tick>> /\ phase # "applying" /\ phase' # "applying"
    BY <1>5 DEF ClearFault, ResetOff, ResetOn, Looping, NextSwitch
  <2> QED  BY <1>1, <1>5, <2>1, <2>2 DEF ClearFault, ResetOff, ResetOn
<1>6. ASSUME NEW l \in Loads, NEW m \in {"command", "backdoor"},
             dev' = [dev EXCEPT ![l].memory = m]
      PROVE  \A j \in Loads : /\ dev'[j].supply = dev[j].supply /\ dev'[j].readyAt = dev[j].readyAt
                              /\ dev'[j].cycles = dev[j].cycles
  BY <1>0, <1>6 DEF LoadRecords
<1>7. ASSUME UNCHANGED <<supply, history>>, First' = First, tick' = tick \/ queue = <<>>,
             \/ dev' = dev
             \/ \E l \in Loads, m \in {"command", "backdoor"} :
                   dev' = [dev EXCEPT ![l].memory = m]
      PROVE  LevelLaw' /\ QueueLaw' /\ BootLaw' /\ AlternationLaw' /\ CycleLaw'
  <2>1. \A j \in Loads : /\ dev'[j].supply = dev[j].supply /\ dev'[j].readyAt = dev[j].readyAt
                         /\ dev'[j].cycles = dev[j].cycles
    BY <1>6, <1>7
  <2> QED  BY <1>7, <2>1, QuietLaws
<1>8. CASE \/ \E r \in {"hk", "on", "off"} : RequestFails(r)
           \/ \E l \in Loads : DeviceRequest(l)
           \/ \E m \in {0, 1} : SetMode(m)
           \/ EndExecute
  BY <1>7, <1>8 DEF RequestFails, DeviceRequest, SetMode, EndExecute, Serve, First
<1>9. CASE \/ NoBackdoor \/ BackdoorDemo
           \/ \E r \in {"any", "on"} : BackdoorFail(r)
           \/ \E p \in {"clear", "reset"} : BackdoorLoop(p)
  BY <1>7, <1>9 DEF NoBackdoor, BackdoorDemo, BackdoorFail, BackdoorLoop, Backdoor, First
<1>10. CASE StartPower \/ Actuate \/ ActuateFails \/ NextTick
  <2>1. dev' = dev
    BY <1>0, <1>10 DEF StartPower, Actuate, ActuateFails, NextTick, Configured
  <2>2. UNCHANGED <<supply, history>> /\ First' = First
    BY <1>10 DEF StartPower, Actuate, ActuateFails, NextTick, First
  <2>3. tick' = tick \/ queue = <<>>
    BY <1>0, <1>10 DEF StartPower, Actuate, ActuateFails, NextTick, PhaseLaw, Applied
  <2> QED  BY <1>7, <2>1, <2>2, <2>3
<1> QED  BY <1>2, <1>3, <1>4, <1>5, <1>8, <1>9, <1>10, ResetLaws, ApplyLaws, EndLaws DEF Next

\* The loads' part.
LEMMA LoadLaws ==
  ASSUME HInv, Next
  PROVE  MemoryLaw' /\ ZeroLaw'
<1>0. /\ TypeOK /\ tick \in Nat /\ MaxTicks \in Nat /\ dev \in [Loads -> LoadRecords]
      /\ adcs \in [mode : {0, 1}, armed : BOOLEAN, pending : BOOLEAN]
      /\ MemoryLaw /\ ZeroLaw
  BY Kinds, BoundsAssumption DEF HInv, IInv
<1>1. tick' \in Nat /\ tick <= tick'
  <2>1. tick' = tick \/ tick' = tick + 1
    BY DEF Next, RequestFails, SwitchRequest, DeviceRequest, SetMode, EndExecute, Serve,
     NoBackdoor, BackdoorDemo, BackdoorSwitch, BackdoorFault, BackdoorFail, BackdoorLoop,
     Backdoor, ClearFault, ResetLoad, ResetOff, ResetOn, Looping, StartPower,
     ApplyTransition, EndPower, Actuate, ActuateFails, NextTick
  <2> QED  BY <1>0, <2>1
<1>2. ASSUME dev' = dev
      PROVE  MemoryLaw' /\ \A l \in Loads : Ready(l) => Ready(l)'
  BY <1>0, <1>1, <1>2 DEF MemoryLaw, Ready, LoadRecords
<1>3. ASSUME NEW l \in Loads, NEW m \in {"command", "backdoor"}, m = "command" => Ready(l),
             dev' = [dev EXCEPT ![l].memory = m]
      PROVE  MemoryLaw' /\ \A j \in Loads : Ready(j) => Ready(j)'
  <2> SUFFICES ASSUME NEW j \in Loads
               PROVE  /\ dev'[j].memory = "command" => dev'[j].supply /\ tick' >= dev'[j].readyAt
                      /\ Ready(j) => Ready(j)'
    BY DEF MemoryLaw
  <2>1. /\ dev'[j].supply = dev[j].supply /\ dev'[j].readyAt = dev[j].readyAt
        /\ dev'[j].memory = IF j = l THEN m ELSE dev[j].memory
        /\ dev[j].readyAt \in Nat
    BY <1>0, <1>3 DEF LoadRecords
  <2> QED  BY <1>0, <1>1, <1>3, <2>1 DEF MemoryLaw, Ready
<1>4. CASE ApplyTransition
  <2>1. PICK k \in Nat : k = at
    BY <1>0 DEF TypeOK, DirectorTypes
  <2>2. \A l \in Loads : dev'[l] = dev[l] \/ dev'[l].memory = "clear"
    BY <1>4, <2>1, LoadApplied
  <2>3. MemoryLaw'
    BY <1>0, <1>4, <2>2 DEF MemoryLaw, ApplyTransition
  <2>4. ASSUME "adcs" \in Loads, out' = "control" /\ ~adcs'.pending
        PROVE  adcs'.mode # 0 /\ Ready("adcs")'
    <3>1. PICK t : t = queue[at]
      OBVIOUS
    <3>2. PICK on : on = dev["adcs"].supply
      OBVIOUS
    <3>3. adcs' = adcs /\ ~(Rail["adcs"] = t.switch /\ (t.reset \/ on # t.on))
      BY <1>4, <2>4, <3>1, <3>2 DEF ApplyTransition
    <3>4. dev'["adcs"] = dev["adcs"]
      BY <1>4, <2>4, <3>1, <3>2, <3>3 DEF ApplyTransition, PowerSet
    <3> QED  BY <1>0, <1>4, <2>4, <3>3, <3>4 DEF ApplyTransition, ZeroLaw, Ready
  <2> QED  BY <1>4, <2>3, <2>4 DEF ApplyTransition, ZeroLaw
<1>5. CASE (\E l \in Loads : DeviceRequest(l)) \/ \E m \in {0, 1} : SetMode(m)
  <2>1. /\ phase' = "execute" /\ out' = out
        /\ MemoryLaw' /\ \A j \in Loads : Ready(j) => Ready(j)'
    <3>1. phase' = "execute" /\ out' = out
      BY <1>5 DEF DeviceRequest, SetMode, Serve
    <3>2. dev' = dev \/ \E l \in Loads : Ready(l) /\ dev' = [dev EXCEPT ![l].memory = "command"]
      BY <1>5 DEF DeviceRequest, SetMode
    <3> QED  BY <1>2, <1>3, <3>1, <3>2
  <2>2. ASSUME "adcs" \in Loads, out' = "control", ~adcs'.pending
        PROVE  adcs'.mode # 0 /\ Ready("adcs")'
    <3>1. CASE adcs' = adcs
      BY <1>0, <2>1, <2>2, <3>1 DEF ZeroLaw
    <3>2. ASSUME NEW m \in {0, 1}, Ready("adcs"),
                 adcs' = [mode |-> m, armed |-> FALSE, pending |-> adcs.pending \/ m = 0]
          PROVE  adcs'.mode # 0 /\ Ready("adcs")'
      BY <2>1, <2>2, <3>2
    <3> QED  BY <1>5, <3>1, <3>2 DEF DeviceRequest, SetMode
  <2> QED  BY <2>1, <2>2 DEF ZeroLaw
<1>6. ASSUME dev' = dev \/ \E l \in Loads : dev' = [dev EXCEPT ![l].memory = "backdoor"],
             UNCHANGED <<adcs, out>>, phase' # "committed"
      PROVE  MemoryLaw' /\ ZeroLaw'
  BY <1>0, <1>2, <1>3, <1>6 DEF ZeroLaw
<1>7. CASE Actuate
  <2>1. dev' = dev
    BY <1>7 DEF Actuate
  <2>2. /\ adcs'.pending = FALSE
        /\ out' = "control" /\ "adcs" \in Loads => adcs'.mode # 0 /\ Ready("adcs")
    BY <1>0, <1>7 DEF Actuate, ZeroLaw
  <2> QED  BY <1>2, <2>1, <2>2 DEF ZeroLaw
<1>10. CASE ActuateFails
  <2>1. UNCHANGED <<dev, tick, adcs>> /\ phase' = "dead"
    BY <1>10 DEF ActuateFails
  <2>2. \/ out' = out
        \/ ~adcs.pending /\ adcs.mode # 0 /\ Ready("adcs")
    BY <1>10 DEF ActuateFails
  <2> QED  BY <1>0, <1>2, <2>1, <2>2 DEF ZeroLaw
<1>8. CASE StartPower \/ EndPower \/ NextTick \/ EndExecute \/ NoBackdoor \/ BackdoorDemo
  <2>1. /\ dev' = dev \/ \E l \in Loads : dev' = [dev EXCEPT ![l].memory = "backdoor"]
        /\ UNCHANGED <<adcs, out>> /\ phase' # "committed"
    BY <1>0, <1>8 DEF StartPower, EndPower, NextTick, EndExecute, NoBackdoor, BackdoorDemo,
       Backdoor, Configured
  <2> QED  BY <1>6, <2>1
<1>9. CASE \/ \E r \in {"hk", "on", "off"} : RequestFails(r)
           \/ \E r \in {"on", "off"}, s \in Switches : SwitchRequest(r, s)
           \/ \E s \in Switches, on \in BOOLEAN : BackdoorSwitch(s, on)
           \/ \E s \in Switches, f \in 0..2 : BackdoorFault(s, f)
           \/ \E r \in {"any", "on"} : BackdoorFail(r)
           \/ \E p \in {"clear", "reset"} : BackdoorLoop(p)
           \/ ClearFault \/ ResetLoad \/ ResetOff \/ ResetOn
  <2>1. dev' = dev /\ UNCHANGED <<adcs, out>> /\ phase' # "committed"
    BY <1>9 DEF RequestFails, SwitchRequest, Serve, BackdoorSwitch, BackdoorFault,
       BackdoorFail, BackdoorLoop, Backdoor, ClearFault, ResetLoad, ResetOff, ResetOn,
       Looping, NextSwitch
  <2> QED  BY <1>6, <2>1
<1> QED  BY <1>4, <1>5, <1>7, <1>8, <1>9, <1>10 DEF Next

-----------------------------------------------------------------------------
LEMMA HistoryInitial == Init => HInv
<1> SUFFICES ASSUME Init
             PROVE  HInv
  OBVIOUS
<1>1. IInv /\ TypeOK /\ First = 1 /\ queue = <<>> /\ Len(queue) = 0 /\ 1..Len(queue) = {}
  <2>1. queue = <<>> /\ First = 1
    BY DEF Init, First
  <2> QED  BY <2>1, Initial DEF IInv
<1>2. \A s : Later(s, 1) = {} /\ Rising(s, 1) = {}
  BY <1>1 DEF Later, Rising
<1>3. LevelLaw
  BY <1>1, <1>2 DEF Init, LevelLaw, Leaves
<1>4. QueueLaw /\ AlternationLaw
  BY <1>1, <1>2 DEF QueueLaw, AlternationLaw, Alternates
<1>5. ASSUME NEW l \in Loads
      PROVE  /\ level[Rail[l]] = dev[l].supply /\ dev[l].memory = "clear"
             /\ dev[l].supply => dev[l].readyAt = onAt[Rail[l]] + BootDelay
             /\ dev[l].cycles = rises[Rail[l]] /\ rises[Rail[l]] \in Nat
  <2>1. Rail[l] \in Switches /\ BootDelay \in Nat /\ 0 + BootDelay = BootDelay
    BY LoadsAssumption, BoundsAssumption
  <2>2. /\ dev[l] = [supply |-> Startup[Rail[l]], memory |-> "clear",
                     readyAt |-> IF Startup[Rail[l]] THEN BootDelay ELSE 0,
                     cycles |-> IF Startup[Rail[l]] THEN 1 ELSE 0]
        /\ level = Startup /\ onAt[Rail[l]] = 0
        /\ rises[Rail[l]] = IF Startup[Rail[l]] THEN 1 ELSE 0
    BY <2>1 DEF Init
  <2> QED  BY <2>1, <2>2
<1>6. BootLaw
  BY <1>5 DEF BootLaw
<1>7. CycleLaw
  <2>1. Cardinality({}) = 0
    BY FS_EmptySet
  <2>2. ASSUME NEW l \in Loads
        PROVE  dev[l].cycles + Cardinality(Rising(Rail[l], First)) = rises[Rail[l]]
    <3>1. Cardinality(Rising(Rail[l], First)) = 0
      BY <1>1, <1>2, <2>1
    <3> QED  BY <1>5, <3>1
  <2> QED  BY <2>2 DEF CycleLaw
<1>8. MemoryLaw
  BY <1>5 DEF MemoryLaw
<1>9. ZeroLaw
  BY DEF Init, ZeroLaw
<1> QED  BY <1>1, <1>3, <1>4, <1>6, <1>7, <1>8, <1>9 DEF HInv

LEMMA HistoryInductive == HInv /\ [Next]_vars => HInv'
<1>1. HInv /\ Next => HInv'
  BY RailLaws, LoadLaws, Inductive DEF HInv
<1>2. ASSUME HInv, UNCHANGED vars
      PROVE  HInv'
  <2>1. UNCHANGED <<phase, at, tick, asked, failed, requested, effective, fault, queue,
                    overflow, failing, dev, adcs, out, level, rises, touched, onAt>>
    BY <1>2 DEF vars, supply, history
  <2>2. IInv' /\ First' = First /\ UNCHANGED <<supply, history>>
    BY <1>2, <2>1, Stutter DEF HInv, First, supply, history
  <2>3. LevelLaw' /\ QueueLaw' /\ BootLaw' /\ AlternationLaw' /\ CycleLaw'
    BY <1>2, <2>1, <2>2, QuietLaws
  <2>4. MemoryLaw' /\ ZeroLaw'
    BY <1>2, <2>1 DEF HInv, MemoryLaw, ZeroLaw, Ready
  <2> QED  BY <2>2, <2>3, <2>4 DEF HInv
<1> QED  BY <1>1, <1>2

\* When a COMMIT has applied its transitions the loads are where the history is.
LEMMA AppliedLoads ==
  ASSUME HInv, Applied, NEW l \in Loads
  PROVE  /\ dev[l].supply => dev[l].readyAt = onAt[Rail[l]] + BootDelay
         /\ dev[l].cycles = rises[Rail[l]]
<1>1. TypeOK /\ ~overflow /\ First = 1 /\ queue = <<>>
  BY DEF HInv, IInv, PhaseLaw, Applied, First
<1>2. 1..Len(queue) = {} /\ Rising(Rail[l], 1) = {}
  <2>1. 1..Len(queue) = {}
    BY <1>1
  <2> QED  BY <2>1 DEF Rising, Later
<1>3. dev[l].supply => dev[l].readyAt = onAt[Rail[l]] + BootDelay
  BY <1>1, <1>2 DEF HInv, BootLaw
<1>4. dev[l].cycles + Cardinality(Rising(Rail[l], 1)) = rises[Rail[l]]
  BY <1>1 DEF HInv, CycleLaw
<1>5. Cardinality(Rising(Rail[l], 1)) = 0 /\ dev[l].cycles \in Nat
  BY <1>1, <1>2, FS_EmptySet, Kinds DEF LoadRecords
<1> QED  BY <1>3, <1>4, <1>5

(***************************************************************************)
(* A load goes through exactly the power cycles its rail was commanded,    *)
(* however many OFF and ON one tick queues (queue_switch,                  *)
(* director_commit_power and the loads' power_set).                        *)
(***************************************************************************)
THEOREM CyclesAsCommanded == Spec => []OffOnPowerCycles
<1>1. HInv => OffOnPowerCycles
  BY AppliedLoads DEF OffOnPowerCycles
<1> QED  BY <1>1, HistoryInitial, HistoryInductive, PTL DEF Spec

(***************************************************************************)
(* What a load remembers of a command it executed in its present power     *)
(* cycle, no earlier than the boot delay after its rail came on (the       *)
(* loads' power_set and power_reset).                                      *)
(***************************************************************************)
THEOREM MemoryOfThisBoot == Spec => []ExecutedOnlyBooted
<1>1. HInv => ExecutedOnlyBooted
  <2> SUFFICES ASSUME HInv, Applied, NEW l \in Loads, dev[l].memory = "command"
               PROVE  dev[l].supply /\ tick >= onAt[Rail[l]] + BootDelay
    BY DEF ExecutedOnlyBooted
  <2>1. dev[l].supply /\ tick >= dev[l].readyAt
    BY DEF HInv, MemoryLaw
  <2> QED  BY <2>1, AppliedLoads
<1> QED  BY <1>1, HistoryInitial, HistoryInductive, PTL DEF Spec

(***************************************************************************)
(* After a COMMIT that finds the ADCS unpowered, booting or disabled, 42's *)
(* last actuator command is zero (adcs_sim_component_actuate).             *)
(***************************************************************************)
THEOREM InactiveMeansZero == Spec => []ActuatorsZeroWhenInactive
<1>1. HInv => ActuatorsZeroWhenInactive
  <2> SUFFICES ASSUME HInv, phase = "committed", "adcs" \in Loads,
                      adcs.mode = 0 \/ ~Ready("adcs")
               PROVE  out = "zero"
    BY DEF ActuatorsZeroWhenInactive
  <2>1. out \in {"zero", "control"} /\ ~adcs.pending
    BY DEF HInv, IInv, TypeOK, LoadTypes, ZeroLaw
  <2> QED  BY <2>1 DEF HInv, ZeroLaw
<1> QED  BY <1>1, HistoryInitial, HistoryInductive, PTL DEF Spec

(***************************************************************************)
(* director_commit_power changes no load whose rail nothing drove or reset *)
(* since the last COMMIT, not even its boot deadline.                      *)
(***************************************************************************)
THEOREM CommitDisturbsNothing == Spec => UndisturbedPreserved
<1>1. HInv /\ [Next]_vars =>
        \A l \in Loads : phase \in {"power", "applying"} /\ Rail[l] \notin touched
                            => UNCHANGED dev[l]
  <2> SUFFICES ASSUME HInv, [Next]_vars, NEW l \in Loads, phase \in {"power", "applying"},
                      Rail[l] \notin touched
               PROVE  dev'[l] = dev[l]
    OBVIOUS
  <2>1. dev \in [Loads -> LoadRecords] /\ PhaseLaw
    BY Kinds DEF HInv, IInv
  <2>2. CASE ApplyTransition
    <3>1. PICK k \in Nat : k = at
      BY DEF HInv, IInv, TypeOK, DirectorTypes
    <3>2. ~overflow /\ k \in 1..Len(queue)
      BY <2>1, <2>2, <3>1, Kinds DEF HInv, IInv, ApplyTransition, PhaseLaw
    <3>3. queue[k].switch \in touched
      BY <3>2 DEF HInv, QueueLaw
    <3> QED  BY <2>2, <3>1, <3>3 DEF ApplyTransition
  <2>3. CASE StartPower \/ EndPower \/ UNCHANGED vars
    BY <2>1, <2>3 DEF StartPower, EndPower, Configured, vars
  <2> QED  BY <2>2, <2>3 DEF Next, RequestFails, SwitchRequest, DeviceRequest, SetMode,
     EndExecute, Serve, NoBackdoor, BackdoorDemo, BackdoorSwitch, BackdoorFault,
     BackdoorFail, BackdoorLoop, Backdoor, ClearFault, ResetLoad, ResetOff, ResetOn,
     Looping, Actuate, ActuateFails, NextTick
<1> QED  BY <1>1, HistoryInitial, HistoryInductive, PTL DEF Spec, UndisturbedPreserved
=============================================================================
