---------------------------- MODULE PowerCommit ----------------------------
(***************************************************************************)
(* Switched electrical power: the EPS simulator (eps_sim.c) queues rail    *)
(* transitions during EXECUTE and in a COMMIT backdoor, and the director   *)
(* (director_commit_power) applies the queue to the loads (simulith_power.h*)
(* with demo_sim.c and adcs_sim.c) before ACTUATE.                         *)
(*                                                                         *)
(* One tick is EXECUTE, one backdoor datagram at most, the power           *)
(* transitions, ACTUATE.  The director's and the EPS's loops over          *)
(* transitions and switches take one step per iteration; no other code     *)
(* runs between those steps.  Time is counted in ticks.                    *)
(***************************************************************************)
EXTENDS Integers, Sequences

CONSTANTS SwitchCount,    \* EPS_NUM_SWITCHES
          Loads,          \* the power consumers, of "demo" and "adcs"
          Rail,           \* the switch that feeds each load
          Startup,        \* EPS_SWITCH_STARTUP
          BootDelay,      \* boot_delay_s, in ticks
          MaxTransitions, \* SIMULITH_POWER_TRANSITIONS
          MaxRequests,    \* bound on the requests of one EXECUTE
          MaxTicks        \* bound on the ticks

Switches == 0..(SwitchCount - 1)

ASSUME SwitchesAssumption == SwitchCount \in Nat \ {0} /\ Startup \in [Switches -> BOOLEAN]
ASSUME LoadsAssumption == Loads \subseteq {"demo", "adcs"} /\ Rail \in [Loads -> Switches]
ASSUME BoundsAssumption == /\ BootDelay \in Nat /\ MaxTransitions \in Nat
                           /\ MaxRequests \in Nat /\ MaxTicks \in Nat

VARIABLES phase,     \* the part of the tick the director is in
          at,        \* the index of the loop it runs
          tick, asked, \* the tick, and the requests served in its EXECUTE
          failed,    \* a component's phase_status is an error
          requested, effective, fault, queue, overflow, \* simulith_power_supply_t
          failing,   \* fail_remaining and fail_selector
          dev,       \* each load's simulith_power_runtime_t and its memory
          adcs,      \* current_mode, control_deadline_valid, actuator_reset_pending
          out,       \* the actuator command 42 last received
          level, rises, touched, onAt \* history: see below

supply  == <<requested, effective, fault, queue, overflow>>
history == <<level, rises, touched, onAt>>
vars    == <<phase, at, tick, asked, failed, supply, failing, dev, adcs, out, history>>

\* A fault of 1 holds the rail off and a fault of 2 holds it on.
Forced(f, on) == (on /\ f # 1) \/ f = 2

Transition(s, on) == [switch |-> s, on |-> on, reset |-> FALSE]
ResetOf(s)        == [switch |-> s, on |-> FALSE, reset |-> TRUE]

\* Fault: the rail as it is, not as the queue will leave it.
ScheduledNow(s) == effective[s]

\* The state in which the queue, once applied, leaves rail s.
Scheduled(s) ==
    LET on == {k \in 1..Len(queue) : queue[k].switch = s /\ ~queue[k].reset}
    IN  IF on = {} THEN effective[s]
        ELSE queue[CHOOSE k \in on : \A j \in on : j <= k].on

Ready(l) == dev[l].supply /\ tick >= dev[l].readyAt

-----------------------------------------------------------------------------
(***************************************************************************)
(* History, kept for the properties and read by no action.  The state each *)
(* rail has been driven to and how often it was driven from off to on, as  *)
(* the accepted commands say; the rails driven or reset since the last     *)
(* COMMIT; the tick at whose COMMIT each rail last came on.                *)
(***************************************************************************)
Drive(s, on) ==
    /\ level' = [level EXCEPT ![s] = on]
    /\ rises' = [rises EXCEPT ![s] = IF on /\ ~level[s] THEN @ + 1 ELSE @]
    /\ touched' = IF on # level[s] THEN touched \cup {s} ELSE touched
    /\ onAt' = IF on /\ ~level[s] THEN [onAt EXCEPT ![s] = tick] ELSE onAt

Init == /\ phase = "execute" /\ at = 0 /\ tick = 0 /\ asked = 0 /\ failed = FALSE
        /\ requested = Startup /\ effective = Startup
        /\ fault = [s \in Switches |-> 0] /\ queue = <<>> /\ overflow = FALSE
        /\ failing = [left |-> 0, which |-> "any"]
        /\ dev = [l \in Loads |->
                    [supply |-> Startup[Rail[l]], memory |-> "clear",
                     readyAt |-> IF Startup[Rail[l]] THEN BootDelay ELSE 0,
                     cycles |-> IF Startup[Rail[l]] THEN 1 ELSE 0]]
        /\ adcs = [mode |-> 0, armed |-> FALSE,
                   pending |-> "adcs" \in Loads /\ Startup[Rail["adcs"]]]
        /\ out = "zero"
        /\ level = Startup /\ touched = {} /\ onAt = [s \in Switches |-> 0]
        /\ rises = [s \in Switches |-> IF Startup[s] THEN 1 ELSE 0]

-----------------------------------------------------------------------------
\* Fault: a change takes the place of the rail's pending one.
QueueSwitchOnce(s, on) ==
    LET want == Forced(fault'[s], on)
        rest == SelectSeq(queue, LAMBDA t : t.reset \/ t.switch # s)
    IN  /\ Drive(s, want)
        /\ requested' = [requested EXCEPT ![s] = on]
        /\ queue' = IF want = effective[s] THEN rest ELSE Append(rest, Transition(s, want))
        /\ UNCHANGED <<effective, overflow>>

(***************************************************************************)
(* queue_switch, with the fault already set: a rail whose state is to      *)
(* change gets a transition of its own, behind those already queued.       *)
(***************************************************************************)
QueueSwitch(s, on) ==
    LET want == Forced(fault'[s], on)
    IN  /\ Drive(s, want)
        /\ \/ /\ want = Scheduled(s)
              /\ requested' = [requested EXCEPT ![s] = on]
              /\ UNCHANGED <<queue, overflow>>
           \/ /\ want # Scheduled(s) /\ Len(queue) < MaxTransitions
              /\ requested' = [requested EXCEPT ![s] = on]
              /\ queue' = Append(queue, Transition(s, want))
              /\ UNCHANGED overflow
           \/ /\ want # Scheduled(s) /\ Len(queue) >= MaxTransitions
              /\ overflow' = TRUE
              /\ UNCHANGED <<requested, queue>>
        /\ UNCHANGED effective

(***************************************************************************)
(* EXECUTE: requests from flight software, in the order the EPS and the    *)
(* loads serve them.  A component whose service failed serves no more.     *)
(***************************************************************************)
Serve == phase = "execute" /\ asked < MaxRequests /\ asked' = asked + 1
         /\ UNCHANGED <<phase, at, tick, out>>

RequestFails(r) ==
    /\ Serve /\ ~failed /\ failing.left > 0 /\ failing.which \in {"any", r}
    /\ failing' = [failing EXCEPT !.left = @ - 1]
    /\ UNCHANGED <<failed, supply, dev, adcs, history>>

SwitchRequest(r, s) ==
    /\ Serve /\ ~failed
    /\ failing.left = 0 \/ failing.which \notin {"any", r}
    /\ UNCHANGED fault
    /\ QueueSwitch(s, r = "on")
    /\ failed' = overflow'
    /\ UNCHANGED <<failing, dev, adcs>>

\* Any command a load executes leaves something in its memory.
DeviceRequest(l) ==
    /\ Serve
    /\ dev' = IF Ready(l) THEN [dev EXCEPT ![l].memory = "command"] ELSE dev
    /\ UNCHANGED <<failed, supply, failing, adcs, history>>

\* ADCS_DEVICE_SET_MODE_CMD: the controller is active in every mode but 0.
SetMode(m) ==
    /\ "adcs" \in Loads /\ Serve
    /\ \/ /\ Ready("adcs")
          /\ dev' = [dev EXCEPT !["adcs"].memory = "command"]
          /\ adcs' = [mode |-> m, armed |-> FALSE, pending |-> adcs.pending \/ m = 0]
       \/ ~Ready("adcs") /\ UNCHANGED <<dev, adcs>>
    /\ UNCHANGED <<failed, supply, failing, history>>

\* The workers have quiesced; a failed component fails COMMIT.
EndExecute == /\ phase = "execute"
              /\ phase' = IF failed THEN "dead" ELSE "backdoor"
              /\ UNCHANGED <<at, tick, asked, failed, supply, failing, dev, adcs, out, history>>

-----------------------------------------------------------------------------
(***************************************************************************)
(* process_backdoor_once: at most one datagram, for the EPS or for DEMO.   *)
(***************************************************************************)
Backdoor(next) == /\ phase = "backdoor" /\ phase' = next /\ at' = 0
                  /\ UNCHANGED <<tick, asked, failed, adcs, out>>

NoBackdoor == Backdoor("power") /\ UNCHANGED <<supply, failing, dev, history>>

BackdoorSwitch(s, on) == /\ Backdoor("power")
                         /\ UNCHANGED fault
                         /\ QueueSwitch(s, on)
                         /\ UNCHANGED <<failing, dev>>

BackdoorFault(s, f) == /\ Backdoor("power")
                       /\ fault' = [fault EXCEPT ![s] = f]
                       /\ QueueSwitch(s, requested[s])
                       /\ UNCHANGED <<failing, dev>>

BackdoorFail(r) == /\ Backdoor("power")
                   /\ failing' = [left |-> 1, which |-> r]
                   /\ UNCHANGED <<supply, dev, history>>

BackdoorDemo == /\ "demo" \in Loads /\ Backdoor("power")
                /\ dev' = [dev EXCEPT !["demo"].memory = "backdoor"]
                /\ UNCHANGED <<supply, failing, history>>

\* CLEAR_FAULTS and RESET go through the switches one after the other.
BackdoorLoop(next) == /\ Backdoor(next)
                      /\ failing' = [left |-> 0, which |-> "any"]
                      /\ UNCHANGED <<supply, dev, history>>

Looping(p) == phase = p /\ UNCHANGED <<tick, asked, failed, failing, dev, adcs, out>>

NextSwitch == /\ at' = IF at + 1 < SwitchCount THEN at + 1 ELSE 0
              /\ phase' = IF at + 1 < SwitchCount THEN
                            IF phase = "clear" THEN "clear" ELSE "reset" ELSE "power"

ClearFault == /\ Looping("clear")
              /\ fault' = [fault EXCEPT ![at] = 0]
              /\ QueueSwitch(at, requested[at])
              /\ \/ ~overflow' /\ NextSwitch
                 \/ overflow' /\ phase' = "power" /\ UNCHANGED at

\* restore_model returns when a reset transition finds the queue full, and
\* ignores queue_switch's result.
ResetLoad == /\ Looping("reset")
             /\ fault' = [fault EXCEPT ![at] = 0]
             /\ touched' = touched \cup {at}
             /\ \/ /\ Len(queue) < MaxTransitions
                   /\ queue' = Append(queue, ResetOf(at))
                   /\ phase' = "resetOff"
                   /\ UNCHANGED overflow
                \/ /\ Len(queue) >= MaxTransitions
                   /\ overflow' = TRUE
                   /\ phase' = "power"
                   /\ UNCHANGED queue
             /\ UNCHANGED <<at, requested, effective, level, rises, onAt>>

ResetOff == /\ Looping("resetOff") /\ phase' = "resetOn"
            /\ UNCHANGED <<at, fault>>
            /\ QueueSwitch(at, FALSE)

ResetOn == /\ Looping("resetOn") /\ NextSwitch
           /\ UNCHANGED fault
           /\ QueueSwitch(at, Startup[at])

-----------------------------------------------------------------------------
\* Fault: a load starts anew each time it is configured.
ConfiguredAnew(d) == [d EXCEPT !.supply = FALSE]

(***************************************************************************)
(* director_commit_power.  Each load is configured again, which leaves a   *)
(* managed load as it is, and the transitions are applied in their order.  *)
(* What else fails, a consumer that is missing, and what a first call does *)
(* besides, setting the loads to the rails they start with, belong to the  *)
(* call that loads the components (simulith_director.c 609), before the    *)
(* first tick.                                                             *)
(***************************************************************************)
Configured(d) == d

\* Fault: an overflow that a backdoor caused goes unseen.
StartPowerAnyway ==
    /\ phase = "power" /\ phase' = "applying"
    /\ dev' = [l \in Loads |-> Configured(dev[l])]
    /\ at' = 1
    /\ UNCHANGED <<tick, asked, failed, supply, failing, adcs, out, history>>

StartPower ==
    /\ phase = "power"
    /\ phase' = IF overflow THEN "dead" ELSE "applying"
    /\ dev' = IF overflow THEN dev ELSE [l \in Loads |-> Configured(dev[l])]
    /\ at' = 1
    /\ UNCHANGED <<tick, asked, failed, supply, failing, adcs, out, history>>

\* Fault: a load that comes back keeps its old boot deadline.
PowerSetWarm(d, on) ==
    IF d.supply = on THEN d
    ELSE [d EXCEPT !.supply = on, !.memory = "clear",
                   !.cycles = IF on THEN @ + 1 ELSE @]

\* demo_power_set, adcs_power_set: only a real edge boots and clears a load.
PowerSet(d, on) ==
    IF d.supply = on THEN d
    ELSE [supply |-> on, memory |-> "clear",
          readyAt |-> IF on THEN tick + BootDelay ELSE d.readyAt,
          cycles |-> IF on THEN d.cycles + 1 ELSE d.cycles]

\* demo_power_reset, adcs_power_reset: the supply and its history stay.
PowerReset(d) == [d EXCEPT !.memory = "clear"]

ApplyTransition ==
    /\ phase = "applying" /\ at <= Len(queue)
    /\ LET t   == queue[at]
           fed == {l \in Loads : Rail[l] = t.switch}
       IN  /\ effective' = IF t.reset THEN effective
                           ELSE [effective EXCEPT ![t.switch] = t.on]
           /\ dev' = [l \in Loads |-> IF l \notin fed THEN dev[l]
                                      ELSE IF t.reset THEN PowerReset(dev[l])
                                      ELSE PowerSet(dev[l], t.on)]
           /\ adcs' = IF "adcs" \in fed /\ (t.reset \/ dev["adcs"].supply # t.on)
                      THEN [mode |-> 0, armed |-> FALSE, pending |-> TRUE]
                      ELSE adcs
    /\ at' = at + 1
    /\ UNCHANGED <<phase, tick, asked, failed, requested, fault, queue, overflow,
                   failing, out, history>>

EndPower == /\ phase = "applying" /\ at > Len(queue)
            /\ queue' = <<>> /\ phase' = "actuate" /\ at' = 0
            /\ touched' = {}
            /\ UNCHANGED <<tick, asked, failed, requested, effective, fault, overflow,
                           failing, dev, adcs, out, level, rises, onAt>>

\* Fault: readiness is checked before the pending zeros.
ActuateReadyOnly ==
    /\ phase = "actuate" /\ phase' = "committed"
    /\ \/ /\ Ready("adcs") /\ adcs.pending
          /\ out' = "zero" /\ adcs' = [adcs EXCEPT !.pending = FALSE]
       \/ /\ Ready("adcs") /\ ~adcs.pending /\ adcs.mode # 0
          /\ adcs' = [adcs EXCEPT !.armed = TRUE]
          /\ out' \in IF adcs.armed THEN {out, "control"} ELSE {out}
       \/ /\ ~Ready("adcs") \/ (~adcs.pending /\ adcs.mode = 0)
          /\ UNCHANGED <<adcs, out>>
    /\ UNCHANGED <<at, tick, asked, failed, supply, failing, dev, history>>

(***************************************************************************)
(* ACTUATE of the ADCS.  Zeros pending from a reset or from mode 0 go out  *)
(* first, powered or not.  An active controller first sets its deadline,   *)
(* and afterwards commands the actuators when the deadline has passed.     *)
(***************************************************************************)
Actuate ==
    /\ phase = "actuate" /\ phase' = "committed"
    /\ \/ adcs.pending /\ out' = "zero" /\ adcs' = [adcs EXCEPT !.pending = FALSE]
       \/ /\ ~adcs.pending /\ adcs.mode # 0 /\ Ready("adcs")
          /\ adcs' = [adcs EXCEPT !.armed = TRUE]
          /\ out' \in IF adcs.armed THEN {out, "control"} ELSE {out}
       \/ /\ ~adcs.pending
          /\ adcs.mode = 0 \/ ~Ready("adcs")
          /\ UNCHANGED <<adcs, out>>
    /\ UNCHANGED <<at, tick, asked, failed, supply, failing, dev, history>>

\* A command that 42 does not take, while others of its group may have arrived,
\* fails ACTUATE and with it the tick; the zeros stay pending.
ActuateFails ==
    /\ phase = "actuate" /\ phase' = "dead"
    /\ \/ adcs.pending /\ UNCHANGED out
       \/ /\ ~adcs.pending /\ adcs.armed /\ adcs.mode # 0 /\ Ready("adcs")
          /\ out' \in {out, "control"}
    /\ UNCHANGED <<at, tick, asked, failed, supply, failing, dev, adcs, history>>

NextTick == /\ phase = "committed"
            /\ tick' = IF tick < MaxTicks THEN tick + 1 ELSE tick
            /\ phase' = IF tick < MaxTicks THEN "execute" ELSE "done"
            /\ asked' = 0
            /\ UNCHANGED <<at, failed, supply, failing, dev, adcs, out, history>>

Next == \/ \E r \in {"hk", "on", "off"} : RequestFails(r)
        \/ \E r \in {"on", "off"}, s \in Switches : SwitchRequest(r, s)
        \/ \E l \in Loads : DeviceRequest(l)
        \/ \E m \in {0, 1} : SetMode(m)
        \/ EndExecute
        \/ NoBackdoor \/ BackdoorDemo
        \/ \E s \in Switches, on \in BOOLEAN : BackdoorSwitch(s, on)
        \/ \E s \in Switches, f \in 0..2 : BackdoorFault(s, f)
        \/ \E r \in {"any", "on"} : BackdoorFail(r)
        \/ \E p \in {"clear", "reset"} : BackdoorLoop(p)
        \/ ClearFault \/ ResetLoad \/ ResetOff \/ ResetOn
        \/ StartPower \/ ApplyTransition \/ EndPower
        \/ Actuate \/ ActuateFails \/ NextTick

Spec == Init /\ [][Next]_vars

-----------------------------------------------------------------------------
Phases == {"execute", "backdoor", "clear", "reset", "resetOff", "resetOn", "power",
           "applying", "actuate", "committed", "dead", "done"}

DirectorTypes ==
    /\ phase \in Phases /\ at \in Nat /\ tick \in 0..MaxTicks /\ asked \in 0..MaxRequests
    /\ failed \in BOOLEAN

SupplyTypes ==
    /\ requested \in [Switches -> BOOLEAN] /\ effective \in [Switches -> BOOLEAN]
    /\ fault \in [Switches -> 0..2] /\ overflow \in BOOLEAN
    /\ queue \in Seq([switch : Switches, on : BOOLEAN, reset : BOOLEAN])
    /\ Len(queue) <= MaxTransitions
    /\ failing \in [left : 0..1, which : {"any", "on"}]

LoadTypes ==
    /\ dev \in [Loads -> [supply : BOOLEAN, memory : {"clear", "command", "backdoor"},
                          readyAt : Nat, cycles : Nat]]
    /\ adcs \in [mode : {0, 1}, armed : BOOLEAN, pending : BOOLEAN]
    /\ out \in {"zero", "control"}

HistoryTypes ==
    /\ level \in [Switches -> BOOLEAN] /\ rises \in [Switches -> Nat]
    /\ touched \subseteq Switches /\ onAt \in [Switches -> 0..MaxTicks]

TypeOK == DirectorTypes /\ SupplyTypes /\ LoadTypes /\ HistoryTypes

Applied == phase \in {"actuate", "committed"}

(***************************************************************************)
(* After the transitions of a COMMIT every rail is in the state its last   *)
(* request and its present fault call for, and so is every load on it:     *)
(* whatever the order of requests, faults, CLEAR_FAULTS and RESET, and     *)
(* whatever the queue already held (queue_switch 60-81,                    *)
(* director_commit_power 255-268).                                         *)
(***************************************************************************)
RailFollowsRequest ==
    Applied => /\ \A s \in Switches : effective[s] = Forced(fault[s], requested[s])
               /\ \A l \in Loads : dev[l].supply = effective[Rail[l]]

(***************************************************************************)
(* "An OFF then ON within one tick still power cycles the load" (eps       *)
(* README 160): a load has gone through as many power cycles as its rail   *)
(* was driven from off to on, none merged and none added.                  *)
(***************************************************************************)
OffOnPowerCycles == Applied => \A l \in Loads : dev[l].cycles = rises[Rail[l]]

(***************************************************************************)
(* "An ON applied to an already powered load preserves its state and boot  *)
(* deadline" (eps README 161), and so does the configuration that every    *)
(* COMMIT repeats: director_commit_power changes no load whose rail was    *)
(* neither driven to another state nor reset since the last COMMIT.        *)
(***************************************************************************)
UndisturbedPreserved ==
    [][\A l \in Loads : phase \in {"power", "applying"} /\ Rail[l] \notin touched
                          => UNCHANGED dev[l]]_vars

(***************************************************************************)
(* What a load's memory holds of a device command was executed in the      *)
(* present power cycle and after its boot delay: neither the memory nor    *)
(* the deadline of an earlier cycle survives one.                          *)
(***************************************************************************)
ExecutedOnlyBooted ==
    Applied => \A l \in Loads :
        dev[l].memory = "command" => /\ dev[l].supply
                                     /\ tick >= onAt[Rail[l]] + BootDelay

(***************************************************************************)
(* When a COMMIT is over and the ADCS is unpowered, booting or disabled,   *)
(* the last actuator command 42 has is zero wheel torque and zero dipole   *)
(* (eps README 164; adcs_sim_component_actuate 1121-1130).                 *)
(***************************************************************************)
ActuatorsZeroWhenInactive ==
    phase = "committed" /\ "adcs" \in Loads /\ (adcs.mode = 0 \/ ~Ready("adcs"))
        => out = "zero"

(***************************************************************************)
(* A queue that overflowed is never applied, not even in part: what it     *)
(* lost cannot be told from what it holds (director_commit_power 242).     *)
(***************************************************************************)
OverflowNeverApplied ==
    [][overflow => /\ UNCHANGED <<effective, out>>
                   /\ \A l \in Loads : dev'[l].supply = dev[l].supply]_vars
=============================================================================
