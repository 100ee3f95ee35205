------------------------------ MODULE DeviceApp ------------------------------
(***************************************************************************)
(* The command handling the flight applications of the components have in  *)
(* common (demo_app.c, eps_app.c, adcs_app.c, radio_app.c). Each is a cFS  *)
(* task that takes one packet from its pipe, handles it to the end and     *)
(* waits for the next; the tasks share nothing, so a behaviour is that of  *)
(* one of them, app. Executive, software bus and hardware library are      *)
(* external.                                                               *)
(***************************************************************************)
EXTENDS Naturals

CONSTANT Apps  \* the applications a behaviour may be of

ASSUME AppsAssumption == Apps \subseteq {"demo", "eps", "adcs", "radio"}

VARIABLES app,
          step,      \* where its task is; "idle" waits for a packet
          enabled,   \* HkTelemetryPkt.DeviceEnabled
          open,      \* whether its interfaces (SPI, power and interrupt of the
                     \* radio; one UART or I2C bus of the others) are all open
          message,   \* history: whether the packet handled last is a "command", a
                     \* "request", or a command to "forward" to the device
          counted,   \* what handling it has added to the four counters
          executed   \* history: what handling it counts as a success was done

appVars == <<app, step, enabled, open, message, counted, executed>>

Nothing     == [cmd |-> 0, cmdErr |-> 0, dev |-> 0, devErr |-> 0]
Rejection   == [Nothing EXCEPT !.cmdErr = 1]
Acceptance  == [Nothing EXCEPT !.cmd = 1]
Polled(ok)   == IF ok THEN [Nothing EXCEPT !.dev = 1] ELSE [Nothing EXCEPT !.devErr = 1]
Accepted(ok) == [Polled(ok) EXCEPT !.cmd = 1]

\* One exchange with the device: what is reported as a success was executed
\* (DeviceTransport), an error says nothing. ADCS_CommandDevice is worse: it
\* takes a command it could not write for a success.
Exchange  == {x \in [ok : BOOLEAN, done : BOOLEAN] : x.ok => x.done}
Forwarded == [ok : BOOLEAN, done : BOOLEAN]

\* EPS opens its bus at once, and counts an error if it does not open.
Started(opened) == IF app = "eps" /\ ~opened THEN Polled(FALSE) ELSE Nothing

\* The application has reset its data, its own device is not yet open.
AppInit ==
    /\ enabled = FALSE /\ message = "request" /\ executed = TRUE
    /\ open \in {FALSE, app = "eps"} /\ counted = Started(open)
    /\ step = (IF app = "adcs" THEN "load" ELSE "idle")

\* The same in a new process.
AppStarts ==
    /\ enabled' = FALSE /\ message' = "request" /\ executed' = TRUE
    /\ open' \in {FALSE, app = "eps"} /\ counted' = Started(open')
    /\ step' = (IF app = "adcs" THEN "load" ELSE "idle") /\ UNCHANGED app

Handle(m) == step = "idle" /\ message' = m /\ UNCHANGED app

Reject ==
    /\ Handle("command") /\ counted' = Rejection /\ executed' = TRUE
    /\ UNCHANGED <<step, enabled, open>>

\* A packet of an unknown identifier, command code or length.
BadPacket == Reject

Noop ==
    /\ Handle("command") /\ counted' = Acceptance /\ executed' = TRUE
    /\ UNCHANGED <<step, enabled, open>>

\* All four counters are zero; the reset itself is not counted.
ResetCounters ==
    /\ Handle("request") /\ counted' = Nothing /\ executed' = TRUE
    /\ UNCHANGED <<step, enabled, open>>

\* DEMO_Enable, ADCS_Enable.
EnableUart ==
    /\ app \in {"demo", "adcs"} /\ ~enabled /\ Handle("command")
    /\ \E ok \in BOOLEAN : /\ enabled' = ok /\ open' = ok /\ counted' = Accepted(ok)
    /\ executed' = TRUE /\ UNCHANGED step

EnableAgain == app # "eps" /\ enabled /\ Reject

\* Fault: a port that did not close is taken for closed.
CloseUartForgets(closed) == enabled' = ~closed /\ open' = FALSE

\* DEMO_Disable, ADCS_Disable: enabled still if the port does not close.
CloseUart(closed) == enabled' = ~closed /\ open' = ~closed

DisableUart ==
    /\ app \in {"demo", "adcs"} /\ enabled /\ Handle("command")
    /\ \E closed \in BOOLEAN : CloseUart(closed) /\ counted' = Accepted(closed)
    /\ executed' = TRUE /\ UNCHANGED step

DisableAgain == app # "eps" /\ ~enabled /\ Reject

\* DEMO_Configure.
ConfigureDemo ==
    /\ app = "demo" /\ Handle("command")
    /\ \E valid \in BOOLEAN :
          IF enabled /\ valid
          THEN \E ok \in BOOLEAN : counted' = Accepted(ok)
          ELSE counted' = Rejection
    /\ executed' = TRUE /\ UNCHANGED <<step, enabled, open>>

\* EPS_SetSwitchOn, EPS_SetSwitchOff, of a switch that exists and may be
\* switched, or of another. EPS_SetSwitch needs an open bus.
Switch ==
    /\ app = "eps" /\ Handle("command")
    /\ \/ \E ok \in {FALSE, open} : counted' = Accepted(ok)
       \/ counted' = Rejection
    /\ executed' = TRUE /\ UNCHANGED <<step, enabled, open>>

\* ReportHousekeeping of DEMO and EPS, ReportDeviceTelemetry of DEMO and ADCS:
\* a device that is disabled is not asked and no error is counted.
Poll ==
    /\ Handle("request")
    /\ IF enabled \/ app = "eps"
       THEN \E ok \in {FALSE, open} : counted' = Polled(ok)
       ELSE counted' = Nothing
    /\ executed' = TRUE /\ UNCHANGED <<step, enabled, open>>

PollHousekeeping == app \in {"demo", "eps"} /\ Poll
PollData         == app \in {"demo", "adcs"} /\ Poll

\* The main loop ends and closes the device, as the command does; EPS leaves
\* its bus open.
Exit ==
    /\ step = "idle" /\ step' = "exited" /\ app # "radio"
    /\ IF app \in {"demo", "adcs"} /\ enabled
       THEN \E closed \in BOOLEAN : CloseUart(closed)
       ELSE UNCHANGED <<enabled, open>>
    /\ UNCHANGED <<app, message, counted, executed>>

DeviceNext ==
    \/ BadPacket \/ Noop \/ ResetCounters
    \/ (app = "demo" /\ EnableUart) \/ EnableAgain \/ DisableUart \/ DisableAgain
    \/ ConfigureDemo \/ Switch \/ PollHousekeeping \/ PollData \/ Exit

-----------------------------------------------------------------------------
Steps == {"idle", "exited", "load", "persist", "persist_write", "save_write",
          "receive", "parse", "downlink", "fill", "complete"}

AppTypes ==
    /\ app \in Apps /\ step \in Steps /\ enabled \in BOOLEAN /\ open \in BOOLEAN
    /\ counted \in [cmd : 0..1, cmdErr : 0..2, dev : Nat, devErr : Nat]
    /\ executed \in BOOLEAN
    /\ enabled => open
=============================================================================
