------------------------------ MODULE FlightApps ------------------------------
(***************************************************************************)
(* The flight applications together: each alone in its task, any of them   *)
(* killed at any step and started anew with its process.                   *)
(***************************************************************************)
EXTENDS AdcsApp, RadioApp

CONSTANT MaxBoots  \* bound: the restarts of the flight process, for each application

ASSUME BootsAssumption == MaxBoots \in [Apps -> Nat]

VARIABLE boots

vars == <<appVars, adcsVars, radioVars, boots>>

Init == app \in Apps /\ AppInit /\ AdcsInit /\ RadioInit /\ boots = 0

\* The device, the time file and the ground outlive the process; what the
\* radio's application held is lost, and with a part of a frame the stream is
\* damaged.
Boot ==
    /\ boots < MaxBoots[app] /\ boots' = boots + 1 /\ AppStarts
    /\ TablesStart /\ TimeStarts
    /\ RadioStarts /\ Uplink(<<>>, ring, next, damaged \/ buffer # <<>>)
    /\ Lose(held \o frame.packets)

Next ==
    \/ DeviceNext /\ UNCHANGED <<adcsVars, radioVars, boots>>
    \/ AdcsNext   /\ UNCHANGED <<radioVars, boots>>
    \/ RadioNext  /\ UNCHANGED <<adcsVars, boots>>
    \/ Boot

\* A task that is not waiting for a packet goes on; cFS schedules every task.
Fairness ==
    /\ WF_vars(ServiceStep /\ UNCHANGED <<adcsVars, boots>>)
    /\ WF_vars(FileStep /\ UNCHANGED <<radioVars, boots>>)

Spec == Init /\ [][Next]_vars /\ Fairness

-----------------------------------------------------------------------------
\* Each variable has its type; a device that is enabled has its interfaces open,
\* also after one that failed to close.
TypeOK == AppTypes /\ AdcsTypes /\ RadioTypes /\ boots \in 0..MaxBoots[app]

\* "Count the rejected packet once, even when it violates more than one
\* validation rule" (demo_app.c 620): every command is counted once, as a
\* success or as an error, and nothing else is counted as one (RADIO_Configure
\* counts a packet that is wrong in two ways twice). And a success that is counted
\* is one: after ADCS_CONFIG_CC the device has the table that was loaded last,
\* whatever failed before. The commands that are forwarded are the exception
\* that DeviceTransport shows.
CountersTruthful ==
    step = "idle" =>
        /\ counted.cmd + counted.cmdErr \in
              IF message = "request" THEN {0} ELSE IF app = "radio" THEN {1, 2} ELSE {1}
        /\ message # "forward" => executed

\* A task always comes back to its pipe: no packet, no loss on a link and no
\* failing call keeps a service or an access to the time file going for ever.
TaskReturns == (step \notin {"idle", "exited"}) ~> (step \in {"idle", "exited"})
=============================================================================
