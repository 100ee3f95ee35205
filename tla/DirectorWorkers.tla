--------------------------- MODULE DirectorWorkers ---------------------------
(***************************************************************************)
(* The Director's phase callbacks and its component workers                *)
(* (simulith_director.c).  One thread per component waits for flight       *)
(* requests all the time; the Director's own thread opens service for      *)
(* EXECUTE, closes it at COMMIT, and runs PREPARE and ACTUATE with no      *)
(* service under way.  They share tick_mutex and one condition variable,   *)
(* tick_cond.  A section under tick_mutex is one step, cut where it waits. *)
(***************************************************************************)
EXTENDS Integers, FiniteSets

CONSTANTS Workers,      \* the components that have a service callback
          Director,     \* the Director's main thread
          WaitFaults,      \* components whose wait_for_service may fail
          ServiceFaults,   \* components whose service may fail
          CallbackFaults,  \* components whose on_tick or actuate may fail
          ExchangeFaults   \* whether startup, 42, power or the command
                           \* queue may fail

ASSUME WorkersAssumption == IsFiniteSet(Workers) /\ Director \notin Workers
ASSUME FaultsAssumption == /\ WaitFaults \subseteq Workers
                           /\ ServiceFaults \subseteq Workers
                           /\ CallbackFaults \subseteq Workers
                           /\ ExchangeFaults \in BOOLEAN

VARIABLES
    dpc,            \* where the Director's thread is
    wpc,            \* where each worker is
    asleep,         \* the threads waiting on tick_cond
    signalled,      \* component_interrupt_fds: the eventfd is readable
    threadsExit,    \* threads_exit
    executeActive,  \* execute_active
    pending,        \* pending_service_callbacks
    active,         \* active_service_callbacks
    failed          \* components with phase_status = COMPONENT_ERROR

counters == <<pending, active>>
flags    == <<threadsExit, executeActive>>
vars     == <<dpc, wpc, asleep, signalled, flags, counters, failed>>

(***************************************************************************)
(* The Director is at "idle", "prepared" or "executed" while it waits for  *)
(* the server's next phase.                                                *)
(***************************************************************************)
DirectorSteps == {"starting", "idle", "fetched", "on_tick", "prepared", "admitting",
                  "executed", "quiescing", "quiet", "actuated", "cleanup",
                  "joining", "destroyed"}
WorkerSteps == {"unstarted", "waiting", "ready", "interrupted", "wait_failed",
                "parked", "serving", "exited", "dead_wait", "dead_service"}

Gone == {"unstarted", "exited", "dead_wait", "dead_service"}

Init == /\ dpc = "starting"
        /\ wpc = [w \in Workers |-> "unstarted"]
        /\ asleep = {}
        /\ signalled = [w \in Workers |-> FALSE]
        /\ threadsExit = FALSE
        /\ executeActive = FALSE
        /\ pending = 0 /\ active = 0
        /\ failed = {}

\* pthread_cond_broadcast(&tick_cond); then the caller may wait itself.
Broadcast == asleep' = {}
BroadcastThenWait(t) == asleep' = {t}
Awake(t) == t \notin asleep

-----------------------------------------------------------------------------
(***************************************************************************)
(* initialize_components starts the workers; a failure ends the Director.  *)
(***************************************************************************)
StartWorker(w) ==
    /\ dpc = "starting" /\ wpc[w] = "unstarted"
    /\ wpc' = [wpc EXCEPT ![w] = "waiting"]
    /\ UNCHANGED <<dpc, asleep, signalled, flags, counters, failed>>

Started ==
    /\ dpc = "starting" /\ \A w \in Workers : wpc[w] # "unstarted"
    /\ dpc' = "idle"
    /\ UNCHANGED <<wpc, asleep, signalled, flags, counters, failed>>

StartFails ==
    /\ dpc = "starting" /\ ExchangeFaults
    /\ dpc' = "cleanup"
    /\ UNCHANGED <<wpc, asleep, signalled, flags, counters, failed>>

-----------------------------------------------------------------------------
(***************************************************************************)
(* A worker.  wait_for_service returns with a request, with the            *)
(* interruption (whose eventfd it drains), or with an error.               *)
(***************************************************************************)
RequestArrives(w) ==
    /\ wpc[w] = "waiting" /\ ~signalled[w]
    /\ wpc' = [wpc EXCEPT ![w] = "ready"]
    /\ UNCHANGED <<dpc, asleep, signalled, flags, counters, failed>>

WaitInterrupted(w) ==
    /\ wpc[w] = "waiting" /\ signalled[w]
    /\ wpc' = [wpc EXCEPT ![w] = "interrupted"]
    /\ signalled' = [signalled EXCEPT ![w] = FALSE]
    /\ UNCHANGED <<dpc, asleep, flags, counters, failed>>

WaitFails(w) ==
    /\ wpc[w] = "waiting" /\ w \in WaitFaults
    /\ wpc' = [wpc EXCEPT ![w] = "wait_failed"]
    /\ UNCHANGED <<dpc, asleep, signalled, flags, counters, failed>>

\* threads_exit is looked at first, whatever the wait returned.
ExitAfterWait(w) ==
    /\ wpc[w] \in {"ready", "interrupted", "wait_failed"} /\ threadsExit
    /\ wpc' = [wpc EXCEPT ![w] = "exited"]
    /\ UNCHANGED <<dpc, asleep, signalled, flags, counters, failed>>

ReportWaitFailure(w) ==
    /\ wpc[w] = "wait_failed" /\ ~threadsExit
    /\ failed' = failed \cup {w}
    /\ wpc' = [wpc EXCEPT ![w] = "dead_wait"]
    /\ Broadcast
    /\ UNCHANGED <<dpc, signalled, flags, counters>>

\* A request seen outside EXECUTE parks the worker.
Park(w) ==
    /\ wpc[w] = "ready" /\ ~threadsExit /\ ~executeActive
    /\ pending' = pending + 1
    /\ wpc' = [wpc EXCEPT ![w] = "parked"]
    /\ BroadcastThenWait(w)
    /\ UNCHANGED <<dpc, signalled, flags, active, failed>>

ServeAtOnce(w) ==
    /\ wpc[w] = "ready" /\ ~threadsExit /\ executeActive
    /\ active' = active + 1
    /\ wpc' = [wpc EXCEPT ![w] = "serving"]
    /\ Broadcast
    /\ UNCHANGED <<dpc, signalled, flags, pending, failed>>

\* A parked worker wakes: admitted, told to exit, or back to sleep.
AdmitParked(w) ==
    /\ wpc[w] = "parked" /\ Awake(w) /\ ~threadsExit /\ executeActive
    /\ pending' = pending - 1
    /\ active' = active + 1
    /\ wpc' = [wpc EXCEPT ![w] = "serving"]
    /\ Broadcast
    /\ UNCHANGED <<dpc, signalled, flags, failed>>

ExitParked(w) ==
    /\ wpc[w] = "parked" /\ Awake(w) /\ threadsExit
    /\ pending' = pending - 1
    /\ wpc' = [wpc EXCEPT ![w] = "exited"]
    /\ UNCHANGED <<dpc, asleep, signalled, flags, active, failed>>

SleepParked(w) ==
    /\ wpc[w] = "parked" /\ Awake(w) /\ ~threadsExit /\ ~executeActive
    /\ asleep' = asleep \cup {w}
    /\ UNCHANGED <<dpc, wpc, signalled, flags, counters, failed>>

\* Fault: nobody is told that a service has ended.
ServiceReturnsSilently(w) ==
    /\ wpc[w] = "serving"
    /\ active' = active - 1
    /\ wpc' = [wpc EXCEPT ![w] = "waiting"]
    /\ UNCHANGED <<dpc, asleep, signalled, flags, pending, failed>>

\* service returns; the contract bounds it to the current tick.
ServiceReturns(w) ==
    /\ wpc[w] = "serving"
    /\ active' = active - 1
    /\ wpc' = [wpc EXCEPT ![w] = "waiting"]
    /\ Broadcast
    /\ UNCHANGED <<dpc, signalled, flags, pending, failed>>

ServiceFails(w) ==
    /\ wpc[w] = "serving" /\ w \in ServiceFaults
    /\ active' = active - 1
    /\ failed' = failed \cup {w}
    /\ wpc' = [wpc EXCEPT ![w] = "dead_service"]
    /\ Broadcast
    /\ UNCHANGED <<dpc, signalled, flags, pending>>

-----------------------------------------------------------------------------
(***************************************************************************)
(* director_prepare_tick.                                                  *)
(***************************************************************************)
FetchState ==
    /\ dpc = "idle"
    /\ \/ dpc' = "fetched"
       \/ ExchangeFaults /\ dpc' = "cleanup"
    /\ UNCHANGED <<wpc, asleep, signalled, flags, counters, failed>>

ResetStatus ==
    /\ dpc = "fetched"
    /\ failed' = {}
    /\ dpc' = "on_tick"
    /\ UNCHANGED <<wpc, asleep, signalled, flags, counters>>

OnTick ==
    /\ dpc = "on_tick"
    /\ \/ \E errors \in SUBSET CallbackFaults :
            /\ failed' = failed \cup errors
            /\ dpc' = IF failed' = {} THEN "prepared" ELSE "cleanup"
       \/ ExchangeFaults /\ dpc' = "cleanup" /\ UNCHANGED failed
    /\ UNCHANGED <<wpc, asleep, signalled, flags, counters>>

(***************************************************************************)
(* director_execute_tick: open service, then wait until every parked       *)
(* request has been admitted.                                              *)
(***************************************************************************)
OpenService ==
    /\ dpc = "prepared"
    /\ executeActive' = TRUE
    /\ Broadcast
    /\ dpc' = "admitting"
    /\ UNCHANGED <<wpc, signalled, threadsExit, counters, failed>>

\* Fault: EXECUTE is acknowledged before the parked requests are admitted.
AllAdmittedAtOnce ==
    /\ dpc = "admitting" /\ Awake(Director)
    /\ dpc' = "executed"
    /\ UNCHANGED <<wpc, asleep, signalled, flags, counters, failed>>

AllAdmitted ==
    /\ dpc = "admitting" /\ Awake(Director)
    /\ pending = 0
    /\ dpc' = "executed"
    /\ UNCHANGED <<wpc, asleep, signalled, flags, counters, failed>>

AwaitAdmission ==
    /\ dpc = "admitting" /\ Awake(Director)
    /\ pending # 0
    /\ asleep' = asleep \cup {Director}
    /\ UNCHANGED <<dpc, wpc, signalled, flags, counters, failed>>

(***************************************************************************)
(* director_commit_tick: close service, wait until none is under way, then *)
(* power transitions, backdoors and actuators, then the 42 exchange.       *)
(***************************************************************************)
\* Fault: service stays open during COMMIT.
CloseServiceLate ==
    /\ dpc = "executed"
    /\ dpc' = "quiescing"
    /\ UNCHANGED <<wpc, asleep, signalled, flags, counters, failed>>

CloseService ==
    /\ dpc = "executed"
    /\ executeActive' = FALSE
    /\ dpc' = "quiescing"
    /\ UNCHANGED <<wpc, asleep, signalled, threadsExit, counters, failed>>

\* Fault: COMMIT does not wait for the services under way.
QuiescedAtOnce ==
    /\ dpc = "quiescing" /\ Awake(Director)
    /\ dpc' = "quiet"
    /\ UNCHANGED <<wpc, asleep, signalled, flags, counters, failed>>

Quiesced ==
    /\ dpc = "quiescing" /\ Awake(Director)
    /\ active = 0
    /\ dpc' = "quiet"
    /\ UNCHANGED <<wpc, asleep, signalled, flags, counters, failed>>

AwaitQuiescence ==
    /\ dpc = "quiescing" /\ Awake(Director)
    /\ active # 0
    /\ asleep' = asleep \cup {Director}
    /\ UNCHANGED <<dpc, wpc, signalled, flags, counters, failed>>

Actuate ==
    /\ dpc = "quiet"
    /\ IF failed # {}
       THEN dpc' = "cleanup" /\ UNCHANGED failed
       ELSE \/ \E errors \in SUBSET CallbackFaults :
                  failed' = failed \cup errors /\ dpc' = "actuated"
            \/ ExchangeFaults /\ dpc' = "cleanup" /\ UNCHANGED failed
    /\ UNCHANGED <<wpc, asleep, signalled, flags, counters>>

Commit ==
    /\ dpc = "actuated"
    /\ \/ failed = {} /\ dpc' = "idle"
       \/ (failed # {} \/ ExchangeFaults) /\ dpc' = "cleanup"
    /\ UNCHANGED <<wpc, asleep, signalled, flags, counters, failed>>

-----------------------------------------------------------------------------
(***************************************************************************)
(* The server stops the session between two phases; then                   *)
(* cleanup_components: exit flag, broadcast and interrupts under the       *)
(* mutex, join, and only then destroy.                                     *)
(***************************************************************************)
SessionStops ==
    /\ dpc \in {"idle", "prepared", "executed"}
    /\ dpc' = "cleanup"
    /\ UNCHANGED <<wpc, asleep, signalled, flags, counters, failed>>

ReleaseWorkers ==
    /\ dpc = "cleanup"
    /\ threadsExit' = TRUE
    /\ Broadcast
    /\ signalled' = [w \in Workers |-> TRUE]
    /\ dpc' = "joining"
    /\ UNCHANGED <<wpc, executeActive, counters, failed>>

Destroy ==
    /\ dpc = "joining" /\ \A w \in Workers : wpc[w] \in Gone
    /\ dpc' = "destroyed"
    /\ UNCHANGED <<wpc, asleep, signalled, flags, counters, failed>>

\* POSIX allows a condition wait to return with no broadcast.
SpuriousWake(t) ==
    /\ t \in asleep
    /\ asleep' = asleep \ {t}
    /\ UNCHANGED <<dpc, wpc, signalled, flags, counters, failed>>

Terminated == dpc = "destroyed" /\ UNCHANGED vars

-----------------------------------------------------------------------------
WorkerNext(w) ==
    \/ WaitInterrupted(w) \/ ExitAfterWait(w) \/ ReportWaitFailure(w)
    \/ Park(w) \/ ServeAtOnce(w) \/ AdmitParked(w) \/ ExitParked(w)
    \/ SleepParked(w) \/ ServiceReturns(w)

Environment(w) == RequestArrives(w) \/ WaitFails(w) \/ ServiceFails(w)

DirectorNext ==
    \/ Started \/ FetchState \/ ResetStatus \/ OnTick
    \/ OpenService \/ AllAdmitted \/ AwaitAdmission
    \/ CloseService \/ Quiesced \/ AwaitQuiescence \/ Actuate \/ Commit
    \/ ReleaseWorkers \/ Destroy
    \/ \E w \in Workers : StartWorker(w)

Next == \/ DirectorNext
        \/ StartFails
        \/ SessionStops
        \/ \E w \in Workers : WorkerNext(w) \/ Environment(w)
        \/ \E t \in Workers \cup {Director} : SpuriousWake(t)
        \/ Terminated

(***************************************************************************)
(* The Director's thread and every worker keep being scheduled and get the *)
(* mutex they ask for, and a service callback returns, as                  *)
(* simulith_component.h requires of it.  Nothing is assumed of requests,   *)
(* failures, spurious wakeups or the session's stop.                       *)
(***************************************************************************)
Fairness == /\ WF_vars(DirectorNext)
            /\ \A w \in Workers : WF_vars(WorkerNext(w))

Spec == Init /\ [][Next]_vars /\ Fairness

-----------------------------------------------------------------------------
Parked  == {w \in Workers : wpc[w] = "parked"}
Serving == {w \in Workers : wpc[w] = "serving"}

TypeOK ==
    /\ dpc \in DirectorSteps
    /\ wpc \in [Workers -> WorkerSteps]
    /\ asleep \subseteq Workers \cup {Director}
    /\ signalled \in [Workers -> BOOLEAN]
    /\ threadsExit \in BOOLEAN /\ executeActive \in BOOLEAN
    /\ pending \in Nat /\ active \in Nat
    /\ failed \subseteq Workers

(***************************************************************************)
(* The two counters the Director waits on count exactly the parked and the *)
(* serving workers, on every path a worker takes out of its loop           *)
(* (component_worker, 398-450): a leaked count would stall EXECUTE or      *)
(* COMMIT, a missing one would let them through early.                     *)
(***************************************************************************)
CountersMatch == pending = Cardinality(Parked) /\ active = Cardinality(Serving)

(***************************************************************************)
(* "COMMIT closes admission under this mutex and waits for every already   *)
(* admitted callback before ACTUATE" (simulith_director.c 394-397): no     *)
(* service callback runs while the Director's thread is in PREPARE or      *)
(* ACTUATE, between two ticks, or destroys the components.                 *)
(***************************************************************************)
QuietSteps == {"starting", "idle", "fetched", "on_tick", "prepared", "quiet",
               "actuated", "destroyed"}
Quiescent == dpc \in QuietSteps => Serving = {}

(***************************************************************************)
(* "A request observed between ticks must be admitted before EXECUTE is    *)
(* acknowledged" (1455-1458): when the Director acknowledges EXECUTE, no   *)
(* worker is left parked that had seen its request before.                 *)
(***************************************************************************)
AdmittedBeforeAck == dpc = "executed" => Parked = {}

(***************************************************************************)
(* A service error is latched (440-443) until the Director looks at it:    *)
(* the Director never goes on to another tick after one, whenever in       *)
(* EXECUTE or COMMIT the callback failed.                                  *)
(***************************************************************************)
Died(step) == \E w \in Workers : wpc[w] = step
TickSteps == {"idle", "fetched", "on_tick", "prepared"}
ServiceErrorWithheld == Died("dead_service") => dpc \notin TickSteps

(***************************************************************************)
(* "either callback may report an error, which is latched and prevents     *)
(* COMMIT" (comp/demo/README.md 106-107), for wait_for_service: once one   *)
(* has failed, no later COMMIT succeeds.                                   *)
(***************************************************************************)
WaitErrorPreventsCommit ==
    [][dpc = "actuated" /\ dpc' = "idle" => ~Died("dead_wait")]_vars

(***************************************************************************)
(* The Director never waits for ever: EXECUTE and COMMIT end, since neither *)
(* wait misses the broadcast that should end it and new requests do not    *)
(* prolong it, and cleanup joins every worker, whether it was waiting,     *)
(* parked, serving or dead when the session ended.                         *)
(***************************************************************************)
DirectorProceeds ==
    /\ (dpc \in {"admitting", "quiescing"}) ~>
       (dpc \notin {"admitting", "quiescing"})
    /\ (dpc = "cleanup") ~> (dpc = "destroyed")
=============================================================================
