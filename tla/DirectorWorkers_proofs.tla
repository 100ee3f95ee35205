------------------------ MODULE DirectorWorkers_proofs ------------------------
(***************************************************************************)
(* DirectorWorkers for any finite set of components and any faults: the    *)
(* counters, the quiescence of ACTUATE, the admission of parked requests   *)
(* and the latch of service errors hold in every reachable state.          *)
(***************************************************************************)
EXTENDS DirectorWorkers, FiniteSetTheorems, TLAPS

At(f, step) == {w \in Workers : f[w] = step}

(***************************************************************************)
(* The inductive invariant.  Doors says in which phases service is open;   *)
(* with it the Director's waits (pending = 0, active = 0) outlast the step *)
(* that tested them.                                                       *)
(***************************************************************************)
Doors == /\ executeActive => dpc \in {"admitting", "executed", "cleanup", "joining", "destroyed"}
         /\ dpc \in {"admitting", "executed"} => executeActive
         /\ dpc \in {"joining", "destroyed"} => threadsExit

Latched == \A w \in Workers : wpc[w] = "dead_service" =>
              \/ dpc \in {"admitting", "executed", "quiescing", "quiet"} /\ w \in failed
              \/ dpc \in {"cleanup", "joining", "destroyed"}

IInv == TypeOK /\ CountersMatch /\ Doors /\ Quiescent /\ AdmittedBeforeAck /\ Latched

-----------------------------------------------------------------------------
\* The workers at a step are finitely many.
LEMMA CountType ==
  ASSUME NEW f, NEW step
  PROVE  IsFiniteSet(At(f, step)) /\ Cardinality(At(f, step)) \in Nat
<1>1. At(f, step) \subseteq Workers  BY DEF At
<1> QED  BY <1>1, FS_Subset, FS_CardinalityType, WorkersAssumption

\* A worker that is at a step is counted there.
LEMMA CountPositive ==
  ASSUME NEW f, NEW w \in Workers
  PROVE  Cardinality(At(f, f[w])) > 0
<1>1. At(f, f[w]) # {}  BY DEF At
<1>2. Cardinality(At(f, f[w])) # 0  BY <1>1, CountType, FS_EmptySet
<1> QED  BY <1>2, CountType

\* How one worker's move changes the number of workers at a step.
LEMMA CountAfterMove ==
  ASSUME NEW f, DOMAIN f = Workers, NEW w \in Workers, NEW new, NEW step,
         NEW g, g = [f EXCEPT ![w] = new], new # f[w]
  PROVE  Cardinality(At(g, step)) =
           IF new = step THEN Cardinality(At(f, step)) + 1
           ELSE IF f[w] = step THEN Cardinality(At(f, step)) - 1
           ELSE Cardinality(At(f, step))
<1>1. CASE new = step
  <2>1. At(g, step) = At(f, step) \cup {w} /\ w \notin At(f, step)
    BY <1>1 DEF At
  <2> QED  BY <1>1, <2>1, FS_AddElement, CountType
<1>2. CASE new # step /\ f[w] = step
  <2>1. At(g, step) = At(f, step) \ {w} /\ w \in At(f, step)
    BY <1>2 DEF At
  <2> QED  BY <1>2, <2>1, FS_RemoveElement, CountType
<1>3. CASE new # step /\ f[w] # step
  <2>1. At(g, step) = At(f, step)
    BY <1>3 DEF At
  <2> QED  BY <1>3, <2>1
<1> QED  BY <1>1, <1>2, <1>3

\* The counters speak of At.
LEMMA CountersAt ==
  /\ CountersMatch <=> /\ pending = Cardinality(At(wpc, "parked"))
                       /\ active = Cardinality(At(wpc, "serving"))
  /\ CountersMatch' <=> /\ pending' = Cardinality(At(wpc', "parked"))
                        /\ active' = Cardinality(At(wpc', "serving"))
BY DEF CountersMatch, Parked, Serving, At

(***************************************************************************)
(* Types and counters are kept together: a decrement is safe because the   *)
(* worker that makes it is counted.                                        *)
(***************************************************************************)
LEMMA CountersStep ==
  TypeOK /\ CountersMatch /\ [Next]_vars => TypeOK' /\ CountersMatch'
<1> SUFFICES ASSUME TypeOK, CountersMatch, [Next]_vars
             PROVE  TypeOK' /\ CountersMatch'
  OBVIOUS
<1> USE FaultsAssumption
<1>1. ASSUME NEW w \in Workers, WorkerNext(w) \/ Environment(w) \/ StartWorker(w)
      PROVE  TypeOK' /\ CountersMatch'
  <2>1. \/ SleepParked(w)
        \/ \E new \in WorkerSteps :
             /\ wpc' = [wpc EXCEPT ![w] = new]
             /\ new # wpc[w]
             /\ pending' = IF new = "parked" THEN pending + 1
                           ELSE IF wpc[w] = "parked" THEN pending - 1 ELSE pending
             /\ active' = IF new = "serving" THEN active + 1
                          ELSE IF wpc[w] = "serving" THEN active - 1 ELSE active
    BY <1>1 DEF TypeOK, WorkerNext, Environment, StartWorker, RequestArrives, WaitFails,
       ServiceFails, WaitInterrupted, ExitAfterWait, ReportWaitFailure, Park,
       ServeAtOnce, AdmitParked, ExitParked, SleepParked, ServiceReturns,
       WorkerSteps, flags, counters
  <2>2. CountersMatch'
    <3>1. CASE SleepParked(w)
      BY <3>1, CountersAt DEF SleepParked, counters
    <3>2. CASE ~SleepParked(w)
      BY <2>1, <3>2, CountAfterMove, CountersAt DEF TypeOK
    <3> QED  BY <3>1, <3>2
  <2>3. pending' \in Nat /\ active' \in Nat
    BY <2>2, CountType, CountersAt
  <2>4. wpc' \in [Workers -> WorkerSteps]
    BY <2>1 DEF TypeOK, SleepParked
  <2>5. UNCHANGED <<dpc, executeActive, threadsExit>>
    BY <1>1 DEF WorkerNext, Environment, StartWorker, RequestArrives, WaitFails,
       ServiceFails, WaitInterrupted, ExitAfterWait, ReportWaitFailure, Park,
       ServeAtOnce, AdmitParked, ExitParked, SleepParked, ServiceReturns, flags
  <2>6. /\ asleep' \subseteq Workers \cup {Director}
        /\ signalled' \in [Workers -> BOOLEAN]
        /\ failed' \subseteq Workers
    BY <1>1 DEF TypeOK, WorkerNext, Environment, StartWorker, RequestArrives, WaitFails,
       ServiceFails, WaitInterrupted, ExitAfterWait, ReportWaitFailure, Park,
       ServeAtOnce, AdmitParked, ExitParked, SleepParked, ServiceReturns,
       Broadcast, BroadcastThenWait
  <2> QED  BY <2>2, <2>3, <2>4, <2>5, <2>6 DEF TypeOK
<1>2. ASSUME \/ DirectorNext /\ ~(\E w \in Workers : StartWorker(w))
             \/ StartFails \/ SessionStops \/ Terminated
             \/ \E t \in Workers \cup {Director} : SpuriousWake(t)
             \/ UNCHANGED vars
      PROVE  TypeOK' /\ CountersMatch'
  <2>1. UNCHANGED <<wpc, pending, active>>
    BY <1>2 DEF DirectorNext, Started, FetchState, ResetStatus, OnTick, OpenService,
       AllAdmitted, AwaitAdmission, CloseService, Quiesced, AwaitQuiescence,
       Actuate, Commit, ReleaseWorkers, Destroy, StartFails, SessionStops,
       Terminated, SpuriousWake, counters, vars
  <2>2. CountersMatch'
    BY <2>1, CountersAt
  <2>3. /\ dpc' \in DirectorSteps
        /\ threadsExit' \in BOOLEAN /\ executeActive' \in BOOLEAN
        /\ asleep' \subseteq Workers \cup {Director}
        /\ signalled' \in [Workers -> BOOLEAN]
        /\ failed' \subseteq Workers
    BY <1>2 DEF TypeOK, DirectorNext, Started, FetchState, ResetStatus, OnTick,
       OpenService, AllAdmitted, AwaitAdmission, CloseService, Quiesced,
       AwaitQuiescence, Actuate, Commit, ReleaseWorkers, Destroy, StartFails,
       SessionStops, Terminated, SpuriousWake, Broadcast, DirectorSteps,
       flags, counters, vars
  <2> QED  BY <2>1, <2>2, <2>3 DEF TypeOK
<1> QED  BY <1>1, <1>2 DEF Next, DirectorNext

(***************************************************************************)
(* A worker's step.  It serves only while service is open, so in a quiet   *)
(* phase nobody starts to; it parks only while service is closed.          *)
(***************************************************************************)
LEMMA WorkerStep ==
  ASSUME IInv, NEW w \in Workers,
         WorkerNext(w) \/ Environment(w) \/ StartWorker(w)
  PROVE  Doors' /\ Quiescent' /\ AdmittedBeforeAck' /\ Latched'
<1>1. UNCHANGED <<dpc, executeActive, threadsExit>>
  BY DEF WorkerNext, Environment, StartWorker, RequestArrives, WaitFails,
     ServiceFails, WaitInterrupted, ExitAfterWait, ReportWaitFailure, Park,
     ServeAtOnce, AdmitParked, ExitParked, SleepParked, ServiceReturns, flags
<1>2. /\ \A v \in Workers \ {w} : wpc'[v] = wpc[v]
      /\ wpc'[w] = "serving" => wpc[w] = "serving" \/ (executeActive /\ ~threadsExit)
      /\ wpc'[w] = "parked" => wpc[w] = "parked" \/ ~executeActive
      /\ wpc'[w] = "dead_service" =>
           wpc[w] = "dead_service" \/ (wpc[w] = "serving" /\ w \in failed')
      /\ failed \subseteq failed'
  BY DEF IInv, TypeOK, WorkerNext, Environment, StartWorker, RequestArrives,
     WaitFails, ServiceFails, WaitInterrupted, ExitAfterWait, ReportWaitFailure,
     Park, ServeAtOnce, AdmitParked, ExitParked, SleepParked, ServiceReturns
<1>3. Doors'
  BY <1>1 DEF IInv, Doors
<1>4. Quiescent'
  BY <1>1, <1>2 DEF IInv, Quiescent, QuietSteps, Serving, Doors
<1>5. AdmittedBeforeAck'
  BY <1>1, <1>2 DEF IInv, AdmittedBeforeAck, Parked, Doors
<1>6. Latched'
  <2> SUFFICES ASSUME NEW v \in Workers, wpc'[v] = "dead_service"
               PROVE  \/ dpc \in {"admitting", "executed", "quiescing", "quiet"} /\ v \in failed'
                      \/ dpc \in {"cleanup", "joining", "destroyed"}
    BY <1>1 DEF Latched
  <2>1. CASE wpc[v] = "dead_service"
    BY <2>1, <1>2 DEF IInv, Latched
  <2>2. CASE wpc[v] # "dead_service"
    <3>1. wpc[v] = "serving" /\ v \in failed'
      BY <2>2, <1>2
    <3>2. dpc \notin QuietSteps
      BY <3>1 DEF IInv, Quiescent, Serving
    <3> QED  BY <3>1, <3>2 DEF IInv, TypeOK, QuietSteps, DirectorSteps
  <2> QED  BY <2>1, <2>2
<1> QED  BY <1>3, <1>4, <1>5, <1>6

(***************************************************************************)
(* A step of the Director's thread, one action at a time.                  *)
(***************************************************************************)
LEMMA DirectorStep ==
  ASSUME IInv,
         \/ DirectorNext /\ ~(\E w \in Workers : StartWorker(w))
         \/ StartFails \/ SessionStops \/ Terminated
         \/ \E t \in Workers \cup {Director} : SpuriousWake(t)
         \/ UNCHANGED vars
  PROVE  Doors' /\ Quiescent' /\ AdmittedBeforeAck' /\ Latched'
<1> USE DEF Doors, Quiescent, QuietSteps, AdmittedBeforeAck, Latched, Serving, Parked
<1>1. CASE Started
  BY <1>1 DEF IInv, Started, flags
<1>2. CASE FetchState
  BY <1>2 DEF IInv, FetchState, flags
<1>3. CASE ResetStatus
  BY <1>3 DEF IInv, ResetStatus, flags
<1>4. CASE OnTick
  BY <1>4 DEF IInv, OnTick, flags
<1>5. CASE OpenService
  BY <1>5 DEF IInv, OpenService
<1>6. CASE AllAdmitted
  <2>1. Parked = {}
    BY <1>6, CountType, CountersAt, FS_EmptySet DEF AllAdmitted, IInv, At
  <2> QED  BY <1>6, <2>1 DEF IInv, AllAdmitted, flags
<1>7. CASE CloseService
  BY <1>7 DEF IInv, CloseService
<1>8. CASE Quiesced
  <2>1. Serving = {}
    BY <1>8, CountType, CountersAt, FS_EmptySet DEF Quiesced, IInv, At
  <2> QED  BY <1>8, <2>1 DEF IInv, Quiesced, flags
<1>9. CASE Actuate
  BY <1>9 DEF IInv, Actuate, flags
<1>10. CASE Commit
  BY <1>10 DEF IInv, Commit, flags
<1>11. CASE StartFails \/ SessionStops
  BY <1>11 DEF IInv, StartFails, SessionStops, flags
<1>12. CASE ReleaseWorkers
  BY <1>12 DEF IInv, ReleaseWorkers
<1>13. CASE Destroy
  BY <1>13 DEF IInv, Destroy, Gone, flags
<1>14. CASE \/ AwaitAdmission \/ AwaitQuiescence \/ Terminated \/ UNCHANGED vars
            \/ \E t \in Workers \cup {Director} : SpuriousWake(t)
  <2>1. UNCHANGED <<dpc, wpc, threadsExit, executeActive, failed>>
    BY <1>14 DEF AwaitAdmission, AwaitQuiescence, Terminated, SpuriousWake, vars, flags
  <2> QED  BY <2>1 DEF IInv
<1> QED  BY <1>1, <1>2, <1>3, <1>4, <1>5, <1>6, <1>7, <1>8, <1>9, <1>10, <1>11,
            <1>12, <1>13, <1>14 DEF DirectorNext

LEMMA Inductive == IInv /\ [Next]_vars => IInv'
<1> SUFFICES ASSUME IInv, [Next]_vars
             PROVE  IInv'
  OBVIOUS
<1>1. TypeOK' /\ CountersMatch'
  BY CountersStep DEF IInv
<1>2. Doors' /\ Quiescent' /\ AdmittedBeforeAck' /\ Latched'
  BY WorkerStep, DirectorStep DEF Next, DirectorNext
<1> QED  BY <1>1, <1>2 DEF IInv

LEMMA Initially == Init => IInv
<1> SUFFICES ASSUME Init
             PROVE  IInv
  OBVIOUS
<1>1. \A w \in Workers : wpc[w] = "unstarted"
  BY DEF Init
<1>2. CountersMatch
  BY <1>1, FS_EmptySet DEF Init, CountersMatch, Parked, Serving
<1>3. TypeOK
  BY DEF Init, TypeOK, DirectorSteps, WorkerSteps
<1> QED
  BY <1>1, <1>2, <1>3 DEF Init, IInv, Doors, Quiescent, AdmittedBeforeAck, Latched,
     Serving

LEMMA Invariance == Spec => []IInv
BY Initially, Inductive, PTL DEF Spec

-----------------------------------------------------------------------------
\* The variables keep their types, for any set of components.
THEOREM TypeCorrect == Spec => []TypeOK
<1>1. IInv => TypeOK  BY DEF IInv
<1> QED  BY <1>1, Invariance, PTL

\* The counters the Director waits on are exact (component_worker, 398-450).
THEOREM CountersExact == Spec => []CountersMatch
<1>1. IInv => CountersMatch  BY DEF IInv
<1> QED  BY <1>1, Invariance, PTL

\* No service callback runs outside EXECUTE and the first part of COMMIT
\* (director_commit_tick, 1471-1475; cleanup_components, 1103-1124).
THEOREM ServiceQuiescent == Spec => []Quiescent
<1>1. IInv => Quiescent  BY DEF IInv
<1> QED  BY <1>1, Invariance, PTL

\* EXECUTE is acknowledged with no request left parked
\* (director_execute_tick, 1455-1461).
THEOREM ParkedAdmitted == Spec => []AdmittedBeforeAck
<1>1. IInv => AdmittedBeforeAck  BY DEF IInv
<1> QED  BY <1>1, Invariance, PTL

\* After a service error no further tick begins (component_worker, 440-446;
\* component_phase_succeeded, 1365-1381).
THEOREM ServiceErrorLatched == Spec => []ServiceErrorWithheld
<1>1. IInv => ServiceErrorWithheld
  BY DEF IInv, Latched, ServiceErrorWithheld, Died, TickSteps
<1> QED  BY <1>1, Invariance, PTL
=============================================================================
