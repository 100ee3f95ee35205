-------------------------- MODULE FlightApps_proofs --------------------------
(***************************************************************************)
(* FlightApps for any bounds, any offset of a boot and any frames and      *)
(* packets: no two boots give cFE TIME the same time, however they die in  *)
(* between; the counters of the flight applications say what happened; the *)
(* frames of the uplink are published in order and once, and none is lost  *)
(* by the way the reads cut them; no packet of the downlink is lost        *)
(* without an error.  From the four invariants follow the types.           *)
(***************************************************************************)
EXTENDS FlightApps, SequenceTheorems, WellFoundedInduction, TLAPS

FileSteps == {"persist", "persist_write", "save_write"}

\* The fallback time of a boot that finds d in the file.
StartFrom(d) == d.seconds + (d.boots + 1) * Offset

TimeData == [seconds : Nat, boots : Nat]

TimeTypes ==
    /\ data \in TimeData /\ gps \in Nat
    /\ file \in {<<>>} \cup {<<d>> : d \in TimeData}
    /\ fallback \in [available : BOOLEAN, start : Nat, given : BOOLEAN]
    /\ synced \in BOOLEAN /\ unkept \in BOOLEAN
    /\ starts \in Seq(Nat)

(***************************************************************************)
(* The fallbacks given are below what the next boot will read, and so is   *)
(* the one this boot has yet to give, unless it is this boot that has not  *)
(* yet counted itself in the file.                                         *)
(***************************************************************************)
Increasing == \A i, j \in DOMAIN starts : i < j => starts[i] < starts[j]

BelowFile ==
    file # <<>> =>
        /\ \A i \in DOMAIN starts : starts[i] < StartFrom(file[1])
        /\ fallback.available /\ ~synced /\ step # "persist" => fallback.start < StartFrom(file[1])

BelowFallback ==
    fallback.available /\ ~fallback.given /\ ~synced =>
        \A i \in DOMAIN starts : starts[i] < fallback.start

\* The places of the file's accesses: what the process has done before them.
Places ==
    /\ step = "load" => ~fallback.available /\ ~synced
    /\ step = "save_write" => synced
    /\ step \in {"persist", "persist_write"} =>
          /\ fallback.available /\ ~fallback.given /\ ~synced
          /\ fallback.start < StartFrom(data)

TimeLaw == unkept \/ (Increasing /\ BelowFile /\ BelowFallback)

TimeInv == TimeTypes /\ Places /\ TimeLaw

-----------------------------------------------------------------------------
\* A step that leaves the time and its file alone, and neither begins nor ends
\* an access to the file.
Aside == /\ UNCHANGED timeVars
         /\ step' = step \/ (step \notin FileSteps \cup {"load"} /\ step' \notin FileSteps \cup {"load"})

LEMMA AsideKeeps ==
  TimeInv /\ Aside => TimeInv'
BY DEF TimeInv, Aside, timeVars, TimeTypes, TimeData, Places, TimeLaw, Increasing, BelowFile,
       BelowFallback, StartFrom, FileSteps

\* The command handling that the applications share has nothing to do with time.
LEMMA DeviceAside ==
  DeviceNext => step' = step \/ (step = "idle" /\ step' = "exited")
BY DEF DeviceNext, BadPacket, Noop, ResetCounters, EnableUart, EnableAgain, DisableUart,
       DisableAgain, ConfigureDemo, Switch, PollHousekeeping, PollData, Poll, Exit, Handle, Reject

RadioSteps == {"idle", "exited", "receive", "parse", "downlink", "fill", "complete"}

\* Neither has the radio.
LEMMA RadioAside ==
  RadioNext => step' = step \/ (step \in RadioSteps /\ step' \in RadioSteps)
<1>1. EnableRadio \/ DisableRadio \/ ConfigureRadio \/ HousekeepingRadio => step' = step
  BY DEF EnableRadio, DisableRadio, ConfigureRadio, HousekeepingRadio, Poll, Handle
<1>2. FrameArrives \/ RailCycled \/ PacketMade => step' = step
  BY DEF FrameArrives, RailCycled, PacketMade, appVars
<1>3. ExitRadio \/ Service => step \in RadioSteps /\ step' \in RadioSteps
  BY DEF ExitRadio, Service, Handle, RadioSteps
<1>4. ServiceStep => step \in RadioSteps /\ step' \in RadioSteps
  <2>1. Receive \/ ReceivedEnough \/ Resync => step \in RadioSteps /\ step' \in RadioSteps
    BY DEF Receive, ReceivedEnough, Resync, RadioSteps
  <2>2. Parse => step \in RadioSteps /\ step' \in RadioSteps
    BY DEF Parse, RadioSteps
  <2>3. Downlink \/ TakePacket \/ StartFails \/ DropOversized => step \in RadioSteps /\ step' \in RadioSteps
    BY DEF Downlink, TakePacket, StartFails, DropOversized, Fail, Return, RadioSteps
  <2>4. AddPacket \/ FrameFull \/ CompleteFrame => step \in RadioSteps /\ step' \in RadioSteps
    BY DEF AddPacket, FrameFull, CompleteFrame, Fail, Return, RadioSteps
  <2> QED  BY <2>1, <2>2, <2>3, <2>4 DEF ServiceStep
<1> QED  BY <1>1, <1>2, <1>3, <1>4 DEF RadioNext

-----------------------------------------------------------------------------
\* Before the first boot nothing was given.
LEMMA TimeInit ==
  Init => TimeInv
<1>1. Init => TimeTypes
  <2>1. <<>> \in Seq(Nat)
    OBVIOUS
  <2>2. Init => data \in TimeData /\ gps \in Nat /\ file \in {<<>>} \cup {<<d>> : d \in TimeData}
    BY DEF Init, AdcsInit, NoData, TimeData
  <2>3. Init => fallback \in [available : BOOLEAN, start : Nat, given : BOOLEAN]
    BY DEF Init, AdcsInit, NoFallback
  <2>4. Init => synced \in BOOLEAN /\ unkept \in BOOLEAN /\ starts = <<>>
    BY DEF Init, AdcsInit
  <2> QED  BY <2>1, <2>2, <2>3, <2>4 DEF TimeTypes
<1>2. Init => Places
  BY DEF Init, AppInit, AdcsInit, Places, NoFallback
<1>3. Init => TimeLaw
  BY DEF Init, AdcsInit, TimeLaw, Increasing, BelowFile, BelowFallback, NoFallback
<1> QED  BY <1>1, <1>2, <1>3 DEF TimeInv

\* Nothing is data too.
LEMMA NoDataType ==
  NoData \in TimeData
BY DEF NoData, TimeData

\* A process that starts anew gives no time before it has read the file.
LEMMA BootKeeps ==
  TimeInv /\ Boot => TimeInv'
<1> SUFFICES ASSUME TimeInv, Boot PROVE TimeInv'
  OBVIOUS
<1> USE DEF TimeInv, Boot, TimeStarts, NoFallback
<1>1. TimeTypes'
  BY NoDataType DEF TimeTypes
<1>2. Places'
  BY DEF Places, AppStarts
<1>3. TimeLaw'
  BY DEF TimeLaw, Increasing, BelowFile, BelowFallback, StartFrom
<1> QED  BY <1>1, <1>2, <1>3

\* ADCS_LoadTimeFromFile takes the time below which all earlier ones are.
LEMMA LoadTimeKeeps ==
  TimeInv /\ LoadTime => TimeInv'
<1> SUFFICES ASSUME TimeInv, LoadTime PROVE TimeInv'
  OBVIOUS
<1>1. CASE file # <<>> /\ Load(file[1]) /\ step' = "persist"
  <2>1. file[1] \in TimeData
    BY <1>1 DEF TimeInv, TimeTypes
  <2>2. /\ data' = [seconds |-> file[1].seconds, boots |-> file[1].boots + 1]
        /\ fallback' = [available |-> TRUE, start |-> StartFrom(file[1]), given |-> FALSE]
    BY <1>1, <2>1 DEF Load, NoFallback, StartFrom, TimeData
  <2>3. StartFrom(file[1]) \in Nat /\ StartFrom(data') \in Nat /\ StartFrom(file[1]) < StartFrom(data')
    BY <2>1, <2>2, AdcsAssumption DEF StartFrom, TimeData
  <2>4. UNCHANGED <<gps, file, synced, starts, unkept>>
    BY DEF LoadTime
  <2>5. TimeTypes'
    BY <2>1, <2>2, <2>3, <2>4 DEF TimeInv, TimeTypes, TimeData
  <2>6. Places'
    BY <1>1, <2>2, <2>3, <2>4 DEF TimeInv, Places, LoadTime, StartFrom
  <2>7. TimeLaw'
    BY <1>1, <2>2, <2>3, <2>4 DEF TimeInv, TimeLaw, Increasing, BelowFile, BelowFallback, StartFrom
  <2> QED  BY <2>5, <2>6, <2>7 DEF TimeInv
<1>2. CASE step' \in {"idle", "exited"} /\ UNCHANGED <<data, fallback>>
  BY <1>2 DEF LoadTime, TimeInv, TimeTypes, Places, TimeLaw, Increasing, BelowFile,
              BelowFallback, StartFrom
<1> QED  BY <1>1, <1>2 DEF LoadTime

\* The file is empty while it is written, and counts this boot afterwards.
LEMMA PersistKeeps ==
  TimeInv /\ (PersistOpen \/ PersistWrite) => TimeInv'
<1> SUFFICES ASSUME TimeInv, PersistOpen \/ PersistWrite PROVE TimeInv'
  OBVIOUS
<1>1. CASE PersistOpen
  <2>1. /\ UNCHANGED <<gps, fallback, synced, starts>> /\ step = "persist"
        /\ data' = data \/ (data' = NoData /\ step' = "idle")
    BY <1>1 DEF PersistOpen
  <2>2. TimeTypes' /\ Places'
    BY <1>1, <2>1, NoDataType DEF PersistOpen, TimeInv, TimeTypes, Places, StartFrom
  <2>3. CASE file' = <<>> /\ UNCHANGED <<data, unkept>>
    BY <2>1, <2>2, <2>3 DEF TimeInv, TimeLaw, Increasing, BelowFile, BelowFallback
  <2>4. CASE unkept' = TRUE
    BY <2>2, <2>4 DEF TimeInv, TimeLaw
  <2> QED  BY <1>1, <2>2, <2>3, <2>4 DEF PersistOpen, TimeInv
<1>2. CASE PersistWrite
  <2>1. data \in TimeData /\ file' \in {<<>>} \cup {<<d>> : d \in TimeData}
    BY <1>2 DEF PersistWrite, TimeInv, TimeTypes
  <2>2. /\ UNCHANGED <<gps, fallback, synced, starts, unkept>> /\ step' = "idle"
        /\ data' = NoData
    BY <1>2 DEF PersistWrite
  <2>3. TimeTypes' /\ Places'
    BY <2>1, <2>2, NoDataType DEF TimeInv, TimeTypes, Places
  <2>4. file' # <<>> => file'[1] = data
    BY <1>2 DEF PersistWrite
  <2>5. fallback.available /\ ~fallback.given /\ ~synced /\ fallback.start < StartFrom(data)
    BY <1>2 DEF PersistWrite, TimeInv, Places
  <2>6. StartFrom(data) \in Nat
    BY <2>1, AdcsAssumption DEF StartFrom, TimeData
  <2>7. TimeLaw'
    <3>1. unkept \/ (Increasing /\ \A i \in DOMAIN starts : starts[i] < fallback.start)
      BY <2>5 DEF TimeInv, TimeLaw, BelowFallback
    <3>2. CASE unkept
      BY <3>2, <2>2 DEF TimeLaw
    <3>3. CASE ~unkept
      <4>1. \A i \in DOMAIN starts : starts[i] < StartFrom(data)
        <5>1. TAKE i \in DOMAIN starts
        <5>2. starts[i] \in Nat /\ fallback.start \in Nat
          BY DEF TimeInv, TimeTypes
        <5> QED  BY <3>1, <3>3, <2>5, <2>6, <5>2
      <4>3. BelowFile'
        BY <4>1, <2>2, <2>4, <2>5 DEF BelowFile, StartFrom
      <4>4. Increasing' /\ BelowFallback'
        BY <3>1, <3>3, <2>2 DEF Increasing, BelowFallback
      <4> QED  BY <4>3, <4>4 DEF TimeLaw
    <3> QED  BY <3>2, <3>3
  <2> QED  BY <2>3, <2>7 DEF TimeInv
<1> QED  BY <1>1, <1>2

\* With a real time in the file no fallback counts any more.
LEMMA SaveKeeps ==
  TimeInv /\ SaveWrite => TimeInv'
<1> SUFFICES ASSUME TimeInv, SaveWrite PROVE TimeInv'
  OBVIOUS
<1>1. synced /\ data \in TimeData
  BY DEF SaveWrite, TimeInv, TimeTypes, Places
<1>2. TimeTypes' /\ Places'
  <2>1. <<>> \in Seq(Nat) /\ (file' = <<data>> \/ file' = file)
    BY DEF SaveWrite
  <2>2. file' \in {<<>>} \cup {<<d>> : d \in TimeData}
    BY <1>1, <2>1 DEF TimeInv, TimeTypes
  <2> QED  BY <1>1, <2>1, <2>2, NoDataType DEF SaveWrite, TimeInv, TimeTypes, Places
<1>3. TimeLaw'
  BY <1>1 DEF SaveWrite, TimeInv, TimeLaw, Increasing, BelowFile, BelowFallback, StartFrom
<1> QED  BY <1>2, <1>3 DEF TimeInv

\* A fallback is given once in a boot, and it is above those before it.
LEMMA HousekeepingKeeps ==
  TimeInv /\ HousekeepingAdcs => TimeInv'
<1> SUFFICES ASSUME TimeInv, HousekeepingAdcs PROVE TimeInv'
  OBVIOUS
<1>1. step = "idle" /\ UNCHANGED <<gps, unkept>> /\ Resubmit
  BY DEF HousekeepingAdcs, Handle
<1>2. \/ UNCHANGED <<synced, file, data, step>>
      \/ synced' = TRUE /\ UNCHANGED <<file, data, step>>
      \/ /\ synced' = TRUE /\ file' = <<>> /\ step' = "save_write"
         /\ \E now \in 0..MaxGps : data' = [seconds |-> now, boots |-> 0]
  <2>1. Sync \/ UNCHANGED <<synced, lastGps, saves, file, data, step>>
    BY DEF HousekeepingAdcs
  <2> QED  BY <2>1 DEF Sync, OpenToSave
<1>3. CASE synced'
  <2>1. UNCHANGED <<fallback, starts>>
    BY <1>1, <1>3 DEF Resubmit
  <2>2. data' \in TimeData /\ file' \in {<<>>} \cup {<<d>> : d \in TimeData} /\ synced' \in BOOLEAN
    <3>1. /\ data \in TimeData /\ file \in {<<>>} \cup {<<d>> : d \in TimeData}
          /\ gps \in Nat /\ synced \in BOOLEAN
      BY DEF TimeInv, TimeTypes
    <3>2. \A now \in 0..MaxGps : [seconds |-> now, boots |-> 0] \in TimeData
      BY DEF TimeData
    <3> QED  BY <1>2, <3>1, <3>2
  <2>3. TimeTypes' /\ Places'
    BY <1>1, <1>2, <1>3, <2>1, <2>2 DEF TimeInv, TimeTypes, Places
  <2>4. TimeLaw'
    BY <1>1, <1>2, <1>3, <2>1 DEF TimeInv, TimeLaw, Increasing, BelowFile, BelowFallback, StartFrom
  <2> QED  BY <2>3, <2>4 DEF TimeInv
<1>4. CASE ~synced'
  <2>1. ~synced /\ UNCHANGED <<synced, file, data, step>>
    BY <1>2, <1>4 DEF TimeInv, TimeTypes
  <2>2. CASE ~(fallback.available /\ ~fallback.given)
    <3>1. UNCHANGED starts /\ (fallback' = fallback \/ fallback' = [fallback EXCEPT !.given = TRUE])
          /\ (fallback.available => fallback.given)
      BY <1>1, <2>2 DEF Resubmit
    <3>2. fallback' = fallback
      <4>1. fallback \in [available : BOOLEAN, start : Nat, given : BOOLEAN]
        BY DEF TimeInv, TimeTypes
      <4> QED  BY <1>1, <1>4, <2>2, <4>1 DEF Resubmit
    <3> QED  BY <1>1, <2>1, <3>1, <3>2 DEF TimeInv, TimeTypes, Places, TimeLaw, Increasing,
                BelowFile, BelowFallback, StartFrom
  <2>3. CASE fallback.available /\ ~fallback.given
    <3>1. /\ fallback' = [fallback EXCEPT !.given = TRUE]
          /\ starts' = Append(starts, fallback.start)
      BY <1>1, <1>4, <2>3 DEF Resubmit
    <3>2. /\ fallback \in [available : BOOLEAN, start : Nat, given : BOOLEAN]
          /\ starts \in Seq(Nat) /\ fallback.start \in Nat
      BY DEF TimeInv, TimeTypes
    <3>3. /\ fallback' \in [available : BOOLEAN, start : Nat, given : BOOLEAN]
          /\ fallback'.given /\ fallback'.start = fallback.start
          /\ fallback'.available = fallback.available
      BY <3>1, <3>2
    <3>4. /\ starts' \in Seq(Nat) /\ Len(starts') = Len(starts) + 1
          /\ \A i \in 1..Len(starts) : starts'[i] = starts[i]
          /\ starts'[Len(starts) + 1] = fallback.start
          /\ DOMAIN starts = 1..Len(starts) /\ DOMAIN starts' = 1..(Len(starts) + 1)
      BY <3>1, <3>2
    <3>5. TimeTypes' /\ Places'
      BY <1>1, <2>1, <3>3, <3>4 DEF TimeInv, TimeTypes, Places
    <3>6. CASE unkept
      BY <1>1, <3>5, <3>6 DEF TimeInv, TimeLaw
    <3>7. CASE ~unkept
      <4>1. Increasing /\ BelowFile /\ \A i \in DOMAIN starts : starts[i] < fallback.start
        BY <3>7, <2>1, <2>3 DEF TimeInv, TimeLaw, BelowFallback
      <4>2. Increasing'
        <5> SUFFICES ASSUME NEW i \in DOMAIN starts', NEW j \in DOMAIN starts', i < j
                     PROVE  starts'[i] < starts'[j]
          BY DEF Increasing
        <5>1. i \in 1..Len(starts) /\ (j \in 1..Len(starts) \/ j = Len(starts) + 1)
          BY <3>2, <3>4
        <5> QED  BY <3>4, <4>1, <5>1 DEF Increasing
      <4>3. BelowFile'
        <5>1. file # <<>> => fallback.start < StartFrom(file[1])
          BY <1>1, <2>1, <2>3, <4>1 DEF BelowFile
        <5>2. \A i \in DOMAIN starts' : i \in 1..Len(starts) \/ i = Len(starts) + 1
          BY <3>2, <3>4
        <5> QED  BY <1>1, <2>1, <3>3, <3>4, <4>1, <5>1, <5>2 DEF BelowFile, StartFrom
      <4>4. BelowFallback'
        BY <3>3 DEF BelowFallback
      <4> QED  BY <3>5, <4>2, <4>3, <4>4 DEF TimeInv, TimeLaw
    <3> QED  BY <3>6, <3>7
  <2> QED  BY <2>2, <2>3
<1> QED  BY <1>3, <1>4

\* Every step of the application that has the time, and any other's.
LEMMA TimeStep ==
  TimeInv /\ [Next]_vars => TimeInv'
<1> SUFFICES ASSUME TimeInv, [Next]_vars PROVE TimeInv'
  OBVIOUS
<1>1. CASE DeviceNext /\ UNCHANGED <<adcsVars, radioVars, boots>>
  BY <1>1, DeviceAside, AsideKeeps DEF Aside, adcsVars, timeVars, FileSteps
<1>2. CASE RadioNext /\ UNCHANGED <<adcsVars, boots>>
  BY <1>2, RadioAside, AsideKeeps DEF Aside, adcsVars, timeVars, FileSteps, RadioSteps
<1>3. CASE Boot
  BY <1>3, BootKeeps
<1>4. CASE AdcsNext
  <2>1. CASE LoadTable \/ DeviceRestarts \/ EnableAdcs \/ ConfigureAdcs
    <3>1. UNCHANGED timeVars /\ step' = step
      BY <2>1 DEF LoadTable, DeviceRestarts, EnableAdcs, EnableUart, ConfigureAdcs, Handle, appVars
    <3> QED  BY <3>1, AsideKeeps DEF Aside
  <2>2. CASE Forward \/ ForwardDisabled
    <3>1. UNCHANGED timeVars /\ step' = step
      BY <2>2 DEF Forward, ForwardDisabled, Reject, Handle, adcsVars, timeVars
    <3> QED  BY <3>1, AsideKeeps DEF Aside
  <2>3. CASE GpsTick
    BY <2>3 DEF GpsTick, appVars, TimeInv, TimeTypes, Places, TimeLaw, Increasing, BelowFile,
                BelowFallback, StartFrom
  <2>4. CASE HousekeepingAdcs
    BY <2>4, HousekeepingKeeps
  <2>5. CASE FileStep
    BY <2>5, SaveKeeps, LoadTimeKeeps, PersistKeeps DEF FileStep
  <2> QED  BY <1>4, <2>1, <2>2, <2>3, <2>4, <2>5 DEF AdcsNext
<1>5. CASE UNCHANGED vars
  BY <1>5, AsideKeeps DEF Aside, vars, appVars, adcsVars, timeVars
<1> QED  BY <1>1, <1>2, <1>3, <1>4, <1>5 DEF Next

\* Each boot off a stale file gives cFE TIME a later start than every boot before
\* it (ADCS_LoadTimeFromFile), whatever the offset, the number of boots and the
\* places where they die.
THEOREM BootsAlwaysAdvance == Spec => []BootsAdvance
<1>1. TimeInv => BootsAdvance
  BY DEF TimeInv, TimeLaw, Increasing, BootsAdvance
<1> QED  BY TimeInit, TimeStep, <1>1, PTL DEF Spec

-----------------------------------------------------------------------------
(***************************************************************************)
(* The counters.  Between two packets nothing is added to them, and what a *)
(* table refresh makes active it has put into the snapshot.                *)
(***************************************************************************)
CountsOf == IF message = "request" THEN {0} ELSE IF app = "radio" THEN {1, 2} ELSE {1}

Counters == [cmd : 0..1, cmdErr : Nat, dev : Nat, devErr : Nat]

CountTypes ==
    /\ counted \in Counters
    /\ step \notin {"idle", "exited"} => message = "request"

CountInv ==
    /\ CountTypes
    /\ counted.cmd + counted.cmdErr \in CountsOf
    /\ message # "forward" => executed

\* What the operators the handlers count with add.
LEMMA Countings ==
  /\ Nothing \in Counters /\ Nothing.cmd + Nothing.cmdErr = 0
  /\ Rejection \in Counters /\ Rejection.cmd + Rejection.cmdErr = 1
  /\ Acceptance \in Counters /\ Acceptance.cmd + Acceptance.cmdErr = 1
  /\ \A ok : Accepted(ok) \in Counters /\ Accepted(ok).cmd + Accepted(ok).cmdErr = 1
  /\ \A ok : Polled(ok) \in Counters /\ Polled(ok).cmd + Polled(ok).cmdErr = 0
<1> USE DEF Counters, Nothing, Rejection, Acceptance, Accepted, Polled
<1>1. ASSUME NEW ok
      PROVE  /\ Accepted(ok) \in Counters /\ Accepted(ok).cmd + Accepted(ok).cmdErr = 1
             /\ Polled(ok) \in Counters /\ Polled(ok).cmd + Polled(ok).cmdErr = 0
  <2>1. Polled(ok) \in {[Nothing EXCEPT !.dev = 1], [Nothing EXCEPT !.devErr = 1]}
    BY Zenon DEF Polled
  <2>2. Accepted(ok) = [Polled(ok) EXCEPT !.cmd = 1]
    BY Zenon DEF Accepted
  <2> HIDE DEF Polled, Accepted
  <2> QED  BY <2>1, <2>2
<1>2. /\ Nothing \in Counters /\ Nothing.cmd + Nothing.cmdErr = 0
      /\ Rejection \in Counters /\ Rejection.cmd + Rejection.cmdErr = 1
      /\ Acceptance \in Counters /\ Acceptance.cmd + Acceptance.cmdErr = 1
  OBVIOUS
<1> HIDE DEF Counters, Nothing, Rejection, Acceptance, Accepted, Polled
<1> QED  BY <1>1, <1>2

\* The handlers the applications have in common.
LEMMA CountersDevice ==
  CountInv /\ DeviceNext => CountInv'
<1> SUFFICES ASSUME CountInv, DeviceNext PROVE CountInv'
  OBVIOUS
<1> USE Countings DEF CountInv, CountTypes, CountsOf, Handle
<1>1. CASE BadPacket \/ Noop \/ EnableAgain \/ DisableAgain
  BY <1>1 DEF BadPacket, Noop, EnableAgain, DisableAgain, Reject
<1>2. CASE ResetCounters \/ PollHousekeeping \/ PollData
  BY <1>2 DEF ResetCounters, PollHousekeeping, PollData, Poll
<1>3. CASE (app = "demo" /\ EnableUart) \/ DisableUart
  BY <1>3 DEF EnableUart, DisableUart
<1>4. CASE ConfigureDemo
  BY <1>4 DEF ConfigureDemo
<1>5. CASE Switch
  BY <1>5 DEF Switch
<1>6. CASE Exit
  BY <1>6 DEF Exit
<1> QED  BY <1>1, <1>2, <1>3, <1>4, <1>5, <1>6 DEF DeviceNext

\* The handlers of ADCS: what ADCS_CONFIG_CC counts as a success has given the
\* device the table that is active.
LEMMA CountersAdcs ==
  CountInv /\ AdcsNext => CountInv'
<1> SUFFICES ASSUME CountInv, AdcsNext PROVE CountInv'
  OBVIOUS
<1> USE Countings DEF CountInv, CountTypes, CountsOf, Handle
<1>1. CASE LoadTable \/ DeviceRestarts \/ GpsTick
  BY <1>1 DEF LoadTable, DeviceRestarts, GpsTick, appVars
<1>2. CASE EnableAdcs
  BY <1>2 DEF EnableAdcs, EnableUart
<1>3. CASE ConfigureAdcs
  <2> PICK managed \in BOOLEAN, read \in BOOLEAN, released \in BOOLEAN, x \in Exchange :
        /\ Refresh(managed, read)
        /\ IF managed /\ read /\ released
           THEN /\ Push(x) /\ counted' = (IF x.ok THEN Acceptance ELSE Rejection)
                /\ executed' = (x.ok => gains' = active')
           ELSE counted' = Rejection /\ executed' = TRUE /\ UNCHANGED gains
    BY <1>3 DEF ConfigureAdcs
  <2>1. counted' \in {Acceptance, Rejection}
    OBVIOUS
  <2>2. executed'
    <3>1. CASE managed /\ read /\ released
      <4>1. gains' = IF x.done THEN snapshot' ELSE gains
        BY <3>1 DEF Push
      <4>2. snapshot' = loaded /\ active' = loaded
        BY <3>1 DEF Refresh
      <4>3. x.ok => x.done
        BY DEF Exchange
      <4> QED  BY <3>1, <4>1, <4>2, <4>3
    <3> QED  BY <3>1
  <2>3. app = "adcs" /\ app' = app /\ message' = "command" /\ step' = step /\ step = "idle"
    BY <1>3 DEF ConfigureAdcs
  <2> QED  BY <2>1, <2>2, <2>3
<1>4. CASE Forward
  BY <1>4 DEF Forward
<1>5. CASE ForwardDisabled
  BY <1>5 DEF ForwardDisabled, Reject
<1>6. CASE HousekeepingAdcs
  BY <1>6 DEF HousekeepingAdcs
<1>7. CASE FileStep
  BY <1>7 DEF FileStep, SaveWrite, LoadTime, PersistOpen, PersistWrite
<1> QED  BY <1>1, <1>2, <1>3, <1>4, <1>5, <1>6, <1>7 DEF AdcsNext

\* The handlers of RADIO: RADIO_Service counts only what the device does.
LEMMA CountersService ==
  CountInv /\ ServiceStep => CountInv'
<1> SUFFICES ASSUME CountInv, ServiceStep PROVE CountInv'
  OBVIOUS
<1>1. step \notin {"idle", "exited"} /\ UNCHANGED <<app, message, executed>>
  BY DEF ServiceStep, serviceOnly, Receive, ReceivedEnough, Parse, Resync, Downlink, TakePacket,
         StartFails, DropOversized, AddPacket, FrameFull, CompleteFrame
<1>2. \/ counted' = counted \/ Count("devErr")
      \/ \E d \in {counted.dev, 1}, e \in {counted.devErr, 1} :
            counted' = [counted EXCEPT !.dev = d, !.devErr = e]
  BY DEF ServiceStep, serviceOnly, Receive, ReceivedEnough, Parse, Resync, Downlink, TakePacket,
         StartFails, DropOversized, AddPacket, FrameFull, CompleteFrame, Secure, Fail
<1>3. counted' \in Counters /\ counted'.cmd = counted.cmd /\ counted'.cmdErr = counted.cmdErr
  <2>1. counted \in Counters
    BY DEF CountInv, CountTypes
  <2>2. CASE counted' = counted
    BY <2>1, <2>2
  <2>3. CASE Count("devErr")
    BY <2>1, <2>3 DEF Count, Counters
  <2>4. ASSUME NEW d \in {counted.dev, 1}, NEW e \in {counted.devErr, 1},
               counted' = [counted EXCEPT !.dev = d, !.devErr = e]
        PROVE  counted' \in Counters /\ counted'.cmd = counted.cmd /\ counted'.cmdErr = counted.cmdErr
    <3>1. PICK half : half = [counted EXCEPT !.dev = d]
      OBVIOUS
    <3>2. counted' = [half EXCEPT !.devErr = e]
      BY <2>4, <3>1, Zenon
    <3>3. half \in Counters /\ half.cmd = counted.cmd /\ half.cmdErr = counted.cmdErr
      BY <2>1, <3>1 DEF Counters
    <3>4. e \in Nat
      BY <2>1 DEF Counters
    <3> QED  BY <3>2, <3>3, <3>4 DEF Counters
  <2> QED  BY <1>2, <2>2, <2>3, <2>4
<1> QED  BY <1>1, <1>3 DEF CountInv, CountTypes, CountsOf

\* The other handlers of RADIO.
LEMMA CountersRadio ==
  CountInv /\ RadioNext => CountInv'
<1> SUFFICES ASSUME CountInv, RadioNext PROVE CountInv'
  OBVIOUS
<1> USE Countings DEF CountInv, CountTypes, CountsOf, Handle
<1>1. CASE FrameArrives \/ RailCycled \/ PacketMade
  BY <1>1 DEF FrameArrives, RailCycled, PacketMade, appVars
<1>2. CASE EnableRadio \/ DisableRadio \/ ExitRadio
  BY <1>2 DEF EnableRadio, DisableRadio, ExitRadio
<1>3. CASE ConfigureRadio
  <2>1. /\ [Nothing EXCEPT !.cmdErr = 2] \in Counters
        /\ [Nothing EXCEPT !.cmdErr = 2].cmd + [Nothing EXCEPT !.cmdErr = 2].cmdErr = 2
        /\ [Nothing EXCEPT !.cmdErr = 1] = Rejection
    BY DEF Nothing, Counters, Rejection
  <2>2. \/ \E ok : counted' = Accepted(ok)
        \/ counted' \in {[Nothing EXCEPT !.cmdErr = 1], [Nothing EXCEPT !.cmdErr = 2]}
    BY <1>3 DEF ConfigureRadio
  <2>3. counted' \in Counters /\ counted'.cmd + counted'.cmdErr \in {1, 2}
    BY <2>1, <2>2
  <2> QED  BY <1>3, <2>3 DEF ConfigureRadio
<1>4. CASE HousekeepingRadio
  BY <1>4 DEF HousekeepingRadio, Poll
<1>5. CASE Service
  BY <1>5 DEF Service
<1> QED  BY <1>1, <1>2, <1>3, <1>4, <1>5, CountersService DEF RadioNext

\* No step counts what did not happen.
LEMMA CountersStep ==
  CountInv /\ [Next]_vars => CountInv'
<1> SUFFICES ASSUME CountInv, [Next]_vars PROVE CountInv'
  OBVIOUS
<1>1. CASE Boot
  BY <1>1, Countings DEF Boot, AppStarts, Started, CountInv, CountTypes, CountsOf
<1>2. CASE UNCHANGED vars
  BY <1>2 DEF vars, appVars, CountInv, CountTypes, CountsOf
<1> QED  BY <1>1, <1>2, CountersDevice, CountersAdcs, CountersRadio DEF Next

\* The counters never lie (the ProcessGroundCommand and ProcessTelemetryRequest
\* of the four applications): a command adds one to one of its two counters (a
\* radio packet wrong in two ways adds two), a request none, and what is counted
\* as a success was done, but for the commands ADCS forwards.
THEOREM CountersAlwaysTruthful == Spec => []CountersTruthful
<1>1. Init => CountInv
  BY Countings DEF Init, AppInit, Started, CountInv, CountTypes, CountsOf
<1>2. CountInv => CountersTruthful
  BY DEF CountInv, CountsOf, CountersTruthful
<1> QED  BY <1>1, <1>2, CountersStep, PTL DEF Spec
-----------------------------------------------------------------------------
(***************************************************************************)
(* The uplink.  What is still to be handled, in the buffer of the          *)
(* application and in the ring of the device, is in the order in which it  *)
(* was sent, whatever was lost of it, and behind every frame that was      *)
(* published; while nothing was lost it is whole.                          *)
(***************************************************************************)
\* A frame and a place in it.
Cell == Nat \X Nat

\* The provers know of it only what the lemma Joined says.
Both(b, r) == b \o r

Stream == Both(buffer, ring)

Precedes(c, d) == c[1] < d[1] \/ (c[1] = d[1] /\ c[2] < d[2])

UpTypes ==
    /\ sent \in 0..Len(Frames) /\ next \in Nat /\ damaged \in BOOLEAN
    /\ buffer \in Seq(Cell) /\ ring \in Seq(Cell)
    /\ published \in Seq(Nat)

\* Of a stream s, so much sent: its cells are cells of frames, and in their order.
Sound(s, n) ==
    /\ \A k \in 1..Len(s) : s[k][1] \in 1..n /\ s[k][2] \in 1..Frames[s[k][1]]
    /\ \A k, l \in 1..Len(s) : k < l => Precedes(s[k], s[l])

\* The frames that were published are before everything that is still to come.
Past(ps, s, n) ==
    /\ \A i \in 1..Len(ps) : ps[i] \in 1..n
    /\ \A i, j \in 1..Len(ps) : i < j => ps[i] < ps[j]
    /\ \A i \in 1..Len(ps), k \in 1..Len(s) : ps[i] < s[k][1]

\* From the frame f on, no cell is missing.
Unbroken(s, f, n) ==
    /\ Len(s) = 0 => f = n + 1
    /\ Len(s) > 0 => s[1] = <<f, 1>>
    /\ \A k \in 1..Len(s), j \in Nat : s[k][2] + j <= Frames[s[k][1]] =>
          k + j <= Len(s) /\ s[k + j] = <<s[k][1], s[k][2] + j>>
    /\ \A k \in 1..Len(s) : s[k][2] = Frames[s[k][1]] =>
          IF k = Len(s) THEN s[k][1] = n ELSE s[k + 1] = <<s[k][1] + 1, 1>>

\* A service that does not have frames in the buffer to look at can read.
UpRoom ==
    /\ Len(buffer) <= MaxPayload
    /\ step # "parse" => Len(buffer) < MaxPayload

UpCore ==
    /\ UpTypes /\ Sound(Stream, sent) /\ Past(published, Stream, sent)
    /\ ~damaged => Unbroken(Stream, next, sent)

UpInv == UpCore /\ UpRoom

\* A place moved on by some.
LEMMA MovedOn ==
  ASSUME NEW y \in Nat, NEW o \in Nat, o > 0, NEW k \in 1..y
  PROVE  k + o \in 1..(y + o) /\ o \in 1..(y + o) /\ o < k + o
  OBVIOUS

\* The cells behind a cell of an unbroken stream, as long as its frame lasts.
LEMMA InFrame ==
  ASSUME NEW s, NEW f, NEW n, Unbroken(s, f, n), NEW i \in 1..Len(s), NEW j \in Nat,
         s[i][2] + j <= Frames[s[i][1]]
  PROVE  i + j <= Len(s) /\ s[i + j] = <<s[i][1], s[i][2] + j>>
  BY DEF Unbroken

\* What makes a stream that is not empty unbroken.
LEMMA UnbrokenIf ==
  ASSUME NEW s, NEW f, NEW n, Len(s) # 0, s[1] = <<f, 1>>,
         \A k \in 1..Len(s), j \in Nat : s[k][2] + j <= Frames[s[k][1]] =>
            k + j <= Len(s) /\ s[k + j] = <<s[k][1], s[k][2] + j>>,
         \A k \in 1..Len(s) : s[k][2] = Frames[s[k][1]] =>
            IF k = Len(s) THEN s[k][1] = n ELSE s[k + 1] = <<s[k][1] + 1, 1>>
  PROVE  Unbroken(s, f, n)
  BY DEF Unbroken

\* What the assumptions say of the sizes, in the terms of the proofs.
LEMMA FrameSizes ==
  /\ HeaderSize \in Nat /\ HeaderSize >= 2 /\ MaxPayload \in Nat /\ HeaderSize <= MaxPayload
  /\ Len(Frames) \in Nat
  /\ \A f \in 1..Len(Frames) : Frames[f] \in Nat /\ HeaderSize <= Frames[f] /\ Frames[f] <= MaxPayload
<1>1. HeaderSize \in Nat /\ HeaderSize >= 2
  <2>1. HeaderSize \in Nat \ {0, 1}
    BY RadioAssumption, Zenon
  <2> QED  BY <2>1
<1>2. MaxPayload \in Nat /\ HeaderSize <= MaxPayload
  BY RadioAssumption
<1>3. Frames \in Seq(HeaderSize..MaxPayload)
  BY RadioAssumption
<1>4. Len(Frames) \in Nat /\ DOMAIN Frames = 1..Len(Frames)
  BY <1>3, LenProperties
<1>5. \A f \in 1..Len(Frames) : Frames[f] \in HeaderSize..MaxPayload
  BY <1>3, <1>4, ElementOfSeq
<1> QED  BY <1>1, <1>2, <1>4, <1>5

\* What is left of a sound stream when a part of it is taken away.
LEMMA CutOut ==
  ASSUME NEW s \in Seq(Cell), NEW n, NEW ps, Sound(s, n), Past(ps, s, n),
         NEW t \in Seq(Cell), NEW a \in Nat, NEW o \in Nat, Len(t) + o = Len(s),
         \A k \in 1..Len(t) : t[k] = IF k <= a THEN s[k] ELSE s[k + o]
  PROVE  Sound(t, n) /\ Past(ps, t, n)
<1>0. Len(s) \in Nat /\ Len(t) \in Nat
  BY LenProperties
<1>1. ASSUME NEW k \in 1..Len(t)
      PROVE  \E i \in 1..Len(s) : i = (IF k <= a THEN k ELSE k + o) /\ t[k] = s[i]
  BY <1>0, <1>1
<1>2. \A k \in 1..Len(t) : t[k][1] \in 1..n /\ t[k][2] \in 1..Frames[t[k][1]]
  BY <1>1 DEF Sound
<1>3. ASSUME NEW k \in 1..Len(t), NEW l \in 1..Len(t), k < l PROVE Precedes(t[k], t[l])
  <2>1. PICK i \in 1..Len(s) : i = (IF k <= a THEN k ELSE k + o) /\ t[k] = s[i]
    BY <1>1
  <2>2. PICK j \in 1..Len(s) : j = (IF l <= a THEN l ELSE l + o) /\ t[l] = s[j]
    BY <1>1
  <2>3. i < j
    BY <1>3, <2>1, <2>2
  <2> QED  BY <2>1, <2>2, <2>3 DEF Sound
<1>4. \A i \in 1..Len(ps), k \in 1..Len(t) : ps[i] < t[k][1]
  BY <1>1 DEF Past
<1> QED  BY <1>2, <1>3, <1>4 DEF Sound, Past

\* A frame sent, whole or without its end.
LEMMA Extended ==
  ASSUME NEW n \in Nat, n + 1 \in 1..Len(Frames), NEW s \in Seq(Cell), Sound(s, n),
         NEW ps, Past(ps, s, n), NEW m \in Nat, m <= Frames[n + 1],
         NEW t \in Seq(Cell), Len(t) = Len(s) + m,
         \A k \in 1..Len(s) : t[k] = s[k],
         \A i \in 1..m : t[Len(s) + i] = <<n + 1, i>>
  PROVE  Sound(t, n + 1) /\ Past(ps, t, n + 1)
<1>0. Len(s) \in Nat /\ Len(t) \in Nat /\ Frames[n + 1] \in Nat
  BY FrameSizes, LenProperties
<1>1. ASSUME NEW k \in 1..Len(t)
      PROVE  \/ k \in 1..Len(s) /\ t[k] = s[k]
             \/ \E i \in 1..m : k = Len(s) + i /\ t[k] = <<n + 1, i>>
  <2>1. CASE k <= Len(s)
    BY <1>0, <2>1
  <2>2. CASE k > Len(s)
    <3>1. k - Len(s) \in 1..m /\ k = Len(s) + (k - Len(s))
      BY <1>0, <2>2
    <3> QED  BY <3>1
  <2> QED  BY <1>0, <2>1, <2>2
<1>2. ASSUME NEW k \in 1..Len(t) PROVE t[k][1] \in 1..(n + 1) /\ t[k][2] \in 1..Frames[t[k][1]]
  <2>1. CASE k \in 1..Len(s) /\ t[k] = s[k]
    BY <2>1 DEF Sound
  <2>2. ASSUME NEW i \in 1..m, t[k] = <<n + 1, i>>
        PROVE  t[k][1] \in 1..(n + 1) /\ t[k][2] \in 1..Frames[t[k][1]]
    <3>1. t[k][1] = n + 1 /\ t[k][2] = i
      BY <2>2
    <3> QED  BY <1>0, <3>1
  <2> QED  BY <1>1, <2>1, <2>2
<1>3. ASSUME NEW k \in 1..Len(t), NEW l \in 1..Len(t), k < l PROVE Precedes(t[k], t[l])
  <2>1. CASE k \in 1..Len(s) /\ l \in 1..Len(s)
    BY <1>3, <2>1 DEF Sound
  <2>2. CASE k \in 1..Len(s) /\ l \notin 1..Len(s)
    <3>1. t[k] = s[k] /\ s[k][1] \in 1..n
      BY <2>2 DEF Sound
    <3>2. PICK j \in 1..m : t[l] = <<n + 1, j>>
      BY <1>1, <2>2
    <3>3. t[l][1] = n + 1
      BY <3>2
    <3> QED  BY <3>1, <3>3 DEF Precedes
  <2>3. CASE k \notin 1..Len(s)
    <3>1. PICK i \in 1..m : k = Len(s) + i /\ t[k] = <<n + 1, i>>
      BY <1>1, <2>3
    <3>2. l \notin 1..Len(s)
      BY <1>0, <1>3, <2>3
    <3>3. PICK j \in 1..m : l = Len(s) + j /\ t[l] = <<n + 1, j>>
      BY <1>1, <3>2
    <3>4. i < j
      BY <1>0, <1>3, <3>1, <3>3
    <3> QED  BY <3>1, <3>3, <3>4 DEF Precedes
  <2> QED  BY <2>1, <2>2, <2>3
<1>4. ASSUME NEW i \in 1..Len(ps), NEW k \in 1..Len(t) PROVE ps[i] < t[k][1]
  <2>1. ps[i] \in 1..n
    BY DEF Past
  <2>2. CASE k \in 1..Len(s) /\ t[k] = s[k]
    BY <2>2 DEF Past
  <2>3. CASE t[k][1] = n + 1
    BY <2>1, <2>3
  <2> QED  BY <1>1, <2>2, <2>3
<1>5. /\ \A i \in 1..Len(ps) : ps[i] \in 1..(n + 1)
      /\ \A i, j \in 1..Len(ps) : i < j => ps[i] < ps[j]
  BY DEF Past
<1> QED  BY <1>2, <1>3, <1>4, <1>5 DEF Sound, Past

\* A whole frame added to a stream of whole ones.
LEMMA ExtendedWhole ==
  ASSUME NEW n \in Nat, n + 1 \in 1..Len(Frames), NEW s \in Seq(Cell), Sound(s, n),
         NEW f \in Nat, Unbroken(s, f, n),
         NEW t \in Seq(Cell), Len(t) = Len(s) + Frames[n + 1],
         \A k \in 1..Len(s) : t[k] = s[k],
         \A i \in 1..Frames[n + 1] : t[Len(s) + i] = <<n + 1, i>>
  PROVE  Unbroken(t, f, n + 1)
<1>0. Len(s) \in Nat /\ Len(t) \in Nat /\ Frames[n + 1] \in Nat /\ Frames[n + 1] >= 2 /\ Len(t) > 0
  BY FrameSizes, LenProperties
<1>1. ASSUME NEW k \in 1..Len(t)
      PROVE  \/ k \in 1..Len(s) /\ t[k] = s[k]
             \/ \E i \in 1..Frames[n + 1] : k = Len(s) + i /\ t[k][1] = n + 1 /\ t[k][2] = i
  <2>1. CASE k <= Len(s)
    BY <1>0, <2>1
  <2>2. CASE k > Len(s)
    <3>1. PICK i \in 1..Frames[n + 1] : k = Len(s) + i
      <4>1. k - Len(s) \in 1..Frames[n + 1] /\ k = Len(s) + (k - Len(s))
        BY <1>0, <2>2
      <4> QED  BY <4>1
    <3>2. t[k][1] = n + 1 /\ t[k][2] = i
      BY <3>1
    <3> QED  BY <3>1, <3>2
  <2> QED  BY <1>0, <2>1, <2>2
<1>2. t[1] = <<f, 1>>
  <2>1. CASE Len(s) = 0
    <3>1. 1 \in 1..Frames[n + 1] /\ Len(s) + 1 = 1 /\ f = n + 1
      BY <1>0, <2>1 DEF Unbroken
    <3> QED  BY <3>1
  <2>2. CASE Len(s) > 0
    <3>1. 1 \in 1..Len(s)
      BY <1>0, <2>2
    <3> QED  BY <2>2, <3>1 DEF Unbroken
  <2> QED  BY <1>0, <2>1, <2>2
<1>3. ASSUME NEW k \in 1..Len(t), NEW j \in Nat, t[k][2] + j <= Frames[t[k][1]]
      PROVE  k + j <= Len(t) /\ t[k + j] = <<t[k][1], t[k][2] + j>>
  <2>1. CASE k \in 1..Len(s) /\ t[k] = s[k]
    <3>1. k + j <= Len(s) /\ s[k + j] = <<s[k][1], s[k][2] + j>>
      BY <1>3, <2>1 DEF Unbroken
    <3>2. k + j \in 1..Len(s)
      BY <1>0, <3>1
    <3>3. t[k + j] = s[k + j] /\ t[k] = s[k]
      BY <2>1, <3>2
    <3>4. k + j <= Len(t)
      BY <1>0, <3>2
    <3> QED  BY <3>1, <3>3, <3>4
  <2>2. ASSUME NEW i \in 1..Frames[n + 1], k = Len(s) + i, t[k][1] = n + 1, t[k][2] = i
        PROVE  k + j <= Len(t) /\ t[k + j] = <<t[k][1], t[k][2] + j>>
    <3>1. i + j <= Frames[n + 1]
      BY <1>3, <2>2
    <3>2. i + j \in 1..Frames[n + 1] /\ k + j = Len(s) + (i + j)
      BY <1>0, <2>2, <3>1
    <3>3. t[Len(s) + (i + j)] = <<n + 1, i + j>>
      BY <3>2
    <3>4. k + j <= Len(t)
      BY <1>0, <3>2, SMTT(60)
    <3> QED  BY <2>2, <3>2, <3>3, <3>4
  <2> QED  BY <1>1, <2>1, <2>2
<1>4. ASSUME NEW k \in 1..Len(t), t[k][2] = Frames[t[k][1]]
      PROVE  IF k = Len(t) THEN t[k][1] = n + 1 ELSE t[k + 1] = <<t[k][1] + 1, 1>>
  <2>1. CASE k \in 1..Len(s) /\ t[k] = s[k]
    <3>1. IF k = Len(s) THEN s[k][1] = n ELSE s[k + 1] = <<s[k][1] + 1, 1>>
      BY <1>4, <2>1 DEF Unbroken
    <3>2. CASE k = Len(s)
      <4>1. 1 \in 1..Frames[n + 1] /\ k # Len(t)
        BY <1>0, <3>2
      <4>2. t[k + 1] = <<n + 1, 1>> /\ t[k][1] = n
        BY <2>1, <3>1, <3>2, <4>1
      <4> QED  BY <4>1, <4>2
    <3>3. CASE k # Len(s)
      <4>1. k + 1 \in 1..Len(s) /\ k # Len(t)
        BY <1>0, <2>1, <3>3, SMTT(60)
      <4> QED  BY <2>1, <3>1, <3>3, <4>1
    <3> QED  BY <3>2, <3>3
  <2>2. ASSUME NEW i \in 1..Frames[n + 1], k = Len(s) + i, t[k][1] = n + 1, t[k][2] = i
        PROVE  k = Len(t) /\ t[k][1] = n + 1
    BY <1>0, <1>4, <2>2
  <2> QED  BY <1>1, <2>1, <2>2
<1>5. Len(t) # 0
  BY <1>0
<1> QED  BY <1>2, <1>3, <1>4, <1>5, UnbrokenIf

\* Two sequences of cells, one after the other.
LEMMA Joined ==
  ASSUME NEW b \in Seq(Cell), NEW r \in Seq(Cell)
  PROVE  /\ Both(b, r) \in Seq(Cell) /\ Len(b) \in Nat /\ Len(r) \in Nat
         /\ Len(Both(b, r)) = Len(b) + Len(r)
         /\ \A k \in 1..(Len(b) + Len(r)) :
               Both(b, r)[k] = IF k <= Len(b) THEN b[k] ELSE r[k - Len(b)]
         /\ Both(b, r) = <<>> <=> b = <<>> /\ r = <<>>
         /\ Both(b, r) = <<>> <=> Len(Both(b, r)) = 0
<1>1. Both(b, r) \in Seq(Cell)
  BY ConcatProperties DEF Both
<1>2. Both(b, r) = <<>> <=> Len(Both(b, r)) = 0
  BY <1>1, EmptySeq
<1>3. Both(b, r) = <<>> <=> b = <<>> /\ r = <<>>
  BY ConcatEqualIffEmpty DEF Both
<1>4. /\ Len(Both(b, r)) = Len(b) + Len(r)
      /\ \A k \in 1..(Len(b) + Len(r)) :
            Both(b, r)[k] = IF k <= Len(b) THEN b[k] ELSE r[k - Len(b)]
  BY ConcatProperties DEF Both
<1> QED  BY <1>1, <1>2, <1>3, <1>4, LenProperties

\* The end of a sequence of cells.
LEMMA Rest ==
  ASSUME NEW b \in Seq(Cell), NEW o \in 0..Len(b)
  PROVE  /\ SubSeq(b, o + 1, Len(b)) \in Seq(Cell)
         /\ Len(SubSeq(b, o + 1, Len(b))) = Len(b) - o
         /\ \A k \in 1..(Len(b) - o) : SubSeq(b, o + 1, Len(b))[k] = b[k + o]
         /\ o = Len(b) => SubSeq(b, o + 1, Len(b)) = <<>>
<1>0. Len(b) \in Nat /\ o \in Nat /\ o <= Len(b)
  BY LenProperties
<1>1. \A i \in (o + 1)..Len(b) : b[i] \in Cell
  <2> SUFFICES ASSUME NEW i \in (o + 1)..Len(b) PROVE b[i] \in Cell
    OBVIOUS
  <2>1. i \in 1..Len(b)
    BY <1>0
  <2> QED  BY <2>1, ElementOfSeq
<1>2. PICK e \in Int : e = Len(b)
  BY <1>0
<1>3. PICK a \in Int : a = o + 1
  BY <1>0
<1>4. /\ SubSeq(b, a, e) \in Seq(Cell)
      /\ Len(SubSeq(b, a, e)) = IF a <= e THEN e - a + 1 ELSE 0
      /\ \A i \in 1..(e - a + 1) : SubSeq(b, a, e)[i] = b[a + i - 1]
  BY <1>1, <1>2, <1>3, SubSeqProperties
<1>5. Len(SubSeq(b, o + 1, Len(b))) = Len(b) - o
  BY <1>0, <1>2, <1>3, <1>4
<1>6. ASSUME NEW k \in 1..(Len(b) - o) PROVE SubSeq(b, o + 1, Len(b))[k] = b[k + o]
  <2>1. k \in 1..(e - a + 1) /\ a + k - 1 = k + o
    BY <1>0, <1>2, <1>3
  <2> QED  BY <1>2, <1>3, <1>4, <2>1
<1>7. o = Len(b) => SubSeq(b, o + 1, Len(b)) = <<>>
  BY <1>0, <1>2, <1>3, SubSeqEmpty
<1> QED  BY <1>2, <1>3, <1>4, <1>5, <1>6, <1>7

\* The same, as a sequence that has a name.
LEMMA Remains ==
  ASSUME NEW b \in Seq(Cell), NEW o \in 0..Len(b)
  PROVE  \E c \in Seq(Cell) : /\ c = SubSeq(b, o + 1, Len(b)) /\ Len(c) = Len(b) - o
                              /\ \A k \in 1..(Len(b) - o) : c[k] = b[k + o]
                              /\ o = Len(b) => c = <<>>
<1>1. PICK c \in Seq(Cell) : c = SubSeq(b, o + 1, Len(b))
  BY Rest
<1>2. Len(c) = Len(b) - o /\ (o = Len(b) => c = <<>>)
  BY <1>1, Rest
<1>3. \A k \in 1..(Len(b) - o) : c[k] = b[k + o]
  BY <1>1, Rest
<1> QED  BY <1>1, <1>2, <1>3

\* Three parts of a stream can be joined from either side.
LEMMA BothAssociative ==
  ASSUME NEW b \in Seq(Cell), NEW c \in Seq(Cell), NEW d \in Seq(Cell)
  PROVE  Both(Both(b, c), d) = Both(b, Both(c, d))
  BY ConcatAssociative DEF Both

\* To take cells from the front of the first is to take them from the whole.
LEMMA Shifted ==
  ASSUME NEW b \in Seq(Cell), NEW r \in Seq(Cell), NEW c \in Seq(Cell), NEW o \in 0..Len(b),
         Len(c) = Len(b) - o, \A k \in 1..(Len(b) - o) : c[k] = b[k + o]
  PROVE  /\ Len(Both(c, r)) = Len(Both(b, r)) - o
         /\ \A k \in 1..Len(Both(c, r)) : Both(c, r)[k] = Both(b, r)[k + o]
<1>1. /\ c \in Seq(Cell) /\ Len(c) = Len(b) - o
      /\ \A k \in 1..(Len(b) - o) : c[k] = b[k + o]
  OBVIOUS
<1>2. PICK s \in Seq(Cell) : s = Both(b, r)
  BY Joined
<1>3. PICK t \in Seq(Cell) : t = Both(c, r)
  BY <1>1, Joined
<1>4. /\ Len(b) \in Nat /\ Len(r) \in Nat /\ Len(c) \in Nat /\ o \in Nat /\ o <= Len(b)
      /\ Len(s) = Len(b) + Len(r) /\ Len(t) = Len(c) + Len(r)
  <2>1. Len(b) \in Nat /\ Len(r) \in Nat /\ Len(c) \in Nat /\ o \in Nat /\ o <= Len(b)
    BY LenProperties
  <2>2. Len(s) = Len(b) + Len(r)
    BY <1>2, Joined
  <2>3. Len(t) = Len(c) + Len(r)
    BY <1>3, Joined
  <2> QED  BY <2>1, <2>2, <2>3
<1>5. Len(t) + o = Len(s)
  BY <1>1, <1>4
<1>6. ASSUME NEW k \in 1..Len(t) PROVE t[k] = s[k + o]
  <2>0. k \in Nat /\ 1 <= k /\ k <= Len(t)
    BY <1>4
  <2>1. t[k] = IF k <= Len(c) THEN c[k] ELSE r[k - Len(c)]
    <3>1. k \in 1..(Len(c) + Len(r))
      BY <1>4
    <3> QED  BY <1>3, <3>1, Joined, ZenonT(60)
  <2>2. k + o \in 1..(Len(b) + Len(r))
    BY <1>4, <1>5
  <2>3. s[k + o] = IF k + o <= Len(b) THEN b[k + o] ELSE r[(k + o) - Len(b)]
    BY <1>2, <2>2, Joined, ZenonT(60)
  <2>4. CASE k <= Len(c)
    <3>1. k \in 1..(Len(b) - o) /\ k + o <= Len(b)
      BY <1>1, <1>4, <2>0, <2>4
    <3> QED  BY <1>1, <2>1, <2>3, <2>4, <3>1
  <2>5. CASE ~(k <= Len(c))
    <3>0. Len(c) = Len(b) - o
      BY <1>1
    <3>1. ~(k + o <= Len(b)) /\ k - Len(c) = (k + o) - Len(b)
      <4>1. PICK x \in Nat, y \in Nat : x = Len(b) /\ y = Len(c)
        BY <1>4
      <4>2. y = x - o /\ ~(k <= y) /\ o \in Nat /\ k \in Nat
        BY <1>4, <2>0, <2>5, <3>0, <4>1
      <4>3. ~(k + o <= x) /\ k - y = (k + o) - x
        BY <4>2
      <4> QED  BY <4>1, <4>3
    <3> QED  BY <2>1, <2>3, <2>5, <3>1
  <2> QED  BY <2>4, <2>5
<1>7. Len(t) = Len(s) - o
  BY <1>4, <1>5
<1> QED  BY <1>2, <1>3, <1>6, <1>7

\* Bytes are lost from the front, with the buffer or a part of it.
LEMMA BufferCut ==
  ASSUME NEW b \in Seq(Cell), NEW r \in Seq(Cell), NEW n, NEW ps,
         Sound(Both(b, r), n), Past(ps, Both(b, r), n),
         NEW o \in 0..Len(b), NEW c \in Seq(Cell), Len(c) = Len(b) - o,
         \A k \in 1..(Len(b) - o) : c[k] = b[k + o]
  PROVE  Sound(Both(c, r), n) /\ Past(ps, Both(c, r), n)
<1>1. PICK s \in Seq(Cell) : s = Both(b, r)
  BY Joined
<1>2. PICK t \in Seq(Cell) : t = Both(c, r)
  BY Joined
<1>3. Len(t) = Len(s) - o /\ \A k \in 1..Len(t) : t[k] = s[k + o]
  <2>1. Len(Both(c, r)) = Len(Both(b, r)) - o
    BY Shifted, ZenonT(60)
  <2>2. \A k \in 1..Len(Both(c, r)) : Both(c, r)[k] = Both(b, r)[k + o]
    BY Shifted, ZenonT(60)
  <2> QED  BY <1>1, <1>2, <2>1, <2>2
<1>4. Len(s) \in Nat /\ Len(t) \in Nat /\ o \in Nat
  BY LenProperties
<1>5. Len(t) + o = Len(s)
  BY <1>3, <1>4
<1>6. \A k \in 1..Len(t) : t[k] = IF k <= 0 THEN s[k] ELSE s[k + o]
  <2> SUFFICES ASSUME NEW k \in 1..Len(t) PROVE t[k] = IF k <= 0 THEN s[k] ELSE s[k + o]
    OBVIOUS
  <2>1. ~(k <= 0)
    BY <1>4
  <2> QED  BY <1>3, <2>1
<1>7. Sound(s, n) /\ Past(ps, s, n)
  BY <1>1
<1>8. Sound(t, n) /\ Past(ps, t, n)
  BY <1>4, <1>5, <1>6, <1>7, CutOut
<1> QED  BY <1>2, <1>8

\* Bytes are lost between the buffer and what is left of the ring.
LEMMA RingCut ==
  ASSUME NEW b \in Seq(Cell), NEW r \in Seq(Cell), NEW n, NEW ps,
         Sound(Both(b, r), n), Past(ps, Both(b, r), n),
         NEW o \in 0..Len(r), NEW c \in Seq(Cell), Len(c) = Len(r) - o,
         \A k \in 1..(Len(r) - o) : c[k] = r[k + o]
  PROVE  Sound(Both(b, c), n) /\ Past(ps, Both(b, c), n)
<1>1. /\ c \in Seq(Cell) /\ Len(c) = Len(r) - o
      /\ \A k \in 1..(Len(r) - o) : c[k] = r[k + o]
  OBVIOUS
<1>2. PICK s \in Seq(Cell) : s = Both(b, r)
  BY Joined
<1>3. PICK t \in Seq(Cell) : t = Both(b, c)
  BY <1>1, Joined
<1>4. /\ Len(b) \in Nat /\ Len(r) \in Nat /\ Len(c) \in Nat /\ o \in Nat /\ o <= Len(r)
      /\ Len(s) = Len(b) + Len(r) /\ Len(t) = Len(b) + Len(c)
  <2>1. Len(b) \in Nat /\ Len(r) \in Nat /\ Len(c) \in Nat /\ o \in Nat /\ o <= Len(r)
    BY LenProperties
  <2>2. Len(s) = Len(b) + Len(r)
    BY <1>2, Joined
  <2>3. Len(t) = Len(b) + Len(c)
    BY <1>3, Joined
  <2> QED  BY <2>1, <2>2, <2>3
<1>5. Len(t) + o = Len(s)
  BY <1>1, <1>4
<1>6. ASSUME NEW k \in 1..Len(t) PROVE t[k] = IF k <= Len(b) THEN s[k] ELSE s[k + o]
  <2>0. k \in Nat /\ 1 <= k /\ k <= Len(t)
    BY <1>4
  <2>1. t[k] = IF k <= Len(b) THEN b[k] ELSE c[k - Len(b)]
    <3>1. k \in 1..(Len(b) + Len(c))
      BY <1>4
    <3> QED  BY <1>3, <3>1, Joined, ZenonT(60)
  <2>2. CASE k <= Len(b)
    <3>1. k \in 1..(Len(b) + Len(r))
      BY <1>4, <2>0, <2>2
    <3>2. s[k] = b[k]
      BY <1>2, <2>2, <3>1, Joined
    <3> QED  BY <2>1, <2>2, <3>2
  <2>3. CASE ~(k <= Len(b))
    <3>1. k + o \in 1..(Len(b) + Len(r)) /\ ~(k + o <= Len(b)) /\ k - Len(b) \in 1..(Len(r) - o)
          /\ (k - Len(b)) + o = (k + o) - Len(b)
      BY <1>1, <1>4, <1>5, <2>0, <2>3, SMTT(60)
    <3>2. s[k + o] = r[(k + o) - Len(b)]
      BY <1>2, <3>1, Joined, ZenonT(60)
    <3> QED  BY <1>1, <2>1, <2>3, <3>1, <3>2
  <2> QED  BY <2>2, <2>3
<1>7. Sound(s, n) /\ Past(ps, s, n)
  BY <1>2
<1>8. Sound(t, n) /\ Past(ps, t, n)
  BY <1>4, <1>5, <1>6, <1>7, CutOut
<1> QED  BY <1>1, <1>3, <1>8

\* The buffer, the ring and the histories after a step that lost bytes or took
\* them over: empty, the stream is as good as new.
LEMMA Handled ==
  ASSUME NEW b \in Seq(Cell), NEW r \in Seq(Cell), NEW n \in Nat, NEW d \in BOOLEAN,
         UpCore, Uplink(b, r, n, d), sent' = sent, published' \in Seq(Nat),
         Sound(Both(b, r), sent), Past(published', Both(b, r), sent),
         ~d /\ Len(Both(b, r)) > 0 => Unbroken(Both(b, r), n, sent)
  PROVE  UpCore'
<1>0. sent \in Nat /\ sent \in 0..Len(Frames)
  BY FrameSizes DEF UpCore, UpTypes
<1>1. PICK empty \in BOOLEAN : empty = (b = <<>> /\ r = <<>>)
  OBVIOUS
<1>2. /\ buffer' = b /\ ring' = r /\ damaged' = (d /\ ~empty)
      /\ next' = IF empty THEN sent + 1 ELSE n
  BY <1>1 DEF Uplink
<1>3. UpTypes'
  BY <1>0, <1>2 DEF UpTypes
<1>4. PICK s \in Seq(Cell) : s = Both(b, r)
  BY Joined
<1>5. Stream' = s
  BY <1>2, <1>4 DEF Stream
<1>6. Sound(s, sent) /\ Past(published', s, sent)
  BY <1>4
<1>7. Len(s) \in Nat /\ (empty <=> Len(s) = 0)
  BY <1>1, <1>4, Joined
<1>8. ~damaged' => Unbroken(s, next', sent)
  <2>1. CASE empty
    <3>1. Len(s) = 0 /\ next' = sent + 1
      BY <1>2, <1>7, <2>1
    <3> QED  BY <3>1 DEF Unbroken
  <2>2. CASE ~empty
    BY <1>2, <1>4, <1>7, <2>2
  <2> QED  BY <2>1, <2>2
<1> QED  BY <1>3, <1>5, <1>6, <1>8 DEF UpCore

\* The invariant in the terms of the lemmas.
LEMMA UpTyped ==
  ASSUME UpCore
  PROVE  /\ sent \in Nat /\ sent \in 0..Len(Frames) /\ next \in Nat /\ damaged \in BOOLEAN
         /\ buffer \in Seq(Cell) /\ ring \in Seq(Cell) /\ published \in Seq(Nat)
         /\ Sound(Both(buffer, ring), sent) /\ Past(published, Both(buffer, ring), sent)
         /\ ~damaged => Unbroken(Both(buffer, ring), next, sent)
         /\ Len(buffer) \in Nat /\ Len(ring) \in Nat
<1>1. buffer \in Seq(Cell) /\ ring \in Seq(Cell)
  BY DEF UpCore, UpTypes
<1>2. sent \in Nat
  BY FrameSizes DEF UpCore, UpTypes
<1> QED  BY <1>1, <1>2, LenProperties DEF UpCore, UpTypes, Stream

\* A step that leaves the uplink alone.
LEMMA UpAside ==
  ASSUME UpInv, UNCHANGED <<ring, buffer, sent, published, next, damaged>>,
         step' = step \/ step # "parse"
  PROVE  UpInv'
<1>1. UpCore'
  BY DEF UpInv, UpCore, UpTypes, Sound, Past, Unbroken, Stream
<1>2. UpRoom'
  BY DEF UpInv, UpRoom
<1> QED  BY <1>1, <1>2 DEF UpInv

\* The bytes that wait in the ring are lost.
LEMMA UpRingLost ==
  ASSUME UpInv, RingLost, UNCHANGED <<sent, published>>, step' = step \/ step # "parse"
  PROVE  UpInv'
<1> USE UpTyped DEF UpInv
<1>1. PICK b \in Seq(Cell), r \in Seq(Cell), o \in Nat : b = buffer /\ r = ring /\ o = Len(ring)
  OBVIOUS
<1>2. PICK c \in Seq(Cell) : /\ Len(c) = Len(r) - o /\ \A k \in 1..(Len(r) - o) : c[k] = r[k + o]
                            /\ c = <<>> /\ o \in 0..Len(r)
  <2>1. o = Len(r) /\ o \in 0..Len(r)
    BY <1>1
  <2> QED  BY <2>1, Remains
<1>3. Sound(Both(b, c), sent) /\ Past(published, Both(b, c), sent)
  <2>1. Sound(Both(b, r), sent) /\ Past(published, Both(b, r), sent)
    BY <1>1
  <2> QED  BY <1>2, <2>1, RingCut
<1>4. Uplink(b, c, next, TRUE)
  BY <1>1, <1>2 DEF RingLost
<1>5. UpCore'
  BY <1>2, <1>3, <1>4, Handled
<1>6. buffer' = buffer
  BY DEF RingLost, Uplink
<1>7. UpRoom'
  BY <1>6 DEF UpRoom
<1> QED  BY <1>5, <1>7

\* What was in the buffer is lost with the process (RADIO_AppInit).
LEMMA UpBoot ==
  ASSUME UpInv, Boot PROVE UpInv'
<1> USE UpTyped DEF UpInv
<1>1. PICK b \in Seq(Cell), r \in Seq(Cell), o \in Nat : b = buffer /\ r = ring /\ o = Len(buffer)
  OBVIOUS
<1>2. PICK c \in Seq(Cell) : /\ Len(c) = Len(b) - o /\ \A k \in 1..(Len(b) - o) : c[k] = b[k + o]
                            /\ c = <<>> /\ o \in 0..Len(b)
  <2>1. o = Len(b) /\ o \in 0..Len(b)
    BY <1>1
  <2> QED  BY <2>1, Remains
<1>3. Sound(Both(c, r), sent) /\ Past(published, Both(c, r), sent)
  <2>1. PICK n \in Nat, ps \in Seq(Nat) : n = sent /\ ps = published
    OBVIOUS
  <2>2. Sound(Both(b, r), n) /\ Past(ps, Both(b, r), n)
    BY <1>1, <2>1
  <2>3. Sound(Both(c, r), n) /\ Past(ps, Both(c, r), n)
    <3>1. /\ b \in Seq(Cell) /\ r \in Seq(Cell) /\ c \in Seq(Cell) /\ o \in 0..Len(b)
          /\ Len(c) = Len(b) - o /\ \A k \in 1..(Len(b) - o) : c[k] = b[k + o]
      BY <1>1, <1>2
    <3> QED  BY <2>2, <3>1, BufferCut
  <2> QED  BY <2>1, <2>3
<1>4. PICK d \in BOOLEAN : d = (damaged \/ buffer # <<>>)
  OBVIOUS
<1>5. Uplink(c, r, next, d) /\ UNCHANGED <<sent, published>>
  BY <1>1, <1>2, <1>4 DEF Boot, RadioStarts
<1>6. ~d => Unbroken(Both(c, r), next, sent)
  BY <1>1, <1>2, <1>4
<1>7. UpCore'
  BY <1>2, <1>3, <1>5, <1>6, Handled
<1>8. buffer' = <<>> /\ MaxPayload \in Nat /\ MaxPayload > 0
  BY FrameSizes DEF Boot, Uplink
<1>9. Len(<<>>) = 0
  OBVIOUS
<1>10. UpRoom'
  BY <1>8, <1>9 DEF UpRoom
<1> QED  BY <1>7, <1>10

-----------------------------------------------------------------------------
\* The cells of a frame are its number and their places.
LEMMA CellsOf ==
  ASSUME NEW f \in 1..Len(Frames)
  PROVE  /\ Cells(f) \in Seq(Cell) /\ Len(Cells(f)) = Frames[f]
         /\ \A i \in 1..Frames[f] : Cells(f)[i] = <<f, i>>
<1>1. PICK n \in Nat : n = Frames[f]
  BY FrameSizes
<1>2. f \in Nat
  BY FrameSizes
<1>3. \A i \in 1..n : <<f, i>> \in Cell
  BY <1>2 DEF Cell
<1>4. [i \in 1..n |-> <<f, i>>] \in [1..n -> Cell]
  BY <1>3
<1>5. Cells(f) = [i \in 1..n |-> <<f, i>>]
  BY <1>1 DEF Cells
<1>6. Cells(f) \in Seq(Cell) /\ Len(Cells(f)) = n
  BY <1>4, <1>5
<1> QED  BY <1>1, <1>5, <1>6

\* The first m cells of a frame.
LEMMA Beginning ==
  ASSUME NEW f \in 1..Len(Frames), NEW m \in Nat, m <= Frames[f]
  PROVE  /\ SubSeq(Cells(f), 1, m) \in Seq(Cell) /\ Len(SubSeq(Cells(f), 1, m)) = m
         /\ \A i \in 1..m : SubSeq(Cells(f), 1, m)[i] = <<f, i>>
<1>1. PICK c \in Seq(Cell) : c = Cells(f)
  BY CellsOf
<1>2. PICK n \in Nat : n = Frames[f] /\ m <= n
  BY FrameSizes
<1>3. Len(c) = n /\ \A i \in 1..n : c[i] = <<f, i>>
  BY <1>1, <1>2, CellsOf
<1>4. \A i \in 1..m : i \in 1..n /\ i \in 1..Len(c)
  BY <1>2, <1>3
<1>5. \A i \in 1..m : c[i] \in Cell
  BY <1>4, ElementOfSeq
<1>6. /\ SubSeq(c, 1, m) \in Seq(Cell)
      /\ Len(SubSeq(c, 1, m)) = IF 1 <= m THEN m - 1 + 1 ELSE 0
      /\ \A i \in 1..(m - 1 + 1) : SubSeq(c, 1, m)[i] = c[1 + i - 1]
  BY <1>5, SubSeqProperties
<1>7. Len(SubSeq(c, 1, m)) = m
  BY <1>6
<1>8. \A i \in 1..m : i \in 1..(m - 1 + 1) /\ 1 + i - 1 = i
  OBVIOUS
<1>9. \A i \in 1..m : SubSeq(c, 1, m)[i] = c[i]
  BY <1>6, <1>8
<1> QED  BY <1>1, <1>3, <1>4, <1>6, <1>7, <1>9

\* A frame arrives, perhaps without its end.
LEMMA UpArrives ==
  ASSUME UpInv, FrameArrives PROVE UpInv'
<1> USE UpTyped DEF UpInv
<1>1. /\ sent' = sent + 1 /\ sent < Len(Frames)
      /\ UNCHANGED <<step, published>>
  BY DEF FrameArrives, appVars
<1>2. PICK n \in Nat : n = sent
  OBVIOUS
<1>3. n + 1 \in 1..Len(Frames) /\ sent' = n + 1
  BY <1>1, <1>2, FrameSizes
<1>4. PICK cut \in {0, 1} :
         Uplink(buffer, ring \o SubSeq(Cells(sent'), 1, Frames[sent'] - cut), next, damaged \/ cut > 0)
  BY DEF FrameArrives
<1>5. PICK m \in Nat : /\ m = Frames[n + 1] - cut /\ 0 < m /\ m <= Frames[n + 1]
                       /\ ~(cut > 0) => m = Frames[n + 1]
  BY <1>3, <1>4, FrameSizes
<1>6. PICK c \in Seq(Cell) : /\ c = SubSeq(Cells(n + 1), 1, m) /\ Len(c) = m
                             /\ \A i \in 1..m : c[i] = <<n + 1, i>>
  BY <1>3, <1>5, Beginning
<1>7. PICK b \in Seq(Cell), r \in Seq(Cell) : b = buffer /\ r = ring
  OBVIOUS
<1>8. PICK r2 \in Seq(Cell) : r2 = Both(r, c)
  BY <1>6, Joined
<1>9. PICK s \in Seq(Cell), t \in Seq(Cell) : s = Both(b, r) /\ t = Both(b, r2)
  BY Joined
<1>10. PICK x \in Nat, y \in Nat : x = Len(b) /\ y = Len(r)
  BY LenProperties
<1>11. Len(s) = x + y /\ Len(r2) = y + m /\ Len(t) = x + (y + m)
  <2>1. Len(s) = Len(b) + Len(r) /\ Len(t) = Len(b) + Len(r2)
    BY <1>9, Joined
  <2>2. Len(r2) = Len(r) + Len(c)
    BY <1>8, Joined
  <2> QED  BY <1>6, <1>10, <2>1, <2>2
<1>12. ASSUME NEW k \in 1..Len(s) PROVE t[k] = s[k]
  <2>1. k \in Nat /\ k \in 1..(x + y) /\ k \in 1..(x + (y + m))
    BY <1>11
  <2>2. t[k] = IF k <= x THEN b[k] ELSE r2[k - x]
    <3>1. k \in 1..(Len(b) + Len(r2))
      BY <1>10, <1>11, <2>1
    <3>2. Both(b, r2)[k] = IF k <= Len(b) THEN b[k] ELSE r2[k - Len(b)]
      BY <3>1, Joined, SMTT(60)
    <3> QED  BY <1>9, <1>10, <3>2
  <2>3. s[k] = IF k <= x THEN b[k] ELSE r[k - x]
    <3>1. k \in 1..(Len(b) + Len(r))
      BY <1>10, <1>11, <2>1
    <3>2. Both(b, r)[k] = IF k <= Len(b) THEN b[k] ELSE r[k - Len(b)]
      BY <3>1, Joined, SMTT(60)
    <3> QED  BY <1>9, <1>10, <3>2
  <2>4. CASE ~(k <= x)
    <3>1. k - x \in 1..(y + m) /\ k - x <= y
      BY <2>1, <2>4
    <3>2. r2[k - x] = r[k - x]
      BY <1>6, <1>8, <1>10, <1>11, <3>1, Joined
    <3> QED  BY <2>2, <2>3, <2>4, <3>2
  <2> QED  BY <2>2, <2>3, <2>4
<1>13. ASSUME NEW i \in 1..m PROVE t[Len(s) + i] = <<n + 1, i>>
  <2>1. PICK k \in Nat : k = Len(s) + i
    BY <1>11
  <2>2. k \in 1..(x + (y + m)) /\ ~(k <= x) /\ k - x \in 1..(y + m) /\ ~(k - x <= y) /\ (k - x) - y = i
    BY <1>11, <2>1
  <2>3. t[k] = r2[k - x]
    <3>1. k \in 1..(Len(b) + Len(r2))
      BY <1>10, <1>11, <2>2
    <3>2. Both(b, r2)[k] = IF k <= Len(b) THEN b[k] ELSE r2[k - Len(b)]
      BY <3>1, Joined, SMTT(60)
    <3> QED  BY <1>9, <1>10, <2>2, <3>2
  <2>4. r2[k - x] = c[(k - x) - y]
    <3>1. k - x \in 1..(Len(r) + Len(c))
      BY <1>6, <1>10, <2>2
    <3>2. Both(r, c)[k - x] = IF k - x <= Len(r) THEN r[k - x] ELSE c[(k - x) - Len(r)]
      BY <3>1, Joined, ZenonT(60)
    <3> QED  BY <1>8, <1>10, <2>2, <3>2
  <2> QED  BY <1>6, <2>1, <2>2, <2>3, <2>4
<1>14. Sound(s, n) /\ Past(published, s, n) /\ Len(t) = Len(s) + m
  BY <1>2, <1>7, <1>9, <1>11
<1>15. Sound(t, n + 1) /\ Past(published, t, n + 1)
  BY <1>3, <1>5, <1>12, <1>13, <1>14, Extended
<1>16. t # <<>>
  <2>0. m \in Nat /\ 0 < m /\ x \in Nat /\ y \in Nat
    BY <1>5
  <2>1. Len(t) > 0
    BY <1>11, <2>0
  <2>2. t = <<>> => Len(t) = 0
    BY <1>9, Joined
  <2> QED  BY <2>1, <2>2
<1>17. ~(b = <<>> /\ r2 = <<>>)
  BY <1>9, <1>16, Joined
<1>18. /\ buffer' = b /\ ring' = r2 /\ damaged' = (damaged \/ cut > 0) /\ next' = next
  <2>1. Uplink(b, r2, next, damaged \/ cut > 0)
    BY <1>3, <1>4, <1>5, <1>6, <1>7, <1>8 DEF Both
  <2> QED  BY <1>17, <2>1 DEF Uplink
<1>19. Stream' = t
  BY <1>9, <1>18 DEF Stream
<1>20. ~damaged' => Unbroken(t, next', n + 1)
  <2> SUFFICES ASSUME ~damaged' PROVE Unbroken(t, next', n + 1)
    OBVIOUS
  <2>1. ~damaged /\ m = Frames[n + 1]
    BY <1>5, <1>18
  <2>2. Unbroken(s, next, n)
    BY <1>2, <1>7, <1>9, <2>1
  <2>3. Unbroken(t, next, n + 1)
    BY <1>3, <1>12, <1>13, <1>14, <2>1, <2>2, ExtendedWhole
  <2> QED  BY <1>18, <2>3
<1>21. UpTypes'
  <2>1. sent' \in 0..Len(Frames)
    BY <1>3, FrameSizes
  <2>2. damaged' \in BOOLEAN
    BY <1>18
  <2> QED  BY <1>1, <1>18, <2>1, <2>2 DEF UpTypes
<1>22. UpCore'
  BY <1>1, <1>3, <1>15, <1>19, <1>20, <1>21 DEF UpCore
<1>23. UpRoom'
  BY <1>1, <1>7, <1>18 DEF UpRoom
<1> QED  BY <1>22, <1>23

\* A sequence of cells is what is read of it and the rest.
LEMMA Divided ==
  ASSUME NEW b \in Seq(Cell), NEW r \in Seq(Cell), NEW o \in 0..Len(r)
  PROVE  /\ SubSeq(r, 1, o) \in Seq(Cell) /\ Len(SubSeq(r, 1, o)) = o
         /\ \A i \in 1..o : SubSeq(r, 1, o)[i] = r[i]
         /\ Both(Both(b, SubSeq(r, 1, o)), SubSeq(r, o + 1, Len(r))) = Both(b, r)
<1>1. PICK n \in Nat : n = Len(r) /\ o <= n /\ o \in Nat
  BY LenProperties
<1>2. \A i \in 1..o : r[i] \in Cell
  <2> SUFFICES ASSUME NEW i \in 1..o PROVE r[i] \in Cell
    OBVIOUS
  <2>1. i \in 1..Len(r)
    BY <1>1
  <2> QED  BY <2>1, ElementOfSeq
<1>3. /\ SubSeq(r, 1, o) \in Seq(Cell)
      /\ Len(SubSeq(r, 1, o)) = IF 1 <= o THEN o - 1 + 1 ELSE 0
      /\ \A i \in 1..(o - 1 + 1) : SubSeq(r, 1, o)[i] = r[1 + i - 1]
  BY <1>1, <1>2, SubSeqProperties
<1>4. PICK c \in Seq(Cell) : c = SubSeq(r, 1, o)
  BY <1>3
<1>5. Len(c) = o
  BY <1>1, <1>3, <1>4
<1>6. \A i \in 1..o : c[i] = r[i]
  <2>1. \A i \in 1..o : i \in 1..(o - 1 + 1) /\ 1 + i - 1 = i
    BY <1>1
  <2> QED  BY <1>3, <1>4, <2>1
<1>7. PICK d \in Seq(Cell) : d = SubSeq(r, o + 1, Len(r)) /\ Len(d) = n - o
                             /\ \A k \in 1..(n - o) : d[k] = r[k + o]
  <2>1. PICK d \in Seq(Cell) : d = SubSeq(r, o + 1, Len(r))
    BY Rest
  <2>2. Len(d) = Len(r) - o /\ \A k \in 1..(Len(r) - o) : d[k] = r[k + o]
    BY <2>1, Rest
  <2> QED  BY <1>1, <2>1, <2>2
<1>8. PICK e \in Seq(Cell) : e = Both(c, d)
  BY Joined
<1>9. Len(e) = n
  <2>1. Len(e) = Len(c) + Len(d)
    BY <1>8, Joined
  <2> QED  BY <1>1, <1>5, <1>7, <2>1
<1>10. ASSUME NEW k \in 1..n PROVE e[k] = r[k]
  <2>1. k \in 1..(Len(c) + Len(d)) /\ k \in Nat
    BY <1>1, <1>5, <1>7
  <2>2. e[k] = IF k <= o THEN c[k] ELSE d[k - o]
    BY <1>5, <1>8, <2>1, Joined, ZenonT(60)
  <2>3. CASE k <= o
    <3>1. k \in 1..o
      BY <1>1, <2>3
    <3> QED  BY <1>6, <2>2, <2>3, <3>1
  <2>4. CASE ~(k <= o)
    <3>1. k - o \in 1..(n - o) /\ (k - o) + o = k
      BY <1>1, <2>1, <2>4
    <3> QED  BY <1>7, <2>2, <2>4, <3>1
  <2> QED  BY <2>3, <2>4
<1>11. e = r
  BY <1>1, <1>9, <1>10, SeqEqual
<1>12. Both(Both(b, c), d) = Both(b, r)
  <2>1. Both(Both(b, c), d) = Both(b, Both(c, d))
    BY BothAssociative
  <2> QED  BY <1>8, <1>11, <2>1
<1> QED  BY <1>4, <1>5, <1>6, <1>7, <1>12

\* RADIO_ReceiveData moves cells from the ring to the buffer, or loses them.
LEMMA UpReceive ==
  ASSUME UpInv, Receive PROVE UpInv'
<1> USE UpTyped DEF UpInv
<1>1. UNCHANGED <<sent, published>> /\ step = "receive"
  BY DEF Receive
<1>2. PICK b \in Seq(Cell), r \in Seq(Cell), x \in Nat, y \in Nat :
         b = buffer /\ r = ring /\ x = Len(buffer) /\ y = Len(ring)
  OBVIOUS
<1>3. x < MaxPayload /\ MaxPayload \in Nat
  BY <1>1, <1>2, FrameSizes DEF UpRoom
<1>4. PICK o \in 0..y : o = Room /\ x + o <= MaxPayload
  <2>1. CASE y < MaxPayload - x
    BY <1>2, <1>3, <2>1 DEF Room
  <2>2. CASE ~(y < MaxPayload - x)
    <3>1. MaxPayload - x \in 0..y /\ x + (MaxPayload - x) <= MaxPayload
      BY <1>3, <2>2
    <3> QED  BY <1>2, <2>2, <3>1 DEF Room
  <2> QED  BY <2>1, <2>2
<1>5. o \in 0..Len(r)
  BY <1>2
<1>6. PICK d \in Seq(Cell) : /\ d = SubSeq(r, o + 1, Len(r)) /\ Len(d) = Len(r) - o
                            /\ \A k \in 1..(Len(r) - o) : d[k] = r[k + o]
  BY <1>5, Remains
<1>7. CASE /\ Uplink(b \o SubSeq(r, 1, o), d, next, damaged)
           /\ step' = (IF o = 0 THEN "downlink" ELSE "parse")
  <2>1. PICK c \in Seq(Cell) : c = SubSeq(r, 1, o) /\ Len(c) = o
    BY <1>5, Divided
  <2>2. PICK e \in Seq(Cell) : e = Both(b, c) /\ Len(e) = x + o
    <3>1. PICK e \in Seq(Cell) : e = Both(b, c)
      BY Joined
    <3>2. Len(e) = Len(b) + Len(c)
      BY <3>1, Joined
    <3> QED  BY <1>2, <2>1, <3>1, <3>2
  <2>3. Both(e, d) = Both(b, r)
    BY <1>5, <1>6, <2>1, <2>2, Divided
  <2>4. Uplink(e, d, next, damaged)
    BY <1>7, <2>1, <2>2 DEF Both
  <2>5. Sound(Both(e, d), sent) /\ Past(published', Both(e, d), sent) /\ published' \in Seq(Nat)
    BY <1>1, <1>2, <2>3
  <2>6. ~damaged => Unbroken(Both(e, d), next, sent)
    BY <1>2, <2>3
  <2>7. UpCore'
    BY <1>1, <2>4, <2>5, <2>6, Handled
  <2>8. buffer' = e
    BY <2>4 DEF Uplink
  <2>9. o \in Nat /\ (step' # "parse" => o = 0)
    BY <1>4, <1>7
  <2>10. x + o <= MaxPayload /\ (o = 0 => x + o < MaxPayload)
    BY <1>3, <1>4
  <2>11. UpRoom'
    BY <2>2, <2>8, <2>9, <2>10 DEF UpRoom
  <2> QED  BY <2>7, <2>11
<1>8. CASE Uplink(b, d, next, TRUE)
  <2>1. Sound(Both(b, d), sent) /\ Past(published, Both(b, d), sent)
    <3>1. Sound(Both(b, r), sent) /\ Past(published, Both(b, r), sent)
      BY <1>2
    <3> QED  BY <1>5, <1>6, <3>1, RingCut
  <2>2. UpCore'
    BY <1>1, <1>8, <2>1, Handled
  <2>3. buffer' = buffer
    BY <1>2, <1>8 DEF Uplink
  <2>4. UpRoom'
    BY <1>1, <2>3 DEF UpRoom
  <2> QED  BY <2>2, <2>4
<1>9. CASE UNCHANGED <<ring, buffer, next, damaged>>
  BY <1>1, <1>9, UpAside
<1> QED  BY <1>2, <1>4, <1>6, <1>7, <1>8, <1>9 DEF Receive

-----------------------------------------------------------------------------
\* The first frame of an unbroken stream.
LEMMA FirstFrame ==
  ASSUME NEW n \in 0..Len(Frames), NEW s \in Seq(Cell), Sound(s, n), NEW f \in Nat,
         Unbroken(s, f, n), Len(s) > 0
  PROVE  /\ f \in 1..n /\ f \in 1..Len(Frames)
         /\ \A i \in 1..Frames[f] : i <= Len(s) /\ s[i] = <<f, i>>
<1>1. PICK l \in Nat : l = Len(s) /\ 1 \in 1..l
  BY LenProperties
<1>2. s[1] = <<f, 1>> /\ s[1][1] = f /\ s[1][2] = 1
  BY DEF Unbroken
<1>3. f \in 1..n /\ f \in 1..Len(Frames)
  <2>1. s[1][1] \in 1..n
    BY <1>1 DEF Sound
  <2> QED  BY <1>2, <2>1, FrameSizes
<1>4. ASSUME NEW i \in 1..Frames[f] PROVE i <= Len(s) /\ s[i] = <<f, i>>
  <2>1. PICK j \in Nat : i = 1 + j /\ 1 + j <= Frames[f]
    <3>1. Frames[f] \in Nat
      BY <1>3, FrameSizes
    <3>2. i - 1 \in Nat /\ i = 1 + (i - 1) /\ 1 + (i - 1) <= Frames[f]
      BY <3>1
    <3> QED  BY <3>2
  <2>2. s[1][2] + j <= Frames[s[1][1]]
    BY <1>2, <2>1
  <2>3. 1 + j <= Len(s) /\ s[1 + j] = <<s[1][1], s[1][2] + j>>
    BY <1>1, <2>2 DEF Unbroken
  <2> QED  BY <1>2, <2>1, <2>3
<1> QED  BY <1>3, <1>4

\* Without its first frame it is unbroken from the next.
LEMMA OtherFrames ==
  ASSUME NEW n \in 0..Len(Frames), NEW s \in Seq(Cell), Sound(s, n), NEW f \in Nat,
         Unbroken(s, f, n), NEW t \in Seq(Cell), Len(t) > 0, Len(t) = Len(s) - Frames[f],
         Len(s) > 0, \A k \in 1..Len(t) : t[k] = s[k + Frames[f]]
  PROVE  Unbroken(t, f + 1, n)
<1>1. f \in 1..n /\ f \in 1..Len(Frames) /\ \A i \in 1..Frames[f] : i <= Len(s) /\ s[i] = <<f, i>>
  BY FirstFrame
<1>2. PICK o \in Nat : o = Frames[f] /\ o > 0
  BY <1>1, FrameSizes
<1>3. PICK x \in Nat, y \in Nat : x = Len(s) /\ y = Len(t) /\ y > 0 /\ x = y + o
  BY <1>2, LenProperties
<1>4. ASSUME NEW k \in 1..y PROVE t[k] = s[k + o] /\ k + o \in 1..x
  <2>1. t[k] = s[k + o]
    BY <1>2, <1>3
  <2>2. x = y + o /\ x \in Nat /\ y \in Nat /\ o \in Nat
    BY <1>2, <1>3
  <2>3. k + o \in 1..x
    BY <2>2
  <2> QED  BY <2>1, <2>3
<1>5. t[1] = <<f + 1, 1>>
  <2>1. s[o] = <<f, o>> /\ o \in 1..x /\ o # x
    <3>1. x = y + o /\ x \in Nat /\ y \in Nat /\ o \in Nat /\ y > 0 /\ o > 0
      BY <1>2, <1>3
    <3>2. o \in 1..x /\ o # x /\ o \in 1..o
      BY <3>1
    <3>3. s[o] = <<f, o>>
      BY <1>1, <1>2, <3>2
    <3> QED  BY <3>2, <3>3
  <2>2. s[o][1] = f /\ s[o][2] = o
    BY <2>1
  <2>3. s[o + 1] = <<f + 1, 1>>
    BY <1>2, <1>3, <2>1, <2>2 DEF Unbroken
  <2>4. 1 \in 1..y /\ 1 + o = o + 1
    BY <1>3
  <2> QED  BY <1>4, <2>3, <2>4
<1>6. ASSUME NEW k \in 1..y, NEW j \in Nat, t[k][2] + j <= Frames[t[k][1]]
      PROVE  k + j <= y /\ t[k + j] = <<t[k][1], t[k][2] + j>>
  <2>1. PICK i \in 1..x : i = k + o /\ t[k] = s[i]
    BY <1>4
  <2>2. i + j <= x /\ s[i + j] = <<t[k][1], t[k][2] + j>>
    <3>1. s[i][2] + j <= Frames[s[i][1]] /\ i \in 1..Len(s)
      BY <1>3, <1>6, <2>1
    <3>2. i + j <= Len(s) /\ s[i + j] = <<s[i][1], s[i][2] + j>>
      BY <1>3, <3>1, InFrame
    <3> QED  BY <1>3, <2>1, <3>2
  <2>3. k + j <= y /\ k + j \in 1..y /\ (k + j) + o = i + j
    <3>1. x = y + o /\ x \in Nat /\ y \in Nat /\ o \in Nat /\ i = k + o /\ i + j <= x
      BY <1>2, <1>3, <2>1, <2>2
    <3> QED  BY <3>1
  <2> QED  BY <1>4, <2>2, <2>3
<1>7. ASSUME NEW k \in 1..y, t[k][2] = Frames[t[k][1]]
      PROVE  IF k = y THEN t[k][1] = n ELSE t[k + 1] = <<t[k][1] + 1, 1>>
  <2>1. PICK i \in 1..x : i = k + o /\ t[k] = s[i]
    BY <1>4
  <2>2. IF i = x THEN t[k][1] = n ELSE s[i + 1] = <<t[k][1] + 1, 1>>
    BY <1>3, <1>7, <2>1 DEF Unbroken
  <2>0. x = y + o /\ x \in Nat /\ y \in Nat /\ o \in Nat /\ i = k + o
    BY <1>2, <1>3, <2>1
  <2>3. i = x <=> k = y
    BY <2>0
  <2>4. k # y => k + 1 \in 1..y /\ (k + 1) + o = i + 1
    BY <2>0
  <2> QED  BY <1>4, <2>2, <2>3, <2>4
<1>8. ~(Len(t) = 0)
  BY <1>3
<1> QED  BY <1>3, <1>5, <1>6, <1>7, <1>8 DEF Unbroken

\* Of an unbroken stream, a header that is in the buffer is true.
LEMMA HeaderTrue ==
  ASSUME UpCore, ~damaged, Len(buffer) >= HeaderSize
  PROVE  TrueHeader(buffer) /\ buffer[1][1] = next
<1> USE UpTyped
<1>1. PICK b \in Seq(Cell), r \in Seq(Cell), n \in 0..Len(Frames) : b = buffer /\ r = ring /\ n = sent
  OBVIOUS
<1>2. PICK s \in Seq(Cell) : s = Both(b, r)
  BY Joined
<1>3. PICK x \in Nat, y \in Nat : x = Len(b) /\ y = Len(r) /\ Len(s) = x + y
  BY <1>2, Joined
<1>4. x >= HeaderSize /\ HeaderSize \in Nat /\ HeaderSize >= 2
  BY <1>1, <1>3, FrameSizes
<1>5. Len(s) > 0
  BY <1>3, <1>4
<1>6. Sound(s, n) /\ Unbroken(s, next, n)
  BY <1>1, <1>2
<1>7. next \in 1..Len(Frames) /\ \A i \in 1..Frames[next] : i <= Len(s) /\ s[i] = <<next, i>>
  BY <1>5, <1>6, FirstFrame
<1>8. ASSUME NEW i \in 1..HeaderSize PROVE b[i] = <<next, i>>
  <2>1. i \in 1..Frames[next]
    BY <1>4, <1>7, FrameSizes
  <2>2. i \in 1..(x + y) /\ i <= x
    BY <1>3, <1>4
  <2>3. s[i] = b[i]
    BY <1>2, <1>3, <2>2, Joined
  <2> QED  BY <1>7, <2>1, <2>3
<1>9. b[1][1] = next
  <2>1. 1 \in 1..HeaderSize
    BY <1>4
  <2>2. b[1] = <<next, 1>>
    BY <1>8, <2>1
  <2> QED  BY <2>2
<1> QED  BY <1>1, <1>8, <1>9 DEF TrueHeader

\* RADIO_ReceiveData goes on at a later place of the buffer, or drops it.
LEMMA UpResync ==
  ASSUME UpInv, Resync PROVE UpInv'
<1> USE UpTyped DEF UpInv
<1>1. /\ UNCHANGED <<sent, published, step>> /\ step = "parse"
      /\ Len(buffer) >= HeaderSize /\ ~TrueHeader(buffer)
  BY DEF Resync
<1>2. damaged
  BY <1>1, HeaderTrue
<1>3. PICK b \in Seq(Cell), r \in Seq(Cell), x \in Nat :
         b = buffer /\ r = ring /\ x = Len(b)
  OBVIOUS
<1>4. \E o \in 0..x : Uplink(SubSeq(b, o + 1, x), r, next, damaged)
  <2>1. CASE \E k \in 2..(x - HeaderSize + 1) : Uplink(SubSeq(b, k, x), r, next, damaged)
    <3>1. PICK k \in 2..(x - HeaderSize + 1) : Uplink(SubSeq(b, k, x), r, next, damaged)
      BY <2>1
    <3>2. k - 1 \in 0..x /\ (k - 1) + 1 = k
      BY <3>1, FrameSizes
    <3> QED  BY <3>1, <3>2
  <2>2. CASE Uplink(<<>>, r, next, damaged)
    <3>1. SubSeq(b, x + 1, x) = <<>> /\ x \in 0..x
      BY <1>3, Rest
    <3> QED  BY <2>2, <3>1
  <2>3. \/ \E k \in 2..(Len(buffer) - HeaderSize + 1) :
              Uplink(SubSeq(buffer, k, Len(buffer)), ring, next, damaged)
        \/ Uplink(<<>>, ring, next, damaged)
    BY DEF Resync
  <2> QED  BY <1>3, <2>1, <2>2, <2>3
<1>5. PICK o \in 0..x : Uplink(SubSeq(b, o + 1, x), r, next, damaged)
  BY <1>4
<1>6. PICK c \in Seq(Cell) : /\ c = SubSeq(b, o + 1, x) /\ Len(c) = x - o
                            /\ \A k \in 1..(x - o) : c[k] = b[k + o]
  BY <1>3, Remains
<1>7. Sound(Both(c, r), sent) /\ Past(published, Both(c, r), sent)
  <2>1. Sound(Both(b, r), sent) /\ Past(published, Both(b, r), sent)
    BY <1>3
  <2>2. o \in 0..Len(b) /\ Len(c) = Len(b) - o /\ \A k \in 1..(Len(b) - o) : c[k] = b[k + o]
    BY <1>3, <1>6
  <2> QED  BY <2>1, <2>2, BufferCut
<1>8. UpCore'
  BY <1>1, <1>2, <1>5, <1>6, <1>7, Handled
<1>9. buffer' = c
  BY <1>5, <1>6 DEF Uplink
<1>10. UpRoom'
  <2>1. x <= MaxPayload /\ MaxPayload \in Nat
    BY <1>3, FrameSizes DEF UpRoom
  <2>2. Len(c) <= MaxPayload
    BY <1>6, <2>1, SMTT(60)
  <2> QED  BY <1>1, <1>9, <2>2 DEF UpRoom
<1> QED  BY <1>8, <1>10

\* What is in the buffer is cells of frames that were sent.
LEMMA Buffered ==
  ASSUME UpCore, Len(buffer) > 0
  PROVE  buffer[1][1] \in 1..sent /\ buffer[1][1] \in 1..Len(Frames)
<1> USE UpTyped
<1>1. PICK b \in Seq(Cell), r \in Seq(Cell), x \in Nat, y \in Nat :
         b = buffer /\ r = ring /\ x = Len(b) /\ y = Len(r) /\ x > 0
  OBVIOUS
<1>2. PICK s \in Seq(Cell) : s = Both(b, r)
  BY Joined
<1>3. Len(s) = x + y
  BY <1>1, <1>2, Joined, ZenonT(60)
<1>4. 1 \in 1..(x + y) /\ 1 <= x
  BY <1>1
<1>5. s[1] = b[1]
  BY <1>1, <1>2, <1>4, Joined
<1>6. s[1][1] \in 1..sent
  BY <1>1, <1>2, <1>3, <1>4 DEF Sound
<1> QED  BY <1>1, <1>5, <1>6, FrameSizes

\* A length that may be read from the bytes in the buffer.
LEMMA Lengths ==
  ASSUME UpCore, NEW l \in Apparent(buffer)
  PROVE  l \in 1..MaxPayload /\ (TrueHeader(buffer) => l = Frames[buffer[1][1]])
<1>1. CASE TrueHeader(buffer)
  <2>1. Len(buffer) > 0
    BY <1>1, FrameSizes, UpTyped DEF TrueHeader
  <2>2. l = Frames[buffer[1][1]]
    BY <1>1 DEF Apparent
  <2> QED  BY <2>1, <2>2, Buffered, FrameSizes
<1>2. CASE ~TrueHeader(buffer)
  BY <1>2 DEF Apparent
<1> QED  BY <1>1, <1>2

\* Bytes that Crypto_TC_ProcessSecurity lets pass are those of the frame that
\* their first says.
LEMMA WholeFrame ==
  ASSUME NEW b \in Seq(Cell), NEW l \in Nat, HeaderSize <= l, l <= Len(b),
         Whole(SubSeq(b, 1, l)), b[1][1] \in 1..Len(Frames),
         TrueHeader(b) => l = Frames[b[1][1]]
  PROVE  SubSeq(b, 1, l)[1][1] = b[1][1] /\ l = Frames[b[1][1]] /\ b[l] = <<b[1][1], l>>
<1>1. PICK n \in Nat : n = Len(b) /\ l <= n
  BY LenProperties
<1>2. PICK x \in Seq(Cell) : x = SubSeq(b, 1, l)
  <2>1. l \in 0..Len(b)
    BY <1>1
  <2> QED  BY <2>1, Divided
<1>3. Len(x) = l /\ \A i \in 1..l : x[i] = b[i]
  <2>1. l \in 0..Len(b)
    BY <1>1
  <2> QED  BY <1>2, <2>1, Divided
<1>4. HeaderSize \in Nat /\ HeaderSize >= 2
  BY FrameSizes
<1>5. 1 \in 1..l /\ \A i \in 1..HeaderSize : i \in 1..l
  BY <1>4
<1>6. x[1][1] = b[1][1]
  BY <1>3, <1>5
<1>7. TrueHeader(x) /\ SubSeq(x, 1, Frames[x[1][1]]) = Cells(x[1][1])
  BY <1>2 DEF Whole
<1>8. TrueHeader(b)
  <2>1. Len(b) >= HeaderSize
    BY <1>1, <1>4
  <2>2. \A i \in 1..HeaderSize : b[i] = <<b[1][1], i>>
    BY <1>3, <1>5, <1>6, <1>7 DEF TrueHeader
  <2> QED  BY <2>1, <2>2 DEF TrueHeader
<1>9. PICK f \in 1..Len(Frames) : f = b[1][1] /\ l = Frames[f]
  BY <1>8
<1>10. SubSeq(x, 1, l) = Cells(f)
  BY <1>6, <1>7, <1>9
<1>11. SubSeq(x, 1, l)[l] = x[l]
  <2>1. l \in 0..Len(x) /\ l \in 1..l
    BY <1>3, <1>5
  <2> QED  BY <2>1, Divided
<1>12. Cells(f)[l] = <<f, l>>
  <2>1. l \in 1..Frames[f]
    BY <1>5, <1>9
  <2> QED  BY <2>1, CellsOf
<1>13. b[l] = <<f, l>>
  <2>1. l \in 1..l
    BY <1>5
  <2> QED  BY <1>3, <1>10, <1>11, <1>12, <2>1
<1> QED  BY <1>2, <1>6, <1>9, <1>13

\* A frame that is published is before all that comes after its last cell.
LEMMA PublishedPast ==
  ASSUME NEW n \in 0..Len(Frames), NEW s \in Seq(Cell), Sound(s, n),
         NEW ps \in Seq(Nat), Past(ps, s, n), NEW f \in 1..n, NEW l \in Nat, l = Frames[f],
         0 < l, l <= Len(s), s[1][1] = f, s[l] = <<f, l>>,
         NEW t \in Seq(Cell), Len(t) = Len(s) - l,
         \A k \in 1..Len(t) : t[k] = s[k + l]
  PROVE  Append(ps, f) \in Seq(Nat) /\ Past(Append(ps, f), t, n)
<1>1. PICK x \in Nat, y \in Nat, z \in Nat : x = Len(s) /\ y = Len(t) /\ z = Len(ps) /\ x = y + l
  BY LenProperties
<1>2. n \in Nat /\ f \in Nat
  BY FrameSizes
<1>3. PICK qs \in Seq(Nat) : qs = Append(ps, f)
  BY <1>2, AppendProperties
<1>4. Len(qs) = z + 1 /\ (\A i \in 1..z : qs[i] = ps[i]) /\ qs[z + 1] = f
  BY <1>1, <1>2, <1>3, AppendProperties
<1>5. \A i \in 1..z : ps[i] \in 1..n /\ ps[i] < f
  <2>1. 1 \in 1..x
    BY <1>1, SMTT(60)
  <2> QED  BY <1>1, <2>1 DEF Past
<1>6. ASSUME NEW k \in 1..y PROVE f < t[k][1]
  <2>0. x = y + l /\ x \in Nat /\ y \in Nat
    BY <1>1
  <2>1. t[k] = s[k + l] /\ k + l \in 1..x /\ l \in 1..x /\ l < k + l
    <3>1. t[k] = s[k + l]
      BY <1>1
    <3>2. k + l \in 1..x /\ l \in 1..x /\ l < k + l
      BY <2>0, MovedOn
    <3> QED  BY <3>1, <3>2
  <2>2. Precedes(s[l], s[k + l]) /\ s[k + l][1] \in 1..n /\ s[k + l][2] \in 1..Frames[s[k + l][1]]
    BY <1>1, <2>1 DEF Sound
  <2>3. PICK g \in Nat, j \in Nat : g = s[k + l][1] /\ j = s[k + l][2] /\ j <= Frames[g]
    <3>1. PICK g \in 1..n : g = s[k + l][1]
      BY <2>2
    <3>2. g \in Nat /\ Frames[g] \in Nat
      BY <1>2, FrameSizes, SMTT(60)
    <3>3. PICK j \in 1..Frames[g] : j = s[k + l][2]
      BY <2>2, <3>1
    <3>4. j \in Nat /\ j <= Frames[g]
      BY <3>2
    <3> QED  BY <3>1, <3>2, <3>3, <3>4
  <2>4. f < g \/ (f = g /\ l < j)
    <3>1. s[l][1] = f /\ s[l][2] = l
      OBVIOUS
    <3> QED  BY <2>2, <2>3, <3>1 DEF Precedes
  <2>5. ~(f = g /\ l < j)
    <3> SUFFICES ASSUME f = g, l < j PROVE FALSE
      OBVIOUS
    <3>1. j <= l /\ j \in Nat
      BY <2>3
    <3> QED  BY <3>1
  <2> QED  BY <2>1, <2>3, <2>4, <2>5
<1>7. ASSUME NEW i \in 1..Len(qs) PROVE i \in 1..z \/ i = z + 1
  BY <1>1, <1>4
<1>8. \A i \in 1..Len(qs) : qs[i] \in 1..n
  BY <1>4, <1>5, <1>7
<1>9. ASSUME NEW i \in 1..Len(qs), NEW j \in 1..Len(qs), i < j PROVE qs[i] < qs[j]
  <2>1. i \in 1..z
    BY <1>1, <1>4, <1>7, <1>9
  <2>2. CASE j \in 1..z
    BY <1>1, <1>4, <1>9, <2>1, <2>2 DEF Past
  <2>3. CASE j = z + 1
    BY <1>4, <1>5, <2>1, <2>3
  <2> QED  BY <1>7, <2>2, <2>3
<1>10. ASSUME NEW i \in 1..Len(qs), NEW k \in 1..y PROVE qs[i] < t[k][1]
  <2>1. CASE i = z + 1
    BY <1>4, <1>6, <2>1
  <2>2. CASE i \in 1..z
    <3>1. k + l \in 1..x /\ t[k] = s[k + l]
      <4>1. x = y + l /\ x \in Nat /\ y \in Nat
        BY <1>1
      <4>2. t[k] = s[k + l]
        BY <1>1
      <4>0. \A o \in Nat : x = y + o => k + o \in 1..x
        BY <4>1
      <4>3. k + l \in 1..x
        BY <4>0, <4>1
      <4> QED  BY <4>2, <4>3
    <3> QED  BY <1>1, <1>4, <2>2, <3>1 DEF Past
  <2> QED  BY <1>7, <2>1, <2>2
<1> QED  BY <1>1, <1>3, <1>8, <1>9, <1>10 DEF Past

\* RADIO_ReceiveData takes a frame from the front of the buffer, or waits for more.
LEMMA UpParse ==
  ASSUME UpInv, Parse PROVE UpInv'
<1> USE UpTyped DEF UpInv
<1>1. UNCHANGED sent /\ step = "parse"
  BY DEF Parse
<1>2. PICK b \in Seq(Cell), r \in Seq(Cell), x \in Nat, y \in Nat :
         b = buffer /\ r = ring /\ x = Len(b) /\ y = Len(r) /\ x <= MaxPayload
  BY DEF UpRoom
<1>3. PICK l \in Apparent(buffer) :
          \/ /\ Partial(buffer, l) /\ step' = "receive"
             /\ UNCHANGED <<ring, buffer, published, next, damaged>>
          \/ /\ ~Partial(buffer, l) /\ l >= HeaderSize
             /\ Secure(SubSeq(buffer, 1, l))
             /\ Uplink(SubSeq(buffer, l + 1, Len(buffer)), ring, next + 1, damaged)
             /\ UNCHANGED step
  BY DEF Parse
<1>4. l \in 1..MaxPayload /\ (TrueHeader(buffer) => l = Frames[buffer[1][1]])
  BY <1>3, Lengths
<1>5. l \in Nat /\ MaxPayload \in Nat /\ HeaderSize \in Nat /\ 2 <= HeaderSize /\ HeaderSize <= MaxPayload
  BY <1>4, FrameSizes
<1>6. CASE /\ Partial(buffer, l) /\ step' = "receive"
           /\ UNCHANGED <<ring, buffer, published, next, damaged>>
  <2>1. UpCore'
    BY <1>1, <1>6 DEF UpCore, UpTypes, Sound, Past, Unbroken, Stream
  <2>2. Len(buffer) < HeaderSize \/ l > Len(buffer)
    BY <1>6 DEF Partial
  <2>3. x < MaxPayload
    BY <1>2, <1>4, <1>5, <2>2
  <2>4. UpRoom'
    BY <1>2, <1>6, <2>3 DEF UpRoom
  <2> QED  BY <2>1, <2>4
<1>7. CASE /\ ~Partial(buffer, l) /\ l >= HeaderSize
           /\ Secure(SubSeq(buffer, 1, l))
           /\ Uplink(SubSeq(buffer, l + 1, Len(buffer)), ring, next + 1, damaged)
           /\ UNCHANGED step
  <2>1. ~(x < HeaderSize) /\ ~(l > x)
    BY <1>2, <1>7 DEF Partial
  <2>2. l <= x /\ l \in 0..x /\ 0 < l /\ 0 < x /\ x >= HeaderSize /\ HeaderSize <= l
    BY <1>2, <1>5, <1>7, <2>1
  <2>3. PICK c \in Seq(Cell) : /\ c = SubSeq(b, l + 1, x) /\ Len(c) = x - l
                              /\ \A k \in 1..(x - l) : c[k] = b[k + l]
    BY <1>2, <2>2, Remains
  <2>4. PICK s \in Seq(Cell) : s = Both(b, r) /\ Sound(s, sent) /\ Past(published, s, sent)
    <3>1. PICK s \in Seq(Cell) : s = Both(b, r)
      BY Joined
    <3> QED  BY <1>2, <3>1
  <2>5. PICK t \in Seq(Cell) : t = Both(c, r)
    BY Joined
  <2>6. Len(s) = x + y /\ \A k \in 1..(x + y) : k <= x => s[k] = b[k]
    <3>1. Len(s) = Len(b) + Len(r) /\ \A k \in 1..(Len(b) + Len(r)) : k <= Len(b) => s[k] = b[k]
      BY <2>4, Joined
    <3> QED  BY <1>2, <3>1
  <2>7. /\ Sound(t, sent) /\ Past(published, t, sent) /\ Len(c) = x - l
        /\ Len(t) = Len(s) - l /\ \A k \in 1..Len(t) : t[k] = s[k + l]
    <3>1. PICK n \in Nat, ps \in Seq(Nat), o \in 0..Len(b) : n = sent /\ ps = published /\ o = l
      BY <1>2, <2>2
    <3>2. Sound(Both(b, r), n) /\ Past(ps, Both(b, r), n)
      BY <1>2, <3>1
    <3>0. b \in Seq(Cell) /\ r \in Seq(Cell) /\ c \in Seq(Cell) /\ o \in 0..Len(b)
      BY <1>2, <2>3, <3>1
    <3>3. Len(c) = Len(b) - o /\ \A k \in 1..(Len(b) - o) : c[k] = b[k + o]
      BY <1>2, <2>3, <3>1
    <3> HIDE UpTyped DEF UpInv
    <3>4. Sound(Both(c, r), n) /\ Past(ps, Both(c, r), n)
      BY <3>0, <3>2, <3>3, BufferCut
    <3>5. Len(Both(c, r)) = Len(Both(b, r)) - o
      BY <3>0, <3>3, Shifted, ZenonT(60)
    <3>6. \A k \in 1..Len(Both(c, r)) : Both(c, r)[k] = Both(b, r)[k + o]
      BY <3>0, <3>3, Shifted, ZenonT(60)
    <3> QED  BY <2>3, <2>4, <2>5, <3>1, <3>4, <3>5, <3>6
  <2>8. Len(buffer) > 0
    BY <1>2, <2>2
  <2>9. PICK f \in 1..sent : f = b[1][1] /\ f \in 1..Len(Frames)
    BY <1>2, <2>8, Buffered
  <2>10. published' \in Seq(Nat) /\ Past(published', t, sent)
    <3>1. CASE UNCHANGED published
      BY <2>7, <3>1
    <3>2. CASE Whole(SubSeq(b, 1, l)) /\ published' = Append(published, SubSeq(b, 1, l)[1][1])
      <4>1. SubSeq(b, 1, l)[1][1] = f /\ l = Frames[f] /\ b[l] = <<f, l>>
        BY <1>2, <1>4, <1>5, <2>2, <2>9, <3>2, WholeFrame
      <4>2. 1 \in 1..(x + y) /\ 1 <= x /\ l \in 1..(x + y) /\ l <= x /\ l <= Len(s)
        BY <1>2, <1>5, <2>2, <2>6
      <4>3. s[1][1] = f /\ s[l] = <<f, l>>
        BY <2>6, <2>9, <4>1, <4>2
      <4>4. PICK n \in 0..Len(Frames) : n = sent
        OBVIOUS
      <4>5. Append(published, f) \in Seq(Nat) /\ Past(Append(published, f), t, n)
        <5>1. f \in 1..n /\ Sound(s, n) /\ Past(published, s, n)
          BY <2>4, <2>9, <4>4
        <5> QED  BY <1>5, <2>2, <2>7, <4>1, <4>2, <4>3, <5>1, PublishedPast
      <4> QED  BY <3>2, <4>1, <4>4, <4>5
    <3>3. Secure(SubSeq(b, 1, l))
      BY <1>2, <1>7
    <3> QED  BY <3>1, <3>2, <3>3 DEF Secure
  <2>11. ~damaged /\ Len(t) > 0 => Unbroken(t, next + 1, sent)
    <3> SUFFICES ASSUME ~damaged, Len(t) > 0 PROVE Unbroken(t, next + 1, sent)
      OBVIOUS
    <3>1. TrueHeader(buffer) /\ buffer[1][1] = next
      BY <1>2, <2>2, HeaderTrue
    <3>2. l = Frames[next]
      BY <1>4, <3>1
    <3>3. Unbroken(s, next, sent)
      BY <1>2, <2>4
    <3>4. Len(s) > 0
      BY <1>2, <2>2, <2>6
    <3> QED  BY <2>4, <2>7, <3>2, <3>3, <3>4, OtherFrames
  <2>12. Uplink(c, r, next + 1, damaged) /\ next + 1 \in Nat
    BY <1>2, <1>7, <2>3
  <2>13. UpCore'
    BY <1>1, <2>5, <2>7, <2>10, <2>11, <2>12, Handled
  <2>14. buffer' = c
    BY <2>12 DEF Uplink
  <2>15. UpRoom'
    <3>1. Len(c) <= MaxPayload
      BY <1>2, <1>5, <2>7
    <3> QED  BY <1>1, <1>7, <2>14, <3>1 DEF UpRoom
  <2> QED  BY <2>13, <2>15
<1> QED  BY <1>3, <1>6, <1>7

uplink == <<ring, buffer, sent, published, next, damaged>>

\* The other handlers leave the uplink alone, and none of them is between a
\* read and the frames of it.
LEMMA UpOthers ==
  ASSUME \/ DeviceNext /\ UNCHANGED radioVars
         \/ AdcsNext /\ UNCHANGED radioVars
         \/ PacketMade \/ EnableRadio \/ ConfigureRadio \/ HousekeepingRadio \/ Service
         \/ ReceivedEnough \/ Downlink \/ TakePacket \/ StartFails \/ DropOversized \/ AddPacket
         \/ FrameFull \/ CompleteFrame
         \/ UNCHANGED vars
  PROVE  UNCHANGED uplink /\ (step' = step \/ step # "parse")
<1> USE DEF uplink, uplinkVars, radioVars, Handle
<1>1. CASE DeviceNext /\ UNCHANGED radioVars
  BY <1>1 DEF DeviceNext, BadPacket, Noop, ResetCounters, EnableUart, EnableAgain, DisableUart,
       DisableAgain, ConfigureDemo, Switch, PollHousekeeping, PollData, Poll, Exit, Reject
<1>2. CASE AdcsNext /\ UNCHANGED radioVars
  <2>1. step' = step \/ step # "parse"
    BY <1>2 DEF AdcsNext, LoadTable, DeviceRestarts, EnableAdcs, EnableUart, ConfigureAdcs, Forward,
         ForwardDisabled, Reject, GpsTick, HousekeepingAdcs, FileStep, SaveWrite, LoadTime,
         PersistOpen, PersistWrite, appVars
  <2> QED  BY <1>2, <2>1
<1>3. CASE PacketMade
  BY <1>3 DEF PacketMade, appVars
<1>4. CASE EnableRadio \/ ConfigureRadio \/ HousekeepingRadio
  BY <1>4 DEF EnableRadio, ConfigureRadio, HousekeepingRadio, Poll
<1>5. CASE Service \/ ReceivedEnough
  BY <1>5 DEF Service, ReceivedEnough
<1>6. CASE Downlink \/ TakePacket
  BY <1>6 DEF Downlink, TakePacket
<1>7. CASE StartFails \/ DropOversized \/ AddPacket \/ FrameFull
  BY <1>7 DEF StartFails, DropOversized, AddPacket, FrameFull
<1>8. CASE CompleteFrame
  BY <1>8 DEF CompleteFrame
<1>9. CASE UNCHANGED vars
  BY <1>9 DEF vars, appVars
<1> QED  BY <1>1, <1>2, <1>3, <1>4, <1>5, <1>6, <1>7, <1>8, <1>9

\* The ring is lost with the power, or nothing is.
LEMMA UpPower ==
  ASSUME UpInv, RailCycled \/ DisableRadio \/ ExitRadio PROVE UpInv'
<1>1. \/ RingLost /\ UNCHANGED <<sent, published>> /\ (step' = step \/ step # "parse")
      \/ UNCHANGED <<ring, buffer, sent, published, next, damaged>> /\ (step' = step \/ step # "parse")
  <2>1. CASE RailCycled
    BY <2>1 DEF RailCycled, appVars
  <2>2. CASE DisableRadio
    BY <2>2 DEF DisableRadio, PowerOffAndClose
  <2>3. CASE ExitRadio
    BY <2>3 DEF ExitRadio, PowerOffAndClose
  <2> QED  BY <2>1, <2>2, <2>3
<1>2. CASE RingLost /\ UNCHANGED <<sent, published>> /\ (step' = step \/ step # "parse")
  BY <1>2, UpRingLost
<1>3. CASE UNCHANGED <<ring, buffer, sent, published, next, damaged>> /\ (step' = step \/ step # "parse")
  BY <1>3, UpAside
<1> QED  BY <1>1, <1>2, <1>3

\* Every step of the uplink, and any other's.
LEMMA UpStep ==
  UpInv /\ [Next]_vars => UpInv'
<1> SUFFICES ASSUME UpInv, [Next]_vars PROVE UpInv'
  OBVIOUS
<1>1. ASSUME UNCHANGED uplink /\ (step' = step \/ step # "parse") PROVE UpInv'
  <2>1. UNCHANGED <<ring, buffer, sent, published, next, damaged>>
    BY <1>1 DEF uplink
  <2> QED  BY <1>1, <2>1, UpAside
<1>2. CASE RadioNext
  <2>1. CASE FrameArrives
    BY <2>1, UpArrives
  <2>2. CASE RailCycled \/ DisableRadio \/ ExitRadio
    BY <2>2, UpPower
  <2>3. CASE Receive \/ Parse \/ Resync
    BY <2>3, UpReceive, UpParse, UpResync
  <2>4. CASE \/ PacketMade \/ EnableRadio \/ ConfigureRadio \/ HousekeepingRadio \/ Service
             \/ ReceivedEnough \/ Downlink \/ TakePacket \/ StartFails \/ DropOversized
             \/ AddPacket \/ FrameFull \/ CompleteFrame
    BY <2>4, <1>1, UpOthers
  <2> QED  BY <1>2, <2>1, <2>2, <2>3, <2>4 DEF RadioNext, ServiceStep
<1>3. CASE DeviceNext /\ UNCHANGED <<adcsVars, radioVars, boots>>
  BY <1>3, <1>1, UpOthers
<1>4. CASE AdcsNext /\ UNCHANGED <<radioVars, boots>>
  BY <1>4, <1>1, UpOthers
<1>5. CASE Boot
  BY <1>5, UpBoot
<1>6. CASE UNCHANGED vars
  BY <1>6, <1>1, UpOthers
<1> QED  BY <1>2, <1>3, <1>4, <1>5, <1>6 DEF Next

\* Nothing was sent.
LEMMA UpInit ==
  Init => UpInv
<1> SUFFICES ASSUME Init PROVE UpInv
  OBVIOUS
<1>1. /\ buffer = <<>> /\ ring = <<>> /\ published = <<>> /\ sent = 0 /\ next = 1 /\ damaged = FALSE
      /\ step # "parse"
  BY DEF Init, RadioInit, AppInit
<1>2. <<>> \in Seq(Cell) /\ <<>> \in Seq(Nat) /\ Len(<<>>) = 0
  BY EmptySeq
<1>3. UpTypes
  <2>1. sent \in 0..Len(Frames)
    BY <1>1, FrameSizes
  <2> QED  BY <1>1, <1>2, <2>1 DEF UpTypes
<1>4. PICK s \in Seq(Cell) : s = Both(<<>>, <<>>)
  BY <1>2, Joined
<1>5. Len(s) = 0
  <2>1. s = <<>>
    BY <1>2, <1>4, Joined
  <2> QED  BY <1>2, <2>1
<1>6. Stream = s
  BY <1>1, <1>4 DEF Stream
<1>7. Sound(s, 0) /\ Past(<<>>, s, 0) /\ Unbroken(s, 1, 0)
  BY <1>2, <1>5 DEF Sound, Past, Unbroken
<1>8. UpCore
  BY <1>1, <1>3, <1>6, <1>7 DEF UpCore
<1>9. UpRoom
  BY <1>1, <1>2, FrameSizes DEF UpRoom
<1> QED  BY <1>8, <1>9 DEF UpInv

\* What the invariant says of the cells, one by one.
LEMMA CellByCell ==
  ASSUME NEW n \in 0..Len(Frames), NEW s \in Seq(Cell), Sound(s, n), NEW f \in Nat,
         Unbroken(s, f, n), Len(s) > 0
  PROVE  /\ s[1] = <<f, 1>> /\ s[Len(s)] = <<n, Frames[n]>>
         /\ \A k \in 1..(Len(s) - 1) : s[k + 1] = Follows(s[k])
<1>1. PICK x \in Nat : x = Len(s) /\ x > 0
  BY LenProperties
<1>2. ASSUME NEW k \in 1..x
      PROVE  \E g \in 1..n, i \in Nat : /\ s[k] = <<g, i>> /\ i <= Frames[g] /\ Frames[g] \in Nat
                                       /\ s[k][1] = g /\ s[k][2] = i
  <2>1. PICK g \in 1..n : g = s[k][1] /\ s[k][2] \in 1..Frames[g]
    BY <1>1 DEF Sound
  <2>2. Frames[g] \in Nat
    BY FrameSizes
  <2>3. PICK i \in Nat : i = s[k][2] /\ i <= Frames[g]
    BY <2>1, <2>2
  <2>4. s[k + 0] = <<s[k][1], s[k][2] + 0>>
    BY <1>1, <2>1, <2>2, <2>3 DEF Unbroken
  <2>5. k + 0 = k /\ i + 0 = i
    BY <1>1, <2>3
  <2> QED  BY <2>1, <2>2, <2>3, <2>4, <2>5
<1>3. s[x] = <<n, Frames[n]>>
  <2>1. x \in 1..x
    BY <1>1
  <2>2. PICK g \in 1..n, i \in Nat : /\ s[x] = <<g, i>> /\ i <= Frames[g] /\ Frames[g] \in Nat
                                     /\ s[x][1] = g /\ s[x][2] = i
    BY <1>2, <2>1
  <2>3. i = Frames[g]
    <3> SUFFICES ASSUME i + 1 <= Frames[g] PROVE FALSE
      BY <2>2
    <3>1. x + 1 <= x
      BY <1>1, <2>1, <2>2 DEF Unbroken
    <3> QED  BY <1>1, <3>1
  <2>4. g = n
    BY <1>1, <2>1, <2>2, <2>3 DEF Unbroken
  <2> QED  BY <2>2, <2>3, <2>4
<1>4. ASSUME NEW k \in 1..(x - 1) PROVE s[k + 1] = Follows(s[k])
  <2>1. k \in 1..x /\ k # x
    BY <1>1
  <2>2. PICK g \in 1..n, i \in Nat : /\ s[k] = <<g, i>> /\ i <= Frames[g] /\ Frames[g] \in Nat
                                     /\ s[k][1] = g /\ s[k][2] = i
    BY <1>2, <2>1
  <2>3. CASE i < Frames[g]
    <3>1. s[k + 1] = <<s[k][1], s[k][2] + 1>>
      <4>1. s[k][2] + 1 <= Frames[s[k][1]]
        BY <2>2, <2>3
      <4> QED  BY <1>1, <2>1, <4>1 DEF Unbroken
    <3> QED  BY <2>2, <2>3, <3>1 DEF Follows
  <2>4. CASE ~(i < Frames[g])
    <3>1. s[k][2] = Frames[s[k][1]]
      BY <2>2, <2>4
    <3>2. s[k + 1] = <<s[k][1] + 1, 1>>
      BY <1>1, <2>1, <3>1 DEF Unbroken
    <3> QED  BY <2>2, <2>4, <3>2 DEF Follows
  <2> QED  BY <2>3, <2>4
<1> QED  BY <1>1, <1>3, <1>4 DEF Unbroken

\* The invariant says what the uplink promises.
LEMMA UpFaithful ==
  UpInv => UplinkFaithful
<1> SUFFICES ASSUME UpInv PROVE UplinkFaithful
  OBVIOUS
<1> USE UpTyped DEF UpInv
<1>1. PICK s \in Seq(Cell) : s = Both(buffer, ring)
  BY Joined
<1>2. s = <<>> <=> Len(s) = 0
  BY <1>1, Joined
<1>3. Sound(s, sent) /\ (~damaged => Unbroken(s, next, sent))
  BY <1>1
<1>4. Len(s) \in Nat
  BY LenProperties
<1>5. \A i, j \in DOMAIN published : i < j => published[i] < published[j]
  <2>1. DOMAIN published = 1..Len(published)
    BY LenProperties
  <2>2. Past(published, s, sent)
    BY <1>1
  <2> QED  BY <2>1, <2>2 DEF Past
<1>6. ~damaged /\ s = <<>> => next = sent + 1
  BY <1>2, <1>3 DEF Unbroken
<1>7. ASSUME ~damaged, s # <<>>
      PROVE  /\ s[1] = <<next, 1>> /\ s[Len(s)] = <<sent, Frames[sent]>>
             /\ \A k \in 1..(Len(s) - 1) : s[k + 1] = Follows(s[k])
  <2>1. PICK n \in 0..Len(Frames), f \in Nat : n = sent /\ f = next
    OBVIOUS
  <2>2. Len(s) > 0
    BY <1>2, <1>4, <1>7
  <2>3. Sound(s, n) /\ Unbroken(s, f, n)
    BY <1>3, <1>7, <2>1
  <2>4. s[1] = <<f, 1>> /\ s[Len(s)] = <<n, Frames[n]>>
    BY <2>2, <2>3, CellByCell
  <2>5. \A k \in 1..(Len(s) - 1) : s[k + 1] = Follows(s[k])
    BY <2>2, <2>3, CellByCell
  <2> QED  BY <2>1, <2>4, <2>5
<1>8. step # "parse" => Len(buffer) < MaxPayload
  BY DEF UpRoom
<1>9. buffer \o ring = s
  BY <1>1 DEF Both
<1> QED  BY <1>5, <1>6, <1>7, <1>8, <1>9 DEF UplinkFaithful

\* The frames of the uplink are published in their order and none twice, and
\* none is lost or misread by the way the reads cut the stream
\* (RADIO_ReceiveData), for frames of any number and length, a buffer of any
\* size, and wherever bytes are lost, calls fail and the process dies.
THEOREM UplinkAlwaysFaithful == Spec => []UplinkFaithful
<1> QED  BY UpInit, UpStep, UpFaithful, PTL DEF Spec

-----------------------------------------------------------------------------
(***************************************************************************)
(* The downlink.  The packets are numbered as they are published.  Those   *)
(* on the air are below those in the frame, these below the one in hand,   *)
(* and all that were taken below those that wait in the pipe.              *)
(***************************************************************************)
Rising(s)   == \A i, j \in 1..Len(s) : i < j => s[i] < s[j]
Below(A, B) == \A x \in A, y \in B : x < y

\* On the air, in the frame, in hand, in the pipe; taken from it, lost; published.
Line(air, packed, hand, waits, took, lost, m) ==
    /\ air \in Seq(Nat) /\ packed \in Seq(Nat) /\ waits \in Seq(Nat) /\ took \in Seq(Nat)
    /\ hand = <<>> \/ \E p \in Nat : hand = <<p>>
    /\ m \in 0..Len(Packets) /\ Len(took) + Len(waits) <= m
    /\ ToSet(took) \subseteq 1..m /\ ToSet(waits) \subseteq 1..m
    /\ Rising(air) /\ Rising(packed) /\ Rising(waits)
    /\ Below(ToSet(air), ToSet(packed)) /\ Below(ToSet(air), ToSet(hand))
    /\ Below(ToSet(packed), ToSet(hand)) /\ Below(ToSet(took), ToSet(waits))
    /\ lost \subseteq ToSet(took)
    /\ ToSet(air) \cup ToSet(packed) \cup ToSet(hand) = ToSet(took) \ lost

\* A frame that is not begun is empty, no idle packet in it either, and the packets
\* of none are as long as its field.
FrameFits(f) ==
    /\ f \in [ready : BOOLEAN, packets : Seq(Nat), full : BOOLEAN]
    /\ Used(f) \in Nat /\ Used(f) < FieldLength
    /\ ~f.ready => Len(f.packets) = 0 /\ ~f.full

\* Between a read of the pipe and the end of the service: a frame that is not
\* begun is for the packet in hand, and one that is completed before the last
\* packet of the service leaves a packet in hand.
DownPlaces ==
    /\ count \in 0..MaxTx
    /\ step = "fill" /\ ~frame.ready => held # <<>> /\ count < MaxTx
    /\ step = "complete" => frame.ready
    /\ step = "complete" /\ count < MaxTx => held # <<>>
    /\ step \in {"fill", "complete"} /\ count = MaxTx => held = <<>>
    /\ step \notin {"fill", "complete"} => held = <<>>

DownInv ==
    /\ Line(onAir, frame.packets, held, pipe, taken, dropped, made)
    /\ FrameFits(frame) /\ DownPlaces

-----------------------------------------------------------------------------
\* A set of numbers that is not empty has a least one.
LEMMA LeastNumber ==
  ASSUME NEW T \in SUBSET Nat, T # {}
  PROVE  \E x \in T : \A y \in T : x <= y
<1> DEFINE R == {ss \in Nat \X Nat : ss[1] < ss[2]}
<1>1. IsWellFoundedOn(R, Nat)
  BY NatLessThanWellFounded DEF OpToRel
<1>2. PICK x \in T : \A y \in T : ~(<<y, x>> \in R)
  BY <1>1, WFMin
<1>3. ASSUME NEW y \in T PROVE x <= y
  <2>1. <<y, x>> \in Nat \X Nat /\ <<y, x>>[1] = y /\ <<y, x>>[2] = x
    OBVIOUS
  <2>2. ~(y < x)
    BY <1>2, <2>1
  <2> QED  BY <2>2
<1> QED  BY <1>3

\* Induction, with a set in place of a predicate.
LEMMA Induction ==
  ASSUME NEW S, 0 \in S, \A n \in Nat : n \in S => n + 1 \in S
  PROVE  Nat \subseteq S
<1> SUFFICES ASSUME Nat \ S # {} PROVE FALSE
  OBVIOUS
<1>1. PICK x \in Nat \ S : \A y \in Nat \ S : x <= y
  BY LeastNumber
<1>2. x - 1 \in Nat /\ ~(x - 1 \in Nat \ S)
  BY <1>1
<1> QED  BY <1>1, <1>2

-----------------------------------------------------------------------------
\* A sequence of numbers and the set of its elements.
LEMMA Elements ==
  ASSUME NEW s \in Seq(Nat)
  PROVE  /\ Len(s) \in Nat /\ DOMAIN s = 1..Len(s) /\ ToSet(s) \subseteq Nat
         /\ \A i \in 1..Len(s) : s[i] \in ToSet(s)
         /\ \A x \in ToSet(s) : \E i \in 1..Len(s) : x = s[i]
<1>1. Len(s) \in Nat /\ DOMAIN s = 1..Len(s)
  BY LenProperties
<1>2. ToSet(s) = {s[i] : i \in 1..Len(s)}
  BY <1>1 DEF ToSet
<1>3. \A i \in 1..Len(s) : s[i] \in Nat
  BY ElementOfSeq
<1> QED  BY <1>1, <1>2, <1>3

\* The empty sequence.
LEMMA NoElement ==
  <<>> \in Seq(Nat) /\ Len(<<>>) = 0 /\ ToSet(<<>>) = {} /\ Rising(<<>>)
<1>1. <<>> \in Seq(Nat) /\ Len(<<>>) = 0
  BY EmptySeq
<1>2. PICK s \in Seq(Nat) : s = <<>> /\ Len(s) = 0
  BY <1>1
<1>3. ASSUME NEW x \in ToSet(s) PROVE FALSE
  <2>1. PICK i \in 1..Len(s) : x = s[i]
    BY Elements
  <2> QED  BY <1>2, <2>1
<1>4. Rising(s)
  BY <1>2 DEF Rising
<1> QED  BY <1>1, <1>2, <1>3, <1>4

\* A sequence of one.
LEMMA OneElement ==
  ASSUME NEW p \in Nat
  PROVE  /\ <<p>> \in Seq(Nat) /\ Len(<<p>>) = 1 /\ <<p>>[1] = p /\ ToSet(<<p>>) = {p}
         /\ Rising(<<p>>)
<1>1. <<p>> \in Seq(Nat) /\ Len(<<p>>) = 1 /\ <<p>>[1] = p
  OBVIOUS
<1>2. PICK s \in Seq(Nat) : s = <<p>> /\ Len(s) = 1 /\ s[1] = p
  BY <1>1
<1>3. ToSet(s) = {p}
  <2>1. ASSUME NEW x \in ToSet(s) PROVE x = p
    <3>1. PICK i \in 1..Len(s) : x = s[i]
      BY Elements
    <3> QED  BY <1>2, <3>1
  <2>2. 1 \in 1..Len(s)
    BY <1>2
  <2>3. p \in ToSet(s)
    BY <1>2, <2>2, Elements
  <2> QED  BY <2>1, <2>3
<1>4. Rising(s)
  BY <1>2 DEF Rising
<1> QED  BY <1>1, <1>2, <1>3, <1>4

\* One sequence after another.
LEMMA Chained ==
  ASSUME NEW s \in Seq(Nat), NEW t \in Seq(Nat)
  PROVE  /\ Both(s, t) \in Seq(Nat) /\ ToSet(Both(s, t)) = ToSet(s) \cup ToSet(t)
         /\ Len(Both(s, t)) = Len(s) + Len(t)
         /\ Rising(s) /\ Rising(t) /\ Below(ToSet(s), ToSet(t)) => Rising(Both(s, t))
<1>1. PICK u \in Seq(Nat) : u = Both(s, t)
  BY ConcatProperties DEF Both
<1>2. PICK x \in Nat, y \in Nat : x = Len(s) /\ y = Len(t)
  BY Elements
<1>3. Len(u) = x + y
  <2>1. Len(Both(s, t)) = Len(s) + Len(t)
    BY ConcatProperties DEF Both
  <2> QED  BY <1>1, <1>2, <2>1
<1>4. \A i \in 1..(x + y) : u[i] = IF i <= x THEN s[i] ELSE t[i - x]
  <2>1. \A i \in 1..(Len(s) + Len(t)) : Both(s, t)[i] = IF i <= Len(s) THEN s[i] ELSE t[i - Len(s)]
    BY ConcatProperties DEF Both
  <2> QED  BY <1>1, <1>2, <2>1
<1>5. ASSUME NEW i \in 1..(x + y)
      PROVE  \/ i \in 1..x /\ u[i] = s[i] /\ u[i] \in ToSet(s)
             \/ i - x \in 1..y /\ u[i] = t[i - x] /\ u[i] \in ToSet(t)
  <2>1. CASE i <= x
    <3>1. i \in 1..x
      BY <2>1
    <3>2. u[i] = s[i]
      BY <1>4, <2>1
    <3>3. s[i] \in ToSet(s)
      BY <1>2, <3>1, Elements
    <3> QED  BY <3>1, <3>2, <3>3
  <2>2. CASE ~(i <= x)
    <3>1. i - x \in 1..y
      BY <2>2
    <3>2. u[i] = t[i - x]
      BY <1>4, <2>2
    <3>3. t[i - x] \in ToSet(t)
      BY <1>2, <3>1, Elements
    <3> QED  BY <3>1, <3>2, <3>3
  <2> QED  BY <2>1, <2>2
<1>6. \A z \in ToSet(u) : z \in ToSet(s) \/ z \in ToSet(t)
  BY <1>3, <1>5, Elements
<1>7. ASSUME NEW z \in ToSet(s) PROVE z \in ToSet(u)
  <2>1. PICK i \in 1..x : z = s[i]
    BY <1>2, Elements
  <2>2. i \in 1..(x + y) /\ i <= x
    OBVIOUS
  <2>3. u[i] = s[i]
    BY <1>4, <2>2
  <2> QED  BY <1>3, <2>1, <2>2, <2>3, Elements
<1>8. ASSUME NEW z \in ToSet(t) PROVE z \in ToSet(u)
  <2>1. PICK i \in 1..y : z = t[i]
    BY <1>2, Elements
  <2>2. x + i \in 1..(x + y) /\ ~(x + i <= x) /\ (x + i) - x = i
    OBVIOUS
  <2>3. u[x + i] = t[i]
    BY <1>4, <2>2
  <2> QED  BY <1>3, <2>1, <2>2, <2>3, Elements
<1>9. ASSUME Rising(s), Rising(t), Below(ToSet(s), ToSet(t)) PROVE Rising(u)
  <2> SUFFICES ASSUME NEW i \in 1..(x + y), NEW j \in 1..(x + y), i < j PROVE u[i] < u[j]
    BY <1>3 DEF Rising
  <2>1. CASE i \in 1..x /\ u[i] = s[i] /\ u[i] \in ToSet(s)
    <3>1. CASE j \in 1..x /\ u[j] = s[j]
      BY <1>2, <1>9, <2>1, <3>1 DEF Rising
    <3>2. CASE u[j] \in ToSet(t)
      BY <1>9, <2>1, <3>2 DEF Below
    <3> QED  BY <1>5, <3>1, <3>2
  <2>2. CASE i - x \in 1..y /\ u[i] = t[i - x]
    <3>1. j - x \in 1..y /\ ~(j \in 1..x) /\ i - x < j - x
      BY <2>2
    <3>2. u[j] = t[j - x]
      BY <1>5, <3>1
    <3> QED  BY <1>2, <1>9, <2>2, <3>1, <3>2 DEF Rising
  <2> QED  BY <1>5, <2>1, <2>2
<1>10. ToSet(u) = ToSet(s) \cup ToSet(t)
  BY <1>6, <1>7, <1>8
<1> QED  BY <1>1, <1>2, <1>3, <1>9, <1>10

\* One more at the end.
LEMMA Appended ==
  ASSUME NEW s \in Seq(Nat), NEW p \in Nat
  PROVE  /\ Append(s, p) = Both(s, <<p>>)
         /\ Append(s, p) \in Seq(Nat) /\ ToSet(Append(s, p)) = ToSet(s) \cup {p}
         /\ Len(Append(s, p)) = Len(s) + 1
         /\ Rising(s) /\ Below(ToSet(s), {p}) => Rising(Append(s, p))
<1>1. Append(s, p) = Both(s, <<p>>)
  BY AppendIsConcat DEF Both
<1>2. PICK t \in Seq(Nat) : t = <<p>> /\ Len(t) = 1 /\ ToSet(t) = {p} /\ Rising(t)
  BY OneElement
<1>3. /\ Both(s, t) \in Seq(Nat) /\ ToSet(Both(s, t)) = ToSet(s) \cup ToSet(t)
      /\ Len(Both(s, t)) = Len(s) + Len(t)
      /\ Rising(s) /\ Rising(t) /\ Below(ToSet(s), ToSet(t)) => Rising(Both(s, t))
  BY Chained
<1>4. Both(s, t) = Append(s, p)
  BY <1>1, <1>2
<1> QED  BY <1>1, <1>2, <1>3, <1>4

\* The first of a sequence and the others.
LEMMA HeadAndTail ==
  ASSUME NEW s \in Seq(Nat), s # <<>>
  PROVE  /\ Head(s) \in Nat /\ Tail(s) \in Seq(Nat) /\ ToSet(s) = {Head(s)} \cup ToSet(Tail(s))
         /\ Len(Tail(s)) = Len(s) - 1
         /\ Rising(s) => Rising(Tail(s)) /\ Below({Head(s)}, ToSet(Tail(s)))
<1>1. PICK n \in Nat : n = Len(s) /\ n > 0
  BY EmptySeq
<1>2. PICK t \in Seq(Nat) : t = Tail(s)
  BY HeadTailProperties
<1>3. Len(t) = n - 1 /\ \A i \in 1..(n - 1) : t[i] = s[i + 1]
  <2>1. Len(t) = Len(s) - 1
    BY <1>2, HeadTailProperties
  <2>2. \A i \in 1..Len(t) : t[i] = s[i + 1]
    BY <1>2, HeadTailProperties
  <2> QED  BY <1>1, <2>1, <2>2
<1>4. Head(s) = s[1] /\ s[1] \in ToSet(s) /\ Head(s) \in Nat
  <2>1. 1 \in 1..Len(s)
    BY <1>1
  <2> QED  BY <2>1, Elements
<1>5. \A z \in ToSet(t) : z \in ToSet(s)
  <2> SUFFICES ASSUME NEW z \in ToSet(t) PROVE z \in ToSet(s)
    OBVIOUS
  <2>1. PICK i \in 1..(n - 1) : z = t[i]
    BY <1>3, Elements
  <2>2. i + 1 \in 1..n
    BY <1>1
  <2> QED  BY <1>1, <1>3, <2>1, <2>2, Elements
<1>6. \A z \in ToSet(s) : z = Head(s) \/ z \in ToSet(t)
  <2> SUFFICES ASSUME NEW z \in ToSet(s), z # Head(s) PROVE z \in ToSet(t)
    OBVIOUS
  <2>1. PICK i \in 1..n : z = s[i]
    BY <1>1, Elements
  <2>2. i # 1
    BY <1>4, <2>1
  <2>3. i - 1 \in 1..(n - 1) /\ (i - 1) + 1 = i
    BY <1>1, <2>2
  <2>4. t[i - 1] = z
    BY <1>3, <2>1, <2>3
  <2> QED  BY <1>3, <2>3, <2>4, Elements
<1>7. ASSUME Rising(s) PROVE Rising(t) /\ Below({Head(s)}, ToSet(t))
  <2>1. ASSUME NEW i \in 1..(n - 1), NEW j \in 1..(n - 1), i < j PROVE t[i] < t[j]
    <3>1. i + 1 \in 1..n /\ j + 1 \in 1..n /\ i + 1 < j + 1
      BY <1>1, <2>1
    <3> QED  BY <1>1, <1>3, <1>7, <3>1 DEF Rising
  <2>2. ASSUME NEW z \in ToSet(t) PROVE Head(s) < z
    <3>1. PICK i \in 1..(n - 1) : z = t[i]
      BY <1>3, Elements
    <3>2. 1 \in 1..n /\ i + 1 \in 1..n /\ 1 < i + 1
      BY <1>1
    <3> QED  BY <1>1, <1>3, <1>4, <1>7, <3>1, <3>2 DEF Rising
  <2> QED  BY <1>3, <2>1, <2>2 DEF Rising, Below
<1>8. ToSet(s) = {Head(s)} \cup ToSet(t)
  BY <1>4, <1>5, <1>6
<1>9. Len(t) = Len(s) - 1
  BY <1>1, <1>3
<1> QED  BY <1>2, <1>4, <1>7, <1>8, <1>9

-----------------------------------------------------------------------------
\* What Used adds up, packet by packet.
LEMMA UsedUnfolds ==
  ASSUME NEW f, NEW n \in Nat, Len(f.packets) = n
  PROVE  \E sum : /\ sum[0] = 0 /\ Used(f) = sum[n]
                  /\ \A k \in 1..n : sum[k] = sum[k - 1] + Size(f.packets[k])
<1> DEFINE Upto(m) == \E s : s = [k \in 0..m |-> IF k = 0 THEN 0 ELSE s[k - 1] + Size(f.packets[k])]
           S == {m \in Nat : Upto(m)}
<1>1. 0 \in S
  <2> DEFINE s == [k \in 0..0 |-> 0]
  <2>1. s = [k \in 0..0 |-> IF k = 0 THEN 0 ELSE s[k - 1] + Size(f.packets[k])]
    OBVIOUS
  <2> HIDE DEF s
  <2>2. Upto(0)
    BY <2>1
  <2> QED  BY <2>2
<1>2. ASSUME NEW m \in Nat, m \in S PROVE m + 1 \in S
  <2>1. PICK s : s = [k \in 0..m |-> IF k = 0 THEN 0 ELSE s[k - 1] + Size(f.packets[k])]
    BY <1>2
  <2> DEFINE g == [k \in 0..(m + 1) |-> IF k = m + 1 THEN s[m] + Size(f.packets[m + 1]) ELSE s[k]]
  <2>2. ASSUME NEW k \in 0..(m + 1)
        PROVE  g[k] = IF k = 0 THEN 0 ELSE g[k - 1] + Size(f.packets[k])
    <3>1. CASE k = m + 1
      <4>1. g[k] = s[m] + Size(f.packets[m + 1]) /\ k # 0 /\ k - 1 = m
        BY <3>1
      <4>2. g[m] = s[m] /\ m \in 0..(m + 1)
        OBVIOUS
      <4> HIDE DEF g
      <4> QED  BY <3>1, <4>1, <4>2
    <3>2. CASE k # m + 1
      <4>1. k \in 0..m /\ g[k] = s[k]
        BY <3>2
      <4>2. k # 0 => g[k - 1] = s[k - 1]
        BY <4>1
      <4>3. s[k] = IF k = 0 THEN 0 ELSE s[k - 1] + Size(f.packets[k])
        BY <2>1, <4>1
      <4> HIDE DEF g
      <4> QED  BY <4>1, <4>2, <4>3
    <3> QED  BY <3>1, <3>2
  <2>3. g = [k \in 0..(m + 1) |-> g[k]]
    OBVIOUS
  <2> HIDE DEF g
  <2>4. g = [k \in 0..(m + 1) |-> IF k = 0 THEN 0 ELSE g[k - 1] + Size(f.packets[k])]
    BY <2>2, <2>3
  <2>5. Upto(m + 1)
    BY <2>4
  <2> QED  BY <2>5
<1> HIDE DEF Upto
<1>3. n \in S
  <2>1. Nat \subseteq S
    BY <1>1, <1>2, Induction
  <2> QED  BY <2>1
<1> DEFINE t == CHOOSE s : s = [k \in 0..Len(f.packets) |->
                                  IF k = 0 THEN 0 ELSE s[k - 1] + Size(f.packets[k])]
<1>4. t = [k \in 0..Len(f.packets) |-> IF k = 0 THEN 0 ELSE t[k - 1] + Size(f.packets[k])]
  BY <1>3 DEF Upto
<1>5. Used(f) = t[Len(f.packets)]
  BY DEF Used
<1> HIDE DEF t
<1>6. t = [k \in 0..n |-> IF k = 0 THEN 0 ELSE t[k - 1] + Size(f.packets[k])]
  BY <1>4
<1>7. t[0] = 0
  BY <1>6
<1>8. \A k \in 1..n : t[k] = t[k - 1] + Size(f.packets[k])
  BY <1>6
<1> QED  BY <1>5, <1>7, <1>8

\* A frame without packets is empty.
LEMMA UsedNone ==
  ASSUME NEW f, Len(f.packets) = 0 PROVE Used(f) = 0
<1>1. PICK n \in Nat : n = 0 /\ Len(f.packets) = n
  OBVIOUS
<1>2. PICK sum : sum[0] = 0 /\ Used(f) = sum[n]
  BY <1>1, UsedUnfolds
<1> QED  BY <1>1, <1>2

\* One more packet.
LEMMA UsedMore ==
  ASSUME NEW f, NEW g, NEW n \in Nat, Len(f.packets) = n, Len(g.packets) = n + 1,
         \A k \in 1..n : g.packets[k] = f.packets[k],
         \A k \in 1..n + 1 : Size(g.packets[k]) \in Nat
  PROVE  Used(f) \in Nat /\ Used(g) = Used(f) + Size(g.packets[n + 1])
<1>1. PICK a : /\ a[0] = 0 /\ Used(f) = a[n]
               /\ \A k \in 1..n : a[k] = a[k - 1] + Size(f.packets[k])
  BY UsedUnfolds
<1>2. PICK b : /\ b[0] = 0 /\ Used(g) = b[n + 1]
               /\ \A k \in 1..(n + 1) : b[k] = b[k - 1] + Size(g.packets[k])
  <2>1. PICK m \in Nat : m = n + 1 /\ Len(g.packets) = m
    OBVIOUS
  <2>2. PICK b : /\ b[0] = 0 /\ Used(g) = b[m]
                 /\ \A k \in 1..m : b[k] = b[k - 1] + Size(g.packets[k])
    BY <2>1, UsedUnfolds
  <2> QED  BY <2>1, <2>2
<1> DEFINE S == {k \in Nat : k <= n => a[k] = b[k] /\ a[k] \in Nat}
<1>3. 0 \in S
  BY <1>1, <1>2
<1>4. ASSUME NEW k \in Nat, k \in S PROVE k + 1 \in S
  <2> SUFFICES ASSUME k + 1 <= n PROVE a[k + 1] = b[k + 1] /\ a[k + 1] \in Nat
    OBVIOUS
  <2>1. k + 1 \in 1..n /\ k + 1 \in 1..(n + 1) /\ (k + 1) - 1 = k
    OBVIOUS
  <2>2. a[k] = b[k] /\ a[k] \in Nat
    BY <1>4
  <2>3. a[k + 1] = a[k] + Size(f.packets[k + 1])
    BY <1>1, <2>1
  <2>4. b[k + 1] = b[k] + Size(g.packets[k + 1])
    BY <1>2, <2>1
  <2>5. g.packets[k + 1] = f.packets[k + 1] /\ Size(g.packets[k + 1]) \in Nat
    BY <2>1
  <2> QED  BY <2>2, <2>3, <2>4, <2>5
<1>5. n \in S
  <2>1. Nat \subseteq S
    <3> HIDE DEF S
    <3> QED  BY <1>3, <1>4, Induction
  <2> QED  BY <2>1
<1>6. a[n] = b[n] /\ a[n] \in Nat
  BY <1>5
<1>7. b[n + 1] = b[n] + Size(g.packets[n + 1])
  <2>1. n + 1 \in 1..(n + 1) /\ (n + 1) - 1 = n
    OBVIOUS
  <2> QED  BY <1>2, <2>1
<1> QED  BY <1>1, <1>2, <1>6, <1>7

\* The same packets take up the same room.
LEMMA UsedSame ==
  ASSUME NEW f, NEW g, f.packets = g.packets PROVE Used(f) = Used(g)
BY Zenon DEF Used

-----------------------------------------------------------------------------
\* The packet in hand, if any, as a sequence.
LEMMA InHand ==
  ASSUME NEW h, h = <<>> \/ \E p \in Nat : h = <<p>>
  PROVE  /\ h \in Seq(Nat) /\ ToSet(h) \subseteq Nat /\ Rising(h)
         /\ h = <<>> => ToSet(h) = {}
         /\ h # <<>> => h[1] \in Nat /\ h = <<h[1]>> /\ ToSet(h) = {h[1]}
<1>1. CASE h = <<>>
  BY <1>1, NoElement
<1>2. CASE \E p \in Nat : h = <<p>>
  <2>1. PICK p \in Nat : h = <<p>>
    BY <1>2
  <2>2. h # <<>>
    BY <2>1
  <2> QED  BY <2>1, <2>2, OneElement
<1> QED  BY <1>1, <1>2

\* A packet is published.
LEMMA LineMade ==
  ASSUME NEW air, NEW packed, NEW hand, NEW waits, NEW took, NEW lost, NEW m,
         Line(air, packed, hand, waits, took, lost, m), m < Len(Packets)
  PROVE  Line(air, packed, hand, Append(waits, m + 1), took, lost, m + 1)
<1> USE DEF Line
<1>1. m \in Nat /\ m + 1 \in Nat /\ waits \in Seq(Nat) /\ took \in Seq(Nat)
  OBVIOUS
<1>2. PICK w \in Seq(Nat) : /\ w = Append(waits, m + 1) /\ ToSet(w) = ToSet(waits) \cup {m + 1}
                            /\ Len(w) = Len(waits) + 1
                            /\ Below(ToSet(waits), {m + 1}) => Rising(w)
  BY <1>1, Appended
<1>3. Below(ToSet(waits), {m + 1}) /\ Below(ToSet(took), {m + 1})
  <2>1. \A x \in 1..m : x < m + 1
    BY <1>1
  <2> QED  BY <2>1 DEF Below
<1>4. ToSet(took) \subseteq 1..(m + 1) /\ ToSet(w) \subseteq 1..(m + 1)
  <2>1. 1..m \subseteq 1..(m + 1) /\ m + 1 \in 1..(m + 1)
    BY <1>1
  <2> QED  BY <1>2, <2>1
<1>5. m + 1 \in 0..Len(Packets) /\ Len(took) + Len(w) <= m + 1
  <2>1. Len(Packets) \in Nat
    BY RadioAssumption, LenProperties
  <2>2. Len(took) \in Nat /\ Len(waits) \in Nat
    BY <1>1, Elements
  <2> QED  BY <1>1, <1>2, <2>1, <2>2
<1>6. Below(ToSet(took), ToSet(w))
  BY <1>2, <1>3 DEF Below
<1>7. Line(air, packed, hand, w, took, lost, m + 1)
  BY <1>2, <1>3, <1>4, <1>5, <1>6
<1> QED  BY <1>2, <1>7

\* The packets that wait are thrown away.
LEMMA LinePurged ==
  ASSUME NEW air, NEW packed, NEW hand, NEW waits, NEW took, NEW lost, NEW m,
         Line(air, packed, hand, waits, took, lost, m)
  PROVE  Line(air, packed, hand, <<>>, took, lost, m)
<1> USE DEF Line
<1>1. PICK w \in Seq(Nat) : w = <<>> /\ Len(w) = 0 /\ ToSet(w) = {} /\ Rising(w)
  BY NoElement
<1>2. Len(took) \in Nat /\ Len(waits) \in Nat
  BY Elements
<1>3. Len(took) + Len(w) <= m
  BY <1>1, <1>2
<1>4. Below(ToSet(took), ToSet(w)) /\ ToSet(w) \subseteq 1..m
  BY <1>1 DEF Below
<1>5. Line(air, packed, hand, w, took, lost, m)
  BY <1>1, <1>3, <1>4
<1> QED  BY <1>1, <1>5

\* A packet is taken from the pipe.
LEMMA LineTaken ==
  ASSUME NEW air, NEW packed, NEW waits, NEW took, NEW lost, NEW m,
         Line(air, packed, <<>>, waits, took, lost, m), waits # <<>>
  PROVE  Line(air, packed, <<Head(waits)>>, Tail(waits), Append(took, Head(waits)), lost, m)
<1> USE DEF Line
<1>1. waits \in Seq(Nat) /\ took \in Seq(Nat) /\ m \in Nat
  OBVIOUS
<1>2. PICK p \in Nat, w \in Seq(Nat) :
         /\ p = Head(waits) /\ w = Tail(waits) /\ ToSet(waits) = {p} \cup ToSet(w)
         /\ Len(w) = Len(waits) - 1 /\ Rising(w) /\ Below({p}, ToSet(w))
  BY <1>1, HeadAndTail
<1>3. PICK t \in Seq(Nat) : t = Append(took, p) /\ ToSet(t) = ToSet(took) \cup {p} /\ Len(t) = Len(took) + 1
  BY <1>1, <1>2, Appended
<1>4. PICK h \in Seq(Nat) : h = <<p>> /\ ToSet(h) = {p}
  BY <1>2, OneElement
<1>5. Len(t) + Len(w) <= m
  <2>1. Len(took) \in Nat /\ Len(waits) \in Nat
    BY <1>1, Elements
  <2> QED  BY <1>1, <1>2, <1>3, <2>1
<1>6. Below(ToSet(took), {p}) /\ Below(ToSet(t), ToSet(w))
  BY <1>2, <1>3 DEF Below
<1>7. ToSet(<<>>) = {}
  BY NoElement
<1>8. ToSet(air) \subseteq ToSet(took) /\ ToSet(packed) \subseteq ToSet(took) /\ lost \subseteq ToSet(took)
  BY <1>7
<1>9. Below(ToSet(air), ToSet(h)) /\ Below(ToSet(packed), ToSet(h))
  BY <1>4, <1>6, <1>8 DEF Below
<1>10. p \notin lost
  <2>1. p \notin ToSet(took)
    BY <1>6 DEF Below
  <2> QED  BY <1>8, <2>1
<1>11. /\ lost \subseteq ToSet(t)
       /\ ToSet(air) \cup ToSet(packed) \cup ToSet(h) = ToSet(t) \ lost
  BY <1>3, <1>4, <1>7, <1>8, <1>10
<1>12. ToSet(t) \subseteq 1..m /\ ToSet(w) \subseteq 1..m
  BY <1>2, <1>3
<1>13. Line(air, packed, h, w, t, lost, m)
  BY <1>1, <1>2, <1>3, <1>4, <1>5, <1>6, <1>9, <1>11, <1>12
<1> QED  BY <1>2, <1>3, <1>4, <1>13

\* The packet in hand, the packets in the frame, or both are lost with an error.
LEMMA LineLost ==
  ASSUME NEW air, NEW packed, NEW hand, NEW waits, NEW took, NEW lost, NEW m,
         Line(air, packed, hand, waits, took, lost, m)
  PROVE  /\ Line(air, packed, <<>>, waits, took, lost \cup ToSet(hand), m)
         /\ Line(air, <<>>, hand, waits, took, lost \cup ToSet(packed), m)
         /\ Line(air, <<>>, <<>>, waits, took, lost \cup ToSet(hand) \cup ToSet(packed), m)
<1> USE DEF Line
<1>1. PICK e \in Seq(Nat) : e = <<>> /\ ToSet(e) = {} /\ Rising(e)
  BY NoElement
<1>2. \A A : Below(A, ToSet(e)) /\ Below(ToSet(e), A)
  BY <1>1 DEF Below
<1>3. PICK A \in SUBSET Nat, F \in SUBSET Nat, H \in SUBSET Nat :
         A = ToSet(air) /\ F = ToSet(packed) /\ H = ToSet(hand)
  BY Elements, InHand
<1>4. /\ A \cup F = ToSet(took) \ (lost \cup H) /\ A \cup H = ToSet(took) \ (lost \cup F)
      /\ A = ToSet(took) \ (lost \cup H \cup F) /\ H \subseteq ToSet(took) /\ F \subseteq ToSet(took)
  <2>1. Below(A, F) /\ Below(A, H) /\ Below(F, H)
    BY <1>3
  <2>2. lost \subseteq ToSet(took) /\ A \cup F \cup H = ToSet(took) \ lost
    BY <1>3
  <2> HIDE DEF Line
  <2>3. \A x \in H : ~(x \in A) /\ ~(x \in F)
    BY <2>1 DEF Below
  <2>4. \A x \in F : ~(x \in A)
    BY <2>1 DEF Below
  <2>5. \A x : x \in ToSet(took) <=> x \in A \/ x \in F \/ x \in H \/ x \in lost
    BY <2>2
  <2>6. \A x \in lost : ~(x \in A) /\ ~(x \in F) /\ ~(x \in H)
    BY <2>2
  <2> QED  BY <2>3, <2>4, <2>5, <2>6
<1>5. Line(air, packed, e, waits, took, lost \cup H, m)
  BY <1>1, <1>2, <1>3, <1>4
<1>6. Line(air, e, hand, waits, took, lost \cup F, m)
  BY <1>1, <1>2, <1>3, <1>4
<1>7. Line(air, e, e, waits, took, lost \cup H \cup F, m)
  BY <1>1, <1>2, <1>3, <1>4
<1> QED  BY <1>1, <1>3, <1>5, <1>6, <1>7

\* The packet in hand goes into the frame.
LEMMA LinePacked ==
  ASSUME NEW air, NEW packed, NEW hand, NEW waits, NEW took, NEW lost, NEW m,
         Line(air, packed, hand, waits, took, lost, m)
  PROVE  Line(air, Both(packed, hand), <<>>, waits, took, lost, m)
<1> USE DEF Line
<1>1. PICK e \in Seq(Nat) : e = <<>> /\ ToSet(e) = {} /\ Rising(e)
  BY NoElement
<1>2. \A A : Below(A, ToSet(e)) /\ Below(ToSet(e), A)
  BY <1>1 DEF Below
<1>3. hand \in Seq(Nat) /\ Rising(hand)
  BY InHand
<1>4. PICK f \in Seq(Nat) : f = Both(packed, hand) /\ ToSet(f) = ToSet(packed) \cup ToSet(hand) /\ Rising(f)
  BY <1>3, Chained
<1>5. Below(ToSet(air), ToSet(f))
  BY <1>4 DEF Below
<1>6. Line(air, f, e, waits, took, lost, m)
  BY <1>1, <1>2, <1>4, <1>5
<1> QED  BY <1>1, <1>4, <1>6

\* The frame goes on the air.
LEMMA LineSent ==
  ASSUME NEW air, NEW packed, NEW hand, NEW waits, NEW took, NEW lost, NEW m,
         Line(air, packed, hand, waits, took, lost, m)
  PROVE  Line(Both(air, packed), <<>>, hand, waits, took, lost, m)
<1> USE DEF Line
<1>1. PICK e \in Seq(Nat) : e = <<>> /\ ToSet(e) = {} /\ Rising(e)
  BY NoElement
<1>2. \A A : Below(A, ToSet(e)) /\ Below(ToSet(e), A)
  BY <1>1 DEF Below
<1>3. PICK a \in Seq(Nat) : a = Both(air, packed) /\ ToSet(a) = ToSet(air) \cup ToSet(packed) /\ Rising(a)
  BY Chained
<1>4. Below(ToSet(a), ToSet(hand))
  BY <1>3 DEF Below
<1>5. Line(a, e, hand, waits, took, lost, m)
  BY <1>1, <1>2, <1>3, <1>4
<1> QED  BY <1>1, <1>3, <1>5

\* The whole line but for the pipe rises.
LEMMA LineRises ==
  ASSUME NEW air, NEW packed, NEW hand, NEW waits, NEW took, NEW lost, NEW m,
         Line(air, packed, hand, waits, took, lost, m)
  PROVE  /\ Both(Both(air, packed), hand) \in Seq(Nat)
         /\ ToSet(Both(Both(air, packed), hand)) = ToSet(took) \ lost
         /\ Rising(Both(Both(air, packed), hand))
<1> USE DEF Line
<1>1. PICK a \in Seq(Nat) : a = Both(air, packed) /\ ToSet(a) = ToSet(air) \cup ToSet(packed) /\ Rising(a)
  BY Chained
<1>2. hand \in Seq(Nat) /\ Rising(hand)
  BY InHand
<1>3. Below(ToSet(a), ToSet(hand))
  BY <1>1 DEF Below
<1>4. /\ Both(a, hand) \in Seq(Nat) /\ ToSet(Both(a, hand)) = ToSet(a) \cup ToSet(hand)
      /\ Rising(Both(a, hand))
  BY <1>1, <1>2, <1>3, Chained
<1> QED  BY <1>1, <1>4

\* To begin a frame leaves what is in it.
LEMMA FrameSteps ==
  ASSUME NEW f, FrameFits(f)
  PROVE  LET g == [f EXCEPT !.ready = TRUE]
         IN  FrameFits(g) /\ g.ready /\ g.packets = f.packets
<1> DEFINE g == [f EXCEPT !.ready = TRUE]
<1>1. /\ g \in [ready : BOOLEAN, packets : Seq(Nat), full : BOOLEAN] /\ g.packets = f.packets
      /\ g.ready
  BY DEF FrameFits
<1> HIDE DEF g
<1>2. Used(g) = Used(f)
  BY <1>1, UsedSame
<1>3. FrameFits(g)
  BY <1>1, <1>2 DEF FrameFits
<1> QED  BY <1>1, <1>3 DEF g

\* Nor does the idle packet displace what is in it.
LEMMA FrameFilled ==
  ASSUME NEW f, FrameFits(f), f.ready
  PROVE  LET g == [f EXCEPT !.full = TRUE]
         IN  FrameFits(g) /\ g.packets = f.packets
<1> DEFINE g == [f EXCEPT !.full = TRUE]
<1>1. /\ g \in [ready : BOOLEAN, packets : Seq(Nat), full : BOOLEAN] /\ g.packets = f.packets
      /\ g.ready
  BY DEF FrameFits
<1> HIDE DEF g
<1>2. Used(g) = Used(f)
  BY <1>1, UsedSame
<1>3. FrameFits(g)
  BY <1>1, <1>2 DEF FrameFits
<1> QED  BY <1>1, <1>3 DEF g

\* A new frame is empty.
LEMMA EmptyFits ==
  FrameFits(EmptyFrame) /\ EmptyFrame.packets = <<>> /\ ~EmptyFrame.ready
<1>1. /\ EmptyFrame \in [ready : BOOLEAN, packets : Seq(Nat), full : BOOLEAN]
      /\ EmptyFrame.packets = <<>> /\ ~EmptyFrame.ready /\ ~EmptyFrame.full
  BY EmptySeq DEF EmptyFrame
<1>2. Len(EmptyFrame.packets) = 0
  BY <1>1, EmptySeq
<1>3. Used(EmptyFrame) = 0
  BY <1>2, UsedNone
<1>4. FieldLength \in Nat \ {0}
  BY RadioAssumption
<1> QED  BY <1>1, <1>2, <1>3, <1>4 DEF FrameFits

\* What the assumptions say of the packets and the bounds.
LEMMA PacketSizes ==
  /\ Len(Packets) \in Nat /\ FieldLength \in Nat /\ MaxTx \in Nat /\ MaxTx > 0
  /\ \A p \in 1..Len(Packets) : Size(p) \in Nat
<1>1. Packets \in Seq(Nat \ {0}) /\ FieldLength \in Nat /\ MaxTx \in Nat /\ MaxTx > 0
  BY RadioAssumption
<1>2. Len(Packets) \in Nat
  BY <1>1, LenProperties
<1>3. \A p \in 1..Len(Packets) : Packets[p] \in Nat \ {0}
  BY <1>1, ElementOfSeq
<1> QED  BY <1>1, <1>2, <1>3 DEF Size

\* A packet smaller than what is free still fits.
LEMMA MoreFits ==
  ASSUME NEW f, FrameFits(f), NEW p \in Nat, NEW m \in 0..Len(Packets),
         ToSet(f.packets) \subseteq 1..m, p \in 1..m, Size(p) < Free(f)
  PROVE  FrameFits([ready |-> TRUE, packets |-> f.packets \o <<p>>, full |-> FALSE])
<1>1. PICK s \in Seq(Nat) : s = f.packets /\ ToSet(s) \subseteq 1..m
  BY DEF FrameFits
<1>2. PICK n \in Nat : n = Len(s)
  BY Elements
<1>3. PICK h \in Seq(Nat) : h = <<p>> /\ Len(h) = 1 /\ h[1] = p
  BY OneElement
<1>4. PICK t \in Seq(Nat) : t = Both(s, h)
  BY Chained
<1>5. Len(t) = n + 1 /\ t[n + 1] = p /\ \A k \in 1..n : t[k] = s[k]
  <2>1. Len(Both(s, h)) = Len(s) + Len(h)
    BY ConcatProperties DEF Both
  <2>2. \A k \in 1..(Len(s) + Len(h)) :
           Both(s, h)[k] = IF k <= Len(s) THEN s[k] ELSE h[k - Len(s)]
    BY ConcatProperties DEF Both
  <2>3. \A k \in 1..(n + 1) : t[k] = IF k <= n THEN s[k] ELSE h[k - n]
    BY <1>2, <1>3, <1>4, <2>2
  <2>4. t[n + 1] = p
    <3>1. n + 1 \in 1..(n + 1) /\ ~(n + 1 <= n) /\ (n + 1) - n = 1
      BY <1>2
    <3>2. t[n + 1] = h[1]
      BY <2>3, <3>1
    <3> QED  BY <1>3, <3>2
  <2>5. \A k \in 1..n : t[k] = s[k]
    <3>1. \A k \in 1..n : k \in 1..(n + 1) /\ k <= n
      BY <1>2
    <3> QED  BY <2>3, <3>1
  <2> QED  BY <1>2, <1>3, <1>4, <2>1, <2>4, <2>5
<1>6. PICK g : g = [ready |-> TRUE, packets |-> t, full |-> FALSE]
  OBVIOUS
<1>7. g.packets = t /\ g.ready /\ g \in [ready : BOOLEAN, packets : Seq(Nat), full : BOOLEAN]
  BY <1>6
<1>8. \A k \in 1..(n + 1) : Size(t[k]) \in Nat
  <2>0. n \in Nat
    OBVIOUS
  <2>1. ASSUME NEW k \in 1..(n + 1) PROVE t[k] \in 1..m
    <3>1. CASE k = n + 1
      BY <1>5, <3>1
    <3>2. CASE k # n + 1
      <4>1. k \in 1..n
        BY <2>0, <3>2
      <4>2. s[k] \in ToSet(s)
        BY <1>2, <4>1, Elements
      <4> QED  BY <1>1, <1>5, <4>1, <4>2
    <3> QED  BY <3>1, <3>2
  <2>2. 1..m \subseteq 1..Len(Packets)
    BY PacketSizes
  <2> QED  BY <2>1, <2>2, PacketSizes
<1>9. Used(f) \in Nat /\ Used(g) = Used(f) + Size(t[n + 1])
  <2>1. Len(f.packets) = n /\ Len(g.packets) = n + 1
    BY <1>1, <1>2, <1>5, <1>7
  <2>2. \A k \in 1..n : g.packets[k] = f.packets[k]
    BY <1>1, <1>5, <1>7
  <2>3. \A k \in 1..(n + 1) : Size(g.packets[k]) \in Nat
    BY <1>7, <1>8
  <2>4. Used(f) \in Nat /\ Used(g) = Used(f) + Size(g.packets[n + 1])
    BY <2>1, <2>2, <2>3, UsedMore
  <2> QED  BY <1>7, <2>4
<1>10. Used(g) \in Nat /\ Used(g) < FieldLength
  <2>1. Size(p) \in Nat /\ Size(p) < FieldLength - Used(f) /\ FieldLength \in Nat
    <3>1. n + 1 \in 1..(n + 1)
      BY <1>2
    <3>2. Size(p) \in Nat /\ FieldLength \in Nat
      BY <1>5, <1>8, <3>1, PacketSizes
    <3>3. ~f.full
      BY <3>2 DEF Free
    <3> QED  BY <3>2, <3>3 DEF Free
  <2> QED  BY <1>5, <1>9, <2>1
<1>11. FrameFits(g)
  BY <1>7, <1>10 DEF FrameFits
<1> QED  BY <1>1, <1>3, <1>4, <1>6, <1>11 DEF Both

-----------------------------------------------------------------------------
Filling == {"fill", "complete"}

\* A step that leaves the downlink alone.
LEMMA DownAside ==
  ASSUME DownInv, UNCHANGED downlinkVars, step' = step \/ (step \notin Filling /\ step' \notin Filling)
  PROVE  DownInv'
<1>1. UNCHANGED <<pipe, held, frame, count, made, taken, dropped, onAir>>
  BY DEF downlinkVars
<1>2. DownPlaces'
  BY <1>1 DEF DownInv, DownPlaces, Filling
<1> QED  BY <1>1, <1>2 DEF DownInv

\* A packet comes into the pipe, at any step of a service.
LEMMA DownMade ==
  ASSUME DownInv, PacketMade PROVE DownInv'
<1>1. /\ made < Len(Packets) /\ made' = made + 1 /\ pipe' = Append(pipe, made + 1)
      /\ UNCHANGED <<step, held, frame, count, taken, dropped, onAir>>
  BY DEF PacketMade, appVars
<1>2. Line(onAir, frame.packets, held, Append(pipe, made + 1), taken, dropped, made + 1)
  BY <1>1, LineMade DEF DownInv
<1>3. FrameFits(frame)' /\ DownPlaces'
  BY <1>1 DEF DownInv, DownPlaces
<1> QED  BY <1>1, <1>2, <1>3 DEF DownInv

\* RADIO_Service begins its frame, fails to, or throws away what waits.
LEMMA DownBegins ==
  ASSUME DownInv, Downlink PROVE DownInv'
<1>1. step = "downlink" /\ held = <<>> /\ UNCHANGED <<held, made, taken, dropped, onAir>>
  BY DEF Downlink, DownInv, DownPlaces
<1>2. CASE enabled /\ hkMode \in Transmitting
  <2>1. UNCHANGED pipe
    BY <1>2 DEF Downlink
  <2>2. CASE step' = "fill" /\ count' = 0 /\ frame' = [frame EXCEPT !.ready = TRUE]
    <3>1. FrameFits(frame') /\ frame'.ready /\ frame'.packets = frame.packets
      BY <2>2, FrameSteps DEF DownInv
    <3>2. DownPlaces'
      BY <1>1, <2>2, <3>1, PacketSizes DEF DownPlaces
    <3>3. Line(onAir', frame'.packets, held', pipe', taken', dropped', made')
      BY <1>1, <2>1, <3>1 DEF DownInv
    <3> QED  BY <3>1, <3>2, <3>3 DEF DownInv
  <2>3. CASE Fail /\ UNCHANGED frame
    <3>1. step' = "idle" /\ count' = 0
      BY <2>3 DEF Fail, Return
    <3>2. DownPlaces'
      BY <1>1, <3>1, PacketSizes DEF DownPlaces
    <3> QED  BY <1>1, <2>1, <2>3, <3>2 DEF DownInv
  <2> QED  BY <1>2, <2>2, <2>3 DEF Downlink
<1>3. CASE ~(enabled /\ hkMode \in Transmitting)
  <2>1. pipe' = <<>> /\ step' = "idle" /\ count' = 0 /\ UNCHANGED frame
    BY <1>3 DEF Downlink, Return
  <2>2. Line(onAir, frame.packets, held, <<>>, taken, dropped, made)
    BY LinePurged DEF DownInv
  <2>3. DownPlaces'
    BY <1>1, <2>1, PacketSizes DEF DownPlaces
  <2> QED  BY <1>1, <2>1, <2>2, <2>3 DEF DownInv
<1> QED  BY <1>2, <1>3

\* RADIO_Service takes a packet, or completes the frame as it is.
LEMMA DownTakes ==
  ASSUME DownInv, TakePacket PROVE DownInv'
<1>1. /\ step = "fill" /\ count < MaxTx /\ held = <<>> /\ frame.ready /\ count \in 0..MaxTx
      /\ UNCHANGED <<frame, made, dropped, onAir>>
  BY DEF TakePacket, DownInv, DownPlaces
<1>2. CASE pipe = <<>>
  <2>1. count' = MaxTx /\ step' = "complete" /\ UNCHANGED <<pipe, held, taken>>
    BY <1>2 DEF TakePacket
  <2>2. DownPlaces'
    BY <1>1, <2>1, PacketSizes DEF DownPlaces
  <2> QED  BY <1>1, <2>1, <2>2 DEF DownInv
<1>3. CASE pipe # <<>>
  <2>1. /\ pipe' = Tail(pipe) /\ held' = <<Head(pipe)>> /\ taken' = Append(taken, Head(pipe))
        /\ UNCHANGED <<count, step>>
    BY <1>3 DEF TakePacket
  <2>2. Line(onAir, frame.packets, <<Head(pipe)>>, Tail(pipe), Append(taken, Head(pipe)), dropped, made)
    BY <1>1, <1>3, LineTaken DEF DownInv
  <2>3. DownPlaces'
    BY <1>1, <2>1 DEF DownPlaces
  <2> QED  BY <1>1, <2>1, <2>2, <2>3 DEF DownInv
<1> QED  BY <1>2, <1>3

\* A packet is lost with the frame it was for, or because no frame can hold it.
LEMMA DownLoses ==
  ASSUME DownInv, StartFails \/ DropOversized PROVE DownInv'
<1>1. /\ step = "fill" /\ count < MaxTx /\ held # <<>> /\ count \in 0..MaxTx
      /\ Lose(held) /\ held' = <<>> /\ UNCHANGED <<pipe, made, taken, onAir>>
  BY DEF StartFails, DropOversized, DownInv, DownPlaces
<1>2. Line(onAir, frame.packets, <<>>, pipe, taken, dropped \cup ToSet(held), made)
  BY LineLost DEF DownInv
<1>3. CASE StartFails
  <2>1. step' = "idle" /\ count' = 0 /\ UNCHANGED frame
    BY <1>3 DEF StartFails, Fail, Return
  <2>2. DownPlaces'
    BY <1>1, <2>1, PacketSizes DEF DownPlaces
  <2> QED  BY <1>1, <1>2, <2>1, <2>2 DEF DownInv, Lose
<1>4. CASE DropOversized
  <2>1. step' = step /\ count' = count + 1 /\ frame' = [frame EXCEPT !.ready = TRUE]
    BY <1>4 DEF DropOversized
  <2>2. FrameFits(frame') /\ frame'.ready /\ frame'.packets = frame.packets
    BY <2>1, FrameSteps DEF DownInv
  <2>3. DownPlaces'
    <3>1. count + 1 \in 0..MaxTx
      BY <1>1, PacketSizes
    <3> QED  BY <1>1, <2>1, <2>2, <3>1 DEF DownPlaces
  <2> QED  BY <1>1, <1>2, <2>1, <2>2, <2>3 DEF DownInv, Lose
<1> QED  BY <1>3, <1>4

\* A packet is added to the frame, or lost with an error.
LEMMA DownAdds ==
  ASSUME DownInv, AddPacket PROVE DownInv'
<1>1. /\ step = "fill" /\ count < MaxTx /\ held # <<>> /\ count \in 0..MaxTx
      /\ Size(held[1]) < Free(frame) /\ held' = <<>> /\ UNCHANGED <<pipe, made, taken, onAir>>
  BY DEF AddPacket, DownInv, DownPlaces
<1>2. CASE /\ frame' = [ready |-> TRUE, packets |-> frame.packets \o held, full |-> FALSE]
           /\ count' = count + 1 /\ UNCHANGED <<step, dropped>>
  <2>1. PICK p \in Nat : held = <<p>> /\ held[1] = p /\ ToSet(held) = {p}
    BY <1>1, InHand DEF DownInv, Line
  <2>2. PICK m \in 0..Len(Packets) : m = made
    BY DEF DownInv, Line
  <2>3. ToSet(frame.packets) \subseteq 1..m /\ p \in 1..m
    BY <2>1, <2>2 DEF DownInv, Line
  <2>4. FrameFits([ready |-> TRUE, packets |-> frame.packets \o <<p>>, full |-> FALSE])
    BY <1>1, <2>1, <2>3, MoreFits DEF DownInv
  <2>5. FrameFits(frame')
    BY <1>2, <2>1, <2>4
  <2>6. frame'.ready /\ frame'.packets = Both(frame.packets, held)
    BY <1>2 DEF Both
  <2>7. Line(onAir, Both(frame.packets, held), <<>>, pipe, taken, dropped, made)
    BY LinePacked DEF DownInv
  <2>8. DownPlaces'
    <3>1. count + 1 \in 0..MaxTx
      BY <1>1, PacketSizes
    <3> QED  BY <1>1, <1>2, <2>6, <3>1 DEF DownPlaces
  <2> QED  BY <1>1, <1>2, <2>5, <2>6, <2>7, <2>8 DEF DownInv
<1>3. CASE frame' = [frame EXCEPT !.ready = TRUE] /\ Fail /\ Lose(held)
  <2>1. step' = "idle" /\ count' = 0
    BY <1>3 DEF Fail, Return
  <2>2. FrameFits(frame') /\ frame'.ready /\ frame'.packets = frame.packets
    BY <1>3, FrameSteps DEF DownInv
  <2>3. Line(onAir, frame.packets, <<>>, pipe, taken, dropped \cup ToSet(held), made)
    BY LineLost DEF DownInv
  <2>4. DownPlaces'
    BY <1>1, <2>1, PacketSizes DEF DownPlaces
  <2> QED  BY <1>1, <1>3, <2>2, <2>3, <2>4 DEF DownInv, Lose
<1> QED  BY <1>2, <1>3 DEF AddPacket

\* A packet that does not fit waits in hand, for a frame that was begun.
LEMMA DownFull ==
  ASSUME DownInv, FrameFull PROVE DownInv'
<1>1. /\ step = "fill" /\ step' = "complete" /\ (count < MaxTx => held # <<>>)
      /\ count < MaxTx => ~Oversized(held[1]) /\ Size(held[1]) >= Free(frame)
      /\ UNCHANGED <<pipe, held, frame, count, made, taken, dropped, onAir>>
  BY DEF FrameFull
<1>2. frame.ready
  <2> SUFFICES ASSUME ~frame.ready PROVE FALSE
    OBVIOUS
  <2>1. count < MaxTx /\ held # <<>>
    BY <1>1 DEF DownInv, DownPlaces
  <2>2. Used(frame) = 0 /\ ~frame.full
    BY UsedNone DEF DownInv, FrameFits
  <2>3. PICK p \in 1..Len(Packets) : held[1] = p
    <3>1. PICK p \in Nat : held[1] = p /\ ToSet(held) = {p}
      BY <2>1, InHand DEF DownInv, Line
    <3>2. p \in 1..made /\ made \in 0..Len(Packets)
      BY <3>1 DEF DownInv, Line
    <3> QED  BY <3>1, <3>2, PacketSizes
  <2>4. Size(p) \in Nat /\ FieldLength \in Nat
    BY PacketSizes
  <2>5. ~(Size(p) >= FieldLength) /\ Size(p) >= FieldLength - 0
    BY <1>1, <2>1, <2>2, <2>3 DEF Oversized, Free
  <2> QED  BY <2>4, <2>5
<1>3. DownPlaces'
  BY <1>1, <1>2 DEF DownInv, DownPlaces
<1> QED  BY <1>1, <1>3 DEF DownInv

\* The frame is sent, or lost, or kept; the packet in hand is never forgotten.
LEMMA DownCompletes ==
  ASSUME DownInv, CompleteFrame PROVE DownInv'
<1>1. /\ step = "complete" /\ frame.ready /\ count \in 0..MaxTx
      /\ (count < MaxTx => held # <<>>) /\ (count = MaxTx => held = <<>>)
      /\ UNCHANGED <<pipe, made, taken>>
  BY DEF CompleteFrame, DownInv, DownPlaces
<1>2. CASE \E transmitted \in BOOLEAN :
             /\ onAir' = (IF transmitted THEN onAir \o frame.packets ELSE onAir)
             /\ IF transmitted THEN UNCHANGED dropped ELSE Lose(frame.packets)
             /\ frame' = EmptyFrame /\ UNCHANGED held
             /\ IF count < MaxTx THEN step' = "fill" /\ UNCHANGED count ELSE Return
  <2>1. FrameFits(frame') /\ frame'.packets = <<>> /\ UNCHANGED held
    BY <1>2, EmptyFits
  <2>2. DownPlaces'
    <3>1. CASE count < MaxTx
      BY <1>1, <1>2, <3>1 DEF DownPlaces
    <3>2. CASE ~(count < MaxTx)
      <4>1. count = MaxTx
        BY <1>1, <3>2, PacketSizes
      <4>2. held' = <<>> /\ step' = "idle" /\ count' = 0
        BY <1>1, <1>2, <3>2, <4>1 DEF Return
      <4> QED  BY <4>2, PacketSizes DEF DownPlaces
    <3> QED  BY <3>1, <3>2
  <2>3. CASE onAir' = onAir \o frame.packets /\ UNCHANGED dropped
    <3>1. onAir' = Both(onAir, frame.packets)
      BY <2>3 DEF Both
    <3>2. Line(Both(onAir, frame.packets), <<>>, held, pipe, taken, dropped, made)
      BY LineSent DEF DownInv
    <3> QED  BY <1>1, <2>1, <2>2, <2>3, <3>1, <3>2 DEF DownInv
  <2>4. CASE onAir' = onAir /\ Lose(frame.packets)
    <3>1. Line(onAir, <<>>, held, pipe, taken, dropped \cup ToSet(frame.packets), made)
      BY LineLost DEF DownInv
    <3> QED  BY <1>1, <2>1, <2>2, <2>4, <3>1 DEF DownInv, Lose
  <2> QED  BY <1>2, <2>3, <2>4
<1>3. CASE /\ Fail /\ Lose(held) /\ frame' = [frame EXCEPT !.full = TRUE]
           /\ UNCHANGED onAir /\ held' = <<>>
  <2>0. FrameFits(frame') /\ frame'.packets = frame.packets
    BY <1>1, <1>3, FrameFilled DEF DownInv
  <2>1. step' = "idle" /\ count' = 0
    BY <1>3 DEF Fail, Return
  <2>2. Line(onAir, frame.packets, <<>>, pipe, taken, dropped \cup ToSet(held), made)
    BY LineLost DEF DownInv
  <2>3. DownPlaces'
    BY <1>3, <2>1, PacketSizes DEF DownPlaces
  <2> QED  BY <1>1, <1>3, <2>0, <2>2, <2>3 DEF DownInv, Lose
<1>4. CASE /\ Fail /\ Lose(held \o frame.packets) /\ held' = <<>> /\ frame' = EmptyFrame
           /\ UNCHANGED onAir
  <2>1. step' = "idle" /\ count' = 0
    BY <1>4 DEF Fail, Return
  <2>2. Line(onAir, <<>>, <<>>, pipe, taken, dropped \cup ToSet(held) \cup ToSet(frame.packets), made)
    BY LineLost DEF DownInv
  <2>3. ToSet(Both(held, frame.packets)) = ToSet(held) \cup ToSet(frame.packets)
    <3>1. held \in Seq(Nat) /\ frame.packets \in Seq(Nat)
      BY InHand DEF DownInv, Line
    <3> QED  BY <3>1, Chained
  <2>4. dropped' = dropped \cup ToSet(held) \cup ToSet(frame.packets)
    <3>1. dropped' = dropped \cup ToSet(Both(held, frame.packets))
      BY <1>4 DEF Lose, Both
    <3> QED  BY <2>3, <3>1
  <2>5. DownPlaces'
    BY <1>4, <2>1, PacketSizes DEF DownPlaces
  <2>6. FrameFits(frame') /\ frame'.packets = <<>>
    BY <1>4, EmptyFits
  <2> QED  BY <1>1, <1>4, <2>2, <2>4, <2>5, <2>6 DEF DownInv
<1> QED  BY <1>2, <1>3, <1>4 DEF CompleteFrame

\* A process that dies loses the packet in hand and those of its frame.
LEMMA DownBoot ==
  ASSUME DownInv, Boot PROVE DownInv'
<1>1. /\ pipe' = <<>> /\ held' = <<>> /\ frame' = EmptyFrame /\ count' = 0
      /\ UNCHANGED <<made, taken, onAir>> /\ Lose(held \o frame.packets)
      /\ step' \in {"load", "idle"}
  BY DEF Boot, RadioStarts, AppStarts
<1>2. Line(onAir, <<>>, <<>>, pipe, taken, dropped \cup ToSet(held) \cup ToSet(frame.packets), made)
  BY LineLost DEF DownInv
<1>3. Line(onAir, <<>>, <<>>, <<>>, taken, dropped \cup ToSet(held) \cup ToSet(frame.packets), made)
  BY <1>2, LinePurged
<1>4. dropped' = dropped \cup ToSet(held) \cup ToSet(frame.packets)
  <2>1. held \in Seq(Nat) /\ frame.packets \in Seq(Nat)
    BY InHand DEF DownInv, Line
  <2>2. ToSet(Both(held, frame.packets)) = ToSet(held) \cup ToSet(frame.packets)
    BY <2>1, Chained
  <2>3. dropped' = dropped \cup ToSet(Both(held, frame.packets))
    BY <1>1 DEF Lose, Both
  <2> QED  BY <2>2, <2>3
<1>5. DownPlaces'
  BY <1>1, PacketSizes DEF DownPlaces
<1>6. FrameFits(frame') /\ frame'.packets = <<>>
  BY <1>1, EmptyFits
<1> QED  BY <1>1, <1>3, <1>4, <1>5, <1>6 DEF DownInv

\* The other steps, and those of the uplink, leave the downlink alone.
LEMMA DownOthers ==
  ASSUME DownInv,
         \/ DeviceNext /\ UNCHANGED radioVars
         \/ AdcsNext /\ UNCHANGED radioVars
         \/ FrameArrives \/ RailCycled \/ EnableRadio \/ DisableRadio \/ ExitRadio
         \/ ConfigureRadio \/ HousekeepingRadio
         \/ Service \/ Receive \/ ReceivedEnough \/ Parse \/ Resync
         \/ UNCHANGED vars
  PROVE  UNCHANGED downlinkVars /\ (step' = step \/ (step \notin Filling /\ step' \notin Filling))
<1> USE DEF Filling, radioVars, Handle, serviceOnly
<1>1. CASE DeviceNext /\ UNCHANGED radioVars
  BY <1>1 DEF DeviceNext, BadPacket, Noop, ResetCounters, EnableUart, EnableAgain, DisableUart,
       DisableAgain, ConfigureDemo, Switch, PollHousekeeping, PollData, Poll, Exit, Reject
<1>2. CASE AdcsNext /\ UNCHANGED radioVars
  <2>1. step' = step \/ (step \notin Filling /\ step' \notin Filling)
    BY <1>2 DEF AdcsNext, LoadTable, DeviceRestarts, EnableAdcs, EnableUart, ConfigureAdcs, Forward,
         ForwardDisabled, Reject, GpsTick, HousekeepingAdcs, Sync, OpenToSave, FileStep, SaveWrite,
         LoadTime, PersistOpen, PersistWrite, appVars
  <2> QED  BY <1>2, <2>1
<1>3. CASE FrameArrives \/ RailCycled
  BY <1>3 DEF FrameArrives, RailCycled, appVars
<1>4. CASE EnableRadio \/ ConfigureRadio \/ HousekeepingRadio
  BY <1>4 DEF EnableRadio, ConfigureRadio, HousekeepingRadio, Poll
<1>5. CASE DisableRadio \/ ExitRadio
  BY <1>5 DEF DisableRadio, ExitRadio
<1>6. CASE Service \/ ReceivedEnough
  BY <1>6 DEF Service, ReceivedEnough
<1>7. CASE Receive \/ Parse \/ Resync
  BY <1>7 DEF Receive, Parse, Resync
<1>8. CASE UNCHANGED vars
  BY <1>8 DEF vars, appVars
<1> QED  BY <1>1, <1>2, <1>3, <1>4, <1>5, <1>6, <1>7, <1>8

\* Every step of the downlink, and any other's.
LEMMA DownStep ==
  DownInv /\ [Next]_vars => DownInv'
<1> SUFFICES ASSUME DownInv, [Next]_vars PROVE DownInv'
  OBVIOUS
<1>1. CASE RadioNext
  <2>1. CASE PacketMade
    BY <2>1, DownMade
  <2>2. CASE Downlink \/ TakePacket
    BY <2>2, DownBegins, DownTakes
  <2>3. CASE StartFails \/ DropOversized \/ AddPacket \/ FrameFull
    BY <2>3, DownLoses, DownAdds, DownFull
  <2>4. CASE CompleteFrame
    BY <2>4, DownCompletes
  <2>5. CASE \/ FrameArrives \/ RailCycled \/ EnableRadio \/ DisableRadio \/ ExitRadio
             \/ ConfigureRadio \/ HousekeepingRadio
             \/ Service \/ Receive \/ ReceivedEnough \/ Parse \/ Resync
    BY <2>5, DownOthers, DownAside
  <2> QED  BY <1>1, <2>1, <2>2, <2>3, <2>4, <2>5 DEF RadioNext, ServiceStep
<1>2. CASE DeviceNext /\ UNCHANGED <<adcsVars, radioVars, boots>>
  BY <1>2, DownOthers, DownAside
<1>3. CASE AdcsNext /\ UNCHANGED <<radioVars, boots>>
  BY <1>3, DownOthers, DownAside
<1>4. CASE Boot
  BY <1>4, DownBoot
<1>5. CASE UNCHANGED vars
  BY <1>5, DownOthers, DownAside
<1> QED  BY <1>1, <1>2, <1>3, <1>4, <1>5 DEF Next

\* Nothing was taken.
LEMMA DownInit ==
  Init => DownInv
<1> SUFFICES ASSUME Init PROVE DownInv
  OBVIOUS
<1>1. /\ pipe = <<>> /\ held = <<>> /\ frame = EmptyFrame /\ count = 0 /\ made = 0
      /\ taken = <<>> /\ dropped = {} /\ onAir = <<>> /\ step \notin Filling
  BY DEF Init, RadioInit, AppInit, Filling
<1>2. PICK e \in Seq(Nat) : e = <<>> /\ Len(e) = 0 /\ ToSet(e) = {} /\ Rising(e)
  BY NoElement
<1>3. Line(e, e, e, e, e, {}, 0)
  <2>1. 0 \in 0..Len(Packets) /\ Len(e) + Len(e) <= 0
    BY <1>2, PacketSizes
  <2>2. Below(ToSet(e), ToSet(e)) /\ ToSet(e) \subseteq 1..0
    BY <1>2 DEF Below
  <2> QED  BY <1>2, <2>1, <2>2 DEF Line
<1>4. FrameFits(frame) /\ frame.packets = e
  BY <1>1, <1>2, EmptyFits
<1>5. DownPlaces
  BY <1>1, PacketSizes DEF DownPlaces, Filling
<1> QED  BY <1>1, <1>2, <1>3, <1>4, <1>5 DEF DownInv

\* The invariant says what the downlink promises.
LEMMA DownFaithful ==
  DownInv => DownlinkFaithful
<1> SUFFICES ASSUME DownInv PROVE DownlinkFaithful
  OBVIOUS
<1>1. PICK kept \in Seq(Nat) : kept = Both(Both(onAir, frame.packets), held)
                               /\ ToSet(kept) = ToSet(taken) \ dropped /\ Rising(kept)
  BY LineRises DEF DownInv
<1>2. kept = onAir \o frame.packets \o held
  BY <1>1 DEF Both
<1>3. \A i, j \in DOMAIN kept : i < j => kept[i] < kept[j]
  BY <1>1, Elements, ZenonT(60) DEF Rising
<1>4. /\ Used(frame) < FieldLength /\ (step = "complete" => frame.ready)
      /\ (step = "idle" => held = <<>>)
  BY DEF DownInv, FrameFits, DownPlaces
<1> QED  BY <1>1, <1>2, <1>3, <1>4 DEF DownlinkFaithful

\* Every packet RADIO_Service takes from the downlink pipe is on the air, in the
\* frame or in hand, in the order of its publication and once, or was dropped
\* with an error, for packets of any number and size, frames of any length and
\* any number of packets in a poll.
THEOREM DownlinkAlwaysFaithful == Spec => []DownlinkFaithful
<1> QED  BY DownInit, DownStep, DownFaithful, PTL DEF Spec

-----------------------------------------------------------------------------
(***************************************************************************)
(* The types.  What the invariants above leave to say of them, in parts    *)
(* that every step keeps.                                                  *)
(***************************************************************************)
TaskTypes ==
    /\ app \in Apps /\ step \in Steps /\ enabled \in BOOLEAN /\ open \in BOOLEAN
    /\ executed \in BOOLEAN /\ (enabled => open)

TableTypes ==
    /\ loaded \in 1..MaxLoads /\ active \in 1..loaded /\ snapshot \in 1..loaded
    /\ gains \in 0..MaxLoads

ClockTypes ==
    /\ gps \in Nat \ {0} /\ saves \in 0..(SavePeriod - 1) /\ lastGps \in 0..gps
    /\ synced => lastGps > 0

DeviceTypes ==
    /\ radio \in [powered : BOOLEAN, mode : Modes] /\ hkMode \in Modes
    /\ attempts \in 0..MaxRx /\ (step = "parse" => attempts > 0)

-----------------------------------------------------------------------------
\* What the assumptions say of the bounds.
LEMMA Positive ==
  /\ Offset \in Nat \ {0} /\ SavePeriod \in Nat \ {0} /\ MaxGps \in Nat \ {0}
  /\ MaxLoads \in Nat \ {0} /\ MaxRx \in Nat \ {0}
BY AdcsAssumption, RadioAssumption

\* The types when nothing has happened.
LEMMA TasksInit ==
  Init => TaskTypes /\ TableTypes /\ ClockTypes /\ DeviceTypes
<1> SUFFICES ASSUME Init PROVE TaskTypes /\ TableTypes /\ ClockTypes /\ DeviceTypes
  OBVIOUS
<1>1. TaskTypes
  BY DEF Init, AppInit, TaskTypes, Steps
<1>2. TableTypes /\ ClockTypes
  BY Positive DEF Init, AdcsInit, TableTypes, ClockTypes
<1>3. DeviceTypes
  BY Positive DEF Init, RadioInit, AppInit, DeviceTypes, Modes
<1> QED  BY <1>1, <1>2, <1>3

\* The interfaces of a device that is enabled are open, also after one that
\* failed to close.
Ports == enabled' \in BOOLEAN /\ open' \in BOOLEAN /\ (enabled' => open')

\* No handler enables a device it has not opened, nor closes one it leaves enabled.
LEMMA PortsStep ==
  ASSUME TaskTypes, [Next]_vars PROVE Ports
<1>1. CASE UNCHANGED <<enabled, open>>
  BY <1>1, Zenon DEF TaskTypes, Ports
<1>2. ASSUME NEW b \in BOOLEAN, enabled' = b, open' = b PROVE Ports
  BY <1>2, Zenon DEF Ports
<1>3. CASE EnableUart \/ DisableUart \/ Exit
  <2>1. \/ UNCHANGED <<enabled, open>> \/ \E b \in BOOLEAN : enabled' = b /\ open' = b
        \/ \E closed \in BOOLEAN : CloseUart(closed)
    BY <1>3, Zenon DEF EnableUart, DisableUart, Exit
  <2>2. ASSUME NEW closed \in BOOLEAN, CloseUart(closed) PROVE Ports
    <3>1. enabled' = ~closed /\ open' = ~closed
      BY <2>2, Zenon DEF CloseUart
    <3>2. CASE closed = TRUE
      <4>1. enabled' = FALSE /\ open' = FALSE
        BY <3>1, <3>2
      <4> QED  BY <4>1, <1>2
    <3>3. CASE closed = FALSE
      <4>1. enabled' = TRUE /\ open' = TRUE
        BY <3>1, <3>3
      <4> QED  BY <4>1, <1>2
    <3> QED  BY <3>2, <3>3
  <2> QED  BY <2>1, <2>2, <1>1, <1>2, Zenon
<1>4. CASE EnableRadio
  <2>1. open' \in BOOLEAN /\ \E powered \in {FALSE, open'} : enabled' = powered
    BY <1>4, Zenon DEF EnableRadio
  <2>2. CASE enabled' = FALSE
    BY <2>1, <2>2, Zenon DEF Ports
  <2>3. CASE enabled' = open'
    BY <2>1, <2>3, <1>2, Zenon
  <2>4. enabled' = FALSE \/ enabled' = open'
    BY <2>1, Zenon
  <2> QED  BY <2>2, <2>3, <2>4, Zenon
<1>5. CASE DisableRadio \/ ExitRadio \/ Boot
  <2>1. UNCHANGED <<enabled, open>> \/ (enabled' = FALSE /\ open' \in BOOLEAN)
    <3>1. CASE DisableRadio \/ ExitRadio
      BY <3>1 DEF DisableRadio, ExitRadio, PowerOffAndClose
    <3>2. CASE Boot
      <4>1. enabled' = FALSE /\ open' \in {FALSE, app = "eps"}
        BY <3>2 DEF Boot, AppStarts
      <4> QED  BY <4>1
    <3> QED  BY <1>5, <3>1, <3>2
  <2> QED  BY <2>1, <1>1, Zenon DEF Ports
<1>6. CASE DeviceNext /\ ~(EnableUart \/ DisableUart \/ Exit)
  <2>1. UNCHANGED <<enabled, open>>
    BY <1>6 DEF DeviceNext, BadPacket, Noop, ResetCounters, EnableAgain, DisableAgain, ConfigureDemo,
         Switch, PollHousekeeping, PollData, Poll, Reject
  <2> QED  BY <2>1, <1>1
<1>7. CASE AdcsNext /\ ~EnableUart
  <2>1. UNCHANGED <<enabled, open>>
    BY <1>7 DEF AdcsNext, LoadTable, DeviceRestarts, EnableAdcs, ConfigureAdcs, Forward, ForwardDisabled,
         Reject, GpsTick, HousekeepingAdcs, FileStep, SaveWrite, LoadTime, PersistOpen, PersistWrite,
         appVars
  <2> QED  BY <2>1, <1>1
<1>8. CASE RadioNext /\ ~(EnableRadio \/ DisableRadio \/ ExitRadio)
  <2>1. UNCHANGED <<enabled, open>>
    BY <1>8 DEF RadioNext, FrameArrives, RailCycled, PacketMade, ConfigureRadio, HousekeepingRadio,
         Poll, Service, ServiceStep, serviceOnly, Receive, ReceivedEnough, Parse, Resync, Downlink,
         TakePacket, StartFails, DropOversized, AddPacket, FrameFull, CompleteFrame, appVars
  <2> QED  BY <2>1, <1>1
<1>9. CASE UNCHANGED vars
  BY <1>9, <1>1 DEF vars, appVars
<1> QED  BY <1>3, <1>4, <1>5, <1>6, <1>7, <1>8, <1>9 DEF Next

\* The task stays the same, and goes to one of its steps.
LEMMA StepsStep ==
  ASSUME TaskTypes, [Next]_vars PROVE app' = app /\ step' \in Steps
<1> USE DEF TaskTypes, Handle, Steps
<1>1. CASE DeviceNext
  BY <1>1 DEF DeviceNext, BadPacket, Noop, ResetCounters, EnableUart, EnableAgain, DisableUart,
       DisableAgain, ConfigureDemo, Switch, PollHousekeeping, PollData, Poll, Exit, Reject
<1>2. CASE AdcsNext
  BY <1>2 DEF AdcsNext, LoadTable, DeviceRestarts, EnableAdcs, EnableUart, ConfigureAdcs, Forward,
       ForwardDisabled, Reject, GpsTick, HousekeepingAdcs, Sync, OpenToSave, FileStep, SaveWrite,
       LoadTime, PersistOpen, PersistWrite, appVars
<1>3. CASE RadioNext
  <2>1. CASE FrameArrives \/ RailCycled \/ PacketMade
    BY <2>1 DEF FrameArrives, RailCycled, PacketMade, appVars
  <2>2. CASE EnableRadio \/ DisableRadio \/ ExitRadio
    BY <2>2 DEF EnableRadio, DisableRadio, ExitRadio
  <2>3. CASE ConfigureRadio \/ HousekeepingRadio \/ Service
    BY <2>3 DEF ConfigureRadio, HousekeepingRadio, Service, Poll
  <2>4. CASE ServiceStep
    BY <2>4 DEF ServiceStep, serviceOnly, Receive, ReceivedEnough, Parse, Resync, Downlink, TakePacket,
         StartFails, DropOversized, AddPacket, FrameFull, CompleteFrame, Fail, Return
  <2> QED  BY <1>3, <2>1, <2>2, <2>3, <2>4 DEF RadioNext
<1>4. CASE Boot
  BY <1>4 DEF Boot, AppStarts
<1>5. CASE UNCHANGED vars
  BY <1>5 DEF vars, appVars
<1> QED  BY <1>1, <1>2, <1>3, <1>4, <1>5 DEF Next

\* What is noted of a success is a truth value.
LEMMA ExecutedStep ==
  ASSUME executed \in BOOLEAN, [Next]_vars PROVE executed' \in BOOLEAN
<1>1. CASE executed' = executed \/ executed' = TRUE
  BY <1>1
<1>2. CASE ConfigureAdcs
  <2>1. executed' = TRUE \/ \E x \in Exchange : executed' = (x.ok => gains' = active')
    BY <1>2, Zenon DEF ConfigureAdcs
  <2> QED  BY <2>1, Zenon
<1>3. CASE Forward
  <2>1. executed' = TRUE \/ \E x \in Forwarded : executed' = (x.ok => x.done)
    BY <1>3, Zenon DEF Forward
  <2> QED  BY <2>1, Zenon
<1>4. CASE DeviceNext
  <2>1. executed' = executed \/ executed' = TRUE
    BY <1>4 DEF DeviceNext, BadPacket, Noop, ResetCounters, EnableUart, EnableAgain, DisableUart,
         DisableAgain, ConfigureDemo, Switch, PollHousekeeping, PollData, Poll, Exit, Reject
  <2> QED  BY <2>1, <1>1
<1>5. CASE AdcsNext /\ ~(ConfigureAdcs \/ Forward)
  <2>1. executed' = executed \/ executed' = TRUE
    BY <1>5 DEF AdcsNext, LoadTable, DeviceRestarts, EnableAdcs, EnableUart, ForwardDisabled, Reject,
         GpsTick, HousekeepingAdcs, FileStep, SaveWrite, LoadTime, PersistOpen, PersistWrite, appVars
  <2> QED  BY <2>1, <1>1
<1>6. CASE RadioNext
  <2>1. executed' = executed \/ executed' = TRUE
    BY <1>6 DEF RadioNext, FrameArrives, RailCycled, PacketMade, EnableRadio, DisableRadio, ExitRadio,
         ConfigureRadio, HousekeepingRadio, Poll, Service, ServiceStep, serviceOnly, Receive,
         ReceivedEnough, Parse, Resync, Downlink, TakePacket, StartFails, DropOversized, AddPacket,
         FrameFull, CompleteFrame, appVars
  <2> QED  BY <2>1, <1>1
<1>7. CASE Boot \/ UNCHANGED vars
  BY <1>7, <1>1 DEF Boot, AppStarts, vars, appVars
<1> QED  BY <1>2, <1>3, <1>4, <1>5, <1>6, <1>7 DEF Next

\* So each step keeps the types of the task.
LEMMA TasksStep ==
  TaskTypes /\ [Next]_vars => TaskTypes'
<1> SUFFICES ASSUME TaskTypes, [Next]_vars PROVE TaskTypes'
  OBVIOUS
<1>1. Ports
  BY PortsStep
<1>2. app' = app /\ step' \in Steps
  BY StepsStep
<1>3. executed' \in BOOLEAN
  <2>1. executed \in BOOLEAN
    BY DEF TaskTypes
  <2> QED  BY <2>1, ExecutedStep
<1>4. app' \in Apps
  BY <1>2 DEF TaskTypes
<1> QED  BY <1>1, <1>2, <1>3, <1>4, Zenon DEF TaskTypes, Ports, Steps

BootTypes == app \in Apps /\ boots \in 0..MaxBoots[app]

\* The restarts are counted.
LEMMA BootsStep ==
  ASSUME TaskTypes, BootTypes, [Next]_vars PROVE BootTypes'
<1>1. app' = app
  BY StepsStep
<1>2. app \in Apps /\ MaxBoots[app] \in Nat
  BY BootsAssumption DEF BootTypes
<1>3. boots' = boots \/ (boots < MaxBoots[app] /\ boots' = boots + 1)
  <2>1. UNCHANGED boots \/ Boot
    BY DEF Next, vars, RadioNext, AdcsNext, DeviceNext
  <2> QED  BY <2>1 DEF Boot
<1> QED  BY <1>1, <1>2, <1>3 DEF BootTypes

-----------------------------------------------------------------------------
\* The gains.  A device works with a version of the table that was loaded.
LEMMA TablesStep ==
  ASSUME TableTypes, [Next]_vars PROVE TableTypes'
<1> USE Positive DEF TableTypes
<1>1. CASE UNCHANGED gainVars
  BY <1>1 DEF gainVars
<1>2. CASE LoadTable \/ DeviceRestarts
  BY <1>2 DEF LoadTable, DeviceRestarts
<1>3. CASE EnableAdcs
  <2>1. UNCHANGED <<loaded, active, snapshot>> /\ gains' \in {gains, snapshot}
    BY <1>3, Zenon DEF EnableAdcs, Push
  <2> QED  BY <2>1
<1>4. CASE ConfigureAdcs
  <2>1. UNCHANGED loaded /\ active' \in {active, loaded} /\ snapshot' \in {snapshot, loaded}
    BY <1>4 DEF ConfigureAdcs, Refresh
  <2>2. gains' = gains \/ gains' = snapshot'
    BY <1>4 DEF ConfigureAdcs, Push
  <2> QED  BY <2>1, <2>2
<1>5. CASE Boot
  BY <1>5 DEF Boot, TablesStart
<1>6. CASE AdcsNext /\ ~(LoadTable \/ DeviceRestarts \/ EnableAdcs \/ ConfigureAdcs)
  <2>1. UNCHANGED gainVars
    BY <1>6 DEF AdcsNext, Forward, ForwardDisabled, GpsTick, HousekeepingAdcs, FileStep, SaveWrite,
         LoadTime, PersistOpen, PersistWrite, gainVars, adcsVars
  <2> QED  BY <2>1, <1>1
<1>7. CASE UNCHANGED adcsVars \/ UNCHANGED vars
  BY <1>7, <1>1 DEF vars, adcsVars, gainVars
<1> QED  BY <1>2, <1>3, <1>4, <1>5, <1>6, <1>7 DEF Next

\* The clock of the device and what the application has heard of it.
LEMMA ClockStep ==
  ASSUME ClockTypes, [Next]_vars PROVE ClockTypes'
<1> USE Positive DEF ClockTypes
<1>1. CASE UNCHANGED <<gps, synced, lastGps, saves>>
  BY <1>1
<1>2. CASE GpsTick
  BY <1>2 DEF GpsTick
<1>3. CASE HousekeepingAdcs
  <2>1. UNCHANGED gps /\ (Sync \/ UNCHANGED <<synced, lastGps, saves>>)
    BY <1>3 DEF HousekeepingAdcs
  <2>2. CASE Sync
    <3>1. \/ UNCHANGED <<synced, lastGps, saves>>
          \/ /\ synced' = TRUE /\ lastGps' = gps
             /\ saves' = IF saves + 1 < SavePeriod THEN saves + 1 ELSE 0
      BY <2>2 DEF Sync, OpenToSave
    <3> QED  BY <2>1, <3>1
  <2> QED  BY <2>1, <2>2, <1>1
<1>4. CASE Boot
  BY <1>4 DEF Boot, TimeStarts
<1>5. CASE AdcsNext /\ ~(GpsTick \/ HousekeepingAdcs)
  <2>1. UNCHANGED <<gps, synced, lastGps, saves>>
    BY <1>5 DEF AdcsNext, LoadTable, DeviceRestarts, EnableAdcs, ConfigureAdcs, Forward,
         ForwardDisabled, FileStep, SaveWrite, LoadTime, PersistOpen, PersistWrite, timeVars, adcsVars
  <2> QED  BY <2>1, <1>1
<1>6. CASE UNCHANGED adcsVars \/ UNCHANGED vars
  BY <1>6, <1>1 DEF vars, adcsVars
<1> QED  BY <1>2, <1>3, <1>4, <1>5, <1>6 DEF Next

-----------------------------------------------------------------------------
\* The radio and what is known of it; a service that parses has read.
LEMMA RadioStep ==
  ASSUME DeviceTypes, [Next]_vars PROVE DeviceTypes'
<1> DEFINE Radios == [powered : BOOLEAN, mode : Modes]
<1>0. {"sleep", "duplex"} \subseteq Modes
  BY DEF Modes
<1>1. radio' \in Radios
  <2>1. radio \in Radios
    BY DEF DeviceTypes
  <2>2. \/ radio' = radio \/ \E m \in Modes : radio' = [radio EXCEPT !.mode = m]
        \/ \E b \in BOOLEAN, m \in Modes : radio' = [powered |-> b, mode |-> m]
    <3>1. CASE RadioNext
      BY <1>0, <3>1 DEF RadioNext, FrameArrives, RailCycled, PacketMade, EnableRadio, DisableRadio, ExitRadio,
           PowerOffAndClose, ConfigureRadio, HousekeepingRadio, Service, ServiceStep, serviceOnly,
           Receive, ReceivedEnough, Parse, Resync, Downlink, TakePacket, StartFails, DropOversized,
           AddPacket, FrameFull, CompleteFrame
    <3>2. CASE ~RadioNext
      BY <3>2 DEF Next, Boot, RadioStarts, vars, radioVars
    <3> QED  BY <3>1, <3>2
  <2> QED  BY <2>1, <2>2
<1>2. hkMode' \in Modes
  <2>1. hkMode' = hkMode \/ hkMode' = radio.mode \/ hkMode' = "sleep"
    <3>1. CASE RadioNext
      BY <3>1 DEF RadioNext, FrameArrives, RailCycled, PacketMade, EnableRadio, DisableRadio, ExitRadio,
           ConfigureRadio, HousekeepingRadio, Service, ServiceStep, serviceOnly,
           Receive, ReceivedEnough, Parse, Resync, Downlink, TakePacket, StartFails, DropOversized,
           AddPacket, FrameFull, CompleteFrame
    <3>2. CASE ~RadioNext
      BY <3>2 DEF Next, Boot, RadioStarts, vars, radioVars
    <3> QED  BY <3>1, <3>2
  <2>2. radio.mode \in Modes
    BY DEF DeviceTypes
  <2> QED  BY <1>0, <2>1, <2>2 DEF DeviceTypes
<1>3. attempts' \in 0..MaxRx /\ (step' = "parse" => attempts' > 0)
  <2> USE DEF Handle
  <2>0. attempts \in 0..MaxRx /\ (step = "parse" => attempts > 0) /\ MaxRx \in Nat \ {0}
    BY Positive DEF DeviceTypes
  <2>1. CASE Service \/ Downlink \/ Boot
    <3>1. attempts' \in {0, MaxRx} /\ step' # "parse"
      BY <2>1 DEF Service, Downlink, Boot, AppStarts, RadioStarts, Fail, Return
    <3> QED  BY <2>0, <3>1
  <2>2. CASE Receive \/ Parse \/ Resync
    <3>1. \/ attempts' = attempts /\ (attempts > 0 \/ step = "parse")
          \/ attempts' = attempts - 1 /\ step = "parse" /\ step' = "receive"
      <4>1. CASE Receive
        BY <4>1 DEF Receive
      <4>2. CASE Parse
        BY <4>2, Zenon DEF Parse
      <4>3. CASE Resync
        BY <4>3 DEF Resync
      <4> QED  BY <2>2, <4>1, <4>2, <4>3
    <3> QED  BY <2>0, <3>1
  <2>3. CASE UNCHANGED attempts /\ (step' = step \/ step' # "parse")
    BY <2>0, <2>3
  <2>4. CASE RadioNext /\ ~(Service \/ Downlink \/ Receive \/ Parse \/ Resync)
    <3>1. UNCHANGED attempts /\ (step' = step \/ step' # "parse")
      BY <2>4 DEF RadioNext, FrameArrives, RailCycled, PacketMade, EnableRadio, DisableRadio, ExitRadio,
           ConfigureRadio, HousekeepingRadio, Poll, ServiceStep, uplinkVars, ReceivedEnough,
           TakePacket, StartFails, DropOversized, AddPacket, FrameFull, CompleteFrame, Fail, Return,
           appVars
    <3> QED  BY <3>1, <2>3
  <2>5. CASE DeviceNext /\ UNCHANGED radioVars
    <3>1. UNCHANGED attempts /\ (step' = step \/ step' # "parse")
      BY <2>5 DEF radioVars, uplinkVars, DeviceNext, BadPacket, Noop, ResetCounters, EnableUart,
           EnableAgain, DisableUart, DisableAgain, ConfigureDemo, Switch, PollHousekeeping, PollData,
           Poll, Exit, Reject
    <3> QED  BY <3>1, <2>3
  <2>6. CASE AdcsNext /\ UNCHANGED radioVars
    <3>1. UNCHANGED attempts
      BY <2>6 DEF radioVars, uplinkVars
    <3>2. step' = step \/ step' # "parse"
      BY <2>6 DEF AdcsNext, LoadTable, DeviceRestarts, EnableAdcs, EnableUart, ConfigureAdcs, Forward,
           ForwardDisabled, Reject, GpsTick, HousekeepingAdcs, Sync, OpenToSave, FileStep, SaveWrite,
           LoadTime, PersistOpen, PersistWrite, appVars
    <3> QED  BY <3>1, <3>2, <2>3
  <2>7. CASE UNCHANGED vars
    BY <2>7, <2>3 DEF vars, radioVars, uplinkVars, appVars
  <2> QED  BY <2>1, <2>2, <2>4, <2>5, <2>6, <2>7 DEF Next
<1> QED  BY <1>1, <1>2, <1>3 DEF DeviceTypes

\* The invariants together give the types.
LEMMA TypesHold ==
  ASSUME TaskTypes, BootTypes, TableTypes, ClockTypes, DeviceTypes, CountInv, TimeInv, UpInv, DownInv
  PROVE  TypeOK
<1>1. AppTypes
  <2>1. counted \in [cmd : 0..1, cmdErr : 0..2, dev : Nat, devErr : Nat]
    <3>1. counted \in Counters /\ counted.cmd + counted.cmdErr \in {0, 1, 2}
      BY DEF CountInv, CountTypes, CountsOf
    <3>2. counted.cmd \in 0..1 /\ counted.cmdErr \in 0..2
      BY <3>1 DEF Counters
    <3> QED  BY <3>1, <3>2 DEF Counters
  <2> QED  BY <2>1, Zenon DEF TaskTypes, AppTypes
<1>2. AdcsTypes
  <2>1. Len(file) <= 1
    <3>1. file = <<>> \/ \E d \in TimeData : file = <<d>>
      BY DEF TimeInv, TimeTypes
    <3>2. CASE file = <<>>
      BY <3>2
    <3>3. CASE \E d \in TimeData : file = <<d>>
      BY <3>3
    <3> QED  BY <3>1, <3>2, <3>3
  <2> QED  BY <2>1 DEF TableTypes, ClockTypes, AdcsTypes
<1>3. RadioTypes
  <2>1. Len(held) <= 1
    <3>1. held = <<>> \/ \E p \in Nat : held = <<p>>
      BY DEF DownInv, Line
    <3>2. CASE held = <<>>
      BY <3>2
    <3>3. CASE \E p \in Nat : held = <<p>>
      BY <3>3
    <3> QED  BY <3>1, <3>2, <3>3
  <2>2. Len(taken) <= made
    <3>1. Len(taken) \in Nat /\ Len(pipe) \in Nat /\ made \in Nat
      BY Elements DEF DownInv, Line
    <3> QED  BY <3>1 DEF DownInv, Line
  <2>3. dropped \subseteq ToSet(taken) /\ count \in 0..MaxTx
    BY DEF DownInv, Line, DownPlaces
  <2>4. Len(buffer) <= MaxPayload
    BY DEF UpInv, UpRoom
  <2> QED  BY <2>1, <2>2, <2>3, <2>4 DEF DeviceTypes, RadioTypes
<1> QED  BY <1>1, <1>2, <1>3 DEF BootTypes, TypeOK

\* Each variable of the four applications has its type, and a device that is
\* enabled has its interfaces open (the _Enable, _Disable and _AppMain of
\* demo_app.c, adcs_app.c and radio_app.c), whatever fails.
THEOREM TypeCorrect == Spec => []TypeOK
<1> DEFINE Inv == /\ TaskTypes /\ BootTypes /\ TableTypes /\ ClockTypes /\ DeviceTypes
                  /\ CountInv /\ TimeInv /\ UpInv /\ DownInv
<1>1. Init => Inv
  <2>1. Init => BootTypes
    BY BootsAssumption DEF Init, BootTypes
  <2>2. Init => CountInv
    BY Countings DEF Init, AppInit, Started, CountInv, CountTypes, CountsOf
  <2> QED  BY <2>1, <2>2, TasksInit, TimeInit, UpInit, DownInit
<1>2. Inv /\ [Next]_vars => Inv'
  BY TasksStep, BootsStep, TablesStep, ClockStep, RadioStep, CountersStep, TimeStep, UpStep, DownStep
<1>3. Inv => TypeOK
  BY TypesHold
<1> QED  BY <1>1, <1>2, <1>3, PTL DEF Spec
=============================================================================
