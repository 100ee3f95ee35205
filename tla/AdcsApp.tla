------------------------------- MODULE AdcsApp -------------------------------
(***************************************************************************)
(* What is particular to the ADCS application: the table of gains, which   *)
(* table services replace and the application sends on to the device       *)
(* (adcs_app.c, adcs_tbl.c), and the spacecraft time, which it takes from  *)
(* the device's GPS and, after a restart, from a file (adcs_time.c). The   *)
(* process may die between any two accesses to that file.                  *)
(***************************************************************************)
EXTENDS DeviceApp, Sequences, SequencesExt

CONSTANTS Offset,     \* ADCS_TIME_FILE_BOOT_OFFSET_SEC
          SavePeriod, \* ADCS_TIME_FILE_SAVE_PERIOD_CYCLES
          MaxGps,     \* bound: the seconds the GPS counts to
          MaxLoads    \* bound: the tables the ground loads

ASSUME AdcsAssumption == {Offset, SavePeriod, MaxGps, MaxLoads} \subseteq Nat \ {0}

VARIABLES loaded, active,   \* versions of the table: with the services, managed
          snapshot, gains,  \* GainsTblSnapshot; what the device works with
          gps,              \* the seconds of the device's GPS
          file,             \* ADCS_TIME_FILE: its data, or <<>>: absent or cut
          data,             \* FileData, a local of the load or save under way
          fallback,         \* TimeFileFallbackAvailable and -Time, and whether
                            \* cFE TIME has been given it
          synced, lastGps, saves,
          starts,           \* history: the fallbacks given since the last save
          unkept            \* history: a boot could not open the file again

adcsVars == <<loaded, active, snapshot, gains, gps, file, data, fallback, synced, lastGps,
              saves, starts, unkept>>
gainVars == <<loaded, active, snapshot, gains>>
timeVars == <<gps, file, data, fallback, synced, lastGps, saves, starts, unkept>>

NoFallback == [available |-> FALSE, start |-> 0, given |-> FALSE]
NoData     == [seconds |-> 0, boots |-> 0]

AdcsInit ==
    /\ loaded = 1 /\ active = 1 /\ snapshot = 1 /\ gains = 0
    /\ gps = 1 /\ file = <<>> /\ data = NoData
    /\ fallback = NoFallback /\ synced = FALSE /\ lastGps = 0 /\ saves = 0
    /\ starts = <<>> /\ unkept = FALSE

\* In a new process the file, the device and the histories stay as they are.
TablesStart == loaded' = 1 /\ active' = 1 /\ snapshot' = 1 /\ UNCHANGED gains
TimeStarts  == /\ fallback' = NoFallback /\ synced' = FALSE /\ lastGps' = 0 /\ saves' = 0
               /\ data' = NoData /\ UNCHANGED <<gps, file, starts, unkept>>

-----------------------------------------------------------------------------
\* The ground loads a table that passes ADCS_ValidateGainsTbl.
LoadTable ==
    /\ app = "adcs" /\ loaded < MaxLoads /\ loaded' = loaded + 1
    /\ UNCHANGED <<appVars, active, snapshot, gains, timeVars>>

\* The device has lost its power: it starts with the gains it was built with.
DeviceRestarts ==
    /\ app = "adcs" /\ gains # 0 /\ gains' = 0
    /\ UNCHANGED <<appVars, loaded, active, snapshot, timeVars>>

\* Fault: the snapshot is taken only when this call has updated the table.
RefreshUpdated(managed, read) ==
    /\ active' = IF managed THEN loaded ELSE active
    /\ snapshot' = IF managed /\ read /\ active # loaded THEN loaded ELSE snapshot

\* ADCS_RefreshGainsTable: CFE_TBL_Manage makes what was loaded the active
\* table; a table whose address cannot be got leaves the snapshot behind.
Refresh(managed, read) ==
    /\ active' = IF managed THEN loaded ELSE active
    /\ snapshot' = IF managed /\ read THEN loaded ELSE snapshot

\* ADCS_PushGainsToDevice, in one exchange.
Push(x) == gains' = IF x.done THEN snapshot' ELSE gains

EnableAdcs ==
    /\ app = "adcs" /\ EnableUart /\ UNCHANGED <<loaded, active, snapshot, timeVars>>
    /\ IF enabled' THEN \E x \in Exchange : Push(x) ELSE UNCHANGED gains

\* ADCS_CONFIG_CC: refresh and push; either may fail, and so may the release of
\* the address after the snapshot is taken.
ConfigureAdcs ==
    /\ app = "adcs" /\ enabled /\ Handle("command")
    /\ \E managed, read, released \in BOOLEAN, x \in Exchange :
          /\ Refresh(managed, read)
          /\ IF managed /\ read /\ released
             THEN /\ Push(x) /\ counted' = (IF x.ok THEN Acceptance ELSE Rejection)
                  /\ executed' = (x.ok => gains' = active')
             ELSE counted' = Rejection /\ executed' = TRUE /\ UNCHANGED gains
    /\ UNCHANGED <<step, enabled, open, loaded, timeVars>>

\* The commands that are forwarded: mode and target, and, with its own check
\* and its own exchange, a vector.
Forward ==
    /\ app = "adcs" /\ enabled
    /\ \/ /\ Handle("forward")
          /\ \E x \in Forwarded : /\ counted' = (IF x.ok THEN Acceptance ELSE Rejection)
                                  /\ executed' = (x.ok => x.done)
       \/ Handle("command") /\ counted' \in {Acceptance, Rejection} /\ executed' = TRUE
    /\ UNCHANGED <<step, enabled, open, adcsVars>>

ForwardDisabled == app = "adcs" /\ ~enabled /\ Reject /\ UNCHANGED adcsVars

-----------------------------------------------------------------------------
GpsTick ==
    /\ app = "adcs" /\ gps < MaxGps /\ gps' = gps + 1
    /\ UNCHANGED <<appVars, gainVars, file, data, fallback, synced, lastGps, saves, starts,
                   unkept>>

\* ADCS_ResubmitTimeFallback: the time in the file, and how long it is since
\* boot, as long as the GPS has not been heard.
Resubmit ==
    IF fallback.available /\ ~synced'
    THEN /\ fallback' = [fallback EXCEPT !.given = TRUE]
         /\ starts' = IF fallback.given THEN starts ELSE Append(starts, fallback.start)
    ELSE UNCHANGED <<fallback, starts>>

\* ADCS_SaveTimeToFile, as far as the open that truncates the file. What it
\* saves is the clock of cFE TIME, which the GPS sets, or slews, or does not.
OpenToSave ==
    /\ saves' = IF saves + 1 < SavePeriod THEN saves + 1 ELSE 0
    /\ \/ /\ saves + 1 >= SavePeriod
          /\ \E now \in 0..MaxGps : data' = [seconds |-> now, boots |-> 0]
          /\ file' = <<>> /\ step' = "save_write"
       \/ UNCHANGED <<file, data, step>>

\* ADCS_ProcessGpsTime.
Sync ==
    IF synced /\ gps = lastGps
    THEN UNCHANGED <<synced, lastGps, saves, file, data, step>>
    ELSE synced' = TRUE /\ lastGps' = gps /\ OpenToSave

\* ADCS_ReportHousekeeping.
HousekeepingAdcs ==
    /\ app = "adcs" /\ Handle("request")
    /\ \/ /\ enabled
          /\ \E ok \in BOOLEAN :
                /\ counted' = Polled(ok)
                /\ IF ok THEN Sync ELSE UNCHANGED <<synced, lastGps, saves, file, data, step>>
       \/ /\ ~enabled /\ counted' = Nothing
          /\ UNCHANGED <<synced, lastGps, saves, file, data, step>>
    /\ Resubmit /\ executed' = TRUE
    /\ UNCHANGED <<enabled, open, gainVars, gps, unkept>>

SaveWrite ==
    /\ step = "save_write" /\ step' = "idle" /\ data' = NoData
    /\ \/ file' = <<data>> /\ starts' = <<>> /\ unkept' = FALSE
       \/ UNCHANGED <<file, starts, unkept>>
    /\ UNCHANGED <<app, enabled, open, message, counted, executed, gainVars, gps, fallback,
                   synced, lastGps, saves>>

\* Fault: what is written back is what was read.
LoadUncounted(d) ==
    /\ data' = d
    /\ fallback' = [NoFallback EXCEPT !.available = TRUE,
                                      !.start = d.seconds + (d.boots + 1) * Offset]

Load(d) ==
    /\ data' = [d EXCEPT !.boots = @ + 1]
    /\ fallback' = [NoFallback EXCEPT !.available = TRUE,
                                      !.start = d.seconds + data'.boots * Offset]

\* ADCS_AppInit: the table is loaded, or the application ends; then
\* ADCS_LoadTimeFromFile reads the file, if it opens and is whole.
LoadTime ==
    /\ step = "load"
    /\ \/ file # <<>> /\ Load(file[1]) /\ step' = "persist"
       \/ step' \in {"idle", "exited"} /\ UNCHANGED <<data, fallback>>
    /\ UNCHANGED <<app, enabled, open, message, counted, executed, gainVars, gps, file,
                   synced, lastGps, saves, starts, unkept>>

\* ... truncates it ...
PersistOpen ==
    /\ step = "persist"
    /\ \/ step' = "persist_write" /\ file' = <<>> /\ UNCHANGED <<data, unkept>>
       \/ step' = "idle" /\ unkept' = TRUE /\ data' = NoData /\ UNCHANGED file
    /\ UNCHANGED <<app, enabled, open, message, counted, executed, gainVars, gps, fallback,
                   synced, lastGps, saves, starts>>

\* ... and writes back how many boots have used it.
PersistWrite ==
    /\ step = "persist_write" /\ step' = "idle" /\ file' \in {<<data>>, <<>>}
    /\ data' = NoData
    /\ UNCHANGED <<app, enabled, open, message, counted, executed, gainVars, gps, fallback,
                   synced, lastGps, saves, starts, unkept>>

FileStep == SaveWrite \/ LoadTime \/ PersistOpen \/ PersistWrite

AdcsNext ==
    \/ LoadTable \/ DeviceRestarts \/ EnableAdcs \/ ConfigureAdcs \/ Forward \/ ForwardDisabled
    \/ GpsTick \/ HousekeepingAdcs \/ FileStep

-----------------------------------------------------------------------------
AdcsTypes ==
    /\ {active, snapshot} \subseteq 1..loaded /\ gains \in 0..MaxLoads
    /\ Len(file) <= 1
    /\ saves \in 0..(SavePeriod - 1) /\ lastGps \in 0..gps
    /\ synced => lastGps > 0

\* "repeated boots off the same stale file (no real GPS save in between) keep
\* producing distinct, monotonically increasing timestamps instead of colliding"
\* (adcs_time.h 25-29): of the boots since the last save, each gives cFE TIME a
\* later start than those before it, wherever in its accesses to the file an
\* earlier one died, if only the file could be opened again.
BootsAdvance ==
    unkept \/ \A i, j \in DOMAIN starts : i < j => starts[i] < starts[j]
=============================================================================
