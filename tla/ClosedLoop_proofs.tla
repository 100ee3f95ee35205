--------------------------- MODULE ClosedLoop_proofs ---------------------------
(***************************************************************************)
(* The loop between the Director and 42, for any number of components, any *)
(* queues, any number of ticks and each kind of link: what 42 applies is   *)
(* whole and in its own step, what the Director takes for acknowledged has *)
(* been applied, and the two do not slip; the control trace is a faithful  *)
(* copy; and no queue exceeds its capacity.                                *)
(***************************************************************************)
EXTENDS ClosedLoop, SequenceTheorems, TLAPS

(***************************************************************************)
(* The strengthening.  The two sides alternate over step k of 42, and how  *)
(* far the Director is with it is p: it has not taken the state, has got   *)
(* it, has sent the batch, or 42 has answered and is in step k already.    *)
(* Place a is where 42 is, or was when it went.                            *)
(***************************************************************************)
Progress == {"before", "got", "sent", "answered"}
Places   == {"compute", "publish", "state_ack", "commands", "apply", "answer"}

StateOf(k) == [kind |-> "state", step |-> k]
AckOf(s)   == [kind |-> "ack", step |-> s]
StateAck   == [kind |-> "ack", batch |-> <<>>]
BatchOf(k) == [kind |-> "commands", batch |-> emitted[k]]

\* The places of 42 at which the Director may be at p, by the kind of link.
Meets(p, a) ==
    CASE p = "got"  -> a = "commands" \/ (mode = "text" /\ a = "state_ack")
      [] p = "sent" -> a \in {"commands", "apply", "answer"} \/ (mode = "text" /\ a = "state_ack")
      [] OTHER      -> \/ a = "compute"
                       \/ mode = "shared" /\ a \in {"publish", "commands"}
                       \/ mode = "binary" /\ a = "commands"
                       \/ mode = "text" /\ a = "state_ack"

\* The words of the shared memory.
Words(p, a, k) ==
    /\ seq = IF p = "answered" THEN k - 1 ELSE k
    /\ shm.ackSeq = k - 1
    /\ shm.stateSeq = IF a \in {"compute", "publish"} THEN k - 1 ELSE k
    /\ a # "compute" => shm.state = k
    /\ shm.commandSeq = IF p = "sent" THEN k ELSE k - 1
    /\ p = "sent" => shm.commands = emitted[k]
    /\ p = "answered" /\ shm.status = 0 => applied[k - 1] = <<emitted[k - 1]>>

\* What is on its way through a socket.
Frames(p, a, k) ==
    /\ p = "before" => to42 = <<>> /\ toDir = IF a = "compute" THEN <<>> ELSE <<StateOf(k)>>
    /\ p = "got" => toDir = <<>> /\ to42 = IF a = "state_ack" THEN <<StateAck>> ELSE <<>>
    /\ p = "sent" => /\ toDir = <<>>
                     /\ a = "state_ack" => to42 = <<StateAck, BatchOf(k)>>
                     /\ a = "commands" => to42 = <<BatchOf(k)>>
                     /\ a \in {"apply", "answer"} => to42 = <<>>
    /\ p = "answered" =>
          /\ to42 = <<>>
          /\ \E s \in {0, 1} :
                /\ s = 0 => applied[k - 1] = <<emitted[k - 1]>>
                /\ toDir = IF a = "compute" THEN <<AckOf(s)>> ELSE <<AckOf(s), StateOf(k)>>

\* What has been applied so far, and what the Director knows of it.
Outcome(p, a, k) ==
    /\ committed = IF p = "answered" THEN k - 2 ELSE k - 1
    /\ \A j \in Steps : j <= committed => applied[j] = <<emitted[j]>>
    /\ \A j \in Steps : j < k => applied[j] \in {<<>>, <<emitted[j]>>}
    /\ \A j \in Steps : j > k => applied[j] = <<>>
    /\ a # "answer" => applied[k] = <<>>
    /\ a = "apply" => sim.held = emitted[k]
    /\ a = "answer" => /\ applied[k] \in {<<>>, <<emitted[k]>>}
                       /\ sim.status \in {0, 1}
                       /\ sim.status = 0 => applied[k] = <<emitted[k]>>

Stage(p, a, k) ==
    /\ sim.step = k /\ sim.at \in {a, "gone"} /\ Meets(p, a) /\ (p = "answered" => k > 1)
    /\ IF mode = "shared" THEN Words(p, a, k) ELSE Frames(p, a, k)
    /\ Outcome(p, a, k)

\* Where the Director is.
Here(p, k) ==
    /\ pc \in {"connect", "open", "idle", "inject", "trace", "finish", "join"}
         => p = "before" /\ k = tick + 1
    /\ pc = "state" => p = "before" /\ k = tick
    /\ pc \in Working => p = "got" /\ k = tick /\ context = tick
    /\ pc = "ack" => \/ p = "sent" /\ k = tick
                     \/ p = "answered" /\ k = tick + 1
    /\ pc \in {"terminal", "abort", "abort_join"} /\ connected => p \in {"before", "got"}
    /\ pc \in {"abort", "abort_join"} /\ connected => p = "got" /\ context = k
    /\ k <= tick + 1 /\ (p = "sent" => k = tick)

\* What the components have emitted, and where it is.
Emitted ==
    /\ \A j \in Steps : j > tick => emitted[j] = <<>>
    /\ pc \in {"state", "on_tick", "prepared", "execute", "quiesced", "power", "powered"}
         => emitted[tick] = <<>>
    /\ pc = "actuate" /\ ok => queue = emitted[tick]
    /\ pc \in {"send", "store"} => batch = emitted[tick]
    /\ pc = "store" => mode = "shared" /\ shm.commands = batch

Shapes ==
    /\ mode \in {"shared", "binary", "text"} /\ tick \in 0..Ticks
    /\ DOMAIN emitted = Steps /\ DOMAIN applied = Steps
    /\ DOMAIN sim = {"step", "at", "held", "status"}
    /\ DOMAIN shm = {"stateSeq", "state", "commandSeq", "commands", "ackSeq", "status"}

IInv ==
    /\ Shapes /\ Emitted
    /\ \E p \in Progress, a \in Places, k \in Steps : Stage(p, a, k) /\ Here(p, k)

\* What the sequence operators make of one and of two frames.
LEMMA Tuples ==
    ASSUME NEW x, NEW y
    PROVE  /\ Append(<<>>, x) = <<x>> /\ Append(<<x>>, y) = <<x, y>>
           /\ Head(<<x>>) = x /\ Tail(<<x>>) = <<>> /\ Head(<<x, y>>) = x /\ Tail(<<x, y>>) = <<y>>
           /\ <<x>> # <<>> /\ <<x, y>> # <<>>
<1> DEFINE S == {x, y}
<1>1. <<>> \in Seq(S) /\ <<x>> \in Seq(S) /\ <<y>> \in Seq(S) /\ <<x, y>> \in Seq(S)
  OBVIOUS
<1>2. Append(<<>>, x) = <<x>>
  OBVIOUS
<1>3. Append(<<x>>, y) = <<x, y>>
  <2> DEFINE t == Append(<<x>>, y)
  <2>1. t \in Seq(S) /\ Len(t) = 2 /\ t[1] = x /\ t[2] = y
    BY <1>1
  <2>2. \A s1, s2 \in Seq(S) : Len(s1) = Len(s2) /\ (\A i \in 1..Len(s1) : s1[i] = s2[i]) => s1 = s2
    OBVIOUS
  <2>3. Len(<<x, y>>) = 2 /\ <<x, y>>[1] = x /\ <<x, y>>[2] = y
    OBVIOUS
  <2>4. \A i \in 1..2 : i = 1 \/ i = 2
    OBVIOUS
  <2> HIDE DEF t
  <2>5. \A i \in 1..Len(t) : t[i] = <<x, y>>[i]
    BY <2>1, <2>3, <2>4
  <2>6. t = <<x, y>>
    BY <2>1, <2>2, <2>3, <2>5, <1>1
  <2> QED BY <2>6 DEF t
<1>4. Head(<<x>>) = x /\ Head(<<x, y>>) = x
  OBVIOUS
<1>5. Tail(<<x>>) = <<>> 
  OBVIOUS
<1>6. Tail(<<x, y>>) = <<y>>
  OBVIOUS
<1>7. <<x>> # <<>> /\ <<x, y>> # <<>>
  OBVIOUS
<1> QED BY <1>1, <1>2, <1>3, <1>4, <1>5, <1>6, <1>7

\* A step that touches neither the link nor 42 nor the history leaves the stage.
LEMMA StageQuiet ==
    ASSUME NEW p, NEW a, NEW k, Stage(p, a, k),
           UNCHANGED <<mode, seq, shm, toDir, to42, sim, history>>
    PROVE  Stage(p, a, k)'
BY DEF Stage, Meets, Words, Frames, Outcome, BatchOf, StateOf, AckOf, StateAck, history, Steps

LEMMA InitIInv == Init => IInv
<1> SUFFICES ASSUME Init PROVE IInv
    OBVIOUS
<1> USE LoopAssumption
<1>1. Shapes /\ Emitted
      BY DEF Init, Shapes, Emitted, Steps
<1>2. Stage("before", "compute", 1)
      BY DEF Init, Stage, Meets, Words, Frames, Outcome, Steps
<1>3. Here("before", 1)
      BY DEF Init, Here, Working
<1>4. 1 \in Steps
      BY DEF Steps
<1> QED BY <1>1, <1>2, <1>3, <1>4 DEF IInv, Progress, Places

-----------------------------------------------------------------------------
(* The steps that leave the link and 42 alone. *)

LEMMA QuietStep ==
    ASSUME Shapes, NEW p \in Progress, NEW a \in Places, NEW k \in Steps, Stage(p, a, k),
           UNCHANGED <<mode, seq, shm, toDir, to42, sim, history>>,
           tick' \in 0..Ticks, Emitted', Here(p, k)'
    PROVE  IInv'
<1>1. Stage(p, a, k)'
      BY StageQuiet
<1>2. Shapes'
      BY DEF Shapes, history, Steps
<1> QED BY <1>1, <1>2 DEF IInv

\* The Director's own steps.
DirectorQuiet ==
    \/ BeginTick \/ Stop \/ Connect \/ OpenTrace \/ OnTick \/ Prepared \/ Execute \/ Quiesced
    \/ Power \/ Powered \/ Collect \/ Inject \/ TraceTick \/ StartFinish \/ Finish
    \/ StartAbort \/ Abort

LEMMA DirectorSteps ==
    ASSUME Shapes, Emitted, NEW p \in Progress, NEW a \in Places, NEW k \in Steps,
           Stage(p, a, k), Here(p, k), DirectorQuiet
    PROVE  IInv'
<1> USE LoopAssumption DEF Fail, GoTo, RequireEmpty, Steps
<1> USE DEF Shapes, Emitted, Here, Working
<1>1. CASE BeginTick
      <2>1. UNCHANGED <<mode, seq, shm, toDir, to42, sim, history>> /\ tick' \in 0..Ticks
            BY <1>1 DEF BeginTick, link, director, tracing, history
      <2>2. Emitted'
            BY <1>1 DEF BeginTick, link, history
      <2>3. Here(p, k)'
            BY <1>1 DEF BeginTick, link, history
      <2> QED BY <2>1, <2>2, <2>3, QuietStep
<1>2. CASE Stop
      <2>1. UNCHANGED <<mode, seq, shm, toDir, to42, sim, history>> /\ tick' \in 0..Ticks
            BY <1>2 DEF Stop, link, director, tracing, history
      <2>2. Emitted'
            BY <1>2 DEF Stop, link, history
      <2>3. Here(p, k)'
            BY <1>2 DEF Stop, link, history
      <2> QED BY <2>1, <2>2, <2>3, QuietStep
<1>3. CASE Connect
      <2>1. UNCHANGED <<mode, seq, shm, toDir, to42, sim, history>> /\ tick' \in 0..Ticks
            BY <1>3 DEF Connect, link, director, tracing, history
      <2>2. Emitted'
            BY <1>3 DEF Connect, link, history
      <2>3. Here(p, k)'
            BY <1>3 DEF Connect, link, history
      <2> QED BY <2>1, <2>2, <2>3, QuietStep
<1>4. CASE OpenTrace
      <2>1. UNCHANGED <<mode, seq, shm, toDir, to42, sim, history>> /\ tick' \in 0..Ticks
            BY <1>4 DEF OpenTrace, link, director, tracing, history
      <2>2. Emitted'
            BY <1>4 DEF OpenTrace, link, history
      <2>3. Here(p, k)'
            BY <1>4 DEF OpenTrace, link, history
      <2> QED BY <2>1, <2>2, <2>3, QuietStep
<1>5. CASE OnTick
      <2>1. UNCHANGED <<mode, seq, shm, toDir, to42, sim, history>> /\ tick' \in 0..Ticks
            BY <1>5 DEF OnTick, link, director, tracing, history
      <2>2. Emitted'
            BY <1>5 DEF OnTick, link, history
      <2>3. Here(p, k)'
            BY <1>5 DEF OnTick, link, history
      <2> QED BY <2>1, <2>2, <2>3, QuietStep
<1>6. CASE Prepared
      <2>1. UNCHANGED <<mode, seq, shm, toDir, to42, sim, history>> /\ tick' \in 0..Ticks
            BY <1>6 DEF Prepared, link, director, tracing, history
      <2>2. Emitted'
            BY <1>6 DEF Prepared, link, history
      <2>3. Here(p, k)'
            BY <1>6 DEF Prepared, link, history
      <2> QED BY <2>1, <2>2, <2>3, QuietStep
<1>7. CASE Execute
      <2>1. UNCHANGED <<mode, seq, shm, toDir, to42, sim, history>> /\ tick' \in 0..Ticks
            BY <1>7 DEF Execute, link, director, tracing, history
      <2>2. Emitted'
            BY <1>7 DEF Execute, link, history
      <2>3. Here(p, k)'
            BY <1>7 DEF Execute, link, history
      <2> QED BY <2>1, <2>2, <2>3, QuietStep
<1>8. CASE Quiesced
      <2>1. UNCHANGED <<mode, seq, shm, toDir, to42, sim, history>> /\ tick' \in 0..Ticks
            BY <1>8 DEF Quiesced, link, director, tracing, history
      <2>2. Emitted'
            BY <1>8 DEF Quiesced, link, history
      <2>3. Here(p, k)'
            BY <1>8 DEF Quiesced, link, history
      <2> QED BY <2>1, <2>2, <2>3, QuietStep
<1>9. CASE Power
      <2>1. UNCHANGED <<mode, seq, shm, toDir, to42, sim, history>> /\ tick' \in 0..Ticks
            BY <1>9 DEF Power, link, director, tracing, history
      <2>2. Emitted'
            BY <1>9 DEF Power, link, history
      <2>3. Here(p, k)'
            BY <1>9 DEF Power, link, history
      <2> QED BY <2>1, <2>2, <2>3, QuietStep
<1>10. CASE Powered
      <2>1. UNCHANGED <<mode, seq, shm, toDir, to42, sim, history>> /\ tick' \in 0..Ticks
            BY <1>10 DEF Powered, link, director, tracing, history
      <2>2. Emitted'
            BY <1>10 DEF Powered, link, history
      <2>3. Here(p, k)'
            BY <1>10 DEF Powered, link, history
      <2> QED BY <2>1, <2>2, <2>3, QuietStep
<1>11. CASE Collect
      <2>1. UNCHANGED <<mode, seq, shm, toDir, to42, sim, history>> /\ tick' \in 0..Ticks
            BY <1>11 DEF Collect, link, director, tracing, history
      <2>2. Emitted'
            BY <1>11 DEF Collect, link, history
      <2>3. Here(p, k)'
            BY <1>11 DEF Collect, link, history
      <2> QED BY <2>1, <2>2, <2>3, QuietStep
<1>12. CASE Inject
      <2>1. UNCHANGED <<mode, seq, shm, toDir, to42, sim, history>> /\ tick' \in 0..Ticks
            BY <1>12 DEF Inject, link, director, tracing, history
      <2>2. Emitted'
            BY <1>12 DEF Inject, link, history
      <2>3. Here(p, k)'
            BY <1>12 DEF Inject, link, history
      <2> QED BY <2>1, <2>2, <2>3, QuietStep
<1>13. CASE TraceTick
      <2>1. UNCHANGED <<mode, seq, shm, toDir, to42, sim, history>> /\ tick' \in 0..Ticks
            BY <1>13 DEF TraceTick, link, director, tracing, history, AfterTrace
      <2>2. Emitted'
            BY <1>13 DEF TraceTick, link, history, AfterTrace
      <2>3. Here(p, k)'
            BY <1>13 DEF TraceTick, link, history, AfterTrace
      <2> QED BY <2>1, <2>2, <2>3, QuietStep
<1>14. CASE StartFinish
      <2>1. UNCHANGED <<mode, seq, shm, toDir, to42, sim, history>> /\ tick' \in 0..Ticks
            BY <1>14 DEF StartFinish, link, director, tracing, history, StopWriter
      <2>2. Emitted'
            BY <1>14 DEF StartFinish, link, history, StopWriter
      <2>3. Here(p, k)'
            BY <1>14 DEF StartFinish, link, history, StopWriter
      <2> QED BY <2>1, <2>2, <2>3, QuietStep
<1>15. CASE Finish
      <2>1. UNCHANGED <<mode, seq, shm, toDir, to42, sim, history>> /\ tick' \in 0..Ticks
            BY <1>15 DEF Finish, link, director, tracing, history
      <2>2. Emitted'
            BY <1>15 DEF Finish, link, history
      <2>3. Here(p, k)'
            BY <1>15 DEF Finish, link, history
      <2> QED BY <2>1, <2>2, <2>3, QuietStep
<1>16. CASE StartAbort
      <2>1. UNCHANGED <<mode, seq, shm, toDir, to42, sim, history>> /\ tick' \in 0..Ticks
            BY <1>16 DEF StartAbort, link, director, tracing, history, StopWriter
      <2>2. Emitted'
            BY <1>16 DEF StartAbort, link, history, StopWriter
      <2>3. Here(p, k)'
            BY <1>16 DEF StartAbort, link, history, StopWriter
      <2> QED BY <2>1, <2>2, <2>3, QuietStep
<1>17. CASE Abort
      <2>1. UNCHANGED <<mode, seq, shm, toDir, to42, sim, history>> /\ tick' \in 0..Ticks
            BY <1>17 DEF Abort, link, director, tracing, history
      <2>2. Emitted'
            BY <1>17 DEF Abort, link, history
      <2>3. Here(p, k)'
            BY <1>17 DEF Abort, link, history
      <2> QED BY <2>1, <2>2, <2>3, QuietStep
<1> QED BY <1>1, <1>2, <1>3, <1>4, <1>5, <1>6, <1>7, <1>8, <1>9, <1>10, <1>11, <1>12, <1>13, <1>14,
           <1>15, <1>16, <1>17 DEF DirectorQuiet

\* The writer thread's steps, and what only wakes somebody.
LEMMA WriterSteps ==
    ASSUME Shapes, Emitted, NEW p \in Progress, NEW a \in Places, NEW k \in Steps,
           Stage(p, a, k), Here(p, k), Writer \/ SpuriousWake \/ UNCHANGED vars
    PROVE  IInv'
<1>1. UNCHANGED <<mode, director, queue, link, sim, history>>
      BY DEF Writer, WriterLooks, WriterWrites, WriterFails, SpuriousWake, vars, tracing
<1>2. UNCHANGED <<mode, seq, shm, toDir, to42, sim, history>> /\ tick' \in 0..Ticks
      BY <1>1 DEF director, link, Shapes
<1>3. Emitted'
      BY <1>1 DEF Emitted, director, link, history, Steps
<1>4. Here(p, k)'
      BY <1>1 DEF Here, director, link, Working
<1> QED BY <1>2, <1>3, <1>4, QuietStep

-----------------------------------------------------------------------------
(* The steps of the Director that use the link. *)

\* A state it takes is the one of 42's step, and it has then got it.
LEMMA StateTaken ==
    ASSUME Shapes, NEW p \in {"before", "got"}, NEW a \in Places, NEW k \in Steps, Stage(p, a, k),
           StateArrives, TakeState, UNCHANGED <<mode, sim, history>>
    PROVE  Stage("got", a, k)' /\ context' = k
<1> USE DEF Stage, Meets, Outcome, Places, Steps, history
<1>1. CASE mode = "shared"
      <2>1. a = "commands" /\ context' = k /\ UNCHANGED <<toDir, to42, seq, connected, shm>>
            BY <1>1 DEF Words, StateArrives, WaitEnds, TakeState
      <2>2. Words("got", a, k)'
            BY <1>1, <2>1 DEF Words
      <2> QED BY <1>1, <2>1, <2>2
<1>2. CASE mode # "shared"
      <2>1. p = "before" /\ to42 = <<>> /\ a # "compute" /\ toDir = <<StateOf(k)>>
            BY <1>2 DEF Frames, StateArrives
      <2>2. context' = k /\ toDir' = <<>>
            BY <1>2, <2>1, Tuples DEF TakeState, StateOf
      <2>3. to42' = IF mode = "text" THEN <<StateAck>> ELSE <<>>
            BY <2>1, Tuples DEF TakeState, StateAck
      <2>4. a = IF mode = "text" THEN "state_ack" ELSE "commands"
            BY <1>2, <2>1, mode \in {"shared", "binary", "text"} DEF Shapes
      <2>5. Frames("got", a, k)'
            BY <2>2, <2>3, <2>4 DEF Frames, StateAck
      <2> QED BY <1>2, <2>2, <2>4, <2>5
<1> QED BY <1>1, <1>2

LEMMA FetchStep ==
    ASSUME Shapes, Emitted, NEW p \in Progress, NEW a \in Places, NEW k \in Steps,
           Stage(p, a, k), Here(p, k), FetchState \/ Terminal
    PROVE  IInv'
<1>1. UNCHANGED <<mode, tick, batch, queue, sim, tracing, history>> /\ pc \in {"state", "terminal"}
      /\ pc' \in {"on_tick", "terminal", "abort"}
      BY DEF FetchState, Terminal, Fail, GoTo
<1>2. Emitted' /\ Shapes'
      <2>1. (pc = "state" => emitted[tick] = <<>>) /\ (pc' = "on_tick" => pc = "state")
            BY DEF FetchState, Terminal, Fail, GoTo, Emitted
      <2>2. UNCHANGED shm
            BY DEF FetchState, Terminal, TakeState, LoseLink, link
      <2> QED BY <1>1, <2>1, <2>2 DEF Emitted, Shapes, history, Steps
<1>3. CASE UNCHANGED <<seq, shm, toDir, to42>> /\ ~connected' /\ pc' \in {"terminal", "abort"}
      <2>1. Here(p, k)'
            BY <1>1, <1>3 DEF Here, Working
      <2> QED BY <1>1, <1>2, <1>3, <2>1, QuietStep DEF Shapes
<1>4. CASE connected /\ StateArrives /\ TakeState
      <2>1. p \in {"before", "got"} /\ (pc = "state" => k = tick) /\ k <= tick + 1
            BY <1>1, <1>4 DEF Here
      <2>2. Stage("got", a, k)' /\ context' = k
            BY <1>1, <1>4, <2>1, StateTaken
      <2>3. pc' = "on_tick" => pc = "state"
            BY DEF FetchState, Terminal, Fail, GoTo
      <2>4. Here("got", k)'
            BY <1>1, <2>1, <2>2, <2>3 DEF Here, Working
      <2> QED BY <1>2, <2>2, <2>4 DEF IInv, Progress
<1>5. (UNCHANGED <<seq, shm, toDir, to42>> /\ ~connected' /\ pc' \in {"terminal", "abort"})
      \/ (connected /\ StateArrives /\ TakeState)
      BY DEF FetchState, Terminal, Fail, GoTo, LoseLink, link
<1> QED BY <1>3, <1>4, <1>5

\* The components emit while the Director has got the state of this step.
LEMMA ActuateStep ==
    ASSUME Shapes, Emitted, NEW p \in Progress, NEW a \in Places, NEW k \in Steps,
           Stage(p, a, k), Here(p, k), Actuate
    PROVE  IInv'
<1>0. Ticks \in Nat
      BY LoopAssumption
<1>1. p = "got" /\ k = tick /\ a \in {"commands", "state_ack"}
      BY DEF Actuate, Here, Working, Stage, Meets
<1>2. PICK n \in Emits :
        Enqueue(Emission(n)) /\ emitted' = [emitted EXCEPT ![tick] = @ \o Emission(n)]
      BY DEF Actuate
<1>3. UNCHANGED <<mode, pc, tick, batch, context, link, sim, applied, committed>> /\ pc = "actuate"
      BY DEF Actuate
<1>4. Shapes'
      BY <1>2, <1>3 DEF Shapes, link, Steps
<1>5. /\ \A j \in Steps : j # k => emitted'[j] = emitted[j]
      /\ emitted'[k] = emitted[k] \o Emission(n)
      BY <1>1, <1>2 DEF Shapes, Steps
<1>6. ok' => queue' = queue \o Emission(n) /\ ok
      BY <1>2 DEF Enqueue
<1>7. Emitted'
      <2>1. \A j \in Steps : j > tick' => emitted'[j] = <<>>
            BY <1>0, <1>1, <1>3, <1>5 DEF Emitted, Steps
      <2>2. ok' => queue' = emitted'[tick']
            <3>1. ok' => queue = emitted[tick] /\ queue' = queue \o Emission(n)
                  BY <1>3, <1>6 DEF Emitted
            <3>2. emitted'[tick'] = emitted[tick] \o Emission(n)
                  BY <1>1, <1>3, <1>5
            <3> QED BY <3>1, <3>2
      <2>3. pc' = "actuate"
            BY <1>3
      <2> QED BY <2>1, <2>2, <2>3, Zenon DEF Emitted
<1>8. Stage(p, a, k)'
      <2>1. Outcome(p, a, k)'
            <3>1. committed = k - 1 /\ k \in Int /\ UNCHANGED <<applied, committed, sim>>
                  BY <1>0, <1>1, <1>3 DEF Stage, Outcome, Steps
            <3>2. \A j \in Steps : j <= committed => applied[j] = <<emitted'[j]>>
                  BY <1>0, <1>5, <3>1 DEF Stage, Outcome, Steps
            <3>3. \A j \in Steps : j < k => applied[j] \in {<<>>, <<emitted'[j]>>}
                  BY <1>0, <1>5, <3>1 DEF Stage, Outcome, Steps
            <3>4. (\A j \in Steps : j > k => applied[j] = <<>>) /\ applied[k] = <<>>
                  BY <1>1 DEF Stage, Outcome
            <3> QED BY <1>1, <3>1, <3>2, <3>3, <3>4 DEF Outcome
      <2> QED BY <1>1, <1>3, <2>1 DEF Stage, Meets, Words, Frames, link
<1>9. Here(p, k)'
      BY <1>3 DEF Here, link, Working
<1> QED BY <1>4, <1>7, <1>8, <1>9 DEF IInv

\* A batch that leaves the Director, or is only copied, or is lost with the link.
LEMMA SendStep ==
    ASSUME Shapes, Emitted, NEW p \in Progress, NEW a \in Places, NEW k \in Steps,
           Stage(p, a, k), Here(p, k), SendBatch
    PROVE  IInv'
<1>1. UNCHANGED <<mode, tick, context, batch, sim, history>> /\ pc = "send"
      BY DEF SendBatch
<1>2. p = "got" /\ k = tick /\ batch = emitted[k] /\ context = tick
      BY <1>1 DEF Here, Working, Emitted
<1>3. CASE UNCHANGED <<seq, shm, toDir, to42>> /\ pc' = "terminal"
      <2>1. Emitted'
            BY <1>1, <1>3 DEF Emitted, history, Steps
      <2>2. Here(p, k)'
            BY <1>1, <1>2, <1>3 DEF Here, Working
      <2> QED BY <1>1, <1>3, <2>1, <2>2, QuietStep DEF Shapes
<1>4. CASE mode = "shared" /\ CopyBatch /\ pc' = "store"
      <2>1. Shapes' /\ Emitted'
            BY <1>1, <1>4 DEF Shapes, Emitted, CopyBatch, history, Steps
      <2>2. Stage(p, a, k)'
            BY <1>1, <1>2, <1>4 DEF Stage, Meets, Words, Outcome, CopyBatch, Shapes, history, Steps
      <2>3. Here(p, k)'
            BY <1>1, <1>2, <1>4 DEF Here, Working, CopyBatch
      <2> QED BY <2>1, <2>2, <2>3 DEF IInv
<1>5. CASE mode # "shared" /\ WriteBatch /\ pc' = "ack"
      <2>1. Shapes' /\ Emitted'
            BY <1>1, <1>5 DEF Shapes, Emitted, WriteBatch, history, Steps
      <2>2. a \in {"commands", "state_ack"} /\ toDir = <<>>
            /\ to42 = IF a = "state_ack" THEN <<StateAck>> ELSE <<>>
            BY <1>2, <1>5 DEF Stage, Meets, Frames
      <2>3. to42' = IF a = "state_ack" THEN <<StateAck, BatchOf(k)>> ELSE <<BatchOf(k)>>
            BY <1>2, <1>5, <2>2, Tuples DEF WriteBatch, BatchOf
      <2>4. Frames("sent", a, k)'
            BY <1>1, <1>5, <2>2, <2>3 DEF Frames, WriteBatch, BatchOf, history
      <2>5. Stage("sent", a, k)'
            BY <1>1, <1>2, <1>5, <2>2, <2>4 DEF Stage, Meets, Outcome, history, Steps
      <2>6. Here("sent", k)'
            BY <1>1, <1>2, <1>5 DEF Here, Working, Steps
      <2> QED BY <2>1, <2>5, <2>6 DEF IInv, Progress
<1> QED BY <1>3, <1>4, <1>5 DEF SendBatch, GoTo, Fail, LoseLink, link

LEMMA StoreStep ==
    ASSUME Shapes, Emitted, NEW p \in Progress, NEW a \in Places, NEW k \in Steps,
           Stage(p, a, k), Here(p, k), StoreSequence
    PROVE  IInv'
<1>1. /\ UNCHANGED <<mode, tick, batch, sim, history, seq>> /\ pc = "store" /\ pc' = "ack"
      /\ shm' = [shm EXCEPT !.commandSeq = seq] /\ mode = "shared" /\ shm.commands = batch
      BY DEF StoreSequence, GoTo, Emitted
<1>2. p = "got" /\ k = tick /\ batch = emitted[k] /\ seq = k
      BY <1>1 DEF Here, Working, Emitted, Stage, Words
<1>3. Shapes' /\ Emitted'
      BY <1>1 DEF Shapes, Emitted, history, Steps
<1>4. Words("sent", a, k)'
      BY <1>1, <1>2 DEF Stage, Words, Shapes, history
<1>5. Stage("sent", a, k)'
      BY <1>1, <1>2, <1>4 DEF Stage, Meets, Outcome, history, Steps
<1>6. Here("sent", k)'
      BY <1>1, <1>2 DEF Here, Working, Steps
<1> QED BY <1>3, <1>5, <1>6 DEF IInv, Progress

\* Only the acknowledgement of this batch is taken, and then 42 has applied it.
LEMMA AckStep ==
    ASSUME Shapes, Emitted, NEW p \in Progress, NEW a \in Places, NEW k \in Steps,
           Stage(p, a, k), Here(p, k), AwaitAck
    PROVE  IInv'
<1>0. Ticks \in Nat /\ tick \in Int /\ k \in Int
      BY LoopAssumption DEF Shapes, Steps
<1>1. UNCHANGED <<mode, tick, batch, sim, emitted, applied, shm>> /\ pc = "ack"
      /\ pc' \in {"inject", "terminal"}
      BY DEF AwaitAck, TakeAck, LoseLink, GoTo, Fail
<1>2. Shapes' /\ Emitted'
      BY <1>1 DEF Shapes, Emitted, Steps
<1>3. CASE AckFails /\ LoseLink /\ Fail /\ UNCHANGED committed
      <2>1. Here(p, k)'
            BY <1>1, <1>3 DEF Here, LoseLink, Fail, Working
      <2> QED BY <1>1, <1>2, <1>3, <2>1, QuietStep DEF Shapes, LoseLink, history
<1>4. CASE AckArrives /\ TakeAck /\ committed' = tick /\ GoTo("inject")
      <2>1. p = "answered" /\ k = tick + 1 /\ applied[k - 1] = <<emitted[k - 1]>>
            /\ (mode = "shared" => seq = k - 1)
            /\ (mode # "shared" => to42 = <<>> /\ toDir' = IF a = "compute" THEN <<>> ELSE <<StateOf(k)>>)
            <3>1. CASE mode = "shared"
                  BY <1>0, <1>1, <1>4, <3>1 DEF AckArrives, WaitEnds, Here, Stage, Words, Working
            <3>2. CASE mode # "shared"
                  <4>1. p = "answered" /\ k = tick + 1 /\ to42 = <<>>
                        BY <1>1, <1>4, <3>2 DEF AckArrives, Here, Stage, Frames, Working
                  <4>2. PICK s \in {0, 1} :
                          /\ s = 0 => applied[k - 1] = <<emitted[k - 1]>>
                          /\ toDir = IF a = "compute" THEN <<AckOf(s)>> ELSE <<AckOf(s), StateOf(k)>>
                        BY <3>2, <4>1 DEF Stage, Frames
                  <4>3. Head(toDir) = AckOf(s) /\ Tail(toDir) = IF a = "compute" THEN <<>> ELSE <<StateOf(k)>>
                        BY <4>2, Tuples
                  <4>4. s = 0
                        BY <1>4, <3>2, <4>3 DEF AckArrives, AckOf
                  <4> QED BY <1>4, <3>2, <4>1, <4>2, <4>3, <4>4 DEF TakeAck
            <3> QED BY <3>1, <3>2
      <2>2. k - 1 \in Steps /\ committed' = k - 1
            BY <1>0, <1>4, <2>1 DEF Stage, Steps
      <2>3. Outcome("before", a, k)'
            <3>1. \A j \in Steps : j <= k - 1 => applied[j] = <<emitted[j]>>
                  BY <1>0, <2>1, <2>2 DEF Stage, Outcome, Steps
            <3> QED BY <1>0, <1>1, <2>1, <2>2, <3>1 DEF Stage, Outcome, Steps
      <2>4. IF mode = "shared" THEN Words("before", a, k)' ELSE Frames("before", a, k)'
            <3>1. mode = "shared" => Words("before", a, k)'
                  BY <1>0, <1>1, <1>4, <2>1 DEF Stage, Words, TakeAck
            <3>2. mode # "shared" => Frames("before", a, k)'
                  BY <1>1, <1>4, <2>1 DEF Frames, TakeAck, StateOf
            <3> QED BY <3>1, <3>2
      <2>5. Stage("before", a, k)'
            BY <1>1, <2>1, <2>3, <2>4 DEF Stage, Meets
      <2>6. Here("before", k)'
            BY <1>0, <1>1, <1>4, <2>1 DEF Here, GoTo, Working, Steps
      <2> QED BY <1>2, <2>5, <2>6 DEF IInv, Progress
<1> QED BY <1>3, <1>4 DEF AwaitAck

-----------------------------------------------------------------------------
(* The steps of 42. *)

\* 42 leaves the Director's variables alone.
LEMMA Untouched ==
    ASSUME Shapes, Emitted, NEW p \in Progress, NEW k \in Steps, Here(p, k),
           UNCHANGED <<mode, director, queue, connected, emitted>>, shm'.commands = shm.commands
    PROVE  Emitted' /\ Here(p, k)'
BY DEF Emitted, Here, Working, director, Steps

LEMMA ComputeStep ==
    ASSUME Shapes, Emitted, NEW p \in Progress, NEW a \in Places, NEW k \in Steps,
           Stage(p, a, k), Here(p, k), Compute \/ Publish
    PROVE  IInv'
<1>1. /\ UNCHANGED <<mode, director, queue, connected, seq, to42, history>>
      /\ shm'.commands = shm.commands
      BY DEF Compute, Publish, Shapes
<1>2. Emitted' /\ Here(p, k)'
      BY <1>1, Untouched DEF history
<1>3. Shapes'
      BY <1>1 DEF Compute, Publish, Shapes, director, history, Steps
<1>4. p \in {"before", "answered"} /\ sim.step = k /\ a \in {"compute", "publish"}
      BY DEF Compute, Publish, Stage, Meets, Places, Progress
<1>5. PICK b \in Places :
        /\ sim' = [sim EXCEPT !.at = b]
        /\ b = IF mode # "shared" THEN IF mode = "text" THEN "state_ack" ELSE "commands"
               ELSE IF a = "compute" THEN "publish" ELSE "commands"
      BY <1>4 DEF Compute, Publish, Stage, Meets, Places
<1>6. sim'.step = k /\ sim'.at = b /\ sim'.held = sim.held /\ sim'.status = sim.status
      BY <1>4, <1>5 DEF Shapes
<1>7. Meets(p, b)'
      BY <1>1, <1>4, <1>5 DEF Meets, Shapes
<1>8. CASE mode = "shared"
      <2>1. Words(p, b, k)'
            <3>1. CASE a = "compute"
                  BY <1>1, <1>4, <1>8, <3>1, <1>5 DEF Compute, Publish, Stage, Words, Shapes, history
            <3>2. CASE a = "publish"
                  BY <1>1, <1>4, <1>8, <3>2, <1>5 DEF Compute, Publish, Stage, Words, Shapes, history
            <3> QED BY <1>4, <3>1, <3>2
      <2>2. Outcome(p, b, k)'
            BY <1>1, <1>4, <1>5, <1>6 DEF Stage, Outcome, history, Steps
      <2>3. Stage(p, b, k)'
            BY <1>1, <1>6, <1>7, <1>8, <2>1, <2>2 DEF Stage
      <2> QED BY <1>2, <1>3, <1>6, <2>3 DEF IInv
<1>9. CASE mode # "shared"
      <2>1. a = "compute" /\ toDir' = Append(toDir, StateOf(k))
            BY <1>4, <1>9 DEF Compute, Publish, Stage, Meets, StateOf
      <2>2. Frames(p, b, k)'
            <3>1. CASE p = "before"
                  <4>1. toDir' = <<StateOf(k)>> /\ to42 = <<>>
                        BY <1>9, <2>1, <3>1, Tuples DEF Stage, Frames
                  <4> QED BY <1>1, <1>5, <1>9, <3>1, <4>1 DEF Frames, StateOf
            <3>2. CASE p = "answered"
                  <4>1. PICK s \in {0, 1} :
                          (s = 0 => applied[k - 1] = <<emitted[k - 1]>>) /\ toDir = <<AckOf(s)>>
                        BY <1>9, <2>1, <3>2 DEF Stage, Frames
                  <4>2. toDir' = <<AckOf(s), StateOf(k)>>
                        BY <2>1, <4>1, Tuples
                  <4>3. to42 = <<>>
                        BY <1>9, <3>2 DEF Stage, Frames
                  <4> QED BY <1>1, <1>5, <1>9, <3>2, <4>1, <4>2, <4>3 DEF Frames, StateOf, AckOf, history
            <3> QED BY <1>4, <3>1, <3>2
      <2>3. Outcome(p, b, k)'
            BY <1>1, <1>4, <1>5, <1>6 DEF Stage, Outcome, history, Steps
      <2>4. Stage(p, b, k)'
            BY <1>1, <1>6, <1>7, <1>9, <2>2, <2>3 DEF Stage
      <2> QED BY <1>2, <1>3, <1>6, <2>4 DEF IInv
<1> QED BY <1>8, <1>9

LEMMA TakeStep ==
    ASSUME Shapes, Emitted, NEW p \in Progress, NEW a \in Places, NEW k \in Steps,
           Stage(p, a, k), Here(p, k), TakeStateAck \/ TakeCommands
    PROVE  IInv'
<1>1. UNCHANGED <<mode, director, queue, connected, seq, shm, toDir, history>>
      BY DEF TakeStateAck, TakeCommands
<1>2. Emitted' /\ Here(p, k)'
      BY <1>1, Untouched DEF history
<1>3. Shapes'
      BY <1>1 DEF TakeStateAck, TakeCommands, Shapes, director, history, Steps
<1>4. CASE TakeStateAck
      <2>1. a = "state_ack" /\ mode # "shared" /\ p \in {"got", "sent"} /\ sim.step = k
            BY <1>4 DEF TakeStateAck, Stage, Meets, Frames, Places, Progress
      <2>2. /\ p = "got" => to42' = <<>>
            /\ p = "sent" => to42' = <<BatchOf(k)>>
            <3>1. to42 = IF p = "got" THEN <<StateAck>> ELSE <<StateAck, BatchOf(k)>>
                  BY <2>1 DEF Stage, Frames
            <3> QED BY <1>4, <3>1, Tuples DEF TakeStateAck
      <2>3. sim'.step = k /\ sim'.at = "commands" /\ sim'.held = sim.held /\ sim'.status = sim.status
            BY <1>4, <2>1 DEF TakeStateAck, Shapes
      <2>4. Frames(p, "commands", k)'
            BY <1>1, <2>1, <2>2 DEF Stage, Frames, BatchOf, history
      <2>5. Outcome(p, "commands", k)'
            BY <1>1, <2>1, <2>3 DEF Stage, Outcome, history, Steps
      <2>6. Stage(p, "commands", k)'
            BY <1>1, <2>1, <2>3, <2>4, <2>5 DEF Stage, Meets
      <2> QED BY <1>2, <1>3, <2>6 DEF IInv, Places
<1>5. CASE TakeCommands
      <2>1. a = "commands" /\ p = "sent" /\ sim.step = k
            <3>1. a = "commands" /\ sim.step = k /\ k \in Int
                  BY <1>5, LoopAssumption DEF TakeCommands, Stage, Steps
            <3> QED BY <1>5, <3>1 DEF TakeCommands, Stage, Meets, Words, Frames, Progress
      <2>2. sim'.step = k /\ sim'.at = "apply" /\ sim'.status = sim.status /\ sim'.held = emitted[k]
            <3>1. CASE mode = "shared"
                  BY <1>5, <2>1, <3>1 DEF TakeCommands, Shapes, Stage, Words
            <3>2. CASE mode # "shared"
                  <4>1. Head(to42) = BatchOf(k)
                        BY <2>1, <3>2, Tuples DEF Stage, Frames
                  <4>2. sim' = [sim EXCEPT !.at = "apply", !.held = BatchOf(k).batch]
                        BY <1>5, <3>2, <4>1 DEF TakeCommands
                  <4>3. BatchOf(k).batch = emitted[k]
                        BY DEF BatchOf
                  <4> QED BY <2>1, <4>2, <4>3 DEF Shapes
            <3> QED BY <3>1, <3>2
      <2>3. mode # "shared" => to42' = <<>>
            BY <1>5, <2>1, Tuples DEF TakeCommands, Stage, Frames
      <2>4. IF mode = "shared" THEN Words(p, "apply", k)' ELSE Frames(p, "apply", k)'
            BY <1>1, <2>1, <2>3 DEF Stage, Words, Frames, history
      <2>5. Outcome(p, "apply", k)'
            BY <1>1, <2>1, <2>2 DEF Stage, Outcome, history, Steps
      <2>6. Stage(p, "apply", k)'
            BY <1>1, <2>1, <2>2, <2>4, <2>5 DEF Stage, Meets
      <2> QED BY <1>2, <1>3, <2>6 DEF IInv, Places
<1> QED BY <1>4, <1>5

LEMMA ApplyStep ==
    ASSUME Shapes, Emitted, NEW p \in Progress, NEW a \in Places, NEW k \in Steps,
           Stage(p, a, k), Here(p, k), Apply
    PROVE  IInv'
<1>0. k \in Int
      BY LoopAssumption DEF Steps
<1>1. UNCHANGED <<mode, director, queue, link, emitted, committed>>
      BY DEF Apply
<1>2. Emitted' /\ Here(p, k)'
      BY <1>1, Untouched DEF link
<1>3. a = "apply" /\ p = "sent" /\ sim.step = k /\ applied[k] = <<>> /\ sim.held = emitted[k]
      BY DEF Apply, Stage, Meets, Outcome, Places, Progress
<1>4. PICK s \in {0, 1} :
        /\ sim' = [sim EXCEPT !.at = "answer", !.status = s]
        /\ applied' = IF s = 0 THEN [applied EXCEPT ![k] = <<emitted[k]>>] ELSE applied
      <2>1. Append(applied[k], emitted[k]) = <<emitted[k]>>
            BY <1>3, Tuples
      <2>2. Apply => \/ /\ sim' = [sim EXCEPT !.at = "answer", !.status = 0]
                        /\ applied' = [applied EXCEPT ![k] = <<emitted[k]>>]
                     \/ sim' = [sim EXCEPT !.at = "answer", !.status = 1] /\ applied' = applied
            BY <1>3, <2>1 DEF Apply
      <2> QED BY <2>2
<1>5. sim'.step = k /\ sim'.at = "answer" /\ sim'.held = sim.held /\ sim'.status = s
      BY <1>3, <1>4 DEF Shapes
<1>6. /\ \A j \in Steps : j # k => applied'[j] = applied[j]
      /\ applied'[k] = IF s = 0 THEN <<emitted[k]>> ELSE <<>>
      BY <1>3, <1>4 DEF Shapes
<1>7. Shapes'
      BY <1>1, <1>4 DEF Shapes, director, link, Steps
<1>8. Outcome(p, "answer", k)'
      BY <1>0, <1>1, <1>3, <1>5, <1>6 DEF Stage, Outcome, Steps
<1>9. IF mode = "shared" THEN Words(p, "answer", k)' ELSE Frames(p, "answer", k)'
      BY <1>1, <1>3 DEF Stage, Words, Frames, link
<1>10. Stage(p, "answer", k)'
      BY <1>1, <1>3, <1>5, <1>8, <1>9 DEF Stage, Meets
<1> QED BY <1>2, <1>7, <1>10 DEF IInv, Places

\* With its answer 42 goes on to the next step; there is room for one, because
\* the Director has sent the batch of a tick.
LEMMA AnswerStep ==
    ASSUME Shapes, Emitted, NEW p \in Progress, NEW a \in Places, NEW k \in Steps,
           Stage(p, a, k), Here(p, k), Answer
    PROVE  IInv'
<1>0. Ticks \in Nat /\ k \in Int /\ tick \in Int
      BY LoopAssumption DEF Steps, Shapes
<1>1. /\ UNCHANGED <<mode, director, queue, connected, seq, to42, history>>
      /\ shm'.commands = shm.commands
      BY DEF Answer, Shapes
<1>2. a = "answer" /\ p = "sent" /\ sim.step = k /\ k <= tick /\ k + 1 \in Steps
      BY <1>0 DEF Answer, Stage, Meets, Here, Places, Progress, Shapes, Steps
<1>3. sim' = [sim EXCEPT !.at = "compute", !.step = k + 1, !.held = <<>>]
      BY <1>2 DEF Answer
<1>4. sim'.step = k + 1 /\ sim'.at = "compute"
      BY <1>3 DEF Shapes
<1>5. Shapes'
      BY <1>1, <1>3 DEF Answer, Shapes, director, history, Steps
<1>6. Emitted'
      BY <1>1 DEF Emitted, director, history, Steps
<1>7. Here("answered", k + 1)'
      BY <1>0, <1>1, <1>2 DEF Here, Working, director, Steps
<1>8. Outcome("answered", "compute", k + 1)'
      BY <1>0, <1>1, <1>2 DEF Stage, Outcome, history, Steps
<1>9. sim.status \in {0, 1} /\ (sim.status = 0 => applied[k] = <<emitted[k]>>)
      BY <1>2 DEF Stage, Outcome
<1>10. CASE mode = "shared"
      <2>1. shm' = [shm EXCEPT !.status = sim.status, !.ackSeq = k]
            BY <1>2, <1>10 DEF Answer
      <2>2. Words("answered", "compute", k + 1)'
            BY <1>0, <1>1, <1>2, <1>9, <1>10, <2>1 DEF Stage, Words, Shapes, history
      <2>3. Stage("answered", "compute", k + 1)'
            BY <1>0, <1>1, <1>2, <1>4, <1>8, <1>10, <2>2 DEF Stage, Meets, Steps
      <2> QED BY <1>2, <1>5, <1>6, <1>7, <2>3 DEF IInv, Progress, Places
<1>11. CASE mode # "shared"
      <2>1. toDir = <<>> /\ to42 = <<>>
            BY <1>2, <1>11 DEF Stage, Frames
      <2>2. toDir' = <<AckOf(sim.status)>>
            BY <1>11, <2>1, Tuples DEF Answer, AckOf
      <2>3. Frames("answered", "compute", k + 1)'
            <3>1. (k + 1) - 1 = k
                  BY <1>0
            <3> QED BY <1>1, <1>9, <2>1, <2>2, <3>1 DEF Frames, AckOf, history
      <2>4. Stage("answered", "compute", k + 1)'
            BY <1>0, <1>1, <1>2, <1>4, <1>8, <1>11, <2>3 DEF Stage, Meets, Steps
      <2> QED BY <1>2, <1>5, <1>6, <1>7, <2>4 DEF IInv, Progress, Places
<1> QED BY <1>10, <1>11

LEMMA VanishStep ==
    ASSUME Shapes, Emitted, NEW p \in Progress, NEW a \in Places, NEW k \in Steps,
           Stage(p, a, k), Here(p, k), Vanish
    PROVE  IInv'
<1>1. UNCHANGED <<mode, director, queue, link, history>> /\ sim' = [sim EXCEPT !.at = "gone"]
      BY DEF Vanish
<1>2. Emitted' /\ Here(p, k)'
      BY <1>1, Untouched DEF history, link
<1>3. Shapes'
      BY <1>1 DEF Shapes, director, link, history, Steps
<1>4. sim'.step = sim.step /\ sim'.at = "gone" /\ sim'.held = sim.held /\ sim'.status = sim.status
      BY <1>1 DEF Shapes
<1>5. Outcome(p, a, k)'
      BY <1>1, <1>4 DEF Stage, Outcome, history, Steps
<1>6. IF mode = "shared" THEN Words(p, a, k)' ELSE Frames(p, a, k)'
      BY <1>1 DEF Stage, Words, Frames, BatchOf, link, history
<1>7. Stage(p, a, k)'
      BY <1>1, <1>4, <1>5, <1>6 DEF Stage, Meets
<1> QED BY <1>2, <1>3, <1>7 DEF IInv

-----------------------------------------------------------------------------
(* The strengthening is inductive. *)

LEMMA NextIInv == IInv /\ [Next]_vars => IInv'
<1> SUFFICES ASSUME IInv, [Next]_vars PROVE IInv'
    OBVIOUS
<1>1. Shapes /\ Emitted
      BY DEF IInv
<1>2. PICK p \in Progress, a \in Places, k \in Steps : Stage(p, a, k) /\ Here(p, k)
      BY DEF IInv
<1>3. CASE DirectorQuiet
      BY <1>1, <1>2, <1>3, DirectorSteps
<1>4. CASE Writer \/ SpuriousWake \/ UNCHANGED vars
      BY <1>1, <1>2, <1>4, WriterSteps
<1>5. CASE FetchState \/ Terminal
      BY <1>1, <1>2, <1>5, FetchStep
<1>6. CASE Actuate
      BY <1>1, <1>2, <1>6, ActuateStep
<1>7. CASE SendBatch
      BY <1>1, <1>2, <1>7, SendStep
<1>8. CASE StoreSequence
      BY <1>1, <1>2, <1>8, StoreStep
<1>9. CASE AwaitAck
      BY <1>1, <1>2, <1>9, AckStep
<1>10. CASE Compute \/ Publish
      BY <1>1, <1>2, <1>10, ComputeStep
<1>11. CASE TakeStateAck \/ TakeCommands
      BY <1>1, <1>2, <1>11, TakeStep
<1>12. CASE Apply
      BY <1>1, <1>2, <1>12, ApplyStep
<1>13. CASE Answer
      BY <1>1, <1>2, <1>13, AnswerStep
<1>14. CASE Vanish
      BY <1>1, <1>2, <1>14, VanishStep
<1> QED BY <1>3, <1>4, <1>5, <1>6, <1>7, <1>8, <1>9, <1>10, <1>11, <1>12, <1>13, <1>14
        DEF Next, Callback, FortyTwo, DirectorQuiet

LEMMA Inductive == Spec => []IInv
BY InitIInv, NextIInv, PTL DEF Spec

-----------------------------------------------------------------------------
(* The control trace: what has been handed to it, and where that is. *)

Commands == Nat \X Nat \X Nat
Records  == [tick : Nat, state : Nat, batch : Seq(Commands)]

\* The record of tick i.
RecordOf(i) == [tick |-> i, state |-> i, batch |-> emitted[i]]

Handed == disk \o local \o trace.queue

\* Inside a tick.
Underway == Working \cup {"state", "ack", "inject", "trace"}

TraceTypes ==
    /\ at \in 0..(Components + 1) /\ emitted \in [Steps -> Seq(Commands)]
    /\ disk \in Seq(Records) /\ local \in Seq(Records) /\ trace.queue \in Seq(Records)
    /\ DOMAIN trace = {"queue", "stop", "error", "opened", "timed"}

\* The Director's batch, from when it is sent to when it is handed over.
Carries == pc \in {"ack", "inject", "trace"} => batch = emitted[tick] /\ context = tick

\* A writer that has ended without an error was stopped, and has drained.
WriterPlace ==
    /\ ~trace.opened => wpc = "ended"
    /\ wpc = "look" => local = <<>>
    /\ wpc = "ended" /\ trace.opened /\ ~trace.error
         => trace.stop /\ trace.queue = <<>> /\ local = <<>>

Completed ==
    file = "complete" => /\ Len(disk) = committed /\ ~trace.opened /\ tick = Ticks
                         /\ pc \in {"idle", "terminal", "abort", "abort_join", "done"}

\* The first n ticks have been handed to the trace.
FirstTicks(n) == Len(Handed) = n /\ \A i \in 1..n : Handed[i] = RecordOf(i)

\* How many that are, from where the Director is.
TracePlace(n) ==
    /\ pc \in {"connect", "open"} => n = 0 /\ ~trace.opened /\ ~trace.stop /\ tick = 0
    /\ pc = "idle" => (n = 0 /\ ~trace.opened) \/ (n = tick /\ (trace.opened \/ tick = Ticks))
    /\ pc \in Underway => tick >= 1 /\ IF trace.opened THEN n = tick - 1 ELSE n = 0
    /\ pc \in {"finish", "join"} => tick = Ticks /\ IF trace.opened THEN n = tick ELSE n = 0
    /\ pc = "join" => trace.opened
    /\ trace.opened /\ pc \in Underway \cup {"idle", "finish"} => ~trace.stop

TraceInv ==
    /\ TraceTypes /\ Carries /\ WriterPlace /\ Completed
    /\ \E n \in 0..Ticks : FirstTicks(n) /\ TracePlace(n)

\* What the trace needs to know of the loop.
LEMMA LoopFacts ==
    ASSUME IInv
    PROVE  /\ Ticks \in Nat /\ Components \in Nat /\ tick \in 0..Ticks /\ DOMAIN emitted = Steps
           /\ pc \in Working => context = tick
           /\ pc \in {"send", "store"} => batch = emitted[tick]
           /\ pc \in {"idle", "inject", "trace", "finish", "join"} => committed = tick
           /\ pc = "actuate" => tick \in Steps
<1>0. Ticks \in Nat /\ Components \in Nat
      BY LoopAssumption
<1>1. PICK p \in Progress, a \in Places, k \in Steps : Stage(p, a, k) /\ Here(p, k)
      BY DEF IInv
<1>2. pc \in {"idle", "inject", "trace", "finish", "join"} => committed = tick
      BY <1>0, <1>1 DEF IInv, Shapes, Stage, Here, Outcome, Steps
<1>3. pc \in Working => context = tick /\ k = tick
      BY <1>1 DEF Here
<1> QED BY <1>0, <1>1, <1>2, <1>3 DEF IInv, Shapes, Emitted, Working

LEMMA TraceInitially == Init => TraceInv
<1> SUFFICES ASSUME Init PROVE TraceInv
    OBVIOUS
<1>1. Ticks \in Nat /\ Components \in Nat
      BY LoopAssumption
<1>2. TraceTypes
      BY <1>1 DEF Init, TraceTypes, Steps
<1>3. FirstTicks(0) /\ TracePlace(0)
      BY <1>1 DEF Init, FirstTicks, Handed, TracePlace, Underway, Working
<1> QED BY <1>1, <1>2, <1>3 DEF TraceInv, Init, Carries, WriterPlace, Completed

\* A step that leaves the trace, its writer and the history alone.
LEMMA TraceQuiet ==
    ASSUME TraceInv, NEW n \in 0..Ticks, FirstTicks(n), UNCHANGED <<tracing, emitted>>,
           at' \in 0..(Components + 1), Carries', Completed', TracePlace(n)'
    PROVE  TraceInv'
<1>1. TraceTypes'
      BY DEF TraceInv, TraceTypes, tracing, Steps
<1>2. WriterPlace'
      BY DEF TraceInv, WriterPlace, tracing
<1>3. FirstTicks(n)'
      BY DEF FirstTicks, Handed, RecordOf, tracing
<1> QED BY <1>1, <1>2, <1>3 DEF TraceInv

Elsewhere ==
    \/ BeginTick \/ Stop \/ Connect \/ FetchState \/ OnTick \/ Prepared \/ Execute \/ Quiesced
    \/ Power \/ Powered \/ Collect \/ SendBatch \/ StoreSequence \/ Inject \/ Terminal

LEMMA ElsewhereSteps ==
    ASSUME IInv, TraceInv, Elsewhere
    PROVE  TraceInv'
<1>1. PICK n \in 0..Ticks : FirstTicks(n) /\ TracePlace(n)
      BY DEF TraceInv
<1>2. UNCHANGED <<tracing, emitted, committed>>
      BY DEF Elsewhere, BeginTick, Stop, Connect, FetchState, OnTick, Prepared, Execute, Quiesced,
         Power, Powered, Collect, SendBatch, StoreSequence, Inject, Terminal, history
<1>3. TraceTypes /\ Carries /\ Completed
      BY DEF TraceInv
<1>4. /\ Ticks \in Nat /\ Components \in Nat /\ tick \in 0..Ticks
      /\ pc \in Working => context = tick
      /\ pc \in {"send", "store"} => batch = emitted[tick]
      BY LoopFacts
<1> USE DEF Fail, GoTo, RequireEmpty, Underway, Working, TraceTypes, tracing, Carries, Completed
<1>5. CASE BeginTick
      <2>1. at' \in 0..(Components + 1) /\ Carries'
            BY <1>2, <1>3, <1>4, <1>5 DEF BeginTick
      <2>2. Completed'
            BY <1>2, <1>3, <1>4, <1>5 DEF BeginTick
      <2>3. TracePlace(n)'
            BY <1>1, <1>2, <1>4, <1>5 DEF BeginTick, TracePlace
      <2> QED BY <1>1, <1>2, <2>1, <2>2, <2>3, TraceQuiet
<1>6. CASE Stop
      <2>1. at' \in 0..(Components + 1) /\ Carries'
            BY <1>2, <1>3, <1>4, <1>6 DEF Stop
      <2>2. Completed'
            BY <1>2, <1>3, <1>4, <1>6 DEF Stop
      <2>3. TracePlace(n)'
            BY <1>1, <1>2, <1>4, <1>6 DEF Stop, TracePlace
      <2> QED BY <1>1, <1>2, <2>1, <2>2, <2>3, TraceQuiet
<1>7. CASE Connect
      <2>1. at' \in 0..(Components + 1) /\ Carries'
            BY <1>2, <1>3, <1>4, <1>7 DEF Connect
      <2>2. Completed'
            BY <1>2, <1>3, <1>4, <1>7 DEF Connect
      <2>3. TracePlace(n)'
            BY <1>1, <1>2, <1>4, <1>7 DEF Connect, TracePlace
      <2> QED BY <1>1, <1>2, <2>1, <2>2, <2>3, TraceQuiet
<1>8. CASE FetchState
      <2>1. at' \in 0..(Components + 1) /\ Carries'
            BY <1>2, <1>3, <1>4, <1>8 DEF FetchState
      <2>2. Completed'
            BY <1>2, <1>3, <1>4, <1>8 DEF FetchState
      <2>3. TracePlace(n)'
            BY <1>1, <1>2, <1>4, <1>8 DEF FetchState, TracePlace
      <2> QED BY <1>1, <1>2, <2>1, <2>2, <2>3, TraceQuiet
<1>9. CASE OnTick
      <2>1. at' \in 0..(Components + 1) /\ Carries'
            BY <1>2, <1>3, <1>4, <1>9 DEF OnTick
      <2>2. Completed'
            BY <1>2, <1>3, <1>4, <1>9 DEF OnTick
      <2>3. TracePlace(n)'
            BY <1>1, <1>2, <1>4, <1>9 DEF OnTick, TracePlace
      <2> QED BY <1>1, <1>2, <2>1, <2>2, <2>3, TraceQuiet
<1>10. CASE Prepared
      <2>1. at' \in 0..(Components + 1) /\ Carries'
            BY <1>2, <1>3, <1>4, <1>10 DEF Prepared
      <2>2. Completed'
            BY <1>2, <1>3, <1>4, <1>10 DEF Prepared
      <2>3. TracePlace(n)'
            BY <1>1, <1>2, <1>4, <1>10 DEF Prepared, TracePlace
      <2> QED BY <1>1, <1>2, <2>1, <2>2, <2>3, TraceQuiet
<1>11. CASE Execute
      <2>1. at' \in 0..(Components + 1) /\ Carries'
            BY <1>2, <1>3, <1>4, <1>11 DEF Execute
      <2>2. Completed'
            BY <1>2, <1>3, <1>4, <1>11 DEF Execute
      <2>3. TracePlace(n)'
            BY <1>1, <1>2, <1>4, <1>11 DEF Execute, TracePlace
      <2> QED BY <1>1, <1>2, <2>1, <2>2, <2>3, TraceQuiet
<1>12. CASE Quiesced
      <2>1. at' \in 0..(Components + 1) /\ Carries'
            BY <1>2, <1>3, <1>4, <1>12 DEF Quiesced
      <2>2. Completed'
            BY <1>2, <1>3, <1>4, <1>12 DEF Quiesced
      <2>3. TracePlace(n)'
            BY <1>1, <1>2, <1>4, <1>12 DEF Quiesced, TracePlace
      <2> QED BY <1>1, <1>2, <2>1, <2>2, <2>3, TraceQuiet
<1>13. CASE Power
      <2>1. at' \in 0..(Components + 1) /\ Carries'
            BY <1>2, <1>3, <1>4, <1>13 DEF Power
      <2>2. Completed'
            BY <1>2, <1>3, <1>4, <1>13 DEF Power
      <2>3. TracePlace(n)'
            BY <1>1, <1>2, <1>4, <1>13 DEF Power, TracePlace
      <2> QED BY <1>1, <1>2, <2>1, <2>2, <2>3, TraceQuiet
<1>14. CASE Powered
      <2>1. at' \in 0..(Components + 1) /\ Carries'
            BY <1>2, <1>3, <1>4, <1>14 DEF Powered
      <2>2. Completed'
            BY <1>2, <1>3, <1>4, <1>14 DEF Powered
      <2>3. TracePlace(n)'
            BY <1>1, <1>2, <1>4, <1>14 DEF Powered, TracePlace
      <2> QED BY <1>1, <1>2, <2>1, <2>2, <2>3, TraceQuiet
<1>15. CASE Collect
      <2>1. at' \in 0..(Components + 1) /\ Carries'
            BY <1>2, <1>3, <1>4, <1>15 DEF Collect
      <2>2. Completed'
            BY <1>2, <1>3, <1>4, <1>15 DEF Collect
      <2>3. TracePlace(n)'
            BY <1>1, <1>2, <1>4, <1>15 DEF Collect, TracePlace
      <2> QED BY <1>1, <1>2, <2>1, <2>2, <2>3, TraceQuiet
<1>16. CASE SendBatch
      <2>1. at' \in 0..(Components + 1) /\ Carries'
            BY <1>2, <1>3, <1>4, <1>16 DEF SendBatch
      <2>2. Completed'
            BY <1>2, <1>3, <1>4, <1>16 DEF SendBatch
      <2>3. TracePlace(n)'
            BY <1>1, <1>2, <1>4, <1>16 DEF SendBatch, TracePlace
      <2> QED BY <1>1, <1>2, <2>1, <2>2, <2>3, TraceQuiet
<1>17. CASE StoreSequence
      <2>1. at' \in 0..(Components + 1) /\ Carries'
            BY <1>2, <1>3, <1>4, <1>17 DEF StoreSequence
      <2>2. Completed'
            BY <1>2, <1>3, <1>4, <1>17 DEF StoreSequence
      <2>3. TracePlace(n)'
            BY <1>1, <1>2, <1>4, <1>17 DEF StoreSequence, TracePlace
      <2> QED BY <1>1, <1>2, <2>1, <2>2, <2>3, TraceQuiet
<1>18. CASE Inject
      <2>1. at' \in 0..(Components + 1) /\ Carries'
            BY <1>2, <1>3, <1>4, <1>18 DEF Inject
      <2>2. Completed'
            BY <1>2, <1>3, <1>4, <1>18 DEF Inject
      <2>3. TracePlace(n)'
            BY <1>1, <1>2, <1>4, <1>18 DEF Inject, TracePlace
      <2> QED BY <1>1, <1>2, <2>1, <2>2, <2>3, TraceQuiet
<1>19. CASE Terminal
      <2>1. at' \in 0..(Components + 1) /\ Carries'
            BY <1>2, <1>3, <1>4, <1>19 DEF Terminal
      <2>2. Completed'
            BY <1>2, <1>3, <1>4, <1>19 DEF Terminal
      <2>3. TracePlace(n)'
            BY <1>1, <1>2, <1>4, <1>19 DEF Terminal, TracePlace
      <2> QED BY <1>1, <1>2, <2>1, <2>2, <2>3, TraceQuiet
<1> QED BY <1>5, <1>6, <1>7, <1>8, <1>9, <1>10, <1>11, <1>12, <1>13, <1>14, <1>15, <1>16, <1>17,
           <1>18, <1>19 DEF Elsewhere

\* The steps of 42, a stutter and a wake-up leave all of this alone.
LEMMA OutsideSteps ==
    ASSUME IInv, TraceInv, FortyTwo \/ Vanish \/ SpuriousWake \/ UNCHANGED vars
    PROVE  TraceInv'
<1>1. PICK n \in 0..Ticks : FirstTicks(n) /\ TracePlace(n)
      BY DEF TraceInv
<1>2. UNCHANGED <<director, trace, wpc, local, disk, file, emitted, committed>>
      BY DEF FortyTwo, Compute, Publish, TakeStateAck, TakeCommands, Apply, Answer, Vanish,
             SpuriousWake, vars, history, tracing
<1>3. TraceTypes' /\ Carries' /\ WriterPlace' /\ Completed'
      BY <1>2 DEF TraceInv, TraceTypes, Carries, WriterPlace, Completed, director, Steps
<1>4. FirstTicks(n)' /\ TracePlace(n)'
      BY <1>1, <1>2 DEF FirstTicks, Handed, RecordOf, TracePlace, Underway, Working, director
<1> QED BY <1>3, <1>4 DEF TraceInv

LEMMA AckKeepsTrace ==
    ASSUME IInv, TraceInv, AwaitAck
    PROVE  TraceInv'
<1>1. PICK n \in 0..Ticks : FirstTicks(n) /\ TracePlace(n)
      BY DEF TraceInv
<1>2. UNCHANGED <<tick, at, context, batch, tracing, emitted>> /\ pc = "ack"
      /\ pc' \in {"inject", "terminal"}
      BY DEF AwaitAck, GoTo, Fail
<1>3. at' \in 0..(Components + 1) /\ Carries' /\ Completed'
      BY <1>2 DEF TraceInv, TraceTypes, Carries, Completed, tracing
<1>4. TracePlace(n)'
      BY <1>1, <1>2 DEF TracePlace, Underway, Working, tracing
<1> QED BY <1>1, <1>2, <1>3, <1>4, TraceQuiet

\* What a component emits in a tick is not yet in any record.
LEMMA ActuateKeepsTrace ==
    ASSUME IInv, TraceInv, Actuate
    PROVE  TraceInv'
<1>1. PICK n \in 0..Ticks : FirstTicks(n) /\ TracePlace(n)
      BY DEF TraceInv
<1>2. /\ Ticks \in Nat /\ Components \in Nat /\ tick \in 0..Ticks /\ tick \in Steps
      /\ pc = "actuate" /\ pc' = "actuate" /\ at <= Components /\ at' = at + 1
      /\ UNCHANGED <<tick, tracing, committed>>
      BY LoopFacts DEF Actuate
<1>3. PICK m \in Emits : emitted' = [emitted EXCEPT ![tick] = @ \o Emission(m)]
      BY DEF Actuate
<1>4. Emission(m) \in Seq(Commands)
      <2>1. m \in Nat /\ at \in Nat /\ tick \in Nat
            BY <1>2, LoopAssumption DEF TraceInv, TraceTypes
      <2> QED BY <2>1 DEF Emission, Commands
<1>5. TraceTypes'
      <2>1. emitted[tick] \o Emission(m) \in Seq(Commands)
            BY <1>2, <1>4 DEF TraceInv, TraceTypes
      <2>2. emitted' \in [Steps -> Seq(Commands)]
            BY <1>2, <1>3, <2>1 DEF TraceInv, TraceTypes
      <2> QED BY <1>2, <2>2 DEF TraceInv, TraceTypes, tracing, Steps
<1>6. Carries' /\ WriterPlace' /\ Completed'
      BY <1>2 DEF TraceInv, Carries, WriterPlace, Completed, tracing
<1>7. TracePlace(n)' /\ n < tick
      BY <1>1, <1>2 DEF TracePlace, Underway, Working, tracing
<1>8. \A i \in 1..n : RecordOf(i)' = RecordOf(i)
      BY <1>2, <1>3, <1>7 DEF RecordOf, TraceInv, TraceTypes
<1>9. FirstTicks(n)'
      BY <1>1, <1>2, <1>8 DEF FirstTicks, Handed, tracing
<1> QED BY <1>5, <1>6, <1>7, <1>9 DEF TraceInv

\* Joining the three places of a record.
LEMMA Handing ==
    ASSUME NEW d \in Seq(Records), NEW l \in Seq(Records), NEW q \in Seq(Records), NEW r \in Records
    PROVE  /\ d \o l \o q \in Seq(Records)
           /\ Append(q, r) \in Seq(Records)
           /\ d \o l \o Append(q, r) = Append(d \o l \o q, r)
           /\ (d \o l) \o <<>> \o q = d \o l \o q
           /\ q # <<>> => /\ Head(q) \in Records /\ Tail(q) \in Seq(Records)
                          /\ <<Head(q)>> \in Seq(Records)
                          /\ d \o <<Head(q)>> \o Tail(q) = d \o <<>> \o q
<1>1. d \o l \in Seq(Records) /\ d \o l \o q \in Seq(Records) /\ Append(q, r) \in Seq(Records)
      OBVIOUS
<1>2. d \o l \o Append(q, r) = Append(d \o l \o q, r)
      OBVIOUS
<1>3. (d \o l) \o <<>> = d \o l /\ d \o <<>> = d
      BY <1>1, ConcatEmptySeq
<1>4. ASSUME q # <<>>
      PROVE  /\ Head(q) \in Records /\ Tail(q) \in Seq(Records) /\ <<Head(q)>> \in Seq(Records)
             /\ d \o <<Head(q)>> \o Tail(q) = d \o <<>> \o q
      <2>1. Head(q) \in Records /\ Tail(q) \in Seq(Records) /\ <<Head(q)>> \in Seq(Records)
            BY <1>4
      <2>2. <<Head(q)>> \o Tail(q) = q
            BY <1>4, <2>1
      <2>3. (d \o <<Head(q)>>) \o Tail(q) = d \o (<<Head(q)>> \o Tail(q))
            BY <2>1, ConcatAssociative
      <2> QED BY <1>3, <2>1, <2>2, <2>3
<1> QED BY <1>1, <1>2, <1>3, <1>4

LEMMA Lengths ==
    ASSUME NEW d \in Seq(Records), NEW l \in Seq(Records), NEW q \in Seq(Records)
    PROVE  Len(d \o l \o q) = Len(d) + Len(l) + Len(q)
<1>1. d \o l \in Seq(Records) /\ Len(d \o l) = Len(d) + Len(l)
      OBVIOUS
<1> QED BY <1>1

LEMMA OpenKeepsTrace ==
    ASSUME IInv, TraceInv, OpenTrace
    PROVE  TraceInv'
<1>1. PICK n \in 0..Ticks : FirstTicks(n) /\ TracePlace(n)
      BY DEF TraceInv
<1>2. /\ UNCHANGED <<tick, at, context, batch, local, disk, file, emitted, committed>> /\ pc = "open"
      /\ \/ \E opened, timed \in BOOLEAN :
               /\ trace' = [trace EXCEPT !.opened = opened, !.timed = timed]
               /\ wpc' = (IF opened THEN "look" ELSE "ended") /\ pc' = "idle"
         \/ pc' = "done" /\ UNCHANGED <<trace, wpc>>
      BY DEF OpenTrace, history, GoTo
<1>3. /\ trace'.queue = trace.queue /\ trace'.stop = trace.stop /\ DOMAIN trace' = DOMAIN trace
      /\ pc' = "idle" => wpc' = IF trace'.opened THEN "look" ELSE "ended"
      /\ pc' = "done" => wpc' = wpc /\ trace' = trace
      /\ pc' \in {"idle", "done"}
      BY <1>2 DEF TraceInv, TraceTypes
<1>4. n = 0 /\ tick = 0 /\ ~trace.stop /\ ~trace.opened /\ wpc = "ended"
      BY <1>1, <1>2 DEF TracePlace, TraceInv, WriterPlace
<1>5. local = <<>>
      <2>1. Len(disk \o local \o trace.queue) = 0 /\ disk \in Seq(Records) /\ local \in Seq(Records)
            /\ trace.queue \in Seq(Records)
            BY <1>1, <1>4 DEF FirstTicks, Handed, TraceInv, TraceTypes
      <2>2. Len(disk) + Len(local) + Len(trace.queue) = 0
            BY <2>1, Lengths
      <2>3. Len(disk) \in Nat /\ Len(local) \in Nat /\ Len(trace.queue) \in Nat
            BY <2>1
      <2>4. \A x, y, z \in Nat : x + y + z = 0 => y = 0
            OBVIOUS
      <2>5. Len(local) = 0
            BY <2>2, <2>3, <2>4, Zenon
      <2> QED BY <2>1, <2>5
<1>6. TraceTypes' /\ Carries' /\ FirstTicks(n)'
      BY <1>1, <1>2, <1>3 DEF TraceInv, TraceTypes, Carries, FirstTicks, Handed, RecordOf, Steps
<1>7. WriterPlace'
      BY <1>2, <1>3, <1>4, <1>5 DEF WriterPlace, TraceInv
<1>8. Completed'
      BY <1>2 DEF Completed, TraceInv
<1>9. TracePlace(n)'
      BY <1>2, <1>3, <1>4 DEF TracePlace, Underway, Working
<1> QED BY <1>6, <1>7, <1>8, <1>9 DEF TraceInv

LEMMA HandOver ==
    ASSUME IInv, TraceInv, TraceTick
    PROVE  TraceInv'
<1>1. PICK n \in 0..Ticks : FirstTicks(n) /\ TracePlace(n)
      BY DEF TraceInv
<1>2. /\ UNCHANGED <<tick, at, context, batch, local, disk, file, emitted, committed, wpc>>
      /\ pc = "trace"
      BY DEF TraceTick, history
<1>3. /\ Ticks \in Nat /\ tick \in 0..Ticks /\ tick >= 1 /\ batch = emitted[tick] /\ context = tick
      /\ n = IF trace.opened THEN tick - 1 ELSE 0
      /\ trace.opened => ~trace.stop
      BY <1>1, <1>2, LoopFacts DEF TracePlace, Underway, TraceInv, Carries
<1>4. Carries' /\ Completed'
      BY <1>2 DEF TraceTick, Fail, AfterTrace, GoTo, Carries, Completed, TraceInv
<1>5. CASE trace' = trace
      <2>1. TraceTypes' /\ WriterPlace' /\ FirstTicks(n)'
            BY <1>1, <1>2, <1>5 DEF TraceInv, TraceTypes, WriterPlace, FirstTicks, Handed, RecordOf,
               Steps
      <2>2. \/ pc' \in {"terminal", "trace"}
            \/ ~trace.opened /\ pc' = "idle"
            \/ ~trace.opened /\ pc' = "finish" /\ tick = Ticks
            <3>1. CASE ~trace.opened /\ AfterTrace
                  BY <3>1 DEF AfterTrace, GoTo
            <3>2. CASE Fail
                  BY <3>2 DEF Fail
            <3>3. CASE UNCHANGED pc
                  BY <1>2, <3>3
            <3>4. CASE trace' = [trace EXCEPT !.queue = Append(@, Record)]
                  <4>1. Len(Append(trace.queue, Record)) = Len(trace.queue) + 1 /\ Len(trace.queue) \in Nat
                        BY DEF TraceInv, TraceTypes
                  <4>2. trace'.queue = Append(trace.queue, Record)
                        BY <3>4 DEF TraceInv, TraceTypes
                  <4> QED BY <1>5, <4>1, <4>2
            <3> QED BY <3>1, <3>2, <3>3, <3>4 DEF TraceTick
      <2>3. TracePlace(n)'
            BY <1>1, <1>2, <1>3, <1>5, <2>2 DEF TracePlace, Underway, Working
      <2> QED BY <1>4, <2>1, <2>3 DEF TraceInv
<1>6. CASE trace.opened /\ trace' = [trace EXCEPT !.queue = Append(@, Record)] /\ ~trace.error /\ AfterTrace
      <2>1. Record = RecordOf(tick) /\ Record \in Records
            BY <1>3, LoopFacts DEF Record, RecordOf, Records, TraceInv, TraceTypes, Steps
      <2>2. /\ trace'.queue = Append(trace.queue, Record) /\ trace'.stop = trace.stop
            /\ trace'.opened = trace.opened /\ trace'.error = trace.error /\ DOMAIN trace' = DOMAIN trace
            BY <1>6 DEF TraceInv, TraceTypes
      <2>3. /\ Handed \in Seq(Records) /\ trace'.queue \in Seq(Records)
            /\ Handed' = Append(Handed, RecordOf(tick))
            BY <1>2, <2>1, <2>2, Handing DEF Handed, TraceInv, TraceTypes
      <2>4. PICK m \in 0..Ticks : m = tick /\ n = m - 1 /\ m >= 1
            BY <1>3, <1>6
      <2>5. FirstTicks(m)'
            <3>1. Len(Handed') = m /\ (\A i \in 1..n : Handed'[i] = RecordOf(i)) /\ Handed'[m] = RecordOf(m)
                  BY <1>1, <2>3, <2>4 DEF FirstTicks
            <3>2. \A i \in 1..m : i \in 1..n \/ i = m
                  BY <2>4
            <3>3. \A i \in 1..m : RecordOf(i)' = RecordOf(i)
                  BY <1>2 DEF RecordOf
            <3> QED BY <3>1, <3>2, <3>3 DEF FirstTicks
      <2>6. TraceTypes'
            BY <1>2, <2>2, <2>3 DEF TraceInv, TraceTypes, Steps
      <2>7. WriterPlace'
            BY <1>2, <1>3, <1>6, <2>2 DEF TraceInv, WriterPlace
      <2>8. TracePlace(m)'
            BY <1>2, <1>3, <1>6, <2>2, <2>4 DEF TracePlace, Underway, Working, AfterTrace, GoTo
      <2> QED BY <1>4, <2>5, <2>6, <2>7, <2>8 DEF TraceInv
<1> QED BY <1>5, <1>6 DEF TraceTick

LEMMA StopKeepsTrace ==
    ASSUME IInv, TraceInv, StartFinish \/ StartAbort
    PROVE  TraceInv'
<1>1. PICK n \in 0..Ticks : FirstTicks(n) /\ TracePlace(n)
      BY DEF TraceInv
<1>2. UNCHANGED <<tick, at, context, batch, local, disk, file, emitted, committed, wpc>>
      BY DEF StartFinish, StartAbort, StopWriter, history
<1>3. \/ pc = "finish" /\ pc' = (IF trace.opened THEN "join" ELSE "idle")
      \/ pc = "abort" /\ pc' \in {"abort_join", "done"}
      BY DEF StartFinish, StartAbort, StopWriter, GoTo
<1>4. trace' = IF trace.opened THEN [trace EXCEPT !.stop = TRUE] ELSE trace
      BY DEF StartFinish, StartAbort, StopWriter
<1>5. /\ trace'.queue = trace.queue /\ trace'.opened = trace.opened /\ trace'.error = trace.error
      /\ DOMAIN trace' = DOMAIN trace /\ (trace.opened => trace'.stop)
      BY <1>4 DEF TraceInv, TraceTypes
<1>6. TraceTypes' /\ FirstTicks(n)'
      BY <1>1, <1>2, <1>5 DEF TraceInv, TraceTypes, FirstTicks, Handed, RecordOf, Steps
<1>7. Carries' /\ WriterPlace' /\ Completed'
      BY <1>2, <1>3, <1>5 DEF TraceInv, Carries, WriterPlace, Completed
<1>8. TracePlace(n)'
      BY <1>1, <1>2, <1>3, <1>5 DEF TracePlace, Underway, Working
<1> QED BY <1>6, <1>7, <1>8 DEF TraceInv

\* A file gets its final name with every record on the disk.
LEMMA CloseKeepsTrace ==
    ASSUME IInv, TraceInv, Finish \/ Abort
    PROVE  TraceInv'
<1>1. PICK n \in 0..Ticks : FirstTicks(n) /\ TracePlace(n)
      BY DEF TraceInv
<1>2. /\ UNCHANGED <<tick, at, context, batch, local, disk, emitted, committed, wpc>> /\ wpc = "ended"
      /\ trace' = [trace EXCEPT !.opened = FALSE]
      /\ \/ pc = "join" /\ ~trace.error /\ file' = "complete" /\ pc' = "idle"
         \/ pc = "join" /\ file' = file /\ pc' = "terminal"
         \/ pc = "abort_join" /\ file' = file /\ pc' = "done"
      BY DEF Finish, Abort, Fail, GoTo, history
<1>3. trace'.queue = trace.queue /\ ~trace'.opened /\ DOMAIN trace' = DOMAIN trace
      BY <1>2 DEF TraceInv, TraceTypes
<1>4. TraceTypes' /\ FirstTicks(n)'
      BY <1>1, <1>2, <1>3 DEF TraceInv, TraceTypes, FirstTicks, Handed, RecordOf, Steps
<1>5. Carries' /\ WriterPlace'
      BY <1>2, <1>3 DEF TraceInv, Carries, WriterPlace
<1>6. pc = "join" => n = tick /\ tick = Ticks /\ trace.opened /\ committed = tick
      BY <1>1, LoopFacts DEF TracePlace
<1>7. TracePlace(n)'
      BY <1>2, <1>3, <1>6 DEF TracePlace, Underway, Working
<1>8. Completed'
      <2>1. CASE pc = "join" /\ ~trace.error /\ file' = "complete" /\ pc' = "idle"
            <3>1. trace.queue = <<>> /\ local = <<>>
                  BY <1>2, <1>6, <2>1 DEF TraceInv, WriterPlace
            <3>2. Len(disk) = n
                  <4>1. <<>> \in Seq(Records) /\ disk \in Seq(Records)
                        BY DEF TraceInv, TraceTypes
                  <4>2. Handed = disk
                        BY <3>1, <4>1, ConcatEmptySeq DEF Handed
                  <4> QED BY <1>1, <4>2 DEF FirstTicks
            <3> QED BY <1>2, <1>3, <1>6, <2>1, <3>2 DEF Completed
      <2>2. CASE file' = file /\ pc \in {"join", "abort_join"} /\ pc' \in {"terminal", "done"}
            BY <1>2, <1>3, <2>2 DEF TraceInv, Completed
      <2> QED BY <1>2, <2>1, <2>2
<1> QED BY <1>4, <1>5, <1>7, <1>8 DEF TraceInv

LEMMA WriterKeepsTrace ==
    ASSUME IInv, TraceInv, Writer
    PROVE  TraceInv'
<1>1. PICK n \in 0..Ticks : FirstTicks(n) /\ TracePlace(n)
      BY DEF TraceInv
<1>2. UNCHANGED <<pc, tick, at, context, batch, file, emitted, committed>> /\ wpc # "ended"
      BY DEF Writer, WriterLooks, WriterWrites, WriterFails, director, history
<1>3. TraceTypes /\ WriterPlace /\ trace.opened
      BY <1>2 DEF TraceInv, WriterPlace
<1>4. Carries' /\ Completed'
      BY <1>2, <1>3 DEF TraceInv, Carries, Completed
<1>5. ASSUME UNCHANGED disk, UNCHANGED local, trace'.queue = trace.queue,
             trace'.opened = trace.opened, trace'.stop = trace.stop, DOMAIN trace' = DOMAIN trace, WriterPlace'
      PROVE  TraceInv'
      <2>1. TraceTypes' /\ FirstTicks(n)' /\ TracePlace(n)'
            BY <1>1, <1>2, <1>3, <1>5
            DEF TraceTypes, FirstTicks, Handed, RecordOf, TracePlace, Underway, Working, Steps
      <2> QED BY <1>4, <1>5, <2>1 DEF TraceInv
<1>6. ASSUME Handed' = Handed, disk' \in Seq(Records), local' \in Seq(Records),
             trace'.queue \in Seq(Records), trace'.opened = trace.opened, trace'.stop = trace.stop,
             DOMAIN trace' = DOMAIN trace, WriterPlace'
      PROVE  TraceInv'
      <2>1. TraceTypes' /\ TracePlace(n)'
            BY <1>1, <1>2, <1>3, <1>6 DEF TraceTypes, TracePlace, Underway, Working, Steps
      <2>2. FirstTicks(n)'
            BY <1>1, <1>2, <1>6 DEF FirstTicks, RecordOf
      <2> QED BY <1>4, <1>6, <2>1, <2>2 DEF TraceInv
<1>7. CASE WriterLooks
      <2>1. CASE Drained /\ wpc' = "ended" /\ UNCHANGED <<trace, local, disk>> /\ wpc = "look"
            <3>1. WriterPlace'
                  BY <1>3, <2>1 DEF WriterPlace, Drained
            <3> QED BY <1>5, <2>1, <3>1
      <2>2. CASE UNCHANGED <<trace, wpc, local, disk>>
            <3>1. WriterPlace'
                  BY <1>3, <2>2 DEF WriterPlace
            <3> QED BY <1>5, <2>2, <3>1
      <2>3. CASE /\ wpc = "look" /\ trace.queue # <<>> /\ local' = <<Head(trace.queue)>> /\ wpc' = "write"
                 /\ trace' = [trace EXCEPT !.queue = Tail(@)] /\ disk' = disk
            <3>1. /\ trace'.queue = Tail(trace.queue) /\ trace'.opened = trace.opened
                  /\ trace'.stop = trace.stop /\ DOMAIN trace' = DOMAIN trace /\ local = <<>>
                  BY <1>3, <2>3 DEF TraceTypes, WriterPlace
            <3>2. WriterPlace'
                  BY <1>3, <2>3, <3>1 DEF WriterPlace
            <3>3. /\ local' \in Seq(Records) /\ trace'.queue \in Seq(Records)
                  /\ disk \o local' \o trace'.queue = disk \o local \o trace.queue
                  <4>1. PICK r \in Records : r = Head(trace.queue)
                        BY <1>3, <2>3 DEF TraceTypes
                  <4> QED BY <1>3, <2>3, <3>1, <4>1, Handing DEF TraceTypes
            <3> QED BY <1>3, <1>6, <2>3, <3>1, <3>2, <3>3 DEF Handed, TraceTypes
      <2> QED BY <1>7, <2>1, <2>2, <2>3 DEF WriterLooks
<1>8. CASE WriterWrites
      <2>1. CASE disk' = disk \o local /\ local' = <<>> /\ wpc' = "look" /\ UNCHANGED trace
            <3>1. WriterPlace'
                  BY <1>3, <2>1 DEF WriterPlace
            <3>2. disk' \in Seq(Records) /\ local' \in Seq(Records)
                  BY <1>3, <2>1 DEF TraceTypes
            <3>3. (disk \o local) \o <<>> = disk \o local
                  BY <1>3, <2>1, <3>2, ConcatEmptySeq DEF TraceTypes
            <3> QED BY <1>3, <1>6, <2>1, <3>1, <3>2, <3>3 DEF Handed, TraceTypes
      <2>2. CASE wpc' = "failed" /\ UNCHANGED <<disk, local, trace>>
            <3>1. WriterPlace'
                  BY <1>3, <2>2 DEF WriterPlace
            <3> QED BY <1>5, <2>2, <3>1
      <2> QED BY <1>8, <2>1, <2>2 DEF WriterWrites
<1>9. CASE WriterFails
      <2>1. /\ UNCHANGED <<disk, local>> /\ trace'.queue = trace.queue /\ trace'.opened = trace.opened
            /\ trace'.stop = trace.stop /\ DOMAIN trace' = DOMAIN trace /\ trace'.error
            /\ wpc' = "ended"
            BY <1>3, <1>9 DEF WriterFails, TraceTypes
      <2>2. WriterPlace'
            BY <1>3, <2>1 DEF WriterPlace
      <2> QED BY <1>5, <2>1, <2>2
<1> QED BY <1>7, <1>8, <1>9 DEF Writer

LEMMA TraceNext == IInv /\ TraceInv /\ [Next]_vars => TraceInv'
<1> SUFFICES ASSUME IInv, TraceInv, [Next]_vars PROVE TraceInv'
    OBVIOUS
<1>1. Elsewhere => TraceInv'
      BY ElsewhereSteps
<1>2. FortyTwo \/ Vanish \/ SpuriousWake \/ UNCHANGED vars => TraceInv'
      BY OutsideSteps
<1>3. (AwaitAck => TraceInv') /\ (Actuate => TraceInv') /\ (OpenTrace => TraceInv') /\ (TraceTick => TraceInv')
      BY AckKeepsTrace, ActuateKeepsTrace, OpenKeepsTrace, HandOver
<1>4. (StartFinish \/ StartAbort => TraceInv') /\ (Finish \/ Abort => TraceInv') /\ (Writer => TraceInv')
      BY StopKeepsTrace, CloseKeepsTrace, WriterKeepsTrace
<1> QED BY <1>1, <1>2, <1>3, <1>4 DEF Next, Callback, Elsewhere

LEMMA TraceInductive == Spec => []TraceInv
BY Inductive, TraceInitially, TraceNext, PTL DEF Spec

LEMMA TraceConsequence == IInv /\ TraceInv => TraceFaithful
<1> SUFFICES ASSUME IInv, TraceInv PROVE TraceFaithful
    OBVIOUS
<1>1. PICK n \in 0..Ticks : FirstTicks(n) /\ TracePlace(n)
      BY DEF TraceInv
<1>2. \A i \in 1..Len(Handed) : Handed[i] = [tick |-> i, state |-> i, batch |-> emitted[i]]
      BY <1>1 DEF FirstTicks, RecordOf
<1>3. pc = "idle" /\ trace.opened => Len(Handed) = committed
      BY <1>1, LoopFacts DEF FirstTicks, TracePlace
<1>4. file = "complete" => Len(disk) = committed
      BY DEF TraceInv, Completed
<1> QED BY <1>2, <1>3, <1>4 DEF TraceFaithful, Handed

-----------------------------------------------------------------------------
(* The types and the capacities. *)

Items == Commands \cup (Nat \X {"stray"})

Bounds ==
    /\ mode \in Modes /\ ok \in BOOLEAN /\ connected \in BOOLEAN /\ context \in 0..(Ticks + 1)
    /\ pc \in Working \cup {"connect", "open", "idle", "state", "ack", "inject", "trace", "finish", "join",
                            "terminal", "abort", "abort_join", "done"}
    /\ queue \in Seq(Items) /\ Len(queue) <= QueueSize /\ Len(trace.queue) <= TraceSize
    /\ asleep \subseteq {"director", "writer"}
    /\ mode # "shared" => seq = 1
    /\ mode = "shared" => toDir = <<>> /\ to42 = <<>>

LEMMA BoundsInitially == Init => Bounds
<1> SUFFICES ASSUME Init PROVE Bounds
    OBVIOUS
<1>1. QueueSize \in Nat /\ TraceSize \in Nat /\ Ticks \in Nat
      BY LoopAssumption
<1>2. queue \in Seq(Items) /\ Len(queue) <= QueueSize /\ Len(trace.queue) <= TraceSize
      BY <1>1 DEF Init
<1>3. 0 \in 0..(Ticks + 1)
      BY <1>1
<1>4. /\ mode \in Modes /\ ok = TRUE /\ connected = FALSE /\ context = 0 /\ pc = "connect"
      /\ asleep = {} /\ seq = 1 /\ toDir = <<>> /\ to42 = <<>>
      BY DEF Init
<1> QED BY <1>2, <1>3, <1>4 DEF Bounds

\* A batch of a component is cut to the room that is left.
LEMMA QueueFits ==
    ASSUME NEW q \in Seq(Items), NEW c \in Seq(Items), Len(q) <= QueueSize
    PROVE  /\ Len(c) <= QueueSize - Len(q) => q \o c \in Seq(Items) /\ Len(q \o c) <= QueueSize
           /\ Len(c) > QueueSize - Len(q) =>
                /\ q \o SubSeq(c, 1, QueueSize - Len(q)) \in Seq(Items)
                /\ Len(q \o SubSeq(c, 1, QueueSize - Len(q))) <= QueueSize
           /\ \A x \in Items : Len(q) < QueueSize =>
                Append(q, x) \in Seq(Items) /\ Len(Append(q, x)) <= QueueSize
<1>1. QueueSize \in Nat
      BY LoopAssumption
<1>2. Len(c) <= QueueSize - Len(q) => q \o c \in Seq(Items) /\ Len(q \o c) <= QueueSize
      BY <1>1
<1>3. ASSUME Len(c) > QueueSize - Len(q)
      PROVE  /\ q \o SubSeq(c, 1, QueueSize - Len(q)) \in Seq(Items)
             /\ Len(q \o SubSeq(c, 1, QueueSize - Len(q))) <= QueueSize
      <2>1. PICK room \in Nat : room = QueueSize - Len(q) /\ room <= Len(c)
            BY <1>1, <1>3
      <2>2. SubSeq(c, 1, room) \in Seq(Items) /\ Len(SubSeq(c, 1, room)) = room
            BY <2>1
      <2> QED BY <1>1, <2>1, <2>2
<1>4. \A x \in Items : Len(q) < QueueSize =>
        Append(q, x) \in Seq(Items) /\ Len(Append(q, x)) <= QueueSize
      BY <1>1
<1> QED BY <1>2, <1>3, <1>4

LEMMA StateKeepsBounds ==
    ASSUME IInv, TraceInv, Bounds, FetchState \/ Terminal
    PROVE  Bounds'
<1>1. PICK p \in Progress, a \in Places, k \in Steps : Stage(p, a, k) /\ Here(p, k)
      BY DEF IInv
<1>2. /\ UNCHANGED <<mode, queue, trace, asleep, sim, history>>
      /\ ok' \in BOOLEAN /\ pc \in {"state", "terminal"} /\ pc' \in {"on_tick", "terminal", "abort"}
      BY DEF FetchState, Terminal, Bounds, Fail, GoTo, tracing
<1>3. CASE UNCHANGED <<context, seq, toDir, to42>> /\ connected' \in BOOLEAN
      BY <1>2, <1>3 DEF Bounds, Working
<1>4. CASE connected /\ StateArrives /\ TakeState
      <2>1. p \in {"before", "got"}
            BY <1>1, <1>2, <1>4 DEF Here
      <2>2. context' = k
            BY <1>1, <1>2, <1>4, <2>1, StateTaken DEF IInv
      <2>3. context' \in 0..(Ticks + 1)
            BY <2>2, LoopAssumption DEF Steps
      <2>4. UNCHANGED <<seq, connected>> /\ (mode = "shared" => UNCHANGED <<toDir, to42>>)
            BY <1>4 DEF TakeState
      <2> QED BY <1>2, <2>3, <2>4 DEF Bounds, Working
<1> QED BY <1>3, <1>4 DEF FetchState, Terminal, LoseLink, link, Bounds

\* The steps that put something into a queue.
LEMMA QueuesKeepBounds ==
    ASSUME IInv, TraceInv, Bounds,
           OnTick \/ Execute \/ Power \/ Actuate \/ TraceTick \/ WriterLooks
    PROVE  Bounds'
<1>1. UNCHANGED <<mode, connected, context, seq, toDir, to42>>
      BY DEF OnTick, Execute, Power, Actuate, TraceTick, WriterLooks, link, director
<1>2. CASE OnTick \/ Execute \/ Power
      <2>1. tick \in Nat
            BY LoopFacts
      <2>2. queue' \in Seq(Items) /\ Len(queue') <= QueueSize
            <3>1. <<tick, "stray">> \in Items
                  BY <2>1 DEF Items
            <3>2. UNCHANGED queue \/ (Len(queue) < QueueSize /\ queue' = Append(queue, <<tick, "stray">>))
                  BY <1>2 DEF OnTick, Execute, Power, Stray
            <3> QED BY <3>1, <3>2, QueueFits DEF Bounds
      <2>3. UNCHANGED <<ok, trace, asleep>> /\ pc' \in {"prepared", "quiesced", "powered"}
            BY <1>2 DEF OnTick, Execute, Power, GoTo, tracing
      <2> QED BY <1>1, <2>2, <2>3 DEF Bounds, Working
<1>3. CASE Actuate
      <2>1. PICK n \in Emits : Enqueue(Emission(n))
            BY <1>3 DEF Actuate
      <2>2. PICK c \in Seq(Items) : c = Emission(n)
            <3>1. n \in Nat /\ tick \in Nat /\ at \in Nat
                  BY LoopFacts, LoopAssumption DEF TraceInv, TraceTypes
            <3>2. \A j \in 1..n : <<tick, at, j>> \in Items
                  BY <3>1 DEF Items, Commands
            <3>3. Emission(n) \in Seq(Items)
                  BY <3>1, <3>2 DEF Emission
            <3> QED BY <3>3
      <2>3. Enqueue(c)
            BY <2>1, <2>2
      <2>4. Len(c) <= QueueSize - Len(queue) \/ Len(c) > QueueSize - Len(queue)
            BY LoopAssumption DEF Bounds
      <2>5. queue' \in Seq(Items) /\ Len(queue') <= QueueSize /\ ok' \in BOOLEAN
            BY <2>3, <2>4, QueueFits DEF Enqueue, Bounds
      <2>6. UNCHANGED <<pc, trace, asleep>>
            BY <1>3 DEF Actuate, tracing
      <2> QED BY <1>1, <2>5, <2>6 DEF Bounds
<1>4. CASE TraceTick
      <2>1. UNCHANGED <<ok, queue>> /\ asleep' \subseteq {"director", "writer"}
            /\ pc' \in {"terminal", "idle", "finish", "trace"}
            BY <1>4 DEF TraceTick, AfterTrace, Fail, GoTo, Bounds
      <2>2. Len(trace'.queue) <= TraceSize
            <3>1. CASE trace' = trace
                  BY <3>1 DEF Bounds
            <3>2. CASE ~Full /\ trace' = [trace EXCEPT !.queue = Append(@, Record)]
                  <4>1. trace'.queue = Append(trace.queue, Record) /\ trace.queue \in Seq(Records)
                        BY <3>2 DEF TraceInv, TraceTypes
                  <4>2. Len(trace'.queue) = Len(trace.queue) + 1 /\ Len(trace.queue) \in Nat
                        BY <4>1
                  <4>3. Len(trace.queue) < TraceSize /\ TraceSize \in Nat
                        BY <3>2, <4>2, LoopAssumption DEF Full, Bounds
                  <4> QED BY <4>2, <4>3
            <3> QED BY <1>4, <3>1, <3>2 DEF TraceTick
      <2> QED BY <1>1, <2>1, <2>2 DEF Bounds
<1>5. CASE WriterLooks
      <2>1. UNCHANGED <<pc, ok, queue>> /\ asleep' \subseteq {"director", "writer"}
            BY <1>5 DEF WriterLooks, director, Bounds
      <2>2. Len(trace'.queue) <= TraceSize
            <3>1. CASE trace' = trace
                  BY <3>1 DEF Bounds
            <3>2. CASE trace.queue # <<>> /\ trace' = [trace EXCEPT !.queue = Tail(@)]
                  <4>1. trace'.queue = Tail(trace.queue) /\ trace.queue \in Seq(Records)
                        BY <3>2 DEF TraceInv, TraceTypes
                  <4>2. Len(trace'.queue) = Len(trace.queue) - 1 /\ Len(trace.queue) \in Nat
                        BY <3>2, <4>1
                  <4> QED BY <4>2, LoopAssumption DEF Bounds
            <3> QED BY <1>5, <3>1, <3>2 DEF WriterLooks
      <2> QED BY <1>1, <2>1, <2>2 DEF Bounds
<1> QED BY <1>2, <1>3, <1>4, <1>5

LEMMA BoundsNext == IInv /\ TraceInv /\ Bounds /\ [Next]_vars => Bounds'
<1> SUFFICES ASSUME IInv, TraceInv, Bounds, [Next]_vars PROVE Bounds'
    OBVIOUS
<1>0. DOMAIN trace = {"queue", "stop", "error", "opened", "timed"}
      BY DEF TraceInv, TraceTypes
<1>1. CASE FetchState \/ Terminal
      BY <1>1, StateKeepsBounds
<1>2. CASE OnTick \/ Execute \/ Power \/ Actuate \/ TraceTick \/ WriterLooks
      BY <1>2, QueuesKeepBounds
<1>3. CASE BeginTick
      BY <1>3 DEF BeginTick, Bounds, Working, Fail, GoTo, RequireEmpty, director, link, tracing, history
<1>4. CASE Stop
      BY <1>4 DEF Stop, Bounds, Working, Fail, GoTo, RequireEmpty, director, link, tracing, history
<1>5. CASE Connect
      BY <1>5 DEF Connect, Bounds, Working, Fail, GoTo, RequireEmpty, director, link, tracing, history
<1>6. CASE OpenTrace
      BY <1>0, <1>6 DEF OpenTrace, Bounds, Working, Fail, GoTo, RequireEmpty, director, link,
         tracing, history
<1>7. CASE Prepared
      BY <1>7 DEF Prepared, Bounds, Working, Fail, GoTo, RequireEmpty, director, link, tracing, history
<1>8. CASE Quiesced
      BY <1>8 DEF Quiesced, Bounds, Working, Fail, GoTo, RequireEmpty, director, link, tracing, history
<1>9. CASE Powered
      BY <1>9 DEF Powered, Bounds, Working, Fail, GoTo, RequireEmpty, director, link, tracing, history
<1>10. CASE Collect
      <2>1. queue' \in {queue, <<>>} /\ pc' \in {"send", "terminal"}
            /\ UNCHANGED <<mode, ok, connected, context, trace, asleep, seq, toDir, to42>>
            BY <1>10 DEF Collect, Fail, GoTo, link, tracing
      <2>2. <<>> \in Seq(Items) /\ Len(<<>>) <= QueueSize
            BY LoopAssumption
      <2> QED BY <2>1, <2>2 DEF Bounds, Working
<1>11. CASE SendBatch
      BY <1>11 DEF SendBatch, CopyBatch, WriteBatch, LoseLink, Bounds, Working, Fail, GoTo,
         RequireEmpty, director, link, tracing, history
<1>12. CASE StoreSequence
      BY <1>12 DEF StoreSequence, Bounds, Working, Fail, GoTo, RequireEmpty, director, link,
         tracing, history
<1>13. CASE AwaitAck
      BY <1>13 DEF AwaitAck, TakeAck, LoseLink, Bounds, Working, Fail, GoTo, RequireEmpty, director,
         link, tracing, history
<1>14. CASE Inject
      BY <1>14 DEF Inject, Bounds, Working, Fail, GoTo, RequireEmpty, director, link, tracing, history
<1>15. CASE StartFinish
      BY <1>0, <1>15 DEF StartFinish, StopWriter, Bounds, Working, Fail, GoTo, RequireEmpty,
         director, link, tracing, history
<1>16. CASE StartAbort
      BY <1>0, <1>16 DEF StartAbort, StopWriter, Bounds, Working, Fail, GoTo, RequireEmpty,
         director, link, tracing, history
<1>17. CASE Finish
      BY <1>0, <1>17 DEF Finish, Bounds, Working, Fail, GoTo, RequireEmpty, director, link, tracing,
         history
<1>18. CASE Abort
      BY <1>0, <1>18 DEF Abort, Bounds, Working, Fail, GoTo, RequireEmpty, director, link, tracing,
         history
<1>19. CASE WriterWrites
      BY <1>19 DEF WriterWrites, Bounds, Working, Fail, GoTo, RequireEmpty, director, link, tracing,
         history
<1>20. CASE WriterFails
      BY <1>0, <1>20 DEF WriterFails, Bounds, Working, Fail, GoTo, RequireEmpty, director, link,
         tracing, history
<1>21. CASE SpuriousWake
      BY <1>21 DEF SpuriousWake, Bounds, Working, Fail, GoTo, RequireEmpty, director, link, tracing,
         history
<1>22. CASE Compute
      BY <1>22 DEF Compute, Bounds, Working, Fail, GoTo, RequireEmpty, director, link, tracing, history
<1>23. CASE Publish
      BY <1>23 DEF Publish, Bounds, Working, Fail, GoTo, RequireEmpty, director, link, tracing, history
<1>24. CASE TakeStateAck
      BY <1>24 DEF TakeStateAck, Bounds, Working, Fail, GoTo, RequireEmpty, director, link, tracing,
         history
<1>25. CASE TakeCommands
      BY <1>25 DEF TakeCommands, Bounds, Working, Fail, GoTo, RequireEmpty, director, link, tracing,
         history
<1>26. CASE Apply
      BY <1>26 DEF Apply, Bounds, Working, Fail, GoTo, RequireEmpty, director, link, tracing, history
<1>27. CASE Answer
      BY <1>27 DEF Answer, Bounds, Working, Fail, GoTo, RequireEmpty, director, link, tracing, history
<1>28. CASE Vanish
      BY <1>28 DEF Vanish, Bounds, Working, Fail, GoTo, RequireEmpty, director, link, tracing, history
<1>29. CASE UNCHANGED vars
      BY <1>29 DEF vars, Bounds, Working, director, link, tracing
<1> QED BY <1>1, <1>2, <1>3, <1>4, <1>5, <1>6, <1>7, <1>8, <1>9, <1>10, <1>11, <1>12, <1>13, <1>14,
           <1>15, <1>16, <1>17, <1>18, <1>19, <1>20, <1>21, <1>22, <1>23, <1>24, <1>25, <1>26,
           <1>27, <1>28, <1>29 DEF Next, Callback, Writer, FortyTwo

LEMMA BoundsHold == Spec => []Bounds
BY Inductive, TraceInductive, BoundsInitially, BoundsNext, PTL DEF Spec

LEMMA BoundsConsequence == IInv /\ TraceInv /\ Bounds => TypeOK
<1> SUFFICES ASSUME IInv, TraceInv, Bounds PROVE TypeOK
    OBVIOUS
<1>0. Ticks \in Nat /\ tick \in 0..Ticks
      BY LoopFacts
<1>1. PICK p \in Progress, a \in Places, k \in Steps : Stage(p, a, k)
      BY DEF IInv
<1>2. seq \in Steps /\ sim.step \in Steps
      <2>1. k \in Steps /\ k \in Int /\ (p = "answered" => k > 1)
            BY <1>0, <1>1 DEF Stage, Steps
      <2>2. mode = "shared" => seq = IF p = "answered" THEN k - 1 ELSE k
            BY <1>1 DEF Stage, Words
      <2> QED BY <1>0, <1>1, <2>1, <2>2 DEF Stage, Bounds, Steps
<1>3. Len(toDir) <= 2 /\ Len(to42) <= 2
      <2>1. \A x, y : Len(<<>>) <= 2 /\ Len(<<x>>) <= 2 /\ Len(<<x, y>>) <= 2
            OBVIOUS
      <2>2. CASE mode = "shared"
            BY <2>1, <2>2 DEF Bounds
      <2>3. CASE mode # "shared"
            BY <1>1, <2>1, <2>3 DEF Stage, Meets, Frames, Places, Progress
      <2> QED BY <2>2, <2>3
<1> QED BY <1>0, <1>2, <1>3 DEF TypeOK, Bounds, TraceInv, TraceTypes

-----------------------------------------------------------------------------
(* The theorems. *)

LEMMA Consequences == IInv => AppliedWhole /\ CommitMeansApplied /\ InStep
<1> SUFFICES ASSUME IInv PROVE AppliedWhole /\ CommitMeansApplied /\ InStep
    OBVIOUS
<1>0. Ticks \in Nat /\ tick \in Int /\ Shapes
      BY LoopAssumption DEF IInv, Shapes
<1>1. PICK p \in Progress, a \in Places, k \in Steps : Stage(p, a, k) /\ Here(p, k)
      BY DEF IInv
<1>2. Outcome(p, a, k) /\ k \in Int /\ k <= tick + 1 /\ (a = "answer" => k <= tick)
      BY <1>0, <1>1 DEF Stage, Meets, Here, Steps
<1>3. AppliedWhole
      <2> SUFFICES ASSUME NEW j \in Steps, applied[j] # <<>>
                   PROVE  j <= tick /\ applied[j] = <<emitted[j]>>
          BY DEF AppliedWhole
      <2>1. CASE j < k
            BY <1>0, <1>2, <2>1 DEF Outcome, Steps
      <2>2. CASE j = k
            BY <1>2, <2>2 DEF Outcome
      <2>3. CASE j > k
            BY <1>2, <2>3 DEF Outcome
      <2> QED BY <1>0, <1>2, <2>1, <2>2, <2>3 DEF Steps
<1>4. CommitMeansApplied
      <2>1. committed <= k - 1 /\ committed \in Int /\ (p = "before" => committed = k - 1)
            BY <1>2 DEF Outcome
      <2>2. \A j \in 1..committed : j \in Steps /\ j <= committed
            BY <1>0, <1>1, <2>1 DEF Steps
      <2>3. pc \in {"inject", "trace", "finish", "join"} => committed = tick
            BY <1>0, <1>1, <1>2, <2>1 DEF Here
      <2> QED BY <1>2, <2>2, <2>3 DEF Outcome, CommitMeansApplied
<1>5. InStep
      <2>1. p = "got" => sim.at \in {"state_ack", "commands", "gone"}
            BY <1>1 DEF Stage, Meets
      <2> QED BY <1>1, <2>1 DEF InStep, Here, Stage
<1> QED BY <1>3, <1>4, <1>5

(***************************************************************************)
(* The types, and that neither queue ever exceeds its capacity and a       *)
(* socket never holds more than two frames a side.                         *)
(***************************************************************************)
THEOREM TypeCorrect == Spec => []TypeOK
BY Inductive, TraceInductive, BoundsHold, BoundsConsequence, PTL

(***************************************************************************)
(* What 42 applies is whole, once, and of the tick's own step, however     *)
(* many components emit, whatever fits into the queue and whatever fails   *)
(* (simulith_42_command_api.c 44, simulith_director.c 1431-1480).          *)
(***************************************************************************)
THEOREM BatchesApplyWhole == Spec => []AppliedWhole
BY Inductive, Consequences, PTL

(***************************************************************************)
(* What the Director takes for acknowledged 42 has applied                 *)
(* (receive_binary_ack, simulith_42_socket_client.c 271-295).              *)
(***************************************************************************)
THEOREM AcknowledgedIsApplied == Spec => []CommitMeansApplied
BY Inductive, Consequences, PTL

(***************************************************************************)
(* The Director and 42 are in the same step from the state to the batch,   *)
(* and the terminal state is that of the step 42 is in                     *)
(* (receive_binary_state and receive_binary_ack, simulith_director.c 1590).*)
(***************************************************************************)
THEOREM LoopDoesNotSlip == Spec => []InStep
BY Inductive, Consequences, PTL

(***************************************************************************)
(* The control trace has the records of the first ticks, in order and with *)
(* the batches that were emitted; a trace that gets its final name holds   *)
(* every committed tick (simulith_control_trace.c 127-252).                *)
(***************************************************************************)
THEOREM TraceIsFaithful == Spec => []TraceFaithful
BY Inductive, TraceInductive, TraceConsequence, PTL

-----------------------------------------------------------------------------
(***************************************************************************)
(* The refinement of LoopSync.  Four steps are steps of it: a tick that is *)
(* opened, a component that emits, 42's application of a batch and the     *)
(* acknowledgement.  All others stutter.                                   *)
(***************************************************************************)
LEMMA LoopInitially == Init => Loop!Init
BY DEF Init, Loop!Init

\* A tick is opened when the one before it has been committed.
LEMMA BeginIsBegin == IInv /\ BeginTick => Loop!Begin
<1> SUFFICES ASSUME IInv, BeginTick PROVE Loop!Begin
    OBVIOUS
<1>1. /\ pc = "idle" /\ tick' = tick + 1
      /\ UNCHANGED <<emitted, applied, committed>>
      BY DEF BeginTick, history
<1>2. committed = tick
      <2>1. PICK p \in Progress, a \in Places, k \in Steps : Stage(p, a, k) /\ Here(p, k)
            BY DEF IInv
      <2>2. k = tick + 1 /\ committed = k - 1 /\ tick \in Int
            BY <1>1, <2>1, LoopAssumption DEF Here, Stage, Outcome, IInv, Shapes
      <2> QED BY <2>2
<1> QED BY <1>1, <1>2 DEF Loop!Begin

\* The loop over the components starts with the first.
Actuating == pc = "actuate" => at >= 1

LEMMA ActuatingNext == TypeOK /\ Actuating /\ [Next]_vars => Actuating'
<1> SUFFICES ASSUME TypeOK, Actuating, [Next]_vars PROVE Actuating'
    OBVIOUS
<1> USE DEF Actuating, Fail, GoTo, RequireEmpty, director
<1>1. CASE BeginTick \/ Stop \/ Connect \/ OpenTrace \/ FetchState \/ OnTick \/ Prepared
      BY <1>1 DEF BeginTick, Stop, Connect, OpenTrace, FetchState, OnTick, Prepared
<1>2. CASE Execute \/ Quiesced \/ Power \/ Powered
      BY <1>2 DEF Execute, Quiesced, Power, Powered
<1>3. CASE Actuate
      BY <1>3, LoopAssumption DEF Actuate, TypeOK
<1>4. CASE Collect \/ SendBatch \/ StoreSequence \/ AwaitAck \/ Inject
      BY <1>4 DEF Collect, SendBatch, StoreSequence, AwaitAck, Inject
<1>5. CASE TraceTick \/ StartFinish \/ Finish \/ Terminal \/ StartAbort \/ Abort
      BY <1>5 DEF TraceTick, AfterTrace, StartFinish, Finish, Terminal, StartAbort, Abort, StopWriter
<1>6. CASE Writer \/ SpuriousWake
      BY <1>6 DEF Writer, WriterLooks, WriterWrites, WriterFails, SpuriousWake
<1>7. CASE FortyTwo \/ Vanish
      BY <1>7 DEF FortyTwo, Compute, Publish, TakeStateAck, TakeCommands, Apply, Answer, Vanish
<1>8. CASE UNCHANGED vars
      BY <1>8 DEF vars
<1> QED BY <1>1, <1>2, <1>3, <1>4, <1>5, <1>6, <1>7, <1>8 DEF Next, Callback

LEMMA ActuatingHolds == Spec => []Actuating
<1>1. Init => Actuating
      BY DEF Init, Actuating
<1> QED BY <1>1, TypeCorrect, ActuatingNext, PTL DEF Spec

\* A component emits for a tick of which 42 has applied nothing.
LEMMA ActuateIsEmit == IInv /\ TypeOK /\ Actuating /\ Actuate => Loop!Emit
<1> SUFFICES ASSUME IInv, TypeOK, Actuating, Actuate PROVE Loop!Emit
    OBVIOUS
<1>0. Ticks \in Nat /\ Components \in Nat
      BY LoopAssumption
<1>1. /\ pc = "actuate" /\ at <= Components
      /\ UNCHANGED <<tick, applied, committed>>
      BY DEF Actuate
<1>2. PICK p \in Progress, a \in Places, k \in Steps : Stage(p, a, k) /\ Here(p, k)
      BY DEF IInv
<1>3. p = "got" /\ k = tick /\ a # "answer" /\ k \in Int
      BY <1>0, <1>1, <1>2 DEF Here, Working, Stage, Meets, Steps
<1>4. committed < tick /\ applied[tick] = <<>>
      BY <1>2, <1>3 DEF Stage, Outcome
<1>5. PICK n \in Emits : emitted' = [emitted EXCEPT ![tick] = @ \o Emission(n)]
      BY DEF Actuate
<1>6. Emission(n) \in EmissionsOf(tick)
      <2>1. at \in 1..Components
            BY <1>0, <1>1 DEF TypeOK, Actuating
      <2> DEFINE E(m, c) == [i \in 1..m |-> <<tick, c, i>>]
      <2>2. Emission(n) = E(n, at) /\ EmissionsOf(tick) = {E(m, c) : m \in Emits, c \in 1..Components}
            BY DEF Emission, EmissionsOf
      <2> HIDE DEF E
      <2> QED BY <1>5, <2>1, <2>2
<1> QED BY <1>1, <1>2, <1>3, <1>4, <1>5, <1>6 DEF Loop!Emit

\* What 42 applies in its step is what has been emitted in the Director's tick.
LEMMA ApplyIsApply ==
    ASSUME IInv, Apply
    PROVE  Loop!Apply \/ UNCHANGED Loop!vars
<1>0. Ticks \in Nat /\ tick \in Int
      BY LoopAssumption DEF IInv, Shapes
<1>1. sim.at = "apply" /\ UNCHANGED <<tick, emitted, committed>>
      BY DEF Apply, director
<1>2. CASE UNCHANGED applied
      BY <1>1, <1>2 DEF Loop!vars
<1>3. CASE applied' = [applied EXCEPT ![sim.step] = Append(@, sim.held)]
      <2>1. PICK p \in Progress, a \in Places, k \in Steps : Stage(p, a, k) /\ Here(p, k)
            BY DEF IInv
      <2>2. sim.step = k /\ a = "apply" /\ p = "sent" /\ k \in Int
            BY <1>0, <1>1, <2>1 DEF Stage, Meets, Progress, Steps
      <2>3. committed = k - 1 /\ applied[k] = <<>> /\ sim.held = emitted[k]
            BY <2>1, <2>2 DEF Stage, Outcome
      <2>4. k = tick
            BY <1>0, <2>1, <2>2 DEF Here
      <2>5. applied' = [applied EXCEPT ![tick] = <<emitted[tick]>>]
            <3>1. applied' = [applied EXCEPT ![tick] = Append(<<>>, emitted[tick])]
                  BY <1>3, <2>2, <2>3, <2>4
            <3> QED BY <3>1, Tuples
      <2> QED BY <1>1, <2>2, <2>3, <2>4, <2>5 DEF Loop!Apply
<1> QED BY <1>2, <1>3 DEF Apply

\* The Director commits the tick whose batch has been applied.
LEMMA AckIsCommit ==
    ASSUME IInv, IInv', AwaitAck
    PROVE  Loop!Commit \/ UNCHANGED Loop!vars
<1>0. Ticks \in Nat /\ tick \in 0..Ticks
      BY LoopAssumption DEF IInv, Shapes
<1>1. pc = "ack" /\ UNCHANGED <<tick, emitted, applied>>
      BY DEF AwaitAck
<1>2. CASE UNCHANGED committed
      BY <1>1, <1>2 DEF Loop!vars
<1>3. CASE committed' = tick
      <2>1. committed = tick - 1 /\ tick \in Steps
            <3>1. PICK p \in Progress, a \in Places, k \in Steps : Stage(p, a, k) /\ Here(p, k)
                  BY DEF IInv
            <3>2. /\ k \in Int /\ k >= 1
                  /\ \/ p = "sent" /\ k = tick
                     \/ p = "answered" /\ k = tick + 1 /\ k > 1
                  BY <1>0, <1>1, <3>1 DEF Here, Stage, Steps
            <3>3. committed = IF p = "answered" THEN k - 2 ELSE k - 1
                  BY <3>1 DEF Stage, Outcome
            <3> QED BY <1>0, <3>2, <3>3 DEF Steps
      <2>2. applied'[tick] = <<emitted'[tick]>>
            <3>1. PICK p \in Progress, a \in Places, k \in Steps : Stage(p, a, k)'
                  BY DEF IInv, Steps
            <3> QED BY <1>0, <1>3, <2>1, <3>1 DEF Stage, Outcome, Steps
      <2>3. applied[tick] # <<>>
            BY <1>1, <2>2, Tuples
      <2> QED BY <1>0, <1>1, <1>3, <2>1, <2>3 DEF Loop!Commit
<1> QED BY <1>2, <1>3 DEF AwaitAck

\* The other steps touch neither the tick nor what is emitted, applied or committed.
LEMMA OthersStutter ==
    ASSUME [Next]_vars, ~BeginTick, ~Actuate, ~Apply, ~AwaitAck
    PROVE  UNCHANGED Loop!vars
<1> USE DEF Loop!vars, director, link, tracing, history
<1>1. CASE Stop \/ Connect \/ OpenTrace \/ FetchState \/ OnTick \/ Prepared \/ Execute
      BY <1>1 DEF Stop, Connect, OpenTrace, FetchState, OnTick, Prepared, Execute
<1>2. CASE Quiesced \/ Power \/ Powered \/ Collect \/ SendBatch \/ StoreSequence \/ Inject
      BY <1>2 DEF Quiesced, Power, Powered, Collect, SendBatch, StoreSequence, Inject
<1>3. CASE TraceTick \/ StartFinish \/ Finish \/ Terminal \/ StartAbort \/ Abort
      BY <1>3 DEF TraceTick, StartFinish, Finish, Terminal, StartAbort, Abort, StopWriter
<1>4. CASE Writer \/ SpuriousWake
      BY <1>4 DEF Writer, WriterLooks, WriterWrites, WriterFails, SpuriousWake
<1>5. CASE Compute \/ Publish \/ TakeStateAck \/ TakeCommands \/ Answer \/ Vanish
      BY <1>5 DEF Compute, Publish, TakeStateAck, TakeCommands, Answer, Vanish
<1>6. CASE UNCHANGED vars
      BY <1>6 DEF vars
<1> QED BY <1>1, <1>2, <1>3, <1>4, <1>5, <1>6 DEF Next, Callback, FortyTwo

LEMMA LoopNext ==
    IInv /\ IInv' /\ TypeOK /\ Actuating /\ [Next]_vars => [Loop!Next]_(Loop!vars)
<1> SUFFICES ASSUME IInv, IInv', TypeOK, Actuating, [Next]_vars PROVE [Loop!Next]_(Loop!vars)
    OBVIOUS
<1>1. CASE BeginTick
      BY <1>1, BeginIsBegin DEF Loop!Next
<1>2. CASE Actuate
      BY <1>2, ActuateIsEmit DEF Loop!Next
<1>3. CASE Apply
      BY <1>3, ApplyIsApply DEF Loop!Next
<1>4. CASE AwaitAck
      BY <1>4, AckIsCommit DEF Loop!Next
<1> QED BY <1>1, <1>2, <1>3, <1>4, OthersStutter

(***************************************************************************)
(* Whatever the link, and whoever fails, the loop is a strict alternation: *)
(* a tick begins only when 42 has applied all of the tick before, nothing  *)
(* is emitted for a tick of which 42 holds a result, and 42 applies one    *)
(* batch in each step (simulith_director.c 1395-1580,                      *)
(* simulith_42_socket_client.c 271-295 and 825-880).                       *)
(***************************************************************************)
THEOREM LoopImplementsSync == Spec => ImplementsLoopSync
BY Inductive, TypeCorrect, ActuatingHolds, LoopInitially, LoopNext, PTL DEF Spec, ImplementsLoopSync
=============================================================================
