----------------------- MODULE RecordingSessionProofs -----------------------
(***************************************************************************)
(* The safety invariants of RecordingSession hold for every set of callers *)
(* and every number of operations.  Frames says which actions may touch    *)
(* which group of variables; each conjunct of Inductive is then preserved  *)
(* by the few actions that can disturb it.                                 *)
(***************************************************************************)
EXTENDS RecordingSession, TLAPS

\* One-line conditions that every proof may open.
USE DEF Release, Attaches, Cancellable, MayGoLive, StillProcessing, Reverted

\* Which actions may change which variables.
LEMMA Frames ==
    ASSUME Next
    PROVE  /\ \/ UNCHANGED caller
              \/ \E c \in Callers : ToggleProcessing(c) \/ Cancel(c) \/ CallerStep(c)
           /\ \/ UNCHANGED sessionVars
              \/ \E c \in Callers : \/ ToggleIdle(c) \/ ToggleRecording(c)
                                    \/ ToggleProcessing(c) \/ ToggleRestart(c)
                                    \/ Cancel(c)
              \/ \E o \in Ops : WorkerCheck(o) \/ WorkerFinish(o)
              \/ \E g \in Gens : MicFailure(g)
              \/ TimeLimit
           /\ \/ UNCHANGED workVars
              \/ \E c \in Callers : ToggleRecording(c)
              \/ \E o \in Ops : WorkerStep(o)
              \/ TimeLimit
           /\ \/ UNCHANGED recVars
              \/ \E c \in Callers : \/ ToggleIdle(c) \/ ToggleRestart(c)
                                    \/ CancelTake(c) \/ CancelDrain(c)
              \/ \E o \in Ops : WorkerTake(o) \/ WorkerDrain(o)
              \/ \E g \in Gens : \/ Attach(g) \/ Fail(g) \/ OpenFails(g)
                                 \/ GuardFires(g) \/ Callback(g)
           /\ \/ UNCHANGED micVars
              \/ \E c \in Callers : ToggleIdle(c) \/ ToggleRestart(c) \/ CancelDrain(c)
              \/ \E o \in Ops : WorkerDrain(o)
              \/ \E g \in Gens : \/ OpenSucceeds(g) \/ OpenFails(g) \/ GuardFires(g)
                                 \/ MicThread(g) \/ FailureCallback(g)
           /\ \/ UNCHANGED hubVars
              \/ \E c \in Callers : \/ ToggleIdle(c) \/ ToggleRecording(c)
                                    \/ ToggleRestart(c) \/ Cancel(c) \/ CancelMark(c)
              \/ \E o \in Ops : WorkerHandle(o) \/ WorkerNotice(o) \/ WorkerMark(o)
              \/ \E g \in Gens : MicOpened(g) \/ TellFailure(g)
              \/ TimeLimit
<1> USE DEF Next, Step, EngineStep, Environment, Trigger, CallerStep, WorkerStep, MicThread,
        FailureCallback, TimeLimit, ToggleIdle, ToggleRecording, ToggleProcessing,
        ToggleRestart, ToggleNoop, Cancel, CancelMark, CancelTake, CancelDrain,
        OpenSucceeds, OpenFails, Attach, Fail, GuardFires, Callback, MicOpened,
        MicFailure, TellFailure, WorkerTake, WorkerDrain, WorkerCheck, WorkerEnterStt,
        WorkerTranscribe, WorkerHandle, WorkerNotice, WorkerFinish, WorkerMark, vars
<1>1. \/ UNCHANGED caller
      \/ \E c \in Callers : ToggleProcessing(c) \/ Cancel(c) \/ CallerStep(c)
  OBVIOUS
<1>2. \/ UNCHANGED sessionVars
      \/ \E c \in Callers : \/ ToggleIdle(c) \/ ToggleRecording(c)
                            \/ ToggleProcessing(c) \/ ToggleRestart(c) \/ Cancel(c)
      \/ \E o \in Ops : WorkerCheck(o) \/ WorkerFinish(o)
      \/ \E g \in Gens : MicFailure(g)
      \/ TimeLimit
  OBVIOUS
<1>3. \/ UNCHANGED workVars
      \/ \E c \in Callers : ToggleRecording(c)
      \/ \E o \in Ops : WorkerStep(o)
      \/ TimeLimit
  BY DEF StartLocked
<1>4. \/ UNCHANGED recVars
      \/ \E c \in Callers : \/ ToggleIdle(c) \/ ToggleRestart(c)
                            \/ CancelTake(c) \/ CancelDrain(c)
      \/ \E o \in Ops : WorkerTake(o) \/ WorkerDrain(o)
      \/ \E g \in Gens : \/ Attach(g) \/ Fail(g) \/ OpenFails(g)
                         \/ GuardFires(g) \/ Callback(g)
  BY DEF StopLocked
<1>5. \/ UNCHANGED micVars
      \/ \E c \in Callers : ToggleIdle(c) \/ ToggleRestart(c) \/ CancelDrain(c)
      \/ \E o \in Ops : WorkerDrain(o)
      \/ \E g \in Gens : \/ OpenSucceeds(g) \/ OpenFails(g) \/ GuardFires(g)
                         \/ MicThread(g) \/ FailureCallback(g)
  BY DEF StopLocked, StopTakes
<1>6. \/ UNCHANGED hubVars
      \/ \E c \in Callers : \/ ToggleIdle(c) \/ ToggleRecording(c)
                            \/ ToggleRestart(c) \/ Cancel(c) \/ CancelMark(c)
      \/ \E o \in Ops : WorkerHandle(o) \/ WorkerNotice(o) \/ WorkerMark(o)
      \/ \E g \in Gens : MicOpened(g) \/ TellFailure(g)
      \/ TimeLimit
  BY DEF hubVars
<1> QED BY <1>1, <1>2, <1>3, <1>4, <1>5, <1>6

\* The locations of the programs.
LEMMA Locations ==
    /\ {"ready", "superseding", "mark", "take", "drain"} \subseteq CallerPc
    /\ {"none", "take", "drain", "check", "stt", "run", "handle", "notice", "finish",
        "mark", "end"} \subseteq WorkerPc
    /\ {"none", "opening", "started", "attached", "failing"} \subseteq MicPc
    /\ {"none", "due", "mark", "tell"} \subseteq FailurePc
    /\ {"idle", "recording", "processing"} \subseteq SessionState
BY DEF CallerPc, WorkerPc, MicPc, FailurePc, SessionState

-----------------------------------------------------------------------------
(* Types.                                                                   *)

\* An operation in progress, or one a callback is bound to, has a number.
LEMMA Numbered ==
    ASSUME TypeOK, GenerationsInOrder, FreshGenerations
    PROVE  /\ state # "idle" => op \in Ops
           /\ \A g \in Gens : failure[g] # "none" => opOf[g] \in Ops
<1> USE MaxOpsAssumption
    DEF TypeOK, SessionTypeOK, RecTypeOK, MicTypeOK, Streams, Ops, Gens,
        GenerationsInOrder, FreshGenerations
<1>1. ASSUME state # "idle" PROVE op \in Ops
  BY <1>1
<1>2. ASSUME NEW g \in Gens, failure[g] # "none" PROVE opOf[g] \in Ops
  <2>1. g <= gen
    BY <1>2
  <2> QED BY <2>1
<1> QED BY <1>1, <1>2

LEMMA SessionType ==
    ASSUME TypeOK, GenerationsInOrder, FreshGenerations, Next
    PROVE  SessionTypeOK'
<1> USE MaxOpsAssumption, Locations, Numbered DEF TypeOK, SessionTypeOK, Ops, NoOp
<1>1. ASSUME StartLocked, superseded' = superseded PROVE SessionTypeOK'
  BY <1>1 DEF StartLocked
<1>2. ASSUME StopLocked PROVE SessionTypeOK'
  BY <1>2 DEF StopLocked
<1>3. ASSUME NEW c \in Callers, ToggleProcessing(c) PROVE SessionTypeOK'
  BY <1>3 DEF ToggleProcessing
<1>4. ASSUME NEW c \in Callers, ToggleRestart(c) PROVE SessionTypeOK'
  BY <1>1, <1>4 DEF ToggleRestart, sessionVars
<1>5. ASSUME NEW c \in Callers, Cancel(c) PROVE SessionTypeOK'
  <2>1. state' = "idle" /\ op' = op /\ superseded' = superseded \cup {op} /\ op \in Ops
    BY <1>5, Numbered DEF Cancel
  <2>2. timer' \in {NoOp, timer} /\ active' \in {NoOp, active}
    BY <1>5 DEF Cancel
  <2> QED BY <2>1, <2>2
<1>6. ASSUME NEW o \in Ops, WorkerCheck(o) \/ WorkerFinish(o) PROVE SessionTypeOK'
  <2>1. CASE WorkerCheck(o)
    BY <2>1 DEF WorkerCheck
  <2>2. CASE WorkerFinish(o)
    BY <2>2 DEF WorkerFinish
  <2> QED BY <1>6, <2>1, <2>2
<1>7. ASSUME NEW g \in Gens, MicFailure(g) PROVE SessionTypeOK'
  BY <1>7 DEF MicFailure
<1>8. CASE UNCHANGED sessionVars
  BY <1>8 DEF sessionVars
<1> QED BY Frames, <1>1, <1>2, <1>3, <1>4, <1>5, <1>6, <1>7, <1>8
        DEF ToggleIdle, ToggleRecording, TimeLimit

LEMMA CallerType ==
    ASSUME TypeOK, Next
    PROVE  CallerTypeOK'
<1> USE MaxOpsAssumption, Locations
    DEF TypeOK, CallerTypeOK, SessionTypeOK, RecTypeOK, Streams, Ready, NoOp
<1>1. ASSUME NEW c \in Callers, ToggleProcessing(c) PROVE CallerTypeOK'
  BY <1>1 DEF ToggleProcessing
<1>2. ASSUME NEW c \in Callers, Cancel(c) PROVE CallerTypeOK'
  <2>1. \E s \in {"recorder", "handler"} :
           caller' = [caller EXCEPT ![c] = [pc |-> "mark", op |-> op, stop |-> s, stream |-> 0]]
    BY <1>2 DEF Cancel
  <2> QED BY <2>1
<1>3. ASSUME NEW c \in Callers, ToggleRestart(c) PROVE CallerTypeOK'
  BY <1>3 DEF ToggleRestart
<1>4. ASSUME NEW c \in Callers, CancelMark(c) PROVE CallerTypeOK'
  BY <1>4 DEF CancelMark
<1>5. ASSUME NEW c \in Callers, CancelTake(c) PROVE CallerTypeOK'
  <2>1. CASE recorder = "recording"
    BY <1>5, <2>1 DEF CancelTake, StopTakes
  <2>2. CASE recorder = "stopped"
    BY <1>5, <2>2 DEF CancelTake, StopTakes
  <2> QED BY <2>1, <2>2
<1>6. ASSUME NEW c \in Callers, CancelDrain(c) PROVE CallerTypeOK'
  BY <1>6 DEF CancelDrain
<1> QED BY Frames, <1>1, <1>2, <1>3, <1>4, <1>5, <1>6 DEF CallerStep

LEMMA WorkType ==
    ASSUME TypeOK, Next
    PROVE  WorkTypeOK'
<1> USE MaxOpsAssumption, Locations DEF TypeOK, WorkTypeOK, Streams, Goto
<1>1. ASSUME StopLocked PROVE WorkTypeOK'
  BY <1>1 DEF StopLocked
<1>2. ASSUME NEW o \in Ops, WorkerTake(o) PROVE WorkTypeOK'
  <2>1. CASE recorder = "recording"
    BY <1>2, <2>1 DEF WorkerTake, RecTypeOK
  <2>2. CASE recorder = "stopped"
    BY <1>2, <2>2 DEF WorkerTake, StopTakes
  <2> QED BY <2>1, <2>2 DEF RecTypeOK
<1>3. ASSUME NEW o \in Ops, WorkerDrain(o) PROVE WorkTypeOK'
  <2>1. \E to \in {"check", "notice", "finish"} : worker' = [worker EXCEPT ![o] = to]
    BY <1>3 DEF WorkerDrain, AfterError
  <2>2. \E g \in {0, gen} : held' = [held EXCEPT ![o] = g]
    BY <1>3 DEF WorkerDrain
  <2> QED BY <2>1, <2>2 DEF RecTypeOK
<1>4. ASSUME NEW o \in Ops, WorkerCheck(o) \/ WorkerTranscribe(o) PROVE WorkTypeOK'
  BY <1>4 DEF WorkerCheck, WorkerTranscribe, AfterWarn, AfterError
<1>5. ASSUME NEW o \in Ops, WorkerEnterStt(o) \/ WorkerHandle(o) \/ WorkerNotice(o)
      PROVE WorkTypeOK'
  BY <1>5 DEF WorkerEnterStt, WorkerHandle, WorkerNotice, AfterError
<1>6. ASSUME NEW o \in Ops, WorkerFinish(o) \/ WorkerMark(o) PROVE WorkTypeOK'
  BY <1>6 DEF WorkerFinish, WorkerMark
<1>7. CASE UNCHANGED workVars
  BY <1>7 DEF workVars
<1> QED BY Frames, <1>1, <1>2, <1>3, <1>4, <1>5, <1>6, <1>7
        DEF WorkerStep, ToggleRecording, TimeLimit

LEMMA RecType ==
    ASSUME TypeOK, gen <= op, Next
    PROVE  RecTypeOK'
<1> USE MaxOpsAssumption DEF TypeOK, SessionTypeOK, RecTypeOK, Ops, Gens, Streams
<1>1. ASSUME StartLocked PROVE RecTypeOK'
  <2>1. CASE recorder = "recording"
    BY <1>1, <2>1 DEF StartLocked, recVars
  <2>2. CASE recorder = "stopped"
    <3>1. op + 1 \in 0..MaxOps /\ gen + 1 \in Gens
      BY <1>1 DEF StartLocked
    <3>2. /\ recorder' = "recording" /\ chunks' = "none" /\ stream' = 0 /\ gen' = gen + 1
          /\ opOf' = [opOf EXCEPT ![gen + 1] = op + 1] /\ reported' = reported
          /\ inflight' = inflight \cup {gen + 1} \/ inflight' = inflight
      BY <1>1, <2>2 DEF StartLocked, RecorderStart
    <3>3. opOf' \in [Gens -> 0..MaxOps]
      BY <3>1, <3>2
    <3>4. inflight \cup {gen + 1} \in SUBSET Gens
      BY <3>1
    <3>5. gen' \in 0..MaxOps /\ stream' \in 0..MaxOps /\ reported' \in 0..MaxOps
      BY <3>1, <3>2
    <3>6. inflight' \in SUBSET Gens
      BY <3>2, <3>4
    <3>7. recorder' \in {"recording", "stopped"} /\ chunks' \in {"none", "some"}
      BY <3>2
    <3> QED BY <3>3, <3>5, <3>6, <3>7
  <2> QED BY <2>1, <2>2
<1>2. ASSUME StopTakes PROVE RecTypeOK'
  BY <1>2 DEF StopTakes
<1>3. ASSUME NEW s, StopDrains(s) PROVE RecTypeOK'
  BY <1>3 DEF StopDrains
<1>4. ASSUME NEW g \in Gens, Attach(g) PROVE RecTypeOK'
  BY <1>4 DEF Attach
<1>5. ASSUME NEW g \in Gens, OpenFails(g) \/ Fail(g) \/ GuardFires(g) PROVE RecTypeOK'
  <2>1. CASE OpenFails(g)
    BY <2>1 DEF OpenFails, Claim
  <2>2. CASE Fail(g)
    BY <2>2 DEF Fail, Claim
  <2>3. CASE GuardFires(g)
    BY <2>3 DEF GuardFires, Claim
  <2> QED BY <1>5, <2>1, <2>2, <2>3
<1>6. ASSUME NEW g \in Gens, Callback(g) PROVE RecTypeOK'
  BY <1>6 DEF Callback
<1>7. CASE UNCHANGED recVars
  BY <1>7 DEF recVars
<1> QED BY Frames, <1>1, <1>2, <1>3, <1>4, <1>5, <1>6, <1>7
        DEF ToggleIdle, ToggleRestart, CancelTake, CancelDrain, WorkerTake, WorkerDrain

LEMMA MicType ==
    ASSUME TypeOK, gen <= op, Next
    PROVE  MicTypeOK'
<1> USE MaxOpsAssumption, Locations DEF TypeOK, MicTypeOK
<1>1. ASSUME StartLocked PROVE MicTypeOK'
  BY <1>1 DEF StartLocked, RecorderStart, micVars
<1>2. ASSUME NEW s, StopDrains(s) PROVE MicTypeOK'
  BY <1>2 DEF StopDrains
<1>3. ASSUME NEW g \in Gens, OpenSucceeds(g) \/ Attach(g) \/ MicOpened(g) PROVE MicTypeOK'
  BY <1>3 DEF OpenSucceeds, Attach, MicOpened
<1>4. ASSUME NEW g \in Gens, OpenFails(g) \/ Fail(g) \/ GuardFires(g) PROVE MicTypeOK'
  BY <1>4 DEF OpenFails, Fail, GuardFires, Claim
<1>5. ASSUME NEW g \in Gens, MicFailure(g) \/ TellFailure(g) PROVE MicTypeOK'
  BY <1>5 DEF MicFailure, TellFailure
<1>6. CASE UNCHANGED micVars
  BY <1>6 DEF micVars
<1> QED BY Frames, <1>1, <1>2, <1>3, <1>4, <1>5, <1>6
        DEF ToggleIdle, ToggleRestart, CancelDrain, WorkerDrain, MicThread,
            FailureCallback

LEMMA HubType ==
    ASSUME TypeOK, GenerationsInOrder, FreshGenerations, Next
    PROVE  HubTypeOK'
<1> USE MaxOpsAssumption, Locations DEF TypeOK, SessionTypeOK, HubTypeOK, Ops, Publish, HubIdle
<1>1. ASSUME StartLocked PROVE HubTypeOK'
  BY <1>1 DEF StartLocked
<1>2. ASSUME StopLocked PROVE HubTypeOK'
  BY <1>2 DEF StopLocked
<1>3. ASSUME NEW c \in Callers, Cancel(c) PROVE HubTypeOK'
  BY <1>3, Numbered DEF Cancel
<1>4. ASSUME NEW c \in Callers, CancelMark(c) PROVE HubTypeOK'
  BY <1>4 DEF CancelMark
<1>5. ASSUME NEW o \in Ops, WorkerHandle(o) \/ WorkerNotice(o) \/ WorkerMark(o)
      PROVE HubTypeOK'
  BY <1>5 DEF WorkerHandle, WorkerNotice, WorkerMark
<1>6. ASSUME NEW g \in Gens, MicOpened(g) PROVE HubTypeOK'
  BY <1>6 DEF MicOpened
<1>7. ASSUME NEW g \in Gens, TellFailure(g) PROVE HubTypeOK'
  BY <1>7, Numbered DEF TellFailure
<1>8. CASE UNCHANGED hubVars
  BY <1>8 DEF hubVars
<1> QED BY Frames, <1>1, <1>2, <1>3, <1>4, <1>5, <1>6, <1>7, <1>8
        DEF ToggleIdle, ToggleRecording, ToggleRestart, TimeLimit

\* A step keeps every variable in its type.
LEMMA TypeStep ==
    ASSUME TypeOK, GenerationsInOrder, FreshGenerations, [Next]_vars
    PROVE  TypeOK'
<1>1. CASE Next
  BY <1>1, SessionType, CallerType, WorkType, RecType, MicType, HubType
     DEF TypeOK, GenerationsInOrder
<1>2. CASE UNCHANGED vars
  BY <1>2 DEF vars, sessionVars, workVars, recVars, micVars, hubVars, TypeOK,
     SessionTypeOK, CallerTypeOK, WorkTypeOK, RecTypeOK, MicTypeOK, HubTypeOK
<1> QED BY <1>1, <1>2

-----------------------------------------------------------------------------
(* Operations, generations and what is under way for them.                  *)

\* How the session's state and numbering move.
LEMMA SessionMoves ==
    ASSUME TypeOK, Next
    PROVE  \/ StartLocked /\ state \in {"idle", "processing"}
           \/ /\ UNCHANGED <<op, gen, opOf>>
              /\ \/ state' \in {state, "idle"}
                 \/ StopLocked /\ state = "recording"
<1>1. \/ StartLocked /\ state \in {"idle", "processing"}
      \/ UNCHANGED <<op, gen, opOf>>
  <2>1. \/ StartLocked /\ state \in {"idle", "processing"}
        \/ UNCHANGED op
    BY Frames DEF sessionVars, ToggleIdle, ToggleRecording, ToggleProcessing,
       ToggleRestart, Cancel, WorkerCheck, WorkerFinish, MicFailure, TimeLimit, StopLocked
  <2>2. \/ StartLocked /\ state \in {"idle", "processing"}
        \/ UNCHANGED <<gen, opOf>>
    BY Frames DEF recVars, ToggleIdle, ToggleRestart, CancelTake, CancelDrain, WorkerTake,
       WorkerDrain, StopTakes, StopDrains, Attach, Fail, OpenFails, GuardFires, Callback
  <2> QED BY <2>1, <2>2
<1>2. \/ StartLocked /\ state \in {"idle", "processing"}
      \/ state' \in {state, "idle"}
      \/ StopLocked /\ state = "recording"
  BY Frames DEF sessionVars, ToggleIdle, ToggleRecording, ToggleProcessing,
     ToggleRestart, Cancel, WorkerCheck, WorkerFinish, MicFailure, TimeLimit
<1> QED BY <1>1, <1>2

LEMMA OrderStep ==
    ASSUME TypeOK, GenerationsInOrder, Next
    PROVE  GenerationsInOrder'
<1> USE MaxOpsAssumption
    DEF TypeOK, SessionTypeOK, RecTypeOK, Ops, Gens, Streams, GenerationsInOrder
<1>1. CASE StartLocked /\ recorder = "recording"
  BY <1>1 DEF StartLocked, recVars
<1>2. CASE StartLocked /\ recorder = "stopped"
  <2>1. /\ op' = op + 1 /\ gen' = gen + 1 /\ gen + 1 \in Gens
        /\ opOf' = [opOf EXCEPT ![gen + 1] = op + 1]
    BY <1>2 DEF StartLocked, RecorderStart
  <2>2. opOf'[gen + 1] = op + 1 /\ \A g \in 1..gen : opOf'[g] = opOf[g]
    BY <2>1
  <2> QED BY <2>1, <2>2
<1>3. CASE UNCHANGED <<op, gen, opOf>> /\ state' \in {state, "idle"}
  BY <1>3
<1>4. CASE UNCHANGED <<op, gen, opOf>> /\ StopLocked /\ state = "recording"
  BY <1>4 DEF StopLocked
<1> QED BY SessionMoves, <1>1, <1>2, <1>3, <1>4

\* How the recorder and its threads move.
LEMMA RecorderMoves ==
    ASSUME Next
    PROVE  \/ StartLocked
           \/ StopTakes
           \/ \E s : StopDrains(s)
           \/ \E g \in Gens : \/ OpenSucceeds(g) \/ OpenFails(g) \/ Callback(g) \/ GuardFires(g)
                              \/ MicThread(g) \/ FailureCallback(g)
           \/ UNCHANGED <<recVars, micVars>>
BY DEF Next, Step, EngineStep, Environment, Trigger, CallerStep, WorkerStep, StopLocked, TimeLimit,
       ToggleIdle, ToggleRecording, ToggleProcessing, ToggleRestart, ToggleNoop, Cancel,
       CancelMark, CancelTake, CancelDrain, WorkerTake, WorkerDrain, WorkerCheck,
       WorkerEnterStt, WorkerTranscribe, WorkerHandle, WorkerNotice, WorkerFinish,
       WorkerMark, vars

LEMMA FreshStep ==
    ASSUME TypeOK, gen <= op, FreshGenerations, Next
    PROVE  FreshGenerations'
<1> USE MaxOpsAssumption
    DEF TypeOK, SessionTypeOK, RecTypeOK, MicTypeOK, Ops, Gens, Streams, FreshGenerations
<1>1. CASE StartLocked
  <2>1. CASE recorder = "recording"
    BY <1>1, <2>1 DEF StartLocked, recVars, micVars
  <2>2. CASE recorder = "stopped"
    <3>1. /\ gen' = gen + 1 /\ gen + 1 \in Gens
          /\ failure' = failure /\ reported' = reported
          /\ \A g \in Gens : g # gen + 1 => mic'[g] = mic[g]
          /\ inflight' \subseteq inflight \cup {gen + 1}
      BY <1>1, <2>2 DEF StartLocked, RecorderStart
    <3> QED BY <3>1
  <2> QED BY <2>1, <2>2
<1>2. ASSUME NEW g \in Gens, OpenSucceeds(g) \/ Attach(g) \/ MicOpened(g)
      PROVE FreshGenerations'
  BY <1>2 DEF OpenSucceeds, Attach, MicOpened, recVars
<1>3. ASSUME NEW g \in Gens, OpenFails(g) PROVE FreshGenerations'
  BY <1>3 DEF OpenFails, Claim, CanClaim
<1>4. ASSUME NEW g \in Gens, Fail(g) PROVE FreshGenerations'
  BY <1>4 DEF Fail, Claim, CanClaim
<1>5. ASSUME NEW g \in Gens, GuardFires(g) PROVE FreshGenerations'
  BY <1>5 DEF GuardFires, Claim, CanClaim
<1>6. ASSUME NEW g \in Gens, MicFailure(g) \/ TellFailure(g) PROVE FreshGenerations'
  BY <1>6 DEF MicFailure, TellFailure, recVars
<1>7. ASSUME NEW g \in Gens, Callback(g) PROVE FreshGenerations'
  BY <1>7 DEF Callback, micVars
<1>8. CASE StopTakes \/ \E s : StopDrains(s)
  BY <1>8 DEF StopTakes, StopDrains, micVars
<1>9. CASE UNCHANGED <<recVars, micVars>>
  BY <1>9 DEF recVars, micVars
<1> QED BY RecorderMoves, <1>1, <1>2, <1>3, <1>4, <1>5, <1>6, <1>7, <1>8, <1>9
        DEF MicThread, FailureCallback

LEMMA StreamStep ==
    ASSUME TypeOK, gen <= op, FreshGenerations, StreamIsCurrent, Next
    PROVE  StreamIsCurrent'
<1> USE MaxOpsAssumption
    DEF TypeOK, SessionTypeOK, RecTypeOK, MicTypeOK, Ops, Gens, Streams, StreamIsCurrent
<1>1. CASE StartLocked
  <2>1. CASE recorder = "recording"
    BY <1>1, <2>1 DEF StartLocked, recVars, micVars
  <2>2. CASE recorder = "stopped"
    BY <1>1, <2>2 DEF StartLocked, RecorderStart, FreshGenerations
  <2> QED BY <2>1, <2>2
<1>2. ASSUME NEW g \in Gens, OpenSucceeds(g) \/ MicOpened(g) PROVE StreamIsCurrent'
  BY <1>2 DEF OpenSucceeds, MicOpened, recVars
<1>3. ASSUME NEW g \in Gens, Attach(g) PROVE StreamIsCurrent'
  BY <1>3 DEF Attach
<1>4. ASSUME NEW g \in Gens, OpenFails(g) PROVE StreamIsCurrent'
  BY <1>4 DEF OpenFails, Claim, CanClaim
<1>5. ASSUME NEW g \in Gens, Fail(g) PROVE StreamIsCurrent'
  BY <1>5 DEF Fail, Claim, CanClaim
<1>6. ASSUME NEW g \in Gens, GuardFires(g) PROVE StreamIsCurrent'
  BY <1>6 DEF GuardFires, Claim, CanClaim
<1>7. ASSUME NEW g \in Gens, MicFailure(g) \/ TellFailure(g) PROVE StreamIsCurrent'
  BY <1>7 DEF MicFailure, TellFailure, recVars
<1>8. ASSUME NEW g \in Gens, Callback(g) PROVE StreamIsCurrent'
  BY <1>8 DEF Callback, micVars
<1>9. CASE StopTakes \/ \E s : StopDrains(s)
  BY <1>9 DEF StopTakes, StopDrains, micVars
<1>10. CASE UNCHANGED <<recVars, micVars>>
  BY <1>10 DEF recVars, micVars
<1> QED BY RecorderMoves, <1>1, <1>2, <1>3, <1>4, <1>5, <1>6, <1>7, <1>8, <1>9, <1>10
        DEF MicThread, FailureCallback

-----------------------------------------------------------------------------
(* Transcribe threads and their samples.                                    *)

\* How the Transcribe threads move.
LEMMA WorkerMoves ==
    ASSUME TypeOK, Next
    PROVE  \/ UNCHANGED workVars
           \/ StopLocked /\ state = "recording"
           \/ \E o \in Ops : /\ WorkerStep(o)
                            /\ worker[o] # "none"
                            /\ \A p \in Ops \ {o} : /\ worker'[p] = worker[p]
                                                    /\ held'[p] = held[p]
<1>1. ASSUME NEW o \in Ops, WorkerStep(o)
      PROVE  /\ worker[o] # "none"
             /\ \A p \in Ops \ {o} : worker'[p] = worker[p] /\ held'[p] = held[p]
  BY <1>1 DEF TypeOK, WorkTypeOK, WorkerStep, WorkerTake, WorkerDrain, WorkerCheck,
     WorkerEnterStt, WorkerTranscribe, WorkerHandle, WorkerNotice, WorkerFinish,
     WorkerMark, Goto
<1> QED BY Frames, <1>1 DEF ToggleRecording, TimeLimit

LEMMA WorkersStep ==
    ASSUME TypeOK, GenerationsInOrder, FreshGenerations, WorkersAreOld, Next
    PROVE  WorkersAreOld'
<1> USE MaxOpsAssumption DEF TypeOK, SessionTypeOK, WorkTypeOK, Ops, WorkersAreOld
<1>1. CASE StartLocked
  <2>1. op' = op + 1 /\ op + 1 \in Ops /\ worker' = worker
    BY <1>1 DEF StartLocked, workVars
  <2> QED BY <2>1
<1>2. CASE UNCHANGED op /\ StopLocked /\ state = "recording"
  BY <1>2, Numbered DEF StopLocked
<1>3. CASE UNCHANGED op /\ state' \in {state, "idle"} /\ ~ StopLocked
  <2>1. CASE UNCHANGED workVars
    BY <1>3, <2>1 DEF workVars
  <2>2. ASSUME NEW o \in Ops, worker[o] # "none",
               \A p \in Ops \ {o} : worker'[p] = worker[p]
        PROVE  WorkersAreOld'
    BY <1>3, <2>2, Numbered
  <2> QED BY <1>3, <2>1, <2>2, WorkerMoves
<1> QED BY SessionMoves, <1>1, <1>2, <1>3 DEF StopLocked

LEMMA HeldStep ==
    ASSUME TypeOK, GenerationsInOrder, FreshGenerations, WorkersAreOld, HeldIsOwn, Next
    PROVE  HeldIsOwn'
<1> USE MaxOpsAssumption
    DEF TypeOK, SessionTypeOK, RecTypeOK, WorkTypeOK, Ops, Gens, Streams, HeldIsOwn,
        GenerationsInOrder
<1>1. CASE StartLocked
  <2>1. worker' = worker /\ held' = held /\ state' # "processing"
    BY <1>1 DEF StartLocked, workVars
  <2>2. gen' \in Nat /\ gen <= gen'
    BY <1>1 DEF StartLocked, RecorderStart, recVars
  <2> QED BY <2>1, <2>2
<1>2. CASE UNCHANGED <<op, gen, opOf>> /\ StopLocked /\ state = "recording"
  <2>1. op \in Ops /\ worker[op] = "none" /\ held' = held /\ worker' = [worker EXCEPT ![op] = "take"]
    BY <1>2, Numbered DEF StopLocked, WorkersAreOld
  <2> QED BY <1>2, <2>1
<1>3. CASE UNCHANGED <<op, gen, opOf>> /\ state' \in {state, "idle"}
           /\ UNCHANGED workVars
  BY <1>3 DEF workVars
<1>4. ASSUME UNCHANGED <<op, gen, opOf>>, state' \in {state, "idle"},
             NEW o \in Ops, WorkerStep(o),
             \A p \in Ops \ {o} : worker'[p] = worker[p] /\ held'[p] = held[p]
      PROVE  HeldIsOwn'
  <2>1. CASE WorkerTake(o)
    <3>1. held[o] = 0
      BY <2>1 DEF WorkerTake, Goto
    <3>2. CASE worker' = [worker EXCEPT ![o] = "drain"]
      BY <1>4, <3>2
    <3>3. CASE worker' = [worker EXCEPT ![o] = "check"] /\ held' = held
      BY <1>4, <3>1, <3>3
    <3> QED BY <2>1, <3>2, <3>3 DEF WorkerTake, Goto
  <2>2. CASE WorkerDrain(o)
    <3>1. \/ worker' = [worker EXCEPT ![o] = "check"] /\ held' \in {[held EXCEPT ![o] = g] : g \in {0, gen}}
          \/ worker' = [worker EXCEPT ![o] = AfterError(o)] /\ held' = [held EXCEPT ![o] = 0]
      BY <2>2 DEF WorkerDrain, Goto
    <3>2. worker'[o] \in {"check", "notice", "finish"} /\ held'[o] \in {0, gen}
      BY <3>1 DEF AfterError
    <3>3. op = o /\ state' = "processing" => opOf[gen] = o
      BY <1>4
    <3>4. held'[o] <= gen /\ gen' = gen /\ opOf' = opOf /\ op' = op
      BY <1>4, <3>2
    <3> QED BY <1>4, <3>2, <3>3, <3>4
  <2>3. CASE WorkerCheck(o)
    BY <1>4, <2>3 DEF WorkerCheck, Goto, AfterWarn
  <2>4. CASE WorkerEnterStt(o) \/ WorkerTranscribe(o)
    BY <1>4, <2>4 DEF WorkerEnterStt, WorkerTranscribe, Goto, AfterWarn, AfterError
  <2>5. CASE WorkerHandle(o) \/ WorkerNotice(o)
    BY <1>4, <2>5 DEF WorkerHandle, WorkerNotice, Goto, AfterError
  <2>6. CASE WorkerFinish(o) \/ WorkerMark(o)
    BY <1>4, <2>6 DEF WorkerFinish, WorkerMark, Goto
  <2> QED BY <1>4, <2>1, <2>2, <2>3, <2>4, <2>5, <2>6 DEF WorkerStep
<1> QED BY SessionMoves, WorkerMoves, <1>1, <1>2, <1>3, <1>4 DEF StopLocked

LEMMA OwnAudioStep ==
    ASSUME TypeOK, GenerationsInOrder, FreshGenerations, WorkersAreOld, HeldIsOwn, OwnAudio, Next
    PROVE  OwnAudio'
<1> USE MaxOpsAssumption
    DEF TypeOK, SessionTypeOK, RecTypeOK, WorkTypeOK, Ops, Gens, Streams, OwnAudio
<1>1. CASE StartLocked
  <2>1. worker' = worker /\ held' = held
    BY <1>1 DEF StartLocked, workVars
  <2>2. \A g \in 1..gen : opOf'[g] = opOf[g]
    BY <1>1 DEF StartLocked, RecorderStart, recVars
  <2>3. ASSUME NEW o \in Ops, worker[o] \in {"stt", "run", "handle"}
        PROVE  held[o] \in 1..gen /\ opOf[held[o]] = o
    BY <2>3 DEF HeldIsOwn
  <2> QED BY <2>1, <2>2, <2>3
<1>2. CASE UNCHANGED opOf /\ StopLocked /\ state = "recording"
  BY <1>2, Numbered DEF StopLocked
<1>3. CASE UNCHANGED opOf /\ UNCHANGED workVars
  BY <1>3 DEF workVars
<1>4. ASSUME UNCHANGED opOf, NEW o \in Ops, WorkerStep(o),
             \A p \in Ops \ {o} : worker'[p] = worker[p] /\ held'[p] = held[p]
      PROVE  OwnAudio'
  <2>1. CASE WorkerTake(o) \/ WorkerDrain(o)
    <3>1. worker'[o] \in {"drain", "check", "notice", "finish"}
      BY <2>1 DEF WorkerTake, WorkerDrain, Goto, AfterError
    <3> QED BY <1>4, <3>1
  <2>2. CASE WorkerCheck(o)
    BY <1>4, <2>2 DEF WorkerCheck, Goto, AfterWarn, HeldIsOwn
  <2>3. CASE WorkerEnterStt(o)
    BY <1>4, <2>3 DEF WorkerEnterStt, Goto
  <2>4. CASE WorkerTranscribe(o)
    BY <1>4, <2>4 DEF WorkerTranscribe, Goto, AfterWarn, AfterError
  <2>5. CASE WorkerHandle(o) \/ WorkerNotice(o)
    BY <1>4, <2>5 DEF WorkerHandle, WorkerNotice, Goto, AfterError
  <2>6. CASE WorkerFinish(o) \/ WorkerMark(o)
    BY <1>4, <2>6 DEF WorkerFinish, WorkerMark, Goto
  <2> QED BY <1>4, <2>1, <2>2, <2>3, <2>4, <2>5, <2>6 DEF WorkerStep
<1> QED BY SessionMoves, WorkerMoves, <1>1, <1>2, <1>3, <1>4

-----------------------------------------------------------------------------
(* Threads that owe an operation its return to idle in the hub.             *)

\* A caller runs into a debt by cancelling the current operation and pays it.
LEMMA CallerDebts ==
    ASSUME TypeOK, Next, NEW x
    PROVE  /\ (\E c \in Callers : caller[c].pc = "mark" /\ caller[c].op = x)' =>
                  \/ \E c \in Callers : caller[c].pc = "mark" /\ caller[c].op = x
                  \/ x = op /\ state' = "idle" /\ op' = op
           /\ (\E c \in Callers : caller[c].pc = "mark" /\ caller[c].op = x) =>
                  \/ (\E c \in Callers : caller[c].pc = "mark" /\ caller[c].op = x)'
                  \/ hub' = HubIdle(x)
<1> USE DEF TypeOK, CallerTypeOK, Ready
<1>1. ASSUME NEW d \in Callers, caller'[d].pc = "mark"
      PROVE  \/ caller[d] = caller'[d]
             \/ caller'[d].op = op /\ state' = "idle" /\ op' = op
  <2>1. ASSUME NEW c \in Callers, ToggleProcessing(c) \/ ToggleRestart(c)
        PROVE  caller[d] = caller'[d]
    BY <1>1, <2>1 DEF ToggleProcessing, ToggleRestart
  <2>2. ASSUME NEW c \in Callers, CancelMark(c) \/ CancelTake(c) \/ CancelDrain(c)
        PROVE  caller[d] = caller'[d]
    BY <1>1, <2>2 DEF CancelMark, CancelTake, CancelDrain
  <2>3. ASSUME NEW c \in Callers, Cancel(c)
        PROVE  \/ caller[d] = caller'[d]
               \/ caller'[d].op = op /\ state' = "idle" /\ op' = op
    BY <2>3 DEF Cancel
  <2> QED BY Frames, <2>1, <2>2, <2>3 DEF CallerStep
<1>2. ASSUME NEW d \in Callers, caller[d].pc = "mark"
      PROVE  caller'[d] = caller[d] \/ hub' = HubIdle(caller[d].op)
  <2>1. ASSUME NEW c \in Callers, ToggleProcessing(c) \/ ToggleRestart(c) \/ Cancel(c)
        PROVE  caller'[d] = caller[d]
    BY <1>2, <2>1 DEF ToggleProcessing, ToggleRestart, Cancel
  <2>2. ASSUME NEW c \in Callers, CancelTake(c) \/ CancelDrain(c)
        PROVE  caller'[d] = caller[d]
    BY <1>2, <2>2 DEF CancelTake, CancelDrain
  <2>3. ASSUME NEW c \in Callers, CancelMark(c)
        PROVE  caller'[d] = caller[d] \/ hub' = HubIdle(caller[d].op)
    BY <2>3 DEF CancelMark
  <2> QED BY Frames, <2>1, <2>2, <2>3 DEF CallerStep
<1> QED BY <1>1, <1>2

\* A Transcribe thread runs into a debt by finishing the current operation.
LEMMA WorkerDebts ==
    ASSUME TypeOK, Next, NEW x
    PROVE  /\ (\E p \in Ops : worker[p] = "mark" /\ p = x)' =>
                  \/ \E p \in Ops : worker[p] = "mark" /\ p = x
                  \/ x = op /\ state' = "idle" /\ op' = op
           /\ (\E p \in Ops : worker[p] = "mark" /\ p = x) =>
                  \/ (\E p \in Ops : worker[p] = "mark" /\ p = x)'
                  \/ hub' = HubIdle(x)
                  \/ StopLocked /\ state = "recording" /\ x = op
<1> USE DEF TypeOK, WorkTypeOK
<1>1. ASSUME StopLocked
      PROVE  /\ \A p \in Ops : p # op => worker'[p] = worker[p]
             /\ \A p \in Ops : worker'[p] = "mark" => worker[p] = "mark"
  BY <1>1 DEF StopLocked
<1>2. ASSUME NEW o \in Ops, WorkerStep(o), ~ WorkerFinish(o), ~ WorkerMark(o)
      PROVE  worker[o] # "mark" /\ worker'[o] # "mark"
  <2>1. \E from \in {"take", "drain", "check", "stt", "run", "handle", "notice"},
           to \in {"drain", "check", "stt", "run", "handle", "notice", "finish"} :
               Goto(o, from, to)
    BY <1>2 DEF WorkerStep, WorkerTake, WorkerDrain, WorkerCheck, WorkerEnterStt,
       WorkerTranscribe, WorkerHandle, WorkerNotice, AfterWarn, AfterError
  <2> QED BY <2>1 DEF Goto
<1>3. ASSUME NEW o \in Ops, WorkerFinish(o), worker'[o] = "mark"
      PROVE  o = op /\ state' = "idle" /\ op' = op
  BY <1>3 DEF WorkerFinish, Goto
<1>4. ASSUME NEW o \in Ops, WorkerFinish(o)
      PROVE  worker[o] # "mark"
  BY <1>4 DEF WorkerFinish, Goto
<1>5. ASSUME NEW o \in Ops, WorkerMark(o)
      PROVE  hub' = HubIdle(o) /\ worker'[o] # "mark"
  BY <1>5 DEF WorkerMark, Goto
<1> QED BY WorkerMoves, <1>1, <1>2, <1>3, <1>4, <1>5 DEF workVars

\* A failing generation runs into a debt by ending its own recording.
LEMMA MicDebts ==
    ASSUME TypeOK, gen <= op, FreshGenerations, Next, NEW x
    PROVE  /\ (\E g \in Gens : failure[g] = "mark" /\ opOf[g] = x)' =>
                  \/ \E g \in Gens : failure[g] = "mark" /\ opOf[g] = x
                  \/ x = op /\ state' = "idle" /\ op' = op
           /\ (\E g \in Gens : failure[g] = "mark" /\ opOf[g] = x) =>
                  \/ (\E g \in Gens : failure[g] = "mark" /\ opOf[g] = x)'
                  \/ hub' = HubIdle(x)
<1> USE MaxOpsAssumption
    DEF TypeOK, SessionTypeOK, MicTypeOK, RecTypeOK, Ops, Gens, Streams
<1>1. CASE StartLocked
  <2>1. failure' = failure
    BY <1>1 DEF StartLocked, RecorderStart, micVars
  <2>2. \A g \in Gens : g <= gen => opOf'[g] = opOf[g]
    BY <1>1 DEF StartLocked, RecorderStart, recVars
  <2>3. \A g \in Gens : failure[g] = "mark" => g <= gen
    BY DEF FreshGenerations
  <2> QED BY <2>1, <2>2, <2>3
<1>2. CASE StopTakes \/ (\E s : StopDrains(s)) \/ UNCHANGED <<recVars, micVars>>
  BY <1>2 DEF StopTakes, StopDrains, recVars, micVars
<1>3. ASSUME NEW g \in Gens, OpenSucceeds(g) \/ Callback(g) \/ Attach(g) \/ MicOpened(g)
      PROVE  UNCHANGED <<failure, opOf>>
  BY <1>3 DEF OpenSucceeds, Callback, Attach, MicOpened, recVars, micVars
<1>4. ASSUME NEW g \in Gens, OpenFails(g) \/ Fail(g) \/ GuardFires(g)
      PROVE  /\ UNCHANGED opOf
             /\ \/ UNCHANGED failure
                \/ reported < g /\ failure' = [failure EXCEPT ![g] = "due"]
  <2>1. CASE OpenFails(g)
    BY <2>1 DEF OpenFails, CanClaim, Claim
  <2>2. CASE Fail(g)
    BY <2>2 DEF Fail, CanClaim, Claim
  <2>3. CASE GuardFires(g)
    BY <2>3 DEF GuardFires, CanClaim, Claim
  <2> QED BY <1>4, <2>1, <2>2, <2>3
<1>5. ASSUME NEW g \in Gens, MicFailure(g)
      PROVE  /\ UNCHANGED opOf
             /\ failure[g] = "due"
             /\ \A h \in Gens : h # g => failure'[h] = failure[h]
             /\ failure'[g] = "mark" => op = opOf[g] /\ state' = "idle" /\ op' = op
  BY <1>5 DEF MicFailure, recVars
<1>6. ASSUME NEW g \in Gens, TellFailure(g)
      PROVE  /\ UNCHANGED opOf
             /\ failure' = [failure EXCEPT ![g] = "none"]
             /\ failure[g] = "mark" => hub' = HubIdle(opOf[g])
  BY <1>6 DEF TellFailure, recVars
<1>7. \A g \in Gens : failure[g] # "none" => ~ reported < g
  BY DEF FreshGenerations
<1> QED BY RecorderMoves, <1>1, <1>2, <1>3, <1>4, <1>5, <1>6, <1>7
        DEF MicThread, FailureCallback

\* Nobody owes anything to an operation that was not opened.
LEMMA OwedIsPast ==
    ASSUME TypeOK, GenerationsInOrder, FreshGenerations, WorkersAreOld, DebtsAreOld,
           NEW x \in Nat, OwesIdle(x)
    PROVE  x <= op
<1> USE MaxOpsAssumption
    DEF TypeOK, SessionTypeOK, RecTypeOK, MicTypeOK, WorkTypeOK, Ops, Gens, Streams
<1>1. CASE \E c \in Callers : caller[c].pc = "mark" /\ caller[c].op = x
  BY <1>1 DEF DebtsAreOld
<1>2. CASE \E p \in Ops : worker[p] = "mark" /\ p = x
  BY <1>2 DEF WorkersAreOld
<1>3. ASSUME NEW g \in Gens, failure[g] = "mark", opOf[g] = x
      PROVE  x <= op
  BY <1>3 DEF FreshGenerations, GenerationsInOrder
<1> QED BY <1>1, <1>2, <1>3 DEF OwesIdle

\* Debts are made by those who return the session to idle, and paid to the hub.
LEMMA Debts ==
    ASSUME TypeOK, gen <= op, FreshGenerations, Next, NEW x
    PROVE  /\ OwesIdle(x)' => \/ OwesIdle(x)
                              \/ x = op /\ state' = "idle" /\ op' = op
           /\ OwesIdle(x) => \/ OwesIdle(x)'
                             \/ hub' = HubIdle(x)
                             \/ StopLocked /\ state = "recording" /\ x = op
BY CallerDebts, WorkerDebts, MicDebts DEF OwesIdle

LEMMA DebtsStep ==
    ASSUME TypeOK, GenerationsInOrder, FreshGenerations, WorkersAreOld, DebtsAreOld, Next
    PROVE  DebtsAreOld'
<1>1. op \in Nat /\ op' \in {op, op + 1}
  <2>1. op \in Nat
    BY MaxOpsAssumption DEF TypeOK, SessionTypeOK
  <2>2. StartLocked => op' = op + 1
    BY DEF StartLocked
  <2>3. op' = op \/ StartLocked
    BY SessionMoves
  <2> QED BY <2>1, <2>2, <2>3
<1>2. ASSUME NEW x \in Nat, OwesIdle(x)'
      PROVE  \/ OwesIdle(x) /\ x <= op
             \/ x = op /\ state' = "idle" /\ op' = op
  BY <1>2, Debts, OwedIsPast DEF GenerationsInOrder
<1>3. ASSUME NEW c \in Callers, caller'[c].pc = "mark", NEW x, x = caller'[c].op
      PROVE  x <= op'
  <2>1. x \in Nat
    BY <1>3, CallerType, MaxOpsAssumption DEF CallerTypeOK
  <2>2. OwesIdle(x)'
    BY <1>3 DEF OwesIdle
  <2> QED BY <1>1, <1>2, <2>1, <2>2
<1>4. ASSUME NEW x, x = op', OwesIdle(op)'
      PROVE  state' = "idle"
  <2>1. OwesIdle(x)'
    BY <1>4 DEF OwesIdle
  <2>2. \/ op' = op /\ OwesIdle(x)
        \/ op' = op /\ state' = "idle"
    BY <1>1, <1>2, <1>4, <2>1
  <2>3. ASSUME op' = op, OwesIdle(x)
        PROVE  state = "idle"
    BY <1>4, <2>3 DEF DebtsAreOld, OwesIdle
  <2> QED BY <1>1, <2>2, <2>3, SessionMoves DEF StartLocked
<1> QED BY <1>3, <1>4 DEF DebtsAreOld

-----------------------------------------------------------------------------
(* The hub follows the session.                                             *)

\* Whoever returns the session to idle owes the operation its mark_idle.
LEMMA IdleOwes ==
    ASSUME TypeOK, GenerationsInOrder, FreshGenerations, Next, ~ StartLocked,
           state # "idle", state' = "idle", NEW x, x = op
    PROVE  OwesIdle(x)'
<1> USE DEF TypeOK
<1>1. op \in Ops
  BY Numbered
<1>2. ASSUME NEW c \in Callers, Cancel(c) PROVE OwesIdle(x)'
  BY <1>2 DEF Cancel, CallerTypeOK, OwesIdle
<1>3. ASSUME NEW o \in Ops, WorkerFinish(o) PROVE OwesIdle(x)'
  BY <1>3 DEF WorkerFinish, Goto, WorkTypeOK, OwesIdle
<1>4. ASSUME NEW g \in Gens, MicFailure(g) PROVE OwesIdle(x)'
  BY <1>4 DEF MicFailure, MicTypeOK, recVars, OwesIdle
<1> QED BY Frames, <1>2, <1>3, <1>4
        DEF sessionVars, StopLocked, ToggleIdle, ToggleRecording, ToggleProcessing,
            ToggleRestart, WorkerCheck, TimeLimit

\* How the hub's operation moves.
LEMMA HubMoves ==
    ASSUME TypeOK, Next
    PROVE  \/ StartLocked
           \/ StopLocked /\ state = "recording"
           \/ hub'.op = hub.op /\ hub'.state = hub.state
           \/ \E x : OwesIdle(x) /\ hub' = HubIdle(x)
<1> USE DEF TypeOK, HubTypeOK
<1>1. ASSUME NEW c \in Callers, CancelMark(c) PROVE \E x : OwesIdle(x) /\ hub' = HubIdle(x)
  BY <1>1 DEF CancelMark, OwesIdle
<1>2. ASSUME NEW o \in Ops, WorkerMark(o) PROVE \E x : OwesIdle(x) /\ hub' = HubIdle(x)
  BY <1>2 DEF WorkerMark, Goto, OwesIdle
<1>3. ASSUME NEW g \in Gens, TellFailure(g)
      PROVE  \/ hub' = hub
             \/ \E x : OwesIdle(x) /\ hub' = HubIdle(x)
  BY <1>3 DEF TellFailure, OwesIdle
<1>4. ASSUME NEW g \in Gens, MicOpened(g) PROVE hub'.op = hub.op /\ hub'.state = hub.state
  BY <1>4 DEF MicOpened
<1> QED BY Frames, <1>1, <1>2, <1>3, <1>4
        DEF hubVars, ToggleIdle, ToggleRecording, ToggleRestart, TimeLimit, Cancel,
            WorkerHandle, WorkerNotice

LEMMA HubStep ==
    ASSUME TypeOK, GenerationsInOrder, FreshGenerations, DebtsAreOld, HubFollowsSession, Next
    PROVE  HubFollowsSession'
<1>1. CASE StartLocked
  BY <1>1 DEF StartLocked, HubFollowsSession
<1>2. CASE StopLocked /\ state = "recording"
  <2>1. hub'.op = hub.op /\ hub'.state = "processing"
    BY <1>2 DEF StopLocked, TypeOK, HubTypeOK
  <2> QED BY <1>2, <2>1 DEF StopLocked, HubFollowsSession
<1>3. CASE ~ StartLocked /\ ~ (StopLocked /\ state = "recording")
  <2>1. op' = op /\ state' \in {state, "idle"}
    BY <1>3, SessionMoves
  <2>2. hub'.op = hub.op
    BY <1>3, HubMoves DEF HubIdle, TypeOK, HubTypeOK
  <2>3. ASSUME NEW x, x = op, hub'.state # state'
        PROVE  state' = "idle" /\ OwesIdle(x)'
    <3>1. CASE state = "idle" /\ hub.state = "idle"
      BY <1>3, <2>1, <2>3, <3>1, HubMoves DEF HubIdle, TypeOK, HubTypeOK
    <3>2. CASE state = "idle" /\ hub.state # "idle"
      <4>1. OwesIdle(x)
        BY <2>3, <3>2 DEF HubFollowsSession, OwesIdle
      <4>2. hub' # HubIdle(x)
        BY <2>1, <2>3, <3>2 DEF HubFollowsSession, HubIdle, TypeOK, HubTypeOK
      <4> QED BY <1>3, <2>1, <3>2, <4>1, <4>2, Debts DEF GenerationsInOrder
    <3>3. CASE state # "idle" /\ state' = "idle"
      BY <1>3, <2>3, <3>3, IdleOwes
    <3>4. CASE state # "idle" /\ state' = state
      <4>1. hub.state = state /\ hub.op = op
        BY <3>4 DEF HubFollowsSession
      <4>2. ASSUME NEW y, OwesIdle(y), hub' = HubIdle(y)
            PROVE  hub' = hub
        BY <3>4, <4>1, <4>2 DEF HubIdle, DebtsAreOld, OwesIdle
      <4> QED BY <1>3, <2>3, <3>4, <4>1, <4>2, HubMoves
    <3> QED BY <2>1, <3>1, <3>2, <3>3, <3>4
  <2> QED BY <2>1, <2>2, <2>3 DEF HubFollowsSession, OwesIdle
<1> QED BY <1>1, <1>2, <1>3

-----------------------------------------------------------------------------
(* The recorder has an owner, its streams have a holder.                    *)

\* A thread on its way to recorder.stop() gets there.
LEMMA StopperStays ==
    ASSUME TypeOK, Next, WillStop, recorder' = "recording"
    PROVE  WillStop'
<1>1. ASSUME NEW o \in Ops, worker[o] = "take" PROVE WillStop'
  <2>1. ASSUME NEW p \in Ops, WorkerStep(p), worker'[o] # "take" PROVE WorkerTake(o)
    BY <1>1, <2>1 DEF TypeOK, WorkTypeOK, WorkerStep, WorkerDrain, WorkerTake, WorkerCheck,
       WorkerEnterStt, WorkerTranscribe, WorkerHandle, WorkerNotice, WorkerFinish,
       WorkerMark, Goto
  <2>2. ~ WorkerTake(o)
    BY DEF WorkerTake, StopTakes, recVars
  <2>3. ASSUME StopLocked PROVE worker'[o] = "take"
    BY <1>1, <2>3 DEF StopLocked, TypeOK, WorkTypeOK
  <2>4. worker'[o] = "take"
    BY <1>1, <2>1, <2>2, <2>3, WorkerMoves DEF workVars
  <2> QED BY <2>4 DEF WillStop
<1>2. ASSUME NEW d \in Callers, caller[d].stop = "recorder", caller[d].pc \in {"mark", "take"}
      PROVE  WillStop'
  <2> USE DEF TypeOK, CallerTypeOK
  <2>1. ASSUME NEW c \in Callers, ToggleProcessing(c) \/ ToggleRestart(c) \/ Cancel(c)
        PROVE  caller'[d] = caller[d]
    BY <1>2, <2>1 DEF ToggleProcessing, ToggleRestart, Cancel
  <2>2. ASSUME NEW c \in Callers, CancelMark(c) \/ CancelDrain(c)
        PROVE  caller'[d].stop = "recorder" /\ caller'[d].pc \in {"mark", "take"}
    BY <1>2, <2>2 DEF CancelMark, CancelDrain
  <2>3. ASSUME NEW c \in Callers, CancelTake(c)
        PROVE  FALSE
    BY <2>3 DEF CancelTake, StopTakes, recVars
  <2>4. caller'[d].stop = "recorder" /\ caller'[d].pc \in {"mark", "take"}
    BY <1>2, <2>1, <2>2, <2>3, Frames DEF CallerStep
  <2> QED BY <2>4 DEF WillStop
<1> QED BY <1>1, <1>2 DEF WillStop

LEMMA OwnerStep ==
    ASSUME TypeOK, GenerationsInOrder, FreshGenerations, StreamIsCurrent, RecorderHasOwner,
           Next, recorder' = "recording"
    PROVE  \/ state' = "recording" /\ gen' \in Gens /\ opOf'[gen'] = op'
           \/ WillStop'
<1>1. CASE StartLocked
  <2>1. CASE recorder = "recording"
    BY <1>1, <2>1, StopperStays, SessionMoves DEF RecorderHasOwner, StartLocked
  <2>2. CASE recorder = "stopped"
    <3>1. gen \in 0..MaxOps /\ op \in 0..MaxOps /\ gen + 1 \in Gens
      BY <1>1, MaxOpsAssumption
         DEF StartLocked, TypeOK, SessionTypeOK, RecTypeOK, Streams, Gens, GenerationsInOrder
    <3> QED BY <1>1, <2>2, <3>1 DEF StartLocked, RecorderStart, TypeOK, RecTypeOK
  <2> QED BY <2>1, <2>2 DEF TypeOK, RecTypeOK
<1>2. CASE ~ StartLocked
  <2>1. recorder = "recording"
    BY <1>2, RecorderMoves
       DEF TypeOK, RecTypeOK, StopTakes, StopDrains, OpenSucceeds, OpenFails, Callback,
           GuardFires, MicThread, FailureCallback, Attach, Fail, MicOpened, MicFailure,
           TellFailure, Claim, recVars
  <2>2. CASE WillStop
    BY <2>2, StopperStays
  <2>3. CASE state = "recording" /\ gen \in Gens /\ opOf[gen] = op
    <3>1. UNCHANGED <<op, gen, opOf>>
      BY <1>2, SessionMoves
    <3>2. CASE state' = "recording"
      BY <2>3, <3>1, <3>2
    <3>3. CASE StopLocked
      BY <2>3, <3>3, Numbered DEF StopLocked, WillStop, TypeOK, WorkTypeOK
    <3>4. CASE state' = "idle"
      <4>1. ASSUME NEW c \in Callers, Cancel(c) PROVE WillStop'
        BY <2>3, <4>1 DEF Cancel, WillStop, TypeOK, CallerTypeOK
      <4>2. ASSUME NEW g \in Gens, MicFailure(g) PROVE FALSE
        <5>1. failure[g] # "none" /\ opOf[g] = opOf[gen]
          BY <2>3, <3>4, <4>2 DEF MicFailure
        <5>2. g \in 1..gen /\ gen \in 1..gen
          BY <2>3, <5>1, MaxOpsAssumption DEF FreshGenerations, TypeOK, RecTypeOK, Gens, Streams
        <5>3. g = gen
          BY <5>1, <5>2, MaxOpsAssumption
             DEF GenerationsInOrder, TypeOK, SessionTypeOK, RecTypeOK, Gens, Streams
        <5> QED BY <2>1, <5>1, <5>3 DEF StreamIsCurrent
      <4> QED BY <1>2, <2>3, <3>4, <4>1, <4>2, Frames
              DEF sessionVars, StopLocked, ToggleIdle, ToggleRecording, ToggleProcessing,
                  ToggleRestart, WorkerCheck, WorkerFinish, TimeLimit
    <3> QED BY <1>2, <2>3, <3>2, <3>3, <3>4, SessionMoves
  <2> QED BY <2>1, <2>2, <2>3 DEF RecorderHasOwner
<1> QED BY <1>1, <1>2

\* A step that opens no stream and takes none from its holder orphans none.
LEMMA HoldersStay ==
    ASSUME NoOrphanStream, running' \subseteq running,
           \A g \in running' : stream = g => stream' = g,
           \A g \in running' : mic[g] = "started" => mic'[g] = "started",
           \A o \in Ops : worker[o] = "drain" => worker'[o] = "drain" /\ held'[o] = held[o],
           \A c \in Callers : caller[c].pc = "drain" => caller'[c] = caller[c]
    PROVE  NoOrphanStream'
BY DEF NoOrphanStream

LEMMA OrphanStep ==
    ASSUME TypeOK, GenerationsInOrder, FreshGenerations, StreamIsCurrent, WorkersAreOld,
           NoOrphanStream, Next
    PROVE  NoOrphanStream'
<1> USE DEF TypeOK
<1>1. ASSUME StartLocked, \A c \in Callers : caller[c].pc = "drain" => caller'[c] = caller[c]
      PROVE  NoOrphanStream'
  <2>1. CASE recorder = "recording"
    BY <1>1, <2>1, HoldersStay DEF StartLocked, recVars, micVars, workVars
  <2>2. CASE recorder = "stopped"
    <3>1. stream \notin running
      BY <2>2 DEF StreamIsCurrent, MicTypeOK, Gens
    <3>2. \A g \in running : mic[g] = "started" => mic'[g] = "started"
      <4>1. gen \in 0..MaxOps /\ gen + 1 \notin 1..gen
        BY MaxOpsAssumption DEF RecTypeOK, Streams
      <4>2. \A g \in Gens : mic[g] # "none" => g # gen + 1
        BY <4>1, MaxOpsAssumption DEF FreshGenerations, Gens
      <4> QED BY <1>1, <2>2, <4>2 DEF StartLocked, RecorderStart, MicTypeOK
    <3>3. running' = running /\ UNCHANGED workVars
      BY <1>1, <2>2 DEF StartLocked, RecorderStart
    <3> QED BY <1>1, <3>1, <3>2, <3>3, HoldersStay DEF workVars
  <2> QED BY <2>1, <2>2 DEF RecTypeOK
<1>2. ASSUME StopLocked, state = "recording", UNCHANGED caller PROVE NoOrphanStream'
  BY <1>2, Numbered, HoldersStay
     DEF StopLocked, WorkersAreOld, WorkTypeOK, recVars, micVars
<1>3. ASSUME NEW c \in Callers, ToggleProcessing(c) \/ Cancel(c) \/ CancelMark(c)
      PROVE  NoOrphanStream'
  BY <1>3, HoldersStay
     DEF ToggleProcessing, Cancel, CancelMark, CallerTypeOK, workVars, recVars, micVars
<1>4. ASSUME NEW c \in Callers, ToggleRestart(c) PROVE NoOrphanStream'
  <2>1. \A d \in Callers : caller[d].pc = "drain" => caller'[d] = caller[d]
    BY <1>4 DEF ToggleRestart, CallerTypeOK
  <2> QED BY <1>1, <1>4, <2>1, HoldersStay DEF ToggleRestart, workVars, recVars, micVars
<1>5. ASSUME NEW c \in Callers, CancelTake(c) PROVE NoOrphanStream'
  <2>1. CASE recorder = "recording"
    <3>1. /\ caller'[c].pc = "drain" /\ caller'[c].stream = stream
          /\ \A d \in Callers \ {c} : caller'[d] = caller[d]
          /\ caller[c].pc # "drain"
          /\ UNCHANGED <<worker, held, mic, running>>
      BY <1>5, <2>1 DEF CancelTake, StopTakes, CallerTypeOK, workVars, micVars
    <3> QED BY <3>1 DEF NoOrphanStream
  <2>2. CASE recorder = "stopped"
    BY <1>5, <2>2, HoldersStay
       DEF CancelTake, StopTakes, CallerTypeOK, workVars, recVars, micVars
  <2> QED BY <2>1, <2>2 DEF RecTypeOK
<1>6. ASSUME NEW c \in Callers, CancelDrain(c) PROVE NoOrphanStream'
  <2>1. /\ running' = running \ {caller[c].stream}
        /\ \A d \in Callers \ {c} : caller'[d] = caller[d]
        /\ UNCHANGED <<worker, held, mic, stream>>
    BY <1>6 DEF CancelDrain, StopDrains, CallerTypeOK, workVars
  <2> QED BY <2>1 DEF NoOrphanStream
<1>7. ASSUME NEW o \in Ops, WorkerTake(o) PROVE NoOrphanStream'
  <2>1. CASE StopTakes
    <3>1. /\ worker'[o] = "drain" /\ held'[o] = stream /\ worker[o] # "drain"
          /\ \A p \in Ops \ {o} : worker'[p] = worker[p] /\ held'[p] = held[p]
          /\ UNCHANGED <<caller, mic, running>>
      BY <1>7, <2>1 DEF WorkerTake, StopTakes, Goto, WorkTypeOK, micVars
    <3> QED BY <3>1 DEF NoOrphanStream
  <2>2. CASE recorder = "stopped" /\ Goto(o, "take", "check") /\ UNCHANGED <<held, recVars, micVars>>
    BY <1>7, <2>2, HoldersStay DEF WorkerTake, Goto, WorkTypeOK, recVars, micVars
  <2> QED BY <1>7, <2>1, <2>2 DEF WorkerTake
<1>8. ASSUME NEW o \in Ops, WorkerDrain(o) PROVE NoOrphanStream'
  <2>1. /\ running' = running \ {held[o]}
        /\ \A p \in Ops \ {o} : worker'[p] = worker[p] /\ held'[p] = held[p]
        /\ UNCHANGED <<caller, mic, stream>>
    BY <1>8 DEF WorkerDrain, StopDrains, Goto, WorkTypeOK
  <2> QED BY <2>1 DEF NoOrphanStream
<1>9. ASSUME NEW o \in Ops, WorkerStep(o), ~ WorkerTake(o), ~ WorkerDrain(o)
      PROVE  NoOrphanStream'
  <2>1. worker[o] # "drain" /\ UNCHANGED <<caller, running, stream, mic>>
    BY <1>9 DEF WorkerStep, WorkerCheck, WorkerEnterStt, WorkerTranscribe, WorkerHandle,
       WorkerNotice, WorkerFinish, WorkerMark, Goto, recVars, micVars
  <2>2. \A p \in Ops \ {o} : worker'[p] = worker[p] /\ held'[p] = held[p]
    BY <1>9 DEF WorkerStep, WorkerCheck, WorkerEnterStt, WorkerTranscribe, WorkerHandle,
       WorkerNotice, WorkerFinish, WorkerMark, Goto, WorkTypeOK
  <2> QED BY <2>1, <2>2, HoldersStay
<1>10. ASSUME NEW g \in Gens, OpenSucceeds(g) PROVE NoOrphanStream'
  <2>1. /\ running' = running \cup {g} /\ mic' = [mic EXCEPT ![g] = "started"]
        /\ UNCHANGED <<caller, worker, held, stream>>
    BY <1>10 DEF OpenSucceeds, workVars, recVars
  <2> QED BY <2>1 DEF NoOrphanStream, MicTypeOK
<1>11. ASSUME NEW g \in Gens, Attach(g) PROVE NoOrphanStream'
  <2>1. CASE recorder = "recording" /\ gen = g
    <3>1. /\ stream' = g /\ UNCHANGED <<caller, worker, held, running>>
          /\ \A h \in Gens \ {g} : mic'[h] = mic[h]
      BY <1>11, <2>1 DEF Attach, MicTypeOK, workVars
    <3>2. stream = 0 \/ stream = g
      BY <2>1 DEF StreamIsCurrent
    <3> QED BY <3>1, <3>2 DEF NoOrphanStream, MicTypeOK, Gens
  <2>2. CASE ~ (recorder = "recording" /\ gen = g)
    <3>1. /\ running' = running \ {g} /\ UNCHANGED <<caller, worker, held, stream>>
          /\ \A h \in Gens \ {g} : mic'[h] = mic[h]
      BY <1>11, <2>2 DEF Attach, MicTypeOK, workVars
    <3> QED BY <3>1 DEF NoOrphanStream, MicTypeOK
  <2> QED BY <2>1, <2>2
<1>12. ASSUME NEW g \in Gens, OpenFails(g) \/ Fail(g) \/ MicOpened(g) PROVE NoOrphanStream'
  <2>1. /\ mic[g] # "started" /\ mic' = [mic EXCEPT ![g] = "none"]
        /\ UNCHANGED <<caller, worker, held, stream, running>>
    BY <1>12 DEF OpenFails, Fail, MicOpened, recVars, workVars
  <2> QED BY <2>1, HoldersStay DEF MicTypeOK
<1>13. ASSUME NEW g \in Gens, Callback(g) \/ GuardFires(g) \/ FailureCallback(g)
       PROVE  NoOrphanStream'
  <2>1. UNCHANGED <<caller, worker, held, stream, mic, running>>
    BY <1>13 DEF Callback, GuardFires, FailureCallback, MicFailure, TellFailure, recVars,
       workVars, micVars
  <2> QED BY <2>1, HoldersStay
<1>14. ASSUME NEW c \in Callers, ToggleNoop(c) PROVE NoOrphanStream'
  BY <1>14, HoldersStay DEF ToggleNoop, vars, workVars, recVars, micVars
<1> QED
  BY <1>1, <1>2, <1>3, <1>4, <1>5, <1>6, <1>7, <1>8, <1>9, <1>10, <1>11, <1>12, <1>13, <1>14
     DEF Next, Step, EngineStep, Environment, Trigger, CallerStep, MicThread, TimeLimit,
         ToggleIdle, ToggleRecording

-----------------------------------------------------------------------------
(* The theorems.                                                            *)

LEMMA InitInductive ==
    ASSUME Init
    PROVE  Inductive
<1> USE MaxOpsAssumption, Locations
    DEF Init, NoOp, Ops, Gens, Streams, Ready, OwesIdle
<1>1. SessionTypeOK /\ CallerTypeOK /\ WorkTypeOK
  BY DEF SessionTypeOK, CallerTypeOK, WorkTypeOK
<1>2. RecTypeOK /\ MicTypeOK /\ HubTypeOK
  BY DEF RecTypeOK, MicTypeOK, HubTypeOK
<1>3. GenerationsInOrder /\ FreshGenerations /\ StreamIsCurrent
  BY DEF GenerationsInOrder, FreshGenerations, StreamIsCurrent
<1>4. WorkersAreOld /\ DebtsAreOld /\ HeldIsOwn
  BY DEF WorkersAreOld, DebtsAreOld, HeldIsOwn
<1>5. HubFollowsSession /\ RecorderHasOwner /\ NoOrphanStream /\ OwnAudio
  BY DEF HubFollowsSession, RecorderHasOwner, NoOrphanStream, OwnAudio
<1> QED BY <1>1, <1>2, <1>3, <1>4, <1>5 DEF Inductive, TypeOK

LEMMA InductiveStep ==
    ASSUME Inductive, [Next]_vars
    PROVE  Inductive'
<1> USE DEF Inductive
<1>1. CASE Next
  <2>1. gen <= op
    BY DEF GenerationsInOrder
  <2>2. RecorderHasOwner'
    BY <1>1, OwnerStep DEF RecorderHasOwner
  <2> QED BY <1>1, <2>1, <2>2, TypeStep, OrderStep, FreshStep, StreamStep, WorkersStep,
             DebtsStep, HeldStep, HubStep, OrphanStep, OwnAudioStep
<1>2. CASE UNCHANGED vars
  BY <1>2, TypeStep
     DEF vars, sessionVars, workVars, recVars, micVars, hubVars, GenerationsInOrder,
         FreshGenerations, StreamIsCurrent, WorkersAreOld, DebtsAreOld, HeldIsOwn,
         HubFollowsSession, RecorderHasOwner, NoOrphanStream, OwnAudio, OwesIdle, WillStop
<1> QED BY <1>1, <1>2

\* Every reachable state satisfies the inductive invariant.
THEOREM InductiveInvariant == Spec => []Inductive
<1>1. [Next]_<<vars, overtaken>> => [Next]_vars
  OBVIOUS
<1> QED BY InitInductive, InductiveStep, <1>1, PTL DEF Spec

\* The variables of the session, the recorder and the hub keep their types.
THEOREM TypeCorrect == Spec => []TypeOK
<1>1. Inductive => TypeOK
  BY DEF Inductive
<1> QED BY <1>1, InductiveInvariant, PTL

\* The hub shows the session's operation, and a state that differs from the
\* session's only until a thread delivers the mark_idle it owes.
THEOREM HubNeverLosesSession == Spec => []HubFollowsSession
<1>1. Inductive => HubFollowsSession
  BY DEF Inductive
<1> QED BY <1>1, InductiveInvariant, PTL

\* A recorder left recording serves the session's own recording, or a thread
\* is on its way to stop it.
THEOREM RecorderIsOwned == Spec => []RecorderHasOwner
<1>1. Inductive => RecorderHasOwner
  BY DEF Inductive
<1> QED BY <1>1, InductiveInvariant, PTL

\* Every stream that delivers samples is the recorder's or has a thread that
\* is about to attach, discard or stop it: none is leaked.
THEOREM NoStreamLeaks == Spec => []NoOrphanStream
<1>1. Inductive => NoOrphanStream
  BY DEF Inductive
<1> QED BY <1>1, InductiveInvariant, PTL

\* What is transcribed for an operation was recorded for that operation.
THEOREM TranscriptIsOwn == Spec => []OwnAudio
<1>1. Inductive => OwnAudio
  BY DEF Inductive
<1> QED BY <1>1, InductiveInvariant, PTL

-----------------------------------------------------------------------------
(* What people are told about their dictation: mic_live and the answer of  *)
(* a stopped operation.  Each follows from the inductive invariant and one  *)
(* strengthening of its own.                                                *)

\* An operation of the session in progress has a number.
LEMMA OpNumbered ==
    ASSUME Inductive, state # "idle"
    PROVE  op \in Ops
BY Numbered DEF Inductive

-----------------------------------------------------------------------------
(* mic_live.                                                                *)

LEMMA AttachedStep ==
    ASSUME Inductive, AttachedIsStream, [Next]_vars
    PROVE  AttachedIsStream'
<1> USE DEF Inductive, TypeOK, RecTypeOK, MicTypeOK, Gens, Streams, AttachedIsStream
<1>1. CASE StartLocked
  <2>1. CASE recorder = "recording"
    BY <1>1, <2>1 DEF StartLocked, recVars, micVars
  <2>2. CASE recorder = "stopped"
    <3>1. gen' = gen + 1
      BY <1>1, <2>2 DEF StartLocked, RecorderStart
    <3>2. gen + 1 \in Gens => mic'[gen + 1] \in {"opening", "failing"}
      BY <1>1, <2>2 DEF StartLocked, RecorderStart
    <3> QED BY <3>1, <3>2
  <2> QED BY <2>1, <2>2
<1>2. CASE StopTakes
  BY <1>2 DEF StopTakes
<1>3. ASSUME NEW s, StopDrains(s) PROVE AttachedIsStream'
  BY <1>3 DEF StopDrains
<1>4. ASSUME NEW g \in Gens, OpenSucceeds(g) PROVE AttachedIsStream'
  BY <1>4 DEF OpenSucceeds, recVars
<1>5. ASSUME NEW g \in Gens, Attach(g) PROVE AttachedIsStream'
  <2>1. /\ UNCHANGED <<gen, recorder>>
        /\ \A h \in Gens \ {g} : mic'[h] = mic[h]
    BY <1>5 DEF Attach
  <2>2. CASE recorder = "recording" /\ gen = g
    BY <1>5, <2>1, <2>2 DEF Attach
  <2>3. CASE ~ (recorder = "recording" /\ gen = g)
    BY <1>5, <2>1, <2>3 DEF Attach
  <2> QED BY <2>2, <2>3
<1>6. ASSUME NEW g \in Gens, OpenFails(g) \/ Fail(g) \/ GuardFires(g)
      PROVE  AttachedIsStream'
  <2>1. /\ gen' = gen /\ stream' = stream /\ recorder' \in {recorder, "stopped"}
        /\ \A h \in Gens : mic'[h] \in {mic[h], "none"}
    <3>1. CASE OpenFails(g)
      BY <3>1 DEF OpenFails, Claim
    <3>2. CASE Fail(g)
      BY <3>2 DEF Fail, Claim
    <3>3. CASE GuardFires(g)
      BY <3>3 DEF GuardFires, Claim
    <3> QED BY <1>6, <3>1, <3>2, <3>3
  <2> QED BY <2>1
<1>7. ASSUME NEW g \in Gens, MicOpened(g) \/ FailureCallback(g) \/ Callback(g)
      PROVE  AttachedIsStream'
  <2>1. /\ gen' = gen /\ stream' = stream /\ recorder' = recorder
        /\ \A h \in Gens : mic'[h] \in {mic[h], "none"}
    BY <1>7 DEF MicOpened, FailureCallback, MicFailure, TellFailure, Callback, recVars,
       micVars
  <2> QED BY <2>1
<1>8. CASE UNCHANGED <<recVars, micVars>>
  BY <1>8 DEF recVars, micVars
<1>9. CASE Next
  BY <1>1, <1>2, <1>3, <1>4, <1>5, <1>6, <1>7, <1>8, <1>9, RecorderMoves DEF MicThread
<1> QED BY <1>8, <1>9 DEF vars

\* What may turn mic_live on, and what stops the recording it belongs to.
LEMMA LiveMoves ==
    ASSUME TypeOK, Next
    PROVE  \/ StartLocked
           \/ hub'.mic = "off"
           \/ /\ hub'.mic = hub.mic \/ \E g \in Gens : MicOpened(g)
              /\ UNCHANGED <<gen, op, opOf>>
              /\ state' = "recording" => state = "recording"
              /\ recorder' = "recording" => recorder = "recording" /\ stream' \in {stream, gen}
<1> USE DEF TypeOK, HubTypeOK, RecTypeOK, MicTypeOK
<1>1. \/ StartLocked
      \/ hub'.mic = "off"
      \/ hub'.mic = hub.mic
      \/ \E g \in Gens : MicOpened(g)
  <2>1. ASSUME StopLocked PROVE hub'.mic = "off"
    BY <2>1 DEF StopLocked
  <2>2. ASSUME NEW x, hub' = HubIdle(x) PROVE hub'.mic \in {"off", hub.mic}
    BY <2>2 DEF HubIdle
  <2>3. ASSUME NEW g \in Gens, TellFailure(g) PROVE hub'.mic \in {"off", hub.mic}
    BY <2>2, <2>3 DEF TellFailure
  <2>4. ASSUME NEW o \in Ops, WorkerHandle(o) \/ WorkerNotice(o) \/ WorkerMark(o)
        PROVE  hub'.mic \in {"off", hub.mic}
    BY <2>2, <2>4 DEF WorkerHandle, WorkerNotice, WorkerMark
  <2>5. ASSUME NEW c \in Callers, Cancel(c) \/ CancelMark(c)
        PROVE  hub'.mic \in {"off", hub.mic}
    BY <2>2, <2>5 DEF Cancel, CancelMark
  <2>6. ASSUME NEW c \in Callers, ToggleRestart(c), ~ StartLocked
        PROVE  hub'.mic = hub.mic
    BY <2>6 DEF ToggleRestart, hubVars
  <2> QED
    BY Frames, <2>1, <2>3, <2>4, <2>5, <2>6
       DEF hubVars, ToggleIdle, ToggleRecording, TimeLimit
<1>2. \/ StartLocked
      \/ hub'.mic = "off"
      \/ UNCHANGED <<gen, op, opOf>> /\ (state' = "recording" => state = "recording")
  BY SessionMoves DEF StopLocked
<1>3. \/ StartLocked
      \/ recorder' = "recording" => recorder = "recording" /\ stream' \in {stream, gen}
  <2>1. ASSUME NEW g \in Gens, \/ OpenSucceeds(g) \/ OpenFails(g) \/ Callback(g)
                               \/ GuardFires(g) \/ MicThread(g) \/ FailureCallback(g)
        PROVE  recorder' = "recording" => recorder = "recording" /\ stream' \in {stream, gen}
    <3>1. CASE OpenFails(g)
      BY <3>1 DEF OpenFails, Claim
    <3>2. CASE Fail(g)
      BY <3>2 DEF Fail, Claim
    <3>3. CASE GuardFires(g)
      BY <3>3 DEF GuardFires, Claim
    <3>4. CASE Attach(g)
      BY <3>4 DEF Attach
    <3>5. CASE \/ OpenSucceeds(g) \/ Callback(g) \/ MicOpened(g) \/ FailureCallback(g)
      BY <3>5 DEF OpenSucceeds, Callback, MicOpened, FailureCallback, MicFailure,
         TellFailure, recVars
    <3> QED BY <2>1, <3>1, <3>2, <3>3, <3>4, <3>5 DEF MicThread
  <2> QED BY <2>1, RecorderMoves DEF StopTakes, StopDrains, recVars
<1> QED BY <1>1, <1>2, <1>3

LEMMA LiveStep ==
    ASSUME Inductive, AttachedIsStream, LiveIsCapturing, [Next]_vars
    PROVE  LiveIsCapturing'
<1>1. ASSUME Next, hub'.mic = "live", state' = "recording", recorder' = "recording"
      PROVE  stream' \in Gens /\ stream' = gen' /\ opOf'[stream'] = op'
  <2>1. ~ StartLocked /\ hub'.mic # "off"
    BY <1>1 DEF StartLocked
  <2>2. /\ UNCHANGED <<gen, op, opOf>> /\ stream' \in {stream, gen}
        /\ state = "recording" /\ recorder = "recording"
        /\ hub.mic = "live" \/ \E g \in Gens : MicOpened(g)
    BY <1>1, <2>1, LiveMoves DEF Inductive
  <2>3. gen \in Gens /\ opOf[gen] = op
    BY <2>2 DEF Inductive, GenerationsInOrder
  <2>4. CASE hub.mic = "live"
    <3>1. stream = gen
      BY <2>2, <2>4 DEF LiveIsCapturing
    <3> QED BY <2>2, <2>3, <3>1
  <2>5. ASSUME NEW g \in Gens, MicOpened(g), hub.mic # "live"
        PROVE  stream' = gen
    <3>1. mic[g] = "attached" /\ hub.op = opOf[g] /\ stream' = stream
      <4>1. mic[g] = "attached" /\ stream' = stream /\ hub' # hub
        BY <1>1, <2>5 DEF MicOpened, recVars
      <4> QED BY <2>5, <4>1 DEF MicOpened
    <3>2. opOf[g] = opOf[gen]
      BY <2>2, <2>3, <3>1 DEF Inductive, HubFollowsSession
    <3>3. g \in 1..gen /\ gen \in 1..gen /\ gen \in Nat
      BY <2>3, <3>1, MaxOpsAssumption
         DEF Inductive, TypeOK, RecTypeOK, FreshGenerations, Gens, Streams
    <3>4. \A h \in 1..gen : opOf[h] \in Nat
      BY MaxOpsAssumption DEF Inductive, TypeOK, RecTypeOK, SessionTypeOK, GenerationsInOrder
    <3>5. ~ (g < gen)
      BY <3>2, <3>3, <3>4 DEF Inductive, GenerationsInOrder
    <3>6. g = gen
      BY <3>3, <3>5
    <3> QED BY <2>2, <3>1, <3>6 DEF AttachedIsStream
  <2> QED BY <2>2, <2>3, <2>4, <2>5
<1>2. CASE UNCHANGED vars
  BY <1>2 DEF vars, sessionVars, recVars, hubVars, LiveIsCapturing
<1> QED BY <1>1, <1>2 DEF LiveIsCapturing

\* While mic_live is shown, the recorder hears the operation it was shown for.
THEOREM LiveMeansCapturing == Spec => []LiveIsCapturing
<1>1. Init => AttachedIsStream /\ LiveIsCapturing
  BY DEF Init, AttachedIsStream, LiveIsCapturing
<1>2. [Next]_<<vars, overtaken>> => [Next]_vars
  OBVIOUS
<1> QED BY <1>1, <1>2, InductiveInvariant, AttachedStep, LiveStep, PTL DEF Spec

-----------------------------------------------------------------------------
(* The answer of a stopped operation.                                       *)

\* What settled the fate of an operation is never undone.
LEMMA AnsweredStays ==
    ASSUME Next, NEW o, Answered(o)
    PROVE  Answered(o)'
<1>1. superseded \subseteq superseded'
  BY Frames DEF sessionVars, ToggleIdle, ToggleRecording, ToggleProcessing, ToggleRestart,
     Cancel, WorkerCheck, WorkerFinish, MicFailure, TimeLimit, StopLocked
<1>2. cancelled \subseteq cancelled'
  BY Frames DEF hubVars, ToggleIdle, ToggleRecording, ToggleRestart, Cancel, CancelMark,
     WorkerHandle, WorkerNotice, WorkerMark, MicOpened, TellFailure, TimeLimit, StopLocked,
     StartLocked
<1>3. answered \subseteq answered'
  BY Frames DEF hubVars, ToggleIdle, ToggleRecording, ToggleRestart, Cancel, CancelMark,
     WorkerHandle, WorkerNotice, WorkerMark, MicOpened, TellFailure, TimeLimit, StopLocked,
     StartLocked, Publish
<1>4. overtaken \subseteq overtaken'
  BY DEF Next
<1> QED BY <1>1, <1>2, <1>3, <1>4 DEF Answered

\* The steps of a Transcribe thread before it finishes.
Working == {"take", "drain", "check", "stt", "run", "handle", "notice"}

\* A step of a Transcribe thread leaves it working for the operation in
\* processing, or settles the fate of its own.
LEMMA OwnWork ==
    ASSUME TypeOK, WorkIsAnswered, Next, NEW o \in Ops, WorkerStep(o)
    PROVE  \/ Answered(o)'
           \/ /\ worker'[o] \in Working
              /\ op = o /\ state = "processing" /\ UNCHANGED <<op, state>>
<1> SUFFICES ASSUME ~ Answered(o)
             PROVE  \/ Answered(o)'
                    \/ /\ worker'[o] \in Working
                       /\ op = o /\ state = "processing" /\ UNCHANGED <<op, state>>
  BY AnsweredStays
<1> USE DEF TypeOK, WorkTypeOK, Goto, Working
<1>1. /\ worker[o] \notin {"finish", "mark", "end"}
      /\ worker[o] \in Working => op = o /\ state = "processing"
  BY DEF WorkIsAnswered
<1>2. o \notin superseded \cup cancelled
  BY DEF Answered
<1>3. CASE WorkerTake(o) \/ WorkerEnterStt(o)
  BY <1>1, <1>2, <1>3 DEF WorkerTake, WorkerEnterStt, sessionVars
<1>4. CASE WorkerDrain(o)
  BY <1>1, <1>2, <1>4 DEF WorkerDrain, AfterError, Active, sessionVars
<1>5. CASE WorkerCheck(o)
  BY <1>1, <1>2, <1>5 DEF WorkerCheck, AfterWarn, Active
<1>6. CASE WorkerTranscribe(o)
  BY <1>1, <1>2, <1>6 DEF WorkerTranscribe, AfterWarn, AfterError, Active, sessionVars
<1>7. CASE WorkerHandle(o) \/ WorkerNotice(o)
  <2>1. answered' = answered \cup {o}
    BY <1>2, <1>7 DEF WorkerHandle, WorkerNotice, Publish
  <2> QED BY <2>1 DEF Answered
<1>8. CASE WorkerFinish(o) \/ WorkerMark(o)
  BY <1>1, <1>8 DEF WorkerFinish, WorkerMark
<1> QED BY <1>3, <1>4, <1>5, <1>6, <1>7, <1>8 DEF WorkerStep

\* Whoever ends the processing of an operation has settled its fate.
LEMMA ProcessingEnds ==
    ASSUME Inductive, WorkIsAnswered, Next, NEW k, k = op, state = "processing",
           ~ (op' = op /\ state' = "processing")
    PROVE  Answered(k)'
<1>1. op \in Ops
  BY OpNumbered
<1>2. CASE StartLocked
  <2>1. op' # op
    BY <1>2, MaxOpsAssumption DEF StartLocked, Inductive, TypeOK, SessionTypeOK
  <2> QED BY <2>1 DEF Next, Answered
<1>3. ASSUME NEW c \in Callers, Cancel(c) PROVE Answered(k)'
  <2>1. op' = op /\ op \in cancelled'
    BY <1>3 DEF Cancel
  <2> QED BY <2>1 DEF Answered
<1>4. ASSUME NEW o \in Ops, WorkerFinish(o) PROVE Answered(k)'
  <2>1. op' = op /\ (worker[o] = "finish" /\ (o = op \/ state' = state))
    BY <1>4 DEF WorkerFinish, Goto
  <2>2. o = op
    BY <2>1
  <2> QED BY <2>1, <2>2, AnsweredStays DEF WorkIsAnswered
<1>5. ASSUME ~ StartLocked,
             \A c \in Callers : ~ Cancel(c),
             \A o \in Ops : ~ WorkerFinish(o)
      PROVE  op' = op /\ state' = state
  BY <1>5, Frames DEF sessionVars, ToggleIdle, ToggleRecording, ToggleProcessing, ToggleRestart,
     WorkerCheck, MicFailure, TimeLimit
<1> QED BY <1>2, <1>3, <1>4, <1>5

LEMMA WorkStep ==
    ASSUME Inductive, WorkIsAnswered, [Next]_<<vars, overtaken>>
    PROVE  WorkIsAnswered'
<1>1. CASE Next
  <2>1. ASSUME NEW o \in Ops, ~ Answered(o)'
        PROVE  /\ worker'[o] \notin {"finish", "mark", "end"}
               /\ worker'[o] \in Working => op' = o /\ state' = "processing"
    <3>1. ~ Answered(o)
      BY <1>1, <2>1, AnsweredStays
    <3>2. /\ worker[o] \notin {"finish", "mark", "end"}
          /\ worker[o] \in Working => op = o /\ state = "processing"
      BY <3>1 DEF WorkIsAnswered, Working
    <3>3. op = o /\ state = "processing" => op' = o /\ state' = "processing"
      BY <1>1, <2>1, ProcessingEnds
    <3>4. CASE worker'[o] = worker[o]
      BY <3>2, <3>3, <3>4
    <3>5. CASE WorkerStep(o)
      BY <1>1, <2>1, <3>5, OwnWork DEF Inductive, Working
    <3>6. CASE StopLocked /\ state = "recording"
      BY <3>2, <3>4, <3>6 DEF StopLocked, Inductive, TypeOK, WorkTypeOK, Working
    <3>7. CASE UNCHANGED workVars
      BY <3>4, <3>7 DEF workVars
    <3> QED BY <1>1, <3>4, <3>5, <3>6, <3>7, WorkerMoves DEF Inductive
  <2> QED BY <2>1 DEF WorkIsAnswered, Working
<1>2. CASE UNCHANGED <<vars, overtaken>>
  BY <1>2 DEF vars, sessionVars, workVars, hubVars, WorkIsAnswered, Answered
<1> QED BY <1>1, <1>2

\* A stopped operation ends answered, unless somebody cancelled it, superseded
\* it or started over it: no dictation disappears without a word.
THEOREM StopsAreAnswered == Spec => []EveryStopAnswered
<1>1. Init => WorkIsAnswered
  BY DEF Init, WorkIsAnswered
<1>2. WorkIsAnswered => EveryStopAnswered
  BY DEF WorkIsAnswered, EveryStopAnswered
<1> QED BY <1>1, <1>2, InductiveInvariant, WorkStep, PTL DEF Spec
=============================================================================
