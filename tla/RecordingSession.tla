-------------------------- MODULE RecordingSession --------------------------
(***************************************************************************)
(* The engine's recording session (app/core/recording_session.py) with the *)
(* microphone recorder it drives (app/core/recorder.py) and what it tells  *)
(* the status store and the event hub about its operation.                 *)
(*                                                                         *)
(* Every critical section of the session lock, of the recorder lock and of *)
(* the hub lock that runs outside the session lock is one step.  A hub or  *)
(* recorder call made while the session lock is held belongs to the step   *)
(* of that section.  The threads are the callers of toggle() and cancel()  *)
(* (HTTP handlers, hotkeys), one Transcribe thread per stopped operation,  *)
(* one MicOpen thread per recorder generation with its guard timer, and    *)
(* the time-limit timer.                                                   *)
(*                                                                         *)
(* Abstracted: which flow and client an operation serves, the captured     *)
(* samples (only whose they are), the text (only that there is some), the  *)
(* beeps, and elapsed time (every timer may fire at any moment).  The two  *)
(* informational warnings that end nothing (time_limit_soon, slow_backend) *)
(* change no state kept here.                                              *)
(*                                                                         *)
(* toggle() and cancel() call the handler's cancel_in_flight() after they  *)
(* released the session lock, and a handler object serves every operation  *)
(* of its flow.  ClipboardHandler's changes nothing.  That of a Claude     *)
(* chat may find the turn of a newer operation: the call is a step of its  *)
(* own, free to come late, in SpeechGate (MarkCancelled, StopSpeaker).     *)
(***************************************************************************)
EXTENDS Naturals, FiniteSets

CONSTANTS
    Callers,    \* threads that press hotkeys or serve /trigger and /cancel
    MaxOps      \* bound on the operations one behaviour opens

ASSUME CallersAssumption == IsFiniteSet(Callers)
ASSUME MaxOpsAssumption == MaxOps \in Nat

Ops == 1..MaxOps            \* op_seq values
Gens == 1..MaxOps           \* recorder generations
NoOp == 0

VARIABLES
    state,       \* _state: idle, recording or processing
    op,          \* _op_seq, the value of _op_counter as well
    active,      \* the operation _active_handler_id serves, or NoOp
    superseded,  \* operations whose superseded event is set
    timer,       \* the operation the time-limit timers are armed for, or NoOp
    caller,      \* each caller: where it is, the operation and stream it holds
    worker,      \* each operation's Transcribe thread
    held,        \* the stream a thread's recorder.stop() took, then the
                 \* generation whose samples it returned; 0 for none
    recorder,    \* Recorder._recording: "recording" or "stopped"
    gen,         \* Recorder._generation
    stream,      \* the generation of Recorder._stream, or 0
    chunks,      \* Recorder._chunks: "some" or "none"
    inflight,    \* Recorder._inflight
    reported,    \* Recorder._reported_generation
    opOf,        \* the operation a generation's callbacks are bound to
    mic,         \* each generation's MicOpen thread
    failure,     \* each generation's failure callback
    running,     \* generations whose PortAudio stream delivers callbacks
    hub,         \* the hub's operation: state, op_seq, mic_live
    cancelled,   \* operations the hub drops
    answered,    \* operations with a result, an error or a notice published
    overtaken    \* history: operations a restart started over while they were processed

sessionVars == <<state, op, active, superseded, timer>>
workVars == <<worker, held>>
recVars == <<recorder, gen, stream, chunks, inflight, reported, opOf>>
micVars == <<mic, failure, running>>
hubVars == <<hub, cancelled, answered>>
vars == <<sessionVars, caller, workVars, recVars, micVars, hubVars>>

SessionState == {"idle", "recording", "processing"}
CallerPc == {"ready", "superseding", "mark", "take", "drain"}
WorkerPc == {"none", "take", "drain", "check", "stt", "run", "handle", "notice",
             "finish", "mark", "end"}
MicPc == {"none", "opening", "started", "attached", "failing"}
FailurePc == {"none", "due", "mark", "tell"}

Ready == [pc |-> "ready", op |-> NoOp, stop |-> "handler", stream |-> 0]

Init ==
    /\ state = "idle" /\ op = NoOp /\ active = NoOp
    /\ superseded = {} /\ timer = NoOp
    /\ caller = [c \in Callers |-> Ready]
    /\ worker = [o \in Ops |-> "none"]
    /\ held = [o \in Ops |-> 0]
    /\ recorder = "stopped" /\ gen = 0 /\ stream = 0 /\ chunks = "none"
    /\ inflight = {} /\ reported = 0 /\ opOf = [g \in Gens |-> NoOp]
    /\ mic = [g \in Gens |-> "none"] /\ failure = [g \in Gens |-> "none"]
    /\ running = {}
    /\ hub = [state |-> "idle", op |-> NoOp, mic |-> "off"]
    /\ cancelled = {} /\ answered = {} /\ overtaken = {}

-----------------------------------------------------------------------------
(* What the session does to the hub while it runs.                          *)

\* Mutant: set_idle without its guard on the operation.
HubIdleUnguarded(o) == [hub EXCEPT !.state = "idle", !.mic = "off"]

\* Event hub set_idle: only the current operation returns to idle.
HubIdle(o) ==
    IF hub.op = o THEN [hub EXCEPT !.state = "idle", !.mic = "off"] ELSE hub

\* publish_result / publish_error / publish_warning: dropped once cancelled.
Publish(o) ==
    IF o \in cancelled THEN answered ELSE answered \cup {o}

\* OperationHandle.active
Active(o) == o \notin superseded /\ o \notin cancelled

-----------------------------------------------------------------------------
(* The recorder.                                                            *)

\* Recorder.start for the operation o, which opens a new generation.
RecorderStart(o) ==
    LET g == gen + 1 IN
    /\ recorder' = "recording"
    /\ chunks' = "none"
    /\ stream' = 0
    /\ gen' = g
    /\ opOf' = [opOf EXCEPT ![g] = o]
    /\ \/ /\ inflight' = inflight \cup {g}
          /\ mic' = [mic EXCEPT ![g] = "opening"]
       \/ /\ inflight # {}           \* an older open is stuck: fail fast
          /\ mic' = [mic EXCEPT ![g] = "failing"]
          /\ UNCHANGED inflight
    /\ UNCHANGED <<reported, failure, running>>

\* Mutant: a claimed failure that leaves the recorder recording.
RevertedNot(g) == recorder
Reverted(g) == IF gen = g THEN "stopped" ELSE recorder

\* _claim_failure_locked: g is marked failed and the recorder reverts.
CanClaim(g) == reported < g /\ (gen = g => stream = 0)

Claim(g) ==
    /\ reported' = g
    /\ recorder' = Reverted(g)
    /\ failure' = [failure EXCEPT ![g] = "due"]

\* First section of Recorder.stop, which found the recorder recording.
StopTakes ==
    /\ recorder = "recording"
    /\ recorder' = "stopped"
    /\ stream' = 0
    /\ UNCHANGED <<gen, chunks, inflight, reported, opOf, micVars>>

\* Mutant: streams that are dropped without being stopped.
ReleaseNot(s) == running
Release(s) == running \ {s}

\* stream.stop() outside the lock, then the second section of Recorder.stop,
\* which an exception of the dead stream skips.
StopDrains(s) ==
    /\ running' = Release(s)
    /\ chunks' \in {"none", chunks}
    /\ UNCHANGED <<recorder, gen, stream, inflight, reported, opOf, mic, failure>>

\* The device opened: its callbacks run before the stream is attached.
OpenSucceeds(g) ==
    /\ mic[g] = "opening"
    /\ mic' = [mic EXCEPT ![g] = "started"]
    /\ running' = running \cup {g}
    /\ UNCHANGED <<sessionVars, caller, workVars, recVars, failure, hubVars>>

\* The last attempt failed.  Earlier attempts change nothing, and forgetting
\* the open matters to nobody before the failure is claimed.
OpenFails(g) ==
    /\ mic[g] = "opening"
    /\ mic' = [mic EXCEPT ![g] = "none"]
    /\ inflight' = inflight \ {g}
    /\ IF CanClaim(g) THEN Claim(g) ELSE UNCHANGED <<reported, recorder, failure>>
    /\ UNCHANGED <<sessionVars, caller, workVars, gen, stream, chunks, opOf, running,
                   hubVars>>

\* Mutant: a stream joins whatever recording is going on.
AttachesAny(g) == recorder = "recording"
Attaches(g) == recorder = "recording" /\ gen = g

\* The stream joins the recording of its own generation or is discarded.
Attach(g) ==
    /\ mic[g] = "started"
    /\ inflight' = inflight \ {g}
    /\ IF Attaches(g)
       THEN /\ stream' = g
            /\ mic' = [mic EXCEPT ![g] = "attached"]
            /\ UNCHANGED running
       ELSE /\ running' = Release(g)
            /\ mic' = [mic EXCEPT ![g] = "none"]
            /\ UNCHANGED stream
    /\ UNCHANGED <<sessionVars, caller, workVars, recorder, gen, chunks,
                   reported, opOf, failure, hubVars>>

\* Recorder._fail on the thread that fails fast while an older open is stuck.
Fail(g) ==
    /\ mic[g] = "failing"
    /\ mic' = [mic EXCEPT ![g] = "none"]
    /\ IF CanClaim(g) THEN Claim(g) ELSE UNCHANGED <<reported, recorder, failure>>
    /\ UNCHANGED <<sessionVars, caller, workVars, gen, stream, chunks, inflight,
                   opOf, running, hubVars>>

\* The open_timeout guard, effective only while g is still opening.
GuardFires(g) ==
    /\ gen = g /\ g \in inflight /\ CanClaim(g)
    /\ Claim(g)
    /\ UNCHANGED <<sessionVars, caller, workVars, gen, stream, chunks, inflight,
                   opOf, mic, running, hubVars>>

\* A chunk of samples: kept only for the current generation.
Callback(g) ==
    /\ g \in running /\ g = gen /\ chunks = "none"
    /\ chunks' = "some"
    /\ UNCHANGED <<sessionVars, caller, workVars, recorder, gen, stream, inflight,
                   reported, opOf, micVars, hubVars>>

-----------------------------------------------------------------------------
(* The session's state machine (session lock held).                         *)

\* _start_locked: a new operation; idle again at once if the recorder refuses.
StartLocked ==
    LET o == op + 1 IN
    /\ op < MaxOps              \* the bound; CanOpen keeps it from biting here
    /\ op' = o
    /\ active' = NoOp
    /\ IF recorder = "recording"
       THEN /\ state' = "idle"
            /\ hub' = [state |-> "idle", op |-> o, mic |-> "off"]
            /\ UNCHANGED <<timer, recVars, micVars>>
       ELSE /\ state' = "recording"
            /\ hub' = [state |-> "recording", op |-> o, mic |-> "off"]
            /\ timer' = o
            /\ RecorderStart(o)
    /\ UNCHANGED <<workVars, cancelled, answered>>

\* _stop_locked: processing, with a Transcribe thread of its own.
StopLocked ==
    /\ timer' = NoOp
    /\ state' = "processing"
    /\ hub' = [hub EXCEPT !.state = "processing", !.mic = "off"]
    /\ worker' = [worker EXCEPT ![op] = "take"]
    /\ UNCHANGED <<op, active, superseded, held, recVars, micVars,
                   cancelled, answered>>

\* The bound: every caller about to open an operation still has a number.
CanOpen == op + Cardinality({c \in Callers : caller[c].pc = "superseding"}) < MaxOps

\* toggle() while idle, unless the client asked for a stop.
ToggleIdle(c) ==
    /\ caller[c].pc = "ready" /\ state = "idle" /\ CanOpen
    /\ StartLocked
    /\ UNCHANGED <<superseded, caller>>

\* toggle() while recording, unless the client asked for a start.
ToggleRecording(c) ==
    /\ caller[c].pc = "ready" /\ state = "recording"
    /\ StopLocked
    /\ UNCHANGED caller

\* toggle() while processing: supersede, then let go of the lock and call
\* cancel_in_flight, which a newer operation may already be working under.
ToggleProcessing(c) ==
    /\ caller[c].pc = "ready" /\ state = "processing" /\ CanOpen
    /\ superseded' = superseded \cup {op}
    /\ active' = NoOp
    /\ caller' = [caller EXCEPT ![c].pc = "superseding"]
    /\ UNCHANGED <<state, op, timer, workVars, recVars, micVars, hubVars>>

\* toggle() after cancel_in_flight returned, the lock taken again.
ToggleRestart(c) ==
    /\ caller[c].pc = "superseding"
    /\ caller' = [caller EXCEPT ![c] = Ready]
    /\ IF state \in {"processing", "idle"}
       THEN StartLocked /\ UNCHANGED superseded
       ELSE UNCHANGED <<sessionVars, workVars, recVars, micVars, hubVars>>

\* A trigger whose expect does not match the state: noop.
ToggleNoop(c) ==
    /\ caller[c].pc = "ready"
    /\ UNCHANGED vars

\* Mutant: cancel() without its early return while idle.
CancellableAlways == TRUE
Cancellable == state # "idle"

\* cancel() of the current operation.
Cancel(c) ==
    /\ caller[c].pc = "ready" /\ Cancellable
    /\ caller' = [caller EXCEPT ![c] =
                    [pc |-> "mark", op |-> op, stop |-> IF state = "recording" THEN "recorder" ELSE "handler", stream |-> 0]]
    /\ timer' = IF state = "recording" THEN NoOp ELSE timer
    /\ active' = IF state = "recording" THEN active ELSE NoOp
    /\ superseded' = superseded \cup {op}
    /\ cancelled' = cancelled \cup {op}
    /\ state' = "idle"
    /\ UNCHANGED <<op, workVars, recVars, micVars, hub, answered>>

CancelMark(c) ==
    /\ caller[c].pc = "mark"
    /\ hub' = HubIdle(caller[c].op)
    /\ caller' = [caller EXCEPT ![c] = IF @.stop = "recorder" THEN [@ EXCEPT !.pc = "take"] ELSE Ready]
    /\ UNCHANGED <<sessionVars, workVars, recVars, micVars, cancelled, answered>>

CancelTake(c) ==
    /\ caller[c].pc = "take"
    /\ \/ /\ StopTakes
          /\ caller' = [caller EXCEPT ![c].pc = "drain", ![c].stream = stream]
       \/ /\ recorder = "stopped"
          /\ caller' = [caller EXCEPT ![c] = Ready]
          /\ UNCHANGED <<recVars, micVars>>
    /\ UNCHANGED <<sessionVars, workVars, hubVars>>

CancelDrain(c) ==
    /\ caller[c].pc = "drain"
    /\ StopDrains(caller[c].stream)
    /\ caller' = [caller EXCEPT ![c] = Ready]
    /\ UNCHANGED <<sessionVars, workVars, hubVars>>

\* The time limit, re-checked under the lock.
TimeLimit ==
    /\ timer = op /\ state = "recording"
    /\ StopLocked
    /\ UNCHANGED caller

-----------------------------------------------------------------------------
(* Microphone callbacks into the session.                                   *)

\* Mutant: set_mic_live for whatever operation is recording.
MayGoLiveAny(o) == hub.state = "recording"
MayGoLive(o) == hub.op = o /\ hub.state = "recording"

MicOpened(g) ==
    /\ mic[g] = "attached"
    /\ mic' = [mic EXCEPT ![g] = "none"]
    /\ hub' = IF MayGoLive(opOf[g])
              THEN [hub EXCEPT !.mic = "live"] ELSE hub
    /\ UNCHANGED <<sessionVars, caller, workVars, recVars, failure, running,
                   cancelled, answered>>

\* _on_mic_failure, the section under the session lock.
MicFailure(g) ==
    /\ failure[g] = "due"
    /\ IF op # opOf[g]
       THEN /\ failure' = [failure EXCEPT ![g] = "none"]
            /\ UNCHANGED <<state, timer>>
       ELSE IF state = "recording"
       THEN /\ failure' = [failure EXCEPT ![g] = "mark"]
            /\ state' = "idle" /\ timer' = NoOp
       ELSE /\ failure' = [failure EXCEPT ![g] = "tell"]
            /\ UNCHANGED <<state, timer>>
    /\ UNCHANGED <<op, active, superseded, caller, workVars, recVars, mic, running,
                   hubVars>>

\* _on_mic_failure after the lock: mark_idle and the error event.
TellFailure(g) ==
    /\ failure[g] \in {"mark", "tell"}
    /\ failure' = [failure EXCEPT ![g] = "none"]
    /\ hub' = IF failure[g] = "mark" THEN HubIdle(opOf[g]) ELSE hub
    /\ answered' = Publish(opOf[g])
    /\ UNCHANGED <<sessionVars, caller, workVars, recVars, mic, running, cancelled>>

-----------------------------------------------------------------------------
(* The Transcribe thread of operation o (_stop_and_dispatch).               *)

Goto(o, from, to) == worker[o] = from /\ worker' = [worker EXCEPT ![o] = to]

WorkerTake(o) ==
    /\ \/ /\ StopTakes
          /\ Goto(o, "take", "drain")
          /\ held' = [held EXCEPT ![o] = stream]
       \/ /\ recorder = "stopped"
          /\ Goto(o, "take", "check")
          /\ UNCHANGED <<held, recVars, micVars>>
    /\ UNCHANGED <<sessionVars, caller, hubVars>>

\* Mutant: an exception the thread swallows.
AfterErrorSilent(o) == "finish"
\* Mutant: a return that skips the finally clause.
AfterWarnDies(o) == "end"

\* A warning is said only while o is the current and active operation, an
\* error only while it is active.  Saying it is a step of its own.
AfterWarn(o) == IF op = o /\ Active(o) THEN "notice" ELSE "finish"
AfterError(o) == IF Active(o) THEN "notice" ELSE "finish"

\* The samples are the thread's, or stopping the stream raises.
WorkerDrain(o) ==
    /\ \/ /\ Goto(o, "drain", "check") /\ chunks' = "none"
          /\ held' = [held EXCEPT ![o] = IF chunks = "some" THEN gen ELSE 0]
       \/ /\ Goto(o, "drain", AfterError(o)) /\ chunks' = chunks
          /\ held' = [held EXCEPT ![o] = 0]
    /\ StopDrains(held[o])
    /\ UNCHANGED <<sessionVars, caller, hubVars>>

\* Mutant: the re-check forgets which operation is processing.
StillProcessingAny(o) == state = "processing"
StillProcessing(o) == state = "processing" /\ op = o

\* Aborts silently when overtaken.  Without audio: no_audio.
WorkerCheck(o) ==
    /\ IF StillProcessing(o)
       THEN /\ active' = o
            /\ Goto(o, "check", IF held[o] = 0 THEN AfterWarn(o) ELSE "stt")
       ELSE /\ Goto(o, "check", "finish")
            /\ UNCHANGED active
    /\ UNCHANGED <<state, op, superseded, timer, caller, held, recVars, micVars,
                   hubVars>>

\* _stt_lock admits one transcription at a time.
WorkerEnterStt(o) ==
    /\ \A p \in Ops : worker[p] # "run"
    /\ Goto(o, "stt", IF o \in cancelled THEN "finish" ELSE "run")
    /\ UNCHANGED <<sessionVars, caller, held, recVars, micVars, hubVars>>

\* transcribe() raises, returns nothing (no_speech) or returns a text.
WorkerTranscribe(o) ==
    /\ \/ Goto(o, "run", AfterError(o))
       \/ Goto(o, "run", AfterWarn(o))
       \/ Goto(o, "run", IF o \in cancelled THEN "finish" ELSE "handle")
    /\ UNCHANGED <<sessionVars, caller, held, recVars, micVars, hubVars>>

\* ClipboardHandler.handle publishes; copying the text may raise after that.
WorkerHandle(o) ==
    /\ Goto(o, "handle", "finish") \/ Goto(o, "handle", AfterError(o))
    /\ answered' = Publish(o)
    /\ UNCHANGED <<sessionVars, caller, held, recVars, micVars, hub, cancelled>>

\* The warning or error event, dropped by the hub once cancelled.
WorkerNotice(o) ==
    /\ Goto(o, "notice", "finish")
    /\ answered' = Publish(o)
    /\ UNCHANGED <<sessionVars, caller, held, recVars, micVars, hub, cancelled>>

\* _finish_processing under the lock.
WorkerFinish(o) ==
    /\ IF StillProcessing(o)
       THEN Goto(o, "finish", "mark") /\ state' = "idle" /\ active' = NoOp
       ELSE Goto(o, "finish", "end") /\ UNCHANGED <<state, active>>
    /\ held' = [held EXCEPT ![o] = 0]
    /\ UNCHANGED <<op, superseded, timer, caller, recVars, micVars, hubVars>>

WorkerMark(o) ==
    /\ Goto(o, "mark", "end")
    /\ hub' = HubIdle(o)
    /\ UNCHANGED <<sessionVars, caller, held, recVars, micVars,
                   cancelled, answered>>

-----------------------------------------------------------------------------
WorkerStep(o) ==
    \/ WorkerTake(o) \/ WorkerDrain(o) \/ WorkerCheck(o)
    \/ WorkerEnterStt(o) \/ WorkerTranscribe(o) \/ WorkerHandle(o)
    \/ WorkerNotice(o)
    \/ WorkerFinish(o) \/ WorkerMark(o)

Trigger(c) ==
    \/ ToggleIdle(c) \/ ToggleRecording(c) \/ ToggleProcessing(c)
    \/ ToggleNoop(c) \/ Cancel(c)

CallerStep(c) ==
    ToggleRestart(c) \/ CancelMark(c) \/ CancelTake(c) \/ CancelDrain(c)

MicThread(g) == Attach(g) \/ Fail(g) \/ MicOpened(g)
FailureCallback(g) == MicFailure(g) \/ TellFailure(g)

\* What the engine does once it has started on something.
EngineStep ==
    \/ \E c \in Callers : CallerStep(c)
    \/ \E o \in Ops : WorkerStep(o)
    \/ \E g \in Gens : MicThread(g) \/ FailureCallback(g) \/ GuardFires(g)
    \/ TimeLimit

\* What people and devices do.
Environment ==
    \/ \E c \in Callers : Trigger(c)
    \/ \E g \in Gens : OpenSucceeds(g) \/ OpenFails(g) \/ Callback(g)

Step == EngineStep \/ Environment

Next ==
    /\ Step
    /\ overtaken' = IF op' # op /\ state = "processing" THEN overtaken \cup {op} ELSE overtaken

Spec == Init /\ [][Next]_<<vars, overtaken>>

(* The machine runs: while threads hold work or timers are due, one of     *)
(* them takes a step.  Which one is left open, which is weaker than a fair *)
(* scheduler.  Nobody has to press a key, no sample has to arrive and a    *)
(* device may stay stuck in its open for ever.                             *)
FairSpec == Spec /\ WF_vars(EngineStep)

-----------------------------------------------------------------------------
Streams == 0..MaxOps

(* Every variable keeps its type.                                          *)
SessionTypeOK ==
    /\ state \in SessionState /\ op \in 0..MaxOps /\ active \in 0..MaxOps
    /\ superseded \in SUBSET Ops /\ timer \in 0..MaxOps

CallerTypeOK ==
    caller \in [Callers -> [pc : CallerPc, op : 0..MaxOps, stop : {"recorder", "handler"},
                           stream : Streams]]

WorkTypeOK == worker \in [Ops -> WorkerPc] /\ held \in [Ops -> Streams]

RecTypeOK ==
    /\ recorder \in {"recording", "stopped"} /\ gen \in Streams /\ stream \in Streams
    /\ chunks \in {"none", "some"} /\ inflight \in SUBSET Gens /\ reported \in Streams
    /\ opOf \in [Gens -> 0..MaxOps]

MicTypeOK ==
    /\ mic \in [Gens -> MicPc] /\ failure \in [Gens -> FailurePc]
    /\ running \in SUBSET Gens

HubTypeOK ==
    /\ hub \in [state : SessionState, op : 0..MaxOps, mic : {"off", "live"}]
    /\ cancelled \in SUBSET Ops /\ answered \in SUBSET Ops

TypeOK ==
    /\ SessionTypeOK /\ CallerTypeOK /\ WorkTypeOK
    /\ RecTypeOK /\ MicTypeOK /\ HubTypeOK

(* The hub never loses the session: it shows the session's operation, and  *)
(* a state that differs only while a thread that already returned the      *)
(* session to idle still owes that operation its mark_idle.                *)
OwesIdle(o) ==
    \/ \E c \in Callers : caller[c].pc = "mark" /\ caller[c].op = o
    \/ \E p \in Ops : worker[p] = "mark" /\ p = o
    \/ \E g \in Gens : failure[g] = "mark" /\ opOf[g] = o

HubFollowsSession ==
    /\ hub.op = op
    /\ hub.state # state => state = "idle" /\ OwesIdle(op)

(* A recorder left recording always has somebody who ends it: the session  *)
(* is recording that very operation, or a thread is on its way to          *)
(* recorder.stop().  Otherwise the microphone would stay open for ever.    *)
WillStop ==
    \/ \E o \in Ops : worker[o] = "take"
    \/ \E c \in Callers : caller[c].stop = "recorder" /\ caller[c].pc \in {"mark", "take"}

RecorderHasOwner ==
    recorder = "recording" => \/ state = "recording" /\ gen \in Gens /\ opOf[gen] = op
                 \/ WillStop

(* No PortAudio stream is orphaned: a stream that delivers samples is the  *)
(* recorder's, or is held by the thread about to attach, discard or stop it.*)
NoOrphanStream ==
    \A g \in running :
        \/ stream = g
        \/ mic[g] = "started"
        \/ \E o \in Ops : worker[o] = "drain" /\ held[o] = g
        \/ \E c \in Callers : caller[c].pc = "drain" /\ caller[c].stream = g

(* The transcript of an operation is made of its own samples, even though  *)
(* a stop() that a restart overtook may empty the new recording's buffer.  *)
OwnAudio ==
    \A o \in Ops :
        worker[o] \in {"stt", "run", "handle"} =>
            held[o] # 0 /\ opOf[held[o]] = o

(* mic_live means "speak now": while the recording it was announced for    *)
(* goes on, the samples come from the stream of that very operation.       *)
LiveIsCapturing ==
    hub.mic = "live" /\ state = "recording" /\ recorder = "recording" =>
        stream \in Gens /\ stream = gen /\ opOf[stream] = op

(* No dictation disappears without a word: an operation that was stopped   *)
(* and that nobody cancelled or restarted over ends with its transcript,   *)
(* an error or a notice.  A restart may start over an operation it has not *)
(* superseded (RestartSupersedes): that one does disappear.                *)
Answered(o) == o \in answered \cup superseded \cup cancelled \cup overtaken
EveryStopAnswered == \A o \in Ops : worker[o] = "end" => Answered(o)

(* A trigger that opens an operation leaves it recording: what the answer  *)
(* started or restarted says (ToggleOutcome).                              *)
StartedIsRecording == [][op' # op => state' = "recording"]_vars

(* A restart supersedes the operation in processing it takes over.         *)
RestartSupersedes ==
    [][op' # op /\ state = "processing" => op \in superseded']_vars

(* Once people stop opening operations everything comes to rest, whatever  *)
(* raised on the way and however late a device opened: the session and the *)
(* hub are idle for good (_stop_and_dispatch's promise), no thread of      *)
(* theirs is left over, the recorder is stopped and the microphone is      *)
(* released.                                                               *)
AtRest ==
    /\ state = "idle" /\ hub.state = "idle"
    /\ recorder = "stopped" /\ running = {}
    /\ \A o \in Ops : worker[o] \in {"none", "end"}

ComesToRest == <>[][op' = op]_vars => <>[]AtRest

-----------------------------------------------------------------------------
(* Why the safety properties hold: what every step preserves.              *)

\* Generations are numbered in order, and so are the operations they serve.
GenerationsInOrder ==
    /\ gen <= op
    /\ \A g \in 1..gen : opOf[g] \in 1..op
    /\ \A g \in 1..gen, h \in 1..gen : g < h => opOf[g] < opOf[h]
    /\ state # "idle" => gen \in Gens /\ opOf[gen] = op

\* Nothing is under way for a generation that was not started, and no
\* generation reports a second failure.
FreshGenerations ==
    /\ inflight \subseteq 1..gen
    /\ \A g \in Gens : g > gen => mic[g] = "none" /\ failure[g] = "none"
    /\ \A g \in Gens : failure[g] # "none" => g <= reported

\* The recorder's stream is that of the recording in progress.
StreamIsCurrent ==
    /\ stream # 0 => recorder = "recording" /\ stream = gen
    /\ recorder = "recording" => gen \in Gens /\ failure[gen] = "none"

\* A Transcribe thread exists for stopped operations only.
WorkersAreOld ==
    /\ \A o \in Ops : worker[o] # "none" => o <= op
    /\ state = "recording" => worker[op] = "none"

\* Whoever owes an operation its mark_idle owes it to an idle or a past one.
DebtsAreOld ==
    /\ \A c \in Callers : caller[c].pc = "mark" => caller[c].op <= op
    /\ OwesIdle(op) => state = "idle"

\* The samples a thread took are the operation's own whenever they count.
HeldIsOwn ==
    \A o \in Ops :
        /\ worker[o] \in {"none", "take"} => held[o] = 0
        /\ worker[o] \in {"check", "stt", "run", "handle"} => held[o] <= gen
        /\ worker[o] = "check" /\ held[o] # 0 /\ op = o /\ state = "processing" =>
               opOf[held[o]] = o

\* A Transcribe thread under way works for the operation in processing, or for
\* one whose fate is settled.
WorkIsAnswered ==
    \A o \in Ops :
        /\ worker[o] \in {"finish", "mark", "end"} => Answered(o)
        /\ worker[o] \in {"take", "drain", "check", "stt", "run", "handle", "notice"} =>
               (op = o /\ state = "processing") \/ Answered(o)

\* A stream on its way to be announced is the recorder's, if it still counts.
AttachedIsStream ==
    \A g \in Gens : mic[g] = "attached" /\ gen = g /\ recorder = "recording" => stream = g

Inductive ==
    /\ TypeOK
    /\ GenerationsInOrder
    /\ FreshGenerations
    /\ StreamIsCurrent
    /\ WorkersAreOld
    /\ DebtsAreOld
    /\ HeldIsOwn
    /\ HubFollowsSession
    /\ RecorderHasOwner
    /\ NoOrphanStream
    /\ OwnAudio

=============================================================================
