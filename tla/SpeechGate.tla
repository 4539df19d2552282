----------------------------- MODULE SpeechGate -----------------------------
(***************************************************************************)
(* The engine's voice and its two users (app/features/tts/pcm.py): the     *)
(* claude_chat turns, which speak through GatedSpeaker                     *)
(* (app/features/claude/chat_handler.py), and the streams the companion    *)
(* asks of the /tts endpoint (app/daemon/tts_endpoint.py).                 *)
(*                                                                         *)
(* Every turn runs in a thread of its own on the one handler, every        *)
(* request in a thread of the server, and the session cancels from a       *)
(* third.  A step is what a thread does under one lock, with what follows  *)
(* and no other thread can tell from it.  The text and the audio are left  *)
(* out.                                                                    *)
(***************************************************************************)
EXTENDS Naturals, FiniteSets

CONSTANTS
  Requests,  \* calls of /v1/speak
  Turns,     \* claude_chat operations, all on one ClaudeChatHandler
  NoRequest  \* the None of the gate's stream

ASSUME GateAssumption == NoRequest \notin Requests

VARIABLES
  voiceOwner, \* _owner: "none", "local" or "remote"
  remote,     \* _remote: the stream the flow would interrupt
  preempted,  \* _preempted
  late,       \* history: the flow once took the voice after PREEMPT_WAIT_S, from a stream not gone
  served,     \* FALSE once the endpoint is closed
  opening,    \* _opening
  cancelled,  \* _cancelled of the endpoint
  active,     \* the streams of _active
  rpc,        \* where the thread of each request is
  cut,        \* requests whose stream was closed
  toldToStop, \* history: requests told to stop, by a cancel or by the flow
  unheard,    \* history: requests whose last cancel was answered but found them in no table
  tpc,        \* where the thread of each turn is
  playing,    \* the player has sentences of the flow
  busy,       \* _busy of the handler
  discard,    \* _cancelled of the handler
  superseded, \* turns whose operation is not active any more
  cpc         \* the session's cancel: "idle", "marking" or "stopping"

gate == <<voiceOwner, remote, preempted>>
gateHistory == <<late, toldToStop, unheard>>
endpoint == <<served, opening, cancelled, active>>
handler == <<busy, discard, superseded, cpc>>
flow == <<tpc, playing, handler>>
gateVars == <<gate, gateHistory, endpoint, rpc, cut, flow>>

GateInit ==
  /\ voiceOwner = "none" /\ remote = NoRequest /\ preempted = FALSE /\ late = FALSE
  /\ served = TRUE /\ opening = {} /\ cancelled = {} /\ active = {}
  /\ rpc = [r \in Requests |-> "idle"] /\ cut = {} /\ toldToStop = {} /\ unheard = {}
  /\ tpc = [t \in Turns |-> "new"] /\ playing = FALSE
  /\ busy = FALSE /\ discard = FALSE /\ superseded = {} /\ cpc = "idle"

RequestAt(r, from, to) == rpc[r] = from /\ rpc' = [rpc EXCEPT ![r] = to]
Living == {r \in Requests : rpc[r] \notin {"idle", "admitted", "done"}}
TurnAt(t, from, to) == tpc[t] = from /\ tpc' = [tpc EXCEPT ![t] = to]

-----------------------------------------------------------------------------
(* The gate.                                                                *)

\* end_remote of any stream: the gate only knows that a stream holds it.
EndRemoteForgets ==
  IF voiceOwner = "remote" THEN voiceOwner' = "none" /\ UNCHANGED <<remote, preempted>> ELSE UNCHANGED gate
EndRemote ==
  IF voiceOwner = "remote" THEN voiceOwner' = "none" /\ remote' = NoRequest /\ preempted' = FALSE ELSE UNCHANGED gate

EndLocal == IF voiceOwner = "local" THEN voiceOwner' = "none" /\ UNCHANGED <<remote, preempted>> ELSE UNCHANGED gate

TakeLocal == voiceOwner' = "local" /\ remote' = NoRequest /\ UNCHANGED preempted

-----------------------------------------------------------------------------
(* A request of the endpoint.                                               *)

\* A request is checked before close(), or answered not_ready.
Admit(r) ==
  /\ served /\ RequestAt(r, "idle", "admitted")
  /\ UNCHANGED <<gate, gateHistory, endpoint, cut, flow>>

\* begin_remote; a request that finds a voice is answered busy.
Busy(r) ==
  /\ voiceOwner # "none" /\ RequestAt(r, "admitted", "done")
  /\ UNCHANGED <<gate, gateHistory, endpoint, cut, flow>>
Begin(r) ==
  /\ voiceOwner = "none" /\ RequestAt(r, "admitted", "begun")
  /\ voiceOwner' = "remote" /\ preempted' = FALSE
  /\ UNCHANGED <<remote, gateHistory, endpoint, cut, flow>>

\* Only now a cancel can find it.
StartOpening(r) ==
  /\ RequestAt(r, "begun", "opening") /\ opening' = opening \cup {r}
  /\ UNCHANGED <<gate, gateHistory, served, cancelled, active, cut, flow>>

DoneOpening(r) == opening' = opening \ {r} /\ cancelled' = cancelled \ {r}

\* The synthesizer has a stream: a request cancelled meanwhile is dropped.
OpenedDeaf(r) ==
  /\ RequestAt(r, "opening", "holding") /\ DoneOpening(r)
  /\ UNCHANGED <<gate, gateHistory, served, active, cut, flow>>
Opened(r) ==
  /\ RequestAt(r, "opening", IF r \in cancelled THEN "dropping" ELSE "holding") /\ DoneOpening(r)
  /\ UNCHANGED <<gate, gateHistory, served, active, cut, flow>>

\* ... or it has none.
OpenFails(r) ==
  /\ RequestAt(r, "opening", "done") /\ DoneOpening(r) /\ EndRemote
  /\ UNCHANGED <<gateHistory, served, active, cut, flow>>

\* hold_remote.
Hold(r) ==
  /\ IF voiceOwner = "remote" /\ ~preempted
     THEN RequestAt(r, "holding", "held") /\ remote' = r
     ELSE RequestAt(r, "holding", "dropping") /\ UNCHANGED remote
  /\ UNCHANGED <<voiceOwner, preempted, gateHistory, endpoint, cut, flow>>

DropStream(r) ==
  /\ RequestAt(r, "dropping", "done") /\ cut' = cut \cup {r} /\ EndRemote
  /\ UNCHANGED <<gateHistory, endpoint, flow>>

\* The stream is in _active and its body goes out.
Activate(r) ==
  /\ RequestAt(r, "held", "streaming") /\ active' = active \cup {r}
  /\ UNCHANGED <<gate, gateHistory, served, opening, cancelled, cut, flow>>

\* The body was sent, the client hung up or the stream was closed: AudioBody.close.
CloseBody(r) ==
  /\ RequestAt(r, "streaming", "ending") /\ cut' = cut \cup {r} /\ active' = active \ {r}
  /\ UNCHANGED <<gate, gateHistory, served, opening, cancelled, flow>>

Finished(r) ==
  /\ RequestAt(r, "ending", "done") /\ EndRemote
  /\ UNCHANGED <<gateHistory, endpoint, cut, flow>>

-----------------------------------------------------------------------------
(* What else comes over HTTP.                                               *)

\* /v1/cancel of a request under way, wherever its thread is.  It is answered 200, also when the
\* request is in neither table: then nothing happens.
CancelRequest(r) ==
  /\ rpc[r] \notin {"idle", "done"}
  /\ active' = active \ {r} /\ cut' = cut \cup ({r} \cap active)
  /\ cancelled' = cancelled \cup ({r} \cap (opening \ active))
  /\ toldToStop' = toldToStop \cup {r}
  /\ unheard' = IF r \in active \cup opening THEN unheard \ {r} ELSE unheard \cup {r}
  /\ UNCHANGED <<gate, late, served, opening, rpc, flow>>

CloseEndpoint ==
  /\ served /\ served' = FALSE
  /\ cut' = cut \cup active /\ active' = {}
  /\ UNCHANGED <<gate, gateHistory, opening, cancelled, rpc, flow>>

-----------------------------------------------------------------------------
(* A turn of claude_chat.                                                   *)

other == <<gateHistory, endpoint, rpc, cut>>

\* The session hands a transcription over once the operation before it is over.
Dispatch(t) ==
  /\ \A u \in Turns \ {t} : tpc[u] \in {"new", "done"} \/ u \in superseded
  /\ TurnAt(t, "new", "dispatched")
  /\ UNCHANGED <<gate, other, playing, handler>>

\* Claude is not called for an operation that was taken over.
HandleTurn(t) ==
  /\ TurnAt(t, "dispatched", IF t \in superseded THEN "leaving" ELSE "asking")
  /\ busy' = TRUE /\ discard' = FALSE
  /\ UNCHANGED <<gate, other, playing, superseded, cpc>>

\* _speak_all: a complete sentence, or the tail, unless the turn was cancelled.
Sentence(t) ==
  /\ TurnAt(t, "asking", IF discard THEN "answered" ELSE "speaking")
  /\ UNCHANGED <<gate, other, playing, handler>>

\* Claude's answer ends, also by an interrupt.
AnswerEnds(t) ==
  /\ TurnAt(t, "asking", "answered")
  /\ UNCHANGED <<gate, other, playing, handler>>

\* It fails or takes too long: the error is published and the turn ends.
AnswerFails(t) ==
  /\ TurnAt(t, "asking", "leaving")
  /\ UNCHANGED <<gate, other, playing, handler>>

\* begin_local, first lock: a stream is interrupted, and one still opening will be refused.
BeginLocal(t) ==
  /\ TurnAt(t, "speaking", IF voiceOwner = "local" THEN "voiced" ELSE "waiting")
  /\ IF voiceOwner = "remote"
     THEN /\ cut' = cut \cup ({remote} \cap Requests)
          /\ toldToStop' = toldToStop \cup Living /\ unheard' = unheard \ Living
     ELSE UNCHANGED <<cut, toldToStop, unheard>>
  /\ preempted' = (preempted \/ (voiceOwner = "remote" /\ remote = NoRequest))
  /\ UNCHANGED <<voiceOwner, remote, late, endpoint, rpc, playing, handler>>

\* begin_local, second lock.
GetVoiceAtOnce(t) ==
  /\ TurnAt(t, "waiting", "voiced") /\ TakeLocal
  /\ UNCHANGED <<other, playing, handler>>
GetVoice(t) ==
  /\ voiceOwner # "remote" /\ TurnAt(t, "waiting", "voiced") /\ TakeLocal
  /\ UNCHANGED <<other, playing, handler>>

\* ... or PREEMPT_WAIT_S later.
TakeAnyway(t) ==
  /\ voiceOwner = "remote" /\ TurnAt(t, "waiting", "voiced") /\ TakeLocal
  /\ late' = TRUE
  /\ UNCHANGED <<toldToStop, unheard, endpoint, rpc, cut, playing, handler>>

\* The inner speaker clears its stop event and queues the sentence.
Speak(t) ==
  /\ TurnAt(t, "voiced", "asking") /\ playing' = TRUE
  /\ UNCHANGED <<gate, other, handler>>

\* The player has said what it had.
PlayedOut ==
  /\ playing /\ playing' = FALSE
  /\ UNCHANGED <<gate, other, tpc, handler>>

\* After the answer: wait_done, unless the turn was cancelled.
Answered(t) ==
  /\ TurnAt(t, "answered", IF discard THEN "leaving" ELSE "draining")
  /\ UNCHANGED <<gate, other, playing, handler>>

Drained(t) ==
  /\ ~playing /\ TurnAt(t, "draining", "leaving") /\ EndLocal
  /\ UNCHANGED <<other, playing, handler>>

\* The finally of handle(): the flags are the handler's, whichever turn set them.
LeaveBusy(t) ==
  /\ TurnAt(t, "leaving", "ending") /\ discard' = FALSE
  /\ UNCHANGED <<gate, other, playing, busy, superseded, cpc>>
Leave(t) ==
  /\ TurnAt(t, "leaving", "ending") /\ busy' = FALSE /\ discard' = FALSE
  /\ UNCHANGED <<gate, other, playing, superseded, cpc>>

EndTurn(t) ==
  /\ TurnAt(t, "ending", "done") /\ EndLocal
  /\ UNCHANGED <<other, playing, handler>>

-----------------------------------------------------------------------------
(* The session cancels or restarts the operation.                          *)

Supersede ==
  LET running == {t \in Turns : tpc[t] \notin {"new", "done"}} \ superseded
  IN /\ cpc = "idle" /\ running # {}
     /\ superseded' = superseded \cup running /\ cpc' = "marking"
     /\ UNCHANGED <<gate, other, tpc, playing, busy, discard>>

\* cancel_in_flight.
MarkCancelled ==
  /\ cpc = "marking"
  /\ discard' = (discard \/ busy) /\ cpc' = IF busy THEN "stopping" ELSE "idle"
  /\ UNCHANGED <<gate, other, tpc, playing, busy, superseded>>

\* ... and the speaker's stop.
StopSpeaker ==
  /\ cpc = "stopping" /\ cpc' = "idle" /\ playing' = FALSE /\ EndLocal
  /\ UNCHANGED <<other, tpc, busy, discard, superseded>>

-----------------------------------------------------------------------------

RequestStep(r) ==
  \/ Busy(r) \/ Begin(r) \/ StartOpening(r) \/ Opened(r) \/ OpenFails(r)
  \/ Hold(r) \/ DropStream(r) \/ Activate(r) \/ CloseBody(r) \/ Finished(r)
TurnStep(t) ==
  \/ HandleTurn(t) \/ BeginLocal(t) \/ GetVoice(t) \/ TakeAnyway(t) \/ Speak(t)
  \/ Answered(t) \/ Drained(t) \/ Leave(t) \/ EndTurn(t)
AnswerStep(t) == AnswerEnds(t) \/ AnswerFails(t)
CancelStep == MarkCancelled \/ StopSpeaker

GateNext ==
  \/ \E r \in Requests : Admit(r) \/ RequestStep(r) \/ CancelRequest(r)
  \/ \E t \in Turns : Dispatch(t) \/ Sentence(t) \/ TurnStep(t) \/ AnswerStep(t)
  \/ PlayedOut \/ Supersede \/ CancelStep \/ CloseEndpoint

GateSpec == GateInit /\ [][GateNext]_gateVars

-----------------------------------------------------------------------------

GateTypeOK ==
  /\ voiceOwner \in {"none", "local", "remote"} /\ remote \in Requests \cup {NoRequest}
  /\ {preempted, late, served, playing, busy, discard} \subseteq BOOLEAN
  /\ opening \cup cancelled \cup active \cup cut \cup toldToStop \cup unheard \subseteq Requests
  /\ rpc \in [Requests -> {"idle", "admitted", "begun", "opening", "holding", "held", "dropping",
                           "streaming", "ending", "done"}]
  /\ tpc \in [Turns -> {"new", "dispatched", "asking", "speaking", "waiting", "voiced", "answered",
                        "draining", "leaving", "ending", "done"}]
  /\ superseded \subseteq Turns /\ cpc \in {"idle", "marking", "stopping"}
  /\ remote # NoRequest => voiceOwner = "remote"

\* The audio of a request goes out.
Sounds(r) == rpc[r] = "streaming" /\ r \notin cut

\* The endpoint speaks with one voice, and the flow wins over the stream that held it, also over one
\* that was still opening: unless the flow ever stopped waiting for a stream, at most one is heard,
\* and none while the flow has the voice.
FlowHasTheVoice ==
  ~late => /\ \A r, q \in Requests : Sounds(r) /\ Sounds(q) => r = q
           /\ voiceOwner = "local" => \A r \in Requests : ~Sounds(r)

\* A request that was told to stop is not heard any more, by /v1/cancel or by the flow that took the
\* voice from it, wherever its thread was.  The exception is a cancel that came between the sections
\* of _speak that put the request in _opening and move it to _active (unheard): it is answered 200,
\* does nothing, and the stream sounds on until something tells it again.
StoppedStaysSilent == ~late => \A r \in toldToStop \ unheard : ~Sounds(r)

\* When every request, turn and cancel is over, the voice is free and nothing of them is left, in
\* the gate, in the endpoint's tables and in the handler's flags, whatever the order they ended in.
NothingLeft ==
  /\ \A r \in Requests : rpc[r] \in {"idle", "done"}
  /\ \A t \in Turns : tpc[t] \in {"new", "done"}
  /\ cpc = "idle"
  => /\ voiceOwner = "none" /\ remote = NoRequest /\ ~busy /\ ~discard
     /\ opening \cup cancelled \cup active = {}
=============================================================================
