--------------------------- MODULE CompanionVoice ---------------------------
(***************************************************************************)
(* The assistant's voice in the companion: EngineVoice                     *)
(* (app/companion/voice.py), one worker thread that asks the engine for    *)
(* the audio of each line and plays it, and the threads that give it       *)
(* lines, stop it, hold it for a recording and close it.                   *)
(*                                                                         *)
(* A line is a number, in the order they were asked for, of Pieces         *)
(* requests each; a piece is one request, and its audio one write.  Who    *)
(* says it (the engine or a local voice), the formats and the wait for an  *)
(* engine that loads are left out: an attempt opens a stream or fails.     *)
(* A flush empties the device on Windows and kills the player on Linux,    *)
(* where what is written afterwards is dropped.                            *)
(***************************************************************************)
EXTENDS Naturals, Sequences, FiniteSets, FiniteSetsExt

CONSTANTS
  MaxLines,     \* bound: lines asked for
  Pieces,       \* requests a line is split into
  MaxHolds,     \* bound: holds for a recording
  MaxStops,     \* bound: calls of stop(), the one of close() included
  MaxFailures   \* bound: requests, opened outputs and writes that fail

ASSUME VoiceAssumption ==
  {MaxLines, Pieces} \subseteq Nat \ {0} /\ {MaxHolds, MaxStops, MaxFailures} \subseteq Nat

Lines == 1..MaxLines
PieceIds == 1..MaxLines * Pieces
LineOf(p) == (p + Pieces - 1) \div Pieces
PieceOf(n, k) == (n - 1) * Pieces + k

VARIABLES
  platform,  \* "windows" (win/pcm_out.py) or "linux" (linux/pcm_out.py)
  asked,     \* lines asked for so far
  putting,   \* the line speak() has numbered with the generation and not yet queued, or 0
  lines,     \* _queue; 0 is the sentinel of close()
  valid,     \* lines of the current generation
  hold,      \* "no", "paused" (pause() keeps it back) or "recording" (hold() is true)
  replay,    \* _replay
  inDevice,  \* _in_device: pieces, each complete or not (a cut sorts them)
  output,    \* _output is set
  gone,      \* _closed
  wpc,       \* where the worker is
  item,      \* the line it says
  index,     \* its next piece
  cur,       \* the piece it is saying
  back,      \* where it goes on after saying a piece again: "loop" or "tail"; "": it says its line
  noticed,   \* _wait_while_held has cut the device for this wait
  usable,    \* the output the worker writes to was not closed by stop(), nor its player killed
  audio,     \* what the device still has to play: pieces, whole or only the rest after a cut
  spc,       \* a stop(): "idle" or "dropping"
  heard,     \* history: pieces played from their start to their end
  lost,      \* history: pieces a failure, a stop or a dead player dropped
  unnoticed, \* history: pieces waiting to be said again when a hold ended behind the worker's back
  holds, stops, failures

worker == <<wpc, item, index, cur, back, noticed, usable>>
device == <<inDevice, output, audio>>
voiceCounts == <<holds, stops, failures>>
kept == <<platform, unnoticed>>
voiceVars ==
  <<platform, asked, putting, lines, valid, hold, replay, device, gone, worker, spc, heard, lost, unnoticed, voiceCounts>>

VoiceInit ==
  /\ platform \in {"windows", "linux"}
  /\ asked = 0 /\ putting = 0 /\ lines = <<>> /\ valid = {} /\ hold = "no" /\ replay = {}
  /\ inDevice = {} /\ output = FALSE /\ audio = <<>> /\ gone = FALSE
  /\ wpc = "get" /\ item = 0 /\ index = 0 /\ cur = 0 /\ back = "" /\ noticed = FALSE /\ usable = FALSE
  /\ spc = "idle" /\ heard = {} /\ lost = {} /\ unnoticed = {}
  /\ holds = 0 /\ stops = 0 /\ failures = 0

Current(n) == n \in valid /\ ~gone
Holding == hold # "no"
\* Where the worker no longer looks at the replay list before what it does next.
PastLook == {"open", "opened", "streaming", "writing", "ending", "said", "idle"}
Listed(p) == \E e \in inDevice : e.piece = p
Audible == {audio[i].piece : i \in DOMAIN audio}

-----------------------------------------------------------------------------
(* The callers.                                                             *)

\* speak() and notice(): the generation is read under the lock, the line is queued after it.
Say ==
  /\ ~gone /\ putting = 0 /\ asked < MaxLines
  /\ asked' = asked + 1 /\ putting' = asked' /\ valid' = valid \cup {asked'}
  /\ UNCHANGED <<kept, lines, hold, replay, device, gone, worker, spc, heard, lost, voiceCounts>>

\* _put
Put ==
  /\ putting # 0 /\ putting' = 0
  /\ lines' = IF gone THEN lines ELSE Append(lines, putting)
  /\ UNCHANGED <<kept, asked, valid, hold, replay, device, gone, worker, spc, heard, lost, voiceCounts>>

\* _cut_for_hold: what the device has not played to its end is said again, and the device is silent.
\* On Linux the flush kills the player, and `_output` goes on naming it.
Unheard == {e \in inDevice : ~e.complete \/ e.piece \in Audible}
CutOnlyPlayed ==
  /\ replay' = replay \cup {e.piece : e \in {f \in Unheard : f.complete}}
  /\ inDevice' = {} /\ audio' = <<>> /\ usable' = (usable /\ platform = "windows") /\ UNCHANGED output
CutForHold ==
  /\ replay' = replay \cup {e.piece : e \in Unheard}
  /\ inDevice' = {} /\ audio' = <<>> /\ usable' = (usable /\ platform = "windows") /\ UNCHANGED output

\* pause(), and the recording that shows in hold() with it or without.
Pause ==
  /\ hold = "no" /\ holds < MaxHolds
  /\ hold' = "paused" /\ holds' = holds + 1 /\ CutForHold
  /\ UNCHANGED <<kept, asked, putting, lines, valid, gone, wpc, item, index, cur, back, noticed, spc, heard, lost, stops, failures>>

RecordingShows ==
  /\ hold # "recording" /\ (hold = "paused" \/ holds < MaxHolds)
  /\ hold' = "recording" /\ holds' = IF hold = "paused" THEN holds ELSE holds + 1
  /\ UNCHANGED <<kept, asked, putting, lines, valid, replay, device, gone, worker, spc, heard, lost, stops, failures>>

\* The grace time of pause() or the recording is over, whether the worker has looked or not.
HoldEnds ==
  /\ Holding /\ hold' = "no"
  /\ unnoticed' = IF wpc \in PastLook THEN unnoticed \cup replay ELSE unnoticed
  /\ UNCHANGED <<platform, asked, putting, lines, valid, replay, device, gone, worker, spc, heard, lost, voiceCounts>>

\* stop(): a new generation, nothing left to cut or to say again, and the output it takes is
\* flushed and closed: what the worker still writes to it is not heard.
Forget ==
  /\ valid' = {} /\ inDevice' = {} /\ output' = FALSE /\ usable' = FALSE /\ audio' = <<>>
  /\ replay' = {}
Stop ==
  /\ spc = "idle" /\ stops < MaxStops /\ ~gone
  /\ Forget /\ spc' = "dropping" /\ stops' = stops + 1
  /\ lost' = lost \cup {p \in PieceIds : LineOf(p) \in valid}
  /\ UNCHANGED <<kept, asked, putting, lines, hold, gone, wpc, item, index, cur, back, noticed, heard, holds, failures>>

\* ... and _drop_queue, whoever queued a line meanwhile; the sentinel of close() stays.
DropEverything == lines' = <<>>
DropQueue == lines' = IF \E i \in DOMAIN lines : lines[i] = 0 THEN <<0>> ELSE <<>>
DropQueued ==
  /\ spc = "dropping" /\ spc' = "idle" /\ DropQueue
  /\ lost' = lost \cup {p \in PieceIds : \E i \in DOMAIN lines : lines[i] = LineOf(p)}
  /\ UNCHANGED <<kept, asked, putting, valid, hold, replay, device, gone, worker, heard, voiceCounts>>

\* close(), after its stop().
Close ==
  /\ ~gone /\ stops > 0 /\ gone' = TRUE /\ lines' = Append(lines, 0)
  /\ UNCHANGED <<kept, asked, putting, valid, hold, replay, device, worker, spc, heard, lost, voiceCounts>>

-----------------------------------------------------------------------------
(* The worker.                                                              *)

At(pc) == wpc = pc
Goto(pc) == wpc' = pc /\ noticed' = FALSE
callers == <<asked, putting, valid, hold, gone, spc>>
quiet == <<kept, callers, voiceCounts>>

Get ==
  /\ At("get") /\ lines # <<>> /\ lines' = Tail(lines)
  /\ LET n == Head(lines)
     IN IF n = 0 THEN Goto("ended") /\ output' = FALSE /\ audio' = <<>> /\ UNCHANGED <<item, index, inDevice>>
        ELSE /\ UNCHANGED device
             /\ IF Current(n) THEN Goto("loop") /\ item' = n /\ index' = 1
                ELSE UNCHANGED <<wpc, noticed, item, index>>
  /\ UNCHANGED <<quiet, replay, cur, back, usable, heard, lost>>

\* _wait_while_held, for its first look; then it looks on until the hold is over.
Notice(n) == Current(n) /\ Holding /\ ~noticed /\ noticed' = TRUE /\ CutForHold
Free(n) == ~(Current(n) /\ Holding)
WaitHeld ==
  /\ \/ At("loop") /\ Notice(item)
     \/ At("again") /\ Notice(LineOf(cur))
  /\ UNCHANGED <<quiet, lines, wpc, item, index, cur, back, heard, lost>>

\* The top of _say_with's loop: what a hold cut goes first, in order, then the next piece.
TakeReplay(next) ==
  /\ replay # {} /\ replay' = replay \ {Min(replay)}
  /\ IF Current(LineOf(Min(replay))) THEN Goto("again") /\ cur' = Min(replay) /\ back' = next
     ELSE wpc' = next /\ noticed' = FALSE /\ UNCHANGED <<cur, back>>
Loop ==
  /\ At("loop") /\ Free(item)
  /\ \/ TakeReplay("loop")
     \/ /\ replay = {} /\ UNCHANGED replay /\ back' = ""
        /\ IF Current(item) THEN Goto("open") /\ cur' = PieceOf(item, index)
           ELSE Goto("said") /\ UNCHANGED cur
  /\ UNCHANGED <<quiet, lines, device, item, index, usable, heard, lost>>

\* _say_held_tail
HeldTail ==
  /\ At("tail")
  /\ \/ TakeReplay("tail")
     \/ replay = {} /\ UNCHANGED replay /\ Goto("idle") /\ cur' = 0 /\ back' = ""
  /\ UNCHANGED <<quiet, lines, device, item, index, usable, heard, lost>>

\* _say_again
SayAgain ==
  /\ At("again") /\ Free(LineOf(cur))
  /\ Goto(IF Current(LineOf(cur)) THEN "open" ELSE back)
  /\ UNCHANGED <<quiet, lines, device, replay, item, index, cur, back, usable, heard, lost>>

\* Where an outcome of _speak_piece leads.
Over(stopped) ==
  IF back # "" THEN Goto(back) /\ UNCHANGED index
  ELSE IF stopped \/ index = Pieces THEN Goto("said") /\ UNCHANGED index
  ELSE Goto("loop") /\ index' = index + 1

\* _open_stream and _ensure_output; the piece is listed before its first byte.
Open ==
  /\ At("open")
  /\ IF LineOf(cur) \in valid THEN Goto("opened") /\ UNCHANGED index ELSE Over(TRUE)
  /\ UNCHANGED <<quiet, lines, device, replay, item, cur, back, usable, heard, lost>>

List ==
  /\ At("opened") /\ Goto("streaming")
  /\ output' = TRUE /\ usable' = (usable \/ ~output) /\ UNCHANGED audio
  /\ inDevice' = inDevice \cup {[piece |-> cur, complete |-> FALSE]}
  /\ UNCHANGED <<quiet, lines, replay, item, index, cur, back, heard, lost>>

Unlist == inDevice' = {e \in inDevice : e.piece # cur}

\* A piece that cannot be said is lost, and the rest of its line when the line ends with it.
Drops(next) ==
  /\ failures < MaxFailures /\ failures' = failures + 1
  /\ Unlist /\ UNCHANGED <<output, audio>> /\ Goto(next)
  /\ lost' = lost \cup {cur} \cup {p \in PieceIds : next = "said" /\ LineOf(p) = item /\ p >= PieceOf(item, index)}

\* A ProviderError leaves _say_with, or ends _say_held_tail.
RequestFails ==
  wpc \in {"open", "streaming"} /\ Current(LineOf(cur)) /\ Drops(IF back = "tail" THEN "idle" ELSE "said")

\* _ensure_output opens no device: "stop", which ends a line and is ignored for a piece said again.
OutputFails == At("opened") /\ ~output /\ Drops(IF back = "" THEN "said" ELSE back)

\* An OSError of write(): _run forgives the line, but not what _idle says again: the thread is over.
WriteFails == At("writing") /\ usable /\ Drops(IF back = "tail" THEN "dead" ELSE "said")

Fail ==
  /\ RequestFails \/ OutputFails \/ WriteFails
  /\ UNCHANGED <<kept, callers, holds, stops, lines, replay, item, index, cur, back, usable, heard>>

\* The audio arrives.
ChunkWhateverStopped ==
  /\ At("streaming")
  /\ IF Holding THEN CutForHold /\ Over(FALSE)
     ELSE UNCHANGED <<device, usable, replay, index>> /\ Goto("writing")
  /\ UNCHANGED <<quiet, lines, item, cur, back, heard, lost>>
Chunk ==
  /\ At("streaming")
  /\ IF ~Current(LineOf(cur)) THEN Unlist /\ UNCHANGED <<output, audio, usable, replay>> /\ Over(TRUE)
     ELSE IF Holding THEN CutForHold /\ Over(FALSE)
     ELSE UNCHANGED <<device, usable, replay, index>> /\ Goto("writing")
  /\ UNCHANGED <<quiet, lines, item, cur, back, heard, lost>>

\* What goes out after a cut is only the rest of the piece; nothing goes out to a player that is dead.
Write ==
  /\ At("writing") /\ Goto("ending")
  /\ audio' = IF usable THEN Append(audio, [piece |-> cur, whole |-> Listed(cur)]) ELSE audio
  /\ lost' = IF usable THEN lost ELSE lost \cup {p \in {cur} : Listed(p)}
  /\ UNCHANGED <<quiet, lines, inDevice, output, replay, item, index, cur, back, usable, heard>>

Complete == {[e EXCEPT !.complete = @ \/ e.piece = cur] : e \in inDevice}
\* The stream ended; a hold that began as it did must see the piece.
StreamEnds ==
  /\ At("ending")
  /\ IF ~Current(LineOf(cur)) THEN Unlist /\ UNCHANGED <<output, audio, usable, replay>> /\ Over(TRUE)
     ELSE /\ IF Holding THEN CutForHold
             ELSE inDevice' = Complete /\ UNCHANGED <<output, audio, usable, replay>>
          /\ Over(FALSE)
  /\ UNCHANGED <<quiet, lines, item, cur, back, heard, lost>>

\* The line is over: the next, or _idle.
Said ==
  /\ At("said") /\ Goto(IF lines = <<>> THEN "idle" ELSE "get")
  /\ item' = 0 /\ index' = 0 /\ cur' = 0 /\ back' = ""
  /\ UNCHANGED <<quiet, lines, device, replay, usable, heard, lost>>

LetGo == output' = FALSE /\ audio' = <<>> /\ UNCHANGED <<inDevice, usable>>
Leaves == UNCHANGED replay /\ IF lines = <<>> THEN LetGo ELSE UNCHANGED <<device, usable>>
IdleLetsTailGo ==
  /\ At("idle") /\ Goto("get")
  /\ \/ (lines # <<>> \/ gone) /\ Leaves
     \/ lines = <<>> /\ ~gone /\ Holding /\ CutForHold
     \/ lines = <<>> /\ ~gone /\ ~Holding /\ audio = <<>> /\ Leaves
  /\ UNCHANGED <<quiet, lines, item, index, cur, back, heard, lost>>
Idle ==
  /\ At("idle")
  /\ IF lines # <<>> \/ gone THEN Goto("get") /\ Leaves
     ELSE \/ Holding /\ replay = {} /\ Unheard = {} /\ Goto("get") /\ Leaves
          \/ Holding /\ (replay # {} \/ Unheard # {}) /\ Goto("tail") /\ CutForHold
          \/ ~Holding /\ audio = <<>> /\ Goto("get") /\ Leaves
  /\ UNCHANGED <<quiet, lines, item, index, cur, back, heard, lost>>

\* The device plays in order.
Plays ==
  /\ audio # <<>> /\ audio' = Tail(audio)
  /\ heard' = IF Head(audio).whole THEN heard \cup {Head(audio).piece} ELSE heard
  /\ UNCHANGED <<quiet, lines, inDevice, output, replay, worker, lost>>

-----------------------------------------------------------------------------

WorkerStep ==
  \/ Get \/ WaitHeld \/ Loop \/ HeldTail \/ SayAgain \/ Open \/ List \/ Chunk \/ Write \/ StreamEnds
  \/ Said \/ Idle

VoiceNext ==
  \/ Say \/ Put \/ Pause \/ RecordingShows \/ HoldEnds \/ Stop \/ DropQueued \/ Close
  \/ WorkerStep \/ Fail \/ Plays

VoiceSpec == VoiceInit /\ [][VoiceNext]_voiceVars

\* The threads run on, the device plays, a request is answered and a recording ends.
VoiceFairness ==
  /\ WF_voiceVars(WorkerStep) /\ WF_voiceVars(Plays) /\ WF_voiceVars(Put) /\ WF_voiceVars(DropQueued)
  /\ WF_voiceVars(HoldEnds)

FairVoiceSpec == VoiceSpec /\ VoiceFairness

-----------------------------------------------------------------------------

VoiceTypeOK ==
  /\ platform \in {"windows", "linux"} /\ unnoticed \subseteq PieceIds
  /\ asked \in 0..MaxLines /\ putting \in 0..asked /\ valid \subseteq 1..asked /\ lines \in Seq(0..MaxLines)
  /\ hold \in {"no", "paused", "recording"} /\ spc \in {"idle", "dropping"} /\ gone \in BOOLEAN
  /\ holds \in 0..MaxHolds /\ stops \in 0..MaxStops /\ failures \in 0..MaxFailures
  /\ replay \subseteq PieceIds /\ heard \subseteq PieceIds /\ lost \subseteq PieceIds
  /\ inDevice \subseteq [piece : PieceIds, complete : BOOLEAN] /\ output \in BOOLEAN
  /\ audio \in Seq([piece : PieceIds, whole : BOOLEAN])
  /\ wpc \in {"get", "loop", "again", "tail", "open", "opened", "streaming", "writing", "ending", "said",
              "idle", "ended", "dead"}
  /\ item \in 0..MaxLines /\ index \in 0..Pieces /\ cur \in PieceIds \cup {0}
  /\ back \in {"", "loop", "tail"} /\ noticed \in BOOLEAN /\ usable \in BOOLEAN

\* The lines are heard in order, those a recording cut included: when a piece was heard to its end,
\* so was every piece before it, except those a stop, a failure or a dead player dropped, and those a
\* hold cut that was over before the worker looked: it blocks in opening a stream longer than the grace
\* time of pause(), and the piece it opens is heard before what was cut.  A second hold can break it too:
\* what _say_held_tail has taken off the replay list waits, and what the hold cuts goes behind it.
HeardInOrder ==
  holds <= 1 => \A q \in heard : \A p \in 1..q - 1 : LineOf(p) \in valid => p \in heard \cup lost \cup unnoticed

\* stop() silences at once: nothing said before it sounds after it.
StoppedIsSilent == \A p \in Audible : LineOf(p) \in valid

\* Every line is heard to its end although recordings cut it, unless a line of its generation was
\* dropped: by a stop() that was not over when it was given, by a failure or by a player a hold's flush
\* killed.  What a hold cut that ended behind the worker's back waits for the next line, if one comes;
\* an OSError while the last lines are said again ends the worker, and then no line is heard.
Owed == {p \in PieceIds : LineOf(p) \in valid} \ (heard \cup unnoticed)
EveryLineHeard ==
  Owed # {} ~> Owed = {} \/ gone \/ wpc = "dead" \/ \E q \in lost : LineOf(q) \in valid

\* close() ends the worker, when the device has not.
WorkerEnds == gone ~> wpc \in {"ended", "dead"}
=============================================================================
