# VoiceMate: specifications, model checking and proofs

VoiceMate turns speech into text. An **engine** (a Python daemon, on Linux, inside WSL2 or on
Windows) records, transcribes and optionally asks Claude; a **companion** (a tray application)
starts and supervises the engine, owns the hotkeys, copies the transcriptions to the clipboard and
plays the cues. This directory holds TLA+ modules of the parts where threads, two processes,
crashes and timeouts meet, the TLC configurations that check them on small instances, and proofs
that TLAPS checks for every instance. Source paths are relative to the repository.

## 1. Inventory

### The engine

| Component | State it keeps | Operations | What is hard | What makes it correct |
| --- | --- | --- | --- | --- |
| Recording session, `app/core/recording_session.py` | state, `op_seq`, superseded events, timers, the active handler | `toggle`, `cancel`, time limit, microphone callbacks, one Transcribe thread per stopped recording | five kinds of thread; locks are released around `recorder.stop()`, `cancel_in_flight`, every hub event | always back to idle; every dictation answered; nothing published after a cancel; hub and session agree |
| Recorder, `app/core/recorder.py` | recording flag, generation, stream, chunks, opens in flight | `start`, `stop`, the opening thread, its guard timer, the audio callback | an open may return seconds late, or never | no stream is leaked; late streams never join another recording |
| Session status, `app/core/session_status.py` | v1 result buffers, one operation handle per operation | publish, drain | v1 polling clients lag | a result is correlated with its operation |
| Event hub, `app/daemon/hub.py`; journal, `journal.py`; leases, `leases.py` | current operation, ring of events, clients, lease holders | publish, register, poll, ack, unregister, shutdown | long polls in flight while leases expire, move or are released; the ring overruns a slow client | no event or pending result is missed; a cue is played once; a shutdown ends the polls |
| Delivery tracker, `app/daemon/delivery.py` | status of each result | add, ack, query | acknowledgements lost or repeated | a result is pending until somebody settles it |
| HTTP server and lifecycle, `server.py`, `lifecycle.py`, `auth.py` | sockets, requests in flight | dispatch, stop with a grace time | requests in flight at the stop | bounded stop |
| Voice gate and `/tts`, `app/features/tts/pcm.py`, `app/daemon/tts_endpoint.py` | owner of the voice, the open stream | begin and end, local and remote | preemption while a stream is still opening | one voice at a time |
| Claude chat flow, `app/features/claude/` | busy and cancelled flags, the SDK session | `handle`, `cancel_in_flight` | the handler is shared by consecutive operations | the shared flags end empty; a cancelled answer is not published; that it is not spoken on is wanted too, and not checked (section 5) |
| Speech backends, TTS engines, watchdog, listeners | processes, models, timers | | external programs | |

### The companion

| Component | State it keeps | Operations | What is hard | What makes it correct |
| --- | --- | --- | --- | --- |
| Controller, `app/companion/controller.py`, `runtime.py` | everything, on one dispatcher thread | hotkeys, events, settings, supervision, quit | io, supervisor, writer, clipboard and poller threads answer later, in any order | state is only changed on the dispatcher; late answers do no harm |
| Delivery queue, `app/companion/delivery.py` | queue, write in flight, acknowledged keys, the Not copied list | results, reconciliation, verdicts, manual copies, quit | events, snapshots, reconciliations and clicks about the same result; retries; a second daemon instance | nothing lost, nothing queued twice by itself, order kept |
| Pending store, `pending_store.py` | `pending.json` | save, load | written by another thread than the ACKs are sent by | the list survives a restart |
| Event poller, `client.py` | session, cursor | register, long poll, drop the session | the session is dropped while a poll is in flight | the view follows the daemon |
| Supervisor, `supervisor/policy.py` and its backends | state, backoff, breakers, WSL restart request | probes, exits, timers, user commands | exits of old processes, shutdowns by others, sleeping hosts | gives up after too many restarts, never restarts what the user stopped |
| Assistant's voice, `voice.py` | queue of lines, replay list, pieces in the device, hold | speak, stop, pause, close; the worker that streams and plays | a recording or a stop falls between any two steps of the worker | every line heard, in order, silence after a stop |
| Started conversations, `assistant/conversations.py`, `own_session.py` | records, processes, slots being started | start, send, stop, resume, rename, stop all | the lock is given up while a process starts | at most four that can take a prompt, none forgotten, Quit ends all |
| Answers, `assistant/notifier.py`, `inbox.py`, `service.py`, `desktop_port.py` | watches, inbox, digests, pending notes, the central and its queue | watch, poll, hear ready, clear, replace the central | centrals that die, are replaced, or give a text back long after they took it | no answer lost on its way |
| Assistant's text handling, other `assistant/` files | | transcripts, commands, skills, settings by voice, alerts | file formats | |
| View model, cues, settings, UI, Windows and Linux services | | | presentation, file formats, operating system calls | |

### How they interact

Keys reach `toggle()` through the daemon's HTTP handlers or its own listeners. The session drives
the recorder, and reports every change to the status store, which forwards it to the event hub. The
hub appends to the journal; each companion's poller reads it with long polls and hands the events
to the dispatcher. A `result` goes through the delivery queue to the clipboard thread; the verdict
comes back to the dispatcher, which sends an ACK on the io thread, and the daemon's tracker drops
the result from what it lists as unacknowledged. Leases decide, for each event when it is
published, whether the daemon or a companion plays the cue and writes the clipboard.

The assistant's *central* is a conversation in a process of its own, or in Claude Desktop. It asks
other conversations through tools; a watcher thread follows their transcripts and hands the answers
to the central or to the inbox. Its lines are spoken by the engine: the companion's voice asks the
`/tts` endpoint for the audio, which shares one gate with the engine's own Claude chat turns.

`PROJECT.json` lists every component, modelled or not, with the reason.

## 2. Modules

| Module | What it is |
| --- | --- |
| `RecordingSession` | the session, the recorder, and what they do to the hub |
| `RecordingSessionProofs` | its inductive invariant, the theorems that are a part of it, and those about what people are told: `mic_live` and answered stops |
| `Delivery` | tracker, queue, controller side, Not copied file; daemon and companion restarts |
| `DeliveryProofs` | what the queue's handlers do with each result, the invariant, and that no text is lost |
| `EventHub` | hub, journal, leases, and the pollers of several companions |
| `EventHubProofs` | its inductive invariant and theorems, and that it implements `EventFeed` |
| `EventFeed` | abstract: readers that join at the newest event and only move forward |
| `Supervisor` | the restart policy, the supervisor thread, and the engines it starts in WSL |
| `SupervisorProofs` | what the policy's inputs preserve, the inductive invariant and theorems |
| `SpeechGate` | the engine's voice: gate, `/tts` requests, Claude chat turns, cancels |
| `SpeechGateProofs` | its inductive invariant and theorems |
| `CompanionVoice` | the assistant's voice in the companion |
| `CompanionVoiceProofs` | silence after a stop, and the order of the pieces |
| `OwnedConversations` | the conversations VoiceMate starts, their slots and processes |
| `OwnedConversationsProofs` | that no process is forgotten, and that the limit is kept |
| `HeldAnswers` | answer watches, inbox, digests, and the central with its port |
| `HeldAnswersProofs` | that no answer is lost on its way |
| `MCRecordingSession`, `MCDelivery`, `MCEventHub`, `MCSupervisor` | model values and symmetry for TLC |
| `MCSafety` | `EventHub` and `SpeechGate` in one run, each moving in behaviours of its own |
| `MCAssistant` | the last three models in one run, each moving in behaviours of its own |

The models share their borders rather than their variables. `RecordingSession` publishes
into a set `answered`; how one published result travels is `EventHub` (as an event with a cursor)
and `Delivery` (as a text that must end somewhere). The cross-component claims are made where both
sides are present: session with hub, feed with poller, tracker with queue.

### RecordingSession

State. `state`, `op`, `active`, `superseded`, `timer` are the fields of the session under its
lock. `recorder`, `gen`, `stream`, `chunks`, `inflight`, `reported` are the recorder's fields;
`opOf` is the operation that the callbacks passed to `start()` are closures over. `caller`,
`worker`, `mic`, `failure` are program counters of the threads; `held` is what a Transcribe thread
got from `recorder.stop()`. `running` are the PortAudio streams that deliver samples. `hub`,
`cancelled`, `answered` are what other parts can see.

Actions. One step per critical section. The boundary is where the code gives up a lock:
`toggle()` while processing is `ToggleProcessing` and, after `cancel_in_flight` without the lock,
`ToggleRestart`; `cancel()` is `Cancel`, `CancelMark`, `CancelTake`, `CancelDrain`; the Transcribe
thread is `WorkerTake` to `WorkerMark`; opening a microphone is `OpenSucceeds`, `Attach`,
`MicOpened`, or `OpenFails`, or the guard `GuardFires`. Hub calls made under the session lock are
part of that step. A transcription may raise, find nothing, or return a text, as any of the
backends can.

Left out: which flow or client an operation serves, samples and texts, beeps, elapsed time (a
timer may fire whenever it is armed), the two warnings that change no state.

### Delivery

State. `q` is the `DeliveryQueue` field by field (`queue`, `flight`, `acked`, `recent`, `pending`,
`unsynced`, `suspect`); its handlers are operators on such a record and collect the effects the
code returns (`out`, `begun`, `shed`). The controller's actions apply a handler and hand the
effects over: writes to the clipboard (`running`), ACKs to the io thread (`acks`), lists to the
writer thread (`writer`, then `disk`). `tracker`, `holder`, `inst` are the daemon; `feed` and
`listing` are events and reconciliation answers on their way.

A loop over records or list items is a fold, one operator each (`InsertAll`, `RememberAll`,
`AddAllPending`), and so is a filter (`Only`).

Actions. `Register`, `OnEvent`, `MissEvents`, `Fetch` and `Reconcile` are what the daemon tells
the companion; `Verdict`, `TimeOut`, `Tick`, `RetryDue` the clipboard; `UserCopies`, `UserClears`
the user; `AckArrives`, `AckDropped`, `WriterSaves` the io and writer threads; `BeginQuit` with
`Quit`, `Crash`, `Start` the companion's life, `DaemonRestarts` the daemon's. Ages are not
numbers: any listed result may be stale and any write overdue.

Left out: a disk that refuses the write, the 2 s after which Quit stops waiting for the writer,
results that the talk hotkey hands to the assistant, eviction from the daemon's 200 results (the
companion remembers 2000, so it matters to no decision here), at most one reconciliation answer
on its way.

### EventHub and EventFeed

State. `log` is every event with the holders captured when it was published; the ring is its last
`Capacity` entries. `op` counts state changes and stands for the operation. `owner`, `polls`,
`silent`, `holder` are the registry: a client is `silent` when it has not been heard of for its
lease. As in the code, expiry happens only when the registry is asked (`Holders`), so a silent
client that speaks first keeps its lease. For each companion: `pc`, `id`, `asked`, `cursor`,
`granted` of its poller, the state it shows (`view`), the results it was asked to deliver (`told`).
`Nobody` is the owner of an id the registry does not know.
`cues` counts how often the cue of each event was played.

Actions. `SetState`, `PublishResult`, `PublishNotice`, `PublishShutdown`, `CloseJournal` are the
engine; `Register`, `BeginPoll`, then `Read`, `WaitEnds` or `ReadStale` with `Reset`, then `Handle`
are the poller against the daemon; `Ack` comes from another thread of the companion and may drop
the session under a poll; `Ends` is a Quit or a crash of the companion, whose poll stays in the
daemon as a ghost until its wait is over. `Forgotten` stands for the registrations of other installs
that push an idle client out of the registry; it may hit any client with neither lease nor poll,
which includes the one the code picks (heard of least recently).

Left out: the number 256 of `MAX_CLIENTS`, health events, clients that register for nothing, the
details of an operation (phase, `mic_live`), a daemon restart (see Delivery).

`EventFeed` is the promise made to readers, and `IsEventFeed` says that the pollers with their
cursors implement it, under the mapping *last event = length of the log, position = cursor of the
session or away*.

### Supervisor

State. `p` is the `SupervisorPolicy`: its state, `owned`, the two flags about the next exit
(`expect`, `relaunch`), the counters of missed probes, start timeouts and both breakers, and the
WSL restart request, which in the code is three fields of which at most one is set. Each input of
the policy is an operator from one such record to the next that collects the actions it returns in
`out`. `jobs` is the queue of the supervisor thread and `stage` how far its first job is; `posts`
are tasks on their way back to the dispatcher; `seen` and `news` a probe's result and a shutdown
event on theirs. `engine` has the processes this app spawned, numbered by generation, `other` a
daemon of somebody else on the port.

Actions. The dispatcher: `Dispatch` (launch reports, exits, the end of a WSL restart, the list of
distros), `Tick`, `IdleAtLast`, `OnProbe`, `OnShutdown`, `AudioFails`, `UserCommands`,
`SettingsApplied` (other engine settings: a new backend and a new policy, behind the teardown of the
old backend; what is queued before that teardown belongs to the old one), `Quit`. The
supervisor thread: `LaunchBegins` and then `SpawnsNothing` or `Spawns` and `SpawnReported`;
`StopBegins`, `StopEnds`; `WslBegins`, `WslEnds`; `Passes`. `Spawns` and `QuitStops` are the two
sides of the spawn lock. The world: engines bind the port or find it taken, load, get ready and
end; `ExitReported` is the thread that waits for a process.

There is no clock. A backoff may be over at any moment, a breaker's window may move (`WindowsMove`),
a grace time may be over whenever no job and no task is under way: it is 240 s from the last report,
longer than any job takes.

Left out: the external mode and the local backend (they do a part of what wsl2 mode does), how
audio failures and capture devices are counted (`AudioFails` is the observation that asks for a
restart), a port or distro that changes with the settings, a health request that fails
although the port answered a launch, the keepalive process.

### SpeechGate

State. `voiceOwner`, `remote`, `preempted` are the `VoiceGate`; `served`, `opening`, `cancelled`, `active`
the tables of the endpoint; `busy` and `discard` the two flags of the one `ClaudeChatHandler` that
all turns share; `rpc`, `tpc`, `cpc` the threads of requests, turns and of the session's cancel.
`late`, `toldToStop` and `unheard` are histories: the flow once stopped waiting, who was told to stop, and
who was told by a cancel that found it in no table.

Actions. A request is admitted, opens, is held against the gate, streams and ends (`Admit` to
`Finished`), and may fail or be cancelled anywhere, also before `StartOpening` and between `Opened` and `Activate`,
where a cancel is answered and does nothing. A turn is dispatched, asks Claude, speaks each
sentence through the gate (`BeginLocal`, then `GetVoice` or, after `PREEMPT_WAIT_S`, `TakeAnyway`),
drains its player, and gives the voice and the busy flag back. `Supersede`, `MarkCancelled`,
`StopSpeaker` are one cancel, with the handler changing under it.

Left out: texts, audio, the loading of a provider, turns that do not speak.

### CompanionVoice

State. The queue, the lines of the current generation (`valid`), `replay`, `inDevice` and `output`
are the fields of `EngineVoice`; `wpc` with `item`, `index`, `cur`, `back` is its worker; `inDevice` is
the set of pieces listed as being in the device, `audio` what the device still has to play; `platform` is what a
flush does, empty the device (Windows) or kill the player (Linux); `usable` is false once what the worker writes to
is closed or dead. `heard`, `lost` and `unnoticed` are histories of the pieces: played, dropped, and waiting in the
replay list when a hold ended behind the worker's back.

Actions. `Say` and `Put` are the two critical sections of `speak()`, `Stop` and `DropQueued` those of
`stop()`; `Pause`, `RecordingShows` and `HoldEnds` a recording that holds the voice; the worker is
`Get` to `Idle`; `Fail` a request, the opening of an output or a write that fails (`RequestFails`, `OutputFails`,
`WriteFails`), each with the way the code takes from there; `Plays` the device.

Left out: which voice says a line, formats, the wait for a loading engine, the sample position
inside a piece.

### OwnedConversations

State. `records`, `ports`, `starting`, `quitting` are the table under its lock; `process`,
`session`, `store` the processes, the session each writes and the record its store follows; `call`,
`target`, `named`, `mine` where each call is.

Actions. `Start`, `Send` and `StopOne` enter; `Reserve`, `Pop`, `Replace`, `Spawn` or
`SpawnFails`, `Name`, `Register` or `DropChild`, `Release` start a process; `StopAll` and
`AllStopped` are Quit; `Exits`, `LogsOut`, `Reports`, `Follows` the process and its reader. A process that is logged out
(`out`) lives, and its port says error: `Running` does not count it, as `alive()` does not.

Left out: prompts, models, folders, the protocol on the pipe.

### HeldAnswers

State. `to`, `prompt`, `sent` and `log` are the prompts, the tools that send them and the
transcripts of the conversations. `watching`, `offset`, `saw`, `note` are the watches of
`AnswerWatcher`; `round`, `offer`, `via`, `handed` is where its thread is. `inbox`, `digests`,
`pending`, `port`, `posts`, `stopping`, `hearing` are the service and its worker; `mode`, `status`,
`jobs`, `flash`, `thread` each central and, for one in Claude Desktop, its queue and its worker.
`arrived` and `forgiven` are histories: the answers a central got, and those the code gives up.

Actions. The tools: `Watch`, `WritePrompt` or `WriteElsewhere` (the conversation goes on under another session id), `Unwatch`; `StartConversation`, `WatchBegun`;
`StopConversation`. The other conversation: `TurnStarts`, `TurnEnds`. The watcher:
`BeginPollRound`, `ReadTail`, then `Later`, `HoldBack`, or `SpeakNow` with `SendNote` (the port it
read may be replaced between the two), and `DropWatch`. The worker: `OnReady`, `OnFailed`,
`HearReady` with `HearReadyEnds` (an answer may be held in between), `ClearInbox`, `StartPort`,
`StopPort` with `StopPortEnds`, `QuitAtRest`, `Quit`. The Desktop port's thread: `Attach` or
`AttachFails`, `Take`, `FlashWorks` or `FlashFails`, `Drain`, `ThreadEnds`; an own process may die at
any time.

Left out: what answers say (two equal answers of one conversation count as one in the inbox), the
inbox's file and its limit of 50, alerts, the "not running" notices, direct mode.

## 3. What TLC checks

| Run | Instance | States | Shows |
| --- | --- | --- | --- |
| `session` | 2 callers, 2 operations, fair | 1.3 million | type, hub agreement, ownership of recorder and streams, own audio, `mic_live`; every stop is answered and everything comes to rest |
| `started_is_recording` | 1 caller, 2 operations | counterexample | see section 6 |
| `restart_supersedes` | 2 callers, 3 operations | counterexample | see section 6 |
| `delivery_safety` | 2 instances with 1 result each, 2 companion runs, 2 faults, 1 click | 1.7 million | types, automatic writes are queued once, delivered means written, no text is lost |
| `delivery_progress` | 2 results, 1 fault, fair | 46 thousand | result order, every result is acknowledged |
| `quit_lists_everything`, `crash_keeps_list` | 1 result, 2 runs | counterexamples | see section 6 |
| `safety` | hub: 2 interchangeable companions, 3 registrations, ring of 1, 2 events, 2 state changes; gate: 2 requests and a turn, 2 turns and a request | 3.3 million | types, no missed event, no missed pending result, one cue; one voice in the engine, silence after a cancel, nothing left over |
| `hub_progress` | 1 companion, ring of 1, 3 events, fair | 0.3 million | refinement of `EventFeed`, catching up, end of the polls |
| `supervisor` | 2 engines, 2 events, 2 missed probes, fair | 2.4 million | type, exits are not lost, Quit leaves no engine, the companion settles |
| `own_shutdown_is_no_crash` | 1 event | counterexample | see section 6 |
| `assistant` | three parts, see below, fair | 0.7 million | lines in order, silence after a stop, every line heard; conversations within the limit, none forgotten, Quit ends all; no answer lost or stuck |

Why these bounds. *Session*: two operations are one being overtaken and one overtaking; two callers
are one inside each gap the locks leave open while the other acts. The restart violation needs a
third operation, which is why its run has one. *Delivery*: two instances separate "acknowledged
here" from "of another daemon"; two runs separate what is in memory from what is in the file; one
result per instance is enough for every conflict about one result, order is checked with two
results in a run of its own. A result needs two consecutive faults to reach the odd paths (a lost
ACK, then a missed event). *Hub*: with a ring of one, two events already overrun a reader; three
registrations are a companion that is relaunched while another waits for its leases. *Supervisor*:
an exit is mistaken for another's with two engines; two events are a fault or command that meets the
reaction to another, or the second audio failure that opens the WSL breaker at its limit of 1.
The gate in `safety` (`part` in `MCSafety`) moves as *streams*, two requests and a turn, or as *turns*,
two turns that share the handler and a request, the two ways to contend for it. The parts of `assistant`: *voice*, two
lines of two pieces, with one hold, one stop and one failure, or with two holds, so that each can fall on the first or the
second piece and line and at any step of the worker (`VoiceMoves`; a hold may be over at once; Linux and Windows both);
*conversations*, two calls, a limit of one, three session ids (one from the last run, one started, one renamed)
and two processes, of which the first may be logged out and the first tool may stop one (`ConversationsMove`); *asking*, two prompts to one conversation and an own central that may die; and
*flashing*, an answer left in the inbox and a started conversation's, with two centrals in a row, the
second in Claude Desktop, and `DIGESTS_KEPT` of one. Wider instances were checked once, before logged-out processes and resumed sessions were added: the safety of
conversations with a limit of two and three processes (4.6 million states); `AnswersKept` for two
prompts, two conversations and two centrals in any mode, over 25 million states without exhausting
them; the session with three operations, over 12 million. None showed a violation. In the session, being overtaken while somebody else already
overtakes takes a third operation: that case is covered by the proofs. Ids, events
and state changes are counted down by `MaxIds`, `MaxEvents`, `MaxChanges`, operations by `MaxOps`,
in Delivery by `MaxRuns`, `MaxPublished`, `MaxFaults`, `MaxCopies`, in Supervisor by `MaxSpawned`
and `MaxEvents`, in CompanionVoice by `MaxLines`, `MaxHolds`, `MaxStops`, `MaxFailures`, in
OwnedConversations by `MaxIds`, `MaxRuns`, and in HeldAnswers by `MaxPrompts`, `MaxPorts`.

Deadlock is checked for `RecordingSession`, where a key may always be pressed. It is switched off
where the bounds end a behaviour (all others): these systems may really stop, quit or
shut down.

Every property has a mutant (listed in `PROJECT.json`): a small plausible change of a definition
that stands for code, written next to the original, under which TLC finds the property violated.

### The properties that say most

* `HubFollowsSession`: events are sent after the session lock is released, yet the hub never shows
  another operation, and an idle session whose hub still says otherwise has a thread on its way to
  say so.
* `RecorderHasOwner`, `NoOrphanStream`: whatever order a late open, the guard timer, a failure, a
  stop and a restart come in, somebody ends every recording and every stream.
* `OwnAudio`: the text of an operation is made from its own samples, although `stop()` is in two
  sections and not bound to a generation.
* `TextKept`: a text that the system has is never lost by a step of the running programs, except
  in the ways the property names.
* `AutomaticOnce`: events, snapshots, reconciliations, timeouts and clicks about one result never
  make the queue write it twice over by itself.
* `OwnedIsAlive`: the dispatcher drops exits of generations it does not know; because an exit takes
  the way through the supervisor's queue, it never drops that of the engine it is about to own.
* `Settles`: missed probes, exits, conflicts, grace times and breakers end with a ready engine or by
  giving up, whatever the two events are, with no assumption that an engine ever gets ready. A
  behaviour that asks for a third engine is cut off by the bound and counts as settled.
* `ViewMatchesCursor`, `HolderKnowsPending`, `OneCue`: registration, reset and lazy expiry leave
  no gap between snapshot, cursor and lease.

* `ComesToRest`: unless somebody keeps pressing keys, the session returns to idle, no microphone stays open, and
  nobody is left owing the hub anything, whatever step failed or came late.
* `FlowHasTheVoice`, `StoppedStaysSilent`: a stream that is preempted or cancelled before it is there is
  refused when it comes, unless the cancel fell where the endpoint does not find the request.
* `NothingLeft`: the flags of the shared handler and the tables of the endpoint end empty, although
  a turn begins while the previous one is being cancelled.
* `HeardInOrder`, `EveryLineHeard`: a recording may cut a piece at any step of the worker; what was
  cut is said again, before what is new, and nothing is skipped, but for the cases both name: a hold that
  was over before the worker looked, a failure, and a player that a flush has killed.
* `WithinLimit`, `NoneForgotten`, `QuitEndsAll`: the slot is checked seconds before the process is
  registered, and Quit empties the table in between.
* `AnswersKept`: an answer is handed from transcript to watch, inbox, digest, queue, flash, and back
  when a flash fails or a central is replaced; unless it is `forgiven` (section 5), it is never in none of them.
* `EveryAnswerArrives`: what is queued is typed or given back, and a noted answer is handed over
  while there is a central that takes it. It finds, for one, a queue nobody drains.

### Fairness

* Session: `WF(EngineStep)`: some thread with work, or a due timer, moves. It does not say which,
  so it is weaker than the operating system's scheduling. No key need be pressed, no sample need
  arrive, a device may hang in its open for ever. In particular `ComesToRest` counts on the time
  limit timer for a recording nobody stops, as the code does.
* Delivery: the poller, the reconciliation timer, the clipboard with its retry timer, and the io
  thread each go on. All of them are loops in the code that survive errors. Faults are bounded,
  which stands for the network coming back.
* Hub: `CloseJournal` (the statement after the shutdown event) and each companion's poller go on.
  That a long poll times out by itself, that a companion lives, or that the engine publishes
  anything is not assumed.
* Supervisor: its thread, the dispatcher, the tick, the prober and the threads that wait for exits go
  on: loops and timers that reschedule themselves. Of an engine nothing is assumed, neither that it
  binds nor that it gets ready.
* Voice: the worker, the device, a `speak()` and a `stop()` under way go on, and a recording ends.
* Conversations: a call under way goes on, and a process that was stopped ends (it is killed after its
  grace time).
* Answers: the threads, the worker and the watcher go on; strong fairness for the hand-over stands
  for a person who is not busy for ever each time the watcher asks. No central has to become ready,
  and no conversation has to answer.
* `SpeechGate` has safety properties only.

`MCAssistant` states the fairness of voice, conversations and answers with the part that moves as a
guard. A part that does not move stays in its initial state, so this is the modules' fairness.

## 4. What is proved

`RecordingSessionProofs` proves, for every finite set of callers and every bound on operations,
`Spec => []Inductive`, and from it `TypeOK`, `HubFollowsSession`, `RecorderHasOwner`,
`NoOrphanStream` and `OwnAudio`. Assumptions: `CallersAssumption` (finitely many callers) and
`MaxOpsAssumption` (a natural number), both evaluated by TLC in the runs.

None of the four safety properties is inductive. What they need, and why:

* `GenerationsInOrder`: generations are numbered like the operations they serve, and while the
  session is not idle the newest generation is that of the current operation. It turns a comparison
  of generations, all the recorder can do, into one of operations.
* `FreshGenerations`: nothing is under way for a generation not started yet, so `Recorder.start`
  meets no leftovers, and no failure is reported twice.
* `StreamIsCurrent`: the attached stream is that of the recording in progress, so that a stop that
  takes it takes the only one.
* `WorkersAreOld`, `DebtsAreOld`: Transcribe threads and owed `mark_idle` calls belong to past
  operations, or to a current one that is idle.
* `HeldIsOwn`: what a Transcribe thread got from the recorder is its operation's whenever its
  re-check of state and `op_seq` would let it go on.

The proof has a lemma for each conjunct, with a step for each group of actions that can disturb it;
`Frames` and the `...Moves` lemmas say once which actions touch which variables. The conjunction
was checked as an invariant by TLC before it was proved.

The same module proves, on top of it, `LiveIsCapturing` and `EveryStopAnswered`, so every safety property of the
`session` run is proved. Both need strengthenings of their own:

* `AttachedIsStream`: a stream on its way to be announced as live is the recorder's, as long as its
  recording is the newest. Without it `mic_live` could announce a stream that a stop has taken.
* `WorkIsAnswered`: a Transcribe thread works for the operation in processing, or for one whose
  fate is settled, and one that is past its answer has given it.

`SpeechGateProofs` proves, for every set of requests and turns, `GateSpec => []GateInv` from
`GateAssumption` (`NoRequest` is not a request), and from it `GateTypeOK`, `FlowHasTheVoice`,
`StoppedStaysSilent` and `NothingLeft`. `GateInv` is made of:

* `Tables`: each table of the endpoint has exactly the requests whose threads are between the
  lines that add and remove them. What is left at the end follows from it.
* `OneLiving`: unless the flow stopped waiting once, the gate's remote owner is the only request
  past its admission; a second one would be a second voice.
* `ToldEnds`: whoever was told to stop, and not only while it was in no table (`unheard`), has its stream closed,
  is in `cancelled`, or finds `preempted` set: the three ways the code has to refuse a stream that comes later.
* `Flags`: the busy and discard flags of the shared handler belong to a turn that will clear them.

`EventHubProofs` proves, for every set of companions, every capacity of the ring and every bound,
`TypeOK`, `OneCue`, `ViewMatchesCursor`, `HolderKnowsPending`, and that `EventHub` implements
`EventFeed` (`IsEventFeed`), from `HubAssumption`. Its invariant has two layers:

* `PollInv`: an id has one owner, a poll in flight was made with the id of the session or of one
  that was dropped, and the daemon counts exactly the polls in flight. Because of it an idle client
  that is pushed out of the registry has no poll that could still be answered.
* `StreamInv`: an answer on its way that will be handled takes up where the cursor stands
  (`AnswersFollow`), and one with a snapshot has every pending result up to its cursor; a cue that a
  client played is behind its cursor (`CuesBehind`), or it might play it again; the holder of the
  clipboard was granted it in this session (`ResultsFollow`).

Each layer is proved over a few forms of step (`PollStep`, `FeedStep`), and every action is shown to
be one of them. The abstract steps are: an append, a reader that joins at the end, one that moves on,
one that leaves.

`SupervisorProofs` proves, for all limits, bounds and WSL policies, `TypeOK`, `OwnedIsAlive` and
`QuitStopsEngine`, from `SupervisorAssumption`. One lemma for each input of the policy says that its
record stays within the limits and that no input but a launch report makes it own an engine (`Leads`). `SupInv`
adds to the types:

* `Followed`: the engine the policy owns, one being reported as spawned, and one whose report is
  posted is alive, or its exit is on its way, and in the last case behind that report. This is why
  exits go through the supervisor's queue.
* `Dropping`: what comes late to a companion that quits, or whose settings have just changed, is dropped.
* `NoneLeft`: after Quit, an engine runs only ahead of a queued teardown.

The limits are not kept without exception: section 5 names the one the proof came across.

`CompanionVoiceProofs` proves `VoiceTypeOK`, `StoppedIsSilent` and `HeardInOrder` on both platforms, for any numbers
of lines, pieces, holds, stops and failures, from `VoiceAssumption` alone; `HeardInOrder` itself speaks of at most one hold and
names what it excepts. `VoiceInv` says what
the worker holds at each of its steps and that nothing of a forgotten line is in the device; `OrderInv`
that every piece of a valid line is over, in the device, to be said again, in the worker's hand, or
still waiting (`Covered`), and that the worker asks for a piece outside a hold only when all before
it are settled (`Ready`). That pieces are numbered through the lines needs some arithmetic of
quotients, which comes first in the module.

`OwnedConversationsProofs` proves `OwnedTypeOK`, `NoneForgotten` and `WithinLimit` for any limit and any number of
ids and processes, from `OwnedAssumption`. A process may be renamed at any moment, so the invariant
says which ids it has a claim to (`ClaimsApart`, `OldIdsDead`), that no call holds one of them while
another process has it (`TargetFree`), and that each slot pays for one process (`Slots`, a sum of two
cardinalities that stays within the limit). A process that is logged out or lost pays for no slot but keeps its claims, for it may still report a session. All but the shape of the state is given up once `twice` says that a renamed conversation
was held twice, which the properties themselves name.

`HeldAnswersProofs` proves `AnswersTypeOK` and `AnswersKept`, for any number of conversations, prompts and
centrals and any number of digests kept, from `AnswersAssumption`. `AnswersInv` says where each answer is. What is
held (by the watcher, inbox, digests, a queue, a note, a post) is never let go of again. An answer
that is not held has the watch of its conversation (`Watched`), and no other prompt there has its turn
to come (`Alone`). Turns of a conversation come one after the other, in the order of the prompts
(`TurnsInOrder`), so the first turn to end behind what the tail has read is its own (`Reads`), and the
watcher that takes it takes the right one. The last three are what a test would not reach: a watch
that is replaced, refused or dropped belongs to one prompt while another still waits.

`DeliveryProofs` proves every safety property of the delivery runs, `TypeOK`, `AutomaticOnce`,
`QueueInOrder`, `DeliveredHasLanded` and `TextKept`, for all numbers of instances, results, runs and
faults, all limits of the lists and any number of retries, from `DeliveryAssumption`. It comes in
four parts:

* Folds. A handler may take in many results at once, one after the other, so what it does is a fold.
  What a fold gives follows from what each of its steps keeps (`ChainOf`): the first step to break it
  would be the least of a set of numbers, so no induction over data is needed. `Only`, `InsertAll`,
  `RememberAll` and `AddAllPending` are treated in this way.
* The queue. It is `Good` between two handlers: no result has two automatic jobs, or has one while it is
  acknowledged or listed (`Apart`); only the first automatic job was tried before, and the others are
  in result order (`Ordered`). An insertion keeps this because its place is the first one it may take
  (`InsertPlace`, `PutSorted`).
* The handlers. `Handled` says where the results go from one queue to the next: an automatic job stays
  one, or its result is in the list, was pushed out of it, or is on the clipboard; the list gives
  up nothing but to the user, its limit or the clipboard; and a result gets a status only if it is in
  one of these places. There is one lemma for each handler (`Proper`); a registration is two of them, one after
  the other (`HandledTwice`).
* The rest of the system. `DeliveryInv` adds what ties the queue to it. `AllPublished`: nothing in the
  queue, the list, the file or under way names a result that is not published yet, so a new result is
  new to everybody. `Synced`: once registered, what was restored from the file is not among what the
  daemon lists as pending, or it would be written without being asked for. `Settled`: an ACK on its way
  says what is so; this is what keeps a text when the daemon stops listing it. `Saved`: the newest list
  on its way to the file is the queue's. `Phases`: nothing is queued by itself once the quit began.

`TextKept` is an action property: each action is shown to keep the invariant and every text in one
lemma (`Preserved`).

Before it was proved, each invariant was checked as an invariant of a TLC run on the instances of section 3
or smaller ones.

What stays with TLC, because the prover does not handle liveness under fairness: `ComesToRest`,
`EveryResultAcknowledged`, `CatchesUp`, `PollsEnd`, `Settles`, `EveryLineHeard`, `WorkerEnds`,
`QuitEndsAll`, `EveryAnswerArrives`. The `TypesOK` of `MCAssistant` is the conjunction of the three type
invariants proved for its modules. Every other property of the passing runs is a theorem.

## 5. Known weaknesses not stated as properties

* A Transcribe thread delayed until a newer recording has started stops that one: `recorder.stop()`
  names no generation. The session then stays in `recording` with a stopped recorder until the next
  key or the time limit. `RecorderHasOwner` covers the opposite direction only.
* A clipboard write given up after 15 s may still succeed later, and is retried meanwhile: the
  clipboard can be set twice, and with text older than the 30 s after which results are not to be
  written by themselves (`docs/companion-app.md:267` and `:285`).
* A retried ACK may reach the daemon after a newer one for the same result. The daemon keeps
  whichever came last; no decision depends on it.
* After `shutdown` a closed journal answers at once, so a client that keeps polling until the
  server is gone does so without pause.
* Two launches in the supervisor's queue (a WSL restart while another launch waits, two commands of the
  user) start two engines: the second is spawned while the first does not answer yet. The backend
  then knows the second only; if that one loses the port, the first goes on unowned and is attached to.
* An operation that is superseded while a newer restart is already under way (the window of
  `RestartSupersedes` in section 6) ends without a result, an error or a notice.
* One voice (`app/features/tts/pcm.py:10`) has three exceptions. A turn that fails after a sentence gives
  the voice back while the player still speaks it (`app/features/claude/chat_handler.py:183`). The flow takes the voice
  after 2 s from a stream that may still be open (`pcm.py:119`). And the gate does not know which turn has its voice:
  what a superseded turn still does (`StopSpeaker`, `Drained`, `EndTurn`) gives back the voice that the next turn has
  just taken, and a request is let in beside it. The properties of `SpeechGate` speak of streams and owner, not of the
  player, and stop at `late`.
* A `/v1/cancel` that comes after `begin_remote` and before the request is in `_opening`, or between `_done_opening`
  (`app/daemon/tts_endpoint.py:272`) and `_active` (`:281`), is answered 200 and lost: the stream is synthesized to
  its end, although "`/v1/cancel` stops the synthesis" (`docs/tts-provider-protocol.md:170`). `StoppedStaysSilent` names
  it (`unheard`).
* `cancel_in_flight` is called after the session lock was released, on the handler that a newer operation may share
  (`app/core/recording_session.py:133`, `:169`). A late one marks, or silences, the turn of the newer operation
  (`MarkCancelled`, `StopSpeaker`), whose answer is then dropped although nobody cancelled it (`docs/companion-app.md:253`
  lists how an operation may end without a result, and this way is not among them). The other way round, `handle()` of the newer turn clears the flag of
  the one being cancelled (`app/features/claude/chat_handler.py:106`), which may then speak on. No property excludes either.
* Voice of the companion, order. A hold may be over while the worker still blocks in opening a stream (the grace time of
  `pause()` is 1 s) or goes on to the next line: what it cut stays in the replay list and is heard after the piece in hand,
  or not before the next line is given (`app/companion/voice.py:572`; the history `unnoticed`). A second hold while a
  held tail is said again puts what it cuts behind the piece in hand (`:751`; `HeardInOrder` is stated for one hold).
  `tests/companion/test_companion_voice.py:343` says of two recordings in a row that no line is skipped or swapped; it
  holds each long enough to be noticed. `stop()` flushes the device after it gave up the lock, and drains lines given
  meanwhile (`:346`); a piece may be written just after a hold began (`:681`) and sounds until the worker looks again.
* Voice of the companion, devices. On Linux a flush kills the player (`app/companion/linux/pcm_out.py:84`) while
  `_output` goes on naming it: after a cut, all that is said until the voice is idle and lets its output go is written to
  nobody. Such a piece is `lost` when it is written; that a later cut may put it back, because its times say that it
  still plays, is left out. A request that fails drops the rest of its line, and a replay that fails the rest of the line being
  said (`voice.py:561`). An `OSError` of a write ends the line, but while `_idle` says the last lines again it
  leaves `_run` (`:465`, `:737`): the worker is dead and the voice silent until the app is started again (`dead`).
* A conversation renamed while a call holds the slot of its old id is let in twice: one registration
  overwrites the other, and a process is forgotten (`app/companion/assistant/conversations.py:412` and `:456`; the
  history `twice` names it). `stop()` of a conversation that is being started does nothing (`:376`),
  and may write back a record that was changed since it was read (`:356`).
* "At most `OWNED_LIMIT` processes are alive at once" (`conversations.py:8`) is not so: the slots count ports that
  are starting, ready or busy (`:262`, `:419`), and a process whose turn failed because nobody is logged in lives on
  behind a port in `error` (`own_session.py:678`). Nor does the count have the processes that a thread is about to stop.
  One that says so before its start has returned is answered `start_failed` (`conversations.py:438`) and is in no
  table: nothing stops it, not even Quit (`lost`).
* Answers (the history `forgiven` names them). Two prompts to one conversation share one watch: the
  second registration forgets what the first waited for, its own watch may take the answer of the
  first, and when the second prompt is refused, the watch is removed for both
  (`app/companion/assistant/mcp_tools.py:194`, `notifier.py:115`). A send that finds the conversation not running
  resumes it, under a session id of its own when its transcript is gone or another process has its session
  (`own_session.py:473`); the watch stays on the old id (`mcp_tools.py:196`) and the answer is never found
  (`WriteElsewhere`). Likewise, a running conversation that reports another session goes on in another transcript: the
  turns asked for before never end in the one that is watched. A watch is given up after an hour. At Quit, notes
  that wait for the next central are forgotten with the memory of the process, and so are digests that
  the Desktop port returns later than `STOP_CAP_S`, which is no longer than the port's own
  `STOP_WAIT_S` (8 s, `service.py:102`, `desktop_port.py:44`). A crash between the sending of a digest and its flash
  loses it. A note that comes back after the next central got ready waits for the end of its next turn.
* A change of the engine settings queues the teardown of the old backend. Quit stops only what the new
  backend knows, so an old engine whose teardown has not run by then ends with its pipe or job object
  (`app/companion/controller.py:956`); `QuitStopsEngine` names this case.
* Two calls of `apply_settings` (the window, and the mode key on the io thread) post
  `_settings_applied` after they gave up the hotkey lock (`controller.py:806`): the dispatcher may
  handle them in the other order and run the engine with settings that are not the saved ones.
  `_remember_engine_dir` and `_reflect_autostart` (`:1210`, `:908`) read, change and save the settings without that lock, and may
  undo a change just saved.
* An engine that cannot be launched for want of its directory ends the supervision in `failed`
  (`app/companion/supervisor/policy.py:181`). Unlike the other ways to give up (`_fail`, `:448`), this one does not
  clear an open question about restarting WSL: an approval then restarts WSL although the app has given up. This is
  why `Bounds` in `SupervisorProofs` keeps the limits in `failed` too while the user is asked.
* A stop asks whoever holds the port to shut down, which may be another daemon than the engine meant.
* The exit of an engine that another client quit may overtake the `user_quit` event in the poller; it
  then counts as a crash, and the engine is started again.

## 6. Disagreements with the documentation

Each is a run in which TLC finds the counterexample.

* `StartedIsRecording`: a restart that arrives before the old Transcribe thread called
  `recorder.stop()` is refused by the recorder. `toggle()` answers `restarted` and the session is
  idle (`app/core/session_status.py:71`).
* `RestartSupersedes`: `toggle()` supersedes the operation it saw, gives up the lock, and then
  starts over whatever is in processing, maybe a newer operation that nobody superseded
  (`docs/companion-app.md:246`).
* `QuitListsEverything`: `copy()` takes the place of the automatic write being retried, and
  `abandon_queue` drops manual copies because "their result is already in the list, or was
  delivered before". Here it is neither (`app/companion/delivery.py:220`).
* `CrashKeepsList`: the ACK of a result moved to the Not copied list and the write of the file go
  to two threads. After a crash between the two, the daemon lists the result no more and the file
  does not have it (`docs/companion-app.md:299`).
* `OwnShutdownIsNoCrash`: the exit of the engine is expected when a WSL restart begins, if the engine
  is owned by then. A launch still under way reports afterwards and clears the expectation, so the
  engine that ends with the VM counts as a crash (`docs/companion-app.md:495`).

## 7. Plan

Done: the recording session, the event hub, the supervisor, the voice gate with the chat flow, the
companion's voice, the started conversations, the answers and delivery, each with its safety proved.
Next, in this order:

1. The controller's own life: the saving of settings and their order, late answers of the io
   thread, quit racing a registration. Composes with `EventHub`'s poller.
2. The v1 buffers of `SessionStatus` (scopes and drain order), as a second reader of the session's
   events.
3. The service's screen: which transcript it follows, direct mode, what of a reply is voiced.

### Not modelled

Text and file formats, Qt widgets, operating system services, speech models, installers and
translations, for the reasons given in `PROJECT.json`: they are sequential, or call others' code, and
are the larger part of the source.

## 8. Running

```
tlc -workers 2 -config MCRecordingSession.cfg MCRecordingSession.tla
tlapm RecordingSessionProofs.tla
```

Each configuration names its module by its prefix. The largest runs take one to four minutes; `assistant` is
the longest.
