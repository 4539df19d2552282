----------------------------- MODULE HeldAnswers -----------------------------
(***************************************************************************)
(* What becomes of the answer of another conversation: AnswerWatcher       *)
(* (app/companion/assistant/notifier.py) over the tools that ask           *)
(* (mcp_tools.py), the Inbox (inbox.py), the two conversation ports        *)
(* (own_session.py, desktop_port.py) and the worker of AssistantService    *)
(* (service.py), whose tasks run one at a time.                            *)
(*                                                                         *)
(* An answer is known by the prompt it answers; answer 0 is held from the  *)
(* last run.  Notices, sounds, assistant.json, the transcript on screen    *)
(* and the texts are left out.  The tasks a person posts may come at any   *)
(* time, so they do not wait in posts.                                     *)
(***************************************************************************)
EXTENDS Naturals, Sequences, FiniteSets, SequencesExt

CONSTANTS
  Conversations,
  DigestsKept,  \* DIGESTS_KEPT
  MaxPrompts,   \* bound: prompts ever sent to the conversations
  MaxPorts      \* bound: central conversations ever started

ASSUME AnswersAssumption == {DigestsKept, MaxPrompts, MaxPorts} \subseteq Nat \ {0}

Prompts == 1..MaxPrompts
Answers == 0..MaxPrompts
Ports == 1..MaxPorts

VARIABLES
  to,         \* the conversation of each prompt
  prompt,     \* "new", "watched", "written", "asked", "refused" or "over": the tool that sends it
  begun,      \* the conversations that exist
  sent,       \* the prompts each of them got, in their order
  log,        \* their transcripts: <<"user", p>> and <<"end", p>>
  watching,   \* _watches: the prompt whose watch each conversation has, 0: none
  offset, saw, \* of each watch: what its tail has read, whether it read a prompt
  note,       \* ... the answer in its note, 0: none
  round,      \* the watches the poll round still has to go through
  offer,      \* the one whose note it hands over, 0: none
  via,        \* the port it is about to send to, 0: undecided
  handed,     \* the note was taken; the watch is dropped next
  inbox,
  digests,    \* _digests: the items of each, the oldest first
  pending,    \* _pending_events
  port,       \* _port, 0: none
  posts,      \* what the ports and flashes posted to the worker
  stopping,   \* the port the worker is stopping, 0: none
  closing,    \* the ports whose stop() was called
  hearing,    \* the items whose digest the worker has sent and not yet removed
  quit,       \* "no", "asked" or "done": the dispatcher takes no more tasks
  mode,       \* of each port: "own" or "desktop"
  status,     \* its status, or "new"
  jobs, flash, \* of a Desktop port: its queue and the text being typed, <<>>: none
  thread,     \* its worker: "attaching", "serving", "draining" or "ended"
  arrived,    \* history: answers the central got
  forgiven    \* history: answers the code gives up, by design or by one of the weaknesses of the README

asking == <<to, prompt, begun, sent, log>>
watches == <<watching, offset, saw, note>>
poller == <<round, offer, via, handed>>
task == <<digests, pending, port, stopping, closing, hearing, quit>>
centrals == <<mode, status, jobs, flash, thread, arrived>>
answerVars == <<asking, watches, poller, inbox, task, posts, centrals, forgiven>>

Note(p) == [kind |-> "note", of |-> {p}]
Digest(items) == [kind |-> "digest", of |-> items]
Carried(texts) == UNION {t.of : t \in texts}

AnswersInit ==
  /\ to \in [Prompts -> Conversations] /\ begun \in {{}, Conversations}
  /\ prompt = [p \in Prompts |-> "new"] /\ log = [c \in Conversations |-> <<>>] /\ sent = log
  /\ watching = [c \in Conversations |-> 0] /\ offset = [p \in Prompts |-> 0]
  /\ saw = [p \in Prompts |-> FALSE] /\ note = [p \in Prompts |-> 0]
  /\ round = {} /\ offer = 0 /\ via = 0 /\ handed = FALSE
  /\ inbox \in {{}, {0}} /\ arrived = {0} \ inbox /\ forgiven = {}
  /\ digests = <<>> /\ pending = <<>> /\ port = 0 /\ posts = <<>>
  /\ stopping = 0 /\ closing = {} /\ hearing = {} /\ quit = "no"
  /\ mode = [n \in Ports |-> "own"] /\ status = [n \in Ports |-> "new"]
  /\ jobs = [n \in Ports |-> <<>>] /\ flash = [n \in Ports |-> <<>>]
  /\ thread = [n \in Ports |-> "ended"]

-----------------------------------------------------------------------------
(* The conversations.                                                       *)

Shows(k, p) == \E i \in DOMAIN log[to[p]] : log[to[p]][i] = <<k, p>>
Ended(p) == Shows("end", p)

Says(k, p) ==
  /\ log' = [log EXCEPT ![to[p]] = Append(@, <<k, p>>)]
  /\ UNCHANGED <<to, prompt, begun, sent, watches, poller, inbox, task, posts, centrals, forgiven>>

\* A conversation answers its prompts one after the other.
TurnStarts(p) ==
  /\ \E i \in DOMAIN sent[to[p]] :
       sent[to[p]][i] = p /\ \A j \in 1..i - 1 : Ended(sent[to[p]][j])
  /\ ~Shows("user", p) /\ Says("user", p)
TurnEnds(p) == Shows("user", p) /\ ~Ended(p) /\ Says("end", p)

-----------------------------------------------------------------------------
(* The tools.  Every request of the central runs on a thread of its own.    *)

\* A prompt to that conversation whose turn is still to come.
Expects(p) ==
  \E q \in Prompts \ {p} :
    to[q] = to[p] /\ (prompt[q] = "watched" \/ (q \in ToSet(sent[to[q]]) /\ ~Shows("user", q)))

\* AnswerWatcher.watch: the watch it replaces is forgotten with what it still waited for, and the new
\* one takes the answer of an earlier prompt whose turn is still to come.
Registers(p, at) ==
  LET c == to[p]
      old == watching[c]
  IN /\ watching' = [watching EXCEPT ![c] = p] /\ offset' = [offset EXCEPT ![p] = at]
     /\ forgiven' = forgiven \cup (IF old = 0 \/ (handed /\ offer = old) THEN {} ELSE {old, note[old]} \ {0})
                              \cup (IF Expects(p) THEN {p} ELSE {})
     /\ UNCHANGED <<saw, note>>

Asks == port # 0 /\ mode[port] = "own" /\ status[port] \in {"ready", "busy"}

\* send_to_conversation
Watch(p) ==
  /\ prompt[p] = "new" /\ Asks /\ to[p] \in begun
  /\ prompt' = [prompt EXCEPT ![p] = "watched"] /\ Registers(p, Len(log[to[p]]))
  /\ UNCHANGED <<to, begun, sent, log, poller, inbox, task, posts, centrals>>
WritePrompt(p) ==
  /\ prompt[p] = "watched"
  /\ \/ prompt' = [prompt EXCEPT ![p] = "asked"] /\ sent' = [sent EXCEPT ![to[p]] = Append(@, p)]
     \/ prompt' = [prompt EXCEPT ![p] = "refused"] /\ UNCHANGED sent
  /\ UNCHANGED <<to, begun, log, watches, poller, inbox, task, posts, centrals, forgiven>>

\* The conversation does not run and its session cannot be resumed (its transcript is gone, or another process
\* owns it): it goes on under an id of its own, and answers in a transcript this watch does not read.
WriteElsewhere(p) ==
  /\ prompt[p] = "watched" /\ prompt' = [prompt EXCEPT ![p] = "over"] /\ forgiven' = forgiven \cup {p}
  /\ UNCHANGED <<to, begun, sent, log, watches, poller, inbox, task, posts, centrals>>

\* AnswerWatcher.unwatch
Forgets(c) ==
  /\ watching' = [watching EXCEPT ![c] = 0]
  /\ forgiven' = forgiven \cup (IF watching[c] = 0 THEN {} ELSE {watching[c], note[watching[c]]} \ {0})
Unwatch(p) ==
  /\ prompt[p] = "refused" /\ prompt' = [prompt EXCEPT ![p] = "over"] /\ Forgets(to[p])
  /\ UNCHANGED <<to, begun, sent, log, offset, saw, note, poller, inbox, task, posts, centrals>>

\* start_conversation: its transcript is read from the first line.
StartConversation(p) ==
  /\ prompt[p] = "new" /\ Asks /\ to[p] \notin begun
  /\ begun' = begun \cup {to[p]} /\ prompt' = [prompt EXCEPT ![p] = "written"]
  /\ sent' = [sent EXCEPT ![to[p]] = Append(@, p)]
  /\ UNCHANGED <<to, log, watches, poller, inbox, task, posts, centrals, forgiven>>
WatchBegunFrom(p, at) ==
  /\ prompt[p] = "written" /\ prompt' = [prompt EXCEPT ![p] = "asked"] /\ Registers(p, at)
  /\ UNCHANGED <<to, begun, sent, log, poller, inbox, task, posts, centrals>>
\* Mutant: like the watch of any other conversation, it starts at the end of the transcript.
WatchBegunAtEnd(p) == WatchBegunFrom(p, Len(log[to[p]]))
WatchBegun(p) == WatchBegunFrom(p, 0)

\* stop_conversation
StopConversation(c) ==
  /\ Asks /\ c \in begun /\ watching[c] # 0 /\ Forgets(c)
  /\ UNCHANGED <<asking, offset, saw, note, poller, inbox, task, posts, centrals>>

-----------------------------------------------------------------------------
(* The central: ports, their queues and what they report.                   *)

\* The listener posts every status to the worker; only "ready" changes something there that is modelled.
Failed(text) == [kind |-> "failed", text |-> text]
ReadyPost(n) == [kind |-> "ready", port |-> n]
Posted(more) == posts' = IF quit = "done" THEN posts ELSE posts \o more

\* ConversationPort.send returns True.
Accepts(n) == status[n] \in {"starting", "ready", "busy"} /\ n \notin closing

\* ... and the texts are on their way; an own process has them at once.
Sends(n, texts) ==
  /\ IF mode[n] = "own"
     THEN /\ arrived' = arrived \cup Carried(ToSet(texts))
          /\ status' = [status EXCEPT ![n] = IF @ = "ready" THEN "busy" ELSE @] /\ UNCHANGED jobs
     ELSE jobs' = [jobs EXCEPT ![n] = @ \o texts] /\ UNCHANGED <<status, arrived>>
  /\ UNCHANGED <<mode, flash, thread>>

PortStep(n) == UNCHANGED <<asking, watches, poller, inbox, task, mode, forgiven>>

\* It is up, or its turn is over.
Ready(n) ==
  /\ status[n] \in {"starting", "busy"} /\ n \notin closing
  /\ mode[n] = "desktop" => thread[n] = "serving" /\ flash[n] = <<>>
  /\ status' = [status EXCEPT ![n] = "ready"] /\ Posted(<<ReadyPost(n)>>)
  /\ PortStep(n) /\ UNCHANGED <<jobs, flash, thread, arrived>>

\* An own process ends by itself.
Dies(n) ==
  /\ mode[n] = "own" /\ status[n] \in {"starting", "ready", "busy"} /\ n \notin closing
  /\ status' = [status EXCEPT ![n] = "error"] /\ PortStep(n) /\ UNCHANGED <<posts, jobs, flash, thread, arrived>>

\* DesktopConversationPort._run: the conversation is found, and the first prompt is typed or not.
Attach(n) ==
  /\ thread[n] = "attaching" /\ thread' = [thread EXCEPT ![n] = "serving"]
  /\ \/ UNCHANGED status
     \/ status' = [status EXCEPT ![n] = "error"]
  /\ PortStep(n) /\ UNCHANGED <<posts, jobs, flash, arrived>>
AttachFailsInto(n, pc) ==
  /\ thread[n] = "attaching" /\ thread' = [thread EXCEPT ![n] = pc]
  /\ status' = [status EXCEPT ![n] = "error"] /\ PortStep(n) /\ UNCHANGED <<posts, jobs, flash, arrived>>
\* Mutant: the thread of a conversation that is not found just ends.
AttachFailsAndEnds(n) == AttachFailsInto(n, "ended")
AttachFails(n) == AttachFailsInto(n, "draining")

Take(n) ==
  /\ thread[n] = "serving" /\ flash[n] = <<>> /\ jobs[n] # <<>>
  /\ flash' = [flash EXCEPT ![n] = <<Head(jobs[n])>>] /\ jobs' = [jobs EXCEPT ![n] = Tail(@)]
  /\ PortStep(n) /\ UNCHANGED <<posts, status, thread, arrived>>
FlashWorks(n) ==
  /\ flash[n] # <<>> /\ flash' = [flash EXCEPT ![n] = <<>>]
  /\ arrived' = arrived \cup flash[n][1].of
  /\ status' = [status EXCEPT ![n] = IF @ \in {"error", "stopped"} THEN @ ELSE "busy"]
  /\ PortStep(n) /\ UNCHANGED <<posts, jobs, thread>>
\* The failure comes after the status of a port that was stopped meanwhile, too.
FlashFails(n) ==
  /\ flash[n] # <<>> /\ flash' = [flash EXCEPT ![n] = <<>>]
  /\ status' = [status EXCEPT ![n] = "error"] /\ Posted(<<Failed(flash[n][1])>>)
  /\ PortStep(n) /\ UNCHANGED <<jobs, thread, arrived>>
Drain(n) ==
  /\ thread[n] = "draining" /\ jobs[n] # <<>>
  /\ jobs' = [jobs EXCEPT ![n] = Tail(@)] /\ Posted(<<Failed(Head(jobs[n]))>>)
  /\ PortStep(n) /\ UNCHANGED <<status, flash, thread, arrived>>
\* The end marker comes after every job.
ThreadEnds(n) ==
  /\ thread[n] \in {"serving", "draining"} /\ flash[n] = <<>> /\ jobs[n] = <<>> /\ n \in closing
  /\ thread' = [thread EXCEPT ![n] = "ended"] /\ PortStep(n) /\ UNCHANGED <<posts, status, jobs, flash, arrived>>

-----------------------------------------------------------------------------
(* The watcher's thread.                                                    *)

\* The answer a tail finds in what it has not read: that of the first turn to end after a prompt it saw.
Finds(w) ==
  LET l == log[to[w]]
      Shown(i) == saw[w] \/ \E j \in offset[w] + 1..i : l[j][1] = "user"
      ends == {i \in offset[w] + 1..Len(l) : l[i][1] = "end" /\ Shown(i)}
  IN IF ends = {} THEN 0 ELSE l[CHOOSE i \in ends : \A j \in ends : i <= j][2]

BeginPollRound ==
  /\ quit # "done" /\ round = {} /\ offer = 0 /\ round' = {watching[c] : c \in Conversations} \ {0} /\ round' # {}
  /\ UNCHANGED <<asking, watches, offer, via, handed, inbox, task, posts, centrals, forgiven>>

Forgo(w) == IF watching[to[w]] = w THEN [watching EXCEPT ![to[w]] = 0] ELSE watching

\* _read; a watch with nothing to hand over waits for the next round, or is given up after max_wait_s.
ReadTail(w) ==
  LET l == log[to[w]]
      found == IF note[w] = 0 THEN Finds(w) ELSE note[w]
  IN /\ w \in round /\ offer = 0 /\ round' = round \ {w}
     /\ note' = [note EXCEPT ![w] = found]
     /\ offset' = [offset EXCEPT ![w] = IF note[w] = 0 THEN Len(l) ELSE @]
     /\ saw' = [saw EXCEPT ![w] = @ \/ \E i \in offset[w] + 1..Len(l) : l[i][1] = "user"]
     /\ \/ found # 0 /\ offer' = w /\ UNCHANGED <<watching, forgiven>>
        \/ found = 0 /\ UNCHANGED <<offer, watching, forgiven>>
        \/ found = 0 /\ UNCHANGED offer /\ watching' = Forgo(w) /\ forgiven' = forgiven \cup {w}
     /\ UNCHANGED <<asking, via, handed, inbox, task, posts, centrals>>

Offering == offer # 0 /\ via = 0 /\ ~handed
\* _answer_ready; what the person does and has chosen decides where the answer goes.
Later ==
  /\ Offering /\ offer' = 0
  /\ UNCHANGED <<asking, watches, round, via, handed, inbox, task, posts, centrals, forgiven>>
SpeakNow ==
  /\ Offering /\ port # 0 /\ via' = port
  /\ UNCHANGED <<asking, watches, round, offer, handed, inbox, task, posts, centrals, forgiven>>
HoldBack ==
  /\ Offering /\ inbox' = inbox \cup {note[offer]} /\ handed' = TRUE
  /\ UNCHANGED <<asking, watches, round, offer, via, task, posts, centrals, forgiven>>
SendNote ==
  /\ via # 0 /\ via' = 0
  /\ IF Accepts(via) THEN handed' = TRUE /\ UNCHANGED offer /\ Sends(via, <<Note(note[offer])>>)
                     ELSE offer' = 0 /\ UNCHANGED <<handed, centrals>>
  /\ UNCHANGED <<asking, watches, round, inbox, task, posts, forgiven>>
DropWatch ==
  /\ handed /\ handed' = FALSE /\ offer' = 0 /\ watching' = Forgo(offer)
  /\ UNCHANGED <<asking, offset, saw, note, round, via, inbox, task, posts, centrals, forgiven>>

-----------------------------------------------------------------------------
(* The worker.                                                              *)

Unoccupied == stopping = 0 /\ hearing = {}
OnWorker == UNCHANGED <<asking, watches, poller>>

\* _on_port_status
OnReady ==
  /\ Unoccupied /\ posts # <<>> /\ Head(posts).kind = "ready" /\ posts' = Tail(posts)
  /\ IF Head(posts).port = port /\ pending # <<>> /\ Accepts(port)
     THEN pending' = <<>> /\ Sends(port, pending)
     ELSE UNCHANGED <<pending, centrals>>
  /\ OnWorker /\ UNCHANGED <<inbox, digests, port, stopping, closing, hearing, quit, forgiven>>

FailedTexts == {t.text : t \in {u \in ToSet(posts) : u.kind = "failed"}}

\* A digest whose items are remembered.
Kept(text) == text.kind = "digest" /\ text.of \in ToSet(digests)

\* _send_failed
OnFailed ==
  LET text == Head(posts).text
  IN /\ Unoccupied /\ posts # <<>> /\ Head(posts).kind = "failed" /\ posts' = Tail(posts)
     /\ IF Kept(text)
        THEN /\ inbox' = inbox \cup text.of /\ UNCHANGED pending
             /\ \E i \in DOMAIN digests : digests[i] = text.of /\ digests' = RemoveAt(digests, i)
        ELSE pending' = Append(pending, text) /\ UNCHANGED <<inbox, digests>>
     /\ OnWorker /\ UNCHANGED <<port, stopping, closing, hearing, quit, centrals, forgiven>>

\* _hear_ready
HearReady ==
  /\ Unoccupied /\ inbox # {} /\ port # 0 /\ Accepts(port)
  /\ hearing' = inbox /\ Sends(port, <<Digest(inbox)>>)
  /\ OnWorker /\ UNCHANGED <<inbox, digests, pending, port, stopping, closing, quit, posts, forgiven>>
Newest(s) == IF Len(s) > DigestsKept THEN Tail(s) ELSE s
HearReadyEnds ==
  /\ hearing # {} /\ hearing' = {} /\ inbox' = inbox \ hearing
  /\ digests' = IF hearing \in ToSet(digests) THEN digests ELSE Newest(Append(digests, hearing))
  /\ OnWorker /\ UNCHANGED <<pending, port, stopping, closing, quit, posts, centrals, forgiven>>

\* _clear_inbox
ClearInbox ==
  /\ Unoccupied /\ inbox # {} /\ inbox' = {} /\ forgiven' = forgiven \cup inbox
  /\ OnWorker /\ UNCHANGED <<task, posts, centrals>>

\* _start_port, when the settings change, a prompt finds no conversation, or at the start.
StartPort(n) ==
  /\ Unoccupied /\ port = 0 /\ quit = "no" /\ status[n] = "new" /\ \A m \in 1..n - 1 : status[m] # "new"
  /\ port' = n /\ status' = [status EXCEPT ![n] = "starting"]
  /\ \/ mode' = [mode EXCEPT ![n] = "own"] /\ UNCHANGED thread
     \/ mode' = [mode EXCEPT ![n] = "desktop"] /\ thread' = [thread EXCEPT ![n] = "attaching"]
  /\ OnWorker /\ UNCHANGED <<inbox, digests, pending, stopping, closing, hearing, quit, posts, jobs, flash, arrived, forgiven>>

\* _stop_port, then the port's stop(): the Desktop port's thread has STOP_WAIT_S to type what is queued.
StopPort ==
  /\ Unoccupied /\ port # 0 /\ stopping' = port /\ closing' = closing \cup {port} /\ port' = 0
  /\ quit' \in (IF quit = "no" THEN {"no", "asked"} ELSE {quit})
  /\ OnWorker /\ UNCHANGED <<inbox, digests, pending, hearing, posts, centrals, forgiven>>
Dropped(n) == [i \in DOMAIN jobs[n] |-> Failed(jobs[n][i])]
StopPortEnds ==
  /\ stopping # 0 /\ (thread[stopping] \in {"ended", "attaching"} \/ flash[stopping] # <<>>)
  /\ stopping' = 0 /\ status' = [status EXCEPT ![stopping] = "stopped"]
  /\ jobs' = [jobs EXCEPT ![stopping] = <<>>] /\ Posted(Dropped(stopping))
  /\ OnWorker /\ UNCHANGED <<inbox, digests, pending, port, closing, hearing, quit, mode, flash, thread, arrived, forgiven>>

\* stop() while no conversation runs.
QuitAtRest ==
  /\ Unoccupied /\ port = 0 /\ quit = "no" /\ quit' = "asked"
  /\ OnWorker /\ UNCHANGED <<inbox, digests, pending, port, stopping, closing, hearing, posts, centrals, forgiven>>

\* stop(): the worker had STOP_CAP_S; what it was posted until then it still does.
Quit ==
  /\ quit = "asked" /\ quit' = "done"
  /\ forgiven' = forgiven \cup (Answers \ (inbox \cup Carried({t \in FailedTexts : Kept(t)})))
  /\ OnWorker /\ UNCHANGED <<inbox, digests, pending, port, stopping, closing, hearing, posts, centrals>>

-----------------------------------------------------------------------------

ToolStep(p) ==
  \/ Watch(p) \/ WritePrompt(p) \/ WriteElsewhere(p) \/ Unwatch(p)
  \/ StartConversation(p) \/ WatchBegun(p)
HandOver == SpeakNow \/ HoldBack
WatcherStep == BeginPollRound \/ (\E w \in Prompts : ReadTail(w)) \/ HandOver \/ Later \/ SendNote \/ DropWatch
ThreadStep(n) ==
  Attach(n) \/ AttachFails(n) \/ Take(n) \/ FlashWorks(n) \/ FlashFails(n) \/ Drain(n) \/ ThreadEnds(n)
TaskStep == OnReady \/ OnFailed \/ HearReadyEnds \/ StopPortEnds

AnswersNext ==
  \/ \E p \in Prompts : TurnStarts(p) \/ TurnEnds(p) \/ ToolStep(p)
  \/ \E c \in Conversations : StopConversation(c)
  \/ WatcherStep
  \/ \E n \in Ports : ThreadStep(n) \/ Ready(n) \/ Dies(n) \/ StartPort(n)
  \/ TaskStep \/ HearReady \/ ClearInbox \/ StopPort \/ QuitAtRest \/ Quit

AnswersSpec == AnswersInit /\ [][AnswersNext]_answerVars

\* Some thread that can go on does, the watcher does, and the person is not busy for ever when a note is
\* offered again and again.  No central has to become ready.
ThreadsGoOn == (\E p \in Prompts : ToolStep(p)) \/ (\E n \in Ports : ThreadStep(n)) \/ TaskStep
AnswersFairness == WF_answerVars(ThreadsGoOn) /\ WF_answerVars(WatcherStep) /\ SF_answerVars(HandOver)
FairAnswersSpec == AnswersSpec /\ AnswersFairness

-----------------------------------------------------------------------------

AnswersTypeOK ==
  /\ watching \in [Conversations -> Answers] /\ note \in [Prompts -> Answers]
  /\ round \subseteq Prompts /\ offer \in Answers /\ via \in 0..MaxPorts /\ handed \in BOOLEAN
  /\ inbox \subseteq Answers /\ hearing \subseteq Answers /\ arrived \subseteq Answers /\ forgiven \subseteq Answers
  /\ port \in 0..MaxPorts /\ stopping \in 0..MaxPorts /\ closing \subseteq Ports /\ quit \in {"no", "asked", "done"}
  /\ status \in [Ports -> {"new", "starting", "ready", "busy", "error", "stopped"}]
  /\ thread \in [Ports -> {"attaching", "serving", "draining", "ended"}]

Queued(n) == ToSet(jobs[n] \o flash[n])
Moving == hearing \cup Carried(FailedTexts) \cup UNION {Carried(Queued(n)) : n \in Ports}

\* A watch has the answer, or is going to find it.
WatchedBy(w, a) == a = IF note[w] = 0 THEN Finds(w) ELSE note[w]

\* An answer the assistant was asked to wait for is never lost on the way: from the end of its turn it is
\* ahead of a watch, noted, being sent, waiting for the next central, in the inbox, or was heard; unless it
\* is one the code gives up: its watch was replaced, forgotten or too old, or began before an earlier turn;
\* its conversation went on under another id; the inbox was cleared; or the app quit.
AnswersKept ==
  \A a \in Answers \ (arrived \cup forgiven \cup inbox \cup Moving \cup Carried(ToSet(pending))) :
    /\ a # 0
    /\ prompt[a] = "asked" /\ Ended(a) => \E c \in Conversations : watching[c] # 0 /\ WatchedBy(watching[c], a)

\* An answer does not stay on its way: what is queued is typed or given back, and what is noted is
\* handed over while there is a central that takes it.
Underway(a) ==
  \/ a \in Moving
  \/ /\ quit # "done" /\ a # 0 /\ a \notin forgiven
     /\ \E c \in Conversations : /\ watching[c] # 0 /\ WatchedBy(watching[c], a)
                                 /\ note[watching[c]] = 0 \/ (port # 0 /\ Accepts(port))
EveryAnswerArrives == (\E a \in Answers : Underway(a)) ~> ~\E a \in Answers : Underway(a)
=============================================================================
