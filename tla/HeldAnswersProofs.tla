-------------------------- MODULE HeldAnswersProofs --------------------------
(***************************************************************************)
(* Proofs about HeldAnswers: the answers of the other conversations, from  *)
(* the prompt that asks for them to the central that hears them            *)
(* (app/companion/assistant/notifier.py, service.py, inbox.py, ports).     *)
(*                                                                         *)
(* AnswersInv says where every answer is.  What is held (Held) is never    *)
(* let go again, and the prompt of an answer that is not held has the      *)
(* watch of its conversation (Watched): no other prompt there has its turn *)
(* to come (Alone), so the first turn that ends after what the tail has    *)
(* read is its own (Reads), because the turns of a conversation come one   *)
(* after the other in the order of the prompts (TurnsInOrder).             *)
(***************************************************************************)
EXTENDS HeldAnswers, TLAPS, WellFoundedInduction

-----------------------------------------------------------------------------
(* Sequences and their elements.                                            *)

\* A sequence and the set of its elements.
LEMMA Elements ==
  ASSUME NEW S, NEW s \in Seq(S)
  PROVE  /\ ToSet(s) \subseteq S
         /\ Len(s) \in Nat /\ DOMAIN s = 1..Len(s) /\ \A i \in 1..Len(s) : s[i] \in S
         /\ s = <<>> => ToSet(s) = {}
BY DEF ToSet

\* The set of a single element.
LEMMA OneElement == ASSUME NEW x PROVE ToSet(<<x>>) = {x}
BY DEF ToSet

\* What is appended is one more element, and leaves the others where they are.
LEMMA ElementsAppended ==
  ASSUME NEW S, NEW s \in Seq(S), NEW x \in S
  PROVE  Append(s, x) \in Seq(S) /\ ToSet(Append(s, x)) = ToSet(s) \cup {x}
<1>1. /\ Append(s, x) \in Seq(S) /\ Len(s) \in Nat /\ DOMAIN s = 1..Len(s)
      /\ DOMAIN Append(s, x) = 1..Len(s) + 1
      /\ Append(s, x)[Len(s) + 1] = x /\ \A i \in 1..Len(s) : Append(s, x)[i] = s[i]
  OBVIOUS
<1>2. ToSet(Append(s, x)) \subseteq ToSet(s) \cup {x}
  BY <1>1 DEF ToSet
<1>3. ToSet(s) \subseteq ToSet(Append(s, x))
  BY <1>1 DEF ToSet
<1>4. x \in ToSet(Append(s, x))
  BY <1>1 DEF ToSet
<1> QED BY <1>1, <1>2, <1>3, <1>4

\* Joined sequences have the elements of both.
LEMMA ElementsJoined ==
  ASSUME NEW S, NEW s \in Seq(S), NEW t \in Seq(S)
  PROVE  s \o t \in Seq(S) /\ ToSet(s \o t) = ToSet(s) \cup ToSet(t)
<1>1. /\ s \o t \in Seq(S) /\ Len(s) \in Nat /\ Len(t) \in Nat /\ DOMAIN s = 1..Len(s) /\ DOMAIN t = 1..Len(t)
      /\ DOMAIN (s \o t) = 1..Len(s) + Len(t)
  OBVIOUS
<1>2. /\ \A i \in 1..Len(s) : (s \o t)[i] = s[i]
      /\ \A i \in 1..Len(t) : (s \o t)[Len(s) + i] = t[i]
  BY <1>1
<1>3. ToSet(s \o t) \subseteq ToSet(s) \cup ToSet(t)
  <2>1. SUFFICES ASSUME NEW i \in 1..Len(s) + Len(t) PROVE (s \o t)[i] \in ToSet(s) \cup ToSet(t)
    BY <1>1 DEF ToSet
  <2>2. CASE i <= Len(s)
    <3>1. i \in 1..Len(s)
      BY <1>1, <2>2
    <3> QED BY <1>1, <1>2, <3>1 DEF ToSet
  <2>3. CASE ~(i <= Len(s))
    <3>1. i - Len(s) \in 1..Len(t) /\ Len(s) + (i - Len(s)) = i
      BY <1>1, <2>3
    <3>2. (s \o t)[i] = t[i - Len(s)]
      BY <1>2, <3>1
    <3> QED BY <1>1, <3>1, <3>2 DEF ToSet
  <2> QED BY <2>2, <2>3
<1>4. ToSet(s) \subseteq ToSet(s \o t)
  <2>1. SUFFICES ASSUME NEW i \in 1..Len(s) PROVE s[i] \in ToSet(s \o t)
    BY <1>1 DEF ToSet
  <2>2. i \in 1..Len(s) + Len(t) /\ (s \o t)[i] = s[i]
    BY <1>1, <1>2
  <2> QED BY <1>1, <2>2 DEF ToSet
<1>5. ToSet(t) \subseteq ToSet(s \o t)
  <2>1. SUFFICES ASSUME NEW i \in 1..Len(t) PROVE t[i] \in ToSet(s \o t)
    BY <1>1 DEF ToSet
  <2>2. Len(s) + i \in 1..Len(s) + Len(t) /\ (s \o t)[Len(s) + i] = t[i]
    BY <1>1, <1>2
  <2> QED BY <1>1, <2>2 DEF ToSet
<1> QED BY <1>1, <1>3, <1>4, <1>5

\* The elements are the first and those of the rest.
LEMMA FirstElement ==
  ASSUME NEW S, NEW s \in Seq(S), s # <<>>
  PROVE  Head(s) \in S /\ Tail(s) \in Seq(S) /\ ToSet(s) = {Head(s)} \cup ToSet(Tail(s))
<1>1. /\ Head(s) = s[1] /\ Head(s) \in S /\ Tail(s) \in Seq(S) /\ Len(s) \in Nat /\ Len(s) # 0
      /\ DOMAIN s = 1..Len(s) /\ DOMAIN Tail(s) = 1..Len(s) - 1
  OBVIOUS
<1>2. \A i \in 1..Len(s) - 1 : Tail(s)[i] = s[i + 1]
  BY <1>1
<1>3. ToSet(s) \subseteq {Head(s)} \cup ToSet(Tail(s))
  <2>1. SUFFICES ASSUME NEW i \in 1..Len(s), i # 1 PROVE s[i] \in ToSet(Tail(s))
    BY <1>1 DEF ToSet
  <2>2. i - 1 \in 1..Len(s) - 1 /\ Tail(s)[i - 1] = s[i]
    <3>1. i - 1 \in 1..Len(s) - 1 /\ (i - 1) + 1 = i
      BY <1>1, <2>1
    <3> QED BY <1>2, <3>1
  <2> QED BY <1>1, <2>2 DEF ToSet
<1>4. Head(s) \in ToSet(s)
  BY <1>1 DEF ToSet
<1>5. ToSet(Tail(s)) \subseteq ToSet(s)
  <2>1. SUFFICES ASSUME NEW i \in 1..Len(s) - 1 PROVE Tail(s)[i] \in ToSet(s)
    BY <1>1 DEF ToSet
  <2>2. i + 1 \in 1..Len(s) /\ Tail(s)[i] = s[i + 1]
    BY <1>1, <1>2
  <2> QED BY <1>1, <2>2 DEF ToSet
<1> QED BY <1>1, <1>3, <1>4, <1>5

\* Removing an element at a place keeps the others.
LEMMA ElementRemoved ==
  ASSUME NEW S, NEW s \in Seq(S), NEW i \in DOMAIN s
  PROVE  RemoveAt(s, i) \in Seq(S) /\ \A x \in ToSet(s) : x # s[i] => x \in ToSet(RemoveAt(s, i))
<1>1. Len(s) \in Nat /\ DOMAIN s = 1..Len(s) /\ i \in 1..Len(s)
  OBVIOUS
<1> DEFINE a == SubSeq(s, 1, i - 1)
           b == SubSeq(s, i + 1, Len(s))
<1>2. /\ a \in Seq(S) /\ DOMAIN a = 1..i - 1
      /\ b \in Seq(S) /\ DOMAIN b = 1..Len(s) - i
  BY <1>1
<1>3. \A j \in 1..i - 1 : a[j] = s[j]
  BY <1>1
<1>4. \A j \in 1..Len(s) - i : b[j] = s[i + j]
  BY <1>1
<1>5. RemoveAt(s, i) = a \o b
  BY DEF RemoveAt
<1> HIDE DEF a, b
<1>6. RemoveAt(s, i) \in Seq(S) /\ ToSet(RemoveAt(s, i)) = ToSet(a) \cup ToSet(b)
  BY <1>2, <1>5, ElementsJoined
<1>7. SUFFICES ASSUME NEW j \in 1..Len(s), j # i PROVE s[j] \in ToSet(a) \cup ToSet(b)
  BY <1>1, <1>6 DEF ToSet
<1>8. CASE j < i
  <2>1. j \in 1..i - 1
    BY <1>1, <1>8
  <2> QED BY <1>2, <1>3, <2>1 DEF ToSet
<1>9. CASE j > i
  <2>1. j - i \in 1..Len(s) - i /\ i + (j - i) = j
    BY <1>1, <1>9
  <2>2. b[j - i] = s[j]
    BY <1>4, <2>1
  <2> QED BY <1>2, <2>1, <2>2 DEF ToSet
<1> QED BY <1>1, <1>7, <1>8, <1>9

\* A set of numbers that is not empty has a least one.
LEMMA LeastIsThere ==
  ASSUME NEW S, S \in SUBSET Nat, S # {}
  PROVE  LET m == CHOOSE x \in S : \A y \in S : x <= y IN m \in S /\ \A y \in S : m <= y
<1> DEFINE R == {ss \in Nat \X Nat : ss[1] < ss[2]}
<1>1. IsWellFoundedOn(R, Nat)
  BY NatLessThanWellFounded, Zenon DEF OpToRel
<1>2. PICK m \in S : \A y \in S : <<y, m>> \notin R
  BY <1>1, WFMin, Zenon
<1>3. \A y \in S : m <= y
  <2>1. SUFFICES ASSUME NEW y \in S PROVE ~(y < m)
    OBVIOUS
  <2>2. <<y, m>> \notin R
    BY <1>2
  <2>3. <<y, m>> \in Nat \X Nat
    OBVIOUS
  <2> QED
    BY <2>2, <2>3
<1> QED
  BY <1>3

-----------------------------------------------------------------------------
(* Types.                                                                   *)

Text == [kind : {"note", "digest"}, of : SUBSET Answers]
Post == [kind : {"failed"}, text : Text] \cup [kind : {"ready"}, port : Ports]
Line == {"user", "end"} \X Prompts

AskTypes ==
  /\ to \in [Prompts -> Conversations] /\ begun \subseteq Conversations
  /\ prompt \in [Prompts -> {"new", "watched", "written", "asked", "refused", "over"}]
  /\ sent \in [Conversations -> Seq(Prompts)] /\ log \in [Conversations -> Seq(Line)]
WatchTypes ==
  /\ watching \in [Conversations -> Answers] /\ note \in [Prompts -> Answers]
  /\ offset \in [Prompts -> Nat] /\ saw \in [Prompts -> BOOLEAN]
PollTypes == round \subseteq Prompts /\ offer \in Answers /\ via \in 0..MaxPorts
BoxTypes == {inbox, hearing, arrived, forgiven} \subseteq SUBSET Answers /\ digests \in Seq(SUBSET Answers)
TextTypes ==
  /\ pending \in Seq(Text) /\ posts \in Seq(Post)
  /\ jobs \in [Ports -> Seq(Text)] /\ flash \in [Ports -> Seq(Text)]
PortTypes == port \in 0..MaxPorts /\ stopping \in 0..MaxPorts /\ closing \subseteq Ports
StateTypes ==
  /\ quit \in {"no", "asked", "done"} /\ mode \in [Ports -> {"own", "desktop"}]
  /\ status \in [Ports -> {"new", "starting", "ready", "busy", "error", "stopped"}]
  /\ thread \in [Ports -> {"attaching", "serving", "draining", "ended"}]
Typed ==
  /\ AskTypes /\ WatchTypes /\ PollTypes /\ handed \in BOOLEAN /\ BoxTypes /\ TextTypes /\ PortTypes /\ StateTypes

-----------------------------------------------------------------------------
(* Where an answer is.                                                      *)

\* On its way to a central, given back to the worker, waiting for the next central.
Flying == {a \in Answers : \E n \in Ports : \E t \in ToSet(jobs[n]) \cup ToSet(flash[n]) : a \in t.of}
Back == {a \in Answers : \E t \in FailedTexts : a \in t.of}
Waiting == {a \in Answers : \E t \in ToSet(pending) : a \in t.of}
Going == arrived \cup forgiven \cup Flying \cup Back \cup Waiting
Held == Going \cup inbox \cup hearing

\* What the worker has sent and not yet removed from the inbox is on its way.
Sending == hearing \subseteq Going
\* After Quit an answer is in the inbox, on its way back to it, or given up.
Resting ==
  /\ quit # "no" => port = 0 /\ hearing = {}
  /\ quit = "done" =>
       \A a \in Answers : a \in forgiven \cup inbox \/ \E t \in FailedTexts : Kept(t) /\ a \in t.of
\* A port types one text at a time.
OneText == \A n \in Ports : flash[n] # <<>> => flash[n] = <<flash[n][1]>> /\ flash[n][1] \in Text

\* The note that is handed over.
Offered ==
  /\ offer # 0 => note[offer] # 0
  /\ via # 0 => offer # 0 /\ ~handed
  /\ handed => offer # 0 /\ note[offer] \in Held

-----------------------------------------------------------------------------
(* Where a prompt and its answer are in the transcript.                     *)

SentTo(c) == ToSet(sent[c])

\* A prompt is sent once, to a conversation that exists.
SentOnce ==
  /\ \A p \in Prompts : prompt[p] # "new" => to[p] \in begun
  /\ \A c \in Conversations : \A i \in DOMAIN sent[c] : to[sent[c][i]] = c /\ prompt[sent[c][i]] \in {"written", "asked"}
  /\ \A c \in Conversations : \A i, j \in DOMAIN sent[c] : sent[c][i] = sent[c][j] => i = j
  /\ \A p \in Prompts : prompt[p] = "asked" => p \in SentTo(to[p])
  /\ \A p \in Prompts : prompt[p] = "written" => sent[to[p]] # <<>> /\ sent[to[p]][1] = p
  /\ \A c \in Conversations : c \notin begun => sent[c] = <<>>

\* A turn begins when all before it have ended, and ends after it began.
Orderly(l, s) ==
  /\ \A i \in DOMAIN l : l[i][2] \in ToSet(s)
  /\ \A i \in DOMAIN l : \A m \in DOMAIN s :
       l[i] = <<"user", s[m]>> => \A k \in 1..m - 1 : \E j \in 1..i - 1 : l[j] = <<"end", s[k]>>
  /\ \A i \in DOMAIN l : l[i][1] = "end" => \E j \in 1..i - 1 : l[j] = <<"user", l[i][2]>>
TurnsInOrder == \A c \in Conversations : Orderly(log[c], sent[c])

\* A prompt without a watch: its tail has read nothing.
Unwatched ==
  \A p \in Prompts : prompt[p] \in {"new", "written"} =>
    p \notin round /\ ~saw[p] /\ note[p] = 0 /\ \A c \in Conversations : watching[c] # p

\* No other prompt to its conversation has its turn to come.
Alone(p) ==
  \A q \in Prompts \ {p} : to[q] = to[p] =>
    prompt[q] # "watched" /\ (q \in SentTo(to[p]) => Shows("user", q))

\* What a tail has read up to line o, which held a prompt when h, and what it finds first in the rest.
Reads(p, l, o, h) ==
  /\ o <= Len(l)
  /\ h => \E i \in DOMAIN l : l[i] = <<"user", p>>
  /\ \A i \in 1..o : l[i] # <<"end", p>> /\ (~h => l[i] # <<"user", p>>)
  /\ \A i \in DOMAIN l : ~h /\ i > o /\ l[i][1] = "user" => \E k \in 1..i : l[k] = <<"user", p>>
  /\ \A i \in DOMAIN l : i > o /\ l[i][1] = "end" /\ (h \/ \E j \in o + 1..i : l[j][1] = "user")
       => \E k \in 1..i : l[k] = <<"end", p>>

\* A prompt whose answer is not held has its watch.
Followed(p) ==
  /\ watching[to[p]] = p /\ Alone(p) /\ note[p] \in {0, p}
  /\ note[p] = 0 => Reads(p, log[to[p]], offset[p], saw[p])
Watched == \A p \in Prompts \ Held : prompt[p] \in {"watched", "asked"} => Followed(p)

AnswersInv ==
  /\ Typed /\ OneText /\ Sending /\ Resting /\ Offered /\ 0 \in Held
  /\ SentOnce /\ TurnsInOrder /\ Unwatched /\ Watched

-----------------------------------------------------------------------------

\* The bounds are natural numbers; 0 is no prompt and no port.
LEMMA Constants ==
  /\ MaxPrompts \in Nat /\ MaxPorts \in Nat /\ DigestsKept \in Nat
  /\ Prompts \subseteq Nat /\ Answers \subseteq Nat /\ Prompts \subseteq Answers /\ 0 \in Answers /\ 0 \notin Prompts
  /\ Ports \subseteq Nat /\ Ports \subseteq 0..MaxPorts /\ 0 \notin Ports
  /\ \A a \in Answers : a # 0 => a \in Prompts
  /\ \A n \in 0..MaxPorts : n # 0 => n \in Ports
BY AnswersAssumption DEF Prompts, Answers, Ports

\* The types hold at the start.
LEMMA TypesStart == AnswersInit => Typed
<1> SUFFICES ASSUME AnswersInit PROVE Typed
  OBVIOUS
<1> HIDE DEF Text, Post, Line
<1>0. <<>> \in Seq(Prompts) /\ <<>> \in Seq(Line) /\ <<>> \in Seq(Text) /\ <<>> \in Seq(Post) /\ <<>> \in Seq(SUBSET Answers)
  OBVIOUS
<1>1. AskTypes
  <2>1. to \in [Prompts -> Conversations] /\ begun \subseteq Conversations
    BY DEF AnswersInit
  <2>2. log \in [Conversations -> Seq(Line)] /\ sent \in [Conversations -> Seq(Prompts)]
    BY <1>0 DEF AnswersInit
  <2>3. prompt \in [Prompts -> {"new", "watched", "written", "asked", "refused", "over"}]
    BY DEF AnswersInit
  <2> QED BY <2>1, <2>2, <2>3 DEF AskTypes
<1>2. WatchTypes
  <2>1. saw \in [Prompts -> BOOLEAN]
    BY Zenon DEF AnswersInit
  <2> QED BY <2>1, Constants DEF WatchTypes, AnswersInit
<1>3. PollTypes
  BY Constants DEF AnswersInit, PollTypes
<1>4. BoxTypes
  BY <1>0, Constants DEF AnswersInit, BoxTypes
<1>5. TextTypes
  BY <1>0 DEF AnswersInit, TextTypes
<1>6. PortTypes
  BY Constants DEF AnswersInit, PortTypes
<1>7. StateTypes
  BY DEF AnswersInit, StateTypes
<1>8. handed \in BOOLEAN
  BY Zenon DEF AnswersInit
<1> QED BY <1>1, <1>2, <1>3, <1>4, <1>5, <1>6, <1>7, <1>8 DEF Typed

-----------------------------------------------------------------------------
(* What the steps leave alone.                                              *)

ToolsMove == (\E p \in Prompts : TurnStarts(p) \/ TurnEnds(p) \/ ToolStep(p)) \/ \E c \in Conversations : StopConversation(c)
CentralMoves ==
  \/ \E n \in Ports : ThreadStep(n) \/ Ready(n) \/ Dies(n) \/ StartPort(n)
  \/ TaskStep \/ HearReady \/ ClearInbox \/ StopPort \/ QuitAtRest \/ Quit

\* A step is one of the tools and conversations, of the watcher, or of the worker and the centrals.
LEMMA EveryStep == AnswersNext => ToolsMove \/ WatcherStep \/ CentralMoves
BY DEF AnswersNext, ToolsMove, CentralMoves

\* The tools and the conversations leave the watcher, the worker and the centrals alone.
LEMMA ToolFrame ==
  ASSUME ToolsMove
  PROVE  UNCHANGED <<poller, inbox, task, posts, centrals>> /\ forgiven \subseteq forgiven'
<1>1. ASSUME NEW p \in Prompts, TurnStarts(p) PROVE UNCHANGED <<poller, inbox, task, posts, centrals>> /\ forgiven \subseteq forgiven'
  BY <1>1 DEF TurnStarts, Says
<1>2. ASSUME NEW p \in Prompts, TurnEnds(p) PROVE UNCHANGED <<poller, inbox, task, posts, centrals>> /\ forgiven \subseteq forgiven'
  BY <1>2 DEF TurnEnds, Says, Registers, Forgets
<1>3. ASSUME NEW p \in Prompts, Watch(p) PROVE UNCHANGED <<poller, inbox, task, posts, centrals>> /\ forgiven \subseteq forgiven'
  BY <1>3 DEF Watch, Says, Registers, Forgets
<1>4. ASSUME NEW p \in Prompts, WritePrompt(p) PROVE UNCHANGED <<poller, inbox, task, posts, centrals>> /\ forgiven \subseteq forgiven'
  BY <1>4 DEF WritePrompt, Says, Registers, Forgets
<1>4a. ASSUME NEW p \in Prompts, WriteElsewhere(p) PROVE UNCHANGED <<poller, inbox, task, posts, centrals>> /\ forgiven \subseteq forgiven'
  BY <1>4a DEF WriteElsewhere, Says, Registers, Forgets
<1>5. ASSUME NEW p \in Prompts, Unwatch(p) PROVE UNCHANGED <<poller, inbox, task, posts, centrals>> /\ forgiven \subseteq forgiven'
  BY <1>5 DEF Unwatch, Says, Registers, Forgets
<1>6. ASSUME NEW p \in Prompts, StartConversation(p) PROVE UNCHANGED <<poller, inbox, task, posts, centrals>> /\ forgiven \subseteq forgiven'
  BY <1>6 DEF StartConversation, Says, Registers, Forgets
<1>7. ASSUME NEW p \in Prompts, WatchBegun(p) PROVE UNCHANGED <<poller, inbox, task, posts, centrals>> /\ forgiven \subseteq forgiven'
  BY <1>7 DEF WatchBegun, WatchBegunFrom, Says, Registers, Forgets
<1>8. ASSUME NEW c \in Conversations, StopConversation(c) PROVE UNCHANGED <<poller, inbox, task, posts, centrals>> /\ forgiven \subseteq forgiven'
  BY <1>8 DEF StopConversation, Says, Registers, Forgets
<1> QED
  BY <1>1, <1>2, <1>3, <1>4, <1>4a, <1>5, <1>6, <1>7, <1>8 DEF ToolsMove, ToolStep

\* So does the watcher with the prompts and the worker.
LEMMA WatcherFrame ==
  ASSUME WatcherStep
  PROVE  UNCHANGED <<asking, task, posts>> /\ inbox \subseteq inbox' /\ forgiven \subseteq forgiven'
<1>1. CASE BeginPollRound
  BY <1>1 DEF BeginPollRound
<1>2. ASSUME NEW w \in Prompts, ReadTail(w) PROVE UNCHANGED <<asking, task, posts>> /\ inbox \subseteq inbox' /\ forgiven \subseteq forgiven'
  BY <1>2 DEF ReadTail
<1>3. CASE SpeakNow
  BY <1>3 DEF SpeakNow
<1>4. CASE HoldBack
  BY <1>4 DEF HoldBack
<1>5. CASE Later
  BY <1>5 DEF Later
<1>6. CASE SendNote
  BY <1>6 DEF SendNote
<1>7. CASE DropWatch
  BY <1>7 DEF DropWatch
<1> QED
  BY <1>1, <1>2, <1>3, <1>4, <1>5, <1>6, <1>7 DEF WatcherStep, HandOver

\* And the worker and the centrals with the prompts and the watches.
LEMMA CentralFrame ==
  ASSUME CentralMoves
  PROVE  UNCHANGED <<asking, watches, poller>> /\ forgiven \subseteq forgiven'
<1>1. ASSUME NEW n \in Ports, Attach(n) PROVE UNCHANGED <<asking, watches, poller>> /\ forgiven \subseteq forgiven'
  BY <1>1 DEF Attach, PortStep
<1>2. ASSUME NEW n \in Ports, AttachFails(n) PROVE UNCHANGED <<asking, watches, poller>> /\ forgiven \subseteq forgiven'
  BY <1>2 DEF AttachFails, AttachFailsInto, PortStep, OnWorker
<1>3. ASSUME NEW n \in Ports, Take(n) PROVE UNCHANGED <<asking, watches, poller>> /\ forgiven \subseteq forgiven'
  BY <1>3 DEF Take, PortStep, OnWorker
<1>4. ASSUME NEW n \in Ports, FlashWorks(n) PROVE UNCHANGED <<asking, watches, poller>> /\ forgiven \subseteq forgiven'
  BY <1>4 DEF FlashWorks, PortStep, OnWorker
<1>5. ASSUME NEW n \in Ports, FlashFails(n) PROVE UNCHANGED <<asking, watches, poller>> /\ forgiven \subseteq forgiven'
  BY <1>5 DEF FlashFails, PortStep, OnWorker
<1>6. ASSUME NEW n \in Ports, Drain(n) PROVE UNCHANGED <<asking, watches, poller>> /\ forgiven \subseteq forgiven'
  BY <1>6 DEF Drain, PortStep, OnWorker
<1>7. ASSUME NEW n \in Ports, ThreadEnds(n) PROVE UNCHANGED <<asking, watches, poller>> /\ forgiven \subseteq forgiven'
  BY <1>7 DEF ThreadEnds, PortStep, OnWorker
<1>8. ASSUME NEW n \in Ports, Ready(n) PROVE UNCHANGED <<asking, watches, poller>> /\ forgiven \subseteq forgiven'
  BY <1>8 DEF Ready, PortStep, OnWorker
<1>9. ASSUME NEW n \in Ports, Dies(n) PROVE UNCHANGED <<asking, watches, poller>> /\ forgiven \subseteq forgiven'
  BY <1>9 DEF Dies, PortStep, OnWorker
<1>10. ASSUME NEW n \in Ports, StartPort(n) PROVE UNCHANGED <<asking, watches, poller>> /\ forgiven \subseteq forgiven'
  BY <1>10 DEF StartPort, PortStep, OnWorker
<1>11. CASE OnReady
  BY <1>11 DEF OnReady, PortStep, OnWorker
<1>12. CASE OnFailed
  BY <1>12 DEF OnFailed, PortStep, OnWorker
<1>13. CASE HearReadyEnds
  BY <1>13 DEF HearReadyEnds, PortStep, OnWorker
<1>14. CASE StopPortEnds
  BY <1>14 DEF StopPortEnds, PortStep, OnWorker
<1>15. CASE HearReady
  BY <1>15 DEF HearReady, PortStep, OnWorker
<1>16. CASE ClearInbox
  BY <1>16 DEF ClearInbox, PortStep, OnWorker
<1>17. CASE StopPort
  BY <1>17 DEF StopPort, PortStep, OnWorker
<1>18. CASE QuitAtRest
  BY <1>18 DEF QuitAtRest, PortStep, OnWorker
<1>19. CASE Quit
  BY <1>19 DEF Quit, PortStep, OnWorker
<1> QED
  BY <1>1, <1>2, <1>3, <1>4, <1>5, <1>6, <1>7, <1>8, <1>9, <1>10, <1>11, <1>12, <1>13, <1>14, <1>15, <1>16, <1>17, <1>18,
     <1>19 DEF CentralMoves, ThreadStep, TaskStep

-----------------------------------------------------------------------------
(* The types.                                                               *)

\* A conversation gets prompts.
LEMMA SentTypes ==
  ASSUME AskTypes, NEW p \in Prompts, sent' = [sent EXCEPT ![to[p]] = Append(@, p)] \/ sent' = sent
  PROVE  sent' \in [Conversations -> Seq(Prompts)]
<1> DEFINE s == Append(sent[to[p]], p)
<1>1. to[p] \in Conversations /\ sent[to[p]] \in Seq(Prompts)
  BY Zenon DEF AskTypes
<1>2. s \in Seq(Prompts)
  BY <1>1, ElementsAppended, Zenon
<1>3. sent' = [sent EXCEPT ![to[p]] = s] \/ sent' = sent
  OBVIOUS
<1> HIDE DEF s
<1> QED BY <1>2, <1>3 DEF AskTypes

\* The tools and the conversations keep the types of the prompts and the transcripts.
LEMMA AskTypesByTools ==
  ASSUME AskTypes, ToolsMove
  PROVE  AskTypes'
<1>1. ASSUME NEW p \in Prompts, TurnStarts(p) PROVE AskTypes'
  <2>1. log' = [log EXCEPT ![to[p]] = Append(@, <<"user", p>>)] /\ UNCHANGED <<to, prompt, begun, sent>>
    BY <1>1, Zenon DEF TurnStarts, Says
  <2>2. to[p] \in Conversations /\ <<"user", p>> \in Line
    BY <1>1 DEF AskTypes, Line
  <2> HIDE DEF Line
  <2>3. log' \in [Conversations -> Seq(Line)]
    <3> DEFINE l == Append(log[to[p]], <<"user", p>>)
    <3>1. log[to[p]] \in Seq(Line)
      BY <2>2, Zenon DEF AskTypes
    <3>2. l \in Seq(Line)
      BY <2>2, <3>1, ElementsAppended, Zenon
    <3>3. log' = [log EXCEPT ![to[p]] = l]
      BY <2>1
    <3> HIDE DEF l
    <3> QED BY <3>2, <3>3 DEF AskTypes
  <2> QED BY <2>1, <2>3 DEF AskTypes
<1>2. ASSUME NEW p \in Prompts, TurnEnds(p) PROVE AskTypes'
  <2>1. log' = [log EXCEPT ![to[p]] = Append(@, <<"end", p>>)] /\ UNCHANGED <<to, prompt, begun, sent>>
    BY <1>2, Zenon DEF TurnEnds, Says
  <2>2. to[p] \in Conversations /\ <<"end", p>> \in Line
    BY <1>2 DEF AskTypes, Line
  <2> HIDE DEF Line
  <2>3. log' \in [Conversations -> Seq(Line)]
    <3> DEFINE l == Append(log[to[p]], <<"end", p>>)
    <3>1. log[to[p]] \in Seq(Line)
      BY <2>2, Zenon DEF AskTypes
    <3>2. l \in Seq(Line)
      BY <2>2, <3>1, ElementsAppended, Zenon
    <3>3. log' = [log EXCEPT ![to[p]] = l]
      BY <2>1
    <3> HIDE DEF l
    <3> QED BY <3>2, <3>3 DEF AskTypes
  <2> QED BY <2>1, <2>3 DEF AskTypes
<1>3. ASSUME NEW p \in Prompts, Watch(p) PROVE AskTypes'
  <2>1. prompt' = [prompt EXCEPT ![p] = "watched"] /\ UNCHANGED <<to, begun, sent, log>>
    BY <1>3 DEF Watch
  <2> QED BY <2>1 DEF AskTypes
<1>4. ASSUME NEW p \in Prompts, WritePrompt(p) PROVE AskTypes'
  <2>1. prompt' = [prompt EXCEPT ![p] = "asked"] \/ prompt' = [prompt EXCEPT ![p] = "refused"]
    BY <1>4 DEF WritePrompt
  <2>2. sent' = [sent EXCEPT ![to[p]] = Append(@, p)] \/ sent' = sent
    BY <1>4, Zenon DEF WritePrompt
  <2>3. sent' \in [Conversations -> Seq(Prompts)]
    BY <2>2, SentTypes
  <2>4. prompt' \in [Prompts -> {"new", "watched", "written", "asked", "refused", "over"}]
    BY <1>4, <2>1 DEF AskTypes
  <2>5. UNCHANGED <<to, begun, log>>
    BY <1>4 DEF WritePrompt
  <2> QED BY <2>3, <2>4, <2>5 DEF AskTypes
<1>4a. ASSUME NEW p \in Prompts, WriteElsewhere(p) PROVE AskTypes'
  <2>1. prompt' = [prompt EXCEPT ![p] = "over"] /\ UNCHANGED <<to, begun, sent, log>>
    BY <1>4a DEF WriteElsewhere
  <2> QED BY <2>1 DEF AskTypes
<1>5. ASSUME NEW p \in Prompts, Unwatch(p) PROVE AskTypes'
  <2>1. prompt' = [prompt EXCEPT ![p] = "over"] /\ UNCHANGED <<to, begun, sent, log>>
    BY <1>5 DEF Unwatch
  <2> QED BY <2>1 DEF AskTypes
<1>6. ASSUME NEW p \in Prompts, StartConversation(p) PROVE AskTypes'
  <2>1. /\ prompt' = [prompt EXCEPT ![p] = "written"] /\ sent' = [sent EXCEPT ![to[p]] = Append(@, p)]
        /\ begun' = begun \cup {to[p]} /\ UNCHANGED <<to, log>>
    BY <1>6, Zenon DEF StartConversation
  <2>2. sent' \in [Conversations -> Seq(Prompts)] /\ begun' \subseteq Conversations
    BY <2>1, SentTypes DEF AskTypes
  <2> QED BY <2>1, <2>2 DEF AskTypes
<1>7. ASSUME NEW p \in Prompts, WatchBegun(p) PROVE AskTypes'
  <2>1. prompt' = [prompt EXCEPT ![p] = "asked"] /\ UNCHANGED <<to, begun, sent, log>>
    BY <1>7 DEF WatchBegun, WatchBegunFrom
  <2> QED BY <2>1 DEF AskTypes
<1>8. ASSUME NEW c \in Conversations, StopConversation(c) PROVE AskTypes'
  BY <1>8 DEF StopConversation, asking, AskTypes
<1> QED
  BY <1>1, <1>2, <1>3, <1>4, <1>4a, <1>5, <1>6, <1>7, <1>8 DEF ToolsMove, ToolStep

\* So does every step.
LEMMA AskTypesKept == ASSUME AskTypes, AnswersNext PROVE AskTypes'
<1>1. UNCHANGED asking => AskTypes'
  BY DEF asking, AskTypes
<1> QED BY <1>1, EveryStep, AskTypesByTools, WatcherFrame, CentralFrame

\* What a tail finds is the prompt of an end line.
LEMMA FoundOrNot ==
  ASSUME AskTypes, WatchTypes, NEW w \in Prompts
  PROVE  LET l == log[to[w]]
             Shown(i) == saw[w] \/ \E j \in offset[w] + 1..i : l[j][1] = "user"
             ends == {i \in offset[w] + 1..Len(l) : l[i][1] = "end" /\ Shown(i)}
         IN  /\ ends = {} => Finds(w) = 0
             /\ ends # {} => \E i \in ends : Finds(w) = l[i][2] /\ \A j \in ends : i <= j
             /\ l \in Seq(Line) /\ Len(l) \in Nat /\ offset[w] \in Nat
<1> DEFINE l == log[to[w]]
           Shown(i) == saw[w] \/ \E j \in offset[w] + 1..i : l[j][1] = "user"
           ends == {i \in offset[w] + 1..Len(l) : l[i][1] = "end" /\ Shown(i)}
           m == CHOOSE x \in ends : \A y \in ends : x <= y
<1>1. l \in Seq(Line) /\ Len(l) \in Nat /\ offset[w] \in Nat
  BY DEF AskTypes, WatchTypes
<1>2. Finds(w) = IF ends = {} THEN 0 ELSE l[m][2]
  BY DEF Finds
<1>3. ends \in SUBSET Nat
  BY <1>1
<1> HIDE DEF ends
<1>4. ends # {} => m \in ends /\ \A y \in ends : m <= y
  BY <1>3, LeastIsThere
<1> HIDE DEF m, l
<1>5. /\ ends = {} => Finds(w) = 0
      /\ ends # {} => \E i \in ends : Finds(w) = l[i][2] /\ \A j \in ends : i <= j
  BY <1>2, <1>4
<1> QED BY <1>1, <1>5, Zenon DEF ends, l

\* What a tail finds is an answer, or 0.
LEMMA FoundIsAPrompt == ASSUME AskTypes, WatchTypes, NEW w \in Prompts PROVE Finds(w) \in Answers
<1>1. Finds(w) = 0 \/ \E i \in offset[w] + 1..Len(log[to[w]]) : Finds(w) = log[to[w]][i][2]
  BY FoundOrNot, Zenon
<1>2. log[to[w]] \in Seq(Line) /\ offset[w] \in Nat
  BY FoundOrNot, Zenon
<1>3. ASSUME NEW i \in offset[w] + 1..Len(log[to[w]]) PROVE log[to[w]][i][2] \in Prompts
  <2>1. i \in 1..Len(log[to[w]])
    BY <1>2
  <2>2. log[to[w]][i] \in Line
    BY <1>2, <2>1
  <2> QED BY <2>2 DEF Line
<1> QED BY <1>1, <1>3, Constants

\* The tools and the watcher keep the types of the watches.
LEMMA WatchTypesMoved ==
  ASSUME AskTypes, WatchTypes, ToolsMove \/ WatcherStep
  PROVE  WatchTypes'
<1>1. ASSUME NEW p \in Prompts, TurnStarts(p) PROVE WatchTypes'
  BY <1>1 DEF TurnStarts, Says, watches, WatchTypes
<1>2. ASSUME NEW p \in Prompts, TurnEnds(p) PROVE WatchTypes'
  BY <1>2 DEF TurnEnds, Says, watches, WatchTypes
<1>3. ASSUME NEW p \in Prompts, Watch(p) PROVE WatchTypes'
  <2>1. PICK at \in Nat : watching' = [watching EXCEPT ![to[p]] = p] /\ offset' = [offset EXCEPT ![p] = at] /\ UNCHANGED <<saw, note>>
    <3>1. Len(log[to[p]]) \in Nat /\ 0 \in Nat
      BY FoundOrNot, Zenon
    <3> QED BY <1>3, <3>1 DEF Watch, Registers
  <2> QED BY <2>1, Constants DEF WatchTypes
<1>4. ASSUME NEW p \in Prompts, WritePrompt(p) PROVE WatchTypes'
  BY <1>4 DEF WritePrompt, watches, WatchTypes
<1>4a. ASSUME NEW p \in Prompts, WriteElsewhere(p) PROVE WatchTypes'
  BY <1>4a DEF WriteElsewhere, watches, WatchTypes
<1>5. ASSUME NEW p \in Prompts, Unwatch(p) PROVE WatchTypes'
  <2>1. watching' = [watching EXCEPT ![to[p]] = 0] /\ UNCHANGED <<offset, saw, note>>
    BY <1>5 DEF Unwatch, Forgets
  <2> QED BY <2>1, Constants DEF WatchTypes
<1>6. ASSUME NEW p \in Prompts, StartConversation(p) PROVE WatchTypes'
  BY <1>6 DEF StartConversation, watches, WatchTypes
<1>7. ASSUME NEW p \in Prompts, WatchBegun(p) PROVE WatchTypes'
  <2>1. PICK at \in Nat : watching' = [watching EXCEPT ![to[p]] = p] /\ offset' = [offset EXCEPT ![p] = at] /\ UNCHANGED <<saw, note>>
    <3>1. Len(log[to[p]]) \in Nat /\ 0 \in Nat
      BY FoundOrNot, Zenon
    <3> QED BY <1>7, <3>1 DEF WatchBegun, WatchBegunFrom, Registers
  <2> QED BY <2>1, Constants DEF WatchTypes
<1>8. ASSUME NEW c \in Conversations, StopConversation(c) PROVE WatchTypes'
  <2>1. watching' = [watching EXCEPT ![c] = 0] /\ UNCHANGED <<offset, saw, note>>
    BY <1>8 DEF StopConversation, Forgets
  <2> QED BY <2>1, Constants DEF WatchTypes
<1>9. CASE BeginPollRound
  BY <1>9 DEF BeginPollRound, watches, WatchTypes
<1>10. ASSUME NEW w \in Prompts, ReadTail(w) PROVE WatchTypes'
  <2>1. watching' = watching \/ watching' = Forgo(w)
    BY <1>10 DEF ReadTail
  <2>2. watching' \in [Conversations -> Answers]
    BY <2>1, Constants DEF Forgo, WatchTypes
  <2>3. note' \in [Prompts -> Answers]
    BY <1>10, FoundIsAPrompt DEF ReadTail, WatchTypes
  <2>4. offset' \in [Prompts -> Nat]
    <3>1. Len(log[to[w]]) \in Nat
      BY FoundOrNot, Zenon
    <3> QED BY <1>10, <3>1 DEF ReadTail, WatchTypes
  <2>5. saw' \in [Prompts -> BOOLEAN]
    <3>1. saw' = [saw EXCEPT ![w] = @ \/ \E i \in offset[w] + 1..Len(log[to[w]]) : log[to[w]][i][1] = "user"]
      BY <1>10 DEF ReadTail
    <3> QED BY <3>1, Zenon DEF WatchTypes
  <2> QED BY <2>2, <2>3, <2>4, <2>5 DEF WatchTypes
<1>11. CASE SpeakNow
  BY <1>11 DEF SpeakNow, watches, WatchTypes
<1>12. CASE HoldBack
  BY <1>12 DEF HoldBack, watches, WatchTypes
<1>13. CASE Later
  BY <1>13 DEF Later, watches, WatchTypes
<1>14. CASE SendNote
  BY <1>14 DEF SendNote, watches, WatchTypes
<1>15. CASE DropWatch
  <2>1. watching' = Forgo(offer) /\ UNCHANGED <<offset, saw, note>>
    BY <1>15 DEF DropWatch
  <2> QED BY <2>1, Constants DEF Forgo, WatchTypes
<1> QED
  BY <1>1, <1>2, <1>3, <1>4, <1>4a, <1>5, <1>6, <1>7, <1>8, <1>9, <1>10, <1>11, <1>12, <1>13, <1>14, <1>15 DEF ToolsMove,
     ToolStep, WatcherStep, HandOver

\* So does every step.
LEMMA WatchTypesKept == ASSUME AskTypes, WatchTypes, AnswersNext PROVE WatchTypes'
<1>1. UNCHANGED watches => WatchTypes'
  BY DEF watches, WatchTypes
<1> QED BY <1>1, EveryStep, WatchTypesMoved, CentralFrame

\* The watcher keeps the types of its round.
LEMMA PollTypesMoved ==
  ASSUME WatchTypes, PollTypes, PortTypes, handed \in BOOLEAN, WatcherStep
  PROVE  PollTypes' /\ handed' \in BOOLEAN
<1>1. CASE BeginPollRound
  <2>1. round' = {watching[c] : c \in Conversations} \ {0} /\ UNCHANGED <<offer, via, handed>>
    BY <1>1 DEF BeginPollRound
  <2>2. round' \subseteq Prompts
    BY <2>1, Constants DEF WatchTypes
  <2> QED BY <2>1, <2>2 DEF PollTypes
<1>2. ASSUME NEW w \in Prompts, ReadTail(w) PROVE PollTypes' /\ handed' \in BOOLEAN
  <2>1. round' = round \ {w} /\ (offer' = w \/ offer' = offer) /\ UNCHANGED <<via, handed>>
    BY <1>2 DEF ReadTail
  <2> QED BY <2>1, Constants DEF PollTypes
<1>3. CASE SpeakNow
  <2>1. round' = round /\ (offer' = offer \/ offer' = 0) /\ (via' = via \/ via' = port \/ via' = 0)
    BY <1>3 DEF SpeakNow
  <2>2. handed' = handed \/ handed' = TRUE \/ handed' = FALSE
    BY <1>3 DEF SpeakNow
  <2>3. PollTypes'
    BY <2>1, Constants DEF PollTypes, PortTypes
  <2>4. handed' \in BOOLEAN
    BY <2>2, Zenon
  <2> QED BY <2>3, <2>4
<1>4. CASE HoldBack
  <2>1. round' = round /\ (offer' = offer \/ offer' = 0) /\ (via' = via \/ via' = port \/ via' = 0)
    BY <1>4 DEF HoldBack
  <2>2. handed' = handed \/ handed' = TRUE \/ handed' = FALSE
    BY <1>4 DEF HoldBack
  <2>3. PollTypes'
    BY <2>1, Constants DEF PollTypes, PortTypes
  <2>4. handed' \in BOOLEAN
    BY <2>2, Zenon
  <2> QED BY <2>3, <2>4
<1>5. CASE Later
  <2>1. round' = round /\ (offer' = offer \/ offer' = 0) /\ (via' = via \/ via' = port \/ via' = 0)
    BY <1>5 DEF Later
  <2>2. handed' = handed \/ handed' = TRUE \/ handed' = FALSE
    BY <1>5 DEF Later
  <2>3. PollTypes'
    BY <2>1, Constants DEF PollTypes, PortTypes
  <2>4. handed' \in BOOLEAN
    BY <2>2, Zenon
  <2> QED BY <2>3, <2>4
<1>6. CASE SendNote
  <2>1. round' = round /\ (offer' = offer \/ offer' = 0) /\ (via' = via \/ via' = port \/ via' = 0)
    BY <1>6 DEF SendNote
  <2>2. handed' = handed \/ handed' = TRUE \/ handed' = FALSE
    BY <1>6 DEF SendNote
  <2>3. PollTypes'
    BY <2>1, Constants DEF PollTypes, PortTypes
  <2>4. handed' \in BOOLEAN
    BY <2>2, Zenon
  <2> QED BY <2>3, <2>4
<1>7. CASE DropWatch
  <2>1. round' = round /\ (offer' = offer \/ offer' = 0) /\ (via' = via \/ via' = port \/ via' = 0)
    BY <1>7 DEF DropWatch
  <2>2. handed' = handed \/ handed' = TRUE \/ handed' = FALSE
    BY <1>7 DEF DropWatch
  <2>3. PollTypes'
    BY <2>1, Constants DEF PollTypes, PortTypes
  <2>4. handed' \in BOOLEAN
    BY <2>2, Zenon
  <2> QED BY <2>3, <2>4
<1> QED
  BY <1>1, <1>2, <1>3, <1>4, <1>5, <1>6, <1>7 DEF WatcherStep, HandOver

\* So does every step.
LEMMA PollTypesKept == ASSUME WatchTypes, PollTypes, PortTypes, handed \in BOOLEAN, AnswersNext PROVE PollTypes' /\ handed' \in BOOLEAN
<1>1. UNCHANGED poller => PollTypes' /\ handed' \in BOOLEAN
  BY DEF poller, PollTypes
<1> QED BY <1>1, EveryStep, PollTypesMoved, ToolFrame, CentralFrame

-----------------------------------------------------------------------------
(* Texts and posts.                                                         *)

\* Texts carry answers.
LEMMA CarriedAnswers == ASSUME NEW texts \in SUBSET Text PROVE Carried(texts) \subseteq Answers
BY DEF Carried, Text

\* A note carries its answer, a digest its items.
LEMMA AText ==
  ASSUME NEW a \in Answers, NEW items \in SUBSET Answers
  PROVE  Note(a) \in Text /\ Note(a).of = {a} /\ Digest(items) \in Text /\ Digest(items).of = items
BY DEF Note, Digest, Text

\* What is posted is a failed text or a port that is ready.
LEMMA APost ==
  /\ \A t \in Text : Failed(t) \in Post /\ Failed(t).kind = "failed" /\ Failed(t).text = t
  /\ \A n \in Ports : ReadyPost(n) \in Post /\ ReadyPost(n).kind = "ready"
  /\ \A u \in Post : (u.kind = "failed" => u.text \in Text) /\ (u.kind = "ready" => u.port \in Ports)
<1> HIDE DEF Text
<1>1. \A t \in Text : Failed(t) \in Post /\ Failed(t).kind = "failed" /\ Failed(t).text = t
  BY DEF Failed, Post
<1>2. \A n \in Ports : ReadyPost(n) \in Post /\ ReadyPost(n).kind = "ready"
  BY DEF ReadyPost, Post
<1>3. \A u \in Post : (u.kind = "failed" => u.text \in Text) /\ (u.kind = "ready" => u.port \in Ports)
  BY DEF Post
<1> QED BY <1>1, <1>2, <1>3

\* What a send changes.
LEMMA SendTypes ==
  ASSUME TextTypes, StateTypes, NEW n \in Ports, NEW texts \in Seq(Text), Sends(n, texts), arrived \subseteq Answers
  PROVE  /\ jobs' \in [Ports -> Seq(Text)] /\ arrived' \subseteq Answers /\ arrived \subseteq arrived'
         /\ status' \in [Ports -> {"new", "starting", "ready", "busy", "error", "stopped"}]
         /\ UNCHANGED <<mode, flash, thread>>
<1>1. UNCHANGED <<mode, flash, thread>>
  BY DEF Sends
<1> HIDE DEF Text
<1>2. CASE mode[n] = "own"
  <2>1. arrived' = arrived \cup Carried(ToSet(texts)) /\ jobs' = jobs
    BY <1>2 DEF Sends
  <2>2. status' = [status EXCEPT ![n] = IF @ = "ready" THEN "busy" ELSE @]
    BY <1>2 DEF Sends
  <2>3. Carried(ToSet(texts)) \subseteq Answers
    BY Elements, CarriedAnswers
  <2>4. status' \in [Ports -> {"new", "starting", "ready", "busy", "error", "stopped"}]
    BY <2>2 DEF StateTypes
  <2> QED BY <1>1, <2>1, <2>3, <2>4 DEF TextTypes
<1>3. CASE mode[n] # "own"
  <2> DEFINE s == jobs[n] \o texts
  <2>1. jobs' = [jobs EXCEPT ![n] = s] /\ status' = status /\ arrived' = arrived
    BY <1>3 DEF Sends
  <2>2. s \in Seq(Text)
    BY ElementsJoined DEF TextTypes
  <2> HIDE DEF s
  <2> QED BY <1>1, <2>1, <2>2 DEF TextTypes, StateTypes
<1> QED BY <1>2, <1>3

\* Posting keeps the posts posts.
LEMMA PostTypes ==
  ASSUME TextTypes, NEW more \in Seq(Post), Posted(more)
  PROVE  posts' \in Seq(Post)
<1>1. posts' = posts \/ posts' = posts \o more
  BY DEF Posted
<1>2. posts \in Seq(Post)
  BY DEF TextTypes
<1>3. posts \o more \in Seq(Post)
  BY <1>2, ElementsJoined, Zenon
<1> QED BY <1>1, <1>2, <1>3, Zenon

\* One text, alone or posted.
LEMMA OneText1 == ASSUME NEW x \in Text PROVE <<x>> \in Seq(Text) /\ ToSet(<<x>>) = {x} /\ <<Failed(x)>> \in Seq(Post)
<1>1. Failed(x) \in Post
  BY APost
<1> HIDE DEF Text, Post
<1> QED BY <1>1, OneElement

\* Dropping the queue of a port posts its texts.
LEMMA DroppedTexts ==
  ASSUME TextTypes, NEW n \in Ports
  PROVE  Dropped(n) \in Seq(Post) /\ ToSet(Dropped(n)) = {Failed(t) : t \in ToSet(jobs[n])}
<1>1. jobs[n] \in Seq(Text) /\ Len(jobs[n]) \in Nat /\ DOMAIN jobs[n] = 1..Len(jobs[n])
  BY DEF TextTypes
<1>2. \A i \in 1..Len(jobs[n]) : Failed(jobs[n][i]) \in Post
  BY <1>1, APost
<1>3. Dropped(n) = [i \in 1..Len(jobs[n]) |-> Failed(jobs[n][i])]
  BY <1>1 DEF Dropped
<1> HIDE DEF Post
<1>4. Dropped(n) \in Seq(Post)
  BY <1>1, <1>2, <1>3
<1>5. DOMAIN Dropped(n) = 1..Len(jobs[n]) /\ \A i \in 1..Len(jobs[n]) : Dropped(n)[i] = Failed(jobs[n][i])
  BY <1>3
<1> HIDE DEF Dropped
<1>6. ToSet(Dropped(n)) = {Failed(t) : t \in ToSet(jobs[n])}
  BY <1>1, <1>5 DEF ToSet
<1> QED BY <1>4, <1>6

\* Keeping the newest digests keeps them of the same kind.
LEMMA NewestTypes ==
  ASSUME NEW S, NEW s \in Seq(S), NEW x \in S
  PROVE  Newest(Append(s, x)) \in Seq(S)
<1>1. Append(s, x) \in Seq(S) /\ Append(s, x) # <<>>
  BY ElementsAppended
<1>2. Tail(Append(s, x)) \in Seq(S)
  BY <1>1, FirstElement
<1> QED BY <1>1, <1>2, Zenon DEF Newest

\* The first post, and the others.
LEMMA HeadPost ==
  ASSUME TextTypes, posts # <<>>
  PROVE  /\ Head(posts) \in Post /\ Tail(posts) \in Seq(Post) /\ ToSet(posts) = {Head(posts)} \cup ToSet(Tail(posts))
         /\ Head(posts).kind = "failed" => Head(posts).text \in Text
         /\ Head(posts).kind = "ready" => Head(posts).port \in Ports
<1>1. posts \in Seq(Post)
  BY DEF TextTypes
<1> QED BY <1>1, FirstElement, APost

\* A step keeps the inbox, the answers that arrived and were forgiven, and the digests sets of answers.
LEMMA BoxTypesKept ==
  ASSUME AskTypes, WatchTypes, PollTypes, BoxTypes, TextTypes, PortTypes, StateTypes, OneText, Offered, AnswersNext
  PROVE  BoxTypes'
<1>1. ASSUME NEW p \in Prompts, TurnStarts(p) PROVE BoxTypes'
  <2>1. UNCHANGED <<inbox, hearing, arrived, forgiven, digests>>
    BY <1>1 DEF TurnStarts, Says, task, centrals
  <2> QED BY <2>1 DEF BoxTypes
<1>2. ASSUME NEW p \in Prompts, TurnEnds(p) PROVE BoxTypes'
  <2>1. UNCHANGED <<inbox, hearing, arrived, forgiven, digests>>
    BY <1>2 DEF TurnEnds, Says, task, centrals
  <2> QED BY <2>1 DEF BoxTypes
<1>3. ASSUME NEW p \in Prompts, Watch(p) PROVE BoxTypes'
  <2>1. UNCHANGED <<inbox, hearing, arrived, digests>>
    BY <1>3 DEF Watch, task, centrals
  <2>2. forgiven' \subseteq forgiven \cup ({watching[to[p]], note[watching[to[p]]]} \ {0}) \cup {p} /\ (watching[to[p]] = 0 => forgiven' \subseteq forgiven \cup {p})
    BY <1>3 DEF Watch, Registers
  <2>3. watching[to[p]] \in Answers /\ (watching[to[p]] # 0 => note[watching[to[p]]] \in Answers) /\ p \in Answers
    BY Constants DEF AskTypes, WatchTypes
  <2>4. forgiven' \subseteq Answers
    BY <2>2, <2>3 DEF BoxTypes
  <2> QED BY <2>1, <2>4 DEF BoxTypes
<1>4. ASSUME NEW p \in Prompts, WritePrompt(p) PROVE BoxTypes'
  <2>1. UNCHANGED <<inbox, hearing, arrived, forgiven, digests>>
    BY <1>4 DEF WritePrompt, task, centrals
  <2> QED BY <2>1 DEF BoxTypes
<1>4a. ASSUME NEW p \in Prompts, WriteElsewhere(p) PROVE BoxTypes'
  <2>1. UNCHANGED <<inbox, hearing, arrived, digests>> /\ forgiven' = forgiven \cup {p}
    BY <1>4a DEF WriteElsewhere, task, centrals
  <2>2. p \in Answers
    BY Constants
  <2> QED BY <2>1, <2>2 DEF BoxTypes
<1>5. ASSUME NEW p \in Prompts, Unwatch(p) PROVE BoxTypes'
  <2>1. UNCHANGED <<inbox, hearing, arrived, digests>>
    BY <1>5 DEF Unwatch, task, centrals
  <2>2. forgiven' = forgiven \cup (IF watching[to[p]] = 0 THEN {} ELSE {watching[to[p]], note[watching[to[p]]]} \ {0})
    BY <1>5 DEF Unwatch, Forgets
  <2>3. watching[to[p]] \in Answers /\ (watching[to[p]] # 0 => note[watching[to[p]]] \in Answers)
    BY Constants DEF AskTypes, WatchTypes
  <2>4. forgiven' \subseteq Answers
    BY <2>2, <2>3 DEF BoxTypes
  <2> QED BY <2>1, <2>4 DEF BoxTypes
<1>6. ASSUME NEW p \in Prompts, StartConversation(p) PROVE BoxTypes'
  <2>1. UNCHANGED <<inbox, hearing, arrived, forgiven, digests>>
    BY <1>6 DEF StartConversation, task, centrals
  <2> QED BY <2>1 DEF BoxTypes
<1>7. ASSUME NEW p \in Prompts, WatchBegun(p) PROVE BoxTypes'
  <2>1. UNCHANGED <<inbox, hearing, arrived, digests>>
    BY <1>7 DEF WatchBegun, WatchBegunFrom, task, centrals
  <2>2. forgiven' \subseteq forgiven \cup ({watching[to[p]], note[watching[to[p]]]} \ {0}) \cup {p} /\ (watching[to[p]] = 0 => forgiven' \subseteq forgiven \cup {p})
    BY <1>7 DEF WatchBegun, WatchBegunFrom, Registers
  <2>3. watching[to[p]] \in Answers /\ (watching[to[p]] # 0 => note[watching[to[p]]] \in Answers) /\ p \in Answers
    BY Constants DEF AskTypes, WatchTypes
  <2>4. forgiven' \subseteq Answers
    BY <2>2, <2>3 DEF BoxTypes
  <2> QED BY <2>1, <2>4 DEF BoxTypes
<1>8. ASSUME NEW c \in Conversations, StopConversation(c) PROVE BoxTypes'
  <2>1. UNCHANGED <<inbox, hearing, arrived, digests>>
    BY <1>8 DEF StopConversation, task, centrals
  <2>2. forgiven' = forgiven \cup (IF watching[c] = 0 THEN {} ELSE {watching[c], note[watching[c]]} \ {0})
    BY <1>8 DEF StopConversation, Forgets
  <2>3. watching[c] \in Answers /\ (watching[c] # 0 => note[watching[c]] \in Answers)
    BY Constants DEF AskTypes, WatchTypes
  <2>4. forgiven' \subseteq Answers
    BY <2>2, <2>3 DEF BoxTypes
  <2> QED BY <2>1, <2>4 DEF BoxTypes
<1>9. CASE BeginPollRound
  <2>1. UNCHANGED <<inbox, hearing, arrived, forgiven, digests>>
    BY <1>9 DEF BeginPollRound, task, centrals
  <2> QED BY <2>1 DEF BoxTypes
<1>10. ASSUME NEW w \in Prompts, ReadTail(w) PROVE BoxTypes'
  <2>1. UNCHANGED <<inbox, hearing, arrived, digests>>
    BY <1>10 DEF ReadTail, task, centrals
  <2>2. forgiven' = forgiven \/ forgiven' = forgiven \cup {w}
    BY <1>10 DEF ReadTail
  <2> QED BY <2>1, <2>2, Constants DEF BoxTypes
<1>11. CASE SpeakNow
  <2>1. UNCHANGED <<inbox, hearing, arrived, forgiven, digests>>
    BY <1>11 DEF SpeakNow, task, centrals
  <2> QED BY <2>1 DEF BoxTypes
<1>12. CASE HoldBack
  <2>1. UNCHANGED <<hearing, arrived, forgiven, digests>>
    BY <1>12 DEF HoldBack, task, centrals
  <2>2. inbox' = inbox \cup {note[offer]} /\ offer # 0
    BY <1>12 DEF HoldBack, Offering
  <2>3. note[offer] \in Answers
    BY <2>2, Constants DEF PollTypes, WatchTypes
  <2> QED BY <2>1, <2>2, <2>3 DEF BoxTypes
<1>13. CASE Later
  <2>1. UNCHANGED <<inbox, hearing, arrived, forgiven, digests>>
    BY <1>13 DEF Later, task, centrals
  <2> QED BY <2>1 DEF BoxTypes
<1>14. CASE SendNote
  <2>1. UNCHANGED <<inbox, hearing, forgiven, digests>>
    BY <1>14 DEF SendNote, task, centrals
  <2>2. via \in Ports /\ note[offer] \in Answers
    BY <1>14, Constants DEF SendNote, PollTypes, WatchTypes, Offered
  <2>3. arrived' = arrived \/ Sends(via, <<Note(note[offer])>>)
    BY <1>14 DEF SendNote, centrals
  <2>4. <<Note(note[offer])>> \in Seq(Text)
    BY <2>2, AText, OneText1
  <2>5. arrived \subseteq Answers
    BY DEF BoxTypes
  <2>6. arrived' \subseteq Answers
    BY <2>2, <2>3, <2>4, <2>5, SendTypes
  <2> QED BY <2>1, <2>6 DEF BoxTypes
<1>15. CASE DropWatch
  <2>1. UNCHANGED <<inbox, hearing, arrived, forgiven, digests>>
    BY <1>15 DEF DropWatch, task, centrals
  <2> QED BY <2>1 DEF BoxTypes
<1>16. ASSUME NEW n \in Ports, Attach(n) PROVE BoxTypes'
  <2>1. UNCHANGED <<inbox, hearing, arrived, forgiven, digests>>
    BY <1>16 DEF Attach, PortStep, task
  <2> QED BY <2>1 DEF BoxTypes
<1>17. ASSUME NEW n \in Ports, AttachFails(n) PROVE BoxTypes'
  <2>1. UNCHANGED <<inbox, hearing, arrived, forgiven, digests>>
    BY <1>17 DEF AttachFails, AttachFailsInto, PortStep, task
  <2> QED BY <2>1 DEF BoxTypes
<1>18. ASSUME NEW n \in Ports, Take(n) PROVE BoxTypes'
  <2>1. UNCHANGED <<inbox, hearing, arrived, forgiven, digests>>
    BY <1>18 DEF Take, PortStep, task
  <2> QED BY <2>1 DEF BoxTypes
<1>19. ASSUME NEW n \in Ports, FlashWorks(n) PROVE BoxTypes'
  <2>1. UNCHANGED <<inbox, hearing, forgiven, digests>>
    BY <1>19 DEF FlashWorks, PortStep, task
  <2>2. arrived' = arrived \cup flash[n][1].of /\ flash[n] # <<>>
    BY <1>19 DEF FlashWorks
  <2>3. flash[n][1] \in Text
    BY <2>2 DEF OneText
  <2> QED BY <2>1, <2>2, <2>3 DEF BoxTypes, Text
<1>20. ASSUME NEW n \in Ports, FlashFails(n) PROVE BoxTypes'
  <2>1. UNCHANGED <<inbox, hearing, arrived, forgiven, digests>>
    BY <1>20 DEF FlashFails, PortStep, task
  <2> QED BY <2>1 DEF BoxTypes
<1>21. ASSUME NEW n \in Ports, Drain(n) PROVE BoxTypes'
  <2>1. UNCHANGED <<inbox, hearing, arrived, forgiven, digests>>
    BY <1>21 DEF Drain, PortStep, task
  <2> QED BY <2>1 DEF BoxTypes
<1>22. ASSUME NEW n \in Ports, ThreadEnds(n) PROVE BoxTypes'
  <2>1. UNCHANGED <<inbox, hearing, arrived, forgiven, digests>>
    BY <1>22 DEF ThreadEnds, PortStep, task
  <2> QED BY <2>1 DEF BoxTypes
<1>23. ASSUME NEW n \in Ports, Ready(n) PROVE BoxTypes'
  <2>1. UNCHANGED <<inbox, hearing, arrived, forgiven, digests>>
    BY <1>23 DEF Ready, PortStep, task
  <2> QED BY <2>1 DEF BoxTypes
<1>24. ASSUME NEW n \in Ports, Dies(n) PROVE BoxTypes'
  <2>1. UNCHANGED <<inbox, hearing, arrived, forgiven, digests>>
    BY <1>24 DEF Dies, PortStep, task
  <2> QED BY <2>1 DEF BoxTypes
<1>25. ASSUME NEW n \in Ports, StartPort(n) PROVE BoxTypes'
  <2>1. UNCHANGED <<inbox, hearing, arrived, forgiven, digests>>
    BY <1>25 DEF StartPort, OnWorker
  <2> QED BY <2>1 DEF BoxTypes
<1>26. CASE OnReady
  <2>1. UNCHANGED <<inbox, hearing, forgiven, digests>>
    BY <1>26 DEF OnReady, OnWorker, centrals
  <2>2. arrived' = arrived \/ (port \in Ports /\ Sends(port, pending))
    <3>1. posts # <<>> /\ Head(posts).kind = "ready" /\ (arrived' = arrived \/ (Head(posts).port = port /\ Sends(port, pending)))
      BY <1>26 DEF OnReady, centrals
    <3> QED BY <3>1, HeadPost
  <2>3. arrived \subseteq Answers /\ pending \in Seq(Text)
    BY DEF BoxTypes, TextTypes, PortTypes
  <2>4. arrived' \subseteq Answers
    BY <2>2, <2>3, SendTypes
  <2> QED BY <2>1, <2>4 DEF BoxTypes
<1>27. CASE OnFailed
  <2>1. UNCHANGED <<hearing, arrived, forgiven>>
    BY <1>27 DEF OnFailed, OnWorker, centrals
  <2> DEFINE text == Head(posts).text
  <2>2. text \in Text
    BY <1>27, HeadPost DEF OnFailed
  <2>3. inbox' = inbox \/ inbox' = inbox \cup text.of
    BY <1>27 DEF OnFailed
  <2>4. inbox' \subseteq Answers
    BY <2>2, <2>3 DEF BoxTypes, Text
  <2>5. digests' = digests \/ \E i \in DOMAIN digests : digests' = RemoveAt(digests, i)
    BY <1>27 DEF OnFailed
  <2>6. digests' \in Seq(SUBSET Answers)
    <3>1. digests \in Seq(SUBSET Answers)
      BY DEF BoxTypes
    <3> QED BY <2>5, <3>1, ElementRemoved, Zenon
  <2> QED BY <2>1, <2>4, <2>6 DEF BoxTypes
<1>28. CASE HearReadyEnds
  <2>1. UNCHANGED <<arrived, forgiven>>
    BY <1>28 DEF HearReadyEnds, OnWorker, centrals
  <2>2. hearing' = {} /\ inbox' = inbox \ hearing
    BY <1>28 DEF HearReadyEnds
  <2>3. digests' = digests \/ digests' = Newest(Append(digests, hearing))
    BY <1>28 DEF HearReadyEnds
  <2>4. digests \in Seq(SUBSET Answers) /\ hearing \in SUBSET Answers
    BY DEF BoxTypes
  <2>5. digests' \in Seq(SUBSET Answers)
    BY <2>3, <2>4, NewestTypes, Zenon
  <2> QED BY <2>1, <2>2, <2>5 DEF BoxTypes
<1>29. CASE StopPortEnds
  <2>1. UNCHANGED <<inbox, hearing, arrived, forgiven, digests>>
    BY <1>29 DEF StopPortEnds, OnWorker
  <2> QED BY <2>1 DEF BoxTypes
<1>30. CASE HearReady
  <2>1. UNCHANGED <<inbox, forgiven, digests>>
    BY <1>30 DEF HearReady, OnWorker
  <2>2. hearing' = inbox /\ port # 0 /\ Sends(port, <<Digest(inbox)>>)
    BY <1>30 DEF HearReady
  <2>3. inbox \in SUBSET Answers /\ arrived \subseteq Answers /\ port \in Ports
    BY <2>2, Constants DEF BoxTypes, PortTypes
  <2>4. <<Digest(inbox)>> \in Seq(Text)
    BY <2>3, Constants, AText, OneText1
  <2>5. arrived' \subseteq Answers
    BY <2>2, <2>3, <2>4, SendTypes
  <2> QED BY <2>1, <2>2, <2>3, <2>5 DEF BoxTypes
<1>31. CASE ClearInbox
  <2>1. UNCHANGED <<hearing, arrived, digests>>
    BY <1>31 DEF ClearInbox, OnWorker, task, centrals
  <2>2. inbox' = {} /\ forgiven' = forgiven \cup inbox
    BY <1>31 DEF ClearInbox
  <2> QED BY <2>1, <2>2 DEF BoxTypes
<1>32. CASE StopPort
  <2>1. UNCHANGED <<inbox, hearing, arrived, forgiven, digests>>
    BY <1>32 DEF StopPort, OnWorker, centrals
  <2> QED BY <2>1 DEF BoxTypes
<1>33. CASE QuitAtRest
  <2>1. UNCHANGED <<inbox, hearing, arrived, forgiven, digests>>
    BY <1>33 DEF QuitAtRest, OnWorker, centrals
  <2> QED BY <2>1 DEF BoxTypes
<1>34. CASE Quit
  <2>1. UNCHANGED <<inbox, hearing, arrived, digests>>
    BY <1>34 DEF Quit, OnWorker, centrals
  <2>2. forgiven' \subseteq forgiven \cup Answers
    BY <1>34 DEF Quit
  <2> QED BY <2>1, <2>2 DEF BoxTypes
<1> QED
  BY <1>1, <1>2, <1>3, <1>4, <1>4a, <1>5, <1>6, <1>7, <1>8, <1>9, <1>10, <1>11, <1>12, <1>13, <1>14, <1>15, <1>16, <1>17, <1>18,
     <1>19, <1>20, <1>21, <1>22, <1>23, <1>24, <1>25, <1>26, <1>27, <1>28, <1>29, <1>30, <1>31, <1>32, <1>33, <1>34 DEF
     AnswersNext, ToolStep, WatcherStep, HandOver, ThreadStep, TaskStep

\* Appending keeps a sequence of its kind.
LEMMA OneMore == ASSUME NEW S, NEW s \in Seq(S), NEW x \in S PROVE Append(s, x) \in Seq(S)
BY ElementsAppended

\* The first text of a queue, and the rest of the queue.
LEMMA TakenFrom ==
  ASSUME NEW f \in [Ports -> Seq(Text)], NEW n \in Ports, f[n] # <<>>
  PROVE  Head(f[n]) \in Text /\ Tail(f[n]) \in Seq(Text) /\ <<Head(f[n])>> \in Seq(Text) /\ <<Failed(Head(f[n]))>> \in Seq(Post)
<1>1. f[n] \in Seq(Text)
  OBVIOUS
<1>2. Head(f[n]) \in Text /\ Tail(f[n]) \in Seq(Text)
  BY <1>1, FirstElement
<1> QED BY <1>2, OneText1

\* An empty queue of texts.
LEMMA NoText == <<>> \in Seq(Text)
<1> HIDE DEF Text
<1> QED OBVIOUS

\* A step keeps the queues of texts and posts.
LEMMA TextTypesKept ==
  ASSUME WatchTypes, PollTypes, BoxTypes, TextTypes, PortTypes, StateTypes, OneText, Offered, AnswersNext
  PROVE  TextTypes'
<1>1. ASSUME NEW p \in Prompts, TurnStarts(p) PROVE TextTypes'
  <2>1. UNCHANGED <<pending, posts, jobs, flash>>
    BY <1>1 DEF TurnStarts, Says, task, centrals
  <2> QED BY <2>1 DEF TextTypes
<1>2. ASSUME NEW p \in Prompts, TurnEnds(p) PROVE TextTypes'
  <2>1. UNCHANGED <<pending, posts, jobs, flash>>
    BY <1>2 DEF TurnEnds, Says, task, centrals
  <2> QED BY <2>1 DEF TextTypes
<1>3. ASSUME NEW p \in Prompts, Watch(p) PROVE TextTypes'
  <2>1. UNCHANGED <<pending, posts, jobs, flash>>
    BY <1>3 DEF Watch, task, centrals
  <2> QED BY <2>1 DEF TextTypes
<1>4. ASSUME NEW p \in Prompts, WritePrompt(p) PROVE TextTypes'
  <2>1. UNCHANGED <<pending, posts, jobs, flash>>
    BY <1>4 DEF WritePrompt, task, centrals
  <2> QED BY <2>1 DEF TextTypes
<1>4a. ASSUME NEW p \in Prompts, WriteElsewhere(p) PROVE TextTypes'
  <2>1. UNCHANGED <<pending, posts, jobs, flash>>
    BY <1>4a DEF WriteElsewhere, task, centrals
  <2> QED BY <2>1 DEF TextTypes
<1>5. ASSUME NEW p \in Prompts, Unwatch(p) PROVE TextTypes'
  <2>1. UNCHANGED <<pending, posts, jobs, flash>>
    BY <1>5 DEF Unwatch, task, centrals
  <2> QED BY <2>1 DEF TextTypes
<1>6. ASSUME NEW p \in Prompts, StartConversation(p) PROVE TextTypes'
  <2>1. UNCHANGED <<pending, posts, jobs, flash>>
    BY <1>6 DEF StartConversation, task, centrals
  <2> QED BY <2>1 DEF TextTypes
<1>7. ASSUME NEW p \in Prompts, WatchBegun(p) PROVE TextTypes'
  <2>1. UNCHANGED <<pending, posts, jobs, flash>>
    BY <1>7 DEF WatchBegun, WatchBegunFrom, task, centrals
  <2> QED BY <2>1 DEF TextTypes
<1>8. ASSUME NEW c \in Conversations, StopConversation(c) PROVE TextTypes'
  <2>1. UNCHANGED <<pending, posts, jobs, flash>>
    BY <1>8 DEF StopConversation, task, centrals
  <2> QED BY <2>1 DEF TextTypes
<1>9. CASE BeginPollRound
  <2>1. UNCHANGED <<pending, posts, jobs, flash>>
    BY <1>9 DEF BeginPollRound, task, centrals
  <2> QED BY <2>1 DEF TextTypes
<1>10. ASSUME NEW w \in Prompts, ReadTail(w) PROVE TextTypes'
  <2>1. UNCHANGED <<pending, posts, jobs, flash>>
    BY <1>10 DEF ReadTail, task, centrals
  <2> QED BY <2>1 DEF TextTypes
<1>11. CASE SpeakNow
  <2>1. UNCHANGED <<pending, posts, jobs, flash>>
    BY <1>11 DEF SpeakNow, task, centrals
  <2> QED BY <2>1 DEF TextTypes
<1>12. CASE HoldBack
  <2>1. UNCHANGED <<pending, posts, jobs, flash>>
    BY <1>12 DEF HoldBack, task, centrals
  <2> QED BY <2>1 DEF TextTypes
<1>13. CASE Later
  <2>1. UNCHANGED <<pending, posts, jobs, flash>>
    BY <1>13 DEF Later, task, centrals
  <2> QED BY <2>1 DEF TextTypes
<1>14. CASE SendNote
  <2>1. UNCHANGED <<pending, posts>>
    BY <1>14 DEF SendNote, task, centrals
  <2>2. via \in Ports /\ <<Note(note[offer])>> \in Seq(Text) /\ arrived \subseteq Answers
    BY <1>14, Constants, AText, OneText1 DEF SendNote, Offered, PortTypes, PollTypes, WatchTypes, BoxTypes
  <2>3. UNCHANGED <<jobs, flash>> \/ Sends(via, <<Note(note[offer])>>)
    BY <1>14 DEF SendNote, centrals
  <2>4. jobs' \in [Ports -> Seq(Text)] /\ flash' = flash
    BY <2>2, <2>3, SendTypes DEF TextTypes
  <2> QED BY <2>1, <2>4 DEF TextTypes
<1>15. CASE DropWatch
  <2>1. UNCHANGED <<pending, posts, jobs, flash>>
    BY <1>15 DEF DropWatch, task, centrals
  <2> QED BY <2>1 DEF TextTypes
<1>16. ASSUME NEW n \in Ports, Attach(n) PROVE TextTypes'
  <2>1. UNCHANGED <<pending, posts, jobs, flash>>
    BY <1>16 DEF Attach, PortStep, task
  <2> QED BY <2>1 DEF TextTypes
<1>17. ASSUME NEW n \in Ports, AttachFails(n) PROVE TextTypes'
  <2>1. UNCHANGED <<pending, posts, jobs, flash>>
    BY <1>17 DEF AttachFails, AttachFailsInto, PortStep, task
  <2> QED BY <2>1 DEF TextTypes
<1>18. ASSUME NEW n \in Ports, Take(n) PROVE TextTypes'
  <2>1. UNCHANGED <<pending, posts>>
    BY <1>18 DEF Take, PortStep, task
  <2>2. jobs[n] # <<>> /\ flash' = [flash EXCEPT ![n] = <<Head(jobs[n])>>] /\ jobs' = [jobs EXCEPT ![n] = Tail(@)]
    BY <1>18 DEF Take
  <2>3. Tail(jobs[n]) \in Seq(Text) /\ <<Head(jobs[n])>> \in Seq(Text)
    BY <2>2, TakenFrom DEF TextTypes
  <2>4. flash' \in [Ports -> Seq(Text)] /\ jobs' \in [Ports -> Seq(Text)]
    BY <2>2, <2>3 DEF TextTypes
  <2> QED BY <2>1, <2>4 DEF TextTypes
<1>19. ASSUME NEW n \in Ports, FlashWorks(n) PROVE TextTypes'
  <2>1. UNCHANGED <<pending, posts, jobs>>
    BY <1>19 DEF FlashWorks, PortStep, task
  <2>2. flash' = [flash EXCEPT ![n] = <<>>]
    BY <1>19 DEF FlashWorks
  <2>3. flash' \in [Ports -> Seq(Text)]
    BY <2>2, NoText DEF TextTypes
  <2> QED BY <2>1, <2>3 DEF TextTypes
<1>20. ASSUME NEW n \in Ports, FlashFails(n) PROVE TextTypes'
  <2>1. UNCHANGED <<pending, jobs>>
    BY <1>20 DEF FlashFails, PortStep, task
  <2>2. flash' = [flash EXCEPT ![n] = <<>>] /\ flash[n] # <<>> /\ Posted(<<Failed(flash[n][1])>>)
    BY <1>20 DEF FlashFails
  <2>3. flash' \in [Ports -> Seq(Text)]
    BY <2>2, NoText DEF TextTypes
  <2>4. <<Failed(flash[n][1])>> \in Seq(Post)
    BY <2>2, OneText1 DEF OneText
  <2>5. posts' \in Seq(Post)
    BY <2>2, <2>4, PostTypes
  <2> QED BY <2>1, <2>3, <2>5 DEF TextTypes
<1>21. ASSUME NEW n \in Ports, Drain(n) PROVE TextTypes'
  <2>1. UNCHANGED <<pending, flash>>
    BY <1>21 DEF Drain, PortStep, task
  <2>2. jobs[n] # <<>> /\ jobs' = [jobs EXCEPT ![n] = Tail(@)] /\ Posted(<<Failed(Head(jobs[n]))>>)
    BY <1>21 DEF Drain
  <2>3. Tail(jobs[n]) \in Seq(Text) /\ <<Failed(Head(jobs[n]))>> \in Seq(Post)
    BY <2>2, TakenFrom DEF TextTypes
  <2>4. jobs' \in [Ports -> Seq(Text)]
    BY <2>2, <2>3 DEF TextTypes
  <2>5. posts' \in Seq(Post)
    BY <2>2, <2>3, PostTypes
  <2> QED BY <2>1, <2>4, <2>5 DEF TextTypes
<1>22. ASSUME NEW n \in Ports, ThreadEnds(n) PROVE TextTypes'
  <2>1. UNCHANGED <<pending, posts, jobs, flash>>
    BY <1>22 DEF ThreadEnds, PortStep, task
  <2> QED BY <2>1 DEF TextTypes
<1>23. ASSUME NEW n \in Ports, Ready(n) PROVE TextTypes'
  <2>1. UNCHANGED <<pending, jobs, flash>>
    BY <1>23 DEF Ready, PortStep, task
  <2>2. Posted(<<ReadyPost(n)>>)
    BY <1>23 DEF Ready
  <2>3. <<ReadyPost(n)>> \in Seq(Post)
    BY APost
  <2>4. posts' \in Seq(Post)
    BY <2>2, <2>3, PostTypes
  <2> QED BY <2>1, <2>4 DEF TextTypes
<1>24. ASSUME NEW n \in Ports, Dies(n) PROVE TextTypes'
  <2>1. UNCHANGED <<pending, posts, jobs, flash>>
    BY <1>24 DEF Dies, PortStep, task
  <2> QED BY <2>1 DEF TextTypes
<1>25. ASSUME NEW n \in Ports, StartPort(n) PROVE TextTypes'
  <2>1. UNCHANGED <<pending, posts, jobs, flash>>
    BY <1>25 DEF StartPort, OnWorker
  <2> QED BY <2>1 DEF TextTypes
<1>26. CASE OnReady
  <2>1. posts # <<>> /\ posts' = Tail(posts) /\ Head(posts).kind = "ready"
    BY <1>26 DEF OnReady
  <2>2. posts' \in Seq(Post) /\ Head(posts).port \in Ports
    BY <2>1, HeadPost
  <2>3. UNCHANGED <<pending, jobs, flash>> \/ (pending' = <<>> /\ port = Head(posts).port /\ Sends(port, pending))
    BY <1>26 DEF OnReady, centrals
  <2>4. CASE UNCHANGED <<pending, jobs, flash>>
    BY <2>2, <2>4 DEF TextTypes
  <2>5. CASE pending' = <<>> /\ port = Head(posts).port /\ Sends(port, pending)
    <3>1. pending \in Seq(Text) /\ arrived \subseteq Answers
      BY DEF TextTypes, BoxTypes
    <3>2. jobs' \in [Ports -> Seq(Text)] /\ flash' = flash
      BY <2>2, <2>5, <3>1, SendTypes
    <3> QED BY <2>2, <2>5, <3>2, NoText DEF TextTypes
  <2> QED BY <2>3, <2>4, <2>5
<1>27. CASE OnFailed
  <2>1. UNCHANGED <<jobs, flash>>
    BY <1>27 DEF OnFailed, OnWorker, centrals
  <2>2. posts # <<>> /\ posts' = Tail(posts) /\ Head(posts).kind = "failed" /\ pending' \in {pending, Append(pending, Head(posts).text)}
    BY <1>27 DEF OnFailed
  <2>3. posts' \in Seq(Post) /\ Head(posts).text \in Text
    BY <2>2, HeadPost
  <2>4. pending \in Seq(Text)
    BY DEF TextTypes
  <2>5. pending' \in Seq(Text)
    BY <2>2, <2>3, <2>4, OneMore
  <2> QED BY <2>1, <2>3, <2>5 DEF TextTypes
<1>28. CASE HearReadyEnds
  <2>1. UNCHANGED <<pending, posts, jobs, flash>>
    BY <1>28 DEF HearReadyEnds, OnWorker, centrals
  <2> QED BY <2>1 DEF TextTypes
<1>29. CASE StopPortEnds
  <2>1. UNCHANGED <<pending, flash>>
    BY <1>29 DEF StopPortEnds, OnWorker
  <2>2. stopping \in Ports /\ jobs' = [jobs EXCEPT ![stopping] = <<>>] /\ Posted(Dropped(stopping))
    BY <1>29, Constants DEF StopPortEnds, PortTypes
  <2>3. jobs' \in [Ports -> Seq(Text)]
    BY <2>2, NoText DEF TextTypes
  <2>4. posts' \in Seq(Post)
    BY <2>2, DroppedTexts, PostTypes
  <2> QED BY <2>1, <2>3, <2>4 DEF TextTypes
<1>30. CASE HearReady
  <2>1. UNCHANGED <<pending, posts>>
    BY <1>30 DEF HearReady, OnWorker
  <2>2. port \in Ports /\ <<Digest(inbox)>> \in Seq(Text) /\ arrived \subseteq Answers
    BY <1>30, Constants, AText, OneText1 DEF HearReady, Offered, PortTypes, PollTypes, WatchTypes, BoxTypes
  <2>3. UNCHANGED <<jobs, flash>> \/ Sends(port, <<Digest(inbox)>>)
    BY <1>30 DEF HearReady
  <2>4. jobs' \in [Ports -> Seq(Text)] /\ flash' = flash
    BY <2>2, <2>3, SendTypes DEF TextTypes
  <2> QED BY <2>1, <2>4 DEF TextTypes
<1>31. CASE ClearInbox
  <2>1. UNCHANGED <<pending, posts, jobs, flash>>
    BY <1>31 DEF ClearInbox, OnWorker, task, centrals
  <2> QED BY <2>1 DEF TextTypes
<1>32. CASE StopPort
  <2>1. UNCHANGED <<pending, posts, jobs, flash>>
    BY <1>32 DEF StopPort, OnWorker, centrals
  <2> QED BY <2>1 DEF TextTypes
<1>33. CASE QuitAtRest
  <2>1. UNCHANGED <<pending, posts, jobs, flash>>
    BY <1>33 DEF QuitAtRest, OnWorker, centrals
  <2> QED BY <2>1 DEF TextTypes
<1>34. CASE Quit
  <2>1. UNCHANGED <<pending, posts, jobs, flash>>
    BY <1>34 DEF Quit, OnWorker, centrals
  <2> QED BY <2>1 DEF TextTypes
<1> QED
  BY <1>1, <1>2, <1>3, <1>4, <1>4a, <1>5, <1>6, <1>7, <1>8, <1>9, <1>10, <1>11, <1>12, <1>13, <1>14, <1>15, <1>16, <1>17, <1>18,
     <1>19, <1>20, <1>21, <1>22, <1>23, <1>24, <1>25, <1>26, <1>27, <1>28, <1>29, <1>30, <1>31, <1>32, <1>33, <1>34 DEF
     AnswersNext, ToolStep, WatcherStep, HandOver, ThreadStep, TaskStep

\* A port goes on typing one text at a time.
LEMMA OneTextKept ==
  ASSUME TextTypes, OneText, AnswersNext
  PROVE  OneText'
<1>1. ASSUME NEW p \in Prompts, TurnStarts(p) PROVE OneText'
  <2>1. flash' = flash
    BY <1>1 DEF TurnStarts, Says, task, centrals
  <2> QED BY <2>1 DEF OneText
<1>2. ASSUME NEW p \in Prompts, TurnEnds(p) PROVE OneText'
  <2>1. flash' = flash
    BY <1>2 DEF TurnEnds, Says, task, centrals
  <2> QED BY <2>1 DEF OneText
<1>3. ASSUME NEW p \in Prompts, Watch(p) PROVE OneText'
  <2>1. flash' = flash
    BY <1>3 DEF Watch, task, centrals
  <2> QED BY <2>1 DEF OneText
<1>4. ASSUME NEW p \in Prompts, WritePrompt(p) PROVE OneText'
  <2>1. flash' = flash
    BY <1>4 DEF WritePrompt, task, centrals
  <2> QED BY <2>1 DEF OneText
<1>4a. ASSUME NEW p \in Prompts, WriteElsewhere(p) PROVE OneText'
  <2>1. flash' = flash
    BY <1>4a DEF WriteElsewhere, task, centrals
  <2> QED BY <2>1 DEF OneText
<1>5. ASSUME NEW p \in Prompts, Unwatch(p) PROVE OneText'
  <2>1. flash' = flash
    BY <1>5 DEF Unwatch, task, centrals
  <2> QED BY <2>1 DEF OneText
<1>6. ASSUME NEW p \in Prompts, StartConversation(p) PROVE OneText'
  <2>1. flash' = flash
    BY <1>6 DEF StartConversation, task, centrals
  <2> QED BY <2>1 DEF OneText
<1>7. ASSUME NEW p \in Prompts, WatchBegun(p) PROVE OneText'
  <2>1. flash' = flash
    BY <1>7 DEF WatchBegun, WatchBegunFrom, task, centrals
  <2> QED BY <2>1 DEF OneText
<1>8. ASSUME NEW c \in Conversations, StopConversation(c) PROVE OneText'
  <2>1. flash' = flash
    BY <1>8 DEF StopConversation, task, centrals
  <2> QED BY <2>1 DEF OneText
<1>9. CASE BeginPollRound
  <2>1. flash' = flash
    BY <1>9 DEF BeginPollRound, task, centrals
  <2> QED BY <2>1 DEF OneText
<1>10. ASSUME NEW w \in Prompts, ReadTail(w) PROVE OneText'
  <2>1. flash' = flash
    BY <1>10 DEF ReadTail, task, centrals
  <2> QED BY <2>1 DEF OneText
<1>11. CASE SpeakNow
  <2>1. flash' = flash
    BY <1>11 DEF SpeakNow, task, centrals
  <2> QED BY <2>1 DEF OneText
<1>12. CASE HoldBack
  <2>1. flash' = flash
    BY <1>12 DEF HoldBack, task, centrals
  <2> QED BY <2>1 DEF OneText
<1>13. CASE Later
  <2>1. flash' = flash
    BY <1>13 DEF Later, task, centrals
  <2> QED BY <2>1 DEF OneText
<1>14. CASE SendNote
  <2>1. flash' = flash
    BY <1>14 DEF SendNote, task, centrals, Sends
  <2> QED BY <2>1 DEF OneText
<1>15. CASE DropWatch
  <2>1. flash' = flash
    BY <1>15 DEF DropWatch, task, centrals
  <2> QED BY <2>1 DEF OneText
<1>16. ASSUME NEW n \in Ports, Attach(n) PROVE OneText'
  <2>1. flash' = flash
    BY <1>16 DEF Attach, PortStep, task
  <2> QED BY <2>1 DEF OneText
<1>17. ASSUME NEW n \in Ports, AttachFails(n) PROVE OneText'
  <2>1. flash' = flash
    BY <1>17 DEF AttachFails, AttachFailsInto, PortStep, task
  <2> QED BY <2>1 DEF OneText
<1>18. ASSUME NEW n \in Ports, Take(n) PROVE OneText'
  <2>1. jobs[n] # <<>> /\ flash' = [flash EXCEPT ![n] = <<Head(jobs[n])>>]
    BY <1>18 DEF Take
  <2>2. Head(jobs[n]) \in Text
    BY <2>1, TakenFrom DEF TextTypes
  <2>3. SUFFICES ASSUME NEW m \in Ports, flash'[m] # <<>> PROVE flash'[m] = <<flash'[m][1]>> /\ flash'[m][1] \in Text
    BY DEF OneText
  <2>4. flash'[m] = flash[m] \/ flash'[m] = <<Head(jobs[n])>>
    BY <2>1 DEF TextTypes
  <2>5. flash'[m] = flash[m] => flash'[m] = <<flash'[m][1]>> /\ flash'[m][1] \in Text
    BY <2>3 DEF OneText
  <2>6. flash'[m] = <<Head(jobs[n])>> => flash'[m][1] = Head(jobs[n])
    OBVIOUS
  <2> QED BY <2>2, <2>4, <2>5, <2>6
<1>19. ASSUME NEW n \in Ports, FlashWorks(n) PROVE OneText'
  <2>1. flash' = [flash EXCEPT ![n] = <<>>]
    BY <1>19 DEF FlashWorks
  <2>2. \A m \in Ports : flash'[m] # <<>> => flash'[m] = flash[m]
    BY <2>1 DEF TextTypes
  <2> QED BY <2>2 DEF OneText
<1>20. ASSUME NEW n \in Ports, FlashFails(n) PROVE OneText'
  <2>1. flash' = [flash EXCEPT ![n] = <<>>]
    BY <1>20 DEF FlashFails
  <2>2. \A m \in Ports : flash'[m] # <<>> => flash'[m] = flash[m]
    BY <2>1 DEF TextTypes
  <2> QED BY <2>2 DEF OneText
<1>21. ASSUME NEW n \in Ports, Drain(n) PROVE OneText'
  <2>1. flash' = flash
    BY <1>21 DEF Drain, PortStep, task
  <2> QED BY <2>1 DEF OneText
<1>22. ASSUME NEW n \in Ports, ThreadEnds(n) PROVE OneText'
  <2>1. flash' = flash
    BY <1>22 DEF ThreadEnds, PortStep, task
  <2> QED BY <2>1 DEF OneText
<1>23. ASSUME NEW n \in Ports, Ready(n) PROVE OneText'
  <2>1. flash' = flash
    BY <1>23 DEF Ready, PortStep, task
  <2> QED BY <2>1 DEF OneText
<1>24. ASSUME NEW n \in Ports, Dies(n) PROVE OneText'
  <2>1. flash' = flash
    BY <1>24 DEF Dies, PortStep, task
  <2> QED BY <2>1 DEF OneText
<1>25. ASSUME NEW n \in Ports, StartPort(n) PROVE OneText'
  <2>1. flash' = flash
    BY <1>25 DEF StartPort, OnWorker
  <2> QED BY <2>1 DEF OneText
<1>26. CASE OnReady
  <2>1. flash' = flash
    BY <1>26 DEF OnReady, OnWorker, centrals, Sends
  <2> QED BY <2>1 DEF OneText
<1>27. CASE OnFailed
  <2>1. flash' = flash
    BY <1>27 DEF OnFailed, OnWorker, centrals
  <2> QED BY <2>1 DEF OneText
<1>28. CASE HearReadyEnds
  <2>1. flash' = flash
    BY <1>28 DEF HearReadyEnds, OnWorker, centrals
  <2> QED BY <2>1 DEF OneText
<1>29. CASE StopPortEnds
  <2>1. flash' = flash
    BY <1>29 DEF StopPortEnds, OnWorker
  <2> QED BY <2>1 DEF OneText
<1>30. CASE HearReady
  <2>1. flash' = flash
    BY <1>30 DEF HearReady, OnWorker, Sends
  <2> QED BY <2>1 DEF OneText
<1>31. CASE ClearInbox
  <2>1. flash' = flash
    BY <1>31 DEF ClearInbox, OnWorker, task, centrals
  <2> QED BY <2>1 DEF OneText
<1>32. CASE StopPort
  <2>1. flash' = flash
    BY <1>32 DEF StopPort, OnWorker, centrals
  <2> QED BY <2>1 DEF OneText
<1>33. CASE QuitAtRest
  <2>1. flash' = flash
    BY <1>33 DEF QuitAtRest, OnWorker, centrals
  <2> QED BY <2>1 DEF OneText
<1>34. CASE Quit
  <2>1. flash' = flash
    BY <1>34 DEF Quit, OnWorker, centrals
  <2> QED BY <2>1 DEF OneText
<1> QED
  BY <1>1, <1>2, <1>3, <1>4, <1>4a, <1>5, <1>6, <1>7, <1>8, <1>9, <1>10, <1>11, <1>12, <1>13, <1>14, <1>15, <1>16, <1>17, <1>18,
     <1>19, <1>20, <1>21, <1>22, <1>23, <1>24, <1>25, <1>26, <1>27, <1>28, <1>29, <1>30, <1>31, <1>32, <1>33, <1>34 DEF
     AnswersNext, ToolStep, WatcherStep, HandOver, ThreadStep, TaskStep

\* A step keeps what the worker knows of the ports.
LEMMA PortTypesKept ==
  ASSUME PortTypes, AnswersNext
  PROVE  PortTypes'
<1>1. ASSUME NEW p \in Prompts, TurnStarts(p) PROVE PortTypes'
  <2>1. UNCHANGED <<port, stopping, closing>>
    BY <1>1 DEF TurnStarts, Says, task, centrals
  <2> QED BY <2>1 DEF PortTypes
<1>2. ASSUME NEW p \in Prompts, TurnEnds(p) PROVE PortTypes'
  <2>1. UNCHANGED <<port, stopping, closing>>
    BY <1>2 DEF TurnEnds, Says, task, centrals
  <2> QED BY <2>1 DEF PortTypes
<1>3. ASSUME NEW p \in Prompts, Watch(p) PROVE PortTypes'
  <2>1. UNCHANGED <<port, stopping, closing>>
    BY <1>3 DEF Watch, task, centrals
  <2> QED BY <2>1 DEF PortTypes
<1>4. ASSUME NEW p \in Prompts, WritePrompt(p) PROVE PortTypes'
  <2>1. UNCHANGED <<port, stopping, closing>>
    BY <1>4 DEF WritePrompt, task, centrals
  <2> QED BY <2>1 DEF PortTypes
<1>4a. ASSUME NEW p \in Prompts, WriteElsewhere(p) PROVE PortTypes'
  <2>1. UNCHANGED <<port, stopping, closing>>
    BY <1>4a DEF WriteElsewhere, task, centrals
  <2> QED BY <2>1 DEF PortTypes
<1>5. ASSUME NEW p \in Prompts, Unwatch(p) PROVE PortTypes'
  <2>1. UNCHANGED <<port, stopping, closing>>
    BY <1>5 DEF Unwatch, task, centrals
  <2> QED BY <2>1 DEF PortTypes
<1>6. ASSUME NEW p \in Prompts, StartConversation(p) PROVE PortTypes'
  <2>1. UNCHANGED <<port, stopping, closing>>
    BY <1>6 DEF StartConversation, task, centrals
  <2> QED BY <2>1 DEF PortTypes
<1>7. ASSUME NEW p \in Prompts, WatchBegun(p) PROVE PortTypes'
  <2>1. UNCHANGED <<port, stopping, closing>>
    BY <1>7 DEF WatchBegun, WatchBegunFrom, task, centrals
  <2> QED BY <2>1 DEF PortTypes
<1>8. ASSUME NEW c \in Conversations, StopConversation(c) PROVE PortTypes'
  <2>1. UNCHANGED <<port, stopping, closing>>
    BY <1>8 DEF StopConversation, task, centrals
  <2> QED BY <2>1 DEF PortTypes
<1>9. CASE BeginPollRound
  <2>1. UNCHANGED <<port, stopping, closing>>
    BY <1>9 DEF BeginPollRound, task, centrals
  <2> QED BY <2>1 DEF PortTypes
<1>10. ASSUME NEW w \in Prompts, ReadTail(w) PROVE PortTypes'
  <2>1. UNCHANGED <<port, stopping, closing>>
    BY <1>10 DEF ReadTail, task, centrals
  <2> QED BY <2>1 DEF PortTypes
<1>11. CASE SpeakNow
  <2>1. UNCHANGED <<port, stopping, closing>>
    BY <1>11 DEF SpeakNow, task, centrals
  <2> QED BY <2>1 DEF PortTypes
<1>12. CASE HoldBack
  <2>1. UNCHANGED <<port, stopping, closing>>
    BY <1>12 DEF HoldBack, task, centrals
  <2> QED BY <2>1 DEF PortTypes
<1>13. CASE Later
  <2>1. UNCHANGED <<port, stopping, closing>>
    BY <1>13 DEF Later, task, centrals
  <2> QED BY <2>1 DEF PortTypes
<1>14. CASE SendNote
  <2>1. UNCHANGED <<port, stopping, closing>>
    BY <1>14 DEF SendNote, task, centrals
  <2> QED BY <2>1 DEF PortTypes
<1>15. CASE DropWatch
  <2>1. UNCHANGED <<port, stopping, closing>>
    BY <1>15 DEF DropWatch, task, centrals
  <2> QED BY <2>1 DEF PortTypes
<1>16. ASSUME NEW n \in Ports, Attach(n) PROVE PortTypes'
  <2>1. UNCHANGED <<port, stopping, closing>>
    BY <1>16 DEF Attach, PortStep, task
  <2> QED BY <2>1 DEF PortTypes
<1>17. ASSUME NEW n \in Ports, AttachFails(n) PROVE PortTypes'
  <2>1. UNCHANGED <<port, stopping, closing>>
    BY <1>17 DEF AttachFails, AttachFailsInto, PortStep, task
  <2> QED BY <2>1 DEF PortTypes
<1>18. ASSUME NEW n \in Ports, Take(n) PROVE PortTypes'
  <2>1. UNCHANGED <<port, stopping, closing>>
    BY <1>18 DEF Take, PortStep, task
  <2> QED BY <2>1 DEF PortTypes
<1>19. ASSUME NEW n \in Ports, FlashWorks(n) PROVE PortTypes'
  <2>1. UNCHANGED <<port, stopping, closing>>
    BY <1>19 DEF FlashWorks, PortStep, task
  <2> QED BY <2>1 DEF PortTypes
<1>20. ASSUME NEW n \in Ports, FlashFails(n) PROVE PortTypes'
  <2>1. UNCHANGED <<port, stopping, closing>>
    BY <1>20 DEF FlashFails, PortStep, task
  <2> QED BY <2>1 DEF PortTypes
<1>21. ASSUME NEW n \in Ports, Drain(n) PROVE PortTypes'
  <2>1. UNCHANGED <<port, stopping, closing>>
    BY <1>21 DEF Drain, PortStep, task
  <2> QED BY <2>1 DEF PortTypes
<1>22. ASSUME NEW n \in Ports, ThreadEnds(n) PROVE PortTypes'
  <2>1. UNCHANGED <<port, stopping, closing>>
    BY <1>22 DEF ThreadEnds, PortStep, task
  <2> QED BY <2>1 DEF PortTypes
<1>23. ASSUME NEW n \in Ports, Ready(n) PROVE PortTypes'
  <2>1. UNCHANGED <<port, stopping, closing>>
    BY <1>23 DEF Ready, PortStep, task
  <2> QED BY <2>1 DEF PortTypes
<1>24. ASSUME NEW n \in Ports, Dies(n) PROVE PortTypes'
  <2>1. UNCHANGED <<port, stopping, closing>>
    BY <1>24 DEF Dies, PortStep, task
  <2> QED BY <2>1 DEF PortTypes
<1>25. ASSUME NEW n \in Ports, StartPort(n) PROVE PortTypes'
  <2>1. UNCHANGED <<stopping, closing>>
    BY <1>25 DEF StartPort, OnWorker
  <2>2. port' = n
    BY <1>25 DEF StartPort
  <2> QED BY <2>1, <2>2, Constants DEF PortTypes
<1>26. CASE OnReady
  <2>1. UNCHANGED <<port, stopping, closing>>
    BY <1>26 DEF OnReady, OnWorker, centrals
  <2> QED BY <2>1 DEF PortTypes
<1>27. CASE OnFailed
  <2>1. UNCHANGED <<port, stopping, closing>>
    BY <1>27 DEF OnFailed, OnWorker, centrals
  <2> QED BY <2>1 DEF PortTypes
<1>28. CASE HearReadyEnds
  <2>1. UNCHANGED <<port, stopping, closing>>
    BY <1>28 DEF HearReadyEnds, OnWorker, centrals
  <2> QED BY <2>1 DEF PortTypes
<1>29. CASE StopPortEnds
  <2>1. UNCHANGED <<port, closing>>
    BY <1>29 DEF StopPortEnds, OnWorker
  <2>2. stopping' = 0
    BY <1>29 DEF StopPortEnds
  <2> QED BY <2>1, <2>2, Constants DEF PortTypes
<1>30. CASE HearReady
  <2>1. UNCHANGED <<port, stopping, closing>>
    BY <1>30 DEF HearReady, OnWorker
  <2> QED BY <2>1 DEF PortTypes
<1>31. CASE ClearInbox
  <2>1. UNCHANGED <<port, stopping, closing>>
    BY <1>31 DEF ClearInbox, OnWorker, task, centrals
  <2> QED BY <2>1 DEF PortTypes
<1>32. CASE StopPort
  <2>1. port # 0 /\ stopping' = port /\ closing' = closing \cup {port} /\ port' = 0
    BY <1>32 DEF StopPort
  <2> QED BY <2>1, Constants DEF PortTypes
<1>33. CASE QuitAtRest
  <2>1. UNCHANGED <<port, stopping, closing>>
    BY <1>33 DEF QuitAtRest, OnWorker, centrals
  <2> QED BY <2>1 DEF PortTypes
<1>34. CASE Quit
  <2>1. UNCHANGED <<port, stopping, closing>>
    BY <1>34 DEF Quit, OnWorker, centrals
  <2> QED BY <2>1 DEF PortTypes
<1> QED
  BY <1>1, <1>2, <1>3, <1>4, <1>4a, <1>5, <1>6, <1>7, <1>8, <1>9, <1>10, <1>11, <1>12, <1>13, <1>14, <1>15, <1>16, <1>17, <1>18,
     <1>19, <1>20, <1>21, <1>22, <1>23, <1>24, <1>25, <1>26, <1>27, <1>28, <1>29, <1>30, <1>31, <1>32, <1>33, <1>34 DEF
     AnswersNext, ToolStep, WatcherStep, HandOver, ThreadStep, TaskStep

\* A step keeps the states of Quit and of the ports.
LEMMA StateTypesKept ==
  ASSUME WatchTypes, PollTypes, BoxTypes, TextTypes, PortTypes, StateTypes, Offered, AnswersNext
  PROVE  StateTypes'
<1>1. ASSUME NEW p \in Prompts, TurnStarts(p) PROVE StateTypes'
  <2>1. UNCHANGED <<quit, mode, status, thread>>
    BY <1>1 DEF TurnStarts, Says, task, centrals
  <2> QED BY <2>1 DEF StateTypes
<1>2. ASSUME NEW p \in Prompts, TurnEnds(p) PROVE StateTypes'
  <2>1. UNCHANGED <<quit, mode, status, thread>>
    BY <1>2 DEF TurnEnds, Says, task, centrals
  <2> QED BY <2>1 DEF StateTypes
<1>3. ASSUME NEW p \in Prompts, Watch(p) PROVE StateTypes'
  <2>1. UNCHANGED <<quit, mode, status, thread>>
    BY <1>3 DEF Watch, task, centrals
  <2> QED BY <2>1 DEF StateTypes
<1>4. ASSUME NEW p \in Prompts, WritePrompt(p) PROVE StateTypes'
  <2>1. UNCHANGED <<quit, mode, status, thread>>
    BY <1>4 DEF WritePrompt, task, centrals
  <2> QED BY <2>1 DEF StateTypes
<1>4a. ASSUME NEW p \in Prompts, WriteElsewhere(p) PROVE StateTypes'
  <2>1. UNCHANGED <<quit, mode, status, thread>>
    BY <1>4a DEF WriteElsewhere, task, centrals
  <2> QED BY <2>1 DEF StateTypes
<1>5. ASSUME NEW p \in Prompts, Unwatch(p) PROVE StateTypes'
  <2>1. UNCHANGED <<quit, mode, status, thread>>
    BY <1>5 DEF Unwatch, task, centrals
  <2> QED BY <2>1 DEF StateTypes
<1>6. ASSUME NEW p \in Prompts, StartConversation(p) PROVE StateTypes'
  <2>1. UNCHANGED <<quit, mode, status, thread>>
    BY <1>6 DEF StartConversation, task, centrals
  <2> QED BY <2>1 DEF StateTypes
<1>7. ASSUME NEW p \in Prompts, WatchBegun(p) PROVE StateTypes'
  <2>1. UNCHANGED <<quit, mode, status, thread>>
    BY <1>7 DEF WatchBegun, WatchBegunFrom, task, centrals
  <2> QED BY <2>1 DEF StateTypes
<1>8. ASSUME NEW c \in Conversations, StopConversation(c) PROVE StateTypes'
  <2>1. UNCHANGED <<quit, mode, status, thread>>
    BY <1>8 DEF StopConversation, task, centrals
  <2> QED BY <2>1 DEF StateTypes
<1>9. CASE BeginPollRound
  <2>1. UNCHANGED <<quit, mode, status, thread>>
    BY <1>9 DEF BeginPollRound, task, centrals
  <2> QED BY <2>1 DEF StateTypes
<1>10. ASSUME NEW w \in Prompts, ReadTail(w) PROVE StateTypes'
  <2>1. UNCHANGED <<quit, mode, status, thread>>
    BY <1>10 DEF ReadTail, task, centrals
  <2> QED BY <2>1 DEF StateTypes
<1>11. CASE SpeakNow
  <2>1. UNCHANGED <<quit, mode, status, thread>>
    BY <1>11 DEF SpeakNow, task, centrals
  <2> QED BY <2>1 DEF StateTypes
<1>12. CASE HoldBack
  <2>1. UNCHANGED <<quit, mode, status, thread>>
    BY <1>12 DEF HoldBack, task, centrals
  <2> QED BY <2>1 DEF StateTypes
<1>13. CASE Later
  <2>1. UNCHANGED <<quit, mode, status, thread>>
    BY <1>13 DEF Later, task, centrals
  <2> QED BY <2>1 DEF StateTypes
<1>14. CASE SendNote
  <2>1. UNCHANGED <<quit>>
    BY <1>14 DEF SendNote, task, centrals
  <2>2. via \in Ports /\ <<Note(note[offer])>> \in Seq(Text) /\ arrived \subseteq Answers
    BY <1>14, Constants, AText, OneText1 DEF SendNote, Offered, PortTypes, PollTypes, WatchTypes, BoxTypes
  <2>3. UNCHANGED <<mode, status, thread>> \/ (via \in Ports /\ Sends(via, <<Note(note[offer])>>))
    BY <1>14, <2>2 DEF SendNote, centrals
  <2>4. status' \in [Ports -> {"new", "starting", "ready", "busy", "error", "stopped"}] /\ UNCHANGED <<mode, thread>>
    BY <2>2, <2>3, SendTypes DEF StateTypes
  <2> QED BY <2>1, <2>4 DEF StateTypes
<1>15. CASE DropWatch
  <2>1. UNCHANGED <<quit, mode, status, thread>>
    BY <1>15 DEF DropWatch, task, centrals
  <2> QED BY <2>1 DEF StateTypes
<1>16. ASSUME NEW n \in Ports, Attach(n) PROVE StateTypes'
  <2>1. UNCHANGED <<quit, mode>>
    BY <1>16 DEF Attach, PortStep, task
  <2>2. thread' = [thread EXCEPT ![n] = "serving"] /\ (status' = status \/ status' = [status EXCEPT ![n] = "error"])
    BY <1>16 DEF Attach
  <2> QED BY <2>1, <2>2 DEF StateTypes
<1>17. ASSUME NEW n \in Ports, AttachFails(n) PROVE StateTypes'
  <2>1. UNCHANGED <<quit, mode>>
    BY <1>17 DEF AttachFails, AttachFailsInto, PortStep, task
  <2>2. thread' = [thread EXCEPT ![n] = "draining"] /\ (status' = status \/ status' = [status EXCEPT ![n] = "error"])
    BY <1>17 DEF AttachFails, AttachFailsInto
  <2> QED BY <2>1, <2>2 DEF StateTypes
<1>18. ASSUME NEW n \in Ports, Take(n) PROVE StateTypes'
  <2>1. UNCHANGED <<quit, mode, status, thread>>
    BY <1>18 DEF Take, PortStep, task
  <2> QED BY <2>1 DEF StateTypes
<1>19. ASSUME NEW n \in Ports, FlashWorks(n) PROVE StateTypes'
  <2>1. UNCHANGED <<quit, mode, thread>>
    BY <1>19 DEF FlashWorks, PortStep, task
  <2>2. status' = [status EXCEPT ![n] = IF @ \in {"error", "stopped"} THEN @ ELSE "busy"]
    BY <1>19 DEF FlashWorks
  <2> QED BY <2>1, <2>2 DEF StateTypes
<1>20. ASSUME NEW n \in Ports, FlashFails(n) PROVE StateTypes'
  <2>1. UNCHANGED <<quit, mode, thread>>
    BY <1>20 DEF FlashFails, PortStep, task
  <2>2. status' = [status EXCEPT ![n] = "error"]
    BY <1>20 DEF FlashFails
  <2> QED BY <2>1, <2>2 DEF StateTypes
<1>21. ASSUME NEW n \in Ports, Drain(n) PROVE StateTypes'
  <2>1. UNCHANGED <<quit, mode, status, thread>>
    BY <1>21 DEF Drain, PortStep, task
  <2> QED BY <2>1 DEF StateTypes
<1>22. ASSUME NEW n \in Ports, ThreadEnds(n) PROVE StateTypes'
  <2>1. UNCHANGED <<quit, mode, status>>
    BY <1>22 DEF ThreadEnds, PortStep, task
  <2>2. thread' = [thread EXCEPT ![n] = "ended"]
    BY <1>22 DEF ThreadEnds
  <2> QED BY <2>1, <2>2 DEF StateTypes
<1>23. ASSUME NEW n \in Ports, Ready(n) PROVE StateTypes'
  <2>1. UNCHANGED <<quit, mode, thread>>
    BY <1>23 DEF Ready, PortStep, task
  <2>2. status' = [status EXCEPT ![n] = "ready"]
    BY <1>23 DEF Ready
  <2> QED BY <2>1, <2>2 DEF StateTypes
<1>24. ASSUME NEW n \in Ports, Dies(n) PROVE StateTypes'
  <2>1. UNCHANGED <<quit, mode, thread>>
    BY <1>24 DEF Dies, PortStep, task
  <2>2. status' = [status EXCEPT ![n] = "error"]
    BY <1>24 DEF Dies
  <2> QED BY <2>1, <2>2 DEF StateTypes
<1>25. ASSUME NEW n \in Ports, StartPort(n) PROVE StateTypes'
  <2>1. UNCHANGED <<quit>>
    BY <1>25 DEF StartPort, OnWorker
  <2>2. status' = [status EXCEPT ![n] = "starting"]
    BY <1>25 DEF StartPort
  <2>3. mode' = [mode EXCEPT ![n] = "own"] \/ mode' = [mode EXCEPT ![n] = "desktop"]
    BY <1>25 DEF StartPort
  <2>4. thread' = thread \/ thread' = [thread EXCEPT ![n] = "attaching"]
    BY <1>25 DEF StartPort
  <2> QED BY <2>1, <2>2, <2>3, <2>4 DEF StateTypes
<1>26. CASE OnReady
  <2>1. UNCHANGED <<quit>>
    BY <1>26 DEF OnReady, OnWorker, centrals
  <2>2. pending \in Seq(Text) /\ arrived \subseteq Answers
    BY DEF TextTypes, BoxTypes
  <2>5. Head(posts).port \in Ports
    BY <1>26, HeadPost DEF OnReady
  <2>3. UNCHANGED <<mode, status, thread>> \/ (port \in Ports /\ Sends(port, pending))
    BY <1>26, <2>5 DEF OnReady, centrals
  <2>4. status' \in [Ports -> {"new", "starting", "ready", "busy", "error", "stopped"}] /\ UNCHANGED <<mode, thread>>
    BY <2>2, <2>3, SendTypes DEF StateTypes
  <2> QED BY <2>1, <2>4 DEF StateTypes
<1>27. CASE OnFailed
  <2>1. UNCHANGED <<quit, mode, status, thread>>
    BY <1>27 DEF OnFailed, OnWorker, centrals
  <2> QED BY <2>1 DEF StateTypes
<1>28. CASE HearReadyEnds
  <2>1. UNCHANGED <<quit, mode, status, thread>>
    BY <1>28 DEF HearReadyEnds, OnWorker, centrals
  <2> QED BY <2>1 DEF StateTypes
<1>29. CASE StopPortEnds
  <2>1. UNCHANGED <<quit, mode, thread>>
    BY <1>29 DEF StopPortEnds, OnWorker
  <2>2. status' = [status EXCEPT ![stopping] = "stopped"]
    BY <1>29 DEF StopPortEnds
  <2> QED BY <2>1, <2>2 DEF StateTypes
<1>30. CASE HearReady
  <2>1. UNCHANGED <<quit>>
    BY <1>30 DEF HearReady, OnWorker
  <2>2. port \in Ports /\ <<Digest(inbox)>> \in Seq(Text) /\ arrived \subseteq Answers
    BY <1>30, Constants, AText, OneText1 DEF HearReady, Offered, PortTypes, PollTypes, WatchTypes, BoxTypes
  <2>3. UNCHANGED <<mode, status, thread>> \/ (port \in Ports /\ Sends(port, <<Digest(inbox)>>))
    BY <1>30, <2>2 DEF HearReady
  <2>4. status' \in [Ports -> {"new", "starting", "ready", "busy", "error", "stopped"}] /\ UNCHANGED <<mode, thread>>
    BY <2>2, <2>3, SendTypes DEF StateTypes
  <2> QED BY <2>1, <2>4 DEF StateTypes
<1>31. CASE ClearInbox
  <2>1. UNCHANGED <<quit, mode, status, thread>>
    BY <1>31 DEF ClearInbox, OnWorker, task, centrals
  <2> QED BY <2>1 DEF StateTypes
<1>32. CASE StopPort
  <2>1. quit' \in {quit, "asked", "done", "no"} /\ UNCHANGED centrals
    BY <1>32 DEF StopPort
  <2> QED BY <2>1 DEF StateTypes, centrals
<1>33. CASE QuitAtRest
  <2>1. quit' \in {quit, "asked", "done", "no"} /\ UNCHANGED centrals
    BY <1>33 DEF QuitAtRest
  <2> QED BY <2>1 DEF StateTypes, centrals
<1>34. CASE Quit
  <2>1. quit' \in {quit, "asked", "done", "no"} /\ UNCHANGED centrals
    BY <1>34 DEF Quit
  <2> QED BY <2>1 DEF StateTypes, centrals
<1> QED
  BY <1>1, <1>2, <1>3, <1>4, <1>4a, <1>5, <1>6, <1>7, <1>8, <1>9, <1>10, <1>11, <1>12, <1>13, <1>14, <1>15, <1>16, <1>17, <1>18,
     <1>19, <1>20, <1>21, <1>22, <1>23, <1>24, <1>25, <1>26, <1>27, <1>28, <1>29, <1>30, <1>31, <1>32, <1>33, <1>34 DEF
     AnswersNext, ToolStep, WatcherStep, HandOver, ThreadStep, TaskStep

-----------------------------------------------------------------------------
(* Where an answer goes.                                                    *)

\* Posting keeps what came back, and until Quit is done adds the failed texts.
LEMMA ReturnedTexts ==
  ASSUME TextTypes, NEW more \in Seq(Post), Posted(more)
  PROVE  /\ FailedTexts \subseteq FailedTexts'
         /\ quit # "done" => \A t \in Text : Failed(t) \in ToSet(more) => t \in FailedTexts'
<1>1. posts \in Seq(Post)
  BY DEF TextTypes
<1>2. ToSet(posts \o more) = ToSet(posts) \cup ToSet(more)
  BY <1>1, ElementsJoined
<1>3. ToSet(posts) \subseteq ToSet(posts') /\ (quit # "done" => ToSet(more) \subseteq ToSet(posts'))
  BY <1>2 DEF Posted
<1>4. FailedTexts \subseteq FailedTexts'
  BY <1>3 DEF FailedTexts
<1>5. ASSUME NEW t \in Text, Failed(t) \in ToSet(posts') PROVE t \in FailedTexts'
  <2>1. Failed(t).kind = "failed" /\ Failed(t).text = t
    BY APost
  <2> QED BY <1>5, <2>1 DEF FailedTexts
<1> QED BY <1>3, <1>4, <1>5

\* A send takes its texts along, or has them arrive at once.
LEMMA SendCarries ==
  ASSUME TextTypes, NEW n \in Ports, NEW texts \in Seq(Text), Sends(n, texts)
  PROVE  /\ Flying \subseteq Flying' /\ arrived \subseteq arrived'
         /\ \A a \in Answers : \A t \in ToSet(texts) : a \in t.of => a \in arrived' \cup Flying'
<1>1. flash' = flash
  BY DEF Sends
<1>2. CASE mode[n] = "own"
  <2>1. jobs' = jobs /\ arrived' = arrived \cup Carried(ToSet(texts))
    BY <1>2 DEF Sends
  <2>2. Flying' = Flying
    BY <1>1, <2>1 DEF Flying
  <2> QED BY <2>1, <2>2 DEF Carried
<1>3. CASE mode[n] # "own"
  <2> DEFINE s == jobs[n] \o texts
  <2>1. jobs' = [jobs EXCEPT ![n] = s] /\ arrived' = arrived
    BY <1>3 DEF Sends
  <2>2. jobs[n] \in Seq(Text)
    BY DEF TextTypes
  <2>3. ToSet(s) = ToSet(jobs[n]) \cup ToSet(texts)
    BY <2>2, ElementsJoined
  <2> HIDE DEF s
  <2>4. jobs'[n] = s /\ \A m \in Ports : m # n => jobs'[m] = jobs[m]
    BY <2>1 DEF TextTypes
  <2>5. \A m \in Ports : ToSet(jobs[m]) \subseteq ToSet(jobs'[m])
    BY <2>3, <2>4
  <2>6. Flying \subseteq Flying'
    BY <1>1, <2>5 DEF Flying
  <2>7. ASSUME NEW a \in Answers, NEW t \in ToSet(texts), a \in t.of PROVE a \in Flying'
    <3>1. t \in ToSet(jobs'[n])
      BY <2>3, <2>4
    <3> QED BY <2>7, <3>1 DEF Flying
  <2> QED BY <2>1, <2>6, <2>7
<1> QED BY <1>2, <1>3

\* Where a text in the queue of a port, or under its fingers, goes.
LEMMA FlightMoves ==
  ASSUME TextTypes, NEW n \in Ports, NEW t, jobs' = [jobs EXCEPT ![n] = jobs'[n]], flash' = [flash EXCEPT ![n] = flash'[n]],
         ToSet(jobs[n]) \cup ToSet(flash[n]) \subseteq ToSet(jobs'[n]) \cup ToSet(flash'[n]) \cup {t}
  PROVE  \A a \in Flying : a \in Flying' \/ a \in t.of
<1>1. \A m \in Ports : m # n => jobs'[m] = jobs[m] /\ flash'[m] = flash[m]
  BY DEF TextTypes
<1>2. ASSUME NEW a \in Flying PROVE a \in Flying' \/ a \in t.of
  <2>1. a \in Answers
    BY DEF Flying
  <2>2. PICK m \in Ports : \E u \in ToSet(jobs[m]) \cup ToSet(flash[m]) : a \in u.of
    BY DEF Flying
  <2>3. PICK u \in ToSet(jobs[m]) \cup ToSet(flash[m]) : a \in u.of
    BY <2>2
  <2>4. CASE m # n
    <3>1. u \in ToSet(jobs'[m]) \cup ToSet(flash'[m])
      BY <1>1, <2>3, <2>4
    <3> QED BY <2>1, <2>3, <3>1 DEF Flying
  <2>5. CASE m = n /\ u # t
    <3>1. u \in ToSet(jobs'[n]) \cup ToSet(flash'[n])
      BY <2>3, <2>5
    <3> QED BY <2>1, <2>3, <3>1 DEF Flying
  <2> QED BY <2>3, <2>4, <2>5
<1> QED BY <1>2

\* What is on its way is answers.
LEMMA FlyingAnswers == Flying \subseteq Answers /\ Back \subseteq Answers /\ Waiting \subseteq Answers
BY DEF Flying, Back, Waiting

\* A text on its way goes on, arrives or, before the end of Quit, comes back.
LEMMA FlyingStays ==
  ASSUME WatchTypes, PollTypes, BoxTypes, TextTypes, PortTypes, OneText, Offered, AnswersNext
  PROVE  \A x \in Flying : x \in Flying' \cup arrived' \/ (quit # "done" => x \in Back')
<1>1. ASSUME NEW p \in Prompts, TurnStarts(p) PROVE \A x \in Flying : x \in Flying' \cup arrived' \/ (quit # "done" => x \in Back')
  <2>1. UNCHANGED <<jobs, flash>>
    BY <1>1 DEF TurnStarts, Says, task, centrals
  <2>2. Flying' = Flying
    BY <2>1 DEF Flying
  <2> QED BY <2>2
<1>2. ASSUME NEW p \in Prompts, TurnEnds(p) PROVE \A x \in Flying : x \in Flying' \cup arrived' \/ (quit # "done" => x \in Back')
  <2>1. UNCHANGED <<jobs, flash>>
    BY <1>2 DEF TurnEnds, Says, task, centrals
  <2>2. Flying' = Flying
    BY <2>1 DEF Flying
  <2> QED BY <2>2
<1>3. ASSUME NEW p \in Prompts, Watch(p) PROVE \A x \in Flying : x \in Flying' \cup arrived' \/ (quit # "done" => x \in Back')
  <2>1. UNCHANGED <<jobs, flash>>
    BY <1>3 DEF Watch, task, centrals
  <2>2. Flying' = Flying
    BY <2>1 DEF Flying
  <2> QED BY <2>2
<1>4. ASSUME NEW p \in Prompts, WritePrompt(p) PROVE \A x \in Flying : x \in Flying' \cup arrived' \/ (quit # "done" => x \in Back')
  <2>1. UNCHANGED <<jobs, flash>>
    BY <1>4 DEF WritePrompt, task, centrals
  <2>2. Flying' = Flying
    BY <2>1 DEF Flying
  <2> QED BY <2>2
<1>4a. ASSUME NEW p \in Prompts, WriteElsewhere(p) PROVE \A x \in Flying : x \in Flying' \cup arrived' \/ (quit # "done" => x \in Back')
  <2>1. UNCHANGED <<jobs, flash>>
    BY <1>4a DEF WriteElsewhere, task, centrals
  <2>2. Flying' = Flying
    BY <2>1 DEF Flying
  <2> QED BY <2>2
<1>5. ASSUME NEW p \in Prompts, Unwatch(p) PROVE \A x \in Flying : x \in Flying' \cup arrived' \/ (quit # "done" => x \in Back')
  <2>1. UNCHANGED <<jobs, flash>>
    BY <1>5 DEF Unwatch, task, centrals
  <2>2. Flying' = Flying
    BY <2>1 DEF Flying
  <2> QED BY <2>2
<1>6. ASSUME NEW p \in Prompts, StartConversation(p) PROVE \A x \in Flying : x \in Flying' \cup arrived' \/ (quit # "done" => x \in Back')
  <2>1. UNCHANGED <<jobs, flash>>
    BY <1>6 DEF StartConversation, task, centrals
  <2>2. Flying' = Flying
    BY <2>1 DEF Flying
  <2> QED BY <2>2
<1>7. ASSUME NEW p \in Prompts, WatchBegun(p) PROVE \A x \in Flying : x \in Flying' \cup arrived' \/ (quit # "done" => x \in Back')
  <2>1. UNCHANGED <<jobs, flash>>
    BY <1>7 DEF WatchBegun, WatchBegunFrom, task, centrals
  <2>2. Flying' = Flying
    BY <2>1 DEF Flying
  <2> QED BY <2>2
<1>8. ASSUME NEW c \in Conversations, StopConversation(c) PROVE \A x \in Flying : x \in Flying' \cup arrived' \/ (quit # "done" => x \in Back')
  <2>1. UNCHANGED <<jobs, flash>>
    BY <1>8 DEF StopConversation, task, centrals
  <2>2. Flying' = Flying
    BY <2>1 DEF Flying
  <2> QED BY <2>2
<1>9. CASE BeginPollRound
  <2>1. UNCHANGED <<jobs, flash>>
    BY <1>9 DEF BeginPollRound, task, centrals
  <2>2. Flying' = Flying
    BY <2>1 DEF Flying
  <2> QED BY <2>2
<1>10. ASSUME NEW w \in Prompts, ReadTail(w) PROVE \A x \in Flying : x \in Flying' \cup arrived' \/ (quit # "done" => x \in Back')
  <2>1. UNCHANGED <<jobs, flash>>
    BY <1>10 DEF ReadTail, task, centrals
  <2>2. Flying' = Flying
    BY <2>1 DEF Flying
  <2> QED BY <2>2
<1>11. CASE SpeakNow
  <2>1. UNCHANGED <<jobs, flash>>
    BY <1>11 DEF SpeakNow, task, centrals
  <2>2. Flying' = Flying
    BY <2>1 DEF Flying
  <2> QED BY <2>2
<1>12. CASE HoldBack
  <2>1. UNCHANGED <<jobs, flash>>
    BY <1>12 DEF HoldBack, task, centrals
  <2>2. Flying' = Flying
    BY <2>1 DEF Flying
  <2> QED BY <2>2
<1>13. CASE Later
  <2>1. UNCHANGED <<jobs, flash>>
    BY <1>13 DEF Later, task, centrals
  <2>2. Flying' = Flying
    BY <2>1 DEF Flying
  <2> QED BY <2>2
<1>14. CASE SendNote
  <2>1. via \in Ports /\ <<Note(note[offer])>> \in Seq(Text)
    BY <1>14, Constants, AText, OneText1 DEF SendNote, Offered, PortTypes, PollTypes, WatchTypes, BoxTypes
  <2>2. UNCHANGED <<jobs, flash>> \/ (via \in Ports /\ Sends(via, <<Note(note[offer])>>))
    BY <1>14, <2>1 DEF SendNote, centrals
  <2>3. Flying \subseteq Flying'
    BY <2>1, <2>2, SendCarries DEF Flying
  <2> QED BY <2>3
<1>15. CASE DropWatch
  <2>1. UNCHANGED <<jobs, flash>>
    BY <1>15 DEF DropWatch, task, centrals
  <2>2. Flying' = Flying
    BY <2>1 DEF Flying
  <2> QED BY <2>2
<1>16. ASSUME NEW n \in Ports, Attach(n) PROVE \A x \in Flying : x \in Flying' \cup arrived' \/ (quit # "done" => x \in Back')
  <2>1. UNCHANGED <<jobs, flash>>
    BY <1>16 DEF Attach, PortStep, task
  <2>2. Flying' = Flying
    BY <2>1 DEF Flying
  <2> QED BY <2>2
<1>17. ASSUME NEW n \in Ports, AttachFails(n) PROVE \A x \in Flying : x \in Flying' \cup arrived' \/ (quit # "done" => x \in Back')
  <2>1. UNCHANGED <<jobs, flash>>
    BY <1>17 DEF AttachFails, AttachFailsInto, PortStep, task
  <2>2. Flying' = Flying
    BY <2>1 DEF Flying
  <2> QED BY <2>2
<1>18. ASSUME NEW n \in Ports, Take(n) PROVE \A x \in Flying : x \in Flying' \cup arrived' \/ (quit # "done" => x \in Back')
  <2>1. jobs[n] # <<>> /\ flash[n] = <<>> /\ flash' = [flash EXCEPT ![n] = <<Head(jobs[n])>>] /\ jobs' = [jobs EXCEPT ![n] = Tail(@)]
    BY <1>18 DEF Take
  <2>2. jobs' = [jobs EXCEPT ![n] = jobs'[n]] /\ flash' = [flash EXCEPT ![n] = flash'[n]] /\ jobs'[n] = Tail(jobs[n]) /\ flash'[n] = <<Head(jobs[n])>>
    BY <2>1 DEF TextTypes
  <2>3. ToSet(jobs[n]) = {Head(jobs[n])} \cup ToSet(Tail(jobs[n])) /\ ToSet(flash[n]) = {}
    BY <2>1, FirstElement, Elements DEF TextTypes
  <2>4. ToSet(flash'[n]) = {Head(jobs[n])}
    BY <2>2, OneElement
  <2>5. ToSet(jobs[n]) \cup ToSet(flash[n]) \subseteq ToSet(jobs'[n]) \cup ToSet(flash'[n])
    BY <2>2, <2>3, <2>4
  <2>6. ToSet(jobs[n]) \cup ToSet(flash[n]) \subseteq ToSet(jobs'[n]) \cup ToSet(flash'[n]) \cup {Digest({})}
    BY <2>5
  <2>7. \A x \in Flying : x \in Flying' \/ x \in Digest({}).of
    BY <2>2, <2>6, FlightMoves
  <2> QED BY <2>7 DEF Digest
<1>19. ASSUME NEW n \in Ports, FlashWorks(n) PROVE \A x \in Flying : x \in Flying' \cup arrived' \/ (quit # "done" => x \in Back')
  <2>1. flash[n] # <<>> /\ flash' = [flash EXCEPT ![n] = <<>>] /\ jobs' = jobs
    BY <1>19 DEF FlashWorks
  <2>2. jobs' = [jobs EXCEPT ![n] = jobs'[n]] /\ flash' = [flash EXCEPT ![n] = flash'[n]] /\ jobs'[n] = jobs[n] /\ flash'[n] = <<>>
    BY <2>1 DEF TextTypes
  <2>3. ToSet(flash[n]) = {flash[n][1]}
    BY <2>1, OneElement DEF OneText
  <2>4. ToSet(jobs[n]) \cup ToSet(flash[n]) \subseteq ToSet(jobs'[n]) \cup ToSet(flash'[n]) \cup {flash[n][1]}
    BY <2>2, <2>3
  <2>5. \A x \in Flying : x \in Flying' \/ x \in flash[n][1].of
    BY <2>2, <2>4, FlightMoves
  <2>6. flash[n][1].of \subseteq arrived'
    BY <1>19 DEF FlashWorks
  <2> QED BY <2>5, <2>6
<1>20. ASSUME NEW n \in Ports, FlashFails(n) PROVE \A x \in Flying : x \in Flying' \cup arrived' \/ (quit # "done" => x \in Back')
  <2>1. flash[n] # <<>> /\ flash' = [flash EXCEPT ![n] = <<>>] /\ jobs' = jobs
    BY <1>20 DEF FlashFails
  <2>2. jobs' = [jobs EXCEPT ![n] = jobs'[n]] /\ flash' = [flash EXCEPT ![n] = flash'[n]] /\ jobs'[n] = jobs[n] /\ flash'[n] = <<>>
    BY <2>1 DEF TextTypes
  <2>3. ToSet(flash[n]) = {flash[n][1]}
    BY <2>1, OneElement DEF OneText
  <2>4. ToSet(jobs[n]) \cup ToSet(flash[n]) \subseteq ToSet(jobs'[n]) \cup ToSet(flash'[n]) \cup {flash[n][1]}
    BY <2>2, <2>3
  <2>5. \A x \in Flying : x \in Flying' \/ x \in flash[n][1].of
    BY <2>2, <2>4, FlightMoves
  <2>6. flash[n][1] \in Text /\ <<Failed(flash[n][1])>> \in Seq(Post) /\ ToSet(<<Failed(flash[n][1])>>) = {Failed(flash[n][1])}
    BY <2>1, OneText1, OneElement DEF OneText
  <2>7. quit # "done" => flash[n][1] \in FailedTexts'
    BY <1>20, <2>6, ReturnedTexts DEF FlashFails
  <2> QED BY <2>5, <2>7, FlyingAnswers DEF Back
<1>21. ASSUME NEW n \in Ports, Drain(n) PROVE \A x \in Flying : x \in Flying' \cup arrived' \/ (quit # "done" => x \in Back')
  <2>1. jobs[n] # <<>> /\ jobs' = [jobs EXCEPT ![n] = Tail(@)] /\ flash' = flash /\ Posted(<<Failed(Head(jobs[n]))>>)
    BY <1>21 DEF Drain
  <2>2. jobs' = [jobs EXCEPT ![n] = jobs'[n]] /\ flash' = [flash EXCEPT ![n] = flash'[n]] /\ jobs'[n] = Tail(jobs[n]) /\ flash'[n] = flash[n]
    BY <2>1 DEF TextTypes
  <2>3. ToSet(jobs[n]) = {Head(jobs[n])} \cup ToSet(Tail(jobs[n])) /\ Head(jobs[n]) \in Text
    BY <2>1, FirstElement DEF TextTypes
  <2>4. ToSet(jobs[n]) \cup ToSet(flash[n]) \subseteq ToSet(jobs'[n]) \cup ToSet(flash'[n]) \cup {Head(jobs[n])}
    BY <2>2, <2>3
  <2>5. \A x \in Flying : x \in Flying' \/ x \in Head(jobs[n]).of
    BY <2>2, <2>4, FlightMoves
  <2>6. <<Failed(Head(jobs[n]))>> \in Seq(Post) /\ ToSet(<<Failed(Head(jobs[n]))>>) = {Failed(Head(jobs[n]))}
    BY <2>3, OneText1, OneElement
  <2>7. quit # "done" => Head(jobs[n]) \in FailedTexts'
    BY <2>1, <2>3, <2>6, ReturnedTexts
  <2> QED BY <2>5, <2>7, FlyingAnswers DEF Back
<1>22. ASSUME NEW n \in Ports, ThreadEnds(n) PROVE \A x \in Flying : x \in Flying' \cup arrived' \/ (quit # "done" => x \in Back')
  <2>1. UNCHANGED <<jobs, flash>>
    BY <1>22 DEF ThreadEnds, PortStep, task
  <2>2. Flying' = Flying
    BY <2>1 DEF Flying
  <2> QED BY <2>2
<1>23. ASSUME NEW n \in Ports, Ready(n) PROVE \A x \in Flying : x \in Flying' \cup arrived' \/ (quit # "done" => x \in Back')
  <2>1. UNCHANGED <<jobs, flash>>
    BY <1>23 DEF Ready, PortStep, task
  <2>2. Flying' = Flying
    BY <2>1 DEF Flying
  <2> QED BY <2>2
<1>24. ASSUME NEW n \in Ports, Dies(n) PROVE \A x \in Flying : x \in Flying' \cup arrived' \/ (quit # "done" => x \in Back')
  <2>1. UNCHANGED <<jobs, flash>>
    BY <1>24 DEF Dies, PortStep, task
  <2>2. Flying' = Flying
    BY <2>1 DEF Flying
  <2> QED BY <2>2
<1>25. ASSUME NEW n \in Ports, StartPort(n) PROVE \A x \in Flying : x \in Flying' \cup arrived' \/ (quit # "done" => x \in Back')
  <2>1. UNCHANGED <<jobs, flash>>
    BY <1>25 DEF StartPort, OnWorker
  <2>2. Flying' = Flying
    BY <2>1 DEF Flying
  <2> QED BY <2>2
<1>26. CASE OnReady
  <2>1. pending \in Seq(Text) /\ Head(posts).port \in Ports
    BY <1>26, HeadPost DEF OnReady, TextTypes
  <2>2. UNCHANGED <<jobs, flash>> \/ (port \in Ports /\ Sends(port, pending))
    BY <1>26, <2>1 DEF OnReady, centrals
  <2>3. Flying \subseteq Flying'
    BY <2>1, <2>2, SendCarries DEF Flying
  <2> QED BY <2>3
<1>27. CASE OnFailed
  <2>1. UNCHANGED <<jobs, flash>>
    BY <1>27 DEF OnFailed, OnWorker, centrals
  <2>2. Flying' = Flying
    BY <2>1 DEF Flying
  <2> QED BY <2>2
<1>28. CASE HearReadyEnds
  <2>1. UNCHANGED <<jobs, flash>>
    BY <1>28 DEF HearReadyEnds, OnWorker, centrals
  <2>2. Flying' = Flying
    BY <2>1 DEF Flying
  <2> QED BY <2>2
<1>29. CASE StopPortEnds
  <2>1. stopping \in Ports /\ jobs' = [jobs EXCEPT ![stopping] = <<>>] /\ flash' = flash /\ Posted(Dropped(stopping))
    BY <1>29, Constants DEF StopPortEnds, PortTypes
  <2>2. jobs'[stopping] = <<>> /\ \A m \in Ports : m # stopping => jobs'[m] = jobs[m]
    BY <2>1 DEF TextTypes
  <2>3. Dropped(stopping) \in Seq(Post) /\ ToSet(Dropped(stopping)) = {Failed(t) : t \in ToSet(jobs[stopping])}
    BY <2>1, DroppedTexts
  <2>4. ToSet(jobs[stopping]) \subseteq Text
    BY <2>1, Elements DEF TextTypes
  <2>5. quit # "done" => \A t \in ToSet(jobs[stopping]) : t \in FailedTexts'
    BY <2>1, <2>3, <2>4, ReturnedTexts
  <2>6. SUFFICES ASSUME NEW x \in Flying, quit # "done", x \notin Flying' PROVE x \in Back'
    OBVIOUS
  <2>7. PICK m \in Ports : \E t \in ToSet(jobs[m]) \cup ToSet(flash[m]) : x \in t.of
    BY DEF Flying
  <2>8. PICK t \in ToSet(jobs[m]) \cup ToSet(flash[m]) : x \in t.of
    BY <2>7
  <2>9. x \in Answers
    BY FlyingAnswers
  <2>10. t \notin ToSet(jobs'[m]) \cup ToSet(flash'[m])
    BY <2>6, <2>8, <2>9 DEF Flying
  <2>11. m = stopping /\ t \in ToSet(jobs[stopping])
    BY <2>1, <2>2, <2>8, <2>10
  <2> QED BY <2>5, <2>6, <2>8, <2>9, <2>11 DEF Back
<1>30. CASE HearReady
  <2>1. port \in Ports /\ <<Digest(inbox)>> \in Seq(Text)
    BY <1>30, Constants, AText, OneText1 DEF HearReady, Offered, PortTypes, PollTypes, WatchTypes, BoxTypes
  <2>2. UNCHANGED <<jobs, flash>> \/ (port \in Ports /\ Sends(port, <<Digest(inbox)>>))
    BY <1>30, <2>1 DEF HearReady
  <2>3. Flying \subseteq Flying'
    BY <2>1, <2>2, SendCarries DEF Flying
  <2> QED BY <2>3
<1>31. CASE ClearInbox
  <2>1. UNCHANGED <<jobs, flash>>
    BY <1>31 DEF ClearInbox, OnWorker, task, centrals
  <2>2. Flying' = Flying
    BY <2>1 DEF Flying
  <2> QED BY <2>2
<1>32. CASE StopPort
  <2>1. UNCHANGED <<jobs, flash>>
    BY <1>32 DEF StopPort, OnWorker, centrals
  <2>2. Flying' = Flying
    BY <2>1 DEF Flying
  <2> QED BY <2>2
<1>33. CASE QuitAtRest
  <2>1. UNCHANGED <<jobs, flash>>
    BY <1>33 DEF QuitAtRest, OnWorker, centrals
  <2>2. Flying' = Flying
    BY <2>1 DEF Flying
  <2> QED BY <2>2
<1>34. CASE Quit
  <2>1. UNCHANGED <<jobs, flash>>
    BY <1>34 DEF Quit, OnWorker, centrals
  <2>2. Flying' = Flying
    BY <2>1 DEF Flying
  <2> QED BY <2>2
<1> QED
  BY <1>1, <1>2, <1>3, <1>4, <1>4a, <1>5, <1>6, <1>7, <1>8, <1>9, <1>10, <1>11, <1>12, <1>13, <1>14, <1>15, <1>16, <1>17, <1>18,
     <1>19, <1>20, <1>21, <1>22, <1>23, <1>24, <1>25, <1>26, <1>27, <1>28, <1>29, <1>30, <1>31, <1>32, <1>33, <1>34 DEF
     AnswersNext, ToolStep, WatcherStep, HandOver, ThreadStep, TaskStep

\* What came back waits for the next central, or goes to the inbox again.
LEMMA BackStays ==
  ASSUME TextTypes, PortTypes, OneText, AnswersNext
  PROVE  \A x \in Back : x \in Back' \cup Waiting' \/ (x \in inbox' /\ hearing = {} /\ hearing' = {})
<1>1. ASSUME NEW p \in Prompts, TurnStarts(p) PROVE \A x \in Back : x \in Back' \cup Waiting' \/ (x \in inbox' /\ hearing = {} /\ hearing' = {})
  <2>1. posts' = posts
    BY <1>1 DEF TurnStarts, Says, task, centrals
  <2>2. Back' = Back
    BY <2>1 DEF Back, FailedTexts
  <2> QED BY <2>2
<1>2. ASSUME NEW p \in Prompts, TurnEnds(p) PROVE \A x \in Back : x \in Back' \cup Waiting' \/ (x \in inbox' /\ hearing = {} /\ hearing' = {})
  <2>1. posts' = posts
    BY <1>2 DEF TurnEnds, Says, task, centrals
  <2>2. Back' = Back
    BY <2>1 DEF Back, FailedTexts
  <2> QED BY <2>2
<1>3. ASSUME NEW p \in Prompts, Watch(p) PROVE \A x \in Back : x \in Back' \cup Waiting' \/ (x \in inbox' /\ hearing = {} /\ hearing' = {})
  <2>1. posts' = posts
    BY <1>3 DEF Watch, task, centrals
  <2>2. Back' = Back
    BY <2>1 DEF Back, FailedTexts
  <2> QED BY <2>2
<1>4. ASSUME NEW p \in Prompts, WritePrompt(p) PROVE \A x \in Back : x \in Back' \cup Waiting' \/ (x \in inbox' /\ hearing = {} /\ hearing' = {})
  <2>1. posts' = posts
    BY <1>4 DEF WritePrompt, task, centrals
  <2>2. Back' = Back
    BY <2>1 DEF Back, FailedTexts
  <2> QED BY <2>2
<1>4a. ASSUME NEW p \in Prompts, WriteElsewhere(p) PROVE \A x \in Back : x \in Back' \cup Waiting' \/ (x \in inbox' /\ hearing = {} /\ hearing' = {})
  <2>1. posts' = posts
    BY <1>4a DEF WriteElsewhere, task, centrals
  <2>2. Back' = Back
    BY <2>1 DEF Back, FailedTexts
  <2> QED BY <2>2
<1>5. ASSUME NEW p \in Prompts, Unwatch(p) PROVE \A x \in Back : x \in Back' \cup Waiting' \/ (x \in inbox' /\ hearing = {} /\ hearing' = {})
  <2>1. posts' = posts
    BY <1>5 DEF Unwatch, task, centrals
  <2>2. Back' = Back
    BY <2>1 DEF Back, FailedTexts
  <2> QED BY <2>2
<1>6. ASSUME NEW p \in Prompts, StartConversation(p) PROVE \A x \in Back : x \in Back' \cup Waiting' \/ (x \in inbox' /\ hearing = {} /\ hearing' = {})
  <2>1. posts' = posts
    BY <1>6 DEF StartConversation, task, centrals
  <2>2. Back' = Back
    BY <2>1 DEF Back, FailedTexts
  <2> QED BY <2>2
<1>7. ASSUME NEW p \in Prompts, WatchBegun(p) PROVE \A x \in Back : x \in Back' \cup Waiting' \/ (x \in inbox' /\ hearing = {} /\ hearing' = {})
  <2>1. posts' = posts
    BY <1>7 DEF WatchBegun, WatchBegunFrom, task, centrals
  <2>2. Back' = Back
    BY <2>1 DEF Back, FailedTexts
  <2> QED BY <2>2
<1>8. ASSUME NEW c \in Conversations, StopConversation(c) PROVE \A x \in Back : x \in Back' \cup Waiting' \/ (x \in inbox' /\ hearing = {} /\ hearing' = {})
  <2>1. posts' = posts
    BY <1>8 DEF StopConversation, task, centrals
  <2>2. Back' = Back
    BY <2>1 DEF Back, FailedTexts
  <2> QED BY <2>2
<1>9. CASE BeginPollRound
  <2>1. posts' = posts
    BY <1>9 DEF BeginPollRound, task, centrals
  <2>2. Back' = Back
    BY <2>1 DEF Back, FailedTexts
  <2> QED BY <2>2
<1>10. ASSUME NEW w \in Prompts, ReadTail(w) PROVE \A x \in Back : x \in Back' \cup Waiting' \/ (x \in inbox' /\ hearing = {} /\ hearing' = {})
  <2>1. posts' = posts
    BY <1>10 DEF ReadTail, task, centrals
  <2>2. Back' = Back
    BY <2>1 DEF Back, FailedTexts
  <2> QED BY <2>2
<1>11. CASE SpeakNow
  <2>1. posts' = posts
    BY <1>11 DEF SpeakNow, task, centrals
  <2>2. Back' = Back
    BY <2>1 DEF Back, FailedTexts
  <2> QED BY <2>2
<1>12. CASE HoldBack
  <2>1. posts' = posts
    BY <1>12 DEF HoldBack, task, centrals
  <2>2. Back' = Back
    BY <2>1 DEF Back, FailedTexts
  <2> QED BY <2>2
<1>13. CASE Later
  <2>1. posts' = posts
    BY <1>13 DEF Later, task, centrals
  <2>2. Back' = Back
    BY <2>1 DEF Back, FailedTexts
  <2> QED BY <2>2
<1>14. CASE SendNote
  <2>1. posts' = posts
    BY <1>14 DEF SendNote, task, centrals, Sends
  <2>2. Back' = Back
    BY <2>1 DEF Back, FailedTexts
  <2> QED BY <2>2
<1>15. CASE DropWatch
  <2>1. posts' = posts
    BY <1>15 DEF DropWatch, task, centrals
  <2>2. Back' = Back
    BY <2>1 DEF Back, FailedTexts
  <2> QED BY <2>2
<1>16. ASSUME NEW n \in Ports, Attach(n) PROVE \A x \in Back : x \in Back' \cup Waiting' \/ (x \in inbox' /\ hearing = {} /\ hearing' = {})
  <2>1. posts' = posts
    BY <1>16 DEF Attach, PortStep, task
  <2>2. Back' = Back
    BY <2>1 DEF Back, FailedTexts
  <2> QED BY <2>2
<1>17. ASSUME NEW n \in Ports, AttachFails(n) PROVE \A x \in Back : x \in Back' \cup Waiting' \/ (x \in inbox' /\ hearing = {} /\ hearing' = {})
  <2>1. posts' = posts
    BY <1>17 DEF AttachFails, AttachFailsInto, PortStep, task
  <2>2. Back' = Back
    BY <2>1 DEF Back, FailedTexts
  <2> QED BY <2>2
<1>18. ASSUME NEW n \in Ports, Take(n) PROVE \A x \in Back : x \in Back' \cup Waiting' \/ (x \in inbox' /\ hearing = {} /\ hearing' = {})
  <2>1. posts' = posts
    BY <1>18 DEF Take, PortStep, task
  <2>2. Back' = Back
    BY <2>1 DEF Back, FailedTexts
  <2> QED BY <2>2
<1>19. ASSUME NEW n \in Ports, FlashWorks(n) PROVE \A x \in Back : x \in Back' \cup Waiting' \/ (x \in inbox' /\ hearing = {} /\ hearing' = {})
  <2>1. posts' = posts
    BY <1>19 DEF FlashWorks, PortStep, task
  <2>2. Back' = Back
    BY <2>1 DEF Back, FailedTexts
  <2> QED BY <2>2
<1>20. ASSUME NEW n \in Ports, FlashFails(n) PROVE \A x \in Back : x \in Back' \cup Waiting' \/ (x \in inbox' /\ hearing = {} /\ hearing' = {})
  <2>1. Posted(<<Failed(flash[n][1])>>)
    BY <1>20 DEF FlashFails
  <2>2. <<Failed(flash[n][1])>> \in Seq(Post)
    BY <1>20, OneText1 DEF FlashFails, OneText, TextTypes, PortTypes
  <2>3. FailedTexts \subseteq FailedTexts'
    BY <2>1, <2>2, ReturnedTexts
  <2> QED BY <2>3 DEF Back
<1>21. ASSUME NEW n \in Ports, Drain(n) PROVE \A x \in Back : x \in Back' \cup Waiting' \/ (x \in inbox' /\ hearing = {} /\ hearing' = {})
  <2>1. Posted(<<Failed(Head(jobs[n]))>>)
    BY <1>21 DEF Drain
  <2>2. <<Failed(Head(jobs[n]))>> \in Seq(Post)
    BY <1>21, TakenFrom DEF Drain, OneText, TextTypes, PortTypes
  <2>3. FailedTexts \subseteq FailedTexts'
    BY <2>1, <2>2, ReturnedTexts
  <2> QED BY <2>3 DEF Back
<1>22. ASSUME NEW n \in Ports, ThreadEnds(n) PROVE \A x \in Back : x \in Back' \cup Waiting' \/ (x \in inbox' /\ hearing = {} /\ hearing' = {})
  <2>1. posts' = posts
    BY <1>22 DEF ThreadEnds, PortStep, task
  <2>2. Back' = Back
    BY <2>1 DEF Back, FailedTexts
  <2> QED BY <2>2
<1>23. ASSUME NEW n \in Ports, Ready(n) PROVE \A x \in Back : x \in Back' \cup Waiting' \/ (x \in inbox' /\ hearing = {} /\ hearing' = {})
  <2>1. Posted(<<ReadyPost(n)>>)
    BY <1>23 DEF Ready
  <2>2. <<ReadyPost(n)>> \in Seq(Post)
    BY <1>23, APost DEF Ready, OneText, TextTypes, PortTypes
  <2>3. FailedTexts \subseteq FailedTexts'
    BY <2>1, <2>2, ReturnedTexts
  <2> QED BY <2>3 DEF Back
<1>24. ASSUME NEW n \in Ports, Dies(n) PROVE \A x \in Back : x \in Back' \cup Waiting' \/ (x \in inbox' /\ hearing = {} /\ hearing' = {})
  <2>1. posts' = posts
    BY <1>24 DEF Dies, PortStep, task
  <2>2. Back' = Back
    BY <2>1 DEF Back, FailedTexts
  <2> QED BY <2>2
<1>25. ASSUME NEW n \in Ports, StartPort(n) PROVE \A x \in Back : x \in Back' \cup Waiting' \/ (x \in inbox' /\ hearing = {} /\ hearing' = {})
  <2>1. posts' = posts
    BY <1>25 DEF StartPort, OnWorker
  <2>2. Back' = Back
    BY <2>1 DEF Back, FailedTexts
  <2> QED BY <2>2
<1>26. CASE OnReady
  <2>1. posts # <<>> /\ posts' = Tail(posts) /\ Head(posts).kind = "ready"
    BY <1>26 DEF OnReady
  <2>2. ToSet(posts) = {Head(posts)} \cup ToSet(posts')
    BY <2>1, HeadPost
  <2>3. FailedTexts' = FailedTexts
    BY <2>1, <2>2 DEF FailedTexts
  <2> QED BY <2>3 DEF Back
<1>27. CASE OnFailed
  <2> DEFINE text == Head(posts).text
  <2>1. posts # <<>> /\ posts' = Tail(posts) /\ Head(posts).kind = "failed" /\ hearing = {} /\ hearing' = hearing
    BY <1>27 DEF OnFailed, Unoccupied
  <2>2. ToSet(posts) = {Head(posts)} \cup ToSet(posts') /\ text \in Text
    BY <2>1, HeadPost
  <2>3. FailedTexts \subseteq FailedTexts' \cup {text}
    BY <2>2 DEF FailedTexts
  <2>4. inbox' = inbox \cup text.of \/ pending' = Append(pending, text)
    BY <1>27 DEF OnFailed
  <2>5. CASE inbox' = inbox \cup text.of
    BY <2>1, <2>3, <2>5 DEF Back
  <2>6. CASE pending' = Append(pending, text)
    <3>1. pending \in Seq(Text)
      BY DEF TextTypes
    <3>2. ToSet(pending') = ToSet(pending) \cup {text}
      BY <2>2, <2>6, <3>1, ElementsAppended
    <3> QED BY <2>3, <3>2 DEF Back, Waiting
  <2> QED BY <2>4, <2>5, <2>6
<1>28. CASE HearReadyEnds
  <2>1. posts' = posts
    BY <1>28 DEF HearReadyEnds, OnWorker, centrals
  <2>2. Back' = Back
    BY <2>1 DEF Back, FailedTexts
  <2> QED BY <2>2
<1>29. CASE StopPortEnds
  <2>1. Posted(Dropped(stopping))
    BY <1>29 DEF StopPortEnds
  <2>2. Dropped(stopping) \in Seq(Post)
    BY <1>29, DroppedTexts, Constants DEF StopPortEnds, OneText, TextTypes, PortTypes
  <2>3. FailedTexts \subseteq FailedTexts'
    BY <2>1, <2>2, ReturnedTexts
  <2> QED BY <2>3 DEF Back
<1>30. CASE HearReady
  <2>1. posts' = posts
    BY <1>30 DEF HearReady, OnWorker, Sends
  <2>2. Back' = Back
    BY <2>1 DEF Back, FailedTexts
  <2> QED BY <2>2
<1>31. CASE ClearInbox
  <2>1. posts' = posts
    BY <1>31 DEF ClearInbox, OnWorker, task, centrals
  <2>2. Back' = Back
    BY <2>1 DEF Back, FailedTexts
  <2> QED BY <2>2
<1>32. CASE StopPort
  <2>1. posts' = posts
    BY <1>32 DEF StopPort, OnWorker, centrals
  <2>2. Back' = Back
    BY <2>1 DEF Back, FailedTexts
  <2> QED BY <2>2
<1>33. CASE QuitAtRest
  <2>1. posts' = posts
    BY <1>33 DEF QuitAtRest, OnWorker, centrals
  <2>2. Back' = Back
    BY <2>1 DEF Back, FailedTexts
  <2> QED BY <2>2
<1>34. CASE Quit
  <2>1. posts' = posts
    BY <1>34 DEF Quit, OnWorker, centrals
  <2>2. Back' = Back
    BY <2>1 DEF Back, FailedTexts
  <2> QED BY <2>2
<1> QED
  BY <1>1, <1>2, <1>3, <1>4, <1>4a, <1>5, <1>6, <1>7, <1>8, <1>9, <1>10, <1>11, <1>12, <1>13, <1>14, <1>15, <1>16, <1>17, <1>18,
     <1>19, <1>20, <1>21, <1>22, <1>23, <1>24, <1>25, <1>26, <1>27, <1>28, <1>29, <1>30, <1>31, <1>32, <1>33, <1>34 DEF
     AnswersNext, ToolStep, WatcherStep, HandOver, ThreadStep, TaskStep

\* What waits for the next central goes to it.
LEMMA WaitingStays ==
  ASSUME TextTypes, PortTypes, AnswersNext
  PROVE  \A x \in Waiting : x \in Waiting' \cup Flying' \cup arrived'
<1>1. ASSUME NEW p \in Prompts, TurnStarts(p) PROVE \A x \in Waiting : x \in Waiting' \cup Flying' \cup arrived'
  <2>1. pending' = pending
    BY <1>1 DEF TurnStarts, Says, task, centrals
  <2> QED BY <2>1 DEF Waiting
<1>2. ASSUME NEW p \in Prompts, TurnEnds(p) PROVE \A x \in Waiting : x \in Waiting' \cup Flying' \cup arrived'
  <2>1. pending' = pending
    BY <1>2 DEF TurnEnds, Says, task, centrals
  <2> QED BY <2>1 DEF Waiting
<1>3. ASSUME NEW p \in Prompts, Watch(p) PROVE \A x \in Waiting : x \in Waiting' \cup Flying' \cup arrived'
  <2>1. pending' = pending
    BY <1>3 DEF Watch, task, centrals
  <2> QED BY <2>1 DEF Waiting
<1>4. ASSUME NEW p \in Prompts, WritePrompt(p) PROVE \A x \in Waiting : x \in Waiting' \cup Flying' \cup arrived'
  <2>1. pending' = pending
    BY <1>4 DEF WritePrompt, task, centrals
  <2> QED BY <2>1 DEF Waiting
<1>4a. ASSUME NEW p \in Prompts, WriteElsewhere(p) PROVE \A x \in Waiting : x \in Waiting' \cup Flying' \cup arrived'
  <2>1. pending' = pending
    BY <1>4a DEF WriteElsewhere, task, centrals
  <2> QED BY <2>1 DEF Waiting
<1>5. ASSUME NEW p \in Prompts, Unwatch(p) PROVE \A x \in Waiting : x \in Waiting' \cup Flying' \cup arrived'
  <2>1. pending' = pending
    BY <1>5 DEF Unwatch, task, centrals
  <2> QED BY <2>1 DEF Waiting
<1>6. ASSUME NEW p \in Prompts, StartConversation(p) PROVE \A x \in Waiting : x \in Waiting' \cup Flying' \cup arrived'
  <2>1. pending' = pending
    BY <1>6 DEF StartConversation, task, centrals
  <2> QED BY <2>1 DEF Waiting
<1>7. ASSUME NEW p \in Prompts, WatchBegun(p) PROVE \A x \in Waiting : x \in Waiting' \cup Flying' \cup arrived'
  <2>1. pending' = pending
    BY <1>7 DEF WatchBegun, WatchBegunFrom, task, centrals
  <2> QED BY <2>1 DEF Waiting
<1>8. ASSUME NEW c \in Conversations, StopConversation(c) PROVE \A x \in Waiting : x \in Waiting' \cup Flying' \cup arrived'
  <2>1. pending' = pending
    BY <1>8 DEF StopConversation, task, centrals
  <2> QED BY <2>1 DEF Waiting
<1>9. CASE BeginPollRound
  <2>1. pending' = pending
    BY <1>9 DEF BeginPollRound, task, centrals
  <2> QED BY <2>1 DEF Waiting
<1>10. ASSUME NEW w \in Prompts, ReadTail(w) PROVE \A x \in Waiting : x \in Waiting' \cup Flying' \cup arrived'
  <2>1. pending' = pending
    BY <1>10 DEF ReadTail, task, centrals
  <2> QED BY <2>1 DEF Waiting
<1>11. CASE SpeakNow
  <2>1. pending' = pending
    BY <1>11 DEF SpeakNow, task, centrals
  <2> QED BY <2>1 DEF Waiting
<1>12. CASE HoldBack
  <2>1. pending' = pending
    BY <1>12 DEF HoldBack, task, centrals
  <2> QED BY <2>1 DEF Waiting
<1>13. CASE Later
  <2>1. pending' = pending
    BY <1>13 DEF Later, task, centrals
  <2> QED BY <2>1 DEF Waiting
<1>14. CASE SendNote
  <2>1. pending' = pending
    BY <1>14 DEF SendNote, task, centrals, Sends
  <2> QED BY <2>1 DEF Waiting
<1>15. CASE DropWatch
  <2>1. pending' = pending
    BY <1>15 DEF DropWatch, task, centrals
  <2> QED BY <2>1 DEF Waiting
<1>16. ASSUME NEW n \in Ports, Attach(n) PROVE \A x \in Waiting : x \in Waiting' \cup Flying' \cup arrived'
  <2>1. pending' = pending
    BY <1>16 DEF Attach, PortStep, task
  <2> QED BY <2>1 DEF Waiting
<1>17. ASSUME NEW n \in Ports, AttachFails(n) PROVE \A x \in Waiting : x \in Waiting' \cup Flying' \cup arrived'
  <2>1. pending' = pending
    BY <1>17 DEF AttachFails, AttachFailsInto, PortStep, task
  <2> QED BY <2>1 DEF Waiting
<1>18. ASSUME NEW n \in Ports, Take(n) PROVE \A x \in Waiting : x \in Waiting' \cup Flying' \cup arrived'
  <2>1. pending' = pending
    BY <1>18 DEF Take, PortStep, task
  <2> QED BY <2>1 DEF Waiting
<1>19. ASSUME NEW n \in Ports, FlashWorks(n) PROVE \A x \in Waiting : x \in Waiting' \cup Flying' \cup arrived'
  <2>1. pending' = pending
    BY <1>19 DEF FlashWorks, PortStep, task
  <2> QED BY <2>1 DEF Waiting
<1>20. ASSUME NEW n \in Ports, FlashFails(n) PROVE \A x \in Waiting : x \in Waiting' \cup Flying' \cup arrived'
  <2>1. pending' = pending
    BY <1>20 DEF FlashFails, PortStep, task
  <2> QED BY <2>1 DEF Waiting
<1>21. ASSUME NEW n \in Ports, Drain(n) PROVE \A x \in Waiting : x \in Waiting' \cup Flying' \cup arrived'
  <2>1. pending' = pending
    BY <1>21 DEF Drain, PortStep, task
  <2> QED BY <2>1 DEF Waiting
<1>22. ASSUME NEW n \in Ports, ThreadEnds(n) PROVE \A x \in Waiting : x \in Waiting' \cup Flying' \cup arrived'
  <2>1. pending' = pending
    BY <1>22 DEF ThreadEnds, PortStep, task
  <2> QED BY <2>1 DEF Waiting
<1>23. ASSUME NEW n \in Ports, Ready(n) PROVE \A x \in Waiting : x \in Waiting' \cup Flying' \cup arrived'
  <2>1. pending' = pending
    BY <1>23 DEF Ready, PortStep, task
  <2> QED BY <2>1 DEF Waiting
<1>24. ASSUME NEW n \in Ports, Dies(n) PROVE \A x \in Waiting : x \in Waiting' \cup Flying' \cup arrived'
  <2>1. pending' = pending
    BY <1>24 DEF Dies, PortStep, task
  <2> QED BY <2>1 DEF Waiting
<1>25. ASSUME NEW n \in Ports, StartPort(n) PROVE \A x \in Waiting : x \in Waiting' \cup Flying' \cup arrived'
  <2>1. pending' = pending
    BY <1>25 DEF StartPort, OnWorker
  <2> QED BY <2>1 DEF Waiting
<1>26. CASE OnReady
  <2>1. pending \in Seq(Text) /\ Head(posts).port \in Ports
    BY <1>26, HeadPost DEF OnReady, TextTypes
  <2>2. pending' = pending \/ (port \in Ports /\ Sends(port, pending))
    BY <1>26, <2>1 DEF OnReady
  <2>3. CASE pending' = pending
    BY <2>3 DEF Waiting
  <2>4. CASE port \in Ports /\ Sends(port, pending)
    <3>1. \A x \in Answers : \A t \in ToSet(pending) : x \in t.of => x \in arrived' \cup Flying'
      BY <2>1, <2>4, SendCarries
    <3> QED BY <3>1 DEF Waiting
  <2> QED BY <2>2, <2>3, <2>4
<1>27. CASE OnFailed
  <2>1. pending' = pending \/ pending' = Append(pending, Head(posts).text)
    BY <1>27 DEF OnFailed
  <2>2. Head(posts).text \in Text
    BY <1>27, HeadPost DEF OnFailed
  <2>3. pending \in Seq(Text)
    BY DEF TextTypes
  <2>4. ToSet(pending) \subseteq ToSet(pending')
    <3>1. ToSet(Append(pending, Head(posts).text)) = ToSet(pending) \cup {Head(posts).text}
      BY <2>2, <2>3, ElementsAppended, Zenon
    <3> QED BY <2>1, <3>1
  <2> QED BY <2>4 DEF Waiting
<1>28. CASE HearReadyEnds
  <2>1. pending' = pending
    BY <1>28 DEF HearReadyEnds, OnWorker, centrals
  <2> QED BY <2>1 DEF Waiting
<1>29. CASE StopPortEnds
  <2>1. pending' = pending
    BY <1>29 DEF StopPortEnds, OnWorker
  <2> QED BY <2>1 DEF Waiting
<1>30. CASE HearReady
  <2>1. pending' = pending
    BY <1>30 DEF HearReady, OnWorker, Sends
  <2> QED BY <2>1 DEF Waiting
<1>31. CASE ClearInbox
  <2>1. pending' = pending
    BY <1>31 DEF ClearInbox, OnWorker, task, centrals
  <2> QED BY <2>1 DEF Waiting
<1>32. CASE StopPort
  <2>1. pending' = pending
    BY <1>32 DEF StopPort, OnWorker, centrals
  <2> QED BY <2>1 DEF Waiting
<1>33. CASE QuitAtRest
  <2>1. pending' = pending
    BY <1>33 DEF QuitAtRest, OnWorker, centrals
  <2> QED BY <2>1 DEF Waiting
<1>34. CASE Quit
  <2>1. pending' = pending
    BY <1>34 DEF Quit, OnWorker, centrals
  <2> QED BY <2>1 DEF Waiting
<1> QED
  BY <1>1, <1>2, <1>3, <1>4, <1>4a, <1>5, <1>6, <1>7, <1>8, <1>9, <1>10, <1>11, <1>12, <1>13, <1>14, <1>15, <1>16, <1>17, <1>18,
     <1>19, <1>20, <1>21, <1>22, <1>23, <1>24, <1>25, <1>26, <1>27, <1>28, <1>29, <1>30, <1>31, <1>32, <1>33, <1>34 DEF
     AnswersNext, ToolStep, WatcherStep, HandOver, ThreadStep, TaskStep

\* What arrived is not taken back.
LEMMA ArrivedStays ==
  ASSUME AnswersNext
  PROVE  arrived \subseteq arrived'
<1>1. ASSUME NEW p \in Prompts, TurnStarts(p) PROVE arrived \subseteq arrived'
  BY <1>1 DEF TurnStarts, Says, task, centrals
<1>2. ASSUME NEW p \in Prompts, TurnEnds(p) PROVE arrived \subseteq arrived'
  BY <1>2 DEF TurnEnds, Says, PortStep, OnWorker, task, centrals, Sends
<1>3. ASSUME NEW p \in Prompts, Watch(p) PROVE arrived \subseteq arrived'
  BY <1>3 DEF Watch, Says, PortStep, OnWorker, task, centrals, Sends
<1>4. ASSUME NEW p \in Prompts, WritePrompt(p) PROVE arrived \subseteq arrived'
  BY <1>4 DEF WritePrompt, Says, PortStep, OnWorker, task, centrals, Sends
<1>4a. ASSUME NEW p \in Prompts, WriteElsewhere(p) PROVE arrived \subseteq arrived'
  BY <1>4a DEF WriteElsewhere, Says, PortStep, OnWorker, task, centrals, Sends
<1>5. ASSUME NEW p \in Prompts, Unwatch(p) PROVE arrived \subseteq arrived'
  BY <1>5 DEF Unwatch, Says, PortStep, OnWorker, task, centrals, Sends
<1>6. ASSUME NEW p \in Prompts, StartConversation(p) PROVE arrived \subseteq arrived'
  BY <1>6 DEF StartConversation, Says, PortStep, OnWorker, task, centrals, Sends
<1>7. ASSUME NEW p \in Prompts, WatchBegun(p) PROVE arrived \subseteq arrived'
  BY <1>7 DEF WatchBegun, WatchBegunFrom, Says, PortStep, OnWorker, task, centrals, Sends
<1>8. ASSUME NEW c \in Conversations, StopConversation(c) PROVE arrived \subseteq arrived'
  BY <1>8 DEF StopConversation, Says, PortStep, OnWorker, task, centrals, Sends
<1>9. CASE BeginPollRound
  BY <1>9 DEF BeginPollRound, Says, PortStep, OnWorker, task, centrals, Sends
<1>10. ASSUME NEW w \in Prompts, ReadTail(w) PROVE arrived \subseteq arrived'
  BY <1>10 DEF ReadTail, Says, PortStep, OnWorker, task, centrals, Sends
<1>11. CASE SpeakNow
  BY <1>11 DEF SpeakNow, Says, PortStep, OnWorker, task, centrals, Sends
<1>12. CASE HoldBack
  BY <1>12 DEF HoldBack, Says, PortStep, OnWorker, task, centrals, Sends
<1>13. CASE Later
  BY <1>13 DEF Later, Says, PortStep, OnWorker, task, centrals, Sends
<1>14. CASE SendNote
  BY <1>14 DEF SendNote, Says, PortStep, OnWorker, task, centrals, Sends
<1>15. CASE DropWatch
  BY <1>15 DEF DropWatch, Says, PortStep, OnWorker, task, centrals, Sends
<1>16. ASSUME NEW n \in Ports, Attach(n) PROVE arrived \subseteq arrived'
  BY <1>16 DEF Attach, Says, PortStep, OnWorker, task, centrals, Sends
<1>17. ASSUME NEW n \in Ports, AttachFails(n) PROVE arrived \subseteq arrived'
  BY <1>17 DEF AttachFails, AttachFailsInto, Says, PortStep, OnWorker, task, centrals, Sends
<1>18. ASSUME NEW n \in Ports, Take(n) PROVE arrived \subseteq arrived'
  BY <1>18 DEF Take, Says, PortStep, OnWorker, task, centrals, Sends
<1>19. ASSUME NEW n \in Ports, FlashWorks(n) PROVE arrived \subseteq arrived'
  BY <1>19 DEF FlashWorks, Says, PortStep, OnWorker, task, centrals, Sends
<1>20. ASSUME NEW n \in Ports, FlashFails(n) PROVE arrived \subseteq arrived'
  BY <1>20 DEF FlashFails, Says, PortStep, OnWorker, task, centrals, Sends
<1>21. ASSUME NEW n \in Ports, Drain(n) PROVE arrived \subseteq arrived'
  BY <1>21 DEF Drain, Says, PortStep, OnWorker, task, centrals, Sends
<1>22. ASSUME NEW n \in Ports, ThreadEnds(n) PROVE arrived \subseteq arrived'
  BY <1>22 DEF ThreadEnds, Says, PortStep, OnWorker, task, centrals, Sends
<1>23. ASSUME NEW n \in Ports, Ready(n) PROVE arrived \subseteq arrived'
  BY <1>23 DEF Ready, Says, PortStep, OnWorker, task, centrals, Sends
<1>24. ASSUME NEW n \in Ports, Dies(n) PROVE arrived \subseteq arrived'
  BY <1>24 DEF Dies, Says, PortStep, OnWorker, task, centrals, Sends
<1>25. ASSUME NEW n \in Ports, StartPort(n) PROVE arrived \subseteq arrived'
  BY <1>25 DEF StartPort, Says, PortStep, OnWorker, task, centrals, Sends
<1>26. CASE OnReady
  BY <1>26 DEF OnReady, Says, PortStep, OnWorker, task, centrals, Sends
<1>27. CASE OnFailed
  BY <1>27 DEF OnFailed, Says, PortStep, OnWorker, task, centrals, Sends
<1>28. CASE HearReadyEnds
  BY <1>28 DEF HearReadyEnds, Says, PortStep, OnWorker, task, centrals, Sends
<1>29. CASE StopPortEnds
  BY <1>29 DEF StopPortEnds, Says, PortStep, OnWorker, task, centrals, Sends
<1>30. CASE HearReady
  BY <1>30 DEF HearReady, Says, PortStep, OnWorker, task, centrals, Sends
<1>31. CASE ClearInbox
  BY <1>31 DEF ClearInbox, Says, PortStep, OnWorker, task, centrals, Sends
<1>32. CASE StopPort
  BY <1>32 DEF StopPort, Says, PortStep, OnWorker, task, centrals, Sends
<1>33. CASE QuitAtRest
  BY <1>33 DEF QuitAtRest, Says, PortStep, OnWorker, task, centrals, Sends
<1>34. CASE Quit
  BY <1>34 DEF Quit, Says, PortStep, OnWorker, task, centrals, Sends
<1> QED
  BY <1>1, <1>2, <1>3, <1>4, <1>4a, <1>5, <1>6, <1>7, <1>8, <1>9, <1>10, <1>11, <1>12, <1>13, <1>14, <1>15, <1>16, <1>17, <1>18,
     <1>19, <1>20, <1>21, <1>22, <1>23, <1>24, <1>25, <1>26, <1>27, <1>28, <1>29, <1>30, <1>31, <1>32, <1>33, <1>34 DEF
     AnswersNext, ToolStep, WatcherStep, HandOver, ThreadStep, TaskStep

\* What is in the inbox stays there until it is cleared or heard; what is heard is sent first.
LEMMA InboxStays ==
  ASSUME TextTypes, BoxTypes, PortTypes, AnswersNext
  PROVE  inbox \subseteq inbox' \cup forgiven' \cup hearing /\ (hearing' = hearing \/ hearing' = {} \/ (port # 0 /\ hearing' \subseteq arrived' \cup Flying'))
<1>1. ASSUME NEW p \in Prompts, TurnStarts(p) PROVE inbox \subseteq inbox' \cup forgiven' \cup hearing /\ (hearing' = hearing \/ hearing' = {} \/ (port # 0 /\ hearing' \subseteq arrived' \cup Flying'))
  <2>1. inbox \subseteq inbox' /\ hearing' = hearing
    BY <1>1 DEF TurnStarts, Says, task, centrals
  <2> QED BY <2>1
<1>2. ASSUME NEW p \in Prompts, TurnEnds(p) PROVE inbox \subseteq inbox' \cup forgiven' \cup hearing /\ (hearing' = hearing \/ hearing' = {} \/ (port # 0 /\ hearing' \subseteq arrived' \cup Flying'))
  <2>1. inbox \subseteq inbox' /\ hearing' = hearing
    BY <1>2 DEF TurnEnds, Says, task, centrals
  <2> QED BY <2>1
<1>3. ASSUME NEW p \in Prompts, Watch(p) PROVE inbox \subseteq inbox' \cup forgiven' \cup hearing /\ (hearing' = hearing \/ hearing' = {} \/ (port # 0 /\ hearing' \subseteq arrived' \cup Flying'))
  <2>1. inbox \subseteq inbox' /\ hearing' = hearing
    BY <1>3 DEF Watch, task, centrals
  <2> QED BY <2>1
<1>4. ASSUME NEW p \in Prompts, WritePrompt(p) PROVE inbox \subseteq inbox' \cup forgiven' \cup hearing /\ (hearing' = hearing \/ hearing' = {} \/ (port # 0 /\ hearing' \subseteq arrived' \cup Flying'))
  <2>1. inbox \subseteq inbox' /\ hearing' = hearing
    BY <1>4 DEF WritePrompt, task, centrals
  <2> QED BY <2>1
<1>4a. ASSUME NEW p \in Prompts, WriteElsewhere(p) PROVE inbox \subseteq inbox' \cup forgiven' \cup hearing /\ (hearing' = hearing \/ hearing' = {} \/ (port # 0 /\ hearing' \subseteq arrived' \cup Flying'))
  <2>1. inbox \subseteq inbox' /\ hearing' = hearing
    BY <1>4a DEF WriteElsewhere, task, centrals
  <2> QED BY <2>1
<1>5. ASSUME NEW p \in Prompts, Unwatch(p) PROVE inbox \subseteq inbox' \cup forgiven' \cup hearing /\ (hearing' = hearing \/ hearing' = {} \/ (port # 0 /\ hearing' \subseteq arrived' \cup Flying'))
  <2>1. inbox \subseteq inbox' /\ hearing' = hearing
    BY <1>5 DEF Unwatch, task, centrals
  <2> QED BY <2>1
<1>6. ASSUME NEW p \in Prompts, StartConversation(p) PROVE inbox \subseteq inbox' \cup forgiven' \cup hearing /\ (hearing' = hearing \/ hearing' = {} \/ (port # 0 /\ hearing' \subseteq arrived' \cup Flying'))
  <2>1. inbox \subseteq inbox' /\ hearing' = hearing
    BY <1>6 DEF StartConversation, task, centrals
  <2> QED BY <2>1
<1>7. ASSUME NEW p \in Prompts, WatchBegun(p) PROVE inbox \subseteq inbox' \cup forgiven' \cup hearing /\ (hearing' = hearing \/ hearing' = {} \/ (port # 0 /\ hearing' \subseteq arrived' \cup Flying'))
  <2>1. inbox \subseteq inbox' /\ hearing' = hearing
    BY <1>7 DEF WatchBegun, WatchBegunFrom, task, centrals
  <2> QED BY <2>1
<1>8. ASSUME NEW c \in Conversations, StopConversation(c) PROVE inbox \subseteq inbox' \cup forgiven' \cup hearing /\ (hearing' = hearing \/ hearing' = {} \/ (port # 0 /\ hearing' \subseteq arrived' \cup Flying'))
  <2>1. inbox \subseteq inbox' /\ hearing' = hearing
    BY <1>8 DEF StopConversation, task, centrals
  <2> QED BY <2>1
<1>9. CASE BeginPollRound
  <2>1. inbox \subseteq inbox' /\ hearing' = hearing
    BY <1>9 DEF BeginPollRound, task, centrals
  <2> QED BY <2>1
<1>10. ASSUME NEW w \in Prompts, ReadTail(w) PROVE inbox \subseteq inbox' \cup forgiven' \cup hearing /\ (hearing' = hearing \/ hearing' = {} \/ (port # 0 /\ hearing' \subseteq arrived' \cup Flying'))
  <2>1. inbox \subseteq inbox' /\ hearing' = hearing
    BY <1>10 DEF ReadTail, task, centrals
  <2> QED BY <2>1
<1>11. CASE SpeakNow
  <2>1. inbox \subseteq inbox' /\ hearing' = hearing
    BY <1>11 DEF SpeakNow, task, centrals
  <2> QED BY <2>1
<1>12. CASE HoldBack
  <2>1. inbox \subseteq inbox' /\ hearing' = hearing
    BY <1>12 DEF HoldBack, task, centrals
  <2> QED BY <2>1
<1>13. CASE Later
  <2>1. inbox \subseteq inbox' /\ hearing' = hearing
    BY <1>13 DEF Later, task, centrals
  <2> QED BY <2>1
<1>14. CASE SendNote
  <2>1. inbox \subseteq inbox' /\ hearing' = hearing
    BY <1>14 DEF SendNote, task, centrals, Sends
  <2> QED BY <2>1
<1>15. CASE DropWatch
  <2>1. inbox \subseteq inbox' /\ hearing' = hearing
    BY <1>15 DEF DropWatch, task, centrals
  <2> QED BY <2>1
<1>16. ASSUME NEW n \in Ports, Attach(n) PROVE inbox \subseteq inbox' \cup forgiven' \cup hearing /\ (hearing' = hearing \/ hearing' = {} \/ (port # 0 /\ hearing' \subseteq arrived' \cup Flying'))
  <2>1. inbox \subseteq inbox' /\ hearing' = hearing
    BY <1>16 DEF Attach, PortStep, task
  <2> QED BY <2>1
<1>17. ASSUME NEW n \in Ports, AttachFails(n) PROVE inbox \subseteq inbox' \cup forgiven' \cup hearing /\ (hearing' = hearing \/ hearing' = {} \/ (port # 0 /\ hearing' \subseteq arrived' \cup Flying'))
  <2>1. inbox \subseteq inbox' /\ hearing' = hearing
    BY <1>17 DEF AttachFails, AttachFailsInto, PortStep, task
  <2> QED BY <2>1
<1>18. ASSUME NEW n \in Ports, Take(n) PROVE inbox \subseteq inbox' \cup forgiven' \cup hearing /\ (hearing' = hearing \/ hearing' = {} \/ (port # 0 /\ hearing' \subseteq arrived' \cup Flying'))
  <2>1. inbox \subseteq inbox' /\ hearing' = hearing
    BY <1>18 DEF Take, PortStep, task
  <2> QED BY <2>1
<1>19. ASSUME NEW n \in Ports, FlashWorks(n) PROVE inbox \subseteq inbox' \cup forgiven' \cup hearing /\ (hearing' = hearing \/ hearing' = {} \/ (port # 0 /\ hearing' \subseteq arrived' \cup Flying'))
  <2>1. inbox \subseteq inbox' /\ hearing' = hearing
    BY <1>19 DEF FlashWorks, PortStep, task
  <2> QED BY <2>1
<1>20. ASSUME NEW n \in Ports, FlashFails(n) PROVE inbox \subseteq inbox' \cup forgiven' \cup hearing /\ (hearing' = hearing \/ hearing' = {} \/ (port # 0 /\ hearing' \subseteq arrived' \cup Flying'))
  <2>1. inbox \subseteq inbox' /\ hearing' = hearing
    BY <1>20 DEF FlashFails, PortStep, task
  <2> QED BY <2>1
<1>21. ASSUME NEW n \in Ports, Drain(n) PROVE inbox \subseteq inbox' \cup forgiven' \cup hearing /\ (hearing' = hearing \/ hearing' = {} \/ (port # 0 /\ hearing' \subseteq arrived' \cup Flying'))
  <2>1. inbox \subseteq inbox' /\ hearing' = hearing
    BY <1>21 DEF Drain, PortStep, task
  <2> QED BY <2>1
<1>22. ASSUME NEW n \in Ports, ThreadEnds(n) PROVE inbox \subseteq inbox' \cup forgiven' \cup hearing /\ (hearing' = hearing \/ hearing' = {} \/ (port # 0 /\ hearing' \subseteq arrived' \cup Flying'))
  <2>1. inbox \subseteq inbox' /\ hearing' = hearing
    BY <1>22 DEF ThreadEnds, PortStep, task
  <2> QED BY <2>1
<1>23. ASSUME NEW n \in Ports, Ready(n) PROVE inbox \subseteq inbox' \cup forgiven' \cup hearing /\ (hearing' = hearing \/ hearing' = {} \/ (port # 0 /\ hearing' \subseteq arrived' \cup Flying'))
  <2>1. inbox \subseteq inbox' /\ hearing' = hearing
    BY <1>23 DEF Ready, PortStep, task
  <2> QED BY <2>1
<1>24. ASSUME NEW n \in Ports, Dies(n) PROVE inbox \subseteq inbox' \cup forgiven' \cup hearing /\ (hearing' = hearing \/ hearing' = {} \/ (port # 0 /\ hearing' \subseteq arrived' \cup Flying'))
  <2>1. inbox \subseteq inbox' /\ hearing' = hearing
    BY <1>24 DEF Dies, PortStep, task
  <2> QED BY <2>1
<1>25. ASSUME NEW n \in Ports, StartPort(n) PROVE inbox \subseteq inbox' \cup forgiven' \cup hearing /\ (hearing' = hearing \/ hearing' = {} \/ (port # 0 /\ hearing' \subseteq arrived' \cup Flying'))
  <2>1. inbox \subseteq inbox' /\ hearing' = hearing
    BY <1>25 DEF StartPort, OnWorker
  <2> QED BY <2>1
<1>26. CASE OnReady
  <2>1. inbox \subseteq inbox' /\ hearing' = hearing
    BY <1>26 DEF OnReady, OnWorker, centrals, Sends
  <2> QED BY <2>1
<1>27. CASE OnFailed
  <2>1. inbox \subseteq inbox' /\ hearing' = hearing
    BY <1>27 DEF OnFailed, OnWorker, centrals
  <2> QED BY <2>1
<1>28. CASE HearReadyEnds
  <2>1. inbox' = inbox \ hearing /\ hearing' = {} /\ hearing # {}
    BY <1>28 DEF HearReadyEnds
  <2> QED BY <2>1
<1>29. CASE StopPortEnds
  <2>1. inbox \subseteq inbox' /\ hearing' = hearing
    BY <1>29 DEF StopPortEnds, OnWorker
  <2> QED BY <2>1
<1>30. CASE HearReady
  <2>1. inbox' = inbox /\ hearing' = inbox /\ hearing = {} /\ quit' = quit /\ port # 0
    BY <1>30 DEF HearReady, Unoccupied
  <2>2. port \in Ports /\ <<Digest(inbox)>> \in Seq(Text) /\ ToSet(<<Digest(inbox)>>) = {Digest(inbox)} /\ Digest(inbox).of = inbox
    BY <2>1, Constants, AText, OneText1, OneElement DEF PortTypes, BoxTypes
  <2>3. \A x \in Answers : \A t \in ToSet(<<Digest(inbox)>>) : x \in t.of => x \in arrived' \cup Flying'
    BY <1>30, <2>2, SendCarries DEF HearReady
  <2>4. inbox \subseteq arrived' \cup Flying'
    BY <2>2, <2>3 DEF BoxTypes
  <2> QED BY <2>1, <2>4
<1>31. CASE ClearInbox
  <2>1. inbox \subseteq forgiven' /\ hearing' = hearing
    BY <1>31 DEF ClearInbox, task
  <2> QED BY <2>1
<1>32. CASE StopPort
  <2>1. inbox \subseteq inbox' /\ hearing' = hearing
    BY <1>32 DEF StopPort, OnWorker, centrals
  <2> QED BY <2>1
<1>33. CASE QuitAtRest
  <2>1. inbox \subseteq inbox' /\ hearing' = hearing
    BY <1>33 DEF QuitAtRest, OnWorker, centrals
  <2> QED BY <2>1
<1>34. CASE Quit
  <2>1. inbox \subseteq inbox' /\ hearing' = hearing
    BY <1>34 DEF Quit, OnWorker, centrals
  <2> QED BY <2>1
<1> QED
  BY <1>1, <1>2, <1>3, <1>4, <1>4a, <1>5, <1>6, <1>7, <1>8, <1>9, <1>10, <1>11, <1>12, <1>13, <1>14, <1>15, <1>16, <1>17, <1>18,
     <1>19, <1>20, <1>21, <1>22, <1>23, <1>24, <1>25, <1>26, <1>27, <1>28, <1>29, <1>30, <1>31, <1>32, <1>33, <1>34 DEF
     AnswersNext, ToolStep, WatcherStep, HandOver, ThreadStep, TaskStep

\* What was given up stays so.
LEMMA ForgivenStays == ASSUME AnswersNext PROVE forgiven \subseteq forgiven'
BY EveryStep, ToolFrame, WatcherFrame, CentralFrame

\* What is on its way stays so, comes back to the inbox, or is settled by Quit.
LEMMA GoingStays ==
  ASSUME WatchTypes, PollTypes, BoxTypes, TextTypes, PortTypes, OneText, Offered, AnswersNext, quit # "done"
  PROVE  \A x \in Going : x \in Going' \/ (x \in inbox' /\ hearing = {} /\ hearing' = {})
<1>1. \A x \in Flying : x \in Flying' \cup arrived' \cup Back'
  BY FlyingStays
<1>2. \A x \in Back : x \in Back' \cup Waiting' \/ (x \in inbox' /\ hearing = {} /\ hearing' = {})
  BY BackStays
<1>3. \A x \in Waiting : x \in Waiting' \cup Flying' \cup arrived'
  BY WaitingStays
<1>4. arrived \subseteq arrived' /\ forgiven \subseteq forgiven'
  BY ArrivedStays, ForgivenStays
<1> QED BY <1>1, <1>2, <1>3, <1>4 DEF Going

\* A step keeps what the worker sends on its way until it removes it from the inbox.
LEMMA SendingKept ==
  ASSUME WatchTypes, PollTypes, BoxTypes, TextTypes, PortTypes, OneText, Offered, Resting, Sending, AnswersNext
  PROVE  Sending'
<1>1. hearing' = hearing \/ hearing' = {} \/ (port # 0 /\ hearing' \subseteq arrived' \cup Flying')
  BY InboxStays
<1>2. CASE hearing' = hearing /\ hearing # {}
  <2>1. quit # "done"
    BY <1>2 DEF Resting
  <2>2. \A x \in Going : x \in Going'
    BY <1>2, <2>1, GoingStays
  <2> QED BY <1>2, <2>2 DEF Sending
<1>3. CASE hearing' = {}
  BY <1>3 DEF Sending
<1>4. CASE hearing' \subseteq arrived' \cup Flying'
  BY <1>4 DEF Sending, Going
<1> QED BY <1>1, <1>2, <1>3, <1>4

\* Once Quit is asked there is no central, and nothing is being heard.
LEMMA NoneAfterQuit ==
  ASSUME Resting, AnswersNext
  PROVE  quit' # "no" => port' = 0 /\ hearing' = {}
<1>1. ASSUME NEW p \in Prompts, TurnStarts(p) PROVE quit' # "no" => port' = 0 /\ hearing' = {}
  <2>1. UNCHANGED <<port, hearing, quit>>
    BY <1>1 DEF TurnStarts, Says, task, centrals
  <2> QED BY <2>1 DEF Resting
<1>2. ASSUME NEW p \in Prompts, TurnEnds(p) PROVE quit' # "no" => port' = 0 /\ hearing' = {}
  <2>1. UNCHANGED <<port, hearing, quit>>
    BY <1>2 DEF TurnEnds, Says, task, centrals
  <2> QED BY <2>1 DEF Resting
<1>3. ASSUME NEW p \in Prompts, Watch(p) PROVE quit' # "no" => port' = 0 /\ hearing' = {}
  <2>1. UNCHANGED <<port, hearing, quit>>
    BY <1>3 DEF Watch, task, centrals
  <2> QED BY <2>1 DEF Resting
<1>4. ASSUME NEW p \in Prompts, WritePrompt(p) PROVE quit' # "no" => port' = 0 /\ hearing' = {}
  <2>1. UNCHANGED <<port, hearing, quit>>
    BY <1>4 DEF WritePrompt, task, centrals
  <2> QED BY <2>1 DEF Resting
<1>4a. ASSUME NEW p \in Prompts, WriteElsewhere(p) PROVE quit' # "no" => port' = 0 /\ hearing' = {}
  <2>1. UNCHANGED <<port, hearing, quit>>
    BY <1>4a DEF WriteElsewhere, task, centrals
  <2> QED BY <2>1 DEF Resting
<1>5. ASSUME NEW p \in Prompts, Unwatch(p) PROVE quit' # "no" => port' = 0 /\ hearing' = {}
  <2>1. UNCHANGED <<port, hearing, quit>>
    BY <1>5 DEF Unwatch, task, centrals
  <2> QED BY <2>1 DEF Resting
<1>6. ASSUME NEW p \in Prompts, StartConversation(p) PROVE quit' # "no" => port' = 0 /\ hearing' = {}
  <2>1. UNCHANGED <<port, hearing, quit>>
    BY <1>6 DEF StartConversation, task, centrals
  <2> QED BY <2>1 DEF Resting
<1>7. ASSUME NEW p \in Prompts, WatchBegun(p) PROVE quit' # "no" => port' = 0 /\ hearing' = {}
  <2>1. UNCHANGED <<port, hearing, quit>>
    BY <1>7 DEF WatchBegun, WatchBegunFrom, task, centrals
  <2> QED BY <2>1 DEF Resting
<1>8. ASSUME NEW c \in Conversations, StopConversation(c) PROVE quit' # "no" => port' = 0 /\ hearing' = {}
  <2>1. UNCHANGED <<port, hearing, quit>>
    BY <1>8 DEF StopConversation, task, centrals
  <2> QED BY <2>1 DEF Resting
<1>9. CASE BeginPollRound
  <2>1. UNCHANGED <<port, hearing, quit>>
    BY <1>9 DEF BeginPollRound, task, centrals
  <2> QED BY <2>1 DEF Resting
<1>10. ASSUME NEW w \in Prompts, ReadTail(w) PROVE quit' # "no" => port' = 0 /\ hearing' = {}
  <2>1. UNCHANGED <<port, hearing, quit>>
    BY <1>10 DEF ReadTail, task, centrals
  <2> QED BY <2>1 DEF Resting
<1>11. CASE SpeakNow
  <2>1. UNCHANGED <<port, hearing, quit>>
    BY <1>11 DEF SpeakNow, task, centrals
  <2> QED BY <2>1 DEF Resting
<1>12. CASE HoldBack
  <2>1. UNCHANGED <<port, hearing, quit>>
    BY <1>12 DEF HoldBack, task, centrals
  <2> QED BY <2>1 DEF Resting
<1>13. CASE Later
  <2>1. UNCHANGED <<port, hearing, quit>>
    BY <1>13 DEF Later, task, centrals
  <2> QED BY <2>1 DEF Resting
<1>14. CASE SendNote
  <2>1. UNCHANGED <<port, hearing, quit>>
    BY <1>14 DEF SendNote, task, centrals, Sends
  <2> QED BY <2>1 DEF Resting
<1>15. CASE DropWatch
  <2>1. UNCHANGED <<port, hearing, quit>>
    BY <1>15 DEF DropWatch, task, centrals
  <2> QED BY <2>1 DEF Resting
<1>16. ASSUME NEW n \in Ports, Attach(n) PROVE quit' # "no" => port' = 0 /\ hearing' = {}
  <2>1. UNCHANGED <<port, hearing, quit>>
    BY <1>16 DEF Attach, PortStep, task
  <2> QED BY <2>1 DEF Resting
<1>17. ASSUME NEW n \in Ports, AttachFails(n) PROVE quit' # "no" => port' = 0 /\ hearing' = {}
  <2>1. UNCHANGED <<port, hearing, quit>>
    BY <1>17 DEF AttachFails, AttachFailsInto, PortStep, task
  <2> QED BY <2>1 DEF Resting
<1>18. ASSUME NEW n \in Ports, Take(n) PROVE quit' # "no" => port' = 0 /\ hearing' = {}
  <2>1. UNCHANGED <<port, hearing, quit>>
    BY <1>18 DEF Take, PortStep, task
  <2> QED BY <2>1 DEF Resting
<1>19. ASSUME NEW n \in Ports, FlashWorks(n) PROVE quit' # "no" => port' = 0 /\ hearing' = {}
  <2>1. UNCHANGED <<port, hearing, quit>>
    BY <1>19 DEF FlashWorks, PortStep, task
  <2> QED BY <2>1 DEF Resting
<1>20. ASSUME NEW n \in Ports, FlashFails(n) PROVE quit' # "no" => port' = 0 /\ hearing' = {}
  <2>1. UNCHANGED <<port, hearing, quit>>
    BY <1>20 DEF FlashFails, PortStep, task
  <2> QED BY <2>1 DEF Resting
<1>21. ASSUME NEW n \in Ports, Drain(n) PROVE quit' # "no" => port' = 0 /\ hearing' = {}
  <2>1. UNCHANGED <<port, hearing, quit>>
    BY <1>21 DEF Drain, PortStep, task
  <2> QED BY <2>1 DEF Resting
<1>22. ASSUME NEW n \in Ports, ThreadEnds(n) PROVE quit' # "no" => port' = 0 /\ hearing' = {}
  <2>1. UNCHANGED <<port, hearing, quit>>
    BY <1>22 DEF ThreadEnds, PortStep, task
  <2> QED BY <2>1 DEF Resting
<1>23. ASSUME NEW n \in Ports, Ready(n) PROVE quit' # "no" => port' = 0 /\ hearing' = {}
  <2>1. UNCHANGED <<port, hearing, quit>>
    BY <1>23 DEF Ready, PortStep, task
  <2> QED BY <2>1 DEF Resting
<1>24. ASSUME NEW n \in Ports, Dies(n) PROVE quit' # "no" => port' = 0 /\ hearing' = {}
  <2>1. UNCHANGED <<port, hearing, quit>>
    BY <1>24 DEF Dies, PortStep, task
  <2> QED BY <2>1 DEF Resting
<1>25. ASSUME NEW n \in Ports, StartPort(n) PROVE quit' # "no" => port' = 0 /\ hearing' = {}
  <2>1. quit = "no" /\ quit' = quit
    BY <1>25 DEF StartPort
  <2> QED BY <2>1
<1>26. CASE OnReady
  <2>1. UNCHANGED <<port, hearing, quit>>
    BY <1>26 DEF OnReady, OnWorker, centrals, Sends
  <2> QED BY <2>1 DEF Resting
<1>27. CASE OnFailed
  <2>1. UNCHANGED <<port, hearing, quit>>
    BY <1>27 DEF OnFailed, OnWorker, centrals
  <2> QED BY <2>1 DEF Resting
<1>28. CASE HearReadyEnds
  <2>1. hearing' = {} /\ UNCHANGED <<port, quit>>
    BY <1>28 DEF HearReadyEnds
  <2> QED BY <2>1 DEF Resting
<1>29. CASE StopPortEnds
  <2>1. UNCHANGED <<port, hearing, quit>>
    BY <1>29 DEF StopPortEnds, OnWorker
  <2> QED BY <2>1 DEF Resting
<1>30. CASE HearReady
  <2>1. port # 0 /\ quit' = quit
    BY <1>30 DEF HearReady
  <2> QED BY <2>1 DEF Resting
<1>31. CASE ClearInbox
  <2>1. UNCHANGED <<port, hearing, quit>>
    BY <1>31 DEF ClearInbox, OnWorker, task, centrals
  <2> QED BY <2>1 DEF Resting
<1>32. CASE StopPort
  <2>1. port' = 0 /\ hearing' = {}
    BY <1>32 DEF StopPort, Unoccupied
  <2> QED BY <2>1
<1>33. CASE QuitAtRest
  <2>1. port' = 0 /\ hearing' = {}
    BY <1>33 DEF QuitAtRest, Unoccupied
  <2> QED BY <2>1
<1>34. CASE Quit
  <2>1. quit = "asked" /\ UNCHANGED <<port, hearing>>
    BY <1>34 DEF Quit
  <2> QED BY <2>1 DEF Resting
<1> QED
  BY <1>1, <1>2, <1>3, <1>4, <1>4a, <1>5, <1>6, <1>7, <1>8, <1>9, <1>10, <1>11, <1>12, <1>13, <1>14, <1>15, <1>16, <1>17, <1>18,
     <1>19, <1>20, <1>21, <1>22, <1>23, <1>24, <1>25, <1>26, <1>27, <1>28, <1>29, <1>30, <1>31, <1>32, <1>33, <1>34 DEF
     AnswersNext, ToolStep, WatcherStep, HandOver, ThreadStep, TaskStep

\* An answer Quit has not given up: in the inbox, or in a failed digest that is remembered.
Remembered(x) == x \in forgiven \cup inbox \/ \E t \in FailedTexts : Kept(t) /\ x \in t.of

\* After Quit nothing else is given up.
LEMMA RememberedStays ==
  ASSUME TextTypes, BoxTypes, PortTypes, Resting, quit = "done", AnswersNext
  PROVE  \A x \in Answers : Remembered(x) => Remembered(x)'
<1>1. ASSUME NEW p \in Prompts, TurnStarts(p) PROVE \A x \in Answers : Remembered(x) => Remembered(x)'
  <2>1. UNCHANGED <<posts, digests>> /\ inbox \subseteq inbox' /\ forgiven \subseteq forgiven'
    BY <1>1 DEF TurnStarts, Says, task
  <2> QED BY <2>1 DEF Remembered, FailedTexts, Kept
<1>2. ASSUME NEW p \in Prompts, TurnEnds(p) PROVE \A x \in Answers : Remembered(x) => Remembered(x)'
  <2>1. UNCHANGED <<posts, digests>> /\ inbox \subseteq inbox' /\ forgiven \subseteq forgiven'
    BY <1>2 DEF TurnEnds, Says, task
  <2> QED BY <2>1 DEF Remembered, FailedTexts, Kept
<1>3. ASSUME NEW p \in Prompts, Watch(p) PROVE \A x \in Answers : Remembered(x) => Remembered(x)'
  <2>1. UNCHANGED <<posts, digests>> /\ inbox \subseteq inbox' /\ forgiven \subseteq forgiven'
    BY <1>3 DEF Watch, Registers, task
  <2> QED BY <2>1 DEF Remembered, FailedTexts, Kept
<1>4. ASSUME NEW p \in Prompts, WritePrompt(p) PROVE \A x \in Answers : Remembered(x) => Remembered(x)'
  <2>1. UNCHANGED <<posts, digests>> /\ inbox \subseteq inbox' /\ forgiven \subseteq forgiven'
    BY <1>4 DEF WritePrompt, task
  <2> QED BY <2>1 DEF Remembered, FailedTexts, Kept
<1>4a. ASSUME NEW p \in Prompts, WriteElsewhere(p) PROVE \A x \in Answers : Remembered(x) => Remembered(x)'
  <2>1. UNCHANGED <<posts, digests>> /\ inbox \subseteq inbox' /\ forgiven \subseteq forgiven'
    BY <1>4a DEF WriteElsewhere, task
  <2> QED BY <2>1 DEF Remembered, FailedTexts, Kept
<1>5. ASSUME NEW p \in Prompts, Unwatch(p) PROVE \A x \in Answers : Remembered(x) => Remembered(x)'
  <2>1. UNCHANGED <<posts, digests>> /\ inbox \subseteq inbox' /\ forgiven \subseteq forgiven'
    BY <1>5 DEF Unwatch, Forgets, task
  <2> QED BY <2>1 DEF Remembered, FailedTexts, Kept
<1>6. ASSUME NEW p \in Prompts, StartConversation(p) PROVE \A x \in Answers : Remembered(x) => Remembered(x)'
  <2>1. UNCHANGED <<posts, digests>> /\ inbox \subseteq inbox' /\ forgiven \subseteq forgiven'
    BY <1>6 DEF StartConversation, task
  <2> QED BY <2>1 DEF Remembered, FailedTexts, Kept
<1>7. ASSUME NEW p \in Prompts, WatchBegun(p) PROVE \A x \in Answers : Remembered(x) => Remembered(x)'
  <2>1. UNCHANGED <<posts, digests>> /\ inbox \subseteq inbox' /\ forgiven \subseteq forgiven'
    BY <1>7 DEF WatchBegun, WatchBegunFrom, Registers, task
  <2> QED BY <2>1 DEF Remembered, FailedTexts, Kept
<1>8. ASSUME NEW c \in Conversations, StopConversation(c) PROVE \A x \in Answers : Remembered(x) => Remembered(x)'
  <2>1. UNCHANGED <<posts, digests>> /\ inbox \subseteq inbox' /\ forgiven \subseteq forgiven'
    BY <1>8 DEF StopConversation, Forgets, task
  <2> QED BY <2>1 DEF Remembered, FailedTexts, Kept
<1>9. CASE BeginPollRound
  <2>1. UNCHANGED <<posts, digests>> /\ inbox \subseteq inbox' /\ forgiven \subseteq forgiven'
    BY <1>9 DEF BeginPollRound, task
  <2> QED BY <2>1 DEF Remembered, FailedTexts, Kept
<1>10. ASSUME NEW w \in Prompts, ReadTail(w) PROVE \A x \in Answers : Remembered(x) => Remembered(x)'
  <2>1. UNCHANGED <<posts, digests>> /\ inbox \subseteq inbox' /\ forgiven \subseteq forgiven'
    BY <1>10 DEF ReadTail, task
  <2> QED BY <2>1 DEF Remembered, FailedTexts, Kept
<1>11. CASE SpeakNow
  <2>1. UNCHANGED <<posts, digests>> /\ inbox \subseteq inbox' /\ forgiven \subseteq forgiven'
    BY <1>11 DEF SpeakNow, task
  <2> QED BY <2>1 DEF Remembered, FailedTexts, Kept
<1>12. CASE HoldBack
  <2>1. UNCHANGED <<posts, digests>> /\ inbox \subseteq inbox' /\ forgiven \subseteq forgiven'
    BY <1>12 DEF HoldBack, task
  <2> QED BY <2>1 DEF Remembered, FailedTexts, Kept
<1>13. CASE Later
  <2>1. UNCHANGED <<posts, digests>> /\ inbox \subseteq inbox' /\ forgiven \subseteq forgiven'
    BY <1>13 DEF Later, task
  <2> QED BY <2>1 DEF Remembered, FailedTexts, Kept
<1>14. CASE SendNote
  <2>1. UNCHANGED <<posts, digests>> /\ inbox \subseteq inbox' /\ forgiven \subseteq forgiven'
    BY <1>14 DEF SendNote, task
  <2> QED BY <2>1 DEF Remembered, FailedTexts, Kept
<1>15. CASE DropWatch
  <2>1. UNCHANGED <<posts, digests>> /\ inbox \subseteq inbox' /\ forgiven \subseteq forgiven'
    BY <1>15 DEF DropWatch, task
  <2> QED BY <2>1 DEF Remembered, FailedTexts, Kept
<1>16. ASSUME NEW n \in Ports, Attach(n) PROVE \A x \in Answers : Remembered(x) => Remembered(x)'
  <2>1. UNCHANGED <<posts, digests>> /\ inbox \subseteq inbox' /\ forgiven \subseteq forgiven'
    BY <1>16 DEF Attach, PortStep, task
  <2> QED BY <2>1 DEF Remembered, FailedTexts, Kept
<1>17. ASSUME NEW n \in Ports, AttachFails(n) PROVE \A x \in Answers : Remembered(x) => Remembered(x)'
  <2>1. UNCHANGED <<posts, digests>> /\ inbox \subseteq inbox' /\ forgiven \subseteq forgiven'
    BY <1>17 DEF AttachFails, AttachFailsInto, PortStep, task
  <2> QED BY <2>1 DEF Remembered, FailedTexts, Kept
<1>18. ASSUME NEW n \in Ports, Take(n) PROVE \A x \in Answers : Remembered(x) => Remembered(x)'
  <2>1. UNCHANGED <<posts, digests>> /\ inbox \subseteq inbox' /\ forgiven \subseteq forgiven'
    BY <1>18 DEF Take, PortStep, task
  <2> QED BY <2>1 DEF Remembered, FailedTexts, Kept
<1>19. ASSUME NEW n \in Ports, FlashWorks(n) PROVE \A x \in Answers : Remembered(x) => Remembered(x)'
  <2>1. UNCHANGED <<posts, digests>> /\ inbox \subseteq inbox' /\ forgiven \subseteq forgiven'
    BY <1>19 DEF FlashWorks, PortStep, task
  <2> QED BY <2>1 DEF Remembered, FailedTexts, Kept
<1>20. ASSUME NEW n \in Ports, FlashFails(n) PROVE \A x \in Answers : Remembered(x) => Remembered(x)'
  <2>1. UNCHANGED <<posts, digests, inbox, forgiven>>
    BY <1>20 DEF FlashFails, Posted, PortStep, task
  <2> QED BY <2>1 DEF Remembered, FailedTexts, Kept
<1>21. ASSUME NEW n \in Ports, Drain(n) PROVE \A x \in Answers : Remembered(x) => Remembered(x)'
  <2>1. UNCHANGED <<posts, digests, inbox, forgiven>>
    BY <1>21 DEF Drain, Posted, PortStep, task
  <2> QED BY <2>1 DEF Remembered, FailedTexts, Kept
<1>22. ASSUME NEW n \in Ports, ThreadEnds(n) PROVE \A x \in Answers : Remembered(x) => Remembered(x)'
  <2>1. UNCHANGED <<posts, digests>> /\ inbox \subseteq inbox' /\ forgiven \subseteq forgiven'
    BY <1>22 DEF ThreadEnds, PortStep, task
  <2> QED BY <2>1 DEF Remembered, FailedTexts, Kept
<1>23. ASSUME NEW n \in Ports, Ready(n) PROVE \A x \in Answers : Remembered(x) => Remembered(x)'
  <2>1. UNCHANGED <<posts, digests, inbox, forgiven>>
    BY <1>23 DEF Ready, Posted, PortStep, task
  <2> QED BY <2>1 DEF Remembered, FailedTexts, Kept
<1>24. ASSUME NEW n \in Ports, Dies(n) PROVE \A x \in Answers : Remembered(x) => Remembered(x)'
  <2>1. UNCHANGED <<posts, digests>> /\ inbox \subseteq inbox' /\ forgiven \subseteq forgiven'
    BY <1>24 DEF Dies, PortStep, task
  <2> QED BY <2>1 DEF Remembered, FailedTexts, Kept
<1>25. ASSUME NEW n \in Ports, StartPort(n) PROVE \A x \in Answers : Remembered(x) => Remembered(x)'
  <2>1. quit # "done"
    BY <1>25 DEF StartPort
  <2> QED BY <2>1
<1>26. CASE OnReady
  <2>1. posts # <<>> /\ posts' = Tail(posts) /\ Head(posts).kind = "ready" /\ UNCHANGED <<digests, inbox, forgiven>>
    BY <1>26 DEF OnReady
  <2>2. ToSet(posts) = {Head(posts)} \cup ToSet(posts')
    BY <2>1, HeadPost
  <2>3. FailedTexts' = FailedTexts
    BY <2>1, <2>2 DEF FailedTexts
  <2> QED BY <2>1, <2>3 DEF Remembered, Kept
<1>27. CASE OnFailed
  <2> DEFINE text == Head(posts).text
  <2>1. posts # <<>> /\ posts' = Tail(posts) /\ Head(posts).kind = "failed" /\ forgiven' = forgiven
    BY <1>27 DEF OnFailed
  <2>2. ToSet(posts) = {Head(posts)} \cup ToSet(posts') /\ text \in Text
    BY <2>1, HeadPost
  <2>3. FailedTexts \subseteq FailedTexts' \cup {text}
    BY <2>2 DEF FailedTexts
  <2>4. digests \in Seq(SUBSET Answers)
    BY DEF BoxTypes
  <2>5. CASE Kept(text)
    <3>1. inbox' = inbox \cup text.of /\ \E i \in DOMAIN digests : digests[i] = text.of /\ digests' = RemoveAt(digests, i)
      BY <1>27, <2>5 DEF OnFailed
    <3>2. \A d \in ToSet(digests) : d # text.of => d \in ToSet(digests')
      BY <2>4, <3>1, ElementRemoved
    <3>3. ASSUME NEW x \in Answers, Remembered(x) PROVE Remembered(x)'
      <4>1. CASE x \in forgiven \cup inbox
        BY <2>1, <3>1, <4>1 DEF Remembered
      <4>2. CASE \E t \in FailedTexts : Kept(t) /\ x \in t.of
        <5>1. PICK t \in FailedTexts : Kept(t) /\ x \in t.of
          BY <4>2
        <5>2. CASE t.of = text.of
          BY <3>1, <5>1, <5>2 DEF Remembered
        <5>3. CASE t.of # text.of
          <6>1. t \in FailedTexts' /\ Kept(t)'
            BY <2>3, <3>2, <5>1, <5>3 DEF Kept
          <6> QED BY <5>1, <6>1 DEF Remembered
        <5> QED BY <5>2, <5>3
      <4> QED BY <3>3, <4>1, <4>2 DEF Remembered
    <3> QED BY <3>3
  <2>6. CASE ~Kept(text)
    <3>1. UNCHANGED <<inbox, digests>>
      BY <1>27, <2>6 DEF OnFailed
    <3>2. ASSUME NEW x \in Answers, Remembered(x) PROVE Remembered(x)'
      <4>1. CASE x \in forgiven \cup inbox
        BY <2>1, <3>1, <4>1 DEF Remembered
      <4>2. CASE \E t \in FailedTexts : Kept(t) /\ x \in t.of
        <5>1. PICK t \in FailedTexts : Kept(t) /\ x \in t.of
          BY <4>2
        <5>2. t \in FailedTexts' /\ Kept(t)'
          BY <2>3, <2>6, <3>1, <5>1 DEF Kept
        <5> QED BY <5>1, <5>2 DEF Remembered
      <4> QED BY <3>2, <4>1, <4>2 DEF Remembered
    <3> QED BY <3>2
  <2> QED BY <2>5, <2>6
<1>28. CASE HearReadyEnds
  <2>1. hearing # {}
    BY <1>28 DEF HearReadyEnds
  <2> QED BY <2>1 DEF Resting
<1>29. CASE StopPortEnds
  <2>1. UNCHANGED <<posts, digests, inbox, forgiven>>
    BY <1>29 DEF StopPortEnds, Posted, OnWorker
  <2> QED BY <2>1 DEF Remembered, FailedTexts, Kept
<1>30. CASE HearReady
  <2>1. UNCHANGED <<posts, digests>> /\ inbox \subseteq inbox' /\ forgiven \subseteq forgiven'
    BY <1>30 DEF HearReady, OnWorker
  <2> QED BY <2>1 DEF Remembered, FailedTexts, Kept
<1>31. CASE ClearInbox
  <2>1. forgiven' = forgiven \cup inbox /\ UNCHANGED <<posts, digests>>
    BY <1>31 DEF ClearInbox, task
  <2> QED BY <2>1 DEF Remembered, FailedTexts, Kept
<1>32. CASE StopPort
  <2>1. UNCHANGED <<posts, digests>> /\ inbox \subseteq inbox' /\ forgiven \subseteq forgiven'
    BY <1>32 DEF StopPort, OnWorker
  <2> QED BY <2>1 DEF Remembered, FailedTexts, Kept
<1>33. CASE QuitAtRest
  <2>1. quit # "done"
    BY <1>33 DEF QuitAtRest
  <2> QED BY <2>1
<1>34. CASE Quit
  <2>1. quit # "done"
    BY <1>34 DEF Quit
  <2> QED BY <2>1
<1> QED
  BY <1>1, <1>2, <1>3, <1>4, <1>4a, <1>5, <1>6, <1>7, <1>8, <1>9, <1>10, <1>11, <1>12, <1>13, <1>14, <1>15, <1>16, <1>17, <1>18,
     <1>19, <1>20, <1>21, <1>22, <1>23, <1>24, <1>25, <1>26, <1>27, <1>28, <1>29, <1>30, <1>31, <1>32, <1>33, <1>34 DEF
     AnswersNext, ToolStep, WatcherStep, HandOver, ThreadStep, TaskStep

\* Quit gives up all the rest.
LEMMA QuitRemembers ==
  ASSUME quit # "done", AnswersNext
  PROVE  quit' = "done" => \A x \in Answers : Remembered(x)'
<1>1. ASSUME NEW p \in Prompts, TurnStarts(p) PROVE quit' = "done" => \A x \in Answers : Remembered(x)'
  <2>1. quit' = quit
    BY <1>1 DEF TurnStarts, Says, task, centrals
  <2> QED BY <2>1
<1>2. ASSUME NEW p \in Prompts, TurnEnds(p) PROVE quit' = "done" => \A x \in Answers : Remembered(x)'
  <2>1. quit' = quit
    BY <1>2 DEF TurnEnds, Says, task, centrals
  <2> QED BY <2>1
<1>3. ASSUME NEW p \in Prompts, Watch(p) PROVE quit' = "done" => \A x \in Answers : Remembered(x)'
  <2>1. quit' = quit
    BY <1>3 DEF Watch, task, centrals
  <2> QED BY <2>1
<1>4. ASSUME NEW p \in Prompts, WritePrompt(p) PROVE quit' = "done" => \A x \in Answers : Remembered(x)'
  <2>1. quit' = quit
    BY <1>4 DEF WritePrompt, task, centrals
  <2> QED BY <2>1
<1>4a. ASSUME NEW p \in Prompts, WriteElsewhere(p) PROVE quit' = "done" => \A x \in Answers : Remembered(x)'
  <2>1. quit' = quit
    BY <1>4a DEF WriteElsewhere, task, centrals
  <2> QED BY <2>1
<1>5. ASSUME NEW p \in Prompts, Unwatch(p) PROVE quit' = "done" => \A x \in Answers : Remembered(x)'
  <2>1. quit' = quit
    BY <1>5 DEF Unwatch, task, centrals
  <2> QED BY <2>1
<1>6. ASSUME NEW p \in Prompts, StartConversation(p) PROVE quit' = "done" => \A x \in Answers : Remembered(x)'
  <2>1. quit' = quit
    BY <1>6 DEF StartConversation, task, centrals
  <2> QED BY <2>1
<1>7. ASSUME NEW p \in Prompts, WatchBegun(p) PROVE quit' = "done" => \A x \in Answers : Remembered(x)'
  <2>1. quit' = quit
    BY <1>7 DEF WatchBegun, WatchBegunFrom, task, centrals
  <2> QED BY <2>1
<1>8. ASSUME NEW c \in Conversations, StopConversation(c) PROVE quit' = "done" => \A x \in Answers : Remembered(x)'
  <2>1. quit' = quit
    BY <1>8 DEF StopConversation, task, centrals
  <2> QED BY <2>1
<1>9. CASE BeginPollRound
  <2>1. quit' = quit
    BY <1>9 DEF BeginPollRound, task, centrals
  <2> QED BY <2>1
<1>10. ASSUME NEW w \in Prompts, ReadTail(w) PROVE quit' = "done" => \A x \in Answers : Remembered(x)'
  <2>1. quit' = quit
    BY <1>10 DEF ReadTail, task, centrals
  <2> QED BY <2>1
<1>11. CASE SpeakNow
  <2>1. quit' = quit
    BY <1>11 DEF SpeakNow, task, centrals
  <2> QED BY <2>1
<1>12. CASE HoldBack
  <2>1. quit' = quit
    BY <1>12 DEF HoldBack, task, centrals
  <2> QED BY <2>1
<1>13. CASE Later
  <2>1. quit' = quit
    BY <1>13 DEF Later, task, centrals
  <2> QED BY <2>1
<1>14. CASE SendNote
  <2>1. quit' = quit
    BY <1>14 DEF SendNote, task, centrals, Sends
  <2> QED BY <2>1
<1>15. CASE DropWatch
  <2>1. quit' = quit
    BY <1>15 DEF DropWatch, task, centrals
  <2> QED BY <2>1
<1>16. ASSUME NEW n \in Ports, Attach(n) PROVE quit' = "done" => \A x \in Answers : Remembered(x)'
  <2>1. quit' = quit
    BY <1>16 DEF Attach, PortStep, task
  <2> QED BY <2>1
<1>17. ASSUME NEW n \in Ports, AttachFails(n) PROVE quit' = "done" => \A x \in Answers : Remembered(x)'
  <2>1. quit' = quit
    BY <1>17 DEF AttachFails, AttachFailsInto, PortStep, task
  <2> QED BY <2>1
<1>18. ASSUME NEW n \in Ports, Take(n) PROVE quit' = "done" => \A x \in Answers : Remembered(x)'
  <2>1. quit' = quit
    BY <1>18 DEF Take, PortStep, task
  <2> QED BY <2>1
<1>19. ASSUME NEW n \in Ports, FlashWorks(n) PROVE quit' = "done" => \A x \in Answers : Remembered(x)'
  <2>1. quit' = quit
    BY <1>19 DEF FlashWorks, PortStep, task
  <2> QED BY <2>1
<1>20. ASSUME NEW n \in Ports, FlashFails(n) PROVE quit' = "done" => \A x \in Answers : Remembered(x)'
  <2>1. quit' = quit
    BY <1>20 DEF FlashFails, PortStep, task
  <2> QED BY <2>1
<1>21. ASSUME NEW n \in Ports, Drain(n) PROVE quit' = "done" => \A x \in Answers : Remembered(x)'
  <2>1. quit' = quit
    BY <1>21 DEF Drain, PortStep, task
  <2> QED BY <2>1
<1>22. ASSUME NEW n \in Ports, ThreadEnds(n) PROVE quit' = "done" => \A x \in Answers : Remembered(x)'
  <2>1. quit' = quit
    BY <1>22 DEF ThreadEnds, PortStep, task
  <2> QED BY <2>1
<1>23. ASSUME NEW n \in Ports, Ready(n) PROVE quit' = "done" => \A x \in Answers : Remembered(x)'
  <2>1. quit' = quit
    BY <1>23 DEF Ready, PortStep, task
  <2> QED BY <2>1
<1>24. ASSUME NEW n \in Ports, Dies(n) PROVE quit' = "done" => \A x \in Answers : Remembered(x)'
  <2>1. quit' = quit
    BY <1>24 DEF Dies, PortStep, task
  <2> QED BY <2>1
<1>25. ASSUME NEW n \in Ports, StartPort(n) PROVE quit' = "done" => \A x \in Answers : Remembered(x)'
  <2>1. quit' = quit
    BY <1>25 DEF StartPort, OnWorker
  <2> QED BY <2>1
<1>26. CASE OnReady
  <2>1. quit' = quit
    BY <1>26 DEF OnReady, OnWorker, centrals, Sends
  <2> QED BY <2>1
<1>27. CASE OnFailed
  <2>1. quit' = quit
    BY <1>27 DEF OnFailed, OnWorker, centrals
  <2> QED BY <2>1
<1>28. CASE HearReadyEnds
  <2>1. quit' = quit
    BY <1>28 DEF HearReadyEnds, OnWorker, centrals
  <2> QED BY <2>1
<1>29. CASE StopPortEnds
  <2>1. quit' = quit
    BY <1>29 DEF StopPortEnds, OnWorker
  <2> QED BY <2>1
<1>30. CASE HearReady
  <2>1. quit' = quit
    BY <1>30 DEF HearReady, OnWorker, Sends
  <2> QED BY <2>1
<1>31. CASE ClearInbox
  <2>1. quit' = quit
    BY <1>31 DEF ClearInbox, OnWorker, task, centrals
  <2> QED BY <2>1
<1>32. CASE StopPort
  <2>1. quit' \in {"no", "asked"} \/ quit' = quit
    BY <1>32 DEF StopPort
  <2> QED BY <2>1
<1>33. CASE QuitAtRest
  <2>1. quit' = "asked"
    BY <1>33 DEF QuitAtRest
  <2> QED BY <2>1
<1>34. CASE Quit
  <2>1. forgiven' = forgiven \cup (Answers \ (inbox \cup Carried({t \in FailedTexts : Kept(t)}))) /\ UNCHANGED <<inbox, posts, digests>>
    BY <1>34 DEF Quit
  <2>2. ASSUME NEW x \in Answers PROVE Remembered(x)'
    <3>1. x \in forgiven' \/ x \in inbox \/ \E t \in {u \in FailedTexts : Kept(u)} : x \in t.of
      BY <2>1 DEF Carried
    <3> QED BY <2>1, <3>1 DEF Remembered, FailedTexts, Kept
  <2> QED BY <2>2
<1> QED
  BY <1>1, <1>2, <1>3, <1>4, <1>4a, <1>5, <1>6, <1>7, <1>8, <1>9, <1>10, <1>11, <1>12, <1>13, <1>14, <1>15, <1>16, <1>17, <1>18,
     <1>19, <1>20, <1>21, <1>22, <1>23, <1>24, <1>25, <1>26, <1>27, <1>28, <1>29, <1>30, <1>31, <1>32, <1>33, <1>34 DEF
     AnswersNext, ToolStep, WatcherStep, HandOver, ThreadStep, TaskStep

\* A step keeps what holds after Quit.
LEMMA RestingKept ==
  ASSUME TextTypes, BoxTypes, PortTypes, Resting, AnswersNext
  PROVE  Resting'
<1>1. quit' # "no" => port' = 0 /\ hearing' = {}
  BY NoneAfterQuit
<1>2. ASSUME quit' = "done" PROVE \A x \in Answers : Remembered(x)'
  <2>1. CASE quit = "done"
    BY <2>1, RememberedStays DEF Resting, Remembered
  <2>2. CASE quit # "done"
    BY <1>2, <2>2, QuitRemembers
  <2> QED BY <2>1, <2>2
<1> QED BY <1>1, <1>2 DEF Resting, Remembered

\* What the code holds it does not lose.
LEMMA HeldStays ==
  ASSUME WatchTypes, PollTypes, BoxTypes, TextTypes, PortTypes, OneText, Offered, Resting, Sending, AnswersNext
  PROVE  Held \subseteq Held'
<1>1. CASE quit = "done"
  <2>1. \A x \in Answers : Remembered(x) => Remembered(x)'
    BY <1>1, RememberedStays
  <2>2. Held \subseteq Answers
    BY FlyingAnswers DEF Held, Going, BoxTypes
  <2>3. \A x \in Answers : Remembered(x)
    BY <1>1 DEF Resting, Remembered
  <2>4. \A x \in Answers : Remembered(x)' => x \in Held'
    BY DEF Remembered, Held, Going, Back
  <2> QED BY <2>1, <2>2, <2>3, <2>4
<1>2. CASE quit # "done"
  <2>1. Going \subseteq Going' \cup inbox'
    BY <1>2, GoingStays
  <2>2. inbox \subseteq inbox' \cup forgiven' \cup hearing
    BY InboxStays
  <2>3. hearing \subseteq Going
    BY DEF Sending
  <2> QED BY <2>1, <2>2, <2>3 DEF Held, Going
<1> QED BY <1>1, <1>2

-----------------------------------------------------------------------------
(* What the watcher hands over.                                             *)

\* The tools change no note.
LEMMA ToolsNoteNothing ==
  ASSUME ToolsMove
  PROVE  UNCHANGED <<note, saw, poller>>
<1>1. ASSUME NEW p \in Prompts, TurnStarts(p) PROVE UNCHANGED <<note, saw, poller>>
  BY <1>1 DEF TurnStarts, Says, watches, poller
<1>2. ASSUME NEW p \in Prompts, TurnEnds(p) PROVE UNCHANGED <<note, saw, poller>>
  BY <1>2 DEF TurnEnds, Says, Registers, Forgets, watches, poller
<1>3. ASSUME NEW p \in Prompts, Watch(p) PROVE UNCHANGED <<note, saw, poller>>
  BY <1>3 DEF Watch, Says, Registers, Forgets, watches, poller
<1>4. ASSUME NEW p \in Prompts, WritePrompt(p) PROVE UNCHANGED <<note, saw, poller>>
  BY <1>4 DEF WritePrompt, Says, Registers, Forgets, watches, poller
<1>4a. ASSUME NEW p \in Prompts, WriteElsewhere(p) PROVE UNCHANGED <<note, saw, poller>>
  BY <1>4a DEF WriteElsewhere, Says, Registers, Forgets, watches, poller
<1>5. ASSUME NEW p \in Prompts, Unwatch(p) PROVE UNCHANGED <<note, saw, poller>>
  BY <1>5 DEF Unwatch, Says, Registers, Forgets, watches, poller
<1>6. ASSUME NEW p \in Prompts, StartConversation(p) PROVE UNCHANGED <<note, saw, poller>>
  BY <1>6 DEF StartConversation, Says, Registers, Forgets, watches, poller
<1>7. ASSUME NEW p \in Prompts, WatchBegun(p) PROVE UNCHANGED <<note, saw, poller>>
  BY <1>7 DEF WatchBegun, WatchBegunFrom, Says, Registers, Forgets, watches, poller
<1>8. ASSUME NEW c \in Conversations, StopConversation(c) PROVE UNCHANGED <<note, saw, poller>>
  BY <1>8 DEF StopConversation, Says, Registers, Forgets, watches, poller
<1> QED
  BY <1>1, <1>2, <1>3, <1>4, <1>4a, <1>5, <1>6, <1>7, <1>8 DEF ToolsMove, ToolStep

\* The note that is handed over is there, and held as soon as it was taken.
LEMMA OfferedKept ==
  ASSUME AskTypes, WatchTypes, PollTypes, BoxTypes, TextTypes, PortTypes, StateTypes, handed \in BOOLEAN, OneText, Offered, Resting, Sending,
         0 \in Held, AnswersNext
  PROVE  Offered' /\ 0 \in Held'
<1>1. Held \subseteq Held'
  BY HeldStays
<1> SUFFICES Offered'
  BY <1>1
<1>2. UNCHANGED <<note, offer, via, handed>> => Offered'
  BY <1>1 DEF Offered
<1>3. CASE ToolsMove
  BY <1>2, <1>3, ToolsNoteNothing DEF poller
<1>4. CASE CentralMoves
  BY <1>2, <1>4, CentralFrame DEF watches, poller
<1>5. CASE BeginPollRound
  BY <1>2, <1>5 DEF BeginPollRound, watches
<1>6. ASSUME NEW w \in Prompts, ReadTail(w) PROVE Offered'
  <2> DEFINE found == IF note[w] = 0 THEN Finds(w) ELSE note[w]
  <2>1. offer = 0 /\ note' = [note EXCEPT ![w] = found] /\ UNCHANGED <<via, handed>> /\ (offer' = 0 \/ (offer' = w /\ found # 0))
    BY <1>6 DEF ReadTail
  <2> HIDE DEF found
  <2>2. note'[w] = found
    BY <2>1 DEF WatchTypes
  <2>3. via = 0 /\ ~handed
    BY <2>1 DEF Offered
  <2> QED BY <2>1, <2>2, <2>3 DEF Offered
<1>7. CASE SpeakNow
  <2>1. UNCHANGED <<note, offer, handed>> /\ offer # 0 /\ ~handed
    BY <1>7 DEF SpeakNow, Offering, watches
  <2> QED BY <2>1 DEF Offered
<1>8. CASE HoldBack
  <2>1. UNCHANGED <<note, offer, via>> /\ offer # 0 /\ via = 0 /\ note[offer] \in inbox'
    BY <1>8 DEF HoldBack, Offering, watches
  <2> QED BY <2>1 DEF Offered, Held
<1>9. CASE Later
  <2>1. offer' = 0 /\ UNCHANGED <<via, handed>> /\ via = 0 /\ ~handed
    BY <1>9 DEF Later, Offering
  <2> QED BY <2>1 DEF Offered
<1>10. CASE SendNote
  <2>1. via # 0 /\ via' = 0 /\ UNCHANGED note
    BY <1>10 DEF SendNote, watches
  <2>2. offer # 0 /\ ~handed /\ note[offer] # 0
    BY <2>1 DEF Offered
  <2>3. CASE Accepts(via)
    <3>1. handed' = TRUE /\ offer' = offer /\ Sends(via, <<Note(note[offer])>>)
      BY <1>10, <2>3 DEF SendNote
    <3>2. via \in Ports /\ offer \in Prompts
      BY <2>1, <2>2, Constants DEF PollTypes
    <3>3. note[offer] \in Answers
      BY <3>2 DEF WatchTypes
    <3>4. Note(note[offer]) \in Text /\ Note(note[offer]).of = {note[offer]}
      BY <3>3, AText
    <3>5. <<Note(note[offer])>> \in Seq(Text) /\ Note(note[offer]) \in ToSet(<<Note(note[offer])>>)
      BY <3>4, OneText1
    <3>6. note[offer] \in arrived' \cup Flying'
      BY <3>1, <3>2, <3>3, <3>4, <3>5, SendCarries
    <3> QED BY <2>1, <2>2, <3>1, <3>6 DEF Offered, Held, Going
  <2>4. CASE ~Accepts(via)
    <3>1. offer' = 0 /\ handed' = handed
      BY <1>10, <2>4 DEF SendNote
    <3> QED BY <2>1, <2>2, <3>1 DEF Offered
  <2> QED BY <2>3, <2>4
<1>11. CASE DropWatch
  <2>1. handed /\ handed' = FALSE /\ offer' = 0 /\ via' = via
    BY <1>11 DEF DropWatch
  <2> QED BY <2>1 DEF Offered
<1> QED
  BY <1>3, <1>4, <1>5, <1>6, <1>7, <1>8, <1>9, <1>10, <1>11, EveryStep DEF WatcherStep, HandOver

-----------------------------------------------------------------------------
(* Prompts and turns.                                                       *)

\* A conversation gets a prompt.
LEMMA SentGrows ==
  ASSUME AskTypes, NEW p \in Prompts, sent' = [sent EXCEPT ![to[p]] = Append(@, p)]
  PROVE  LET n == Len(sent[to[p]])
         IN  /\ to[p] \in Conversations /\ \A c \in Conversations \ {to[p]} : sent'[c] = sent[c]
             /\ n \in Nat /\ DOMAIN sent[to[p]] = 1..n /\ DOMAIN sent'[to[p]] = 1..n + 1
             /\ sent'[to[p]][n + 1] = p /\ \A i \in 1..n : sent'[to[p]][i] = sent[to[p]][i]
             /\ ToSet(sent'[to[p]]) = SentTo(to[p]) \cup {p}
<1> DEFINE c == to[p]
           s == sent[c]
           u == Append(s, p)
<1>1. c \in Conversations /\ s \in Seq(Prompts)
  BY DEF AskTypes
<1>2. /\ u \in Seq(Prompts) /\ ToSet(u) = ToSet(s) \cup {p}
      /\ Len(s) \in Nat /\ DOMAIN s = 1..Len(s) /\ DOMAIN u = 1..Len(s) + 1
      /\ u[Len(s) + 1] = p /\ \A i \in 1..Len(s) : u[i] = s[i]
  <2>1. u \in Seq(Prompts) /\ ToSet(u) = ToSet(s) \cup {p}
    BY <1>1, ElementsAppended
  <2>2. Len(s) \in Nat /\ DOMAIN s = 1..Len(s)
    BY <1>1
  <2>3. DOMAIN u = 1..Len(s) + 1 /\ u[Len(s) + 1] = p /\ \A i \in 1..Len(s) : u[i] = s[i]
    BY <1>1
  <2> QED BY <2>1, <2>2, <2>3
<1>3. sent' = [sent EXCEPT ![c] = u]
  OBVIOUS
<1> HIDE DEF u
<1>4. sent'[c] = u /\ \A d \in Conversations \ {c} : sent'[d] = sent[d]
  BY <1>1, <1>3 DEF AskTypes
<1>5. SentTo(c) = ToSet(s)
  BY DEF SentTo
<1> HIDE DEF c, s
<1>6. /\ c \in Conversations /\ \A d \in Conversations \ {c} : sent'[d] = sent[d]
      /\ Len(s) \in Nat /\ DOMAIN s = 1..Len(s) /\ DOMAIN sent'[c] = 1..Len(s) + 1
      /\ sent'[c][Len(s) + 1] = p /\ \A i \in 1..Len(s) : sent'[c][i] = s[i]
      /\ ToSet(sent'[c]) = ToSet(s) \cup {p}
  BY <1>1, <1>2, <1>4
<1> QED BY <1>2, <1>5, <1>6, Zenon DEF c, s

\* A conversation shows a line more.
LEMMA LogGrows ==
  ASSUME AskTypes, NEW p \in Prompts, NEW k \in {"user", "end"}, Says(k, p)
  PROVE  LET n == Len(log[to[p]])
         IN  /\ to[p] \in Conversations /\ \A c \in Conversations \ {to[p]} : log'[c] = log[c]
             /\ n \in Nat /\ DOMAIN log[to[p]] = 1..n /\ DOMAIN log'[to[p]] = 1..n + 1 /\ Len(log'[to[p]]) = n + 1
             /\ log'[to[p]][n + 1] = <<k, p>> /\ \A i \in 1..n : log'[to[p]][i] = log[to[p]][i]
<1> DEFINE c == to[p]
           s == log[c]
           x == <<k, p>>
           u == Append(s, x)
<1>1. c \in Conversations /\ s \in Seq(Line)
  BY DEF AskTypes
<1>2. x \in Line
  BY DEF Line
<1>3. log' = [log EXCEPT ![c] = u]
  BY DEF Says
<1> HIDE DEF x, Line
<1>4. /\ Len(s) \in Nat /\ DOMAIN s = 1..Len(s) /\ DOMAIN u = 1..Len(s) + 1 /\ Len(u) = Len(s) + 1
      /\ u[Len(s) + 1] = x /\ \A i \in 1..Len(s) : u[i] = s[i]
  BY <1>1, <1>2
<1> HIDE DEF u
<1>5. log'[c] = u /\ \A d \in Conversations \ {c} : log'[d] = log[d]
  BY <1>1, <1>3 DEF AskTypes
<1> HIDE DEF c, s
<1>6. /\ c \in Conversations /\ \A d \in Conversations \ {c} : log'[d] = log[d]
      /\ Len(s) \in Nat /\ DOMAIN s = 1..Len(s) /\ DOMAIN log'[c] = 1..Len(s) + 1 /\ Len(log'[c]) = Len(s) + 1
      /\ log'[c][Len(s) + 1] = x /\ \A i \in 1..Len(s) : log'[c][i] = s[i]
  BY <1>1, <1>4, <1>5
<1> QED BY <1>6, Zenon DEF c, s, x

\* A tool changes the state of its prompt without sending it.
LEMMA SentStays ==
  ASSUME AskTypes, SentOnce, NEW p \in Prompts, NEW s, UNCHANGED <<to, begun, sent>>, prompt' = [prompt EXCEPT ![p] = s],
         \/ prompt[p] \notin {"written", "asked"} /\ s \in {"watched", "refused", "over"} /\ to[p] \in begun
         \/ prompt[p] = "written" /\ s = "asked"
  PROVE  SentOnce'
<1>1. prompt'[p] = s /\ \A q \in Prompts : q # p => prompt'[q] = prompt[q]
  BY DEF AskTypes
<1>2. \A q \in Prompts : prompt'[q] # "new" => to[q] \in begun
  BY <1>1 DEF SentOnce
<1>3. \A c \in Conversations : \A i \in DOMAIN sent[c] : sent[c][i] \in Prompts
  BY DEF AskTypes
<1>4. \A c \in Conversations : \A i \in DOMAIN sent[c] : to[sent[c][i]] = c /\ prompt'[sent[c][i]] \in {"written", "asked"}
  BY <1>1, <1>3 DEF SentOnce
<1>5. \A q \in Prompts : prompt'[q] = "asked" => q \in SentTo(to[q])
  <2>1. SUFFICES ASSUME prompt[p] = "written" PROVE p \in SentTo(to[p])
    BY <1>1 DEF SentOnce
  <2>2. sent[to[p]] # <<>> /\ sent[to[p]][1] = p /\ sent[to[p]] \in Seq(Prompts)
    BY <2>1 DEF SentOnce, AskTypes
  <2>3. 1 \in DOMAIN sent[to[p]]
    BY <2>2
  <2> QED BY <2>2, <2>3 DEF SentTo, ToSet
<1>6. \A q \in Prompts : prompt'[q] = "written" => sent[to[q]] # <<>> /\ sent[to[q]][1] = q
  BY <1>1 DEF SentOnce
<1>7. /\ \A c \in Conversations : \A i, j \in DOMAIN sent[c] : sent[c][i] = sent[c][j] => i = j
      /\ \A c \in Conversations : c \notin begun => sent[c] = <<>>
  BY DEF SentOnce
<1>8. \A c : SentTo(c)' = SentTo(c)
  BY DEF SentTo
<1> QED BY <1>2, <1>4, <1>5, <1>6, <1>7, <1>8 DEF SentOnce

\* A tool sends its prompt.
LEMMA SentMore ==
  ASSUME AskTypes, SentOnce, NEW p \in Prompts, NEW s \in {"written", "asked"}, to' = to, begun' = begun \cup {to[p]},
         sent' = [sent EXCEPT ![to[p]] = Append(@, p)], prompt' = [prompt EXCEPT ![p] = s],
         prompt[p] \notin {"written", "asked"}, s = "written" => to[p] \notin begun
  PROVE  SentOnce'
<1> DEFINE c == to[p]
           n == Len(sent[c])
<1>1. prompt'[p] = s /\ \A q \in Prompts : q # p => prompt'[q] = prompt[q]
  BY DEF AskTypes
<1>2. /\ c \in Conversations /\ \A d \in Conversations \ {c} : sent'[d] = sent[d]
      /\ n \in Nat /\ DOMAIN sent[c] = 1..n /\ DOMAIN sent'[c] = 1..n + 1
      /\ sent'[c][n + 1] = p /\ \A i \in 1..n : sent'[c][i] = sent[c][i]
  BY SentGrows, Zenon
<1>3. ToSet(sent'[c]) = ToSet(sent[c]) \cup {p}
  BY SentGrows, Zenon DEF SentTo
<1>4. \A q \in Prompts : prompt'[q] # "new" => to[q] \in begun'
  BY <1>1 DEF SentOnce
<1>5. \A d \in Conversations : \A i \in DOMAIN sent[d] : sent[d][i] \in Prompts /\ sent[d][i] # p
  BY DEF AskTypes, SentOnce
<1>6. \A d \in Conversations : \A i \in DOMAIN sent'[d] : to[sent'[d][i]] = d /\ prompt'[sent'[d][i]] \in {"written", "asked"}
  <2>1. ASSUME NEW d \in Conversations \ {c}, NEW i \in DOMAIN sent'[d] PROVE to[sent'[d][i]] = d /\ prompt'[sent'[d][i]] \in {"written", "asked"}
    BY <1>1, <1>2, <1>5, <2>1 DEF SentOnce
  <2>2. ASSUME NEW i \in 1..n PROVE to[sent'[c][i]] = c /\ prompt'[sent'[c][i]] \in {"written", "asked"}
    BY <1>1, <1>2, <1>5, <2>2 DEF SentOnce
  <2>3. to[sent'[c][n + 1]] = c /\ prompt'[sent'[c][n + 1]] \in {"written", "asked"}
    BY <1>1, <1>2
  <2>4. \A i \in 1..n + 1 : i \in 1..n \/ i = n + 1
    BY <1>2
  <2> QED BY <1>2, <2>1, <2>2, <2>3, <2>4
<1>7. \A d \in Conversations : \A i, j \in DOMAIN sent'[d] : sent'[d][i] = sent'[d][j] => i = j
  <2>1. \A d \in Conversations : \A i, j \in DOMAIN sent[d] : sent[d][i] = sent[d][j] => i = j
    BY DEF SentOnce
  <2>2. \A i \in 1..n + 1 : i \in 1..n \/ i = n + 1
    BY <1>2
  <2> HIDE DEF c, n
  <2>3. \A i, j \in 1..n + 1 : sent'[c][i] = sent'[c][j] => i = j
    BY <1>2, <1>5, <2>1, <2>2
  <2> QED BY <1>2, <2>1, <2>3
<1>8. \A q \in Prompts : prompt'[q] = "asked" => q \in ToSet(sent'[to[q]])
  <2>1. \A q \in Prompts : prompt[q] = "asked" => q \in ToSet(sent[to[q]])
    BY DEF SentOnce, SentTo
  <2>2. \A q \in Prompts : to[q] \in Conversations
    BY DEF AskTypes
  <2> QED BY <1>1, <1>2, <1>3, <2>1, <2>2
<1>9. ASSUME NEW q \in Prompts, prompt'[q] = "written" PROVE sent'[to[q]] # <<>> /\ sent'[to[q]][1] = q
  <2>1. to[q] \in Conversations
    BY DEF AskTypes
  <2>2. CASE q = p
    <3>1. sent[c] = <<>>
      BY <1>1, <1>2, <1>9, <2>2 DEF SentOnce
    <3>2. n = 0
      BY <3>1
    <3>3. sent'[c][1] = p /\ 1 \in DOMAIN sent'[c]
      BY <1>2, <3>2
    <3> QED BY <2>2, <3>3
  <2>3. CASE q # p
    <3>1. sent[to[q]] # <<>> /\ sent[to[q]][1] = q /\ sent[to[q]] \in Seq(Prompts)
      BY <1>1, <1>9, <2>3 DEF SentOnce, AskTypes
    <3>2. 1 \in DOMAIN sent[to[q]]
      BY <3>1
    <3>3. CASE to[q] = c
      <4>1. sent'[c][1] = q /\ 1 \in DOMAIN sent'[c]
        BY <1>2, <3>1, <3>2, <3>3
      <4> QED BY <3>3, <4>1
    <3> QED BY <1>2, <2>1, <3>1, <3>3
  <2> QED BY <2>2, <2>3
<1>10. \A d \in Conversations : d \notin begun' => sent'[d] = <<>>
  BY <1>2 DEF SentOnce
<1> HIDE DEF c, n
<1> QED BY <1>4, <1>6, <1>7, <1>8, <1>9, <1>10 DEF SentOnce, SentTo

\* A step keeps the prompts sent once.
LEMMA SentOnceKept ==
  ASSUME AskTypes, SentOnce, AnswersNext
  PROVE  SentOnce'
<1>1. UNCHANGED <<to, prompt, begun, sent>> => SentOnce'
  BY DEF SentOnce, SentTo
<1>2. ASSUME NEW p \in Prompts, TurnStarts(p) \/ TurnEnds(p) PROVE SentOnce'
  BY <1>1, <1>2 DEF TurnStarts, TurnEnds, Says
<1>3. ASSUME NEW p \in Prompts, Watch(p) PROVE SentOnce'
  <2>1. UNCHANGED <<to, begun, sent>> /\ prompt' = [prompt EXCEPT ![p] = "watched"] /\ prompt[p] = "new" /\ to[p] \in begun
    BY <1>3 DEF Watch
  <2> QED BY <2>1, SentStays
<1>4. ASSUME NEW p \in Prompts, WritePrompt(p) PROVE SentOnce'
  <2>1. UNCHANGED <<to, begun>> /\ prompt[p] = "watched"
    BY <1>4 DEF WritePrompt
  <2>2. to[p] \in begun
    BY <2>1 DEF SentOnce
  <2>3. CASE prompt' = [prompt EXCEPT ![p] = "asked"] /\ sent' = [sent EXCEPT ![to[p]] = Append(@, p)]
    BY <2>1, <2>2, <2>3, SentMore
  <2>4. CASE prompt' = [prompt EXCEPT ![p] = "refused"] /\ UNCHANGED sent
    BY <2>1, <2>2, <2>4, SentStays
  <2> QED BY <1>4, <2>3, <2>4 DEF WritePrompt
<1>4a. ASSUME NEW p \in Prompts, WriteElsewhere(p) PROVE SentOnce'
  <2>1. UNCHANGED <<to, begun, sent>> /\ prompt' = [prompt EXCEPT ![p] = "over"] /\ prompt[p] = "watched"
    BY <1>4a DEF WriteElsewhere
  <2>2. to[p] \in begun
    BY <2>1 DEF SentOnce
  <2> QED BY <2>1, <2>2, SentStays
<1>5. ASSUME NEW p \in Prompts, Unwatch(p) PROVE SentOnce'
  <2>1. UNCHANGED <<to, begun, sent>> /\ prompt' = [prompt EXCEPT ![p] = "over"] /\ prompt[p] = "refused"
    BY <1>5 DEF Unwatch
  <2>2. to[p] \in begun
    BY <2>1 DEF SentOnce
  <2> QED BY <2>1, <2>2, SentStays
<1>6. ASSUME NEW p \in Prompts, StartConversation(p) PROVE SentOnce'
  <2>1. /\ to' = to /\ begun' = begun \cup {to[p]} /\ prompt' = [prompt EXCEPT ![p] = "written"] /\ prompt[p] = "new"
        /\ to[p] \notin begun /\ sent' = [sent EXCEPT ![to[p]] = Append(@, p)]
    BY <1>6 DEF StartConversation
  <2> QED BY <2>1, SentMore
<1>7. ASSUME NEW p \in Prompts, WatchBegun(p) PROVE SentOnce'
  <2>1. UNCHANGED <<to, begun, sent>> /\ prompt' = [prompt EXCEPT ![p] = "asked"] /\ prompt[p] = "written"
    BY <1>7 DEF WatchBegun, WatchBegunFrom
  <2> QED BY <2>1, SentStays
<1>8. ASSUME NEW c \in Conversations, StopConversation(c) PROVE SentOnce'
  BY <1>1, <1>8 DEF StopConversation, asking
<1>9. WatcherStep \/ CentralMoves => SentOnce'
  BY <1>1, WatcherFrame, CentralFrame DEF asking
<1> QED
  BY <1>2, <1>3, <1>4, <1>4a, <1>5, <1>6, <1>7, <1>8, <1>9, EveryStep DEF ToolsMove, ToolStep

\* A line more in the transcript of a conversation, after the turns its sender waits for.
LEMMA TurnsWithMore ==
  ASSUME AskTypes, SentOnce, TurnsInOrder, NEW p \in Prompts, NEW k \in {"user", "end"}, Says(k, p), p \in SentTo(to[p]),
         k = "user" => \E i \in DOMAIN sent[to[p]] : sent[to[p]][i] = p /\ \A j \in 1..i - 1 : Ended(sent[to[p]][j]),
         k = "end" => Shows("user", p)
  PROVE  TurnsInOrder'
<1> DEFINE c == to[p]
           s == sent[c]
           l == log[c]
           u == log'[c]
           n == Len(l)
<1>1. UNCHANGED <<to, sent>>
  BY DEF Says
<1>2. /\ c \in Conversations /\ \A d \in Conversations \ {c} : log'[d] = log[d]
      /\ n \in Nat /\ DOMAIN l = 1..n /\ DOMAIN u = 1..n + 1
      /\ u[n + 1] = <<k, p>> /\ \A i \in 1..n : u[i] = l[i]
  BY LogGrows, Zenon
<1>3. \A i \in 1..n + 1 : i \in 1..n \/ i = n + 1
  BY <1>2
<1>4. Orderly(l, s)
  BY <1>2 DEF TurnsInOrder
<1>5. p \in ToSet(s)
  BY DEF SentTo
<1>6. k = "end" => \E j \in 1..n : l[j] = <<"user", p>>
  BY <1>2 DEF Shows
<1>7. \A i, j \in DOMAIN s : s[i] = s[j] => i = j
  BY <1>2 DEF SentOnce
<1>8. ASSUME k = "user", NEW m \in DOMAIN s, s[m] = p, NEW h \in 1..m - 1 PROVE \E j \in 1..n : l[j] = <<"end", s[h]>>
  <2>1. PICK g \in DOMAIN s : s[g] = p /\ \A j \in 1..g - 1 : Ended(s[j])
    BY <1>8
  <2>2. g = m
    BY <1>7, <1>8, <2>1
  <2>3. Ended(s[h])
    BY <2>1, <2>2
  <2>4. h \in DOMAIN s
    <3>1. s \in Seq(Prompts)
      BY <1>2 DEF AskTypes
    <3> QED BY <3>1
  <2>5. to[s[h]] = c
    BY <1>2, <2>4 DEF SentOnce
  <2> QED BY <1>2, <2>3, <2>5 DEF Ended, Shows
<1>9. \A d \in Conversations \ {c} : Orderly(log'[d], sent'[d])
  BY <1>1, <1>2 DEF TurnsInOrder
<1>10. sent'[c] = s
  BY <1>1
<1> HIDE DEF c, s, l, u, n
<1>11. \A i \in DOMAIN u : u[i][2] \in ToSet(s)
  BY <1>2, <1>3, <1>4, <1>5 DEF Orderly
<1>12. ASSUME NEW i \in 1..n + 1, NEW m \in DOMAIN s, u[i] = <<"user", s[m]>>, NEW h \in 1..m - 1
       PROVE  \E j \in 1..i - 1 : u[j] = <<"end", s[h]>>
  <2>1. CASE i \in 1..n
    <3>1. PICK j \in 1..i - 1 : l[j] = <<"end", s[h]>>
      BY <1>2, <1>4, <1>12, <2>1 DEF Orderly
    <3>2. j \in 1..n
      BY <1>2, <2>1
    <3> QED BY <1>2, <3>1, <3>2
  <2>2. CASE i = n + 1
    <3>1. k = "user" /\ s[m] = p
      BY <1>2, <1>12, <2>2
    <3>2. PICK j \in 1..n : l[j] = <<"end", s[h]>>
      BY <1>8, <3>1
    <3>3. j \in 1..i - 1
      BY <1>2, <2>2
    <3> QED BY <1>2, <3>2, <3>3
  <2> QED BY <1>3, <2>1, <2>2
<1>13. ASSUME NEW i \in 1..n + 1, u[i][1] = "end" PROVE \E j \in 1..i - 1 : u[j] = <<"user", u[i][2]>>
  <2>1. CASE i \in 1..n
    <3>1. PICK j \in 1..i - 1 : l[j] = <<"user", l[i][2]>>
      BY <1>2, <1>4, <1>13, <2>1 DEF Orderly
    <3>2. j \in 1..n
      BY <1>2, <2>1
    <3> QED BY <1>2, <2>1, <3>1, <3>2
  <2>2. CASE i = n + 1
    <3>1. k = "end" /\ u[i][2] = p
      BY <1>2, <1>13, <2>2
    <3>2. PICK j \in 1..n : l[j] = <<"user", p>>
      BY <1>6, <3>1
    <3>3. j \in 1..i - 1
      BY <1>2, <2>2
    <3> QED BY <1>2, <3>1, <3>2, <3>3
  <2> QED BY <1>3, <2>1, <2>2
<1>14. Orderly(u, s)
  BY <1>2, <1>11, <1>12, <1>13 DEF Orderly
<1>15. Orderly(log'[c], sent'[c])
  BY <1>10, <1>14 DEF u
<1> QED BY <1>9, <1>15 DEF TurnsInOrder

\* A prompt more that was sent.
LEMMA TurnsToCome ==
  ASSUME AskTypes, TurnsInOrder, NEW p \in Prompts, log' = log, sent' = [sent EXCEPT ![to[p]] = Append(@, p)], p \notin SentTo(to[p])
  PROVE  TurnsInOrder'
<1> DEFINE c == to[p]
           s == sent[c]
           u == sent'[c]
           l == log[c]
           n == Len(s)
<1>1. /\ c \in Conversations /\ \A d \in Conversations \ {c} : sent'[d] = sent[d]
      /\ n \in Nat /\ DOMAIN s = 1..n /\ DOMAIN u = 1..n + 1
      /\ u[n + 1] = p /\ \A i \in 1..n : u[i] = s[i]
  BY SentGrows, Zenon
<1>2. ToSet(u) = ToSet(s) \cup {p} /\ p \notin ToSet(s)
  BY SentGrows, Zenon DEF SentTo
<1>3. Orderly(l, s)
  BY <1>1 DEF TurnsInOrder
<1>4. \A d \in Conversations \ {c} : Orderly(log'[d], sent'[d])
  BY <1>1 DEF TurnsInOrder
<1>5. log'[c] = l
  OBVIOUS
<1> HIDE DEF c, s, u, l, n
<1>6. ASSUME NEW i \in DOMAIN l, NEW m \in 1..n + 1, l[i] = <<"user", u[m]>>, NEW h \in 1..m - 1
      PROVE  \E j \in 1..i - 1 : l[j] = <<"end", u[h]>>
  <2>1. m # n + 1
    BY <1>1, <1>2, <1>3, <1>6 DEF Orderly
  <2>2. m \in 1..n /\ h \in 1..n
    BY <1>1, <1>6, <2>1
  <2>3. u[m] = s[m] /\ u[h] = s[h]
    BY <1>1, <2>2
  <2>4. l[i] = <<"user", s[m]>> /\ m \in DOMAIN s
    BY <1>1, <1>6, <2>2, <2>3
  <2>5. \E j \in 1..i - 1 : l[j] = <<"end", s[h]>>
    BY <1>3, <1>6, <2>4 DEF Orderly
  <2> QED BY <2>3, <2>5
<1>7. Orderly(l, u)
  BY <1>1, <1>2, <1>3, <1>6 DEF Orderly
<1>8. Orderly(log'[c], sent'[c])
  BY <1>5, <1>7 DEF u
<1> QED BY <1>4, <1>8 DEF TurnsInOrder

\* A step keeps the turns in order.
LEMMA TurnsInOrderKept ==
  ASSUME AskTypes, SentOnce, TurnsInOrder, AnswersNext
  PROVE  TurnsInOrder'
<1>1. UNCHANGED <<sent, log>> => TurnsInOrder'
  BY DEF TurnsInOrder
<1>2. \A q \in Prompts : q \in SentTo(to[q]) => prompt[q] \in {"written", "asked"}
  <2>1. \A c \in Conversations : \A i \in DOMAIN sent[c] : prompt[sent[c][i]] \in {"written", "asked"}
    BY DEF SentOnce
  <2>2. \A q \in Prompts : to[q] \in Conversations
    BY DEF AskTypes
  <2> QED BY <2>1, <2>2 DEF SentTo, ToSet
<1>3. ASSUME NEW p \in Prompts, TurnStarts(p) PROVE TurnsInOrder'
  <2>1. Says("user", p) /\ \E i \in DOMAIN sent[to[p]] : sent[to[p]][i] = p /\ \A j \in 1..i - 1 : Ended(sent[to[p]][j])
    BY <1>3 DEF TurnStarts
  <2>2. p \in SentTo(to[p])
    BY <2>1 DEF SentTo, ToSet
  <2> QED BY <2>1, <2>2, TurnsWithMore
<1>4. ASSUME NEW p \in Prompts, TurnEnds(p) PROVE TurnsInOrder'
  <2>1. Says("end", p) /\ Shows("user", p)
    BY <1>4 DEF TurnEnds
  <2>2. to[p] \in Conversations
    BY DEF AskTypes
  <2>3. p \in SentTo(to[p])
    BY <2>1, <2>2 DEF Shows, TurnsInOrder, Orderly, SentTo
  <2> QED BY <2>1, <2>3, TurnsWithMore
<1>5. ASSUME NEW p \in Prompts, WritePrompt(p) \/ StartConversation(p) PROVE TurnsInOrder'
  <2>1. log' = log /\ prompt[p] \notin {"written", "asked"} /\ (sent' = sent \/ sent' = [sent EXCEPT ![to[p]] = Append(@, p)])
    BY <1>5 DEF WritePrompt, StartConversation
  <2>2. p \notin SentTo(to[p])
    BY <1>2, <2>1
  <2> QED BY <1>1, <2>1, <2>2, TurnsToCome
<1>6. ASSUME NEW p \in Prompts, Watch(p) \/ WriteElsewhere(p) \/ Unwatch(p) \/ WatchBegun(p) PROVE TurnsInOrder'
  <2>1. UNCHANGED <<sent, log>>
    BY <1>6 DEF Watch, WriteElsewhere, Unwatch, WatchBegun, WatchBegunFrom
  <2> QED BY <1>1, <2>1
<1>7. ASSUME NEW c \in Conversations, StopConversation(c) PROVE TurnsInOrder'
  BY <1>1, <1>7 DEF StopConversation, asking
<1>8. WatcherStep \/ CentralMoves => TurnsInOrder'
  BY <1>1, WatcherFrame, CentralFrame DEF asking
<1> QED
  BY <1>3, <1>4, <1>5, <1>6, <1>7, <1>8, EveryStep DEF ToolsMove, ToolStep

\* A prompt that is not watched yet stays without a watch.
LEMMA UnwatchedKept ==
  ASSUME AskTypes, WatchTypes, PollTypes, Unwatched, AnswersNext
  PROVE  Unwatched'
<1>0. 0 \notin Prompts /\ \A p \in Prompts : to[p] \in Conversations
  BY Constants DEF AskTypes
<1>1. UNCHANGED <<prompt, watches, round>> => Unwatched'
  BY DEF Unwatched, watches
<1>2. ASSUME NEW p \in Prompts, NEW s, s \notin {"new", "written"} \/ prompt[p] = "new", prompt' = [prompt EXCEPT ![p] = s],
             UNCHANGED <<saw, note, round>>,
             watching' = watching \/ (\E c : watching' = [watching EXCEPT ![c] = 0])
                \/ (watching' = [watching EXCEPT ![to[p]] = p] /\ s \notin {"new", "written"})
      PROVE  Unwatched'
  <2>1. SUFFICES ASSUME NEW q \in Prompts, prompt'[q] \in {"new", "written"} PROVE \A c \in Conversations : watching'[c] # q
    <3>1. \A q \in Prompts : prompt'[q] \in {"new", "written"} => prompt[q] \in {"new", "written"}
      BY <1>2 DEF AskTypes
    <3> QED BY <1>2, <2>1, <3>1 DEF Unwatched
  <2>2. prompt[q] \in {"new", "written"} /\ (s \notin {"new", "written"} => q # p)
    BY <1>2, <2>1 DEF AskTypes
  <2>3. \A c \in Conversations : watching[c] # q
    BY <2>2 DEF Unwatched
  <2> QED BY <1>0, <1>2, <2>2, <2>3 DEF WatchTypes
<1>3. ASSUME NEW p \in Prompts, TurnStarts(p) \/ TurnEnds(p) PROVE Unwatched'
  BY <1>1, <1>3 DEF TurnStarts, TurnEnds, Says, watches, poller
<1>4. ASSUME NEW p \in Prompts, Watch(p) PROVE Unwatched'
  <2>1. prompt' = [prompt EXCEPT ![p] = "watched"] /\ UNCHANGED <<saw, note, round>> /\ watching' = [watching EXCEPT ![to[p]] = p]
    BY <1>4 DEF Watch, Registers, poller
  <2> QED BY <1>2, <2>1
<1>5. ASSUME NEW p \in Prompts, WritePrompt(p) PROVE Unwatched'
  <2>1. (\E s \in {"asked", "refused"} : prompt' = [prompt EXCEPT ![p] = s]) /\ UNCHANGED <<saw, note, round, watching>>
    BY <1>5 DEF WritePrompt, poller, watches
  <2> QED BY <1>2, <2>1
<1>5a. ASSUME NEW p \in Prompts, WriteElsewhere(p) PROVE Unwatched'
  <2>1. prompt' = [prompt EXCEPT ![p] = "over"] /\ UNCHANGED <<saw, note, round, watching>>
    BY <1>5a DEF WriteElsewhere, poller, watches
  <2> QED BY <1>2, <2>1
<1>6. ASSUME NEW p \in Prompts, Unwatch(p) PROVE Unwatched'
  <2>1. prompt' = [prompt EXCEPT ![p] = "over"] /\ UNCHANGED <<saw, note, round>> /\ watching' = [watching EXCEPT ![to[p]] = 0]
    BY <1>6 DEF Unwatch, Forgets, poller
  <2> QED BY <1>2, <2>1
<1>7. ASSUME NEW p \in Prompts, StartConversation(p) PROVE Unwatched'
  <2>1. prompt' = [prompt EXCEPT ![p] = "written"] /\ prompt[p] = "new" /\ UNCHANGED <<saw, note, round, watching>>
    BY <1>7 DEF StartConversation, poller, watches
  <2> QED BY <1>2, <2>1
<1>8. ASSUME NEW p \in Prompts, WatchBegun(p) PROVE Unwatched'
  <2>1. prompt' = [prompt EXCEPT ![p] = "asked"] /\ UNCHANGED <<saw, note, round>> /\ watching' = [watching EXCEPT ![to[p]] = p]
    BY <1>8 DEF WatchBegun, WatchBegunFrom, Registers, poller
  <2> QED BY <1>2, <2>1
<1>9. ASSUME UNCHANGED <<prompt, saw, note, round>>, NEW c, watching' = [watching EXCEPT ![c] = 0] \/ watching' = watching PROVE Unwatched'
  BY <1>0, <1>9 DEF Unwatched, WatchTypes
<1>10. ASSUME NEW c \in Conversations, StopConversation(c) PROVE Unwatched'
  <2>1. UNCHANGED <<prompt, saw, note, round>> /\ watching' = [watching EXCEPT ![c] = 0]
    BY <1>10 DEF StopConversation, Forgets, poller, asking
  <2> QED BY <1>9, <2>1
<1>11. CASE BeginPollRound
  <2>1. UNCHANGED <<prompt, saw, note, watching>> /\ round' = {watching[c] : c \in Conversations} \ {0}
    BY <1>11 DEF BeginPollRound, watches, asking
  <2> QED BY <2>1 DEF Unwatched
<1>12. ASSUME NEW w \in Prompts, ReadTail(w) PROVE Unwatched'
  <2>1. /\ prompt' = prompt /\ w \in round /\ round' \subseteq round
        /\ watching' = watching \/ watching' = [watching EXCEPT ![to[w]] = 0]
    BY <1>12 DEF ReadTail, Forgo, asking
  <2>2. \E x, y : note' = [note EXCEPT ![w] = x] /\ saw' = [saw EXCEPT ![w] = y]
    BY <1>12 DEF ReadTail
  <2>3. \A q \in Prompts : q # w => note'[q] = note[q] /\ saw'[q] = saw[q]
    BY <2>2 DEF WatchTypes
  <2> QED BY <1>0, <2>1, <2>3 DEF Unwatched, WatchTypes
<1>13. CASE SpeakNow \/ HoldBack \/ Later \/ SendNote
  <2>1. UNCHANGED <<prompt, watches, round>>
    BY <1>13 DEF SpeakNow, HoldBack, Later, SendNote, asking
  <2> QED BY <1>1, <2>1
<1>14. CASE DropWatch
  <2>1. UNCHANGED <<prompt, saw, note, round>> /\ (watching' = [watching EXCEPT ![to[offer]] = 0] \/ watching' = watching)
    BY <1>14 DEF DropWatch, Forgo, asking
  <2> QED BY <1>9, <2>1
<1>15. CentralMoves => Unwatched'
  BY <1>1, CentralFrame DEF asking, poller
<1> QED
  BY <1>3, <1>4, <1>5, <1>5a, <1>6, <1>7, <1>8, <1>10, <1>11, <1>12, <1>13, <1>14, <1>15, EveryStep DEF ToolsMove, ToolStep, WatcherStep, HandOver

-----------------------------------------------------------------------------
(* Tails.                                                                   *)

\* The lines of a transcript.
LEMMA Lines ==
  ASSUME NEW l \in Seq(Line)
  PROVE  /\ Len(l) \in Nat /\ DOMAIN l = 1..Len(l)
         /\ \A i \in 1..Len(l) : l[i] = <<l[i][1], l[i][2]>> /\ l[i][1] \in {"user", "end"} /\ l[i][2] \in Prompts
<1>1. Len(l) \in Nat /\ DOMAIN l = 1..Len(l) /\ \A i \in 1..Len(l) : l[i] \in Line
  OBVIOUS
<1>2. \A x \in Line : x = <<x[1], x[2]>> /\ x[1] \in {"user", "end"} /\ x[2] \in Prompts
  BY DEF Line
<1> QED BY <1>1, <1>2

\* A tail that starts at the end has read nothing of a prompt that is not sent yet.
LEMMA ReadsAtTheEnd ==
  ASSUME NEW p \in Prompts, NEW l \in Seq(Line), \A i \in DOMAIN l : l[i][2] # p
  PROVE  Reads(p, l, Len(l), FALSE)
BY Lines DEF Reads

\* One that starts at the first line finds the first answer.
LEMMA ReadsFromTheStart ==
  ASSUME NEW p \in Prompts, NEW l \in Seq(Line), NEW s \in Seq(Prompts), s # <<>>, s[1] = p, Orderly(l, s)
  PROVE  Reads(p, l, 0, FALSE)
<1> DEFINE n == Len(l)
<1>0. n \in Nat /\ DOMAIN l = 1..n /\ \A i \in 1..n : l[i] = <<l[i][1], l[i][2]>>
  BY Lines
<1>1. \A i \in 1..n : \E m \in DOMAIN s : l[i][2] = s[m]
  BY <1>0 DEF Orderly, ToSet
<1>2. DOMAIN s = 1..Len(s) /\ Len(s) \in Nat
  OBVIOUS
<1> HIDE DEF n
<1>3. ASSUME NEW i \in 1..n, l[i][1] = "user", l[i][2] # p PROVE \E j \in 1..i - 1 : l[j] = <<"end", p>>
  <2>1. PICK m \in DOMAIN s : l[i][2] = s[m]
    BY <1>1
  <2>2. 1 \in 1..m - 1
    BY <1>2, <1>3, <2>1
  <2>3. l[i] = <<"user", s[m]>>
    BY <1>0, <1>3, <2>1
  <2>4. \A k \in 1..m - 1 : \E j \in 1..i - 1 : l[j] = <<"end", s[k]>>
    BY <1>0, <2>1, <2>3 DEF Orderly
  <2> QED BY <2>2, <2>4
<1>4. ASSUME NEW i \in 1..n, l[i][1] = "end" PROVE \E j \in 1..i - 1 : l[j][1] = "user" /\ l[j][2] = l[i][2]
  <2>1. PICK j \in 1..i - 1 : l[j] = <<"user", l[i][2]>>
    BY <1>0, <1>4 DEF Orderly
  <2> QED BY <2>1
<1>5. ASSUME NEW i \in 1..n, l[i][1] = "end" PROVE \E k \in 1..i : l[k] = <<"end", p>>
  <2>1. CASE l[i][2] = p
    BY <1>0, <1>5, <2>1
  <2>2. CASE l[i][2] # p
    <3>1. PICK j \in 1..i - 1 : l[j][1] = "user" /\ l[j][2] = l[i][2]
      BY <1>4, <1>5
    <3>2. j \in 1..n
      BY <1>0
    <3>3. PICK k \in 1..j - 1 : l[k] = <<"end", p>>
      BY <1>3, <2>2, <3>1, <3>2
    <3> QED BY <3>3
  <2> QED BY <2>1, <2>2
<1>6. ASSUME NEW i \in 1..n, l[i][1] = "user" PROVE \E k \in 1..i : l[k] = <<"user", p>>
  <2>1. CASE l[i][2] = p
    BY <1>0, <1>6, <2>1
  <2>2. CASE l[i][2] # p
    <3>1. PICK k \in 1..i - 1 : l[k] = <<"end", p>>
      BY <1>3, <1>6, <2>2
    <3>2. k \in 1..n /\ l[k][1] = "end" /\ l[k][2] = p
      BY <1>0, <3>1
    <3>3. PICK j \in 1..k - 1 : l[j][1] = "user" /\ l[j][2] = p
      BY <1>4, <3>2
    <3>4. j \in 1..n /\ j \in 1..i
      BY <1>0, <3>2
    <3> QED BY <1>0, <3>3, <3>4
  <2> QED BY <2>1, <2>2
<1>7. DOMAIN l = 1..n /\ 0 <= Len(l)
  BY <1>0 DEF n
<1>8. \A i \in 1..0 : l[i] # <<"end", p>> /\ l[i] # <<"user", p>>
  OBVIOUS
<1>9. \A i \in DOMAIN l : l[i][1] = "user" => \E k \in 1..i : l[k] = <<"user", p>>
  BY <1>6, <1>7
<1>10. \A i \in DOMAIN l : l[i][1] = "end" => \E k \in 1..i : l[k] = <<"end", p>>
  BY <1>5, <1>7
<1>11. 0 <= Len(l)
  BY <1>7
<1> QED BY <1>8, <1>9, <1>10, <1>11, Zenon DEF Reads

\* A transcript with a line more, one that does not answer another prompt first.
Grown(l, u, x) ==
  /\ Len(l) \in Nat /\ DOMAIN l = 1..Len(l) /\ Len(u) = Len(l) + 1 /\ DOMAIN u = 1..Len(l) + 1
  /\ u[Len(l) + 1] = x /\ \A i \in 1..Len(l) : u[i] = l[i]
AnswersNoOther(p, l, x) ==
  \/ x = <<"user", p>> \/ x = <<"end", p>>
  \/ x[1] = "end" /\ ((\E i \in DOMAIN l : l[i] = <<"user", p>>) => \E i \in DOMAIN l : l[i] = <<"end", p>>)

\* A tail goes on when a line comes that does not answer another prompt first.
LEMMA ReadsMore ==
  ASSUME NEW p \in Prompts, NEW l, NEW u, NEW x, Grown(l, u, x), AnswersNoOther(p, l, x),
         NEW o \in Nat, NEW h \in BOOLEAN, Reads(p, l, o, h)
  PROVE  Reads(p, u, o, h)
<1> DEFINE n == Len(l)
<1>0. /\ n \in Nat /\ Len(l) = n /\ DOMAIN l = 1..n /\ Len(u) = n + 1 /\ DOMAIN u = 1..n + 1
      /\ u[n + 1] = x /\ \A i \in 1..n : u[i] = l[i]
  BY DEF Grown
<1> HIDE DEF n
<1>1. \A i \in 1..n + 1 : i \in 1..n \/ i = n + 1
  BY <1>0
<1>2. o <= n /\ o <= n + 1
  BY <1>0 DEF Reads
<1>3. h => \E i \in 1..n + 1 : u[i] = <<"user", p>>
  BY <1>0 DEF Reads
<1>4. \A i \in 1..o : u[i] # <<"end", p>> /\ (~h => u[i] # <<"user", p>>)
  BY <1>0, <1>2 DEF Reads
<1>5. ASSUME NEW i \in 1..n + 1, ~h, i > o, u[i][1] = "user" PROVE \E k \in 1..i : u[k] = <<"user", p>>
  <2>1. CASE i \in 1..n
    <3>1. PICK k \in 1..i : l[k] = <<"user", p>>
      BY <1>0, <1>5, <2>1 DEF Reads
    <3> QED BY <1>0, <2>1, <3>1
  <2>2. CASE i = n + 1
    <3>1. x = <<"user", p>>
      BY <1>0, <1>5, <2>2 DEF AnswersNoOther
    <3> QED BY <1>0, <2>2, <3>1
  <2> QED BY <1>1, <2>1, <2>2
<1>6. ASSUME NEW i \in 1..n + 1, i > o, u[i][1] = "end", h \/ \E j \in o + 1..i : u[j][1] = "user"
      PROVE  \E k \in 1..i : u[k] = <<"end", p>>
  <2>1. CASE i \in 1..n
    <3>1. h \/ \E j \in o + 1..i : l[j][1] = "user"
      BY <1>0, <1>6, <2>1
    <3>2. l[i][1] = "end"
      BY <1>0, <1>6, <2>1
    <3>3. PICK k \in 1..i : l[k] = <<"end", p>>
      BY <1>0, <1>6, <2>1, <3>1, <3>2 DEF Reads
    <3> QED BY <1>0, <2>1, <3>3
  <2>2. CASE i = n + 1 /\ u[i] # <<"end", p>>
    <3>1. \E k \in 1..n : l[k] = <<"user", p>>
      <4>1. CASE h
        BY <1>0, <4>1 DEF Reads
      <4>2. CASE ~h
        <5>1. PICK j \in o + 1..i : u[j][1] = "user"
          BY <1>6, <4>2
        <5>2. j \in 1..n /\ j > o
          BY <1>0, <1>6, <2>2, <5>1
        <5>3. \E k \in 1..j : l[k] = <<"user", p>>
          BY <1>0, <4>2, <5>1, <5>2 DEF Reads
        <5> QED BY <1>0, <5>2, <5>3
      <4> QED BY <4>1, <4>2
    <3>2. u[n + 1] # <<"user", p>>
      BY <1>0, <1>6, <2>2
    <3>3. PICK k \in 1..n : l[k] = <<"end", p>>
      BY <1>0, <2>2, <3>1, <3>2 DEF AnswersNoOther
    <3> QED BY <1>0, <2>2, <3>3
  <2>3. CASE u[i] = <<"end", p>>
    BY <1>0, <1>6, <2>3
  <2> QED BY <1>1, <2>1, <2>2, <2>3
<1> QED BY <1>0, <1>2, <1>3, <1>4, <1>5, <1>6 DEF Reads

\* The ends of the turns after line o that a tail counts, and whether it has seen a prompt then.
EndsAfter(l, o, h) == {i \in o + 1..Len(l) : l[i][1] = "end" /\ (h \/ \E j \in o + 1..i : l[j][1] = "user")}
NowSeen(l, o, h) == h \/ \E i \in o + 1..Len(l) : l[i][1] = "user"

\* The first answer a tail finds is that of its prompt.  If it finds none it has read on.
LEMMA ReadsOn ==
  ASSUME NEW p \in Prompts, NEW l \in Seq(Line), NEW s, Orderly(l, s), NEW o \in Nat, NEW h \in BOOLEAN, Reads(p, l, o, h)
  PROVE  /\ \A i \in EndsAfter(l, o, h) : (\A j \in EndsAfter(l, o, h) : i <= j) => l[i][2] = p
         /\ EndsAfter(l, o, h) = {} => Reads(p, l, Len(l), NowSeen(l, o, h))
         /\ \A k \in DOMAIN l : l[k] = <<"end", p>> => k \in EndsAfter(l, o, h)
<1> DEFINE ends == EndsAfter(l, o, h)
           g == NowSeen(l, o, h)
<1> DEFINE n == Len(l)
<1>0. n \in Nat /\ DOMAIN l = 1..n /\ \A i \in 1..n : l[i] = <<l[i][1], l[i][2]>>
  BY Lines
<1> HIDE DEF n
<1>1. ASSUME NEW k \in 1..n, l[k] = <<"end", p>> PROVE k \in o + 1..n /\ (h \/ \E j \in o + 1..k : l[j][1] = "user")
  <2>1. k \in o + 1..n
    BY <1>0, <1>1 DEF Reads
  <2>2. PICK j \in 1..k - 1 : l[j] = <<"user", p>>
    <3>1. l[k][1] = "end" /\ l[k][2] = p /\ k \in DOMAIN l
      BY <1>0, <1>1
    <3> QED BY <3>1 DEF Orderly
  <2>3. ~h => j \in o + 1..k
    BY <1>0, <2>2 DEF Reads
  <2> QED BY <2>1, <2>2, <2>3
<1>2. \A k \in 1..n : l[k] = <<"end", p>> => k \in ends
  BY <1>0, <1>1 DEF n, EndsAfter
<1>3. ASSUME NEW i \in ends, \A j \in ends : i <= j PROVE l[i][2] = p
  <2>1. i \in 1..n /\ i > o /\ l[i][1] = "end" /\ (h \/ \E j \in o + 1..i : l[j][1] = "user")
    BY <1>0 DEF n, EndsAfter
  <2>2. PICK k \in 1..i : l[k] = <<"end", p>>
    BY <1>0, <2>1 DEF Reads
  <2>3. k \in ends
    BY <1>0, <1>2, <2>1, <2>2
  <2>4. k = i
    BY <1>0, <1>3, <2>1, <2>3
  <2> QED BY <2>2, <2>4
<1>4. ASSUME ends = {} PROVE Reads(p, l, n, g)
  <2>0. g <=> h \/ \E i \in o + 1..n : l[i][1] = "user"
    BY DEF n, NowSeen
  <2> HIDE DEF g
  <2>1. g => \E i \in DOMAIN l : l[i] = <<"user", p>>
    <3>1. CASE h
      BY <3>1 DEF Reads
    <3>2. ASSUME ~h, NEW i \in o + 1..n, l[i][1] = "user" PROVE \E j \in DOMAIN l : l[j] = <<"user", p>>
      <4>1. i \in 1..n /\ i > o
        BY <1>0
      <4>2. PICK k \in 1..i : l[k] = <<"user", p>>
        BY <1>0, <3>2, <4>1 DEF Reads
      <4> QED BY <1>0, <4>1, <4>2
    <3> QED BY <2>0, <3>1, <3>2
  <2>2. \A i \in 1..n : l[i] # <<"end", p>>
    BY <1>2, <1>4
  <2>3. ASSUME ~g, NEW i \in 1..n PROVE l[i] # <<"user", p>>
    <3>1. CASE i <= o
      <4>1. i \in 1..o
        BY <1>0, <3>1
      <4> QED BY <2>0, <2>3, <4>1 DEF Reads
    <3>2. CASE ~(i <= o)
      <4>1. i \in o + 1..n
        BY <1>0, <3>2
      <4> QED BY <2>0, <2>3, <4>1
    <3> QED BY <3>1, <3>2
  <2>4. n = Len(l) /\ n <= n /\ \A i \in DOMAIN l : ~(i > n)
    BY <1>0 DEF n
  <2> QED BY <2>1, <2>2, <2>3, <2>4 DEF Reads
<1>5. \A k \in DOMAIN l : l[k] = <<"end", p>> => k \in ends
  BY <1>0, <1>2
<1> QED BY <1>3, <1>4, <1>5, Zenon DEF n

-----------------------------------------------------------------------------
(* Watches.                                                                 *)

\* A prompt stays the only one to come while no other is watched or sent to its conversation.
LEMMA AloneStays ==
  ASSUME NEW p \in Prompts, Alone(p), to' = to,
         \A q \in Prompts \ {p} : to[q] = to[p] => prompt'[q] = prompt[q] /\ (Shows("user", q) => Shows("user", q)'),
         ToSet(sent'[to[p]]) \subseteq SentTo(to[p]) \cup {p}
  PROVE  Alone(p)'
BY DEF Alone, SentTo

\* A watch stays with its prompt while its tail and its transcript do.
LEMMA FollowedStays ==
  ASSUME NEW p \in Prompts, Followed(p), Alone(p)', to' = to, watching'[to[p]] = p, note'[p] = note[p],
         note[p] = 0 => Reads(p, log'[to[p]], offset'[p], saw'[p])
  PROVE  Followed(p)'
BY DEF Followed

\* What shows in a transcript goes on showing.
LEMMA ShownStays ==
  ASSUME AskTypes, to' = to, NEW q \in Prompts, NEW k, Shows(k, q),
         log'[to[q]] = log[to[q]] \/ \E p \in Prompts, m \in {"user", "end"} : Says(m, p)
  PROVE  Shows(k, q)'
<1>1. PICK i \in DOMAIN log[to[q]] : log[to[q]][i] = <<k, q>>
  BY DEF Shows
<1>2. CASE log'[to[q]] = log[to[q]]
  BY <1>1, <1>2 DEF Shows
<1>3. ASSUME NEW p \in Prompts, NEW m \in {"user", "end"}, Says(m, p) PROVE Shows(k, q)'
  <2>1. LET n == Len(log[to[p]])
        IN  /\ \A c \in Conversations \ {to[p]} : log'[c] = log[c]
            /\ n \in Nat /\ DOMAIN log[to[p]] = 1..n /\ DOMAIN log'[to[p]] = 1..n + 1
            /\ \A j \in 1..n : log'[to[p]][j] = log[to[p]][j]
    BY <1>3, LogGrows, Zenon
  <2>2. to[q] \in Conversations
    BY DEF AskTypes
  <2>3. i \in DOMAIN log'[to[q]] /\ log'[to[q]][i] = log[to[q]][i]
    BY <1>1, <2>1, <2>2
  <2> QED BY <1>1, <2>3 DEF Shows
<1> QED BY <1>2, <1>3

\* The watch of an answer that is not held is replaced or dropped only with the answer.
LEMMA WatchStays ==
  ASSUME WatchTypes, Offered, NEW p \in Prompts, p \notin Held, p \notin forgiven', Followed(p), NEW c,
         \/ handed /\ offer = watching[c]
         \/ (IF watching[c] = 0 THEN {} ELSE {watching[c], note[watching[c]]} \ {0}) \subseteq forgiven'
  PROVE  c # to[p]
<1> SUFFICES ASSUME c = to[p] PROVE FALSE
  OBVIOUS
<1>1. watching[c] = p /\ note[p] \in {0, p} /\ p # 0
  BY Constants DEF Followed
<1>2. ~(handed /\ offer = p)
  BY <1>1 DEF Offered
<1> QED BY <1>1, <1>2

\* One turn is in progress.
LEMMA OneTurn ==
  ASSUME AskTypes, SentOnce, TurnsInOrder, NEW p \in Prompts, NEW q \in Prompts, to[p] = to[q],
         Shows("user", p), Shows("user", q), ~Ended(q)
  PROVE  p = q \/ Ended(p)
<1> DEFINE l == log[to[q]]
           s == sent[to[q]]
<1>1. Orderly(l, s) /\ to[q] \in Conversations
  BY DEF TurnsInOrder, AskTypes
<1>2. l \in Seq(Line) /\ DOMAIN l = 1..Len(l) /\ Len(l) \in Nat
  BY <1>1, Lines DEF AskTypes
<1>3. s \in Seq(Prompts) /\ DOMAIN s = 1..Len(s) /\ Len(s) \in Nat
  BY <1>1 DEF AskTypes
<1>4. PICK i \in DOMAIN l : l[i] = <<"user", p>>
  BY DEF Shows
<1>5. PICK j \in DOMAIN l : l[j] = <<"user", q>>
  BY DEF Shows
<1>6. ~\E k \in DOMAIN l : l[k] = <<"end", q>>
  BY DEF Ended, Shows
<1>7. (\E k \in DOMAIN l : l[k] = <<"end", p>>) => Ended(p)
  BY DEF Ended, Shows
<1> HIDE DEF l, s
<1>8. PICK m \in DOMAIN s : s[m] = p
  <2>1. l[i][2] \in ToSet(s)
    BY <1>1, <1>4 DEF Orderly
  <2> QED BY <1>4, <2>1 DEF ToSet
<1>9. PICK h \in DOMAIN s : s[h] = q
  <2>1. l[j][2] \in ToSet(s)
    BY <1>1, <1>5 DEF Orderly
  <2> QED BY <1>5, <2>1 DEF ToSet
<1>10. CASE m < h
  <2>1. m \in 1..h - 1
    BY <1>3, <1>10
  <2>2. \A k \in 1..h - 1 : \E g \in 1..j - 1 : l[g] = <<"end", s[k]>>
    BY <1>1, <1>5, <1>9 DEF Orderly
  <2>3. PICK g \in 1..j - 1 : l[g] = <<"end", p>>
    BY <1>8, <2>1, <2>2
  <2>4. g \in DOMAIN l
    BY <1>2
  <2> QED BY <1>7, <2>3, <2>4
<1>11. CASE h < m
  <2>1. h \in 1..m - 1
    BY <1>3, <1>11
  <2>2. \A k \in 1..m - 1 : \E g \in 1..i - 1 : l[g] = <<"end", s[k]>>
    BY <1>1, <1>4, <1>8 DEF Orderly
  <2>3. PICK g \in 1..i - 1 : l[g] = <<"end", q>>
    BY <1>9, <2>1, <2>2
  <2>4. g \in DOMAIN l
    BY <1>2
  <2> QED BY <1>6, <2>3, <2>4
<1>12. m < h \/ h < m \/ m = h
  BY <1>3
<1> QED BY <1>8, <1>9, <1>10, <1>11, <1>12

\* A prompt that was not sent has no line.
LEMMA NoLineYet ==
  ASSUME AskTypes, SentOnce, TurnsInOrder, NEW p \in Prompts, prompt[p] \notin {"written", "asked"}
  PROVE  \A i \in DOMAIN log[to[p]] : log[to[p]][i][2] # p
<1>1. to[p] \in Conversations
  BY DEF AskTypes
<1>2. \A i \in DOMAIN sent[to[p]] : sent[to[p]][i] # p
  BY <1>1 DEF SentOnce
<1> QED BY <1>1, <1>2 DEF TurnsInOrder, Orderly, ToSet

\* A turn goes on.
LEMMA FollowedInTurn ==
  ASSUME AskTypes, WatchTypes, SentOnce, TurnsInOrder, NEW p \in Prompts, Followed(p),
         NEW q \in Prompts, TurnStarts(q) \/ TurnEnds(q)
  PROVE  Followed(p)'
<1> DEFINE c == to[p]
<1>1. UNCHANGED <<to, prompt, sent, watches>> /\ \E k \in {"user", "end"} : Says(k, q)
  BY DEF TurnStarts, TurnEnds, Says
<1>2. c \in Conversations /\ offset[p] \in Nat /\ saw[p] \in BOOLEAN
  BY Zenon DEF AskTypes, WatchTypes
<1>3. Alone(p)'
  <2>1. \A r \in Prompts : Shows("user", r) => Shows("user", r)'
    BY <1>1, ShownStays
  <2>2. ToSet(sent'[to[p]]) \subseteq SentTo(to[p])
    BY <1>1 DEF SentTo
  <2> QED BY <1>1, <2>1, <2>2, AloneStays DEF Followed
<1>4. ASSUME note[p] = 0 PROVE Reads(p, log'[c], offset[p], saw[p])
  <2>1. Reads(p, log[c], offset[p], saw[p])
    BY <1>4 DEF Followed
  <2>2. CASE to[q] # c
    <3>1. log'[c] = log[c]
      BY <1>1, <1>2, <2>2 DEF Says, AskTypes
    <3> QED BY <2>1, <3>1
  <2>3. CASE to[q] = c
    <3> DEFINE l == log[c]
    <3>1. PICK k \in {"user", "end"} : Says(k, q) /\ (k = "user" => TurnStarts(q)) /\ (k = "end" => TurnEnds(q))
      BY DEF TurnStarts, TurnEnds
    <3>2. Grown(l, log'[c], <<k, q>>)
      <4>1. LET m == Len(log[to[q]])
            IN  /\ m \in Nat /\ DOMAIN log[to[q]] = 1..m /\ DOMAIN log'[to[q]] = 1..m + 1 /\ Len(log'[to[q]]) = m + 1
                /\ log'[to[q]][m + 1] = <<k, q>> /\ \A i \in 1..m : log'[to[q]][i] = log[to[q]][i]
        BY <3>1, LogGrows, Zenon
      <4> QED BY <2>3, <4>1 DEF Grown
    <3>3. ASSUME k = "user" PROVE AnswersNoOther(p, l, <<k, q>>)
      <4>1. q \in SentTo(c) /\ ~Shows("user", q)
        BY <2>3, <3>1, <3>3 DEF TurnStarts, SentTo, ToSet
      <4>2. q = p
        BY <2>3, <4>1 DEF Followed, Alone
      <4> QED BY <3>3, <4>2 DEF AnswersNoOther
    <3>4. ASSUME k = "end" PROVE AnswersNoOther(p, l, <<k, q>>)
      <4>1. Shows("user", q) /\ ~Ended(q)
        BY <3>1, <3>4 DEF TurnEnds
      <4>2. Shows("user", p) => p = q \/ Ended(p)
        BY <2>3, <4>1, OneTurn
      <4>3. p = q \/ ((\E i \in DOMAIN l : l[i] = <<"user", p>>) => \E i \in DOMAIN l : l[i] = <<"end", p>>)
        BY <4>2 DEF Ended, Shows
      <4>4. <<k, q>>[1] = "end" /\ (p = q => <<k, q>> = <<"end", p>>)
        BY <3>4
      <4> HIDE DEF l
      <4> QED BY <4>3, <4>4 DEF AnswersNoOther
    <3>5. AnswersNoOther(p, l, <<k, q>>)
      BY <3>3, <3>4
    <3> HIDE DEF l
    <3>6. Reads(p, l, offset[p], saw[p])
      BY <2>1 DEF l
    <3>7. offset[p] \in Nat /\ saw[p] \in BOOLEAN
      BY <1>2
    <3> QED BY <3>2, <3>5, <3>6, <3>7, ReadsMore
  <2> QED BY <2>2, <2>3
<1> HIDE DEF c
<1>5. watching'[to[p]] = p /\ note'[p] = note[p] /\ offset'[p] = offset[p] /\ saw'[p] = saw[p]
  BY <1>1 DEF watches, Followed
<1> QED BY <1>1, <1>3, <1>4, <1>5, FollowedStays DEF c

\* A new watch has no rival, or its answer is given up.
LEMMA AWatchBegins ==
  ASSUME AskTypes, WatchTypes, Unwatched, NEW p \in Prompts, prompt[p] \in {"new", "written"}, p \notin forgiven',
         NEW at \in Nat, Registers(p, at), NEW s, prompt' = [prompt EXCEPT ![p] = s], UNCHANGED <<to, sent, log>>,
         Reads(p, log[to[p]], at, FALSE)
  PROVE  Followed(p)'
<1>1. to[p] \in Conversations
  BY DEF AskTypes
<1>2. watching'[to[p]] = p /\ offset'[p] = at /\ UNCHANGED <<saw, note>>
  BY <1>1 DEF Registers, WatchTypes
<1>3. ~Expects(p)
  BY DEF Registers
<1>4. Alone(p)
  BY <1>3 DEF Expects, Alone, SentTo
<1>5. Alone(p)'
  <2>1. \A q \in Prompts \ {p} : prompt'[q] = prompt[q]
    BY DEF AskTypes
  <2>2. \A q \in Prompts : Shows("user", q) => Shows("user", q)'
    BY DEF Shows
  <2>3. ToSet(sent'[to[p]]) \subseteq SentTo(to[p])
    BY DEF SentTo
  <2> QED BY <1>4, <2>1, <2>2, <2>3, AloneStays
<1>6. note[p] = 0 /\ ~saw[p] /\ saw[p] \in BOOLEAN
  BY Zenon DEF Unwatched, WatchTypes
<1>7. Reads(p, log'[to[p]], offset'[p], saw'[p])
  <2>1. saw'[p] = FALSE
    BY <1>2, <1>6, Zenon
  <2> QED BY <1>2, <2>1
<1> QED BY <1>2, <1>5, <1>6, <1>7 DEF Followed

\* A tool moves for another prompt.
LEMMA FollowedAside ==
  ASSUME AskTypes, WatchTypes, NEW p \in Prompts, Followed(p), NEW q \in Prompts, to[q] # to[p], UNCHANGED <<to, log, saw, note>>,
         watching' = watching \/ (\E x : watching' = [watching EXCEPT ![to[q]] = x]),
         offset' = offset \/ (\E x : offset' = [offset EXCEPT ![q] = x]),
         prompt' = prompt \/ (\E x : prompt' = [prompt EXCEPT ![q] = x]),
         sent' = sent \/ sent' = [sent EXCEPT ![to[q]] = Append(@, q)]
  PROVE  Followed(p)'
<1>1. to[p] \in Conversations /\ q # p
  BY DEF AskTypes
<1>2. watching'[to[p]] = watching[to[p]] /\ offset'[p] = offset[p]
  BY <1>1 DEF WatchTypes
<1>3. \A r \in Prompts : to[r] = to[p] => prompt'[r] = prompt[r]
  BY DEF AskTypes
<1>4. sent'[to[p]] = sent[to[p]]
  BY <1>1 DEF AskTypes
<1>5. \A r \in Prompts : Shows("user", r) => Shows("user", r)'
  BY DEF Shows
<1>6. Alone(p)'
  BY <1>3, <1>4, <1>5, AloneStays DEF Followed, SentTo
<1> QED BY <1>2, <1>6 DEF Followed

\* A tool leaves a prompt whose answer is not held its watch, or gives it one.
LEMMA WatchedByTools ==
  ASSUME AskTypes, WatchTypes, Offered, SentOnce, TurnsInOrder, Unwatched, Watched, ToolsMove,
         NEW p \in Prompts, p \notin Held, p \notin forgiven', prompt'[p] \in {"watched", "asked"}
  PROVE  Followed(p)'
<1>0. to[p] \in Conversations /\ \A q \in Prompts : to[q] \in Conversations
  BY DEF AskTypes
<1>1. ASSUME NEW q \in Prompts, TurnStarts(q) \/ TurnEnds(q) PROVE Followed(p)'
  <2>1. prompt' = prompt
    BY <1>1 DEF TurnStarts, TurnEnds, Says
  <2>2. Followed(p)
    BY <2>1 DEF Watched
  <2> QED BY <1>1, <2>2, FollowedInTurn
<1>2. ASSUME NEW q \in Prompts, NEW at, Registers(q, at), NEW s, prompt' = [prompt EXCEPT ![q] = s], UNCHANGED <<to, sent, log>>, q # p
      PROVE  Followed(p)'
  <2>1. prompt'[p] = prompt[p]
    BY <1>2 DEF AskTypes
  <2>2. Followed(p)
    BY <2>1 DEF Watched
  <2>3. to[q] # to[p]
    <3>1. \/ handed /\ offer = watching[to[q]]
          \/ (IF watching[to[q]] = 0 THEN {} ELSE {watching[to[q]], note[watching[to[q]]]} \ {0}) \subseteq forgiven'
      BY <1>2 DEF Registers
    <3> QED BY <2>2, <3>1, WatchStays
  <2>4. /\ UNCHANGED <<saw, note>> /\ watching' = [watching EXCEPT ![to[q]] = q] /\ offset' = [offset EXCEPT ![q] = at]
    BY <1>2 DEF Registers
  <2> QED BY <1>2, <2>2, <2>3, <2>4, FollowedAside
<1>3. ASSUME NEW q \in Prompts, Watch(q) PROVE Followed(p)'
  <2>1. /\ UNCHANGED <<to, sent, log>> /\ prompt[q] = "new" /\ prompt' = [prompt EXCEPT ![q] = "watched"]
        /\ Registers(q, Len(log[to[q]]))
    BY <1>3 DEF Watch
  <2>2. CASE q = p
    <3>1. log[to[p]] \in Seq(Line) /\ Len(log[to[p]]) \in Nat
      BY <1>0 DEF AskTypes
    <3>2. \A i \in DOMAIN log[to[p]] : log[to[p]][i][2] # p
      BY <2>1, <2>2, NoLineYet
    <3>3. Reads(p, log[to[p]], Len(log[to[p]]), FALSE)
      BY <3>1, <3>2, ReadsAtTheEnd
    <3> QED BY <2>1, <2>2, <3>1, <3>3, AWatchBegins
  <2>3. CASE q # p
    BY <1>2, <2>1, <2>3
  <2> QED BY <2>2, <2>3
<1>4. ASSUME NEW q \in Prompts, WatchBegun(q) PROVE Followed(p)'
  <2>1. /\ UNCHANGED <<to, sent, log>> /\ prompt[q] = "written" /\ prompt' = [prompt EXCEPT ![q] = "asked"] /\ Registers(q, 0)
    BY <1>4 DEF WatchBegun, WatchBegunFrom
  <2>2. CASE q = p
    <3>1. log[to[p]] \in Seq(Line) /\ sent[to[p]] \in Seq(Prompts) /\ Orderly(log[to[p]], sent[to[p]])
      BY <1>0 DEF AskTypes, TurnsInOrder
    <3>2. sent[to[p]] # <<>> /\ sent[to[p]][1] = p
      BY <2>1, <2>2 DEF SentOnce
    <3>3. Reads(p, log[to[p]], 0, FALSE)
      BY <3>1, <3>2, ReadsFromTheStart
    <3> QED BY <2>1, <2>2, <3>3, AWatchBegins
  <2>3. CASE q # p
    BY <1>2, <2>1, <2>3
  <2> QED BY <2>2, <2>3
<1>5. ASSUME NEW q \in Prompts, WritePrompt(q) PROVE Followed(p)'
  <2>1. /\ UNCHANGED <<to, log, watches>> /\ prompt[q] = "watched"
        /\ \/ prompt' = [prompt EXCEPT ![q] = "asked"] /\ sent' = [sent EXCEPT ![to[q]] = Append(@, q)]
           \/ prompt' = [prompt EXCEPT ![q] = "refused"] /\ UNCHANGED sent
    BY <1>5 DEF WritePrompt
  <2>2. prompt[p] \in {"watched", "asked"}
    BY <2>1 DEF AskTypes
  <2>3. Followed(p)
    BY <2>2 DEF Watched
  <2>4. CASE q = p
    <3>1. sent' = [sent EXCEPT ![to[p]] = Append(@, p)] /\ prompt' = [prompt EXCEPT ![p] = "asked"]
      BY <2>1, <2>4 DEF AskTypes
    <3>2. ToSet(sent'[to[p]]) = SentTo(to[p]) \cup {p}
      BY <3>1, SentGrows, Zenon
    <3>3. \A r \in Prompts \ {p} : prompt'[r] = prompt[r]
      BY <3>1 DEF AskTypes
    <3>4. \A r \in Prompts : Shows("user", r) => Shows("user", r)'
      BY <2>1 DEF Shows
    <3>5. Alone(p)'
      BY <2>1, <2>3, <3>2, <3>3, <3>4, AloneStays DEF Followed
    <3> QED BY <2>1, <2>3, <3>5 DEF Followed, watches
  <2>5. CASE q # p
    <3>1. to[q] # to[p]
      BY <2>1, <2>3, <2>5 DEF Followed, Alone
    <3>2. UNCHANGED <<saw, note, watching, offset>>
      BY <2>1 DEF watches
    <3> QED BY <2>1, <2>3, <3>1, <3>2, FollowedAside
  <2> QED BY <2>4, <2>5
<1>5a. ASSUME NEW q \in Prompts, WriteElsewhere(q) PROVE Followed(p)'
  <2>1. UNCHANGED <<to, sent, log, watches>> /\ prompt[q] = "watched" /\ prompt' = [prompt EXCEPT ![q] = "over"]
    BY <1>5a DEF WriteElsewhere
  <2>2. q # p /\ prompt'[p] = prompt[p]
    BY <2>1 DEF AskTypes
  <2>3. Followed(p)
    BY <2>2 DEF Watched
  <2>4. to[q] # to[p]
    BY <2>1, <2>2, <2>3 DEF Followed, Alone
  <2>5. UNCHANGED <<saw, note, watching, offset>>
    BY <2>1 DEF watches
  <2> QED BY <2>1, <2>3, <2>4, <2>5, FollowedAside
<1>6. ASSUME NEW c \in Conversations, Forgets(c), UNCHANGED <<to, sent, log, offset, saw, note>>,
             prompt' = prompt \/ \E q \in Prompts : to[q] = c /\ prompt' = [prompt EXCEPT ![q] = "over"]
      PROVE  Followed(p)'
  <2>1. prompt'[p] = prompt[p] /\ \A q \in Prompts : to[q] # c => prompt'[q] = prompt[q]
    BY <1>6 DEF AskTypes
  <2>2. Followed(p)
    BY <2>1 DEF Watched
  <2>3. /\ (IF watching[c] = 0 THEN {} ELSE {watching[c], note[watching[c]]} \ {0}) \subseteq forgiven'
        /\ watching' = [watching EXCEPT ![c] = 0]
    BY <1>6 DEF Forgets
  <2>4. c # to[p]
    BY <2>2, <2>3, WatchStays
  <2>5. watching'[to[p]] = p
    BY <1>0, <2>2, <2>3, <2>4 DEF WatchTypes, Followed
  <2>6. \A r \in Prompts : Shows("user", r) => Shows("user", r)'
    BY <1>6 DEF Shows
  <2>7. ToSet(sent'[to[p]]) \subseteq SentTo(to[p])
    BY <1>6 DEF SentTo
  <2>8. Alone(p)'
    BY <1>6, <2>1, <2>2, <2>4, <2>6, <2>7, AloneStays DEF Followed
  <2> QED BY <1>6, <2>2, <2>5, <2>8 DEF Followed
<1>7. ASSUME NEW q \in Prompts, Unwatch(q) PROVE Followed(p)'
  <2>1. prompt' = [prompt EXCEPT ![q] = "over"] /\ Forgets(to[q]) /\ UNCHANGED <<to, sent, log, offset, saw, note>>
    BY <1>7 DEF Unwatch
  <2> QED BY <1>0, <1>6, <2>1
<1>8. ASSUME NEW q \in Prompts, StartConversation(q) PROVE Followed(p)'
  <2>1. /\ UNCHANGED <<to, log, watches>> /\ to[q] \notin begun
        /\ prompt' = [prompt EXCEPT ![q] = "written"] /\ sent' = [sent EXCEPT ![to[q]] = Append(@, q)]
    BY <1>8 DEF StartConversation
  <2>2. q # p /\ prompt'[p] = prompt[p]
    BY <2>1 DEF AskTypes
  <2>3. Followed(p) /\ to[p] \in begun
    BY <2>2 DEF Watched, SentOnce
  <2>4. UNCHANGED <<saw, note, watching, offset>>
    BY <2>1 DEF watches
  <2> QED BY <2>1, <2>3, <2>4, FollowedAside
<1>9. ASSUME NEW c \in Conversations, StopConversation(c) PROVE Followed(p)'
  <2>1. Forgets(c) /\ UNCHANGED <<to, sent, log, prompt, offset, saw, note>>
    BY <1>9 DEF StopConversation, asking
  <2> QED BY <1>6, <2>1
<1> QED
  BY <1>1, <1>3, <1>4, <1>5, <1>5a, <1>7, <1>8, <1>9 DEF ToolsMove, ToolStep

\* The watcher reads on for it, finds its answer, or hands the answer over.
LEMMA WatchedByTheWatcher ==
  ASSUME AskTypes, WatchTypes, PollTypes, Offered, TurnsInOrder, Watched, WatcherStep,
         NEW p \in Prompts, p \notin Held, p \notin forgiven', prompt'[p] \in {"watched", "asked"}
  PROVE  Followed(p)'
<1>1. UNCHANGED <<to, prompt, sent, log>>
  BY WatcherFrame DEF asking
<1>2. Followed(p)
  BY <1>1 DEF Watched
<1>3. Alone(p)'
  <2>1. \A r \in Prompts : Shows("user", r) => Shows("user", r)'
    BY <1>1 DEF Shows
  <2>2. ToSet(sent'[to[p]]) \subseteq SentTo(to[p])
    BY <1>1 DEF SentTo
  <2> QED BY <1>1, <1>2, <2>1, <2>2, AloneStays DEF Followed
<1>4. ASSUME watching'[to[p]] = watching[to[p]], note'[p] = note[p], offset'[p] = offset[p], saw'[p] = saw[p] PROVE Followed(p)'
  BY <1>1, <1>2, <1>3, <1>4 DEF Followed
<1>5. UNCHANGED watches => Followed(p)'
  BY <1>4 DEF watches
<1>6. CASE BeginPollRound \/ SpeakNow \/ HoldBack \/ Later \/ SendNote
  BY <1>5, <1>6 DEF BeginPollRound, SpeakNow, HoldBack, Later, SendNote
<1>7. CASE DropWatch
  <2>1. handed /\ UNCHANGED <<offset, saw, note>> /\ watching' = Forgo(offer)
    BY <1>7 DEF DropWatch
  <2>2. offer # p
    BY <1>2, <2>1 DEF Offered, Followed
  <2>3. watching'[to[p]] = watching[to[p]]
    BY <1>2, <2>1, <2>2 DEF Forgo, Followed, WatchTypes
  <2> QED BY <1>4, <2>1, <2>3
<1>8. ASSUME NEW w \in Prompts, ReadTail(w), w # p PROVE Followed(p)'
  <2>1. watching' = watching \/ watching' = Forgo(w)
    BY <1>8 DEF ReadTail
  <2>2. \E x, y, z : note' = [note EXCEPT ![w] = x] /\ saw' = [saw EXCEPT ![w] = y] /\ offset' = [offset EXCEPT ![w] = z]
    BY <1>8 DEF ReadTail
  <2>3. note'[p] = note[p] /\ offset'[p] = offset[p] /\ saw'[p] = saw[p]
    BY <1>8, <2>2 DEF WatchTypes
  <2>4. watching'[to[p]] = watching[to[p]]
    <3>1. Forgo(w) = watching \/ (watching[to[w]] = w /\ Forgo(w) = [watching EXCEPT ![to[w]] = 0])
      BY DEF Forgo
    <3>2. watching[to[p]] = p
      BY <1>2 DEF Followed
    <3>3. watching[to[w]] = w => to[w] # to[p]
      BY <1>8, <3>2
    <3>4. CASE watching' = [watching EXCEPT ![to[w]] = 0] /\ to[w] # to[p]
      BY <3>4 DEF WatchTypes
    <3> QED BY <2>1, <3>1, <3>3, <3>4
  <2> QED BY <1>4, <2>3, <2>4
<1>9. CASE ReadTail(p)
  <2> DEFINE l == log[to[p]]
             o == offset[p]
             h == saw[p]
             found == IF note[p] = 0 THEN Finds(p) ELSE note[p]
             more == NowSeen(l, o, h)
             ends == EndsAfter(l, o, h)
  <2>1. /\ note' = [note EXCEPT ![p] = found] /\ watching' = watching
        /\ offset' = [offset EXCEPT ![p] = IF note[p] = 0 THEN Len(l) ELSE @]
        /\ saw' = [saw EXCEPT ![p] = more]
    BY <1>9 DEF ReadTail, NowSeen
  <2>2. l \in Seq(Line) /\ Orderly(l, sent[to[p]])
    BY DEF AskTypes, TurnsInOrder
  <2>3. o \in Nat /\ h \in BOOLEAN
    BY Zenon DEF WatchTypes
  <2> HIDE DEF more, found
  <2>4. note'[p] = found /\ saw'[p] = more /\ offset'[p] = IF note[p] = 0 THEN Len(l) ELSE offset[p]
    BY <2>1 DEF WatchTypes
  <2>5. CASE note[p] # 0
    <3>1. found = p
      BY <1>2, <2>5 DEF Followed, found
    <3> QED BY <1>1, <1>2, <1>3, <2>1, <2>4, <3>1, Constants DEF Followed
  <2>6. CASE note[p] = 0
    <3>1. found = Finds(p) /\ Reads(p, l, o, h)
      BY <1>2, <2>6 DEF Followed, found
    <3>2. /\ ends = {} => Finds(p) = 0
          /\ ends # {} => \E i \in ends : Finds(p) = l[i][2] /\ \A j \in ends : i <= j
      BY FoundOrNot, Zenon DEF EndsAfter
    <3> HIDE DEF l, o, h
    <3>3. Orderly(l, sent[to[p]]) /\ l \in Seq(Line) /\ o \in Nat /\ h \in BOOLEAN
      BY <2>2, <2>3
    <3>4. /\ \A i \in ends : (\A j \in ends : i <= j) => l[i][2] = p
          /\ ends = {} => Reads(p, l, Len(l), more)
      BY <3>1, <3>3, ReadsOn, Zenon DEF more
    <3> HIDE DEF ends
    <3>5. CASE ends # {}
      <4>1. found = p
        BY <3>1, <3>2, <3>4, <3>5
      <4> QED BY <1>1, <1>2, <1>3, <2>1, <2>4, <4>1, Constants DEF Followed
    <3>6. CASE ends = {}
      <4>1. found = 0
        BY <3>1, <3>2, <3>6
      <4>2. Reads(p, l, offset'[p], saw'[p])
        BY <2>4, <2>6, <3>4, <3>6 DEF l
      <4>3. Reads(p, log'[to'[p]], offset'[p], saw'[p])
        BY <1>1, <4>2 DEF l
      <4> QED BY <1>1, <1>2, <1>3, <2>1, <2>4, <4>1, <4>3 DEF Followed
    <3> QED BY <3>5, <3>6
  <2> QED BY <2>5, <2>6
<1> QED
  BY <1>6, <1>7, <1>8, <1>9 DEF WatcherStep, HandOver

\* A prompt whose answer is not held goes on having its watch.
LEMMA WatchedKept ==
  ASSUME AnswersInv, AnswersNext
  PROVE  Watched'
<1>1. Held \subseteq Held'
  BY HeldStays DEF AnswersInv, Typed
<1>2. SUFFICES ASSUME NEW p \in Prompts, p \notin Held', prompt'[p] \in {"watched", "asked"} PROVE Followed(p)'
  BY DEF Watched
<1>3. p \notin Held /\ p \notin forgiven'
  BY <1>1, <1>2 DEF Held, Going
<1>4. CASE ToolsMove
  BY <1>2, <1>3, <1>4, WatchedByTools DEF AnswersInv, Typed
<1>5. CASE WatcherStep
  BY <1>2, <1>3, <1>5, WatchedByTheWatcher DEF AnswersInv, Typed
<1>6. CASE CentralMoves
  <2>1. UNCHANGED <<to, prompt, sent, log, watching, offset, saw, note>>
    BY <1>6, CentralFrame DEF asking, watches
  <2>2. Followed(p)
    BY <1>2, <1>3, <2>1 DEF AnswersInv, Watched
  <2>3. \A r \in Prompts : Shows("user", r) => Shows("user", r)'
    BY <2>1 DEF Shows
  <2>4. ToSet(sent'[to[p]]) \subseteq SentTo(to[p])
    BY <2>1 DEF SentTo
  <2>5. Alone(p)'
    BY <2>1, <2>2, <2>3, <2>4, AloneStays DEF Followed
  <2> QED BY <2>1, <2>2, <2>5 DEF Followed
<1> QED BY <1>4, <1>5, <1>6, EveryStep

-----------------------------------------------------------------------------
(* The invariant.                                                           *)

\* The invariant holds at the start: nothing was asked.
LEMMA AnswersStart == AnswersInit => AnswersInv
<1> SUFFICES ASSUME AnswersInit PROVE AnswersInv
  OBVIOUS
<1>1. Typed
  BY TypesStart
<1>2. OneText /\ Sending /\ Resting
  <2>1. \A n \in Ports : flash[n] = <<>>
    BY DEF AnswersInit
  <2>2. hearing = {} /\ quit = "no"
    BY DEF AnswersInit
  <2> QED BY <2>1, <2>2 DEF OneText, Sending, Resting
<1>3. offer = 0 /\ via = 0 /\ handed = FALSE
  BY DEF AnswersInit
<1>4. Offered
  BY <1>3 DEF Offered
<1>5. 0 \in Held
  <2>1. 0 \in inbox \cup arrived
    BY DEF AnswersInit
  <2> QED BY <2>1 DEF Held, Going
<1>6. \A p \in Prompts : prompt[p] = "new"
  BY DEF AnswersInit
<1>7. \A c \in Conversations : sent[c] = <<>> /\ log[c] = <<>>
  BY DEF AnswersInit
<1>8. \A c \in Conversations : DOMAIN sent[c] = {} /\ DOMAIN log[c] = {} /\ sent[c] = <<>>
  BY <1>7
<1>9. SentOnce
  BY <1>6, <1>8 DEF SentOnce
<1>10. TurnsInOrder
  BY <1>8 DEF TurnsInOrder, Orderly
<1>11. Unwatched
  <2>1. \A p \in Prompts : ~saw[p] /\ note[p] = 0 /\ p \notin round
    BY DEF AnswersInit
  <2>2. \A c \in Conversations : watching[c] = 0
    BY DEF AnswersInit
  <2> QED BY <2>1, <2>2, Constants DEF Unwatched
<1>12. Watched
  BY <1>6 DEF Watched
<1> QED BY <1>1, <1>2, <1>4, <1>5, <1>9, <1>10, <1>11, <1>12 DEF AnswersInv

\* Every step keeps the invariant.
LEMMA AnswersInvKept ==
  ASSUME AnswersInv, AnswersNext
  PROVE  AnswersInv'
<1>0. /\ AskTypes /\ WatchTypes /\ PollTypes /\ handed \in BOOLEAN /\ BoxTypes /\ TextTypes /\ PortTypes /\ StateTypes
      /\ OneText /\ Sending /\ Resting /\ Offered /\ 0 \in Held /\ SentOnce /\ TurnsInOrder /\ Unwatched /\ Watched
  BY DEF AnswersInv, Typed
<1>1. AskTypes' /\ WatchTypes' /\ PollTypes' /\ handed' \in BOOLEAN
  BY <1>0, AskTypesKept, WatchTypesKept, PollTypesKept
<1>2. BoxTypes' /\ TextTypes'
  BY <1>0, BoxTypesKept, TextTypesKept
<1>3. PortTypes' /\ StateTypes' /\ OneText'
  BY <1>0, PortTypesKept, StateTypesKept, OneTextKept
<1>4. Sending' /\ Resting'
  BY <1>0, SendingKept, RestingKept
<1>5. Offered' /\ 0 \in Held'
  BY <1>0, OfferedKept
<1>6. SentOnce' /\ TurnsInOrder' /\ Unwatched'
  BY <1>0, SentOnceKept, TurnsInOrderKept, UnwatchedKept
<1>7. Watched'
  BY WatchedKept
<1> QED BY <1>1, <1>2, <1>3, <1>4, <1>5, <1>6, <1>7 DEF AnswersInv, Typed

\* So does a step that changes nothing.
LEMMA AnswersInvStutters ==
  ASSUME AnswersInv, UNCHANGED answerVars
  PROVE  AnswersInv'
<1>1. /\ UNCHANGED <<to, prompt, begun, sent, log>> /\ UNCHANGED <<watching, offset, saw, note>>
      /\ UNCHANGED <<round, offer, via, handed>> /\ UNCHANGED <<inbox, posts, forgiven>>
      /\ UNCHANGED <<digests, pending, port, stopping, closing, hearing, quit>>
      /\ UNCHANGED <<mode, status, jobs, flash, thread, arrived>>
  BY DEF answerVars, asking, watches, poller, task, centrals
<1>2. AskTypes' /\ WatchTypes' /\ PollTypes' /\ handed' \in BOOLEAN
  BY <1>1 DEF AnswersInv, Typed, AskTypes, WatchTypes, PollTypes
<1>3. BoxTypes' /\ TextTypes' /\ PortTypes' /\ StateTypes'
  BY <1>1 DEF AnswersInv, Typed, BoxTypes, TextTypes, PortTypes, StateTypes
<1>4. Held' = Held /\ Going' = Going /\ FailedTexts' = FailedTexts
  BY <1>1 DEF Held, Going, Flying, Back, Waiting, FailedTexts
<1>5. OneText' /\ Sending' /\ Resting' /\ Offered' /\ 0 \in Held'
  <2>1. OneText' /\ Sending' /\ Offered' /\ 0 \in Held'
    BY <1>1, <1>4 DEF AnswersInv, OneText, Sending, Offered
  <2>2. Resting'
    BY <1>1, <1>4 DEF AnswersInv, Resting, Kept
  <2> QED BY <2>1, <2>2
<1>6. SentOnce' /\ TurnsInOrder'
  BY <1>1 DEF AnswersInv, SentOnce, TurnsInOrder, SentTo
<1>7. Unwatched'
  BY <1>1 DEF AnswersInv, Unwatched
<1>8. \A p \in Prompts : Followed(p) => Followed(p)'
  BY <1>1 DEF Followed, Alone, SentTo, Shows
<1>9. Watched'
  BY <1>1, <1>4, <1>8 DEF AnswersInv, Watched
<1> QED BY <1>2, <1>3, <1>5, <1>6, <1>7, <1>9 DEF AnswersInv, Typed

\* The invariant holds in every reachable state.
THEOREM AnswersInvHolds == AnswersSpec => []AnswersInv
<1>1. AnswersInit => AnswersInv
  BY AnswersStart
<1>2. AnswersInv /\ [AnswersNext]_answerVars => AnswersInv'
  BY AnswersInvKept, AnswersInvStutters
<1> QED BY <1>1, <1>2, PTL DEF AnswersSpec

\* Every variable keeps its type: what is on the watches, with the poller, in the inbox and with the centrals.
THEOREM AnswersTypeCorrect == AnswersSpec => []AnswersTypeOK
<1>1. AnswersInv => AnswersTypeOK
  BY DEF AnswersInv, Typed, WatchTypes, PollTypes, BoxTypes, PortTypes, StateTypes, AnswersTypeOK
<1> QED BY <1>1, AnswersInvHolds, PTL

\* What is held is where AnswersKept looks for it.
LEMMA HeldIsFound ==
  ASSUME TextTypes
  PROVE  Held \subseteq arrived \cup forgiven \cup inbox \cup Moving \cup Carried(ToSet(pending))
<1>1. \A n \in Ports : Queued(n) = ToSet(jobs[n]) \cup ToSet(flash[n])
  <2> HIDE DEF Text
  <2> QED BY ElementsJoined DEF TextTypes, Queued
<1>2. Flying \subseteq Moving
  BY <1>1 DEF Flying, Moving, Carried
<1>3. Back \subseteq Moving /\ hearing \subseteq Moving
  BY DEF Back, Moving, Carried
<1>4. Waiting \subseteq Carried(ToSet(pending))
  BY DEF Waiting, Carried
<1> QED BY <1>2, <1>3, <1>4 DEF Held, Going

\* An answer the assistant was asked to wait for is never lost on the way: from the end of its turn it is

\* ahead of a watch, noted, being sent, waiting for the next central, in the inbox, or was heard.
THEOREM NoAnswerIsLost == AnswersSpec => []AnswersKept
<1>1. ASSUME AnswersInv, NEW a \in Answers, a \notin Held PROVE a # 0
  BY <1>1 DEF AnswersInv
<1>2. ASSUME AnswersInv, NEW a \in Prompts, a \notin Held, prompt[a] = "asked", Ended(a)
      PROVE  to[a] \in Conversations /\ watching[to[a]] # 0 /\ WatchedBy(watching[to[a]], a)
  <2>1. AskTypes /\ WatchTypes /\ TurnsInOrder
    BY <1>2 DEF AnswersInv, Typed
  <2>2. Followed(a)
    BY <1>2 DEF AnswersInv, Watched
  <2>3. to[a] \in Conversations /\ watching[to[a]] = a /\ a # 0 /\ note[a] \in {0, a}
    BY <2>1, <2>2, Constants DEF AskTypes, Followed
  <2>4. ASSUME note[a] = 0 PROVE Finds(a) = a
    <3> DEFINE l == log[to[a]]
               o == offset[a]
               h == saw[a]
               ends == EndsAfter(l, o, h)
    <3>1. Orderly(l, sent[to[a]]) /\ l \in Seq(Line) /\ Reads(a, l, o, h)
      BY <2>1, <2>2, <2>3, <2>4 DEF TurnsInOrder, AskTypes, Followed
    <3>2. o \in Nat /\ h \in BOOLEAN
      BY <2>1, Zenon DEF WatchTypes
    <3>3. ends # {} => \E i \in ends : Finds(a) = l[i][2] /\ \A j \in ends : i <= j
      BY <2>1, FoundOrNot, Zenon DEF EndsAfter
    <3>4. \E k \in DOMAIN l : l[k] = <<"end", a>>
      BY <1>2 DEF Ended, Shows
    <3> HIDE DEF l, o, h
    <3>5. /\ \A i \in ends : (\A j \in ends : i <= j) => l[i][2] = a
          /\ \A k \in DOMAIN l : l[k] = <<"end", a>> => k \in ends
      BY <3>1, <3>2, ReadsOn, Zenon
    <3> HIDE DEF ends
    <3> QED BY <3>3, <3>4, <3>5
  <2> QED BY <2>3, <2>4 DEF WatchedBy
<1>3. AnswersInv => AnswersKept
  <2>1. AnswersInv => Held \subseteq arrived \cup forgiven \cup inbox \cup Moving \cup Carried(ToSet(pending))
    BY HeldIsFound DEF AnswersInv, Typed
  <2>2. \A a \in Answers : a # 0 => a \in Prompts
    BY Constants
  <2> QED BY <1>1, <1>2, <2>1, <2>2 DEF AnswersKept
<1> QED BY <1>3, AnswersInvHolds, PTL

=============================================================================
