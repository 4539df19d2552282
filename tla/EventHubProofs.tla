--------------------------- MODULE EventHubProofs ---------------------------
(***************************************************************************)
(* Proofs about EventHub, for every number of clients, every capacity of   *)
(* the ring and every bound.                                               *)
(*                                                                         *)
(* The inductive invariant has two layers.  PollInv relates ids and long   *)
(* polls: which id a poll was made with, that the daemon knows the id of a *)
(* poll in flight and counts it.  StreamInv relates the journal, the       *)
(* answers on their way, and what the clients hold: cursors, views, cues   *)
(* and results.  Each layer is proved over steps that are told only what   *)
(* it has to know of them: PollStep and FeedStep say what a step of Next   *)
(* does to it, PollSteps and FeedSteps that every step is one of these.    *)
(***************************************************************************)
EXTENDS EventHub, TLAPS

Polling(c) == pc[c] \in {"waiting", "stale", "answered"}

\* The types of what TypeOK leaves out.
EntryOK == [kind : {"state", "result", "notice", "shutdown"}, op : 0..MaxChanges, cue : 0..MaxIds, clip : 0..MaxIds]
AnswerOK == [reset : BOOLEAN, events : SUBSET Nat, cursor : Nat, op : 0..MaxChanges, unacked : SUBSET Nat,
             leases : SUBSET Capabilities]
LogTypes ==
  /\ log \in Seq(EntryOK) /\ Len(log) <= MaxEvents /\ cues \in [1..MaxEvents -> {0, 1}]
  /\ op \in 0..MaxChanges /\ shut \in BOOLEAN /\ pending \subseteq 1..Len(log)
RegistryTypes ==
  /\ used \in 0..MaxIds /\ owner \in [Ids -> Clients \cup {Nobody}] /\ polls \in [Ids -> {0, 1}]
  /\ ghosts \subseteq Ids
LeaseTypes == holder \in [Capabilities -> 0..used]
RestTypes == silent \subseteq Ids /\ closed \in BOOLEAN
PollerTypes ==
  /\ pc \in [Clients -> {"register", "poll", "waiting", "stale", "answered"}]
  /\ id \in [Clients -> 0..used] /\ asked \in [Clients -> 0..used]
SessionTypes ==
  /\ cursor \in [Clients -> 0..Len(log)] /\ granted \in [Clients -> SUBSET Capabilities]
  /\ view \in [Clients -> 0..MaxChanges] /\ told \in [Clients -> SUBSET (1..Len(log))]
AnswerTypes ==
  /\ answer \in [Clients -> AnswerOK]
  /\ \A c \in Clients : answer[c].cursor <= Len(log) /\ answer[c].events \subseteq 1..Len(log)
                        /\ answer[c].unacked \subseteq 1..Len(log)

\* Ids are given out once, in their order, and an id the daemon knows is its client's.
IdsOwned ==
  /\ \A i \in Ids : owner[i] # Nobody => i <= used
  /\ \A c \in Clients : id[c] # 0 => owner[id[c]] \in {c, Nobody}
  /\ \A c \in Clients : asked[c] # 0 => owner[asked[c]] \in {c, Nobody}
  /\ \A c, d \in Clients : id[c] # 0 /\ id[c] = id[d] => c = d

\* A poll is made with the id of the session, which may be dropped meanwhile; the daemon knows the id
\* of a poll in flight, and counts it.
PollOfSession ==
  /\ \A c \in Clients : IF Polling(c) THEN asked[c] # 0 /\ id[c] \in {0, asked[c]} ELSE asked[c] = 0
  /\ \A c \in Clients : pc[c] = "register" => id[c] = 0
InFlight(i) == i \in ghosts \/ \E c \in Clients : pc[c] = "waiting" /\ asked[c] = i
PollsKnown ==
  /\ \A c \in Clients : pc[c] = "waiting" => owner[asked[c]] = c
  /\ \A i \in ghosts : owner[i] # Nobody /\ \A c \in Clients : id[c] # i /\ asked[c] # i
PollsCounted == \A i \in Ids : polls[i] = 1 <=> InFlight(i)

\* The state that the entries up to the n-th leave the engine in.
StateAt(l, n) == IF n = 0 THEN 0 ELSE l[n].op

\* States only move forward, each change with an entry of its own, until the hub is shut down.
StatesLogged ==
  /\ \A n \in 0..Len(log), m \in 0..Len(log) : m <= n => StateAt(log, m) <= StateAt(log, n)
  /\ \A n \in 0..Len(log), m \in 0..Len(log) :
       m < n => \/ StateAt(log, n) = StateAt(log, m)
                \/ \E k \in m + 1..n : log[k].kind = "state" /\ log[k].op = StateAt(log, n)
  /\ StateAt(log, Len(log)) <= op /\ (~shut => StateAt(log, Len(log)) = op)

\* An answer that will be handled takes up where the session's cursor stands.
AnswersFollow ==
  \A c \in Clients : pc[c] = "answered" /\ id[c] = asked[c] =>
    /\ cursor[c] <= answer[c].cursor
    /\ ~answer[c].reset => answer[c].events = cursor[c] + 1..answer[c].cursor
    /\ answer[c].reset =>
         /\ answer[c].op >= StateAt(log, answer[c].cursor)
         /\ ~shut => answer[c].op = StateAt(log, answer[c].cursor)
         /\ \A n \in pending : n <= answer[c].cursor => n \in answer[c].unacked

\* A cue that was played is behind the cursor of the client that plays it, if it was not the daemon.
CuesBehind ==
  /\ \A n \in 1..MaxEvents : n > Len(log) => cues[n] = 0
  /\ \A n \in 1..Len(log), c \in Clients :
       log[n].cue # 0 /\ cues[n] = 1 /\ id[c] = log[n].cue => n <= cursor[c]
  /\ \A n \in 1..Len(log) : log[n].cue <= used

ViewsFollow ==
  \A c \in Clients : id[c] # 0 =>
    /\ view[c] >= StateAt(log, cursor[c])
    /\ ~shut => view[c] = StateAt(log, cursor[c])

\* The holder of the clipboard was granted it in this session, and gets what came since.
ResultsFollow ==
  /\ \A n \in pending : log[n].kind = "result"
  /\ \A c \in Clients : id[c] # 0 /\ holder["clipboard"] = id[c] =>
       /\ "clipboard" \in granted[c]
       /\ \A n \in pending : n > cursor[c] => log[n].clip = id[c]

-----------------------------------------------------------------------------
(* Ids and polls.                                                           *)

PollInv == RegistryTypes /\ PollerTypes /\ IdsOwned /\ PollOfSession /\ PollsKnown /\ PollsCounted

\* What the daemon's record of ids and polls, and the pollers, see of a step.
pollVars == <<used, owner, polls, ghosts, pc, id, asked>>

Forgets(i) ==
  /\ polls[i] = 0 /\ owner' = [owner EXCEPT ![i] = Nobody]
  /\ UNCHANGED <<used, polls, ghosts, pc, id, asked>>
GhostOver(i) ==
  /\ i \in ghosts /\ ghosts' = ghosts \ {i} /\ polls' = [polls EXCEPT ![i] = 0]
  /\ UNCHANGED <<used, owner, pc, id, asked>>
Enters(c) ==
  /\ pc[c] = "register" /\ used < MaxIds
  /\ used' = used + 1 /\ id' = [id EXCEPT ![c] = used + 1] /\ pc' = [pc EXCEPT ![c] = "poll"] /\ asked' = asked
  /\ owner' = [i \in Ids |-> IF i = used + 1 THEN c ELSE IF owner[i] = c THEN Nobody ELSE owner[i]]
  /\ polls' = [i \in Ids |-> IF owner[i] = c THEN 0 ELSE polls[i]]
  /\ ghosts' = {i \in ghosts : owner[i] # c}
Asks(c) ==
  /\ pc[c] = "poll" /\ id[c] # 0 /\ owner[id[c]] # Nobody
  /\ pc' = [pc EXCEPT ![c] = "waiting"] /\ asked' = [asked EXCEPT ![c] = id[c]]
  /\ polls' = [polls EXCEPT ![id[c]] = 1]
  /\ UNCHANGED <<used, owner, ghosts, id>>
Told(c) ==
  /\ pc[c] = "waiting" /\ polls' = [polls EXCEPT ![asked[c]] = 0]
  /\ \E s \in {"stale", "answered"} : pc' = [pc EXCEPT ![c] = s]
  /\ UNCHANGED <<used, owner, ghosts, id, asked>>
StartsOver(c) ==
  /\ pc[c] = "stale" /\ pc' = [pc EXCEPT ![c] = "answered"]
  /\ UNCHANGED <<used, owner, polls, ghosts, id, asked>>
\* It drops its session or it goes on with it.
GoesOn(c) ==
  /\ pc[c] \in {"poll", "answered"} /\ asked' = [asked EXCEPT ![c] = 0]
  /\ \/ pc' = [pc EXCEPT ![c] = "register"] /\ id' = [id EXCEPT ![c] = 0]
     \/ pc' = [pc EXCEPT ![c] = "poll"] /\ id' = id
  /\ UNCHANGED <<used, owner, polls, ghosts>>
Dropped(c) == id' = [id EXCEPT ![c] = 0] /\ UNCHANGED <<used, owner, polls, ghosts, pc, asked>>
Dies(c) ==
  /\ pc' = [pc EXCEPT ![c] = "register"] /\ id' = [id EXCEPT ![c] = 0] /\ asked' = [asked EXCEPT ![c] = 0]
  /\ used' = used
  /\ \/ /\ id[c] # 0 /\ owner' = [owner EXCEPT ![id[c]] = Nobody] /\ polls' = [polls EXCEPT ![id[c]] = 0]
        /\ ghosts' = ghosts
     \/ /\ ghosts' = IF pc[c] = "waiting" THEN ghosts \cup {asked[c]} ELSE ghosts
        /\ UNCHANGED <<owner, polls>>

PollStep ==
  \/ UNCHANGED pollVars
  \/ \E i \in Ids : Forgets(i) \/ GhostOver(i)
  \/ \E c \in Clients :
       Enters(c) \/ Asks(c) \/ Told(c) \/ StartsOver(c) \/ GoesOn(c) \/ Dropped(c) \/ Dies(c)

\* The assumption on the constants, in the form the provers use best.
LEMMA HubBounds ==
  /\ Capacity \in Nat /\ MaxEvents \in Nat /\ MaxIds \in Nat /\ MaxChanges \in Nat
  /\ Capacity > 0 /\ MaxIds > 0 /\ Nobody \notin Clients
<1>1. /\ Capacity \in Nat \ {0} /\ MaxEvents \in Nat \ {0} /\ MaxIds \in Nat \ {0} /\ MaxChanges \in Nat \ {0}
  BY HubAssumption
<1> QED
  BY <1>1, HubAssumption

\* The id of a session or a poll, where there is one, is an id.
LEMMA IdRange ==
  ASSUME RegistryTypes, PollerTypes, NEW c \in Clients
  PROVE  /\ id[c] # 0 => id[c] \in Ids
         /\ asked[c] # 0 => asked[c] \in Ids
  BY HubBounds DEF RegistryTypes, PollerTypes, Ids

\* An id that the daemon has forgotten has no poll in flight.
LEMMA ForgottenNotPolled ==
  ASSUME PollInv, NEW i \in Ids, owner[i] = Nobody
  PROVE  polls[i] = 0 /\ i \notin ghosts
<1>1. ~InFlight(i)
  BY HubBounds DEF PollInv, PollsKnown, InFlight
<1>2. polls[i] # 1
  BY <1>1 DEF PollInv, PollsCounted
<1> QED
  BY <1>1, <1>2 DEF PollInv, RegistryTypes, InFlight

\* What each step does to the ids and the polls.
LEMMA PollSteps ==
  ASSUME PollInv, Next
  PROVE  PollStep
<1> USE HubBounds DEF PollInv, Ids, Capabilities
<1>1. CASE SetState \/ PublishResult \/ PublishNotice \/ PublishShutdown \/ CloseJournal \/ FallSilent
  BY <1>1 DEF SetState, PublishResult, PublishNotice, PublishShutdown, CloseJournal, FallSilent, registry,
              PollStep, pollVars, session
<1>2. CASE Forgotten
  <2>1. PICK i \in Ids : owner[i] # Nobody /\ polls[i] = 0 /\ Known([owner EXCEPT ![i] = Nobody])
    BY <1>2 DEF Forgotten
  <2>2. i \notin ghosts /\ \A j \in Ids : owner[j] = Nobody => polls[j] = 0
    BY <2>1, ForgottenNotPolled DEF PollsCounted, InFlight
  <2>3. polls' = polls /\ ghosts' = ghosts
    BY <2>1, <2>2 DEF Known, RegistryTypes, PollsKnown
  <2>4. Forgets(i)
    BY <1>2, <2>1, <2>3 DEF Forgets, Forgotten, Known, session
  <2> QED
    BY <2>4 DEF PollStep
<1>3. CASE GhostEnds
  <2>1. PICK i \in ghosts : Ended(i) /\ ghosts' = ghosts \ {i}
    BY <1>3 DEF GhostEnds
  <2>2. i \in Ids /\ polls[i] = 1 /\ owner[i] # Nobody
    BY <2>1 DEF PollsCounted, PollsKnown, InFlight, RegistryTypes
  <2>3. polls' = [polls EXCEPT ![i] = 0]
    BY <2>1, <2>2 DEF Ended, RegistryTypes
  <2> QED
    BY <1>3, <2>1, <2>2, <2>3 DEF GhostOver, GhostEnds, PollStep, session
<1>4. ASSUME NEW c \in Clients, ClientStep(c) PROVE PollStep
  <2> SUFFICES \/ Enters(c) \/ Asks(c) \/ Told(c) \/ StartsOver(c) \/ GoesOn(c) \/ Dropped(c) \/ Dies(c)
               \/ UNCHANGED pollVars
    BY DEF PollStep
  <2>1. CASE Register(c)
    <3>1. /\ used < MaxIds /\ used' = used + 1
          /\ owner' = [i \in Ids |-> IF i = used + 1 THEN c ELSE IF owner[i] = c THEN Nobody ELSE owner[i]]
          /\ polls' = [i \in Ids |-> IF owner'[i] = Nobody THEN 0 ELSE polls[i]]
          /\ ghosts' = {i \in ghosts : owner'[i] # Nobody}
      BY <2>1 DEF Register, Known
    <3>2. used + 1 \in Ids /\ owner[used + 1] = Nobody /\ used + 1 \notin ghosts
      <4>1. used + 1 \in Ids
        BY <3>1 DEF RegistryTypes
      <4>2. owner[used + 1] = Nobody
        BY <4>1 DEF RegistryTypes, IdsOwned
      <4> QED
        BY <4>1, <4>2 DEF PollsKnown
    <3>3. \A j \in Ids : owner[j] = Nobody => polls[j] = 0
      BY ForgottenNotPolled
    <3>4. \A i \in Ids : i # used + 1 => (owner'[i] = Nobody <=> owner[i] = Nobody \/ owner[i] = c)
      BY <3>1
    <3>5. \A i \in Ids : (IF owner'[i] = Nobody THEN 0 ELSE polls[i]) = (IF owner[i] = c THEN 0 ELSE polls[i])
      BY <3>1, <3>2, <3>3, <3>4
    <3>6. polls' = [i \in Ids |-> IF owner[i] = c THEN 0 ELSE polls[i]]
      BY <3>1, <3>5
    <3>7. ghosts' = {i \in ghosts : owner[i] # c}
      BY <3>1, <3>2, <3>4 DEF RegistryTypes, PollsKnown
    <3> QED
      BY <2>1, <3>1, <3>6, <3>7 DEF Register, Enters
  <2>2. CASE Drop(c)
    BY <2>2 DEF Drop, registry, session, GoesOn, PollOfSession, PollerTypes, Polling
  <2>3. CASE BeginPoll(c)
    <3>1. CASE owner[id[c]] = Nobody
      BY <2>3, <3>1 DEF BeginPoll, GoesOn, PollOfSession, PollerTypes, Polling
    <3>2. CASE owner[id[c]] # Nobody
      <4>1. id[c] \in Ids
        BY <2>3, IdRange DEF BeginPoll
      <4>2. ~InFlight(id[c])
        BY <2>3, <3>2, <4>1 DEF BeginPoll, InFlight, PollsKnown, IdsOwned, PollerTypes
      <4>3. polls[id[c]] = 0
        BY <4>1, <4>2 DEF PollsCounted, RegistryTypes
      <4>4. polls' = [polls EXCEPT ![id[c]] = 1]
        BY <2>3, <3>2, <4>1, <4>3 DEF BeginPoll, RegistryTypes
      <4> QED
        BY <2>3, <3>2, <4>4 DEF BeginPoll, Asks
    <3> QED
      BY <3>1, <3>2
  <2>4. CASE Read(c) \/ WaitEnds(c) \/ ReadStale(c)
    <3>1. pc[c] = "waiting" /\ Ended(asked[c]) /\ UNCHANGED <<used, owner, ghosts, id, asked>>
      BY <2>4 DEF Read, WaitEnds, ReadStale, Answer, session
    <3>2. \E s \in {"stale", "answered"} : pc' = [pc EXCEPT ![c] = s]
      BY <2>4 DEF Read, WaitEnds, ReadStale, Answer
    <3>3. asked[c] \in Ids /\ owner[asked[c]] # Nobody
      BY <3>1, IdRange DEF PollOfSession, Polling, PollsKnown
    <3>4. polls[asked[c]] = 1
      BY <3>1, <3>3 DEF PollsCounted, InFlight
    <3>5. polls' = [polls EXCEPT ![asked[c]] = 0]
      BY <3>1, <3>3, <3>4 DEF Ended, RegistryTypes
    <3> QED
      BY <3>1, <3>2, <3>5 DEF Told
  <2>5. CASE Reset(c)
    BY <2>5 DEF Reset, session, StartsOver
  <2>6. CASE Handle(c)
    <3>1. id[c] # asked[c] => id[c] = 0
      BY <2>6 DEF Handle, PollOfSession, Polling
    <3>2. id[c] = 0 => id = [id EXCEPT ![c] = 0]
      BY DEF PollerTypes
    <3> QED
      BY <2>6, <3>1, <3>2 DEF Handle, GoesOn, session, registry, PollerTypes
  <2>7. CASE Ack(c)
    BY <2>7 DEF Ack, Dropped, pollVars
  <2>8. CASE \E b \in BOOLEAN : Ends(c, b)
    <3>1. PICK b \in BOOLEAN : Ends(c, b)
      BY <2>8
    <3>2. CASE b /\ id[c] # 0
      <4>1. id[c] \in Ids /\ Known([owner EXCEPT ![id[c]] = Nobody])
        BY <3>1, <3>2, IdRange DEF Ends
      <4>2. id[c] \notin ghosts /\ \A j \in Ids : owner[j] = Nobody => polls[j] = 0
        BY ForgottenNotPolled DEF PollsKnown
      <4>3. polls' = [polls EXCEPT ![id[c]] = 0] /\ ghosts' = ghosts
        BY <4>1, <4>2 DEF Known, RegistryTypes, PollsKnown
      <4> QED
        BY <3>1, <3>2, <4>1, <4>3 DEF Ends, Known, Dies
    <3>3. CASE ~(b /\ id[c] # 0)
      BY <3>1, <3>3 DEF Ends, Dies
    <3> QED
      BY <3>2, <3>3
  <2> QED
    BY <1>4, <2>1, <2>2, <2>3, <2>4, <2>5, <2>6, <2>7, <2>8 DEF ClientStep
<1> QED
  BY <1>1, <1>2, <1>3, <1>4 DEF Next

\* They keep every id with its client and count its poll.
LEMMA PollsKept ==
  ASSUME PollInv, PollStep
  PROVE  PollInv'
<1> USE HubBounds DEF PollInv, Ids
<1>1. CASE UNCHANGED pollVars
  BY <1>1 DEF pollVars, RegistryTypes, PollerTypes, IdsOwned, PollOfSession, PollsKnown, PollsCounted,
              InFlight, Polling
<1>2. ASSUME NEW i \in Ids, Forgets(i) PROVE PollInv'
  <2>1. RegistryTypes'
    BY <1>2 DEF RegistryTypes, Forgets
  <2>2. PollerTypes'
    BY <1>2 DEF RegistryTypes, PollerTypes, Forgets
  <2>3. IdsOwned'
    BY <1>2 DEF RegistryTypes, PollerTypes, IdsOwned, Forgets
  <2>4. PollOfSession'
    BY <1>2 DEF PollerTypes, PollOfSession, Polling, Forgets
  <2>5. PollsKnown'
    <3>1. ~InFlight(i)
      BY <1>2 DEF PollsCounted, Forgets
    <3> QED
      BY <1>2, <3>1 DEF RegistryTypes, PollerTypes, IdsOwned, PollsKnown, PollOfSession, Polling, Forgets,
                        InFlight
  <2>6. PollsCounted'
    BY <1>2 DEF RegistryTypes, PollerTypes, PollsCounted, InFlight, PollsKnown, PollOfSession, Polling, Forgets
  <2> QED
    BY <2>1, <2>2, <2>3, <2>4, <2>5, <2>6
<1>3. ASSUME NEW i \in Ids, GhostOver(i) PROVE PollInv'
  <2>1. RegistryTypes'
    BY <1>3 DEF RegistryTypes, GhostOver
  <2>2. PollerTypes'
    BY <1>3 DEF RegistryTypes, PollerTypes, GhostOver
  <2>3. IdsOwned'
    BY <1>3 DEF RegistryTypes, PollerTypes, IdsOwned, GhostOver
  <2>4. PollOfSession'
    BY <1>3 DEF PollerTypes, PollOfSession, Polling, GhostOver
  <2>5. PollsKnown'
    BY <1>3 DEF RegistryTypes, PollerTypes, IdsOwned, PollsKnown, PollOfSession, Polling, GhostOver
  <2>6. PollsCounted'
    BY <1>3 DEF RegistryTypes, PollerTypes, PollsCounted, InFlight, PollsKnown, PollOfSession, Polling,
                GhostOver
  <2> QED
    BY <2>1, <2>2, <2>3, <2>4, <2>5, <2>6
<1>4. ASSUME NEW c \in Clients, Enters(c) PROVE PollInv'
  <2>1. RegistryTypes'
    <3>1. used' \in 0..MaxIds /\ ghosts' \subseteq Ids
      <4>1. used \in 0..MaxIds /\ used' = used + 1 /\ used < MaxIds
        BY <1>4 DEF RegistryTypes, Enters
      <4>2. ghosts \subseteq Ids /\ ghosts' \subseteq ghosts
        BY <1>4 DEF RegistryTypes, Enters
      <4> QED
        BY <4>1, <4>2
    <3>2. owner' \in [Ids -> Clients \cup {Nobody}]
      BY <1>4 DEF RegistryTypes, Enters
    <3>3. polls' \in [Ids -> {0, 1}]
      BY <1>4 DEF RegistryTypes, Enters
    <3> QED
      BY <3>1, <3>2, <3>3 DEF RegistryTypes
  <2>2. PollerTypes'
    BY <1>4 DEF RegistryTypes, PollerTypes, Enters
  <2>3. IdsOwned'
    BY <1>4 DEF RegistryTypes, PollerTypes, IdsOwned, Enters
  <2>4. PollOfSession'
    BY <1>4 DEF PollerTypes, PollOfSession, Polling, Enters
  <2>5. PollsKnown'
    BY <1>4 DEF RegistryTypes, PollerTypes, IdsOwned, PollsKnown, PollOfSession, Polling, Enters
  <2>6. PollsCounted'
    <3> SUFFICES ASSUME NEW i \in Ids PROVE polls'[i] = 1 <=> InFlight(i)'
      BY DEF PollsCounted
    <3>1. polls'[i] = 1 <=> owner[i] # c /\ InFlight(i)
      BY <1>4 DEF PollsCounted, Enters
    <3>2. InFlight(i) /\ owner[i] # c => InFlight(i)'
      BY <1>4 DEF InFlight, Enters, PollerTypes
    <3>3. InFlight(i)' => InFlight(i) /\ owner[i] # c
      BY <1>4 DEF InFlight, Enters, PollerTypes, PollsKnown
    <3> QED
      BY <3>1, <3>2, <3>3
  <2> QED
    BY <2>1, <2>2, <2>3, <2>4, <2>5, <2>6
<1>5. ASSUME NEW c \in Clients, Asks(c) PROVE PollInv'
  <2>1. RegistryTypes'
    BY <1>5 DEF RegistryTypes, Asks
  <2>2. PollerTypes'
    BY <1>5 DEF RegistryTypes, PollerTypes, Asks
  <2>3. IdsOwned'
    BY <1>5 DEF RegistryTypes, PollerTypes, IdsOwned, Asks
  <2>4. PollOfSession'
    BY <1>5 DEF PollerTypes, PollOfSession, Polling, Asks
  <2>5. PollsKnown'
    BY <1>5 DEF RegistryTypes, PollerTypes, IdsOwned, PollsKnown, PollOfSession, Polling, Asks
  <2>6. PollsCounted'
    BY <1>5 DEF RegistryTypes, PollerTypes, PollsCounted, InFlight, PollsKnown, PollOfSession, Polling, Asks
  <2> QED
    BY <2>1, <2>2, <2>3, <2>4, <2>5, <2>6
<1>6. ASSUME NEW c \in Clients, Told(c) PROVE PollInv'
  <2>1. RegistryTypes'
    BY <1>6 DEF RegistryTypes, Told
  <2>2. PollerTypes'
    BY <1>6 DEF RegistryTypes, PollerTypes, Told
  <2>3. IdsOwned'
    BY <1>6 DEF RegistryTypes, PollerTypes, IdsOwned, Told
  <2>4. PollOfSession'
    BY <1>6 DEF PollerTypes, PollOfSession, Polling, Told
  <2>5. PollsKnown'
    BY <1>6 DEF RegistryTypes, PollerTypes, IdsOwned, PollsKnown, PollOfSession, Polling, Told
  <2>6. PollsCounted'
    BY <1>6 DEF RegistryTypes, PollerTypes, PollsCounted, InFlight, PollsKnown, PollOfSession, Polling, Told
  <2> QED
    BY <2>1, <2>2, <2>3, <2>4, <2>5, <2>6
<1>7. ASSUME NEW c \in Clients, StartsOver(c) PROVE PollInv'
  <2>1. RegistryTypes'
    BY <1>7 DEF RegistryTypes, StartsOver
  <2>2. PollerTypes'
    BY <1>7 DEF RegistryTypes, PollerTypes, StartsOver
  <2>3. IdsOwned'
    BY <1>7 DEF RegistryTypes, PollerTypes, IdsOwned, StartsOver
  <2>4. PollOfSession'
    BY <1>7 DEF PollerTypes, PollOfSession, Polling, StartsOver
  <2>5. PollsKnown'
    BY <1>7 DEF RegistryTypes, PollerTypes, IdsOwned, PollsKnown, PollOfSession, Polling, StartsOver
  <2>6. PollsCounted'
    BY <1>7 DEF RegistryTypes, PollerTypes, PollsCounted, InFlight, PollsKnown, PollOfSession, Polling,
                StartsOver
  <2> QED
    BY <2>1, <2>2, <2>3, <2>4, <2>5, <2>6
<1>8. ASSUME NEW c \in Clients, GoesOn(c) PROVE PollInv'
  <2>1. RegistryTypes'
    BY <1>8 DEF RegistryTypes, GoesOn
  <2>2. PollerTypes'
    <3>1. pc' \in [Clients -> {"register", "poll", "waiting", "stale", "answered"}]
      BY <1>8 DEF PollerTypes, GoesOn
    <3>2. id' \in [Clients -> 0..used] /\ asked' \in [Clients -> 0..used] /\ used' = used
      <4>1. id' \in [Clients -> 0..used]
        <5>1. CASE id' = id
          BY <5>1 DEF PollerTypes
        <5>2. CASE id' = [id EXCEPT ![c] = 0]
          BY <5>2 DEF RegistryTypes, PollerTypes
        <5> QED
          BY <1>8, <5>1, <5>2 DEF GoesOn
      <4>2. asked' \in [Clients -> 0..used] /\ used' = used
        BY <1>8 DEF RegistryTypes, PollerTypes, GoesOn
      <4> QED
        BY <4>1, <4>2
    <3> QED
      BY <3>1, <3>2 DEF PollerTypes
  <2>3. IdsOwned'
    BY <1>8 DEF RegistryTypes, PollerTypes, IdsOwned, GoesOn
  <2>4. PollOfSession'
    BY <1>8 DEF PollerTypes, PollOfSession, Polling, GoesOn
  <2>5. PollsKnown'
    BY <1>8 DEF RegistryTypes, PollerTypes, IdsOwned, PollsKnown, PollOfSession, Polling, GoesOn
  <2>6. PollsCounted'
    <3> SUFFICES ASSUME NEW i \in Ids PROVE InFlight(i)' <=> InFlight(i)
      BY <1>8 DEF PollsCounted, GoesOn
    <3>1. \A d \in Clients : pc'[d] = "waiting" <=> pc[d] = "waiting"
      BY <1>8 DEF GoesOn, PollerTypes
    <3>2. \A d \in Clients : pc[d] = "waiting" => asked'[d] = asked[d]
      BY <1>8 DEF GoesOn, PollerTypes
    <3> QED
      BY <1>8, <3>1, <3>2 DEF InFlight, GoesOn
  <2> QED
    BY <2>1, <2>2, <2>3, <2>4, <2>5, <2>6
<1>9. ASSUME NEW c \in Clients, Dropped(c) PROVE PollInv'
  <2>1. RegistryTypes'
    BY <1>9 DEF RegistryTypes, Dropped
  <2>2. PollerTypes'
    BY <1>9 DEF RegistryTypes, PollerTypes, Dropped
  <2>3. IdsOwned'
    BY <1>9 DEF RegistryTypes, PollerTypes, IdsOwned, Dropped
  <2>4. PollOfSession'
    BY <1>9 DEF PollerTypes, PollOfSession, Polling, Dropped
  <2>5. PollsKnown'
    BY <1>9 DEF RegistryTypes, PollerTypes, IdsOwned, PollsKnown, PollOfSession, Polling, Dropped
  <2>6. PollsCounted'
    BY <1>9 DEF RegistryTypes, PollerTypes, PollsCounted, InFlight, PollsKnown, PollOfSession, Polling, Dropped
  <2> QED
    BY <2>1, <2>2, <2>3, <2>4, <2>5, <2>6
<1>10. ASSUME NEW c \in Clients, Dies(c) PROVE PollInv'
  <2>1. RegistryTypes'
    <3>1. (pc[c] = "waiting" => asked[c] \in Ids) /\ (id[c] # 0 => id[c] \in Ids)
      BY <1>10, IdRange DEF PollOfSession, Polling
    <3>2. used' \in 0..MaxIds /\ ghosts' \subseteq Ids
      BY <1>10, <3>1 DEF RegistryTypes, Dies
    <3>3. owner' \in [Ids -> Clients \cup {Nobody}]
      BY <1>10, <3>1 DEF RegistryTypes, Dies
    <3>4. polls' \in [Ids -> {0, 1}]
      BY <1>10, <3>1 DEF RegistryTypes, Dies
    <3> QED
      BY <3>2, <3>3, <3>4 DEF RegistryTypes
  <2>2. PollerTypes'
    BY <1>10 DEF RegistryTypes, PollerTypes, Dies
  <2>3. IdsOwned'
    <3>1. id[c] # 0 => id[c] \in Ids
      BY IdRange
    <3>2. \A d \in Clients : d # c => id'[d] = id[d] /\ asked'[d] = asked[d]
      BY <1>10 DEF Dies, PollerTypes
    <3>3. id'[c] = 0 /\ asked'[c] = 0
      BY <1>10 DEF Dies, PollerTypes
    <3>4. \A i \in Ids : owner'[i] \in {owner[i], Nobody}
      BY <1>10, <3>1 DEF Dies, RegistryTypes
    <3>5. \A d \in Clients : (id[d] # 0 => id[d] \in Ids) /\ (asked[d] # 0 => asked[d] \in Ids)
      BY IdRange
    <3> QED
      BY <1>10, <3>2, <3>3, <3>4, <3>5 DEF IdsOwned, Dies
  <2>4. PollOfSession'
    BY <1>10 DEF PollerTypes, PollOfSession, Polling, Dies
  <2>5. PollsKnown'
    <3>1. /\ pc[c] = "waiting" => asked[c] \in Ids /\ owner[asked[c]] = c
          /\ id[c] # 0 => id[c] \in Ids /\ owner[id[c]] \in {c, Nobody}
      BY <1>10, IdRange DEF PollOfSession, Polling, PollsKnown, IdsOwned
    <3>2. ASSUME NEW d \in Clients, pc'[d] = "waiting" PROVE owner'[asked'[d]] = d
      <4>1. d # c /\ pc[d] = "waiting" /\ asked'[d] = asked[d] /\ asked[d] \in Ids /\ owner[asked[d]] = d
        BY <1>10, <3>2, IdRange DEF Dies, PollerTypes, PollsKnown, PollOfSession, Polling
      <4> QED
        BY <1>10, <3>1, <4>1 DEF Dies, RegistryTypes
    <3>3. ASSUME NEW i \in ghosts', NEW d \in Clients PROVE owner'[i] # Nobody /\ id'[d] # i /\ asked'[d] # i
      <4>1. CASE i \in ghosts
        BY <1>10, <3>1, <4>1 DEF Dies, RegistryTypes, PollerTypes, PollsKnown
      <4>2. CASE i \notin ghosts
        <5>1. pc[c] = "waiting" /\ i = asked[c] /\ owner' = owner
          BY <1>10, <3>3, <4>2 DEF Dies
        <5>2. i # 0 /\ i \in Ids /\ owner[i] = c
          BY <3>1, <5>1
        <5>3. d # c => id[d] # i
          BY <5>2 DEF IdsOwned
        <5>4. d # c => asked[d] # i
          BY <5>2 DEF IdsOwned
        <5> QED
          BY <1>10, <5>1, <5>2, <5>3, <5>4 DEF Dies, PollerTypes
      <4> QED
        BY <4>1, <4>2
    <3> QED
      BY <3>2, <3>3 DEF PollsKnown
  <2>6. PollsCounted'
    <3> SUFFICES ASSUME NEW i \in Ids PROVE polls'[i] = 1 <=> InFlight(i)'
      BY DEF PollsCounted
    <3>1. \A d \in Clients : pc'[d] = "waiting" /\ asked'[d] = i <=> d # c /\ pc[d] = "waiting" /\ asked[d] = i
      BY <1>10 DEF Dies, PollerTypes
    <3>2. CASE pc[c] = "waiting" /\ asked[c] = i
      <4>1. i # 0 /\ i \notin ghosts /\ owner[i] = c /\ polls[i] = 1 /\ (id[c] # 0 => id[c] = i)
        BY <3>2 DEF PollsKnown, PollOfSession, Polling, PollsCounted, InFlight
      <4>2. \A d \in Clients : d # c /\ pc[d] = "waiting" => asked[d] # i
        BY <4>1 DEF PollsKnown
      <4> QED
        BY <1>10, <3>1, <3>2, <4>1, <4>2 DEF Dies, InFlight, RegistryTypes
    <3>3. CASE ~(pc[c] = "waiting" /\ asked[c] = i)
      <4>1. InFlight(i)' <=> InFlight(i)
        BY <1>10, <3>1, <3>3 DEF Dies, InFlight
      <4>2. id[c] = i => ~InFlight(i)
        BY <3>3 DEF InFlight, PollsKnown, IdsOwned
      <4> QED
        BY <1>10, <4>1, <4>2 DEF Dies, PollsCounted, RegistryTypes
    <3> QED
      BY <3>2, <3>3
  <2> QED
    BY <2>1, <2>2, <2>3, <2>4, <2>5, <2>6
<1> QED
  BY <1>1, <1>2, <1>3, <1>4, <1>5, <1>6, <1>7, <1>8, <1>9, <1>10 DEF PollStep

-----------------------------------------------------------------------------
(* Events, answers and leases.                                              *)

StreamInv ==
  /\ LogTypes /\ LeaseTypes /\ SessionTypes /\ AnswerTypes /\ StatesLogged /\ AnswersFollow
  /\ CuesBehind /\ ViewsFollow /\ ResultsFollow /\ HolderKnowsPending
FeedInv == PollInv /\ StreamInv

\* What the journal, the leases and the sessions see of a step.
feedVars == <<log, op, shut, pending, cues, cursor, granted, view, told>>

\* A lease is only ever lost while nobody registers.
LeasesShrink ==
  /\ used' = used /\ holder' \in [Capabilities -> 0..used]
  /\ \A cap \in Capabilities : holder'[cap] \in {0, holder[cap]}
\* A client drops its session, or an answer of it.
SessionsShrink ==
  /\ id' = id \/ \E c \in Clients : id' = [id EXCEPT ![c] = 0]
  /\ \A c \in Clients : pc'[c] = "answered" =>
       pc[c] = "answered" /\ asked'[c] = asked[c] /\ answer'[c] = answer[c]
  /\ answer' \in [Clients -> AnswerOK] /\ \A c \in Clients : answer'[c] \in {answer[c], NoAnswer}

Publishes(e) ==
  /\ e \in EntryOK /\ ~shut /\ Len(log) < MaxEvents /\ log' = Append(log, e)
  /\ e.op = op' /\ op' \in 0..MaxChanges
  /\ \/ op' = op
     \/ op' = op + 1 /\ e.kind = "state"
  /\ e.cue <= used /\ e.clip <= used
  /\ pending' = IF e.kind = "result" /\ e.clip # 0 THEN pending \cup {Len(log) + 1} ELSE pending
  /\ e.kind = "result" => holder'["clipboard"] = e.clip
  /\ \/ cues' = cues
     \/ cues' = [cues EXCEPT ![Len(log) + 1] = @ + 1] /\ e.cue = 0
  /\ LeasesShrink /\ (shut' = TRUE \/ shut' = shut)
  /\ UNCHANGED <<pc, id, asked, cursor, granted, view, told, answer>>
Quiet ==
  /\ LeasesShrink /\ SessionsShrink
  /\ pending' \subseteq pending
  /\ op' = op \/ (shut /\ op' = op + 1 /\ op < MaxChanges)
  /\ UNCHANGED <<log, shut, cues, cursor, granted, view, told>>
Joins(c) ==
  /\ pc[c] = "register" /\ used < MaxIds /\ used' = used + 1 /\ id' = [id EXCEPT ![c] = used + 1]
  /\ pc' = [pc EXCEPT ![c] = "poll"]
  /\ cursor' = [cursor EXCEPT ![c] = Len(log)] /\ view' = [view EXCEPT ![c] = op]
  /\ \E g \in SUBSET Capabilities :
       /\ granted' = [granted EXCEPT ![c] = g]
       /\ told' = [told EXCEPT ![c] = IF "clipboard" \in g THEN told[c] \cup pending ELSE told[c]]
       /\ holder' \in [Capabilities -> 0..used + 1]
       /\ \A cap \in Capabilities : IF cap \in g THEN holder'[cap] = used + 1 ELSE holder'[cap] \in {0, holder[cap]}
  /\ UNCHANGED <<log, op, shut, pending, cues, asked, answer>>
Gets(c, a) ==
  /\ a \in AnswerOK /\ pc[c] \in {"waiting", "stale"} /\ pc' = [pc EXCEPT ![c] = "answered"]
  /\ answer' = [answer EXCEPT ![c] = a]
  /\ \/ ~a.reset /\ a.events = cursor[c] + 1..a.cursor /\ a.cursor \in cursor[c]..Len(log) /\ a.unacked = {}
     \/ a.reset /\ a.events = {} /\ a.cursor = Len(log) /\ a.op = op /\ a.unacked = pending
  /\ LeasesShrink
  /\ UNCHANGED <<id, asked, feedVars>>
Takes(c) ==
  LET a == answer[c]
      states == {log[n].op : n \in {m \in a.events : log[m].kind = "state"}}
  IN /\ pc[c] = "answered" /\ id[c] = asked[c] /\ id[c] # 0
     /\ \/ pc' = [pc EXCEPT ![c] = "poll"] /\ id' = id
        \/ pc' = [pc EXCEPT ![c] = "register"] /\ id' = [id EXCEPT ![c] = 0]
     /\ cursor' = [cursor EXCEPT ![c] = a.cursor]
     /\ view' = [view EXCEPT ![c] = IF a.reset THEN a.op ELSE Max({view[c]} \cup states)]
     /\ told' = [told EXCEPT ![c] = told[c] \cup
          IF a.reset THEN (IF "clipboard" \in granted[c] THEN a.unacked ELSE {})
          ELSE {n \in a.events : log[n].kind = "result" /\ log[n].clip = id[c]}]
     /\ cues' = IF a.reset THEN cues
                ELSE [n \in 1..MaxEvents |-> cues[n] + (IF n \in a.events /\ log[n].cue = id[c] THEN 1 ELSE 0)]
     /\ answer' = [answer EXCEPT ![c] = NoAnswer] /\ asked' = [asked EXCEPT ![c] = 0]
     /\ UNCHANGED <<log, op, shut, pending, granted, used, holder>>
Leaves(c) ==
  /\ LeasesShrink
  /\ pc' = [pc EXCEPT ![c] = "register"] /\ id' = [id EXCEPT ![c] = 0] /\ asked' = [asked EXCEPT ![c] = 0]
  /\ cursor' = [cursor EXCEPT ![c] = 0] /\ granted' = [granted EXCEPT ![c] = {}]
  /\ view' = [view EXCEPT ![c] = 0] /\ told' = [told EXCEPT ![c] = {}]
  /\ answer' = [answer EXCEPT ![c] = NoAnswer]
  /\ UNCHANGED <<log, op, shut, pending, cues>>

FeedStep ==
  \/ \E e \in EntryOK : Publishes(e)
  \/ Quiet
  \/ \E c \in Clients : \/ Joins(c) \/ Takes(c) \/ Leaves(c)
                        \/ \E a \in AnswerOK : Gets(c, a)

\* The lazy expiry of leases only takes leases away.
LEMMA HoldersShrink ==
  ASSUME LeaseTypes, RegistryTypes
  PROVE  Holders \in [Capabilities -> 0..used] /\ \A cap \in Capabilities : Holders[cap] \in {0, holder[cap]}
  BY HubBounds DEF Holders, LeaseTypes, RegistryTypes

\* The empty answer is an answer.
LEMMA NoAnswerType == NoAnswer \in AnswerOK
  BY HubBounds DEF NoAnswer, AnswerOK

\* The answer to a read, and to a wait that is over.
LEMMA AnswerMade ==
  ASSUME NEW E \in SUBSET Nat, NEW k \in Nat, NEW L \in SUBSET Capabilities
  PROVE  LET a == [NoAnswer EXCEPT !.events = E, !.cursor = k, !.leases = L]
         IN  a \in AnswerOK /\ ~a.reset /\ a.events = E /\ a.cursor = k /\ a.unacked = {}
<1> DEFINE a == [NoAnswer EXCEPT !.events = E, !.cursor = k, !.leases = L]
<1>1. a \in AnswerOK
  BY NoAnswerType DEF AnswerOK
<1>2. ~a.reset /\ a.events = E /\ a.cursor = k /\ a.unacked = {}
  BY DEF NoAnswer
<1> QED
  BY <1>1, <1>2

\* The answer to a poll whose cursor is older than the ring.
LEMMA SnapshotMade ==
  ASSUME LogTypes, NEW L \in SUBSET Capabilities
  PROVE  LET a == [NoAnswer EXCEPT !.reset = TRUE, !.cursor = Len(log), !.op = op, !.unacked = pending, !.leases = L]
         IN  /\ a \in AnswerOK /\ a.reset /\ a.events = {} /\ a.cursor = Len(log) /\ a.op = op
             /\ a.unacked = pending
<1> DEFINE a == [NoAnswer EXCEPT !.reset = TRUE, !.cursor = Len(log), !.op = op, !.unacked = pending, !.leases = L]
<1>1. Len(log) \in Nat /\ op \in 0..MaxChanges /\ pending \in SUBSET Nat
  BY DEF LogTypes
<1>2. a \in AnswerOK
  BY <1>1, NoAnswerType DEF AnswerOK
<1>3. a.reset /\ a.events = {} /\ a.cursor = Len(log) /\ a.op = op /\ a.unacked = pending
  BY DEF NoAnswer
<1> QED
  BY <1>2, <1>3

\* What each step does to the journal, the leases and the sessions.
LEMMA FeedSteps ==
  ASSUME FeedInv, Next
  PROVE  FeedStep
<1> USE HubBounds DEF FeedInv, StreamInv, PollInv, Ids
<1>0. /\ Holders \in [Capabilities -> 0..used]
      /\ \A cap \in Capabilities : Holders[cap] \in {0, holder[cap]}
      /\ {"cues", "clipboard"} \subseteq Capabilities
      /\ used \in 0..MaxIds
  BY HoldersShrink DEF Capabilities, RegistryTypes
<1>a. ASSUME UNCHANGED <<pc, id, asked, answer>> PROVE SessionsShrink
  BY <1>a DEF SessionsShrink, AnswerTypes, PollerTypes, RegistryTypes
<1>1. CASE SetState
  <2>1. CASE shut
    <3>1. LeasesShrink
      BY <1>1, <2>1 DEF SetState, LeasesShrink, LeaseTypes
    <3> QED
      BY <1>1, <2>1, <3>1, <1>a DEF SetState, FeedStep, Quiet, session, shown
  <2>2. CASE ~shut
    <3> DEFINE e == Entry("state", op', Holders)
    <3>1. e \in EntryOK /\ e.op = op' /\ e.kind = "state" /\ e.cue = Holders["cues"] /\ e.clip = Holders["clipboard"]
      BY <1>1, <2>2, <1>0 DEF SetState, Entry, EntryOK, LogTypes
    <3>2. Len(log) + 1 \in 1..MaxEvents /\ Len(log) \in Nat
      BY <1>1, <2>2 DEF SetState, LogTypes
    <3>3. cues' = cues \/ (cues' = [cues EXCEPT ![Len(log) + 1] = @ + 1] /\ e.cue = 0)
      BY <1>1, <2>2, <3>1, <3>2 DEF SetState, Played, NextSeq, LogTypes
    <3>4. LeasesShrink
      BY <1>0, <1>1, <2>2 DEF SetState, LeasesShrink
    <3> HIDE DEF e
    <3>5. log' = Append(log, e)
      BY <1>1, <2>2 DEF SetState, e
    <3>6. Publishes(e)
      BY <1>1, <2>2, <1>0, <3>1, <3>3, <3>4, <3>5 DEF SetState, Publishes, session, shown, LogTypes
    <3> QED
      BY <3>1, <3>6 DEF FeedStep
  <2> QED
    BY <2>1, <2>2
<1>2. CASE PublishResult \/ PublishNotice
  <2> PICK kind \in {"result", "notice"} : IF kind = "result" THEN PublishResult ELSE PublishNotice
    BY <1>2
  <2> DEFINE e == Entry(kind, op, Holders)
  <2>1. e \in EntryOK /\ e.op = op /\ e.kind = kind /\ e.cue = Holders["cues"] /\ e.clip = Holders["clipboard"]
    BY <1>0 DEF Entry, EntryOK, LogTypes
  <2>2. /\ ~shut /\ Len(log) < MaxEvents /\ holder' = Holders /\ op' = op /\ used' = used /\ shut' = shut
        /\ cues' = Played(NextSeq, IF Holders["cues"] = 0 THEN 1 ELSE 0)
        /\ log' = Append(log, e)
        /\ UNCHANGED <<pc, id, asked, cursor, granted, view, told, answer>>
    BY <1>2 DEF PublishResult, PublishNotice, session, shown
  <2>3. Len(log) + 1 \in 1..MaxEvents /\ Len(log) \in Nat
    BY <2>2 DEF LogTypes
  <2>4. cues' = cues \/ (cues' = [cues EXCEPT ![Len(log) + 1] = @ + 1] /\ e.cue = 0)
    <3>1. CASE Holders["cues"] = 0
      BY <2>1, <2>2, <3>1 DEF Played, NextSeq
    <3>2. CASE Holders["cues"] # 0
      <4>1. cues' = [cues EXCEPT ![Len(log) + 1] = @ + 0]
        BY <2>2, <3>2 DEF Played, NextSeq
      <4> QED
        BY <4>1, <2>3 DEF LogTypes
    <3> QED
      BY <3>1, <3>2
  <2>5. LeasesShrink
    BY <1>0, <2>2 DEF LeasesShrink
  <2>6. pending' = IF e.kind = "result" /\ e.clip # 0 THEN pending \cup {Len(log) + 1} ELSE pending
    BY <1>2, <2>1 DEF PublishResult, PublishNotice, NextSeq
  <2> HIDE DEF e
  <2>7. Publishes(e)
    BY <1>0, <2>1, <2>2, <2>4, <2>5, <2>6 DEF Publishes, LogTypes
  <2> QED
    BY <2>1, <2>7 DEF FeedStep
<1>3. CASE PublishShutdown
  <2> DEFINE e == Entry("shutdown", op, [cap \in Capabilities |-> 0])
  <2>1. e \in EntryOK /\ e.op = op /\ e.kind = "shutdown" /\ e.cue = 0 /\ e.clip = 0
    BY DEF Entry, EntryOK, LogTypes, Capabilities
  <2>2. LeasesShrink
    BY <1>3 DEF PublishShutdown, registry, LeasesShrink, LeaseTypes
  <2>3. log' = Append(log, e)
    BY <1>3 DEF PublishShutdown
  <2> HIDE DEF e
  <2>4. Publishes(e)
    BY <1>0, <1>3, <2>1, <2>2, <2>3 DEF PublishShutdown, Publishes, registry, session, shown, LogTypes
  <2> QED
    BY <2>1, <2>4 DEF FeedStep
<1>4. CASE CloseJournal \/ FallSilent \/ Forgotten \/ GhostEnds
  <2>1. holder' \in {holder, Holders} /\ used' = used
    BY <1>4 DEF CloseJournal, FallSilent, Forgotten, GhostEnds, registry
  <2>2. LeasesShrink
    BY <1>0, <2>1 DEF LeasesShrink, LeaseTypes
  <2>3. UNCHANGED <<log, op, shut, pending, cues, cursor, granted, view, told, pc, id, asked, answer>>
    BY <1>4 DEF CloseJournal, FallSilent, Forgotten, GhostEnds, hub, session, shown
  <2> QED
    BY <2>2, <2>3, <1>a DEF Quiet, FeedStep
<1>5. ASSUME NEW c \in Clients, ClientStep(c) PROVE FeedStep
  <2>1. CASE Register(c)
    <3> DEFINE g == Granted(c)
    <3>1. g \in SUBSET Capabilities
      BY DEF Granted
    <3>2. holder' \in [Capabilities -> 0..used + 1]
      BY <2>1, <1>0 DEF Register, LeaseTypes
    <3>3. \A cap \in Capabilities : IF cap \in g THEN holder'[cap] = used + 1 ELSE holder'[cap] \in {0, holder[cap]}
      BY <2>1, <1>0 DEF Register
    <3>4. /\ granted' = [granted EXCEPT ![c] = g]
          /\ told' = [told EXCEPT ![c] = IF "clipboard" \in g THEN told[c] \cup pending ELSE told[c]]
      BY <2>1 DEF Register
    <3> HIDE DEF g
    <3>5. Joins(c)
      BY <2>1, <3>1, <3>2, <3>3, <3>4 DEF Register, Joins, hub
    <3> QED
      BY <3>5 DEF FeedStep
  <2>2. CASE Drop(c)
    <3>1. LeasesShrink
      BY <2>2 DEF Drop, registry, LeasesShrink, LeaseTypes
    <3>2. SessionsShrink
      BY <2>2 DEF Drop, session, SessionsShrink, AnswerTypes, PollerTypes, RegistryTypes
    <3> QED
      BY <2>2, <3>1, <3>2 DEF Drop, Quiet, FeedStep, hub, session, shown
  <2>3. CASE BeginPoll(c)
    <3>1. LeasesShrink
      BY <2>3, <1>0 DEF BeginPoll, LeasesShrink
    <3>2. \A d \in Clients : pc'[d] = "answered" => d # c /\ pc[d] = "answered" /\ asked'[d] = asked[d]
      BY <2>3 DEF BeginPoll, PollerTypes
    <3>3. id' \in [Clients -> Nat] /\ \A d \in Clients : id'[d] \in {0, id[d]}
      <4>1. id' = id \/ id' = [id EXCEPT ![c] = 0]
        BY <2>3 DEF BeginPoll
      <4> QED
        BY <4>1 DEF PollerTypes, RegistryTypes
    <3>4. SessionsShrink
      BY <2>3, <3>2, <3>3 DEF BeginPoll, SessionsShrink, AnswerTypes
    <3> QED
      BY <2>3, <3>1, <3>4 DEF BeginPoll, Quiet, FeedStep, hub, shown
  <2>4. CASE Read(c)
    <3> DEFINE a == [NoAnswer EXCEPT !.events = Entries(cursor[c]), !.cursor = Len(log), !.leases = LeasesOf(asked[c])]
    <3>1. cursor[c] \in 0..Len(log) /\ Len(log) \in Nat
      BY DEF SessionTypes, LogTypes
    <3>2. Entries(cursor[c]) = cursor[c] + 1..Len(log)
      BY <2>4, <3>1 DEF Read, Stale, Entries
    <3>3. /\ a \in AnswerOK /\ ~a.reset /\ a.events = cursor[c] + 1..Len(log) /\ a.cursor = Len(log)
          /\ a.unacked = {}
      <4>1. Entries(cursor[c]) \in SUBSET Nat /\ LeasesOf(asked[c]) \in SUBSET Capabilities /\ 0 \in 0..MaxChanges
        BY <3>1, <3>2 DEF LeasesOf
      <4>2. a \in AnswerOK /\ ~a.reset /\ a.events = Entries(cursor[c]) /\ a.cursor = Len(log) /\ a.unacked = {}
        BY <4>1, <3>1, AnswerMade
      <4> QED
        BY <4>2, <3>2
    <3>4. answer' = [answer EXCEPT ![c] = a]
      BY <2>4 DEF Read, Answer
    <3>5. LeasesShrink
      BY <2>4, <1>0 DEF Read, Answer, LeasesShrink
    <3> HIDE DEF a
    <3>6. ~a.reset /\ a.events = cursor[c] + 1..a.cursor /\ a.cursor \in cursor[c]..Len(log) /\ a.unacked = {}
      BY <3>1, <3>3
    <3>7. /\ pc[c] \in {"waiting", "stale"} /\ pc' = [pc EXCEPT ![c] = "answered"]
          /\ UNCHANGED <<id, asked, feedVars>>
      BY <2>4 DEF Read, Answer, hub, session, shown, feedVars
    <3>8. Gets(c, a)
      BY <3>2, <3>3, <3>4, <3>5, <3>6, <3>7 DEF Gets
    <3> QED
      BY <3>3, <3>8 DEF FeedStep
  <2>5. CASE WaitEnds(c)
    <3> DEFINE a == [NoAnswer EXCEPT !.events = {}, !.cursor = cursor[c], !.leases = LeasesOf(asked[c])]
    <3>1. cursor[c] \in 0..Len(log) /\ Len(log) \in Nat
      BY DEF SessionTypes, LogTypes
    <3>2. /\ a \in AnswerOK /\ ~a.reset /\ a.events = {} /\ a.cursor = cursor[c] /\ a.unacked = {}
      <4>1. LeasesOf(asked[c]) \in SUBSET Capabilities /\ 0 \in 0..MaxChanges /\ cursor[c] \in Nat
        BY <3>1 DEF LeasesOf
      <4> QED
        BY <4>1, AnswerMade
    <3>3. cursor[c] + 1..cursor[c] = {}
      BY <3>1
    <3>4. answer' = [answer EXCEPT ![c] = a]
      BY <2>5 DEF WaitEnds, Answer, CursorKept
    <3>5. LeasesShrink
      BY <2>5, <1>0 DEF WaitEnds, Answer, LeasesShrink
    <3> HIDE DEF a
    <3>6. ~a.reset /\ a.events = cursor[c] + 1..a.cursor /\ a.cursor \in cursor[c]..Len(log) /\ a.unacked = {}
      BY <3>1, <3>2, <3>3
    <3>7. /\ pc[c] \in {"waiting", "stale"} /\ pc' = [pc EXCEPT ![c] = "answered"]
          /\ UNCHANGED <<id, asked, feedVars>>
      BY <2>5 DEF WaitEnds, Answer, hub, session, shown, feedVars
    <3>8. Gets(c, a)
      BY <3>2, <3>3, <3>4, <3>5, <3>6, <3>7 DEF Gets
    <3> QED
      BY <3>2, <3>8 DEF FeedStep
  <2>6. CASE ReadStale(c)
    <3>1. LeasesShrink
      BY <2>6 DEF ReadStale, LeasesShrink, LeaseTypes
    <3>2. SessionsShrink
      BY <2>6 DEF ReadStale, session, SessionsShrink, AnswerTypes, PollerTypes, RegistryTypes
    <3> QED
      BY <2>6, <3>1, <3>2 DEF ReadStale, Quiet, FeedStep, hub, session, shown
  <2>7. CASE Reset(c)
    <3> DEFINE a == [NoAnswer EXCEPT !.reset = TRUE, !.cursor = Len(log), !.op = op, !.unacked = pending,
                                     !.leases = LeasesOf(asked[c])]
    <3>1. /\ a \in AnswerOK /\ a.reset /\ a.events = {} /\ a.cursor = Len(log) /\ a.op = op
          /\ a.unacked = pending
      <4>1. LeasesOf(asked[c]) \in SUBSET Capabilities
        BY DEF LeasesOf
      <4> QED
        BY <4>1, SnapshotMade
    <3>2. answer' = [answer EXCEPT ![c] = a]
      BY <2>7 DEF Reset
    <3>3. LeasesShrink
      BY <2>7, <1>0 DEF Reset, LeasesShrink
    <3> HIDE DEF a
    <3>4. Gets(c, a)
      BY <2>7, <3>1, <3>2, <3>3 DEF Gets, Reset, hub, session, shown, feedVars
    <3> QED
      BY <3>1, <3>4 DEF FeedStep
  <2>8. CASE Handle(c)
    <3>1. CASE id[c] # asked[c]
      <4>1. id[c] = 0
        BY <2>8, <3>1 DEF Handle, PollOfSession, Polling
      <4>2. LeasesShrink
        BY <2>8 DEF Handle, registry, LeasesShrink, LeaseTypes
      <4>3. /\ pc' = [pc EXCEPT ![c] = "register"] /\ id' = id /\ asked' = [asked EXCEPT ![c] = 0]
            /\ answer' = [answer EXCEPT ![c] = NoAnswer]
            /\ UNCHANGED <<log, op, shut, pending, cues, cursor, granted, view, told>>
        BY <2>8, <3>1 DEF Handle, hub, session, shown
      <4>4. SessionsShrink
        BY <4>3, NoAnswerType DEF SessionsShrink, AnswerTypes, PollerTypes, RegistryTypes
      <4> QED
        BY <4>2, <4>3, <4>4 DEF Quiet, FeedStep
    <3>2. CASE id[c] = asked[c]
      <4>1. id[c] # 0
        BY <2>8, <3>2 DEF Handle, PollOfSession, Polling
      <4>2. DOMAIN cues = 1..MaxEvents
        BY DEF LogTypes
      <4>3. \/ pc' = [pc EXCEPT ![c] = "poll"] /\ id' = id
            \/ pc' = [pc EXCEPT ![c] = "register"] /\ id' = [id EXCEPT ![c] = 0]
        BY <2>8, <3>2 DEF Handle, PollerTypes
      <4>4. told' = [told EXCEPT ![c] = told[c] \cup
              IF answer[c].reset THEN (IF "clipboard" \in granted[c] THEN answer[c].unacked ELSE {})
              ELSE {n \in answer[c].events : log[n].kind = "result" /\ log[n].clip = id[c]}]
        BY <2>8, <3>2 DEF Handle, NeedsDelivery
      <4>5. cues' = IF answer[c].reset THEN cues
                    ELSE [n \in 1..MaxEvents |->
                            cues[n] + (IF n \in answer[c].events /\ log[n].cue = id[c] THEN 1 ELSE 0)]
        BY <2>8, <3>2, <4>2 DEF Handle, NeedsCue
      <4>6. /\ pc[c] = "answered"
            /\ cursor' = [cursor EXCEPT ![c] = answer[c].cursor]
            /\ view' = [view EXCEPT ![c] = IF answer[c].reset THEN answer[c].op ELSE
                 Max({view[c]} \cup {log[n].op : n \in {m \in answer[c].events : log[m].kind = "state"}})]
            /\ answer' = [answer EXCEPT ![c] = NoAnswer] /\ asked' = [asked EXCEPT ![c] = 0]
            /\ UNCHANGED <<log, op, shut, pending, granted, used, holder>>
        BY <2>8, <3>2 DEF Handle, hub, registry
      <4>7. Takes(c)
        BY <3>2, <4>1, <4>3, <4>4, <4>5, <4>6 DEF Takes
      <4> QED
        BY <4>7 DEF FeedStep
    <3> QED
      BY <3>1, <3>2
  <2>9. CASE Ack(c)
    <3>1. LeasesShrink
      BY <2>9, <1>0 DEF Ack, LeasesShrink
    <3>2. SessionsShrink
      BY <2>9 DEF Ack, SessionsShrink, AnswerTypes, PollerTypes, RegistryTypes
    <3> QED
      BY <2>9, <3>1, <3>2 DEF Ack, Quiet, FeedStep, shown
  <2>10. CASE \E b \in BOOLEAN : Ends(c, b)
    <3>1. PICK b \in BOOLEAN : Ends(c, b)
      BY <2>10
    <3>2. LeasesShrink
      <4>1. holder' = holder \/ holder' = [cap \in Capabilities |-> IF holder[cap] = id[c] THEN 0 ELSE holder[cap]]
        BY <3>1 DEF Ends
      <4>2. used' = used
        BY <3>1 DEF Ends
      <4> QED
        BY <4>1, <4>2 DEF LeasesShrink, LeaseTypes, RegistryTypes
    <3>3. Leaves(c)
      BY <3>1, <3>2 DEF Ends, Leaves, hub
    <3> QED
      BY <3>3 DEF FeedStep
  <2> QED
    BY <1>5, <2>1, <2>2, <2>3, <2>4, <2>5, <2>6, <2>7, <2>8, <2>9, <2>10 DEF ClientStep
<1> QED
  BY <1>1, <1>2, <1>3, <1>4, <1>5 DEF Next

-----------------------------------------------------------------------------
(* Each kind of step keeps what is said of events, answers and leases.      *)

\* The greatest element of a set of numbers, where one is known.
LEMMA MaxIs ==
  ASSUME NEW S \in SUBSET Int, NEW x \in S, \A y \in S : x >= y
  PROVE  Max(S) = x
<1>1. Max(S) \in S /\ \A y \in S : Max(S) >= y
  BY DEF Max
<1>2. x \in Int /\ Max(S) \in Int /\ x >= Max(S) /\ Max(S) >= x
  BY <1>1
<1> QED
  BY <1>2

\* Appending an entry leaves what is said of the earlier ones.
LEMMA Appended ==
  ASSUME LogTypes, NEW e \in EntryOK, log' = Append(log, e)
  PROVE  /\ Len(log) \in Nat /\ Len(log') = Len(log) + 1 /\ log' \in Seq(EntryOK)
         /\ \A n \in 1..Len(log) : log'[n] = log[n]
         /\ log'[Len(log) + 1] = e
         /\ \A n \in 0..Len(log) : StateAt(log', n) = StateAt(log, n)
         /\ StateAt(log', Len(log) + 1) = e.op
<1>1. Len(log) \in Nat /\ log \in Seq(EntryOK)
  BY DEF LogTypes
<1>2. Len(log') = Len(log) + 1 /\ log' \in Seq(EntryOK) /\ log'[Len(log) + 1] = e
  BY <1>1
<1>3. \A n \in 1..Len(log) : log'[n] = log[n]
  BY <1>1
<1>4. \A n \in 0..Len(log) : StateAt(log', n) = StateAt(log, n)
  BY <1>1, <1>3 DEF StateAt
<1>5. StateAt(log', Len(log) + 1) = e.op
  BY <1>1, <1>2 DEF StateAt
<1> QED
  BY <1>1, <1>2, <1>3, <1>4, <1>5

\* The entries of the journal and what is drawn from them.
LEMMA LogFacts ==
  ASSUME StreamInv
  PROVE  /\ Len(log) \in Nat /\ MaxEvents \in Nat /\ MaxChanges \in Nat /\ Len(log) <= MaxEvents
         /\ \A n \in 1..Len(log) : log[n] \in EntryOK
         /\ \A n \in 0..Len(log) : StateAt(log, n) \in 0..MaxChanges
<1>1. Len(log) \in Nat /\ Len(log) <= MaxEvents /\ \A n \in 1..Len(log) : log[n] \in EntryOK
  BY DEF StreamInv, LogTypes
<1>2. \A n \in 0..Len(log) : StateAt(log, n) \in 0..MaxChanges
  BY <1>1, HubBounds DEF StateAt, EntryOK
<1> QED
  BY <1>1, <1>2, HubBounds

\* The types of what a client holds, one client at a time.
LEMMA SessionFacts ==
  ASSUME FeedInv, NEW c \in Clients
  PROVE  /\ cursor[c] \in 0..Len(log) /\ id[c] \in Nat /\ id[c] <= used /\ view[c] \in 0..MaxChanges
         /\ answer[c].cursor \in 0..Len(log) /\ answer[c].reset \in BOOLEAN
         /\ answer[c].op \in 0..MaxChanges /\ answer[c].unacked \subseteq 1..Len(log)
         /\ answer[c].events \subseteq 1..Len(log)
<1>1. cursor[c] \in 0..Len(log) /\ view[c] \in 0..MaxChanges
  BY DEF FeedInv, StreamInv, SessionTypes
<1>2. id[c] \in Nat /\ id[c] <= used
  BY DEF FeedInv, PollInv, PollerTypes, RegistryTypes
<1>3. answer[c] \in AnswerOK
  BY DEF FeedInv, StreamInv, AnswerTypes
<1>4. /\ answer[c].cursor <= Len(log) /\ answer[c].unacked \subseteq 1..Len(log)
      /\ answer[c].events \subseteq 1..Len(log)
  BY DEF FeedInv, StreamInv, AnswerTypes
<1>5. Len(log) \in Nat
  BY DEF FeedInv, StreamInv, LogTypes
<1> QED
  BY <1>1, <1>2, <1>3, <1>4, <1>5 DEF AnswerOK

\* The types of the pollers, in the form that updates need.
LEMMA PollerFacts ==
  ASSUME FeedInv
  PROVE  /\ pc = [d \in Clients |-> pc[d]] /\ id \in [Clients -> Nat] /\ used \in Nat
         /\ \A c \in Clients : id[c] <= used
<1>1. pc \in [Clients -> {"register", "poll", "waiting", "stale", "answered"}] /\ id \in [Clients -> 0..used]
  BY DEF FeedInv, PollInv, PollerTypes
<1>2. used \in Nat
  BY HubBounds DEF FeedInv, PollInv, RegistryTypes
<1>3. pc = [d \in Clients |-> pc[d]]
  BY <1>1
<1>4. id \in [Clients -> Nat] /\ \A c \in Clients : id[c] <= used
  BY <1>1, <1>2
<1> QED
  BY <1>2, <1>3, <1>4

\* Leases that are only lost stay leases of known ids.
LEMMA LeasesTyped ==
  ASSUME LeaseTypes, RegistryTypes, LeasesShrink
  PROVE  LeaseTypes'
  BY HubBounds DEF LeaseTypes, LeasesShrink, RegistryTypes

\* A client that holds a lease after a step in which nobody registers held it before.
LEMMA HoldersHeld ==
  ASSUME FeedInv, LeasesShrink, NEW c \in Clients, id[c] # 0, holder'["clipboard"] = id[c]
  PROVE  holder["clipboard"] = id[c]
  BY DEF LeasesShrink, Capabilities

\* The engine publishes an entry: what was said of the earlier entries still holds, and the new one
\* carries the current state, is not yet played by a client, and goes to the holder if it is a result.
LEMMA PublishKeeps ==
  ASSUME FeedInv, NEW e \in EntryOK, Publishes(e)
  PROVE  StreamInv'
<1> DEFINE L == Len(log)
<1>1. /\ L \in Nat /\ Len(log') = L + 1 /\ log' \in Seq(EntryOK) /\ L < MaxEvents /\ MaxEvents \in Nat
      /\ \A n \in 1..L : log'[n] = log[n]
      /\ log'[L + 1] = e
      /\ \A n \in 0..L : StateAt(log', n) = StateAt(log, n)
      /\ StateAt(log', L + 1) = e.op
  BY Appended, HubBounds DEF FeedInv, StreamInv, Publishes
<1>2. /\ e.op = op' /\ op' \in 0..MaxChanges /\ op \in 0..MaxChanges
      /\ op' = op \/ (op' = op + 1 /\ e.kind = "state")
      /\ e.cue \in 0..MaxIds /\ e.clip \in 0..MaxIds /\ e.cue <= used /\ e.clip <= used /\ used' = used
      /\ ~shut /\ shut' \in BOOLEAN /\ MaxChanges \in Nat /\ used \in Nat
  <2>1. op \in 0..MaxChanges /\ shut \in BOOLEAN /\ MaxChanges \in Nat /\ used \in Nat
    BY HubBounds DEF FeedInv, StreamInv, LogTypes, PollInv, RegistryTypes
  <2>2. e.cue \in 0..MaxIds /\ e.clip \in 0..MaxIds
    BY DEF EntryOK
  <2>3. /\ e.op = op' /\ op' \in 0..MaxChanges /\ (op' = op \/ (op' = op + 1 /\ e.kind = "state"))
        /\ e.cue <= used /\ e.clip <= used /\ used' = used /\ ~shut /\ (shut' = TRUE \/ shut' = shut)
    BY DEF Publishes, LeasesShrink
  <2> QED
    BY <2>1, <2>2, <2>3
<1>3. UNCHANGED <<pc, id, asked, cursor, granted, view, told, answer>>
  BY DEF Publishes
<1>4. /\ pending' = pending \/ (pending' = pending \cup {L + 1} /\ e.kind = "result" /\ e.clip # 0)
      /\ pending \subseteq 1..L
  BY DEF Publishes, FeedInv, StreamInv, LogTypes
<1>5. /\ cues \in [1..MaxEvents -> {0, 1}] /\ cues[L + 1] = 0
      /\ cues' = cues \/ (cues' = [cues EXCEPT ![L + 1] = 1] /\ e.cue = 0)
  <2>1. cues \in [1..MaxEvents -> {0, 1}] /\ cues[L + 1] = 0
    BY <1>1 DEF FeedInv, StreamInv, LogTypes, CuesBehind
  <2>2. cues' = cues \/ (cues' = [cues EXCEPT ![L + 1] = @ + 1] /\ e.cue = 0)
    BY DEF Publishes
  <2> QED
    BY <2>1, <2>2
<1>6. \A c \in Clients : cursor[c] \in 0..L /\ answer[c].cursor \in 0..L
  BY SessionFacts
<1> HIDE DEF L
<1>7. cues' \in [1..MaxEvents -> {0, 1}] /\ \A n \in 1..MaxEvents : n # L + 1 => cues'[n] = cues[n]
  <2>1. CASE cues' = cues
    BY <1>5, <2>1
  <2>2. CASE cues' = [cues EXCEPT ![L + 1] = 1]
    <3>1. \A n \in 1..MaxEvents : cues'[n] = IF n = L + 1 THEN 1 ELSE cues[n]
      BY <1>5, <2>2
    <3> QED
      BY <1>5, <2>2, <3>1
  <2> QED
    BY <1>5, <2>1, <2>2
<1>8. e.cue # 0 => cues'[L + 1] = 0
  BY <1>5
<1>9. LogTypes'
  <2>1. pending' \subseteq 1..L + 1
    <3>1. 1..L \subseteq 1..L + 1 /\ L + 1 \in 1..L + 1
      BY <1>1
    <3> QED
      BY <1>4, <3>1
  <2> QED
    BY <1>1, <1>2, <1>7, <2>1 DEF LogTypes
<1>10. LeaseTypes'
  BY LeasesTyped DEF FeedInv, StreamInv, PollInv, Publishes
<1>11. SessionTypes'
  <2>1. cursor \in [Clients -> 0..L] /\ told \in [Clients -> SUBSET (1..L)]
    BY DEF FeedInv, StreamInv, SessionTypes, L
  <2>2. 0..L \subseteq 0..L + 1 /\ 1..L \subseteq 1..L + 1
    BY <1>1
  <2>3. cursor \in [Clients -> 0..L + 1] /\ told \in [Clients -> SUBSET (1..L + 1)]
    BY <2>1, <2>2
  <2> QED
    BY <1>1, <1>3, <2>3 DEF FeedInv, StreamInv, SessionTypes
<1>12. AnswerTypes'
  <2>1. 1..L \subseteq 1..L + 1
    BY <1>1
  <2>2. \A c \in Clients : answer[c].events \subseteq 1..L /\ answer[c].unacked \subseteq 1..L
    BY DEF FeedInv, StreamInv, AnswerTypes, L
  <2>3. \A c \in Clients : answer[c].cursor <= L + 1
    BY <1>1, <1>6
  <2> QED
    BY <1>1, <1>3, <2>1, <2>2, <2>3 DEF FeedInv, StreamInv, AnswerTypes
<1>13. StatesLogged'
  <2>1. StateAt(log, L) = op /\ \A m \in 0..L : StateAt(log, m) <= op /\ StateAt(log, m) \in 0..MaxChanges
    <3>1. \A m \in 0..L : StateAt(log, m) <= StateAt(log, L) /\ StateAt(log, m) \in 0..MaxChanges
      BY <1>1, LogFacts DEF FeedInv, StreamInv, StatesLogged, L
    <3>2. StateAt(log, L) = op
      BY <1>2 DEF FeedInv, StreamInv, StatesLogged, L
    <3> QED
      BY <3>1, <3>2
  <2>2. \A m \in 0..L + 1 : StateAt(log', m) <= op'
    BY <1>1, <1>2, <2>1
  <2>3. ASSUME NEW n \in 0..L + 1, NEW m \in 0..L + 1, m <= n PROVE StateAt(log', m) <= StateAt(log', n)
    <3>1. CASE n = L + 1
      BY <1>1, <1>2, <2>2, <3>1
    <3>2. CASE n \in 0..L
      <4>1. m \in 0..L
        BY <1>1, <2>3, <3>2
      <4>2. StateAt(log, m) <= StateAt(log, n)
        BY <2>3, <3>2, <4>1 DEF FeedInv, StreamInv, StatesLogged, L
      <4> QED
        BY <1>1, <3>2, <4>1, <4>2
    <3> QED
      BY <1>1, <3>1, <3>2
  <2>4. ASSUME NEW n \in 0..L + 1, NEW m \in 0..L + 1, m < n
        PROVE  \/ StateAt(log', n) = StateAt(log', m)
               \/ \E k \in m + 1..n : log'[k].kind = "state" /\ log'[k].op = StateAt(log', n)
    <3>1. ASSUME NEW p \in 0..L, m < p, StateAt(log, m) # StateAt(log, p)
          PROVE  \E k \in m + 1..p : log'[k].kind = "state" /\ log'[k].op = StateAt(log, p)
      <4> m \in 0..L
        BY <1>1, <3>1
      <4>1. PICK k \in m + 1..p : log[k].kind = "state" /\ log[k].op = StateAt(log, p)
        <5>1. /\ m < p /\ StateAt(log, p) # StateAt(log, m)
              /\ \A n1 \in 0..L, m1 \in 0..L :
                   m1 < n1 => \/ StateAt(log, n1) = StateAt(log, m1)
                              \/ \E k \in m1 + 1..n1 : log[k].kind = "state" /\ log[k].op = StateAt(log, n1)
          BY <3>1 DEF FeedInv, StreamInv, StatesLogged, L
        <5> QED
          BY <5>1
      <4>2. log'[k] = log[k]
        BY <1>1, <4>1
      <4> QED
        BY <4>1, <4>2
    <3>2. CASE n \in 0..L
      BY <1>1, <2>4, <3>1, <3>2
    <3>3. CASE n = L + 1 /\ op' # op
      BY <1>1, <1>2, <2>4, <3>3
    <3>4. CASE n = L + 1 /\ op' = op
      <4>1. StateAt(log', n) = StateAt(log, L) /\ m \in 0..L
        BY <1>1, <1>2, <2>1, <2>4, <3>4
      <4>2. CASE m = L \/ StateAt(log, m) = StateAt(log, L)
        BY <1>1, <4>1, <4>2
      <4>3. CASE m # L /\ StateAt(log, m) # StateAt(log, L)
        <5>1. PICK k \in m + 1..L : log'[k].kind = "state" /\ log'[k].op = StateAt(log, L)
          BY <1>1, <3>1, <4>1, <4>3
        <5> QED
          BY <1>1, <3>4, <4>1, <5>1
      <4> QED
        BY <4>2, <4>3
    <3> QED
      BY <1>1, <3>2, <3>3, <3>4
  <2>5. StateAt(log', L + 1) = op'
    BY <1>1, <1>2
  <2>6. StateAt(log', Len(log')) = op'
    BY <1>1, <2>5
  <2> QED
    BY <1>1, <1>2, <2>3, <2>4, <2>6 DEF StatesLogged
<1>14. AnswersFollow'
  <2> SUFFICES ASSUME NEW c \in Clients, pc[c] = "answered", id[c] = asked[c]
               PROVE  /\ cursor[c] <= answer[c].cursor
                      /\ ~answer[c].reset => answer[c].events = cursor[c] + 1..answer[c].cursor
                      /\ answer[c].reset =>
                           /\ answer[c].op >= StateAt(log', answer[c].cursor)
                           /\ ~shut' => answer[c].op = StateAt(log', answer[c].cursor)
                           /\ \A n \in pending' : n <= answer[c].cursor => n \in answer[c].unacked
    BY <1>3 DEF AnswersFollow, StateAt
  <2>1. StateAt(log', answer[c].cursor) = StateAt(log, answer[c].cursor)
    BY <1>1, <1>3, <1>6 DEF StateAt
  <2>2. \A n \in pending' : n <= answer[c].cursor => n \in pending
    BY <1>1, <1>4, <1>6
  <2> QED
    BY <1>2, <2>1, <2>2 DEF FeedInv, StreamInv, AnswersFollow
<1>15. CuesBehind'
  <2>1. \A n \in 1..MaxEvents : n > L + 1 => cues'[n] = 0
    BY <1>1, <1>7 DEF FeedInv, StreamInv, CuesBehind, L
  <2>2. ASSUME NEW n \in 1..L + 1, NEW c \in Clients, log'[n].cue # 0, cues'[n] = 1, id[c] = log'[n].cue
        PROVE  n <= cursor[c]
    <3>1. n \in 1..L /\ log'[n] = log[n] /\ cues'[n] = cues[n]
      BY <1>1, <1>7, <1>8, <2>2
    <3> QED
      BY <2>2, <3>1 DEF FeedInv, StreamInv, CuesBehind, L
  <2>3. \A n \in 1..L + 1 : log'[n].cue <= used
    BY <1>1, <1>2 DEF FeedInv, StreamInv, CuesBehind, L
  <2> QED
    BY <1>1, <1>2, <1>3, <2>1, <2>2, <2>3 DEF CuesBehind
<1>16. ViewsFollow'
  <2> SUFFICES ASSUME NEW c \in Clients, id[c] # 0
               PROVE  view[c] >= StateAt(log', cursor[c]) /\ (~shut' => view[c] = StateAt(log', cursor[c]))
    BY <1>3 DEF ViewsFollow, StateAt
  <2>1. StateAt(log', cursor[c]) = StateAt(log, cursor[c])
    BY <1>1, <1>3, <1>6 DEF StateAt
  <2> QED
    BY <1>2, <2>1 DEF FeedInv, StreamInv, ViewsFollow
<1>17. ResultsFollow'
  <2>1. \A n \in pending' : log'[n].kind = "result"
    BY <1>1, <1>4 DEF FeedInv, StreamInv, ResultsFollow
  <2>2. ASSUME NEW c \in Clients, id[c] # 0, holder'["clipboard"] = id[c]
        PROVE  "clipboard" \in granted[c] /\ \A n \in pending' : n > cursor[c] => log'[n].clip = id[c]
    <3>1. holder["clipboard"] = id[c]
      BY <2>2, HoldersHeld DEF Publishes
    <3>2. "clipboard" \in granted[c] /\ \A n \in pending : n > cursor[c] => log[n].clip = id[c]
      BY <2>2, <3>1 DEF FeedInv, StreamInv, ResultsFollow
    <3>3. e.kind = "result" => e.clip = id[c]
      BY <2>2 DEF Publishes
    <3> QED
      BY <1>1, <1>4, <3>2, <3>3
  <2> QED
    BY <1>3, <2>1, <2>2 DEF ResultsFollow
<1>18. HolderKnowsPending'
  <2> SUFFICES ASSUME NEW c \in Clients, id[c] # 0, holder'["clipboard"] = id[c],
                      NEW n \in pending', n <= cursor[c]
               PROVE  n \in told[c]
    BY <1>3 DEF HolderKnowsPending
  <2>1. holder["clipboard"] = id[c]
    BY HoldersHeld DEF Publishes
  <2>2. n \in pending
    BY <1>1, <1>4, <1>6
  <2> QED
    BY <2>1, <2>2 DEF FeedInv, StreamInv, HolderKnowsPending
<1> QED
  BY <1>9, <1>10, <1>11, <1>12, <1>13, <1>14, <1>15, <1>16, <1>17, <1>18 DEF StreamInv

\* What a step that publishes nothing keeps by itself.
LEMMA LogKept ==
  ASSUME FeedInv, UNCHANGED <<log, op, shut, pending>>, cues' \in [1..MaxEvents -> {0, 1}]
  PROVE  LogTypes' /\ StatesLogged'
  BY DEF FeedInv, StreamInv, LogTypes, StatesLogged

\* Leases, sessions and answers may be dropped without effect on the others.
LEMMA QuietKeeps ==
  ASSUME FeedInv, Quiet
  PROVE  StreamInv'
<1>1. /\ LeasesShrink /\ SessionsShrink /\ pending' \subseteq pending
      /\ UNCHANGED <<log, shut, cues, cursor, granted, view, told>>
      /\ op' = op \/ (shut /\ op' = op + 1 /\ op < MaxChanges)
  BY DEF Quiet
<1>2. \A c \in Clients : id'[c] \in {0, id[c]}
  BY <1>1 DEF SessionsShrink, FeedInv, PollInv, PollerTypes
<1>3. LogTypes'
  <2>1. op' \in 0..MaxChanges
    BY <1>1, HubBounds DEF FeedInv, StreamInv, LogTypes
  <2> QED
    BY <1>1, <2>1 DEF FeedInv, StreamInv, LogTypes
<1>4. LeaseTypes'
  BY <1>1, LeasesTyped DEF FeedInv, StreamInv, PollInv
<1>5. SessionTypes'
  BY <1>1 DEF FeedInv, StreamInv, SessionTypes
<1>6. AnswerTypes'
  <2>1. \A c \in Clients : answer'[c] \in {answer[c], NoAnswer}
    BY <1>1 DEF SessionsShrink
  <2>2. ASSUME NEW c \in Clients
        PROVE  answer'[c].cursor <= Len(log) /\ answer'[c].events \subseteq 1..Len(log)
               /\ answer'[c].unacked \subseteq 1..Len(log)
    <3>1. CASE answer'[c] = answer[c]
      BY <3>1 DEF FeedInv, StreamInv, AnswerTypes
    <3>2. CASE answer'[c] = NoAnswer
      <4>1. Len(log) \in Nat
        BY LogFacts DEF FeedInv
      <4> QED
        BY <3>2, <4>1 DEF NoAnswer
    <3> QED
      BY <2>1, <3>1, <3>2
  <2> QED
    <3>1. log' = log /\ answer' \in [Clients -> AnswerOK]
      BY <1>1 DEF SessionsShrink
    <3> QED
      BY <3>1, <2>2 DEF AnswerTypes
<1>7. StatesLogged'
  <2>1. StateAt(log, Len(log)) <= op' /\ (~shut => StateAt(log, Len(log)) = op')
    <3>1. op \in Int /\ StateAt(log, Len(log)) \in Int
      BY LogFacts DEF FeedInv, StreamInv, LogTypes
    <3> QED
      BY <1>1, <3>1 DEF FeedInv, StreamInv, StatesLogged
  <2> QED
    BY <1>1, <2>1 DEF FeedInv, StreamInv, StatesLogged
<1>8. AnswersFollow'
  <2> SUFFICES ASSUME NEW c \in Clients, pc'[c] = "answered", id'[c] = asked'[c]
               PROVE  /\ cursor[c] <= answer'[c].cursor
                      /\ ~answer'[c].reset => answer'[c].events = cursor[c] + 1..answer'[c].cursor
                      /\ answer'[c].reset =>
                           /\ answer'[c].op >= StateAt(log, answer'[c].cursor)
                           /\ ~shut => answer'[c].op = StateAt(log, answer'[c].cursor)
                           /\ \A n \in pending' : n <= answer'[c].cursor => n \in answer'[c].unacked
    BY <1>1 DEF AnswersFollow
  <2>1. pc[c] = "answered" /\ asked'[c] = asked[c] /\ answer'[c] = answer[c]
    BY <1>1 DEF SessionsShrink
  <2>2. asked[c] # 0
    BY <2>1 DEF FeedInv, PollInv, PollOfSession, Polling
  <2>3. id[c] = asked[c]
    BY <1>2, <2>1, <2>2
  <2> QED
    BY <1>1, <2>1, <2>3 DEF FeedInv, StreamInv, AnswersFollow
<1>9. CuesBehind'
  <2>1. used' = used
    BY <1>1 DEF LeasesShrink
  <2>2. ASSUME NEW n \in 1..Len(log), NEW c \in Clients, log[n].cue # 0, cues[n] = 1, id'[c] = log[n].cue
        PROVE  n <= cursor[c]
    <3>1. id[c] = log[n].cue
      BY <1>2, <2>2
    <3> QED
      BY <2>2, <3>1 DEF FeedInv, StreamInv, CuesBehind
  <2> QED
    BY <1>1, <2>1, <2>2 DEF FeedInv, StreamInv, CuesBehind
<1>10. ViewsFollow'
  BY <1>1, <1>2 DEF FeedInv, StreamInv, ViewsFollow
<1>11. ResultsFollow' /\ HolderKnowsPending'
  <2>1. ASSUME NEW c \in Clients, id'[c] # 0, holder'["clipboard"] = id'[c]
        PROVE  id[c] # 0 /\ holder["clipboard"] = id[c] /\ id'[c] = id[c]
    <3>1. id'[c] = id[c]
      BY <1>2, <2>1
    <3> QED
      BY <1>1, <2>1, <3>1, HoldersHeld
  <2>2. ResultsFollow'
    BY <1>1, <2>1 DEF FeedInv, StreamInv, ResultsFollow
  <2>3. HolderKnowsPending'
    BY <1>1, <2>1 DEF FeedInv, StreamInv, HolderKnowsPending
  <2> QED
    BY <2>2, <2>3
<1> QED
  BY <1>3, <1>4, <1>5, <1>6, <1>7, <1>8, <1>9, <1>10, <1>11 DEF StreamInv

\* A client that registers starts at the newest entry, with the current state and what is pending.
LEMMA JoinKeeps ==
  ASSUME FeedInv, NEW c \in Clients, Joins(c)
  PROVE  StreamInv'
<1> DEFINE L == Len(log)
<1>1. /\ used' = used + 1 /\ used \in Nat /\ id' = [id EXCEPT ![c] = used + 1] /\ pc' = [pc EXCEPT ![c] = "poll"]
      /\ cursor' = [cursor EXCEPT ![c] = L] /\ view' = [view EXCEPT ![c] = op]
      /\ UNCHANGED <<log, op, shut, pending, cues, asked, answer>>
  BY HubBounds DEF Joins, FeedInv, PollInv, RegistryTypes
<1>2. PICK g \in SUBSET Capabilities :
        /\ granted' = [granted EXCEPT ![c] = g]
        /\ told' = [told EXCEPT ![c] = IF "clipboard" \in g THEN told[c] \cup pending ELSE told[c]]
        /\ holder' \in [Capabilities -> 0..used + 1]
        /\ \A cap \in Capabilities :
             IF cap \in g THEN holder'[cap] = used + 1 ELSE holder'[cap] \in {0, holder[cap]}
  BY DEF Joins
<1>3. /\ id \in [Clients -> Nat] /\ pc = [d \in Clients |-> pc[d]] /\ \A d \in Clients : id[d] <= used
      /\ cursor \in [Clients -> 0..L] /\ view \in [Clients -> 0..MaxChanges] /\ told \in [Clients -> SUBSET (1..L)]
      /\ granted \in [Clients -> SUBSET Capabilities] /\ L \in Nat /\ op \in 0..MaxChanges /\ pending \subseteq 1..L
  <2> QED
    BY PollerFacts DEF FeedInv, StreamInv, SessionTypes, LogTypes
<1>4. /\ id'[c] = used + 1 /\ cursor'[c] = L /\ view'[c] = op /\ granted'[c] = g /\ pc'[c] = "poll"
      /\ \A d \in Clients \ {c} : /\ id'[d] = id[d] /\ cursor'[d] = cursor[d] /\ view'[d] = view[d] /\ pc'[d] = pc[d]
                                  /\ granted'[d] = granted[d] /\ told'[d] = told[d]
  BY <1>1, <1>2, <1>3
<1>5. LogTypes' /\ StatesLogged'
  BY <1>1, LogKept DEF FeedInv, StreamInv, LogTypes
<1>6. LeaseTypes'
  BY <1>1, <1>2 DEF LeaseTypes
<1>7. SessionTypes'
  <2>1. told' \in [Clients -> SUBSET (1..L)]
    <3>1. (IF "clipboard" \in g THEN told[c] \cup pending ELSE told[c]) \subseteq 1..L
      BY <1>3
    <3> QED
      BY <1>2, <1>3, <3>1
  <2>2. cursor' \in [Clients -> 0..L] /\ view' \in [Clients -> 0..MaxChanges]
    BY <1>1, <1>3
  <2>3. granted' \in [Clients -> SUBSET Capabilities]
    BY <1>2, <1>3
  <2> QED
    BY <1>1, <2>1, <2>2, <2>3 DEF SessionTypes
<1>8. AnswerTypes'
  BY <1>1 DEF FeedInv, StreamInv, AnswerTypes
<1>9. AnswersFollow'
  <2> SUFFICES ASSUME NEW d \in Clients, pc'[d] = "answered", id'[d] = asked'[d]
               PROVE  /\ cursor'[d] <= answer[d].cursor
                      /\ ~answer[d].reset => answer[d].events = cursor'[d] + 1..answer[d].cursor
                      /\ answer[d].reset =>
                           /\ answer[d].op >= StateAt(log, answer[d].cursor)
                           /\ ~shut => answer[d].op = StateAt(log, answer[d].cursor)
                           /\ \A n \in pending : n <= answer[d].cursor => n \in answer[d].unacked
    BY <1>1 DEF AnswersFollow
  <2>1. d \in Clients \ {c}
    BY <1>4
  <2>2. pc[d] = "answered" /\ id[d] = asked[d] /\ cursor'[d] = cursor[d]
    BY <1>1, <1>4, <2>1
  <2> QED
    BY <2>2 DEF FeedInv, StreamInv, AnswersFollow
<1>10. CuesBehind'
  <2>1. \A n \in 1..L : log[n].cue <= used /\ log[n].cue \in Nat
    BY LogFacts, HubBounds DEF FeedInv, StreamInv, CuesBehind, EntryOK
  <2>2. ASSUME NEW n \in 1..L, NEW d \in Clients, log[n].cue # 0, cues[n] = 1, id'[d] = log[n].cue
        PROVE  n <= cursor'[d]
    <3>1. d \in Clients \ {c}
      BY <1>1, <1>4, <2>1, <2>2
    <3>2. id[d] = log[n].cue /\ cursor'[d] = cursor[d]
      BY <1>4, <2>2, <3>1
    <3> QED
      BY <2>2, <3>2 DEF FeedInv, StreamInv, CuesBehind
  <2>3. \A n \in 1..L : log[n].cue <= used'
    BY <1>1, <2>1
  <2> QED
    BY <1>1, <2>2, <2>3 DEF FeedInv, StreamInv, CuesBehind
<1>11. ViewsFollow'
  <2> SUFFICES ASSUME NEW d \in Clients, id'[d] # 0
               PROVE  view'[d] >= StateAt(log, cursor'[d]) /\ (~shut => view'[d] = StateAt(log, cursor'[d]))
    BY <1>1 DEF ViewsFollow
  <2>1. CASE d = c
    <3>1. StateAt(log, L) <= op /\ (~shut => StateAt(log, L) = op)
      BY DEF FeedInv, StreamInv, StatesLogged
    <3>2. StateAt(log, L) \in Int /\ op \in Int
      BY <1>3, LogFacts DEF FeedInv
    <3> HIDE DEF L
    <3> QED
      BY <1>4, <2>1, <3>1, <3>2
  <2>2. CASE d # c
    BY <1>4, <2>2 DEF FeedInv, StreamInv, ViewsFollow
  <2> QED
    BY <2>1, <2>2
<1>12. ASSUME NEW d \in Clients, id'[d] # 0, holder'["clipboard"] = id'[d]
       PROVE  \/ d = c /\ "clipboard" \in g
              \/ d # c /\ id[d] # 0 /\ holder["clipboard"] = id[d]
  <2>1. "clipboard" \in Capabilities /\ holder["clipboard"] \in 0..used
    BY DEF Capabilities, FeedInv, StreamInv, LeaseTypes
  <2>2. CASE d = c
    BY <1>1, <1>2, <1>4, <1>12, <2>1, <2>2
  <2>3. CASE d # c
    <3>1. id'[d] = id[d] /\ id[d] <= used /\ id[d] \in Nat
      BY <1>3, <1>4, <2>3
    <3>2. "clipboard" \notin g
      BY <1>1, <1>2, <1>12, <2>1, <3>1
    <3> QED
      BY <1>2, <1>12, <2>1, <2>3, <3>1, <3>2
  <2> QED
    BY <2>2, <2>3
<1>13. ResultsFollow'
  <2>1. ASSUME NEW d \in Clients, id'[d] # 0, holder'["clipboard"] = id'[d]
        PROVE  "clipboard" \in granted'[d] /\ \A n \in pending : n > cursor'[d] => log[n].clip = id'[d]
    <3>1. CASE d = c /\ "clipboard" \in g
      BY <1>3, <1>4, <3>1
    <3>2. CASE d # c /\ id[d] # 0 /\ holder["clipboard"] = id[d]
      BY <1>4, <3>2 DEF FeedInv, StreamInv, ResultsFollow
    <3> QED
      BY <1>12, <2>1, <3>1, <3>2
  <2> QED
    BY <1>1, <2>1 DEF FeedInv, StreamInv, ResultsFollow
<1>14. HolderKnowsPending'
  <2> SUFFICES ASSUME NEW d \in Clients, id'[d] # 0, holder'["clipboard"] = id'[d],
                      NEW n \in pending, n <= cursor'[d]
               PROVE  n \in told'[d]
    BY <1>1 DEF HolderKnowsPending
  <2>1. CASE d = c /\ "clipboard" \in g
    BY <1>2, <1>3, <2>1
  <2>2. CASE d # c /\ id[d] # 0 /\ holder["clipboard"] = id[d]
    BY <1>4, <2>2 DEF FeedInv, StreamInv, HolderKnowsPending
  <2> QED
    BY <1>12, <2>1, <2>2
<1> QED
  BY <1>5, <1>6, <1>7, <1>8, <1>9, <1>10, <1>11, <1>13, <1>14 DEF StreamInv

\* An answer takes up where the cursor of the session stands.
LEMMA GetKeeps ==
  ASSUME FeedInv, NEW c \in Clients, NEW a \in AnswerOK, Gets(c, a)
  PROVE  StreamInv'
<1>1. /\ pc[c] \in {"waiting", "stale"} /\ pc' = [pc EXCEPT ![c] = "answered"]
      /\ answer' = [answer EXCEPT ![c] = a]
      /\ \/ ~a.reset /\ a.events = cursor[c] + 1..a.cursor /\ a.cursor \in cursor[c]..Len(log) /\ a.unacked = {}
         \/ a.reset /\ a.events = {} /\ a.cursor = Len(log) /\ a.op = op /\ a.unacked = pending
      /\ UNCHANGED <<id, asked, log, op, shut, pending, cues, cursor, granted, view, told>>
  BY DEF Gets, feedVars
<1>2. LeasesShrink /\ used' = used
  BY DEF Gets, LeasesShrink
<1>3. /\ answer \in [Clients -> AnswerOK] /\ pc = [d \in Clients |-> pc[d]]
      /\ Len(log) \in Nat /\ cursor[c] \in 0..Len(log)
  BY PollerFacts, LogFacts, SessionFacts DEF FeedInv, StreamInv, AnswerTypes
<1>4. /\ answer'[c] = a /\ pc'[c] = "answered"
      /\ \A d \in Clients \ {c} : answer'[d] = answer[d] /\ pc'[d] = pc[d]
  BY <1>1, <1>3
<1>5. a.cursor \in cursor[c]..Len(log) /\ a.cursor \in Nat
  BY <1>1, <1>3 DEF AnswerOK
<1>6. LogTypes' /\ StatesLogged'
  <2>1. UNCHANGED <<log, op, shut, pending>> /\ cues' = cues
    BY <1>1
  <2>2. cues' \in [1..MaxEvents -> {0, 1}]
    BY <2>1 DEF FeedInv, StreamInv, LogTypes
  <2> QED
    BY <2>1, <2>2, LogKept
<1>7. LeaseTypes'
  BY <1>2, LeasesTyped DEF FeedInv, StreamInv, PollInv
<1>8. SessionTypes'
  BY <1>1 DEF FeedInv, StreamInv, SessionTypes
<1>9. AnswerTypes'
  <2>1. a.events \subseteq 1..Len(log)
    <3>1. cursor[c] + 1..a.cursor \subseteq 1..Len(log)
      BY <1>3, <1>5
    <3> QED
      BY <1>1, <3>1
  <2>2. a.unacked \subseteq 1..Len(log)
    BY <1>1 DEF FeedInv, StreamInv, LogTypes
  <2>3. a.cursor <= Len(log)
    BY <1>3, <1>5
  <2>4. answer' \in [Clients -> AnswerOK]
    BY <1>1, <1>3
  <2>5. \A d \in Clients \ {c} : /\ answer[d].cursor <= Len(log) /\ answer[d].events \subseteq 1..Len(log)
                                 /\ answer[d].unacked \subseteq 1..Len(log)
    BY DEF FeedInv, StreamInv, AnswerTypes
  <2> QED
    BY <1>1, <1>4, <2>1, <2>2, <2>3, <2>4, <2>5 DEF AnswerTypes
<1>10. AnswersFollow'
  <2> SUFFICES ASSUME NEW d \in Clients, pc'[d] = "answered", id[d] = asked[d]
               PROVE  /\ cursor[d] <= answer'[d].cursor
                      /\ ~answer'[d].reset => answer'[d].events = cursor[d] + 1..answer'[d].cursor
                      /\ answer'[d].reset =>
                           /\ answer'[d].op >= StateAt(log, answer'[d].cursor)
                           /\ ~shut => answer'[d].op = StateAt(log, answer'[d].cursor)
                           /\ \A n \in pending : n <= answer'[d].cursor => n \in answer'[d].unacked
    BY <1>1 DEF AnswersFollow
  <2>1. CASE d = c
    <3>1. cursor[c] <= a.cursor
      BY <1>3, <1>5
    <3>2. StateAt(log, Len(log)) <= op /\ (~shut => StateAt(log, Len(log)) = op)
      BY DEF FeedInv, StreamInv, StatesLogged
    <3>3. StateAt(log, Len(log)) \in Int /\ op \in Int
      BY <1>3, LogFacts DEF FeedInv, StreamInv, LogTypes
    <3>4. a.reset => a.op >= StateAt(log, a.cursor) /\ (~shut => a.op = StateAt(log, a.cursor))
      BY <1>1, <3>2, <3>3
    <3> QED
      BY <1>1, <1>4, <2>1, <3>1, <3>4
  <2>2. CASE d # c
    BY <1>4, <2>2 DEF FeedInv, StreamInv, AnswersFollow
  <2> QED
    BY <2>1, <2>2
<1>11. CuesBehind' /\ ViewsFollow'
  BY <1>1, <1>2 DEF FeedInv, StreamInv, CuesBehind, ViewsFollow
<1>12. ResultsFollow'
  BY <1>1, <1>2, HoldersHeld DEF FeedInv, StreamInv, ResultsFollow
<1>13. HolderKnowsPending'
  BY <1>1, <1>2, HoldersHeld DEF FeedInv, StreamInv, HolderKnowsPending
<1> QED
  BY <1>6, <1>7, <1>8, <1>9, <1>10, <1>11, <1>12, <1>13 DEF StreamInv

\* The newest state among the entries that a client takes, or the one it shows already.
LEMMA ViewTaken ==
  ASSUME StreamInv, NEW from \in 0..Len(log), NEW till \in 0..Len(log), from <= till,
         NEW v \in 0..MaxChanges, v >= StateAt(log, from), ~shut => v = StateAt(log, from)
  PROVE  LET w == Max({v} \cup {log[n].op : n \in {m \in from + 1..till : log[m].kind = "state"}})
         IN  w \in 0..MaxChanges /\ w >= StateAt(log, till) /\ (~shut => w = StateAt(log, till))
<1> DEFINE T == {log[n].op : n \in {m \in from + 1..till : log[m].kind = "state"}}
           S == {v} \cup T
<1>1. /\ Len(log) \in Nat /\ MaxChanges \in Nat /\ StateAt(log, till) \in 0..MaxChanges
      /\ StateAt(log, from) \in 0..MaxChanges
  BY LogFacts
<1>2. ASSUME NEW x \in T PROVE x \in 0..MaxChanges /\ x <= StateAt(log, till)
  <2>1. PICK n \in from + 1..till : x = log[n].op
    OBVIOUS
  <2>2. n \in 0..Len(log) /\ n <= till /\ x = StateAt(log, n)
    BY <1>1, <2>1 DEF StateAt
  <2>3. StateAt(log, n) <= StateAt(log, till)
    BY <2>2 DEF StreamInv, StatesLogged
  <2> QED
    BY <2>2, <2>3, LogFacts
<1> HIDE DEF T
<1>3. S \in SUBSET Int
  BY <1>1, <1>2
<1>4. CASE v >= StateAt(log, till)
  <2>1. v \in S /\ \A y \in S : v >= y
    BY <1>1, <1>2, <1>4
  <2> HIDE DEF S
  <2>2. Max(S) = v
    BY <1>3, <2>1, MaxIs
  <2>3. ~shut => v = StateAt(log, till)
    <3>1. StateAt(log, from) <= StateAt(log, till)
      BY DEF StreamInv, StatesLogged
    <3> QED
      BY <1>1, <1>4, <3>1
  <2> QED
    BY <1>4, <2>2, <2>3 DEF S, T
<1>5. CASE v < StateAt(log, till)
  <2>1. from < till /\ StateAt(log, till) # StateAt(log, from)
    BY <1>1, <1>5
  <2>2. PICK k \in from + 1..till : log[k].kind = "state" /\ log[k].op = StateAt(log, till)
    <3>1. /\ from < till /\ StateAt(log, till) # StateAt(log, from)
          /\ \A n \in 0..Len(log), m \in 0..Len(log) :
               m < n => \/ StateAt(log, n) = StateAt(log, m)
                        \/ \E k \in m + 1..n : log[k].kind = "state" /\ log[k].op = StateAt(log, n)
      BY <2>1 DEF StreamInv, StatesLogged
    <3> QED
      BY <3>1
  <2>3. StateAt(log, till) \in S
    BY <2>2 DEF T
  <2>4. \A y \in S : StateAt(log, till) >= y
    BY <1>1, <1>2, <1>5
  <2> HIDE DEF S
  <2>5. Max(S) = StateAt(log, till)
    BY <1>3, <2>3, <2>4, MaxIs
  <2> QED
    BY <1>1, <2>5 DEF S, T
<1> QED
  BY <1>1, <1>4, <1>5

\* A cue that an answer brings to the client it is for was not played yet.
LEMMA CuesTaken ==
  ASSUME FeedInv, NEW c \in Clients, Takes(c), NEW n \in 1..MaxEvents
  PROVE  /\ cues'[n] \in {0, 1} /\ cues[n] \in {0, 1}
         /\ cues'[n] # cues[n] =>
              /\ n \in 1..Len(log) /\ log[n].cue = id[c] /\ n <= answer[c].cursor
<1>1. cues \in [1..MaxEvents -> {0, 1}] /\ Len(log) \in Nat /\ Len(log) <= MaxEvents /\ MaxEvents \in Nat
  BY LogFacts DEF FeedInv, StreamInv, LogTypes
<1>2. id[c] # 0 /\ pc[c] = "answered" /\ id[c] = asked[c]
  BY DEF Takes
<1>3. CASE answer[c].reset
  <2>1. cues' = cues
    BY <1>3 DEF Takes
  <2> QED
    BY <1>1, <2>1
<1>4. CASE ~answer[c].reset
  <2>1. cues'[n] = cues[n] + (IF n \in answer[c].events /\ log[n].cue = id[c] THEN 1 ELSE 0)
    BY <1>4 DEF Takes
  <2>2. CASE n \in answer[c].events /\ log[n].cue = id[c]
    <3>1. n \in cursor[c] + 1..answer[c].cursor
      BY <1>2, <1>4, <2>2 DEF FeedInv, StreamInv, AnswersFollow
    <3>2. cursor[c] \in 0..Len(log) /\ answer[c].cursor \in 0..Len(log)
      BY SessionFacts
    <3>3. n \in 1..Len(log) /\ n <= answer[c].cursor /\ ~(n <= cursor[c])
      BY <1>1, <3>1, <3>2
    <3>4. cues[n] # 1
      BY <1>2, <2>2, <3>3 DEF FeedInv, StreamInv, CuesBehind
    <3>5. cues[n] = 0
      BY <1>1, <3>4
    <3> QED
      BY <2>1, <2>2, <3>3, <3>5
  <2>3. CASE ~(n \in answer[c].events /\ log[n].cue = id[c])
    BY <1>1, <2>1, <2>3
  <2> QED
    BY <2>2, <2>3
<1> QED
  BY <1>3, <1>4

\* The poller handles an answer: its cursor, its view, its cues and its results move on together.
LEMMA TakeKeeps ==
  ASSUME FeedInv, NEW c \in Clients, Takes(c)
  PROVE  StreamInv'
<1> DEFINE L == Len(log)
           a == answer[c]
           w == IF a.reset THEN a.op
                ELSE Max({view[c]} \cup {log[n].op : n \in {m \in a.events : log[m].kind = "state"}})
           new == IF a.reset THEN (IF "clipboard" \in granted[c] THEN a.unacked ELSE {})
                  ELSE {n \in a.events : log[n].kind = "result" /\ log[n].clip = id[c]}
<1>1. /\ pc[c] = "answered" /\ id[c] = asked[c] /\ id[c] # 0
      /\ pc' \in {[pc EXCEPT ![c] = "poll"], [pc EXCEPT ![c] = "register"]}
      /\ id' \in {id, [id EXCEPT ![c] = 0]}
      /\ cursor' = [cursor EXCEPT ![c] = a.cursor] /\ view' = [view EXCEPT ![c] = w]
      /\ told' = [told EXCEPT ![c] = told[c] \cup new]
      /\ answer' = [answer EXCEPT ![c] = NoAnswer] /\ asked' = [asked EXCEPT ![c] = 0]
      /\ UNCHANGED <<log, op, shut, pending, granted, used, holder>>
  BY DEF Takes
<1>2. /\ L \in Nat /\ cursor[c] \in 0..L /\ a.cursor \in 0..L /\ a.unacked \subseteq 1..L /\ a.events \subseteq 1..L
      /\ view[c] \in 0..MaxChanges /\ a.op \in 0..MaxChanges
  BY SessionFacts, LogFacts DEF FeedInv
<1>3. /\ cursor[c] <= a.cursor
      /\ ~a.reset => a.events = cursor[c] + 1..a.cursor
      /\ a.reset =>
           /\ a.op >= StateAt(log, a.cursor)
           /\ ~shut => a.op = StateAt(log, a.cursor)
           /\ \A n \in pending : n <= a.cursor => n \in a.unacked
  BY <1>1 DEF FeedInv, StreamInv, AnswersFollow
<1>4. w \in 0..MaxChanges /\ w >= StateAt(log, a.cursor) /\ (~shut => w = StateAt(log, a.cursor))
  <2>1. CASE a.reset
    BY <1>2, <1>3, <2>1
  <2>2. CASE ~a.reset
    <3>1. view[c] >= StateAt(log, cursor[c]) /\ (~shut => view[c] = StateAt(log, cursor[c]))
      BY <1>1 DEF FeedInv, StreamInv, ViewsFollow
    <3> DEFINE S == Max({view[c]} \cup {log[n].op : n \in {m \in cursor[c] + 1..a.cursor : log[m].kind = "state"}})
    <3>2. S \in 0..MaxChanges /\ S >= StateAt(log, a.cursor) /\ (~shut => S = StateAt(log, a.cursor))
      BY <1>2, <1>3, <3>1, ViewTaken DEF FeedInv
    <3>3. w = S
      BY <1>3, <2>2
    <3> QED
      BY <3>2, <3>3
  <2> QED
    BY <2>1, <2>2
<1> HIDE DEF w, new
<1>5. /\ id \in [Clients -> Nat] /\ pc = [d \in Clients |-> pc[d]] /\ answer \in [Clients -> AnswerOK]
      /\ cursor \in [Clients -> 0..L] /\ view \in [Clients -> 0..MaxChanges] /\ told \in [Clients -> SUBSET (1..L)]
  BY PollerFacts DEF FeedInv, StreamInv, SessionTypes, AnswerTypes
<1>6. /\ cursor'[c] = a.cursor /\ view'[c] = w /\ told'[c] = told[c] \cup new /\ answer'[c] = NoAnswer
      /\ pc'[c] # "answered" /\ id'[c] \in {0, id[c]}
      /\ \A d \in Clients \ {c} : /\ cursor'[d] = cursor[d] /\ view'[d] = view[d] /\ told'[d] = told[d]
                                  /\ answer'[d] = answer[d] /\ asked'[d] = asked[d]
  BY <1>1, <1>5
<1>7. \A d \in Clients \ {c} : id'[d] = id[d] /\ pc'[d] = pc[d]
  BY <1>1, <1>5
<1>8. LogTypes' /\ StatesLogged'
  <2>1. cues' \in [1..MaxEvents -> {0, 1}]
    <3>1. DOMAIN cues' = 1..MaxEvents /\ cues' = [n \in 1..MaxEvents |-> cues'[n]]
      <4>1. cues \in [1..MaxEvents -> {0, 1}]
        BY DEF FeedInv, StreamInv, LogTypes
      <4>2. \/ cues' = cues
            \/ cues' = [n \in 1..MaxEvents |->
                          cues[n] + (IF n \in answer[c].events /\ log[n].cue = id[c] THEN 1 ELSE 0)]
        BY DEF Takes
      <4> QED
        BY <4>1, <4>2
    <3>2. \A n \in 1..MaxEvents : cues'[n] \in {0, 1}
      BY CuesTaken
    <3> QED
      BY <3>1, <3>2
  <2> QED
    BY <1>1, <2>1, LogKept
<1>9. LeaseTypes'
  BY <1>1 DEF FeedInv, StreamInv, LeaseTypes
<1>10. SessionTypes'
  <2>1. new \subseteq 1..L
    BY <1>2 DEF new
  <2>2. told' \in [Clients -> SUBSET (1..L)]
    BY <1>1, <1>5, <2>1
  <2>3. cursor' \in [Clients -> 0..L]
    BY <1>1, <1>2, <1>5
  <2>4. view' \in [Clients -> 0..MaxChanges]
    BY <1>1, <1>4, <1>5
  <2> QED
    BY <1>1, <2>2, <2>3, <2>4 DEF FeedInv, StreamInv, SessionTypes
<1>11. AnswerTypes'
  <2>1. answer' \in [Clients -> AnswerOK]
    BY <1>1, <1>5, NoAnswerType
  <2>2. NoAnswer.cursor <= L /\ NoAnswer.events \subseteq 1..L /\ NoAnswer.unacked \subseteq 1..L
    BY <1>2 DEF NoAnswer
  <2>3. \A d \in Clients \ {c} : /\ answer[d].cursor <= L /\ answer[d].events \subseteq 1..L
                                 /\ answer[d].unacked \subseteq 1..L
    BY DEF FeedInv, StreamInv, AnswerTypes
  <2> QED
    BY <1>1, <1>6, <2>1, <2>2, <2>3 DEF AnswerTypes
<1>12. AnswersFollow'
  <2> SUFFICES ASSUME NEW d \in Clients, pc'[d] = "answered", id'[d] = asked'[d]
               PROVE  /\ cursor'[d] <= answer'[d].cursor
                      /\ ~answer'[d].reset => answer'[d].events = cursor'[d] + 1..answer'[d].cursor
                      /\ answer'[d].reset =>
                           /\ answer'[d].op >= StateAt(log, answer'[d].cursor)
                           /\ ~shut => answer'[d].op = StateAt(log, answer'[d].cursor)
                           /\ \A n \in pending : n <= answer'[d].cursor => n \in answer'[d].unacked
    BY <1>1 DEF AnswersFollow
  <2>1. d \in Clients \ {c}
    BY <1>6
  <2>2. pc[d] = "answered" /\ id[d] = asked[d] /\ cursor'[d] = cursor[d] /\ answer'[d] = answer[d]
    BY <1>6, <1>7, <2>1
  <2> QED
    BY <2>2 DEF FeedInv, StreamInv, AnswersFollow
<1>13. CuesBehind'
  <2>1. ASSUME NEW n \in 1..MaxEvents, n > L PROVE cues'[n] = 0
    <3>1. cues'[n] = cues[n]
      BY <1>2, <2>1, CuesTaken
    <3> QED
      BY <2>1, <3>1 DEF FeedInv, StreamInv, CuesBehind
  <2>2. ASSUME NEW n \in 1..L, NEW d \in Clients, log[n].cue # 0, cues'[n] = 1, id'[d] = log[n].cue
        PROVE  n <= cursor'[d]
    <3>1. n \in 1..MaxEvents
      BY <1>2, LogFacts DEF FeedInv
    <3>2. id[d] = log[n].cue
      BY <1>6, <1>7, <2>2
    <3>3. cues[n] = 1 => n <= cursor[d]
      BY <2>2, <3>2 DEF FeedInv, StreamInv, CuesBehind
    <3>4. CASE d = c
      <4>1. cues[n] = 1 \/ n <= a.cursor
        BY <2>2, <3>1, CuesTaken
      <4>2. n <= cursor[c] => n <= a.cursor
        BY <1>2, <1>3
      <4> QED
        BY <1>6, <3>3, <3>4, <4>1, <4>2
    <3>5. CASE d # c
      <4>1. log[n].cue # id[c]
        BY <1>1, <3>2, <3>5 DEF FeedInv, PollInv, IdsOwned
      <4>2. cues[n] = 1
        BY <2>2, <3>1, <4>1, CuesTaken
      <4> QED
        BY <1>6, <3>3, <3>5, <4>2
    <3> QED
      BY <3>4, <3>5
  <2> QED
    BY <1>1, <2>1, <2>2 DEF FeedInv, StreamInv, CuesBehind
<1>14. ViewsFollow'
  <2> SUFFICES ASSUME NEW d \in Clients, id'[d] # 0
               PROVE  view'[d] >= StateAt(log, cursor'[d]) /\ (~shut => view'[d] = StateAt(log, cursor'[d]))
    BY <1>1 DEF ViewsFollow
  <2>1. CASE d = c
    BY <1>4, <1>6, <2>1
  <2>2. CASE d # c
    BY <1>6, <1>7, <2>2 DEF FeedInv, StreamInv, ViewsFollow
  <2> QED
    BY <2>1, <2>2
<1>15. ASSUME NEW d \in Clients, id'[d] # 0, holder'["clipboard"] = id'[d]
       PROVE  id'[d] = id[d] /\ id[d] # 0 /\ holder["clipboard"] = id[d]
  BY <1>1, <1>6, <1>7, <1>15
<1>16. ResultsFollow'
  <2>1. ASSUME NEW d \in Clients, id'[d] # 0, holder'["clipboard"] = id'[d]
        PROVE  "clipboard" \in granted[d] /\ \A n \in pending : n > cursor'[d] => log[n].clip = id'[d]
    <3>1. id'[d] = id[d] /\ "clipboard" \in granted[d] /\ \A n \in pending : n > cursor[d] => log[n].clip = id[d]
      BY <1>15, <2>1 DEF FeedInv, StreamInv, ResultsFollow
    <3>2. ASSUME NEW n \in pending, n > cursor'[d] PROVE n > cursor[d]
      <4>1. n \in Int
        BY <1>2 DEF FeedInv, StreamInv, LogTypes
      <4> QED
        BY <1>2, <1>3, <1>6, <3>2, <4>1
    <3> QED
      BY <3>1, <3>2
  <2> QED
    BY <1>1, <2>1 DEF FeedInv, StreamInv, ResultsFollow
<1>17. HolderKnowsPending'
  <2> SUFFICES ASSUME NEW d \in Clients, id'[d] # 0, holder'["clipboard"] = id'[d],
                      NEW n \in pending, n <= cursor'[d]
               PROVE  n \in told'[d]
    BY <1>1 DEF HolderKnowsPending
  <2>1. id[d] # 0 /\ holder["clipboard"] = id[d]
    BY <1>15
  <2>2. n <= cursor[d] => n \in told[d]
    BY <2>1 DEF FeedInv, StreamInv, HolderKnowsPending
  <2>3. CASE d # c
    BY <1>6, <2>2, <2>3
  <2>4. CASE d = c
    <3>1. n <= a.cursor /\ n \in 1..L
      BY <1>6, <2>4 DEF FeedInv, StreamInv, LogTypes
    <3>2. CASE n <= cursor[c]
      BY <1>6, <2>2, <2>4, <3>2
    <3>3. CASE ~(n <= cursor[c])
      <4>1. n > cursor[c] /\ n \in cursor[c] + 1..a.cursor
        BY <1>2, <3>1, <3>3
      <4>2. log[n].kind = "result" /\ log[n].clip = id[c] /\ "clipboard" \in granted[c]
        BY <2>1, <2>4, <4>1 DEF FeedInv, StreamInv, ResultsFollow
      <4>3. n \in new
        BY <1>3, <3>1, <4>1, <4>2 DEF new
      <4> QED
        BY <1>6, <2>4, <4>3
    <3> QED
      BY <3>2, <3>3
  <2> QED
    BY <2>3, <2>4
<1> QED
  BY <1>8, <1>9, <1>10, <1>11, <1>12, <1>13, <1>14, <1>16, <1>17 DEF StreamInv

\* The process of a client ends, and nothing is said of it any more.
LEMMA LeaveKeeps ==
  ASSUME FeedInv, NEW c \in Clients, Leaves(c)
  PROVE  StreamInv'
<1>1. /\ pc' = [pc EXCEPT ![c] = "register"] /\ id' = [id EXCEPT ![c] = 0] /\ asked' = [asked EXCEPT ![c] = 0]
      /\ cursor' = [cursor EXCEPT ![c] = 0] /\ granted' = [granted EXCEPT ![c] = {}]
      /\ view' = [view EXCEPT ![c] = 0] /\ told' = [told EXCEPT ![c] = {}]
      /\ answer' = [answer EXCEPT ![c] = NoAnswer]
      /\ UNCHANGED <<log, op, shut, pending, cues>>
  BY DEF Leaves
<1>2. LeasesShrink /\ used' = used
  BY DEF Leaves, LeasesShrink
<1>3. /\ id \in [Clients -> Nat] /\ pc = [d \in Clients |-> pc[d]] /\ answer \in [Clients -> AnswerOK]
      /\ cursor \in [Clients -> 0..Len(log)] /\ view \in [Clients -> 0..MaxChanges]
      /\ told \in [Clients -> SUBSET (1..Len(log))] /\ granted \in [Clients -> SUBSET Capabilities]
      /\ Len(log) \in Nat /\ MaxChanges \in Nat
  BY PollerFacts, LogFacts DEF FeedInv, StreamInv, SessionTypes, AnswerTypes
<1>4. /\ id'[c] = 0 /\ pc'[c] = "register"
      /\ \A d \in Clients \ {c} : id'[d] = id[d] /\ pc'[d] = pc[d] /\ asked'[d] = asked[d] /\ answer'[d] = answer[d]
  BY <1>1, <1>3
<1>5. \A d \in Clients \ {c} :
        cursor'[d] = cursor[d] /\ granted'[d] = granted[d] /\ view'[d] = view[d] /\ told'[d] = told[d]
  BY <1>1, <1>3
<1>6. LogTypes' /\ StatesLogged'
  <2>1. UNCHANGED <<log, op, shut, pending>> /\ cues' = cues
    BY <1>1
  <2>2. cues' \in [1..MaxEvents -> {0, 1}]
    BY <2>1 DEF FeedInv, StreamInv, LogTypes
  <2> QED
    BY <2>1, <2>2, LogKept
<1>7. LeaseTypes'
  BY <1>2, LeasesTyped DEF FeedInv, StreamInv, PollInv
<1>8. SessionTypes'
  <2>1. cursor' \in [Clients -> 0..Len(log)] /\ view' \in [Clients -> 0..MaxChanges]
    BY <1>1, <1>3
  <2>2. told' \in [Clients -> SUBSET (1..Len(log))] /\ granted' \in [Clients -> SUBSET Capabilities]
    BY <1>1, <1>3
  <2> QED
    BY <1>1, <2>1, <2>2 DEF SessionTypes
<1>9. AnswerTypes'
  <2>1. answer' \in [Clients -> AnswerOK] /\ answer'[c] = NoAnswer
    BY <1>1, <1>3, NoAnswerType
  <2>2. NoAnswer.cursor <= Len(log) /\ NoAnswer.events \subseteq 1..Len(log) /\ NoAnswer.unacked \subseteq 1..Len(log)
    BY <1>3 DEF NoAnswer
  <2>3. \A d \in Clients \ {c} : /\ answer[d].cursor <= Len(log) /\ answer[d].events \subseteq 1..Len(log)
                                 /\ answer[d].unacked \subseteq 1..Len(log)
    BY DEF FeedInv, StreamInv, AnswerTypes
  <2> QED
    BY <1>1, <1>4, <2>1, <2>2, <2>3 DEF AnswerTypes
<1>10. AnswersFollow'
  <2> SUFFICES ASSUME NEW d \in Clients, pc'[d] = "answered", id'[d] = asked'[d]
               PROVE  /\ cursor'[d] <= answer'[d].cursor
                      /\ ~answer'[d].reset => answer'[d].events = cursor'[d] + 1..answer'[d].cursor
                      /\ answer'[d].reset =>
                           /\ answer'[d].op >= StateAt(log, answer'[d].cursor)
                           /\ ~shut => answer'[d].op = StateAt(log, answer'[d].cursor)
                           /\ \A n \in pending : n <= answer'[d].cursor => n \in answer'[d].unacked
    BY <1>1 DEF AnswersFollow
  <2>1. d \in Clients \ {c}
    BY <1>4
  <2>2. pc[d] = "answered" /\ id[d] = asked[d] /\ cursor'[d] = cursor[d] /\ answer'[d] = answer[d]
    BY <1>4, <1>5, <2>1
  <2> QED
    BY <2>2 DEF FeedInv, StreamInv, AnswersFollow
<1>11. CuesBehind'
  <2>1. ASSUME NEW n \in 1..Len(log), NEW d \in Clients, log[n].cue # 0, cues[n] = 1, id'[d] = log[n].cue
        PROVE  n <= cursor'[d]
    <3>1. d \in Clients \ {c} /\ id[d] = log[n].cue /\ cursor'[d] = cursor[d]
      BY <1>4, <1>5, <2>1
    <3> QED
      BY <2>1, <3>1 DEF FeedInv, StreamInv, CuesBehind
  <2> QED
    BY <1>1, <1>2, <2>1 DEF FeedInv, StreamInv, CuesBehind
<1>12. ViewsFollow'
  <2> SUFFICES ASSUME NEW d \in Clients, id'[d] # 0
               PROVE  view'[d] >= StateAt(log, cursor'[d]) /\ (~shut => view'[d] = StateAt(log, cursor'[d]))
    BY <1>1 DEF ViewsFollow
  <2>1. d \in Clients \ {c} /\ id[d] # 0
    BY <1>4
  <2> QED
    BY <1>5, <2>1 DEF FeedInv, StreamInv, ViewsFollow
<1>13. ASSUME NEW d \in Clients, id'[d] # 0, holder'["clipboard"] = id'[d]
       PROVE  /\ id'[d] = id[d] /\ id[d] # 0 /\ holder["clipboard"] = id[d] /\ cursor'[d] = cursor[d]
              /\ granted'[d] = granted[d] /\ told'[d] = told[d]
  <2>1. d \in Clients \ {c} /\ id'[d] = id[d]
    BY <1>4, <1>13
  <2> QED
    BY <1>2, <1>5, <1>13, <2>1, HoldersHeld
<1>14. ResultsFollow'
  BY <1>1, <1>13 DEF FeedInv, StreamInv, ResultsFollow
<1>15. HolderKnowsPending'
  BY <1>1, <1>13 DEF FeedInv, StreamInv, HolderKnowsPending
<1> QED
  BY <1>6, <1>7, <1>8, <1>9, <1>10, <1>11, <1>12, <1>14, <1>15 DEF StreamInv

\* Every step keeps the second layer.
LEMMA StreamKept ==
  ASSUME FeedInv, FeedStep
  PROVE  StreamInv'
<1>1. ASSUME NEW e \in EntryOK, Publishes(e) PROVE StreamInv'
  BY <1>1, PublishKeeps
<1>2. CASE Quiet
  BY <1>2, QuietKeeps
<1>3. ASSUME NEW c \in Clients, Joins(c) \/ Takes(c) \/ Leaves(c) PROVE StreamInv'
  BY <1>3, JoinKeeps, TakeKeeps, LeaveKeeps
<1>4. ASSUME NEW c \in Clients, NEW a \in AnswerOK, Gets(c, a) PROVE StreamInv'
  BY <1>4, GetKeeps
<1> QED
  BY <1>1, <1>2, <1>3, <1>4 DEF FeedStep

-----------------------------------------------------------------------------
(* The inductive invariant.                                                 *)

HubInv == FeedInv /\ RestTypes

\* The invariant holds at the start.
LEMMA HubInit ==
  ASSUME Init
  PROVE  HubInv
<1>1. RegistryTypes /\ PollerTypes /\ LeaseTypes /\ RestTypes
  <2>1. 0 \in 0..MaxIds /\ 0 \in 0..0
    BY HubBounds
  <2>2. RegistryTypes
    BY <2>1 DEF Init, RegistryTypes
  <2>3. PollerTypes /\ LeaseTypes /\ RestTypes
    BY <2>1 DEF Init, PollerTypes, LeaseTypes, RestTypes
  <2> QED
    BY <2>2, <2>3
<1>2. IdsOwned /\ PollOfSession /\ PollsKnown /\ PollsCounted
  BY DEF Init, IdsOwned, PollOfSession, Polling, PollsKnown, PollsCounted, InFlight
<1>3. Len(log) = 0 /\ log = <<>> /\ 0 \in 0..MaxChanges /\ 1..0 = {} /\ MaxEvents \in Nat
  BY HubBounds DEF Init
<1>4. LogTypes
  <2>1. log \in Seq(EntryOK) /\ Len(log) <= MaxEvents
    BY <1>3
  <2>2. cues \in [1..MaxEvents -> {0, 1}]
    BY DEF Init
  <2>3. op \in 0..MaxChanges /\ shut \in BOOLEAN /\ pending \subseteq 1..Len(log)
    BY <1>3 DEF Init
  <2> QED
    BY <2>1, <2>2, <2>3 DEF LogTypes
<1>5. SessionTypes /\ AnswerTypes
  <2>1. SessionTypes
    BY <1>3 DEF Init, SessionTypes
  <2>2. NoAnswer.cursor = 0 /\ NoAnswer.events = {} /\ NoAnswer.unacked = {}
    BY DEF NoAnswer
  <2>3. AnswerTypes
    BY <1>3, <2>2, NoAnswerType DEF Init, AnswerTypes
  <2> QED
    BY <2>1, <2>3
<1>6. StatesLogged
  BY <1>3 DEF Init, StatesLogged, StateAt
<1>7. AnswersFollow /\ CuesBehind /\ ViewsFollow /\ ResultsFollow /\ HolderKnowsPending
  BY <1>3 DEF Init, AnswersFollow, CuesBehind, ViewsFollow, ResultsFollow, HolderKnowsPending
<1> QED
  BY <1>1, <1>2, <1>4, <1>5, <1>6, <1>7 DEF HubInv, FeedInv, PollInv, StreamInv

\* The types that no other part of the invariant needs.
LEMMA RestKept ==
  ASSUME HubInv, Next
  PROVE  RestTypes'
<1>1. silent \subseteq Ids /\ closed \in BOOLEAN
  BY DEF HubInv, RestTypes
<1>2. CASE FallSilent
  <2>1. PICK i \in {holder[cap] : cap \in Capabilities} \ (silent \cup {0}) : silent' = silent \cup {i}
    BY <1>2 DEF FallSilent
  <2>2. i \in Ids
    BY HubBounds DEF HubInv, FeedInv, StreamInv, LeaseTypes, PollInv, RegistryTypes, Ids
  <2> QED
    BY <1>1, <1>2, <2>1, <2>2 DEF FallSilent, hub, RestTypes
<1>3. CASE SetState \/ PublishResult \/ PublishNotice \/ PublishShutdown \/ CloseJournal \/ Forgotten \/ GhostEnds
  BY <1>1, <1>3 DEF SetState, PublishResult, PublishNotice, PublishShutdown, CloseJournal, Forgotten, GhostEnds,
                    Known, Ended, hub, registry, RestTypes
<1>4. ASSUME NEW c \in Clients, ClientStep(c) PROVE RestTypes'
  <2>1. CASE Register(c) \/ Drop(c) \/ BeginPoll(c) \/ Ack(c)
    BY <1>1, <2>1 DEF Register, Drop, BeginPoll, Ack, Known, hub, registry, RestTypes
  <2>2. CASE Read(c) \/ WaitEnds(c) \/ ReadStale(c) \/ Reset(c) \/ Handle(c)
    BY <1>1, <2>2 DEF Read, WaitEnds, ReadStale, Reset, Handle, Answer, Ended, hub, registry, RestTypes
  <2>3. CASE \E b \in BOOLEAN : Ends(c, b)
    BY <1>1, <2>3 DEF Ends, Known, hub, RestTypes
  <2> QED
    BY <1>4, <2>1, <2>2, <2>3 DEF ClientStep
<1> QED
  BY <1>2, <1>3, <1>4 DEF Next

\* Every step of the specification keeps the invariant.
LEMMA HubStep ==
  ASSUME HubInv, [Next]_vars
  PROVE  HubInv'
<1>1. CASE UNCHANGED vars
  <2>1. /\ UNCHANGED <<log, op, shut, closed, pending, used, owner, polls, silent, holder, pc>>
        /\ UNCHANGED <<id, cursor, granted, asked, view, told, answer, ghosts, cues>>
    BY <1>1 DEF vars, hub, registry, session, shown
  <2>2. PollInv'
    BY <2>1 DEF HubInv, FeedInv, PollInv, RegistryTypes, PollerTypes, IdsOwned, PollOfSession, Polling,
                PollsKnown,
                PollsCounted, InFlight
  <2>3. LogTypes' /\ LeaseTypes' /\ SessionTypes' /\ AnswerTypes' /\ StatesLogged'
    BY <2>1 DEF HubInv, FeedInv, StreamInv, LogTypes, LeaseTypes, SessionTypes, AnswerTypes, StatesLogged
  <2>4. AnswersFollow' /\ CuesBehind' /\ ViewsFollow' /\ ResultsFollow' /\ HolderKnowsPending'
    BY <2>1 DEF HubInv, FeedInv, StreamInv, AnswersFollow, CuesBehind, ViewsFollow, ResultsFollow,
                HolderKnowsPending
  <2>5. RestTypes'
    BY <2>1 DEF HubInv, RestTypes
  <2> QED
    BY <2>2, <2>3, <2>4, <2>5 DEF HubInv, FeedInv, StreamInv
<1>2. CASE Next
  <2>1. PollInv'
    BY <1>2, PollSteps, PollsKept DEF HubInv, FeedInv
  <2>2. StreamInv'
    BY <1>2, FeedSteps, StreamKept DEF HubInv
  <2> QED
    BY <1>2, <2>1, <2>2, RestKept DEF HubInv, FeedInv
<1> QED
  BY <1>1, <1>2

\* The inductive invariant holds in every state.
LEMMA HubInvariant == Spec => []HubInv
<1>1. Init => HubInv
  BY HubInit
<1>2. HubInv /\ [Next]_vars => HubInv'
  BY HubStep
<1> QED
  BY <1>1, <1>2, PTL DEF Spec

-----------------------------------------------------------------------------
(* What follows from it.                                                    *)

\* The state at an entry is the newest among the entries up to it, as LastState has it.
LEMMA StateIsLast ==
  ASSUME StreamInv, NEW n \in 0..Len(log)
  PROVE  LastState(n) = StateAt(log, n)
<1> DEFINE S == {0} \cup {log[m].op : m \in 1..n}
<1>1. Len(log) \in Nat /\ MaxChanges \in Nat
  BY LogFacts
<1>2. ASSUME NEW x \in {log[m].op : m \in 1..n} PROVE x \in Int /\ x <= StateAt(log, n)
  <2>1. PICK m \in 1..n : x = log[m].op
    OBVIOUS
  <2>2. m \in 0..Len(log) /\ m <= n /\ x = StateAt(log, m)
    BY <1>1, <2>1 DEF StateAt
  <2>3. StateAt(log, m) <= StateAt(log, n) /\ StateAt(log, m) \in 0..MaxChanges
    BY <2>2, LogFacts DEF StreamInv, StatesLogged
  <2> QED
    BY <2>2, <2>3
<1>3. StateAt(log, n) \in S
  BY <1>1 DEF StateAt
<1>4. StateAt(log, n) \in 0..MaxChanges
  BY LogFacts
<1>5. \A y \in S : y \in Int /\ StateAt(log, n) >= y
  BY <1>1, <1>2, <1>4
<1> HIDE DEF S
<1>6. Max(S) = StateAt(log, n)
  BY <1>3, <1>5, MaxIs
<1> QED
  BY <1>6 DEF LastState, S

\* The invariant gives the types that the runs check.
LEMMA HubTypes ==
  ASSUME HubInv
  PROVE  TypeOK
<1> USE DEF HubInv, FeedInv, PollInv, StreamInv
<1>1. /\ Len(log) \in Nat /\ Len(log) <= MaxEvents /\ DOMAIN log = 1..Len(log)
      /\ \A n \in 1..Len(log) : log[n] \in EntryOK
  BY LogFacts DEF LogTypes
<1>2. \A n \in DOMAIN log : log[n].kind \in {"state", "result", "notice", "shutdown"}
  BY <1>1 DEF EntryOK
<1>3. op \in 0..MaxChanges /\ {shut, closed} \subseteq BOOLEAN /\ pending \subseteq DOMAIN log
  BY <1>1 DEF LogTypes, RestTypes
<1>4. polls \in [Ids -> {0, 1}]
  BY DEF RegistryTypes
<1>5. used \in 0..MaxIds /\ owner \in [Ids -> Clients \cup {Nobody}] /\ silent \subseteq Ids /\ ghosts \subseteq Ids
  BY DEF RegistryTypes, RestTypes
<1>6. 0..used \subseteq Ids \cup {0}
  BY <1>5, HubBounds DEF Ids
<1>7. holder \in [Capabilities -> Ids \cup {0}]
  BY <1>6 DEF LeaseTypes
<1>8. id \in [Clients -> Ids \cup {0}] /\ asked \in [Clients -> Ids \cup {0}]
  BY <1>6 DEF PollerTypes
<1>9. pc \in [Clients -> {"register", "poll", "waiting", "stale", "answered"}]
  BY DEF PollerTypes
<1>10. cursor \in [Clients -> 0..MaxEvents]
  <2>1. 0..Len(log) \subseteq 0..MaxEvents
    BY <1>1, HubBounds
  <2> QED
    BY <2>1 DEF SessionTypes
<1>11. /\ granted \in [Clients -> SUBSET Capabilities] /\ view \in [Clients -> 0..MaxChanges]
       /\ \A c \in Clients : told[c] \subseteq DOMAIN log
  BY <1>1 DEF SessionTypes
<1>12. \A c \in Clients : answer[c].events \subseteq DOMAIN log
  BY <1>1 DEF AnswerTypes
<1> QED
  BY <1>1, <1>2, <1>3, <1>4, <1>5, <1>7, <1>8, <1>9, <1>10, <1>11, <1>12 DEF TypeOK

\* The variables of the hub, the registry and the pollers keep their types; in particular the
\* daemon never counts two polls of one id, though clients die with a poll in flight and come back.
THEOREM HubTypeCorrect == Spec => []TypeOK
<1>1. HubInv => TypeOK
  BY HubTypes
<1> QED
  BY <1>1, HubInvariant, PTL

\* A cue is played at most once, by the daemon or by one client, however the cue lease expires and
\* changes hands between the publication (EventHub._publish_locked) and the poll that delivers it.
THEOREM CuesPlayedOnce == Spec => []OneCue
<1>1. HubInv => OneCue
  BY DEF HubInv, FeedInv, StreamInv, LogTypes, OneCue
<1> QED
  BY <1>1, HubInvariant, PTL

\* A client shows the state its cursor stands for: no state change is missed between the snapshot
\* of its registration and its first poll, between two polls, or when it starts over from a snapshot.
THEOREM ViewsAreCurrent == Spec => []ViewMatchesCursor
<1>1. ASSUME HubInv PROVE ViewMatchesCursor
  <2> SUFFICES ASSUME NEW c \in Clients, id[c] # 0
               PROVE  view[c] >= LastState(cursor[c]) /\ (~shut => view[c] = LastState(cursor[c]))
    BY DEF ViewMatchesCursor
  <2>1. cursor[c] \in 0..Len(log)
    BY <1>1, SessionFacts DEF HubInv
  <2>2. LastState(cursor[c]) = StateAt(log, cursor[c])
    BY <1>1, <2>1, StateIsLast DEF HubInv, FeedInv
  <2> QED
    BY <1>1, <2>2 DEF HubInv, FeedInv, StreamInv, ViewsFollow
<1>2. HubInv => ViewMatchesCursor
  BY <1>1
<1> QED
  BY <1>2, HubInvariant, PTL

\* The client that holds the clipboard knows every pending result up to its cursor, also those
\* that were published while another client held the lease.
THEOREM HolderIsTold == Spec => []HolderKnowsPending
<1>1. HubInv => HolderKnowsPending
  BY DEF HubInv, FeedInv, StreamInv
<1> QED
  BY <1>1, HubInvariant, PTL

-----------------------------------------------------------------------------
(* The pollers read an event feed.                                          *)

FeedAt == [c \in Clients |-> Position(c)]

\* A session that ends leaves the feed.
LEMMA FeedLeave ==
  ASSUME FeedInv, NEW c \in Clients, id' = [id EXCEPT ![c] = 0], Len(log') = Len(log),
         \A d \in Clients \ {c} : cursor'[d] = cursor[d]
  PROVE  Feed!Leave(c)
<1>1. \A d \in Clients : Position(d)' = IF d = c THEN -1 ELSE Position(d)
  BY PollerFacts DEF Position
<1>2. FeedAt' = [FeedAt EXCEPT ![c] = -1]
  BY <1>1 DEF FeedAt
<1> QED
  BY <1>2 DEF Feed!Leave, Feed!Away, FeedAt

\* A step that moves no cursor and publishes nothing is not seen by the feed.
LEMMA FeedStutter ==
  ASSUME UNCHANGED <<id, cursor>>, Len(log') = Len(log)
  PROVE  UNCHANGED <<Len(log), FeedAt>>
  BY DEF FeedAt, Position

\* Every step of the hub and the pollers is a step of the event feed, or none.
LEMMA FeedRefined ==
  ASSUME FeedInv, FeedStep
  PROVE  Feed!Next \/ UNCHANGED <<Len(log), FeedAt>>
<1>1. ASSUME NEW e \in EntryOK, Publishes(e) PROVE Feed!Publish
  <2>1. Len(log') = Len(log) + 1
    BY <1>1, Appended DEF Publishes, FeedInv, StreamInv
  <2>2. FeedAt' = FeedAt
    BY <1>1 DEF Publishes, FeedAt, Position
  <2> QED
    BY <2>1, <2>2 DEF Feed!Publish, FeedAt
<1>2. CASE Quiet
  <2>1. log' = log /\ cursor' = cursor /\ (id' = id \/ \E c \in Clients : id' = [id EXCEPT ![c] = 0])
    BY <1>2 DEF Quiet, SessionsShrink
  <2> QED
    BY <2>1, FeedLeave, FeedStutter DEF Feed!Next
<1>3. ASSUME NEW c \in Clients, Joins(c) PROVE Feed!Join(c)
  <2>1. /\ pc[c] = "register" /\ id' = [id EXCEPT ![c] = used + 1] /\ cursor' = [cursor EXCEPT ![c] = Len(log)]
        /\ log' = log
    BY <1>3 DEF Joins
  <2>2. id[c] = 0
    BY <2>1 DEF FeedInv, PollInv, PollOfSession
  <2>3. cursor = [d \in Clients |-> cursor[d]] /\ id = [d \in Clients |-> id[d]] /\ used + 1 # 0
    BY PollerFacts DEF FeedInv, StreamInv, SessionTypes
  <2>4. \A d \in Clients : Position(d)' = IF d = c THEN Len(log) ELSE Position(d)
    BY <2>1, <2>3 DEF Position
  <2>5. FeedAt' = [FeedAt EXCEPT ![c] = Len(log)]
    BY <2>4 DEF FeedAt
  <2> QED
    BY <2>1, <2>2, <2>5 DEF Feed!Join, Feed!Away, FeedAt, Position
<1>4. ASSUME NEW c \in Clients, Takes(c) PROVE Feed!Advance(c) \/ Feed!Leave(c)
  <2>1. /\ id[c] # 0 /\ pc[c] = "answered" /\ id[c] = asked[c] /\ log' = log
        /\ cursor' = [cursor EXCEPT ![c] = answer[c].cursor]
        /\ id' = id \/ id' = [id EXCEPT ![c] = 0]
    BY <1>4 DEF Takes
  <2>2. cursor = [d \in Clients |-> cursor[d]]
    BY DEF FeedInv, StreamInv, SessionTypes
  <2>3. \A d \in Clients : cursor'[d] = IF d = c THEN answer[c].cursor ELSE cursor[d]
    BY <2>1, <2>2
  <2>4. CASE id' = id
    <3>1. answer[c].cursor \in cursor[c]..Len(log)
      <4>1. cursor[c] <= answer[c].cursor
        BY <2>1 DEF FeedInv, StreamInv, AnswersFollow
      <4> QED
        BY <4>1, SessionFacts
    <3>2. \A d \in Clients : Position(d)' = IF d = c THEN answer[c].cursor ELSE Position(d)
      BY <2>1, <2>3, <2>4 DEF Position
    <3>3. FeedAt' = [FeedAt EXCEPT ![c] = answer[c].cursor]
      BY <3>2 DEF FeedAt
    <3>4. FeedAt[c] = cursor[c] /\ FeedAt[c] # -1
      BY <2>1, SessionFacts DEF FeedAt, Position
    <3> QED
      BY <2>1, <3>1, <3>3, <3>4 DEF Feed!Advance, Feed!Away, FeedAt
  <2>5. CASE id' = [id EXCEPT ![c] = 0]
    BY <2>1, <2>3, <2>5, FeedLeave
  <2> QED
    BY <2>1, <2>4, <2>5
<1>5. ASSUME NEW c \in Clients, Leaves(c) PROVE Feed!Leave(c)
  <2>1. cursor' = [cursor EXCEPT ![c] = 0] /\ log' = log /\ id' = [id EXCEPT ![c] = 0]
    BY <1>5 DEF Leaves
  <2>2. cursor = [d \in Clients |-> cursor[d]]
    BY DEF FeedInv, StreamInv, SessionTypes
  <2>3. \A d \in Clients \ {c} : cursor'[d] = cursor[d]
    BY <2>1, <2>2
  <2> QED
    BY <2>1, <2>3, FeedLeave
<1>6. ASSUME NEW c \in Clients, NEW a \in AnswerOK, Gets(c, a) PROVE UNCHANGED <<Len(log), FeedAt>>
  BY <1>6, FeedStutter DEF Gets, feedVars
<1> QED
  BY <1>1, <1>2, <1>3, <1>4, <1>5, <1>6 DEF FeedStep, Feed!Next

\* The journal with its ring, its long polls and its snapshots implements the abstract event feed:
\* a client joins at the newest event and only moves forward, and never beyond the newest.
THEOREM HubIsEventFeed == Spec => IsEventFeed
<1>1. Init => Feed!Init
  BY DEF Init, Feed!Init, Feed!Away, Position
<1>2. HubInv /\ [Next]_vars => [Feed!Next]_<<Len(log), FeedAt>>
  <2> SUFFICES ASSUME HubInv, [Next]_vars PROVE Feed!Next \/ UNCHANGED <<Len(log), FeedAt>>
    OBVIOUS
  <2>1. CASE Next
    BY <2>1, FeedSteps, FeedRefined DEF HubInv
  <2>2. CASE UNCHANGED vars
    BY <2>2, FeedStutter DEF vars, hub, session
  <2> QED
    BY <2>1, <2>2
<1> QED
  BY <1>1, <1>2, HubInvariant, PTL DEF Spec, IsEventFeed, Feed!Spec, FeedAt
=============================================================================
