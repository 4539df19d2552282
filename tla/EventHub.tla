------------------------------ MODULE EventHub ------------------------------
(***************************************************************************)
(* The daemon's event feed and its clients: EventHub (app/daemon/hub.py),  *)
(* the journal's ring buffer with long polls (journal.py), the leases with *)
(* their lazy expiry (leases.py), and on the other side of HTTP each       *)
(* companion's EventPoller (app/companion/client.py).                      *)
(*                                                                         *)
(* One daemon instance; its restart is the subject of Delivery.  A state   *)
(* of the engine is the number of state changes so far; the payloads are   *)
(* left out.  Time passes when a client has been silent for its lease.     *)
(***************************************************************************)
EXTENDS Integers, Sequences, FiniteSets, FiniteSetsExt

CONSTANTS
  Clients,    \* installs of the companion, each with its client_key
  Nobody,     \* the owner of an id the daemon does not know
  Capacity,   \* of the journal's ring buffer
  MaxEvents,  \* bound: events published
  MaxIds,     \* bound: registrations, all clients together
  MaxChanges  \* bound: state changes, those after the shutdown included

ASSUME HubAssumption ==
  /\ Clients # {} /\ Nobody \notin Clients
  /\ {Capacity, MaxEvents, MaxIds, MaxChanges} \subseteq Nat \ {0}

Capabilities == {"clipboard", "cues"}
Ids == 1..MaxIds   \* client ids in the order they are given out; 0 is none

VARIABLES
  log,      \* every journal entry; the ring holds the last Capacity of them
  op,       \* the current state
  shut,     \* _shut_down
  closed,   \* the journal's _closed
  pending,  \* results the tracker holds as pending, by the seq of their event
  used,     \* ids given out
  owner,    \* the registry's _clients: whose id it is
  polls,    \* long polls in flight, per id
  silent,   \* ids not heard of for their lease_s
  holder,   \* who holds each lease
  pc,       \* of each client's poller: "register", "poll", "waiting", "stale" or "answered"
  id,       \* its session's client_id, 0: no session
  asked,    \* the id its poll in flight was made with
  cursor,   \* its session's cursor
  granted,  \* the leases its session was granted
  view,     \* the state it shows
  told,     \* results it was asked to deliver
  answer,   \* the answer to its poll
  ghosts,   \* ids with a poll in flight whose client is gone
  cues      \* history: cues played for each event, by the daemon or a client

hub == <<log, op, shut, closed, pending>>
registry == <<used, owner, polls, silent, holder>>
session == <<id, cursor, granted>>
shown == <<view, told>>
vars == <<hub, registry, pc, session, asked, shown, answer, ghosts, cues>>

NoAnswer == [reset |-> FALSE, events |-> {}, cursor |-> 0, op |-> 0, unacked |-> {}, leases |-> {}]

-----------------------------------------------------------------------------
(* The leases.                                                              *)

GoneSilent(i) == owner[i] = Nobody \/ (polls[i] = 0 /\ i \in silent)

\* Expiry is evaluated whenever the registry is consulted.
Holders == [cap \in Capabilities |->
              IF holder[cap] # 0 /\ GoneSilent(holder[cap]) THEN 0 ELSE holder[cap]]
LeasesOf(i) == {cap \in Capabilities : Holders[cap] = i}

\* The record of an id that is forgotten goes with it; a poll it left behind ends without effect.
Known(now) ==
  /\ owner' = now
  /\ polls' = [i \in Ids |-> IF now[i] = Nobody THEN 0 ELSE polls[i]]
  /\ silent' = {i \in silent : now[i] # Nobody} /\ ghosts' = {i \in ghosts : now[i] # Nobody}

\* register: the ids of the same install are retired and their leases move on.
Granted(c) == {cap \in Capabilities : Holders[cap] = 0 \/ owner[Holders[cap]] = c}

-----------------------------------------------------------------------------
(* The journal.                                                             *)

NextSeqSkipping == Len(log) + 2
NextSeq == Len(log) + 1
EntriesLate(since) == {n \in since + 2..Len(log) : n > Len(log) - Capacity}
Entries(since) == {n \in since + 1..Len(log) : n > Len(log) - Capacity}
NeverStale(since) == FALSE
Stale(since) == since < Len(log) - Capacity

NeedsCueOfAny(n, i) == log[n].cue # 0
NeedsCue(n, i) == log[n].cue = i
NeedsDelivery(n, i) == log[n].kind = "result" /\ log[n].clip = i

Entry(kind, state, held) == [kind |-> kind, op |-> state, cue |-> held["cues"], clip |-> held["clipboard"]]

Played(n, times) == [cues EXCEPT ![n] = @ + times]

Init ==
  /\ log = <<>> /\ op = 0 /\ shut = FALSE /\ closed = FALSE /\ pending = {}
  /\ used = 0 /\ owner = [i \in Ids |-> Nobody] /\ polls = [i \in Ids |-> 0] /\ silent = {}
  /\ holder = [cap \in Capabilities |-> 0]
  /\ pc = [c \in Clients |-> "register"] /\ id = [c \in Clients |-> 0]
  /\ asked = [c \in Clients |-> 0]
  /\ cursor = [c \in Clients |-> 0] /\ granted = [c \in Clients |-> {}]
  /\ view = [c \in Clients |-> 0] /\ told = [c \in Clients |-> {}]
  /\ answer = [c \in Clients |-> NoAnswer]
  /\ ghosts = {} /\ cues = [n \in 1..MaxEvents |-> 0]

-----------------------------------------------------------------------------
(* The engine's side.                                                       *)

\* _apply_locked: the holders are evaluated once, and the daemon plays the cue if nobody does.
SetState ==
  /\ op < MaxChanges
  /\ op' = op + 1
  /\ IF shut THEN UNCHANGED <<log, holder, cues>>
     ELSE /\ Len(log) < MaxEvents
          /\ log' = Append(log, Entry("state", op', Holders))
          /\ holder' = Holders
          /\ cues' = Played(NextSeq, IF Holders["cues"] = 0 THEN 1 ELSE 0)
  /\ UNCHANGED <<shut, closed, pending, used, owner, polls, silent, pc, session, asked, shown, answer, ghosts>>

\* publish_result: pending only when a client holds the clipboard.
PublishResult ==
  /\ ~shut /\ Len(log) < MaxEvents
  /\ log' = Append(log, Entry("result", op, Holders))
  /\ holder' = Holders
  /\ pending' = IF Holders["clipboard"] = 0 THEN pending ELSE pending \cup {NextSeq}
  /\ cues' = Played(NextSeq, IF Holders["cues"] = 0 THEN 1 ELSE 0)
  /\ UNCHANGED <<op, shut, closed, used, owner, polls, silent, pc, session, asked, shown, answer, ghosts>>

\* _publish_notice, for errors and warnings: a cue like any other, and no delivery.
PublishNotice ==
  /\ ~shut /\ Len(log) < MaxEvents
  /\ log' = Append(log, Entry("notice", op, Holders))
  /\ holder' = Holders
  /\ cues' = Played(NextSeq, IF Holders["cues"] = 0 THEN 1 ELSE 0)
  /\ UNCHANGED <<op, shut, closed, pending, used, owner, polls, silent, pc, session, asked, shown, answer, ghosts>>

PublishShutdown ==
  /\ ~shut /\ Len(log) < MaxEvents
  /\ shut' = TRUE
  /\ log' = Append(log, Entry("shutdown", op, [cap \in Capabilities |-> 0]))
  /\ UNCHANGED <<op, closed, pending, registry, pc, session, asked, shown, answer, ghosts, cues>>

\* The journal is closed after the hub lock is released.
CloseJournal ==
  /\ shut /\ ~closed /\ closed' = TRUE
  /\ UNCHANGED <<log, op, shut, pending, registry, pc, session, asked, shown, answer, ghosts, cues>>

\* Only a holder's silence is ever looked at.
FallSilent ==
  /\ \E i \in {holder[cap] : cap \in Capabilities} \ (silent \cup {0}) :
       polls[i] = 0 /\ silent' = silent \cup {i}
  /\ UNCHANGED <<hub, used, owner, polls, holder, pc, session, asked, shown, answer, ghosts, cues>>

\* Other installs register, and to make room a client with no lease and no poll is forgotten.
Forgotten ==
  /\ \E i \in Ids : /\ owner[i] # Nobody /\ polls[i] = 0 /\ i \notin {Holders[cap] : cap \in Capabilities}
                   /\ Known([owner EXCEPT ![i] = Nobody])
  /\ holder' = Holders
  /\ UNCHANGED <<hub, used, pc, session, asked, shown, answer, cues>>

-----------------------------------------------------------------------------
(* A client's requests.                                                     *)

\* register: the grant and the snapshot are taken together under the hub lock.
Register(c) ==
  /\ pc[c] = "register" /\ used < MaxIds
  /\ LET new == used + 1
     IN  /\ used' = new
         /\ Known([i \in Ids |-> IF i = new THEN c ELSE IF owner[i] = c THEN Nobody ELSE owner[i]])
         /\ holder' = [cap \in Capabilities |-> IF cap \in Granted(c) THEN new ELSE Holders[cap]]
         /\ id' = [id EXCEPT ![c] = new]
  /\ granted' = [granted EXCEPT ![c] = Granted(c)]
  /\ cursor' = [cursor EXCEPT ![c] = Len(log)]
  /\ view' = [view EXCEPT ![c] = op]
  /\ told' = [told EXCEPT ![c] = IF "clipboard" \in Granted(c) THEN @ \cup pending ELSE @]
  /\ pc' = [pc EXCEPT ![c] = "poll"]
  /\ UNCHANGED <<hub, asked, answer, cues>>

\* A session that was dropped is not polled with.
Drop(c) ==
  /\ pc[c] = "poll" /\ id[c] = 0
  /\ pc' = [pc EXCEPT ![c] = "register"]
  /\ UNCHANGED <<hub, registry, session, asked, shown, answer, ghosts, cues>>

\* GET /events starts: 410 for an id the daemon does not know.
BeginPoll(c) ==
  /\ pc[c] = "poll" /\ id[c] # 0
  /\ IF owner[id[c]] = Nobody
     THEN /\ pc' = [pc EXCEPT ![c] = "register"] /\ id' = [id EXCEPT ![c] = 0]
          /\ UNCHANGED <<polls, silent, asked>>
     ELSE /\ pc' = [pc EXCEPT ![c] = "waiting"]
          /\ asked' = [asked EXCEPT ![c] = id[c]]
          /\ polls' = [polls EXCEPT ![id[c]] = @ + 1]
          /\ silent' = silent \ {id[c]}
          /\ UNCHANGED id
  /\ holder' = Holders
  /\ UNCHANGED <<hub, used, owner, cursor, granted, shown, answer, ghosts, cues>>

\* end_poll, for an id that may have been retired meanwhile.
Ended(i) ==
  /\ polls' = [polls EXCEPT ![i] = IF owner[i] = Nobody THEN @ ELSE @ - 1]
  /\ silent' = silent \ {i}

WakesOnEvent(c) == cursor[c] < Len(log)
Wakes(c) == cursor[c] < Len(log) \/ closed

\* A read without entries leaves the cursor where it was.
CursorForgotten(since) == 0
CursorKept(since) == since

\* The answer names the leases the client has when it is made up.
Answer(c, found, till) ==
  /\ answer' = [answer EXCEPT ![c] =
       [NoAnswer EXCEPT !.events = found, !.cursor = till, !.leases = LeasesOf(asked[c])]]
  /\ Ended(asked[c]) /\ holder' = Holders
  /\ pc' = [pc EXCEPT ![c] = "answered"]
  /\ UNCHANGED <<hub, used, owner, session, asked, shown, ghosts, cues>>

\* The read returns with the entries, or because the journal is closed ...
Read(c) ==
  /\ pc[c] = "waiting" /\ Wakes(c) /\ ~Stale(cursor[c])
  /\ Answer(c, Entries(cursor[c]), Len(log))

\* ... or its wait is over ...
WaitEnds(c) ==
  /\ pc[c] = "waiting" /\ ~Wakes(c)
  /\ Answer(c, {}, CursorKept(cursor[c]))

\* ... or because the ring no longer has what comes after the cursor.
ReadStale(c) ==
  /\ pc[c] = "waiting" /\ Stale(cursor[c])
  /\ Ended(asked[c])
  /\ pc' = [pc EXCEPT ![c] = "stale"]
  /\ UNCHANGED <<hub, used, owner, holder, session, asked, shown, answer, ghosts, cues>>

\* _reset_events: a snapshot and the cursor it stands at, under the hub lock.
Reset(c) ==
  /\ pc[c] = "stale"
  /\ answer' = [answer EXCEPT ![c] =
       [NoAnswer EXCEPT !.reset = TRUE, !.cursor = Len(log), !.op = op, !.unacked = pending,
                        !.leases = LeasesOf(asked[c])]]
  /\ holder' = Holders
  /\ pc' = [pc EXCEPT ![c] = "answered"]
  /\ UNCHANGED <<hub, used, owner, polls, silent, session, asked, shown, ghosts, cues>>

\* The poller handles the answer, unless its session was dropped meanwhile; a lease missing
\* from the answer makes it register again.
Handle(c) ==
  /\ pc[c] = "answered"
  /\ LET a == answer[c]
         states == {log[n].op : n \in {m \in a.events : log[m].kind = "state"}}
         lost == ~(granted[c] \subseteq a.leases)
     IN  IF id[c] # asked[c]
         THEN /\ pc' = [pc EXCEPT ![c] = "register"] /\ UNCHANGED <<session, shown, cues>>
         ELSE /\ cursor' = [cursor EXCEPT ![c] = a.cursor]
              /\ view' = [view EXCEPT ![c] = IF a.reset THEN a.op ELSE Max({@} \cup states)]
              /\ told' = [told EXCEPT ![c] = @ \cup
                   IF a.reset THEN (IF "clipboard" \in granted[c] THEN a.unacked ELSE {})
                   ELSE {n \in a.events : NeedsDelivery(n, asked[c])}]
              /\ cues' = IF a.reset THEN cues
                         ELSE [n \in DOMAIN cues |->
                                 cues[n] + (IF n \in a.events /\ NeedsCue(n, asked[c]) THEN 1 ELSE 0)]
              /\ pc' = [pc EXCEPT ![c] = IF lost THEN "register" ELSE "poll"]
              /\ id' = [id EXCEPT ![c] = IF lost THEN 0 ELSE @]
              /\ UNCHANGED granted
  /\ answer' = [answer EXCEPT ![c] = NoAnswer] /\ asked' = [asked EXCEPT ![c] = 0]
  /\ UNCHANGED <<hub, registry, ghosts>>

\* POST /results/ack, from another thread of the client: 410 drops the session.
Ack(c) ==
  /\ id[c] # 0 /\ told[c] \cap pending # {}
  /\ holder' = Holders
  /\ IF owner[id[c]] = Nobody
     THEN id' = [id EXCEPT ![c] = 0] /\ UNCHANGED <<pending, silent>>
     ELSE /\ \E n \in told[c] \cap pending : pending' = pending \ {n}
          /\ silent' = silent \ {id[c]} /\ UNCHANGED id
  /\ UNCHANGED <<log, op, shut, closed, used, owner, polls, pc, cursor, granted, asked, shown, answer, ghosts, cues>>

\* The client's process ends: Quit unregisters its id, a crash does not.  A poll of it that
\* is waiting in the daemon goes on until its wait is over.
Ends(c, unregisters) ==
  /\ pc[c] # "register" \/ id[c] # 0
  /\ LET i == id[c]
     IN  IF unregisters /\ i # 0
         THEN /\ Known([owner EXCEPT ![i] = Nobody])
              /\ holder' = [cap \in Capabilities |-> IF holder[cap] = i THEN 0 ELSE holder[cap]]
         ELSE /\ ghosts' = IF pc[c] = "waiting" THEN ghosts \cup {asked[c]} ELSE ghosts
              /\ UNCHANGED <<owner, holder, polls, silent>>
  /\ pc' = [pc EXCEPT ![c] = "register"] /\ id' = [id EXCEPT ![c] = 0]
  /\ asked' = [asked EXCEPT ![c] = 0] /\ answer' = [answer EXCEPT ![c] = NoAnswer]
  /\ cursor' = [cursor EXCEPT ![c] = 0] /\ granted' = [granted EXCEPT ![c] = {}]
  /\ view' = [view EXCEPT ![c] = 0] /\ told' = [told EXCEPT ![c] = {}]
  /\ UNCHANGED <<hub, used, cues>>

GhostEnds ==
  /\ \E i \in ghosts : Ended(i) /\ ghosts' = ghosts \ {i}
  /\ UNCHANGED <<hub, used, owner, holder, pc, session, asked, shown, answer, cues>>

ClientStep(c) ==
  \/ Register(c) \/ Drop(c) \/ BeginPoll(c) \/ Read(c) \/ WaitEnds(c) \/ ReadStale(c) \/ Reset(c) \/ Handle(c) \/ Ack(c)
  \/ \E unregisters \in BOOLEAN : Ends(c, unregisters)

Next ==
  \/ SetState \/ PublishResult \/ PublishNotice \/ PublishShutdown \/ CloseJournal \/ FallSilent \/ Forgotten \/ GhostEnds
  \/ \E c \in Clients : ClientStep(c)

Spec == Init /\ [][Next]_vars

\* The engine closes the journal when it shuts down, and each poller goes on: that a wait ends by
\* itself, that a client stays, or that the engine does anything else is not assumed.
Poller(c) == Register(c) \/ Drop(c) \/ BeginPoll(c) \/ Read(c) \/ ReadStale(c) \/ Reset(c) \/ Handle(c)
FairSpec == Spec /\ WF_vars(CloseJournal) /\ \A c \in Clients : WF_vars(Poller(c))

-----------------------------------------------------------------------------

TypeOK ==
  /\ Len(log) <= MaxEvents /\ op \in 0..MaxChanges /\ {shut, closed} \subseteq BOOLEAN
  /\ \A n \in DOMAIN log : log[n].kind \in {"state", "result", "notice", "shutdown"}
  /\ pending \subseteq DOMAIN log
  /\ used \in 0..MaxIds /\ owner \in [Ids -> Clients \cup {Nobody}]
  /\ polls \in [Ids -> {0, 1}] /\ silent \subseteq Ids /\ ghosts \subseteq Ids
  /\ holder \in [Capabilities -> Ids \cup {0}]
  /\ pc \in [Clients -> {"register", "poll", "waiting", "stale", "answered"}]
  /\ id \in [Clients -> Ids \cup {0}] /\ asked \in [Clients -> Ids \cup {0}]
  /\ cursor \in [Clients -> 0..MaxEvents] /\ granted \in [Clients -> SUBSET Capabilities]
  /\ view \in [Clients -> 0..MaxChanges] /\ \A c \in Clients : told[c] \subseteq DOMAIN log
  /\ \A c \in Clients : answer[c].events \subseteq DOMAIN log

LastState(n) == Max({0} \cup {log[m].op : m \in 1..n})

\* A client shows the state its cursor stands for: no event between two polls, or between its
\* registration and its first poll, or while it starts over from a snapshot, is missed.  Once the
\* hub is shut down a snapshot may show a state that has no event.
ViewMatchesCursor ==
  \A c \in Clients : id[c] # 0 =>
    /\ view[c] >= LastState(cursor[c])
    /\ ~shut => view[c] = LastState(cursor[c])

\* The client that holds the clipboard knows every pending result up to its cursor, whoever
\* held the lease when it was published.
HolderKnowsPending ==
  \A c \in Clients : id[c] # 0 /\ holder["clipboard"] = id[c] =>
    \A n \in pending : n <= cursor[c] => n \in told[c]

\* However leases expire and change hands, a cue is played at most once, by the daemon or by
\* one client.
OneCue == \A n \in DOMAIN cues : cues[n] <= 1

\* The pollers, by their sessions' cursors, are readers of an EventFeed: from its registration
\* on a client passes every event once and in order, or skips some by way of a snapshot.
Position(c) == IF id[c] = 0 THEN -1 ELSE cursor[c]
Feed == INSTANCE EventFeed WITH
  Readers <- Clients, last <- Len(log), at <- [c \in Clients |-> Position(c)]
IsEventFeed == Feed!Spec

\* A client catches up with the hub again and again, as long as there are ids to give out.
CatchesUp ==
  \A c \in Clients : []<>(view[c] = op \/ shut \/ (id[c] = 0 /\ used = MaxIds))

\* A daemon that shuts down is not held up by its long polls, those that start late included.
PollsEnd == \A c \in Clients : shut /\ pc[c] = "waiting" ~> pc[c] # "waiting"
=============================================================================
