------------------------------- MODULE Delivery -------------------------------
(***************************************************************************)
(* The delivery of transcriptions: the daemon publishes results and tracks *)
(* which are unacknowledged (app/daemon/delivery.py); the companion's      *)
(* DeliveryQueue (app/companion/delivery.py), driven by the controller's   *)
(* dispatcher, writes them to the clipboard, acknowledges them, and keeps  *)
(* what it could not copy in the "Not copied" list, which it saves to      *)
(* pending.json (app/companion/pending_store.py).  Either program may      *)
(* stop: the daemon comes back as a new instance with an empty tracker,    *)
(* the companion quits or crashes and comes back with the saved list.      *)
(*                                                                         *)
(* A result is a key <<instance, result_seq>>.  Its text, kind and cue are *)
(* not modelled: no decision reads them.  Clocks are not compared: a       *)
(* record may be listed as older than STALE_AFTER_S, a retry become due    *)
(* and a write overdue at any moment.                                      *)
(***************************************************************************)
EXTENDS Integers, Sequences, FiniteSets, SequencesExt, FiniteSetsExt

CONSTANTS
  Instances,      \* daemon instances are 1..Instances: the daemon restarts Instances - 1 times
  Results,        \* results one instance publishes
  Retries,        \* RETRIES: further attempts after a failed automatic write
  RecentLimit,    \* RECENT_LIMIT
  PendingLimit,   \* PENDING_LIMIT
  MaxRuns,        \* bound: runs of the companion
  MaxPublished,   \* bound: results all instances publish together
  MaxFaults,      \* bound: ACKs dropped, events missed, verdicts given up and leases ended
  MaxCopies       \* bound: manual copies and clearings the user asks for

ASSUME DeliveryAssumption ==
  /\ {Instances, Results, RecentLimit, PendingLimit, MaxRuns} \subseteq Nat \ {0}
  /\ {Retries, MaxPublished, MaxFaults, MaxCopies} \subseteq Nat

Key == (1..Instances) \X (1..Results)
AckStatus == {"delivered", "failed", "dismissed"}
Entry == [key : Key, manual : BOOLEAN, attempts : 0..(Retries + 1), due : BOOLEAN]
Ack == [key : Key, status : AckStatus]

VARIABLES
  inst,      \* the running daemon's instance
  tracker,   \* its DeliveryTracker: the status of result n at index n
  holder,    \* a client of it holds the clipboard lease
  phase,     \* of the companion: "up", "quitting" or "down"
  session,   \* the instance its poller is registered with, 0: none
  feed,      \* `result` events the companion has not handled: <<result_seq, needs_delivery>>
  listing,   \* reconciliation responses fetched and not handled (at most one)
  q,         \* the companion's DeliveryQueue
  acks,      \* ACKs the companion's io thread has yet to get through
  running,   \* clipboard writes handed over and not answered, per key
  landed,    \* results whose text reached the clipboard
  writer,    \* the lists the writer thread has yet to save, oldest first
  disk,      \* the list in pending.json
  gone,      \* history: results the user cleared or the full list pushed out
  runs, published, faults, copies   \* bounded counts

daemon == <<inst, tracker, holder>>
link == <<session, feed, listing>>
store == <<writer, disk>>
counts == <<runs, published, faults, copies>>
vars == <<daemon, phase, link, q, acks, running, landed, store, gone, counts>>

-----------------------------------------------------------------------------
(* The DeliveryQueue.  `out`, `begun` and `shed` are the effects of the     *)
(* handler in progress: the ACKs to send, the writes to start, and what the *)
(* Not copied list loses for good.                                          *)

EmptyQueue ==
  [ instance |-> 0, queue |-> <<>>, flight |-> <<>>, acked |-> [k \in Key |-> "none"],
    recent |-> <<>>, pending |-> <<>>, unsynced |-> {}, suspect |-> {}, out |-> {}, begun |-> {}, shed |-> {} ]

NewJob(key, manual) == [key |-> key, manual |-> manual, attempts |-> 0, due |-> TRUE]

Jobs(s) == s.flight \o s.queue
QueuedKeys(s) == {Jobs(s)[i].key : i \in DOMAIN Jobs(s)}

KnownByQueueOnly(s, key) == s.acked[key] # "none" \/ key \in QueuedKeys(s)
IsKnown(s, key) == s.acked[key] # "none" \/ key \in ToSet(s.pending) \/ key \in QueuedKeys(s)

Advance(s) ==
  IF s.flight # <<>> \/ s.queue = <<>> \/ ~Head(s.queue).due THEN s
  ELSE [s EXCEPT !.queue = Tail(@), !.flight = <<Head(s.queue)>>, !.begun = @ \cup {Head(s.queue)}]

\* A manual copy goes before every automatic write; an automatic one keeps the result order.
GoesBeforeAny(e, f) == ~f.manual
GoesBefore(e, f) == ~f.manual /\ (e.manual \/ (f.attempts = 0 /\ f.key[2] > e.key[2]))
Insert(queue, e) ==
  InsertAt(queue, Min({i \in DOMAIN queue : GoesBefore(e, queue[i])} \cup {Len(queue) + 1}), e)
InsertAll(queue, keys) == FoldLeft(LAMBDA w, k : Insert(w, NewJob(k, FALSE)), queue, keys)

\* The elements of a sequence that are in a set, in their order.
Only(s, S) == FoldLeft(LAMBDA t, x : IF x \in S THEN Append(t, x) ELSE t, <<>>, s)

Take(s, n) == SubSeq(s, 1, Min({n, Len(s)}))
LastOf(s, n) == SubSeq(s, Max({1, Len(s) - n + 1}), Len(s))

Remember(recent, key) == Take(<<key>> \o Only(recent, Key \ {key}), RecentLimit)
RememberAll(recent, keys) == FoldLeft(Remember, recent, keys)

\* A key already in the ordered dict keeps its place; the oldest goes when the list is full.
AddPending(s, key) ==
  IF Contains(s.pending, key) THEN s
  ELSE LET all  == Append(s.pending, key)
           kept == LastOf(all, PendingLimit)
       IN  [s EXCEPT !.pending = kept, !.shed = @ \cup (ToSet(all) \ ToSet(kept))]
AddAllPending(s, keys) == FoldLeft(AddPending, s, keys)

SetStatus(s, key, status) ==
  LET told == [s EXCEPT !.acked[key] = status]
  IN  IF status = "delivered"
      THEN [told EXCEPT !.pending = Only(@, Key \ {key}), !.unsynced = @ \ {key}]
      ELSE AddPending(told, key)

Send(s, keys, status) == [s EXCEPT !.out = @ \cup {[key |-> k, status |-> status] : k \in keys}]
SendIfCurrent(s, key, status) == IF key[1] = s.instance THEN Send(s, {key}, status) ELSE s

InOrder(i, keys) == Only([n \in 1..Results |-> <<i, n>>], keys)

-----------------------------------------------------------------------------
(* Its inputs.                                                              *)

RestorePending(s, keys) ==
  LET kept == LastOf(keys, PendingLimit)
  IN  [s EXCEPT !.pending = kept, !.unsynced = ToSet(keys)]

ClearPending(s, keys) ==
  LET resync == {k \in keys : k \in s.unsynced /\ k[1] = s.instance}
  IN  Send([s EXCEPT !.acked = [k \in Key |-> IF k \in keys /\ @[k] = "none" THEN "dismissed" ELSE @[k]],
                     !.pending = Only(@, Key \ keys),
                     !.unsynced = @ \ resync,
                     !.shed = @ \cup keys],
           resync, "dismissed")

MoveToPending(s, entries) == AddAllPending(s, [i \in DOMAIN entries |-> entries[i].key])

Abandoned(s, jobs) ==
  LET moved == Only(jobs, {e \in ToSet(jobs) : ~e.manual /\ s.acked[e.key] = "none"})
  IN  [MoveToPending(s, moved) EXCEPT
         !.flight = <<>>, !.queue = <<>>,
         !.unsynced = @ \cup {moved[i].key : i \in DOMAIN moved}]
AbandonWaiting(s) == Abandoned(s, s.queue)
AbandonQueue(s) == Abandoned(s, Jobs(s))

SetInstance(s, i) ==
  IF i = s.instance THEN s
  ELSE LET moved == {e \in ToSet(s.queue) : e.key[1] # i /\ ~e.manual}
       IN  Advance([MoveToPending(s, Only(s.queue, moved)) EXCEPT
                      !.instance = i,
                      !.queue = Only(@, ToSet(@) \ moved)])

OnResult(s, key, needs) ==
  IF IsKnown(s, key) THEN s
  ELSE IF ~needs THEN [s EXCEPT !.recent = Remember(@, key)]
  ELSE Advance([s EXCEPT !.recent = Remember(@, key), !.queue = Insert(@, NewJob(key, FALSE))])

\* An ACK is repeated when two reconciliations in a row list a result already acknowledged.
ResendNever(s, again) == {}
Resend(s, again) == again \cap s.suspect

\* `unacked`: keys the daemon listed as pending; `stale`: those of them older than STALE_AFTER_S.
OnUnacked(s, i, unacked, stale) ==
  IF i # s.instance THEN s
  ELSE LET known  == {k \in unacked : IsKnown(s, k)}
           resync == known \cap s.unsynced
           again  == {k \in known \ resync : s.acked[k] # "none" /\ k \notin QueuedKeys(s)}
           resend == Resend(s, again)
           late   == (unacked \ known) \cap stale
           fresh  == (unacked \ known) \ stale
           noted  == [s EXCEPT
                        !.unsynced = @ \ resync,
                        !.suspect = again,
                        !.acked = [k \in Key |-> IF k \in resync \cup late THEN "dismissed" ELSE @[k]],
                        !.recent = RememberAll(@, InOrder(i, late \cup fresh)),
                        !.queue = InsertAll(@, InOrder(i, fresh)),
                        !.out = @ \cup {[key |-> k, status |-> s.acked[k]] : k \in resend}]
           listed == AddAllPending(noted, InOrder(i, late))
       IN  Advance(Send(listed, resync \cup late, "dismissed"))

\* `copy` of a listed result: it replaces what is queued for that result.
Copy(s, key) ==
  Advance([s EXCEPT !.queue = Insert(Only(@, {e \in ToSet(@) : e.key # key}), NewJob(key, TRUE))])

RetriesLeft(e) == e.attempts + 1 <= Retries

OnDeliveryDoneAnyKey(s, key, ok) ==
  IF s.flight = <<>> THEN s
  ELSE LET idle == [s EXCEPT !.flight = <<>>]
       IN  Advance(IF ok THEN SendIfCurrent(SetStatus(idle, s.flight[1].key, "delivered"),
                                            s.flight[1].key, "delivered")
                   ELSE idle)
OnDeliveryDone(s, key, ok) ==
  IF s.flight = <<>> \/ s.flight[1].key # key THEN s
  ELSE LET e == s.flight[1]
           idle == [s EXCEPT !.flight = <<>>]
           tried == [e EXCEPT !.attempts = @ + 1, !.due = FALSE]
       IN  Advance(CASE ok -> SendIfCurrent(SetStatus(idle, key, "delivered"), key, "delivered")
                     [] ~ok /\ e.manual -> idle
                     [] ~ok /\ ~e.manual /\ key[1] # s.instance -> MoveToPending(idle, <<e>>)
                     [] ~ok /\ ~e.manual /\ key[1] = s.instance /\ RetriesLeft(e) ->
                          [idle EXCEPT !.queue = <<tried>> \o @]
                     [] OTHER -> SendIfCurrent(SetStatus(idle, key, "failed"), key, "failed"))

-----------------------------------------------------------------------------
(* The controller.  A dispatcher task runs a handler and carries out its    *)
(* effects: writes go to the clipboard thread, ACKs to the io thread, and a *)
(* changed list to the writer thread.                                       *)

SettleLater(s) == [s EXCEPT !.out = {}, !.shed = {}]
Settle(s) == [s EXCEPT !.out = {}, !.begun = {}, !.shed = {}]

Save(s) == writer' = IF s.pending # q.pending THEN Append(writer, s.pending) ELSE writer

Effects(s) ==
  /\ q' = Settle(s)
  /\ acks' = acks \cup s.out
  /\ gone' = gone \cup s.shed
  /\ Save(s)
  /\ UNCHANGED disk

Begun(s, k) == Cardinality({e \in s.begun : e.key = k})
Apply(s) == Effects(s) /\ running' = [k \in Key |-> running[k] + Begun(s, k)]

Unacked == {k \in Key : k[1] = inst /\ k[2] \in DOMAIN tracker /\ tracker[k[2]] = "pending"}

Init ==
  /\ inst = 1 /\ tracker = <<>> /\ holder = FALSE
  /\ phase = "up" /\ session = 0 /\ feed = <<>> /\ listing = <<>>
  /\ q = EmptyQueue
  /\ acks = {} /\ running = [k \in Key |-> 0] /\ landed = {}
  /\ writer = <<>> /\ disk = <<>> /\ gone = {}
  /\ runs = 1 /\ published = 0 /\ faults = 0 /\ copies = 0

\* publish_result: pending when a client holds the clipboard, otherwise the daemon writes it.
Publish ==
  /\ Len(tracker) < Results /\ published < MaxPublished /\ published' = published + 1
  /\ tracker' = Append(tracker, IF holder THEN "pending" ELSE "daemon")
  /\ feed' = IF session = inst THEN Append(feed, <<Len(tracker) + 1, holder>>) ELSE feed
  /\ UNCHANGED <<inst, holder, phase, session, listing, q, acks, running, landed, store, gone,
                 runs, faults, copies>>

\* The lease runs out (a suspended host) or is released.
LeaseEnds ==
  /\ holder /\ faults < MaxFaults /\ faults' = faults + 1
  /\ holder' = FALSE
  /\ UNCHANGED <<inst, tracker, phase, link, q, acks, running, landed, store, gone, runs, published, copies>>

DaemonRestarts ==
  /\ inst < Instances
  /\ inst' = inst + 1 /\ tracker' = <<>> /\ holder' = FALSE
  /\ UNCHANGED <<phase, link, q, acks, running, landed, store, gone, counts>>

\* _on_registered: the events after the registration follow; the snapshot lists the rest.
Register ==
  /\ phase = "up" /\ (session # inst \/ ~holder)
  /\ session' = inst /\ feed' = <<>> /\ holder' = TRUE
  /\ \E stale \in SUBSET Unacked : Apply(OnUnacked(SetInstance(q, inst), inst, Unacked, stale))
  /\ UNCHANGED <<inst, tracker, phase, listing, landed, counts>>

\* A poll answered with a snapshot instead of the events the journal no longer has.
MissEvents ==
  /\ phase = "up" /\ session = inst /\ feed # <<>> /\ faults < MaxFaults
  /\ feed' = <<>> /\ faults' = faults + 1
  /\ \E stale \in SUBSET Unacked : Apply(OnUnacked(q, inst, Unacked, stale))
  /\ UNCHANGED <<daemon, phase, session, listing, landed, runs, published, copies>>

OnEvent ==
  /\ phase = "up" /\ feed # <<>>
  /\ feed' = Tail(feed)
  /\ Apply(OnResult(q, <<session, Head(feed)[1]>>, Head(feed)[2]))
  /\ UNCHANGED <<daemon, phase, session, listing, landed, counts>>

\* _reconcile_tick: the io thread asks for the unacked results ...
Fetch ==
  /\ phase = "up" /\ session # 0 /\ listing = <<>>
  /\ listing' = <<[instance |-> inst, unacked |-> Unacked]>>
  /\ UNCHANGED <<daemon, phase, session, feed, q, acks, running, landed, store, gone, counts>>

\* ... and the dispatcher handles the answer later.
Reconcile ==
  /\ phase = "up" /\ listing # <<>>
  /\ listing' = <<>>
  /\ \E stale \in SUBSET listing[1].unacked :
       Apply(OnUnacked(q, listing[1].instance, listing[1].unacked, stale))
  /\ UNCHANGED <<daemon, phase, session, feed, landed, counts>>

\* RETRY_DELAY_S is over for the entry at the head; nothing happens until the next tick.
RetryDue ==
  /\ q.queue # <<>> /\ ~q.queue[1].due
  /\ q' = [q EXCEPT !.queue[1].due = TRUE]
  /\ UNCHANGED <<daemon, phase, link, acks, running, landed, store, gone, counts>>

\* DeliveryQueue.tick: with a write in flight for IN_FLIGHT_TIMEOUT_S its verdict is given up.
Tick ==
  /\ phase = "up" /\ q.flight = <<>> /\ q.queue # <<>> /\ q.queue[1].due
  /\ Apply(Advance(q))
  /\ UNCHANGED <<daemon, phase, link, landed, counts>>

TimeOut ==
  /\ phase = "up" /\ q.flight # <<>> /\ faults < MaxFaults /\ faults' = faults + 1
  /\ Apply(OnDeliveryDone(q, q.flight[1].key, FALSE))
  /\ UNCHANGED <<daemon, phase, link, landed, runs, published, copies>>

\* A write is answered, and the dispatcher handles the verdict.
Verdict(k, ok) ==
  /\ phase # "down" /\ running[k] > 0
  /\ landed' = IF ok THEN landed \cup {k} ELSE landed
  /\ LET s == OnDeliveryDone(q, k, ok)
     IN  /\ Effects(s)
         /\ running' = [j \in Key |-> running[j] + Begun(s, j) - (IF j = k THEN 1 ELSE 0)]
  /\ UNCHANGED <<daemon, phase, link, counts>>

UserCopies ==
  /\ phase # "down" /\ copies < MaxCopies /\ copies' = copies + 1
  /\ \E k \in ToSet(q.pending) \cup ToSet(q.recent) : Apply(Copy(q, k))
  /\ UNCHANGED <<daemon, phase, link, landed, runs, published, faults>>

\* "Clear list": the items shown when the user confirmed.
UserClears ==
  /\ phase # "down" /\ copies < MaxCopies /\ copies' = copies + 1
  /\ \E shown \in SUBSET ToSet(q.pending) \ {{}} : Apply(ClearPending(q, shown))
  /\ UNCHANGED <<daemon, phase, link, landed, runs, published, faults>>

\* DeliveryTracker.ack; an ACK of another instance is answered 409 and forgotten.
AckArrives ==
  /\ \E a \in acks :
       /\ acks' = acks \ {a}
       /\ tracker' = IF a.key[1] = inst THEN [tracker EXCEPT ![a.key[2]] = a.status] ELSE tracker
  /\ UNCHANGED <<inst, holder, phase, link, q, running, landed, store, gone, counts>>

\* Dropped after ACK_RETRIES attempts.
AckDropped ==
  /\ faults < MaxFaults /\ faults' = faults + 1
  /\ \E a \in acks : acks' = acks \ {a}
  /\ UNCHANGED <<daemon, phase, link, q, running, landed, store, gone, runs, published, copies>>

\* PendingStore.save: the file is replaced whole.
WriterSaves ==
  /\ writer # <<>>
  /\ disk' = Head(writer) /\ writer' = Tail(writer)
  /\ UNCHANGED <<daemon, phase, link, q, acks, running, landed, gone, counts>>

BeginQuit ==
  /\ phase = "up" /\ runs < MaxRuns
  /\ phase' = "quitting"
  /\ Apply(AbandonQueue(q))
  /\ UNCHANGED <<daemon, link, landed, counts>>

Ended ==
  /\ phase' = "down" /\ session' = 0 /\ feed' = <<>> /\ listing' = <<>>
  /\ q' = EmptyQueue /\ acks' = {} /\ running' = [k \in Key |-> 0] /\ writer' = <<>>

\* The quit sequence: unregister, and wait for the writer (_flush_pending).
Quit ==
  /\ phase = "quitting" /\ writer = <<>> /\ Ended
  /\ holder' = (holder /\ session # inst)
  /\ UNCHANGED <<inst, tracker, landed, disk, gone, counts>>

Crash ==
  /\ phase # "down" /\ runs < MaxRuns
  /\ Ended
  /\ UNCHANGED <<daemon, landed, disk, gone, counts>>

\* A new run: the controller's constructor restores the list.
Start ==
  /\ phase = "down" /\ runs < MaxRuns /\ runs' = runs + 1
  /\ phase' = "up"
  /\ q' = RestorePending(EmptyQueue, disk)
  /\ UNCHANGED <<daemon, link, acks, running, landed, store, gone, published, faults, copies>>

Next ==
  \/ Publish \/ LeaseEnds \/ DaemonRestarts
  \/ Register \/ OnEvent \/ MissEvents \/ Fetch \/ Reconcile
  \/ RetryDue \/ Tick \/ TimeOut \/ \E k \in Key, ok \in BOOLEAN : Verdict(k, ok)
  \/ UserCopies \/ UserClears
  \/ AckArrives \/ AckDropped \/ WriterSaves
  \/ BeginQuit \/ Quit \/ Crash \/ Start

Spec == Init /\ [][Next]_vars

\* The poller, the reconcile timer, the clipboard with the retry timer, and the io thread each
\* get on with their work; nothing is assumed of the order of their steps.
Poll == Register \/ OnEvent
Reconciliation == Fetch \/ Reconcile
Write == RetryDue \/ Tick \/ \E k \in Key, ok \in BOOLEAN : Verdict(k, ok)

Fairness == WF_vars(Poll) /\ WF_vars(Reconciliation) /\ WF_vars(Write) /\ WF_vars(AckArrives)
FairSpec == Spec /\ Fairness

-----------------------------------------------------------------------------

TypeOK ==
  /\ inst \in 1..Instances
  /\ tracker \in Seq(AckStatus \cup {"pending", "daemon"}) /\ Len(tracker) <= Results
  /\ holder \in BOOLEAN
  /\ phase \in {"up", "quitting", "down"} /\ session \in 0..Instances
  /\ feed \in Seq((1..Results) \X BOOLEAN)
  /\ \A i \in DOMAIN listing : listing[i].unacked \subseteq Key
  /\ q.instance \in 0..Instances
  /\ q.flight \in Seq(Entry) /\ Len(q.flight) <= 1 /\ q.queue \in Seq(Entry)
  /\ q.acked \in [Key -> AckStatus \cup {"none"}]
  /\ q.recent \in Seq(Key) /\ q.pending \in Seq(Key) /\ Len(q.pending) <= PendingLimit
  /\ q.unsynced \subseteq Key /\ q.suspect \subseteq Key
  /\ q.out = {} /\ q.begun = {} /\ q.shed = {}
  /\ acks \subseteq Ack /\ running \in [Key -> Nat] /\ landed \subseteq Key
  /\ writer \in Seq(Seq(Key)) /\ disk \in Seq(Key) /\ gone \subseteq Key

Automatic(s) == {i \in DOMAIN Jobs(s) : ~Jobs(s)[i].manual}

\* DeliveryQueue never writes a result on its own twice over: a result is queued for an
\* automatic write at most once, and not while it is acknowledged or in the Not copied list,
\* whatever order events, snapshots, reconciliations and the user's clicks come in.
AutomaticOnce ==
  \A i \in Automatic(q) :
    LET k == Jobs(q)[i].key
    IN  /\ q.acked[k] = "none" /\ ~Contains(q.pending, k)
        /\ \A j \in Automatic(q) : Jobs(q)[j].key = k => i = j

\* Automatic writes go out in result order: of two waiting in the queue, the earlier one comes
\* first, unless the first is being retried (it blocks the others); both are of one instance.
QueueInOrder ==
  \A i, j \in DOMAIN q.queue :
    i < j /\ ~q.queue[i].manual /\ ~q.queue[j].manual =>
      /\ q.queue[i].key[1] = q.queue[j].key[1]
      /\ q.queue[j].attempts = 0
      /\ q.queue[i].attempts > 0 \/ q.queue[i].key[2] < q.queue[j].key[2]

\* The daemon records a result as delivered only if its text reached the clipboard: a verdict
\* that comes after its write was given up settles no other result.
DeliveredHasLanded ==
  \A n \in DOMAIN tracker : tracker[n] = "delivered" => <<inst, n>> \in landed

\* A text is kept while it is on the clipboard's record, waiting in the queue, in the Not
\* copied list (in memory, or in the file once the companion is down), or still to be
\* acknowledged, so that the daemon will list it again.
Kept(k) ==
  \/ k \in landed \/ k \in Unacked
  \/ phase # "down" /\ (k \in QueuedKeys(q) \/ Contains(q.pending, k))
  \/ phase = "down" /\ Contains(disk, k)

ManualOnly(k) == \E i \in DOMAIN Jobs(q) : Jobs(q)[i].key = k /\ Jobs(q)[i].manual

Crashed == phase # "down" /\ phase' = "down" /\ (phase = "up" \/ writer # <<>>)

\* No step of the running programs, a quit included, loses a text: only the user clearing the
\* list, the list's limit, a crash, the end of a daemon, or a manual copy that took the place
\* of the automatic write (see QuitListsEverything) may.
TextKept ==
  [][\A k \in Key : Kept(k) /\ ~Kept(k)' =>
        k \in gone' \/ Crashed \/ inst' # inst \/ ManualOnly(k)]_vars

\* What abandon_queue says of Quit: every result queued or in flight moves to the list, and a
\* manual copy may be dropped because its result is in the list or was delivered before.
QuitListsEverything ==
  [][phase = "up" /\ phase' = "quitting" =>
       \A k \in QueuedKeys(q) : Contains(q'.pending, k) \/ k \in landed \/ k \in gone']_vars

\* What docs/companion-app.md says of a crash: a result once in the Not copied list survives it.
CrashKeepsList ==
  [][Crashed => \A k \in ToSet(q.pending) : Kept(k)']_vars

\* Every result the daemon holds as unacknowledged is acknowledged while the companion stays
\* up, although events, reconciliations and ACKs may be lost and writes may fail.
EveryResultAcknowledged ==
  \A k \in Key : (phase = "up" /\ k \in Unacked) ~> (k \notin Unacked \/ phase # "up")
=============================================================================
