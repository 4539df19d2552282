------------------------- MODULE OwnedConversations -------------------------
(***************************************************************************)
(* The conversations VoiceMate started, each in a process of its own:      *)
(* OwnedConversations and _RecordStore                                     *)
(* (app/companion/assistant/conversations.py) over OwnSessionPort          *)
(* (own_session.py).  Their methods run in the threads of the tools, of    *)
(* the service and, for the session id the process reports, of each        *)
(* process's reader.                                                       *)
(*                                                                         *)
(* A call takes the lock several times; what the others can do in between  *)
(* is the subject; the update of a record joins the step after it.         *)
(* Prompts, titles, models and folders are left out.                       *)
(***************************************************************************)
EXTENDS Naturals, FiniteSets

CONSTANTS
  Tools,   \* threads that call start, send, stop or resume_all
  Limit,   \* OWNED_LIMIT
  MaxIds,  \* bound: session ids ever used
  MaxRuns  \* bound: processes ever spawned

ASSUME OwnedAssumption == {Limit, MaxIds, MaxRuns} \subseteq Nat \ {0}

SessionIds == 1..MaxIds
Processes == 1..MaxRuns

VARIABLES
  newest,   \* the newest session id
  records,  \* _records: "none", "active" or "inactive"
  ports,    \* _ports: the process of each id, 0: none
  starting, \* _starting
  quitting, \* _closed
  process,  \* "new", "up", "out" (it lives, and its port says error: not_logged_in), "ending" (some thread
            \* is about to stop it, or is), "lost" (it lives, and its start was answered as failed) or "down"
  session,  \* the session each process writes
  store,    \* conversation_id of its _RecordStore
  call,     \* what each thread is doing
  target,   \* ... the conversation it reserved or stops
  named,    \* ... the id it registers its process under
  mine,     \* ... and that process, or the one it stops
  fresh,    \* threads whose call is a start()
  twice     \* history: a renamed conversation was held twice, under its old id by a call that had reserved
            \* it and under its new one by the table or by another call

table == <<newest, records, ports, starting, quitting>>
processes == <<process, session, store>>
calls == <<call, target, named, mine, fresh, twice>>
ownedVars == <<table, processes, calls>>

\* One conversation is left from the last run.
OwnedInit ==
  /\ newest = 1 /\ records = [i \in SessionIds |-> IF i = 1 THEN "active" ELSE "none"]
  /\ ports = [i \in SessionIds |-> 0] /\ starting = {} /\ quitting = FALSE
  /\ process = [p \in Processes |-> "new"] /\ session = [p \in Processes |-> 0]
  /\ store = [p \in Processes |-> 0]
  /\ call = [c \in Tools |-> "idle"] /\ target = [c \in Tools |-> 0]
  /\ named = [c \in Tools |-> 0] /\ mine = [c \in Tools |-> 0] /\ fresh = {} /\ twice = FALSE

\* alive(): what its port says (starting, ready or busy) and not the process, which outlives a port in error.
Up(p) == p # 0 /\ process[p] = "up"
Lives(p) == p # 0 /\ process[p] \in {"up", "out"}
Calls(c, from, to) == call[c] = from /\ call' = [call EXCEPT ![c] = to]
\* The call returns, and its locals are gone.
Returns(c) ==
  /\ call' = [call EXCEPT ![c] = "idle"] /\ target' = [target EXCEPT ![c] = 0]
  /\ named' = [named EXCEPT ![c] = 0] /\ mine' = [mine EXCEPT ![c] = 0] /\ fresh' = fresh \ {c}
  /\ UNCHANGED twice
\* A call has started the process and not put it in the table yet.
StartedBy(p) == \E c \in Tools : mine[c] = p /\ call[c] \in {"naming", "registering"}
Ending(p) == IF Lives(p) THEN [process EXCEPT ![p] = "ending"] ELSE process

-----------------------------------------------------------------------------
(* Slots.                                                                   *)

Running(i) == {j \in SessionIds \ {i} : Up(ports[j])}

CountsRunning(i) == ~quitting /\ i \notin starting /\ Cardinality(Running(i)) < Limit
Reservable(i) == ~quitting /\ i \notin starting /\ Cardinality(Running(i)) + Cardinality(starting) < Limit

\* start(): a new conversation, reserved and then recorded.
Start(c) ==
  LET i == newest + 1
  IN /\ newest < MaxIds /\ Reservable(i)
     /\ Calls(c, "idle", "spawning") /\ target' = [target EXCEPT ![c] = i] /\ mine' = [mine EXCEPT ![c] = 0]
     /\ newest' = i /\ starting' = starting \cup {i} /\ records' = [records EXCEPT ![i] = "active"]
     /\ fresh' = fresh \cup {c}
     /\ UNCHANGED <<ports, quitting, processes, named, twice>>

\* send() to a conversation that does not run, and resume_all for one that did at the last quit.
Send(c, i) ==
  /\ records[i] # "none" /\ ~Up(ports[i])
  /\ Calls(c, "idle", "reserving") /\ target' = [target EXCEPT ![c] = i]
  /\ UNCHANGED <<table, processes, named, mine, fresh, twice>>

\* _reserve
Reserve(c) ==
  LET i == target[c]
  IN /\ call[c] = "reserving"
     /\ IF Reservable(i)
        THEN /\ Calls(c, "reserving", "popping") /\ starting' = starting \cup {i}
             /\ twice' = (twice \/ \E p \in Processes : StartedBy(p) /\ session[p] = i)
             /\ UNCHANGED <<target, named, mine, fresh>>
        ELSE Returns(c) /\ UNCHANGED starting
     /\ UNCHANGED <<newest, records, ports, quitting, processes>>

\* The record is active again, and _run takes the process that is there.
PopNothing(c) ==
  LET i == target[c]
  IN /\ Calls(c, "popping", "spawning") /\ mine' = [mine EXCEPT ![c] = 0]
     /\ records' = [records EXCEPT ![i] = IF @ = "none" THEN @ ELSE "active"]
     /\ UNCHANGED <<newest, ports, starting, quitting, processes, target, named, fresh, twice>>
Pop(c) ==
  LET i == target[c]
  IN /\ Calls(c, "popping", IF ports[i] = 0 THEN "spawning" ELSE "replacing")
     /\ mine' = [mine EXCEPT ![c] = ports[i]] /\ process' = Ending(ports[i])
     /\ ports' = [ports EXCEPT ![i] = 0]
     /\ records' = [records EXCEPT ![i] = IF @ = "none" THEN @ ELSE "active"]
     /\ UNCHANGED <<newest, starting, quitting, session, store, target, named, fresh, twice>>

\* port.stop(): the process has ended when it returns.
StopMine(c, from, to) ==
  /\ Calls(c, from, to) /\ process' = [process EXCEPT ![mine[c]] = "down"]
  /\ UNCHANGED <<table, session, store, target, named, mine, fresh, twice>>
Replace(c) == StopMine(c, "replacing", "spawning")

\* _rename
Renamed(i, n) ==
  IF records[i] = "none" THEN UNCHANGED <<records, ports>>
  ELSE /\ records' = [records EXCEPT ![i] = "none", ![n] = records[i]]
       /\ ports' = [ports EXCEPT ![i] = 0, ![n] = ports[i]]

\* OwnSessionPort.start: one writer per session, so a session a live process owns is not resumed.
Owned(i) == \E p \in Processes : process[p] \in {"up", "out", "ending", "lost"} /\ session[p] = i
Spawned(c, p, i) ==
  /\ process[p] = "new" /\ \A q \in 1..p - 1 : process[q] # "new"
  /\ process' = [process EXCEPT ![p] = "up"]
  /\ session' = [session EXCEPT ![p] = i] /\ store' = [store EXCEPT ![p] = i]
  /\ Calls(c, "spawning", "naming") /\ mine' = [mine EXCEPT ![c] = p]
  /\ UNCHANGED <<starting, quitting, target, named, fresh, twice>>
Spawn(c) ==
  LET i == target[c]
  IN /\ call[c] = "spawning"
     /\ \E p \in Processes :
       IF records[i] # "none" /\ ~Owned(i) THEN Spawned(c, p, i) /\ UNCHANGED <<newest, records, ports>>
       ELSE /\ newest < MaxIds /\ newest' = newest + 1
            /\ Renamed(i, newest') /\ Spawned(c, p, newest')

\* There is no claude command, it cannot be started in the folder, or its port is in error at once: it
\* ended, or it is not logged in and is left running.
SpawnFails(c) ==
  /\ \/ Calls(c, "spawning", "failing") /\ UNCHANGED process
     \/ Calls(c, "naming", "failing") /\ process[mine[c]] = "down" /\ UNCHANGED process
     \/ /\ Calls(c, "naming", "failing") /\ process[mine[c]] = "out"
        /\ process' = [process EXCEPT ![mine[c]] = "lost"]
  /\ UNCHANGED <<table, session, store, target, named, mine, fresh, twice>>

\* _run reads the id from the store, then registers the process under it.
Name(c) ==
  /\ Calls(c, "naming", "registering") /\ named' = [named EXCEPT ![c] = store[mine[c]]]
  /\ UNCHANGED <<table, processes, target, mine, fresh, twice>>

RegisterAnyway(c) ==
  /\ Calls(c, "registering", "releasing") /\ ports' = [ports EXCEPT ![named[c]] = mine[c]]
  /\ UNCHANGED <<newest, records, starting, quitting, processes, target, named, mine, fresh, twice>>
Register(c) ==
  /\ IF quitting THEN Calls(c, "registering", "dropping") /\ process' = Ending(mine[c]) /\ UNCHANGED ports
     ELSE /\ Calls(c, "registering", "releasing") /\ ports' = [ports EXCEPT ![named[c]] = mine[c]]
          /\ UNCHANGED process
  /\ UNCHANGED <<newest, records, starting, quitting, session, store, target, named, mine, fresh, twice>>

\* VoiceMate quit while it started: no child outlives it.
DropChild(c) == StopMine(c, "dropping", "failing")

\* Mutant: a call that failed keeps its slot.
ReleaseOnSuccess(c) ==
  /\ call[c] \in {"releasing", "failing"} /\ Returns(c)
  /\ starting' = IF call[c] = "releasing" THEN starting \ {target[c]} ELSE starting
  /\ records' = IF call[c] = "failing" /\ c \in fresh THEN [records EXCEPT ![target[c]] = "none"] ELSE records
  /\ UNCHANGED <<newest, ports, quitting, processes>>
\* _release; a conversation that never started is forgotten.
Release(c) ==
  /\ call[c] \in {"releasing", "failing"} /\ Returns(c)
  /\ starting' = starting \ {target[c]}
  /\ records' = IF call[c] = "failing" /\ c \in fresh THEN [records EXCEPT ![target[c]] = "none"] ELSE records
  /\ UNCHANGED <<newest, ports, quitting, processes>>

-----------------------------------------------------------------------------
(* What ends a process.                                                     *)

\* stop(): reads the record, then stops what has its id by then.
StopOne(c, i) ==
  /\ records[i] # "none" /\ Calls(c, "idle", "halting") /\ target' = [target EXCEPT ![c] = i]
  /\ UNCHANGED <<table, processes, named, mine, fresh, twice>>
Halt(c) ==
  LET i == target[c]
  IN /\ call[c] = "halting"
     /\ IF ports[i] = 0 THEN Returns(c)
        ELSE /\ Calls(c, "halting", "stopping") /\ mine' = [mine EXCEPT ![c] = ports[i]]
             /\ UNCHANGED <<target, named, fresh, twice>>
     /\ records' = [records EXCEPT ![i] = IF @ = "none" THEN @ ELSE "inactive"]
     /\ ports' = [ports EXCEPT ![i] = 0] /\ process' = Ending(ports[i])
     /\ UNCHANGED <<newest, starting, quitting, session, store>>
Stopped(c) ==
  /\ call[c] = "stopping" /\ process' = [process EXCEPT ![mine[c]] = "down"] /\ Returns(c)
  /\ UNCHANGED <<table, session, store>>

\* stop_all: the processes of the table, all at the same time.
StopAll ==
  /\ ~quitting /\ quitting' = TRUE
  /\ process' = [p \in Processes |-> IF Lives(p) /\ \E i \in SessionIds : ports[i] = p THEN "ending" ELSE process[p]]
  /\ ports' = [i \in SessionIds |-> 0]
  /\ UNCHANGED <<newest, records, starting, session, store, calls>>

AllStopped(p) ==
  /\ process[p] = "ending" /\ \A c \in Tools : mine[c] = p => call[c] \notin {"replacing", "dropping", "stopping"}
  /\ process' = [process EXCEPT ![p] = "down"]
  /\ UNCHANGED <<table, session, store, calls>>

\* A turn fails because nobody is logged in: the port says error, for as long as the process lives.
LogsOut(p) ==
  /\ Up(p) /\ process' = [process EXCEPT ![p] = "out"]
  /\ UNCHANGED <<table, session, store, calls>>

\* It ends by itself.
Exits(p) ==
  /\ Lives(p) \/ process[p] = "lost"
  /\ process' = [process EXCEPT ![p] = "down"]
  /\ UNCHANGED <<table, session, store, calls>>

\* The process reports a session of its own: the reader has the record follow it, then its store.
Reports(p) ==
  /\ Lives(p) \/ process[p] = "lost"
  /\ session[p] = store[p] /\ newest < MaxIds
  /\ newest' = newest + 1 /\ session' = [session EXCEPT ![p] = newest']
  /\ Renamed(store[p], newest') /\ twice' = (twice \/ (store[p] \in starting /\ Lives(p) /\ ~StartedBy(p)))
  /\ UNCHANGED <<starting, quitting, process, store, call, target, named, mine, fresh>>

Follows(p) ==
  /\ session[p] # store[p] /\ store' = [store EXCEPT ![p] = session[p]]
  /\ UNCHANGED <<table, process, session, calls>>

-----------------------------------------------------------------------------

CallStep(c) ==
  \/ Reserve(c) \/ Pop(c) \/ Replace(c) \/ Spawn(c) \/ SpawnFails(c) \/ Name(c) \/ Register(c)
  \/ DropChild(c) \/ Release(c) \/ Halt(c) \/ Stopped(c)

OwnedNext ==
  \/ \E c \in Tools : Start(c) \/ CallStep(c) \/ \E i \in SessionIds : Send(c, i) \/ StopOne(c, i)
  \/ \E p \in Processes : AllStopped(p) \/ LogsOut(p) \/ Exits(p) \/ Reports(p) \/ Follows(p)
  \/ StopAll

OwnedSpec == OwnedInit /\ [][OwnedNext]_ownedVars

\* A call goes on, and a process that is stopped ends (it is killed if it must be).
OwnedFairness ==
  /\ \A c \in Tools : WF_ownedVars(CallStep(c))
  /\ \A p \in Processes : WF_ownedVars(AllStopped(p))

FairOwnedSpec == OwnedSpec /\ OwnedFairness

-----------------------------------------------------------------------------

OwnedTypeOK ==
  /\ newest \in SessionIds /\ records \in [SessionIds -> {"none", "active", "inactive"}]
  /\ ports \in [SessionIds -> Processes \cup {0}] /\ starting \subseteq SessionIds /\ quitting \in BOOLEAN
  /\ process \in [Processes -> {"new", "up", "out", "ending", "lost", "down"}]
  /\ {session, store} \subseteq [Processes -> SessionIds \cup {0}]
  /\ call \in [Tools -> {"idle", "reserving", "popping", "replacing", "spawning", "naming", "registering",
                         "dropping", "failing", "releasing", "halting", "stopping"}]
  /\ {target, named} \subseteq [Tools -> SessionIds \cup {0}] /\ mine \in [Tools -> Processes \cup {0}]
  /\ fresh \subseteq Tools /\ twice \in BOOLEAN
  /\ starting = {target[c] : c \in {d \in Tools : call[d] \notin {"idle", "reserving", "halting", "stopping"}}}

\* At most OWNED_LIMIT conversations can take a prompt, the ones still starting included, whoever starts
\* and stops them at the same moment.  Unless one is renamed while a call holds the slot of its old id and
\* so is held twice: a second process may be started for it beside the first.  It bounds what alive()
\* counts, which conversations.py:8 says of the processes: one that is not logged in any more (out,
\* lost), or that a thread is stopping, lives beside them uncounted.
WithinLimit == ~twice => Cardinality({p \in Processes : Up(p)}) <= Limit

\* Every process that lives can be found, with the same exception: the table has it, or the call that
\* starts it still runs, or a thread is stopping it.  One that said it is not logged in before its start
\* returned is lost: the start is answered as failed, and nobody stops it.
NoneForgotten ==
  ~twice => \A p \in Processes : Lives(p) => (\E i \in SessionIds : ports[i] = p) \/ StartedBy(p)

\* Quit stops every process and gives every slot back, those that were still starting included: the
\* calls go on and a process that is stopped ends.  A process that was forgotten (twice) or lost stays up.
QuitEndsAll ==
  quitting ~> (twice \/ (starting = {} /\ \A p \in Processes : process[p] \in {"new", "lost", "down"}))
=============================================================================
