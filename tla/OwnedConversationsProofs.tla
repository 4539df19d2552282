---------------------- MODULE OwnedConversationsProofs ----------------------
(***************************************************************************)
(* The safety of OwnedConversations for any limit and any number of tools, *)
(* ids and processes.                                                      *)
(*                                                                         *)
(* A process is found under its id, and _rename lets a process move to     *)
(* another one at any moment; so the invariant says which ids a process    *)
(* has a claim to (ClaimsApart, OldIdsDead), that no call holds one of     *)
(* them while another process has it (TargetFree), and that each slot pays *)
(* for one process (Slots).  A process that is logged out or lost still     *)
(* claims its ids, for it may report a session; only one that alive()       *)
(* counts needs a slot.  All but the shape of the state is given up once a  *)
(* renamed conversation is held twice.                                      *)
(*                                                                         *)
(* Three lemmas for each group of steps follow: they keep the shape, they  *)
(* keep track of the processes, they keep within the slots.                *)
(***************************************************************************)
EXTENDS OwnedConversations, FiniteSetTheorems, TLAPS

Holds(c) == call[c] \notin {"idle", "reserving", "halting", "stopping"}
Starter(c) == call[c] \in {"naming", "registering"}
\* It runs and can report a session, whoever knows of it.
Lasts(p) == p # 0 /\ process[p] \in {"up", "out", "lost"}
Held(p) == Lasts(p) \/ StartedBy(p)

\* Ids are used in their order, and a call's locals and the table name what exists.
Used ==
  /\ \A i \in SessionIds : i > newest => records[i] = "none"
  /\ \A i \in SessionIds : ports[i] # 0 => i <= newest /\ process[ports[i]] # "new"
  /\ \A p \in Processes : process[p] # "new" => session[p] \in 1..newest /\ store[p] \in 1..newest
  /\ \A c \in Tools :
       /\ call[c] # "idle" => target[c] \in 1..newest
       /\ mine[c] # 0 => process[mine[c]] # "new"
       /\ call[c] \in {"replacing", "naming", "registering", "dropping", "releasing", "stopping"} => mine[c] # 0
       /\ call[c] = "registering" => named[c] \in 1..newest

\* No two calls hold the same slot or start the same process, and that is not in the table yet.
Exclusive ==
  /\ \A c, d \in Tools : Holds(c) /\ Holds(d) /\ target[c] = target[d] => c = d
  /\ \A c, d \in Tools : Starter(c) /\ Starter(d) /\ mine[c] = mine[d] => c = d
  /\ \A c \in Tools : Starter(c) => \A i \in SessionIds : ports[i] # mine[c]

\* The ids a process has had and may still be found or registered under.
Claims(p, i) ==
  \/ i \in {session[p], store[p]} \/ ports[i] = p
  \/ \E c \in Tools : call[c] = "registering" /\ mine[c] = p /\ named[c] = i

\* They are its own, and those that are not its session any more have no record.
ClaimsApart ==
  \A p, q \in Processes, i \in SessionIds : Held(p) /\ Held(q) /\ Claims(p, i) /\ Claims(q, i) => p = q
OldIdsDead ==
  \A p \in Processes, i \in SessionIds : Held(p) /\ Claims(p, i) => i = session[p] \/ records[i] = "none"

\* A call that holds a conversation finds no other process to have started for it.
TargetFree ==
  /\ \A c, d \in Tools : Starter(c) /\ call[d] \in {"popping", "replacing", "spawning"} => session[mine[c]] # target[d]
  /\ \A d \in Tools : call[d] \in {"replacing", "spawning"} /\ records[target[d]] # "none" => ~Lasts(ports[target[d]])

\* Each slot pays for one process: the one its call is starting or about to replace.  The others
\* and the slots together are within the limit.
Pays(c, p) ==
  \/ call[c] \in {"naming", "registering", "releasing"} /\ mine[c] = p
  \/ call[c] = "popping" /\ ports[target[c]] = p
Free == {p \in Processes : Up(p) /\ \A c \in Tools : ~Pays(c, p)}
Slots == Cardinality(Free) + Cardinality(starting) <= Limit

ShapeInv == OwnedTypeOK /\ Used /\ Exclusive
FoundInv == ClaimsApart /\ OldIdsDead /\ TargetFree /\ NoneForgotten
OwnedInv == ShapeInv /\ (~twice => FoundInv /\ Slots)

\* A step after which no process has an id that it did not have before, and no id comes back to life.
NoNewClaims ==
  \A p \in Processes, i \in SessionIds : Held(p)' /\ Claims(p, i)' =>
    /\ Held(p) /\ Claims(p, i) /\ session'[p] = session[p]
    /\ records[i] = "none" => records'[i] = "none"

\* Such a step leaves the claims apart.
LEMMA ClaimsShrink ==
  ASSUME ClaimsApart, OldIdsDead, NoNewClaims
  PROVE  ClaimsApart' /\ OldIdsDead'
  BY DEF ClaimsApart, OldIdsDead, NoNewClaims, Processes, SessionIds

\* A step that gives a process new ids, none of them another's.
LEMMA ClaimsGrow ==
  ASSUME ClaimsApart, OldIdsDead, NEW q \in Processes,
         \A r \in Processes \ {q}, i \in SessionIds : Held(r)' /\ Claims(r, i)' =>
           /\ Held(r) /\ Claims(r, i) /\ session'[r] = session[r] /\ ~Claims(q, i)'
           /\ records[i] = "none" => records'[i] = "none",
         \A i \in SessionIds : Claims(q, i)' => i = session'[q] \/ records'[i] = "none"
  PROVE  ClaimsApart' /\ OldIdsDead'
<1>1. ClaimsApart'
  BY DEF ClaimsApart, Processes, SessionIds
<1>2. OldIdsDead'
  BY DEF OldIdsDead, Processes, SessionIds
<1> QED
  BY <1>1, <1>2

\* Nobody is forgotten while what is found stays so.
LEMMA FoundStays ==
  ASSUME NoneForgotten, ~twice,
         \A p \in Processes : Lives(p)' => Lives(p),
         \A p \in Processes, i \in SessionIds : Lives(p)' /\ ports[i] = p => \E j \in SessionIds : ports'[j] = p,
         \A p \in Processes : Lives(p)' /\ StartedBy(p) => StartedBy(p)' \/ \E j \in SessionIds : ports'[j] = p
  PROVE  NoneForgotten'
  BY DEF NoneForgotten, Processes, SessionIds

\* The shape of tables and calls: every step of a call keeps it.
LEMMA CallsKeepShape ==
  ASSUME ShapeInv, NEW c \in Tools, NEW i \in SessionIds,
         Start(c) \/ CallStep(c) \/ Send(c, i) \/ StopOne(c, i)
  PROVE  ShapeInv'
<1> USE OwnedAssumption DEF ShapeInv, SessionIds, Processes
<1>1. CASE Start(c)
  <2>1. OwnedTypeOK'
    BY <1>1 DEF Start, Reservable, ShapeInv, OwnedTypeOK, Used, Exclusive, Holds, Starter, Calls, Ending, Lives, Lasts,
       table, processes, calls
  <2>2. Used'
    BY <1>1 DEF Start, Reservable, ShapeInv, OwnedTypeOK, Used, Exclusive, Holds, Starter, Calls, Ending, Lives, Lasts,
       table, processes, calls
  <2>3. Exclusive'
    BY <1>1 DEF Start, Reservable, ShapeInv, OwnedTypeOK, Used, Exclusive, Holds, Starter, Calls, Ending, Lives, Lasts,
       table, processes, calls
  <2> QED
    BY <2>1, <2>2, <2>3
<1>2. CASE Send(c, i)
  <2>1. OwnedTypeOK'
    BY <1>2 DEF Send, ShapeInv, OwnedTypeOK, Used, Exclusive, Holds, Starter, Calls, Ending, Lives, Lasts, table,
       processes, calls
  <2>2. Used'
    BY <1>2 DEF Send, ShapeInv, OwnedTypeOK, Used, Exclusive, Holds, Starter, Calls, Ending, Lives, Lasts, table,
       processes, calls
  <2>3. Exclusive'
    BY <1>2 DEF Send, ShapeInv, OwnedTypeOK, Used, Exclusive, Holds, Starter, Calls, Ending, Lives, Lasts, table,
       processes, calls
  <2> QED
    BY <2>1, <2>2, <2>3
<1>3. CASE Reserve(c)
  <2>1. CASE Reservable(target[c])
    <3>1. /\ call[c] = "reserving"
          /\ target[c] \notin starting
          /\ call' = [call EXCEPT ![c] = "popping"]
          /\ starting' = starting \cup {target[c]}
          /\ twice' = (twice \/ \E p \in Processes : StartedBy(p) /\ session[p] = target[c])
          /\ UNCHANGED <<newest, records, ports, quitting, process, session, store, target, named, mine, fresh>>
      BY <1>3, <2>1 DEF Reserve, Reservable, Returns, Calls, processes
    <3>2. OwnedTypeOK'
      <4>1. twice' \in BOOLEAN
        BY <3>1 DEF OwnedTypeOK
      <4>2. starting' = {target'[d] : d \in {d \in Tools : call'[d] \notin {"idle", "reserving", "halting", "stopping"}}}
        BY <3>1, <2>1 DEF OwnedTypeOK, Used, Exclusive
      <4> QED
        BY <4>1, <4>2, <3>1, <2>1 DEF OwnedTypeOK, Used, Ending, Lives, Lasts
    <3>3. Used'
      BY <3>1, <2>1 DEF OwnedTypeOK, Used, Ending, Lives, Lasts
    <3>4. Exclusive'
      BY <3>1, <2>1 DEF OwnedTypeOK, Used, Exclusive, Starter, Holds, Lives, Lasts
    <3> QED
      BY <3>2, <3>3, <3>4
  <2>2. CASE ~Reservable(target[c])
    <3>1. /\ call[c] = "reserving"
          /\ call' = [call EXCEPT ![c] = "idle"]
          /\ target' = [target EXCEPT ![c] = 0]
          /\ named' = [named EXCEPT ![c] = 0]
          /\ mine' = [mine EXCEPT ![c] = 0]
          /\ fresh' = fresh \ {c}
          /\ UNCHANGED <<newest, records, ports, starting, quitting, process, session, store, twice>>
      BY <1>3, <2>2 DEF Reserve, Reservable, Returns, Calls, processes
    <3>2. OwnedTypeOK'
      <4>1. twice' \in BOOLEAN
        BY <3>1 DEF OwnedTypeOK
      <4>2. starting' = {target'[d] : d \in {d \in Tools : call'[d] \notin {"idle", "reserving", "halting", "stopping"}}}
        BY <3>1, <2>2 DEF OwnedTypeOK, Used, Exclusive
      <4> QED
        BY <4>1, <4>2, <3>1, <2>2 DEF OwnedTypeOK, Used, Ending, Lives, Lasts
    <3>3. Used'
      BY <3>1, <2>2 DEF OwnedTypeOK, Used, Ending, Lives, Lasts
    <3>4. Exclusive'
      BY <3>1, <2>2 DEF OwnedTypeOK, Used, Exclusive, Starter, Holds, Lives, Lasts
    <3> QED
      BY <3>2, <3>3, <3>4
  <2> QED
    BY <1>3, <2>1, <2>2 DEF Reserve, Reservable, Returns, Calls, processes
<1>4. CASE Pop(c)
  <2>1. OwnedTypeOK'
    BY <1>4 DEF Pop, ShapeInv, OwnedTypeOK, Used, Exclusive, Holds, Starter, Calls, Ending, Lives, Lasts, table,
       processes, calls
  <2>2. Used'
    BY <1>4 DEF Pop, ShapeInv, OwnedTypeOK, Used, Exclusive, Holds, Starter, Calls, Ending, Lives, Lasts, table,
       processes, calls
  <2>3. Exclusive'
    BY <1>4 DEF Pop, ShapeInv, OwnedTypeOK, Used, Exclusive, Holds, Starter, Calls, Ending, Lives, Lasts, table,
       processes, calls
  <2> QED
    BY <2>1, <2>2, <2>3
<1>5. CASE Replace(c)
  <2>1. OwnedTypeOK'
    BY <1>5 DEF Replace, StopMine, ShapeInv, OwnedTypeOK, Used, Exclusive, Holds, Starter, Calls, Ending, Lives, Lasts,
       table, processes, calls
  <2>2. Used'
    BY <1>5 DEF Replace, StopMine, ShapeInv, OwnedTypeOK, Used, Exclusive, Holds, Starter, Calls, Ending, Lives, Lasts,
       table, processes, calls
  <2>3. Exclusive'
    BY <1>5 DEF Replace, StopMine, ShapeInv, OwnedTypeOK, Used, Exclusive, Holds, Starter, Calls, Ending, Lives, Lasts,
       table, processes, calls
  <2> QED
    BY <2>1, <2>2, <2>3
<1>6. CASE Spawn(c)
  <2> PICK q \in Processes :
            IF records[target[c]] # "none" /\ ~Owned(target[c])
            THEN Spawned(c, q, target[c]) /\ UNCHANGED <<newest, records, ports>>
            ELSE /\ newest < MaxIds /\ newest' = newest + 1
                 /\ Renamed(target[c], newest') /\ Spawned(c, q, newest')
      BY <1>6 DEF Spawn
  <2>1. CASE records[target[c]] # "none" /\ ~Owned(target[c])
    <3>1. /\ call[c] = "spawning"
          /\ process[q] = "new"
          /\ process' = [process EXCEPT ![q] = "up"]
          /\ call' = [call EXCEPT ![c] = "naming"]
          /\ mine' = [mine EXCEPT ![c] = q]
          /\ session' = [session EXCEPT ![q] = target[c]]
          /\ store' = [store EXCEPT ![q] = target[c]]
          /\ UNCHANGED <<newest, records, ports, starting, quitting, target, named, fresh, twice>>
      BY <1>6, <2>1 DEF Spawned, Renamed, Calls, OwnedTypeOK, Used
    <3>2. OwnedTypeOK'
      <4>1. twice' \in BOOLEAN
        BY <3>1 DEF OwnedTypeOK
      <4>2. starting' = {target'[d] : d \in {d \in Tools : call'[d] \notin {"idle", "reserving", "halting", "stopping"}}}
        BY <3>1, <2>1 DEF OwnedTypeOK, Used, Exclusive
      <4> QED
        BY <4>1, <4>2, <3>1, <2>1 DEF OwnedTypeOK, Used, Ending, Lives, Lasts
    <3>3. Used'
      BY <3>1, <2>1 DEF OwnedTypeOK, Used, Ending, Lives, Lasts
    <3>4. Exclusive'
      BY <3>1, <2>1 DEF OwnedTypeOK, Used, Exclusive, Starter, Holds, Lives, Lasts
    <3> QED
      BY <3>2, <3>3, <3>4
  <2>2. CASE records[target[c]] = "none"
    <3>1. /\ call[c] = "spawning"
          /\ process[q] = "new"
          /\ newest < MaxIds
          /\ process' = [process EXCEPT ![q] = "up"]
          /\ call' = [call EXCEPT ![c] = "naming"]
          /\ mine' = [mine EXCEPT ![c] = q]
          /\ session' = [session EXCEPT ![q] = (newest + 1)]
          /\ store' = [store EXCEPT ![q] = (newest + 1)]
          /\ newest' = newest + 1
          /\ UNCHANGED <<records, ports, starting, quitting, target, named, fresh, twice>>
      BY <1>6, <2>2 DEF Spawned, Renamed, Calls, OwnedTypeOK, Used
    <3>2. OwnedTypeOK'
      <4>1. twice' \in BOOLEAN
        BY <3>1 DEF OwnedTypeOK
      <4>2. starting' = {target'[d] : d \in {d \in Tools : call'[d] \notin {"idle", "reserving", "halting", "stopping"}}}
        BY <3>1, <2>2 DEF OwnedTypeOK, Used, Exclusive
      <4> QED
        BY <4>1, <4>2, <3>1, <2>2 DEF OwnedTypeOK, Used, Ending, Lives, Lasts
    <3>3. Used'
      BY <3>1, <2>2 DEF OwnedTypeOK, Used, Ending, Lives, Lasts
    <3>4. Exclusive'
      BY <3>1, <2>2 DEF OwnedTypeOK, Used, Exclusive, Starter, Holds, Lives, Lasts
    <3> QED
      BY <3>2, <3>3, <3>4
  <2>3. CASE records[target[c]] # "none" /\ Owned(target[c])
    <3>1. /\ call[c] = "spawning"
          /\ process[q] = "new"
          /\ newest < MaxIds
          /\ process' = [process EXCEPT ![q] = "up"]
          /\ call' = [call EXCEPT ![c] = "naming"]
          /\ mine' = [mine EXCEPT ![c] = q]
          /\ session' = [session EXCEPT ![q] = (newest + 1)]
          /\ store' = [store EXCEPT ![q] = (newest + 1)]
          /\ newest' = newest + 1
          /\ records' = [j \in SessionIds |-> IF j = newest + 1 THEN records[target[c]] ELSE IF j = target[c] THEN "none" ELSE records[j]]
          /\ ports' = [j \in SessionIds |-> IF j = newest + 1 THEN ports[target[c]] ELSE IF j = target[c] THEN 0 ELSE ports[j]]
          /\ UNCHANGED <<starting, quitting, target, named, fresh, twice>>
      BY <1>6, <2>3 DEF Spawned, Renamed, Calls, OwnedTypeOK, Used
    <3>2. OwnedTypeOK'
      <4>1. twice' \in BOOLEAN
        BY <3>1 DEF OwnedTypeOK
      <4>2. starting' = {target'[d] : d \in {d \in Tools : call'[d] \notin {"idle", "reserving", "halting", "stopping"}}}
        BY <3>1, <2>3 DEF OwnedTypeOK, Used, Exclusive
      <4> QED
        BY <4>1, <4>2, <3>1, <2>3 DEF OwnedTypeOK, Used, Ending, Lives, Lasts
    <3>3. Used'
      BY <3>1, <2>3 DEF OwnedTypeOK, Used, Ending, Lives, Lasts
    <3>4. Exclusive'
      BY <3>1, <2>3 DEF OwnedTypeOK, Used, Exclusive, Starter, Holds, Lives, Lasts
    <3> QED
      BY <3>2, <3>3, <3>4
  <2> QED
    BY <1>6, <2>1, <2>2, <2>3 DEF Spawned, Renamed, Calls, OwnedTypeOK, Used
<1>7. CASE SpawnFails(c)
  <2>1. CASE call[c] = "spawning"
    <3>1. /\ call' = [call EXCEPT ![c] = "failing"]
          /\ UNCHANGED <<newest, records, ports, starting, quitting, process, session, store, target, named, mine, fresh, twice>>
      BY <1>7, <2>1 DEF SpawnFails, Calls, table, processes
    <3>2. OwnedTypeOK'
      <4>1. twice' \in BOOLEAN
        BY <3>1 DEF OwnedTypeOK
      <4>2. starting' = {target'[d] : d \in {d \in Tools : call'[d] \notin {"idle", "reserving", "halting", "stopping"}}}
        BY <3>1, <2>1 DEF OwnedTypeOK, Used, Exclusive
      <4> QED
        BY <4>1, <4>2, <3>1, <2>1 DEF OwnedTypeOK, Used, Ending, Lives, Lasts
    <3>3. Used'
      BY <3>1, <2>1 DEF OwnedTypeOK, Used, Ending, Lives, Lasts
    <3>4. Exclusive'
      BY <3>1, <2>1 DEF OwnedTypeOK, Used, Exclusive, Starter, Holds, Lives, Lasts
    <3> QED
      BY <3>2, <3>3, <3>4
  <2>2. CASE call[c] = "naming" /\ process[mine[c]] = "down"
    <3>1. /\ process[mine[c]] = "down"
          /\ call' = [call EXCEPT ![c] = "failing"]
          /\ UNCHANGED <<newest, records, ports, starting, quitting, process, session, store, target, named, mine, fresh, twice>>
      BY <1>7, <2>2 DEF SpawnFails, Calls, table, processes
    <3>2. OwnedTypeOK'
      <4>1. twice' \in BOOLEAN
        BY <3>1 DEF OwnedTypeOK
      <4>2. starting' = {target'[d] : d \in {d \in Tools : call'[d] \notin {"idle", "reserving", "halting", "stopping"}}}
        BY <3>1, <2>2 DEF OwnedTypeOK, Used, Exclusive
      <4> QED
        BY <4>1, <4>2, <3>1, <2>2 DEF OwnedTypeOK, Used, Ending, Lives, Lasts
    <3>3. Used'
      BY <3>1, <2>2 DEF OwnedTypeOK, Used, Ending, Lives, Lasts
    <3>4. Exclusive'
      BY <3>1, <2>2 DEF OwnedTypeOK, Used, Exclusive, Starter, Holds, Lives, Lasts
    <3> QED
      BY <3>2, <3>3, <3>4
  <2>3. CASE call[c] = "naming" /\ process[mine[c]] = "out"
    <3>1. /\ process[mine[c]] = "out"
          /\ call' = [call EXCEPT ![c] = "failing"]
          /\ process' = [process EXCEPT ![mine[c]] = "lost"]
          /\ UNCHANGED <<newest, records, ports, starting, quitting, session, store, target, named, mine, fresh, twice>>
      BY <1>7, <2>3 DEF SpawnFails, Calls, table, processes
    <3>2. OwnedTypeOK'
      <4>1. twice' \in BOOLEAN
        BY <3>1 DEF OwnedTypeOK
      <4>2. starting' = {target'[d] : d \in {d \in Tools : call'[d] \notin {"idle", "reserving", "halting", "stopping"}}}
        BY <3>1, <2>3 DEF OwnedTypeOK, Used, Exclusive
      <4> QED
        BY <4>1, <4>2, <3>1, <2>3 DEF OwnedTypeOK, Used, Ending, Lives, Lasts
    <3>3. Used'
      BY <3>1, <2>3 DEF OwnedTypeOK, Used, Ending, Lives, Lasts
    <3>4. Exclusive'
      BY <3>1, <2>3 DEF OwnedTypeOK, Used, Exclusive, Starter, Holds, Lives, Lasts
    <3> QED
      BY <3>2, <3>3, <3>4
  <2> QED
    BY <1>7, <2>1, <2>2, <2>3 DEF SpawnFails, Calls, table, processes
<1>8. CASE Name(c)
  <2>1. OwnedTypeOK'
    BY <1>8 DEF Name, ShapeInv, OwnedTypeOK, Used, Exclusive, Holds, Starter, Calls, Ending, Lives, Lasts, table,
       processes, calls
  <2>2. Used'
    BY <1>8 DEF Name, ShapeInv, OwnedTypeOK, Used, Exclusive, Holds, Starter, Calls, Ending, Lives, Lasts, table,
       processes, calls
  <2>3. Exclusive'
    BY <1>8 DEF Name, ShapeInv, OwnedTypeOK, Used, Exclusive, Holds, Starter, Calls, Ending, Lives, Lasts, table,
       processes, calls
  <2> QED
    BY <2>1, <2>2, <2>3
<1>9. CASE Register(c)
  <2>1. CASE quitting
    <3>1. /\ call[c] = "registering"
          /\ call' = [call EXCEPT ![c] = "dropping"]
          /\ process' = Ending(mine[c])
          /\ UNCHANGED <<newest, records, ports, starting, quitting, session, store, target, named, mine, fresh, twice>>
      BY <1>9, <2>1 DEF Register, Calls
    <3>2. OwnedTypeOK'
      <4>1. twice' \in BOOLEAN
        BY <3>1 DEF OwnedTypeOK
      <4>2. starting' = {target'[d] : d \in {d \in Tools : call'[d] \notin {"idle", "reserving", "halting", "stopping"}}}
        BY <3>1, <2>1 DEF OwnedTypeOK, Used, Exclusive
      <4> QED
        BY <4>1, <4>2, <3>1, <2>1 DEF OwnedTypeOK, Used, Ending, Lives, Lasts
    <3>3. Used'
      BY <3>1, <2>1 DEF OwnedTypeOK, Used, Ending, Lives, Lasts
    <3>4. Exclusive'
      BY <3>1, <2>1 DEF OwnedTypeOK, Used, Exclusive, Starter, Holds, Lives, Lasts
    <3> QED
      BY <3>2, <3>3, <3>4
  <2>2. CASE ~quitting
    <3>1. /\ call[c] = "registering"
          /\ call' = [call EXCEPT ![c] = "releasing"]
          /\ ports' = [ports EXCEPT ![named[c]] = mine[c]]
          /\ UNCHANGED <<newest, records, starting, quitting, process, session, store, target, named, mine, fresh, twice>>
      BY <1>9, <2>2 DEF Register, Calls
    <3>2. OwnedTypeOK'
      <4>1. twice' \in BOOLEAN
        BY <3>1 DEF OwnedTypeOK
      <4>2. starting' = {target'[d] : d \in {d \in Tools : call'[d] \notin {"idle", "reserving", "halting", "stopping"}}}
        BY <3>1, <2>2 DEF OwnedTypeOK, Used, Exclusive
      <4> QED
        BY <4>1, <4>2, <3>1, <2>2 DEF OwnedTypeOK, Used, Ending, Lives, Lasts
    <3>3. Used'
      BY <3>1, <2>2 DEF OwnedTypeOK, Used, Ending, Lives, Lasts
    <3>4. Exclusive'
      BY <3>1, <2>2 DEF OwnedTypeOK, Used, Exclusive, Starter, Holds, Lives, Lasts
    <3> QED
      BY <3>2, <3>3, <3>4
  <2> QED
    BY <1>9, <2>1, <2>2 DEF Register, Calls
<1>10. CASE DropChild(c)
  <2>1. OwnedTypeOK'
    BY <1>10 DEF DropChild, StopMine, ShapeInv, OwnedTypeOK, Used, Exclusive, Holds, Starter, Calls, Ending, Lives, Lasts,
       table, processes, calls
  <2>2. Used'
    BY <1>10 DEF DropChild, StopMine, ShapeInv, OwnedTypeOK, Used, Exclusive, Holds, Starter, Calls, Ending, Lives, Lasts,
       table, processes, calls
  <2>3. Exclusive'
    BY <1>10 DEF DropChild, StopMine, ShapeInv, OwnedTypeOK, Used, Exclusive, Holds, Starter, Calls, Ending, Lives, Lasts,
       table, processes, calls
  <2> QED
    BY <2>1, <2>2, <2>3
<1>11. CASE Release(c)
  <2>1. OwnedTypeOK'
    <3>1. call' = [call EXCEPT ![c] = "idle"] /\ target' = [target EXCEPT ![c] = 0] /\ starting' = starting \ {target[c]} /\ Holds(c)
      BY <1>11 DEF Release, Returns, Holds
    <3>2. \A d \in Tools \ {c} : call'[d] = call[d] /\ target'[d] = target[d] /\ (Holds(d) => target[d] # target[c])
      BY <3>1 DEF Exclusive, OwnedTypeOK
    <3>3. starting' = {target'[d] : d \in {e \in Tools : call'[e] \notin {"idle", "reserving", "halting", "stopping"}}}
      BY <3>1, <3>2 DEF OwnedTypeOK, Holds
    <3> QED
      BY <1>11, <3>3 DEF Release, Returns, OwnedTypeOK, Used, processes
  <2>2. Used'
    BY <1>11 DEF Release, Returns, ShapeInv, OwnedTypeOK, Used, Exclusive, Holds, Starter, Calls, Ending, Lives, Lasts,
       table, processes, calls
  <2>3. Exclusive'
    BY <1>11 DEF Release, Returns, ShapeInv, OwnedTypeOK, Used, Exclusive, Holds, Starter, Calls, Ending, Lives, Lasts,
       table, processes, calls
  <2> QED
    BY <2>1, <2>2, <2>3
<1>12. CASE StopOne(c, i)
  <2>1. OwnedTypeOK'
    BY <1>12 DEF StopOne, ShapeInv, OwnedTypeOK, Used, Exclusive, Holds, Starter, Calls, Ending, Lives, Lasts, table,
       processes, calls
  <2>2. Used'
    BY <1>12 DEF StopOne, ShapeInv, OwnedTypeOK, Used, Exclusive, Holds, Starter, Calls, Ending, Lives, Lasts, table,
       processes, calls
  <2>3. Exclusive'
    BY <1>12 DEF StopOne, ShapeInv, OwnedTypeOK, Used, Exclusive, Holds, Starter, Calls, Ending, Lives, Lasts, table,
       processes, calls
  <2> QED
    BY <2>1, <2>2, <2>3
<1>13. CASE Halt(c)
  <2>1. CASE ports[target[c]] = 0
    <3>1. /\ call[c] = "halting"
          /\ call' = [call EXCEPT ![c] = "idle"]
          /\ target' = [target EXCEPT ![c] = 0]
          /\ named' = [named EXCEPT ![c] = 0]
          /\ mine' = [mine EXCEPT ![c] = 0]
          /\ fresh' = fresh \ {c}
          /\ records' = [records EXCEPT ![target[c]] = IF @ = "none" THEN @ ELSE "inactive"]
          /\ ports' = [ports EXCEPT ![target[c]] = 0]
          /\ process' = Ending(ports[target[c]])
          /\ UNCHANGED <<newest, starting, quitting, session, store, twice>>
      BY <1>13, <2>1 DEF Halt, Returns, Calls
    <3>2. OwnedTypeOK'
      <4>1. twice' \in BOOLEAN
        BY <3>1 DEF OwnedTypeOK
      <4>2. starting' = {target'[d] : d \in {d \in Tools : call'[d] \notin {"idle", "reserving", "halting", "stopping"}}}
        BY <3>1, <2>1 DEF OwnedTypeOK, Used, Exclusive
      <4> QED
        BY <4>1, <4>2, <3>1, <2>1 DEF OwnedTypeOK, Used, Ending, Lives, Lasts
    <3>3. Used'
      BY <3>1, <2>1 DEF OwnedTypeOK, Used, Ending, Lives, Lasts
    <3>4. Exclusive'
      BY <3>1, <2>1 DEF OwnedTypeOK, Used, Exclusive, Starter, Holds, Lives, Lasts
    <3> QED
      BY <3>2, <3>3, <3>4
  <2>2. CASE ports[target[c]] # 0
    <3>1. /\ call[c] = "halting"
          /\ call' = [call EXCEPT ![c] = "stopping"]
          /\ mine' = [mine EXCEPT ![c] = ports[target[c]]]
          /\ records' = [records EXCEPT ![target[c]] = IF @ = "none" THEN @ ELSE "inactive"]
          /\ ports' = [ports EXCEPT ![target[c]] = 0]
          /\ process' = Ending(ports[target[c]])
          /\ UNCHANGED <<newest, starting, quitting, session, store, target, named, fresh, twice>>
      BY <1>13, <2>2 DEF Halt, Returns, Calls
    <3>2. OwnedTypeOK'
      <4>1. twice' \in BOOLEAN
        BY <3>1 DEF OwnedTypeOK
      <4>2. starting' = {target'[d] : d \in {d \in Tools : call'[d] \notin {"idle", "reserving", "halting", "stopping"}}}
        BY <3>1, <2>2 DEF OwnedTypeOK, Used, Exclusive
      <4> QED
        BY <4>1, <4>2, <3>1, <2>2 DEF OwnedTypeOK, Used, Ending, Lives, Lasts
    <3>3. Used'
      BY <3>1, <2>2 DEF OwnedTypeOK, Used, Ending, Lives, Lasts
    <3>4. Exclusive'
      BY <3>1, <2>2 DEF OwnedTypeOK, Used, Exclusive, Starter, Holds, Lives, Lasts
    <3> QED
      BY <3>2, <3>3, <3>4
  <2> QED
    BY <1>13, <2>1, <2>2 DEF Halt, Returns, Calls
<1>14. CASE Stopped(c)
  <2>1. OwnedTypeOK'
    BY <1>14 DEF Stopped, Returns, ShapeInv, OwnedTypeOK, Used, Exclusive, Holds, Starter, Calls, Ending, Lives, Lasts,
       table, processes, calls
  <2>2. Used'
    BY <1>14 DEF Stopped, Returns, ShapeInv, OwnedTypeOK, Used, Exclusive, Holds, Starter, Calls, Ending, Lives, Lasts,
       table, processes, calls
  <2>3. Exclusive'
    BY <1>14 DEF Stopped, Returns, ShapeInv, OwnedTypeOK, Used, Exclusive, Holds, Starter, Calls, Ending, Lives, Lasts,
       table, processes, calls
  <2> QED
    BY <2>1, <2>2, <2>3
<1> QED
  BY <1>1, <1>2, <1>3, <1>4, <1>5, <1>6, <1>7, <1>8, <1>9, <1>10, <1>11, <1>12, <1>13, <1>14 DEF CallStep

\* So does what happens to the processes.
LEMMA ProcessesKeepShape ==
  ASSUME ShapeInv, NEW p \in Processes,
         AllStopped(p) \/ LogsOut(p) \/ Exits(p) \/ Reports(p) \/ Follows(p)
  PROVE  ShapeInv'
<1> USE OwnedAssumption DEF ShapeInv, SessionIds, Processes
<1>1. CASE AllStopped(p)
  <2>1. OwnedTypeOK'
    BY <1>1 DEF AllStopped, ShapeInv, OwnedTypeOK, Used, Exclusive, Holds, Starter, Calls, Ending, Lives, Lasts, table,
       processes, calls
  <2>2. Used'
    BY <1>1 DEF AllStopped, ShapeInv, OwnedTypeOK, Used, Exclusive, Holds, Starter, Calls, Ending, Lives, Lasts, table,
       processes, calls
  <2>3. Exclusive'
    BY <1>1 DEF AllStopped, ShapeInv, OwnedTypeOK, Used, Exclusive, Holds, Starter, Calls, Ending, Lives, Lasts, table,
       processes, calls
  <2> QED
    BY <2>1, <2>2, <2>3
<1>2. CASE Exits(p)
  <2>1. OwnedTypeOK'
    BY <1>2 DEF Exits, ShapeInv, OwnedTypeOK, Used, Exclusive, Holds, Starter, Calls, Ending, Lives, Lasts, table,
       processes, calls
  <2>2. Used'
    BY <1>2 DEF Exits, ShapeInv, OwnedTypeOK, Used, Exclusive, Holds, Starter, Calls, Ending, Lives, Lasts, table,
       processes, calls
  <2>3. Exclusive'
    BY <1>2 DEF Exits, ShapeInv, OwnedTypeOK, Used, Exclusive, Holds, Starter, Calls, Ending, Lives, Lasts, table,
       processes, calls
  <2> QED
    BY <2>1, <2>2, <2>3
<1>3. CASE Reports(p)
  <2>1. CASE records[store[p]] = "none"
    <3>1. /\ process[p] \in {"up", "out", "lost"}
          /\ session[p] = store[p]
          /\ newest < MaxIds
          /\ newest' = newest + 1
          /\ session' = [session EXCEPT ![p] = newest + 1]
          /\ twice' = (twice \/ (store[p] \in starting /\ Lives(p) /\ ~StartedBy(p)))
          /\ UNCHANGED <<records, ports, starting, quitting, process, store, call, target, named, mine, fresh>>
      BY <1>3, <2>1 DEF Reports, Renamed, calls, OwnedTypeOK, Used, Lives, Lasts
    <3>2. OwnedTypeOK'
      <4>1. twice' \in BOOLEAN
        BY <3>1 DEF OwnedTypeOK
      <4>2. starting' = {target'[d] : d \in {d \in Tools : call'[d] \notin {"idle", "reserving", "halting", "stopping"}}}
        BY <3>1, <2>1 DEF OwnedTypeOK, Used, Exclusive
      <4> QED
        BY <4>1, <4>2, <3>1, <2>1 DEF OwnedTypeOK, Used, Ending, Lives, Lasts
    <3>3. Used'
      BY <3>1, <2>1 DEF OwnedTypeOK, Used, Ending, Lives, Lasts
    <3>4. Exclusive'
      BY <3>1, <2>1 DEF OwnedTypeOK, Used, Exclusive, Starter, Holds, Lives, Lasts
    <3> QED
      BY <3>2, <3>3, <3>4
  <2>2. CASE records[store[p]] # "none"
    <3>1. /\ process[p] \in {"up", "out", "lost"}
          /\ session[p] = store[p]
          /\ newest < MaxIds
          /\ newest' = newest + 1
          /\ session' = [session EXCEPT ![p] = newest + 1]
          /\ records' = [j \in SessionIds |-> IF j = newest + 1 THEN records[store[p]] ELSE IF j = store[p] THEN "none" ELSE records[j]]
          /\ ports' = [j \in SessionIds |-> IF j = newest + 1 THEN ports[store[p]] ELSE IF j = store[p] THEN 0 ELSE ports[j]]
          /\ twice' = (twice \/ (store[p] \in starting /\ Lives(p) /\ ~StartedBy(p)))
          /\ UNCHANGED <<starting, quitting, process, store, call, target, named, mine, fresh>>
      BY <1>3, <2>2 DEF Reports, Renamed, calls, OwnedTypeOK, Used, Lives, Lasts
    <3>2. OwnedTypeOK'
      <4>1. twice' \in BOOLEAN
        BY <3>1 DEF OwnedTypeOK
      <4>2. starting' = {target'[d] : d \in {d \in Tools : call'[d] \notin {"idle", "reserving", "halting", "stopping"}}}
        BY <3>1, <2>2 DEF OwnedTypeOK, Used, Exclusive
      <4> QED
        BY <4>1, <4>2, <3>1, <2>2 DEF OwnedTypeOK, Used, Ending, Lives, Lasts
    <3>3. Used'
      BY <3>1, <2>2 DEF OwnedTypeOK, Used, Ending, Lives, Lasts
    <3>4. Exclusive'
      BY <3>1, <2>2 DEF OwnedTypeOK, Used, Exclusive, Starter, Holds, Lives, Lasts
    <3> QED
      BY <3>2, <3>3, <3>4
  <2> QED
    BY <1>3, <2>1, <2>2 DEF Reports, Renamed, calls, OwnedTypeOK, Used, Lives, Lasts
<1>4. CASE Follows(p)
  <2>1. OwnedTypeOK'
    BY <1>4 DEF Follows, ShapeInv, OwnedTypeOK, Used, Exclusive, Holds, Starter, Calls, Ending, Lives, Lasts, table,
       processes, calls
  <2>2. Used'
    BY <1>4 DEF Follows, ShapeInv, OwnedTypeOK, Used, Exclusive, Holds, Starter, Calls, Ending, Lives, Lasts, table,
       processes, calls
  <2>3. Exclusive'
    BY <1>4 DEF Follows, ShapeInv, OwnedTypeOK, Used, Exclusive, Holds, Starter, Calls, Ending, Lives, Lasts, table,
       processes, calls
  <2> QED
    BY <2>1, <2>2, <2>3
<1>5. CASE LogsOut(p)
  <2>1. OwnedTypeOK'
    BY <1>5 DEF LogsOut, ShapeInv, OwnedTypeOK, Used, Exclusive, Holds, Starter, Calls, Ending, Lives, Lasts, table,
       processes, calls
  <2>2. Used'
    BY <1>5 DEF LogsOut, OwnedTypeOK, Used, Up, table, calls
  <2>3. Exclusive'
    BY <1>5 DEF LogsOut, ShapeInv, OwnedTypeOK, Used, Exclusive, Holds, Starter, Calls, Ending, Lives, Lasts, table,
       processes, calls
  <2> QED
    BY <2>1, <2>2, <2>3
<1> QED
  BY <1>1, <1>2, <1>3, <1>4, <1>5

\* And quit.
LEMMA StopAllKeepsShape ==
  ASSUME ShapeInv, StopAll
  PROVE  ShapeInv'
  BY DEF StopAll, ShapeInv, OwnedTypeOK, Used, Exclusive, Holds, Starter, Lives, Lasts, SessionIds, Processes, calls

\* Unless a conversation is held twice, every step of a call keeps track of the processes.
LEMMA CallsKeepTrack ==
  ASSUME ShapeInv, ~twice', FoundInv, NEW c \in Tools, NEW i \in SessionIds,
         Start(c) \/ CallStep(c) \/ Send(c, i) \/ StopOne(c, i)
  PROVE  FoundInv'
<1> USE OwnedAssumption DEF ShapeInv, FoundInv, SessionIds, Processes
<1>1. CASE Start(c)
  <2>1. NoNewClaims
    BY <1>1 DEF NoNewClaims, OwnedTypeOK, Used, Exclusive, Starter, Holds, Held, StartedBy, Lives, Lasts, Ending, Claims,
       Start, Reservable, Calls, processes
  <2>2. TargetFree'
    BY <1>1 DEF OwnedTypeOK, Used, Exclusive, Starter, Holds, Held, StartedBy, Lives, Lasts, Ending, TargetFree,
       OldIdsDead, Claims, Start, Reservable, Calls, processes
  <2>3. NoneForgotten'
    BY <1>1 DEF OwnedTypeOK, Used, Exclusive, Starter, Holds, Held, StartedBy, Lives, Lasts, Ending, NoneForgotten,
       ClaimsApart, Claims, Start, Reservable, Calls, processes
  <2> QED
    BY <2>1, <2>2, <2>3, ClaimsShrink
<1>2. CASE Send(c, i)
  <2>1. NoNewClaims
    BY <1>2 DEF NoNewClaims, OwnedTypeOK, Used, Exclusive, Starter, Holds, Held, StartedBy, Lives, Lasts, Ending, Claims,
       Send, Calls, table, processes
  <2>2. TargetFree'
    BY <1>2 DEF OwnedTypeOK, Used, Exclusive, Starter, Holds, Held, StartedBy, Lives, Lasts, Ending, TargetFree,
       OldIdsDead, Claims, Send, Calls, table, processes
  <2>3. NoneForgotten'
    BY <1>2 DEF OwnedTypeOK, Used, Exclusive, Starter, Holds, Held, StartedBy, Lives, Lasts, Ending, NoneForgotten,
       ClaimsApart, Claims, Send, Calls, table, processes
  <2> QED
    BY <2>1, <2>2, <2>3, ClaimsShrink
<1>3. CASE Reserve(c)
  <2>1. CASE Reservable(target[c])
    <3>1. /\ call[c] = "reserving"
          /\ target[c] \notin starting
          /\ call' = [call EXCEPT ![c] = "popping"]
          /\ starting' = starting \cup {target[c]}
          /\ twice' = (twice \/ \E p \in Processes : StartedBy(p) /\ session[p] = target[c])
          /\ UNCHANGED <<newest, records, ports, quitting, process, session, store, target, named, mine, fresh>>
      BY <1>3, <2>1 DEF Reserve, Reservable, Returns, Calls, processes
    <3>2. NoNewClaims
      BY <3>1, <2>1 DEF NoNewClaims, OwnedTypeOK, Used, Exclusive, Starter, Holds, Held, StartedBy, Lives, Lasts, Ending,
         Claims
    <3>3. \A d \in Tools : Starter(d) => session[mine[d]] # target[c]
      BY <3>1, <2>1 DEF OwnedTypeOK, Used, Starter, StartedBy
    <3>4. \A d \in Tools : Starter(d)' => Starter(d) /\ mine'[d] = mine[d]
      BY <3>1, <2>1 DEF OwnedTypeOK, Used, Starter
    <3>5. TargetFree'
      <4>1. \A d, e \in Tools : Starter(d)' /\ call'[e] \in {"popping", "replacing", "spawning"} => session'[mine'[d]] # target'[e]
        BY <3>1, <2>1, <3>3, <3>4 DEF OwnedTypeOK, TargetFree
      <4>2. \A e \in Tools : call'[e] \in {"replacing", "spawning"} /\ records'[target'[e]] # "none" => ~Lasts(ports[target[e]])'
        BY <3>1, <2>1 DEF OwnedTypeOK, TargetFree, Lives, Lasts
      <4> QED
        BY <4>1, <4>2 DEF TargetFree, Starter
    <3>6. NoneForgotten'
      <4>1. \A r \in Processes : Lives(r)' => Lives(r)
        BY <3>1, <2>1 DEF OwnedTypeOK, Used, Lives, Lasts, Ending
      <4>2. \A r \in Processes, j \in SessionIds : Lives(r)' /\ ports[j] = r => \E k \in SessionIds : ports'[k] = r
        BY <3>1, <2>1 DEF OwnedTypeOK, Used, Lives, Lasts, Ending, ClaimsApart, Claims, Held, StartedBy
      <4>3. \A r \in Processes : Lives(r)' /\ StartedBy(r) => StartedBy(r)' \/ \E k \in SessionIds : ports'[k] = r
        BY <3>1, <2>1 DEF OwnedTypeOK, Used, Lives, Lasts, Ending, StartedBy
      <4> QED
        BY <4>1, <4>2, <4>3, FoundStays, <3>1
    <3> QED
      BY <3>2, <3>5, <3>6, ClaimsShrink
  <2>2. CASE ~Reservable(target[c])
    <3>1. /\ call[c] = "reserving"
          /\ call' = [call EXCEPT ![c] = "idle"]
          /\ target' = [target EXCEPT ![c] = 0]
          /\ named' = [named EXCEPT ![c] = 0]
          /\ mine' = [mine EXCEPT ![c] = 0]
          /\ fresh' = fresh \ {c}
          /\ UNCHANGED <<newest, records, ports, starting, quitting, process, session, store, twice>>
      BY <1>3, <2>2 DEF Reserve, Reservable, Returns, Calls, processes
    <3>2. NoNewClaims
      BY <3>1, <2>2 DEF NoNewClaims, OwnedTypeOK, Used, Exclusive, Starter, Holds, Held, StartedBy, Lives, Lasts, Ending,
         Claims
    <3>3. TargetFree'
      BY <3>1, <2>2 DEF OwnedTypeOK, Used, Exclusive, Starter, Holds, Held, StartedBy, Lives, Lasts, Ending, TargetFree,
         OldIdsDead, Claims
    <3>4. NoneForgotten'
      BY <3>1, <2>2 DEF OwnedTypeOK, Used, Exclusive, Starter, Holds, Held, StartedBy, Lives, Lasts, Ending,
         NoneForgotten, ClaimsApart, Claims
    <3> QED
      BY <3>2, <3>3, <3>4, ClaimsShrink
  <2> QED
    BY <1>3, <2>1, <2>2 DEF Reserve, Reservable, Returns, Calls, processes
<1>4. CASE Pop(c)
  <2>1. CASE ports[target[c]] = 0
    <3>1. /\ call[c] = "popping"
          /\ call' = [call EXCEPT ![c] = "spawning"]
          /\ mine' = [mine EXCEPT ![c] = ports[target[c]]]
          /\ process' = Ending(ports[target[c]])
          /\ ports' = [ports EXCEPT ![target[c]] = 0]
          /\ records' = [records EXCEPT ![target[c]] = IF @ = "none" THEN @ ELSE "active"]
          /\ UNCHANGED <<newest, starting, quitting, session, store, target, named, fresh, twice>>
      BY <1>4, <2>1 DEF Pop, Calls
    <3>2. NoNewClaims
      BY <3>1, <2>1 DEF NoNewClaims, OwnedTypeOK, Used, Exclusive, Starter, Holds, Held, StartedBy, Lives, Lasts, Ending,
         Claims
    <3>3. TargetFree'
      BY <3>1, <2>1 DEF OwnedTypeOK, Used, Exclusive, Starter, Holds, Held, StartedBy, Lives, Lasts, Ending, TargetFree,
         OldIdsDead, Claims
    <3>4. NoneForgotten'
      <4>1. \A r \in Processes : Lives(r)' => Lives(r)
        BY <3>1, <2>1 DEF OwnedTypeOK, Used, Lives, Ending
      <4>2. \A r \in Processes, j \in SessionIds : Lives(r)' /\ ports[j] = r => \E k \in SessionIds : ports'[k] = r
        BY <3>1, <2>1 DEF OwnedTypeOK, Used, Lives, Lasts, Ending, ClaimsApart, Claims, Held, StartedBy
      <4>3. \A r \in Processes : Lives(r)' /\ StartedBy(r) => StartedBy(r)' \/ \E k \in SessionIds : ports'[k] = r
        BY <3>1, <2>1 DEF OwnedTypeOK, Used, Lives, Ending, StartedBy
      <4> QED
        BY <4>1, <4>2, <4>3, FoundStays, <3>1
    <3> QED
      BY <3>2, <3>3, <3>4, ClaimsShrink
  <2>2. CASE ports[target[c]] # 0
    <3>1. /\ call[c] = "popping"
          /\ call' = [call EXCEPT ![c] = "replacing"]
          /\ mine' = [mine EXCEPT ![c] = ports[target[c]]]
          /\ process' = Ending(ports[target[c]])
          /\ ports' = [ports EXCEPT ![target[c]] = 0]
          /\ records' = [records EXCEPT ![target[c]] = IF @ = "none" THEN @ ELSE "active"]
          /\ UNCHANGED <<newest, starting, quitting, session, store, target, named, fresh, twice>>
      BY <1>4, <2>2 DEF Pop, Calls
    <3>2. NoNewClaims
      BY <3>1, <2>2 DEF NoNewClaims, OwnedTypeOK, Used, Exclusive, Starter, Holds, Held, StartedBy, Lives, Lasts, Ending,
         Claims
    <3>3. TargetFree'
      BY <3>1, <2>2 DEF OwnedTypeOK, Used, Exclusive, Starter, Holds, Held, StartedBy, Lives, Lasts, Ending, TargetFree,
         OldIdsDead, Claims
    <3>4. NoneForgotten'
      <4>1. \A r \in Processes : Lives(r)' => Lives(r)
        BY <3>1, <2>2 DEF OwnedTypeOK, Used, Lives, Ending
      <4>2. \A r \in Processes, j \in SessionIds : Lives(r)' /\ ports[j] = r => \E k \in SessionIds : ports'[k] = r
        BY <3>1, <2>2 DEF OwnedTypeOK, Used, Lives, Lasts, Ending, ClaimsApart, Claims, Held, StartedBy
      <4>3. \A r \in Processes : Lives(r)' /\ StartedBy(r) => StartedBy(r)' \/ \E k \in SessionIds : ports'[k] = r
        BY <3>1, <2>2 DEF OwnedTypeOK, Used, Lives, Ending, StartedBy
      <4> QED
        BY <4>1, <4>2, <4>3, FoundStays, <3>1
    <3> QED
      BY <3>2, <3>3, <3>4, ClaimsShrink
  <2> QED
    BY <1>4, <2>1, <2>2 DEF Pop, Calls
<1>5. CASE Replace(c)
  <2>1. NoNewClaims
    BY <1>5 DEF NoNewClaims, OwnedTypeOK, Used, Exclusive, Starter, Holds, Held, StartedBy, Lives, Lasts, Ending, Claims,
       Replace, StopMine, Calls, table
  <2>2. TargetFree'
    BY <1>5 DEF OwnedTypeOK, Used, Exclusive, Starter, Holds, Held, StartedBy, Lives, Lasts, Ending, TargetFree,
       OldIdsDead, Claims, Replace, StopMine, Calls, table
  <2>3. NoneForgotten'
    BY <1>5 DEF OwnedTypeOK, Used, Exclusive, Starter, Holds, Held, StartedBy, Lives, Lasts, Ending, NoneForgotten,
       ClaimsApart, Claims, Replace, StopMine, Calls, table
  <2> QED
    BY <2>1, <2>2, <2>3, ClaimsShrink
<1>6. CASE Spawn(c)
  <2> PICK q \in Processes :
            IF records[target[c]] # "none" /\ ~Owned(target[c])
            THEN Spawned(c, q, target[c]) /\ UNCHANGED <<newest, records, ports>>
            ELSE /\ newest < MaxIds /\ newest' = newest + 1
                 /\ Renamed(target[c], newest') /\ Spawned(c, q, newest')
      BY <1>6 DEF Spawn
  <2>1. CASE records[target[c]] # "none" /\ ~Owned(target[c])
    <3>1. /\ call[c] = "spawning"
          /\ process[q] = "new"
          /\ process' = [process EXCEPT ![q] = "up"]
          /\ call' = [call EXCEPT ![c] = "naming"]
          /\ mine' = [mine EXCEPT ![c] = q]
          /\ session' = [session EXCEPT ![q] = target[c]]
          /\ store' = [store EXCEPT ![q] = target[c]]
          /\ UNCHANGED <<newest, records, ports, starting, quitting, target, named, fresh, twice>>
      BY <1>6, <2>1 DEF Spawned, Renamed, Calls, OwnedTypeOK, Used
    <3>2. \A k \in SessionIds : ~(Held(q) /\ Claims(q, k)) /\ ports[k] # q /\ \A d \in Tools : mine[d] # q
      BY <3>1, <2>1 DEF OwnedTypeOK, Used, Held, StartedBy, Lives, Lasts
    <3>3. \A k \in SessionIds : Claims(q, k)' => k = session'[q]
      BY <3>1, <2>1, <3>2 DEF OwnedTypeOK, Used, Claims
    <3>4. \A r \in Processes \ {q} : Held(r)' => Held(r) /\ session'[r] = session[r] /\ store'[r] = store[r]
      BY <3>1, <2>1 DEF OwnedTypeOK, Used, Held, StartedBy, Lives, Lasts, Claims
    <3>5. \A r \in Processes \ {q}, k \in SessionIds : Held(r)' /\ Claims(r, k)' => Claims(r, k) /\ session[r] # target[c]
      BY <3>1, <2>1, <3>4 DEF OwnedTypeOK, Used, Held, StartedBy, Lives, Lasts, Claims, Owned, TargetFree, Starter
    <3>6. \A r \in Processes \ {q}, k \in SessionIds : Held(r)' /\ Claims(r, k)' => k # session'[q] /\ (records[k] = "none" => records'[k] = "none")
      BY <3>1, <2>1, <3>4, <3>5 DEF OldIdsDead, OwnedTypeOK, Used
    <3>7. ClaimsApart' /\ OldIdsDead'
      BY <3>3, <3>4, <3>5, <3>6, ClaimsGrow
    <3>8. \A d \in Tools : call'[d] \in {"popping", "replacing", "spawning"} => d # c /\ target[d] # target[c] /\ target'[d] = target[d] /\ target[d] \in 1..newest /\ call[d] = call'[d]
      BY <3>1, <2>1 DEF Exclusive, Holds, OwnedTypeOK, Used
    <3>9. TargetFree'
      <4>1. ASSUME NEW d \in Tools, NEW e \in Tools, Starter(d)', call'[e] \in {"popping", "replacing", "spawning"}
            PROVE  session'[mine'[d]] # target'[e]
        <5>1. CASE d = c
          BY <4>1, <5>1, <3>8, <3>1, <2>1 DEF OwnedTypeOK, Used
        <5>2. CASE d # c
          <6>1. mine'[d] = mine[d] /\ mine[d] # q /\ Starter(d) /\ mine[d] \in Processes /\ session[mine[d]] # target[e]
            BY <4>1, <5>2, <3>2, <3>8, <3>1, <2>1 DEF OwnedTypeOK, Used, Starter, TargetFree
          <6> QED
            BY <6>1, <3>8, <4>1, <3>1, <2>1 DEF OwnedTypeOK
        <5> QED
          BY <5>1, <5>2
      <4>2. ASSUME NEW e \in Tools, call'[e] \in {"replacing", "spawning"}, records'[target'[e]] # "none"
            PROVE  ~Lasts(ports[target[e]])'
        BY <4>2, <3>8, <3>2, <3>1, <2>1 DEF OwnedTypeOK, Used, Lives, Lasts, TargetFree
      <4> QED
        BY <4>1, <4>2 DEF TargetFree, Starter
    <3>10. NoneForgotten'
      <4>1. ASSUME NEW r \in Processes, Lives(r)', r # q
            PROVE  (\E k \in SessionIds : ports'[k] = r) \/ StartedBy(r)'
        <5>1. Lives(r) /\ ((\E k \in SessionIds : ports[k] = r) \/ StartedBy(r))
          BY <4>1, <3>1, <2>1 DEF NoneForgotten, Lives, Lasts, OwnedTypeOK
        <5>2. StartedBy(r) => StartedBy(r)'
          BY <3>1, <2>1, <4>1 DEF StartedBy, OwnedTypeOK
        <5>3. ASSUME NEW k \in SessionIds, ports[k] = r PROVE \E l \in SessionIds : ports'[l] = r
          BY <5>1, <5>3, <3>1, <2>1 DEF OwnedTypeOK, Used, Held, Lives, Lasts
        <5> QED
          BY <5>1, <5>2, <5>3
      <4>2. StartedBy(q)'
        BY <3>1, <2>1 DEF StartedBy, OwnedTypeOK
      <4> QED
        BY <4>1, <4>2 DEF NoneForgotten
    <3> QED
      BY <3>7, <3>9, <3>10
  <2>2. CASE records[target[c]] = "none"
    <3>1. /\ call[c] = "spawning"
          /\ process[q] = "new"
          /\ newest < MaxIds
          /\ process' = [process EXCEPT ![q] = "up"]
          /\ call' = [call EXCEPT ![c] = "naming"]
          /\ mine' = [mine EXCEPT ![c] = q]
          /\ session' = [session EXCEPT ![q] = (newest + 1)]
          /\ store' = [store EXCEPT ![q] = (newest + 1)]
          /\ newest' = newest + 1
          /\ UNCHANGED <<records, ports, starting, quitting, target, named, fresh, twice>>
      BY <1>6, <2>2 DEF Spawned, Renamed, Calls, OwnedTypeOK, Used
    <3>2. \A k \in SessionIds : ~(Held(q) /\ Claims(q, k)) /\ ports[k] # q /\ \A d \in Tools : mine[d] # q
      BY <3>1, <2>2 DEF OwnedTypeOK, Used, Held, StartedBy, Lives, Lasts
    <3>3. \A k \in SessionIds : Claims(q, k)' => k = session'[q]
      BY <3>1, <2>2, <3>2 DEF OwnedTypeOK, Used, Claims
    <3>4. \A r \in Processes \ {q} : Held(r)' => Held(r) /\ session'[r] = session[r] /\ store'[r] = store[r]
      BY <3>1, <2>2 DEF OwnedTypeOK, Used, Held, StartedBy, Lives, Lasts, Claims
    <3>5. \A r \in Processes \ {q}, k \in SessionIds : Held(r)' /\ Claims(r, k)' => Claims(r, k)
      BY <3>1, <2>2, <3>4 DEF OwnedTypeOK, Used, Held, StartedBy, Lives, Lasts, Claims
    <3>6. \A r \in Processes \ {q}, k \in SessionIds : Held(r)' /\ Claims(r, k)' => k # session'[q] /\ (records[k] = "none" => records'[k] = "none")
      BY <3>1, <2>2, <3>4, <3>5 DEF Claims, Held, StartedBy, Lives, Lasts, OwnedTypeOK, Used
    <3>7. ClaimsApart' /\ OldIdsDead'
      BY <3>3, <3>4, <3>5, <3>6, ClaimsGrow
    <3>8. \A d \in Tools : call'[d] \in {"popping", "replacing", "spawning"} => d # c /\ target[d] # target[c] /\ target'[d] = target[d] /\ target[d] \in 1..newest /\ call[d] = call'[d]
      BY <3>1, <2>2 DEF Exclusive, Holds, OwnedTypeOK, Used
    <3>9. TargetFree'
      <4>1. ASSUME NEW d \in Tools, NEW e \in Tools, Starter(d)', call'[e] \in {"popping", "replacing", "spawning"}
            PROVE  session'[mine'[d]] # target'[e]
        <5>1. CASE d = c
          BY <4>1, <5>1, <3>8, <3>1, <2>2 DEF OwnedTypeOK, Used
        <5>2. CASE d # c
          <6>1. mine'[d] = mine[d] /\ mine[d] # q /\ Starter(d) /\ mine[d] \in Processes /\ session[mine[d]] # target[e]
            BY <4>1, <5>2, <3>2, <3>8, <3>1, <2>2 DEF OwnedTypeOK, Used, Starter, TargetFree
          <6> QED
            BY <6>1, <3>8, <4>1, <3>1, <2>2 DEF OwnedTypeOK
        <5> QED
          BY <5>1, <5>2
      <4>2. ASSUME NEW e \in Tools, call'[e] \in {"replacing", "spawning"}, records'[target'[e]] # "none"
            PROVE  ~Lasts(ports[target[e]])'
        BY <4>2, <3>8, <3>2, <3>1, <2>2 DEF OwnedTypeOK, Used, Lives, Lasts, TargetFree
      <4> QED
        BY <4>1, <4>2 DEF TargetFree, Starter
    <3>10. NoneForgotten'
      <4>1. ASSUME NEW r \in Processes, Lives(r)', r # q
            PROVE  (\E k \in SessionIds : ports'[k] = r) \/ StartedBy(r)'
        <5>1. Lives(r) /\ ((\E k \in SessionIds : ports[k] = r) \/ StartedBy(r))
          BY <4>1, <3>1, <2>2 DEF NoneForgotten, Lives, Lasts, OwnedTypeOK
        <5>2. StartedBy(r) => StartedBy(r)'
          BY <3>1, <2>2, <4>1 DEF StartedBy, OwnedTypeOK
        <5>3. ASSUME NEW k \in SessionIds, ports[k] = r PROVE \E l \in SessionIds : ports'[l] = r
          BY <5>1, <5>3, <3>1, <2>2 DEF OwnedTypeOK, Used, Held, Lives, Lasts
        <5> QED
          BY <5>1, <5>2, <5>3
      <4>2. StartedBy(q)'
        BY <3>1, <2>2 DEF StartedBy, OwnedTypeOK
      <4> QED
        BY <4>1, <4>2 DEF NoneForgotten
    <3> QED
      BY <3>7, <3>9, <3>10
  <2>3. CASE records[target[c]] # "none" /\ Owned(target[c])
    <3>1. /\ call[c] = "spawning"
          /\ process[q] = "new"
          /\ newest < MaxIds
          /\ process' = [process EXCEPT ![q] = "up"]
          /\ call' = [call EXCEPT ![c] = "naming"]
          /\ mine' = [mine EXCEPT ![c] = q]
          /\ session' = [session EXCEPT ![q] = (newest + 1)]
          /\ store' = [store EXCEPT ![q] = (newest + 1)]
          /\ newest' = newest + 1
          /\ records' = [j \in SessionIds |-> IF j = newest + 1 THEN records[target[c]] ELSE IF j = target[c] THEN "none" ELSE records[j]]
          /\ ports' = [j \in SessionIds |-> IF j = newest + 1 THEN ports[target[c]] ELSE IF j = target[c] THEN 0 ELSE ports[j]]
          /\ UNCHANGED <<starting, quitting, target, named, fresh, twice>>
      BY <1>6, <2>3 DEF Spawned, Renamed, Calls, OwnedTypeOK, Used
    <3>2. \A k \in SessionIds : ~(Held(q) /\ Claims(q, k)) /\ ports[k] # q /\ \A d \in Tools : mine[d] # q
      BY <3>1, <2>3 DEF OwnedTypeOK, Used, Held, StartedBy, Lives, Lasts
    <3>3. \A k \in SessionIds : Claims(q, k)' => k = session'[q]
      BY <3>1, <2>3, <3>2 DEF OwnedTypeOK, Used, Claims
    <3>4. \A r \in Processes \ {q} : Held(r)' => Held(r) /\ session'[r] = session[r] /\ store'[r] = store[r]
      BY <3>1, <2>3 DEF OwnedTypeOK, Used, Held, StartedBy, Lives, Lasts, Claims
    <3>a. \A r \in Processes : ports[target[c]] = r => ~Held(r)
      BY <3>1, <2>3 DEF TargetFree, Held, Exclusive, StartedBy, Starter, Lives, Lasts, OwnedTypeOK, Used
    <3>5. \A r \in Processes \ {q}, k \in SessionIds : Held(r)' /\ Claims(r, k)' => Claims(r, k)
      BY <3>1, <2>3, <3>4, <3>a DEF OwnedTypeOK, Used, Held, StartedBy, Lives, Lasts, Claims
    <3>6. \A r \in Processes \ {q}, k \in SessionIds : Held(r)' /\ Claims(r, k)' => k # session'[q] /\ (records[k] = "none" => records'[k] = "none")
      BY <3>1, <2>3, <3>4, <3>5 DEF Claims, Held, StartedBy, Lives, Lasts, OwnedTypeOK, Used
    <3>7. ClaimsApart' /\ OldIdsDead'
      BY <3>3, <3>4, <3>5, <3>6, ClaimsGrow
    <3>8. \A d \in Tools : call'[d] \in {"popping", "replacing", "spawning"} => d # c /\ target[d] # target[c] /\ target'[d] = target[d] /\ target[d] \in 1..newest /\ call[d] = call'[d]
      BY <3>1, <2>3 DEF Exclusive, Holds, OwnedTypeOK, Used
    <3>9. TargetFree'
      <4>1. ASSUME NEW d \in Tools, NEW e \in Tools, Starter(d)', call'[e] \in {"popping", "replacing", "spawning"}
            PROVE  session'[mine'[d]] # target'[e]
        <5>1. CASE d = c
          BY <4>1, <5>1, <3>8, <3>1, <2>3 DEF OwnedTypeOK, Used
        <5>2. CASE d # c
          <6>1. mine'[d] = mine[d] /\ mine[d] # q /\ Starter(d) /\ mine[d] \in Processes /\ session[mine[d]] # target[e]
            BY <4>1, <5>2, <3>2, <3>8, <3>1, <2>3 DEF OwnedTypeOK, Used, Starter, TargetFree
          <6> QED
            BY <6>1, <3>8, <4>1, <3>1, <2>3 DEF OwnedTypeOK
        <5> QED
          BY <5>1, <5>2
      <4>2. ASSUME NEW e \in Tools, call'[e] \in {"replacing", "spawning"}, records'[target'[e]] # "none"
            PROVE  ~Lasts(ports[target[e]])'
        BY <4>2, <3>8, <3>2, <3>1, <2>3 DEF OwnedTypeOK, Used, Lives, Lasts, TargetFree
      <4> QED
        BY <4>1, <4>2 DEF TargetFree, Starter
    <3>10. NoneForgotten'
      <4>1. ASSUME NEW r \in Processes, Lives(r)', r # q
            PROVE  (\E k \in SessionIds : ports'[k] = r) \/ StartedBy(r)'
        <5>1. Lives(r) /\ ((\E k \in SessionIds : ports[k] = r) \/ StartedBy(r))
          BY <4>1, <3>1, <2>3 DEF NoneForgotten, Lives, Lasts, OwnedTypeOK
        <5>2. StartedBy(r) => StartedBy(r)'
          BY <3>1, <2>3, <4>1 DEF StartedBy, OwnedTypeOK
        <5>3. ASSUME NEW k \in SessionIds, ports[k] = r PROVE \E l \in SessionIds : ports'[l] = r
          <6>1. Held(r) /\ k # target[c]
            BY <5>1, <5>3, <3>a DEF Held, Lives, Lasts
          <6>2. k # newest + 1
            BY <5>3 DEF OwnedTypeOK, Used
          <6> QED
            BY <5>3, <6>1, <6>2, <3>1
        <5> QED
          BY <5>1, <5>2, <5>3
      <4>2. StartedBy(q)'
        BY <3>1, <2>3 DEF StartedBy, OwnedTypeOK
      <4> QED
        BY <4>1, <4>2 DEF NoneForgotten
    <3> QED
      BY <3>7, <3>9, <3>10
  <2> QED
    BY <1>6, <2>1, <2>2, <2>3 DEF Spawned, Renamed, Calls, OwnedTypeOK, Used
<1>7. CASE SpawnFails(c)
  <2>1. CASE call[c] = "spawning"
    <3>1. /\ call' = [call EXCEPT ![c] = "failing"]
          /\ UNCHANGED <<newest, records, ports, starting, quitting, process, session, store, target, named, mine, fresh, twice>>
      BY <1>7, <2>1 DEF SpawnFails, Calls, table, processes
    <3>2. NoNewClaims
      BY <3>1, <2>1 DEF NoNewClaims, OwnedTypeOK, Used, Exclusive, Starter, Holds, Held, StartedBy, Lives, Lasts, Ending,
         Claims
    <3>3. TargetFree'
      BY <3>1, <2>1 DEF OwnedTypeOK, Used, Exclusive, Starter, Holds, Held, StartedBy, Lives, Lasts, Ending, TargetFree,
         OldIdsDead, Claims
    <3>4. NoneForgotten'
      BY <3>1, <2>1 DEF OwnedTypeOK, Used, Exclusive, Starter, Holds, Held, StartedBy, Lives, Lasts, Ending,
         NoneForgotten, ClaimsApart, Claims
    <3> QED
      BY <3>2, <3>3, <3>4, ClaimsShrink
  <2>2. CASE call[c] = "naming" /\ process[mine[c]] = "down"
    <3>1. /\ process[mine[c]] = "down"
          /\ call' = [call EXCEPT ![c] = "failing"]
          /\ UNCHANGED <<newest, records, ports, starting, quitting, process, session, store, target, named, mine, fresh, twice>>
      BY <1>7, <2>2 DEF SpawnFails, Calls, table, processes
    <3>2. NoNewClaims
      BY <3>1, <2>2 DEF NoNewClaims, OwnedTypeOK, Used, Exclusive, Starter, Holds, Held, StartedBy, Lives, Lasts, Ending,
         Claims
    <3>3. TargetFree'
      BY <3>1, <2>2 DEF OwnedTypeOK, Used, Exclusive, Starter, Holds, Held, StartedBy, Lives, Lasts, Ending, TargetFree,
         OldIdsDead, Claims
    <3>4. NoneForgotten'
      BY <3>1, <2>2 DEF OwnedTypeOK, Used, Exclusive, Starter, Holds, Held, StartedBy, Lives, Lasts, Ending,
         NoneForgotten, ClaimsApart, Claims
    <3> QED
      BY <3>2, <3>3, <3>4, ClaimsShrink
  <2>3. CASE call[c] = "naming" /\ process[mine[c]] = "out"
    <3>1. /\ process[mine[c]] = "out"
          /\ call' = [call EXCEPT ![c] = "failing"]
          /\ process' = [process EXCEPT ![mine[c]] = "lost"]
          /\ UNCHANGED <<newest, records, ports, starting, quitting, session, store, target, named, mine, fresh, twice>>
      BY <1>7, <2>3 DEF SpawnFails, Calls, table, processes
    <3>2. NoNewClaims
      BY <3>1, <2>3 DEF NoNewClaims, OwnedTypeOK, Used, Exclusive, Starter, Holds, Held, StartedBy, Lives, Lasts, Ending,
         Claims
    <3>3. TargetFree'
      BY <3>1, <2>3 DEF OwnedTypeOK, Used, Exclusive, Starter, Holds, Held, StartedBy, Lives, Lasts, Ending, TargetFree,
         OldIdsDead, Claims
    <3>4. NoneForgotten'
      BY <3>1, <2>3 DEF OwnedTypeOK, Used, Exclusive, Starter, Holds, Held, StartedBy, Lives, Lasts, Ending,
         NoneForgotten, ClaimsApart, Claims
    <3> QED
      BY <3>2, <3>3, <3>4, ClaimsShrink
  <2> QED
    BY <1>7, <2>1, <2>2, <2>3 DEF SpawnFails, Calls, table, processes
<1>8. CASE Name(c)
  <2>1. NoNewClaims
    BY <1>8 DEF NoNewClaims, OwnedTypeOK, Used, Exclusive, Starter, Holds, Held, StartedBy, Lives, Lasts, Ending, Claims,
       Name, Calls, table, processes
  <2>2. TargetFree'
    BY <1>8 DEF OwnedTypeOK, Used, Exclusive, Starter, Holds, Held, StartedBy, Lives, Lasts, Ending, TargetFree,
       OldIdsDead, Claims, Name, Calls, table, processes
  <2>3. NoneForgotten'
    BY <1>8 DEF OwnedTypeOK, Used, Exclusive, Starter, Holds, Held, StartedBy, Lives, Lasts, Ending, NoneForgotten,
       ClaimsApart, Claims, Name, Calls, table, processes
  <2> QED
    BY <2>1, <2>2, <2>3, ClaimsShrink
<1>9. CASE Register(c)
  <2>1. CASE quitting
    <3>1. /\ call[c] = "registering"
          /\ call' = [call EXCEPT ![c] = "dropping"]
          /\ process' = Ending(mine[c])
          /\ UNCHANGED <<newest, records, ports, starting, quitting, session, store, target, named, mine, fresh, twice>>
      BY <1>9, <2>1 DEF Register, Calls
    <3>2. NoNewClaims
      BY <3>1, <2>1 DEF NoNewClaims, OwnedTypeOK, Used, Exclusive, Starter, Holds, Held, StartedBy, Lives, Lasts, Ending,
         Claims
    <3>3. TargetFree'
      BY <3>1, <2>1 DEF OwnedTypeOK, Used, Exclusive, Starter, Holds, Held, StartedBy, Lives, Lasts, Ending, TargetFree,
         OldIdsDead, Claims
    <3>4. NoneForgotten'
      <4>1. \A r \in Processes : Lives(r)' => Lives(r)
        BY <3>1, <2>1 DEF OwnedTypeOK, Used, Lives, Lasts, Ending
      <4>2. \A r \in Processes, j \in SessionIds : Lives(r)' /\ ports[j] = r => \E k \in SessionIds : ports'[k] = r
        BY <3>1, <2>1 DEF OwnedTypeOK, Used, Lives, Lasts, Ending, ClaimsApart, Claims, Held, StartedBy
      <4>3. \A r \in Processes : Lives(r)' /\ StartedBy(r) => StartedBy(r)' \/ \E k \in SessionIds : ports'[k] = r
        BY <3>1, <2>1 DEF OwnedTypeOK, Used, Lives, Lasts, Ending, StartedBy
      <4> QED
        BY <4>1, <4>2, <4>3, FoundStays, <3>1
    <3> QED
      BY <3>2, <3>3, <3>4, ClaimsShrink
  <2>2. CASE ~quitting
    <3>1. /\ call[c] = "registering"
          /\ call' = [call EXCEPT ![c] = "releasing"]
          /\ ports' = [ports EXCEPT ![named[c]] = mine[c]]
          /\ UNCHANGED <<newest, records, starting, quitting, process, session, store, target, named, mine, fresh, twice>>
      BY <1>9, <2>2 DEF Register, Calls
    <3>2. NoNewClaims
      BY <3>1, <2>2 DEF NoNewClaims, OwnedTypeOK, Used, Exclusive, Starter, Holds, Held, StartedBy, Lives, Lasts, Ending,
         Claims
    <3>3. TargetFree'
      BY <3>1, <2>2 DEF OwnedTypeOK, Used, Exclusive, Starter, Holds, Held, StartedBy, Lives, Lasts, Ending, TargetFree,
         OldIdsDead, Claims
    <3>4. NoneForgotten'
      <4>1. \A r \in Processes : Lives(r)' => Lives(r)
        BY <3>1, <2>2 DEF OwnedTypeOK, Used, Lives, Ending
      <4>2. \A r \in Processes, j \in SessionIds : Lives(r)' /\ ports[j] = r => \E k \in SessionIds : ports'[k] = r
        BY <3>1, <2>2 DEF OwnedTypeOK, Used, Lives, Lasts, Ending, ClaimsApart, Claims, Held, StartedBy
      <4>3. \A r \in Processes : Lives(r)' /\ StartedBy(r) => StartedBy(r)' \/ \E k \in SessionIds : ports'[k] = r
        BY <3>1, <2>2 DEF OwnedTypeOK, Used, Lives, Ending, StartedBy
      <4> QED
        BY <4>1, <4>2, <4>3, FoundStays, <3>1
    <3> QED
      BY <3>2, <3>3, <3>4, ClaimsShrink
  <2> QED
    BY <1>9, <2>1, <2>2 DEF Register, Calls
<1>10. CASE DropChild(c)
  <2>1. NoNewClaims
    BY <1>10 DEF NoNewClaims, OwnedTypeOK, Used, Exclusive, Starter, Holds, Held, StartedBy, Lives, Lasts, Ending, Claims,
       DropChild, StopMine, Calls, table
  <2>2. TargetFree'
    BY <1>10 DEF OwnedTypeOK, Used, Exclusive, Starter, Holds, Held, StartedBy, Lives, Lasts, Ending, TargetFree,
       OldIdsDead, Claims, DropChild, StopMine, Calls, table
  <2>3. NoneForgotten'
    BY <1>10 DEF OwnedTypeOK, Used, Exclusive, Starter, Holds, Held, StartedBy, Lives, Lasts, Ending, NoneForgotten,
       ClaimsApart, Claims, DropChild, StopMine, Calls, table
  <2> QED
    BY <2>1, <2>2, <2>3, ClaimsShrink
<1>11. CASE Release(c)
  <2>1. NoNewClaims
    BY <1>11 DEF NoNewClaims, OwnedTypeOK, Used, Exclusive, Starter, Holds, Held, StartedBy, Lives, Lasts, Ending, Claims,
       Release, Returns, processes
  <2>2. TargetFree'
    BY <1>11 DEF OwnedTypeOK, Used, Exclusive, Starter, Holds, Held, StartedBy, Lives, Lasts, Ending, TargetFree,
       OldIdsDead, Claims, Release, Returns, processes
  <2>3. NoneForgotten'
    BY <1>11 DEF OwnedTypeOK, Used, Exclusive, Starter, Holds, Held, StartedBy, Lives, Lasts, Ending, NoneForgotten,
       ClaimsApart, Claims, Release, Returns, processes
  <2> QED
    BY <2>1, <2>2, <2>3, ClaimsShrink
<1>12. CASE StopOne(c, i)
  <2>1. NoNewClaims
    BY <1>12 DEF NoNewClaims, OwnedTypeOK, Used, Exclusive, Starter, Holds, Held, StartedBy, Lives, Lasts, Ending, Claims,
       StopOne, Calls, table, processes
  <2>2. TargetFree'
    BY <1>12 DEF OwnedTypeOK, Used, Exclusive, Starter, Holds, Held, StartedBy, Lives, Lasts, Ending, TargetFree,
       OldIdsDead, Claims, StopOne, Calls, table, processes
  <2>3. NoneForgotten'
    BY <1>12 DEF OwnedTypeOK, Used, Exclusive, Starter, Holds, Held, StartedBy, Lives, Lasts, Ending, NoneForgotten,
       ClaimsApart, Claims, StopOne, Calls, table, processes
  <2> QED
    BY <2>1, <2>2, <2>3, ClaimsShrink
<1>13. CASE Halt(c)
  <2>1. CASE ports[target[c]] = 0
    <3>1. /\ call[c] = "halting"
          /\ call' = [call EXCEPT ![c] = "idle"]
          /\ target' = [target EXCEPT ![c] = 0]
          /\ named' = [named EXCEPT ![c] = 0]
          /\ mine' = [mine EXCEPT ![c] = 0]
          /\ fresh' = fresh \ {c}
          /\ records' = [records EXCEPT ![target[c]] = IF @ = "none" THEN @ ELSE "inactive"]
          /\ ports' = [ports EXCEPT ![target[c]] = 0]
          /\ process' = Ending(ports[target[c]])
          /\ UNCHANGED <<newest, starting, quitting, session, store, twice>>
      BY <1>13, <2>1 DEF Halt, Returns, Calls
    <3>2. NoNewClaims
      BY <3>1, <2>1 DEF NoNewClaims, OwnedTypeOK, Used, Exclusive, Starter, Holds, Held, StartedBy, Lives, Lasts, Ending,
         Claims
    <3>3. TargetFree'
      BY <3>1, <2>1 DEF OwnedTypeOK, Used, Exclusive, Starter, Holds, Held, StartedBy, Lives, Lasts, Ending, TargetFree,
         OldIdsDead, Claims
    <3>4. NoneForgotten'
      <4>1. \A r \in Processes : Lives(r)' => Lives(r)
        BY <3>1, <2>1 DEF OwnedTypeOK, Used, Lives, Lasts, Ending
      <4>2. \A r \in Processes, j \in SessionIds : Lives(r)' /\ ports[j] = r => \E k \in SessionIds : ports'[k] = r
        BY <3>1, <2>1 DEF OwnedTypeOK, Used, Lives, Lasts, Ending, ClaimsApart, Claims, Held, StartedBy
      <4>3. \A r \in Processes : Lives(r)' /\ StartedBy(r) => StartedBy(r)' \/ \E k \in SessionIds : ports'[k] = r
        BY <3>1, <2>1 DEF OwnedTypeOK, Used, Lives, Lasts, Ending, StartedBy
      <4> QED
        BY <4>1, <4>2, <4>3, FoundStays, <3>1
    <3> QED
      BY <3>2, <3>3, <3>4, ClaimsShrink
  <2>2. CASE ports[target[c]] # 0
    <3>1. /\ call[c] = "halting"
          /\ call' = [call EXCEPT ![c] = "stopping"]
          /\ mine' = [mine EXCEPT ![c] = ports[target[c]]]
          /\ records' = [records EXCEPT ![target[c]] = IF @ = "none" THEN @ ELSE "inactive"]
          /\ ports' = [ports EXCEPT ![target[c]] = 0]
          /\ process' = Ending(ports[target[c]])
          /\ UNCHANGED <<newest, starting, quitting, session, store, target, named, fresh, twice>>
      BY <1>13, <2>2 DEF Halt, Returns, Calls
    <3>2. NoNewClaims
      BY <3>1, <2>2 DEF NoNewClaims, OwnedTypeOK, Used, Exclusive, Starter, Holds, Held, StartedBy, Lives, Lasts, Ending,
         Claims
    <3>3. TargetFree'
      BY <3>1, <2>2 DEF OwnedTypeOK, Used, Exclusive, Starter, Holds, Held, StartedBy, Lives, Lasts, Ending, TargetFree,
         OldIdsDead, Claims
    <3>4. NoneForgotten'
      <4>1. \A r \in Processes : Lives(r)' => Lives(r)
        BY <3>1, <2>2 DEF OwnedTypeOK, Used, Lives, Ending
      <4>2. \A r \in Processes, j \in SessionIds : Lives(r)' /\ ports[j] = r => \E k \in SessionIds : ports'[k] = r
        BY <3>1, <2>2 DEF OwnedTypeOK, Used, Lives, Lasts, Ending, ClaimsApart, Claims, Held, StartedBy
      <4>3. \A r \in Processes : Lives(r)' /\ StartedBy(r) => StartedBy(r)' \/ \E k \in SessionIds : ports'[k] = r
        BY <3>1, <2>2 DEF OwnedTypeOK, Used, Lives, Ending, StartedBy
      <4> QED
        BY <4>1, <4>2, <4>3, FoundStays, <3>1
    <3> QED
      BY <3>2, <3>3, <3>4, ClaimsShrink
  <2> QED
    BY <1>13, <2>1, <2>2 DEF Halt, Returns, Calls
<1>14. CASE Stopped(c)
  <2>1. NoNewClaims
    BY <1>14 DEF NoNewClaims, OwnedTypeOK, Used, Exclusive, Starter, Holds, Held, StartedBy, Lives, Lasts, Ending, Claims,
       Stopped, Returns, table
  <2>2. TargetFree'
    BY <1>14 DEF OwnedTypeOK, Used, Exclusive, Starter, Holds, Held, StartedBy, Lives, Lasts, Ending, TargetFree,
       OldIdsDead, Claims, Stopped, Returns, table
  <2>3. NoneForgotten'
    <3>1. \A r \in Processes : Lives(r)' => Lives(r)
      BY <1>14 DEF OwnedTypeOK, Used, Lives, Lasts, Ending, Stopped, Returns, table
    <3>2. ports' = ports /\ \A r \in Processes : Lives(r)' /\ StartedBy(r) => StartedBy(r)'
      BY <1>14 DEF OwnedTypeOK, Used, Lives, Lasts, Ending, StartedBy, Stopped, Returns, table
    <3> QED
      BY <1>14, <3>1, <3>2, FoundStays DEF Stopped, Returns, table
  <2> QED
    BY <2>1, <2>2, <2>3, ClaimsShrink
<1> QED
  BY <1>1, <1>2, <1>3, <1>4, <1>5, <1>6, <1>7, <1>8, <1>9, <1>10, <1>11, <1>12, <1>13, <1>14 DEF CallStep

\* So does what happens to the processes.
LEMMA ProcessesKeepTrack ==
  ASSUME ShapeInv, ~twice', FoundInv, NEW p \in Processes,
         AllStopped(p) \/ LogsOut(p) \/ Exits(p) \/ Reports(p) \/ Follows(p)
  PROVE  FoundInv'
<1> USE OwnedAssumption DEF ShapeInv, FoundInv, SessionIds, Processes
<1>1. CASE AllStopped(p)
  <2>1. NoNewClaims
    BY <1>1 DEF NoNewClaims, OwnedTypeOK, Used, Exclusive, Starter, Holds, Held, StartedBy, Lives, Lasts, Ending, Claims,
       AllStopped, table, calls
  <2>2. TargetFree'
    BY <1>1 DEF OwnedTypeOK, Used, Exclusive, Starter, Holds, Held, StartedBy, Lives, Lasts, Ending, TargetFree,
       OldIdsDead, Claims, AllStopped, table, calls
  <2>3. NoneForgotten'
    <3>1. \A r \in Processes : Lives(r)' => Lives(r)
      BY <1>1 DEF OwnedTypeOK, Used, Lives, Lasts, Ending, AllStopped, table, calls
    <3>2. ports' = ports /\ \A r \in Processes : Lives(r)' /\ StartedBy(r) => StartedBy(r)'
      BY <1>1 DEF OwnedTypeOK, Used, Lives, Lasts, Ending, StartedBy, AllStopped, table, calls
    <3> QED
      BY <1>1, <3>1, <3>2, FoundStays DEF AllStopped, table, calls
  <2> QED
    BY <2>1, <2>2, <2>3, ClaimsShrink
<1>2. CASE Exits(p)
  <2>1. NoNewClaims
    BY <1>2 DEF NoNewClaims, OwnedTypeOK, Used, Exclusive, Starter, Holds, Held, StartedBy, Lives, Lasts, Ending, Claims,
       Exits, table, calls
  <2>2. TargetFree'
    BY <1>2 DEF OwnedTypeOK, Used, Exclusive, Starter, Holds, Held, StartedBy, Lives, Lasts, Ending, TargetFree,
       OldIdsDead, Claims, Exits, table, calls
  <2>3. NoneForgotten'
    BY <1>2 DEF OwnedTypeOK, Used, Exclusive, Starter, Holds, Held, StartedBy, Lives, Lasts, Ending, NoneForgotten,
       ClaimsApart, Claims, Exits, table, calls
  <2> QED
    BY <2>1, <2>2, <2>3, ClaimsShrink
<1>3. CASE Reports(p)
  <2>1. CASE records[store[p]] = "none"
    <3>1. /\ process[p] \in {"up", "out", "lost"}
          /\ session[p] = store[p]
          /\ newest < MaxIds
          /\ newest' = newest + 1
          /\ session' = [session EXCEPT ![p] = newest + 1]
          /\ twice' = (twice \/ (store[p] \in starting /\ Lives(p) /\ ~StartedBy(p)))
          /\ UNCHANGED <<records, ports, starting, quitting, process, store, call, target, named, mine, fresh>>
      BY <1>3, <2>1 DEF Reports, Renamed, calls, OwnedTypeOK, Used, Lives, Lasts
    <3>2. \A r \in Processes : Held(r)' <=> Held(r)
      BY <3>1, <2>1 DEF Held, StartedBy, Lives, Lasts
    <3>3. \A k \in SessionIds : Claims(p, k)' => Claims(p, k) \/ k = newest + 1
      BY <3>1, <2>1, <3>2 DEF OwnedTypeOK, Used, Claims, Lives, Lasts
    <3>4. \A k \in SessionIds : Claims(p, k) => k # newest + 1
      BY <3>1, <2>1 DEF OwnedTypeOK, Used, Claims, Lives, Lasts
    <3>5. \A r \in Processes \ {p}, k \in SessionIds : Held(r)' /\ Claims(r, k)' => Claims(r, k) /\ session'[r] = session[r] /\ k # newest + 1
      BY <3>1, <2>1, <3>2 DEF OwnedTypeOK, Used, Held, StartedBy, Lives, Lasts, Claims
    <3>6. \A r \in Processes \ {p}, k \in SessionIds : Held(r) /\ Claims(r, k) => ~Claims(p, k)
      BY <3>1, <2>1 DEF ClaimsApart, Held, Lasts
    <3>7. \A k \in SessionIds : Claims(p, k) => k = store[p] \/ records[k] = "none"
      BY <3>1, <2>1 DEF OldIdsDead, Held, Lasts
    <3>8. \A k \in SessionIds : k # newest + 1 /\ (k = store[p] \/ records[k] = "none") => records'[k] = "none"
      BY <3>1, <2>1 DEF OwnedTypeOK
    <3>9. session'[p] = newest + 1
      BY <3>1, <2>1 DEF OwnedTypeOK
    <3>10. ClaimsApart' /\ OldIdsDead'
      BY <3>2, <3>3, <3>4, <3>5, <3>6, <3>7, <3>8, <3>9, ClaimsGrow
    <3>11. TargetFree'
      <4>1. \A d \in Tools : call'[d] \in {"popping", "replacing", "spawning"} => target[d] \in 1..newest /\ target'[d] = target[d] /\ call[d] = call'[d]
        BY <3>1, <2>1 DEF OwnedTypeOK, Used
      <4>2. \A d, e \in Tools : Starter(d)' /\ call'[e] \in {"popping", "replacing", "spawning"} => session'[mine'[d]] # target'[e]
        BY <4>1, <3>1, <2>1 DEF TargetFree, Starter, OwnedTypeOK, Used
      <4>3. \A e \in Tools : call'[e] \in {"replacing", "spawning"} /\ records'[target'[e]] # "none" => ~Lasts(ports[target[e]])'
        BY <4>1, <3>1, <2>1 DEF TargetFree, Lives, Lasts, OwnedTypeOK, Used
      <4> QED
        BY <4>2, <4>3 DEF TargetFree, Starter
    <3>12. NoneForgotten'
      <4>1. \A r \in Processes, k \in SessionIds : Lives(r)' /\ ports[k] = r => \E l \in SessionIds : ports'[l] = r
        <5>1. ASSUME NEW k \in SessionIds, ports[k] # 0 PROVE \E l \in SessionIds : ports'[l] = ports[k]
          <6>1. k # newest + 1 /\ newest + 1 \in SessionIds
            BY <5>1, <3>1, <2>1 DEF OwnedTypeOK, Used
          <6>2. CASE k = store[p]
            BY <6>1, <6>2, <3>1, <2>1 DEF OwnedTypeOK
          <6>3. CASE k # store[p]
            BY <6>1, <6>3, <3>1, <2>1 DEF OwnedTypeOK
          <6> QED
            BY <6>2, <6>3
        <5> QED
          BY <5>1, <3>1, <2>1 DEF OwnedTypeOK, Lives, Lasts
      <4>2. \A r \in Processes : Lives(r)' => Lives(r)
        BY <3>1, <2>1 DEF Lives, Lasts
      <4>3. \A r \in Processes : StartedBy(r) => StartedBy(r)'
        BY <3>1, <2>1 DEF StartedBy
      <4> QED
        BY <4>1, <4>2, <4>3, FoundStays, <3>1, <2>1
    <3> QED
      BY <3>10, <3>11, <3>12
  <2>2. CASE records[store[p]] # "none"
    <3>1. /\ process[p] \in {"up", "out", "lost"}
          /\ session[p] = store[p]
          /\ newest < MaxIds
          /\ newest' = newest + 1
          /\ session' = [session EXCEPT ![p] = newest + 1]
          /\ records' = [j \in SessionIds |-> IF j = newest + 1 THEN records[store[p]] ELSE IF j = store[p] THEN "none" ELSE records[j]]
          /\ ports' = [j \in SessionIds |-> IF j = newest + 1 THEN ports[store[p]] ELSE IF j = store[p] THEN 0 ELSE ports[j]]
          /\ twice' = (twice \/ (store[p] \in starting /\ Lives(p) /\ ~StartedBy(p)))
          /\ UNCHANGED <<starting, quitting, process, store, call, target, named, mine, fresh>>
      BY <1>3, <2>2 DEF Reports, Renamed, calls, OwnedTypeOK, Used, Lives, Lasts
    <3>2. \A r \in Processes : Held(r)' <=> Held(r)
      BY <3>1, <2>2 DEF Held, StartedBy, Lives, Lasts
    <3>3. \A k \in SessionIds : Claims(p, k)' => Claims(p, k) \/ k = newest + 1
      BY <3>1, <2>2, <3>2 DEF OwnedTypeOK, Used, Claims, Lives, Lasts
    <3>4. \A k \in SessionIds : Claims(p, k) => k # newest + 1
      BY <3>1, <2>2 DEF OwnedTypeOK, Used, Claims, Lives, Lasts
    <3>a. \A r \in Processes \ {p} : ports[store[p]] = r => ~Held(r)
      BY <3>1, <2>2 DEF ClaimsApart, Claims, Held, Lives, Lasts, OwnedTypeOK, Used
    <3>5. \A r \in Processes \ {p}, k \in SessionIds : Held(r)' /\ Claims(r, k)' => Claims(r, k) /\ session'[r] = session[r] /\ k # newest + 1
      BY <3>1, <2>2, <3>2, <3>a DEF OwnedTypeOK, Used, Held, StartedBy, Lives, Lasts, Claims
    <3>6. \A r \in Processes \ {p}, k \in SessionIds : Held(r) /\ Claims(r, k) => ~Claims(p, k)
      BY <3>1, <2>2 DEF ClaimsApart, Held, Lasts
    <3>7. \A k \in SessionIds : Claims(p, k) => k = store[p] \/ records[k] = "none"
      BY <3>1, <2>2 DEF OldIdsDead, Held, Lasts
    <3>8. \A k \in SessionIds : k # newest + 1 /\ (k = store[p] \/ records[k] = "none") => records'[k] = "none"
      BY <3>1, <2>2 DEF OwnedTypeOK
    <3>9. session'[p] = newest + 1
      BY <3>1, <2>2 DEF OwnedTypeOK
    <3>10. ClaimsApart' /\ OldIdsDead'
      BY <3>2, <3>3, <3>4, <3>5, <3>6, <3>7, <3>8, <3>9, ClaimsGrow
    <3>11. TargetFree'
      <4>1. \A d \in Tools : call'[d] \in {"popping", "replacing", "spawning"} => target[d] \in 1..newest /\ target'[d] = target[d] /\ call[d] = call'[d]
        BY <3>1, <2>2 DEF OwnedTypeOK, Used
      <4>2. \A d, e \in Tools : Starter(d)' /\ call'[e] \in {"popping", "replacing", "spawning"} => session'[mine'[d]] # target'[e]
        BY <4>1, <3>1, <2>2 DEF TargetFree, Starter, OwnedTypeOK, Used
      <4>3. \A e \in Tools : call'[e] \in {"replacing", "spawning"} /\ records'[target'[e]] # "none" => ~Lasts(ports[target[e]])'
        BY <4>1, <3>1, <2>2 DEF TargetFree, Lives, Lasts, OwnedTypeOK, Used
      <4> QED
        BY <4>2, <4>3 DEF TargetFree, Starter
    <3>12. NoneForgotten'
      <4>1. \A r \in Processes, k \in SessionIds : Lives(r)' /\ ports[k] = r => \E l \in SessionIds : ports'[l] = r
        <5>1. ASSUME NEW k \in SessionIds, ports[k] # 0 PROVE \E l \in SessionIds : ports'[l] = ports[k]
          <6>1. k # newest + 1 /\ newest + 1 \in SessionIds
            BY <5>1, <3>1, <2>2 DEF OwnedTypeOK, Used
          <6>2. CASE k = store[p]
            BY <6>1, <6>2, <3>1, <2>2 DEF OwnedTypeOK
          <6>3. CASE k # store[p]
            BY <6>1, <6>3, <3>1, <2>2 DEF OwnedTypeOK
          <6> QED
            BY <6>2, <6>3
        <5> QED
          BY <5>1, <3>1, <2>2 DEF OwnedTypeOK, Lives, Lasts
      <4>2. \A r \in Processes : Lives(r)' => Lives(r)
        BY <3>1, <2>2 DEF Lives, Lasts
      <4>3. \A r \in Processes : StartedBy(r) => StartedBy(r)'
        BY <3>1, <2>2 DEF StartedBy
      <4> QED
        BY <4>1, <4>2, <4>3, FoundStays, <3>1, <2>2
    <3> QED
      BY <3>10, <3>11, <3>12
  <2> QED
    BY <1>3, <2>1, <2>2 DEF Reports, Renamed, calls, OwnedTypeOK, Used, Lives, Lasts
<1>4. CASE Follows(p)
  <2>1. NoNewClaims
    BY <1>4 DEF NoNewClaims, OwnedTypeOK, Used, Exclusive, Starter, Holds, Held, StartedBy, Lives, Lasts, Ending, Claims,
       Follows, table, calls
  <2>2. TargetFree'
    BY <1>4 DEF OwnedTypeOK, Used, Exclusive, Starter, Holds, Held, StartedBy, Lives, Lasts, Ending, TargetFree,
       OldIdsDead, Claims, Follows, table, calls
  <2>3. NoneForgotten'
    BY <1>4 DEF OwnedTypeOK, Used, Exclusive, Starter, Holds, Held, StartedBy, Lives, Lasts, Ending, NoneForgotten,
       ClaimsApart, Claims, Follows, table, calls
  <2> QED
    BY <2>1, <2>2, <2>3, ClaimsShrink
<1>5. CASE LogsOut(p)
  <2>1. NoNewClaims
    BY <1>5 DEF OwnedTypeOK, NoNewClaims, Held, StartedBy, Claims, Up, Lasts, LogsOut, table, calls
  <2>2. TargetFree'
    BY <1>5 DEF OwnedTypeOK, TargetFree, Starter, Up, Lasts, LogsOut, table, calls
  <2>3. NoneForgotten'
    <3>1. \A r \in Processes : Lives(r)' => Lives(r)
      BY <1>5 DEF OwnedTypeOK, Up, Lives, LogsOut
    <3>2. ports' = ports /\ \A r \in Processes : StartedBy(r) => StartedBy(r)'
      BY <1>5 DEF StartedBy, LogsOut, table, calls
    <3> QED
      BY <1>5, <3>1, <3>2, FoundStays DEF LogsOut, table, calls
  <2> QED
    BY <2>1, <2>2, <2>3, ClaimsShrink
<1> QED
  BY <1>1, <1>2, <1>3, <1>4, <1>5

\* And quit.
LEMMA StopAllKeepsTrack ==
  ASSUME ShapeInv, ~twice', FoundInv, StopAll
  PROVE  FoundInv'
  BY DEF StopAll, ShapeInv, FoundInv, OwnedTypeOK, Used, Exclusive, Holds, Starter, Held, StartedBy, Lives, Lasts, Claims,
     ClaimsApart, OldIdsDead, TargetFree, NoneForgotten, SessionIds, Processes, calls

\* A set is at most as large as one whose image covers it.
LEMMA Covered ==
  ASSUME NEW S, IsFiniteSet(S), NEW T, NEW U, NEW f \in [S -> U], \A x \in T : \E s \in S : f[s] = x
  PROVE  IsFiniteSet(T) /\ Cardinality(T) <= Cardinality(S)
<1> DEFINE g == [x \in T |-> CHOOSE s \in S : f[s] = x]
<1>1. \A x \in T : g[x] \in S /\ f[g[x]] = x
  OBVIOUS
<1>2. g \in Injection(T, S)
  BY <1>1 DEF Injection, IsInjective
<1> QED
  BY <1>2, FS_Injection

\* Ids and processes are finite, so what is drawn from them can be counted.
LEMMA IdsFinite == IsFiniteSet(SessionIds) /\ IsFiniteSet(Processes)
  BY OwnedAssumption, FS_Interval DEF SessionIds, Processes

\* The two sets that Slots adds up, now ...
LEMMA Countable ==
  ASSUME OwnedTypeOK
  PROVE  /\ IsFiniteSet(starting) /\ Cardinality(starting) \in Nat
         /\ IsFiniteSet(Free) /\ Cardinality(Free) \in Nat
  BY IdsFinite, FS_Subset, FS_CardinalityType DEF OwnedTypeOK, Free

\* What is already known of the next state.
SoundNext == OwnedTypeOK' /\ NoneForgotten'

\* ... and after a step.
LEMMA CountableNext ==
  ASSUME SoundNext
  PROVE  /\ IsFiniteSet(starting') /\ Cardinality(starting') \in Nat
         /\ IsFiniteSet(Free') /\ Cardinality(Free') \in Nat
  BY IdsFinite, FS_Subset, FS_CardinalityType DEF SoundNext, OwnedTypeOK, Free

\* The call that holds a conversation has its slot.
LEMMA HolderHasSlot ==
  ASSUME OwnedTypeOK, NEW c \in Tools, Holds(c)
  PROVE  target[c] \in starting
  BY DEF OwnedTypeOK, Holds

\* What starts is paid for, and what was paid for is still or does not run any more.
StillPaid ==
  /\ \A p \in Processes : Up(p)' => Up(p) \/ \E d \in Tools : Pays(d, p)'
  /\ \A p \in Processes, d \in Tools : Up(p)' /\ Pays(d, p) => \E e \in Tools : Pays(e, p)'

\* A step that neither takes nor gives back a slot.
LEMMA SlotsStay ==
  ASSUME OwnedTypeOK, SoundNext, Slots, StillPaid, starting' = starting
  PROVE  Slots'
<1>1. Free' \subseteq Free
  BY DEF StillPaid, Free
<1>2. Cardinality(Free') <= Cardinality(Free)
  BY <1>1, Countable, FS_Subset
<1> QED
  BY <1>2, Countable, CountableNext, OwnedAssumption DEF Slots

\* A slot is only taken while it leaves room for those that run without one.
LEMMA SlotTaken ==
  ASSUME OwnedTypeOK, SoundNext, ~twice', NEW i \in SessionIds,
         Reservable(i), starting' = starting \cup {i}, process' = process, ports' = ports,
         \A p \in Processes : p \in Free' => ports[i] # p /\ ~StartedBy(p)'
  PROVE  Slots'
<1>1. IsFiniteSet(Running(i)) /\ Cardinality(Running(i)) \in Nat
  BY IdsFinite, FS_Subset, FS_CardinalityType DEF Running
<1>2. \A p \in Free' : \E j \in Running(i) : ports[j] = p
  BY DEF SoundNext, Free, NoneForgotten, Running, Up, Lives, Lasts, OwnedTypeOK
<1> DEFINE f == [j \in Running(i) |-> ports[j]]
<1>3. f \in [Running(i) -> Processes \cup {0}] /\ \A p \in Free' : \E j \in Running(i) : f[j] = p
  BY <1>2 DEF Running, OwnedTypeOK
<1> HIDE DEF f
<1>4. Cardinality(Free') <= Cardinality(Running(i))
  BY <1>1, <1>3, Covered
<1>5. Cardinality(starting') = Cardinality(starting) + 1
  BY Countable, FS_AddElement DEF Reservable
<1> QED
  BY <1>1, <1>4, <1>5, Countable, CountableNext, OwnedAssumption DEF Slots, Reservable

\* Unless a conversation is held twice, every step of a call keeps within the limit.
LEMMA CallsKeepSlots ==
  ASSUME ShapeInv, FoundInv, Slots, SoundNext, ~twice', NEW c \in Tools, NEW i \in SessionIds,
         Start(c) \/ CallStep(c) \/ Send(c, i) \/ StopOne(c, i)
  PROVE  Slots'
<1> USE OwnedAssumption DEF ShapeInv, FoundInv, SessionIds, Processes
<1>1. CASE Start(c)
  <2>1. /\ call[c] = "idle"
        /\ newest < MaxIds
        /\ newest' = newest + 1
        /\ call' = [call EXCEPT ![c] = "spawning"]
        /\ target' = [target EXCEPT ![c] = newest + 1]
        /\ mine' = [mine EXCEPT ![c] = 0]
        /\ starting' = starting \cup {newest + 1}
        /\ records' = [records EXCEPT ![newest + 1] = "active"]
        /\ fresh' = fresh \cup {c}
        /\ UNCHANGED <<ports, quitting, process, session, store, named, twice>>
    BY <1>1 DEF Start, Reservable, Calls, processes
  <2>2. \A r \in Processes : r \in Free' => ports[newest + 1] # r /\ ~StartedBy(r)'
    BY <2>1 DEF Free, Pays, Up, Lives, Lasts, StartedBy, OwnedTypeOK, Used
  <2>3. newest + 1 \in SessionIds
    BY <2>1 DEF OwnedTypeOK, Used
  <2>4. Reservable(newest + 1)
    BY <2>1, <1>1 DEF Start
  <2> QED
    BY <2>1, <2>2, <2>3, <2>4, SlotTaken
<1>2. CASE Send(c, i)
  <2>1. StillPaid
    BY <1>2 DEF StillPaid, OwnedTypeOK, Used, Exclusive, Starter, Holds, Up, Lives, Lasts, Ending, Pays, Send, Calls, table,
       processes
  <2> QED
    BY <1>2, <2>1, SlotsStay DEF Send, Calls, table, processes
<1>3. CASE Reserve(c)
  <2>1. CASE Reservable(target[c])
    <3>1. /\ call[c] = "reserving"
          /\ target[c] \notin starting
          /\ call' = [call EXCEPT ![c] = "popping"]
          /\ starting' = starting \cup {target[c]}
          /\ twice' = (twice \/ \E p \in Processes : StartedBy(p) /\ session[p] = target[c])
          /\ UNCHANGED <<newest, records, ports, quitting, process, session, store, target, named, mine, fresh>>
      BY <1>3, <2>1 DEF Reserve, Reservable, Returns, Calls, processes
    <3>2. \A r \in Processes : r \in Free' => ports[target[c]] # r /\ ~StartedBy(r)'
      BY <3>1, <2>1 DEF Free, Pays, Up, Lives, Lasts, StartedBy, OwnedTypeOK, Used
    <3>3. target[c] \in SessionIds
      BY <3>1, <2>1 DEF OwnedTypeOK, Used
    <3>4. Reservable(target[c])
      BY <3>1, <2>1
    <3> QED
      BY <3>1, <2>1, <3>2, <3>3, <3>4, SlotTaken
  <2>2. CASE ~Reservable(target[c])
    <3>1. /\ call[c] = "reserving"
          /\ call' = [call EXCEPT ![c] = "idle"]
          /\ target' = [target EXCEPT ![c] = 0]
          /\ named' = [named EXCEPT ![c] = 0]
          /\ mine' = [mine EXCEPT ![c] = 0]
          /\ fresh' = fresh \ {c}
          /\ UNCHANGED <<newest, records, ports, starting, quitting, process, session, store, twice>>
      BY <1>3, <2>2 DEF Reserve, Reservable, Returns, Calls, processes
    <3>2. StillPaid
      BY <3>1, <2>2 DEF StillPaid, OwnedTypeOK, Used, Exclusive, Starter, Holds, Up, Lives, Lasts, Ending, Pays
    <3> QED
      BY <3>1, <2>2, <3>2, SlotsStay
  <2> QED
    BY <1>3, <2>1, <2>2 DEF Reserve, Reservable, Returns, Calls, processes
<1>4. CASE Pop(c)
  <2>1. CASE ports[target[c]] = 0
    <3>1. /\ call[c] = "popping"
          /\ call' = [call EXCEPT ![c] = "spawning"]
          /\ mine' = [mine EXCEPT ![c] = ports[target[c]]]
          /\ process' = Ending(ports[target[c]])
          /\ ports' = [ports EXCEPT ![target[c]] = 0]
          /\ records' = [records EXCEPT ![target[c]] = IF @ = "none" THEN @ ELSE "active"]
          /\ UNCHANGED <<newest, starting, quitting, session, store, target, named, fresh, twice>>
      BY <1>4, <2>1 DEF Pop, Calls
    <3>2. StillPaid
      BY <3>1, <2>1 DEF StillPaid, OwnedTypeOK, Used, Exclusive, Starter, Holds, Up, Lives, Lasts, Ending, Pays
    <3> QED
      BY <3>1, <2>1, <3>2, SlotsStay
  <2>2. CASE ports[target[c]] # 0
    <3>1. /\ call[c] = "popping"
          /\ call' = [call EXCEPT ![c] = "replacing"]
          /\ mine' = [mine EXCEPT ![c] = ports[target[c]]]
          /\ process' = Ending(ports[target[c]])
          /\ ports' = [ports EXCEPT ![target[c]] = 0]
          /\ records' = [records EXCEPT ![target[c]] = IF @ = "none" THEN @ ELSE "active"]
          /\ UNCHANGED <<newest, starting, quitting, session, store, target, named, fresh, twice>>
      BY <1>4, <2>2 DEF Pop, Calls
    <3>2. StillPaid
      <4>1. \A r \in Processes : Up(r)' => Up(r)
        BY <3>1, <2>2 DEF OwnedTypeOK, Up, Lives, Ending
      <4>2. \A r \in Processes : Up(r)' => ports[target[c]] # r
        BY <3>1, <2>2 DEF OwnedTypeOK, Used, Up, Lives, Ending
      <4>3. \A r \in Processes, d \in Tools : Up(r)' /\ Pays(d, r) => Pays(d, r)'
        BY <4>2, <3>1, <2>2 DEF OwnedTypeOK, Used, Exclusive, Holds, Pays
      <4> QED
        BY <4>1, <4>3 DEF StillPaid
    <3> QED
      BY <3>1, <2>2, <3>2, SlotsStay
  <2> QED
    BY <1>4, <2>1, <2>2 DEF Pop, Calls
<1>5. CASE Replace(c)
  <2>1. StillPaid
    BY <1>5 DEF StillPaid, OwnedTypeOK, Used, Exclusive, Starter, Holds, Up, Lives, Lasts, Ending, Pays, Replace, StopMine,
       Calls, table
  <2> QED
    BY <1>5, <2>1, SlotsStay DEF Replace, StopMine, Calls, table
<1>6. CASE Spawn(c)
  <2> PICK q \in Processes :
            IF records[target[c]] # "none" /\ ~Owned(target[c])
            THEN Spawned(c, q, target[c]) /\ UNCHANGED <<newest, records, ports>>
            ELSE /\ newest < MaxIds /\ newest' = newest + 1
                 /\ Renamed(target[c], newest') /\ Spawned(c, q, newest')
      BY <1>6 DEF Spawn
  <2>1. CASE records[target[c]] # "none" /\ ~Owned(target[c])
    <3>1. /\ call[c] = "spawning"
          /\ process[q] = "new"
          /\ process' = [process EXCEPT ![q] = "up"]
          /\ call' = [call EXCEPT ![c] = "naming"]
          /\ mine' = [mine EXCEPT ![c] = q]
          /\ session' = [session EXCEPT ![q] = target[c]]
          /\ store' = [store EXCEPT ![q] = target[c]]
          /\ UNCHANGED <<newest, records, ports, starting, quitting, target, named, fresh, twice>>
      BY <1>6, <2>1 DEF Spawned, Renamed, Calls, OwnedTypeOK, Used
    <3>2. StillPaid
      BY <3>1, <2>1 DEF StillPaid, OwnedTypeOK, Used, Exclusive, Starter, Holds, Up, Lives, Lasts, Ending, Pays
    <3> QED
      BY <3>1, <2>1, <3>2, SlotsStay
  <2>2. CASE records[target[c]] = "none"
    <3>1. /\ call[c] = "spawning"
          /\ process[q] = "new"
          /\ newest < MaxIds
          /\ process' = [process EXCEPT ![q] = "up"]
          /\ call' = [call EXCEPT ![c] = "naming"]
          /\ mine' = [mine EXCEPT ![c] = q]
          /\ session' = [session EXCEPT ![q] = (newest + 1)]
          /\ store' = [store EXCEPT ![q] = (newest + 1)]
          /\ newest' = newest + 1
          /\ UNCHANGED <<records, ports, starting, quitting, target, named, fresh, twice>>
      BY <1>6, <2>2 DEF Spawned, Renamed, Calls, OwnedTypeOK, Used
    <3>2. StillPaid
      BY <3>1, <2>2 DEF StillPaid, OwnedTypeOK, Used, Exclusive, Starter, Holds, Up, Lives, Lasts, Ending, Pays
    <3> QED
      BY <3>1, <2>2, <3>2, SlotsStay
  <2>3. CASE records[target[c]] # "none" /\ Owned(target[c])
    <3>1. /\ call[c] = "spawning"
          /\ process[q] = "new"
          /\ newest < MaxIds
          /\ process' = [process EXCEPT ![q] = "up"]
          /\ call' = [call EXCEPT ![c] = "naming"]
          /\ mine' = [mine EXCEPT ![c] = q]
          /\ session' = [session EXCEPT ![q] = (newest + 1)]
          /\ store' = [store EXCEPT ![q] = (newest + 1)]
          /\ newest' = newest + 1
          /\ records' = [j \in SessionIds |-> IF j = newest + 1 THEN records[target[c]] ELSE IF j = target[c] THEN "none" ELSE records[j]]
          /\ ports' = [j \in SessionIds |-> IF j = newest + 1 THEN ports[target[c]] ELSE IF j = target[c] THEN 0 ELSE ports[j]]
          /\ UNCHANGED <<starting, quitting, target, named, fresh, twice>>
      BY <1>6, <2>3 DEF Spawned, Renamed, Calls, OwnedTypeOK, Used
    <3>2. \A d \in Tools : call'[d] = "popping" => d # c /\ call[d] = "popping" /\ target'[d] = target[d] /\ ports'[target[d]] = ports[target[d]]
      <4>1. \A d \in Tools : call'[d] = "popping" => d # c /\ call[d] = "popping" /\ target'[d] = target[d] /\ Holds(d) /\ Holds(c)
        BY <3>1, <2>3 DEF Holds, OwnedTypeOK
      <4>2. \A d \in Tools : call'[d] = "popping" => target[d] # target[c] /\ target[d] \in 1..newest
        BY <4>1 DEF Exclusive, Holds, Used
      <4> QED
        BY <3>1, <2>3, <4>1, <4>2 DEF OwnedTypeOK
    <3>3. \A d \in Tools : Starter(d) => d # c /\ mine'[d] = mine[d] /\ call'[d] = call[d]
      BY <3>1, <2>3 DEF Starter, OwnedTypeOK
    <3>4. StillPaid
      <4>1. \A r \in Processes : Up(r)' => Up(r) \/ Pays(c, r)'
        BY <3>1, <2>3 DEF Up, Lives, Lasts, Pays, OwnedTypeOK
      <4>3. \A d \in Tools : call[d] = "popping" => call'[d] = "popping" /\ target'[d] = target[d] /\ ports'[target[d]] = ports[target[d]]
        BY <3>1, <2>3, <3>2 DEF OwnedTypeOK
      <4>2. \A r \in Processes, d \in Tools : Up(r)' /\ Pays(d, r) => Pays(d, r)'
        <5> SUFFICES ASSUME NEW r \in Processes, NEW d \in Tools, Pays(d, r) PROVE Pays(d, r)'
          OBVIOUS
        <5>1. CASE call[d] = "popping"
          BY <3>1, <2>3, <5>1, <4>3 DEF Pays
        <5>2. CASE call[d] # "popping"
          BY <3>1, <2>3, <5>2 DEF OwnedTypeOK, Pays
        <5> QED
          BY <5>1, <5>2
      <4> QED
        BY <4>1, <4>2 DEF StillPaid
    <3> QED
      BY <3>1, <2>3, <3>4, SlotsStay
  <2> QED
    BY <1>6, <2>1, <2>2, <2>3 DEF Spawned, Renamed, Calls, OwnedTypeOK, Used
<1>7. CASE SpawnFails(c)
  <2>1. CASE call[c] = "spawning"
    <3>1. /\ call' = [call EXCEPT ![c] = "failing"]
          /\ UNCHANGED <<newest, records, ports, starting, quitting, process, session, store, target, named, mine, fresh, twice>>
      BY <1>7, <2>1 DEF SpawnFails, Calls, table, processes
    <3>2. StillPaid
      BY <3>1, <2>1 DEF StillPaid, OwnedTypeOK, Used, Exclusive, Starter, Holds, Up, Lives, Lasts, Ending, Pays
    <3> QED
      BY <3>1, <2>1, <3>2, SlotsStay
  <2>2. CASE call[c] = "naming" /\ process[mine[c]] = "down"
    <3>1. /\ process[mine[c]] = "down"
          /\ call' = [call EXCEPT ![c] = "failing"]
          /\ UNCHANGED <<newest, records, ports, starting, quitting, process, session, store, target, named, mine, fresh, twice>>
      BY <1>7, <2>2 DEF SpawnFails, Calls, table, processes
    <3>2. StillPaid
      BY <3>1, <2>2 DEF StillPaid, OwnedTypeOK, Used, Exclusive, Starter, Holds, Up, Lives, Lasts, Ending, Pays
    <3> QED
      BY <3>1, <2>2, <3>2, SlotsStay
  <2>3. CASE call[c] = "naming" /\ process[mine[c]] = "out"
    <3>1. /\ process[mine[c]] = "out"
          /\ call' = [call EXCEPT ![c] = "failing"]
          /\ process' = [process EXCEPT ![mine[c]] = "lost"]
          /\ UNCHANGED <<newest, records, ports, starting, quitting, session, store, target, named, mine, fresh, twice>>
      BY <1>7, <2>3 DEF SpawnFails, Calls, table, processes
    <3>2. StillPaid
      BY <3>1, <2>3 DEF StillPaid, OwnedTypeOK, Used, Exclusive, Starter, Holds, Up, Lives, Lasts, Ending, Pays
    <3> QED
      BY <3>1, <2>3, <3>2, SlotsStay
  <2> QED
    BY <1>7, <2>1, <2>2, <2>3 DEF SpawnFails, Calls, table, processes
<1>8. CASE Name(c)
  <2>1. StillPaid
    BY <1>8 DEF StillPaid, OwnedTypeOK, Used, Exclusive, Starter, Holds, Up, Lives, Lasts, Ending, Pays, Name, Calls, table,
       processes
  <2> QED
    BY <1>8, <2>1, SlotsStay DEF Name, Calls, table, processes
<1>9. CASE Register(c)
  <2>1. CASE quitting
    <3>1. /\ call[c] = "registering"
          /\ call' = [call EXCEPT ![c] = "dropping"]
          /\ process' = Ending(mine[c])
          /\ UNCHANGED <<newest, records, ports, starting, quitting, session, store, target, named, mine, fresh, twice>>
      BY <1>9, <2>1 DEF Register, Calls
    <3>2. StillPaid
      BY <3>1, <2>1 DEF StillPaid, OwnedTypeOK, Used, Exclusive, Starter, Holds, Up, Lives, Lasts, Ending, Pays
    <3> QED
      BY <3>1, <2>1, <3>2, SlotsStay
  <2>2. CASE ~quitting
    <3>1. /\ call[c] = "registering"
          /\ call' = [call EXCEPT ![c] = "releasing"]
          /\ ports' = [ports EXCEPT ![named[c]] = mine[c]]
          /\ UNCHANGED <<newest, records, starting, quitting, process, session, store, target, named, mine, fresh, twice>>
      BY <1>9, <2>2 DEF Register, Calls
    <3>2. \A r \in Processes : ports[named[c]] = r => ~Up(r)
      <4> SUFFICES ASSUME NEW r \in Processes, ports[named[c]] = r, Up(r) PROVE FALSE
        OBVIOUS
      <4>1. named[c] \in SessionIds /\ mine[c] \in Processes /\ Starter(c)
        BY <3>1, <2>2 DEF OwnedTypeOK, Used, Starter
      <4>2. Held(r) /\ Held(mine[c]) /\ Claims(r, named[c]) /\ Claims(mine[c], named[c])
        BY <3>1, <2>2, <4>1 DEF Held, StartedBy, Claims, Up, Lasts, Starter
      <4>3. r = mine[c]
        BY <4>1, <4>2 DEF ClaimsApart
      <4> QED
        BY <4>1, <4>3 DEF Exclusive
    <3>3. StillPaid
      <4>1. \A r \in Processes : Up(r)' => Up(r)
        BY <3>1, <2>2 DEF Up
      <4>2. \A r \in Processes, d \in Tools : Up(r)' /\ Pays(d, r) => Pays(d, r)'
        BY <3>1, <2>2, <3>2 DEF OwnedTypeOK, Used, Pays, Up
      <4> QED
        BY <4>1, <4>2 DEF StillPaid
    <3> QED
      BY <3>1, <2>2, <3>3, SlotsStay
  <2> QED
    BY <1>9, <2>1, <2>2 DEF Register, Calls
<1>10. CASE DropChild(c)
  <2>1. StillPaid
    BY <1>10 DEF StillPaid, OwnedTypeOK, Used, Exclusive, Starter, Holds, Up, Lives, Lasts, Ending, Pays, DropChild, StopMine,
       Calls, table
  <2> QED
    BY <1>10, <2>1, SlotsStay DEF DropChild, StopMine, Calls, table
<1>11. CASE Release(c)
  <2>1. /\ call[c] \in {"releasing", "failing"}
        /\ call' = [call EXCEPT ![c] = "idle"]
        /\ target' = [target EXCEPT ![c] = 0]
        /\ named' = [named EXCEPT ![c] = 0]
        /\ mine' = [mine EXCEPT ![c] = 0]
        /\ fresh' = fresh \ {c}
        /\ starting' = starting \ {target[c]}
        /\ records' = IF call[c] = "failing" /\ c \in fresh THEN [records EXCEPT ![target[c]] = "none"] ELSE records
        /\ UNCHANGED <<newest, ports, quitting, process, session, store, twice>>
    BY <1>11 DEF Release, Returns, processes
  <2>2. Free' \subseteq Free \cup {mine[c]} /\ (call[c] = "failing" => Free' \subseteq Free)
    BY <2>1 DEF Free, Pays, Up, Lives, Lasts, OwnedTypeOK
  <2>3. target[c] \in starting
    BY <2>1, HolderHasSlot DEF Holds
  <2>4. Cardinality(starting') = Cardinality(starting) - 1
    BY <2>1, <2>3, Countable, FS_RemoveElement
  <2>5. Cardinality(Free') <= Cardinality(Free) + 1
    <3>1. IsFiniteSet(Free \cup {mine[c]}) /\ Cardinality(Free \cup {mine[c]}) <= Cardinality(Free) + 1
      <4>1. Cardinality(Free \cup {mine[c]}) = IF mine[c] \in Free THEN Cardinality(Free) ELSE Cardinality(Free) + 1
        BY Countable, FS_AddElement
      <4> QED
        BY <4>1, Countable, FS_AddElement
    <3>2. Cardinality(Free \cup {mine[c]}) \in Nat
      BY <3>1, FS_CardinalityType
    <3>3. Cardinality(Free') <= Cardinality(Free \cup {mine[c]})
      BY <2>2, <3>1, FS_Subset
    <3> QED
      BY <3>1, <3>2, <3>3, Countable, CountableNext
  <2> QED
    BY <2>1, <2>4, <2>5, Countable, CountableNext, OwnedAssumption DEF Slots
<1>12. CASE StopOne(c, i)
  <2>1. StillPaid
    BY <1>12 DEF StillPaid, OwnedTypeOK, Used, Exclusive, Starter, Holds, Up, Lives, Lasts, Ending, Pays, StopOne, Calls,
       table, processes
  <2> QED
    BY <1>12, <2>1, SlotsStay DEF StopOne, Calls, table, processes
<1>13. CASE Halt(c)
  <2>1. CASE ports[target[c]] = 0
    <3>1. /\ call[c] = "halting"
          /\ call' = [call EXCEPT ![c] = "idle"]
          /\ target' = [target EXCEPT ![c] = 0]
          /\ named' = [named EXCEPT ![c] = 0]
          /\ mine' = [mine EXCEPT ![c] = 0]
          /\ fresh' = fresh \ {c}
          /\ records' = [records EXCEPT ![target[c]] = IF @ = "none" THEN @ ELSE "inactive"]
          /\ ports' = [ports EXCEPT ![target[c]] = 0]
          /\ process' = Ending(ports[target[c]])
          /\ UNCHANGED <<newest, starting, quitting, session, store, twice>>
      BY <1>13, <2>1 DEF Halt, Returns, Calls
    <3>2. StillPaid
      BY <3>1, <2>1 DEF StillPaid, OwnedTypeOK, Used, Exclusive, Starter, Holds, Up, Lives, Lasts, Ending, Pays
    <3> QED
      BY <3>1, <2>1, <3>2, SlotsStay
  <2>2. CASE ports[target[c]] # 0
    <3>1. /\ call[c] = "halting"
          /\ call' = [call EXCEPT ![c] = "stopping"]
          /\ mine' = [mine EXCEPT ![c] = ports[target[c]]]
          /\ records' = [records EXCEPT ![target[c]] = IF @ = "none" THEN @ ELSE "inactive"]
          /\ ports' = [ports EXCEPT ![target[c]] = 0]
          /\ process' = Ending(ports[target[c]])
          /\ UNCHANGED <<newest, starting, quitting, session, store, target, named, fresh, twice>>
      BY <1>13, <2>2 DEF Halt, Returns, Calls
    <3>2. StillPaid
      BY <3>1, <2>2 DEF StillPaid, OwnedTypeOK, Used, Exclusive, Starter, Holds, Up, Lives, Lasts, Ending, Pays
    <3> QED
      BY <3>1, <2>2, <3>2, SlotsStay
  <2> QED
    BY <1>13, <2>1, <2>2 DEF Halt, Returns, Calls
<1>14. CASE Stopped(c)
  <2>1. StillPaid
    BY <1>14 DEF StillPaid, OwnedTypeOK, Used, Exclusive, Starter, Holds, Up, Lives, Lasts, Ending, Pays, Stopped, Returns,
       table
  <2> QED
    BY <1>14, <2>1, SlotsStay DEF Stopped, Returns, table
<1> QED
  BY <1>1, <1>2, <1>3, <1>4, <1>5, <1>6, <1>7, <1>8, <1>9, <1>10, <1>11, <1>12, <1>13, <1>14 DEF CallStep

\* So does what happens to the processes.
LEMMA ProcessesKeepSlots ==
  ASSUME ShapeInv, FoundInv, Slots, SoundNext, ~twice', NEW p \in Processes,
         AllStopped(p) \/ LogsOut(p) \/ Exits(p) \/ Reports(p) \/ Follows(p)
  PROVE  Slots'
<1> USE OwnedAssumption DEF ShapeInv, FoundInv, SessionIds, Processes
<1>1. CASE AllStopped(p)
  <2>1. StillPaid
    BY <1>1 DEF StillPaid, OwnedTypeOK, Used, Exclusive, Starter, Holds, Up, Lives, Lasts, Ending, Pays, AllStopped, table,
       calls
  <2> QED
    BY <1>1, <2>1, SlotsStay DEF AllStopped, table, calls
<1>2. CASE Exits(p)
  <2>1. StillPaid
    BY <1>2 DEF StillPaid, OwnedTypeOK, Used, Exclusive, Starter, Holds, Up, Lives, Lasts, Ending, Pays, Exits, table, calls
  <2> QED
    BY <1>2, <2>1, SlotsStay DEF Exits, table, calls
<1>3. CASE Reports(p)
  <2>1. CASE records[store[p]] = "none"
    <3>1. /\ process[p] \in {"up", "out", "lost"}
          /\ session[p] = store[p]
          /\ newest < MaxIds
          /\ newest' = newest + 1
          /\ session' = [session EXCEPT ![p] = newest + 1]
          /\ twice' = (twice \/ (store[p] \in starting /\ Lives(p) /\ ~StartedBy(p)))
          /\ UNCHANGED <<records, ports, starting, quitting, process, store, call, target, named, mine, fresh>>
      BY <1>3, <2>1 DEF Reports, Renamed, calls, OwnedTypeOK, Used, Lives
    <3>2. StillPaid
      BY <3>1, <2>1 DEF StillPaid, OwnedTypeOK, Used, Exclusive, Starter, Holds, Up, Lives, Lasts, Ending, Pays
    <3> QED
      BY <3>1, <2>1, <3>2, SlotsStay
  <2>2. CASE records[store[p]] # "none"
    <3>1. /\ process[p] \in {"up", "out", "lost"}
          /\ session[p] = store[p]
          /\ newest < MaxIds
          /\ newest' = newest + 1
          /\ session' = [session EXCEPT ![p] = newest + 1]
          /\ records' = [j \in SessionIds |-> IF j = newest + 1 THEN records[store[p]] ELSE IF j = store[p] THEN "none" ELSE records[j]]
          /\ ports' = [j \in SessionIds |-> IF j = newest + 1 THEN ports[store[p]] ELSE IF j = store[p] THEN 0 ELSE ports[j]]
          /\ twice' = (twice \/ (store[p] \in starting /\ Lives(p) /\ ~StartedBy(p)))
          /\ UNCHANGED <<starting, quitting, process, store, call, target, named, mine, fresh>>
      BY <1>3, <2>2 DEF Reports, Renamed, calls, OwnedTypeOK, Used, Lives
    <3>2. \A d \in Tools, r \in Processes : call[d] = "popping" /\ target[d] = store[p] /\ ports[store[p]] = r => ~Up(r)
      <4> SUFFICES ASSUME NEW d \in Tools, NEW r \in Processes, call[d] = "popping", target[d] = store[p],
                          ports[store[p]] = r, Up(r)
                   PROVE  FALSE
        OBVIOUS
      <4>1. r = p
        BY <3>1, <2>2 DEF ClaimsApart, Claims, Held, Lasts, OwnedTypeOK, Used, Up
      <4>2. ~StartedBy(p)
        BY <3>1, <2>2, <4>1 DEF Exclusive, Starter, StartedBy, OwnedTypeOK, Used
      <4>3. store[p] \in starting
        BY HolderHasSlot DEF Holds
      <4> QED
        BY <3>1, <2>2, <4>1, <4>2, <4>3 DEF Up, Lives
    <3>3. StillPaid
      <4>1. \A r \in Processes : Up(r)' => Up(r)
        BY <3>1, <2>2 DEF Up
      <4>2. \A r \in Processes, d \in Tools : Up(r)' /\ Pays(d, r) => Pays(d, r)'
        <5> SUFFICES ASSUME NEW r \in Processes, NEW d \in Tools, Up(r), Pays(d, r) PROVE Pays(d, r)'
          BY <4>1
        <5>1. call[d] = "popping" => target[d] \in 1..newest /\ target[d] # store[p]
          BY <3>2 DEF Pays, Used
        <5>2. call[d] = "popping" => ports'[target[d]] = ports[target[d]]
          BY <3>1, <2>2, <5>1 DEF OwnedTypeOK
        <5> QED
          BY <3>1, <2>2, <5>2 DEF Pays
      <4> QED
        BY <4>1, <4>2 DEF StillPaid
    <3> QED
      BY <3>1, <2>2, <3>3, SlotsStay
  <2> QED
    BY <1>3, <2>1, <2>2 DEF Reports, Renamed, calls, OwnedTypeOK, Used, Lives
<1>4. CASE Follows(p)
  <2>1. StillPaid
    BY <1>4 DEF StillPaid, OwnedTypeOK, Used, Exclusive, Starter, Holds, Up, Lives, Lasts, Ending, Pays, Follows, table, calls
  <2> QED
    BY <1>4, <2>1, SlotsStay DEF Follows, table, calls
<1>5. CASE LogsOut(p)
  <2>1. StillPaid
    BY <1>5 DEF StillPaid, OwnedTypeOK, Used, Exclusive, Starter, Holds, Up, Lives, Lasts, Ending, Pays, LogsOut, table, calls
  <2> QED
    BY <1>5, <2>1, SlotsStay DEF LogsOut, table, calls
<1> QED
  BY <1>1, <1>2, <1>3, <1>4, <1>5

\* And quit.
LEMMA StopAllKeepsSlots ==
  ASSUME ShapeInv, FoundInv, Slots, SoundNext, ~twice', StopAll
  PROVE  Slots'
<1> USE OwnedAssumption DEF ShapeInv, FoundInv, SessionIds, Processes
<1>1. StillPaid
  BY DEF StopAll, StillPaid, OwnedTypeOK, Used, Up, Lives, Lasts, Pays, calls
<1> QED
  BY <1>1, SlotsStay DEF StopAll

\* Each slot pays for at most one process, so all that run are within the limit.
LEMMA RunningWithinLimit ==
  ASSUME ShapeInv, Slots
  PROVE  Cardinality({p \in Processes : Up(p)}) <= Limit
<1> USE DEF ShapeInv
<1> DEFINE Paid == {p \in Processes : Up(p) /\ \E c \in Tools : Pays(c, p)}
<1> DEFINE PaidFor(i, p) == \E c \in Tools : Holds(c) /\ target[c] = i /\ Pays(c, p)
<1> DEFINE f == [i \in starting |-> CHOOSE p \in Processes : PaidFor(i, p)]
<1>1. \A p \in Processes, c \in Tools : Pays(c, p) => Holds(c) /\ target[c] \in starting
  BY DEF Pays, Holds, OwnedTypeOK
<1>2. \A p, q \in Processes, i \in starting : PaidFor(i, p) /\ PaidFor(i, q) => p = q
  BY DEF Exclusive, Pays
<1>3. \A p \in Paid : \E i \in starting : PaidFor(i, p)
  BY <1>1
<1>4. f \in [starting -> {f[i] : i \in starting}]
  OBVIOUS
<1>5. \A p \in Paid : \E i \in starting : f[i] = p
  <2> SUFFICES ASSUME NEW p \in Paid PROVE \E i \in starting : f[i] = p
    OBVIOUS
  <2>1. PICK i \in starting : PaidFor(i, p)
    BY <1>3
  <2>2. f[i] \in Processes /\ PaidFor(i, f[i])
    BY <2>1
  <2> QED
    BY <2>1, <2>2, <1>2
<1> HIDE DEF f
<1>6. IsFiniteSet(Paid) /\ Cardinality(Paid) <= Cardinality(starting)
  BY <1>4, <1>5, Countable, Covered
<1>7. {p \in Processes : Up(p)} = Free \cup Paid /\ Free \cap Paid = {}
  BY DEF Free
<1>8. Cardinality(Free \cup Paid) = Cardinality(Free) + Cardinality(Paid)
  <2>1. Cardinality(Free \cup Paid) = Cardinality(Free) + Cardinality(Paid) - Cardinality(Free \cap Paid)
    BY <1>6, Countable, FS_Union
  <2>2. Cardinality(Free \cap Paid) = 0
    BY <1>7, FS_EmptySet
  <2>3. Cardinality(Paid) \in Nat
    BY <1>6, FS_CardinalityType
  <2> QED
    BY <2>1, <2>2, <2>3, Countable
<1>9. Cardinality(Paid) \in Nat
  BY <1>6, FS_CardinalityType
<1> QED
  BY <1>6, <1>7, <1>8, <1>9, Countable, OwnedAssumption DEF Slots

\* The three together are inductive.
LEMMA OwnedInvariant == OwnedSpec => []OwnedInv
<1>1. OwnedInit => OwnedInv
  <2> SUFFICES ASSUME OwnedInit PROVE OwnedInv
    OBVIOUS
  <2> USE OwnedAssumption DEF OwnedInit
  <2>1. OwnedTypeOK
    <3>1. starting = {target[c] : c \in {d \in Tools : call[d] \notin {"idle", "reserving", "halting", "stopping"}}}
      OBVIOUS
    <3>2. newest \in SessionIds /\ records \in [SessionIds -> {"none", "active", "inactive"}] /\ ports \in [SessionIds -> Processes \cup {0}]
      BY DEF SessionIds, Processes
    <3>3. {session, store} \subseteq [Processes -> SessionIds \cup {0}]
      OBVIOUS
    <3>4. {target, named} \subseteq [Tools -> SessionIds \cup {0}] /\ mine \in [Tools -> Processes \cup {0}]
      OBVIOUS
    <3> QED
      BY <3>1, <3>2, <3>3, <3>4 DEF OwnedTypeOK
  <2>2. Used /\ Exclusive
    BY DEF Used, Exclusive, Holds, Starter, SessionIds, Processes
  <2>3. FoundInv
    BY DEF FoundInv, ClaimsApart, OldIdsDead, TargetFree, NoneForgotten, Held, StartedBy, Up, Lives, Lasts, Starter,
       SessionIds, Processes
  <2>4. Free = {} /\ starting = {}
    BY DEF Free, Up
  <2>5. Slots
    BY <2>4, FS_EmptySet DEF Slots
  <2> QED
    BY <2>1, <2>2, <2>3, <2>5 DEF OwnedInv, ShapeInv
<1>2. OwnedInv /\ [OwnedNext]_ownedVars => OwnedInv'
  <2> SUFFICES ASSUME OwnedInv, [OwnedNext]_ownedVars PROVE OwnedInv'
    OBVIOUS
  <2>1. CASE UNCHANGED ownedVars
    <3>1. ShapeInv' = ShapeInv
      BY <2>1 DEF ownedVars, table, processes, calls, ShapeInv, OwnedTypeOK, Used, Exclusive, Holds, Starter
    <3>2. FoundInv' = FoundInv
      BY <2>1 DEF ownedVars, table, processes, calls, FoundInv, ClaimsApart, OldIdsDead, TargetFree,
         NoneForgotten, Claims, Held, StartedBy, Up, Lives, Lasts, Starter
    <3>3. Slots' = Slots /\ twice' = twice
      BY <2>1 DEF ownedVars, table, processes, calls, Slots, Free, Up, Lives, Lasts, Pays
    <3> QED
      BY <3>1, <3>2, <3>3 DEF OwnedInv
  <2>2. CASE \E c \in Tools, i \in SessionIds : Start(c) \/ CallStep(c) \/ Send(c, i) \/ StopOne(c, i)
    <3>1. twice => twice'
      BY <2>2 DEF Start, CallStep, Send, StopOne, Reserve, Pop, Replace, StopMine, Spawn, Spawned, SpawnFails,
         Name, Register, DropChild,
                  Release, Halt, Stopped, Returns, calls
    <3> QED
      BY <2>2, <3>1, CallsKeepShape, CallsKeepTrack, CallsKeepSlots DEF OwnedInv, SoundNext, ShapeInv, FoundInv
  <2>3. CASE \E p \in Processes : AllStopped(p) \/ LogsOut(p) \/ Exits(p) \/ Reports(p) \/ Follows(p)
    <3>1. twice => twice'
      BY <2>3 DEF AllStopped, LogsOut, Exits, Reports, Follows, calls
    <3> QED
      BY <2>3, <3>1, ProcessesKeepShape, ProcessesKeepTrack, ProcessesKeepSlots DEF OwnedInv, SoundNext,
         ShapeInv, FoundInv
  <2>4. CASE StopAll
    <3>1. twice => twice'
      BY <2>4 DEF StopAll, calls
    <3> QED
      BY <2>4, <3>1, StopAllKeepsShape, StopAllKeepsTrack, StopAllKeepsSlots DEF OwnedInv, SoundNext, ShapeInv,
         FoundInv
  <2>5. SessionIds # {}
    BY OwnedAssumption DEF SessionIds
  <2> QED
    BY <2>1, <2>2, <2>3, <2>4, <2>5 DEF OwnedNext
<1> QED
  BY <1>1, <1>2, PTL DEF OwnedSpec

\* The types of the table, of the processes and of what the calls carry, and the slots are those of
\* the calls that hold one.
THEOREM OwnedTypeCorrect == OwnedSpec => []OwnedTypeOK
<1>1. OwnedInv => OwnedTypeOK
  BY DEF OwnedInv, ShapeInv
<1> QED
  BY <1>1, OwnedInvariant, PTL

\* NoneForgotten, for any number of tools, ids and processes.
THEOREM NothingIsForgotten == OwnedSpec => []NoneForgotten
<1>1. OwnedInv => NoneForgotten
  BY DEF OwnedInv, FoundInv, NoneForgotten
<1> QED
  BY <1>1, OwnedInvariant, PTL

\* WithinLimit, for any limit and any number of tools, ids and processes: of the processes alive() counts.
THEOREM LimitIsKept == OwnedSpec => []WithinLimit
<1>1. OwnedInv => WithinLimit
  BY RunningWithinLimit DEF OwnedInv, WithinLimit
<1> QED
  BY <1>1, OwnedInvariant, PTL
=============================================================================
