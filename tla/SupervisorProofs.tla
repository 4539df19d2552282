-------------------------- MODULE SupervisorProofs --------------------------
(***************************************************************************)
(* Proofs about Supervisor, for every limit of the policy and its breakers *)
(* and every number of engines and events.                                 *)
(*                                                                         *)
(* The first part is about the policy alone: each of its inputs leads from *)
(* a policy within its limits to another one (Leads), and none but the     *)
(* report of a launch makes it take an engine for its own.  The second is  *)
(* about the queues between the supervisor thread and the dispatcher.  The *)
(* inductive invariant, SupInv, then follows an engine from its spawn to   *)
(* the handling of its exit: through the engine itself, the jobs and the   *)
(* posted tasks, where the exit is always behind the report of the spawn.  *)
(***************************************************************************)
EXTENDS Supervisor, TLAPS

-----------------------------------------------------------------------------
(* The policy.                                                              *)

States == {"stopped", "starting", "healthy", "degraded", "backoff", "restarting", "failed"}
Requests == {"none", "distros", "user", "idle"}
PolicyJobs == [kind : {"launch", "stop", "stop all", "wsl", "distros"}]
Policy ==
  [ state : States, owned : BOOLEAN, expect : BOOLEAN, relaunch : BOOLEAN, misses : 0..MissLimit,
    crashes : 0..CrashLimit + 1, wsls : 0..WslLimit + 1, timeouts : 0..TimeoutLimit, attached : BOOLEAN,
    request : Requests, declined : BOOLEAN, out : Seq(PolicyJobs) ]

\* A breaker and the count of start timeouts go over their limits only where the policy gives up.  An
\* answer of the user that is still waited for then restarts WSL all the same, so the limits hold there.
InLimits(s) == s.crashes <= CrashLimit /\ s.wsls <= WslLimit /\ s.timeouts < TimeoutLimit
Bounds(s) == s.state # "failed" \/ s.request = "user" => InLimits(s)
PolicyOK(s) == s \in Policy /\ s.misses < MissLimit /\ Bounds(s)

\* What an input of the policy makes of it: no other than a launch makes it take an engine for its own.
Leads(s, t) == PolicyOK(t) /\ (t.owned => s.owned)

\* The assumption on the constants, in the form the provers use best.
LEMMA Limits ==
  /\ MissLimit \in Nat /\ CrashLimit \in Nat /\ WslLimit \in Nat /\ TimeoutLimit \in Nat
  /\ MaxSpawned \in Nat /\ MaxEvents \in Nat
  /\ MissLimit > 0 /\ CrashLimit > 0 /\ WslLimit > 0 /\ TimeoutLimit > 0 /\ MaxSpawned > 0
<1>1. /\ MissLimit \in Nat \ {0} /\ CrashLimit \in Nat \ {0} /\ WslLimit \in Nat \ {0}
      /\ TimeoutLimit \in Nat \ {0} /\ MaxSpawned \in Nat \ {0} /\ MaxEvents \in Nat \ {0}
  BY SupervisorAssumption
<1> QED
  BY <1>1

\* The values that inputs assign.
LEMMA Values ==
  /\ "stopped" \in States /\ "starting" \in States /\ "healthy" \in States /\ "degraded" \in States
  /\ "backoff" \in States /\ "restarting" \in States /\ "failed" \in States
  /\ "none" \in Requests /\ "distros" \in Requests /\ "user" \in Requests /\ "idle" \in Requests
  /\ 0 \in 0..MissLimit /\ 0 \in 0..CrashLimit + 1 /\ 0 \in 0..WslLimit + 1 /\ 0 \in 0..TimeoutLimit
<1>1. /\ "stopped" \in States /\ "starting" \in States /\ "healthy" \in States /\ "degraded" \in States
      /\ "backoff" \in States /\ "restarting" \in States /\ "failed" \in States
  BY DEF States
<1>2. "none" \in Requests /\ "distros" \in Requests /\ "user" \in Requests /\ "idle" \in Requests
  BY DEF Requests
<1>3. 0 \in 0..MissLimit /\ 0 \in 0..CrashLimit + 1 /\ 0 \in 0..WslLimit + 1 /\ 0 \in 0..TimeoutLimit
  BY Limits
<1> QED
  BY <1>1, <1>2, <1>3

\* The fields of a policy.
LEMMA Fields ==
  ASSUME NEW s \in Policy
  PROVE  /\ s.state \in States /\ s.owned \in BOOLEAN /\ s.expect \in BOOLEAN /\ s.relaunch \in BOOLEAN
         /\ s.misses \in 0..MissLimit /\ s.crashes \in 0..CrashLimit + 1 /\ s.wsls \in 0..WslLimit + 1
         /\ s.timeouts \in 0..TimeoutLimit /\ s.attached \in BOOLEAN /\ s.request \in Requests
         /\ s.declined \in BOOLEAN /\ s.out \in Seq(PolicyJobs)
  BY DEF Policy

\* Appending to a queue keeps its type.
LEMMA AppendIn ==
  ASSUME NEW S, NEW q \in Seq(S), NEW e \in S
  PROVE  Append(q, e) \in Seq(S)
  OBVIOUS

\* A job that an input asks for changes nothing else of the policy.
LEMMA OutKeeps ==
  ASSUME NEW s \in Policy, NEW k \in {"launch", "stop", "stop all", "wsl", "distros"}
  PROVE  /\ Out(s, k) \in Policy /\ Out(s, k).state = s.state /\ Out(s, k).owned = s.owned
         /\ Out(s, k).misses = s.misses /\ Out(s, k).crashes = s.crashes /\ Out(s, k).wsls = s.wsls
         /\ Out(s, k).timeouts = s.timeouts /\ Out(s, k).request = s.request
<1>1. [kind |-> k] \in PolicyJobs /\ s.out \in Seq(PolicyJobs)
  BY DEF PolicyJobs, Policy
<1>2. Append(s.out, [kind |-> k]) \in Seq(PolicyJobs)
  BY <1>1, AppendIn
<1>3. Out(s, k) \in Policy
  BY <1>2 DEF Out, Policy
<1> QED
  BY <1>3 DEF Out, Policy

\* So an input may ask for jobs at its end.
LEMMA OutOK ==
  ASSUME NEW s, NEW t, Leads(s, t), NEW k \in {"launch", "stop", "stop all", "wsl", "distros"}
  PROVE  Leads(s, Out(t, k))
  BY OutKeeps DEF Leads, PolicyOK, Bounds, InLimits

\* A WSL restart that was asked for is forgotten; what the bounds depend on is kept.
LEMMA ClearKeeps ==
  ASSUME NEW s \in Policy
  PROVE  /\ ClearRequest(s) \in Policy /\ ClearRequest(s).state = s.state /\ ClearRequest(s).owned = s.owned
         /\ ClearRequest(s).misses = s.misses /\ ClearRequest(s).crashes = s.crashes
         /\ ClearRequest(s).wsls = s.wsls /\ ClearRequest(s).timeouts = s.timeouts
         /\ ClearRequest(s).request = "none"
  BY Values DEF ClearRequest, Policy

\* The policy gives up: from then on no limit has to hold.
LEMMA FailOK ==
  ASSUME NEW s \in Policy
  PROVE  Leads(s, Fail(s))
<1> DEFINE c == ClearRequest(s)
<1>1. c \in Policy /\ s.owned \in BOOLEAN /\ c.owned = s.owned /\ c.request = "none"
  BY ClearKeeps, Fields
<1>2. Fail(s) = [c EXCEPT !.state = "failed", !.misses = 0, !.expect = s.owned, !.relaunch = FALSE]
  BY DEF Fail
<1> HIDE DEF c
<1>3. Fail(s) \in Policy
  BY <1>1, <1>2, Values DEF Policy
<1>4. Fail(s).state = "failed" /\ Fail(s).misses = 0 /\ Fail(s).owned = s.owned /\ Fail(s).request = "none"
  BY <1>1, <1>2 DEF Policy
<1> QED
  BY <1>3, <1>4, Limits DEF Leads, PolicyOK, Bounds

\* A crash is counted, and the policy backs off or gives up.
LEMMA CrashedOK ==
  ASSUME NEW s \in Policy, InLimits(s)
  PROVE  Leads(s, Crashed(s))
<1> DEFINE c == [s EXCEPT !.crashes = @ + 1, !.misses = 0, !.expect = s.owned, !.relaunch = FALSE]
           d == [c EXCEPT !.state = "backoff"]
<1>1. s.crashes + 1 \in 0..CrashLimit + 1 /\ s.owned \in BOOLEAN
  BY Fields, Limits DEF InLimits
<1>2. c \in Policy
  BY <1>1, Values DEF Policy
<1>3. c.owned = s.owned /\ c.misses = 0 /\ c.wsls = s.wsls /\ c.timeouts = s.timeouts
  BY DEF Policy
<1>4. Crashed(s) = Out(IF c.crashes > CrashLimit THEN Fail(c) ELSE d, "stop")
  BY DEF Crashed
<1>5. d = [c EXCEPT !.state = "backoff"]
  OBVIOUS
<1> HIDE DEF c, d
<1>6. CASE c.crashes > CrashLimit
  <2>1. Leads(s, Fail(c))
    BY <1>2, <1>3, FailOK DEF Leads
  <2> QED
    BY <1>4, <1>6, <2>1, OutOK
<1>7. CASE ~(c.crashes > CrashLimit)
  <2>1. d \in Policy
    BY <1>2, <1>5, Values DEF Policy
  <2>2. /\ d.owned = s.owned /\ d.misses = 0 /\ d.wsls = s.wsls /\ d.timeouts = s.timeouts
        /\ d.crashes = c.crashes
    BY <1>2, <1>3, <1>5 DEF Policy
  <2>3. d.crashes <= CrashLimit
    BY <1>2, <1>7, <2>2, Fields, Limits
  <2>4. Leads(s, d)
    BY <2>1, <2>2, <2>3, Limits DEF Leads, PolicyOK, Bounds, InLimits
  <2> QED
    BY <1>4, <1>7, <2>4, OutOK
<1> QED
  BY <1>6, <1>7

\* WSL is restarted whatever the breaker says: the user has asked for it.
LEMMA RestartWslOK ==
  ASSUME NEW s \in Policy, InLimits(s)
  PROVE  Leads(s, RestartWsl(s))
<1> DEFINE c == ClearRequest(s)
           d == [c EXCEPT !.state = "restarting", !.misses = 0, !.expect = s.owned, !.relaunch = FALSE]
<1>1. /\ c \in Policy /\ s.owned \in BOOLEAN /\ c.owned = s.owned
      /\ c.crashes = s.crashes /\ c.wsls = s.wsls /\ c.timeouts = s.timeouts
  BY ClearKeeps, Fields
<1>2. RestartWsl(s) = Out(d, "wsl")
  BY DEF RestartWsl
<1>3. d = [c EXCEPT !.state = "restarting", !.misses = 0, !.expect = s.owned, !.relaunch = FALSE]
  OBVIOUS
<1> HIDE DEF c, d
<1>4. d \in Policy
  BY <1>1, <1>3, Values DEF Policy
<1>5. d.owned = s.owned /\ d.misses = 0 /\ d.crashes = s.crashes /\ d.wsls = s.wsls /\ d.timeouts = s.timeouts
  BY <1>1, <1>3 DEF Policy
<1>6. Leads(s, d)
  BY <1>4, <1>5, Limits DEF Leads, PolicyOK, Bounds, InLimits
<1> QED
  BY <1>2, <1>6, OutOK

\* A WSL restart by the policy itself counts against its breaker.
LEMMA RestartWslByItselfOK ==
  ASSUME NEW s, PolicyOK(s), InLimits(s)
  PROVE  Leads(s, RestartWslByItself(s))
<1> DEFINE b == ClearRequest(s)
           c == [b EXCEPT !.wsls = @ + 1]
<1>1. /\ s \in Policy /\ b \in Policy /\ b.owned = s.owned /\ b.state = s.state /\ b.misses = s.misses
      /\ b.crashes = s.crashes /\ b.wsls = s.wsls /\ b.timeouts = s.timeouts
  BY ClearKeeps DEF PolicyOK
<1>2. s.wsls <= WslLimit /\ s.crashes <= CrashLimit /\ s.timeouts < TimeoutLimit /\ s.wsls + 1 \in 0..WslLimit + 1
  BY <1>1, Fields, Limits DEF PolicyOK, InLimits
<1>3. RestartWslByItself(s) = IF c.wsls > WslLimit THEN Fail(c) ELSE RestartWsl(c)
  BY DEF RestartWslByItself
<1>4. c = [b EXCEPT !.wsls = @ + 1]
  OBVIOUS
<1> HIDE DEF b, c
<1>5. c \in Policy
  BY <1>1, <1>2, <1>4 DEF Policy
<1>6. c.owned = s.owned /\ c.state = s.state /\ c.crashes = s.crashes /\ c.timeouts = s.timeouts
  BY <1>1, <1>4 DEF Policy
<1>7. CASE c.wsls > WslLimit
  BY <1>3, <1>5, <1>6, <1>7, FailOK DEF Leads
<1>8. CASE ~(c.wsls > WslLimit)
  <2>1. InLimits(c)
    BY <1>2, <1>5, <1>6, <1>8, Fields, Limits DEF InLimits
  <2>2. Leads(c, RestartWsl(c))
    BY <1>5, <1>6, <2>1, RestartWslOK
  <2> QED
    BY <1>3, <1>6, <1>8, <2>2 DEF Leads
<1> QED
  BY <1>7, <1>8

\* Fields that neither the bounds nor the ownership of an engine depend on.
LEMMA MinorOK ==
  ASSUME NEW s, PolicyOK(s), NEW t \in Policy, t.misses <= s.misses, t.owned => s.owned,
         t.state # "failed" \/ t.request = "user" =>
           /\ s.state # "failed" \/ s.request = "user"
           /\ t.crashes <= s.crashes /\ t.wsls <= s.wsls /\ t.timeouts <= s.timeouts
  PROVE  Leads(s, t)
<1>1. s \in Policy
  BY DEF PolicyOK
<1>2. /\ s.misses \in Int /\ t.misses \in Int /\ s.crashes \in Int /\ t.crashes \in Int /\ s.wsls \in Int
      /\ t.wsls \in Int /\ s.timeouts \in Int /\ t.timeouts \in Int
  BY <1>1, Fields
<1>3. t.misses < MissLimit
  BY <1>2, Limits DEF PolicyOK
<1>4. Bounds(t)
  BY <1>2, Limits DEF PolicyOK, Bounds, InLimits
<1> QED
  BY <1>3, <1>4 DEF Leads, PolicyOK

\* A WSL restart is asked for, or is not any more.
LEMMA RequestOK ==
  ASSUME NEW s, PolicyOK(s), NEW r \in Requests, r = "user" => s.state # "failed"
  PROVE  LET a == [s EXCEPT !.request = r] IN Leads(s, a) /\ a.state = s.state /\ (InLimits(s) => InLimits(a))
<1> DEFINE a == [s EXCEPT !.request = r]
<1>1. s \in Policy
  BY DEF PolicyOK
<1>2. a \in Policy
  BY <1>1 DEF Policy
<1>3. /\ a.state = s.state /\ a.owned = s.owned /\ a.misses = s.misses /\ a.crashes = s.crashes
      /\ a.wsls = s.wsls /\ a.timeouts = s.timeouts /\ a.request = r
  BY <1>1 DEF Policy
<1> HIDE DEF a
<1>4. Leads(s, a)
  BY <1>1, <1>2, <1>3, Fields, Limits, MinorOK
<1> QED
  BY <1>3, <1>4 DEF a, InLimits

\* The restart waits for the engine to be idle, or begins.
LEMMA ScheduleWslOK ==
  ASSUME NEW s, PolicyOK(s), InLimits(s), NEW busy \in BOOLEAN
  PROVE  Leads(s, ScheduleWsl(s, busy))
  BY Values, RequestOK, RestartWslByItselfOK DEF ScheduleWsl

\* An input that has nothing to say.
LEMMA StaysOK ==
  ASSUME NEW s, PolicyOK(s)
  PROVE  Leads(s, s)
  BY DEF Leads

\* The audio of WSL is broken: the user is asked, the distros are looked up, or nothing is done.
LEMMA WantWslOK ==
  ASSUME NEW s, PolicyOK(s)
  PROVE  Leads(s, WantWsl(s))
<1>1. /\ s.state # "failed" => Leads(s, [s EXCEPT !.request = "user"])
      /\ Leads(s, [s EXCEPT !.request = "distros"])
  BY Values, RequestOK
<1>2. Leads(s, Out([s EXCEPT !.request = "distros"], "distros"))
  BY <1>1, OutOK
<1> QED
  BY <1>1, <1>2, StaysOK DEF WantWsl, Up

\* The policy starts over.
LEMMA BeginOK == PolicyOK(Begin(Stopped)) /\ ~Begin(Stopped).owned /\ PolicyOK(Stopped) /\ ~Stopped.owned
<1>1. <<>> \in Seq(PolicyJobs)
  OBVIOUS
<1>2. Stopped \in Policy
  BY <1>1, Values DEF Stopped, Policy
<1>3. /\ Stopped.state = "stopped" /\ ~Stopped.owned /\ Stopped.misses = 0 /\ Stopped.crashes = 0 /\ Stopped.wsls = 0
      /\ Stopped.timeouts = 0
  BY DEF Stopped
<1>4. PolicyOK(Stopped)
  BY <1>2, <1>3, Limits DEF PolicyOK, Bounds, InLimits
<1> DEFINE c == ClearRequest(Stopped)
           r == [c EXCEPT !.misses = 0, !.expect = FALSE, !.relaunch = FALSE, !.timeouts = 0, !.attached = FALSE]
           b == [r EXCEPT !.state = "starting"]
<1>5. Begin(Stopped) = Out(b, "launch")
  BY <1>3 DEF Begin, ResetRun
<1>6. c \in Policy /\ c.owned = FALSE /\ c.crashes = 0 /\ c.wsls = 0
  BY <1>2, <1>3, ClearKeeps
<1> HIDE DEF c
<1>7. r \in Policy
  BY <1>6, Values DEF Policy
<1>8. r.owned = FALSE /\ r.crashes = 0 /\ r.wsls = 0 /\ r.misses = 0 /\ r.timeouts = 0
  BY <1>6 DEF Policy
<1> HIDE DEF r
<1>9. b \in Policy
  BY <1>7, Values DEF Policy
<1>10. b.owned = FALSE /\ b.crashes = 0 /\ b.wsls = 0 /\ b.misses = 0 /\ b.timeouts = 0
  BY <1>7, <1>8 DEF Policy
<1> HIDE DEF b
<1>11. Leads(b, b)
  BY <1>9, <1>10, Limits DEF Leads, PolicyOK, Bounds, InLimits
<1>12. Leads(b, Begin(Stopped))
  BY <1>5, <1>11, OutOK
<1> QED
  BY <1>3, <1>4, <1>10, <1>12 DEF Leads

\* A launch is reported: only one that spawned makes the policy take an engine for its own.
LEMMA LaunchedOK ==
  ASSUME NEW s, PolicyOK(s), NEW outcome
  PROVE  PolicyOK(Launched(s, outcome)) /\ (Launched(s, outcome).owned => s.owned \/ outcome = "spawned")
<1> DEFINE own == outcome = "spawned"
           t == [s EXCEPT !.owned = own, !.expect = FALSE, !.relaunch = FALSE]
<1>1. s \in Policy /\ own \in BOOLEAN
  BY DEF PolicyOK
<1>2. Launched(s, outcome) = IF Over(s) THEN s ELSE t
  BY DEF Launched
<1> HIDE DEF own
<1>3. t \in Policy
  BY <1>1 DEF Policy
<1>4. /\ t.owned = own /\ t.state = s.state /\ t.misses = s.misses /\ t.crashes = s.crashes /\ t.wsls = s.wsls
      /\ t.timeouts = s.timeouts /\ t.request = s.request
  BY <1>1 DEF Policy
<1> HIDE DEF t
<1>5. PolicyOK(t)
  BY <1>3, <1>4 DEF PolicyOK, Bounds, InLimits
<1> QED
  BY <1>2, <1>4, <1>5 DEF own

\* An engine that is not the policy's own any more.
LEMMA DisownedOK ==
  ASSUME NEW s, PolicyOK(s)
  PROVE  LET e == [s EXCEPT !.owned = FALSE]
         IN  /\ e \in Policy /\ PolicyOK(e) /\ ~e.owned /\ e.state = s.state /\ e.misses = s.misses
             /\ e.crashes = s.crashes /\ e.wsls = s.wsls /\ e.timeouts = s.timeouts /\ e.request = s.request
<1> DEFINE e == [s EXCEPT !.owned = FALSE]
<1>1. s \in Policy
  BY DEF PolicyOK
<1>2. e \in Policy
  BY <1>1 DEF Policy
<1>3. /\ e.owned = FALSE /\ e.state = s.state /\ e.misses = s.misses /\ e.crashes = s.crashes /\ e.wsls = s.wsls
      /\ e.timeouts = s.timeouts /\ e.request = s.request
  BY <1>1 DEF Policy
<1> HIDE DEF e
<1>4. PolicyOK(e)
  BY <1>2, <1>3 DEF PolicyOK, Bounds, InLimits
<1> QED
  BY <1>2, <1>3, <1>4 DEF e

\* A launch has failed.
LEMMA LaunchFailedOK ==
  ASSUME NEW s, PolicyOK(s), NEW failure
  PROVE  Leads(s, LaunchFailed(s, failure))
<1> DEFINE e == [s EXCEPT !.owned = FALSE]
           f == [s EXCEPT !.owned = FALSE, !.state = "failed"]
<1>1. LaunchFailed(s, failure) = IF Over(s) THEN s ELSE IF failure = "no_engine_dir" THEN f ELSE Crashed(e)
  BY DEF LaunchFailed
<1>2. e \in Policy /\ PolicyOK(e) /\ ~e.owned /\ e.state = s.state
  BY DisownedOK
<1>3. s \in Policy
  BY DEF PolicyOK
<1>4. f \in Policy
  BY <1>3, Values DEF Policy
<1>5. /\ f.owned = FALSE /\ f.misses = s.misses /\ f.crashes = s.crashes /\ f.wsls = s.wsls
      /\ f.timeouts = s.timeouts
  BY <1>3 DEF Policy
<1> HIDE DEF e, f
<1>6. ~Over(s) => Leads(s, f)
  BY <1>4, <1>5 DEF Leads, PolicyOK, Bounds, InLimits, Over
<1>7. ~Over(s) => Leads(e, Crashed(e))
  BY <1>2, CrashedOK DEF PolicyOK, Bounds, Over
<1> QED
  BY <1>1, <1>2, <1>6, <1>7, StaysOK DEF Leads

\* After the exit of its engine was handled the policy owns none.
LEMMA ProcessExitedOK ==
  ASSUME NEW s, PolicyOK(s), NEW inUse \in BOOLEAN
  PROVE  PolicyOK(ProcessExited(s, inUse)) /\ ~ProcessExited(s, inUse).owned
<1> DEFINE e == [s EXCEPT !.owned = FALSE]
           x == [e EXCEPT !.expect = FALSE]
           y == [e EXCEPT !.expect = FALSE, !.relaunch = FALSE]
           r == [e EXCEPT !.state = "restarting"]
           z == [r EXCEPT !.attached = TRUE]
<1>1. ProcessExited(s, inUse) =
        IF ~s.owned THEN s
        ELSE IF s.expect
        THEN IF s.relaunch /\ s.state = "restarting" THEN Out(y, "launch") ELSE x
        ELSE IF Over(s) \/ s.state = "backoff" THEN e
        ELSE IF inUse /\ ~s.attached THEN Out(z, "launch")
        ELSE Crashed(e)
  BY DEF ProcessExited, External
<1>2. /\ e \in Policy /\ PolicyOK(e) /\ e.owned = FALSE /\ e.state = s.state /\ e.misses = s.misses
      /\ e.crashes = s.crashes /\ e.wsls = s.wsls /\ e.timeouts = s.timeouts /\ e.request = s.request
  BY DisownedOK
<1> HIDE DEF e
<1>3. x \in Policy /\ y \in Policy
  BY <1>2 DEF Policy
<1>4. /\ x.owned = FALSE /\ x.state = s.state /\ x.misses = s.misses /\ x.crashes = s.crashes /\ x.wsls = s.wsls
      /\ x.timeouts = s.timeouts /\ x.request = s.request
  BY <1>2 DEF Policy
<1>5. /\ y.owned = FALSE /\ y.state = s.state /\ y.misses = s.misses /\ y.crashes = s.crashes /\ y.wsls = s.wsls
      /\ y.timeouts = s.timeouts /\ y.request = s.request
  BY <1>2 DEF Policy
<1>6. r \in Policy
  BY <1>2, Values DEF Policy
<1>7. /\ r.owned = FALSE /\ r.misses = s.misses /\ r.crashes = s.crashes /\ r.wsls = s.wsls
      /\ r.timeouts = s.timeouts
  BY <1>2 DEF Policy
<1> HIDE DEF x, y, r
<1>8. z \in Policy
  BY <1>6 DEF Policy
<1>9. /\ z.owned = FALSE /\ z.misses = s.misses /\ z.crashes = s.crashes /\ z.wsls = s.wsls
      /\ z.timeouts = s.timeouts
  BY <1>6, <1>7 DEF Policy
<1> HIDE DEF z
<1>10. Leads(x, x) /\ Leads(y, Out(y, "launch"))
  <2>1. PolicyOK(x) /\ PolicyOK(y)
    BY <1>3, <1>4, <1>5 DEF PolicyOK, Bounds, InLimits
  <2> QED
    BY <2>1, StaysOK, OutOK
<1>11. ~Over(s) => Leads(z, Out(z, "launch"))
  <2>1. ~Over(s) => PolicyOK(z)
    BY <1>8, <1>9 DEF PolicyOK, Bounds, InLimits, Over
  <2> QED
    BY <2>1, StaysOK, OutOK
<1>12. ~Over(s) => Leads(e, Crashed(e))
  BY <1>2, CrashedOK DEF PolicyOK, Bounds, Over
<1> QED
  BY <1>1, <1>2, <1>4, <1>5, <1>9, <1>10, <1>11, <1>12 DEF Leads

\* A change of state alone, where the policy has not given up.
LEMMA StateOK ==
  ASSUME NEW s, PolicyOK(s), s.state # "failed", NEW now \in States
  PROVE  LET t == [s EXCEPT !.state = now]
         IN  /\ Leads(s, t) /\ t \in Policy /\ t.owned = s.owned /\ t.state = now /\ t.misses = s.misses
             /\ t.crashes = s.crashes /\ t.wsls = s.wsls /\ t.timeouts = s.timeouts
<1> DEFINE t == [s EXCEPT !.state = now]
<1>1. s \in Policy
  BY DEF PolicyOK
<1>2. t \in Policy
  BY <1>1 DEF Policy
<1>3. /\ t.owned = s.owned /\ t.state = now /\ t.misses = s.misses /\ t.crashes = s.crashes /\ t.wsls = s.wsls
      /\ t.timeouts = s.timeouts
  BY <1>1 DEF Policy
<1> HIDE DEF t
<1>4. Leads(s, t)
  BY <1>2, <1>3 DEF Leads, PolicyOK, Bounds, InLimits
<1> QED
  BY <1>2, <1>3, <1>4 DEF t

\* A probe has not been answered.
LEMMA MissedOK ==
  ASSUME NEW s, PolicyOK(s), s.state # "failed"
  PROVE  Leads(s, Missed(s))
<1> DEFINE m == [s EXCEPT !.misses = @ + 1]
           d == [m EXCEPT !.state = "degraded"]
<1>1. Missed(s) = IF m.misses >= MissLimit THEN Crashed(m) ELSE d
  BY DEF Missed
<1>2. s \in Policy /\ s.misses + 1 \in 0..MissLimit
  BY Fields, Limits DEF PolicyOK
<1>3. m \in Policy
  BY <1>2 DEF Policy
<1>4. /\ m.owned = s.owned /\ m.state = s.state /\ m.crashes = s.crashes /\ m.wsls = s.wsls
      /\ m.timeouts = s.timeouts
  BY <1>2 DEF Policy
<1> HIDE DEF m
<1>5. CASE m.misses >= MissLimit
  <2>1. InLimits(m)
    BY <1>4 DEF PolicyOK, Bounds, InLimits
  <2> QED
    BY <1>1, <1>3, <1>4, <1>5, <2>1, CrashedOK DEF Leads
<1>6. CASE ~(m.misses >= MissLimit)
  <2>1. PolicyOK(m)
    BY <1>3, <1>4, <1>6, Fields, Limits DEF PolicyOK, Bounds, InLimits
  <2>2. Leads(m, d)
    BY <1>4, <2>1, StateOK, Values
  <2> QED
    BY <1>1, <1>4, <1>6, <2>2 DEF Leads
<1> QED
  BY <1>5, <1>6

\* The result of a probe.
LEMMA ProbedOK ==
  ASSUME NEW s, PolicyOK(s), NEW kind
  PROVE  Leads(s, Probed(s, kind))
<1> DEFINE h == [s EXCEPT !.state = "healthy", !.misses = 0]
           k == [s EXCEPT !.state = "healthy", !.misses = 0, !.timeouts = 0, !.attached = FALSE]
           x == [s EXCEPT !.state = "restarting"]
           y == [x EXCEPT !.misses = 0]
<1>1. Probed(s, kind) \in {s} \/ (~Over(s) /\ Probed(s, kind) \in {h, k, y, Missed(s)})
  BY DEF Probed, Healthy, External, Up, Over
<1>2. s \in Policy
  BY DEF PolicyOK
<1>3. CASE Over(s)
  BY <1>1, <1>3, StaysOK
<1>4. CASE ~Over(s)
  <2>1. s.state # "failed"
    BY <1>4 DEF Over
  <2>2. Leads(s, h)
    <3>1. h \in Policy
      BY <1>2, Values DEF Policy
    <3>2. /\ h.owned = s.owned /\ h.misses = 0 /\ h.crashes = s.crashes /\ h.wsls = s.wsls /\ h.timeouts = s.timeouts
      BY <1>2 DEF Policy
    <3> QED
      BY <2>1, <3>1, <3>2, Limits DEF Leads, PolicyOK, Bounds, InLimits
  <2>3. Leads(s, k)
    <3>1. k \in Policy
      BY <1>2, Values DEF Policy
    <3>2. /\ k.owned = s.owned /\ k.misses = 0 /\ k.crashes = s.crashes /\ k.wsls = s.wsls /\ k.timeouts = 0
      BY <1>2 DEF Policy
    <3> QED
      BY <2>1, <3>1, <3>2, Limits DEF Leads, PolicyOK, Bounds, InLimits
  <2>4. Leads(s, y)
    <3>1. Leads(s, x) /\ x \in Policy
      BY <2>1, StateOK, Values
    <3> HIDE DEF x
    <3>2. y \in Policy
      BY <3>1, Values DEF Policy
    <3>3. /\ y.owned = x.owned /\ y.state = x.state /\ y.misses = 0 /\ y.crashes = x.crashes /\ y.wsls = x.wsls
          /\ y.timeouts = x.timeouts
      BY <3>1 DEF Policy
    <3> QED
      BY <3>1, <3>2, <3>3, Limits DEF Leads, PolicyOK, Bounds, InLimits
  <2>5. Leads(s, Missed(s))
    BY <2>1, MissedOK
  <2> HIDE DEF h, k, y
  <2> QED
    BY <1>1, <2>2, <2>3, <2>4, <2>5, StaysOK
<1> QED
  BY <1>3, <1>4

\* The backoff is over.
LEMMA BackoffOverOK ==
  ASSUME NEW s, PolicyOK(s), s.state = "backoff"
  PROVE  Leads(s, BackoffOver(s))
<1>1. Leads(s, [s EXCEPT !.state = "restarting"])
  BY StateOK, Values
<1> QED
  BY <1>1, OutOK DEF BackoffOver

\* An engine that was launched is not ready in time.
LEMMA GraceOverOK ==
  ASSUME NEW s, PolicyOK(s), s.state # "failed"
  PROVE  Leads(s, GraceOver(s))
<1> DEFINE t == [s EXCEPT !.timeouts = @ + 1]
<1>1. GraceOver(s) = IF t.timeouts >= TimeoutLimit THEN Out(Fail(t), "stop") ELSE Crashed(t)
  BY DEF GraceOver
<1>2. s \in Policy /\ s.timeouts + 1 \in 0..TimeoutLimit
  BY Fields, Limits DEF PolicyOK, Bounds, InLimits
<1>3. t \in Policy
  BY <1>2 DEF Policy
<1>4. t.owned = s.owned /\ t.state = s.state /\ t.crashes = s.crashes /\ t.wsls = s.wsls
  BY <1>2 DEF Policy
<1> HIDE DEF t
<1>5. CASE t.timeouts >= TimeoutLimit
  <2>1. Leads(t, Out(Fail(t), "stop"))
    BY <1>3, FailOK, OutOK
  <2> QED
    BY <1>1, <1>4, <1>5, <2>1 DEF Leads
<1>6. CASE ~(t.timeouts >= TimeoutLimit)
  <2>1. InLimits(t)
    BY <1>3, <1>4, <1>6, Fields, Limits DEF PolicyOK, Bounds, InLimits
  <2> QED
    BY <1>1, <1>3, <1>4, <1>6, <2>1, CrashedOK DEF Leads
<1> QED
  BY <1>5, <1>6

\* The daemon has announced its shutdown.
LEMMA DaemonShutdownOK ==
  ASSUME NEW s, PolicyOK(s), NEW reason
  PROVE  Leads(s, DaemonShutdown(s, reason))
<1> DEFINE c == ClearRequest(s)
           r == [c EXCEPT !.misses = 0, !.expect = FALSE, !.relaunch = FALSE, !.timeouts = 0, !.attached = FALSE]
           b == [r EXCEPT !.state = "stopped"]
           x == [s EXCEPT !.state = "restarting"]
           own == s.owned
           again == s.owned \/ x.relaunch
           y == [x EXCEPT !.expect = own, !.relaunch = again]
<1>1. /\ DaemonShutdown(s, reason) \in {s, b, y}
      /\ s.state = "failed" => DaemonShutdown(s, reason) = s
  BY DEF DaemonShutdown, ResetRun, External
<1>2. CASE s.state = "failed"
  BY <1>1, <1>2, StaysOK
<1>3. CASE s.state # "failed"
  <2>1. s \in Policy
    BY DEF PolicyOK
  <2>2. Leads(s, b)
    <3>1. c \in Policy /\ c.owned = s.owned /\ c.crashes = s.crashes /\ c.wsls = s.wsls
      BY <2>1, ClearKeeps
    <3> HIDE DEF c
    <3>2. r \in Policy
      BY <3>1, Values DEF Policy
    <3>3. r.owned = s.owned /\ r.crashes = s.crashes /\ r.wsls = s.wsls /\ r.misses = 0 /\ r.timeouts = 0
      BY <3>1 DEF Policy
    <3> HIDE DEF r
    <3>4. b \in Policy
      BY <3>2, Values DEF Policy
    <3>5. b.owned = s.owned /\ b.crashes = s.crashes /\ b.wsls = s.wsls /\ b.misses = 0 /\ b.timeouts = 0
      BY <3>2, <3>3 DEF Policy
    <3> HIDE DEF b
    <3> QED
      BY <1>3, <3>4, <3>5, Limits DEF Leads, PolicyOK, Bounds, InLimits
  <2>3. Leads(s, y)
    <3>1. /\ Leads(s, x) /\ x \in Policy /\ x.owned = s.owned /\ x.misses = s.misses /\ x.crashes = s.crashes
          /\ x.wsls = s.wsls /\ x.timeouts = s.timeouts
      BY <1>3, StateOK, Values
    <3>2. own \in BOOLEAN /\ again \in BOOLEAN
      BY <2>1, Fields
    <3> HIDE DEF x, own, again
    <3>3. y \in Policy
      BY <3>1, <3>2 DEF Policy
    <3>4. /\ y.owned = s.owned /\ y.state = x.state /\ y.misses = s.misses /\ y.crashes = s.crashes
          /\ y.wsls = s.wsls /\ y.timeouts = s.timeouts
      BY <3>1 DEF Policy
    <3> HIDE DEF y
    <3> QED
      BY <1>3, <3>3, <3>4 DEF Leads, PolicyOK, Bounds, InLimits
  <2> HIDE DEF b, y
  <2> QED
    BY <1>1, <2>2, <2>3, StaysOK
<1> QED
  BY <1>2, <1>3

\* The user starts the count of the breakers over.
LEMMA ResetBreakerKeeps ==
  ASSUME NEW s \in Policy
  PROVE  LET b == ResetBreaker(s)
         IN  b \in Policy /\ b.owned = s.owned /\ b.misses = s.misses /\ b.crashes = 0 /\ b.wsls = 0 /\ b.timeouts = 0
<1>1. ResetBreaker(s) \in Policy
  BY Values DEF ResetBreaker, Policy
<1> QED
  BY <1>1 DEF ResetBreaker, Policy

\* The user restarts the engine.
LEMMA UserRestartsEngineOK ==
  ASSUME NEW s, PolicyOK(s)
  PROVE  Leads(s, UserRestartsEngine(s))
<1> DEFINE b == ResetBreaker(s)
           c == ClearRequest(b)
           d == [c EXCEPT !.state = "restarting", !.misses = 0, !.expect = s.owned, !.relaunch = FALSE]
<1>1. UserRestartsEngine(s) = Out(Out(d, "stop all"), "launch")
  BY DEF UserRestartsEngine
<1>2. /\ s.owned \in BOOLEAN /\ b \in Policy /\ b.owned = s.owned /\ b.crashes = 0 /\ b.wsls = 0 /\ b.timeouts = 0
  BY Fields, ResetBreakerKeeps DEF PolicyOK
<1> HIDE DEF b
<1>3. c \in Policy /\ c.owned = s.owned /\ c.crashes = 0 /\ c.wsls = 0 /\ c.timeouts = 0
  BY <1>2, ClearKeeps
<1> HIDE DEF c
<1>4. d \in Policy
  BY <1>2, <1>3, Values DEF Policy
<1>5. d.owned = s.owned /\ d.misses = 0 /\ d.crashes = 0 /\ d.wsls = 0 /\ d.timeouts = 0
  BY <1>3 DEF Policy
<1> HIDE DEF d
<1>6. Leads(s, d)
  BY <1>4, <1>5, Limits DEF Leads, PolicyOK, Bounds, InLimits
<1> QED
  BY <1>1, <1>6, OutOK

\* The user restarts WSL.
LEMMA UserRestartsWslOK ==
  ASSUME NEW s, PolicyOK(s)
  PROVE  Leads(s, UserRestartsWsl(s))
<1> DEFINE b == ResetBreaker(s)
           c == ClearRequest(b)
           d == [c EXCEPT !.state = "restarting", !.misses = 0, !.expect = b.owned, !.relaunch = FALSE]
<1>1. UserRestartsWsl(s) = Out(d, "wsl")
  BY DEF UserRestartsWsl, RestartWsl
<1>2. /\ b \in Policy /\ b.owned = s.owned /\ b.crashes = 0 /\ b.wsls = 0 /\ b.timeouts = 0
  BY ResetBreakerKeeps DEF PolicyOK
<1> HIDE DEF b
<1>3. c \in Policy /\ c.owned = s.owned /\ c.crashes = 0 /\ c.wsls = 0 /\ c.timeouts = 0 /\ b.owned \in BOOLEAN
  BY <1>2, ClearKeeps, Fields
<1> HIDE DEF c
<1>4. d \in Policy
  BY <1>3, Values DEF Policy
<1>5. d.owned = s.owned /\ d.misses = 0 /\ d.crashes = 0 /\ d.wsls = 0 /\ d.timeouts = 0
  BY <1>3 DEF Policy
<1> HIDE DEF d
<1>6. Leads(s, d)
  BY <1>4, <1>5, Limits DEF Leads, PolicyOK, Bounds, InLimits
<1> QED
  BY <1>1, <1>6, OutOK

\* "Not now" is remembered.
LEMMA DeclinedOK ==
  ASSUME NEW s, PolicyOK(s), NEW b \in BOOLEAN
  PROVE  Leads(s, [s EXCEPT !.declined = b])
<1> DEFINE t == [s EXCEPT !.declined = b]
<1>1. s \in Policy
  BY DEF PolicyOK
<1>2. t \in Policy
  BY <1>1 DEF Policy
<1>3. /\ t.owned = s.owned /\ t.state = s.state /\ t.misses = s.misses /\ t.crashes = s.crashes /\ t.wsls = s.wsls
      /\ t.timeouts = s.timeouts /\ t.request = s.request
  BY <1>1 DEF Policy
<1> HIDE DEF t
<1>4. Leads(s, t)
  BY <1>2, <1>3 DEF Leads, PolicyOK, Bounds, InLimits
<1> QED
  BY <1>4 DEF t

\* The user answers whether WSL may be restarted; the limits hold while that is asked.
LEMMA UserAnswersOK ==
  ASSUME NEW s, PolicyOK(s), NEW approved \in BOOLEAN, NEW busy \in BOOLEAN
  PROVE  Leads(s, UserAnswers(s, approved, busy))
<1> DEFINE a == [s EXCEPT !.request = "none"]
<1>1. UserAnswers(s, approved, busy) =
        IF s.request # "user" THEN s
        ELSE IF approved THEN ScheduleWsl(a, busy) ELSE [a EXCEPT !.declined = TRUE]
  BY DEF UserAnswers
<1>2. Leads(s, a) /\ (s.request = "user" => InLimits(a))
  BY RequestOK, Values DEF PolicyOK, Bounds
<1> HIDE DEF a
<1>3. Leads(a, [a EXCEPT !.declined = TRUE])
  BY <1>2, DeclinedOK DEF Leads
<1>4. s.request = "user" => Leads(a, ScheduleWsl(a, busy))
  BY <1>2, ScheduleWslOK DEF Leads
<1> QED
  BY <1>1, <1>2, <1>3, <1>4, StaysOK DEF Leads

\* WSL has been restarted.
LEMMA WslRestartDoneOK ==
  ASSUME NEW s, PolicyOK(s)
  PROVE  Leads(s, WslRestartDone(s))
  BY StaysOK, OutOK DEF WslRestartDone

\* It is known whether other distros run.
LEMMA OtherDistrosOK ==
  ASSUME NEW s, PolicyOK(s), NEW others \in BOOLEAN, NEW busy \in BOOLEAN
  PROVE  Leads(s, OtherDistros(s, others, busy))
<1> DEFINE a == [s EXCEPT !.request = "none"]
           u == [a EXCEPT !.request = "user"]
<1>1. OtherDistros(s, others, busy) \in {s, a} \/ (Up(s) /\ OtherDistros(s, others, busy) \in {u, ScheduleWsl(a, busy)})
  BY DEF OtherDistros
<1>2. Leads(s, a) /\ a.state = s.state /\ (Up(s) => InLimits(a))
  BY RequestOK, Values DEF PolicyOK, Bounds, Up
<1> HIDE DEF a
<1>3. Up(s) => Leads(a, u)
  BY <1>2, RequestOK, Values DEF Leads, Up
<1>4. Up(s) => Leads(a, ScheduleWsl(a, busy))
  BY <1>2, ScheduleWslOK DEF Leads, Up
<1> HIDE DEF u
<1> QED
  BY <1>1, <1>2, <1>3, <1>4, StaysOK DEF Leads

-----------------------------------------------------------------------------
(* The queues.                                                              *)

Exits == [kind : {"exit"}, gen : Gens, cause : Causes]
Jobs == PolicyJobs \cup [kind : {"teardown"}] \cup Exits
Posts ==
  [kind : {"launched"}, outcome : {"attached", "waiting"}]
  \cup [kind : {"launched"}, outcome : {"spawned"}, gen : Gens]
  \cup [kind : {"failed"}, failure : {"no_engine_dir", "spawn_error"}]
  \cup [kind : {"restarted", "distros"}] \cup Exits

Elems(q) == {q[i] : i \in DOMAIN q}
HasExit(q, g) == \E t \in Elems(q) : IsExit(t, g)
HasTeardown(q) == \E t \in Elems(q) : t.kind = "teardown"
IsSpawn(t) == t.kind = "launched" /\ t.outcome = "spawned"

\* What appending, joining and taking the first away make of a queue.
LEMMA AppendElems ==
  ASSUME NEW S, NEW q \in Seq(S), NEW e
  PROVE  Elems(Append(q, e)) = Elems(q) \cup {e}
<1>1. Len(q) \in Nat /\ DOMAIN q = 1..Len(q) /\ DOMAIN Append(q, e) = 1..Len(q) + 1
  OBVIOUS
<1>2. /\ \A i \in 1..Len(q) : Append(q, e)[i] = q[i]
      /\ Append(q, e)[Len(q) + 1] = e
  OBVIOUS
<1>3. \A i \in 1..Len(q) + 1 : i \in 1..Len(q) \/ i = Len(q) + 1
  BY <1>1
<1>4. 1..Len(q) \subseteq 1..Len(q) + 1 /\ Len(q) + 1 \in 1..Len(q) + 1
  BY <1>1
<1> QED
  BY <1>1, <1>2, <1>3, <1>4 DEF Elems

\* What joining two queues makes of them.
LEMMA JoinElems ==
  ASSUME NEW S, NEW q \in Seq(S), NEW r \in Seq(S)
  PROVE  /\ q \o r \in Seq(S) /\ Elems(q \o r) = Elems(q) \cup Elems(r)
         /\ q # <<>> => q \o r # <<>> /\ Head(q \o r) = Head(q)
<1>1. /\ Len(q) \in Nat /\ Len(r) \in Nat /\ DOMAIN q = 1..Len(q) /\ DOMAIN r = 1..Len(r)
      /\ q \o r \in Seq(S) /\ Len(q \o r) = Len(q) + Len(r) /\ DOMAIN (q \o r) = 1..Len(q) + Len(r)
  OBVIOUS
<1>2. /\ \A i \in 1..Len(q) : i \in 1..Len(q) + Len(r) /\ (q \o r)[i] = q[i]
      /\ \A i \in 1..Len(r) : Len(q) + i \in 1..Len(q) + Len(r) /\ (q \o r)[Len(q) + i] = r[i]
  OBVIOUS
<1>3. \A i \in 1..Len(q) + Len(r) : i \in 1..Len(q) \/ \E k \in 1..Len(r) : i = Len(q) + k
  <2> SUFFICES ASSUME NEW i \in 1..Len(q) + Len(r), i \notin 1..Len(q)
               PROVE  \E k \in 1..Len(r) : i = Len(q) + k
    OBVIOUS
  <2>1. i - Len(q) \in 1..Len(r) /\ i = Len(q) + (i - Len(q))
    BY <1>1
  <2> QED
    BY <2>1
<1>4. Elems(q) \cup Elems(r) \subseteq Elems(q \o r)
  BY <1>1, <1>2 DEF Elems
<1>5. Elems(q \o r) \subseteq Elems(q) \cup Elems(r)
  BY <1>1, <1>2, <1>3 DEF Elems
<1>6. q # <<>> => q \o r # <<>> /\ Head(q \o r) = Head(q)
  OBVIOUS
<1> QED
  BY <1>1, <1>4, <1>5, <1>6

\* What taking the first away makes of a queue.
LEMMA TailElems ==
  ASSUME NEW S, NEW q \in Seq(S), q # <<>>
  PROVE  /\ Head(q) \in S /\ Head(q) = q[1] /\ Tail(q) \in Seq(S) /\ Elems(q) = {Head(q)} \cup Elems(Tail(q))
         /\ DOMAIN q = 1..Len(q) /\ Len(q) \in Nat \ {0} /\ DOMAIN Tail(q) = 1..Len(q) - 1
         /\ \A i \in 1..Len(q) - 1 : Tail(q)[i] = q[i + 1]
<1>1. Len(q) \in Nat \ {0} /\ DOMAIN q = 1..Len(q) /\ Tail(q) \in Seq(S) /\ Head(q) \in S /\ Head(q) = q[1]
  OBVIOUS
<1>2. DOMAIN Tail(q) = 1..Len(q) - 1 /\ \A i \in 1..Len(q) - 1 : Tail(q)[i] = q[i + 1]
  OBVIOUS
<1>3. /\ \A i \in 1..Len(q) - 1 : i + 1 \in 1..Len(q)
      /\ 1 \in 1..Len(q) /\ \A i \in 1..Len(q) : i = 1 \/ (i - 1 \in 1..Len(q) - 1 /\ (i - 1) + 1 = i)
  BY <1>1
<1>4. {Head(q)} \cup Elems(Tail(q)) \subseteq Elems(q)
  BY <1>1, <1>2, <1>3 DEF Elems
<1>5. Elems(q) \subseteq {Head(q)} \cup Elems(Tail(q))
  <2> SUFFICES ASSUME NEW i \in 1..Len(q) PROVE q[i] \in {Head(q)} \cup Elems(Tail(q))
    BY <1>1 DEF Elems
  <2>1. CASE i = 1
    BY <1>1, <2>1
  <2>2. CASE i # 1
    <3>1. i - 1 \in 1..Len(q) - 1 /\ (i - 1) + 1 = i
      BY <1>1, <2>2
    <3>2. q[i] = Tail(q)[i - 1]
      BY <1>2, <3>1
    <3> QED
      BY <1>2, <3>1, <3>2 DEF Elems
  <2> QED
    BY <2>1, <2>2
<1> QED
  BY <1>1, <1>2, <1>4, <1>5

\* The kinds of jobs and of posted tasks.
LEMMA JobKinds ==
  /\ \A t \in PolicyJobs : t \in Jobs /\ t.kind \in {"launch", "stop", "stop all", "wsl", "distros"}
  /\ \A t \in Jobs : t.kind = "exit" => t \in Exits
  /\ \A t \in Jobs : t.kind = "distros" => t \in Posts
  /\ [kind |-> "teardown"] \in Jobs
<1>1. \A t \in PolicyJobs : t \in Jobs /\ t.kind \in {"launch", "stop", "stop all", "wsl", "distros"}
  BY DEF PolicyJobs, Jobs
<1>2. \A t \in Jobs : t.kind = "exit" => t \in Exits
  BY DEF Jobs, PolicyJobs
<1>3. \A t \in Jobs : t.kind = "distros" => t \in Posts
  <2> SUFFICES ASSUME NEW t \in Jobs, t.kind = "distros" PROVE t \in Posts
    OBVIOUS
  <2>1. t \in PolicyJobs
    BY DEF Jobs, Exits
  <2>2. t \in [kind : {"restarted", "distros"}]
    BY <2>1 DEF PolicyJobs
  <2> QED
    BY <2>2 DEF Posts
<1>4. [kind |-> "teardown"] \in Jobs
  BY DEF Jobs
<1> QED
  BY <1>1, <1>2, <1>3, <1>4

\* An exit is a job first and a posted task later.
LEMMA ExitKinds ==
  \A t \in Exits : t \in Jobs /\ t \in Posts /\ t.kind = "exit" /\ t.gen \in Gens
  BY DEF Exits, Jobs, Posts

\* The kinds of posted tasks.
LEMMA PostKinds ==
  \A t \in Posts :
    /\ t.kind \in {"launched", "failed", "exit", "restarted", "distros"}
    /\ IsSpawn(t) => t.gen \in Gens
  BY DEF Posts, Exits, IsSpawn

-----------------------------------------------------------------------------
(* The invariant.                                                           *)

Kinds == Alive \cup Causes \cup {"none", "gone"}

\* The types that the other parts need.
Typed ==
  /\ PolicyOK(p) /\ p.out = <<>> /\ jobs \in Seq(Jobs) /\ posts \in Seq(Posts)
  /\ spawned \in 0..MaxSpawned /\ gen \in 0..spawned
  /\ engine \in [Gens -> Kinds]
  /\ \A t \in Elems(posts) : IsSpawn(t) => t.gen <= spawned
  /\ stage \in {"idle", "probed", "spawned", "busy"} /\ quit \in {"no", "asked", "done"}

\* The supervisor thread is with the first of its jobs.
Staged ==
  /\ stage # "idle" => jobs # <<>>
  /\ stage \in {"probed", "spawned"} => Job.kind = "launch"
  /\ stage = "busy" => Job.kind \in {"stop", "stop all", "teardown", "wsl"}

\* Nothing is posted to a companion that quits or whose settings have just come, and it owns no engine.
Dropping ==
  /\ quit # "no" => p = Stopped /\ posts = <<>>
  /\ HasTeardown(jobs) => ~p.owned /\ posts = <<>>

\* An engine is in sight while it runs, until its exit has been reported, and while that report waits
\* for the supervisor thread.
InSight(e, j, g) == e[g] \in Alive \cup Causes \/ HasExit(j, g)
\* The engine the policy owns is in sight, or its exit is posted; of a spawn that is reported the
\* exit can only be posted behind that report.
OwnFollowed == p.owned => gen # 0 /\ (InSight(engine, jobs, gen) \/ HasExit(posts, gen))
SpawnsFollowed ==
  \A i \in DOMAIN posts : IsSpawn(posts[i]) =>
    \/ InSight(engine, jobs, posts[i].gen)
    \/ \E k \in DOMAIN posts : k > i /\ IsExit(posts[k], posts[i].gen)
Followed ==
  /\ OwnFollowed /\ SpawnsFollowed
  /\ stage = "spawned" => spawned # 0 /\ InSight(engine, jobs, spawned)

NoneLeft == quit = "done" /\ Running => HasTeardown(jobs)

SupInv == Typed /\ Staged /\ Dropping /\ Followed /\ NoneLeft

-----------------------------------------------------------------------------
(* What the steps do to it.                                                 *)

\* No engine comes back to life.
Ages(e, f) == \A g \in Gens : f[g] = e[g] \/ (e[g] \in Alive /\ f[g] \in Alive \cup Causes)

WorldStep ==
  /\ engine' \in [Gens -> Kinds] /\ Ages(engine, engine')
  /\ UNCHANGED <<p, gen, jobs, stage, posts, spawned, quit>>

ReportStep ==
  /\ \E g \in Gens : engine[g] \in Causes /\ engine' = [engine EXCEPT ![g] = "gone"] /\ jobs' = Append(jobs, Exit(g))
  /\ UNCHANGED <<p, gen, stage, posts, spawned, quit>>

InputStep ==
  /\ quit = "no" /\ \E s : Leads(p, s) /\ Does(s)
  /\ UNCHANGED <<gen, stage, posts, engine, spawned, quit>>

DispatchStep ==
  /\ posts # <<>> /\ posts' = Tail(posts)
  /\ \E s : /\ PolicyOK(s) /\ Does(s)
            /\ IF IsSpawn(Head(posts)) THEN gen' = Head(posts).gen
               ELSE gen' = gen /\ (s.owned => p.owned /\ ~IsExit(Head(posts), gen))
  /\ UNCHANGED <<stage, engine, spawned, quit>>

\* The supervisor thread goes on with a job, or is done with it.
HoldStep ==
  /\ jobs # <<>> /\ stage' \in {"probed", "busy"}
  /\ stage' = "probed" => Job.kind = "launch"
  /\ stage' = "busy" => Job.kind \in {"stop", "stop all", "teardown", "wsl"}
  /\ UNCHANGED <<p, gen, jobs, posts, engine, spawned, quit>>
SpawnStep ==
  /\ quit = "no" /\ stage = "probed" /\ spawned < MaxSpawned /\ stage' = "spawned"
  /\ spawned' = spawned + 1 /\ engine' = [engine EXCEPT ![spawned + 1] = "booting"]
  /\ UNCHANGED <<p, gen, jobs, posts, quit>>
DoneStep ==
  /\ jobs # <<>> /\ Done
  /\ engine' \in [Gens -> Kinds] /\ Ages(engine, engine')
  /\ HasTeardown(jobs) /\ ~HasTeardown(jobs') => ~Running'
  /\ IF Dropped THEN posts' = posts
     ELSE IF Job.kind = "exit" THEN posts' = Append(posts, Job)
     ELSE \/ posts' = posts
          \/ \E t \in Posts : posts' = Append(posts, t) /\ (IsSpawn(t) => t.gen = spawned /\ stage = "spawned")
  /\ UNCHANGED <<p, gen, spawned, quit>>

QuitStep ==
  /\ quit = "no" /\ quit' = "asked" /\ p' = Stopped /\ gen' = 0 /\ posts' = <<>>
  /\ UNCHANGED <<jobs, stage, engine, spawned>>
QuitStopsStep ==
  /\ quit = "asked" /\ quit' = "done"
  /\ engine' \in [Gens -> Kinds] /\ Ages(engine, engine') /\ (Running' => HasTeardown(jobs))
  /\ UNCHANGED <<p, gen, jobs, stage, posts, spawned>>

SupStep ==
  \/ WorldStep \/ ReportStep \/ InputStep \/ DispatchStep \/ SettingsApplied \/ HoldStep \/ SpawnStep \/ DoneStep
  \/ QuitStep \/ QuitStopsStep

\* What an input hands to the supervisor thread.
LEMMA DoesOK ==
  ASSUME Typed, NEW s, PolicyOK(s), Does(s)
  PROVE  /\ PolicyOK(p') /\ p'.out = <<>> /\ p'.owned = s.owned
         /\ jobs' \in Seq(Jobs) /\ Elems(jobs) \subseteq Elems(jobs') /\ (HasTeardown(jobs') => HasTeardown(jobs))
         /\ jobs # <<>> => jobs' # <<>> /\ Head(jobs') = Job
<1>1. s \in Policy /\ s.out \in Seq(PolicyJobs)
  BY Fields DEF PolicyOK
<1>2. <<>> \in Seq(PolicyJobs)
  OBVIOUS
<1>3. p' = [s EXCEPT !.out = <<>>] /\ jobs' = jobs \o s.out
  BY DEF Does
<1>4. p' \in Policy
  BY <1>1, <1>2, <1>3 DEF Policy
<1>5. /\ p'.owned = s.owned /\ p'.out = <<>> /\ p'.state = s.state /\ p'.misses = s.misses /\ p'.crashes = s.crashes
      /\ p'.wsls = s.wsls /\ p'.timeouts = s.timeouts /\ p'.request = s.request
  BY <1>1, <1>3 DEF Policy
<1>6. PolicyOK(p')
  BY <1>4, <1>5 DEF PolicyOK, Bounds, InLimits
<1>7. jobs \in Seq(Jobs) /\ PolicyJobs \subseteq Jobs
  BY JobKinds DEF Typed
<1>8. s.out \in Seq(Jobs)
  BY <1>1, <1>7
<1>9. /\ jobs' \in Seq(Jobs) /\ Elems(jobs') = Elems(jobs) \cup Elems(s.out)
      /\ jobs # <<>> => jobs' # <<>> /\ Head(jobs') = Job
  BY <1>3, <1>7, <1>8, JoinElems DEF Job
<1>10. \A t \in Elems(s.out) : t.kind # "teardown"
  <2>1. \A t \in Elems(s.out) : t \in PolicyJobs
    BY <1>1 DEF Elems
  <2> QED
    BY <2>1, JobKinds
<1>11. HasTeardown(jobs') => HasTeardown(jobs)
  BY <1>9, <1>10 DEF HasTeardown
<1> QED
  BY <1>5, <1>6, <1>9, <1>11

\* An engine stays in sight while engines only age and no job is lost.
LEMMA InSightKept ==
  ASSUME NEW e, NEW f, NEW j, NEW k, NEW g \in Gens, InSight(e, j, g), Ages(e, f), Elems(j) \subseteq Elems(k)
  PROVE  InSight(f, k, g)
<1>1. e[g] \in Alive \cup Causes => f[g] \in Alive \cup Causes
  BY DEF Ages
<1> QED
  BY <1>1 DEF InSight, HasExit

\* The generations in play are those of engines.
LEMMA GensOfPosts ==
  ASSUME Typed
  PROVE  /\ 0..spawned \subseteq Gens \cup {0} /\ (gen # 0 => gen \in Gens)
         /\ \A i \in DOMAIN posts : posts[i] \in Posts /\ (IsSpawn(posts[i]) => posts[i].gen \in Gens)
<1>1. spawned \in 0..MaxSpawned /\ gen \in 0..spawned
  BY DEF Typed
<1>2. 0..spawned \subseteq Gens \cup {0} /\ (gen # 0 => gen \in Gens)
  BY <1>1, Limits DEF Gens
<1>3. posts \in Seq(Posts)
  BY DEF Typed
<1>4. \A i \in DOMAIN posts : posts[i] \in Posts
  BY <1>3
<1> QED
  BY <1>2, <1>4, PostKinds

\* Where nothing is posted and no engine goes out of sight, all are followed as before.
LEMMA FollowedKept ==
  ASSUME Typed, OwnFollowed, SpawnsFollowed, posts' = posts, p'.owned => p.owned, gen' = gen,
         \A g \in Gens : InSight(engine, jobs, g) => InSight(engine', jobs', g)
  PROVE  OwnFollowed' /\ SpawnsFollowed'
<1>1. OwnFollowed'
  BY GensOfPosts DEF OwnFollowed
<1>2. SpawnsFollowed'
  <2> SUFFICES ASSUME NEW i \in DOMAIN posts, IsSpawn(posts[i])
               PROVE  \/ InSight(engine', jobs', posts[i].gen)
                      \/ \E k \in DOMAIN posts : k > i /\ IsExit(posts[k], posts[i].gen)
    BY DEF SpawnsFollowed
  <2>1. posts[i].gen \in Gens
    BY GensOfPosts
  <2> QED
    BY <2>1 DEF SpawnsFollowed
<1> QED
  BY <1>1, <1>2

\* A task is posted: the exit it may report is the only one that may go out of sight.
LEMMA FollowedPost ==
  ASSUME Typed, OwnFollowed, SpawnsFollowed, p'.owned => p.owned, gen' = gen, NEW t \in Posts, posts' = Append(posts, t),
         \A g \in Gens : InSight(engine, jobs, g) => InSight(engine', jobs', g) \/ IsExit(t, g),
         IsSpawn(t) => InSight(engine', jobs', t.gen)
  PROVE  OwnFollowed' /\ SpawnsFollowed'
<1>1. posts \in Seq(Posts)
  BY DEF Typed
<1> DEFINE n == Len(posts)
<1>2. /\ n \in Nat /\ DOMAIN posts = 1..n /\ DOMAIN posts' = 1..n + 1
      /\ posts'[n + 1] = t /\ \A i \in 1..n : posts'[i] = posts[i]
  BY <1>1
<1> HIDE DEF n
<1>3. 1..n \subseteq 1..n + 1 /\ n + 1 \in 1..n + 1 /\ \A i \in 1..n : n + 1 > i
  BY <1>2
<1>4. \A i \in 1..n + 1 : i \in 1..n \/ i = n + 1
  BY <1>2
<1>5. Elems(posts') = Elems(posts) \cup {t}
  BY <1>1, AppendElems
<1>6. OwnFollowed'
  <2> SUFFICES ASSUME p.owned PROVE gen # 0 /\ (InSight(engine', jobs', gen) \/ HasExit(posts', gen))
    BY DEF OwnFollowed
  <2>1. gen \in Gens /\ gen # 0 /\ (InSight(engine, jobs, gen) \/ HasExit(posts, gen))
    BY GensOfPosts DEF OwnFollowed
  <2> QED
    BY <2>1, <1>5 DEF HasExit
<1>7. SpawnsFollowed'
  <2> SUFFICES ASSUME NEW i \in 1..n + 1, IsSpawn(posts'[i])
               PROVE  \/ InSight(engine', jobs', posts'[i].gen)
                      \/ \E k \in 1..n + 1 : k > i /\ IsExit(posts'[k], posts'[i].gen)
    BY <1>2 DEF SpawnsFollowed
  <2>1. CASE i = n + 1
    BY <1>2, <2>1
  <2>2. CASE i \in 1..n
    <3>1. posts'[i] = posts[i] /\ posts[i].gen \in Gens /\ IsSpawn(posts[i])
      BY <1>2, <2>2, GensOfPosts
    <3>2. \/ InSight(engine, jobs, posts[i].gen)
          \/ \E k \in 1..n : k > i /\ IsExit(posts[k], posts[i].gen)
      BY <1>2, <2>2, <3>1 DEF SpawnsFollowed
    <3>3. CASE InSight(engine, jobs, posts[i].gen)
      <4>1. InSight(engine', jobs', posts[i].gen) \/ IsExit(t, posts[i].gen)
        BY <3>1, <3>3
      <4> QED
        BY <1>2, <1>3, <2>2, <3>1, <4>1
    <3>4. CASE \E k \in 1..n : k > i /\ IsExit(posts[k], posts[i].gen)
      BY <1>2, <1>3, <3>1, <3>4
    <3> QED
      BY <3>2, <3>3, <3>4
  <2> QED
    BY <1>4, <2>1, <2>2
<1> QED
  BY <1>6, <1>7

\* The engine the backend knows does not come back to life.
LEMMA NoneRuns ==
  ASSUME Typed, spawned' = spawned, Ages(engine, engine'), Running'
  PROVE  Running
<1>1. spawned # 0 /\ engine'[spawned] \in Alive
  BY DEF Running
<1>2. spawned \in Gens
  BY <1>1, GensOfPosts DEF Typed
<1>3. engine[spawned] \in Alive
  BY <1>1, <1>2 DEF Ages
<1> QED
  BY <1>1, <1>3 DEF Running

\* Engines and another daemon change.
LEMMA WorldKeeps == ASSUME SupInv, WorldStep PROVE SupInv'
<1> USE DEF WorldStep
<1>1. Typed'
  BY DEF SupInv, Typed
<1>2. Staged'
  BY DEF SupInv, Staged, Job
<1>3. Dropping'
  BY DEF SupInv, Dropping
<1>4. \A g \in Gens : InSight(engine, jobs, g) => InSight(engine', jobs', g)
  BY InSightKept
<1>5. OwnFollowed' /\ SpawnsFollowed'
  BY <1>4, FollowedKept DEF SupInv, Followed
<1>6. Followed'
  BY <1>4, <1>5, GensOfPosts DEF SupInv, Followed, Typed
<1>7. NoneLeft'
  BY NoneRuns DEF SupInv, NoneLeft
<1> QED
  BY <1>1, <1>2, <1>3, <1>6, <1>7 DEF SupInv

\* The exit of an engine goes from the engine to the jobs.
LEMMA ReportKeeps == ASSUME SupInv, ReportStep PROVE SupInv'
<1> USE DEF SupInv
<1>1. PICK g \in Gens : engine[g] \in Causes /\ engine' = [engine EXCEPT ![g] = "gone"] /\ jobs' = Append(jobs, Exit(g))
  BY DEF ReportStep
<1>2. UNCHANGED <<p, gen, stage, posts, spawned, quit>>
  BY DEF ReportStep
<1>3. Exit(g) \in Exits /\ Exit(g).kind = "exit" /\ Exit(g).gen = g
  BY <1>1 DEF Exit, Exits
<1>4. jobs \in Seq(Jobs) /\ Exit(g) \in Jobs
  BY <1>3, ExitKinds DEF Typed
<1>5. /\ jobs' \in Seq(Jobs) /\ Elems(jobs') = Elems(jobs) \cup {Exit(g)}
      /\ jobs # <<>> => jobs' # <<>> /\ Head(jobs') = Head(jobs)
  <2>1. jobs' \in Seq(Jobs) /\ (jobs # <<>> => jobs' # <<>> /\ Head(jobs') = Head(jobs))
    BY <1>1, <1>4
  <2> QED
    BY <1>1, <1>4, <2>1, AppendElems
<1>6. engine \in [Gens -> Kinds]
  BY DEF Typed
<1>7. engine' \in [Gens -> Kinds] /\ \A h \in Gens : h # g => engine'[h] = engine[h]
  BY <1>1, <1>6 DEF Kinds
<1>8. Typed'
  BY <1>2, <1>5, <1>7 DEF Typed
<1>9. Staged'
  BY <1>2, <1>5 DEF Staged, Job
<1>10. HasTeardown(jobs') <=> HasTeardown(jobs)
  BY <1>3, <1>5 DEF HasTeardown
<1>11. Dropping'
  BY <1>2, <1>10 DEF Dropping
<1>12. \A h \in Gens : InSight(engine, jobs, h) => InSight(engine', jobs', h)
  <2> SUFFICES ASSUME NEW h \in Gens, InSight(engine, jobs, h) PROVE InSight(engine', jobs', h)
    OBVIOUS
  <2>1. CASE h = g
    <3>1. IsExit(Exit(g), h)
      BY <1>3, <2>1 DEF IsExit
    <3> QED
      BY <3>1, <1>5 DEF InSight, HasExit
  <2>2. CASE h # g
    BY <1>5, <1>7, <2>2 DEF InSight, HasExit
  <2> QED
    BY <2>1, <2>2
<1>13. OwnFollowed' /\ SpawnsFollowed'
  BY <1>2, <1>12, FollowedKept DEF Followed
<1>14. Followed'
  BY <1>2, <1>12, <1>13, GensOfPosts DEF Followed, Typed
<1>15. Running' => Running
  <2>1. "gone" \notin Alive
    BY DEF Alive
  <2> SUFFICES ASSUME Running' PROVE Running
    OBVIOUS
  <2>2. spawned # 0 /\ engine'[spawned] \in Alive /\ spawned \in Gens
    BY <1>2, GensOfPosts DEF Running, Typed
  <2>3. spawned # g
    BY <1>1, <1>6, <2>1, <2>2
  <2> QED
    BY <1>7, <2>2, <2>3 DEF Running
<1>16. NoneLeft'
  BY <1>2, <1>10, <1>15 DEF NoneLeft
<1> QED
  BY <1>8, <1>9, <1>11, <1>14, <1>16

\* An input of the policy.
LEMMA InputKeeps == ASSUME SupInv, InputStep PROVE SupInv'
<1> USE DEF SupInv
<1>1. PICK s : Leads(p, s) /\ Does(s)
  BY DEF InputStep
<1>2. quit = "no" /\ UNCHANGED <<gen, stage, posts, engine, spawned, quit>>
  BY DEF InputStep
<1>3. /\ PolicyOK(p') /\ p'.out = <<>> /\ (p'.owned => p.owned)
      /\ jobs' \in Seq(Jobs) /\ Elems(jobs) \subseteq Elems(jobs') /\ (HasTeardown(jobs') => HasTeardown(jobs))
      /\ jobs # <<>> => jobs' # <<>> /\ Head(jobs') = Job
  BY <1>1, DoesOK DEF Leads
<1>4. Typed'
  BY <1>2, <1>3 DEF Typed
<1>5. Staged'
  BY <1>2, <1>3 DEF Staged, Job
<1>6. Dropping'
  BY <1>2, <1>3 DEF Dropping
<1>7. \A g \in Gens : InSight(engine, jobs, g) => InSight(engine', jobs', g)
  BY <1>2, <1>3 DEF InSight, HasExit
<1>8. OwnFollowed' /\ SpawnsFollowed'
  BY <1>2, <1>3, <1>7, FollowedKept DEF Followed
<1>9. Followed'
  BY <1>2, <1>7, <1>8, GensOfPosts DEF Followed, Typed
<1>10. NoneLeft'
  BY <1>2 DEF NoneLeft
<1> QED
  BY <1>4, <1>5, <1>6, <1>9, <1>10

\* A posted task is handled: the exit of a spawn that is reported is still behind it.
LEMMA DispatchKeeps == ASSUME SupInv, DispatchStep PROVE SupInv'
<1> USE DEF SupInv
<1> DEFINE h == Head(posts)
<1>1. PICK s : /\ PolicyOK(s) /\ Does(s)
               /\ IF IsSpawn(h) THEN gen' = h.gen ELSE gen' = gen /\ (s.owned => p.owned /\ ~IsExit(h, gen))
  BY DEF DispatchStep
<1>2. posts # <<>> /\ posts' = Tail(posts) /\ UNCHANGED <<stage, engine, spawned, quit>>
  BY DEF DispatchStep
<1>3. /\ PolicyOK(p') /\ p'.out = <<>> /\ p'.owned = s.owned
      /\ jobs' \in Seq(Jobs) /\ Elems(jobs) \subseteq Elems(jobs') /\ (HasTeardown(jobs') => HasTeardown(jobs))
      /\ jobs # <<>> => jobs' # <<>> /\ Head(jobs') = Job
  BY <1>1, DoesOK
<1>4. posts \in Seq(Posts)
  BY DEF Typed
<1> DEFINE n == Len(posts)
<1>5. /\ h \in Posts /\ h = posts[1] /\ Tail(posts) \in Seq(Posts) /\ Elems(posts) = {h} \cup Elems(Tail(posts))
      /\ DOMAIN posts = 1..n /\ n \in Nat \ {0} /\ DOMAIN Tail(posts) = 1..n - 1
      /\ \A i \in 1..n - 1 : Tail(posts)[i] = posts[i + 1]
  BY <1>2, <1>4, TailElems
<1>6. quit = "no" /\ ~HasTeardown(jobs)
  BY <1>2 DEF Dropping, Typed
<1>7. IsSpawn(h) => h.gen \in Gens /\ h.gen \in 0..spawned
  <2>1. IsSpawn(h) => h.gen \in Gens /\ h.gen <= spawned
    BY <1>5, PostKinds DEF Typed
  <2> QED
    BY <2>1, Limits DEF Gens, Typed
<1> HIDE DEF h, n
<1>8. Typed'
  BY <1>1, <1>2, <1>3, <1>5, <1>7 DEF Typed
<1>9. Staged'
  BY <1>2, <1>3 DEF Staged, Job
<1>10. Dropping'
  BY <1>2, <1>3, <1>6 DEF Dropping
<1>11. \A g \in Gens : InSight(engine, jobs, g) => InSight(engine', jobs', g)
  BY <1>2, <1>3 DEF InSight, HasExit
<1>12. OwnFollowed'
  <2> SUFFICES ASSUME s.owned PROVE gen' # 0 /\ (InSight(engine', jobs', gen') \/ HasExit(Tail(posts), gen'))
    BY <1>2, <1>3 DEF OwnFollowed
  <2>1. CASE IsSpawn(h)
    <3>1. \/ InSight(engine, jobs, h.gen)
          \/ \E k \in 1..n : k > 1 /\ IsExit(posts[k], h.gen)
      BY <1>5, <2>1 DEF Followed, SpawnsFollowed
    <3>2. CASE InSight(engine, jobs, h.gen)
      BY <1>1, <1>7, <1>11, <2>1, <3>2, Limits DEF Gens
    <3>3. CASE \E k \in 1..n : k > 1 /\ IsExit(posts[k], h.gen)
      <4>1. PICK k \in 1..n : k > 1 /\ IsExit(posts[k], h.gen)
        BY <3>3
      <4>2. k - 1 \in 1..n - 1 /\ (k - 1) + 1 = k
        BY <1>5, <4>1
      <4>3. Tail(posts)[k - 1] = posts[k]
        BY <1>5, <4>2
      <4>4. HasExit(Tail(posts), h.gen)
        BY <1>5, <4>1, <4>2, <4>3 DEF HasExit, Elems
      <4>5. h.gen # 0
        BY <1>7, <2>1, Limits DEF Gens
      <4> QED
        BY <1>1, <2>1, <4>4, <4>5
    <3> QED
      BY <3>1, <3>2, <3>3
  <2>2. CASE ~IsSpawn(h)
    <3>1. gen' = gen /\ p.owned /\ ~IsExit(h, gen)
      BY <1>1, <2>2
    <3>2. gen # 0 /\ (InSight(engine, jobs, gen) \/ HasExit(posts, gen))
      BY <3>1 DEF Followed, OwnFollowed
    <3>3. HasExit(posts, gen) => HasExit(Tail(posts), gen)
      BY <1>5, <3>1 DEF HasExit
    <3> QED
      BY <1>11, <3>1, <3>2, <3>3, GensOfPosts
  <2> QED
    BY <2>1, <2>2
<1>13. SpawnsFollowed'
  <2> SUFFICES ASSUME NEW i \in 1..n - 1, IsSpawn(posts[i + 1])
               PROVE  \/ InSight(engine', jobs', posts[i + 1].gen)
                      \/ \E k \in 1..n - 1 : k > i /\ IsExit(posts[k + 1], posts[i + 1].gen)
    BY <1>2, <1>5 DEF SpawnsFollowed
  <2>1. i + 1 \in 1..n
    BY <1>5
  <2>2. posts[i + 1].gen \in Gens
    BY <1>5, <2>1, GensOfPosts
  <2>3. \/ InSight(engine, jobs, posts[i + 1].gen)
        \/ \E k \in 1..n : k > i + 1 /\ IsExit(posts[k], posts[i + 1].gen)
    BY <1>5, <2>1 DEF Followed, SpawnsFollowed
  <2>4. CASE \E k \in 1..n : k > i + 1 /\ IsExit(posts[k], posts[i + 1].gen)
    <3>1. PICK k \in 1..n : k > i + 1 /\ IsExit(posts[k], posts[i + 1].gen)
      BY <2>4
    <3>2. k - 1 \in 1..n - 1 /\ k - 1 > i /\ (k - 1) + 1 = k
      BY <1>5, <3>1
    <3> QED
      BY <3>1, <3>2
  <2> QED
    BY <1>11, <2>2, <2>3, <2>4
<1>14. Followed'
  BY <1>2, <1>11, <1>12, <1>13, GensOfPosts DEF Followed, Typed
<1>15. NoneLeft'
  BY <1>2, <1>6 DEF NoneLeft
<1> QED
  BY <1>8, <1>9, <1>10, <1>14, <1>15

\* Other settings: the new policy owns nothing, and the teardown is queued behind the old jobs.
LEMMA SettingsKeep == ASSUME SupInv, SettingsApplied PROVE SupInv'
<1> USE DEF SupInv
<1> DEFINE b == Begin(Stopped)
           t == [kind |-> "teardown"]
           q == Append(jobs, t)
<1>1. /\ quit = "no" /\ p' = [b EXCEPT !.out = <<>>] /\ gen' = 0 /\ jobs' = q \o b.out
      /\ posts' = <<>> /\ UNCHANGED <<stage, engine, spawned, quit>>
  BY DEF SettingsApplied, world
<1>2. b \in Policy /\ PolicyOK(b) /\ b.owned = FALSE
  <2>1. PolicyOK(b) /\ ~b.owned
    BY BeginOK
  <2>2. b.owned \in BOOLEAN /\ b \in Policy
    BY <2>1, Fields DEF PolicyOK
  <2> QED
    BY <2>1, <2>2
<1> HIDE DEF b
<1>3. b.out \in Seq(PolicyJobs) /\ <<>> \in Seq(PolicyJobs)
  BY <1>2, Fields
<1>4. p' \in Policy
  BY <1>1, <1>2, <1>3 DEF Policy
<1>5. /\ p'.owned = b.owned /\ p'.out = <<>> /\ p'.state = b.state /\ p'.misses = b.misses /\ p'.crashes = b.crashes
      /\ p'.wsls = b.wsls /\ p'.timeouts = b.timeouts /\ p'.request = b.request
  BY <1>1, <1>2 DEF Policy
<1>6. PolicyOK(p') /\ p'.owned = FALSE
  BY <1>2, <1>4, <1>5 DEF PolicyOK, Bounds, InLimits
<1>7. jobs \in Seq(Jobs) /\ t \in Jobs /\ b.out \in Seq(Jobs) /\ t.kind = "teardown"
  <2>1. PolicyJobs \subseteq Jobs /\ t \in Jobs
    BY JobKinds
  <2>2. b.out \in Seq(Jobs)
    BY <1>3, <2>1
  <2>3. jobs \in Seq(Jobs)
    BY DEF Typed
  <2>4. t.kind = "teardown"
    OBVIOUS
  <2> QED
    BY <2>1, <2>2, <2>3, <2>4
<1> HIDE DEF t
<1>8. /\ q \in Seq(Jobs) /\ q # <<>> /\ (jobs # <<>> => Head(q) = Head(jobs)) /\ Elems(q) = Elems(jobs) \cup {t}
  <2>1. q \in Seq(Jobs) /\ q # <<>> /\ (jobs # <<>> => Head(q) = Head(jobs))
    BY <1>7
  <2> QED
    BY <1>7, <2>1, AppendElems
<1> HIDE DEF q
<1>9. jobs' \in Seq(Jobs) /\ Elems(jobs') = Elems(q) \cup Elems(b.out) /\ jobs' # <<>> /\ Head(jobs') = Head(q)
  BY <1>1, <1>7, <1>8, JoinElems
<1>10. Elems(posts') = {} /\ posts' \in Seq(Posts)
  BY <1>1 DEF Elems
<1>11. Typed'
  BY <1>1, <1>5, <1>6, <1>9, <1>10 DEF Typed
<1>12. Staged'
  BY <1>1, <1>8, <1>9 DEF Staged, Job
<1>13. Dropping'
  BY <1>1, <1>6 DEF Dropping
<1>14. \A g \in Gens : InSight(engine, jobs, g) => InSight(engine', jobs', g)
  BY <1>1, <1>8, <1>9 DEF InSight, HasExit
<1>15. OwnFollowed' /\ SpawnsFollowed'
  BY <1>1, <1>6 DEF OwnFollowed, SpawnsFollowed
<1>16. Followed'
  BY <1>1, <1>14, <1>15, GensOfPosts DEF Followed, Typed
<1>17. NoneLeft'
  BY <1>1 DEF NoneLeft
<1> QED
  BY <1>11, <1>12, <1>13, <1>16, <1>17

\* The supervisor thread goes on with its job.
LEMMA HoldKeeps == ASSUME SupInv, HoldStep PROVE SupInv'
<1> USE DEF SupInv, HoldStep
<1>1. Typed'
  BY DEF Typed
<1>2. Staged'
  BY DEF Staged, Job
<1>3. Dropping'
  BY DEF Dropping
<1>4. OwnFollowed' /\ SpawnsFollowed'
  BY DEF Followed, OwnFollowed, SpawnsFollowed
<1>5. Followed'
  BY <1>4 DEF Followed
<1>6. NoneLeft'
  BY DEF NoneLeft, Running
<1> QED
  BY <1>1, <1>2, <1>3, <1>5, <1>6

\* An engine is spawned.
LEMMA SpawnKeeps == ASSUME SupInv, SpawnStep PROVE SupInv'
<1> USE DEF SupInv
<1>1. /\ quit = "no" /\ stage = "probed" /\ spawned < MaxSpawned /\ stage' = "spawned"
      /\ spawned' = spawned + 1 /\ engine' = [engine EXCEPT ![spawned + 1] = "booting"]
      /\ UNCHANGED <<p, gen, jobs, posts, quit>>
  BY DEF SpawnStep
<1>2. /\ spawned \in 0..MaxSpawned /\ spawned + 1 \in Gens /\ spawned + 1 \in 0..MaxSpawned /\ gen \in 0..spawned + 1
      /\ spawned + 1 # 0 /\ engine \in [Gens -> Kinds]
  BY <1>1, Limits DEF Typed, Gens
<1>3. /\ engine' \in [Gens -> Kinds] /\ engine'[spawned + 1] \in Alive
      /\ \A g \in Gens : g # spawned + 1 => engine'[g] = engine[g]
  BY <1>1, <1>2 DEF Kinds, Alive
<1>4. \A t \in Elems(posts) : IsSpawn(t) => t.gen <= spawned + 1
  <2> SUFFICES ASSUME NEW t \in Elems(posts), IsSpawn(t) PROVE t.gen <= spawned + 1
    OBVIOUS
  <2>1. posts \in Seq(Posts) /\ t.gen <= spawned
    BY DEF Typed
  <2>2. t \in Posts
    BY <2>1 DEF Elems
  <2>3. t.gen \in Gens
    BY <2>2, PostKinds
  <2> QED
    BY <1>2, <2>1, <2>3, Limits DEF Gens
<1>5. Typed'
  BY <1>1, <1>2, <1>3, <1>4 DEF Typed
<1>6. Staged'
  BY <1>1 DEF Staged, Job
<1>7. Dropping'
  BY <1>1 DEF Dropping
<1>8. \A g \in Gens : InSight(engine, jobs, g) => InSight(engine', jobs', g)
  BY <1>1, <1>3 DEF InSight
<1>9. OwnFollowed' /\ SpawnsFollowed'
  BY <1>1, <1>8, FollowedKept DEF Followed
<1>10. Followed'
  BY <1>1, <1>2, <1>3, <1>9 DEF Followed, InSight
<1>11. NoneLeft'
  BY <1>1 DEF NoneLeft
<1> QED
  BY <1>5, <1>6, <1>7, <1>10, <1>11

\* The supervisor thread is done with a job, and posts what it has to say unless that is dropped.
LEMMA DoneKeeps == ASSUME SupInv, DoneStep PROVE SupInv'
<1> USE DEF SupInv
<1>1. /\ jobs # <<>> /\ jobs' = Tail(jobs) /\ stage' = "idle"
      /\ engine' \in [Gens -> Kinds] /\ Ages(engine, engine')
      /\ HasTeardown(jobs) /\ ~HasTeardown(jobs') => ~Running'
      /\ UNCHANGED <<p, gen, spawned, quit>>
  BY DEF DoneStep, Done
<1>2. \/ Dropped /\ posts' = posts
      \/ ~Dropped /\ Job.kind = "exit" /\ posts' = Append(posts, Job)
      \/ ~Dropped /\ Job.kind # "exit" /\ posts' = posts
      \/ /\ ~Dropped /\ Job.kind # "exit"
         /\ \E t \in Posts : posts' = Append(posts, t) /\ (IsSpawn(t) => t.gen = spawned /\ stage = "spawned")
  BY DEF DoneStep
<1>3. Dropped <=> quit # "no" \/ HasTeardown(jobs)
  BY DEF Dropped, Replaced, HasTeardown, Elems
<1>4. /\ Job \in Jobs /\ jobs' \in Seq(Jobs) /\ Elems(jobs) = {Job} \cup Elems(jobs')
  BY <1>1, TailElems DEF Typed, Job
<1>5. Job.kind = "exit" => Job \in Exits /\ Job \in Posts
  BY <1>4, JobKinds, ExitKinds
<1>6. HasTeardown(jobs') => HasTeardown(jobs)
  BY <1>4 DEF HasTeardown
<1>7. NoneLeft'
  <2> SUFFICES ASSUME quit = "done", Running' PROVE HasTeardown(jobs')
    BY <1>1 DEF NoneLeft
  <2>1. Running
    BY <1>1, NoneRuns
  <2> QED
    BY <1>1, <2>1 DEF NoneLeft
<1>8. Staged'
  BY <1>1 DEF Staged
<1>9. \A g \in Gens : InSight(engine, jobs, g) => InSight(engine', jobs', g) \/ IsExit(Job, g)
  <2> SUFFICES ASSUME NEW g \in Gens, InSight(engine, jobs, g), ~IsExit(Job, g) PROVE InSight(engine', jobs', g)
    OBVIOUS
  <2>1. HasExit(jobs, g) => HasExit(jobs', g)
    BY <1>4 DEF HasExit
  <2>2. engine[g] \in Alive \cup Causes => engine'[g] \in Alive \cup Causes
    BY <1>1 DEF Ages
  <2> QED
    BY <2>1, <2>2 DEF InSight
<1>10. CASE Dropped
  <2>1. posts' = posts /\ posts = <<>> /\ ~p.owned
    BY <1>2, <1>3, <1>10 DEF Dropping, Stopped
  <2>2. Typed'
    BY <1>1, <1>4, <2>1 DEF Typed
  <2>3. Dropping'
    BY <1>1, <1>6, <2>1 DEF Dropping
  <2>4. Followed'
    BY <1>1, <2>1 DEF Followed, OwnFollowed, SpawnsFollowed
  <2> QED
    BY <1>7, <1>8, <2>2, <2>3, <2>4
<1>11. CASE ~Dropped
  <2>1. quit = "no" /\ ~HasTeardown(jobs)
    BY <1>3, <1>11
  <2>2. Dropping'
    BY <1>1, <1>6, <2>1 DEF Dropping
  <2>3. CASE posts' = posts /\ Job.kind # "exit"
    <3>1. \A g \in Gens : InSight(engine, jobs, g) => InSight(engine', jobs', g)
      BY <1>9, <2>3 DEF IsExit
    <3>2. OwnFollowed' /\ SpawnsFollowed'
      BY <1>1, <2>3, <3>1, FollowedKept DEF Followed
    <3>3. Followed'
      BY <1>1, <3>2 DEF Followed
    <3>4. Typed'
      BY <1>1, <1>4, <2>3 DEF Typed
    <3> QED
      BY <1>7, <1>8, <2>2, <3>3, <3>4
  <2>4. ASSUME NEW t \in Posts, posts' = Append(posts, t), IsSpawn(t) => t.gen = spawned /\ stage = "spawned",
               Job.kind = "exit" => t = Job
        PROVE  SupInv'
    <3>1. posts \in Seq(Posts) /\ spawned \in 0..MaxSpawned
      BY DEF Typed
    <3>2. posts' \in Seq(Posts) /\ Elems(posts') = Elems(posts) \cup {t}
      BY <2>4, <3>1, AppendIn, AppendElems
    <3>3. IsSpawn(t) => t.gen <= spawned
      BY <2>4, <3>1, Limits
    <3>4. Typed'
      BY <1>1, <1>4, <3>2, <3>3 DEF Typed
    <3>5. \A g \in Gens : InSight(engine, jobs, g) => InSight(engine', jobs', g) \/ IsExit(t, g)
      BY <1>9, <2>4 DEF IsExit
    <3>6. IsSpawn(t) => InSight(engine', jobs', t.gen)
      <4> SUFFICES ASSUME IsSpawn(t) PROVE InSight(engine', jobs', t.gen)
        OBVIOUS
      <4>1. t.gen = spawned /\ spawned # 0 /\ InSight(engine, jobs, spawned) /\ t.gen \in Gens
        BY <2>4, PostKinds DEF Followed
      <4>2. ~IsExit(t, spawned)
        BY DEF IsExit, IsSpawn
      <4> QED
        BY <3>5, <4>1, <4>2
    <3>7. OwnFollowed' /\ SpawnsFollowed'
      BY <1>1, <2>4, <3>5, <3>6, FollowedPost DEF Followed
    <3>8. Followed'
      BY <1>1, <3>7 DEF Followed
    <3> QED
      BY <1>7, <1>8, <2>2, <3>4, <3>8
  <2>5. CASE Job.kind = "exit"
    <3>1. posts' = Append(posts, Job) /\ Job \in Posts
      BY <1>2, <1>5, <1>11, <2>5
    <3>2. ~IsSpawn(Job)
      BY <2>5 DEF IsSpawn
    <3> QED
      BY <2>4, <3>1, <3>2
  <2> QED
    BY <1>2, <1>11, <2>3, <2>4, <2>5
<1> QED
  BY <1>10, <1>11

\* The user quits.
LEMMA QuitKeeps == ASSUME SupInv, QuitStep PROVE SupInv'
<1> USE DEF SupInv, QuitStep
<1>1. PolicyOK(Stopped) /\ Stopped.out = <<>> /\ Stopped.owned = FALSE
  BY BeginOK DEF Stopped
<1>2. Elems(<<>>) = {} /\ <<>> \in Seq(Posts)
  BY DEF Elems
<1>3. Typed'
  BY <1>1, <1>2, Limits DEF Typed
<1>4. Staged'
  BY DEF Staged, Job
<1>5. Dropping'
  BY <1>1 DEF Dropping
<1>6. Followed'
  BY <1>1 DEF Followed, OwnFollowed, SpawnsFollowed
<1>7. NoneLeft'
  BY DEF NoneLeft
<1> QED
  BY <1>3, <1>4, <1>5, <1>6, <1>7

\* The quit sequence has stopped the engine.
LEMMA QuitStopsKeeps == ASSUME SupInv, QuitStopsStep PROVE SupInv'
<1> USE DEF SupInv, QuitStopsStep
<1>1. Typed'
  BY DEF Typed
<1>2. Staged'
  BY DEF Staged, Job
<1>3. Dropping'
  BY DEF Dropping
<1>4. \A g \in Gens : InSight(engine, jobs, g) => InSight(engine', jobs', g)
  BY InSightKept
<1>5. OwnFollowed' /\ SpawnsFollowed'
  BY <1>4, FollowedKept DEF Followed
<1>6. Followed'
  BY <1>4, <1>5, GensOfPosts DEF Followed, Typed
<1>7. NoneLeft'
  BY DEF NoneLeft
<1> QED
  BY <1>1, <1>2, <1>3, <1>6, <1>7

-----------------------------------------------------------------------------
(* The actions as steps.                                                    *)

\* Engines and another daemon come and go.
LEMMA EngineMoves ==
  ASSUME Typed, NEW g \in Gens, NEW what \in Alive \cup Causes, engine[g] \in Alive, Becomes(g, what)
  PROVE  engine' \in [Gens -> Kinds] /\ Ages(engine, engine')
<1>1. engine \in [Gens -> Kinds] /\ engine' = [engine EXCEPT ![g] = what]
  BY DEF Typed, Becomes
<1>2. what \in Kinds
  BY DEF Kinds
<1>3. engine'[g] = what /\ \A h \in Gens : h # g => engine'[h] = engine[h]
  BY <1>1
<1>4. engine' \in [Gens -> Kinds]
  BY <1>1, <1>2
<1> QED
  BY <1>3, <1>4 DEF Ages

\* The steps of engines, of another daemon and of the prober.
LEMMA WorldSteps ==
  ASSUME Typed, \/ \E g \in Gens : Binds(g) \/ GetsReady(g) \/ EngineEnds(g)
                \/ OtherChanges
                \/ Probes
  PROVE  WorldStep
<1>1. CASE \E g \in Gens : Binds(g) \/ GetsReady(g) \/ EngineEnds(g)
  <2>1. PICK g \in Gens : Binds(g) \/ GetsReady(g) \/ EngineEnds(g)
    BY <1>1
  <2>2. /\ UNCHANGED <<p, gen, jobs, stage, posts, spawned, quit>> /\ engine[g] \in Alive
        /\ \E what \in {"loading", "ready", "conflict", "crashed"} : Becomes(g, what)
    BY <2>1 DEF Binds, GetsReady, EngineEnds, thread, Alive
  <2>3. {"loading", "ready", "conflict", "crashed"} \subseteq Alive \cup Causes
    BY DEF Alive, Causes
  <2> QED
    BY <2>2, <2>3, EngineMoves DEF WorldStep
<1>2. CASE OtherChanges
  <2>1. UNCHANGED <<p, gen, jobs, stage, posts, spawned, quit, engine>>
    BY <1>2 DEF OtherChanges, thread
  <2> QED
    BY <2>1 DEF WorldStep, Ages, Typed
<1>3. CASE Probes
  <2>1. UNCHANGED <<p, gen, jobs, stage, posts, spawned, quit, engine>>
    BY <1>3 DEF Probes, thread, world
  <2> QED
    BY <2>1 DEF WorldStep, Ages, Typed
<1> QED
  BY <1>1, <1>2, <1>3

\* The exit of an engine is noticed.
LEMMA ReportSteps == ASSUME NEW g \in Gens, ExitReported(g) PROVE ReportStep
  BY DEF ExitReported, Reports, Becomes, ReportStep

\* A stop of the engine that the backend knows, or of every engine: the ones that run end.
LEMMA AllEndAges ==
  ASSUME Typed, NEW ours \in Causes,
         \/ AllEnd(ours)
         \/ engine' = [g \in Gens |-> IF engine[g] \in Alive THEN ours ELSE engine[g]]
  PROVE  /\ engine' \in [Gens -> Kinds] /\ Ages(engine, engine')
         /\ spawned' = spawned => ~Running'
<1>1. engine \in [Gens -> Kinds] /\ ours \in Kinds /\ ours \notin Alive
  BY DEF Typed, Kinds, Causes, Alive
<1>2. \A g \in Gens : \/ engine'[g] = ours /\ engine[g] \in Alive
                      \/ /\ engine'[g] = engine[g] /\ (g = spawned => ~Running)
  <2>1. CASE AllEnd(ours)
    <3>1. \A g \in Gens : engine'[g] = IF engine[g] \in {"loading", "ready"} \/ (g = spawned /\ Running) THEN ours
                                       ELSE engine[g]
      BY <2>1 DEF AllEnd
    <3>2. {"loading", "ready"} \subseteq Alive
      BY DEF Alive
    <3>3. \A g \in Gens : g = spawned /\ Running => engine[g] \in Alive
      BY DEF Running
    <3> QED
      BY <3>1, <3>2, <3>3
  <2>2. CASE engine' = [g \in Gens |-> IF engine[g] \in Alive THEN ours ELSE engine[g]]
    BY <2>2 DEF Running
  <2> QED
    BY <2>1, <2>2
<1>3. DOMAIN engine' = Gens /\ engine' = [g \in Gens |-> engine'[g]]
  BY DEF AllEnd
<1>4. engine' \in [Gens -> Kinds]
  <2>1. \A g \in Gens : engine'[g] \in Kinds
    BY <1>1, <1>2
  <2> QED
    BY <1>3, <2>1
<1>5. Ages(engine, engine')
  BY <1>2 DEF Ages
<1>6. spawned' = spawned => ~Running'
  <2> SUFFICES ASSUME spawned' = spawned, Running' PROVE FALSE
    OBVIOUS
  <2>1. spawned # 0 /\ engine'[spawned] \in Alive /\ spawned \in Gens
    BY GensOfPosts DEF Running, Typed
  <2>2. engine'[spawned] = engine[spawned] /\ ~Running
    BY <1>1, <1>2, <2>1
  <2> QED
    BY <2>1, <2>2 DEF Running
<1> QED
  BY <1>4, <1>5, <1>6

\* The inputs of the policy.
LEMMA InputSteps ==
  ASSUME SupInv, Tick \/ IdleAtLast \/ AudioFails \/ UserCommands \/ OnProbe \/ OnShutdown
  PROVE  InputStep
<1>1. PolicyOK(p) /\ (p.state # "failed" => InLimits(p))
  BY DEF SupInv, Typed, PolicyOK, Bounds
<1>2. quit = "no" /\ UNCHANGED <<gen, stage, posts, engine, spawned, quit>>
  BY DEF Tick, IdleAtLast, AudioFails, UserCommands, OnProbe, OnShutdown, Unposted, world
<1>3. \E s : Leads(p, s) /\ Does(s)
  <2>1. CASE Tick
    BY <1>1, <2>1, BackoffOverOK, GraceOverOK DEF Tick
  <2>2. CASE IdleAtLast
    BY <1>1, <2>2, RestartWslByItselfOK DEF IdleAtLast, Up
  <2>3. CASE AudioFails
    <3>1. PICK fresh \in BOOLEAN : Does(WantWsl(IF fresh THEN [p EXCEPT !.declined = FALSE] ELSE p))
      BY <2>3 DEF AudioFails
    <3>2. Leads(p, [p EXCEPT !.declined = FALSE]) /\ Leads(p, p)
      BY <1>1, DeclinedOK, StaysOK
    <3>3. /\ Leads(p, WantWsl([p EXCEPT !.declined = FALSE]))
          /\ Leads(p, WantWsl(p))
      BY <3>2, WantWslOK DEF Leads
    <3> QED
      BY <3>1, <3>3
  <2>4. CASE UserCommands
    <3>1. \/ Does(UserRestartsEngine(p))
          \/ Does(UserRestartsWsl(p))
          \/ \E approved, busy \in BOOLEAN : Does(UserAnswers(p, approved, busy))
      BY <2>4 DEF UserCommands
    <3> QED
      BY <1>1, <3>1, UserRestartsEngineOK, UserRestartsWslOK, UserAnswersOK
  <2>5. CASE OnProbe
    BY <1>1, <2>5, ProbedOK DEF OnProbe
  <2>6. CASE OnShutdown
    BY <1>1, <2>6, DaemonShutdownOK DEF OnShutdown
  <2> QED
    BY <2>1, <2>2, <2>3, <2>4, <2>5, <2>6
<1> QED
  BY <1>2, <1>3 DEF InputStep

\* A breaker's window moves on.
LEMMA WindowsSteps == ASSUME SupInv, WindowsMove PROVE InputStep
<1> DEFINE c == [p EXCEPT !.crashes = @ - 1]
           w == [p EXCEPT !.wsls = @ - 1]
<1>1. PolicyOK(p) /\ p \in Policy /\ p.out = <<>> /\ jobs \in Seq(Jobs)
  BY DEF SupInv, Typed, PolicyOK
<1>2. p.crashes \in 0..CrashLimit + 1 /\ p.wsls \in 0..WslLimit + 1
  BY <1>1, Fields
<1>3. (p.crashes > 0 /\ p' = c) \/ (p.wsls > 0 /\ p' = w)
  BY DEF WindowsMove
<1>4. jobs' = jobs /\ UNCHANGED <<gen, stage, posts, engine, spawned, quit>>
  BY DEF WindowsMove, Unposted, world
<1>5. quit = "no"
  <2>1. Stopped.crashes = 0 /\ Stopped.wsls = 0
    BY DEF Stopped
  <2> QED
    BY <1>3, <2>1 DEF SupInv, Dropping
<1>6. p' \in Policy /\ p'.out = <<>> /\ Leads(p, p')
  <2>1. CASE p.crashes > 0 /\ p' = c
    <3>1. p.crashes - 1 \in 0..CrashLimit + 1
      BY <1>2, <2>1, Limits
    <3>2. c \in Policy
      BY <1>1, <3>1 DEF Policy
    <3>3. /\ c.out = <<>> /\ c.owned = p.owned /\ c.state = p.state /\ c.request = p.request /\ c.misses = p.misses
          /\ c.crashes <= p.crashes /\ c.wsls = p.wsls /\ c.timeouts = p.timeouts
      BY <1>1, <1>2 DEF Policy
    <3> HIDE DEF c
    <3>4. p.misses \in Int /\ p.wsls \in Int /\ p.timeouts \in Int
      BY <1>1, Fields
    <3>5. Leads(p, c)
      BY <1>1, <3>2, <3>3, <3>4, MinorOK
    <3> QED
      BY <2>1, <3>2, <3>3, <3>5
  <2>2. CASE p.wsls > 0 /\ p' = w
    <3>1. p.wsls - 1 \in 0..WslLimit + 1
      BY <1>2, <2>2, Limits
    <3>2. w \in Policy
      BY <1>1, <3>1 DEF Policy
    <3>3. /\ w.out = <<>> /\ w.owned = p.owned /\ w.state = p.state /\ w.request = p.request /\ w.misses = p.misses
          /\ w.wsls <= p.wsls /\ w.crashes = p.crashes /\ w.timeouts = p.timeouts
      BY <1>1, <1>2 DEF Policy
    <3> HIDE DEF w
    <3>4. p.misses \in Int /\ p.crashes \in Int /\ p.timeouts \in Int
      BY <1>1, Fields
    <3>5. Leads(p, w)
      BY <1>1, <3>2, <3>3, <3>4, MinorOK
    <3> QED
      BY <2>2, <3>2, <3>3, <3>5
  <2> QED
    BY <1>3, <2>1, <2>2
<1>7. Does(p')
  <2>1. [p' EXCEPT !.out = <<>>] = p'
    BY <1>6 DEF Policy
  <2>2. jobs \o p'.out = jobs
    BY <1>1, <1>6
  <2> QED
    BY <1>4, <2>1, <2>2 DEF Does
<1> QED
  BY <1>4, <1>5, <1>6, <1>7 DEF InputStep

\* A task that another thread posted is handled.
LEMMA DispatchSteps == ASSUME SupInv, Dispatch PROVE DispatchStep
<1> DEFINE h == Head(posts)
<1>1. PolicyOK(p) /\ posts \in Seq(Posts)
  BY DEF SupInv, Typed
<1>2. posts # <<>> /\ posts' = Tail(posts) /\ UNCHANGED <<stage, engine, spawned, quit>>
  BY DEF Dispatch, world
<1>3. /\ gen' = IF IsSpawn(h) THEN h.gen ELSE gen
      /\ IF h.kind = "distros" THEN \E others, busy \in BOOLEAN : Does(OtherDistros(p, others, busy))
         ELSE Does(Handled(h))
  BY DEF Dispatch, IsSpawn
<1>4. h \in Posts
  BY <1>1, <1>2, TailElems
<1> HIDE DEF h
<1>5. h.kind \in {"launched", "failed", "exit", "restarted", "distros"}
  BY <1>4, PostKinds
<1>6. \E s : /\ PolicyOK(s) /\ Does(s)
             /\ ~IsSpawn(h) => (s.owned => p.owned /\ ~IsExit(h, gen))
  <2>1. CASE h.kind = "launched"
    <3>1. Does(Launched(p, h.outcome))
      BY <1>3, <2>1 DEF Handled
    <3>2. PolicyOK(Launched(p, h.outcome)) /\ (Launched(p, h.outcome).owned => p.owned \/ h.outcome = "spawned")
      BY <1>1, LaunchedOK
    <3> QED
      BY <2>1, <3>1, <3>2 DEF IsSpawn, IsExit
  <2>2. CASE h.kind = "failed"
    <3>1. Does(LaunchFailed(p, h.failure))
      BY <1>3, <2>2 DEF Handled
    <3>2. Leads(p, LaunchFailed(p, h.failure))
      BY <1>1, LaunchFailedOK
    <3> QED
      BY <2>2, <3>1, <3>2 DEF Leads, IsExit
  <2>3. CASE h.kind = "exit" /\ h.gen = gen
    <3>1. Does(ProcessExited(p, h.cause = "conflict"))
      BY <1>3, <2>3 DEF Handled
    <3>2. (h.cause = "conflict") \in BOOLEAN
      OBVIOUS
    <3>3. /\ PolicyOK(ProcessExited(p, h.cause = "conflict"))
          /\ ~ProcessExited(p, h.cause = "conflict").owned
      BY <1>1, <3>2, ProcessExitedOK
    <3> QED
      BY <3>1, <3>3
  <2>4. CASE h.kind = "exit" /\ h.gen # gen
    <3>1. Does(p)
      BY <1>3, <2>4 DEF Handled
    <3> QED
      BY <1>1, <2>4, <3>1 DEF IsExit
  <2>5. CASE h.kind = "restarted"
    <3>1. Does(WslRestartDone(p))
      BY <1>3, <2>5 DEF Handled
    <3>2. Leads(p, WslRestartDone(p))
      BY <1>1, WslRestartDoneOK
    <3> QED
      BY <2>5, <3>1, <3>2 DEF Leads, IsExit
  <2>6. CASE h.kind = "distros"
    <3>1. PICK others \in BOOLEAN, busy \in BOOLEAN : Does(OtherDistros(p, others, busy))
      BY <1>3, <2>6
    <3>2. Leads(p, OtherDistros(p, others, busy))
      BY <1>1, OtherDistrosOK
    <3> QED
      BY <2>6, <3>1, <3>2 DEF Leads, IsExit
  <2> QED
    BY <1>5, <2>1, <2>2, <2>3, <2>4, <2>5, <2>6
<1> QED
  BY <1>2, <1>3, <1>6 DEF DispatchStep, h

\* What becomes of the jobs when the supervisor thread is done with one that is no teardown.
LEMMA PlainDone ==
  ASSUME Typed, jobs # <<>>, Job.kind # "teardown", jobs' = Tail(jobs)
  PROVE  HasTeardown(jobs) => HasTeardown(jobs')
<1>1. Elems(jobs) = {Job} \cup Elems(Tail(jobs))
  BY TailElems DEF Typed, Job
<1> QED
  BY <1>1 DEF HasTeardown

\* The jobs of the supervisor thread, one after the other: a launch attaches or looks into the distro.
LEMMA LaunchSteps == ASSUME SupInv, LaunchBegins PROVE HoldStep \/ DoneStep
<1>1. /\ jobs # <<>> /\ Job.kind = "launch"
      /\ UNCHANGED <<p, gen, engine, spawned, quit>>
  BY DEF LaunchBegins, Idle, world
<1>2. engine' \in [Gens -> Kinds] /\ Ages(engine, engine')
  BY <1>1 DEF SupInv, Typed, Ages
<1>3. \/ Dropped /\ Done /\ posts' = posts
      \/ ~Dropped /\ Done /\ posts' = Append(posts, [kind |-> "launched", outcome |-> "attached"])
      \/ stage' = "probed" /\ jobs' = jobs /\ posts' = posts
  BY DEF LaunchBegins, Posted
<1>4. /\ [kind |-> "launched", outcome |-> "attached"] \in Posts
      /\ ~IsSpawn([kind |-> "launched", outcome |-> "attached"])
  BY DEF Posts, IsSpawn
<1>5. Done => (HasTeardown(jobs) => HasTeardown(jobs'))
  BY <1>1, PlainDone DEF SupInv, Done
<1>6. CASE stage' = "probed" /\ jobs' = jobs /\ posts' = posts
  BY <1>1, <1>6 DEF HoldStep
<1>7. CASE Done
  BY <1>1, <1>2, <1>3, <1>4, <1>5, <1>7 DEF DoneStep, Done
<1> QED
  BY <1>3, <1>6, <1>7

\* It spawns nothing.
LEMMA SpawnsNothingSteps == ASSUME SupInv, SpawnsNothing PROVE DoneStep
<1>1. /\ jobs # <<>> /\ Job.kind = "launch" /\ Done
      /\ UNCHANGED <<p, gen, engine, spawned, quit>>
  BY DEF SpawnsNothing, SupInv, Staged, world
<1>2. engine' \in [Gens -> Kinds] /\ Ages(engine, engine')
  BY <1>1 DEF SupInv, Typed, Ages
<1>3. \E t \in Posts : ~IsSpawn(t) /\ Posted(t)
  <2>1. /\ [kind |-> "launched", outcome |-> "waiting"] \in Posts
        /\ ~IsSpawn([kind |-> "launched", outcome |-> "waiting"])
    BY DEF Posts, IsSpawn
  <2>2. ASSUME NEW f \in {"no_engine_dir", "spawn_error"}
        PROVE  [kind |-> "failed", failure |-> f] \in Posts /\ ~IsSpawn([kind |-> "failed", failure |-> f])
    BY DEF Posts, IsSpawn
  <2> QED
    BY <2>1, <2>2 DEF SpawnsNothing
<1>4. HasTeardown(jobs) => HasTeardown(jobs')
  BY <1>1, PlainDone DEF SupInv, Done
<1> QED
  BY <1>1, <1>2, <1>3, <1>4 DEF DoneStep, Posted

\* It spawns, unless the companion quits.
LEMMA SpawnsSteps == ASSUME SupInv, Spawns PROVE SpawnStep \/ DoneStep
<1>1. /\ stage = "probed" /\ jobs # <<>> /\ Job.kind = "launch" /\ spawned < MaxSpawned
      /\ UNCHANGED <<p, gen, posts, quit>>
  BY DEF Spawns, SupInv, Staged
<1>2. CASE MaySpawn
  BY <1>1, <1>2 DEF Spawns, SpawnStep, MaySpawn, Becomes
<1>3. CASE ~MaySpawn
  <2>1. Done /\ UNCHANGED <<spawned, engine>> /\ Dropped
    BY <1>3 DEF Spawns, MaySpawn, Dropped
  <2>2. engine' \in [Gens -> Kinds] /\ Ages(engine, engine')
    BY <2>1 DEF SupInv, Typed, Ages
  <2>3. HasTeardown(jobs) => HasTeardown(jobs')
    BY <1>1, <2>1, PlainDone DEF SupInv, Done
  <2> QED
    BY <1>1, <2>1, <2>2, <2>3 DEF DoneStep
<1> QED
  BY <1>2, <1>3

\* The spawn is reported.
LEMMA SpawnReportedSteps == ASSUME SupInv, SpawnReported PROVE DoneStep
<1> DEFINE t == [kind |-> "launched", outcome |-> "spawned", gen |-> spawned]
<1>1. /\ stage = "spawned" /\ jobs # <<>> /\ Job.kind = "launch" /\ Done /\ Posted(t)
      /\ UNCHANGED <<p, gen, engine, spawned, quit>>
  BY DEF SpawnReported, SupInv, Staged, world
<1>2. engine' \in [Gens -> Kinds] /\ Ages(engine, engine')
  BY <1>1 DEF SupInv, Typed, Ages
<1>3. spawned \in Gens
  BY <1>1, GensOfPosts DEF SupInv, Followed, Typed
<1>4. t \in Posts /\ t.gen = spawned
  BY <1>3 DEF Posts
<1>5. HasTeardown(jobs) => HasTeardown(jobs')
  BY <1>1, PlainDone DEF SupInv, Done
<1> HIDE DEF t
<1> QED
  BY <1>1, <1>2, <1>4, <1>5 DEF DoneStep, Posted

\* A stop or a teardown begins, or has nothing to do.
LEMMA StopBeginsSteps == ASSUME SupInv, StopBegins PROVE HoldStep \/ DoneStep
<1>1. /\ jobs # <<>> /\ Job.kind \in {"stop", "stop all", "teardown"}
      /\ UNCHANGED <<p, gen, posts, engine, spawned, quit>>
      /\ \/ stage' = "busy" /\ UNCHANGED jobs
         \/ Done /\ ~Running
  BY DEF StopBegins, Idle, Stopping, world
<1>2. engine' \in [Gens -> Kinds] /\ Ages(engine, engine')
  BY <1>1 DEF SupInv, Typed, Ages
<1>3. CASE stage' = "busy" /\ UNCHANGED jobs
  BY <1>1, <1>3 DEF HoldStep
<1>4. CASE Done /\ ~Running
  <2>1. ~Running'
    BY <1>1, <1>4 DEF Running
  <2> QED
    BY <1>1, <1>2, <1>4, <2>1 DEF DoneStep
<1> QED
  BY <1>1, <1>3, <1>4

\* A stop or a teardown ends every engine that runs.
LEMMA StopEndsSteps == ASSUME SupInv, StopEnds PROVE DoneStep
<1>1. /\ jobs # <<>> /\ Job.kind \in {"stop", "stop all", "teardown"} /\ Done /\ AllEnd("stopped")
      /\ UNCHANGED <<p, gen, posts, spawned, quit>>
  BY DEF StopEnds, Stopping, SupInv, Staged
<1>2. "stopped" \in Causes
  BY DEF Causes
<1>3. engine' \in [Gens -> Kinds] /\ Ages(engine, engine') /\ ~Running'
  BY <1>1, <1>2, AllEndAges DEF SupInv
<1> QED
  BY <1>1, <1>3 DEF DoneStep

\* A restart of WSL begins, or is dropped.
LEMMA WslBeginsSteps == ASSUME SupInv, WslBegins PROVE HoldStep \/ DoneStep
<1>1. /\ jobs # <<>> /\ Job.kind = "wsl"
      /\ UNCHANGED <<p, gen, posts, engine, spawned, quit>>
      /\ \/ stage' = "busy" /\ UNCHANGED jobs
         \/ Done
  BY DEF WslBegins, Idle, world
<1>2. engine' \in [Gens -> Kinds] /\ Ages(engine, engine')
  BY <1>1 DEF SupInv, Typed, Ages
<1>3. CASE stage' = "busy" /\ UNCHANGED jobs
  BY <1>1, <1>3 DEF HoldStep
<1>4. CASE Done
  <2>1. HasTeardown(jobs) => HasTeardown(jobs')
    BY <1>1, <1>4, PlainDone DEF SupInv, Done
  <2> QED
    BY <1>1, <1>2, <1>4, <2>1 DEF DoneStep
<1> QED
  BY <1>1, <1>3, <1>4

\* A restart of WSL ends every engine that runs.
LEMMA WslEndsSteps == ASSUME SupInv, WslEnds PROVE DoneStep
<1>1. /\ jobs # <<>> /\ Job.kind = "wsl" /\ Done /\ Posted([kind |-> "restarted"])
      /\ engine' = [g \in Gens |-> IF engine[g] \in Alive THEN "vm" ELSE engine[g]]
      /\ UNCHANGED <<p, gen, spawned, quit>>
  BY DEF WslEnds, SupInv, Staged
<1>2. "vm" \in Causes
  BY DEF Causes
<1>3. engine' \in [Gens -> Kinds] /\ Ages(engine, engine') /\ ~Running'
  BY <1>1, <1>2, AllEndAges DEF SupInv
<1>4. [kind |-> "restarted"] \in Posts /\ ~IsSpawn([kind |-> "restarted"])
  BY DEF Posts, IsSpawn
<1> QED
  BY <1>1, <1>3, <1>4 DEF DoneStep, Posted

\* An exit or the list of distros is handed over.
LEMMA PassesSteps == ASSUME SupInv, Passes PROVE DoneStep
<1>1. /\ jobs # <<>> /\ Job.kind \in {"exit", "distros"} /\ Done /\ Posted(Job)
      /\ UNCHANGED <<p, gen, engine, spawned, quit>>
  BY DEF Passes, Idle, world
<1>2. engine' \in [Gens -> Kinds] /\ Ages(engine, engine')
  BY <1>1 DEF SupInv, Typed, Ages
<1>3. HasTeardown(jobs) => HasTeardown(jobs')
  BY <1>1, PlainDone DEF SupInv, Done
<1>4. Job \in Jobs
  BY <1>1, TailElems DEF SupInv, Typed, Job
<1>5. Job.kind = "distros" => Job \in Posts /\ ~IsSpawn(Job)
  BY <1>4, JobKinds DEF IsSpawn
<1> QED
  BY <1>1, <1>2, <1>3, <1>5 DEF DoneStep, Posted

\* The quit sequence stops the engine the backend knows, unless a teardown will.
LEMMA QuitStopsSteps == ASSUME SupInv, QuitStops PROVE QuitStopsStep
<1>1. quit = "asked" /\ quit' = "done" /\ UNCHANGED <<p, gen, jobs, stage, posts, spawned>>
  BY DEF QuitStops, thread
<1>2. CASE Running /\ ~Replaced
  <2>1. AllEnd("stopped") /\ "stopped" \in Causes
    BY <1>2 DEF QuitStops, Causes
  <2> QED
    BY <1>1, <2>1, AllEndAges DEF QuitStopsStep, SupInv
<1>3. CASE ~(Running /\ ~Replaced)
  <2>1. engine' = engine
    BY <1>3 DEF QuitStops
  <2>2. Running' => Replaced
    BY <1>1, <1>3, <2>1 DEF Running
  <2>3. Replaced => HasTeardown(jobs)
    BY DEF Replaced, HasTeardown, Elems
  <2> QED
    BY <1>1, <2>1, <2>2, <2>3 DEF QuitStopsStep, SupInv, Typed, Ages
<1> QED
  BY <1>2, <1>3

\* Every step of Next is one of these.
LEMMA SupSteps == ASSUME SupInv, Next PROVE SupStep
<1>1. CASE \E g \in Gens : Binds(g) \/ GetsReady(g) \/ EngineEnds(g)
  BY <1>1, WorldSteps DEF SupStep, SupInv
<1>2. CASE \E g \in Gens : ExitReported(g)
  BY <1>2, ReportSteps DEF SupStep
<1>3. CASE OtherChanges \/ Probes
  BY <1>3, WorldSteps DEF SupStep, SupInv
<1>4. CASE Dispatch
  BY <1>4, DispatchSteps DEF SupStep
<1>5. CASE Tick \/ IdleAtLast \/ AudioFails \/ UserCommands \/ OnProbe \/ OnShutdown
  BY <1>5, InputSteps DEF SupStep
<1>6. CASE WindowsMove
  BY <1>6, WindowsSteps DEF SupStep
<1>7. CASE SettingsApplied
  BY <1>7 DEF SupStep
<1>8. CASE SupervisorThread
  BY <1>8, LaunchSteps, SpawnsNothingSteps, SpawnsSteps, SpawnReportedSteps, StopBeginsSteps, StopEndsSteps,
     WslBeginsSteps, WslEndsSteps, PassesSteps DEF SupStep, SupervisorThread
<1>9. CASE Quit
  BY <1>9 DEF SupStep, Quit, QuitStep, thread, world
<1>10. CASE QuitStops
  BY <1>10, QuitStopsSteps DEF SupStep
<1> QED
  BY <1>1, <1>2, <1>3, <1>4, <1>5, <1>6, <1>7, <1>8, <1>9, <1>10 DEF Next

-----------------------------------------------------------------------------
(* The theorems.                                                            *)

\* The invariant holds at the start,
LEMMA SupStarts == ASSUME Init PROVE SupInv
<1> DEFINE b == Begin(Stopped)
<1>1. /\ p = [b EXCEPT !.out = <<>>] /\ jobs = b.out /\ gen = 0 /\ stage = "idle" /\ posts = <<>> /\ spawned = 0
      /\ quit = "no" /\ engine = [g \in Gens |-> "none"]
  BY DEF Init
<1>2. b \in Policy /\ PolicyOK(b) /\ b.owned = FALSE /\ b.out \in Seq(PolicyJobs) /\ <<>> \in Seq(PolicyJobs)
  BY BeginOK, Fields DEF PolicyOK
<1> HIDE DEF b
<1>3. p \in Policy
  BY <1>1, <1>2 DEF Policy
<1>4. /\ p.owned = b.owned /\ p.out = <<>> /\ p.state = b.state /\ p.misses = b.misses /\ p.crashes = b.crashes
      /\ p.wsls = b.wsls /\ p.timeouts = b.timeouts /\ p.request = b.request
  BY <1>1, <1>2 DEF Policy
<1>5. PolicyOK(p) /\ p.owned = FALSE
  BY <1>2, <1>3, <1>4 DEF PolicyOK, Bounds, InLimits
<1>6. PolicyJobs \subseteq Jobs /\ \A t \in PolicyJobs : t.kind # "teardown"
  BY JobKinds
<1>7. jobs \in Seq(Jobs) /\ ~HasTeardown(jobs)
  <2>1. jobs \in Seq(Jobs)
    BY <1>1, <1>2, <1>6
  <2>2. \A t \in Elems(jobs) : t \in PolicyJobs
    BY <1>1, <1>2 DEF Elems
  <2> QED
    BY <2>1, <2>2, <1>6 DEF HasTeardown
<1>8. Elems(posts) = {} /\ posts \in Seq(Posts)
  BY <1>1 DEF Elems
<1>9. engine \in [Gens -> Kinds]
  BY <1>1 DEF Kinds
<1>10. Typed
  BY <1>1, <1>4, <1>5, <1>7, <1>8, <1>9, Limits DEF Typed
<1>11. Staged
  BY <1>1 DEF Staged
<1>12. Dropping
  BY <1>1, <1>7 DEF Dropping
<1>13. Followed
  BY <1>1, <1>5 DEF Followed, OwnFollowed, SpawnsFollowed
<1>14. NoneLeft
  BY <1>1 DEF NoneLeft
<1> QED
  BY <1>10, <1>11, <1>12, <1>13, <1>14 DEF SupInv

\* in a step of nothing,
LEMMA SupStutters == ASSUME SupInv, UNCHANGED vars PROVE SupInv'
<1>1. /\ p' = p /\ gen' = gen /\ jobs' = jobs /\ stage' = stage /\ posts' = posts
      /\ engine' = engine /\ spawned' = spawned /\ quit' = quit
  BY DEF vars, thread, world
<1>2. Typed'
  BY <1>1 DEF SupInv, Typed
<1>3. Staged'
  BY <1>1 DEF SupInv, Staged, Job
<1>4. Dropping'
  BY <1>1 DEF SupInv, Dropping
<1>5. Followed'
  BY <1>1 DEF SupInv, Followed, OwnFollowed, SpawnsFollowed
<1>6. NoneLeft'
  BY <1>1 DEF SupInv, NoneLeft, Running
<1> QED
  BY <1>2, <1>3, <1>4, <1>5, <1>6 DEF SupInv

\* and throughout.
LEMMA SupInvariant == Spec => []SupInv
<1>1. Init => SupInv
  BY SupStarts
<1>2. SupInv /\ [Next]_vars => SupInv'
  <2> SUFFICES ASSUME SupInv, [Next]_vars PROVE SupInv'
    OBVIOUS
  <2>1. CASE Next
    <3>1. SupStep
      BY <2>1, SupSteps
    <3> QED
      BY <3>1, WorldKeeps, ReportKeeps, InputKeeps, DispatchKeeps, SettingsKeep, HoldKeeps, SpawnKeeps, DoneKeeps,
         QuitKeeps, QuitStopsKeeps DEF SupStep
  <2>2. CASE UNCHANGED vars
    BY <2>2, SupStutters
  <2> QED
    BY <2>1, <2>2
<1> QED
  BY <1>1, <1>2, PTL DEF Spec

\* What only the type invariant is about.
RestTypes ==
  /\ seen \in {"none", "down", "starting", "ready"} /\ news \in {"none", "user_quit", "restart"}
  /\ other \in {"none", "loading", "ready"} /\ events \in 0..MaxEvents

\* The fields that no proof needs keep their types.
LEMMA RestStep == ASSUME RestTypes, [Next]_vars PROVE RestTypes'
<1>1. CASE UNCHANGED vars
  BY <1>1 DEF RestTypes, vars, world
<1>2. CASE Next
  <2>1. Event => events' \in 0..MaxEvents
    BY Limits DEF Event, RestTypes
  <2>2. events' \in 0..MaxEvents
    BY <1>2, <2>1 DEF RestTypes, Next, SupervisorThread, Binds, GetsReady, EngineEnds, ExitReported,
       OtherChanges, Dispatch, Tick, IdleAtLast, AudioFails, WindowsMove, UserCommands, SettingsApplied, Probes,
       OnProbe, OnShutdown, LaunchBegins, SpawnsNothing, Spawns, SpawnReported, StopBegins, StopEnds, WslBegins,
       WslEnds, Passes, Quit, QuitStops
  <2>3. seen' \in {"none", "down", "starting", "ready"}
    BY <1>2 DEF RestTypes, Next, SupervisorThread, Binds, GetsReady, EngineEnds, ExitReported,
       OtherChanges, Dispatch, Tick, IdleAtLast, AudioFails, WindowsMove, UserCommands, SettingsApplied, Probes,
       OnProbe, OnShutdown, LaunchBegins, SpawnsNothing, Spawns, SpawnReported, StopBegins, StopEnds, WslBegins,
       WslEnds, Passes, Quit, QuitStops, Unposted
  <2>4. news' \in {"none", "user_quit", "restart"}
    BY <1>2 DEF RestTypes, Next, SupervisorThread, Binds, GetsReady, EngineEnds, ExitReported,
       OtherChanges, Dispatch, Tick, IdleAtLast, AudioFails, WindowsMove, UserCommands, SettingsApplied, Probes,
       OnProbe, OnShutdown, LaunchBegins, SpawnsNothing, Spawns, SpawnReported, StopBegins, StopEnds, WslBegins,
       WslEnds, Passes, Quit, QuitStops, Unposted,
       Asked, Announced
  <2>5. other' \in {"none", "loading", "ready"}
    BY <1>2 DEF RestTypes, Next, SupervisorThread, Binds, GetsReady, EngineEnds, ExitReported,
       OtherChanges, Dispatch, Tick, IdleAtLast, AudioFails, WindowsMove, UserCommands, SettingsApplied, Probes,
       OnProbe, OnShutdown, LaunchBegins, SpawnsNothing, Spawns, SpawnReported, StopBegins, StopEnds, WslBegins,
       WslEnds, Passes, Quit, QuitStops, Unposted,
       world, AllEnd
  <2> QED
    BY <2>2, <2>3, <2>4, <2>5 DEF RestTypes
<1> QED
  BY <1>1, <1>2

\* Type correctness: every field has its type, the counts of misses, crashes, WSL restarts and start
\* timeouts stay within one step of the policy's limits, and the generation is one that was spawned.
THEOREM SupervisorTypeCorrect == Spec => []TypeOK
<1>1. Init => RestTypes
  BY Limits DEF Init, RestTypes
<1>2. Spec => []RestTypes
  BY <1>1, RestStep, PTL DEF Spec
<1>3. SupInv /\ RestTypes => TypeOK
  <2> SUFFICES ASSUME SupInv, RestTypes PROVE TypeOK
    OBVIOUS
  <2>1. p \in Policy /\ p.misses < MissLimit /\ p.out = <<>>
    BY DEF SupInv, Typed, PolicyOK
  <2>2. /\ p.state \in States /\ {p.owned, p.expect, p.relaunch, p.attached, p.declined} \subseteq BOOLEAN
        /\ p.request \in Requests
    BY <2>1, Fields
  <2>3. /\ p.misses \in 0..MissLimit - 1 /\ p.crashes \in 0..CrashLimit + 1 /\ p.wsls \in 0..WslLimit + 1
        /\ p.timeouts \in 0..TimeoutLimit
    BY <2>1, Fields, Limits
  <2>4. gen \in 0..spawned /\ spawned \in 0..MaxSpawned /\ stage \in {"idle", "probed", "spawned", "busy"}
        /\ quit \in {"no", "asked", "done"} /\ engine \in [Gens -> Kinds]
    BY DEF SupInv, Typed
  <2> QED
    BY <2>1, <2>2, <2>3, <2>4 DEF TypeOK, RestTypes, States, Requests, Kinds
<1> QED
  BY <1>2, <1>3, SupInvariant, PTL

\* An engine that the policy takes for its own is alive, or its exit is on its way to the policy
\* (ProcessExited drops the exits of older generations): it never waits for one that is gone unseen.
THEOREM OwnEngineIsFollowed == Spec => []OwnedIsAlive
<1>1. SupInv => OwnedIsAlive
  <2> SUFFICES ASSUME SupInv, p.owned, ~(engine[gen] \in Alive) PROVE ExitComes(gen)
    BY DEF OwnedIsAlive
  <2>1. InSight(engine, jobs, gen) \/ HasExit(posts, gen)
    BY DEF SupInv, Followed, OwnFollowed
  <2>2. (\E i \in DOMAIN jobs : IsExit(jobs[i], gen)) <=> HasExit(jobs, gen)
    BY DEF HasExit, Elems
  <2>3. (\E i \in DOMAIN posts : IsExit(posts[i], gen)) <=> HasExit(posts, gen)
    BY DEF HasExit, Elems
  <2> QED
    BY <2>1, <2>2, <2>3 DEF ExitComes, InSight
<1> QED
  BY <1>1, SupInvariant, PTL

\* Once the quit sequence is done, the engine the backend knows does not run and none is spawned, unless
\* the teardown of a backend that was just replaced is still to stop it.
THEOREM NoEngineIsLeft == Spec => []QuitStopsEngine
<1>1. SupInv => QuitStopsEngine
  BY DEF SupInv, NoneLeft, QuitStopsEngine, HasTeardown, Elems, Replaced
<1> QED
  BY <1>1, SupInvariant, PTL
=============================================================================
