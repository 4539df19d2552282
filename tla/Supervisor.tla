----------------------------- MODULE Supervisor -----------------------------
(***************************************************************************)
(* The companion's supervision of its engine: SupervisorPolicy             *)
(* (app/companion/supervisor/policy.py) on the dispatcher, the supervisor  *)
(* thread that carries out its actions one after the other                 *)
(* (app/companion/controller.py), the prober, the user, and the processes  *)
(* (app/companion/supervisor/backend.py, wsl.py).                          *)
(*                                                                         *)
(* The mode that can do most is modelled, wsl2: it spawns and it restarts  *)
(* WSL.  No clock: a backoff, a grace time or a breaker's window may be    *)
(* over at any moment.  What asks for a WSL restart (audio down twice, a   *)
(* microphone error, a microphone that appears) is one observation.        *)
(***************************************************************************)
EXTENDS Integers, Sequences

CONSTANTS
  MissLimit,     \* missed_probes_limit
  CrashLimit,    \* of engine_breaker
  WslLimit,      \* of wsl_breaker
  TimeoutLimit,  \* start_timeout_limit
  WslPolicy,     \* "never", "ask" or "auto"
  MaxSpawned,    \* bound: engines spawned
  MaxEvents      \* bound: commands of the user, faults, and what other programs do

ASSUME SupervisorAssumption ==
  /\ {MissLimit, CrashLimit, WslLimit, TimeoutLimit, MaxSpawned, MaxEvents} \subseteq Nat \ {0}
  /\ WslPolicy \in {"never", "ask", "auto"}

Gens == 1..MaxSpawned
Alive == {"booting", "loading", "ready"}
Causes == {"crashed", "conflict", "stopped", "vm"}   \* why an engine ended

VARIABLES
  p,        \* the SupervisorPolicy
  gen,      \* the controller's _generation
  jobs,     \* what the supervisor thread has to do
  stage,    \* how far it is with the first of them: "idle", "probed", "spawned" or "busy"
  posts,    \* tasks posted to the dispatcher by other threads
  seen,     \* a probe's result on its way to the dispatcher, or "none"
  news,     \* a shutdown event on its way through the poller: its reason, or "none"
  engine,   \* the engines this app spawned: "none", alive, why it ended, or "gone" once that is reported
  spawned,  \* how many; the backend only knows the last one
  other,    \* a daemon this app did not spawn: "none", "loading" or "ready"
  quit,     \* "no", "asked" or "done"
  events    \* how many bounded ones so far

thread == <<jobs, stage>>
world == <<engine, spawned, other>>
vars == <<p, gen, thread, posts, seen, news, world, quit, events>>

-----------------------------------------------------------------------------
(* The policy: its inputs map its state to the next one, with the jobs they *)
(* ask for in `out`.  A WSL restart that was asked for waits for the list   *)
(* of running distros, for the user's answer, or for the engine to be idle. *)

Stopped ==
  [ state |-> "stopped", owned |-> FALSE, expect |-> FALSE, relaunch |-> FALSE, misses |-> 0,
    crashes |-> 0, wsls |-> 0, timeouts |-> 0, attached |-> FALSE,
    request |-> "none", declined |-> FALSE, out |-> <<>> ]

Out(s, kind) == [s EXCEPT !.out = Append(@, [kind |-> kind])]
Up(s) == s.state \in {"healthy", "degraded"}
Over(s) == s.state \in {"stopped", "failed"}

ClearRequest(s) == [s EXCEPT !.request = "none", !.declined = FALSE]
ResetRun(s) ==
  [ClearRequest(s) EXCEPT !.misses = 0, !.expect = FALSE, !.relaunch = FALSE, !.timeouts = 0, !.attached = FALSE]
ResetBreaker(s) == [s EXCEPT !.crashes = 0, !.wsls = 0, !.timeouts = 0, !.attached = FALSE]

External(s) == [s EXCEPT !.state = "restarting"]

Fail(s) ==
  [ClearRequest(s) EXCEPT !.state = "failed", !.misses = 0, !.expect = s.owned, !.relaunch = FALSE]

Crashed(s) ==
  LET c == [s EXCEPT !.crashes = @ + 1, !.misses = 0, !.expect = s.owned, !.relaunch = FALSE]
  IN  Out(IF c.crashes > CrashLimit THEN Fail(c) ELSE [c EXCEPT !.state = "backoff"], "stop")

RestartWsl(s) ==
  Out([ClearRequest(s) EXCEPT !.state = "restarting", !.misses = 0, !.expect = s.owned, !.relaunch = FALSE], "wsl")
RestartWslByItself(s) ==
  LET c == [ClearRequest(s) EXCEPT !.wsls = @ + 1]
  IN  IF c.wsls > WslLimit THEN Fail(c) ELSE RestartWsl(c)

ScheduleWsl(s, busy) == IF busy THEN [s EXCEPT !.request = "idle"] ELSE RestartWslByItself(s)

WantWsl(s) ==
  IF ~Up(s) \/ s.request # "none" \/ s.declined \/ WslPolicy = "never" THEN s
  ELSE IF WslPolicy = "ask" THEN [s EXCEPT !.request = "user"]
  ELSE Out([s EXCEPT !.request = "distros"], "distros")

Begin(s) == IF s.state # "stopped" THEN s ELSE Out([ResetRun(s) EXCEPT !.state = "starting"], "launch")

Launched(s, outcome) ==
  IF Over(s) THEN s
  ELSE [s EXCEPT !.owned = outcome = "spawned", !.expect = FALSE, !.relaunch = FALSE]

LaunchFailed(s, failure) ==
  IF Over(s) THEN s
  ELSE IF failure = "no_engine_dir" THEN [s EXCEPT !.owned = FALSE, !.state = "failed"]
  ELSE Crashed([s EXCEPT !.owned = FALSE])

ProcessExited(s, inUse) ==
  LET e == [s EXCEPT !.owned = FALSE]
  IN  IF ~s.owned THEN s
      ELSE IF s.expect
      THEN IF s.relaunch /\ s.state = "restarting"
           THEN Out([e EXCEPT !.expect = FALSE, !.relaunch = FALSE], "launch")
           ELSE [e EXCEPT !.expect = FALSE]
      ELSE IF Over(s) \/ s.state = "backoff" THEN e
      ELSE IF inUse /\ ~s.attached THEN Out([External(e) EXCEPT !.attached = TRUE], "launch")
      ELSE Crashed(e)

MissedUncounted(s) == [s EXCEPT !.state = "degraded"]
MissedOnceMore(s) ==
  LET m == [s EXCEPT !.misses = @ + 1]
  IN  IF m.misses > MissLimit THEN Crashed(m) ELSE [m EXCEPT !.state = "degraded"]
Missed(s) ==
  LET m == [s EXCEPT !.misses = @ + 1]
  IN  IF m.misses >= MissLimit THEN Crashed(m) ELSE [m EXCEPT !.state = "degraded"]

Healthy(s) == [s EXCEPT !.state = "healthy", !.misses = 0, !.timeouts = 0, !.attached = FALSE]

Probed(s, kind) ==
  CASE Over(s) -> s
    [] ~Over(s) /\ kind = "ready" ->
         IF Up(s) THEN [s EXCEPT !.state = "healthy", !.misses = 0] ELSE Healthy(s)
    [] Up(s) /\ kind = "starting" -> [External(s) EXCEPT !.misses = 0]
    [] Up(s) /\ kind = "down" -> Missed(s)
    [] OTHER -> s

BackoffOver(s) == Out([s EXCEPT !.state = "restarting"], "launch")

GraceOver(s) ==
  LET t == [s EXCEPT !.timeouts = @ + 1]
  IN  IF t.timeouts >= TimeoutLimit THEN Out(Fail(t), "stop") ELSE Crashed(t)

DaemonShutdown(s, reason) ==
  IF s.expect \/ s.state \notin {"starting", "healthy", "degraded"} THEN s
  ELSE IF reason = "user_quit" THEN [ResetRun(s) EXCEPT !.state = "stopped"]
  ELSE [External(s) EXCEPT !.expect = s.owned, !.relaunch = s.owned \/ @]

UserRestartsEngine(s) ==
  Out(Out([ClearRequest(ResetBreaker(s)) EXCEPT
             !.state = "restarting", !.misses = 0, !.expect = s.owned, !.relaunch = FALSE],
          "stop all"), "launch")

UserRestartsWsl(s) == RestartWsl(ResetBreaker(s))

UserAnswers(s, approved, busy) ==
  LET a == [s EXCEPT !.request = "none"]
  IN  IF s.request # "user" THEN s
      ELSE IF approved THEN ScheduleWsl(a, busy) ELSE [a EXCEPT !.declined = TRUE]

WslRestartDone(s) == IF s.state = "restarting" THEN Out(s, "launch") ELSE s

OtherDistros(s, others, busy) ==
  LET a == [s EXCEPT !.request = "none"]
  IN  CASE s.request # "distros" -> s
        [] s.request = "distros" /\ ~Up(s) -> a
        [] s.request = "distros" /\ Up(s) /\ others -> [a EXCEPT !.request = "user"]
        [] OTHER -> ScheduleWsl(a, busy)

-----------------------------------------------------------------------------
(* The world: engines, another daemon on the port, the user's other clients. *)

Init ==
  /\ p = [Begin(Stopped) EXCEPT !.out = <<>>] /\ gen = 0
  /\ jobs = Begin(Stopped).out /\ stage = "idle"
  /\ posts = <<>> /\ seen = "none" /\ news = "none"
  /\ engine = [g \in Gens |-> "none"] /\ spawned = 0 /\ other = "none"
  /\ quit = "no" /\ events = 0

\* The bound.
Event == events < MaxEvents /\ events' = events + 1

Serving == {other} \cup {engine[g] : g \in Gens}
Answers == "loading" \in Serving \/ "ready" \in Serving
Becomes(g, what) == engine' = [engine EXCEPT ![g] = what]

\* An engine binds the port, or finds it taken; it answers before it is ready.
Binds(g) ==
  /\ engine[g] = "booting" /\ Becomes(g, IF Answers THEN "conflict" ELSE "loading")
  /\ UNCHANGED <<p, gen, thread, posts, seen, news, spawned, other, quit, events>>

GetsReady(g) ==
  /\ engine[g] = "loading" /\ Becomes(g, "ready")
  /\ UNCHANGED <<p, gen, thread, posts, seen, news, spawned, other, quit, events>>

\* It ends by itself, or because another client shut it down, which is announced to a poller.
Announced(reason) == news' = IF Up(p) THEN reason ELSE news
EngineEnds(g) ==
  /\ engine[g] \in Alive /\ Event /\ Becomes(g, "crashed")
  /\ \/ UNCHANGED news
     \/ engine[g] = "ready" /\ \E reason \in {"user_quit", "restart"} : Announced(reason)
  /\ UNCHANGED <<p, gen, thread, posts, seen, spawned, other, quit>>

\* The thread that waits for an engine reports the exit through the supervisor's queue, so that
\* it comes after the report of the launch.
Exit(g) == [kind |-> "exit", gen |-> g, cause |-> engine[g]]
ReportsDirectly(g) == posts' = Append(posts, Exit(g)) /\ UNCHANGED jobs
Reports(g) == jobs' = Append(jobs, Exit(g)) /\ UNCHANGED posts
ExitReported(g) ==
  /\ engine[g] \in Causes /\ Becomes(g, "gone") /\ Reports(g)
  /\ UNCHANGED <<p, gen, stage, seen, news, spawned, other, quit, events>>

OtherChanges ==
  /\ Event
  /\ \/ other = "none" /\ ~Answers /\ other' = "loading" /\ UNCHANGED news
     \/ other = "loading" /\ other' = "ready" /\ UNCHANGED news
     \/ other # "none" /\ other' = "none" /\ UNCHANGED news
     \/ other = "ready" /\ other' = "none" /\ \E reason \in {"user_quit", "restart"} : Announced(reason)
  /\ UNCHANGED <<p, gen, thread, posts, seen, engine, spawned, quit>>

-----------------------------------------------------------------------------
(* The dispatcher: an input of the policy, and the jobs it asks for.        *)

Does(s) ==
  /\ p' = [s EXCEPT !.out = <<>>]
  /\ jobs' = jobs \o s.out

\* Another thread's task, the oldest first.
Handled(t) ==
  CASE t.kind = "launched" -> Launched(p, t.outcome)
    [] t.kind = "failed" -> LaunchFailed(p, t.failure)
    [] t.kind = "exit" -> IF t.gen = gen THEN ProcessExited(p, t.cause = "conflict") ELSE p
    [] t.kind = "restarted" -> WslRestartDone(p)
Dispatch ==
  /\ posts # <<>> /\ posts' = Tail(posts)
  /\ LET t == Head(posts)
     IN  /\ gen' = IF t.kind = "launched" /\ t.outcome = "spawned" THEN t.gen ELSE gen
         /\ IF t.kind = "distros"
            THEN \E others, busy \in BOOLEAN : Does(OtherDistros(p, others, busy))
            ELSE Does(Handled(t))
  /\ UNCHANGED <<stage, seen, news, world, quit, events>>

Quiet == jobs = <<>> /\ posts = <<>>
Unposted == <<gen, stage, posts, seen, news, world, quit>>

\* tick: whatever waits for a clock.  No job takes as long as the grace time, which starts over
\* when a launch is reported.
Tick ==
  /\ quit = "no"
  /\ \/ p.state = "backoff" /\ Does(BackoffOver(p))
     \/ /\ p.state \in {"starting", "restarting"} /\ Quiet
        /\ Does(GraceOver(p))
  /\ UNCHANGED <<Unposted, events>>

\* The engine is idle, or has been waited for long enough.
IdleAtLast ==
  /\ quit = "no" /\ p.request = "idle" /\ Up(p) /\ Does(RestartWslByItself(p))
  /\ UNCHANGED <<Unposted, events>>

AudioFails ==
  /\ quit = "no" /\ Up(p) /\ Event
  /\ \E fresh \in BOOLEAN : Does(WantWsl(IF fresh THEN [p EXCEPT !.declined = FALSE] ELSE p))
  /\ UNCHANGED Unposted

\* The windows of the breakers move on.
WindowsMove ==
  /\ Event
  /\ \/ p.crashes > 0 /\ p' = [p EXCEPT !.crashes = @ - 1]
     \/ p.wsls > 0 /\ p' = [p EXCEPT !.wsls = @ - 1]
  /\ UNCHANGED <<jobs, Unposted>>

UserCommands ==
  /\ quit = "no" /\ Event
  /\ \/ Does(UserRestartsEngine(p))
     \/ Does(UserRestartsWsl(p))
     \/ p.request = "user" /\ \E approved, busy \in BOOLEAN : Does(UserAnswers(p, approved, busy))
  /\ UNCHANGED Unposted

\* Other engine settings: a new backend and a new policy that starts over, behind the teardown of
\* the old backend.  Of the old ones nothing is heard any more.
SettingsApplied ==
  /\ quit = "no" /\ Event
  /\ p' = [Begin(Stopped) EXCEPT !.out = <<>>] /\ gen' = 0
  /\ jobs' = Append(jobs, [kind |-> "teardown"]) \o Begin(Stopped).out
  /\ posts' = <<>> /\ seen' = "none" /\ news' = "none"
  /\ UNCHANGED <<stage, world, quit>>

\* The prober asks the daemon, which may not answer in time; the dispatcher handles it later.
Probes ==
  /\ quit = "no" /\ seen = "none"
  /\ \/ /\ seen' = IF "ready" \in Serving THEN "ready" ELSE IF Answers THEN "starting" ELSE "down"
        /\ UNCHANGED events
     \/ Answers /\ seen' = "down" /\ Event
  /\ UNCHANGED <<p, gen, thread, posts, news, world, quit>>
OnProbe ==
  /\ quit = "no" /\ seen # "none" /\ seen' = "none" /\ Does(Probed(p, seen))
  /\ UNCHANGED <<gen, stage, posts, news, world, quit, events>>

OnShutdown ==
  /\ quit = "no" /\ news # "none" /\ news' = "none" /\ Does(DaemonShutdown(p, news))
  /\ UNCHANGED <<gen, stage, posts, seen, world, quit, events>>

-----------------------------------------------------------------------------
(* The supervisor thread.                                                   *)

Job == Head(jobs)
Done == jobs' = Tail(jobs) /\ stage' = "idle"
\* A change of settings is queued: the jobs before the teardown are those of the old backend, and
\* what they report is dropped.
Replaced == \E i \in DOMAIN jobs : jobs[i].kind = "teardown"
Dropped == quit # "no" \/ Replaced
Posted(t) == posts' = IF Dropped THEN posts ELSE Append(posts, t)
Idle == jobs # <<>> /\ stage = "idle"

\* _launch_job: attach to whatever answers; otherwise look into the distro, and spawn.
LaunchBegins ==
  /\ Idle /\ Job.kind = "launch"
  /\ IF Dropped THEN Done /\ UNCHANGED posts
     ELSE IF Answers THEN Done /\ Posted([kind |-> "launched", outcome |-> "attached"])
     ELSE stage' = "probed" /\ UNCHANGED <<jobs, posts>>
  /\ UNCHANGED <<p, gen, seen, news, world, quit, events>>

\* A systemd unit will start it, the checkout is not there, or the spawn fails.
SpawnsNothing ==
  /\ stage = "probed" /\ Event /\ Done
  /\ \/ Posted([kind |-> "launched", outcome |-> "waiting"])
     \/ \E failure \in {"no_engine_dir", "spawn_error"} : Posted([kind |-> "failed", failure |-> failure])
  /\ UNCHANGED <<p, gen, seen, news, world, quit>>

MaySpawnAnyway == TRUE
MaySpawn == quit = "no"
Spawns ==
  /\ stage = "probed" /\ spawned < MaxSpawned
  /\ IF MaySpawn
     THEN /\ spawned' = spawned + 1 /\ Becomes(spawned + 1, "booting")
          /\ stage' = "spawned" /\ UNCHANGED jobs
     ELSE Done /\ UNCHANGED <<spawned, engine>>
  /\ UNCHANGED <<p, gen, posts, seen, news, other, quit, events>>

SpawnReported ==
  /\ stage = "spawned" /\ Done
  /\ Posted([kind |-> "launched", outcome |-> "spawned", gen |-> spawned])
  /\ UNCHANGED <<p, gen, seen, news, world, quit, events>>

Running == spawned # 0 /\ engine[spawned] \in Alive

\* stop_gracefully: whoever answers is asked to shut down, and then the engine is made to end.
Asked == "ready" \in Serving /\ Announced("restart")
AllEnd(ours) ==
  /\ engine' = [g \in Gens |->
       IF engine[g] \in {"loading", "ready"} \/ (g = spawned /\ Running) THEN ours ELSE engine[g]]
  /\ other' = "none"

\* _stop_job, and the teardown of a backend that was replaced: without an engine of its own the
\* backend does nothing, and only the user's command goes on to ask a daemon this app is attached to.
Stopping == Job.kind \in {"stop", "stop all", "teardown"}
StopBegins ==
  /\ Idle /\ Stopping
  /\ IF Running \/ (Job.kind = "stop all" /\ Answers)
     THEN stage' = "busy" /\ UNCHANGED jobs /\ (Asked \/ UNCHANGED news)
     ELSE Done /\ UNCHANGED news
  /\ UNCHANGED <<p, gen, posts, seen, world, quit, events>>
StopEnds ==
  /\ stage = "busy" /\ Stopping /\ Done /\ AllEnd("stopped")
  /\ UNCHANGED <<p, gen, posts, seen, news, spawned, quit, events>>

\* _restart_wsl_job: whatever runs inside the VM ends with it.
WslBegins ==
  /\ Idle /\ Job.kind = "wsl"
  /\ IF Dropped THEN Done /\ UNCHANGED news
     ELSE stage' = "busy" /\ UNCHANGED jobs /\ (Asked \/ UNCHANGED news)
  /\ UNCHANGED <<p, gen, posts, seen, world, quit, events>>
WslEnds ==
  /\ stage = "busy" /\ Job.kind = "wsl" /\ Done
  /\ engine' = [g \in Gens |-> IF engine[g] \in Alive THEN "vm" ELSE engine[g]]
  /\ other' = "none"
  /\ Posted([kind |-> "restarted"])
  /\ UNCHANGED <<p, gen, seen, news, spawned, quit, events>>

\* Two jobs that only hand something over to the dispatcher.
Passes ==
  /\ Idle /\ Job.kind \in {"exit", "distros"} /\ Done /\ Posted(Job)
  /\ UNCHANGED <<p, gen, seen, news, world, quit, events>>

\* Quit: nothing reads the policy any more, since every task drops what it has when quitting;
\* another thread stops the engine the backend knows, once no teardown holds the spawn lock.  A
\* backend whose settings have just come knows none.
Quit ==
  /\ quit = "no" /\ quit' = "asked"
  /\ p' = Stopped /\ gen' = 0
  /\ posts' = <<>> /\ seen' = "none" /\ news' = "none"
  /\ UNCHANGED <<thread, world, events>>
QuitStops ==
  /\ quit = "asked" /\ quit' = "done"
  /\ ~(stage = "busy" /\ Job.kind = "teardown")
  /\ IF Running /\ ~Replaced THEN AllEnd("stopped") ELSE UNCHANGED <<engine, other>>
  /\ UNCHANGED <<p, gen, thread, posts, seen, news, spawned, events>>

-----------------------------------------------------------------------------

SupervisorThread ==
  LaunchBegins \/ SpawnsNothing \/ Spawns \/ SpawnReported \/ StopBegins \/ StopEnds \/ WslBegins \/ WslEnds \/ Passes

Next ==
  \/ \E g \in Gens : Binds(g) \/ GetsReady(g) \/ EngineEnds(g) \/ ExitReported(g)
  \/ OtherChanges
  \/ Dispatch \/ Tick \/ IdleAtLast \/ AudioFails \/ WindowsMove \/ UserCommands \/ SettingsApplied \/ Probes \/ OnProbe \/ OnShutdown
  \/ SupervisorThread
  \/ Quit \/ QuitStops

Spec == Init /\ [][Next]_vars

\* Threads and timers of the companion go on; of the engine only that its end is noticed.
Prober == Probes \/ OnProbe
ExitWatcher == \E g \in Gens : ExitReported(g)
Fairness ==
  WF_vars(SupervisorThread) /\ WF_vars(Dispatch) /\ WF_vars(Tick) /\ WF_vars(Prober) /\ WF_vars(ExitWatcher)
FairSpec == Spec /\ Fairness

-----------------------------------------------------------------------------

TypeOK ==
  /\ p.state \in {"stopped", "starting", "healthy", "degraded", "backoff", "restarting", "failed"}
  /\ {p.owned, p.expect, p.relaunch, p.attached, p.declined} \subseteq BOOLEAN
  /\ p.request \in {"none", "distros", "user", "idle"} /\ p.out = <<>>
  /\ p.misses \in 0..MissLimit - 1 /\ p.crashes \in 0..CrashLimit + 1 /\ p.wsls \in 0..WslLimit + 1
  /\ p.timeouts \in 0..TimeoutLimit /\ gen \in 0..spawned /\ spawned \in 0..MaxSpawned
  /\ stage \in {"idle", "probed", "spawned", "busy"} /\ seen \in {"none", "down", "starting", "ready"}
  /\ news \in {"none", "user_quit", "restart"} /\ other \in {"none", "loading", "ready"}
  /\ engine \in [Gens -> Alive \cup Causes \cup {"none", "gone"}]
  /\ quit \in {"no", "asked", "done"} /\ events \in 0..MaxEvents

IsExit(t, g) == t.kind = "exit" /\ t.gen = g
ExitComes(g) ==
  \/ engine[g] \in Causes
  \/ \E i \in DOMAIN jobs : IsExit(jobs[i], g)
  \/ \E i \in DOMAIN posts : IsExit(posts[i], g)

\* An engine the policy takes for its own is alive, or its exit is on its way: an exit that is
\* filtered out as an older process's never leaves the policy waiting for one that is gone.
OwnedIsAlive == p.owned /\ ~Over(p) => engine[gen] \in Alive \/ ExitComes(gen)

\* docs/companion-app.md of a WSL restart: our own wsl.exe exiting because of it does not count
\* as an engine crash.
OwnShutdownIsNoCrash ==
  [][ posts # <<>> /\ posts' = Tail(posts) /\ Head(posts).kind = "exit" /\ Head(posts).cause = "vm"
        => p'.crashes <= p.crashes ]_vars

\* Once the quit sequence has stopped the engine, none that the backend knows runs or starts.  One of
\* a backend that has just been replaced is left to its teardown.
QuitStopsEngine == quit = "done" /\ Running => Replaced

\* When nothing happens any more the companion ends with a ready engine, unless it has given up
\* (or the bound on spawned engines keeps it from starting another).
Exhausted == stage = "probed" /\ spawned = MaxSpawned
Settles == <>[]((p.state = "healthy" /\ "ready" \in Serving) \/ Over(p) \/ Exhausted)
=============================================================================
