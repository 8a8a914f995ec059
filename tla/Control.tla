------------------------------ MODULE Control ------------------------------
(***************************************************************************)
(* One benchmark run: the controller (scripts/control/src/main.rs, run and *)
(* host_session) and the server on each host that runs a replica or a      *)
(* benchmark client for it (crates/permissioned-blockchain/src/main.rs).   *)
(* What the hosts run is modelled in the other modules; here it finishes   *)
(* or panics, and the question is whether the controller notices.          *)
(*                                                                         *)
(* An HTTP call whose handler does not wait is one step.  set_task of a    *)
(* replica spawns the replica before it enters the state, and reset waits  *)
(* for the replica's end, so each of these is two.  A handler that panics  *)
(* drops its connection, and the controller unwraps the error.             *)
(***************************************************************************)
EXTENDS Naturals, Sequences, FiniteSets

CONSTANTS ReplicaHosts,
          ClientHosts, \* a sequence, in the order they are polled
          MaxMissed,   \* BOUND: panics whose hook finds the state locked
          MaxTaskPanic \* BOUND: panics of tasks that nobody joins

ClientSet == {ClientHosts[k] : k \in DOMAIN ClientHosts}
Hosts == ReplicaHosts \cup ClientSet

ASSUME HostsAssumption ==
    ReplicaHosts \cap ClientSet = {} /\ ClientHosts \in Seq(ClientSet)
ASSUME BoundsAssumption == MaxMissed \in Nat /\ MaxTaskPanic \in Nat

VARIABLES state,     \* host: AppState
          loop,      \* host: the replica's task, or run_benchmark
          cancelled, \* host: the token in ReplicaRunning
          missed,    \* hooks that found the state locked
          task_panic,\* hosts on which a task panicked that nobody joins
          session,   \* controller: per host where its host_session is
          cancel,    \* controller: the token of the run
          panic,     \* controller: a session saw a panic
          main,      \* controller: "poll", "join", "completed" or "failed"
          index,     \* controller: the client host polled next
          counted    \* controller: the client hosts whose stats are written

hostVars == <<state, loop, cancelled, missed, task_panic>>
mainVars == <<main, index, counted>>
vars == <<hostVars, session, cancel, panic, mainVars>>

\* A host may still be Panicked from an earlier run.
Init ==
    /\ state \in [Hosts -> {"Idle", "Panicked"}]
    /\ loop = [h \in Hosts |-> "none"]
    /\ cancelled = [h \in Hosts |-> FALSE]
    /\ missed = 0
    /\ task_panic = {}
    /\ session = [h \in Hosts |-> "start"]
    /\ cancel = FALSE
    /\ panic = FALSE
    /\ main = "poll"
    /\ index = 1
    /\ counted = {}

Over == main \in {"completed", "failed"}
-----------------------------------------------------------------------------
(* The panic hook and what runs on a host *)

\* The hook on a host whose state is s otherwise: a try_lock that may fail.
Hook(h, s) ==
    \/ state' = [state EXCEPT ![h] = "Panicked"] /\ UNCHANGED missed
    \/ /\ missed < MaxMissed
       /\ missed' = missed + 1
       /\ state' = [state EXCEPT ![h] = s]

Becomes(h, s) == state' = [state EXCEPT ![h] = s] /\ UNCHANGED missed

LoopBecomes(h, s) == loop' = [loop EXCEPT ![h] = s]

ControllerIdle == UNCHANGED <<session, cancel, panic, mainVars>>

ReplicaPanics(h) ==
    /\ h \in ReplicaHosts /\ loop[h] = "running"
    /\ LoopBecomes(h, "panicked")
    /\ Hook(h, state[h])
    /\ UNCHANGED <<cancelled, task_panic>> /\ ControllerIdle

\* The loop ends when stop_async reaches it.
ReplicaStops(h) ==
    /\ h \in ReplicaHosts /\ loop[h] = "running" /\ cancelled[h]
    /\ LoopBecomes(h, "ok")
    /\ UNCHANGED <<state, cancelled, missed, task_panic>> /\ ControllerIdle

\* The dispatch thread panics.  The benchmark thread ends with its deadline,
\* or never when it waits for the first invocation.
DispatchPanics(h) ==
    /\ h \in ClientSet /\ loop[h] = "running"
    /\ LoopBecomes(h, "dying") \/ LoopBecomes(h, "stuck")
    /\ Hook(h, state[h])
    /\ UNCHANGED <<cancelled, task_panic>> /\ ControllerIdle

\* run_benchmark unwraps what is left of the dispatch thread.
BenchmarkPanics(h) ==
    /\ loop[h] = "dying"
    /\ LoopBecomes(h, "panicked")
    /\ Hook(h, state[h])
    /\ UNCHANGED <<cancelled, task_panic>> /\ ControllerIdle

BenchmarkFinishes(h) ==
    /\ h \in ClientSet /\ loop[h] = "running"
    /\ LoopBecomes(h, "ok")
    /\ Becomes(h, "BenchmarkClientFinish")
    /\ UNCHANGED <<cancelled, task_panic>> /\ ControllerIdle

\* send_buf panics in a task of its own: the loop goes on.
TaskPanics(h) ==
    /\ loop[h] = "running"
    /\ Cardinality(task_panic) < MaxTaskPanic
    /\ task_panic' = task_panic \cup {h}
    /\ Hook(h, state[h])
    /\ UNCHANGED <<loop, cancelled>> /\ ControllerIdle
-----------------------------------------------------------------------------
(* host_session *)

SessionBecomes(h, s) == session' = [session EXCEPT ![h] = s]

\* A session that panics cancels the run from the controller's hook.
Fails(h) == SessionBecomes(h, "failed") /\ cancel' = TRUE

\* POST /task
SetTask(h) ==
    /\ session[h] = "start"
    /\ \/ /\ state[h] /= "Idle"
          /\ Hook(h, state[h])
          /\ Fails(h)
          /\ UNCHANGED loop
       \/ /\ state[h] = "Idle" /\ h \in ReplicaHosts
          /\ LoopBecomes(h, "running")
          /\ SessionBecomes(h, "setting")
          /\ UNCHANGED <<state, missed, cancel>>
       \/ /\ state[h] = "Idle" /\ h \in ClientSet
          /\ LoopBecomes(h, "running")
          /\ Becomes(h, "BenchmarkClientRunning")
          /\ SessionBecomes(h, "watch")
          /\ UNCHANGED cancel
    /\ UNCHANGED <<cancelled, task_panic, panic, mainVars>>

\* set_task enters ReplicaRunning, whatever became of the replica.
SetReplicaRunning(h) ==
    /\ session[h] = "setting"
    /\ Becomes(h, "ReplicaRunning")
    /\ SessionBecomes(h, "watch")
    /\ UNCHANGED <<loop, cancelled, task_panic, cancel, panic, mainVars>>

\* Mutant of StorePanic: the run is not cancelled.
StorePanic_Only == panic' = TRUE /\ UNCHANGED cancel

StorePanic == panic' = TRUE /\ cancel' = TRUE

\* GET /panic
PollPanic(h) ==
    /\ session[h] = "watch" /\ state[h] = "Panicked"
    /\ StorePanic
    /\ SessionBecomes(h, "done")
    /\ UNCHANGED <<hostVars, mainVars>>

Cancelled(h) ==
    /\ session[h] = "watch" /\ cancel
    /\ SessionBecomes(h, IF panic THEN "done" ELSE "reset")
    /\ UNCHANGED <<hostVars, cancel, panic, mainVars>>

\* POST /reset
Reset(h) ==
    /\ session[h] = "reset"
    /\ \/ /\ state[h] = "BenchmarkClientFinish"
          /\ Becomes(h, "Idle")
          /\ SessionBecomes(h, "done")
          /\ UNCHANGED <<cancelled, cancel>>
       \/ /\ state[h] = "ReplicaRunning"
          /\ Becomes(h, "Idle")
          /\ cancelled' = [cancelled EXCEPT ![h] = TRUE]
          /\ SessionBecomes(h, "resetting")
          /\ UNCHANGED cancel
       \/ /\ state[h] \in {"Idle", "Panicked", "BenchmarkClientRunning"}
          /\ Hook(h, "Idle")
          /\ Fails(h)
          /\ UNCHANGED cancelled
    /\ UNCHANGED <<loop, task_panic, panic, mainVars>>

\* Mutant of TaskFailed: reset does not look at the replica's end.
TaskFailed_Ignored(h) == FALSE

\* task.await.unwrap() panics.
TaskFailed(h) == loop[h] = "panicked"

\* reset goes on when the replica's task has ended.
ResetDone(h) ==
    /\ session[h] = "resetting" /\ loop[h] \in {"ok", "panicked"}
    /\ \/ /\ TaskFailed(h)
          /\ Hook(h, state[h])
          /\ Fails(h)
       \/ /\ ~TaskFailed(h)
          /\ SessionBecomes(h, "done")
          /\ UNCHANGED <<state, missed, cancel>>
    /\ UNCHANGED <<loop, cancelled, task_panic, panic, mainVars>>
-----------------------------------------------------------------------------
(* run *)

Polled == ClientHosts[index]

\* GET /benchmark
PollBenchmark ==
    /\ main = "poll" /\ index <= Len(ClientHosts)
    /\ \/ /\ state[Polled] = "BenchmarkClientFinish"
          /\ counted' = counted \cup {Polled}
          /\ index' = index + 1
          /\ UNCHANGED <<main, state, missed>>
       \/ /\ state[Polled] \in {"BenchmarkClientRunning", "Panicked"}
          /\ cancel
          /\ index' = index + 1
          /\ UNCHANGED <<main, counted, state, missed>>
       \/ /\ state[Polled] = "Idle"
          /\ Hook(Polled, "Idle")
          /\ main' = "failed"
          /\ UNCHANGED <<index, counted>>
    /\ UNCHANGED <<loop, cancelled, task_panic, session, cancel, panic>>

AllPolled ==
    /\ main = "poll" /\ index > Len(ClientHosts)
    /\ main' = "join"
    /\ cancel' = TRUE
    /\ UNCHANGED <<hostVars, session, panic, index, counted>>

\* Every session is awaited and unwrapped, and no panic may have been seen.
JoinSessions ==
    /\ main = "join"
    /\ \A h \in Hosts : session[h] \in {"done", "failed"}
    /\ main' = IF panic \/ \E h \in Hosts : session[h] = "failed"
                 THEN "failed" ELSE "completed"
    /\ UNCHANGED <<hostVars, session, cancel, panic, index, counted>>
-----------------------------------------------------------------------------
\* What runs on a host, and comes to an end.
HostStep(h) ==
    \/ ReplicaPanics(h) \/ ReplicaStops(h)
    \/ DispatchPanics(h) \/ BenchmarkPanics(h) \/ BenchmarkFinishes(h)

SessionStep(h) ==
    \/ SetTask(h) \/ SetReplicaRunning(h)
    \/ PollPanic(h) \/ Cancelled(h)
    \/ Reset(h) \/ ResetDone(h)

MainStep == PollBenchmark \/ AllPolled \/ JoinSessions

\* The controller's process ends with main.
Next ==
    \/ \E h \in Hosts : HostStep(h) \/ TaskPanics(h)
    \/ ~Over /\ (MainStep \/ \E h \in Hosts : SessionStep(h))

Spec == Init /\ [][Next]_vars
-----------------------------------------------------------------------------
\* A run completes only when the result is worth keeping: every client host
\* finished and was counted, no replica's loop panicked, not even when the
\* hook missed it or set_task wrote over it, and every host is ready for the
\* next run, unless a task nobody joins panicked there.
CompletedIsClean ==
    main = "completed" =>
        /\ counted = ClientSet
        /\ \A h \in Hosts : loop[h] = "ok"
        /\ \A h \in Hosts \ task_panic : state[h] = "Idle"

\* The panic of a client's dispatch thread was the only one there will be,
\* and its hook missed it.
Unnoticed ==
    \E h \in ClientSet :
        loop[h] = "stuck" /\ state[h] = "BenchmarkClientRunning"

\* Requests are answered and clients end; a replica ends when it is told to.
Fairness ==
    /\ WF_vars(~Over /\ MainStep)
    /\ \A h \in Hosts :
          /\ WF_vars(~Over /\ SessionStep(h))
          /\ WF_vars(ReplicaStops(h))
          /\ WF_vars(BenchmarkPanics(h) \/ BenchmarkFinishes(h))

FairSpec == Spec /\ Fairness

\* The controller's run comes to an end, in success or in failure, whatever
\* panics on the hosts and whenever: no session and no poll waits for good.
RunEnds == <>(Over \/ Unnoticed)
=============================================================================
