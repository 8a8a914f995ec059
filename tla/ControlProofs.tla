---------------------------- MODULE ControlProofs ----------------------------
(***************************************************************************)
(* Theorem of Control: a run that completes is clean, for any number of    *)
(* hosts, and however many panics there are and hooks that miss them.      *)
(*                                                                         *)
(* The argument.  A session that ends without failing, in a run that saw   *)
(* no panic, has reset its host: a client's only after it finished, a      *)
(* replica's only after its task returned (DoneIsClean).  The main loop    *)
(* passes a client host over uncounted only when the run is cancelled, and *)
(* before all are polled only a panic or a failed session cancels it.      *)
(***************************************************************************)
EXTENDS Control, TLAPS

\* The run cannot complete any more.
Doomed == panic \/ \E h \in Hosts : session[h] = "failed"

AppStates == {"Idle", "Panicked", "BenchmarkClientRunning",
              "BenchmarkClientFinish", "ReplicaRunning"}
Loops == {"none", "running", "ok", "dying", "stuck", "panicked"}
Sessions == {"start", "setting", "watch", "reset", "resetting", "done", "failed"}

Typed ==
    /\ state \in [Hosts -> AppStates]
    /\ loop \in [Hosts -> Loops]
    /\ session \in [Hosts -> Sessions]
    /\ index \in 1..Len(ClientHosts) + 1
    /\ counted \subseteq ClientSet
    /\ cancel \in BOOLEAN /\ panic \in BOOLEAN
    /\ main \in {"poll", "join", "completed", "failed"}

\* The state of a host that is ready for the next run.
Ready(h) == state[h] = "Idle" \/ h \in task_panic

FinishIsOk ==
    \A h \in Hosts : state[h] = "BenchmarkClientFinish" => loop[h] = "ok"

ReplicasReset ==
    \A h \in Hosts :
        /\ state[h] = "ReplicaRunning" => h \in ReplicaHosts
        /\ session[h] = "setting" => h \in ReplicaHosts
        /\ session[h] = "resetting" =>
              h \in ReplicaHosts /\ (Ready(h) \/ loop[h] = "panicked")

DoneIsClean ==
    \A h \in Hosts : session[h] = "done" =>
        panic \/ main = "failed" \/ (loop[h] = "ok" /\ Ready(h))

CancelledLate == cancel => Doomed \/ main /= "poll"

Counting ==
    /\ main = "poll" =>
          Doomed \/ \A k \in 1..index - 1 : ClientHosts[k] \in counted
    /\ main = "join" => Doomed \/ counted = ClientSet
    /\ main = "completed" => /\ ~panic /\ counted = ClientSet
                             /\ \A h \in Hosts : session[h] = "done"

IInv ==
    Typed /\ FinishIsOk /\ ReplicasReset /\ DoneIsClean /\ CancelledLate /\ Counting
-----------------------------------------------------------------------------
LEMMA InitInv == Init => IInv
<1> SUFFICES ASSUME Init PROVE IInv
  OBVIOUS
<1>1. Len(ClientHosts) \in Nat
  BY HostsAssumption
<1>2. Typed
  <2>1. /\ state \in [Hosts -> AppStates]
        /\ loop \in [Hosts -> Loops]
        /\ session \in [Hosts -> Sessions]
    BY DEF Init, AppStates, Loops, Sessions
  <2>2. index \in 1..Len(ClientHosts) + 1
    BY <1>1 DEF Init
  <2>3. /\ counted \subseteq ClientSet
        /\ cancel \in BOOLEAN /\ panic \in BOOLEAN
        /\ main \in {"poll", "join", "completed", "failed"}
    BY DEF Init
  <2> QED
    BY <2>1, <2>2, <2>3 DEF Typed
<1>3. FinishIsOk /\ ReplicasReset /\ DoneIsClean /\ CancelledLate
  BY DEF Init, FinishIsOk, ReplicasReset, DoneIsClean, CancelledLate
<1>4. Counting
  BY DEF Init, Counting
<1> QED
  BY <1>2, <1>3, <1>4 DEF IInv

\* What a hook may leave the host's state as.
LEMMA HookState ==
  ASSUME NEW h \in Hosts, NEW s \in AppStates, Typed, Hook(h, s)
  PROVE  /\ state' \in [Hosts -> AppStates]
         /\ state'[h] \in {s, "Panicked"}
         /\ \A x \in Hosts \ {h} : state'[x] = state[x]
BY DEF Hook, Typed, AppStates

\* The controller's part of the invariant survives the steps of the hosts.
LEMMA ControllerKept ==
  ASSUME IInv, ControllerIdle
  PROVE  CancelledLate' /\ Counting'
<1>1. CancelledLate'
  BY DEF IInv, ControllerIdle, mainVars, CancelledLate, Doomed
<1>2. Counting'
  BY DEF IInv, ControllerIdle, mainVars, Counting, Doomed
<1> QED
  BY <1>1, <1>2

LEMMA HostStepInv ==
  ASSUME IInv, NEW h \in Hosts, HostStep(h) \/ TaskPanics(h)
  PROVE  IInv'
<1>1. ControllerIdle
  BY DEF HostStep, ReplicaPanics, ReplicaStops, DispatchPanics,
         BenchmarkPanics, BenchmarkFinishes, TaskPanics
<1>2. CancelledLate' /\ Counting'
  BY <1>1, ControllerKept
<1>3. UNCHANGED <<session, index, counted, cancel, panic, main>>
  BY <1>1 DEF ControllerIdle, mainVars
<1>4. Typed
  BY DEF IInv
\* Only a loop that has not ended takes a step, and only that host changes.
<1>5. /\ loop[h] \in {"running", "dying"}
      /\ loop' \in [Hosts -> Loops]
      /\ \A x \in Hosts \ {h} : loop'[x] = loop[x]
  BY <1>4 DEF Typed, Loops, HostStep, ReplicaPanics, ReplicaStops, DispatchPanics,
         BenchmarkPanics, BenchmarkFinishes, TaskPanics, LoopBecomes
<1>6. task_panic \subseteq task_panic'
  BY DEF HostStep, ReplicaPanics, ReplicaStops, DispatchPanics,
         BenchmarkPanics, BenchmarkFinishes, TaskPanics
<1>7. /\ state' \in [Hosts -> AppStates]
      /\ \A x \in Hosts \ {h} : state'[x] = state[x]
      /\ \/ state'[h] = state[h]
         \/ state'[h] = "Panicked"
         \/ state'[h] = "BenchmarkClientFinish" /\ loop'[h] = "ok"
  <2>1. CASE BenchmarkFinishes(h)
    BY <1>4, <2>1 DEF BenchmarkFinishes, Becomes, LoopBecomes, Typed, AppStates
  <2>2. CASE ReplicaStops(h)
    BY <1>4, <2>2 DEF ReplicaStops, Typed
  <2>3. CASE Hook(h, state[h])
    BY <1>4, <2>3, HookState DEF Typed
  <2> QED
    BY <2>1, <2>2, <2>3 DEF HostStep, ReplicaPanics, DispatchPanics,
         BenchmarkPanics, TaskPanics
<1>8. Typed'
  BY <1>3, <1>4, <1>5, <1>7 DEF Typed
<1>9. FinishIsOk'
  BY <1>5, <1>7 DEF IInv, FinishIsOk
<1>10. ReplicasReset'
  <2>1. h \in ReplicaHosts =>
          \/ state'[h] = state[h]
          \/ loop'[h] = "panicked"
          \/ h \in task_panic'
    BY <1>4, HostsAssumption
       DEF HostStep, ReplicaPanics, ReplicaStops, DispatchPanics,
           BenchmarkPanics, BenchmarkFinishes, TaskPanics, LoopBecomes, Typed
  <2> SUFFICES ASSUME NEW x \in Hosts
               PROVE  /\ state'[x] = "ReplicaRunning" => x \in ReplicaHosts
                      /\ session'[x] = "setting" => x \in ReplicaHosts
                      /\ session'[x] = "resetting" =>
                            /\ x \in ReplicaHosts
                            /\ \/ state'[x] = "Idle" \/ x \in task_panic'
                               \/ loop'[x] = "panicked"
    BY DEF ReplicasReset, Ready
  <2>2. CASE x = h
    BY <1>3, <1>5, <1>6, <1>7, <2>1, <2>2 DEF IInv, ReplicasReset, Ready
  <2>3. CASE x /= h
    BY <1>3, <1>5, <1>6, <1>7, <2>3 DEF IInv, ReplicasReset, Ready
  <2> QED
    BY <2>2, <2>3
<1>11. DoneIsClean'
  BY <1>3, <1>5, <1>6, <1>7 DEF IInv, DoneIsClean, Ready
<1> QED
  BY <1>2, <1>8, <1>9, <1>10, <1>11 DEF IInv
-----------------------------------------------------------------------------
\* What a session's step keeps, whatever it does to its host.
LEMMA SessionKept ==
  ASSUME IInv, NEW h \in Hosts, SessionStep(h), ~Over
  PROVE  /\ UNCHANGED <<main, index, counted>>
         /\ main \in {"poll", "join"}
         /\ session[h] \in Sessions \ {"done", "failed"}
         /\ session' \in [Hosts -> Sessions]
         /\ \A x \in Hosts \ {h} : /\ session'[x] = session[x]
                                   /\ loop'[x] = loop[x]
                                   /\ state'[x] = state[x]
         /\ task_panic' = task_panic
         /\ panic' \in BOOLEAN /\ (panic => panic')
         /\ cancel' \in BOOLEAN
         /\ cancel' => cancel \/ panic' \/ session'[h] = "failed"
<1> USE DEF Typed, Sessions, Over
<1>0. Typed
  BY DEF IInv
<1>1. CASE SetTask(h)
  <2>1. \A x \in Hosts \ {h} : state'[x] = state[x]
    BY <1>0, <1>1 DEF SetTask, Hook, Becomes
  <2>2. /\ session' \in [Hosts -> Sessions]
        /\ session[h] \in Sessions \ {"done", "failed"}
        /\ \A x \in Hosts \ {h} : session'[x] = session[x]
        /\ cancel' /= cancel => session'[h] = "failed"
    BY <1>0, <1>1 DEF SetTask, SessionBecomes, Fails
  <2>3. cancel' \in BOOLEAN
    BY <1>0, <1>1 DEF SetTask, Fails
  <2>4. /\ UNCHANGED <<main, index, counted>>
        /\ UNCHANGED task_panic /\ UNCHANGED panic
        /\ \A x \in Hosts \ {h} : loop'[x] = loop[x]
    BY <1>0, <1>1 DEF SetTask, LoopBecomes, mainVars
  <2> QED
    BY <1>0, <2>1, <2>2, <2>3, <2>4
<1>2. CASE SetReplicaRunning(h)
  BY <1>0, <1>2 DEF SetReplicaRunning, Becomes, SessionBecomes, mainVars
<1>3. CASE PollPanic(h)
  BY <1>0, <1>3 DEF PollPanic, StorePanic, SessionBecomes, mainVars, hostVars
<1>4. CASE Cancelled(h)
  BY <1>0, <1>4 DEF Cancelled, SessionBecomes, mainVars, hostVars
<1>5. CASE Reset(h)
  <2>1. \A x \in Hosts \ {h} : state'[x] = state[x]
    BY <1>0, <1>5 DEF Reset, Hook, Becomes
  <2>2. /\ session' \in [Hosts -> Sessions]
        /\ session[h] \in Sessions \ {"done", "failed"}
        /\ \A x \in Hosts \ {h} : session'[x] = session[x]
        /\ cancel' /= cancel => session'[h] = "failed"
    BY <1>0, <1>5 DEF Reset, SessionBecomes, Fails
  <2>3. cancel' \in BOOLEAN
    BY <1>0, <1>5 DEF Reset, Fails
  <2>4. /\ UNCHANGED <<main, index, counted>>
        /\ UNCHANGED task_panic /\ UNCHANGED panic
        /\ \A x \in Hosts \ {h} : loop'[x] = loop[x]
    BY <1>0, <1>5 DEF Reset, LoopBecomes, mainVars
  <2> QED
    BY <1>0, <2>1, <2>2, <2>3, <2>4
<1>6. CASE ResetDone(h)
  <2>1. \A x \in Hosts \ {h} : state'[x] = state[x]
    BY <1>0, <1>6 DEF ResetDone, Hook, Becomes
  <2>2. /\ session' \in [Hosts -> Sessions]
        /\ session[h] \in Sessions \ {"done", "failed"}
        /\ \A x \in Hosts \ {h} : session'[x] = session[x]
        /\ cancel' /= cancel => session'[h] = "failed"
    BY <1>0, <1>6 DEF ResetDone, SessionBecomes, Fails
  <2>3. cancel' \in BOOLEAN
    BY <1>0, <1>6 DEF ResetDone, Fails
  <2>4. /\ UNCHANGED <<main, index, counted>>
        /\ UNCHANGED task_panic /\ UNCHANGED panic
        /\ \A x \in Hosts \ {h} : loop'[x] = loop[x]
    BY <1>0, <1>6 DEF ResetDone, LoopBecomes, mainVars
  <2> QED
    BY <1>0, <2>1, <2>2, <2>3, <2>4
<1> QED
  BY <1>1, <1>2, <1>3, <1>4, <1>5, <1>6 DEF SessionStep

\* What a session's step does to its host.
LEMMA SessionHost ==
  ASSUME IInv, NEW h \in Hosts, SessionStep(h), ~Over
  PROVE  /\ state' \in [Hosts -> AppStates]
         /\ loop' \in [Hosts -> Loops]
         /\ state'[h] = "BenchmarkClientFinish" => loop'[h] = "ok"
         /\ state'[h] = "ReplicaRunning" => h \in ReplicaHosts
         /\ session'[h] = "setting" => h \in ReplicaHosts
         /\ session'[h] = "resetting" =>
               /\ h \in ReplicaHosts
               /\ \/ state'[h] = "Idle" \/ h \in task_panic'
                  \/ loop'[h] = "panicked"
         /\ session'[h] = "done" =>
               \/ panic'
               \/ /\ loop'[h] = "ok"
                  /\ state'[h] = "Idle" \/ h \in task_panic'
<1> USE DEF Typed, AppStates, Loops, Sessions, FinishIsOk, ReplicasReset, Ready
<1>0. Typed /\ FinishIsOk /\ ReplicasReset
  BY DEF IInv
<1>1. CASE SetTask(h)
  BY <1>0, <1>1 DEF SetTask, Hook, Becomes, LoopBecomes, SessionBecomes, Fails
<1>2. CASE SetReplicaRunning(h)
  BY <1>0, <1>2 DEF SetReplicaRunning, Becomes, SessionBecomes
<1>3. CASE PollPanic(h)
  BY <1>0, <1>3 DEF PollPanic, StorePanic, SessionBecomes, hostVars
<1>4. CASE Cancelled(h)
  BY <1>0, <1>4 DEF Cancelled, SessionBecomes, hostVars
<1>5. CASE Reset(h)
  BY <1>0, <1>5 DEF Reset, Hook, Becomes, SessionBecomes, Fails
<1>6. CASE ResetDone(h)
  BY <1>0, <1>6 DEF ResetDone, TaskFailed, Hook, SessionBecomes, Fails
<1> QED
  BY <1>1, <1>2, <1>3, <1>4, <1>5, <1>6 DEF SessionStep

LEMMA SessionStepInv ==
  ASSUME IInv, NEW h \in Hosts, SessionStep(h), ~Over
  PROVE  IInv'
<1>1. Typed /\ FinishIsOk /\ ReplicasReset /\ DoneIsClean /\ CancelledLate /\ Counting
  BY DEF IInv
<1>2. Typed'
  BY <1>1, SessionKept, SessionHost DEF Typed
<1>3. FinishIsOk'
  BY <1>1, SessionKept, SessionHost DEF FinishIsOk
<1>4. ReplicasReset'
  BY <1>1, SessionKept, SessionHost DEF ReplicasReset, Ready
<1>5. DoneIsClean'
  BY <1>1, SessionKept, SessionHost DEF DoneIsClean, Ready
<1>6. Doomed => Doomed'
  BY SessionKept DEF Doomed
<1>7. CancelledLate'
  BY <1>1, <1>6, SessionKept DEF CancelledLate, Doomed
<1>8. Counting'
  BY <1>1, <1>6, SessionKept DEF Counting
<1> QED
  BY <1>2, <1>3, <1>4, <1>5, <1>7, <1>8 DEF IInv
-----------------------------------------------------------------------------
LEMMA PollBenchmarkInv ==
  ASSUME IInv, PollBenchmark
  PROVE  IInv'
<1>1. Typed /\ FinishIsOk /\ ReplicasReset /\ DoneIsClean /\ CancelledLate /\ Counting
  BY DEF IInv
<1>2. /\ UNCHANGED <<loop, session, cancel, panic>>
      /\ UNCHANGED task_panic
  BY DEF PollBenchmark
<1>3. /\ Len(ClientHosts) \in Nat
      /\ index \in 1..Len(ClientHosts)
      /\ Polled \in ClientSet /\ Polled \in Hosts
  BY <1>1, HostsAssumption DEF PollBenchmark, Polled, ClientSet, Hosts, Typed
<1>4. main = "poll"
  BY DEF PollBenchmark
<1>5. CASE main' = "failed"
  <2>1. /\ Hook(Polled, "Idle") /\ UNCHANGED <<index, counted>>
    BY <1>4, <1>5 DEF PollBenchmark
  <2>2. /\ state' \in [Hosts -> AppStates]
        /\ state'[Polled] \in {"Idle", "Panicked"}
        /\ \A x \in Hosts \ {Polled} : state'[x] = state[x]
    BY <1>1, <1>3, <2>1, HookState DEF AppStates
  <2>3. Typed'
    BY <1>1, <1>2, <1>5, <2>1, <2>2 DEF Typed
  <2>4. FinishIsOk'
    BY <1>1, <1>2, <2>2 DEF FinishIsOk
  <2>5. ReplicasReset'
    <3>1. Polled \notin ReplicaHosts
      BY <1>3, HostsAssumption
    <3> QED
      BY <1>1, <1>2, <2>2, <3>1 DEF ReplicasReset, Ready
  <2>6. DoneIsClean' /\ CancelledLate' /\ Counting'
    BY <1>5 DEF DoneIsClean, CancelledLate, Counting
  <2> QED
    BY <2>3, <2>4, <2>5, <2>6 DEF IInv
<1>6. CASE main' /= "failed"
  <2>1. /\ UNCHANGED <<main, state>>
        /\ index' = index + 1
        /\ counted' = counted \cup {Polled} \/ (cancel /\ counted' = counted)
    BY <1>6 DEF PollBenchmark
  <2>2. index' \in 1..Len(ClientHosts) + 1
    BY <1>3, <2>1
  <2>3. Typed'
    BY <1>1, <1>2, <1>3, <2>1, <2>2 DEF Typed
  <2>4. FinishIsOk' /\ ReplicasReset'
    BY <1>1, <1>2, <2>1 DEF FinishIsOk, ReplicasReset, Ready
  <2>5. DoneIsClean' /\ CancelledLate'
    BY <1>1, <1>2, <2>1 DEF DoneIsClean, CancelledLate, Doomed, Ready
  <2>6. Counting'
    <3>1. Doomed' <=> Doomed
      BY <1>2 DEF Doomed
    <3>2. CASE Doomed
      BY <1>4, <2>1, <3>1, <3>2 DEF Counting
    <3>3. CASE ~Doomed
      <4>1. ~cancel
        BY <1>1, <1>4, <3>3 DEF CancelledLate
      <4>2. counted' = counted \cup {ClientHosts[index]}
        BY <2>1, <4>1 DEF Polled
      <4>3. \A k \in 1..index - 1 : ClientHosts[k] \in counted
        BY <1>1, <1>4, <3>3 DEF Counting
      <4>4. \A k \in 1..index' - 1 : k \in 1..index - 1 \/ k = index
        BY <1>3, <2>1
      <4>5. \A k \in 1..index' - 1 : ClientHosts[k] \in counted'
        BY <4>2, <4>3, <4>4
      <4> QED
        BY <1>4, <2>1, <4>5 DEF Counting
    <3> QED
      BY <3>2, <3>3
  <2> QED
    BY <2>3, <2>4, <2>5, <2>6 DEF IInv
<1> QED
  BY <1>5, <1>6

LEMMA AllPolledInv ==
  ASSUME IInv, AllPolled
  PROVE  IInv'
<1>1. Typed /\ FinishIsOk /\ ReplicasReset /\ DoneIsClean /\ CancelledLate /\ Counting
  BY DEF IInv
<1>2. UNCHANGED <<loop, state, session, task_panic, panic, index, counted>>
  BY DEF AllPolled, hostVars
<1>3. main = "poll" /\ main' = "join" /\ cancel' = TRUE
  BY DEF AllPolled
<1>4. Typed'
  BY <1>1, <1>2, <1>3 DEF Typed
<1>5. FinishIsOk' /\ ReplicasReset'
  BY <1>1, <1>2 DEF FinishIsOk, ReplicasReset, Ready
<1>6. DoneIsClean' /\ CancelledLate'
  BY <1>1, <1>2, <1>3 DEF DoneIsClean, CancelledLate, Ready
<1>7. Counting'
  <2>1. Doomed' <=> Doomed
    BY <1>2 DEF Doomed
  <2>2. CASE Doomed
    BY <1>3, <2>1, <2>2 DEF Counting
  <2>3. CASE ~Doomed
    <3>1. \A k \in 1..index - 1 : ClientHosts[k] \in counted
      BY <1>1, <1>3, <2>3 DEF Counting
    <3>2. index - 1 = Len(ClientHosts) /\ Len(ClientHosts) \in Nat
      BY <1>1, HostsAssumption DEF AllPolled, Typed
    <3>3. DOMAIN ClientHosts = 1..Len(ClientHosts)
      BY HostsAssumption
    <3>4. ClientSet \subseteq counted
      BY <3>1, <3>2, <3>3 DEF ClientSet
    <3> QED
      BY <1>1, <1>2, <1>3, <3>4 DEF Counting, Typed
  <2> QED
    BY <2>2, <2>3
<1> QED
  BY <1>4, <1>5, <1>6, <1>7 DEF IInv

LEMMA JoinSessionsInv ==
  ASSUME IInv, JoinSessions
  PROVE  IInv'
<1>1. Typed /\ FinishIsOk /\ ReplicasReset /\ DoneIsClean /\ CancelledLate /\ Counting
  BY DEF IInv
<1>2. UNCHANGED <<loop, state, session, task_panic, cancel, panic, index, counted>>
  BY DEF JoinSessions, hostVars
<1>3. main = "join" /\ main' = IF Doomed THEN "failed" ELSE "completed"
  BY DEF JoinSessions, Doomed
<1>4. Typed'
  BY <1>1, <1>2, <1>3 DEF Typed
<1>5. FinishIsOk' /\ ReplicasReset'
  BY <1>1, <1>2 DEF FinishIsOk, ReplicasReset, Ready
<1>6. DoneIsClean' /\ CancelledLate'
  BY <1>1, <1>2, <1>3 DEF DoneIsClean, CancelledLate, Ready
<1>7. Counting'
  BY <1>1, <1>2, <1>3 DEF Counting, JoinSessions, Doomed
<1> QED
  BY <1>4, <1>5, <1>6, <1>7 DEF IInv
-----------------------------------------------------------------------------
LEMMA NextInv == IInv /\ [Next]_vars => IInv'
<1> SUFFICES ASSUME IInv, [Next]_vars PROVE IInv'
  OBVIOUS
<1>1. CASE UNCHANGED vars
  <2>1. UNCHANGED <<state, loop, session, task_panic, cancel, panic, main, index, counted>>
    BY <1>1 DEF vars, hostVars, mainVars
  <2> QED
    BY <2>1 DEF IInv, Typed, FinishIsOk, ReplicasReset, DoneIsClean, CancelledLate,
                Counting, Doomed, Ready
<1>2. CASE \E h \in Hosts : HostStep(h) \/ TaskPanics(h)
  BY <1>2, HostStepInv
<1>3. CASE ~Over /\ \E h \in Hosts : SessionStep(h)
  BY <1>3, SessionStepInv
<1>4. CASE ~Over /\ MainStep
  BY <1>4, PollBenchmarkInv, AllPolledInv, JoinSessionsInv DEF MainStep
<1> QED
  BY <1>1, <1>2, <1>3, <1>4 DEF Next

\* A run completes only when every client host finished and was counted, no
\* replica's loop panicked and every host is ready for the next run, or a task
\* that nobody joins panicked there.
THEOREM CompletesClean == Spec => []CompletedIsClean
<1>1. IInv => CompletedIsClean
  BY DEF IInv, Counting, DoneIsClean, Ready, CompletedIsClean
<1> QED
  BY <1>1, InitInv, NextInv, PTL DEF Spec
=============================================================================
