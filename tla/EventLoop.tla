----------------------------- MODULE EventLoop -----------------------------
(***************************************************************************)
(* The event loop of src/src/context/tokio.rs from the inside: the threads *)
(* Multiplex takes as one.  One Multiplex serves the contexts of `Nodes`:  *)
(* its dispatch thread waits on two channels, takes the timer lock, drains *)
(* the vector of fired timers, and calls the handlers.  The tasks of the   *)
(* runtime thread put datagrams into the event channel, and a timer's task *)
(* sleeps, pushes the timer into the vector under the lock, and wakes the  *)
(* loop through the rendezvous channel.                                    *)
(*                                                                         *)
(* A node has at most one timer (common.rs, Timer), whose id is its local  *)
(* sequence number.  The receiver of the benchmark panics in on_timer, the *)
(* one of the test false_alarm returns, and then the timer goes on.        *)
(* on_pace is left out here: the receivers of this loop have none.         *)
(***************************************************************************)
EXTENDS Naturals, Sequences, FiniteSets

CONSTANTS Nodes,      \* the addresses registered at this loop
          EventLimit, \* waiting events that panic the loop: 4096
          OnTimer     \* the on_timer considered, see on_timer

ASSUME EventLimitAssumption == EventLimit \in Nat \ {0}
ASSUME OnTimerAssumption == OnTimer \subseteq {"panic", "return"}

VARIABLES queue,    \* Multiplex: the event channel
          fired,    \* Multiplex: the vector in timer_lock
          at,       \* where the dispatch thread is
          event,    \* the event it handles
          task,     \* Context: timer_tasks, per node where its task is
          timer_id, \* Context: local sequence number of its last timer
          id_set,   \* Timer: id.is_some()
          spurious, \* notifications left behind by tasks that were aborted
          on_timer  \* what the receiver does: "panic" or "return"

loopVars ==
    <<queue, fired, at, event, task, timer_id, id_set, spurious, on_timer>>

Notification == [kind |-> "TimerNotification"]
Stop == [kind |-> "Stop"]
Panic(why) == [kind |-> "Panic", why |-> why]

Init_EventLoop ==
    /\ queue = <<>>
    /\ fired = <<>>
    /\ at = "wait"
    /\ event = Notification
    /\ task = [n \in Nodes |-> "none"]
    /\ timer_id = [n \in Nodes |-> 0]
    /\ id_set = [n \in Nodes |-> FALSE]
    /\ spurious = 0
    /\ on_timer \in OnTimer

Ended == at \in {"stopped", "panicked"}
-----------------------------------------------------------------------------
(* The dispatch thread *)

Panics(why) == at' = "panicked" /\ event' = Panic(why)

\* The selector takes the oldest message.
TakeMessage ==
    /\ at = "wait" /\ queue /= <<>>
    /\ IF Len(queue) < EventLimit
         THEN at' = "drain" /\ event' = Head(queue)
         ELSE Panics("overwhelmed")
    /\ queue' = Tail(queue)
    /\ UNCHANGED <<fired, task, timer_id, id_set, spurious, on_timer>>

\* The selector meets the task of n in the rendezvous channel.
TakeNotification(n) ==
    /\ at = "wait" /\ task[n] = "send"
    /\ at' = "drain" /\ event' = Notification
    /\ task' = [task EXCEPT ![n] = "sleep"]
    /\ UNCHANGED <<queue, fired, timer_id, id_set, spurious, on_timer>>

\* It meets a task that is there no more: "allowed to be spurious".
TakeSpurious ==
    /\ at = "wait" /\ spurious > 0
    /\ at' = "drain" /\ event' = Notification
    /\ spurious' = spurious - 1
    /\ UNCHANGED <<queue, fired, task, timer_id, id_set, on_timer>>

\* It meets the thread that calls stop.
TakeStop ==
    /\ at = "wait"
    /\ at' = "drain" /\ event' = Stop
    /\ UNCHANGED <<queue, fired, task, timer_id, id_set, spurious, on_timer>>

\* The drain under the lock: on_timer is called for all that fired.
Drain ==
    /\ at = "drain"
    /\ IF fired = <<>> \/ on_timer = "return"
         THEN at' = "handle" /\ UNCHANGED event
         ELSE Panics("alarm")
    /\ fired' = <<>>
    /\ UNCHANGED <<queue, task, timer_id, id_set, spurious, on_timer>>

\* Mutant of Locked: the lock is released after the drain.
Locked_Drain == FALSE

\* The lock is released at the end of the iteration.
Locked == at \in {"handle", "join"}

HandleOther ==
    /\ at = "handle" /\ event.kind \in {"Stop", "TimerNotification"}
    /\ at' = IF event.kind = "Stop" THEN "stopped" ELSE "wait"
    /\ UNCHANGED
         <<queue, fired, event, task, timer_id, id_set, spurious, on_timer>>

\* The handler of the message is done, or drop_rate skips it.
Handled ==
    /\ at' = "wait"
    /\ UNCHANGED
         <<queue, fired, event, task, timer_id, id_set, spurious, on_timer>>

\* Timer::unset up to the wait for the task's end.
Unset(n) ==
    IF id_set[n]
      THEN /\ at' = "join"
           /\ id_set' = [id_set EXCEPT ![n] = FALSE]
           /\ task' = [task EXCEPT ![n] = "aborted"]
           /\ spurious' \in IF task[n] = "send"
                              THEN {spurious, spurious + 1} ELSE {spurious}
           /\ UNCHANGED <<queue, fired, event, timer_id, on_timer>>
      ELSE /\ Panics("unset")
           /\ UNCHANGED <<queue, fired, task, timer_id, id_set, spurious, on_timer>>

\* block_on(task) returns, and so does the handler.
Join(n) ==
    /\ at = "join" /\ task[n] = "none"
    /\ at' = "wait"
    /\ UNCHANGED
         <<queue, fired, event, task, timer_id, id_set, spurious, on_timer>>
-----------------------------------------------------------------------------
(* The runtime thread *)

\* A datagram is received; try_send never fails.
Receive(m) ==
    /\ ~Ended
    /\ queue' = Append(queue, m)
    /\ UNCHANGED
         <<fired, at, event, task, timer_id, id_set, spurious, on_timer>>

\* Timer::set
Set(n) ==
    /\ timer_id' = [timer_id EXCEPT ![n] = @ + 1]
    /\ id_set' = [id_set EXCEPT ![n] = TRUE]
    /\ task' = [task EXCEPT ![n] = "sleep"]

\* Mutant of AfterPush: the task ends and the loop is not notified.
AfterPush_Ends == "none"

\* Having pushed its event the task sends a notification.
AfterPush == "send"

\* The sleep is over and the timer lock is free.
Push(n) ==
    /\ task[n] = "sleep" /\ ~Locked
    /\ fired' = Append(fired, <<n, timer_id[n]>>)
    /\ task' = [task EXCEPT ![n] = AfterPush]
    /\ UNCHANGED <<queue, at, event, timer_id, id_set, spurious, on_timer>>

\* The runtime drops the task that was aborted.
DropTask(n) ==
    /\ task[n] = "aborted"
    /\ task' = [task EXCEPT ![n] = "none"]
    /\ UNCHANGED
         <<queue, fired, at, event, timer_id, id_set, spurious, on_timer>>

TimerTask(n) == Push(n) \/ DropTask(n)
=============================================================================
