-------------------------- MODULE UnreplicatedProofs --------------------------
(***************************************************************************)
(* Theorems of Unreplicated: the event loop raises no false alarm, for any *)
(* number of clients, invocations, faults and waiting events; no request   *)
(* waits for a block that nothing brings, when a block has room for a      *)
(* request of each client; and it implements ReplicatedLog.                *)
(*                                                                         *)
(* The argument.  A timer's task runs only while its timer is set and its  *)
(* client waits for the request it was set for (TasksAreSet), and the      *)
(* vector of fired timers is empty from the drain until the lock is        *)
(* released (DrainedWhileLocked).  unset happens in between, so no entry   *)
(* of the timer it removes is in the vector, and the aborted task puts     *)
(* none there before the lock is released, when it is gone.                *)
(*                                                                         *)
(* What is with the server and what it answers (BInv) is not newer than    *)
(* what its client asked, and with make_blocks it is the one request its   *)
(* client waits for.  So what is executed is newer than all that was       *)
(* executed for that client (LInv).                                        *)
(***************************************************************************)
EXTENDS Unreplicated, FiniteSetTheorems, TLAPS

Entries == Clients \X Nat

TimersTyped ==
    /\ fired \in Seq(Entries)
    /\ task \in [Clients -> {"none", "sleep", "send", "aborted"}]
    /\ id_set \in [Clients -> BOOLEAN]
    /\ consume \in [Clients -> BOOLEAN]
    /\ request_num \in [Clients -> Nat]
    /\ timer_id = request_num

TasksAreSet ==
    \A c \in Clients :
        task[c] \in {"sleep", "send"} => consume[c] /\ id_set[c]

DrainedWhileLocked == Locked => fired = <<>>

IInv == TimersTyped /\ TasksAreSet /\ DrainedWhileLocked /\ NoFalseAlarm

-----------------------------------------------------------------------------
LEMMA InitInv == Init => IInv
<1> SUFFICES ASSUME Init PROVE IInv
  OBVIOUS
<1>1. TimersTyped
  BY NodesAssumption DEF Init, Init_EventLoop, TimersTyped
<1>2. TasksAreSet
  BY NodesAssumption DEF Init, Init_EventLoop, TasksAreSet
<1>3. DrainedWhileLocked /\ NoFalseAlarm
  BY DEF Init, Init_EventLoop, DrainedWhileLocked, NoFalseAlarm
<1> QED
  BY <1>1, <1>2, <1>3 DEF IInv

\* A step that leaves the timers alone, or only moves the dispatch thread to
\* where it does not hold the lock, keeps the invariant.
LEMMA OtherInv ==
  ASSUME IInv,
         UNCHANGED <<fired, task, id_set, consume, request_num, timer_id>>,
         Locked' => Locked
  PROVE  IInv'
<1>1. TimersTyped' /\ TasksAreSet' /\ NoFalseAlarm'
  BY DEF IInv, TimersTyped, TasksAreSet, NoFalseAlarm
<1>2. DrainedWhileLocked'
  BY DEF IInv, DrainedWhileLocked
<1> QED
  BY <1>1, <1>2 DEF IInv

LEMMA InvokeInv ==
  ASSUME IInv, NEW c \in Clients, Invoke(c)
  PROVE  IInv'
<1> USE NodesAssumption
<1>1. /\ request_num' = [request_num EXCEPT ![c] = @ + 1]
      /\ timer_id' = [timer_id EXCEPT ![c] = @ + 1]
      /\ id_set' = [id_set EXCEPT ![c] = TRUE]
      /\ consume' = [consume EXCEPT ![c] = TRUE]
      /\ task' = [task EXCEPT ![c] = "sleep"]
      /\ fired' = fired /\ at' = at /\ ~consume[c]
  BY DEF Invoke, Set
<1>2. TimersTyped'
  BY <1>1 DEF IInv, TimersTyped
<1>3. TasksAreSet'
  BY <1>1 DEF IInv, TimersTyped, TasksAreSet
<1>4. DrainedWhileLocked'
  BY <1>1 DEF IInv, DrainedWhileLocked, Locked
<1>5. NoFalseAlarm'
  <2> SUFFICES ASSUME NEW k \in DOMAIN fired
               PROVE  /\ consume'[fired[k][1]] /\ id_set'[fired[k][1]]
                      /\ fired[k][2] = request_num'[fired[k][1]]
    BY <1>1 DEF NoFalseAlarm
  <2>1. fired[k] \in Entries
    BY DEF IInv, TimersTyped
  <2>2. /\ consume[fired[k][1]] /\ id_set[fired[k][1]]
        /\ fired[k][2] = request_num[fired[k][1]]
    BY DEF IInv, NoFalseAlarm
  <2>3. fired[k][1] \in Clients /\ fired[k][1] /= c
    BY <1>1, <2>1, <2>2 DEF Entries
  <2> QED
    BY <1>1, <2>2, <2>3 DEF IInv, TimersTyped
<1> QED
  BY <1>2, <1>3, <1>4, <1>5 DEF IInv

LEMMA PushInv ==
  ASSUME IInv, NEW c \in Clients, TimerStep(c), Push(c)
  PROVE  IInv'
<1> USE NodesAssumption
<1>1. /\ task[c] = "sleep" /\ ~Locked /\ at' = at
      /\ fired' = Append(fired, <<c, timer_id[c]>>)
      /\ task' = [task EXCEPT ![c] = "send"]
      /\ UNCHANGED <<id_set, consume, request_num, timer_id>>
  BY DEF TimerStep, Push, AfterPush, clientVars
<1>2. <<c, timer_id[c]>> \in Entries
  BY DEF IInv, TimersTyped, Entries
<1>3. TimersTyped'
  BY <1>1, <1>2 DEF IInv, TimersTyped
<1>4. TasksAreSet'
  BY <1>1 DEF IInv, TimersTyped, TasksAreSet
<1>5. DrainedWhileLocked'
  BY <1>1 DEF DrainedWhileLocked, Locked
<1>6. NoFalseAlarm'
  <2> SUFFICES ASSUME NEW k \in DOMAIN fired'
               PROVE  /\ consume[fired'[k][1]] /\ id_set[fired'[k][1]]
                      /\ fired'[k][2] = request_num[fired'[k][1]]
    BY <1>1 DEF NoFalseAlarm
  <2>1. CASE k \in DOMAIN fired
    <3>1. fired'[k] = fired[k]
      BY <1>1, <1>2, <2>1 DEF IInv, TimersTyped
    <3> QED
      BY <2>1, <3>1 DEF IInv, NoFalseAlarm
  <2>2. CASE k \notin DOMAIN fired
    <3>1. fired'[k] = <<c, timer_id[c]>>
      BY <1>1, <1>2, <2>2 DEF IInv, TimersTyped
    <3>2. consume[c] /\ id_set[c]
      BY <1>1 DEF IInv, TasksAreSet
    <3> QED
      BY <3>1, <3>2 DEF IInv, TimersTyped
  <2> QED
    BY <2>1, <2>2
<1> QED
  BY <1>3, <1>4, <1>5, <1>6 DEF IInv

LEMMA DropInv ==
  ASSUME IInv, NEW c \in Clients, TimerStep(c), DropTask(c)
  PROVE  IInv'
<1> USE NodesAssumption
<1>1. /\ at' = at
      /\ task' = [task EXCEPT ![c] = "none"]
      /\ UNCHANGED <<fired, id_set, consume, request_num, timer_id>>
  BY DEF TimerStep, DropTask, clientVars
<1>2. TimersTyped'
  BY <1>1 DEF IInv, TimersTyped
<1>3. TasksAreSet'
  BY <1>1 DEF IInv, TimersTyped, TasksAreSet
<1>4. DrainedWhileLocked' /\ NoFalseAlarm'
  BY <1>1 DEF IInv, DrainedWhileLocked, NoFalseAlarm, Locked
<1> QED
  BY <1>2, <1>3, <1>4 DEF IInv

LEMMA NotificationInv ==
  ASSUME IInv, NEW c \in Clients, TakeNotification(c),
         UNCHANGED <<driverVars, clientVars, serverVars, netVars>>
  PROVE  IInv'
<1> USE NodesAssumption
<1>1. /\ at' = "drain" /\ task[c] = "send"
      /\ task' = [task EXCEPT ![c] = "sleep"]
      /\ UNCHANGED <<fired, id_set, consume, request_num, timer_id>>
  BY DEF TakeNotification, clientVars
<1>2. TimersTyped'
  BY <1>1 DEF IInv, TimersTyped
<1>3. TasksAreSet'
  BY <1>1 DEF IInv, TimersTyped, TasksAreSet
<1>4. DrainedWhileLocked' /\ NoFalseAlarm'
  BY <1>1 DEF IInv, DrainedWhileLocked, NoFalseAlarm, Locked
<1> QED
  BY <1>2, <1>3, <1>4 DEF IInv

LEMMA DrainInv ==
  ASSUME IInv, Drain,
         UNCHANGED <<driverVars, clientVars, serverVars, netVars>>
  PROVE  IInv'
<1>1. /\ fired' = <<>>
      /\ UNCHANGED <<task, id_set, consume, request_num, timer_id>>
  BY DEF Drain, clientVars
<1>2. TimersTyped' /\ TasksAreSet'
  BY <1>1 DEF IInv, TimersTyped, TasksAreSet
<1>3. DrainedWhileLocked' /\ NoFalseAlarm'
  BY <1>1 DEF DrainedWhileLocked, NoFalseAlarm
<1> QED
  BY <1>2, <1>3 DEF IInv

\* The lock is held, so the vector is empty when unset removes the timer.
LEMMA ReplyInv ==
  ASSUME IInv, HandleReply
  PROVE  IInv'
<1> USE NodesAssumption
<1> DEFINE n == event.client
<1>1. fired = <<>> /\ at = "handle"
  BY DEF IInv, DrainedWhileLocked, Locked, HandleReply
<1>2. UNCHANGED <<fired, consume, request_num, timer_id>>
  BY DEF HandleReply, Unset, Handled, clientVars
<1>3. CASE /\ id_set' = [id_set EXCEPT ![n] = FALSE]
           /\ task' = [task EXCEPT ![n] = "aborted"]
  <2>1. TimersTyped'
    BY <1>2, <1>3 DEF IInv, TimersTyped
  <2>2. TasksAreSet'
    BY <1>2, <1>3 DEF IInv, TimersTyped, TasksAreSet
  <2>3. DrainedWhileLocked' /\ NoFalseAlarm'
    BY <1>1, <1>2 DEF DrainedWhileLocked, NoFalseAlarm
  <2> QED
    BY <2>1, <2>2, <2>3 DEF IInv
<1>4. CASE UNCHANGED <<id_set, task>>
  BY <1>1, <1>2, <1>4, OtherInv DEF Locked
<1>5. \/ /\ id_set' = [id_set EXCEPT ![n] = FALSE]
         /\ task' = [task EXCEPT ![n] = "aborted"]
      \/ UNCHANGED <<id_set, task>>
  BY DEF HandleReply, Unset, Handled
<1> QED
  BY <1>3, <1>4, <1>5

\* The timer's task is gone when the client stops waiting.
LEMMA ConsumeInv ==
  ASSUME IInv, Consume
  PROVE  IInv'
<1> USE NodesAssumption
<1> DEFINE n == event.client
<1>1. /\ fired = <<>> /\ task[n] = "none" /\ at' = "wait"
      /\ consume' = [consume EXCEPT ![n] = FALSE]
      /\ UNCHANGED <<fired, task, id_set, request_num, timer_id>>
  BY DEF IInv, DrainedWhileLocked, Locked, Consume, Join
<1>2. TimersTyped'
  BY <1>1 DEF IInv, TimersTyped
<1>3. TasksAreSet'
  BY <1>1 DEF IInv, TimersTyped, TasksAreSet
<1>4. DrainedWhileLocked' /\ NoFalseAlarm'
  BY <1>1 DEF DrainedWhileLocked, NoFalseAlarm
<1> QED
  BY <1>2, <1>3, <1>4 DEF IInv

LEMMA DispatchInv ==
  ASSUME IInv, Dispatch
  PROVE  IInv'
<1> USE NodesAssumption
<1>1. CASE /\ TakeMessage \/ TakeSpurious \/ TakeStop \/ HandleOther
           /\ UNCHANGED <<driverVars, clientVars, serverVars, netVars>>
  <2>1. /\ UNCHANGED <<fired, task, id_set, consume, request_num, timer_id>>
        /\ Locked' => Locked
    BY <1>1 DEF TakeMessage, TakeSpurious, TakeStop, HandleOther, Panics,
                clientVars, Locked
  <2> QED
    BY <2>1, OtherInv
<1>2. CASE \E c \in Clients :
             /\ TakeNotification(c)
             /\ UNCHANGED <<driverVars, clientVars, serverVars, netVars>>
  BY <1>2, NotificationInv
<1>3. CASE /\ Drain
           /\ UNCHANGED <<driverVars, clientVars, serverVars, netVars>>
  BY <1>3, DrainInv
<1>4. CASE HandleReply
  BY <1>4, ReplyInv
<1>5. CASE Consume
  BY <1>5, ConsumeInv
<1> QED
  BY <1>1, <1>2, <1>3, <1>4, <1>5 DEF Dispatch

LEMMA NextInv ==
  ASSUME IInv, [Next]_vars
  PROVE  IInv'
<1>1. CASE UNCHANGED vars
  BY <1>1, OtherInv DEF vars, loopVars, clientVars, Locked
<1>2. CASE Deadline \/ ServerStep \/ \E c \in Clients : Spawn(c)
  <2>1. /\ UNCHANGED <<fired, task, id_set, consume, request_num, timer_id>>
        /\ at' = at
    BY <1>2 DEF Deadline, Spawn, ServerStep, ServerHandle, ServerPace,
                loopVars, clientVars
  <2> QED
    BY <2>1, OtherInv DEF Locked
<1>3. CASE \E m \in net : ReceiveRequest(m) \/ ReceiveReply(m)
  <2>1. /\ UNCHANGED <<fired, task, id_set, consume, request_num, timer_id>>
        /\ at' = at
    BY <1>3 DEF ReceiveRequest, ReceiveReply, Receive, loopVars, clientVars
  <2> QED
    BY <2>1, OtherInv DEF Locked
<1>4. CASE \E c \in Clients : Invoke(c)
  BY <1>4, InvokeInv
<1>5. CASE \E c \in Clients : TimerStep(c)
  <2> PICK c \in Clients : TimerStep(c)
    BY <1>5
  <2>1. Push(c) \/ DropTask(c)
    BY DEF TimerStep, TimerTask
  <2> QED
    BY <2>1, PushInv, DropInv
<1>6. CASE Dispatch
  BY <1>6, DispatchInv
<1> QED
  BY <1>1, <1>2, <1>3, <1>4, <1>5, <1>6 DEF Next

\* on_timer is called only for a timer that is set, for the request its client
\* still waits for (tokio.rs, the comment on timers and the test false_alarm).
THEOREM NeverFalseAlarm == Spec => []NoFalseAlarm
<1>1. IInv => NoFalseAlarm
  BY DEF IInv
<1> QED
  BY <1>1, InitInv, NextInv, PTL DEF Spec
-----------------------------------------------------------------------------
(* What the server has and gets.  A client invokes again only when it has    *)
(* the reply to its last request, so no request is newer than its client's   *)
(* last (Numbered) and no reply newer than the one the server keeps          *)
(* (AllKnown).  With make_blocks, when nothing arrives twice, each client    *)
(* has one request with the server at most, not yet executed (Due, Apart).   *)

RequestMsgs == [kind : {"Request"}, client : Clients, num : Nat \ {0}]
Waiting == [client : Clients, num : Nat \ {0}]
Batch == Seq(Waiting)
ReplyMsgs == [kind : {"Reply"}, client : Clients, num : Nat,
              result : [before : Seq(Batch), upto : Batch]]

ServerTyped ==
    /\ net \subseteq RequestMsgs \cup ReplyMsgs
    /\ inbox \in Seq(RequestMsgs)
    /\ queue \in Seq(ReplyMsgs)
    /\ event.kind = "Reply" => event \in ReplyMsgs
    /\ requests \in Batch
    /\ pace_count \in Nat
    /\ app \in Seq(Batch)
    /\ replies \in [Clients -> ReplyMsgs \cup {NoReply}]
    /\ \A c \in Clients : replies[c] /= NoReply => replies[c].client = c
    /\ DOMAIN chain = {"digest_parent", "digest_execute", "pending"}
    /\ chain.digest_parent \in Seq(Batch)

\* The request m is not newer than the last one of its client.
Asked(m) == m.num <= request_num[m.client]

Numbered ==
    /\ \A m \in net : m.kind = "Request" => Asked(m)
    /\ \A i \in 1..Len(inbox) : Asked(inbox[i])

\* The reply m is not newer than the last one to its client.
Known(m) == m.num <= replies[m.client].num

AllKnown ==
    /\ \A c \in Clients : replies[c].num <= request_num[c]
    /\ \A m \in net : m.kind = "Reply" => Known(m)
    /\ \A i \in 1..Len(queue) : Known(queue[i])
    /\ event.kind = "Reply" => Known(event)

\* A timer that is set and a handle that unsets one are of a client that waits.
ClientWaits ==
    /\ \A c \in Clients : id_set[c] => consume[c]
    /\ at = "join" => /\ event.kind = "Reply" /\ consume[event.client]
                      /\ event.num = request_num[event.client]
                      /\ ~id_set[event.client]

\* The client waits for the reply to m, which was not executed.
Due(m) ==
    /\ m.num = request_num[m.client]
    /\ consume[m.client]
    /\ replies[m.client].num < m.num

\* Whatever is with the server, or on its way to it, is due.
AllDue ==
    /\ \A m \in net : m.kind = "Request" => Due(m)
    /\ \A i \in 1..Len(inbox) : Due(inbox[i])
    /\ \A i \in 1..Len(requests) : Due(requests[i])

\* No two requests of one client are.
Apart ==
    /\ \A i, j \in 1..Len(inbox) : inbox[i].client = inbox[j].client => i = j
    /\ \A i, j \in 1..Len(requests) :
          requests[i].client = requests[j].client => i = j
    /\ \A i \in 1..Len(inbox), j \in 1..Len(requests) :
          inbox[i].client /= requests[j].client
    /\ \A m \in net : m.kind = "Request" =>
          /\ \A i \in 1..Len(inbox) : inbox[i].client /= m.client
          /\ \A i \in 1..Len(requests) : requests[i].client /= m.client

BInv ==
    /\ ServerTyped /\ Numbered /\ AllKnown /\ ClientWaits
    /\ make_blocks => AllDue /\ Apart
-----------------------------------------------------------------------------
LEMMA BInit == Init => BInv
<1> SUFFICES ASSUME Init PROVE BInv
  OBVIOUS
<1>1. /\ net = {} /\ inbox = <<>> /\ queue = <<>> /\ requests = <<>>
      /\ event.kind = "TimerNotification" /\ at = "wait" /\ pace_count = 1
      /\ app = <<>> /\ replies = [c \in Clients |-> NoReply]
      /\ request_num = [c \in Clients |-> 0]
      /\ id_set = [c \in Clients |-> FALSE] /\ chain = NewChain
  BY NodesAssumption DEF Init, Init_EventLoop, Notification
<1>2. DOMAIN chain = {"digest_parent", "digest_execute", "pending"}
      /\ chain.digest_parent = <<>>
  BY <1>1 DEF NewChain, Genesis
<1>3. ServerTyped
  BY <1>1, <1>2 DEF ServerTyped, Batch
<1>4. Numbered /\ AllDue /\ Apart
  BY <1>1 DEF Numbered, AllDue, Apart
<1>5. AllKnown /\ ClientWaits
  BY <1>1 DEF AllKnown, ClientWaits, NoReply
<1> QED
  BY <1>3, <1>4, <1>5 DEF BInv

\* The steps of the event loop leave what the server has and gets alone.
LEMMA LoopKeepsDue ==
  ASSUME BInv, UNCHANGED <<clientVars, serverVars, netVars>>,
         queue' \in Seq(ReplyMsgs), \A i \in 1..Len(queue') : Known(queue'[i]),
         event'.kind = "Reply" => event' \in ReplyMsgs /\ Known(event'),
         ClientWaits'
  PROVE  BInv'
<1>1. UNCHANGED <<net, inbox, requests, pace_count, app, replies, chain,
                  make_blocks, consume, request_num>>
  BY DEF clientVars, serverVars, netVars
<1>2. ServerTyped'
  BY <1>1 DEF BInv, ServerTyped
<1>3. Numbered'
  BY <1>1 DEF BInv, Numbered, Asked
<1>4. make_blocks' => AllDue' /\ Apart'
  BY <1>1 DEF BInv, AllDue, Due, Apart
<1>5. AllKnown'
  BY <1>1 DEF BInv, AllKnown, Known
<1> QED
  BY <1>2, <1>3, <1>4, <1>5 DEF BInv

\* The loop takes the oldest message.
LEMMA TakesOldest ==
  ASSUME BInv, TakeMessage
  PROVE  /\ queue' \in Seq(ReplyMsgs)
         /\ \A i \in 1..Len(queue') : \E j \in 1..Len(queue) :
               queue'[i] = queue[j]
         /\ \/ \E j \in 1..Len(queue) :
                  event' = queue[j] /\ event' \in ReplyMsgs
            \/ event'.kind = "Panic"
<1>1. queue \in Seq(ReplyMsgs)
  BY DEF BInv, ServerTyped
<1>2. queue /= <<>> /\ queue' = Tail(queue)
  BY DEF TakeMessage
<1>3. /\ queue' \in Seq(ReplyMsgs)
      /\ \A i \in 1..Len(queue') :
            i + 1 \in 1..Len(queue) /\ queue'[i] = queue[i + 1]
  BY <1>1, <1>2
<1>4. /\ Head(queue) = queue[1] /\ 1 \in 1..Len(queue)
      /\ queue[1] \in ReplyMsgs
  BY <1>1, <1>2
<1>5. event' = Head(queue) \/ event'.kind = "Panic"
  BY DEF TakeMessage, Panics, Panic
<1> QED
  BY <1>3, <1>4, <1>5

LEMMA TakeMessageDue ==
  ASSUME BInv, TakeMessage,
         UNCHANGED <<driverVars, clientVars, serverVars, netVars>>
  PROVE  BInv'
<1>1. queue \in Seq(ReplyMsgs) /\ \A i \in 1..Len(queue) : Known(queue[i])
  BY DEF BInv, ServerTyped, AllKnown
<1>2. /\ queue' \in Seq(ReplyMsgs)
      /\ \A i \in 1..Len(queue') : Known(queue'[i])
  <2>1. ASSUME NEW i \in 1..Len(queue') PROVE Known(queue'[i])
    <3>1. PICK j \in 1..Len(queue) : queue'[i] = queue[j] BY TakesOldest
    <3> QED BY <1>1, <3>1
  <2> QED BY <2>1, TakesOldest
<1>3. event'.kind = "Reply" => event' \in ReplyMsgs /\ Known(event')
  BY <1>1, TakesOldest
<1>4. id_set' = id_set /\ at' /= "join"
  BY DEF TakeMessage, Panics
<1>5. ClientWaits'
  BY <1>4 DEF BInv, ClientWaits, clientVars
<1> QED
  BY <1>2, <1>3, <1>5, LoopKeepsDue

\* handle waits for the timer's task only if the reply is to the last request.
LEMMA HandleReplyDue ==
  ASSUME IInv, BInv, HandleReply
  PROVE  BInv'
<1> USE NodesAssumption
<1>1. PICK n : n = event.client OBVIOUS
<1>2. event \in ReplyMsgs /\ n \in Clients
  BY <1>1 DEF BInv, ServerTyped, HandleReply, ReplyMsgs
<1>3. /\ queue' = queue
      /\ UNCHANGED <<consume, request_num>>
      /\ UNCHANGED <<clientVars, serverVars, netVars>>
  BY DEF HandleReply, Unset, Handled, clientVars
<1>4. id_set \in [Clients -> BOOLEAN] /\ \A c \in Clients : id_set[c] => consume[c]
  BY DEF IInv, TimersTyped, BInv, ClientWaits
<1>5. CASE event.num = request_num[n] /\ id_set[n]
  <2>1. /\ id_set' = [id_set EXCEPT ![n] = FALSE] /\ event' = event
        /\ event.kind = "Reply"
    BY <1>1, <1>5 DEF HandleReply, Unset
  <2>2. ClientWaits'
    BY <1>1, <1>2, <1>3, <1>4, <1>5, <2>1 DEF ClientWaits
  <2> QED
    BY <1>3, <2>1, <2>2, LoopKeepsDue DEF BInv, ServerTyped, AllKnown
<1>6. CASE ~(event.num = request_num[n] /\ id_set[n])
  <2>1. /\ id_set' = id_set /\ at' /= "join"
        /\ event' = event \/ event'.kind = "Panic"
    BY <1>1, <1>6 DEF HandleReply, Unset, Handled, Panics, Panic
  <2>2. ClientWaits'
    BY <1>3, <1>4, <2>1 DEF ClientWaits
  <2> QED
    BY <1>3, <2>1, <2>2, LoopKeepsDue DEF BInv, ServerTyped, AllKnown
<1> QED
  BY <1>5, <1>6

\* The other steps of the loop and the timers' tasks.
LEMMA OtherDue ==
  ASSUME BInv, UNCHANGED <<clientVars, serverVars, netVars>>,
         queue' = queue, id_set' = id_set, at' /= "join" \/ at' = at,
         event' = event \/ (event'.kind /= "Reply" /\ at' /= "join")
  PROVE  BInv'
<1>1. ClientWaits'
  BY DEF BInv, ClientWaits, clientVars
<1> QED
  BY <1>1, LoopKeepsDue DEF BInv, ServerTyped, AllKnown

\* What the server has or gets are requests of clients.
LEMMA SentByClients ==
  ASSUME BInv
  PROVE  /\ \A m \in net : m.kind = "Request" => m \in RequestMsgs
         /\ \A m \in net : m.kind = "Reply" => m \in ReplyMsgs
         /\ \A m \in net : m.client \in Clients
         /\ \A i \in 1..Len(inbox) : inbox[i].client \in Clients
         /\ \A i \in 1..Len(requests) : requests[i].client \in Clients
<1>1. /\ net \subseteq RequestMsgs \cup ReplyMsgs
      /\ inbox \in Seq(RequestMsgs) /\ requests \in Seq(Waiting)
  BY DEF BInv, ServerTyped, Batch
<1>2. \A m \in net : m.client \in Clients
  BY <1>1 DEF RequestMsgs, ReplyMsgs
<1>3. \A i \in 1..Len(inbox) : inbox[i].client \in Clients
  <2>1. \A i \in 1..Len(inbox) : inbox[i] \in RequestMsgs
    BY <1>1
  <2> QED
    BY <2>1 DEF RequestMsgs
<1>4. \A i \in 1..Len(requests) : requests[i].client \in Clients
  <2>1. \A i \in 1..Len(requests) : requests[i] \in Waiting
    BY <1>1
  <2> QED
    BY <2>1 DEF Waiting
<1>5. /\ \A m \in net : m.kind = "Request" => m \in RequestMsgs
      /\ \A m \in net : m.kind = "Reply" => m \in ReplyMsgs
  BY <1>1 DEF RequestMsgs, ReplyMsgs
<1> QED
  BY <1>2, <1>3, <1>4, <1>5

LEMMA RepliesNum ==
  ASSUME BInv, NEW c \in Clients
  PROVE  replies[c].num \in Nat
<1>1. replies[c] \in ReplyMsgs \cup {NoReply}
  BY DEF BInv, ServerTyped
<1> QED
  BY <1>1 DEF ReplyMsgs, NoReply

\* The first request of a client after it consumed the reply to its last.
LEMMA InvokeDue ==
  ASSUME IInv, BInv, NEW c \in Clients, Invoke(c)
  PROVE  BInv'
<1> USE NodesAssumption
<1>1. /\ ~consume[c]
      /\ request_num' = [request_num EXCEPT ![c] = @ + 1]
      /\ consume' = [consume EXCEPT ![c] = TRUE]
      /\ id_set' = [id_set EXCEPT ![c] = TRUE]
      /\ net' = net \cup {RequestMsg(c, request_num[c] + 1)}
      /\ UNCHANGED <<queue, at, event, serverVars>>
  BY DEF Invoke, Set
<1>2. UNCHANGED <<inbox, requests, pace_count, app, replies, chain, make_blocks>>
  BY <1>1 DEF serverVars
<1>3. /\ request_num \in [Clients -> Nat] /\ consume \in [Clients -> BOOLEAN]
      /\ id_set \in [Clients -> BOOLEAN]
  BY DEF IInv, TimersTyped
<1>4. PICK x : x = RequestMsg(c, request_num[c] + 1) OBVIOUS
<1>5. /\ x \in RequestMsgs /\ x.kind = "Request"
      /\ x.client = c /\ x.num = request_num[c] + 1
  BY <1>3, <1>4 DEF RequestMsg, RequestMsgs
<1>6. net' = net \cup {x}
  BY <1>1, <1>4
<1>7. ServerTyped'
  BY <1>1, <1>2, <1>5, <1>6 DEF BInv, ServerTyped
<1>8. /\ \A m \in net : m.kind = "Request" => m \in RequestMsgs
      /\ \A m \in net : m.client \in Clients
      /\ \A i \in 1..Len(inbox) : inbox[i].client \in Clients
      /\ \A i \in 1..Len(requests) : requests[i].client \in Clients
  BY SentByClients
<1>9. /\ \A d \in Clients : replies[d].num <= request_num[d]
      /\ \A d \in Clients : replies[d].num \in Nat
  BY RepliesNum DEF BInv, AllKnown
<1>10. Numbered'
  <2>1. \A i \in 1..Len(inbox) : inbox[i] \in RequestMsgs
    BY DEF BInv, ServerTyped
  <2>2. ASSUME NEW m \in RequestMsgs, Asked(m)
        PROVE  Asked(m)'
    BY <1>1, <1>3, <2>2 DEF Asked, RequestMsgs
  <2>3. Asked(x)'
    BY <1>1, <1>3, <1>5 DEF Asked
  <2> QED
    BY <1>2, <1>6, <1>8, <2>1, <2>2, <2>3 DEF BInv, Numbered
<1>11. ASSUME make_blocks PROVE AllDue' /\ Apart'
  <2>1. ASSUME NEW m, Due(m), m.client \in Clients
        PROVE  m.client /= c /\ Due(m)'
    BY <1>1, <1>2, <1>3, <2>1 DEF Due
  <2>2. Due(x)'
    BY <1>1, <1>2, <1>3, <1>5, <1>9 DEF Due
  <2>3. AllDue'
    BY <1>2, <1>6, <1>8, <1>11, <2>1, <2>2 DEF BInv, AllDue
  <2>4. Apart'
    BY <1>2, <1>5, <1>6, <1>8, <1>11, <2>1 DEF BInv, AllDue, Apart
  <2> QED
    BY <2>3, <2>4
<1>12. AllKnown'
  <2>1. \A d \in Clients : replies'[d].num <= request_num'[d]
    BY <1>1, <1>2, <1>3, <1>9
  <2> QED
    BY <1>1, <1>2, <1>5, <1>6, <2>1 DEF BInv, AllKnown, Known
<1>13. ClientWaits'
  <2>1. at = "join" => event.client \in Clients
    BY DEF BInv, ClientWaits, ServerTyped, ReplyMsgs
  <2> QED
    BY <1>1, <1>3, <2>1 DEF BInv, ClientWaits
<1> QED
  BY <1>2, <1>7, <1>10, <1>11, <1>12, <1>13 DEF BInv

\* A client whose request is executed has none with the server.
LEMMA ConsumeDue ==
  ASSUME IInv, BInv, Consume
  PROVE  BInv'
<1> USE NodesAssumption
<1>1. PICK n : n = event.client OBVIOUS
<1>2. /\ at = "join" /\ at' = "wait"
      /\ consume' = [consume EXCEPT ![n] = FALSE]
      /\ UNCHANGED <<queue, event, id_set, request_num>>
      /\ UNCHANGED <<serverVars, netVars>>
  BY <1>1 DEF Consume, Join
<1>3. UNCHANGED <<net, inbox, requests, pace_count, app, replies, chain,
                  make_blocks>>
  BY <1>2 DEF serverVars, netVars
<1>4. /\ request_num \in [Clients -> Nat] /\ consume \in [Clients -> BOOLEAN]
      /\ id_set \in [Clients -> BOOLEAN]
  BY DEF IInv, TimersTyped
<1>5. /\ n \in Clients /\ request_num[n] <= replies[n].num /\ ~id_set[n]
  <2>1. /\ event.kind = "Reply" /\ event.num = request_num[n] /\ ~id_set[n]
    BY <1>1, <1>2 DEF BInv, ClientWaits
  <2>2. event \in ReplyMsgs /\ Known(event)
    BY <2>1 DEF BInv, ServerTyped, AllKnown
  <2> QED
    BY <1>1, <2>1, <2>2 DEF Known, ReplyMsgs
<1>6. ServerTyped'
  BY <1>2, <1>3 DEF BInv, ServerTyped
<1>7. ASSUME NEW m, Due(m), m.client \in Clients
      PROVE  Due(m)'
  <2>1. m.client /= n
    BY <1>4, <1>5, <1>7, RepliesNum DEF Due
  <2> QED
    BY <1>2, <1>3, <1>4, <1>7, <2>1 DEF Due
<1>8. make_blocks' => AllDue'
  BY <1>3, <1>7, SentByClients DEF BInv, AllDue
<1>9. make_blocks' => Apart'
  BY <1>3 DEF BInv, Apart
<1>10. Numbered'
  BY <1>2, <1>3 DEF BInv, Numbered, Asked
<1>11. AllKnown'
  BY <1>2, <1>3 DEF BInv, AllKnown, Known
<1>12. ClientWaits'
  BY <1>2, <1>4, <1>5 DEF BInv, ClientWaits
<1> QED
  BY <1>6, <1>8, <1>9, <1>10, <1>11, <1>12 DEF BInv

\* The requests in flight of one client are one request.
LEMMA OneInFlight ==
  ASSUME BInv, make_blocks, NEW m \in net, m.kind = "Request",
         NEW x \in net, x.kind = "Request", x.client = m.client
  PROVE  x = m
<1>1. m \in RequestMsgs /\ x \in RequestMsgs
  BY SentByClients
<1>2. m.num = x.num
  BY DEF BInv, AllDue, Due
<1> QED
  BY <1>1, <1>2 DEF RequestMsgs

\* A datagram is received by a client or by the server.
LEMMA ReceiveReplyDue ==
  ASSUME BInv, NEW m \in net, ReceiveReply(m)
  PROVE  BInv'
<1>1. /\ m.kind = "Reply" /\ queue' = Append(queue, m) /\ net' = net \ {m}
      /\ UNCHANGED <<at, event, id_set, serverVars, clientVars>>
  BY DEF ReceiveReply, Receive
<1>2. UNCHANGED <<inbox, requests, pace_count, app, replies, chain, make_blocks,
                  consume, request_num>>
  BY <1>1 DEF serverVars, clientVars
<1>3. m \in ReplyMsgs /\ Known(m)
  BY <1>1, SentByClients DEF BInv, AllKnown
<1>4. queue \in Seq(ReplyMsgs) /\ \A i \in 1..Len(queue) : Known(queue[i])
  BY DEF BInv, ServerTyped, AllKnown
<1>5. /\ queue' \in Seq(ReplyMsgs)
      /\ \A i \in 1..Len(queue') : Known(queue'[i])
  BY <1>1, <1>3, <1>4
<1>6. ServerTyped'
  BY <1>1, <1>2, <1>5 DEF BInv, ServerTyped
<1>7. Numbered'
  BY <1>1, <1>2 DEF BInv, Numbered, Asked
<1>8. make_blocks' => AllDue' /\ Apart'
  BY <1>1, <1>2 DEF BInv, AllDue, Due, Apart
<1>9. AllKnown'
  BY <1>1, <1>2, <1>5 DEF BInv, AllKnown, Known
<1>10. ClientWaits'
  BY <1>1, <1>2 DEF BInv, ClientWaits
<1> QED
  BY <1>6, <1>7, <1>8, <1>9, <1>10 DEF BInv

LEMMA ReceiveRequestDue ==
  ASSUME BInv, NEW m \in net, ReceiveRequest(m)
  PROVE  BInv'
<1>1. /\ m.kind = "Request" /\ inbox' = Append(inbox, m)
      /\ net' = net \ {m} \/ (~make_blocks /\ net' = net)
      /\ UNCHANGED <<queue, at, event, id_set, clientVars>>
      /\ UNCHANGED <<requests, pace_count, app, replies, chain, make_blocks>>
  BY DEF ReceiveRequest, loopVars
<1>2. UNCHANGED <<consume, request_num>>
  BY <1>1 DEF clientVars
<1>3. m \in RequestMsgs
  BY <1>1, SentByClients
<1>4. inbox \in Seq(RequestMsgs)
  BY DEF BInv, ServerTyped
<1>5. /\ inbox' \in Seq(RequestMsgs) /\ Len(inbox') = Len(inbox) + 1
      /\ Len(inbox) \in Nat
      /\ \A i \in 1..Len(inbox) : inbox'[i] = inbox[i]
      /\ inbox'[Len(inbox) + 1] = m
  BY <1>1, <1>3, <1>4
<1>6. ServerTyped'
  BY <1>1, <1>2, <1>5 DEF BInv, ServerTyped
<1>7. Numbered'
  <2>1. Asked(m) /\ \A i \in 1..Len(inbox) : Asked(inbox[i])
    BY <1>1 DEF BInv, Numbered
  <2>2. \A i \in 1..Len(inbox') : \E x : x = inbox'[i] /\ Asked(x)
    BY <1>5, <2>1
  <2> QED
    BY <1>1, <1>2, <2>2 DEF BInv, Numbered, Asked
<1>8. ASSUME make_blocks PROVE AllDue'
  <2>1. \A x : Due(x) => Due(x)'
    BY <1>1, <1>2 DEF Due
  <2>2. Due(m) /\ \A i \in 1..Len(inbox) : Due(inbox[i])
    BY <1>1, <1>8 DEF BInv, AllDue
  <2>3. \A i \in 1..Len(inbox') : \E x : x = inbox'[i] /\ Due(x)
    BY <1>5, <2>2
  <2>4. (\A i \in 1..Len(inbox) : Due(inbox[i]))'
    BY <2>1, <2>3
  <2> QED
    BY <1>1, <1>8, <2>1, <2>4 DEF BInv, AllDue
<1>9. ASSUME make_blocks PROVE Apart'
  <2>1. \A i \in 1..Len(inbox') :
           \/ i \in 1..Len(inbox) /\ inbox'[i] = inbox[i]
           \/ i = Len(inbox) + 1 /\ inbox'[i] = m
    BY <1>5
  <2>2. \A x \in net' : x.kind = "Request" => x.client /= m.client
    BY <1>1, <1>9, OneInFlight
  <2>3. \A i, j \in 1..Len(inbox') : inbox'[i].client = inbox'[j].client => i = j
    BY <1>1, <1>9, <2>1 DEF BInv, Apart
  <2>4. \A i \in 1..Len(inbox'), j \in 1..Len(requests) :
           inbox'[i].client /= requests[j].client
    BY <1>1, <1>9, <2>1 DEF BInv, Apart
  <2>5. \A x \in net' : x.kind = "Request" =>
           /\ \A i \in 1..Len(inbox') : inbox'[i].client /= x.client
           /\ \A i \in 1..Len(requests) : requests[i].client /= x.client
    BY <1>1, <1>9, <2>1, <2>2 DEF BInv, Apart
  <2> QED
    BY <1>1, <1>9, <2>3, <2>4, <2>5 DEF BInv, Apart
<1>10. AllKnown'
  BY <1>1, <1>2 DEF BInv, AllKnown, Known
<1>11. ClientWaits'
  BY <1>1, <1>2 DEF BInv, ClientWaits
<1> QED
  BY <1>1, <1>6, <1>7, <1>8, <1>9, <1>10, <1>11 DEF BInv

\* The requests of b are of different clients, none is executed and all asked.
New(b) ==
    /\ \A i \in 1..Len(b) : Asked(b[i]) /\ ~Known(b[i])
    /\ \A i, j \in 1..Len(b) : b[i].client = b[j].client => i = j

\* The reply to request i of b, executed now.
Reply(b, i) ==
    ReplyMsg(b[i].client, b[i].num,
             [before |-> app, upto |-> SubSeq(b, 1, i)])

LEMMA ReplyType ==
  ASSUME BInv, NEW b \in Batch, NEW i \in 1..Len(b)
  PROVE  /\ Reply(b, i) \in ReplyMsgs
         /\ Reply(b, i).kind = "Reply"
         /\ Reply(b, i).client = b[i].client /\ Reply(b, i).num = b[i].num
         /\ Reply(b, i).result = [before |-> app, upto |-> SubSeq(b, 1, i)]
<1>1. b[i] \in Waiting
  BY DEF Batch
<1>2. b[i].client \in Clients /\ b[i].num \in Nat
  BY <1>1 DEF Waiting
<1>3. SubSeq(b, 1, i) \in Seq(Waiting) /\ app \in Seq(Batch)
  BY DEF Batch, BInv, ServerTyped
<1>4. PICK r : r = [before |-> app, upto |-> SubSeq(b, 1, i)] OBVIOUS
<1>5. r \in [before : Seq(Batch), upto : Batch]
  BY <1>3, <1>4 DEF Batch
<1>6. Reply(b, i) = ReplyMsg(b[i].client, b[i].num, r)
  BY <1>4 DEF Reply
<1> QED
  BY <1>2, <1>4, <1>5, <1>6 DEF ReplyMsg, ReplyMsgs

\* What execute does: the replies sent are of the batch, and the last one to a
\* client of the batch is one of them.
LEMMA ExecuteDoes ==
  ASSUME BInv, NEW b \in Batch, Execute(b)
  PROVE  /\ app' = Append(app, b) /\ app' \in Seq(Batch)
         /\ net' = net \cup {Reply(b, i) : i \in 1..Len(b)}
         /\ net' \subseteq RequestMsgs \cup ReplyMsgs
         /\ \A m \in net' : m.kind = "Request" => m \in net
         /\ \A c \in Clients :
               \/ /\ replies'[c] = replies[c]
                  /\ \A i \in 1..Len(b) : b[i].client /= c
               \/ \E i \in 1..Len(b) :
                     b[i].client = c /\ replies'[c] = Reply(b, i)
         /\ DOMAIN replies' = Clients
         /\ replies' = [c \in Clients |-> replies'[c]]
<1>1. PICK rs : rs = BatchReplies(app, b) OBVIOUS
<1>2. rs = {Reply(b, i) : i \in 1..Len(b)}
  BY <1>1 DEF BatchReplies, Reply
<1>3. /\ app' = Append(app, b) /\ net' = net \cup rs
      /\ replies' = Inserted(rs)
  BY <1>1 DEF Execute
<1>4. app' \in Seq(Batch)
  BY <1>3 DEF BInv, ServerTyped
<1>5. ASSUME NEW c \in Clients
      PROVE  \/ /\ replies'[c] = replies[c]
                /\ \A i \in 1..Len(b) : b[i].client /= c
             \/ \E i \in 1..Len(b) :
                   b[i].client = c /\ replies'[c] = Reply(b, i)
  <2>1. CASE \E x \in rs : x.client = c
    <3>1. replies'[c] = CHOOSE x \in rs : x.client = c
      BY <1>3, <2>1 DEF Inserted
    <3>2. replies'[c] \in rs /\ replies'[c].client = c
      BY <2>1, <3>1
    <3>3. PICK i \in 1..Len(b) : replies'[c] = Reply(b, i)
      BY <1>2, <3>2
    <3> QED
      BY <3>2, <3>3, ReplyType
  <2>2. CASE ~\E x \in rs : x.client = c
    <3>1. replies'[c] = replies[c]
      BY <1>3, <2>2 DEF Inserted
    <3>2. \A i \in 1..Len(b) : b[i].client /= c
      <4> TAKE i \in 1..Len(b)
      <4>1. Reply(b, i) \in rs /\ Reply(b, i).client = b[i].client
        BY <1>2, ReplyType
      <4> QED
        BY <2>2, <4>1
    <3> QED
      BY <3>1, <3>2
  <2> QED
    BY <2>1, <2>2
<1>6. DOMAIN replies' = Clients /\ replies' = [c \in Clients |-> replies'[c]]
  BY <1>3 DEF Inserted
<1>7. net \subseteq RequestMsgs \cup ReplyMsgs
  BY DEF BInv, ServerTyped
<1>8. \A x \in rs : x \in ReplyMsgs /\ x.kind = "Reply"
  BY <1>2, ReplyType
<1> QED
  BY <1>2, <1>3, <1>4, <1>5, <1>6, <1>7, <1>8

\* Requests that are new are newer than all the server executed for the clients.
LEMMA ExecuteKnown ==
  ASSUME IInv, BInv, NEW b \in Batch, Execute(b), New(b),
         UNCHANGED <<queue, event, request_num>>
  PROVE  /\ AllKnown'
         /\ replies' \in [Clients -> ReplyMsgs \cup {NoReply}]
         /\ \A c \in Clients : replies'[c] /= NoReply => replies'[c].client = c
         /\ \A c \in Clients : replies[c].num <= replies'[c].num
         /\ \A i \in 1..Len(b) : Known(b[i])'
<1>1. /\ net' = net \cup {Reply(b, i) : i \in 1..Len(b)}
      /\ replies' = [c \in Clients |-> replies'[c]]
  BY ExecuteDoes
<1>2. ASSUME NEW c \in Clients
      PROVE  /\ replies'[c] \in ReplyMsgs \cup {NoReply}
             /\ replies'[c] /= NoReply => replies'[c].client = c
             /\ replies[c].num <= replies'[c].num
             /\ replies'[c].num <= request_num[c]
  <2>1. /\ replies[c] \in ReplyMsgs \cup {NoReply} /\ replies[c].num \in Nat
        /\ replies[c].num <= request_num[c]
        /\ replies[c] /= NoReply => replies[c].client = c
    BY RepliesNum DEF BInv, ServerTyped, AllKnown
  <2>2. ASSUME NEW i \in 1..Len(b), b[i].client = c, replies'[c] = Reply(b, i)
        PROVE  /\ replies'[c] \in ReplyMsgs /\ replies'[c].client = c
               /\ replies'[c].num = b[i].num /\ b[i].num \in Nat
               /\ b[i].num <= request_num[c] /\ ~(b[i].num <= replies[c].num)
    <3>1. /\ replies'[c] \in ReplyMsgs /\ replies'[c].client = c
          /\ replies'[c].num = b[i].num
      BY <2>2, ReplyType
    <3>2. b[i].num <= request_num[c] /\ ~(b[i].num <= replies[c].num)
      BY <2>2 DEF New, Asked, Known
    <3>3. b[i].num \in Nat
      BY <3>1 DEF ReplyMsgs
    <3> QED
      BY <3>1, <3>2, <3>3
  <2>3. CASE replies'[c] = replies[c]
    BY <2>1, <2>3
  <2>4. CASE \E i \in 1..Len(b) : b[i].client = c /\ replies'[c] = Reply(b, i)
    BY <2>1, <2>2, <2>4
  <2> QED
    BY <2>3, <2>4, ExecuteDoes
<1>3. replies' \in [Clients -> ReplyMsgs \cup {NoReply}]
  <2>1. PICK f : f = replies' OBVIOUS
  <2>2. f = [c \in Clients |-> f[c]] BY <1>1, <2>1
  <2>3. \A c \in Clients : f[c] \in ReplyMsgs \cup {NoReply} BY <1>2, <2>1
  <2>4. f \in [Clients -> ReplyMsgs \cup {NoReply}] BY <2>2, <2>3
  <2> QED BY <2>1, <2>4
<1>4. ASSUME NEW i \in 1..Len(b)
      PROVE  /\ Known(b[i])'
             /\ \A x : x = Reply(b, i) => x \in ReplyMsgs /\ Known(x)'
  <2>1. PICK c : c = b[i].client OBVIOUS
  <2>2. c \in Clients
    <3>1. b[i] \in Waiting BY DEF Batch
    <3> QED BY <2>1, <3>1 DEF Waiting
  <2>3. PICK j \in 1..Len(b) : b[j].client = c /\ replies'[c] = Reply(b, j)
    BY <2>1, <2>2, ExecuteDoes
  <2>4. i = j
    BY <2>1, <2>3 DEF New
  <2>5. /\ Reply(b, i) \in ReplyMsgs /\ Reply(b, i).client = c
        /\ Reply(b, i).num = b[i].num
    BY <2>1, ReplyType
  <2>6. replies'[c].num = b[i].num /\ b[i].num \in Nat
    BY <2>3, <2>4, <2>5 DEF ReplyMsgs
  <2>7. Known(b[i])'
    BY <2>1, <2>6 DEF Known
  <2>8. \A x : x = Reply(b, i) => Known(x)'
    BY <2>5, <2>6 DEF Known
  <2> QED
    BY <2>5, <2>7, <2>8
<1>5. ASSUME NEW m \in ReplyMsgs, Known(m) PROVE Known(m)'
  <2>1. m.client \in Clients /\ m.num \in Nat
    BY DEF ReplyMsgs
  <2>2. replies[m.client].num \in Nat /\ replies'[m.client].num \in Nat
    BY <1>2, <2>1, RepliesNum DEF ReplyMsgs, NoReply
  <2> QED
    BY <1>2, <1>5, <2>1, <2>2 DEF Known
<1>6. AllKnown'
  <2>1. \A m \in net' : m.kind = "Reply" => Known(m)'
    <3>1. \A m \in net : m.kind = "Reply" => m \in ReplyMsgs /\ Known(m)
      BY SentByClients DEF BInv, AllKnown
    <3>2. ASSUME NEW m \in net', m.kind = "Reply" PROVE Known(m)'
      <4>1. CASE m \in net
        BY <1>5, <3>1, <3>2, <4>1
      <4>2. CASE \E i \in 1..Len(b) : m = Reply(b, i)
        BY <1>4, <4>2
      <4> QED
        BY <1>1, <4>1, <4>2
    <3> QED
      BY <3>2
  <2>2. \A i \in 1..Len(queue) : \E y : y = queue[i] /\ Known(y)'
    <3>1. \A i \in 1..Len(queue) : queue[i] \in ReplyMsgs /\ Known(queue[i])
      BY DEF BInv, ServerTyped, AllKnown
    <3> QED
      BY <1>5, <3>1
  <2>3. (\A i \in 1..Len(queue) : Known(queue[i]))'
    BY <2>2
  <2>4. event.kind = "Reply" => \E y : y = event /\ Known(y)'
    BY <1>5 DEF BInv, ServerTyped, AllKnown
  <2>5. (event.kind = "Reply" => Known(event))'
    BY <2>4
  <2> QED
    BY <1>2, <2>1, <2>3, <2>5 DEF AllKnown
<1> QED
  BY <1>2, <1>3, <1>4, <1>6

\* The server takes the oldest request.
LEMMA HeadOfInbox ==
  ASSUME BInv, inbox /= <<>>, NEW m, m = Head(inbox), inbox' = Tail(inbox)
  PROVE  /\ m = inbox[1] /\ 1 \in 1..Len(inbox) /\ Len(inbox) \in Nat
         /\ m \in RequestMsgs /\ Asked(m)
         /\ inbox' \in Seq(RequestMsgs) /\ Len(inbox') = Len(inbox) - 1
         /\ \A i \in 1..Len(inbox') :
               i + 1 \in 1..Len(inbox) /\ inbox'[i] = inbox[i + 1]
<1>1. inbox \in Seq(RequestMsgs)
  BY DEF BInv, ServerTyped
<1>2. /\ m = inbox[1] /\ 1 \in 1..Len(inbox) /\ Len(inbox) \in Nat
      /\ inbox' \in Seq(RequestMsgs) /\ Len(inbox') = Len(inbox) - 1
      /\ \A i \in 1..Len(inbox') :
            i + 1 \in 1..Len(inbox) /\ inbox'[i] = inbox[i + 1]
  BY <1>1
<1>3. m \in RequestMsgs /\ Asked(m)
  BY <1>1, <1>2 DEF BInv, Numbered
<1> QED
  BY <1>2, <1>3

LEMMA RequestOf ==
  ASSUME NEW m \in RequestMsgs, NEW x, x = Request(m.client, m.num)
  PROVE  x \in Waiting /\ x.client = m.client /\ x.num = m.num
BY DEF RequestMsgs, Waiting, Request

\* A request that was not executed is executed alone or waits for a block.
LEMMA NewRequest ==
  ASSUME IInv, BInv, NEW m \in RequestMsgs, Asked(m), ~Executed(m),
         NEW b, b = <<Request(m.client, m.num)>>
  PROVE  b \in Batch /\ New(b)
<1>1. PICK x : x = Request(m.client, m.num) OBVIOUS
<1>2. x \in Waiting /\ x.client = m.client /\ x.num = m.num
  BY <1>1, RequestOf
<1>3. b = <<x>> /\ b \in Batch /\ Len(b) = 1 /\ b[1] = x
  BY <1>1, <1>2 DEF Batch
<1>4. m.client \in Clients /\ m.num \in Nat /\ replies[m.client].num \in Nat
  BY RepliesNum DEF RequestMsgs
<1>5. Asked(x) /\ ~Known(x)
  BY <1>2, <1>4 DEF Asked, Known, Executed
<1>6. New(b)
  BY <1>3, <1>5 DEF New
<1> QED
  BY <1>3, <1>6

\* What handling or skipping the oldest request does.
LEMMA ServerHandleDoes ==
  ASSUME IInv, BInv, ServerHandle
  PROVE  \E m \in RequestMsgs :
            /\ m = Head(inbox) /\ Asked(m)
            /\ \/ /\ Known(m)
                  /\ UNCHANGED <<requests, app, replies>>
                  /\ \/ net' = net
                     \/ net' = net \cup {replies[m.client]}
                  /\ net' /= net => replies[m.client] \in ReplyMsgs
               \/ /\ ~Known(m)
                  /\ requests' = Append(requests, Request(m.client, m.num))
                  /\ IF make_blocks THEN UNCHANGED <<app, replies, net>>
                     ELSE Execute(<<Request(m.client, m.num)>>)
               \/ UNCHANGED <<requests, app, replies, net>>
<1>1. inbox /= <<>> /\ inbox' = Tail(inbox)
  BY DEF ServerHandle
<1>2. PICK m : m = Head(inbox) OBVIOUS
<1>3. m \in RequestMsgs /\ Asked(m)
  BY <1>1, <1>2, HeadOfInbox
<1>4. /\ m.client \in Clients /\ m.num \in Nat /\ m.num /= 0
      /\ replies[m.client].num \in Nat
      /\ replies[m.client] \in ReplyMsgs \cup {NoReply}
  BY <1>3, RepliesNum DEF RequestMsgs, BInv, ServerTyped
<1>5. Executed(m) <=> Known(m)
  BY <1>4 DEF Executed, Known
<1>6. CASE Executed(m) /\ HandleRequest(m)
  <2>1. PICK s : s = {x \in {replies[m.client]} : x.num = m.num} OBVIOUS
  <2>2. net' = net \cup s /\ UNCHANGED <<requests, app, replies>>
    BY <1>6, <2>1 DEF HandleRequest
  <2>3. s = {} \/ (s = {replies[m.client]} /\ replies[m.client].num = m.num)
    BY <2>1
  <2>4. replies[m.client].num = m.num => replies[m.client] \in ReplyMsgs
    BY <1>4 DEF NoReply
  <2>5. s = {} => net' = net
    BY <2>2
  <2> QED
    BY <1>2, <1>3, <1>5, <1>6, <2>2, <2>3, <2>4, <2>5
<1>7. CASE ~Executed(m) /\ HandleRequest(m)
  BY <1>2, <1>3, <1>5, <1>7 DEF HandleRequest
<1>8. HandleRequest(m) \/ UNCHANGED <<requests, app, replies, net>>
  BY <1>2 DEF ServerHandle
<1> QED
  BY <1>2, <1>3, <1>6, <1>7, <1>8

\* The requests that wait, with the one that may be added.
LEMMA Appended ==
  ASSUME requests \in Batch, NEW x \in Waiting,
         requests' = requests \/ requests' = Append(requests, x)
  PROVE  /\ requests' \in Batch
         /\ \A i \in 1..Len(requests') :
               \/ i \in 1..Len(requests) /\ requests'[i] = requests[i]
               \/ i = Len(requests) + 1 /\ requests'[i] = x
<1>1. CASE requests' = requests
  BY <1>1
<1>2. CASE requests' = Append(requests, x)
  <2>1. /\ requests' \in Seq(Waiting) /\ Len(requests') = Len(requests) + 1
        /\ Len(requests) \in Nat
        /\ \A i \in 1..Len(requests) : requests'[i] = requests[i]
        /\ requests'[Len(requests) + 1] = x
    BY <1>2 DEF Batch
  <2> QED
    BY <2>1 DEF Batch
<1> QED
  BY <1>1, <1>2

\* With make_blocks the oldest request is due, so it is lost or waits.
LEMMA HandleKeepsDue ==
  ASSUME IInv, BInv, make_blocks, ServerHandle
  PROVE  AllDue' /\ Apart'
<1>1. /\ inbox /= <<>> /\ inbox' = Tail(inbox)
      /\ UNCHANGED <<loopVars, clientVars, chain>>
  BY DEF ServerHandle
<1>2. UNCHANGED <<consume, request_num>>
  BY <1>1 DEF clientVars
<1>3. PICK m : m = Head(inbox) OBVIOUS
<1>4. /\ m = inbox[1] /\ 1 \in 1..Len(inbox) /\ Len(inbox) \in Nat
      /\ m \in RequestMsgs /\ Len(inbox') = Len(inbox) - 1
      /\ \A i \in 1..Len(inbox') :
            i + 1 \in 1..Len(inbox) /\ inbox'[i] = inbox[i + 1]
  BY <1>1, <1>3, HeadOfInbox
<1>5. AllDue /\ Apart
  BY DEF BInv
<1>6. Due(m) /\ ~Known(m)
  <2>1. Due(m)
    BY <1>4, <1>5 DEF AllDue
  <2>2. replies[m.client].num \in Nat /\ m.num \in Nat
    BY <1>4, RepliesNum DEF RequestMsgs
  <2> QED
    BY <2>1, <2>2 DEF Due, Known
<1>7. PICK x : x = Request(m.client, m.num) OBVIOUS
<1>8. x \in Waiting /\ x.client = m.client /\ Due(x)
  BY <1>4, <1>6, <1>7, RequestOf DEF Due
<1>9. /\ requests' = requests \/ requests' = Append(requests, x)
      /\ UNCHANGED <<app, replies, net>>
  BY <1>3, <1>6, <1>7, ServerHandleDoes
<1>10. \A i \in 1..Len(requests') :
          \/ i \in 1..Len(requests) /\ requests'[i] = requests[i]
          \/ i = Len(requests) + 1 /\ requests'[i] = x
  BY <1>8, <1>9, Appended DEF BInv, ServerTyped
<1>11. AllDue'
  <2>1. \A y : Due(y) => Due(y)'
    BY <1>2, <1>9 DEF Due
  <2>2. \A i \in 1..Len(inbox') : \E y : y = inbox'[i] /\ Due(y)
    BY <1>4, <1>5 DEF AllDue
  <2>3. \A i \in 1..Len(requests') : \E y : y = requests'[i] /\ Due(y)
    BY <1>5, <1>8, <1>10 DEF AllDue
  <2>4. (\A i \in 1..Len(inbox) : Due(inbox[i]))'
    BY <2>1, <2>2
  <2>5. (\A i \in 1..Len(requests) : Due(requests[i]))'
    BY <2>1, <2>3
  <2> QED
    BY <1>5, <1>9, <2>1, <2>4, <2>5 DEF AllDue
<1>12. Apart'
  <2>1. \A i, j \in 1..Len(inbox') : inbox'[i].client = inbox'[j].client => i = j
    <3> TAKE i, j \in 1..Len(inbox')
    <3> HAVE inbox'[i].client = inbox'[j].client
    <3>1. i + 1 = j + 1
      BY <1>4, <1>5 DEF Apart
    <3> QED
      BY <1>4, <3>1
  <2>2. \A i \in 1..Len(inbox') : inbox'[i].client /= m.client
    <3> TAKE i \in 1..Len(inbox')
    <3>1. i + 1 /= 1 /\ i + 1 \in 1..Len(inbox)
      BY <1>4
    <3> QED
      BY <1>4, <1>5, <3>1 DEF Apart
  <2>3. \A i \in 1..Len(requests) : requests[i].client /= m.client
    BY <1>4, <1>5 DEF Apart
  <2>4. \A i, j \in 1..Len(requests') :
           requests'[i].client = requests'[j].client => i = j
    BY <1>5, <1>8, <1>10, <2>3 DEF Apart
  <2>5. \A i \in 1..Len(inbox'), j \in 1..Len(requests') :
           inbox'[i].client /= requests'[j].client
    <3> TAKE i \in 1..Len(inbox'), j \in 1..Len(requests')
    <3>1. CASE j \in 1..Len(requests) /\ requests'[j] = requests[j]
      <4>1. i + 1 \in 1..Len(inbox) /\ inbox'[i] = inbox[i + 1]
        BY <1>4
      <4>2. inbox[i + 1].client /= requests[j].client
        BY <1>5, <3>1, <4>1 DEF Apart
      <4> QED
        BY <3>1, <4>1, <4>2
    <3>2. CASE requests'[j] = x
      BY <1>8, <2>2, <3>2
    <3> QED
      BY <1>10, <3>1, <3>2
  <2>6. ASSUME NEW y \in net, y.kind = "Request"
        PROVE  /\ \A i \in 1..Len(inbox') : inbox'[i].client /= y.client
               /\ \A i \in 1..Len(requests') : requests'[i].client /= y.client
    <3>1. /\ \A i \in 1..Len(inbox) : inbox[i].client /= y.client
          /\ \A i \in 1..Len(requests) : requests[i].client /= y.client
      BY <1>5, <2>6 DEF Apart
    <3>2. m.client /= y.client
      BY <1>4, <3>1
    <3>3. \A i \in 1..Len(inbox') : inbox'[i].client /= y.client
      BY <1>4, <3>1
    <3>4. \A i \in 1..Len(requests') : requests'[i].client /= y.client
      BY <1>8, <1>10, <3>1, <3>2
    <3> QED
      BY <3>3, <3>4
  <2> QED
    BY <1>9, <2>1, <2>4, <2>5, <2>6 DEF Apart
<1> QED
  BY <1>11, <1>12

\* The server handles or skips the oldest request.
LEMMA ServerHandleDue ==
  ASSUME IInv, BInv, ServerHandle
  PROVE  BInv'
<1>1. /\ pace_count > 0 /\ inbox /= <<>> /\ inbox' = Tail(inbox)
      /\ pace_count' = pace_count - 1 /\ make_blocks' = make_blocks
      /\ UNCHANGED <<loopVars, clientVars, chain>>
  BY DEF ServerHandle
<1>2. UNCHANGED <<queue, at, event, id_set, consume, request_num>>
  BY <1>1 DEF loopVars, clientVars
<1>3. PICK m \in RequestMsgs :
         /\ m = Head(inbox) /\ Asked(m)
         /\ \/ /\ Known(m)
               /\ UNCHANGED <<requests, app, replies>>
               /\ \/ net' = net
                  \/ net' = net \cup {replies[m.client]}
               /\ net' /= net => replies[m.client] \in ReplyMsgs
            \/ /\ ~Known(m)
               /\ requests' = Append(requests, Request(m.client, m.num))
               /\ IF make_blocks THEN UNCHANGED <<app, replies, net>>
                  ELSE Execute(<<Request(m.client, m.num)>>)
            \/ UNCHANGED <<requests, app, replies, net>>
  BY ServerHandleDoes
<1>4. PICK x : x = Request(m.client, m.num) OBVIOUS
<1>5. x \in Waiting
  BY <1>4, RequestOf
<1>6. requests' \in Batch
  BY <1>3, <1>4, <1>5, Appended DEF BInv, ServerTyped
<1>7. \A n \in net' : n.kind = "Request" => n \in net
  <2>1. CASE Execute(<<x>>) /\ ~Known(m)
    <3>1. PICK b : b = <<x>> OBVIOUS
    <3>2. b \in Batch
      BY <1>5, <3>1 DEF Batch
    <3> QED
      BY <2>1, <3>1, <3>2, ExecuteDoes
  <2>2. CASE ~(Execute(<<x>>) /\ ~Known(m))
    BY <1>3, <1>4, <2>2 DEF ReplyMsgs
  <2> QED
    BY <2>1, <2>2
<1>8. /\ AllKnown'
      /\ app' \in Seq(Batch) /\ net' \subseteq RequestMsgs \cup ReplyMsgs
      /\ replies' \in [Clients -> ReplyMsgs \cup {NoReply}]
      /\ \A c \in Clients : replies'[c] /= NoReply => replies'[c].client = c
  <2>1. CASE Execute(<<x>>) /\ ~Known(m)
    <3>1. PICK b : b = <<x>> OBVIOUS
    <3>2. ~Executed(m)
      <4>1. m.client \in Clients /\ m.num \in Nat /\ replies[m.client].num \in Nat
        BY RepliesNum DEF RequestMsgs
      <4> QED
        BY <2>1, <4>1 DEF Executed, Known
    <3>3. b \in Batch /\ New(b)
      BY <1>3, <1>4, <3>1, <3>2, NewRequest
    <3>4. app' \in Seq(Batch) /\ net' \subseteq RequestMsgs \cup ReplyMsgs
      BY <2>1, <3>1, <3>3, ExecuteDoes
    <3> QED
      BY <1>2, <2>1, <3>1, <3>3, <3>4, ExecuteKnown
  <2>2. CASE ~(Execute(<<x>>) /\ ~Known(m))
    <3>1. /\ UNCHANGED <<app, replies>>
          /\ \/ net' = net
             \/ /\ net' = net \cup {replies[m.client]}
                /\ replies[m.client] \in ReplyMsgs
      BY <1>3, <1>4, <2>2
    <3>2. m.client \in Clients
      BY DEF RequestMsgs
    <3>3. replies[m.client] \in ReplyMsgs =>
             replies[m.client].client = m.client /\ Known(replies[m.client])
      <4>1. replies[m.client] \in ReplyMsgs => replies[m.client] /= NoReply
        BY DEF ReplyMsgs, NoReply
      <4>2. replies[m.client].num \in Nat
        BY <3>2, RepliesNum
      <4> QED
        BY <3>2, <4>1, <4>2 DEF BInv, ServerTyped, Known
    <3>4. AllKnown'
      BY <1>2, <3>1, <3>3 DEF BInv, AllKnown, Known
    <3> QED
      BY <3>1, <3>4 DEF BInv, ServerTyped
  <2> QED
    BY <2>1, <2>2
<1>9. /\ inbox' \in Seq(RequestMsgs)
      /\ \A i \in 1..Len(inbox') :
            i + 1 \in 1..Len(inbox) /\ inbox'[i] = inbox[i + 1]
  BY <1>1, HeadOfInbox
<1>10. ServerTyped'
  BY <1>1, <1>2, <1>6, <1>8, <1>9 DEF BInv, ServerTyped
<1>11. Numbered'
  <2>1. \A i \in 1..Len(inbox') : \E y : y = inbox'[i] /\ Asked(y)
    BY <1>9 DEF BInv, Numbered
  <2> QED
    BY <1>2, <1>7, <2>1 DEF BInv, Numbered, Asked
<1>12. ClientWaits'
  BY <1>2 DEF BInv, ClientWaits
<1> QED
  BY <1>1, <1>8, <1>10, <1>11, <1>12, HandleKeepsDue DEF BInv

\* A block takes the first of the requests that wait, and executes them.
LEMMA MakeBlockDoes ==
  ASSUME BInv, MakeBlock, requests /= <<>>
  PROVE  \E n \in 1..Len(requests), b \in Batch :
            /\ n = BatchLen(requests) /\ b = SubSeq(requests, 1, n)
            /\ Len(b) = n /\ \A i \in 1..n : b[i] = requests[i]
            /\ requests' = Drained(requests) /\ requests' \in Batch
            /\ Len(requests') = Len(requests) - n
            /\ \A i \in 1..Len(requests') :
                  /\ i + n \in 1..Len(requests)
                  /\ requests'[i] = requests[i + n]
            /\ Execute(b)
            /\ DOMAIN chain' = {"digest_parent", "digest_execute", "pending"}
            /\ chain'.digest_parent \in Seq(Batch)
<1>1. /\ requests \in Seq(Waiting) /\ Len(requests) \in Nat
      /\ DOMAIN chain = {"digest_parent", "digest_execute", "pending"}
      /\ chain.digest_parent \in Seq(Batch)
  BY DEF BInv, ServerTyped, Batch
<1>2. PICK n : n = BatchLen(requests) OBVIOUS
<1>3. n \in 1..Len(requests)
  BY <1>1, <1>2, MaxBatchAssumption DEF BatchLen
<1>4. PICK b : b = SubSeq(requests, 1, n) OBVIOUS
<1>5. b \in Batch /\ Len(b) = n /\ \A i \in 1..n : b[i] = requests[i]
  BY <1>1, <1>3, <1>4 DEF Batch
<1>6. PICK next : next = Propose(chain, requests) OBVIOUS
<1>7. PICK block : block = next.digest_parent OBVIOUS
<1>8. /\ chain' = Committed(next, block) /\ requests' = Drained(requests)
      /\ Execute(BlockRequests(block))
  BY <1>6, <1>7 DEF MakeBlock
<1>9. /\ DOMAIN next = {"digest_parent", "digest_execute", "pending"}
      /\ block = Append(chain.digest_parent, b)
  BY <1>1, <1>2, <1>4, <1>6, <1>7 DEF Propose
<1>10. block \in Seq(Batch) /\ BlockRequests(block) = b
  BY <1>1, <1>5, <1>9 DEF BlockRequests
<1>11. /\ DOMAIN chain' = {"digest_parent", "digest_execute", "pending"}
       /\ chain'.digest_parent = block
  BY <1>7, <1>8, <1>9 DEF Committed
<1>12. requests' = SubSeq(requests, n + 1, Len(requests))
  BY <1>2, <1>8 DEF Drained
<1>13. /\ requests' \in Batch /\ Len(requests') = Len(requests) - n
       /\ \A i \in 1..Len(requests') :
             i + n \in 1..Len(requests) /\ requests'[i] = requests[i + n]
  <2>1. PICK r : r = SubSeq(requests, n + 1, Len(requests)) OBVIOUS
  <2>2. /\ r \in Seq(Waiting) /\ Len(r) = Len(requests) - n
        /\ \A i \in 1..Len(r) :
              i + n \in 1..Len(requests) /\ r[i] = requests[i + n]
    BY <1>1, <1>3, <2>1
  <2> QED
    BY <1>12, <2>1, <2>2 DEF Batch
<1> QED
  BY <1>2, <1>3, <1>4, <1>5, <1>8, <1>10, <1>11, <1>13

\* The requests of a block are new, as whatever waits is due.
LEMMA BlockIsNew ==
  ASSUME IInv, BInv, make_blocks, NEW n \in 1..Len(requests), NEW b \in Batch,
         Len(b) = n, \A i \in 1..n : b[i] = requests[i]
  PROVE  New(b)
<1>1. Len(requests) \in Nat /\ AllDue /\ Apart
  BY DEF BInv, ServerTyped, Batch
<1>2. ASSUME NEW i \in 1..n PROVE Asked(b[i]) /\ ~Known(b[i])
  <2>1. PICK x : x = requests[i] OBVIOUS
  <2>2. i \in 1..Len(requests) /\ x.client \in Clients
    BY <1>1, <2>1, SentByClients
  <2>3. Due(x)
    BY <1>1, <2>1, <2>2 DEF AllDue
  <2>4. replies[x.client].num \in Nat /\ request_num[x.client] \in Nat
    BY <2>2, RepliesNum DEF IInv, TimersTyped
  <2>5. Asked(x) /\ ~Known(x)
    BY <2>3, <2>4 DEF Due, Asked, Known
  <2> QED
    BY <2>1, <2>5
<1>3. \A i, j \in 1..n : b[i].client = b[j].client => i = j
  <2>1. \A i \in 1..n : i \in 1..Len(requests)
    BY <1>1
  <2> QED
    BY <1>1, <2>1 DEF Apart
<1> QED
  BY <1>2, <1>3 DEF New

\* on_pace: what is executed is of other clients than what still waits, is in
\* the channel or on its way.
LEMMA ServerPaceDue ==
  ASSUME IInv, BInv, ServerPace
  PROVE  BInv'
<1>1. /\ UNCHANGED <<loopVars, clientVars, inbox, make_blocks>>
      /\ pace_count' = PaceCount
  BY DEF ServerPace
<1>2. UNCHANGED <<queue, event, at, id_set, consume, request_num>>
  BY <1>1 DEF loopVars, clientVars
<1>3. pace_count' \in Nat
  BY <1>1 DEF PaceCount, BInv, ServerTyped
<1>4. ClientWaits'
  BY <1>2 DEF BInv, ClientWaits
<1>5. CASE ~(make_blocks /\ requests /= <<>>)
  <2>1. UNCHANGED <<chain, requests, replies, app, net>>
    BY <1>5 DEF ServerPace
  <2>2. ServerTyped'
    BY <1>1, <1>2, <1>3, <2>1 DEF BInv, ServerTyped
  <2>3. Numbered' /\ AllKnown'
    BY <1>1, <1>2, <2>1 DEF BInv, Numbered, Asked, AllKnown, Known
  <2>4. make_blocks' => AllDue' /\ Apart'
    BY <1>1, <1>2, <2>1 DEF BInv, AllDue, Due, Apart
  <2> QED
    BY <1>4, <2>2, <2>3, <2>4 DEF BInv
<1>6. CASE make_blocks /\ requests /= <<>>
  <2>1. MakeBlock
    BY <1>6 DEF ServerPace
  <2>2. PICK n \in 1..Len(requests), b \in Batch :
           /\ n = BatchLen(requests) /\ b = SubSeq(requests, 1, n)
           /\ Len(b) = n /\ \A i \in 1..n : b[i] = requests[i]
           /\ requests' = Drained(requests) /\ requests' \in Batch
           /\ Len(requests') = Len(requests) - n
           /\ \A i \in 1..Len(requests') :
                 /\ i + n \in 1..Len(requests)
                 /\ requests'[i] = requests[i + n]
           /\ Execute(b)
           /\ DOMAIN chain' = {"digest_parent", "digest_execute", "pending"}
           /\ chain'.digest_parent \in Seq(Batch)
    BY <1>6, <2>1, MakeBlockDoes
  <2>3. New(b)
    BY <1>6, <2>2, BlockIsNew
  <2>4. /\ AllKnown'
        /\ replies' \in [Clients -> ReplyMsgs \cup {NoReply}]
        /\ \A c \in Clients : replies'[c] /= NoReply => replies'[c].client = c
    BY <1>2, <2>2, <2>3, ExecuteKnown
  <2>5. /\ app' \in Seq(Batch)
        /\ net' \subseteq RequestMsgs \cup ReplyMsgs
        /\ \A m \in net' : m.kind = "Request" => m \in net
        /\ \A c \in Clients :
              \/ /\ replies'[c] = replies[c]
                 /\ \A i \in 1..Len(b) : b[i].client /= c
              \/ \E i \in 1..Len(b) : b[i].client = c /\ replies'[c] = Reply(b, i)
    BY <2>2, ExecuteDoes
  <2>6. ServerTyped'
    BY <1>1, <1>2, <1>3, <2>2, <2>4, <2>5 DEF BInv, ServerTyped
  <2>7. Numbered'
    BY <1>1, <1>2, <2>5 DEF BInv, Numbered, Asked
  <2>8. AllDue /\ Apart /\ Len(requests) \in Nat
    BY <1>6 DEF BInv, ServerTyped, Batch
  <2>9. ASSUME NEW y, y.client \in Clients, Due(y),
                \A i \in 1..Len(b) : b[i].client /= y.client
         PROVE  Due(y)'
    <3>1. replies'[y.client] = replies[y.client]
      BY <2>5, <2>9
    <3> QED
      BY <1>2, <2>9, <3>1 DEF Due
  <2>10. \A i \in 1..Len(b) : i \in 1..Len(requests) /\ b[i] = requests[i]
    BY <2>2, <2>8
  <2>11. AllDue'
    <3>1. ASSUME NEW m \in net, m.kind = "Request" PROVE Due(m)'
      BY <2>8, <2>9, <2>10, <3>1, SentByClients DEF AllDue, Apart
    <3>2. ASSUME NEW i \in 1..Len(inbox)
          PROVE  \E y : y = inbox[i] /\ Due(y)'
      <4>1. PICK y : y = inbox[i] OBVIOUS
      <4>2. /\ y.client \in Clients /\ Due(y)
            /\ \A j \in 1..Len(requests) : requests[j].client /= y.client
        BY <2>8, <4>1, SentByClients DEF AllDue, Apart
      <4>3. Due(y)'
        BY <2>9, <2>10, <4>2
      <4> QED
        BY <4>1, <4>3
    <3>3. ASSUME NEW i \in 1..Len(requests')
          PROVE  \E y : y = requests'[i] /\ Due(y)'
      <4>1. PICK y : y = requests'[i] OBVIOUS
      <4>2. i + n \in 1..Len(requests) /\ y = requests[i + n] /\ n + i > n
        BY <2>2, <4>1
      <4>3. y.client \in Clients /\ Due(y)
        BY <2>8, <4>2, SentByClients DEF AllDue
      <4>4. \A j \in 1..Len(b) : b[j].client /= y.client
        <5> TAKE j \in 1..Len(b)
        <5>1. j /= i + n /\ j \in 1..Len(requests) /\ b[j] = requests[j]
          BY <2>2, <2>10
        <5> QED
          BY <2>8, <4>2, <5>1 DEF Apart
      <4>5. Due(y)'
        BY <2>9, <4>3, <4>4
      <4> QED
        BY <4>1, <4>5
    <3>4. (\A i \in 1..Len(inbox) : Due(inbox[i]))'
      BY <1>1, <3>2
    <3>5. (\A i \in 1..Len(requests) : Due(requests[i]))'
      BY <3>3
    <3> QED
      BY <2>5, <3>1, <3>4, <3>5 DEF AllDue
  <2>12. Apart'
    <3>1. \A i \in 1..Len(requests') : \E k \in 1..Len(requests) :
             k = i + n /\ requests'[i] = requests[k]
      BY <2>2
    <3>2. \A i, j \in 1..Len(requests') :
             requests'[i].client = requests'[j].client => i = j
      <4> TAKE i, j \in 1..Len(requests')
      <4> HAVE requests'[i].client = requests'[j].client
      <4>1. i + n = j + n
        BY <2>8, <3>1 DEF Apart
      <4> QED
        BY <2>2, <4>1
    <3>3. \A i \in 1..Len(inbox), j \in 1..Len(requests') :
             inbox[i].client /= requests'[j].client
      BY <2>8, <3>1 DEF Apart
    <3>4. ASSUME NEW m \in net', m.kind = "Request"
          PROVE  /\ \A i \in 1..Len(inbox) : inbox[i].client /= m.client
                 /\ \A i \in 1..Len(requests') : requests'[i].client /= m.client
      <4>1. m \in net
        BY <2>5, <3>4
      <4>2. /\ \A i \in 1..Len(inbox) : inbox[i].client /= m.client
            /\ \A i \in 1..Len(requests) : requests[i].client /= m.client
        BY <2>8, <3>4, <4>1 DEF Apart
      <4> QED
        BY <3>1, <4>2
    <3>5. \A i, j \in 1..Len(inbox) : inbox[i].client = inbox[j].client => i = j
      BY <2>8 DEF Apart
    <3> QED
      BY <1>1, <3>2, <3>3, <3>4, <3>5 DEF Apart
  <2> QED
    BY <1>4, <2>4, <2>6, <2>7, <2>11, <2>12 DEF BInv
<1> QED
  BY <1>5, <1>6

LEMMA BNext ==
  ASSUME IInv, BInv, [Next]_vars
  PROVE  BInv'
<1>1. CASE UNCHANGED vars
  BY <1>1, OtherDue DEF vars, loopVars
<1>2. CASE Deadline \/ \E c \in Clients : Spawn(c)
  <2>1. UNCHANGED <<loopVars, clientVars, serverVars, netVars>>
    BY <1>2 DEF Deadline, Spawn
  <2> QED
    BY <2>1, OtherDue DEF loopVars
<1>3. CASE \E c \in Clients : TimerStep(c)
  <2>1. /\ UNCHANGED <<clientVars, serverVars, netVars>>
        /\ UNCHANGED <<queue, id_set, at, event>>
    BY <1>3 DEF TimerStep, TimerTask, Push, DropTask
  <2> QED
    BY <2>1, OtherDue
<1>4. CASE Dispatch
  <2>1. CASE /\ \/ \E c \in Clients : TakeNotification(c)
                \/ TakeSpurious \/ TakeStop \/ Drain \/ HandleOther
             /\ UNCHANGED <<clientVars, serverVars, netVars>>
    <3>1. /\ queue' = queue /\ id_set' = id_set /\ at' /= "join"
          /\ event' = event \/ event'.kind /= "Reply"
      BY <2>1 DEF TakeNotification, TakeSpurious, TakeStop, Drain, HandleOther,
                  Panics, Panic, Notification, Stop
    <3> QED
      BY <2>1, <3>1, OtherDue
  <2>2. CASE /\ TakeMessage
             /\ UNCHANGED <<driverVars, clientVars, serverVars, netVars>>
    BY <2>2, TakeMessageDue
  <2>3. CASE HandleReply
    BY <2>3, HandleReplyDue
  <2>4. CASE Consume
    BY <2>4, ConsumeDue
  <2> QED
    BY <1>4, <2>1, <2>2, <2>3, <2>4 DEF Dispatch
<1>5. CASE \E c \in Clients : Invoke(c)
  BY <1>5, InvokeDue
<1>6. CASE ServerStep
  BY <1>6, ServerHandleDue, ServerPaceDue DEF ServerStep
<1>7. CASE \E m \in net : ReceiveRequest(m) \/ ReceiveReply(m)
  BY <1>7, ReceiveRequestDue, ReceiveReplyDue
<1> QED
  BY <1>1, <1>2, <1>3, <1>4, <1>5, <1>6, <1>7 DEF Next

-----------------------------------------------------------------------------
(* Blocks are due.  A block takes all that wait when there is room for a     *)
(* request of each client, so the loop, when nothing waits in its channel,   *)
(* has no more to count than what is there (PaceCovers).                     *)

\* The loop counts down what is in the channel, but for the first message.
PaceCovers ==
    \/ pace_count <= Len(inbox)
    \/ pace_count = 1 /\ inbox = <<>> /\ requests = <<>>

\* A block takes all that wait: they are of different clients.
LEMMA BlockTakesAll ==
  ASSUME BInv, make_blocks,
         IsFiniteSet(Clients), Cardinality(Clients) <= MaxBatchSize
  PROVE  Drained(requests) = <<>>
<1>1. PICK n : n = Len(requests) OBVIOUS
<1>2. requests \in Seq(Waiting) /\ n \in Nat
  BY <1>1 DEF BInv, ServerTyped, Batch
<1>3. PICK f : f = [i \in 1..n |-> requests[i].client] OBVIOUS
<1>4. f \in Injection(1..n, Clients)
  <2>1. \A i \in 1..n : requests[i].client \in Clients
    BY <1>1, SentByClients
  <2>2. \A i, j \in 1..n : f[i] = f[j] => i = j
    BY <1>1, <1>3 DEF BInv, Apart
  <2>3. f \in [1..n -> Clients]
    BY <1>3, <2>1
  <2> QED
    BY <2>2, <2>3 DEF Injection, IsInjective
<1>5. IsFiniteSet(1..n) /\ Cardinality(1..n) = n
  BY <1>2, FS_Interval
<1>6. n <= Cardinality(Clients) /\ Cardinality(Clients) \in Nat
  BY <1>4, <1>5, FS_Injection, FS_CardinalityType
<1>7. BatchLen(requests) = n
  BY <1>1, <1>2, <1>6, MaxBatchAssumption DEF BatchLen
<1> QED
  BY <1>1, <1>2, <1>7 DEF Drained

LEMMA PaceNext ==
  ASSUME IInv, BInv, make_blocks => PaceCovers, [Next]_vars,
         IsFiniteSet(Clients), Cardinality(Clients) <= MaxBatchSize
  PROVE  make_blocks' => PaceCovers'
<1>1. make_blocks' = make_blocks
  BY DEF Next, vars, serverVars, Deadline, Spawn, Invoke, TimerStep, Dispatch,
         HandleReply, Consume, ServerStep, ServerHandle, ServerPace,
         ReceiveRequest, ReceiveReply
<1> SUFFICES ASSUME make_blocks PROVE PaceCovers'
  BY <1>1
<1>2. inbox \in Seq(RequestMsgs) /\ pace_count \in Nat
  BY DEF BInv, ServerTyped
<1>3. CASE ServerHandle
  <2>1. /\ pace_count > 0 /\ inbox /= <<>> /\ inbox' = Tail(inbox)
        /\ pace_count' = pace_count - 1
    BY <1>3 DEF ServerHandle
  <2>2. Len(inbox') = Len(inbox) - 1
    BY <1>2, <2>1
  <2> QED
    BY <1>2, <2>1, <2>2 DEF PaceCovers
<1>4. CASE ServerPace
  <2>1. pace_count' = PaceCount /\ inbox' = inbox
    BY <1>4 DEF ServerPace
  <2>2. requests' = <<>>
    BY <1>4, BlockTakesAll DEF ServerPace, MakeBlock
  <2> QED
    BY <1>2, <2>1, <2>2 DEF PaceCovers, PaceCount
<1>5. CASE \E m \in net : ReceiveRequest(m)
  <2>1. PICK m \in net : ReceiveRequest(m)
    BY <1>5
  <2>2. /\ m \in RequestMsgs /\ inbox' = Append(inbox, m)
        /\ pace_count' = pace_count
    BY <2>1, SentByClients DEF ReceiveRequest
  <2>3. Len(inbox') = Len(inbox) + 1
    BY <1>2, <2>2
  <2> QED
    BY <1>2, <2>2, <2>3 DEF PaceCovers
<1>6. CASE UNCHANGED <<inbox, pace_count, requests>>
  BY <1>6 DEF PaceCovers
<1> QED
  BY <1>3, <1>4, <1>5, <1>6
  DEF Next, vars, serverVars, Deadline, Spawn, Invoke, TimerStep, Dispatch,
      HandleReply, Consume, ServerStep, ReceiveReply

\* A request that waits for a block with nothing else in the server's channel
\* has the next on_pace due at once (unreplicated.rs, on_pace, and the pace_count
\* of tokio.rs), when no more clients than a block has room for may wait.
THEOREM BlocksAreDue ==
  ASSUME IsFiniteSet(Clients), Cardinality(Clients) <= MaxBatchSize
  PROVE  Spec => []BlockIsDue
<1> DEFINE PInv == make_blocks => PaceCovers
<1>1. BInv /\ PInv => BlockIsDue
  BY DEF BInv, ServerTyped, PaceCovers, BlockIsDue
<1>2. IInv /\ BInv /\ [Next]_vars => BInv'
  BY BNext
<1>3. Init => PInv
  BY DEF Init, PaceCovers
<1>4. IInv /\ BInv /\ PInv /\ [Next]_vars => PInv'
  BY PaceNext
<1> HIDE DEF PInv
<1> QED
  BY <1>1, <1>2, <1>3, <1>4, BInit, InitInv, NextInv, PTL DEF Spec
-----------------------------------------------------------------------------
(* The service.  A request is executed only when it is newer than all that   *)
(* were executed for its client (AppKnown), so none is twice in app          *)
(* (Distinct), and every reply is of one execution (Sound).                  *)

\* No request is executed twice.
Distinct ==
    \A k, l \in 1..Len(app) : \A i \in 1..Len(app[k]), j \in 1..Len(app[l]) :
       app[k][i] = app[l][j] => k = l /\ i = j

\* What was executed is not newer than the last reply to its client.
AppKnown == \A k \in 1..Len(app) : \A i \in 1..Len(app[k]) : Known(app[k][i])

\* The reply m has the result of executing request i of batch k of a.
IsOf(m, a, k, i) ==
    /\ a[k][i] = Request(m.client, m.num)
    /\ m.result = [before |-> SubSeq(a, 1, k - 1), upto |-> SubSeq(a[k], 1, i)]

SoundIn(m, a) == \E k \in 1..Len(a) : \E i \in 1..Len(a[k]) : IsOf(m, a, k, i)

Sound(m) == SoundIn(m, app)

AllSound ==
    /\ \A m \in net : m.kind = "Reply" => Sound(m)
    /\ \A i \in 1..Len(queue) : Sound(queue[i])
    /\ event.kind = "Reply" => Sound(event)
    /\ \A c \in Clients : replies[c] /= NoReply => Sound(replies[c])

\* A task that is to invoke again is within the bound on invocations.
Bounded ==
    /\ benchmark \in [Clients -> {"idle", "spawned", "invoked", "finished"}]
    /\ \A c \in Clients :
          /\ benchmark[c] = "idle" => request_num[c] = 0
          /\ benchmark[c] = "spawned" => request_num[c] < MaxRequestNum

LInv == Distinct /\ AppKnown /\ AllSound /\ Bounded

LEMMA LInit == Init => LInv
<1> SUFFICES ASSUME Init PROVE LInv
  OBVIOUS
<1>1. /\ net = {} /\ queue = <<>> /\ event.kind = "TimerNotification"
      /\ app = <<>> /\ replies = [c \in Clients |-> NoReply]
      /\ request_num = [c \in Clients |-> 0]
      /\ benchmark = [c \in Clients |-> "idle"]
  BY DEF Init, Init_EventLoop, Notification
<1>2. Distinct /\ AppKnown /\ AllSound /\ Bounded
  BY <1>1 DEF Distinct, AppKnown, AllSound, Bounded
<1> QED
  BY <1>2 DEF LInv

\* A task spawns again within the bound: its invocations are among all.
LEMMA SpawnBounded ==
  ASSUME IInv, LInv, IsFiniteSet(Clients), NEW c \in Clients, Spawn(c)
  PROVE  Bounded'
<1>1. /\ benchmark' = [benchmark EXCEPT ![c] = "spawned"]
      /\ request_num' = request_num
  BY DEF Spawn, clientVars
<1>2. request_num \in [Clients -> Nat]
  BY DEF IInv, TimersTyped
<1>3. request_num[c] < MaxRequestNum
  <2>1. CASE benchmark[c] = "idle"
    BY <1>2, <2>1, BoundsAssumption DEF LInv, Bounded
  <2>2. CASE benchmark[c] /= "idle"
    <3>1. Cardinality(Invoked) + Cardinality(Spawned) < MaxRequestNum
      BY <2>2 DEF Spawn
    <3>2. PICK f : f = [x \in Clients |-> {x} \X (1..request_num[x])] OBVIOUS
    <3>3. PICK T : T = {{x} \X (1..request_num[x]) : x \in Clients} OBVIOUS
    <3>4. f \in Surjection(Clients, T)
      BY <3>2, <3>3 DEF Surjection
    <3>5. IsFiniteSet(T)
      BY <3>4, FS_Surjection
    <3>6. ASSUME NEW S \in T PROVE IsFiniteSet(S)
      <4>1. PICK x \in Clients : S = {x} \X (1..request_num[x]) BY <3>3
      <4>2. IsFiniteSet({x}) BY FS_Singleton
      <4>3. IsFiniteSet(1..request_num[x]) BY <1>2, FS_Interval
      <4> QED BY <4>1, <4>2, <4>3, FS_Product
    <3>7. IsFiniteSet(UNION T)
      BY <3>5, <3>6, FS_UNION
    <3>8. PICK V : V = Invoked OBVIOUS
    <3>9. V = UNION T
      BY <3>3, <3>8 DEF Invoked
    <3>10. PICK n : n = request_num[c] OBVIOUS
    <3>11. n \in Nat BY <1>2, <3>10
    <3>12. PICK g : g = [i \in 1..n |-> <<c, i>>] OBVIOUS
    <3>13. g \in Injection(1..n, V)
      <4>1. \A i \in 1..n : <<c, i>> \in V
        <5>1. {c} \X (1..n) \in T BY <3>3, <3>10
        <5> QED BY <3>9, <5>1
      <4>2. g \in [1..n -> V] BY <3>12, <4>1
      <4>3. \A i, j \in 1..n : g[i] = g[j] => i = j BY <3>12
      <4> QED BY <4>2, <4>3 DEF Injection, IsInjective
    <3>14. IsFiniteSet(1..n) /\ Cardinality(1..n) = n
      BY <3>11, FS_Interval
    <3>15. n <= Cardinality(V) /\ Cardinality(V) \in Nat
      BY <3>7, <3>9, <3>13, <3>14, FS_Injection, FS_CardinalityType
    <3>16. Cardinality(Spawned) \in Nat
      <4>1. Spawned \subseteq Clients BY DEF Spawned
      <4> QED BY <4>1, FS_Subset, FS_CardinalityType
    <3> QED
      BY <3>1, <3>8, <3>10, <3>11, <3>15, <3>16, BoundsAssumption
  <2> QED
    BY <2>1, <2>2
<1> QED
  BY <1>1, <1>3 DEF LInv, Bounded

\* A step that executes nothing and sends or takes only what is there.
LEMMA NothingExecuted ==
  ASSUME LInv, app' = app, replies' = replies, Bounded',
         \A m \in net' : m.kind = "Reply" => Sound(m),
         \A i \in 1..Len(queue') : Sound(queue'[i]),
         event'.kind = "Reply" => Sound(event')
  PROVE  LInv'
<1>1. Distinct'
  BY DEF LInv, Distinct
<1>2. AppKnown'
  BY DEF LInv, AppKnown, Known
<1>3. AllSound'
  BY DEF LInv, AllSound, Sound
<1> QED
  BY <1>1, <1>2, <1>3 DEF LInv

\* What was executed stays where it is.
LEMMA SoundKept ==
  ASSUME NEW a \in Seq(Batch), NEW b \in Batch, NEW m, SoundIn(m, a)
  PROVE  SoundIn(m, Append(a, b))
<1>1. PICK k \in 1..Len(a) : \E i \in 1..Len(a[k]) : IsOf(m, a, k, i)
  BY DEF SoundIn
<1>2. PICK e : e = Append(a, b) OBVIOUS
<1>3. /\ Len(e) = Len(a) + 1 /\ e[k] = a[k] /\ k \in 1..Len(e)
      /\ SubSeq(e, 1, k - 1) = SubSeq(a, 1, k - 1)
  BY <1>2
<1>4. \E i \in 1..Len(e[k]) : IsOf(m, e, k, i)
  BY <1>1, <1>3 DEF IsOf
<1> QED
  BY <1>2, <1>3, <1>4 DEF SoundIn

\* Executing requests that are new appends a batch to the log.
LEMMA ExecuteServes ==
  ASSUME IInv, BInv, LInv, NEW b \in Batch, Execute(b), New(b),
         UNCHANGED <<queue, event, clientVars, benchmark>>
  PROVE  LInv' /\ Service!AppendBatches
<1>1. UNCHANGED <<request_num, consume, results>>
  BY DEF clientVars
<1>2. /\ app' = Append(app, b) /\ app' \in Seq(Batch)
      /\ net' = net \cup {Reply(b, i) : i \in 1..Len(b)}
      /\ \A c \in Clients :
            \/ replies'[c] = replies[c]
            \/ \E i \in 1..Len(b) : replies'[c] = Reply(b, i)
  BY ExecuteDoes
<1>3. PICK h : h = Len(app) OBVIOUS
<1>4. app \in Seq(Batch) /\ h \in Nat
  BY <1>3 DEF BInv, ServerTyped
<1>5. /\ Len(app') = h + 1 /\ app'[h + 1] = b
      /\ \A k \in 1..h : app'[k] = app[k]
  BY <1>2, <1>3, <1>4
<1>6. /\ AllKnown'
      /\ \A c \in Clients : replies[c].num <= replies'[c].num
      /\ \A i \in 1..Len(b) : Known(b[i])'
      /\ \A c \in Clients : replies[c].num \in Nat /\ replies'[c].num \in Nat
  <2>1. replies' \in [Clients -> ReplyMsgs \cup {NoReply}]
    BY <1>1, ExecuteKnown
  <2>2. \A c \in Clients : replies'[c].num \in Nat
    BY <2>1 DEF ReplyMsgs, NoReply
  <2> QED
    BY <1>1, <2>2, ExecuteKnown, RepliesNum
<1>7. ASSUME NEW k \in 1..h + 1, NEW i \in 1..Len(app'[k])
      PROVE  /\ app'[k][i].client \in Clients
             /\ app'[k][i].num \in Nat /\ app'[k][i].num > 0
  <2>1. app'[k] \in Seq(Waiting)
    BY <1>2, <1>5 DEF Batch
  <2>2. app'[k][i] \in Waiting
    BY <2>1
  <2> QED
    BY <2>2 DEF Waiting
<1>8. ASSUME NEW k \in 1..h, NEW i \in 1..Len(app[k]), NEW q, q = app[k][i]
      PROVE  /\ q.num <= replies[q.client].num
             /\ q.num <= replies'[q.client].num
  <2>1. q.num <= replies[q.client].num
    BY <1>3, <1>8 DEF LInv, AppKnown, Known
  <2>2. q.client \in Clients /\ q.num \in Nat
    <3>1. k \in 1..h + 1 /\ app'[k] = app[k] BY <1>4, <1>5
    <3> QED BY <1>7, <1>8, <3>1
  <2> QED
    BY <1>6, <2>1, <2>2
<1>9. ASSUME NEW k \in 1..h + 1, NEW i \in 1..Len(app'[k])
      PROVE  Known(app[k][i])'
  <2>1. CASE k \in 1..h
    <3>1. app'[k] = app[k] BY <1>5, <2>1
    <3>2. PICK q : q = app[k][i] OBVIOUS
    <3>3. q.num <= replies'[q.client].num BY <1>8, <2>1, <3>1, <3>2
    <3>4. app'[k][i] = q BY <3>1, <3>2
    <3> QED BY <3>3, <3>4 DEF Known
  <2>2. CASE k = h + 1
    <3>1. app'[k] = b BY <1>5, <2>2
    <3>2. Known(b[i])' BY <1>6, <3>1
    <3> QED BY <3>1, <3>2 DEF Known
  <2> QED
    BY <1>4, <2>1, <2>2
<1>10. AppKnown'
  BY <1>5, <1>9 DEF AppKnown
<1>11. ASSUME NEW k \in 1..h, NEW i \in 1..Len(app[k]), NEW j \in 1..Len(b)
       PROVE  app[k][i] /= b[j]
  <2>1. PICK q : q = app[k][i] OBVIOUS
  <2>2. q.num <= replies[q.client].num BY <1>8, <2>1
  <2>3. ~(b[j].num <= replies[b[j].client].num) BY DEF New, Known
  <2> QED BY <2>1, <2>2, <2>3
<1>12. ASSUME NEW k \in 1..h + 1, NEW l \in 1..h + 1,
              NEW i \in 1..Len(app'[k]), NEW j \in 1..Len(app'[l]),
              app'[k][i] = app'[l][j]
       PROVE  k = l /\ i = j
  <2>1. CASE k \in 1..h /\ l \in 1..h
    <3>1. app'[k] = app[k] /\ app'[l] = app[l] BY <1>5, <2>1
    <3> QED BY <1>3, <1>12, <2>1, <3>1 DEF LInv, Distinct
  <2>2. CASE k = h + 1 /\ l = h + 1
    <3>1. app'[k] = b /\ app'[l] = b BY <1>5, <2>2
    <3> QED BY <1>12, <2>2, <3>1 DEF New
  <2>3. CASE k \in 1..h /\ l = h + 1
    <3>1. app'[k] = app[k] /\ app'[l] = b BY <1>5, <2>3
    <3> QED BY <1>11, <1>12, <2>3, <3>1
  <2>4. CASE k = h + 1 /\ l \in 1..h
    <3>1. app'[k] = b /\ app'[l] = app[l] BY <1>5, <2>4
    <3> QED BY <1>11, <1>12, <2>4, <3>1
  <2> QED
    BY <1>4, <2>1, <2>2, <2>3, <2>4
<1>13. Distinct'
  BY <1>5, <1>12 DEF Distinct
<1>14. ASSUME NEW i \in 1..Len(b), NEW m, m = Reply(b, i)
       PROVE  SoundIn(m, app')
  <2>1. /\ m.client = b[i].client /\ m.num = b[i].num
        /\ m.result = [before |-> app, upto |-> SubSeq(b, 1, i)]
    BY <1>14, ReplyType
  <2>2. b[i] \in Waiting
    BY DEF Batch
  <2>3. b[i] = Request(m.client, m.num)
    BY <2>1, <2>2 DEF Waiting, Request
  <2>4. PICK k : k = h + 1 OBVIOUS
  <2>5. SubSeq(app', 1, k - 1) = app /\ app'[k] = b /\ k \in 1..Len(app')
    BY <1>2, <1>3, <1>4, <1>5, <2>4
  <2>6. IsOf(m, app', k, i)
    BY <2>1, <2>3, <2>5 DEF IsOf
  <2> QED
    BY <2>5, <2>6 DEF SoundIn
<1>15. ASSUME NEW m, Sound(m) PROVE SoundIn(m, app')
  BY <1>2, <1>4, <1>15, SoundKept DEF Sound
<1>16. AllSound'
  <2>1. ASSUME NEW m \in net', m.kind = "Reply" PROVE SoundIn(m, app')
    <3>1. CASE m \in net
      BY <1>15, <2>1, <3>1 DEF LInv, AllSound
    <3>2. CASE \E i \in 1..Len(b) : m = Reply(b, i)
      BY <1>14, <3>2
    <3> QED
      BY <1>2, <3>1, <3>2
  <2>2. \A i \in 1..Len(queue) : SoundIn(queue[i], app')
    BY <1>15 DEF LInv, AllSound
  <2>3. event.kind = "Reply" => SoundIn(event, app')
    BY <1>15 DEF LInv, AllSound
  <2>4. ASSUME NEW c \in Clients, replies'[c] /= NoReply
        PROVE  SoundIn(replies'[c], app')
    <3>1. CASE replies'[c] = replies[c]
      BY <1>15, <2>4, <3>1 DEF LInv, AllSound
    <3>2. CASE \E i \in 1..Len(b) : replies'[c] = Reply(b, i)
      BY <1>14, <3>2
    <3> QED
      BY <1>2, <3>1, <3>2
  <2> QED
    BY <2>1, <2>2, <2>3, <2>4 DEF AllSound, Sound
<1>17. Bounded'
  BY <1>1 DEF LInv, Bounded
<1>18. ASSUME NEW k \in 1..h + 1, NEW i \in 1..Len(app'[k])
       PROVE  app'[k][i].num \in 1..request_num[app'[k][i].client]
  <2>1. PICK q : q = app'[k][i] OBVIOUS
  <2>2. q.client \in Clients /\ q.num \in Nat /\ q.num > 0
    BY <1>7, <2>1
  <2>3. q.num <= replies'[q.client].num
    BY <1>9, <2>1 DEF Known
  <2>4. replies'[q.client].num <= request_num[q.client]
    BY <1>1, <1>6, <2>2 DEF AllKnown
  <2>5. replies'[q.client].num \in Nat /\ request_num[q.client] \in Nat
    BY <1>6, <2>2 DEF IInv, TimersTyped
  <2> QED
    BY <2>1, <2>2, <2>3, <2>4, <2>5
<1>19. SubSeq(app', 1, h) = app /\ Len(app') > h
  BY <1>2, <1>3, <1>4, <1>5
<1>20. Service!AppendBatches
  <2>1. Len(app') > Len(app) /\ SubSeq(app', 1, Len(app)) = app
    BY <1>3, <1>19
  <2>2. \A k \in 1..Len(app'), l \in 1..Len(app') :
           \A i \in 1..Len(app'[k]), j \in 1..Len(app'[l]) :
              /\ app'[k][i].num \in 1..request_num[app'[k][i].client]
              /\ app'[k][i] = app'[l][j] => k = l /\ i = j
    BY <1>5, <1>12, <1>18
  <2> QED
    BY <1>1, <2>1, <2>2 DEF Service!AppendBatches
<1> QED
  BY <1>10, <1>13, <1>16, <1>17, <1>20 DEF LInv

\* The steps that leave the server and the clients' answers alone.
LEMMA LoopServes ==
  ASSUME IInv, BInv, LInv, IsFiniteSet(Clients),
         \/ Deadline \/ (\E c \in Clients : Spawn(c) \/ TimerStep(c))
         \/ \E m \in net : ReceiveRequest(m) \/ ReceiveReply(m)
         \/ HandleReply
         \/ /\ \/ TakeMessage \/ (\E c \in Clients : TakeNotification(c))
               \/ TakeSpurious \/ TakeStop \/ Drain \/ HandleOther
            /\ UNCHANGED <<driverVars, clientVars, serverVars, netVars>>
  PROVE  LInv' /\ UNCHANGED Service!vars
<1>1. UNCHANGED <<request_num, consume, results, app, replies>> /\ net' \subseteq net
  BY DEF Deadline, Spawn, TimerStep, ReceiveRequest, ReceiveReply, HandleReply,
         clientVars, serverVars, netVars
<1>2. Bounded'
  <2>1. CASE \E c \in Clients : Spawn(c)
    BY <2>1, SpawnBounded
  <2>2. CASE benchmark' = benchmark
    BY <1>1, <2>2 DEF LInv, Bounded
  <2> QED
    BY <2>1, <2>2 DEF Deadline, TimerStep, ReceiveRequest, ReceiveReply,
                      HandleReply, driverVars
<1>3. queue \in Seq(ReplyMsgs) /\ \A i \in 1..Len(queue) : Sound(queue[i])
  BY DEF BInv, ServerTyped, LInv, AllSound
<1>4. event.kind = "Reply" => Sound(event)
  BY DEF LInv, AllSound
<1>5. /\ \A i \in 1..Len(queue') : Sound(queue'[i])
      /\ event'.kind = "Reply" => Sound(event')
  <2>1. CASE TakeMessage
    BY <1>3, <2>1, TakesOldest
  <2>2. CASE \E m \in net : ReceiveReply(m)
    <3>1. PICK m \in net : ReceiveReply(m)
      BY <2>2
    <3>2. /\ m \in ReplyMsgs /\ Sound(m) /\ queue' = Append(queue, m)
          /\ event' = event
      BY <3>1, SentByClients DEF ReceiveReply, Receive, LInv, AllSound
    <3>3. \A i \in 1..Len(queue') : Sound(queue'[i])
      BY <1>3, <3>2
    <3> QED
      BY <1>4, <3>2, <3>3
  <2>3. CASE /\ queue' = queue
             /\ event' = event \/ event'.kind /= "Reply"
    BY <1>3, <1>4, <2>3
  <2>4. CASE HandleReply
    BY <2>3, <2>4 DEF HandleReply, Unset, Handled, Panics, Panic
  <2>5. CASE \/ Deadline \/ (\E c \in Clients : Spawn(c) \/ TimerStep(c))
             \/ \E m \in net : ReceiveRequest(m)
    BY <2>3, <2>5 DEF Deadline, Spawn, TimerStep, TimerTask, Push, DropTask,
                      ReceiveRequest, loopVars
  <2>6. CASE \/ \E c \in Clients : TakeNotification(c)
             \/ TakeSpurious \/ TakeStop \/ Drain \/ HandleOther
    BY <2>3, <2>6 DEF TakeNotification, TakeSpurious, TakeStop, Drain,
                      HandleOther, Panics, Panic, Notification, Stop
  <2> QED
    BY <2>1, <2>2, <2>4, <2>5, <2>6
<1>6. \A m \in net' : m.kind = "Reply" => Sound(m)
  BY <1>1 DEF LInv, AllSound
<1>7. LInv'
  BY <1>1, <1>2, <1>5, <1>6, NothingExecuted
<1> QED
  BY <1>1, <1>7 DEF Service!vars

LEMMA InvokeServes ==
  ASSUME IInv, BInv, LInv, NEW c \in Clients, Invoke(c)
  PROVE  LInv' /\ Service!Invoke(c)
<1>1. /\ ~consume[c]
      /\ request_num' = [request_num EXCEPT ![c] = @ + 1]
      /\ consume' = [consume EXCEPT ![c] = TRUE]
      /\ benchmark' = [benchmark EXCEPT ![c] = "invoked"]
      /\ net' = net \cup {RequestMsg(c, request_num[c] + 1)}
      /\ UNCHANGED <<queue, event, results, app, replies>>
  BY DEF Invoke, serverVars
<1>2. request_num \in [Clients -> Nat]
  BY DEF IInv, TimersTyped
<1>3. request_num[c] < MaxRequestNum
  <2>1. benchmark[c] = "idle" \/ benchmark[c] = "spawned"
    BY DEF Invoke, First
  <2> QED
    BY <2>1, BoundsAssumption DEF LInv, Bounded
<1>4. Bounded'
  BY <1>1, <1>2 DEF LInv, Bounded
<1>5. \A m \in net' : m.kind = "Reply" => Sound(m)
  BY <1>1 DEF RequestMsg, LInv, AllSound
<1>6. LInv'
  BY <1>1, <1>4, <1>5, NothingExecuted DEF LInv, AllSound
<1> QED
  BY <1>1, <1>3, <1>6 DEF Service!Invoke

\* handle consumes a result that is of one execution of the client's request.
LEMMA ConsumeServes ==
  ASSUME IInv, BInv, LInv, Consume
  PROVE  LInv' /\ Service!Respond(event.client) /\ event.client \in Clients
<1>1. PICK c : c = event.client OBVIOUS
<1>2. /\ at = "join" /\ consume' = [consume EXCEPT ![c] = FALSE]
      /\ results' = [results EXCEPT ![c] = Append(@, event.result)]
      /\ benchmark' = [benchmark EXCEPT ![c] = "finished"]
      /\ UNCHANGED <<queue, event, request_num, app, replies, net>>
  BY <1>1 DEF Consume, Join, serverVars, netVars
<1>3. /\ event.kind = "Reply" /\ consume[c] /\ event.num = request_num[c]
      /\ c \in Clients
  BY <1>1, <1>2 DEF BInv, ClientWaits, ServerTyped, ReplyMsgs
<1>4. PICK k \in 1..Len(app) : \E i \in 1..Len(app[k]) : IsOf(event, app, k, i)
  BY <1>3 DEF LInv, AllSound, Sound, SoundIn
<1>5. PICK i \in 1..Len(app[k]) : IsOf(event, app, k, i)
  BY <1>4
<1>6. /\ app[k][i] = Service!Request(c, request_num[c])
      /\ event.result = [before |-> SubSeq(app, 1, k - 1),
                         upto |-> SubSeq(app[k], 1, i)]
  BY <1>1, <1>3, <1>5 DEF IsOf, Request, Service!Request
<1>7. Service!Respond(c)
  BY <1>2, <1>3, <1>6 DEF Service!Respond
<1>8. Bounded'
  BY <1>2, <1>3 DEF LInv, Bounded
<1>9. LInv'
  BY <1>2, <1>8, NothingExecuted DEF LInv, AllSound
<1> QED
  BY <1>1, <1>3, <1>7, <1>9

LEMMA ServerServes ==
  ASSUME IInv, BInv, LInv, ServerStep
  PROVE  LInv' /\ (Service!AppendBatches \/ UNCHANGED Service!vars)
<1>1. UNCHANGED <<queue, event, clientVars, benchmark>>
  BY DEF ServerStep, ServerHandle, ServerPace, loopVars, driverVars
<1>2. UNCHANGED <<request_num, consume, results>>
  BY <1>1 DEF clientVars
<1>3. Bounded'
  BY <1>1, <1>2 DEF LInv, Bounded
<1>4. ASSUME UNCHANGED <<app, replies>>,
             \/ net' = net
             \/ \E c \in Clients : /\ net' = net \cup {replies[c]}
                                   /\ replies[c] \in ReplyMsgs
      PROVE  LInv' /\ UNCHANGED Service!vars
  <2>1. \A m \in net' : m.kind = "Reply" => Sound(m)
    BY <1>4 DEF LInv, AllSound, ReplyMsgs, NoReply
  <2>2. LInv'
    BY <1>1, <1>3, <1>4, <2>1, NothingExecuted DEF LInv, AllSound
  <2> QED
    BY <1>2, <1>4, <2>2 DEF Service!vars
<1>5. CASE ServerHandle
  <2>1. PICK m \in RequestMsgs :
           /\ m = Head(inbox) /\ Asked(m)
           /\ \/ /\ Known(m)
                 /\ UNCHANGED <<requests, app, replies>>
                 /\ \/ net' = net
                    \/ net' = net \cup {replies[m.client]}
                 /\ net' /= net => replies[m.client] \in ReplyMsgs
              \/ /\ ~Known(m)
                 /\ requests' = Append(requests, Request(m.client, m.num))
                 /\ IF make_blocks THEN UNCHANGED <<app, replies, net>>
                    ELSE Execute(<<Request(m.client, m.num)>>)
              \/ UNCHANGED <<requests, app, replies, net>>
    BY <1>5, ServerHandleDoes
  <2>2. m.client \in Clients /\ m.num \in Nat /\ replies[m.client].num \in Nat
    BY RepliesNum DEF RequestMsgs
  <2>3. PICK b : b = <<Request(m.client, m.num)>> OBVIOUS
  <2>4. CASE ~Known(m) /\ Execute(b)
    <3>1. ~Executed(m) BY <2>2, <2>4 DEF Executed, Known
    <3>2. b \in Batch /\ New(b) BY <2>1, <2>3, <3>1, NewRequest
    <3> QED BY <1>1, <2>4, <3>2, ExecuteServes
  <2>5. CASE /\ UNCHANGED <<app, replies>>
             /\ \/ net' = net
                \/ /\ net' = net \cup {replies[m.client]}
                   /\ replies[m.client] \in ReplyMsgs
    BY <1>4, <2>2, <2>5
  <2> QED
    BY <2>1, <2>3, <2>4, <2>5
<1>6. CASE ServerPace
  <2>1. CASE make_blocks /\ requests /= <<>>
    <3>1. MakeBlock BY <1>6, <2>1 DEF ServerPace
    <3>2. PICK n \in 1..Len(requests), b \in Batch :
             /\ Len(b) = n /\ \A i \in 1..n : b[i] = requests[i]
             /\ Execute(b)
      BY <2>1, <3>1, MakeBlockDoes
    <3>3. New(b) BY <2>1, <3>2, BlockIsNew
    <3> QED BY <1>1, <3>2, <3>3, ExecuteServes
  <2>2. CASE ~(make_blocks /\ requests /= <<>>)
    BY <1>4, <1>6, <2>2 DEF ServerPace
  <2> QED
    BY <2>1, <2>2
<1> QED
  BY <1>5, <1>6 DEF ServerStep

LEMMA NextServes ==
  ASSUME IInv, BInv, LInv, [Next]_vars, IsFiniteSet(Clients)
  PROVE  LInv' /\ [Service!Next]_(Service!vars)
<1>1. CASE UNCHANGED vars
  <2>1. UNCHANGED <<queue, event, net, app, replies, benchmark, request_num,
                    consume, results>>
    BY <1>1 DEF vars, loopVars, clientVars, driverVars, serverVars, netVars
  <2>2. Bounded'
    BY <2>1 DEF LInv, Bounded
  <2>3. LInv'
    BY <2>1, <2>2, NothingExecuted DEF LInv, AllSound
  <2> QED
    BY <2>1, <2>3 DEF Service!vars
<1>2. CASE \E c \in Clients : Invoke(c)
  BY <1>2, InvokeServes DEF Service!Next
<1>3. CASE Consume
  BY <1>3, ConsumeServes DEF Service!Next
<1>4. CASE ServerStep
  BY <1>4, ServerServes DEF Service!Next
<1>5. CASE \/ Deadline \/ (\E c \in Clients : Spawn(c) \/ TimerStep(c))
           \/ \E m \in net : ReceiveRequest(m) \/ ReceiveReply(m)
           \/ HandleReply
           \/ /\ \/ TakeMessage \/ (\E c \in Clients : TakeNotification(c))
                 \/ TakeSpurious \/ TakeStop \/ Drain \/ HandleOther
              /\ UNCHANGED <<driverVars, clientVars, serverVars, netVars>>
  BY <1>5, LoopServes
<1> QED
  BY <1>1, <1>2, <1>3, <1>4, <1>5 DEF Next, Dispatch

\* The server executes every request at most once and answers with the result
\* of that execution (unreplicated.rs, handle_request), with and without
\* make_blocks, although requests are lost or, without, arrive twice.
THEOREM ServesLog ==
  ASSUME IsFiniteSet(Clients)
  PROVE  Spec => Linearizable
<1>1. Init => Service!Init
  BY DEF Init, Service!Init
<1>2. IInv /\ BInv /\ LInv /\ [Next]_vars
      => LInv' /\ [Service!Next]_(Service!vars)
  BY NextServes
<1>3. IInv /\ BInv /\ [Next]_vars => BInv'
  BY BNext
<1> QED
  BY <1>1, <1>2, <1>3, InitInv, NextInv, BInit, LInit, PTL
  DEF Spec, Linearizable, Service!Spec
=============================================================================
