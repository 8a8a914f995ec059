---------------------------- MODULE Unreplicated ----------------------------
(***************************************************************************)
(* The unreplicated baseline (crates/permissioned-blockchain/src/          *)
(* unreplicated.rs): one server, and clients driven by close_loop of       *)
(* client.rs.  The clients share one event loop (EventLoop), so that the   *)
(* runtime thread, which invokes and fires the timers, and the dispatch    *)
(* thread, which takes replies, meet at a client's lock and at the timer   *)
(* lock.  The server's loop is one thread with no timers; what matters of  *)
(* it is pace_count, on which on_pace depends.                             *)
(***************************************************************************)
EXTENDS EventLoop, Chain

CONSTANTS Clients,
          MakeBlocks,    \* the values of Replica::make_blocks considered
          MaxRequestNum, \* BOUND: invocations of all clients together
          MaxFaults      \* BOUND: messages skipped and receipts repeated

ASSUME NodesAssumption == Nodes = Clients
ASSUME MakeBlocksAssumption == MakeBlocks \subseteq BOOLEAN
ASSUME BoundsAssumption ==
    MaxRequestNum \in Nat \ {0} /\ MaxFaults \in Nat

VARIABLES benchmark,   \* Benchmark: per client what becomes of its task
          deadline,    \* Benchmark: close_loop has returned
          request_num, \* ClientShared
          consume,     \* ClientShared: consume.is_some()
          results,     \* history: what the client consumed
          inbox,       \* the event channel of the server's loop
          pace_count,  \* of the server's loop
          make_blocks, \* Replica
          requests,    \* Replica: waiting for the next block
          chain,       \* Replica: see Chain
          replies,     \* Replica: the last Reply to each client
          app,         \* Replica: the batches its App has executed
          net,         \* datagrams in flight
          faults       \* messages skipped and receipts repeated so far

clientVars == <<request_num, consume, results>>
driverVars == <<benchmark, deadline>>
serverVars ==
    <<inbox, pace_count, make_blocks, requests, chain, replies, app>>
netVars == <<net, faults>>
vars == <<loopVars, clientVars, driverVars, serverVars, netVars>>

Request(c, n) == [client |-> c, num |-> n]
RequestMsg(c, n) == [kind |-> "Request", client |-> c, num |-> n]
ReplyMsg(c, n, res) ==
    [kind |-> "Reply", client |-> c, num |-> n, result |-> res]
NoReply == [num |-> 0]

Init ==
    /\ Init_EventLoop
    /\ benchmark = [c \in Clients |-> "idle"]
    /\ deadline = FALSE
    /\ request_num = [c \in Clients |-> 0]
    /\ consume = [c \in Clients |-> FALSE]
    /\ results = [c \in Clients |-> <<>>]
    /\ inbox = <<>>
    /\ pace_count = 1
    /\ make_blocks \in MakeBlocks
    /\ make_blocks => on_timer = "panic"
    /\ requests = <<>>
    /\ chain = NewChain
    /\ replies = [c \in Clients |-> NoReply]
    /\ app = <<>>
    /\ net = {}
    /\ faults = 0
-----------------------------------------------------------------------------
(* The benchmark thread *)

First == \A c \in Clients : benchmark[c] = "idle"

Invoked == UNION {{x} \X (1..request_num[x]) : x \in Clients}
Spawned == {x \in Clients : benchmark[x] = "spawned"}

\* The first invocation is over, so the other clients' are spawned; the loop
\* spawns a client's next one when its last one is finished.
Spawn(c) ==
    /\ ~deadline
    /\ \/ /\ benchmark[c] = "idle"
          /\ \E x \in Clients : benchmark[x] = "finished"
       \/ /\ benchmark[c] = "finished"
          /\ Cardinality(Invoked) + Cardinality(Spawned) < MaxRequestNum
          /\ \A x \in Clients : benchmark[x] /= "idle"
    /\ benchmark' = [benchmark EXCEPT ![c] = "spawned"]
    /\ UNCHANGED <<deadline, loopVars, clientVars, serverVars, netVars>>

\* The deadline passes and run_benchmark calls stop.
Deadline ==
    /\ ~deadline
    /\ \A c \in Clients : benchmark[c] /= "idle"
    /\ deadline' = TRUE
    /\ UNCHANGED <<benchmark, loopVars, clientVars, serverVars, netVars>>
-----------------------------------------------------------------------------
(* The clients *)

\* handle holds the client's lock from the timer's unset to its end.
HeldLock(c) == at = "join" /\ event.client = c

\* An invoke that waits for a client's lock keeps the runtime thread.
RuntimeFree == ~\E c \in Clients : benchmark[c] = "spawned" /\ HeldLock(c)

\* invoke, on the runtime thread or, the first one, on the benchmark thread.
Invoke(c) ==
    /\ First \/ (benchmark[c] = "spawned" /\ ~HeldLock(c))
    /\ ~consume[c]
    /\ benchmark' = [benchmark EXCEPT ![c] = "invoked"]
    /\ request_num' = [request_num EXCEPT ![c] = @ + 1]
    /\ consume' = [consume EXCEPT ![c] = TRUE]
    /\ Set(c)
    /\ net' = net \cup {RequestMsg(c, request_num[c] + 1)}
    /\ UNCHANGED <<deadline, faults, queue, fired, at, event, spurious, on_timer,
                   results, serverVars>>

\* handle up to the wait for the timer's task.
HandleReply ==
    /\ at = "handle" /\ event.kind = "Reply"
    /\ IF event.num = request_num[event.client]
         THEN Unset(event.client) ELSE Handled
    /\ UNCHANGED <<driverVars, clientVars, serverVars, netVars>>

\* unset returns: handle takes consume, drops the client's lock and applies
\* it, which reports the end of the transaction to the benchmark thread.
Consume ==
    /\ at = "join"
    /\ Join(event.client)
    /\ consume' = [consume EXCEPT ![event.client] = FALSE]
    /\ results' = [results EXCEPT ![event.client] = Append(@, event.result)]
    /\ benchmark' = [benchmark EXCEPT ![event.client] = "finished"]
    /\ UNCHANGED <<request_num, deadline, serverVars, netVars>>

ReceiveReply(m) ==
    /\ RuntimeFree
    /\ m \in net /\ m.kind = "Reply"
    /\ Receive(m)
    /\ net' = net \ {m}
    /\ UNCHANGED <<faults, driverVars, clientVars, serverVars>>

TimerStep(c) ==
    /\ RuntimeFree
    /\ TimerTask(c)
    /\ UNCHANGED <<driverVars, clientVars, serverVars, netVars>>

Dispatch ==
    \/ /\ \/ TakeMessage
          \/ \E c \in Clients : TakeNotification(c)
          \/ TakeSpurious
          \/ deadline /\ TakeStop
          \/ Drain
          \/ HandleOther
       /\ UNCHANGED <<driverVars, clientVars, serverVars, netVars>>
    \/ HandleReply
    \/ Consume
-----------------------------------------------------------------------------
(* The server *)

\* BOUND: faults are left out with the receiver of the test, which has none.
MayFail == faults < MaxFaults /\ on_timer = "panic"

\* A request is received once, or once more.  Not so with make_blocks: a second
\* copy that comes before the block would be executed again, and the assertion
\* on the evicted reply panic.
ReceiveRequest(m) ==
    /\ m \in net /\ m.kind = "Request"
    /\ inbox' = Append(inbox, m)
    /\ \/ net' = net \ {m} /\ UNCHANGED faults
       \/ ~make_blocks /\ MayFail /\ faults' = faults + 1 /\ UNCHANGED net
    /\ UNCHANGED <<loopVars, driverVars, clientVars, pace_count, make_blocks,
                   requests, chain, replies, app>>

\* The replies to the requests of a batch, executed after `before`.
BatchReplies(before, batch) ==
    {ReplyMsg(batch[i].client, batch[i].num,
              [before |-> before, upto |-> SubSeq(batch, 1, i)]) :
        i \in 1..Len(batch)}

\* The last reply to each client once those in rs are inserted.
Inserted(rs) ==
    [c \in Clients |->
        IF \E x \in rs : x.client = c THEN CHOOSE x \in rs : x.client = c
        ELSE replies[c]]

Execute(batch) ==
    /\ app' = Append(app, batch)
    /\ replies' = Inserted(BatchReplies(app, batch))
    /\ net' = net \cup BatchReplies(app, batch)

\* Mutant of Executed: the replies sent so far are not looked at.
Executed_Never(m) == FALSE

\* The request was executed, as the reply kept for its client tells.
Executed(m) == replies[m.client].num >= m.num

\* handle: a request that was answered last is answered again.
HandleRequest(m) ==
    \/ /\ Executed(m)
       /\ net' = net \cup {x \in {replies[m.client]} : x.num = m.num}
       /\ UNCHANGED <<requests, replies, app>>
    \/ /\ ~Executed(m)
       /\ requests' = Append(requests, Request(m.client, m.num))
       /\ IF make_blocks THEN UNCHANGED <<app, replies, net>>
          ELSE Execute(<<Request(m.client, m.num)>>)

\* The loop handles a message or skips it: its drop_rate, which the deployment
\* sets for neo only, and here any loss of a request on its way.
ServerHandle ==
    /\ pace_count > 0 /\ inbox /= <<>>
    /\ inbox' = Tail(inbox)
    /\ pace_count' = pace_count - 1
    /\ \/ HandleRequest(Head(inbox)) /\ UNCHANGED faults
       \/ /\ MayFail /\ faults' = faults + 1
          /\ UNCHANGED <<requests, replies, app, net>>
    /\ UNCHANGED <<loopVars, driverVars, clientVars, make_blocks, chain>>

\* on_pace
MakeBlock ==
    LET next  == Propose(chain, requests)
        block == next.digest_parent
    IN  /\ chain' = Committed(next, block)
        /\ requests' = Drained(requests)
        /\ Execute(BlockRequests(block))

\* Mutant of PaceCount: the loop paces when one more message is handled.
PaceCount_OneMore == Len(inbox) + 1

\* on_pace is due again when all that waits now is handled.
PaceCount == IF inbox = <<>> THEN 1 ELSE Len(inbox)

ServerPace ==
    /\ pace_count = 0
    /\ pace_count' = PaceCount
    /\ IF make_blocks /\ requests /= <<>> THEN MakeBlock
       ELSE UNCHANGED <<chain, requests, replies, app, net>>
    /\ UNCHANGED <<loopVars, driverVars, clientVars, inbox, make_blocks,
                   faults>>
-----------------------------------------------------------------------------
ServerStep == ServerHandle \/ ServerPace

Next ==
    \/ Deadline
    \/ \E c \in Clients : Spawn(c) \/ Invoke(c) \/ TimerStep(c)
    \/ Dispatch
    \/ ServerStep
    \/ \E m \in net : ReceiveRequest(m) \/ ReceiveReply(m)

Spec == Init /\ [][Next]_vars
-----------------------------------------------------------------------------
(* Safety *)

\* What the next drain hands to on_timer is of a timer that is set, for the
\* request its client still waits for: never of one that unset has removed,
\* however the timers' tasks, their abortion, spurious notifications, the
\* drain and the handler interleave.
NoFalseAlarm ==
    \A k \in DOMAIN fired :
        LET c == fired[k][1] IN
        consume[c] /\ id_set[c] /\ fired[k][2] = request_num[c]

\* No request waits for a block with no event in the server's channel that could
\* bring the next on_pace: then it is due at once.  (A block takes all that
\* waits, when no more clients than MaxBatchSize wait; what one block leaves
\* over is due only after another event.)
BlockIsDue == make_blocks /\ requests /= <<>> /\ inbox = <<>> => pace_count = 0

Service == INSTANCE ReplicatedLog WITH log <- app, invoke <- consume

\* The server executes every request at most once, and answers with that
\* execution's result although requests and so replies may be duplicated.
Linearizable == Service!Spec
-----------------------------------------------------------------------------
(* Progress *)

\* What the runtime owes: every thread and every task that can go on does,
\* and a datagram is received.  The deadline need not come.
Fairness ==
    /\ WF_vars(Dispatch)
    /\ WF_vars(deadline /\ TakeStop /\ UNCHANGED <<driverVars, clientVars,
                                                   serverVars, netVars>>)
    /\ WF_vars(ServerStep)
    /\ \A c \in Clients :
          WF_vars(Spawn(c)) /\ WF_vars(Invoke(c)) /\ WF_vars(TimerStep(c))
    /\ WF_vars(\E m \in net : ReceiveRequest(m))
    /\ WF_vars(\E m \in net : ReceiveReply(m))

FairSpec == Spec /\ Fairness

\* Every invocation is answered or its timer ends the loop, although the
\* server may lose the request; and no thread waits for another for good,
\* the invoking one for a client's lock or the dispatching one for a task.
AnsweredOrEnded ==
    \A c \in Clients :
        consume[c] ~> ~consume[c] \/ Ended \/ on_timer = "return"
=============================================================================
