--------------------------- MODULE ReplicatedLog ---------------------------
(***************************************************************************)
(* What the replication protocols of crates/permissioned-blockchain        *)
(* promise their clients, whatever the replicas do: one log of batches of  *)
(* requests that only grows, holds every request at most once and only     *)
(* after its invocation, and each invocation answered with the result of   *)
(* executing the log up to and including that request.  Every execution is *)
(* linearizable with the append as the linearization point.                *)
(***************************************************************************)
EXTENDS Naturals, Sequences

CONSTANTS Clients,
          MaxRequestNum \* BOUND: invocations of one client

VARIABLES log,         \* the batches executed, in order
          request_num, \* number of the client's last invocation
          invoke,      \* the client waits for an answer
          results      \* the answers the client got

vars == <<log, request_num, invoke, results>>

Request(c, n) == [client |-> c, num |-> n]


Init ==
    /\ log = <<>>
    /\ request_num = [c \in Clients |-> 0]
    /\ invoke = [c \in Clients |-> FALSE]
    /\ results = [c \in Clients |-> <<>>]

Invoke(c) ==
    /\ ~invoke[c]
    /\ request_num[c] < MaxRequestNum
    /\ request_num' = [request_num EXCEPT ![c] = @ + 1]
    /\ invoke' = [invoke EXCEPT ![c] = TRUE]
    /\ UNCHANGED <<log, results>>

\* One step may append several batches: a replica that executes a block
\* executes the ones that waited for it as well.
AppendBatches ==
    /\ Len(log') > Len(log)
    /\ SubSeq(log', 1, Len(log)) = log
    /\ \A k \in 1..Len(log'), l \in 1..Len(log') :
          \A i \in 1..Len(log'[k]), j \in 1..Len(log'[l]) :
             /\ log'[k][i].num \in 1..request_num[log'[k][i].client]
             /\ log'[k][i] = log'[l][j] => k = l /\ i = j
    /\ UNCHANGED <<request_num, invoke, results>>

Respond(c) ==
    /\ invoke[c]
    /\ \E k \in 1..Len(log) : \E i \in 1..Len(log[k]) :
          /\ log[k][i] = Request(c, request_num[c])
          /\ results' = [results EXCEPT ![c] =
                Append(@, [before |-> SubSeq(log, 1, k - 1),
                           upto |-> SubSeq(log[k], 1, i)])]
    /\ invoke' = [invoke EXCEPT ![c] = FALSE]
    /\ UNCHANGED <<log, request_num>>

Next ==
    \/ AppendBatches
    \/ \E c \in Clients : Invoke(c) \/ Respond(c)

Spec == Init /\ [][Next]_vars
=============================================================================
