---------------------------- MODULE ReplyClient ----------------------------
(***************************************************************************)
(* The closed-loop client of pbft.rs and minbft.rs: it has at most one     *)
(* request outstanding, and consumes a result when f + 1 replicas sent the *)
(* same result under the same block digest.                                *)
(*                                                                         *)
(* invoke runs on a runtime thread and handle on the dispatch thread; both *)
(* hold the client's lock throughout, so each is one step.  A client never *)
(* retransmits: resend_timer's only effect is the panic of Benchmark's     *)
(* on_timer, so the timer is left out and progress is stated without it.   *)
(***************************************************************************)
EXTENDS Multiplex

CONSTANTS NumFaulty,    \* context.num_faulty()
          MaxRequestNum \* BOUND: invocations of one client

ASSUME ReplicasAssumption ==
    /\ IsFiniteSet(Replicas)
    /\ NumFaulty \in Nat
    /\ 3 * NumFaulty < Cardinality(Replicas)
ASSUME MaxRequestAssumption == MaxRequestNum \in Nat

VARIABLES request_num, \* ClientShared: number of the last invocation
          invoke,      \* ClientShared: invoke.is_some()
          replies,     \* ClientInvoke: at most one Reply per replica
          results      \* history: what the client consumed

clientVars == <<request_num, invoke, replies, results>>

Request(c, n) == [client |-> c, num |-> n]

RequestMsg(c, n) == [kind |-> "Request", client |-> c, num |-> n]
ReplyMsg(n, res, d, i) ==
    [kind |-> "Reply", num |-> n, result |-> res, digest |-> d, replica |-> i]

Init_Client ==
    /\ request_num = [c \in Clients |-> 0]
    /\ invoke = [c \in Clients |-> FALSE]
    /\ replies = [c \in Clients |-> {}]
    /\ results = [c \in Clients |-> <<>>]

\* invoke: the request goes to the replicas in `to`.
ClientInvoke(c, to) ==
    /\ ~invoke[c]
    /\ request_num[c] < MaxRequestNum
    /\ request_num' = [request_num EXCEPT ![c] = @ + 1]
    /\ invoke' = [invoke EXCEPT ![c] = TRUE]
    /\ replies' = [replies EXCEPT ![c] = {}]
    /\ ClientSends(SendTo(to, RequestMsg(c, request_num[c] + 1)))
    /\ UNCHANGED results

\* The replies held once m is inserted, and those of them that agree with m.
Inserted(c, m) == {x \in replies[c] : x.replica /= m.replica} \cup {m}
Matching(c, m) ==
    {x \in Inserted(c, m) : x.digest = m.digest /\ x.result = m.result}

Expected(c, m) == m.num = request_num[c] /\ invoke[c]

\* Mutant of Enough: f matching replies suffice.
Enough_OneShort(c, m) == Cardinality(Matching(c, m)) = NumFaulty

Enough(c, m) == Cardinality(Matching(c, m)) = NumFaulty + 1

Consume(c, m) ==
    /\ Enough(c, m)
    /\ invoke' = [invoke EXCEPT ![c] = FALSE]
    /\ replies' = [replies EXCEPT ![c] = {}]
    /\ results' = [results EXCEPT ![c] = Append(@, m.result)]
    /\ UNCHANGED request_num

Collect(c, m) ==
    /\ ~Enough(c, m)
    /\ replies' = [replies EXCEPT ![c] = Inserted(c, m)]
    /\ UNCHANGED <<request_num, invoke, results>>

ClientHandle(c, m) ==
    /\ ClientReceives(c, m)
    /\ \/ Expected(c, m) /\ (Consume(c, m) \/ Collect(c, m))
       \/ ~Expected(c, m) /\ UNCHANGED clientVars
=============================================================================
