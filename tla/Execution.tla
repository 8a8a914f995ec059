----------------------------- MODULE Execution -----------------------------
(***************************************************************************)
(* do_execute of pbft.rs and minbft.rs: commit a block whose certificate   *)
(* is complete to the Chain, apply it and every block that waited for it   *)
(* to the App, and answer their clients.                                   *)
(***************************************************************************)
EXTENDS Chain, ReplyClient

VARIABLES chain,   \* Replica: see Chain
          app,     \* Replica: the batches its App has executed, in order
          panicked \* a panic has ended the replica's event loop, and why

executeVars == <<chain, app, panicked>>

Init_Execution ==
    /\ chain = [r \in Replicas |-> NewChain]
    /\ app = [r \in Replicas |-> <<>>]
    /\ panicked = [r \in Replicas |-> "no"]

Running(r) == r \in Live /\ panicked[r] = "no"

\* App::execute on request i of a batch, after `before` was executed: a
\* deterministic application's result is a function of the operations
\* executed so far, so two results are equal when those are.
Result(before, batch, i) ==
    [before |-> before, upto |-> SubSeq(batch, 1, i)]

\* do_execute indexes the map of blocks the replica holds, and Chain::commit
\* asserts: either panics.
Panic(r, d, held) ==
    IF d \notin held THEN "index"
    ELSE IF Conflicts(chain[r], d) THEN "conflict" ELSE "no"

\* The batches do_execute applies.
Applied(r, d) ==
    IF Extends(chain[r], d)
      THEN SubSeq(LastExecuted(chain[r], d), Len(d),
                  Len(LastExecuted(chain[r], d)))
      ELSE <<>>

\* The replies it sends.  All carry the digest of the block whose certificate
\* completed, those for the blocks next_execute returns as well.
Replies(r, d) ==
    LET batches == Applied(r, d)
        before(k) == app[r] \o SubSeq(batches, 1, k - 1)
        reply(k, i) ==
            Datagram(batches[k][i].client,
                     ReplyMsg(batches[k][i].num,
                              Result(before(k), batches[k], i), d, r))
    IN  UNION {{reply(k, i) : i \in 1..Len(batches[k])} :
                  k \in 1..Len(batches)}

ReplyOut(r, d, held) ==
    IF Panic(r, d, held) = "no" THEN Replies(r, d) ELSE {}

DoExecute(r, d, held) ==
    /\ panicked' = [panicked EXCEPT ![r] = Panic(r, d, held)]
    /\ IF Panic(r, d, held) = "no"
         THEN /\ chain' = [chain EXCEPT ![r] = Committed(@, d)]
              /\ app' = [app EXCEPT ![r] = @ \o Applied(r, d)]
         ELSE UNCHANGED <<chain, app>>
-----------------------------------------------------------------------------
(* Types *)

RequestRecords == [client : Clients, num : 1..MaxRequestNum]
Batches == {b \in Seq(RequestRecords) : Len(b) \in 0..MaxBatchSize}
Digests == Seq(Batches)
ReplicaResults == [before : Digests, upto : Batches]
RequestMsgs == [kind : {"Request"}, client : Clients, num : 1..MaxRequestNum]
ReplyMsgs == [kind : {"Reply"}, num : 1..MaxRequestNum,
              result : ReplicaResults, digest : Digests, replica : Live]
Chains == [digest_parent : Digests, digest_execute : Digests,
           pending : SUBSET Digests]

ClientTypeOK ==
    /\ request_num \in [Clients -> 0..MaxRequestNum]
    /\ invoke \in [Clients -> BOOLEAN]
    /\ replies \in [Clients -> SUBSET ReplyMsgs]
    /\ results \in [Clients -> Seq(ReplicaResults)]

ExecutionTypeOK ==
    /\ chain \in [Replicas -> Chains]
    /\ app \in [Replicas -> Digests]
    /\ panicked \in [Replicas -> {"no", "index", "conflict"}]

\* The network for the messages of a protocol's replicas and for those a
\* replica sends itself.
NetTypeOK(messages, own) ==
    /\ net \subseteq [to : Replicas, msg : messages]
                        \cup [to : Clients, msg : ReplyMsgs]
    /\ loopback \in [Replicas -> Seq([msg : own, before : SUBSET messages])]
    /\ dup \in 0..MaxDup
-----------------------------------------------------------------------------
(* What the protocols' replicas must keep.  They are checked and proved in  *)
(* the modules of the protocols.                                           *)

\* No two replicas execute different blocks at the same height, in whatever
\* order the certificates of the blocks complete at each of them.
Agreement ==
    \A r, s \in Replicas : \/ IsAncestor(app[r], app[s])
                           \/ IsAncestor(app[s], app[r])

\* The application has executed exactly the chain up to digest_execute,
\* although commit and next_execute move digest_execute first and the loop of
\* do_execute applies the blocks after; and a block waits in pending_execute
\* only for a parent that is still to be executed, never beside it.
ExecutedInOrder ==
    \A r \in Replicas :
        /\ app[r] = chain[r].digest_execute
        /\ \A d \in chain[r].pending : Len(Parent(d)) > Len(app[r])

\* What a client consumed for its k-th request is the result of executing that
\* very request, where f + 1 replicas executed it.
ConsumedIsExecuted ==
    \A c \in Clients : \A k \in DOMAIN results[c] :
        LET log == Append(results[c][k].before, results[c][k].upto)
            executed(i) ==
                /\ Len(log) <= Len(app[i])
                /\ log = Append(SubSeq(app[i], 1, Len(log) - 1),
                                SubSeq(app[i][Len(log)], 1,
                                       Len(log[Len(log)])))
        IN  /\ BlockRequests(log)[Len(BlockRequests(log))] = Request(c, k)
            /\ Cardinality({i \in Replicas : executed(i)}) >= NumFaulty + 1

\* No panic ends a replica's event loop: do_execute finds every block it
\* indexes, and Chain::commit never meets "conflicting blocks".
NoPanic == \A r \in Replicas : panicked[r] = "no"

\* The log the clients see: the longest any replica has executed.
Log == app[CHOOSE r \in Replicas :
              \A s \in Replicas : Len(app[s]) <= Len(app[r])]
=============================================================================
