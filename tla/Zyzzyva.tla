------------------------------ MODULE Zyzzyva ------------------------------
(***************************************************************************)
(* Zyzzyva as crates/permissioned-blockchain/src/zyzzyva.rs runs it: a     *)
(* replica executes a block when the primary's OrderRequest arrives, and   *)
(* the client decides whether the result is final.  It consumes the result *)
(* all n replicas agree on, or, when it was started with `byzantine`       *)
(* (zyzzyva-f), makes n - f matching responses final by having n - f       *)
(* replicas store them.  As in Pbft the view never changes.                *)
(*                                                                         *)
(* The responses a Commit carries are looked at by nobody and left out.    *)
(***************************************************************************)
EXTENDS Execution

CONSTANTS Primary,   \* the replica primary_index() names
          Byzantine, \* Client::byzantine
          MayStop,   \* replicas that may stop for good at any point
          MaxHeight  \* BOUND: blocks the primary proposes

ASSUME PrimaryAssumption == Primary \in Replicas
ASSUME ByzantineAssumption == Byzantine \in BOOLEAN
ASSUME MayStopAssumption == MayStop \subseteq Live
ASSUME MaxHeightAssumption == MaxHeight \in Nat

VARIABLES commit,         \* ClientInvoke: commit_digest with commit_result, as
                          \* a set of at most one record
          local_commits,  \* ClientInvoke: who answered the Commit
          requests,       \* Replica: waiting for the next block
          order_requests, \* Replica: digests of the blocks received
          commits,        \* Replica: digests with a Commit
          paced           \* no event at the primary since it proposed

commitVars == <<commit, local_commits>>
replicaVars == <<requests, order_requests, commits, paced, executeVars>>
vars == <<netVars, clientVars, commitVars, replicaVars>>

OrderRequestMsg(d) == [kind |-> "OrderRequest", digest |-> d]
SpecResponseMsg(d, rs, i) ==
    [kind |-> "SpecResponse", digest |-> d, results |-> rs, replica |-> i]
CommitMsg(c, d) == [kind |-> "Commit", client |-> c, digest |-> d]
LocalCommitMsg(d, i) == [kind |-> "LocalCommit", digest |-> d, replica |-> i]

Quorum == Cardinality(Replicas) - NumFaulty

Init ==
    /\ Init_Multiplex
    /\ Init_Client
    /\ Init_Execution
    /\ commit = [c \in Clients |-> {}]
    /\ local_commits = [c \in Clients |-> {}]
    /\ requests = [r \in Replicas |-> <<>>]
    /\ order_requests = [r \in Replicas |-> {}]
    /\ commits = [r \in Replicas |-> {}]
    /\ paced = TRUE
-----------------------------------------------------------------------------
(* The client *)

\* The request goes to all replicas, and all but the primary drop it without a
\* look, so only the primary's copy is put in flight.
Invoke(c) ==
    /\ ClientInvoke(c, {Primary})
    /\ commit' = [commit EXCEPT ![c] = {}]
    /\ local_commits' = [local_commits EXCEPT ![c] = {}]
    /\ UNCHANGED replicaVars

\* Where the outstanding request is in the block of response m: a set of at
\* most one index.
Position(c, m) ==
    {i \in 1..Len(BlockRequests(m.digest)) :
        /\ invoke[c]
        /\ BlockRequests(m.digest)[i] = Request(c, request_num[c])
        /\ \A j \in 1..i - 1 :
              BlockRequests(m.digest)[j] /= Request(c, request_num[c])}

\* The responses held once m is inserted, and how many of them match m.
Responses(c, m) == {x \in replies[c] : x.replica /= m.replica} \cup {m}
NumMatch(c, m) ==
    Cardinality({x \in Responses(c, m) :
                    x.digest = m.digest /\ x.results = m.results})

ConsumeResult(c, result) ==
    /\ invoke' = [invoke EXCEPT ![c] = FALSE]
    /\ replies' = [replies EXCEPT ![c] = {}]
    /\ results' = [results EXCEPT ![c] = Append(@, result)]
    /\ commit' = [commit EXCEPT ![c] = {}]
    /\ local_commits' = [local_commits EXCEPT ![c] = {}]
    /\ UNCHANGED request_num

\* Every replica sent the same response.
Final(c, m) == NumMatch(c, m) = Cardinality(Replicas)

\* Mutant of ToCommit: a Commit is sent for all n responses only.
ToCommit_All(c, m) == Byzantine /\ NumMatch(c, m) = Cardinality(Replicas)

ToCommit(c, m) == Byzantine /\ ~Final(c, m) /\ NumMatch(c, m) = Quorum

HandleSpecResponse(c, m) ==
    /\ m.kind = "SpecResponse"
    /\ Datagram(c, m) \in net
    /\ \/ \E i \in Position(c, m) :
             /\ Final(c, m)
             /\ ConsumeResult(c, m.results[i])
             /\ Flight(Datagram(c, m), {})
       \/ \E i \in Position(c, m) :
             /\ ToCommit(c, m)
             /\ replies' = [replies EXCEPT ![c] = Responses(c, m)]
             /\ commit' = [commit EXCEPT ![c] =
                    {[digest |-> m.digest, result |-> m.results[i]]}]
             /\ Flight(Datagram(c, m), SendTo(Live, CommitMsg(c, m.digest)))
             /\ UNCHANGED <<request_num, invoke, results, local_commits>>
       \/ /\ Position(c, m) /= {}
          /\ ~Final(c, m) /\ ~ToCommit(c, m)
          /\ replies' = [replies EXCEPT ![c] = Responses(c, m)]
          /\ Flight(Datagram(c, m), {})
          /\ UNCHANGED <<request_num, invoke, results, commitVars>>
       \/ /\ Position(c, m) = {}
          /\ Flight(Datagram(c, m), {})
          /\ UNCHANGED <<clientVars, commitVars>>
    /\ UNCHANGED <<loopback, replicaVars>>

\* Mutant of LocallyCommitted: a LocalCommit too few.
LocallyCommitted_OneShort(c, m) ==
    Cardinality(local_commits[c] \cup {m.replica}) = Quorum - 1

LocallyCommitted(c, m) ==
    Cardinality(local_commits[c] \cup {m.replica}) = Quorum

HandleLocalCommit(c, m) ==
    /\ m.kind = "LocalCommit"
    /\ ClientReceives(c, m)
    /\ LET expected == {x \in commit[c] : invoke[c] /\ x.digest = m.digest} IN
       \/ \E x \in expected :
             /\ LocallyCommitted(c, m)
             /\ ConsumeResult(c, x.result)
       \/ /\ expected /= {} /\ ~LocallyCommitted(c, m)
          /\ local_commits' = [local_commits EXCEPT ![c] = @ \cup {m.replica}]
          /\ UNCHANGED <<clientVars, commit>>
       \/ expected = {} /\ UNCHANGED <<clientVars, commitVars>>
    /\ UNCHANGED replicaVars
-----------------------------------------------------------------------------
(* Replicas *)

\* Any event at the primary lets the loop call on_pace again.
Event(r) == paced' = (paced /\ r /= Primary)

HandleRequest(r, m) ==
    /\ Running(r) /\ Arrived(r, m)
    /\ m.kind = "Request"
    /\ requests' = [requests EXCEPT ![r] = Append(@, Request(m.client, m.num))]
    /\ HandleDatagram(r, m, {}, <<>>)
    /\ Event(r)
    /\ UNCHANGED <<clientVars, commitVars, order_requests, commits, executeVars>>

OnPace(r) ==
    /\ Running(r)
    /\ r = Primary /\ ~paced /\ requests[r] /= <<>>
    /\ Len(chain[r].digest_parent) < MaxHeight
    /\ LET next == Propose(chain[r], requests[r])
           m    == OrderRequestMsg(next.digest_parent)
       IN  /\ chain' = [chain EXCEPT ![r] = next]
           /\ Pace(r, SendTo(Peers(r), m), <<m>>)
    /\ requests' = [requests EXCEPT ![r] = Drained(@)]
    /\ paced' = TRUE
    /\ UNCHANGED <<clientVars, commitVars, order_requests, commits, app, panicked>>

\* The response for each block do_execute applies, to that block's clients.
SpecResponses(r, d) ==
    LET batches == Applied(r, d)
        digest(k) == SubSeq(LastExecuted(chain[r], d), 1, Len(d) + k - 1)
        before(k) == app[r] \o SubSeq(batches, 1, k - 1)
        response(k) == SpecResponseMsg(digest(k),
            [i \in 1..Len(batches[k]) |-> Result(before(k), batches[k], i)], r)
    IN  UNION {{Datagram(batches[k][i].client, response(k)) :
                   i \in 1..Len(batches[k])} : k \in 1..Len(batches)}

\* handle_order_request with do_execute.
Order(r, d) ==
    /\ order_requests' = [order_requests EXCEPT ![r] = @ \cup {d}]
    /\ DoExecute(r, d, order_requests[r] \cup {d})
    /\ Event(r)
    /\ UNCHANGED <<clientVars, commitVars, requests, commits>>

OrderOut(r, d) ==
    IF Panic(r, d, order_requests[r] \cup {d}) = "no"
      THEN SpecResponses(r, d) ELSE {}

HandleOrderRequest(r, m) ==
    /\ Running(r) /\ Arrived(r, m)
    /\ m.kind = "OrderRequest"
    /\ Order(r, m.digest)
    /\ HandleDatagram(r, m, OrderOut(r, m.digest), <<>>)

LoopbackOrderRequest(r) ==
    /\ Running(r) /\ loopback[r] /= <<>>
    /\ Order(r, Head(loopback[r]).msg.digest)
    /\ HandleLoopback(r, OrderOut(r, Head(loopback[r]).msg.digest), <<>>)

\* Mutant of Storable: a Commit is stored for a block that is not known.
Storable_Any(r, m) == TRUE

Storable(r, m) == m.digest \in order_requests[r]

\* A Commit for a block the replica does not hold is dropped.
HandleCommit(r, m) ==
    /\ Running(r) /\ Arrived(r, m)
    /\ m.kind = "Commit"
    /\ LET answer == {Datagram(m.client, LocalCommitMsg(m.digest, r))} IN
       \/ /\ Storable(r, m)
          /\ commits' = [commits EXCEPT ![r] = @ \cup {m.digest}]
          /\ HandleDatagram(r, m, answer, <<>>)
       \/ /\ ~Storable(r, m)
          /\ HandleDatagram(r, m, {}, <<>>)
          /\ UNCHANGED commits
    /\ Event(r)
    /\ UNCHANGED <<clientVars, commitVars, requests, order_requests, executeVars>>
-----------------------------------------------------------------------------
HandleResponse(c, m) == HandleSpecResponse(c, m) \/ HandleLocalCommit(c, m)

ReplicaStep(r) ==
    \/ OnPace(r)
    \/ LoopbackOrderRequest(r)
    \/ \E m \in InFlightTo(net, r) :
          \/ HandleRequest(r, m)
          \/ HandleOrderRequest(r, m)
          \/ HandleCommit(r, m)

Next ==
    \/ \E c \in Clients :
          \/ Invoke(c)
          \/ \E m \in InFlightTo(net, c) : HandleResponse(c, m)
    \/ \E r \in Live : ReplicaStep(r)

Spec == Init /\ [][Next]_vars
-----------------------------------------------------------------------------
(* Safety *)

\* Every result a client consumed is final: all n replicas executed the
\* request after the same blocks, or n - f replicas did and n - f replicas
\* store the client's Commit of the block.
ConsumedIsFinal ==
    \A c \in Clients : \A k \in DOMAIN results[c] :
        LET height == Len(results[c][k].before) + 1
            upto == results[c][k].upto
            is(d) == /\ Len(d) = height
                     /\ Parent(d) = results[c][k].before
                     /\ SubSeq(d[height], 1, Len(upto)) = upto
            executed == {i \in Replicas : /\ Len(app[i]) >= height
                                          /\ is(SubSeq(app[i], 1, height))}
            stored == {i \in Replicas : \E d \in commits[i] : is(d)}
        IN  \/ executed = Replicas
            \/ Cardinality(executed) >= Quorum /\ Cardinality(stored) >= Quorum

\* A replica stores a Commit only of a block it executed itself or will, once
\* the blocks before it have come.
StoredIsExecutable ==
    \A r \in Replicas : \A d \in commits[r] :
        IsAncestor(d, app[r]) \/ d \in chain[r].pending

Service == INSTANCE ReplicatedLog WITH log <- Log

\* The clients cannot tell the replicas from a single log, although replicas
\* execute before anything is agreed on.
Linearizable == Service!Spec
-----------------------------------------------------------------------------
(* Progress *)

\* What the runtime owes when nothing is lost: every event at a replica that
\* does not stop reaches its handler, and its loop keeps going.
Fairness ==
    /\ \A r \in Live \ MayStop : WF_vars(ReplicaStep(r))
    /\ \A c \in Clients :
          WF_vars(\E m \in InFlightTo(net, c) : HandleResponse(c, m))

FairSpec == Spec /\ Fairness

\* Every invocation is answered although f replicas may stop at any point,
\* between the response and the Commit too, and nothing is ever sent twice.
InvokeCompletes == \A c \in Clients : invoke[c] ~> ~invoke[c]
=============================================================================
