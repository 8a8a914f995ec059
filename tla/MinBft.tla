------------------------------- MODULE MinBft -------------------------------
(***************************************************************************)
(* MinBFT as crates/permissioned-blockchain/src/minbft.rs runs it.  The    *)
(* trusted counter is only simulated there (simulate_sgx spends its time), *)
(* so it adds no state.  As in Pbft the view never changes.                *)
(***************************************************************************)
EXTENDS Execution

CONSTANTS Primary,  \* the replica primary_index() names
          MaxHeight \* BOUND: blocks the primary proposes

ASSUME PrimaryAssumption == Primary \in Replicas
ASSUME MaxHeightAssumption == MaxHeight \in Nat

VARIABLES requests,            \* Replica: waiting for the next block
          prepares,            \* Replica: digests of the blocks received
          commit_certificates, \* Replica: pairs <<digest, replica>>
          paced                \* no event at the primary since it proposed

quorumVars == <<prepares, commit_certificates>>
vars == <<netVars, clientVars, requests, paced, quorumVars, executeVars>>

PrepareMsg(d) == [kind |-> "Prepare", digest |-> d]
CommitMsg(d, i) == [kind |-> "Commit", digest |-> d, replica |-> i]

Certificate(certificates, d) == {p[2] : p \in {q \in certificates : q[1] = d}}

Init ==
    /\ Init_Multiplex
    /\ Init_Client
    /\ Init_Execution
    /\ requests = [r \in Replicas |-> <<>>]
    /\ prepares = [r \in Replicas |-> {}]
    /\ commit_certificates = [r \in Replicas |-> {}]
    /\ paced = TRUE
-----------------------------------------------------------------------------
(* Clients *)

Invoke(c) ==
    /\ ClientInvoke(c, Live)
    /\ UNCHANGED <<requests, paced, quorumVars, executeVars>>

HandleReply(c, m) ==
    /\ ClientHandle(c, m)
    /\ UNCHANGED <<requests, paced, quorumVars, executeVars>>
-----------------------------------------------------------------------------
(* Replicas *)

\* The loopback message that r handles next.
Own(r) == Head(loopback[r]).msg

\* Any event at the primary lets the loop call on_pace again.
Event(r) == paced' = (paced /\ r /= Primary)

HandleRequest(r, m) ==
    /\ Running(r) /\ Arrived(r, m)
    /\ m.kind = "Request"
    /\ requests' = IF r = Primary
                     THEN [requests EXCEPT ![r] =
                              Append(@, Request(m.client, m.num))]
                     ELSE requests
    /\ HandleDatagram(r, m, {}, <<>>)
    /\ Event(r)
    /\ UNCHANGED <<clientVars, quorumVars, executeVars>>

OnPace(r) ==
    /\ Running(r)
    /\ r = Primary /\ ~paced /\ requests[r] /= <<>>
    /\ Len(chain[r].digest_parent) < MaxHeight
    /\ LET next == Propose(chain[r], requests[r])
           m    == PrepareMsg(next.digest_parent)
       IN  /\ chain' = [chain EXCEPT ![r] = next]
           /\ Pace(r, SendTo(Peers(r), m), <<m>>)
    /\ requests' = [requests EXCEPT ![r] = Drained(@)]
    /\ paced' = TRUE
    /\ UNCHANGED <<clientVars, quorumVars, app, panicked>>

AcceptPrepare(r, m) ==
    /\ prepares' = [prepares EXCEPT ![r] = @ \cup {m.digest}]
    /\ Event(r)
    /\ UNCHANGED <<clientVars, requests, commit_certificates, executeVars>>

CommitOut(r, m) == SendTo(Peers(r), CommitMsg(m.digest, r))
CommitOwn(r, m) == <<CommitMsg(m.digest, r)>>

HandlePrepare(r, m) ==
    /\ Running(r) /\ Arrived(r, m)
    /\ m.kind = "Prepare"
    /\ AcceptPrepare(r, m)
    /\ HandleDatagram(r, m, CommitOut(r, m), CommitOwn(r, m))

\* The primary handles its own Prepare as the others do.
LoopbackPrepare(r) ==
    /\ Running(r) /\ loopback[r] /= <<>>
    /\ Own(r).kind = "Prepare"
    /\ AcceptPrepare(r, Own(r))
    /\ HandleLoopback(r, CommitOut(r, Own(r)), CommitOwn(r, Own(r)))

\* Mutant of CommitComplete: one Commit too few.
CommitComplete_OneShort(certificates, d) ==
    Cardinality(Certificate(certificates, d)) = NumFaulty

\* insert_commit: the certificate takes f + 1 Commits and no more; the
\* replica's own Commit still gets past the early return.
CommitComplete(certificates, d) ==
    Cardinality(Certificate(certificates, d)) = NumFaulty + 1

CommitsWith(r, m) ==
    IF CommitComplete(commit_certificates[r], m.digest)
      THEN commit_certificates[r]
      ELSE commit_certificates[r] \cup {<<m.digest, m.replica>>}

\* Mutant of Executes: any Commit for a block in hand executes it.
Executes_EveryCommit(r, m) == m.digest \in prepares[r]

Executes(r, m) ==
    /\ CommitComplete(commit_certificates[r], m.digest) => m.replica = r
    /\ m.digest \in prepares[r]
    /\ CommitComplete(CommitsWith(r, m), m.digest)

InsertCommit(r, m) ==
    /\ commit_certificates' =
          [commit_certificates EXCEPT ![r] = CommitsWith(r, m)]
    /\ IF Executes(r, m)
         THEN DoExecute(r, m.digest, prepares[r])
         ELSE UNCHANGED executeVars
    /\ Event(r)
    /\ UNCHANGED <<clientVars, requests, prepares>>

CommitReplies(r, m) ==
    IF Executes(r, m) THEN ReplyOut(r, m.digest, prepares[r]) ELSE {}

HandleCommit(r, m) ==
    /\ Running(r) /\ Arrived(r, m)
    /\ m.kind = "Commit"
    /\ InsertCommit(r, m)
    /\ HandleDatagram(r, m, CommitReplies(r, m), <<>>)

LoopbackCommit(r) ==
    /\ Running(r) /\ loopback[r] /= <<>>
    /\ Own(r).kind = "Commit"
    /\ InsertCommit(r, Own(r))
    /\ HandleLoopback(r, CommitReplies(r, Own(r)), <<>>)
-----------------------------------------------------------------------------
ClientStep(c) ==
    \/ Invoke(c)
    \/ \E m \in InFlightTo(net, c) : HandleReply(c, m)

ReplicaStep(r) ==
    \/ OnPace(r)
    \/ LoopbackPrepare(r)
    \/ LoopbackCommit(r)
    \/ \E m \in InFlightTo(net, r) :
          \/ HandleRequest(r, m)
          \/ HandlePrepare(r, m)
          \/ HandleCommit(r, m)

Next ==
    \/ \E c \in Clients : ClientStep(c)
    \/ \E r \in Live : ReplicaStep(r)

Spec == Init /\ [][Next]_vars
-----------------------------------------------------------------------------
(* Types *)

Prepares == [kind : {"Prepare"}, digest : Digests]
Commits == [kind : {"Commit"}, digest : Digests, replica : Live]
OwnMessages == Prepares \cup Commits

\* The type invariant.
TypeOK ==
    /\ NetTypeOK(RequestMsgs \cup OwnMessages, OwnMessages)
    /\ ClientTypeOK
    /\ ExecutionTypeOK
    /\ requests \in [Replicas -> Seq(RequestRecords)]
    /\ prepares \in [Replicas -> SUBSET Digests]
    /\ commit_certificates \in [Replicas -> SUBSET (Digests \X Live)]
    /\ paced \in BOOLEAN
-----------------------------------------------------------------------------
(* Safety, besides what Execution states *)

\* f + 1 replicas hold every block that some replica has executed, so one of
\* them survives f failures.
ExecutedIsHeld ==
    \A r \in Replicas : \A k \in 1..Len(app[r]) :
        Cardinality({i \in Replicas : SubSeq(app[r], 1, k) \in prepares[i]})
            >= NumFaulty + 1

\* The clients cannot tell the replicas from a single log.
Service == INSTANCE ReplicatedLog WITH log <- Log

Linearizable == Service!Spec
-----------------------------------------------------------------------------
(* Progress *)

\* What the runtime owes when the network loses nothing: every event reaches
\* its handler, and the loop of a running replica keeps going.
Fairness ==
    /\ \A r \in Live : WF_vars(ReplicaStep(r))
    /\ \A c \in Clients :
          WF_vars(\E m \in InFlightTo(net, c) : HandleReply(c, m))

FairSpec == Spec /\ Fairness

\* Every invocation is answered, although nothing is ever sent twice.
InvokeCompletes == \A c \in Clients : invoke[c] ~> ~invoke[c]
=============================================================================
