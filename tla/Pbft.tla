-------------------------------- MODULE Pbft --------------------------------
(***************************************************************************)
(* PBFT as crates/permissioned-blockchain/src/pbft.rs runs it: clients and *)
(* replicas over the event loop of Multiplex, ordering the blocks of Chain.*)
(*                                                                         *)
(* view_num is assigned only in new() and every message carries it, so the *)
(* guards on the view never return early and the primary is replica 0 for  *)
(* ever; views are left out and the primary is a constant.  Replicas fail  *)
(* by not running (Replicas \ Live), by a failed assertion (panicked), and *)
(* by taking no more steps.  Messages are not forged.                      *)
(***************************************************************************)
EXTENDS Execution

CONSTANTS Primary,  \* the replica primary_index() names
          MaxHeight \* BOUND: blocks the primary proposes

ASSUME PrimaryAssumption == Primary \in Replicas
ASSUME MaxHeightAssumption == MaxHeight \in Nat

VARIABLES requests,             \* Replica: waiting for the next block
          pre_prepares,         \* Replica: digests of the blocks received
          prepare_certificates, \* Replica: pairs <<digest, replica>>
          commit_certificates,  \* Replica: pairs <<digest, replica>>
          paced                 \* no event at the primary since it proposed

quorumVars == <<pre_prepares, prepare_certificates, commit_certificates>>
vars == <<netVars, clientVars, requests, paced, quorumVars, executeVars>>

Quorum == Cardinality(Replicas) - NumFaulty

PrePrepareMsg(d) == [kind |-> "PrePrepare", digest |-> d]
PrepareMsg(d, i) == [kind |-> "Prepare", digest |-> d, replica |-> i]
CommitMsg(d, i) == [kind |-> "Commit", digest |-> d, replica |-> i]

Certificate(certificates, d) == {p[2] : p \in {q \in certificates : q[1] = d}}

Init ==
    /\ Init_Multiplex
    /\ Init_Client
    /\ Init_Execution
    /\ requests = [r \in Replicas |-> <<>>]
    /\ pre_prepares = [r \in Replicas |-> {}]
    /\ prepare_certificates = [r \in Replicas |-> {}]
    /\ commit_certificates = [r \in Replicas |-> {}]
    /\ paced = TRUE
-----------------------------------------------------------------------------
(* Clients *)

Invoke(c) ==
    /\ ClientInvoke(c, {Primary})
    /\ UNCHANGED <<requests, paced, quorumVars, executeVars>>

HandleReply(c, m) ==
    /\ ClientHandle(c, m)
    /\ UNCHANGED <<requests, paced, quorumVars, executeVars>>
-----------------------------------------------------------------------------
(* Replicas *)

\* The loopback message that r handles next.
Own(r) == Head(loopback[r]).msg

\* Any event at the primary lets the loop call on_pace again.
Event(r) == paced' = (paced /\ r /= Primary)

HandleRequest(r, m) ==
    /\ Running(r) /\ Arrived(r, m)
    /\ m.kind = "Request"
    /\ requests' = IF r = Primary
                     THEN [requests EXCEPT ![r] =
                              Append(@, Request(m.client, m.num))]
                     ELSE requests
    /\ HandleDatagram(r, m, {}, <<>>)
    /\ Event(r)
    /\ UNCHANGED <<clientVars, quorumVars, executeVars>>

OnPace(r) ==
    /\ Running(r)
    /\ r = Primary /\ ~paced /\ requests[r] /= <<>>
    /\ Len(chain[r].digest_parent) < MaxHeight
    /\ LET next == Propose(chain[r], requests[r])
           m    == PrePrepareMsg(next.digest_parent)
       IN  /\ chain' = [chain EXCEPT ![r] = next]
           /\ Pace(r, SendTo(Peers(r), m), <<m>>)
    /\ requests' = [requests EXCEPT ![r] = Drained(@)]
    /\ paced' = TRUE
    /\ UNCHANGED <<clientVars, quorumVars, app, panicked>>

HandlePrePrepare(r, m) ==
    /\ Running(r) /\ Arrived(r, m)
    /\ m.kind = "PrePrepare"
    /\ pre_prepares' = [pre_prepares EXCEPT ![r] = @ \cup {m.digest}]
    /\ LET p == PrepareMsg(m.digest, r)
       IN  HandleDatagram(r, m, SendTo(Peers(r), p), <<p>>)
    /\ Event(r)
    /\ UNCHANGED <<clientVars, requests, prepare_certificates,
                   commit_certificates, executeVars>>

LoopbackPrePrepare(r) ==
    /\ Running(r) /\ loopback[r] /= <<>>
    /\ Own(r).kind = "PrePrepare"
    /\ pre_prepares' = [pre_prepares EXCEPT ![r] = @ \cup {Own(r).digest}]
    /\ HandleLoopback(r, {}, <<>>)
    /\ Event(r)
    /\ UNCHANGED <<clientVars, requests, prepare_certificates,
                   commit_certificates, executeVars>>

\* Mutant of PrepareComplete: waits for a Prepare of the primary's as well.
PrepareComplete_AndPrimary(certificates, d) ==
    Cardinality(Certificate(certificates, d)) = Quorum

\* insert_prepare: the certificate is complete with n - f - 1 Prepares, and
\* then takes no more; the replica's own Prepare still gets past the early
\* return ("corner case handling").
PrepareComplete(certificates, d) ==
    Cardinality(Certificate(certificates, d)) + 1 = Quorum

PreparesWith(r, m) ==
    IF PrepareComplete(prepare_certificates[r], m.digest)
      THEN prepare_certificates[r]
      ELSE prepare_certificates[r] \cup {<<m.digest, m.replica>>}

SendsCommit(r, m) ==
    /\ PrepareComplete(prepare_certificates[r], m.digest) => m.replica = r
    /\ m.digest \in pre_prepares[r]
    /\ PrepareComplete(PreparesWith(r, m), m.digest)

CommitOut(r, m) ==
    IF SendsCommit(r, m) THEN SendTo(Peers(r), CommitMsg(m.digest, r)) ELSE {}
CommitOwn(r, m) ==
    IF SendsCommit(r, m) THEN <<CommitMsg(m.digest, r)>> ELSE <<>>

InsertPrepare(r, m) ==
    /\ prepare_certificates' =
          [prepare_certificates EXCEPT ![r] = PreparesWith(r, m)]
    /\ Event(r)
    /\ UNCHANGED <<clientVars, requests, pre_prepares, commit_certificates,
                   executeVars>>

HandlePrepare(r, m) ==
    /\ Running(r) /\ Arrived(r, m)
    /\ m.kind = "Prepare"
    /\ InsertPrepare(r, m)
    /\ HandleDatagram(r, m, CommitOut(r, m), CommitOwn(r, m))

LoopbackPrepare(r) ==
    /\ Running(r) /\ loopback[r] /= <<>>
    /\ Own(r).kind = "Prepare"
    /\ InsertPrepare(r, Own(r))
    /\ HandleLoopback(r, CommitOut(r, Own(r)), CommitOwn(r, Own(r)))

\* Mutant of CommitComplete: one Commit too few.
CommitComplete_OneShort(certificates, d) ==
    Cardinality(Certificate(certificates, d)) = Quorum - 1

\* insert_commit: the certificate takes n - f Commits and no more.
CommitComplete(certificates, d) ==
    Cardinality(Certificate(certificates, d)) = Quorum

CommitsWith(r, m) ==
    IF CommitComplete(commit_certificates[r], m.digest)
      THEN commit_certificates[r]
      ELSE commit_certificates[r] \cup {<<m.digest, m.replica>>}

Executes(r, m) ==
    /\ ~CommitComplete(commit_certificates[r], m.digest)
    /\ CommitComplete(CommitsWith(r, m), m.digest)

InsertCommit(r, m) ==
    /\ commit_certificates' =
          [commit_certificates EXCEPT ![r] = CommitsWith(r, m)]
    /\ IF Executes(r, m)
         THEN DoExecute(r, m.digest, pre_prepares[r])
         ELSE UNCHANGED executeVars
    /\ Event(r)
    /\ UNCHANGED <<clientVars, requests, pre_prepares, prepare_certificates>>

CommitReplies(r, m) ==
    IF Executes(r, m) THEN ReplyOut(r, m.digest, pre_prepares[r]) ELSE {}

HandleCommit(r, m) ==
    /\ Running(r) /\ Arrived(r, m)
    /\ m.kind = "Commit"
    /\ InsertCommit(r, m)
    /\ HandleDatagram(r, m, CommitReplies(r, m), <<>>)

LoopbackCommit(r) ==
    /\ Running(r) /\ loopback[r] /= <<>>
    /\ Own(r).kind = "Commit"
    /\ InsertCommit(r, Own(r))
    /\ HandleLoopback(r, CommitReplies(r, Own(r)), <<>>)
-----------------------------------------------------------------------------
ClientStep(c) ==
    \/ Invoke(c)
    \/ \E m \in InFlightTo(net, c) : HandleReply(c, m)

ReplicaStep(r) ==
    \/ OnPace(r)
    \/ LoopbackPrePrepare(r)
    \/ LoopbackPrepare(r)
    \/ LoopbackCommit(r)
    \/ \E m \in InFlightTo(net, r) :
          \/ HandleRequest(r, m)
          \/ HandlePrePrepare(r, m)
          \/ HandlePrepare(r, m)
          \/ HandleCommit(r, m)

Next ==
    \/ \E c \in Clients : ClientStep(c)
    \/ \E r \in Live : ReplicaStep(r)

Spec == Init /\ [][Next]_vars
-----------------------------------------------------------------------------
(* Types *)

Prepares == [kind : {"Prepare"}, digest : Digests, replica : Live]
Commits == [kind : {"Commit"}, digest : Digests, replica : Live]
PrePrepares == [kind : {"PrePrepare"}, digest : Digests]
OwnMessages == PrePrepares \cup Prepares \cup Commits

\* The type invariant.
TypeOK ==
    /\ NetTypeOK(RequestMsgs \cup OwnMessages, OwnMessages)
    /\ ClientTypeOK
    /\ ExecutionTypeOK
    /\ requests \in [Replicas -> Seq(RequestRecords)]
    /\ pre_prepares \in [Replicas -> SUBSET Digests]
    /\ prepare_certificates \in [Replicas -> SUBSET (Digests \X Live)]
    /\ commit_certificates \in [Replicas -> SUBSET (Digests \X Live)]
    /\ paced \in BOOLEAN
-----------------------------------------------------------------------------
(* Safety, besides what Execution states *)

\* Everything a replica has executed is safe with n - f replicas: each holds
\* the block and a complete prepare certificate for it.
ExecutedIsCertified ==
    \A r \in Replicas : \A k \in 1..Len(app[r]) :
        LET d == SubSeq(app[r], 1, k) IN
        Cardinality({i \in Replicas :
                        /\ d \in pre_prepares[i]
                        /\ Cardinality(Certificate(prepare_certificates[i], d))
                             >= Quorum - 1})
            >= Quorum

\* The clients cannot tell the replicas from a single log.
Service == INSTANCE ReplicatedLog WITH log <- Log

Linearizable == Service!Spec
-----------------------------------------------------------------------------
(* Progress *)

\* What the runtime owes when the network loses nothing: every event reaches
\* its handler, and the loop of a running replica keeps going.
Fairness ==
    /\ \A r \in Live : WF_vars(ReplicaStep(r))
    /\ \A c \in Clients :
          WF_vars(\E m \in InFlightTo(net, c) : HandleReply(c, m))

FairSpec == Spec /\ Fairness

\* Every invocation is answered, although nothing is ever sent twice.
InvokeCompletes == \A c \in Clients : invoke[c] ~> ~invoke[c]
=============================================================================
