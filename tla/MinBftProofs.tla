---------------------------- MODULE MinBftProofs ----------------------------
(***************************************************************************)
(* Theorems of MinBft: its types, that its replicas agree, that f + 1 of   *)
(* them hold what any has executed, that clients consume what was          *)
(* executed, and, when no datagram arrives twice, that MinBft implements   *)
(* ReplicatedLog; and, when no more than f + 1 replicas run besides, that  *)
(* they execute in order and do not panic.                                 *)
(*                                                                         *)
(* The argument.  As in PbftProofs every digest that is sent is one of the *)
(* primary's one chain (Tip), and what a replica executes or keeps waiting *)
(* has its commit certificate.  A complete certificate does not keep       *)
(* insert_commit from executing here: the replica's own Commit passes.  So *)
(* that a block is executed once rests on two more facts, which a          *)
(* duplicated Prepare or another running replica breaks: a replica takes   *)
(* up a block once (Once), and the f + 1 Commits of a certificate cannot   *)
(* be there without its own, as only f + 1 replicas run.  That the clients *)
(* see one log needs neither order nor f + 1, only that a request is at one *)
(* place of the network and the primary (OncePlaced).                      *)
(***************************************************************************)
EXTENDS MinBft, ExecutionProofs, FiniteSetTheorems

Tip == chain[Primary].digest_parent

\* d is a block the primary proposed.
OnChain(d) == d \in Digests /\ Len(d) > 0 /\ IsAncestor(d, Tip)

\* Replica i holds the block.
Backed(d, i) == d \in prepares[i]

Sound(m) ==
    /\ m.kind \in {"Prepare", "Commit"} => OnChain(m.digest)
    /\ m.kind = "Commit" => Backed(m.digest, m.replica)

MessagesSound == \A m \in Messages : Sound(m)

CommitsBacked ==
    \A r \in Replicas : \A p \in commit_certificates[r] : Backed(p[1], p[2])

\* What the replicas hold lies on the chain.
Proposed == \A r \in Replicas : \A d \in prepares[r] : OnChain(d)

OneChain == \A r \in Replicas : OnOneChain(chain[r], app[r], Tip)

\* What waits at a replica or was executed by it has its commit certificate.
Settled ==
    \A r \in Replicas :
        /\ \A d \in chain[r].pending : CommitComplete(commit_certificates[r], d)
        /\ \A k \in 1..Len(app[r]) :
              CommitComplete(commit_certificates[r], SubSeq(app[r], 1, k))

\* The inductive invariant, whatever the network does.
IInv ==
    /\ TypeOK
    /\ MessagesSound
    /\ CommitsBacked
    /\ Proposed
    /\ OneChain
    /\ Settled

Msgs == RequestMsgs \cup OwnMessages
-----------------------------------------------------------------------------
\* A certificate holds some of the running replicas.
LEMMA CertificateType ==
  ASSUME NEW C \in SUBSET (Digests \X Live), NEW d
  PROVE  /\ Certificate(C, d) \subseteq Live
         /\ IsFiniteSet(Live) /\ Cardinality(Live) \in Nat
         /\ IsFiniteSet(Certificate(C, d))
         /\ Cardinality(Certificate(C, d)) \in Nat
<1>1. Certificate(C, d) \subseteq Live BY DEF Certificate
<1>2. IsFiniteSet(Live)
  BY LiveAssumption, ReplicasAssumption, FS_Subset
<1>3. QED BY <1>1, <1>2, FS_Subset, FS_CardinalityType

\* A Commit leaves the certificates that were complete as they were.
LEMMA CommitsKeep ==
  ASSUME NEW r \in Replicas, NEW m, NEW d,
         CommitComplete(commit_certificates[r], d)
  PROVE  CommitComplete(CommitsWith(r, m), d)
<1>1. CASE CommitComplete(commit_certificates[r], m.digest)
  BY <1>1 DEF CommitsWith
<1>2. CASE ~CommitComplete(commit_certificates[r], m.digest)
  <2>1. d /= m.digest BY <1>2
  <2>2. CommitsWith(r, m) = commit_certificates[r] \cup {<<m.digest, m.replica>>}
    BY <1>2 DEF CommitsWith
  <2>3. Certificate(CommitsWith(r, m), d) = Certificate(commit_certificates[r], d)
    BY <2>1, <2>2 DEF Certificate
  <2>4. QED BY <2>3 DEF CommitComplete
<1>3. QED BY <1>1, <1>2

\* HandlerStep and SentType for the messages of minbft.rs.
LEMMA ReplicaSends ==
  ASSUME TypeOK, NEW r \in Live, NEW m,
         NEW out \in SUBSET Datagrams(Msgs), NEW own \in Seq(OwnMessages),
         \/ HandleDatagram(r, m, out, own)
         \/ loopback[r] /= <<>> /\ HandleLoopback(r, out, own)
         \/ Pace(r, out, own)
  PROVE  /\ NetTypeOK(Msgs, OwnMessages)'
         /\ Messages' \subseteq Messages \cup Sent(out, own)
<1>1. NetTypeOK(Msgs, OwnMessages) BY DEF TypeOK, Msgs
<1>2. QED BY <1>1, HandlerStep

\* A message of the replicas, sent to the others and looped back.
LEMMA OwnSentType ==
  ASSUME NEW r \in Live, NEW m \in OwnMessages
  PROVE  /\ SendTo(Peers(r), m) \in SUBSET Datagrams(Msgs)
         /\ <<m>> \in Seq(OwnMessages)
         /\ Sent(SendTo(Peers(r), m), <<m>>) = {m}
<1>1. OwnMessages \in SUBSET Msgs BY DEF Msgs
<1>2. QED BY <1>1, SentType

\* The types of what is on its way, received, and taken from the own channel.
LEMMA MessagesType ==
  ASSUME TypeOK
  PROVE  /\ Messages \subseteq Msgs \cup ReplyMsgs
         /\ \A r \in Replicas : \A m : Arrived(r, m) => m \in Msgs /\ m \in Messages
         /\ \A r \in Replicas : loopback[r] /= <<>> =>
               Own(r) \in OwnMessages /\ Own(r) \in Messages
<1>1. OwnMessages \in SUBSET Msgs /\ NetTypeOK(Msgs, OwnMessages)
  BY DEF TypeOK, Msgs
<1>2. QED BY <1>1, MessagesOfNet DEF Own

\* The kind of a message tells its type.
LEMMA KindsOfOwn ==
  ASSUME NEW m \in Msgs
  PROVE  /\ m.kind = "Prepare" => m \in Prepares
         /\ m.kind = "Commit" => m \in Commits
         /\ m.kind = "Request" => m \in RequestMsgs
BY DEF Msgs, OwnMessages, RequestMsgs, Prepares, Commits
-----------------------------------------------------------------------------
\* A step that executes nothing: it keeps the invariant when it keeps the
\* types, sends only sound messages, and nothing it changes shrinks.
LEMMA QuietStep ==
  ASSUME IInv, TypeOK', NEW new, Messages' \subseteq Messages \cup new,
         \A m \in new : Sound(m)',
         \A d \in Digests : IsAncestor(d, Tip) => IsAncestor(d, Tip'),
         \A i \in Replicas :
            /\ prepares[i] \subseteq prepares'[i]
            /\ \A d \in prepares'[i] : d \in prepares[i] \/ OnChain(d)'
            /\ chain'[i].digest_execute = chain[i].digest_execute
            /\ chain'[i].pending = chain[i].pending,
         commit_certificates' = commit_certificates, app' = app
  PROVE  IInv'
<1>1. \A d : OnChain(d) => OnChain(d)' BY DEF OnChain
<1>2. \A i \in Replicas : \A d : Backed(d, i) => Backed(d, i)'
  BY DEF Backed
<1>3. MessagesSound'
  <2>1. SUFFICES ASSUME NEW m \in Messages PROVE Sound(m)'
    BY DEF MessagesSound
  <2>2. Sound(m) /\ TypeOK BY DEF IInv, MessagesSound
  <2>3. m.kind = "Commit" => m.replica \in Replicas
    <3>1. CASE m \in Msgs
      BY <3>1, KindsOfOwn, LiveAssumption DEF Commits
    <3>2. CASE m \in ReplyMsgs BY <3>2 DEF ReplyMsgs
    <3>3. QED BY <2>2, <3>1, <3>2, MessagesType
  <2>4. m.kind = "Commit" => Backed(m.digest, m.replica)'
    BY <1>2, <2>2, <2>3 DEF Sound
  <2>5. QED BY <1>1, <2>2, <2>4 DEF Sound
<1>4. CommitsBacked'
  <2>1. SUFFICES ASSUME NEW r \in Replicas, NEW p \in commit_certificates[r]
                 PROVE  Backed(p[1], p[2])'
    BY DEF CommitsBacked
  <2>2. p[2] \in Replicas BY LiveAssumption DEF IInv, TypeOK
  <2>3. Backed(p[1], p[2]) BY DEF IInv, CommitsBacked
  <2>4. QED BY <1>2, <2>2, <2>3
<1>5. Proposed' BY <1>1 DEF IInv, Proposed
<1>6. OneChain'
  <2>1. SUFFICES ASSUME NEW r \in Replicas
                 PROVE  OnOneChain(chain'[r], app'[r], Tip')
    BY DEF OneChain
  <2>2. OnOneChain(chain[r], app[r], Tip) BY DEF IInv, OneChain
  <2>3. chain[r] \in Chains BY DEF IInv, TypeOK, ExecutionTypeOK
  <2>4. QED BY <2>2, <2>3 DEF OnOneChain, Chains
<1>7. Settled' BY DEF IInv, Settled, CommitComplete
<1>8. QED BY <1>3, <1>4, <1>5, <1>6, <1>7 DEF IInv

\* A step that neither orders nor executes, and sends at most a request.
LEMMA UnorderedStep ==
  ASSUME IInv, TypeOK', NEW new, Messages' \subseteq Messages \cup new,
         \A m \in new : m.kind = "Request",
         UNCHANGED <<quorumVars, executeVars>>
  PROVE  IInv'
<1>1. UNCHANGED <<prepares, commit_certificates, chain, app>>
  BY DEF quorumVars, executeVars
<1>2. Tip' = Tip BY <1>1 DEF Tip
<1>3. \A m \in new : Sound(m)' BY DEF Sound
<1>4. \A i \in Replicas :
         /\ prepares[i] \subseteq prepares'[i]
         /\ \A d \in prepares'[i] : d \in prepares[i] \/ OnChain(d)'
         /\ chain'[i].digest_execute = chain[i].digest_execute
         /\ chain'[i].pending = chain[i].pending
  BY <1>1
<1>5. \A d \in Digests : IsAncestor(d, Tip) => IsAncestor(d, Tip')
  BY <1>2
<1>6. QED BY <1>1, <1>3, <1>4, <1>5, QuietStep

\* Each action keeps the invariant.  Those of the clients:
LEMMA InvokeKeeps ==
  ASSUME IInv, NEW c \in Clients, Invoke(c)
  PROVE  IInv'
<1>1. PICK m : m = RequestMsg(c, request_num[c] + 1) OBVIOUS
<1>2. TypeOK /\ ClientInvoke(c, Live) BY DEF IInv, Invoke
<1>3. ClientTypeOK /\ NetTypeOK(Msgs, OwnMessages) BY <1>2 DEF TypeOK, Msgs
<1>4. NetTypeOK(Msgs, OwnMessages)' /\ ClientTypeOK'
  BY <1>2, <1>3, LiveAssumption, ClientInvokeType DEF Msgs
<1>5. UNCHANGED <<requests, paced, quorumVars, executeVars>>
  BY DEF Invoke
<1>6. TypeOK'
  BY <1>2, <1>4, <1>5 DEF TypeOK, Msgs, quorumVars, executeVars, ExecutionTypeOK
<1>7. PICK new : new = {m} OBVIOUS
<1>8. Messages' \subseteq Messages \cup new
  BY <1>1, <1>2, <1>7 DEF ClientInvoke, ClientSends, Messages, SendTo, Datagram
<1>9. \A x \in new : x.kind = "Request" BY <1>1, <1>7 DEF RequestMsg
<1>10. UNCHANGED <<quorumVars, executeVars>> BY <1>5
<1>11. QED BY <1>6, <1>8, <1>9, <1>10, UnorderedStep

\* Client::handle keeps the invariant.
LEMMA HandleReplyKeeps ==
  ASSUME IInv, NEW c \in Clients, NEW m, HandleReply(c, m)
  PROVE  IInv'
<1>1. TypeOK /\ ClientHandle(c, m) BY DEF IInv, HandleReply
<1>2. ClientTypeOK /\ NetTypeOK(Msgs, OwnMessages) BY <1>1 DEF TypeOK, Msgs
<1>3. NetTypeOK(Msgs, OwnMessages)' /\ ClientTypeOK'
  BY <1>1, <1>2, ClientHandleType
<1>4. UNCHANGED <<requests, paced, quorumVars, executeVars>>
  BY DEF HandleReply
<1>5. TypeOK'
  BY <1>1, <1>3, <1>4 DEF TypeOK, Msgs, quorumVars, executeVars, ExecutionTypeOK
<1>6. PICK new : new = {} OBVIOUS
<1>7. Messages' \subseteq Messages \cup new
  BY <1>1 DEF ClientHandle, ClientReceives, Flight, Messages
<1>8. UNCHANGED <<quorumVars, executeVars>> BY <1>4
<1>9. QED BY <1>5, <1>6, <1>7, <1>8, UnorderedStep

\* Those of the replicas that order blocks:
LEMMA HandleRequestKeeps ==
  ASSUME IInv, NEW r \in Live, NEW m, HandleRequest(r, m)
  PROVE  IInv'
<1>1. /\ TypeOK /\ r \in Replicas /\ m.kind = "Request" /\ Arrived(r, m)
      /\ HandleDatagram(r, m, {}, <<>>)
      /\ UNCHANGED <<clientVars, quorumVars, executeVars>>
  BY LiveAssumption DEF IInv, HandleRequest
<1>2. m \in RequestMsgs BY <1>1, MessagesType, KindsOfOwn
<1>3. /\ <<>> \in Seq(OwnMessages) /\ {} \in SUBSET Datagrams(Msgs)
      /\ Sent({}, <<>>) = {}
  BY EmptySeq DEF Sent
<1>4. /\ NetTypeOK(Msgs, OwnMessages)'
      /\ Messages' \subseteq Messages
  BY <1>1, <1>3, ReplicaSends
<1>5. requests' \in [Replicas -> Seq(RequestRecords)]
  <2>1. requests \in [Replicas -> Seq(RequestRecords)] BY <1>1 DEF TypeOK
  <2>2. Request(m.client, m.num) \in RequestRecords
    BY <1>2 DEF RequestMsgs, RequestRecords, Request
  <2>3. Append(requests[r], Request(m.client, m.num)) \in Seq(RequestRecords)
    BY <1>1, <2>1, <2>2, AppendProperties
  <2>4. QED BY <2>1, <2>3 DEF HandleRequest
<1>6. paced' \in BOOLEAN BY <1>1 DEF HandleRequest, Event
<1>7. TypeOK'
  BY <1>1, <1>4, <1>5, <1>6
  DEF TypeOK, Msgs, clientVars, quorumVars, executeVars, ClientTypeOK,
      ExecutionTypeOK
<1>8. PICK new : new = {} OBVIOUS
<1>9. Messages' \subseteq Messages \cup new BY <1>4
<1>10. QED BY <1>1, <1>7, <1>8, <1>9, UnorderedStep

\* The primary's proposal keeps the invariant: it extends the one chain.
LEMMA OnPaceKeeps ==
  ASSUME IInv, NEW r \in Live, OnPace(r)
  PROVE  IInv'
<1>1. PICK next : next = Propose(chain[r], requests[r]) OBVIOUS
<1>2. PICK d : d = next.digest_parent OBVIOUS
<1>3. PICK m : m = PrepareMsg(d) OBVIOUS
<1>4. /\ TypeOK /\ r \in Replicas /\ r = Primary /\ requests[r] /= <<>>
      /\ chain' = [chain EXCEPT ![r] = next]
      /\ Pace(r, SendTo(Peers(r), m), <<m>>)
      /\ requests' = [requests EXCEPT ![r] = Drained(@)]
      /\ paced' = TRUE
      /\ UNCHANGED <<clientVars, quorumVars, app, panicked>>
  BY <1>1, <1>2, <1>3, LiveAssumption DEF IInv, OnPace
<1>5. /\ requests \in [Replicas -> Seq(RequestRecords)]
      /\ requests[r] \in Seq(RequestRecords)
      /\ chain[r] \in Chains /\ Tip = chain[r].digest_parent
      /\ chain \in [Replicas -> Chains]
  BY <1>4 DEF TypeOK, ExecutionTypeOK, Tip
<1>6. /\ next \in Chains /\ d \in Digests /\ Len(d) > 0 /\ IsAncestor(d, d)
      /\ next.digest_execute = chain[r].digest_execute
      /\ next.pending = chain[r].pending
      /\ \A e \in Digests : IsAncestor(e, Tip) => IsAncestor(e, d)
      /\ Drained(requests[r]) \in Seq(RequestRecords)
  BY <1>1, <1>2, <1>4, <1>5, ProposeProperties
<1>7. Tip' = d BY <1>2, <1>4, <1>5 DEF Tip
<1>8. m \in OwnMessages /\ m.kind = "Prepare" /\ m.digest = d
  BY <1>3, <1>6 DEF PrepareMsg, OwnMessages, Prepares
<1>9. Sound(m)' BY <1>6, <1>7, <1>8 DEF Sound, OnChain
<1>10. /\ NetTypeOK(Msgs, OwnMessages)'
       /\ Messages' \subseteq Messages \cup {m}
  BY <1>4, <1>8, OwnSentType, ReplicaSends
<1>11. requests' \in [Replicas -> Seq(RequestRecords)]
  BY <1>4, <1>5, <1>6
<1>12. chain' \in [Replicas -> Chains] BY <1>4, <1>5, <1>6
<1>13. TypeOK'
  BY <1>4, <1>10, <1>11, <1>12
  DEF TypeOK, Msgs, clientVars, quorumVars, ClientTypeOK, ExecutionTypeOK
<1>14. prepares' = prepares /\ commit_certificates' = commit_certificates
       /\ app' = app
  BY <1>4 DEF quorumVars
<1>15. \A i \in Replicas :
         /\ prepares[i] \subseteq prepares'[i]
         /\ \A e \in prepares'[i] : e \in prepares[i] \/ OnChain(e)'
         /\ chain'[i].digest_execute = chain[i].digest_execute
         /\ chain'[i].pending = chain[i].pending
  BY <1>4, <1>5, <1>6, <1>14
<1>16. PICK new : new = {m} OBVIOUS
<1>17. (\A x \in new : Sound(x)') /\ Messages' \subseteq Messages \cup new
  BY <1>9, <1>10, <1>16
<1>18. \A e \in Digests : IsAncestor(e, Tip) => IsAncestor(e, Tip')
  BY <1>6, <1>7
<1>19. QED BY <1>13, <1>14, <1>15, <1>17, <1>18, QuietStep

\* Taking up a block, whether received or looped back, keeps the invariant.
LEMMA AcceptKeeps ==
  ASSUME IInv, NEW r \in Live, NEW m \in Prepares, m \in Messages,
         AcceptPrepare(r, m), NetTypeOK(Msgs, OwnMessages)',
         Messages' \subseteq Messages \cup {CommitMsg(m.digest, r)}
  PROVE  IInv'
<1>1. TypeOK /\ r \in Replicas BY LiveAssumption DEF IInv
<1>2. m.digest \in Digests /\ m.kind = "Prepare" BY DEF Prepares
<1>3. OnChain(m.digest) BY <1>2 DEF IInv, MessagesSound, Sound
<1>4. /\ UNCHANGED <<clientVars, requests, commit_certificates, executeVars>>
      /\ prepares' = [prepares EXCEPT ![r] = @ \cup {m.digest}]
      /\ paced' \in BOOLEAN
  BY <1>1 DEF AcceptPrepare, Event, TypeOK
<1>5. Tip' = Tip BY <1>4 DEF executeVars, Tip
<1>6. OnChain(m.digest)' BY <1>3, <1>5 DEF OnChain
<1>7. /\ prepares' \in [Replicas -> SUBSET Digests]
      /\ prepares'[r] = prepares[r] \cup {m.digest}
      /\ \A i \in Replicas : i /= r => prepares'[i] = prepares[i]
  BY <1>1, <1>2, <1>4 DEF TypeOK
<1>8. Sound(CommitMsg(m.digest, r))'
  BY <1>6, <1>7 DEF Sound, CommitMsg, Backed
<1>9. TypeOK'
  BY <1>1, <1>4, <1>7
  DEF TypeOK, Msgs, clientVars, executeVars, ClientTypeOK, ExecutionTypeOK
<1>10. commit_certificates' = commit_certificates /\ app' = app /\ chain' = chain
  BY <1>4 DEF executeVars
<1>11. \A i \in Replicas :
         /\ prepares[i] \subseteq prepares'[i]
         /\ \A e \in prepares'[i] : e \in prepares[i] \/ OnChain(e)'
         /\ chain'[i].digest_execute = chain[i].digest_execute
         /\ chain'[i].pending = chain[i].pending
  BY <1>6, <1>7, <1>10
<1>12. PICK new : new = {CommitMsg(m.digest, r)} OBVIOUS
<1>13. (\A x \in new : Sound(x)') /\ Messages' \subseteq Messages \cup new
  BY <1>8, <1>12
<1>14. \A e \in Digests : IsAncestor(e, Tip) => IsAncestor(e, Tip')
  BY <1>5
<1>15. QED BY <1>9, <1>10, <1>11, <1>13, <1>14, QuietStep

\* The Commit a replica answers a Prepare with.
LEMMA CommitSent ==
  ASSUME NEW r \in Live, NEW m \in Prepares
  PROVE  /\ CommitOut(r, m) \in SUBSET Datagrams(Msgs)
         /\ CommitOwn(r, m) \in Seq(OwnMessages)
         /\ Sent(CommitOut(r, m), CommitOwn(r, m)) = {CommitMsg(m.digest, r)}
<1>1. CommitMsg(m.digest, r) \in OwnMessages
  BY DEF CommitMsg, OwnMessages, Prepares, Commits
<1>2. QED BY <1>1, OwnSentType DEF CommitOut, CommitOwn

\* Replica::handle_prepare keeps the invariant.
LEMMA HandlePrepareKeeps ==
  ASSUME IInv, NEW r \in Live, NEW m, HandlePrepare(r, m)
  PROVE  IInv'
<1>1. TypeOK /\ r \in Replicas BY LiveAssumption DEF IInv
<1>2. m \in Prepares /\ m \in Messages
  BY <1>1, MessagesType, KindsOfOwn DEF HandlePrepare
<1>3. /\ NetTypeOK(Msgs, OwnMessages)'
      /\ Messages' \subseteq Messages \cup {CommitMsg(m.digest, r)}
  BY <1>1, <1>2, CommitSent, ReplicaSends DEF HandlePrepare
<1>4. QED BY <1>2, <1>3, AcceptKeeps DEF HandlePrepare

\* The primary's own Prepare keeps the invariant.
LEMMA LoopbackPrepareKeeps ==
  ASSUME IInv, NEW r \in Live, LoopbackPrepare(r)
  PROVE  IInv'
<1>1. TypeOK /\ r \in Replicas BY LiveAssumption DEF IInv
<1>2. PICK m : m = Own(r) OBVIOUS
<1>3. m \in Prepares /\ m \in Messages
  BY <1>1, <1>2, MessagesType, KindsOfOwn DEF LoopbackPrepare, Msgs
<1>4. /\ NetTypeOK(Msgs, OwnMessages)'
      /\ Messages' \subseteq Messages \cup {CommitMsg(m.digest, r)}
  BY <1>1, <1>2, <1>3, CommitSent, ReplicaSends DEF LoopbackPrepare
<1>5. QED BY <1>2, <1>3, <1>4, AcceptKeeps DEF LoopbackPrepare
-----------------------------------------------------------------------------
\* What InsertCommit does to a replica, whether or not the block is new to it.
LEMMA InsertCommitStep ==
  ASSUME IInv, NEW r \in Live, NEW m \in Commits, m \in Messages,
         InsertCommit(r, m)
  PROVE  /\ ExecutionTypeOK' /\ Tip' = Tip /\ OneChain' /\ Settled'
         /\ \A s \in Replicas : IsAncestor(app[s], app'[s])
<1>1. /\ TypeOK /\ r \in Replicas /\ m.digest \in Digests /\ m.replica \in Live
      /\ m.kind = "Commit"
  BY LiveAssumption DEF IInv, Commits
<1>2. PICK t : t = Tip OBVIOUS
<1>3. PICK d : d = m.digest OBVIOUS
<1>4. OnChain(d) BY <1>1, <1>3 DEF IInv, MessagesSound, Sound
<1>5. ExecutionTypeOK /\ t \in Digests /\ t = Tip
  BY <1>1, <1>2, PrimaryAssumption DEF TypeOK, ExecutionTypeOK, Tip, Chains
<1>6. commit_certificates' = [commit_certificates EXCEPT ![r] = CommitsWith(r, m)]
  BY DEF InsertCommit
<1>7. commit_certificates \in [Replicas -> SUBSET (Digests \X Live)]
  BY <1>1 DEF TypeOK
<1>8. /\ commit_certificates'[r] = CommitsWith(r, m)
      /\ \A s \in Replicas : s /= r => commit_certificates'[s] = commit_certificates[s]
  BY <1>1, <1>6, <1>7
<1>9. ASSUME NEW s \in Replicas, NEW e,
             CommitComplete(commit_certificates[s], e)
      PROVE  CommitComplete(commit_certificates'[s], e)
  BY <1>8, <1>9, CommitsKeep
<1>10. \A s \in Replicas : OnOneChain(chain[s], app[s], t)
  BY <1>5 DEF IInv, OneChain
<1>11. \A s \in Replicas : IsAncestor(app[s], app[s])
  BY <1>5, AncestorReflexive DEF ExecutionTypeOK, Digests
<1>12. CASE ~Executes(r, m)
  <2>1. chain' = chain /\ app' = app /\ panicked' = panicked
    BY <1>12 DEF InsertCommit, executeVars
  <2>2. ExecutionTypeOK' BY <1>5, <2>1 DEF ExecutionTypeOK
  <2>3. Tip' = Tip BY <2>1 DEF Tip
  <2>4. OneChain' BY <1>10, <1>5, <2>1, <2>3 DEF OneChain
  <2>5. Settled'
    <3>1. ASSUME NEW s \in Replicas, NEW e \in chain'[s].pending
          PROVE  CommitComplete(commit_certificates'[s], e)
      BY <1>9, <2>1, <3>1 DEF IInv, Settled
    <3>2. ASSUME NEW s \in Replicas, NEW k \in 1..Len(app'[s])
          PROVE  CommitComplete(commit_certificates'[s], SubSeq(app'[s], 1, k))
      BY <1>9, <2>1, <3>2 DEF IInv, Settled
    <3>3. QED BY <3>1, <3>2 DEF Settled, CommitComplete
  <2>6. QED BY <1>11, <2>1, <2>2, <2>3, <2>4, <2>5
<1>13. CASE Executes(r, m)
  <2>1. PICK held : held = prepares[r] OBVIOUS
  <2>2. /\ CommitComplete(CommitsWith(r, m), d)
        /\ DoExecute(r, d, held)
    BY <1>3, <1>13, <2>1 DEF Executes, InsertCommit
  <2>3. d \in Digests /\ Len(d) > 0 /\ IsAncestor(d, t)
    BY <1>4, <1>5 DEF OnChain
  <2>4. OnOneChain(chain[r], app[r], t) BY <1>1, <1>10
  <2>5. /\ ExecutionTypeOK'
        /\ OnOneChain(chain'[r], app'[r], t)
        /\ chain'[r].digest_parent = chain[r].digest_parent
        /\ \A s \in Replicas : s /= r => /\ chain'[s] = chain[s]
                                         /\ app'[s] = app[s]
                                         /\ panicked'[s] = panicked[s]
        /\ chain'[r].pending \subseteq chain[r].pending \cup {d}
        /\ IsAncestor(app[r], app'[r])
        /\ \A k \in 1..Len(app'[r]) :
              \/ k <= Len(app[r]) /\ SubSeq(app'[r], 1, k) = SubSeq(app[r], 1, k)
              \/ SubSeq(app'[r], 1, k) \in chain[r].pending \cup {d}
    BY <1>1, <1>5, <2>2, <2>3, <2>4, DoExecuteAny
  <2>6. Tip' = Tip BY <2>5, PrimaryAssumption DEF Tip
  <2>7. OneChain' BY <1>10, <1>5, <2>5, <2>6 DEF OneChain
  <2>8. CommitComplete(commit_certificates'[r], d) BY <1>8, <2>2
  <2>9. ASSUME NEW s \in Replicas, NEW e \in chain'[s].pending
        PROVE  CommitComplete(commit_certificates'[s], e)
    BY <1>9, <2>5, <2>8, <2>9 DEF IInv, Settled
  <2>10. ASSUME NEW s \in Replicas, NEW k \in 1..Len(app'[s])
         PROVE  CommitComplete(commit_certificates'[s], SubSeq(app'[s], 1, k))
    <3>1. CASE s /= r
      BY <1>9, <2>5, <2>10, <3>1 DEF IInv, Settled
    <3>2. CASE s = r /\ SubSeq(app'[r], 1, k) \in chain[r].pending \cup {d}
      BY <1>9, <2>8, <3>2 DEF IInv, Settled
    <3>3. CASE /\ s = r /\ k <= Len(app[r])
               /\ SubSeq(app'[r], 1, k) = SubSeq(app[r], 1, k)
      <4>1. app[r] \in Digests /\ app'[r] \in Digests
        BY <1>1, <1>5, <2>5 DEF ExecutionTypeOK
      <4>2. Len(app[r]) \in Nat /\ Len(app'[r]) \in Nat
        BY <4>1, LenProperties DEF Digests
      <4>3. k \in 1..Len(app[r]) BY <2>10, <3>3, <4>2
      <4>4. CommitComplete(commit_certificates[r], SubSeq(app[r], 1, k))
        BY <4>3, <1>1 DEF IInv, Settled
      <4>5. QED BY <1>9, <3>3, <4>4
    <3>4. QED BY <3>1, <3>2, <3>3, <2>5, <2>10
  <2>11. Settled' BY <2>9, <2>10 DEF Settled, CommitComplete
  <2>12. QED BY <1>11, <2>5, <2>6, <2>7, <2>11
<1>14. QED BY <1>12, <1>13

\* Only do_execute's replies are sent, and their results are of blocks that
\* the replica has executed after the step.
LEMMA CommitRepliesType ==
  ASSUME IInv, NEW r \in Live, NEW m \in Commits, m \in Messages
  PROVE  /\ CommitReplies(r, m) \in SUBSET [to : Clients, msg : ReplyMsgs]
         /\ InsertCommit(r, m) =>
               \A x \in CommitReplies(r, m) : Answer(x.to, x.msg, app')
<1>1. CASE ~Executes(r, m) BY <1>1 DEF CommitReplies
<1>2. CASE Executes(r, m)
  <2>1. r \in Replicas /\ m.kind = "Commit" /\ ExecutionTypeOK
    BY LiveAssumption DEF IInv, TypeOK, Commits
  <2>2. PICK t : t = Tip OBVIOUS
  <2>3. PICK d : d = m.digest OBVIOUS
  <2>4. PICK held : held = prepares[r] OBVIOUS
  <2>5. t \in Digests /\ app[r] \in Digests
    BY <2>1, <2>2, PrimaryAssumption DEF ExecutionTypeOK, Tip, Chains
  <2>6. d \in Digests /\ Len(d) > 0 /\ IsAncestor(d, t)
    BY <2>1, <2>2, <2>3 DEF IInv, MessagesSound, Sound, OnChain
  <2>7. OnOneChain(chain[r], app[r], t) BY <2>1, <2>2 DEF IInv, OneChain
  <2>8. CommitReplies(r, m) = ReplyOut(r, d, held)
    BY <1>2, <2>3, <2>4 DEF CommitReplies
  <2>9. ReplyOut(r, d, held) \subseteq [to : Clients, msg : ReplyMsgs]
    <3>1. CASE Panic(r, d, held) /= "no" BY <3>1 DEF ReplyOut
    <3>2. CASE Panic(r, d, held) = "no"
      <4>1. Applied(r, d) \in Digests
        BY <2>1, <2>5, <2>6, <2>7, AppliedProperties
      <4>2. Replies(r, d) \subseteq [to : Clients, msg : ReplyMsgs]
        BY <2>5, <2>6, <4>1, RepliesType
      <4>3. QED BY <3>2, <4>2 DEF ReplyOut
    <3>3. QED BY <3>1, <3>2
  <2>10. ASSUME InsertCommit(r, m)
         PROVE  \A x \in ReplyOut(r, d, held) : Answer(x.to, x.msg, app')
    <3>1. DoExecute(r, d, held) BY <1>2, <2>3, <2>4, <2>10 DEF InsertCommit
    <3>2. QED BY <2>1, <2>5, <2>6, <2>7, <3>1, ReplyOutAnswers
  <2>11. QED BY <2>8, <2>9, <2>10
<1>3. QED BY <1>1, <1>2

\* insert_commit keeps the invariant.
LEMMA InsertCommitKeeps ==
  ASSUME IInv, NEW r \in Live, NEW m \in Commits, m \in Messages,
         InsertCommit(r, m), NetTypeOK(Msgs, OwnMessages)',
         NEW new, Messages' \subseteq Messages \cup new,
         \A x \in new : x.kind = "Reply"
  PROVE  IInv'
<1>1. /\ TypeOK /\ r \in Replicas /\ m.digest \in Digests /\ m.replica \in Live
      /\ m.kind = "Commit"
  BY LiveAssumption DEF IInv, Commits
<1>2. ExecutionTypeOK' /\ Tip' = Tip /\ OneChain' /\ Settled'
  BY InsertCommitStep
<1>3. /\ prepares' = prepares
      /\ requests' = requests /\ paced' = (paced /\ r /= Primary)
      /\ UNCHANGED clientVars
      /\ commit_certificates' =
            [commit_certificates EXCEPT ![r] = CommitsWith(r, m)]
  BY DEF InsertCommit, Event
<1>4. commit_certificates \in [Replicas -> SUBSET (Digests \X Live)]
  BY <1>1 DEF TypeOK
<1>5. CommitsWith(r, m) \in SUBSET (Digests \X Live)
      /\ \A p \in CommitsWith(r, m) : \/ p \in commit_certificates[r]
                                      \/ p = <<m.digest, m.replica>>
  BY <1>1, <1>4 DEF CommitsWith
<1>6. commit_certificates' \in [Replicas -> SUBSET (Digests \X Live)]
  BY <1>3, <1>4, <1>5
<1>7. TypeOK'
  BY <1>1, <1>2, <1>3, <1>6 DEF TypeOK, Msgs, clientVars, ClientTypeOK
<1>8. \A d, i : Backed(d, i)' <=> Backed(d, i) BY <1>3 DEF Backed
<1>9. \A d : OnChain(d)' <=> OnChain(d) BY <1>2 DEF OnChain
<1>10. MessagesSound'
  <2>1. \A x \in Messages : Sound(x)' BY <1>8, <1>9 DEF IInv, MessagesSound, Sound
  <2>2. \A x \in new : Sound(x)' BY DEF Sound
  <2>3. QED BY <2>1, <2>2 DEF MessagesSound
<1>11. CommitsBacked'
  <2>1. Backed(m.digest, m.replica) BY <1>1 DEF IInv, MessagesSound, Sound
  <2>2. \A s \in Replicas : \A p \in commit_certificates[s] : Backed(p[1], p[2])
    BY DEF IInv, CommitsBacked
  <2>3. \A p \in CommitsWith(r, m) : Backed(p[1], p[2])
    BY <1>1, <1>5, <2>1, <2>2
  <2>4. \A s \in Replicas : \A p \in commit_certificates'[s] : Backed(p[1], p[2])
    BY <1>1, <1>3, <1>4, <2>2, <2>3
  <2>5. QED BY <2>4, <1>8 DEF CommitsBacked
<1>12. Proposed' BY <1>3, <1>9 DEF IInv, Proposed
<1>13. QED BY <1>2, <1>7, <1>10, <1>11, <1>12 DEF IInv

\* Replica::handle_commit keeps the invariant.
LEMMA HandleCommitKeeps ==
  ASSUME IInv, NEW r \in Live, NEW m, HandleCommit(r, m)
  PROVE  IInv'
<1>1. TypeOK /\ r \in Replicas BY LiveAssumption DEF IInv
<1>2. m \in Commits /\ m \in Messages
  BY <1>1, MessagesType, KindsOfOwn DEF HandleCommit
<1>3. PICK out : out = CommitReplies(r, m) OBVIOUS
<1>4. out \in SUBSET [to : Clients, msg : ReplyMsgs]
  BY <1>2, <1>3, CommitRepliesType
<1>5. PICK new : new = Sent(out, <<>>) OBVIOUS
<1>6. out \in SUBSET Datagrams(Msgs) /\ \A x \in new : x.kind = "Reply"
  BY <1>4, <1>5, RepliesOnly
<1>7. HandleDatagram(r, m, out, <<>>) /\ InsertCommit(r, m)
  BY <1>3 DEF HandleCommit
<1>8. <<>> \in Seq(OwnMessages) BY EmptySeq
<1>9. NetTypeOK(Msgs, OwnMessages)' /\ Messages' \subseteq Messages \cup new
  BY <1>1, <1>5, <1>6, <1>7, <1>8, ReplicaSends
<1>10. QED BY <1>2, <1>6, <1>7, <1>9, InsertCommitKeeps

\* The replica's own Commit keeps the invariant.
LEMMA LoopbackCommitKeeps ==
  ASSUME IInv, NEW r \in Live, LoopbackCommit(r)
  PROVE  IInv'
<1>1. TypeOK /\ r \in Replicas BY LiveAssumption DEF IInv
<1>2. PICK m : m = Own(r) OBVIOUS
<1>3. m \in Commits /\ m \in Messages
  BY <1>1, <1>2, MessagesType, KindsOfOwn DEF LoopbackCommit, Msgs
<1>4. PICK out : out = CommitReplies(r, m) OBVIOUS
<1>5. out \in SUBSET [to : Clients, msg : ReplyMsgs]
  BY <1>3, <1>4, CommitRepliesType
<1>6. PICK new : new = Sent(out, <<>>) OBVIOUS
<1>7. out \in SUBSET Datagrams(Msgs) /\ \A x \in new : x.kind = "Reply"
  BY <1>5, <1>6, RepliesOnly
<1>8. /\ loopback[r] /= <<>> /\ HandleLoopback(r, out, <<>>)
      /\ InsertCommit(r, m)
  BY <1>2, <1>4 DEF LoopbackCommit
<1>9. <<>> \in Seq(OwnMessages) BY EmptySeq
<1>10. NetTypeOK(Msgs, OwnMessages)' /\ Messages' \subseteq Messages \cup new
  BY <1>1, <1>6, <1>7, <1>8, <1>9, ReplicaSends
<1>11. QED BY <1>3, <1>7, <1>8, <1>10, InsertCommitKeeps
-----------------------------------------------------------------------------
\* The initial states satisfy the invariant, and no channel holds anything.
LEMMA InitHolds ==
  ASSUME Init
  PROVE  /\ IInv /\ NoPanic
         /\ \A r \in Replicas : InOrder(chain[r], app[r], Tip)
<1>1. /\ net = {} /\ loopback = [r \in Replicas |-> <<>>] /\ dup = 0
      /\ chain = [r \in Replicas |-> NewChain]
      /\ app = [r \in Replicas |-> <<>>]
      /\ panicked = [r \in Replicas |-> "no"]
      /\ requests = [r \in Replicas |-> <<>>]
      /\ prepares = [r \in Replicas |-> {}]
      /\ commit_certificates = [r \in Replicas |-> {}]
      /\ paced = TRUE
  BY DEF Init, Init_Multiplex, Init_Execution
<1>2. /\ \A S : <<>> \in Seq(S)
      /\ Len(<<>>) = 0 /\ <<>> \in Digests
  BY EmptySeq DEF Digests
<1>3. NewChain \in Chains /\ NewChain.pending = {}
      /\ NewChain.digest_execute = <<>> /\ NewChain.digest_parent = <<>>
  BY <1>2 DEF NewChain, Genesis, Chains
<1>4. TypeOK
  <2>1. ClientTypeOK
    BY <1>2, MaxRequestAssumption DEF Init, Init_Client, ClientTypeOK
  <2>2. ExecutionTypeOK BY <1>1, <1>2, <1>3 DEF ExecutionTypeOK
  <2>3. NetTypeOK(RequestMsgs \cup OwnMessages, OwnMessages)
    BY <1>1, <1>2, MaxDupAssumption DEF NetTypeOK
  <2>4. QED BY <1>1, <1>2, <2>1, <2>2, <2>3 DEF TypeOK
<1>5. MessagesSound
  <2>1. \A r \in Replicas : 1..Len(loopback[r]) = {} BY <1>1, <1>2
  <2>2. Messages = {} BY <1>1, <2>1 DEF Messages
  <2>3. QED BY <2>2 DEF MessagesSound
<1>6. CommitsBacked /\ Proposed BY <1>1 DEF CommitsBacked, Proposed
<1>7. \A r \in Replicas : InOrder(chain[r], app[r], Tip)
  <2>1. Tip = <<>> BY <1>1, <1>3, PrimaryAssumption DEF Tip
  <2>2. IsAncestor(<<>>, <<>>) BY <1>2, AncestorReflexive DEF Digests
  <2>3. QED BY <1>1, <1>3, <2>1, <2>2 DEF InOrder, OnOneChain
<1>8. OneChain BY <1>7 DEF OneChain, InOrder
<1>9. Settled
  <2>1. \A r \in Replicas : 1..Len(app[r]) = {} /\ chain[r].pending = {}
    BY <1>1, <1>2, <1>3
  <2>2. QED BY <2>1 DEF Settled
<1>10. NoPanic BY <1>1 DEF NoPanic
<1>11. QED BY <1>4, <1>5, <1>6, <1>7, <1>8, <1>9, <1>10 DEF IInv

\* Every step keeps the invariant.
LEMMA StepKeeps ==
  ASSUME IInv, [Next]_vars
  PROVE  IInv'
<1>1. CASE UNCHANGED vars
  <2>1. /\ net' = net /\ loopback' = loopback /\ dup' = dup
        /\ UNCHANGED clientVars /\ requests' = requests /\ paced' = paced
        /\ UNCHANGED <<quorumVars, executeVars>>
    BY <1>1 DEF vars, netVars
  <2>2. TypeOK'
    BY <2>1
    DEF IInv, TypeOK, NetTypeOK, clientVars, ClientTypeOK, quorumVars,
        executeVars, ExecutionTypeOK
  <2>3. Messages' = Messages BY <2>1 DEF Messages
  <2>4. PICK new : new = {} OBVIOUS
  <2>5. Messages' \subseteq Messages \cup new BY <2>3
  <2>6. UNCHANGED <<quorumVars, executeVars>> BY <2>1
  <2>7. QED BY <2>2, <2>4, <2>5, <2>6, UnorderedStep
<1>2. ASSUME NEW c \in Clients, ClientStep(c) PROVE IInv'
  BY <1>2, InvokeKeeps, HandleReplyKeeps DEF ClientStep
<1>3. ASSUME NEW r \in Live, ReplicaStep(r) PROVE IInv'
  <2>1. CASE OnPace(r) BY <2>1, OnPaceKeeps
  <2>2. CASE LoopbackPrepare(r) BY <2>2, LoopbackPrepareKeeps
  <2>3. CASE LoopbackCommit(r) BY <2>3, LoopbackCommitKeeps
  <2>4. ASSUME NEW m, HandleRequest(r, m) PROVE IInv'
    BY <2>4, HandleRequestKeeps
  <2>5. ASSUME NEW m, HandlePrepare(r, m) PROVE IInv'
    BY <2>5, HandlePrepareKeeps
  <2>6. ASSUME NEW m, HandleCommit(r, m) PROVE IInv'
    BY <2>6, HandleCommitKeeps
  <2>7. QED
    BY <1>3, <2>1, <2>2, <2>3, <2>4, <2>5, <2>6 DEF ReplicaStep
<1>4. QED BY <1>1, <1>2, <1>3 DEF Next
-----------------------------------------------------------------------------
\* Clients.  A step of a replica that executes nothing sends no client anything.
LEMMA QuietServed ==
  ASSUME IInv, IInv', Served, NEW r \in Live, UNCHANGED <<clientVars, app>>,
         NEW m, NEW out, net' \subseteq net \cup out,
         out \in {{}, SendTo(Peers(r), m)}
  PROVE  Served'
<1>1. /\ NetTypeOK(Msgs, OwnMessages) /\ ClientTypeOK
      /\ ExecutionTypeOK /\ ExecutionTypeOK'
  BY DEF IInv, TypeOK, Msgs
<1>2. \A x \in out : x.to \in Replicas
  BY LiveAssumption DEF SendTo, Peers, Datagram
<1>3. UNCHANGED clientVars /\ app' = app OBVIOUS
<1>4. QED BY <1>1, <1>2, <1>3, ServedByQuiet

\* insert_commit answers the clients of the blocks it executes.
LEMMA CommitServed ==
  ASSUME IInv, IInv', Served, NEW r \in Live, NEW m \in Commits, m \in Messages,
         InsertCommit(r, m), net' \subseteq net \cup CommitReplies(r, m)
  PROVE  Served'
<1>1. /\ NetTypeOK(Msgs, OwnMessages) /\ ClientTypeOK
      /\ ExecutionTypeOK /\ ExecutionTypeOK'
      /\ UNCHANGED clientVars
  BY DEF IInv, TypeOK, Msgs, InsertCommit
<1>2. PICK out : out = CommitReplies(r, m) OBVIOUS
<1>3. \A x \in out : Answer(x.to, x.msg, app') BY <1>2, CommitRepliesType
<1>4. \A s \in Replicas : IsAncestor(app[s], app'[s]) BY InsertCommitStep
<1>5. net' \subseteq net \cup out BY <1>2
<1>6. QED BY <1>1, <1>3, <1>4, <1>5, ServedByReplica

\* Every step keeps what the clients are sent, hold and consumed.
LEMMA ServedStep ==
  ASSUME IInv, IInv', Served, [Next]_vars
  PROVE  Served'
<1>1. CASE UNCHANGED vars
  <2>1. /\ net' = net /\ request_num' = request_num /\ invoke' = invoke
        /\ replies' = replies /\ results' = results /\ app' = app
    BY <1>1 DEF vars, netVars, clientVars, executeVars
  <2>2. ConsumedIsExecuted' BY <2>1, ConsumedDef DEF Served
  <2>3. QED BY <2>1, <2>2 DEF Served, ClientServed
<1>2. ASSUME NEW c \in Clients, ClientStep(c) PROVE Served'
  <2>1. NetTypeOK(Msgs, OwnMessages) /\ ClientTypeOK
    BY DEF IInv, TypeOK, Msgs
  <2>2. CASE Invoke(c)
    <3>1. ClientInvoke(c, Live) /\ app' = app
      BY <2>2 DEF Invoke, executeVars
    <3>2. QED BY <2>1, <3>1, LiveAssumption, ServedByInvoke
  <2>3. ASSUME NEW m, HandleReply(c, m) PROVE Served'
    <3>1. ClientHandle(c, m) /\ app' = app
      BY <2>3 DEF HandleReply, executeVars
    <3>2. QED BY <2>1, <3>1, ServedByHandle
  <2>4. QED BY <1>2, <2>2, <2>3 DEF ClientStep
<1>3. ASSUME NEW r \in Live, ReplicaStep(r) PROVE Served'
  <2>1. TypeOK /\ r \in Replicas BY LiveAssumption DEF IInv
  <2>2. CASE OnPace(r)
    <3>1. PICK m : Pace(r, SendTo(Peers(r), m), <<m>>)
      BY <2>2 DEF OnPace
    <3>2. UNCHANGED <<clientVars, app>> BY <2>2 DEF OnPace
    <3>3. net' \subseteq net \cup SendTo(Peers(r), m) BY <3>1, HandlerSends
    <3>4. QED BY <3>2, <3>3, QuietServed
  <2>3. CASE LoopbackPrepare(r)
    <3>1. PICK m : m = CommitMsg(Own(r).digest, r) OBVIOUS
    <3>2. HandleLoopback(r, SendTo(Peers(r), m), <<m>>)
      BY <2>3, <3>1 DEF LoopbackPrepare, CommitOut, CommitOwn
    <3>3. UNCHANGED <<clientVars, app>>
      BY <2>3 DEF LoopbackPrepare, AcceptPrepare, executeVars
    <3>4. net' \subseteq net \cup SendTo(Peers(r), m) BY <3>2, HandlerSends
    <3>5. QED BY <3>3, <3>4, QuietServed
  <2>4. CASE LoopbackCommit(r)
    <3>1. PICK m : m = Own(r) OBVIOUS
    <3>2. m \in Commits /\ m \in Messages
      BY <2>1, <2>4, <3>1, MessagesType, KindsOfOwn DEF LoopbackCommit, Msgs
    <3>3. InsertCommit(r, m) /\ net' \subseteq net \cup CommitReplies(r, m)
      BY <2>4, <3>1, HandlerSends DEF LoopbackCommit
    <3>4. QED BY <3>2, <3>3, CommitServed
  <2>5. ASSUME NEW m, HandleRequest(r, m) PROVE Served'
    <3>1. UNCHANGED <<clientVars, app>> /\ net' \subseteq net \cup {}
      BY <2>5, HandlerSends DEF HandleRequest, executeVars
    <3>2. QED BY <3>1, QuietServed
  <2>6. ASSUME NEW m, HandlePrepare(r, m) PROVE Served'
    <3>1. PICK p : p = CommitMsg(m.digest, r) OBVIOUS
    <3>2. UNCHANGED <<clientVars, app>>
      BY <2>6 DEF HandlePrepare, AcceptPrepare, executeVars
    <3>3. HandleDatagram(r, m, SendTo(Peers(r), p), <<p>>)
      BY <2>6, <3>1 DEF HandlePrepare, CommitOut, CommitOwn
    <3>4. net' \subseteq net \cup SendTo(Peers(r), p) BY <3>3, HandlerSends
    <3>5. QED BY <3>2, <3>4, QuietServed
  <2>7. ASSUME NEW m, HandleCommit(r, m) PROVE Served'
    <3>1. m \in Commits /\ m \in Messages
      BY <2>1, <2>7, MessagesType, KindsOfOwn DEF HandleCommit
    <3>2. InsertCommit(r, m) /\ net' \subseteq net \cup CommitReplies(r, m)
      BY <2>7, HandlerSends DEF HandleCommit
    <3>3. QED BY <3>1, <3>2, CommitServed
  <2>8. QED
    BY <1>3, <2>2, <2>3, <2>4, <2>5, <2>6, <2>7 DEF ReplicaStep
<1>4. QED BY <1>1, <1>2, <1>3 DEF Next
-----------------------------------------------------------------------------
\* What is in flight to r and what waits in r's event channel will not make r
\* take up a block or count its own Commit a second time.
FreshTo(r, m) ==
    /\ m.kind = "Prepare" => r /= Primary /\ m.digest \notin prepares[r]
    /\ m.kind = "Commit" => m.replica /= r

FreshIn(r, m) ==
    /\ m.kind = "Prepare" => r = Primary /\ m.digest \notin prepares[r]
    /\ m.kind = "Commit" => /\ m.replica = r
                            /\ m.digest \in prepares[r]
                            /\ <<m.digest, r>> \notin commit_certificates[r]

Once ==
    \A r \in Replicas :
        /\ \A m \in InFlightTo(net, r) : FreshTo(r, m)
        /\ \A m \in Held(loopback[r]) : FreshIn(r, m)
        /\ Distinct(loopback[r])

Ordered == \A r \in Replicas : InOrder(chain[r], app[r], Tip)

\* No more replicas run than a certificate takes.
NoSpare == Cardinality(Live) <= NumFaulty + 1

\* The types of what is in flight and in the channels.
LEMMA WaitingType ==
  ASSUME TypeOK, NEW r \in Replicas
  PROVE  /\ InFlightTo(net, r) \subseteq Msgs
         /\ Held(loopback[r]) \subseteq OwnMessages
         /\ Held(loopback[r]) \subseteq Messages
         /\ loopback[r] /= <<>> => Own(r) \in Held(loopback[r])
<1>1. /\ net \subseteq Datagrams(Msgs)
      /\ loopback \in [Replicas -> Seq(OwnEntries(Msgs, OwnMessages))]
  BY NetTypeDef DEF TypeOK, Msgs
<1>2. InFlightTo(net, r) \subseteq Msgs BY <1>1, NetTypeDef, InFlightType
<1>3. Held(loopback[r]) \subseteq OwnMessages
  <2>1. \A k \in 1..Len(loopback[r]) :
           loopback[r][k] \in OwnEntries(Msgs, OwnMessages)
    BY <1>1, ElementOfSeq
  <2>2. QED BY <2>1 DEF Held, OwnEntries
<1>4. Held(loopback[r]) \subseteq Messages BY DEF Held, Messages
<1>5. ASSUME loopback[r] /= <<>> PROVE Own(r) \in Held(loopback[r])
  <2>1. loopback[r] \in Seq(OwnEntries(Msgs, OwnMessages)) BY <1>1
  <2>2. Len(loopback[r]) \in Nat /\ Len(loopback[r]) /= 0
    BY <1>5, <2>1, LenProperties, EmptySeq
  <2>3. Head(loopback[r]) = loopback[r][1] /\ 1 \in 1..Len(loopback[r])
    BY <2>1, <2>2, HeadTailProperties
  <2>4. QED BY <2>3 DEF Own, Held
<1>6. QED BY <1>2, <1>3, <1>4, <1>5

\* A step that leaves the certificates and the channels alone, and puts no more
\* than requests and replies in flight.
LEMMA OnceQuiet ==
  ASSUME Once, UNCHANGED <<quorumVars, loopback>>,
         \A r \in Replicas : \A m \in InFlightTo(net', r) :
            m \in InFlightTo(net, r) \/ m.kind = "Request"
  PROVE  Once'
<1>1. prepares' = prepares /\ commit_certificates' = commit_certificates
  BY DEF quorumVars
<1>2. SUFFICES ASSUME NEW r \in Replicas
               PROVE  /\ \A m \in InFlightTo(net', r) : FreshTo(r, m)'
                      /\ \A m \in Held(loopback'[r]) : FreshIn(r, m)'
                      /\ Distinct(loopback'[r])
  BY DEF Once
<1>3. \A m \in InFlightTo(net', r) : FreshTo(r, m)'
  BY <1>1 DEF Once, FreshTo
<1>4. \A m \in Held(loopback'[r]) : FreshIn(r, m)'
  BY <1>1 DEF Once, FreshIn
<1>5. QED BY <1>3, <1>4 DEF Once

\* An event at r.  taken is what it takes from r's channel.
LEMMA OnceKept ==
  ASSUME TypeOK, Once, NEW r \in Live, NEW m, NEW out,
         NEW own \in Seq(OwnMessages), Len(own) <= 1,
         \/ HandleDatagram(r, m, out, own)
         \/ Pace(r, out, own)
         \/ loopback[r] /= <<>> /\ HandleLoopback(r, out, own),
         NEW taken,
         \/ taken = {}
         \/ /\ taken = {Own(r)}
            /\ loopback[r] /= <<>> /\ HandleLoopback(r, out, own),
         \A s \in Replicas : \A x \in InFlightTo(net', s) : FreshTo(s, x)',
         \A x \in Held(loopback[r]) \ taken : FreshIn(r, x)',
         \A x \in Items(own) : x \notin Held(loopback[r]) /\ FreshIn(r, x)',
         \A s \in Replicas : s /= r =>
            /\ prepares'[s] = prepares[s]
            /\ commit_certificates'[s] = commit_certificates[s]
  PROVE  Once'
<1>1. r \in Replicas BY LiveAssumption
<1>2. PICK E : loopback \in [Replicas -> Seq(E)]
  BY NetTypeDef DEF TypeOK, Msgs
<1>3. Distinct(loopback[r]) BY <1>1 DEF Once
<1>4. /\ own \in Seq(OwnMessages) /\ Len(own) <= 1
      /\ Items(own) \cap Held(loopback[r]) = {}
      /\ \/ HandleDatagram(r, m, out, own)
         \/ Pace(r, out, own)
         \/ loopback[r] /= <<>> /\ HandleLoopback(r, out, own)
  OBVIOUS
<1>5. /\ \A s \in Replicas : s /= r => loopback'[s] = loopback[s]
      /\ Distinct(loopback'[r])
      /\ Held(loopback'[r])
            \subseteq Held(loopback[r]) \cup Items(own)
      /\ HandleLoopback(r, out, own) /\ loopback[r] /= <<>> =>
            Held(loopback'[r])
               \subseteq (Held(loopback[r]) \ {Head(loopback[r]).msg})
                         \cup Items(own)
  BY <1>1, <1>2, <1>3, <1>4, ChannelStep
<1>6. Held(loopback'[r])
         \subseteq (Held(loopback[r]) \ taken) \cup Items(own)
  BY <1>5 DEF Own
<1>7. \A x \in Held(loopback'[r]) : FreshIn(r, x)' BY <1>6
<1>8. ASSUME NEW s \in Replicas, s /= r
      PROVE  /\ \A x \in Held(loopback'[s]) : FreshIn(s, x)'
             /\ Distinct(loopback'[s])
  BY <1>5, <1>8 DEF Once, FreshIn
<1>9. QED BY <1>5, <1>7, <1>8 DEF Once

\* The primary's proposal is a block that no replica holds and no message names.
LEMMA OnPaceOnce ==
  ASSUME IInv, Once, NEW r \in Live, OnPace(r)
  PROVE  Once'
<1>1. PICK next : next = Propose(chain[r], requests[r]) OBVIOUS
<1>2. PICK d : d = next.digest_parent OBVIOUS
<1>3. PICK m : m = PrepareMsg(d) OBVIOUS
<1>4. /\ TypeOK /\ r \in Replicas /\ r = Primary /\ requests[r] /= <<>>
      /\ Pace(r, SendTo(Peers(r), m), <<m>>)
      /\ prepares' = prepares /\ commit_certificates' = commit_certificates
  BY <1>1, <1>2, <1>3, LiveAssumption DEF IInv, OnPace, quorumVars
<1>5. requests[r] \in Seq(RequestRecords) /\ chain[r] \in Chains
  BY <1>4 DEF TypeOK, ExecutionTypeOK
<1>6. d \in Digests /\ ~IsAncestor(d, Tip)
  BY <1>1, <1>2, <1>4, <1>5, ProposeProperties DEF Tip
<1>7. m \in OwnMessages /\ m.kind = "Prepare" /\ m.digest = d
  BY <1>3, <1>6 DEF PrepareMsg, OwnMessages, Prepares
<1>8. \A s \in Replicas : d \notin prepares[s]
  BY <1>6 DEF IInv, Proposed, OnChain
<1>9. m \notin Messages
  BY <1>6, <1>7 DEF IInv, MessagesSound, Sound, OnChain
<1>10. m \notin Held(loopback[r]) BY <1>4, <1>9, WaitingType
<1>11. PICK out : out = SendTo(Peers(r), m) OBVIOUS
<1>12. PICK own : own = <<m>> OBVIOUS
<1>13. own \in Seq(OwnMessages) /\ Len(own) <= 1 /\ Items(own) \subseteq {m}
  BY <1>7, <1>12 DEF Items
<1>14. ASSUME NEW s \in Replicas, NEW x \in InFlightTo(net', s)
       PROVE  FreshTo(s, x)'
  <2>1. InFlightTo(net', s) \subseteq InFlightTo(net, s) \cup InFlightTo(out, s)
    BY <1>4, <1>11, FlightStep DEF TypeOK
  <2>2. CASE x \in InFlightTo(net, s)
    BY <1>4, <2>2 DEF Once, FreshTo
  <2>3. CASE x \in InFlightTo(out, s)
    <3>1. x = m /\ s /= r BY <2>3, <1>11, FlightOut DEF Peers
    <3>2. QED BY <3>1, <1>4, <1>7, <1>8 DEF FreshTo
  <2>4. QED BY <2>1, <2>2, <2>3
<1>15. FreshIn(r, m)' BY <1>4, <1>7, <1>8 DEF FreshIn
<1>16. \A x \in Held(loopback[r]) : FreshIn(r, x)'
  BY <1>4 DEF Once, FreshIn
<1>17. PICK taken : taken = {} OBVIOUS
<1>18. \A x \in Held(loopback[r]) \ taken : FreshIn(r, x)' BY <1>16
<1>19. \A x \in Items(own) : x \notin Held(loopback[r]) /\ FreshIn(r, x)'
  BY <1>10, <1>13, <1>15
<1>20. Pace(r, out, own) BY <1>4, <1>11, <1>12
<1>21. \A s \in Replicas : s /= r =>
            /\ prepares'[s] = prepares[s]
            /\ commit_certificates'[s] = commit_certificates[s]
  BY <1>4
<1>22. QED
  BY <1>4, <1>13, <1>14, <1>17, <1>18, <1>19, <1>20, <1>21, OnceKept

\* A replica takes up a block that it does not hold yet, and that no other
\* message left for it proposes again.
LEMMA AcceptOnce ==
  ASSUME IInv, Once, NEW r \in Live, NEW m \in Prepares, AcceptPrepare(r, m),
         m.digest \notin prepares[r],
         \/ HandleDatagram(r, m, CommitOut(r, m), CommitOwn(r, m))
         \/ /\ loopback[r] /= <<>>
            /\ HandleLoopback(r, CommitOut(r, m), CommitOwn(r, m)),
         NEW taken,
         \/ taken = {}
         \/ /\ taken = {Own(r)}
            /\ loopback[r] /= <<>>
            /\ HandleLoopback(r, CommitOut(r, m), CommitOwn(r, m)),
         \A x \in InFlightTo(net', r) \cup (Held(loopback[r]) \ taken) :
            x.kind = "Prepare" => x.digest /= m.digest
  PROVE  Once'
<1>1. TypeOK /\ r \in Replicas BY LiveAssumption DEF IInv
<1>2. PICK p : p = CommitMsg(m.digest, r) OBVIOUS
<1>3. PICK out : out = SendTo(Peers(r), p) OBVIOUS
<1>4. PICK own : own = <<p>> OBVIOUS
<1>5. /\ \/ HandleDatagram(r, m, out, own)
         \/ loopback[r] /= <<>> /\ HandleLoopback(r, out, own)
      /\ \/ taken = {}
         \/ /\ taken = {Own(r)}
            /\ loopback[r] /= <<>> /\ HandleLoopback(r, out, own)
  BY <1>2, <1>3, <1>4 DEF CommitOut, CommitOwn
<1>6. p \in OwnMessages /\ p.kind = "Commit" /\ p.digest = m.digest /\ p.replica = r
  BY <1>2 DEF CommitMsg, OwnMessages, Prepares, Commits
<1>7. own \in Seq(OwnMessages) /\ Len(own) <= 1 /\ Items(own) \subseteq {p}
  BY <1>4, <1>6 DEF Items
<1>8. /\ prepares'[r] = prepares[r] \cup {m.digest}
      /\ \A s \in Replicas : s /= r => prepares'[s] = prepares[s]
      /\ commit_certificates' = commit_certificates
  BY <1>1 DEF AcceptPrepare, TypeOK
<1>9. ASSUME NEW s \in Replicas, NEW x \in InFlightTo(net', s)
      PROVE  FreshTo(s, x)'
  <2>1. InFlightTo(net', s) \subseteq InFlightTo(net, s) \cup InFlightTo(out, s)
    BY <1>1, <1>5, FlightStep DEF TypeOK
  <2>2. CASE x \in InFlightTo(net, s)
    <3>1. FreshTo(s, x) BY <2>2 DEF Once
    <3>2. CASE s = r BY <1>8, <1>9, <3>1, <3>2 DEF FreshTo
    <3>3. CASE s /= r BY <1>8, <3>1, <3>3 DEF FreshTo
    <3>4. QED BY <3>2, <3>3
  <2>3. CASE x \in InFlightTo(out, s)
    <3>1. x = p /\ s /= r BY <2>3, <1>3, FlightOut DEF Peers
    <3>2. QED BY <3>1, <1>6 DEF FreshTo
  <2>4. QED BY <2>1, <2>2, <2>3
<1>10. \A x \in Held(loopback[r]) \ taken : FreshIn(r, x)'
  BY <1>1, <1>8 DEF Once, FreshIn
<1>11. p \notin Held(loopback[r])
  BY <1>1, <1>6 DEF Once, FreshIn
<1>12. FreshIn(r, p)'
  <2>1. <<m.digest, r>> \notin commit_certificates[r]
    BY <1>1 DEF IInv, CommitsBacked, Backed
  <2>2. QED BY <1>6, <1>8, <2>1 DEF FreshIn
<1>13. \A x \in Items(own) : x \notin Held(loopback[r]) /\ FreshIn(r, x)'
  BY <1>7, <1>11, <1>12
<1>14. \A s \in Replicas : s /= r =>
            /\ prepares'[s] = prepares[s]
            /\ commit_certificates'[s] = commit_certificates[s]
  BY <1>8
<1>15. QED
  BY <1>1, <1>5, <1>7, <1>9, <1>10, <1>13, <1>14, OnceKept

\* Where no datagram arrives twice, a Prepare that is handled is gone.
LEMMA HandlePrepareOnce ==
  ASSUME IInv, Once, MaxDup = 0, NEW r \in Live, NEW m, HandlePrepare(r, m)
  PROVE  Once'
<1>1. TypeOK /\ r \in Replicas BY LiveAssumption DEF IInv
<1>2. m \in Prepares /\ m.kind = "Prepare" /\ m \in InFlightTo(net, r)
  BY <1>1, MessagesType, KindsOfOwn
  DEF HandlePrepare, Arrived, InFlightTo, Datagram
<1>3. r /= Primary /\ m.digest \notin prepares[r]
  BY <1>1, <1>2 DEF Once, FreshTo
<1>4. /\ HandleDatagram(r, m, CommitOut(r, m), CommitOwn(r, m))
      /\ AcceptPrepare(r, m)
  BY DEF HandlePrepare
<1>5. InFlightTo(net', r) \subseteq InFlightTo(net, r) \ {m}
  <2>1. InFlightTo(net', r)
           \subseteq (InFlightTo(net, r) \ {m}) \cup InFlightTo(CommitOut(r, m), r)
    BY <1>1, <1>4, FlightStep DEF TypeOK
  <2>2. InFlightTo(CommitOut(r, m), r) = {}
    BY <1>1, FlightOut DEF CommitOut, Peers
  <2>3. QED BY <2>1, <2>2
<1>6. ASSUME NEW x \in InFlightTo(net', r), x.kind = "Prepare"
      PROVE  x.digest /= m.digest
  <2>1. x \in Prepares /\ x /= m BY <1>1, <1>5, <1>6, WaitingType, KindsOfOwn
  <2>2. QED BY <1>2, <2>1 DEF Prepares
<1>7. \A x \in Held(loopback[r]) : x.kind /= "Prepare"
  BY <1>1, <1>3 DEF Once, FreshIn
<1>8. PICK taken : taken = {} OBVIOUS
<1>9. \A x \in InFlightTo(net', r) \cup (Held(loopback[r]) \ taken) :
         x.kind = "Prepare" => x.digest /= m.digest
  BY <1>6, <1>7
<1>10. QED BY <1>2, <1>3, <1>4, <1>8, <1>9, AcceptOnce

\* The primary takes its own Prepare from its channel, where it was once.
LEMMA LoopbackPrepareOnce ==
  ASSUME IInv, Once, NEW r \in Live, LoopbackPrepare(r)
  PROVE  Once'
<1>1. TypeOK /\ r \in Replicas BY LiveAssumption DEF IInv
<1>2. PICK m : m = Own(r) OBVIOUS
<1>3. /\ m \in Prepares /\ m.kind = "Prepare" /\ m \in Held(loopback[r])
      /\ loopback[r] /= <<>>
  BY <1>1, <1>2, MessagesType, WaitingType, KindsOfOwn DEF LoopbackPrepare, Msgs
<1>4. r = Primary /\ m.digest \notin prepares[r]
  BY <1>1, <1>3 DEF Once, FreshIn
<1>5. /\ HandleLoopback(r, CommitOut(r, m), CommitOwn(r, m))
      /\ AcceptPrepare(r, m)
  BY <1>2 DEF LoopbackPrepare
<1>6. InFlightTo(net', r) \subseteq InFlightTo(net, r)
  <2>1. InFlightTo(net', r)
           \subseteq InFlightTo(net, r) \cup InFlightTo(CommitOut(r, m), r)
    BY <1>1, <1>5, FlightStep DEF TypeOK
  <2>2. InFlightTo(CommitOut(r, m), r) = {}
    BY <1>1, FlightOut DEF CommitOut, Peers
  <2>3. QED BY <2>1, <2>2
<1>7. \A x \in InFlightTo(net', r) : x.kind /= "Prepare"
  BY <1>1, <1>4, <1>6 DEF Once, FreshTo
<1>8. PICK taken : taken = {m} OBVIOUS
<1>9. ASSUME NEW x \in Held(loopback[r]) \ taken, x.kind = "Prepare"
      PROVE  x.digest /= m.digest
  <2>1. x \in Prepares /\ x /= m
    BY <1>1, <1>8, <1>9, WaitingType, KindsOfOwn DEF Msgs
  <2>2. QED BY <1>3, <2>1 DEF Prepares
<1>10. \A x \in InFlightTo(net', r) \cup (Held(loopback[r]) \ taken) :
          x.kind = "Prepare" => x.digest /= m.digest
  BY <1>7, <1>9
<1>11. /\ taken = {Own(r)} /\ loopback[r] /= <<>>
       /\ HandleLoopback(r, CommitOut(r, m), CommitOwn(r, m))
  BY <1>2, <1>3, <1>5, <1>8
<1>12. m \in Prepares /\ AcceptPrepare(r, m) /\ m.digest \notin prepares[r]
  BY <1>3, <1>4, <1>5
<1>13. QED BY <1>10, <1>11, <1>12, AcceptOnce

\* insert_commit counts the replica's own Commit once, when it comes by the
\* channel.
LEMMA CommitOnce ==
  ASSUME IInv, Once, NEW r \in Live, NEW m \in Commits, m \in Messages,
         InsertCommit(r, m),
         \/ HandleDatagram(r, m, CommitReplies(r, m), <<>>)
         \/ /\ loopback[r] /= <<>>
            /\ HandleLoopback(r, CommitReplies(r, m), <<>>),
         NEW taken,
         \/ taken = {}
         \/ /\ taken = {Own(r)}
            /\ loopback[r] /= <<>>
            /\ HandleLoopback(r, CommitReplies(r, m), <<>>),
         \A x \in Held(loopback[r]) \ taken :
            x.kind = "Commit" => <<x.digest, r>> /= <<m.digest, m.replica>>
  PROVE  Once'
<1>1. TypeOK /\ r \in Replicas BY LiveAssumption DEF IInv
<1>2. PICK out : out = CommitReplies(r, m) OBVIOUS
<1>3. PICK own : own = <<>> OBVIOUS
<1>4. /\ \/ HandleDatagram(r, m, out, own)
         \/ loopback[r] /= <<>> /\ HandleLoopback(r, out, own)
      /\ \/ taken = {}
         \/ /\ taken = {Own(r)}
            /\ loopback[r] /= <<>> /\ HandleLoopback(r, out, own)
  BY <1>2, <1>3
<1>5. own \in Seq(OwnMessages) /\ Len(own) <= 1 /\ Items(own) = {}
  <2>1. Len(own) = 0 /\ own \in Seq(OwnMessages) BY <1>3, EmptySeq
  <2>2. QED BY <2>1 DEF Items
<1>6. out \in SUBSET [to : Clients, msg : ReplyMsgs]
  BY <1>2, CommitRepliesType
<1>7. /\ prepares' = prepares
      /\ commit_certificates'[r] = CommitsWith(r, m)
      /\ \A s \in Replicas : s /= r =>
            commit_certificates'[s] = commit_certificates[s]
  BY <1>1 DEF InsertCommit, TypeOK
<1>8. ASSUME NEW s \in Replicas, NEW x \in InFlightTo(net', s)
      PROVE  FreshTo(s, x)'
  <2>1. InFlightTo(net', s) \subseteq InFlightTo(net, s) \cup InFlightTo(out, s)
    BY <1>1, <1>4, FlightStep DEF TypeOK
  <2>2. InFlightTo(out, s) = {} BY <1>6, FlightOut
  <2>3. QED BY <1>7, <1>8, <2>1, <2>2 DEF Once, FreshTo
<1>9. \A x \in Held(loopback[r]) \ taken : FreshIn(r, x)'
  <2>1. SUFFICES ASSUME NEW x \in Held(loopback[r]) \ taken
                 PROVE  FreshIn(r, x)'
    OBVIOUS
  <2>2. FreshIn(r, x) BY <1>1 DEF Once
  <2>3. <<x.digest, r>> \in CommitsWith(r, m) =>
           \/ <<x.digest, r>> \in commit_certificates[r]
           \/ <<x.digest, r>> = <<m.digest, m.replica>>
    BY DEF CommitsWith
  <2>4. QED BY <1>7, <2>2, <2>3 DEF FreshIn
<1>10. \A x \in Items(own) : x \notin Held(loopback[r]) /\ FreshIn(r, x)'
  BY <1>5
<1>11. \A s \in Replicas : s /= r =>
            /\ prepares'[s] = prepares[s]
            /\ commit_certificates'[s] = commit_certificates[s]
  BY <1>7
<1>12. QED
  BY <1>1, <1>4, <1>5, <1>8, <1>9, <1>10, <1>11, OnceKept

\* A block whose certificate is not complete is new to do_execute.
LEMMA NewBlock ==
  ASSUME IInv, NEW r \in Replicas, NEW d, OnChain(d),
         ~CommitComplete(commit_certificates[r], d)
  PROVE  d \notin chain[r].pending /\ ~IsAncestor(d, app[r])
<1>1. d \notin chain[r].pending BY DEF IInv, Settled
<1>2. ASSUME IsAncestor(d, app[r]) PROVE FALSE
  <2> DEFINE h == Len(d)
             n == Len(app[r])
  <2>1. app[r] \in Digests BY DEF IInv, TypeOK, ExecutionTypeOK
  <2>2. h \in Nat /\ h > 0 /\ n \in Nat BY <2>1, LenProperties DEF OnChain, Digests
  <2>3. h <= n /\ d = SubSeq(app[r], 1, h) BY <1>2 DEF IsAncestor
  <2>4. h \in 1..n
    <3> HIDE DEF h, n
    <3>1. QED BY <2>2, <2>3
  <2>5. CommitComplete(commit_certificates[r], SubSeq(app[r], 1, h))
    BY <2>4 DEF IInv, Settled
  <2>6. QED BY <2>3, <2>5
<1>3. QED BY <1>1, <1>2

\* insert_commit executes in order and without a panic a block whose
\* certificate was not complete before.
LEMMA CommitInOrder ==
  ASSUME IInv, IInv', Ordered, NoPanic, NEW r \in Live, NEW m \in Commits,
         m \in Messages, InsertCommit(r, m),
         Executes(r, m) => ~CommitComplete(commit_certificates[r], m.digest)
  PROVE  Ordered' /\ NoPanic'
<1>1. /\ TypeOK /\ ExecutionTypeOK /\ r \in Replicas /\ m.kind = "Commit"
      /\ Tip' = Tip
  BY LiveAssumption, InsertCommitStep DEF IInv, TypeOK, Commits
<1>2. CASE ~Executes(r, m)
  <2>1. chain' = chain /\ app' = app /\ panicked' = panicked
    BY <1>2 DEF InsertCommit, executeVars
  <2>2. QED BY <1>1, <2>1 DEF Ordered, NoPanic
<1>3. CASE Executes(r, m)
  <2>1. PICK t : t = Tip OBVIOUS
  <2>2. PICK d : d = m.digest OBVIOUS
  <2>3. PICK held : held = prepares[r] OBVIOUS
  <2>4. OnChain(d) BY <1>1, <2>2 DEF IInv, MessagesSound, Sound
  <2>5. d \notin chain[r].pending /\ ~IsAncestor(d, app[r])
    BY <1>1, <1>3, <2>2, <2>4, NewBlock
  <2>6. /\ t \in Digests /\ d \in Digests /\ Len(d) > 0 /\ IsAncestor(d, t)
    BY <1>1, <2>1, <2>4, PrimaryAssumption
    DEF ExecutionTypeOK, Tip, Chains, OnChain
  <2>7. DoExecute(r, d, held) /\ d \in held
    BY <1>3, <2>2, <2>3 DEF InsertCommit, Executes
  <2>8. InOrder(chain[r], app[r], t) /\ OnOneChain(chain[r], app[r], t)
    BY <1>1, <2>1 DEF Ordered, InOrder
  <2>9. InOrder(chain'[r], app'[r], t) /\ panicked'[r] = "no"
    BY <1>1, <2>5, <2>6, <2>7, <2>8, DoExecuteStep
  <2>10. \A s \in Replicas : s /= r => /\ chain'[s] = chain[s]
                                       /\ app'[s] = app[s]
                                       /\ panicked'[s] = panicked[s]
    BY <1>1, <2>6, <2>7, <2>8, DoExecuteAny
  <2>11. QED BY <1>1, <2>1, <2>9, <2>10 DEF Ordered, NoPanic
<1>4. QED BY <1>2, <1>3

\* A Commit of another replica executes only when it completes the certificate.
LEMMA HandleCommitExact ==
  ASSUME IInv, IInv', Once, Ordered, NoPanic,
         NEW r \in Live, NEW m, HandleCommit(r, m)
  PROVE  Once' /\ Ordered' /\ NoPanic'
<1>1. TypeOK /\ r \in Replicas BY LiveAssumption DEF IInv
<1>2. /\ m \in Commits /\ m.kind = "Commit" /\ m \in Messages
      /\ m \in InFlightTo(net, r)
  BY <1>1, MessagesType, KindsOfOwn
  DEF HandleCommit, Arrived, InFlightTo, Datagram
<1>3. m.replica /= r BY <1>1, <1>2 DEF Once, FreshTo
<1>4. InsertCommit(r, m) /\ HandleDatagram(r, m, CommitReplies(r, m), <<>>)
  BY DEF HandleCommit
<1>5. PICK taken : taken = {} OBVIOUS
<1>6. \A x \in Held(loopback[r]) \ taken :
            x.kind = "Commit" => <<x.digest, r>> /= <<m.digest, m.replica>>
  BY <1>3
<1>7. Once' BY <1>2, <1>4, <1>5, <1>6, CommitOnce
<1>8. Executes(r, m) => ~CommitComplete(commit_certificates[r], m.digest)
  BY <1>3 DEF Executes
<1>9. QED BY <1>2, <1>4, <1>7, <1>8, CommitInOrder

\* When no more replicas run than a certificate takes, it cannot be complete
\* without the replica's own Commit, so that one finds it incomplete too.
LEMMA LoopbackCommitExact ==
  ASSUME IInv, IInv', Once, Ordered, NoPanic, NoSpare,
         NEW r \in Live, LoopbackCommit(r)
  PROVE  Once' /\ Ordered' /\ NoPanic'
<1>1. TypeOK /\ r \in Replicas BY LiveAssumption DEF IInv
<1>2. PICK m : m = Own(r) OBVIOUS
<1>3. /\ m \in Commits /\ m.kind = "Commit" /\ m \in Messages
      /\ m \in Held(loopback[r]) /\ loopback[r] /= <<>>
  BY <1>1, <1>2, MessagesType, WaitingType, KindsOfOwn DEF LoopbackCommit, Msgs
<1>4. m.replica = r /\ <<m.digest, r>> \notin commit_certificates[r]
  BY <1>1, <1>3 DEF Once, FreshIn
<1>5. InsertCommit(r, m) /\ HandleLoopback(r, CommitReplies(r, m), <<>>)
  BY <1>2 DEF LoopbackCommit
<1>6. PICK taken : taken = {m} OBVIOUS
<1>7. ASSUME NEW x \in Held(loopback[r]) \ taken, x.kind = "Commit"
      PROVE  <<x.digest, r>> /= <<m.digest, m.replica>>
  <2>1. x \in Commits /\ x /= m
    BY <1>1, <1>6, <1>7, WaitingType, KindsOfOwn DEF Msgs
  <2>2. x.replica = r BY <1>1, <1>7 DEF Once, FreshIn
  <2>3. x.digest /= m.digest BY <1>3, <1>4, <2>1, <2>2 DEF Commits
  <2>4. QED BY <2>3
<1>8. taken = {Own(r)} /\ loopback[r] /= <<>> BY <1>2, <1>3, <1>6
<1>9. Once' BY <1>3, <1>5, <1>7, <1>8, CommitOnce
<1>10. ~CommitComplete(commit_certificates[r], m.digest)
  <2>1. SUFFICES ASSUME CommitComplete(commit_certificates[r], m.digest)
                 PROVE  FALSE
    OBVIOUS
  <2> DEFINE C == Certificate(commit_certificates[r], m.digest)
  <2>2. commit_certificates[r] \in SUBSET (Digests \X Live)
    BY <1>1 DEF TypeOK
  <2>3. C \subseteq Live /\ IsFiniteSet(Live) /\ Cardinality(Live) \in Nat
    BY <2>2, CertificateType
  <2>4. Cardinality(C) = NumFaulty + 1 BY <2>1 DEF CommitComplete
  <2>5. C = Live
    BY <2>3, <2>4, ReplicasAssumption, FS_Subset DEF NoSpare
  <2>6. PICK p \in commit_certificates[r] : p[1] = m.digest /\ p[2] = r
    BY <2>5 DEF Certificate
  <2>7. p = <<m.digest, r>> BY <2>2, <2>6
  <2>8. QED BY <1>4, <2>6, <2>7
<1>11. QED BY <1>3, <1>5, <1>9, <1>10, CommitInOrder

\* A step that executes nothing keeps the order.
LEMMA OrderKept ==
  ASSUME IInv', Ordered, NoPanic, panicked' = panicked,
         \A i \in Replicas :
            /\ chain'[i].digest_execute = chain[i].digest_execute
            /\ chain'[i].pending = chain[i].pending
  PROVE  Ordered' /\ NoPanic'
BY DEF IInv, OneChain, Ordered, InOrder, NoPanic

\* Every step keeps the order, where no datagram arrives twice and no more
\* replicas run than a certificate takes.
LEMMA ExactStep ==
  ASSUME IInv, IInv', Once, Ordered, NoPanic, NoSpare, MaxDup = 0, [Next]_vars
  PROVE  Once' /\ Ordered' /\ NoPanic'
<1>1. TypeOK /\ NetTypeOK(Msgs, OwnMessages) BY DEF IInv, TypeOK, Msgs
<1>2. ASSUME UNCHANGED executeVars PROVE Ordered' /\ NoPanic'
  BY <1>2, OrderKept DEF executeVars
<1>3. CASE UNCHANGED vars
  <2>1. net' = net /\ UNCHANGED <<quorumVars, loopback>> /\ UNCHANGED executeVars
    BY <1>3 DEF vars, netVars
  <2>2. Once' BY <2>1, OnceQuiet
  <2>3. QED BY <1>2, <2>1, <2>2
<1>4. ASSUME NEW c \in Clients, ClientStep(c)
      PROVE  Once' /\ Ordered' /\ NoPanic'
  <2>1. CASE Invoke(c)
    <3>1. PICK m : m = RequestMsg(c, request_num[c] + 1) OBVIOUS
    <3>2. net' = net \cup SendTo(Live, m) /\ UNCHANGED <<quorumVars, loopback>>
      BY <2>1, <3>1 DEF Invoke, ClientInvoke, ClientSends
    <3>3. m.kind = "Request" BY <3>1 DEF RequestMsg
    <3>4. \A r \in Replicas : \A x \in InFlightTo(net', r) :
             x \in InFlightTo(net, r) \/ x.kind = "Request"
      BY <3>2, <3>3 DEF InFlightTo, SendTo, Datagram
    <3>5. UNCHANGED executeVars BY <2>1 DEF Invoke
    <3>6. QED BY <1>2, <3>2, <3>4, <3>5, OnceQuiet
  <2>2. ASSUME NEW m, HandleReply(c, m) PROVE Once' /\ Ordered' /\ NoPanic'
    <3>1. net' \subseteq net /\ UNCHANGED <<quorumVars, loopback>>
      BY <2>2 DEF HandleReply, ClientHandle, ClientReceives, Flight
    <3>2. \A r \in Replicas : \A x \in InFlightTo(net', r) :
             x \in InFlightTo(net, r) \/ x.kind = "Request"
      BY <3>1 DEF InFlightTo
    <3>3. UNCHANGED executeVars BY <2>2 DEF HandleReply
    <3>4. QED BY <1>2, <3>1, <3>2, <3>3, OnceQuiet
  <2>3. QED BY <1>4, <2>1, <2>2 DEF ClientStep
<1>5. ASSUME NEW r \in Live, ReplicaStep(r)
      PROVE  Once' /\ Ordered' /\ NoPanic'
  <2>1. CASE OnPace(r)
    <3>1. Once' BY <2>1, OnPaceOnce
    <3>2. panicked' = panicked BY <2>1 DEF OnPace
    <3>3. PICK next : /\ chain' = [chain EXCEPT ![r] = next]
                      /\ next = Propose(chain[r], requests[r])
      BY <2>1 DEF OnPace
    <3>4. /\ r \in Replicas /\ chain \in [Replicas -> Chains]
          /\ requests[r] \in Seq(RequestRecords) /\ requests[r] /= <<>>
      BY <1>1, <2>1, LiveAssumption DEF TypeOK, ExecutionTypeOK, OnPace
    <3>5. /\ next.digest_execute = chain[r].digest_execute
          /\ next.pending = chain[r].pending
      BY <3>3, <3>4, ProposeProperties
    <3>6. \A i \in Replicas :
             /\ chain'[i].digest_execute = chain[i].digest_execute
             /\ chain'[i].pending = chain[i].pending
      BY <3>3, <3>4, <3>5
    <3>7. QED BY <3>1, <3>2, <3>6, OrderKept
  <2>2. CASE LoopbackPrepare(r)
    <3>1. UNCHANGED executeVars BY <2>2 DEF LoopbackPrepare, AcceptPrepare
    <3>2. QED BY <1>2, <2>2, <3>1, LoopbackPrepareOnce
  <2>3. CASE LoopbackCommit(r) BY <2>3, LoopbackCommitExact
  <2>4. ASSUME NEW m, HandleRequest(r, m) PROVE Once' /\ Ordered' /\ NoPanic'
    <3>1. /\ HandleDatagram(r, m, {}, <<>>) /\ UNCHANGED quorumVars
          /\ UNCHANGED executeVars /\ r \in Replicas
      BY <2>4, LiveAssumption DEF HandleRequest
    <3>2. PICK own : own = <<>> OBVIOUS
    <3>3. own \in Seq(OwnMessages) /\ Len(own) <= 1 /\ Items(own) = {}
      <4>1. Len(own) = 0 /\ own \in Seq(OwnMessages) BY <3>2, EmptySeq
      <4>2. QED BY <4>1 DEF Items
    <3>4. PICK out : out = {} OBVIOUS
    <3>5. HandleDatagram(r, m, out, own) BY <3>1, <3>2, <3>4
    <3>6. prepares' = prepares /\ commit_certificates' = commit_certificates
      BY <3>1 DEF quorumVars
    <3>7. ASSUME NEW s \in Replicas, NEW x \in InFlightTo(net', s)
          PROVE  FreshTo(s, x)'
      <4>1. InFlightTo(net', s) \subseteq InFlightTo(net, s) \cup InFlightTo(out, s)
        BY <1>1, <3>5, FlightStep
      <4>2. InFlightTo(out, s) = {} BY <3>4, FlightOut
      <4>3. QED BY <3>6, <3>7, <4>1, <4>2 DEF Once, FreshTo
    <3>8. PICK taken : taken = {} OBVIOUS
    <3>9. \A x \in Held(loopback[r]) \ taken : FreshIn(r, x)'
      BY <3>1, <3>6 DEF Once, FreshIn
    <3>10. \A x \in Items(own) : x \notin Held(loopback[r]) /\ FreshIn(r, x)'
      BY <3>3
    <3>11. Once'
      BY <1>1, <3>3, <3>5, <3>6, <3>7, <3>8, <3>9, <3>10, OnceKept
    <3>12. QED BY <1>2, <3>1, <3>11
  <2>5. ASSUME NEW m, HandlePrepare(r, m) PROVE Once' /\ Ordered' /\ NoPanic'
    <3>1. UNCHANGED executeVars BY <2>5 DEF HandlePrepare, AcceptPrepare
    <3>2. QED BY <1>2, <2>5, <3>1, HandlePrepareOnce
  <2>6. ASSUME NEW m, HandleCommit(r, m) PROVE Once' /\ Ordered' /\ NoPanic'
    BY <2>6, HandleCommitExact
  <2>7. QED
    BY <1>5, <2>1, <2>2, <2>3, <2>4, <2>5, <2>6 DEF ReplicaStep
<1>6. QED BY <1>3, <1>4, <1>5 DEF Next
-----------------------------------------------------------------------------
\* The inductive invariant holds throughout.
THEOREM Invariance == Spec => []IInv
<1>1. Init => IInv BY InitHolds
<1>2. IInv /\ [Next]_vars => IInv' BY StepKeeps
<1>3. QED BY <1>1, <1>2, PTL DEF Spec

\* Every variable of the replicas and clients of minbft.rs keeps its type.
THEOREM TypeCorrect == Spec => []TypeOK
<1>1. IInv => TypeOK BY DEF IInv
<1>2. QED BY <1>1, Invariance, PTL

\* do_execute and Chain: what one replica has executed is a prefix of what any
\* other has, or the reverse, even where a duplicated datagram makes a replica
\* execute out of order.
THEOREM ReplicasAgree == Spec => []Agreement
<1>1. ASSUME IInv PROVE Agreement
  <2>1. SUFFICES ASSUME NEW r \in Replicas, NEW s \in Replicas
                 PROVE  \/ IsAncestor(app[r], app[s])
                        \/ IsAncestor(app[s], app[r])
    BY DEF Agreement
  <2>2. /\ app[r] \in Digests /\ app[s] \in Digests /\ Tip \in Digests
    BY <1>1, PrimaryAssumption DEF IInv, TypeOK, ExecutionTypeOK, Tip, Chains
  <2>3. IsAncestor(app[r], Tip) /\ IsAncestor(app[s], Tip)
    BY <1>1 DEF IInv, OneChain, OnOneChain
  <2>4. Len(app[r]) \in Nat /\ Len(app[s]) \in Nat
    BY <2>2, LenProperties DEF Digests
  <2>5. Len(app[r]) <= Len(app[s]) \/ Len(app[s]) <= Len(app[r]) BY <2>4
  <2>6. QED BY <2>2, <2>3, <2>5, AncestorsOfOne DEF Digests
<1>2. QED BY <1>1, Invariance, PTL

\* insert_commit: f + 1 replicas hold every block that any replica has executed.
THEOREM ExecutesHeld == Spec => []ExecutedIsHeld
<1>1. ASSUME IInv PROVE ExecutedIsHeld
  <2>1. SUFFICES ASSUME NEW r \in Replicas, NEW k \in 1..Len(app[r]),
                        NEW d, d = SubSeq(app[r], 1, k)
                 PROVE  Cardinality({i \in Replicas : d \in prepares[i]})
                           >= NumFaulty + 1
    BY DEF ExecutedIsHeld
  <2>2. CommitComplete(commit_certificates[r], d)
    BY <1>1, <2>1 DEF IInv, Settled
  <2> DEFINE C == Certificate(commit_certificates[r], d)
             B == {i \in Replicas : d \in prepares[i]}
  <2>3. commit_certificates[r] \in SUBSET (Digests \X Live)
    BY <1>1 DEF IInv, TypeOK
  <2>4. C \subseteq Replicas BY <2>3, LiveAssumption DEF Certificate
  <2>5. C \subseteq B
    <3>1. SUFFICES ASSUME NEW i \in C PROVE d \in prepares[i] BY <2>4
    <3>2. PICK p \in commit_certificates[r] : p[1] = d /\ p[2] = i
      BY DEF Certificate
    <3>3. QED BY <1>1, <3>2 DEF IInv, CommitsBacked, Backed
  <2>6. IsFiniteSet(B) BY ReplicasAssumption, FS_Subset
  <2> HIDE DEF B
  <2>7. Cardinality(C) <= Cardinality(B) /\ Cardinality(B) \in Nat
    BY <2>5, <2>6, FS_Subset, FS_CardinalityType
  <2>8. Cardinality(C) = NumFaulty + 1 BY <2>2 DEF CommitComplete
  <2>9. QED BY <2>7, <2>8, ReplicasAssumption DEF B
<1>2. QED BY <1>1, Invariance, PTL

\* What the clients are told holds throughout.
LEMMA ServedAlways == Spec => []Served
<1>1. Init => Served
  <2>1. SUFFICES ASSUME Init PROVE Served OBVIOUS
  <2>2. /\ net = {} /\ replies = [c \in Clients |-> {}]
        /\ results = [c \in Clients |-> <<>>]
        /\ invoke = [c \in Clients |-> FALSE]
        /\ request_num = [c \in Clients |-> 0]
    BY <2>1 DEF Init, Init_Multiplex, Init_Client
  <2>3. QED BY <2>2, ConsumedDef DEF Served, ClientServed
<1>2. IInv /\ IInv' /\ Served /\ [Next]_vars => Served' BY ServedStep
<1>3. QED BY <1>1, <1>2, Invariance, PTL DEF Spec

\* Client::handle: what a client consumes for its k-th invocation is the result
\* of executing that very request, where f + 1 replicas executed it.
THEOREM ConsumesExecuted == Spec => []ConsumedIsExecuted
<1>1. Served => ConsumedIsExecuted BY DEF Served
<1>2. QED BY <1>1, ServedAlways, PTL

\* A replica takes up no block twice, executes in order and does not panic
\* where no datagram arrives twice and no more than f + 1 replicas run.
LEMMA ExactAlways ==
  ASSUME NoSpare, MaxDup = 0
  PROVE  Spec => [](Once /\ Ordered /\ NoPanic)
<1>1. Init => Once /\ Ordered /\ NoPanic
  <2>1. SUFFICES ASSUME Init PROVE Once /\ Ordered /\ NoPanic OBVIOUS
  <2>2. NoPanic /\ Ordered BY <2>1, InitHolds DEF Ordered
  <2>3. net = {} /\ loopback = [r \in Replicas |-> <<>>]
    BY <2>1 DEF Init, Init_Multiplex
  <2>4. \A r \in Replicas : InFlightTo(net, r) = {} BY <2>3 DEF InFlightTo
  <2>5. \A r \in Replicas : 1..Len(loopback[r]) = {} BY <2>3, EmptySeq
  <2>6. QED BY <2>2, <2>4, <2>5 DEF Once, Held, Distinct
<1>2. /\ IInv /\ IInv' /\ Once /\ Ordered /\ NoPanic /\ [Next]_vars
      => Once' /\ Ordered' /\ NoPanic'
  BY ExactStep
<1>3. QED BY <1>1, <1>2, Invariance, PTL DEF Spec

\* do_execute: the application follows digest_execute, and nothing executable
\* is left waiting, although the replica's own Commit passes the check for a
\* complete certificate.  A duplicated Prepare makes the replica send, loop back
\* and pass a second Commit, which commits the block again.
THEOREM ExecutesInOrder ==
  ASSUME NoSpare, MaxDup = 0
  PROVE  Spec => []ExecutedInOrder
<1>1. Ordered => ExecutedInOrder
  <2>1. ASSUME Ordered, NEW r \in Replicas
        PROVE  /\ app[r] = chain[r].digest_execute
               /\ \A d \in chain[r].pending :
                     Len(Parent(d)) > Len(app[r])
    <3>1. InOrder(chain[r], app[r], Tip) BY <2>1 DEF Ordered
    <3>2. QED BY <3>1 DEF InOrder, OnOneChain
  <2>2. QED BY <2>1 DEF ExecutedInOrder
<1>2. QED BY <1>1, ExactAlways, PTL

\* Chain::commit never meets a conflict under the same conditions; do_execute
\* finds every block it indexes whatever the network does.
THEOREM NeverPanics ==
  ASSUME NoSpare, MaxDup = 0
  PROVE  Spec => []NoPanic
BY ExactAlways, PTL
-----------------------------------------------------------------------------
(* The service                                                             *)

\* A request is at one place: on its way to the primary, in its queue, or in one
\* block.
OncePlaced ==
    OnePlace(InFlightTo(net, Primary), requests[Primary], Tip, request_num)

\* No replica's log is ever cut.
Grows == \A i \in Replicas : IsAncestor(app[i], app'[i])

LEMMA GrowsNot == ASSUME IInv, app' = app PROVE Grows
BY AncestorReflexive DEF Grows, IInv, TypeOK, ExecutionTypeOK, Digests

\* The requests there are, and the chain the applications are on.
LEMMA RequestsType ==
  ASSUME IInv
  PROVE  /\ requests[Primary] \in Seq(RequestRecords) /\ Tip \in Digests
         /\ request_num \in [Clients -> Nat]
         /\ \A m \in InFlightTo(net, Primary) : m.kind = "Request" =>
               m \in RequestMsgs
         /\ \A i \in Replicas : app[i] \in Digests /\ IsAncestor(app[i], Tip)
<1>1. requests[Primary] \in Seq(RequestRecords) /\ Tip \in Digests
  BY PrimaryAssumption DEF IInv, TypeOK, ExecutionTypeOK, Chains, Tip
<1>2. request_num \in [Clients -> Nat]
  BY MaxRequestAssumption DEF IInv, TypeOK, ClientTypeOK
<1>3. ASSUME NEW m \in InFlightTo(net, Primary), m.kind = "Request"
      PROVE  m \in RequestMsgs
  <2>1. PICK x \in net : x.to = Primary /\ x.msg = m BY <1>3 DEF InFlightTo
  <2>2. m \in Msgs
    BY <2>1, PrimaryAssumption, ClientsAssumption DEF IInv, TypeOK, NetTypeOK, Msgs
  <2>3. QED
    BY <1>3, <2>2 DEF Msgs, RequestMsgs, OwnMessages, Prepares, Commits
<1>4. \A i \in Replicas : app[i] \in Digests /\ IsAncestor(app[i], Tip)
  BY DEF IInv, TypeOK, ExecutionTypeOK, OneChain, OnOneChain
<1>5. QED BY <1>1, <1>2, <1>3, <1>4

\* A step that sends no request keeps them where they are.
LEMMA QuietPlaced ==
  ASSUME OncePlaced, requests'[Primary] = requests[Primary], Tip' = Tip,
         request_num' = request_num, NEW out, net' \subseteq net \cup out,
         \A x \in out : x.to = Primary => x.msg.kind /= "Request"
  PROVE  OncePlaced'
BY PlacedQuiet DEF OncePlaced

\* invoke sends a request that no client has sent.
LEMMA InvokePlaced ==
  ASSUME IInv, OncePlaced, NEW c \in Clients, Invoke(c)
  PROVE  OncePlaced'
<1>1. PICK sent : sent = InFlightTo(net, Primary) OBVIOUS
<1>2. PICK new : new = InFlightTo(net', Primary) OBVIOUS
<1>3. PICK nums : nums = request_num OBVIOUS
<1>4. PICK n : n = nums[c] + 1 OBVIOUS
<1>5. /\ request_num' = [nums EXCEPT ![c] = n]
      /\ net' = net \cup SendTo(Live, RequestMsg(c, n))
      /\ requests' = requests /\ Tip' = Tip
  BY <1>3, <1>4 DEF Invoke, ClientInvoke, ClientSends, executeVars, Tip
<1>6. \A m \in new : m.kind = "Request" => m \in sent \/ m = RequestMsg(c, n)
  BY <1>1, <1>2, <1>5 DEF InFlightTo, SendTo, Datagram
<1>7. OnePlace(new, requests[Primary], Tip, [nums EXCEPT ![c] = n])
  BY <1>1, <1>3, <1>4, <1>6, RequestsType, PlacedInvoke DEF OncePlaced
<1>8. QED BY <1>2, <1>5, <1>7 DEF OncePlaced

\* A request that the primary receives once waits once.
LEMMA RequestPlaced ==
  ASSUME IInv, OncePlaced, MaxDup = 0, NEW r \in Live, NEW m,
         HandleRequest(r, m)
  PROVE  OncePlaced'
<1>1. PICK q : q = Request(m.client, m.num) OBVIOUS
<1>2. /\ Tip' = Tip /\ request_num' = request_num
      /\ Datagram(r, m) \in net /\ m.kind = "Request"
      /\ HandleDatagram(r, m, {}, <<>>)
      /\ r \in Replicas
  BY LiveAssumption
  DEF HandleRequest, Arrived, executeVars, clientVars, Tip
<1>3. CASE r /= Primary
  <2>1. requests' = requests BY <1>3 DEF HandleRequest
  <2>2. PICK out : out = {} OBVIOUS
  <2>3. /\ net' \subseteq net \cup out
        /\ \A x \in out : x.to = Primary => x.msg.kind /= "Request"
    BY <1>2, <2>2, HandlerSends
  <2>4. QED BY <1>2, <2>1, <2>3, QuietPlaced
<1>4. CASE r = Primary
  <2>1. PICK sent : sent = InFlightTo(net, Primary) OBVIOUS
  <2>2. PICK new : new = InFlightTo(net', Primary) OBVIOUS
  <2>3. m \in sent BY <1>2, <1>4, <2>1 DEF InFlightTo, Datagram
  <2>4. new \subseteq sent \ {m}
    <3>1. NetTypeOK(Msgs, OwnMessages) BY DEF IInv, TypeOK, Msgs
    <3>2. InFlightTo({}, r) = {} BY <1>2, FlightOut
    <3>3. InFlightTo(net', r)
            \subseteq (InFlightTo(net, r) \ {m}) \cup InFlightTo({}, r)
      BY <1>2, <3>1, FlightStep
    <3>4. QED BY <1>4, <2>1, <2>2, <3>2, <3>3
  <2>5. requests'[Primary] = Append(requests[Primary], q)
    BY <1>1, <1>2, <1>4 DEF HandleRequest, IInv, TypeOK
  <2>6. OnePlace(new, Append(requests[Primary], q), Tip, request_num)
    BY <1>1, <1>2, <2>1, <2>3, <2>4, RequestsType, PlacedReceive
    DEF OncePlaced
  <2>7. QED BY <1>2, <2>2, <2>5, <2>6 DEF OncePlaced
<1>5. QED BY <1>3, <1>4

\* A proposal moves the requests of its block from the queue to the chain.
LEMMA OnPacePlaced ==
  ASSUME IInv, OncePlaced, NEW r \in Live, OnPace(r)
  PROVE  OncePlaced'
<1>1. PICK queue : queue = requests[Primary] OBVIOUS
<1>2. PICK ch : ch = chain[Primary] OBVIOUS
<1>3. PICK next : next = Propose(ch, queue) OBVIOUS
<1>4. PICK m : m = PrepareMsg(next.digest_parent) OBVIOUS
<1>5. /\ r = Primary /\ queue /= <<>>
      /\ chain' = [chain EXCEPT ![Primary] = next]
      /\ requests' = [requests EXCEPT ![Primary] = Drained(queue)]
      /\ net' = net \cup SendTo(Peers(r), m)
      /\ request_num' = request_num
  BY <1>1, <1>2, <1>3, <1>4 DEF OnPace, Pace, clientVars
<1>6. /\ queue \in Seq(RequestRecords) /\ ch \in Chains
      /\ Tip = ch.digest_parent /\ Tip' = next.digest_parent
      /\ requests'[Primary] = Drained(queue)
  BY <1>1, <1>2, <1>5, PrimaryAssumption
  DEF IInv, TypeOK, ExecutionTypeOK, Tip
<1>7. PICK sent : sent = InFlightTo(net, Primary) OBVIOUS
<1>8. PICK new : new = InFlightTo(net', Primary) OBVIOUS
<1>9. \A x \in new : x.kind = "Request" => x \in sent
  BY <1>4, <1>5, <1>7, <1>8 DEF InFlightTo, SendTo, Datagram, PrepareMsg
<1>10. OnePlace(sent, queue, ch.digest_parent, request_num)
  BY <1>1, <1>6, <1>7 DEF OncePlaced
<1>11. OnePlace(sent, Drained(queue), next.digest_parent, request_num)
  BY <1>3, <1>5, <1>6, <1>10, PlacedPropose
<1>12. OnePlace(new, Drained(queue), next.digest_parent, request_num)
  BY <1>9, <1>11, PlacedKept
<1>13. QED BY <1>5, <1>6, <1>8, <1>12 DEF OncePlaced

\* insert_commit executes the chain on, and sends no request.
LEMMA CommitPlaced ==
  ASSUME IInv, OncePlaced, NEW r \in Live, NEW m \in Commits, m \in Messages,
         InsertCommit(r, m), net' \subseteq net \cup CommitReplies(r, m)
  PROVE  OncePlaced' /\ Grows
<1>1. /\ ExecutionTypeOK /\ r \in Replicas /\ m.kind = "Commit"
      /\ UNCHANGED <<clientVars, requests>>
  BY LiveAssumption DEF IInv, TypeOK, InsertCommit, Commits
<1>2. Tip' = Tip /\ Grows BY InsertCommitStep DEF Grows
<1>3. PICK out : out = CommitReplies(r, m) OBVIOUS
<1>4. \A x \in out : x.to /= Primary
  BY <1>3, CommitRepliesType, PrimaryAssumption, ClientsAssumption
<1>5. request_num' = request_num /\ requests' = requests
  BY <1>1 DEF clientVars
<1>6. QED BY <1>2, <1>3, <1>4, <1>5, QuietPlaced

\* Every step leaves each request where it is, or moves it on; no log is cut.
LEMMA StepPlaced ==
  ASSUME IInv, OncePlaced, MaxDup = 0, [Next]_vars
  PROVE  OncePlaced' /\ Grows
<1>1. TypeOK BY DEF IInv
<1>2. ASSUME UNCHANGED <<requests, executeVars, request_num>>, NEW out,
             net' \subseteq net \cup out,
             \A x \in out : x.to = Primary => x.msg.kind /= "Request"
      PROVE  OncePlaced' /\ Grows
  <2>1. Tip' = Tip /\ Grows BY <1>2, GrowsNot DEF Tip, executeVars
  <2>2. QED BY <1>2, <2>1, QuietPlaced
<1>3. ASSUME net' \subseteq net \cup {},
             UNCHANGED <<requests, executeVars, request_num>>
      PROVE  OncePlaced' /\ Grows
  <2>1. PICK out : out = {} OBVIOUS
  <2>2. /\ net' \subseteq net \cup out
        /\ \A x \in out : x.to = Primary => x.msg.kind /= "Request"
    BY <1>3, <2>1
  <2>3. QED BY <1>2, <1>3, <2>2
<1>4. CASE UNCHANGED vars
  <2>1. net' \subseteq net \cup {} /\ UNCHANGED <<requests, executeVars, request_num>>
    BY <1>4 DEF vars, netVars, clientVars
  <2>2. QED BY <1>3, <2>1
<1>5. ASSUME NEW c \in Clients, Invoke(c) PROVE OncePlaced' /\ Grows
  <2>1. app' = app BY <1>5 DEF Invoke, executeVars
  <2>2. QED BY <1>5, <2>1, InvokePlaced, GrowsNot
<1>6. ASSUME NEW c \in Clients, NEW m, HandleReply(c, m)
      PROVE  OncePlaced' /\ Grows
  <2>1. net' \subseteq net \cup {}
    BY <1>6 DEF HandleReply, ClientHandle, ClientReceives, Flight
  <2>2. request_num' = request_num
    BY <1>6 DEF HandleReply, ClientHandle, Consume, Collect, clientVars
  <2>3. UNCHANGED <<requests, executeVars, request_num>>
    BY <1>6, <2>2 DEF HandleReply
  <2>4. QED BY <1>3, <2>1, <2>3
<1>7. ASSUME NEW r \in Live, ReplicaStep(r) PROVE OncePlaced' /\ Grows
  <2>1. r \in Replicas /\ Msgs = RequestMsgs \cup OwnMessages
    BY LiveAssumption DEF Msgs
  <2>2. CASE OnPace(r)
    <3>1. app' = app BY <2>2 DEF OnPace
    <3>2. QED BY <2>2, <3>1, OnPacePlaced, GrowsNot
  <2>3. ASSUME NEW m, HandleRequest(r, m) PROVE OncePlaced' /\ Grows
    <3>1. app' = app BY <2>3 DEF HandleRequest, executeVars
    <3>2. QED BY <2>3, <3>1, RequestPlaced, GrowsNot
  <2>4. ASSUME NEW m, AcceptPrepare(r, m), net' \subseteq net \cup CommitOut(r, m)
        PROVE  OncePlaced' /\ Grows
    <3>1. PICK out : out = CommitOut(r, m) OBVIOUS
    <3>2. UNCHANGED <<requests, executeVars, request_num>>
      BY <2>4 DEF AcceptPrepare, clientVars
    <3>3. \A x \in out : x.msg.kind = "Commit"
      BY <3>1 DEF CommitOut, SendTo, Datagram, CommitMsg
    <3>4. net' \subseteq net \cup out BY <2>4, <3>1
    <3>5. QED BY <1>2, <3>2, <3>3, <3>4
  <2>5. CASE LoopbackPrepare(r)
    BY <2>4, <2>5, HandlerSends DEF LoopbackPrepare
  <2>6. ASSUME NEW m, HandlePrepare(r, m) PROVE OncePlaced' /\ Grows
    BY <2>4, <2>6, HandlerSends DEF HandlePrepare
  <2>7. CASE LoopbackCommit(r)
    <3>1. PICK m : m = Own(r) OBVIOUS
    <3>2. m \in Commits /\ m \in Messages
      BY <1>1, <2>1, <2>7, <3>1, MessagesType, KindsOfOwn DEF LoopbackCommit
    <3>3. InsertCommit(r, m) /\ net' \subseteq net \cup CommitReplies(r, m)
      BY <2>7, <3>1, HandlerSends DEF LoopbackCommit
    <3>4. QED BY <3>2, <3>3, CommitPlaced
  <2>8. ASSUME NEW m, HandleCommit(r, m) PROVE OncePlaced' /\ Grows
    <3>1. m \in Commits /\ m \in Messages
      BY <1>1, <2>1, <2>8, MessagesType, KindsOfOwn DEF HandleCommit
    <3>2. InsertCommit(r, m) /\ net' \subseteq net \cup CommitReplies(r, m)
      BY <2>8, HandlerSends DEF HandleCommit
    <3>3. QED BY <3>1, <3>2, CommitPlaced
  <2>9. QED
    BY <1>7, <2>2, <2>3, <2>5, <2>6, <2>7, <2>8 DEF ReplicaStep
<1>8. QED BY <1>4, <1>5, <1>6, <1>7 DEF Next, ClientStep

\* A reply completes an invocation with its answer, or the service takes no step.
LEMMA ReplyServes ==
  ASSUME IInv, Served, NEW c \in Clients, NEW m, HandleReply(c, m)
  PROVE  Service!Respond(c) \/ UNCHANGED Service!vars
<1>1. ClientHandle(c, m) /\ Log' = Log
  BY LogIs DEF HandleReply, executeVars
<1>2. PICK t : t = Tip OBVIOUS
<1>3. t \in Digests
      /\ \A i \in Replicas : app[i] \in Digests /\ IsAncestor(app[i], t)
  BY <1>2, RequestsType
<1>4. PICK log : log = Log OBVIOUS
<1>5. Responded(c, log) \/ UNCHANGED <<request_num, invoke, results>>
  <2>1. NetTypeOK(Msgs, OwnMessages) BY DEF IInv, TypeOK, Msgs
  <2>2. QED BY <1>1, <1>3, <1>4, <2>1, HandleResponds
<1>6. CASE Responded(c, log)
  <2>1. \E k \in 1..Len(log) : \E j \in 1..Len(log[k]) :
           /\ log[k][j] = Service!Request(c, request_num[c])
           /\ results' = [results EXCEPT ![c] =
                 Append(@, [before |-> SubSeq(log, 1, k - 1),
                            upto |-> SubSeq(log[k], 1, j)])]
    BY <1>6 DEF Responded, AnsweredIn, Request, Service!Request
  <2>2. QED BY <1>1, <1>4, <1>6, <2>1 DEF Responded, Service!Respond
<1>7. CASE UNCHANGED <<request_num, invoke, results>>
  BY <1>1, <1>7 DEF Service!vars
<1>8. QED BY <1>5, <1>6, <1>7

\* A replica that executes appends to the log, or the service takes no step.
LEMMA ReplicaServes ==
  ASSUME IInv, IInv', Grows, OncePlaced', UNCHANGED clientVars
  PROVE  Service!AppendBatches \/ UNCHANGED Service!vars
<1>1. UNCHANGED <<request_num, invoke, results>> BY DEF clientVars
<1>2. PICK t : t = Tip OBVIOUS
<1>3. PICK u : u = Tip' OBVIOUS
<1>4. PICK nums : nums = request_num OBVIOUS
<1>5. u \in Digests
  BY <1>3, PrimaryAssumption DEF IInv, TypeOK, ExecutionTypeOK, Chains, Tip
<1>6. \A i \in Replicas : app'[i] \in Digests /\ IsAncestor(app'[i], u)
  BY <1>3 DEF IInv, TypeOK, ExecutionTypeOK, OneChain, OnOneChain
<1>7. t \in Digests /\ nums \in [Clients -> Nat] BY <1>2, <1>4, RequestsType
<1>8. \A i \in Replicas : /\ app[i] \in Digests /\ IsAncestor(app[i], t)
                          /\ IsAncestor(app[i], app'[i])
  BY <1>2, RequestsType DEF Grows
<1>9. Listed(u, nums) BY <1>1, <1>3, <1>4 DEF OncePlaced, OnePlace
<1>10. Log' = Log \/ Appended(Log, Log', nums)
  BY <1>5, <1>6, <1>7, <1>8, <1>9, LogStep
<1>11. CASE Log' = Log BY <1>1, <1>11 DEF Service!vars
<1>12. CASE Appended(Log, Log', nums)
  BY <1>1, <1>4, <1>12 DEF Appended, Service!AppendBatches
<1>13. QED BY <1>10, <1>11, <1>12

\* Every step is one of the service, or none.
LEMMA NextServes ==
  ASSUME IInv, IInv', Served, Grows, OncePlaced', [Next]_vars
  PROVE  [Service!Next]_(Service!vars)
<1>1. CASE UNCHANGED vars BY <1>1, ReplicaServes DEF vars, Service!Next
<1>2. ASSUME NEW c \in Clients, Invoke(c) PROVE Service!Invoke(c)
  <2>1. Log' = Log BY <1>2, LogIs DEF Invoke, executeVars
  <2>2. QED BY <1>2, <2>1 DEF Invoke, ClientInvoke, Service!Invoke
<1>3. ASSUME NEW c \in Clients, NEW m, HandleReply(c, m)
      PROVE  Service!Respond(c) \/ UNCHANGED Service!vars
  BY <1>3, ReplyServes
<1>4. ASSUME NEW r \in Live, ReplicaStep(r)
      PROVE  Service!AppendBatches \/ UNCHANGED Service!vars
  <2>1. UNCHANGED clientVars
    BY <1>4
    DEF ReplicaStep, OnPace, HandleRequest, AcceptPrepare, HandlePrepare,
        LoopbackPrepare, InsertCommit, HandleCommit, LoopbackCommit
  <2>2. QED BY <2>1, ReplicaServes
<1>5. QED BY <1>1, <1>2, <1>3, <1>4 DEF Next, ClientStep, Service!Next

\* The clients cannot tell the replicas from a single log, when the network
\* delivers no request twice: handle_request proposes whatever it is given.
THEOREM ServesLog == ASSUME MaxDup = 0 PROVE Spec => Linearizable
<1>1. Init => Service!Init
  <2>1. SUFFICES ASSUME Init PROVE Service!Init OBVIOUS
  <2>2. Log = <<>> BY <2>1, LogStarts DEF Init, Init_Execution
  <2>3. QED BY <2>1, <2>2 DEF Init, Init_Client, Service!Init
<1>2. Init => OncePlaced
  <2>1. SUFFICES ASSUME Init PROVE OncePlaced OBVIOUS
  <2>2. net = {} /\ Tip = <<>> /\ requests[Primary] = <<>>
    BY <2>1, PrimaryAssumption
    DEF Init, Init_Multiplex, Init_Execution, Tip, NewChain, Genesis
  <2>3. Len(<<>>) = 0 /\ Items(<<>>) = {} BY EmptySeq DEF Items
  <2>4. QED BY <2>2, <2>3 DEF OncePlaced, OnePlace, InBlock, Listed, InFlightTo
<1>3. IInv /\ OncePlaced /\ [Next]_vars => OncePlaced' /\ Grows BY StepPlaced
<1>4. IInv /\ IInv' /\ Served /\ Grows /\ OncePlaced' /\ [Next]_vars
         => [Service!Next]_(Service!vars)
  BY NextServes
<1>5. QED
  BY <1>1, <1>2, <1>3, <1>4, Invariance, ServedAlways, PTL
  DEF Spec, Linearizable, Service!Spec
=============================================================================
