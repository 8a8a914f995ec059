----------------------------- MODULE PbftProofs -----------------------------
(***************************************************************************)
(* Theorems of Pbft: its types, and that its replicas agree, execute in    *)
(* order, execute only what a quorum has certified, and do not panic; and  *)
(* that it implements ReplicatedLog when no datagram arrives twice.        *)
(*                                                                         *)
(* The argument.  The primary is one replica that numbers blocks on one    *)
(* chain, so every digest that is ever sent is an ancestor of the last     *)
(* block it proposed (Tip).  A replica executes and keeps waiting only     *)
(* blocks whose commit certificate is complete, and a complete certificate *)
(* takes no more, so do_execute sees a block at most once; blocks of one   *)
(* chain seen once can neither conflict nor be executed out of order.      *)
(* Without duplicates a request is at one place (OncePlaced): in flight to *)
(* the primary, in its queue or in one block.  So each execution that goes *)
(* beyond all earlier ones appends new requests to the service's log.      *)
(***************************************************************************)
EXTENDS Pbft, ExecutionProofs, FiniteSetTheorems

Tip == chain[Primary].digest_parent

\* d is a block the primary proposed.
OnChain(d) == d \in Digests /\ Len(d) > 0 /\ IsAncestor(d, Tip)

\* Replica i holds d with a complete prepare certificate.
Backed(d, i) ==
    /\ d \in pre_prepares[i]
    /\ Cardinality(Certificate(prepare_certificates[i], d)) >= Quorum - 1

Sound(m) ==
    /\ m.kind \in {"PrePrepare", "Prepare", "Commit"} => OnChain(m.digest)
    /\ m.kind = "Commit" => Backed(m.digest, m.replica)

MessagesSound == \A m \in Messages : Sound(m)

CommitsBacked ==
    \A r \in Replicas : \A p \in commit_certificates[r] : Backed(p[1], p[2])

Ordered == \A r \in Replicas : InOrder(chain[r], app[r], Tip)

\* What waits at a replica or was executed by it has its commit certificate.
Settled ==
    \A r \in Replicas :
        /\ \A d \in chain[r].pending : CommitComplete(commit_certificates[r], d)
        /\ \A k \in 1..Len(app[r]) :
              CommitComplete(commit_certificates[r], SubSeq(app[r], 1, k))

\* No more replicas run than a quorum takes.
NoSpare == Cardinality(Live) <= Quorum

IInv ==
    /\ TypeOK
    /\ MessagesSound
    /\ CommitsBacked
    /\ Ordered
    /\ Settled
    /\ NoSpare => NoPanic

Msgs == RequestMsgs \cup OwnMessages
-----------------------------------------------------------------------------
LEMMA QuorumType == /\ Quorum \in Nat /\ Quorum > 0
                    /\ IsFiniteSet(Live) /\ Cardinality(Live) \in Nat
<1>1. Cardinality(Replicas) \in Nat
  BY ReplicasAssumption, FS_CardinalityType
<1>2. IsFiniteSet(Live) /\ Cardinality(Live) \in Nat
  BY LiveAssumption, ReplicasAssumption, FS_Subset, FS_CardinalityType
<1>3. QED BY <1>1, <1>2, ReplicasAssumption DEF Quorum

\* A certificate holds some of the running replicas, and grows with the pairs.
LEMMA CertificateType ==
  ASSUME NEW C \in SUBSET (Digests \X Live), NEW d
  PROVE  /\ Certificate(C, d) \subseteq Live
         /\ IsFiniteSet(Certificate(C, d))
         /\ Cardinality(Certificate(C, d)) \in Nat
<1>1. Certificate(C, d) \subseteq Live BY DEF Certificate
<1>2. QED BY <1>1, QuorumType, FS_Subset, FS_CardinalityType

\* More votes never make a certificate smaller.
LEMMA CertificateGrows ==
  ASSUME NEW C, NEW D \in SUBSET (Digests \X Live), C \subseteq D, NEW d
  PROVE  /\ Certificate(C, d) \subseteq Certificate(D, d)
         /\ Cardinality(Certificate(C, d)) <= Cardinality(Certificate(D, d))
<1>1. Certificate(C, d) \subseteq Certificate(D, d) BY DEF Certificate
<1>2. QED BY <1>1, CertificateType, FS_Subset

\* A Commit leaves the certificates that were complete as they were.
LEMMA CommitsKeep ==
  ASSUME NEW r \in Replicas, NEW m, NEW d,
         CommitComplete(commit_certificates[r], d)
  PROVE  CommitComplete(CommitsWith(r, m), d)
<1>1. CASE CommitComplete(commit_certificates[r], m.digest)
  BY <1>1 DEF CommitsWith
<1>2. CASE ~CommitComplete(commit_certificates[r], m.digest)
  <2>1. d /= m.digest BY <1>2
  <2>2. CommitsWith(r, m) = commit_certificates[r] \cup {<<m.digest, m.replica>>}
    BY <1>2 DEF CommitsWith
  <2>3. Certificate(CommitsWith(r, m), d) = Certificate(commit_certificates[r], d)
    BY <2>1, <2>2 DEF Certificate
  <2>4. QED BY <2>3 DEF CommitComplete
<1>3. QED BY <1>1, <1>2

\* What a replica sends or is told stays sound while the chain, the blocks
\* held and the prepare certificates only grow.
LEMMA SoundKept ==
  ASSUME TypeOK, TypeOK',
         \A d \in Digests : IsAncestor(d, Tip) => IsAncestor(d, Tip'),
         \A i \in Replicas : /\ pre_prepares[i] \subseteq pre_prepares'[i]
                             /\ prepare_certificates[i]
                                  \subseteq prepare_certificates'[i],
         NEW d, NEW i \in Replicas
  PROVE  /\ OnChain(d) => OnChain(d)'
         /\ Backed(d, i) => Backed(d, i)'
<1>1. OnChain(d) => OnChain(d)' BY DEF OnChain
<1>2. ASSUME Backed(d, i) PROVE Backed(d, i)'
  <2>1. /\ prepare_certificates[i] \in SUBSET (Digests \X Live)
        /\ prepare_certificates'[i] \in SUBSET (Digests \X Live)
    BY DEF TypeOK
  <2> DEFINE a == Cardinality(Certificate(prepare_certificates[i], d))
             b == Cardinality(Certificate(prepare_certificates'[i], d))
  <2>2. a <= b /\ a \in Nat /\ b \in Nat
    BY <2>1, CertificateGrows, CertificateType
  <2>3. a >= Quorum - 1 /\ d \in pre_prepares'[i] BY <1>2 DEF Backed
  <2>4. Backed(d, i)' <=> d \in pre_prepares'[i] /\ b >= Quorum - 1
    BY DEF Backed, Quorum
  <2> HIDE DEF a, b
  <2>5. QED BY <2>2, <2>3, <2>4, QuorumType
<1>3. QED BY <1>1, <1>2
-----------------------------------------------------------------------------
\* HandlerStep and SentType for the messages of pbft.rs.
LEMMA ReplicaSends ==
  ASSUME TypeOK, NEW r \in Live, NEW m,
         NEW out \in SUBSET Datagrams(Msgs), NEW own \in Seq(OwnMessages),
         \/ HandleDatagram(r, m, out, own)
         \/ loopback[r] /= <<>> /\ HandleLoopback(r, out, own)
         \/ Pace(r, out, own)
  PROVE  /\ NetTypeOK(Msgs, OwnMessages)'
         /\ Messages' \subseteq Messages \cup Sent(out, own)
<1>1. NetTypeOK(Msgs, OwnMessages) BY DEF TypeOK, Msgs
<1>2. QED BY <1>1, HandlerStep

\* A message of the replicas, sent to the others and looped back.
LEMMA OwnSentType ==
  ASSUME NEW r \in Live, NEW m \in OwnMessages
  PROVE  /\ SendTo(Peers(r), m) \in SUBSET Datagrams(Msgs)
         /\ <<m>> \in Seq(OwnMessages)
         /\ Sent(SendTo(Peers(r), m), <<m>>) = {m}
<1>1. OwnMessages \in SUBSET Msgs BY DEF Msgs
<1>2. QED BY <1>1, SentType

\* The types of what is on its way, received, and taken from the own channel.
LEMMA MessagesType ==
  ASSUME TypeOK
  PROVE  /\ Messages \subseteq Msgs \cup ReplyMsgs
         /\ \A r \in Replicas : \A m : Arrived(r, m) => m \in Msgs /\ m \in Messages
         /\ \A r \in Replicas : loopback[r] /= <<>> =>
               Own(r) \in OwnMessages /\ Own(r) \in Messages
<1>1. OwnMessages \in SUBSET Msgs /\ NetTypeOK(Msgs, OwnMessages)
  BY DEF TypeOK, Msgs
<1>2. QED BY <1>1, MessagesOfNet DEF Own

\* The kind of a message tells its type.
LEMMA KindsOfOwn ==
  ASSUME NEW m \in Msgs
  PROVE  /\ m.kind = "PrePrepare" => m \in PrePrepares
         /\ m.kind = "Prepare" => m \in Prepares
         /\ m.kind = "Commit" => m \in Commits
         /\ m.kind = "Request" => m \in RequestMsgs
BY DEF Msgs, OwnMessages, RequestMsgs, PrePrepares, Prepares, Commits

-----------------------------------------------------------------------------
\* A step that executes nothing: it keeps the invariant when it keeps the
\* types, sends only sound messages, and nothing it changes shrinks.
LEMMA QuietStep ==
  ASSUME IInv, TypeOK', NEW new, Messages' \subseteq Messages \cup new,
         Messages \subseteq Msgs \cup ReplyMsgs,
         \A m \in new : Sound(m)',
         \A d \in Digests : IsAncestor(d, Tip) => IsAncestor(d, Tip'),
         \A i \in Replicas :
            /\ pre_prepares[i] \subseteq pre_prepares'[i]
            /\ prepare_certificates[i] \subseteq prepare_certificates'[i]
            /\ chain'[i].digest_execute = chain[i].digest_execute
            /\ chain'[i].pending = chain[i].pending,
         commit_certificates' = commit_certificates, app' = app,
         panicked' = panicked
  PROVE  IInv'
<1>1. MessagesSound'
  <2>1. SUFFICES ASSUME NEW m \in Messages PROVE Sound(m)'
    BY DEF MessagesSound
  <2>2. Sound(m) /\ TypeOK BY DEF IInv, MessagesSound
  <2>3. m.kind = "Commit" => m.replica \in Replicas
    <3>1. CASE m \in Msgs
      BY <3>1, KindsOfOwn, LiveAssumption DEF Commits
    <3>2. CASE m \in ReplyMsgs BY <3>2 DEF ReplyMsgs
    <3>3. QED BY <3>1, <3>2
  <2>4. OnChain(m.digest) => OnChain(m.digest)' BY DEF OnChain
  <2>5. m.kind = "Commit" => (Backed(m.digest, m.replica) => Backed(m.digest, m.replica)')
    BY <2>2, <2>3, SoundKept
  <2>6. QED BY <2>2, <2>4, <2>5 DEF Sound
<1>2. CommitsBacked'
  <2>1. SUFFICES ASSUME NEW r \in Replicas, NEW p \in commit_certificates[r]
                 PROVE  Backed(p[1], p[2])'
    BY DEF CommitsBacked
  <2>2. p[2] \in Replicas BY LiveAssumption DEF IInv, TypeOK
  <2>3. Backed(p[1], p[2]) BY DEF IInv, CommitsBacked
  <2>4. QED BY <2>2, <2>3, SoundKept DEF IInv
<1>3. Ordered'
  <2>1. SUFFICES ASSUME NEW r \in Replicas PROVE InOrder(chain'[r], app'[r], Tip')
    BY DEF Ordered
  <2>2. InOrder(chain[r], app[r], Tip) BY DEF IInv, Ordered
  <2>3. chain[r] \in Chains BY DEF IInv, TypeOK, ExecutionTypeOK
  <2>4. QED BY <2>2, <2>3 DEF InOrder, OnOneChain, Chains
<1>4. Settled' BY DEF IInv, Settled, CommitComplete, Quorum
<1>5. NoSpare' => NoPanic' BY DEF IInv, NoSpare, NoPanic, Quorum
<1>6. QED BY <1>1, <1>2, <1>3, <1>4, <1>5 DEF IInv
-----------------------------------------------------------------------------
\* A step that neither orders nor executes, and sends at most a request.
LEMMA UnorderedStep ==
  ASSUME IInv, TypeOK', NEW new, Messages' \subseteq Messages \cup new,
         \A m \in new : m.kind = "Request",
         UNCHANGED <<quorumVars, executeVars>>
  PROVE  IInv'
<1>1. UNCHANGED <<pre_prepares, prepare_certificates, commit_certificates,
                  chain, app, panicked>>
  BY DEF quorumVars, executeVars
<1>2. Tip' = Tip BY <1>1 DEF Tip
<1>3. ASSUME NEW m \in new PROVE Sound(m)' BY <1>3 DEF Sound
<1>4. Messages \subseteq Msgs \cup ReplyMsgs BY MessagesType DEF IInv
<1>5. \A i \in Replicas :
         /\ pre_prepares[i] \subseteq pre_prepares'[i]
         /\ prepare_certificates[i] \subseteq prepare_certificates'[i]
         /\ chain'[i].digest_execute = chain[i].digest_execute
         /\ chain'[i].pending = chain[i].pending
  BY <1>1
<1>6. \A d \in Digests : IsAncestor(d, Tip) => IsAncestor(d, Tip')
  BY <1>2
<1>7. QED BY <1>1, <1>3, <1>4, <1>5, <1>6, QuietStep

\* Each action keeps the invariant.  Those of the clients:
LEMMA InvokeKeeps ==
  ASSUME IInv, NEW c \in Clients, Invoke(c)
  PROVE  IInv'
<1> DEFINE m == RequestMsg(c, request_num[c] + 1)
<1>1. TypeOK /\ ClientInvoke(c, {Primary}) BY DEF IInv, Invoke
<1>2. ClientTypeOK /\ NetTypeOK(Msgs, OwnMessages) BY <1>1 DEF TypeOK, Msgs
<1>3. NetTypeOK(Msgs, OwnMessages)' /\ ClientTypeOK'
  BY <1>1, <1>2, PrimaryAssumption, ClientInvokeType DEF Msgs
<1>4. UNCHANGED <<requests, paced, quorumVars, executeVars>>
  BY DEF Invoke
<1>5. TypeOK'
  BY <1>1, <1>3, <1>4 DEF TypeOK, Msgs, quorumVars, executeVars, ExecutionTypeOK
<1>6. Messages' \subseteq Messages \cup {m}
  BY <1>1 DEF ClientInvoke, ClientSends, Messages, SendTo, Datagram
<1>7. PICK new : new = {m} OBVIOUS
<1>8. \A x \in new : x.kind = "Request" BY <1>7 DEF RequestMsg
<1>9. Messages' \subseteq Messages \cup new BY <1>6, <1>7
<1>10. UNCHANGED <<quorumVars, executeVars>> BY <1>4
<1>11. QED BY <1>5, <1>8, <1>9, <1>10, UnorderedStep

\* Client::handle keeps the invariant.
LEMMA HandleReplyKeeps ==
  ASSUME IInv, NEW c \in Clients, NEW m, HandleReply(c, m)
  PROVE  IInv'
<1>1. TypeOK /\ ClientHandle(c, m) BY DEF IInv, HandleReply
<1>2. ClientTypeOK /\ NetTypeOK(Msgs, OwnMessages) BY <1>1 DEF TypeOK, Msgs
<1>3. NetTypeOK(Msgs, OwnMessages)' /\ ClientTypeOK'
  BY <1>1, <1>2, ClientHandleType
<1>4. UNCHANGED <<requests, paced, quorumVars, executeVars>>
  BY DEF HandleReply
<1>5. TypeOK'
  BY <1>1, <1>3, <1>4 DEF TypeOK, Msgs, quorumVars, executeVars, ExecutionTypeOK
<1>6. Messages' \subseteq Messages \cup {}
  BY <1>1 DEF ClientHandle, ClientReceives, Flight, Messages
<1>7. PICK new : new = {} OBVIOUS
<1>8. UNCHANGED <<quorumVars, executeVars>> BY <1>4
<1>9. QED BY <1>5, <1>6, <1>7, <1>8, UnorderedStep

\* Those of the replicas that order blocks:
LEMMA HandleRequestKeeps ==
  ASSUME IInv, NEW r \in Live, NEW m, HandleRequest(r, m)
  PROVE  IInv'
<1>1. /\ TypeOK /\ r \in Replicas /\ m.kind = "Request" /\ Arrived(r, m)
      /\ HandleDatagram(r, m, {}, <<>>)
      /\ UNCHANGED <<clientVars, quorumVars, executeVars>>
  BY LiveAssumption DEF IInv, HandleRequest
<1>2. m \in RequestMsgs BY <1>1, MessagesType, KindsOfOwn
<1>3. <<>> \in Seq(OwnMessages) /\ {} \in SUBSET Datagrams(Msgs) BY EmptySeq
<1>4. NetTypeOK(Msgs, OwnMessages)
      /\ loopback \in [Replicas -> Seq(OwnEntries(Msgs, OwnMessages))]
  BY <1>1, NetTypeDef DEF TypeOK, Msgs
<1>5. /\ NetTypeOK(Msgs, OwnMessages)'
      /\ Messages' \subseteq Messages \cup Sent({}, <<>>)
  BY <1>1, <1>3, <1>4, HandlerStep
<1>6. requests' \in [Replicas -> Seq(RequestRecords)]
  <2>1. Request(m.client, m.num) \in RequestRecords
    BY <1>2 DEF RequestMsgs, RequestRecords, Request
  <2>2. Append(requests[r], Request(m.client, m.num)) \in Seq(RequestRecords)
    BY <1>1, <2>1, AppendProperties DEF TypeOK
  <2>3. requests \in [Replicas -> Seq(RequestRecords)] BY <1>1 DEF TypeOK
  <2>4. QED BY <2>2, <2>3 DEF HandleRequest
<1>7. paced' \in BOOLEAN BY <1>1 DEF HandleRequest, Event
<1>8. TypeOK'
  BY <1>1, <1>5, <1>6, <1>7
  DEF TypeOK, Msgs, clientVars, quorumVars, executeVars, ClientTypeOK,
      ExecutionTypeOK
<1>9. Messages' \subseteq Messages \cup {}
  <2>1. Sent({}, <<>>) = {} BY DEF Sent
  <2>2. QED BY <2>1, <1>5
<1>10. QED BY <1>1, <1>8, <1>9, UnorderedStep

\* A handler that sends one message to the others and to itself, or none.
LEMMA SendsOrNot ==
  ASSUME NEW r \in Live, NEW m \in OwnMessages, NEW yes \in BOOLEAN,
         NEW out, out = IF yes THEN SendTo(Peers(r), m) ELSE {},
         NEW own, own = IF yes THEN <<m>> ELSE <<>>
  PROVE  /\ out \in SUBSET Datagrams(Msgs)
         /\ own \in Seq(OwnMessages)
         /\ Sent(out, own) \subseteq {m}
         /\ ~yes => Sent(out, own) = {}
<1>1. CASE yes BY <1>1, OwnSentType
<1>2. CASE ~yes
  <2>1. Len(<<>>) = 0 /\ <<>> \in Seq(OwnMessages) BY EmptySeq
  <2>2. QED BY <1>2, <2>1 DEF Sent
<1>3. QED BY <1>1, <1>2

\* The primary's proposal keeps the invariant: it extends the one chain.
LEMMA OnPaceKeeps ==
  ASSUME IInv, NEW r \in Live, OnPace(r)
  PROVE  IInv'
<1>1. PICK next : next = Propose(chain[r], requests[r]) OBVIOUS
<1>2. PICK d : d = next.digest_parent OBVIOUS
<1>3. PICK m : m = PrePrepareMsg(d) OBVIOUS
<1>4. /\ TypeOK /\ r \in Replicas /\ r = Primary /\ requests[r] /= <<>>
      /\ chain' = [chain EXCEPT ![r] = next]
      /\ Pace(r, SendTo(Peers(r), m), <<m>>)
      /\ requests' = [requests EXCEPT ![r] = Drained(@)]
      /\ paced' = TRUE
      /\ UNCHANGED <<clientVars, quorumVars, app, panicked>>
  BY <1>1, <1>2, <1>3, LiveAssumption DEF IInv, OnPace
<1>5. /\ requests \in [Replicas -> Seq(RequestRecords)]
      /\ requests[r] \in Seq(RequestRecords)
      /\ chain[r] \in Chains /\ Tip = chain[r].digest_parent
  BY <1>4 DEF TypeOK, ExecutionTypeOK, Tip
<1>6. /\ next \in Chains /\ d \in Digests /\ Len(d) > 0 /\ IsAncestor(d, d)
      /\ next.digest_execute = chain[r].digest_execute
      /\ next.pending = chain[r].pending
      /\ \A e \in Digests : IsAncestor(e, Tip) => IsAncestor(e, d)
      /\ Drained(requests[r]) \in Seq(RequestRecords)
  BY <1>1, <1>2, <1>4, <1>5, ProposeProperties
<1>7. chain \in [Replicas -> Chains] BY <1>4 DEF TypeOK, ExecutionTypeOK
<1>8. Tip' = d BY <1>2, <1>4, <1>7 DEF Tip
<1>9. m \in OwnMessages /\ m.kind = "PrePrepare" /\ m.digest = d
  BY <1>3, <1>6 DEF PrePrepareMsg, OwnMessages, PrePrepares
<1>10. Sound(m)' BY <1>6, <1>8, <1>9 DEF Sound, OnChain
<1>11. /\ NetTypeOK(Msgs, OwnMessages)'
       /\ Messages' \subseteq Messages \cup {m}
  BY <1>4, <1>9, OwnSentType, ReplicaSends
<1>12. requests' \in [Replicas -> Seq(RequestRecords)]
  BY <1>4, <1>5, <1>6
<1>13. chain' \in [Replicas -> Chains] BY <1>4, <1>6, <1>7
<1>14. TypeOK'
  BY <1>4, <1>11, <1>12, <1>13
  DEF TypeOK, Msgs, clientVars, quorumVars, ClientTypeOK, ExecutionTypeOK
<1>15. UNCHANGED <<pre_prepares, prepare_certificates, commit_certificates,
                   app, panicked>>
  BY <1>4 DEF quorumVars
<1>16. \A i \in Replicas :
         /\ pre_prepares[i] \subseteq pre_prepares'[i]
         /\ prepare_certificates[i] \subseteq prepare_certificates'[i]
         /\ chain'[i].digest_execute = chain[i].digest_execute
         /\ chain'[i].pending = chain[i].pending
  BY <1>4, <1>6, <1>7, <1>15
<1>17. Messages \subseteq Msgs \cup ReplyMsgs BY <1>4, MessagesType
<1>18. PICK new : new = {m} OBVIOUS
<1>19. (\A x \in new : Sound(x)') /\ Messages' \subseteq Messages \cup new
  BY <1>10, <1>11, <1>18
<1>20. \A e \in Digests : IsAncestor(e, Tip) => IsAncestor(e, Tip')
  BY <1>6, <1>8
<1>21. QED BY <1>14, <1>15, <1>16, <1>17, <1>19, <1>20, QuietStep

\* A step that only adds a block or a prepare certificate to a replica.
LEMMA PreparingStep ==
  ASSUME IInv, NetTypeOK(Msgs, OwnMessages)', paced' \in BOOLEAN,
         NEW new, Messages' \subseteq Messages \cup new,
         \A m \in new : Sound(m)',
         pre_prepares' \in [Replicas -> SUBSET Digests],
         prepare_certificates' \in [Replicas -> SUBSET (Digests \X Live)],
         \A i \in Replicas :
            /\ pre_prepares[i] \subseteq pre_prepares'[i]
            /\ prepare_certificates[i] \subseteq prepare_certificates'[i],
         UNCHANGED <<clientVars, requests, commit_certificates, executeVars>>
  PROVE  IInv'
<1>1. TypeOK BY DEF IInv
<1>2. /\ commit_certificates' = commit_certificates
      /\ chain' = chain /\ app' = app /\ panicked' = panicked
      /\ requests' = requests
  BY DEF executeVars
<1>3. TypeOK'
  BY <1>1, <1>2
  DEF TypeOK, Msgs, clientVars, ClientTypeOK, ExecutionTypeOK
<1>4. \A d \in Digests : IsAncestor(d, Tip) => IsAncestor(d, Tip')
  BY <1>2 DEF Tip
<1>5. Messages \subseteq Msgs \cup ReplyMsgs BY <1>1, MessagesType
<1>6. \A i \in Replicas :
         /\ pre_prepares[i] \subseteq pre_prepares'[i]
         /\ prepare_certificates[i] \subseteq prepare_certificates'[i]
         /\ chain'[i].digest_execute = chain[i].digest_execute
         /\ chain'[i].pending = chain[i].pending
  BY <1>2
<1>7. QED BY <1>2, <1>3, <1>4, <1>5, <1>6, QuietStep

\* Taking up a block, whether received or looped back, keeps the invariant.
LEMMA AcceptBlock ==
  ASSUME IInv, NEW r \in Live, NEW m \in PrePrepares, m \in Messages,
         pre_prepares' = [pre_prepares EXCEPT ![r] = @ \cup {m.digest}],
         UNCHANGED <<clientVars, requests, prepare_certificates,
                     commit_certificates, executeVars>>,
         Event(r), NetTypeOK(Msgs, OwnMessages)',
         Messages' \subseteq Messages \cup {PrepareMsg(m.digest, r)}
  PROVE  IInv'
<1>1. TypeOK /\ r \in Replicas BY LiveAssumption DEF IInv
<1>2. m.digest \in Digests /\ m.kind = "PrePrepare" BY DEF PrePrepares
<1>3. OnChain(m.digest) BY <1>2 DEF IInv, MessagesSound, Sound
<1>4. Tip' = Tip BY DEF executeVars, Tip
<1>5. Sound(PrepareMsg(m.digest, r))'
  <2>1. OnChain(m.digest)' BY <1>3, <1>4 DEF OnChain
  <2>2. QED BY <2>1 DEF Sound, PrepareMsg
<1>6. pre_prepares' \in [Replicas -> SUBSET Digests]
  BY <1>1, <1>2 DEF TypeOK
<1>7. \A i \in Replicas : pre_prepares[i] \subseteq pre_prepares'[i]
  BY <1>1 DEF TypeOK
<1>8. prepare_certificates' = prepare_certificates
      /\ prepare_certificates \in [Replicas -> SUBSET (Digests \X Live)]
  BY <1>1 DEF TypeOK
<1>9. paced' \in BOOLEAN BY <1>1 DEF Event, TypeOK
<1>10. PICK new : new = {PrepareMsg(m.digest, r)} OBVIOUS
<1>11. (\A x \in new : Sound(x)') /\ Messages' \subseteq Messages \cup new
  BY <1>5, <1>10
<1>12. UNCHANGED <<clientVars, requests, commit_certificates, executeVars>>
  OBVIOUS
<1>13. \A i \in Replicas :
            /\ pre_prepares[i] \subseteq pre_prepares'[i]
            /\ prepare_certificates[i] \subseteq prepare_certificates'[i]
  BY <1>7, <1>8
<1>14. prepare_certificates' \in [Replicas -> SUBSET (Digests \X Live)]
  BY <1>8
<1>15. QED BY <1>6, <1>9, <1>11, <1>12, <1>13, <1>14, PreparingStep

\* Replica::handle_pre_prepare keeps the invariant.
LEMMA HandlePrePrepareKeeps ==
  ASSUME IInv, NEW r \in Live, NEW m, HandlePrePrepare(r, m)
  PROVE  IInv'
<1>1. TypeOK /\ r \in Replicas BY LiveAssumption DEF IInv
<1>2. m \in PrePrepares /\ m \in Messages
  BY <1>1, MessagesType, KindsOfOwn DEF HandlePrePrepare
<1>3. PICK p : p = PrepareMsg(m.digest, r) OBVIOUS
<1>4. p \in OwnMessages
  BY <1>2, <1>3 DEF PrepareMsg, OwnMessages, Prepares, PrePrepares
<1>5. HandleDatagram(r, m, SendTo(Peers(r), p), <<p>>)
  BY <1>3 DEF HandlePrePrepare
<1>6. /\ NetTypeOK(Msgs, OwnMessages)'
      /\ Messages' \subseteq Messages \cup {PrepareMsg(m.digest, r)}
  BY <1>1, <1>3, <1>4, <1>5, OwnSentType, ReplicaSends
<1>7. QED BY <1>2, <1>6, AcceptBlock DEF HandlePrePrepare

\* The primary's own PrePrepare keeps the invariant.
LEMMA LoopbackPrePrepareKeeps ==
  ASSUME IInv, NEW r \in Live, LoopbackPrePrepare(r)
  PROVE  IInv'
<1>1. TypeOK /\ r \in Replicas BY LiveAssumption DEF IInv
<1>2. PICK m : m = Own(r) OBVIOUS
<1>3. m \in PrePrepares /\ m \in Messages
  BY <1>1, <1>2, MessagesType, KindsOfOwn DEF LoopbackPrePrepare, Msgs
<1>4. <<>> \in Seq(OwnMessages) /\ {} \in SUBSET Datagrams(Msgs)
      /\ Sent({}, <<>>) = {}
  BY EmptySeq DEF Sent
<1>5. loopback[r] /= <<>> /\ HandleLoopback(r, {}, <<>>)
  BY DEF LoopbackPrePrepare
<1>6. /\ NetTypeOK(Msgs, OwnMessages)'
      /\ Messages' \subseteq Messages
  BY <1>1, <1>4, <1>5, ReplicaSends
<1>7. Messages' \subseteq Messages \cup {PrepareMsg(m.digest, r)} BY <1>6
<1>8. QED BY <1>2, <1>3, <1>6, <1>7, AcceptBlock DEF LoopbackPrePrepare

\* A replica sends its Commit only for a block it holds and has prepared.
LEMMA InsertPrepareKeeps ==
  ASSUME IInv, NEW r \in Live, NEW m \in Prepares, m \in Messages,
         InsertPrepare(r, m), NetTypeOK(Msgs, OwnMessages)',
         Messages' \subseteq Messages \cup Sent(CommitOut(r, m), CommitOwn(r, m)),
         Sent(CommitOut(r, m), CommitOwn(r, m)) \subseteq {CommitMsg(m.digest, r)},
         ~SendsCommit(r, m) => Sent(CommitOut(r, m), CommitOwn(r, m)) = {}
  PROVE  IInv'
<1>1. TypeOK /\ r \in Replicas BY LiveAssumption DEF IInv
<1>2. /\ m.digest \in Digests /\ m.kind = "Prepare" /\ m.replica \in Live
  BY DEF Prepares
<1>3. OnChain(m.digest) BY <1>2 DEF IInv, MessagesSound, Sound
<1>4. Tip' = Tip BY DEF InsertPrepare, executeVars, Tip
<1>5. /\ PreparesWith(r, m) \in SUBSET (Digests \X Live)
      /\ prepare_certificates[r] \subseteq PreparesWith(r, m)
  BY <1>1, <1>2 DEF PreparesWith, TypeOK
<1>6. /\ prepare_certificates' \in [Replicas -> SUBSET (Digests \X Live)]
      /\ \A i \in Replicas :
            prepare_certificates[i] \subseteq prepare_certificates'[i]
      /\ prepare_certificates'[r] = PreparesWith(r, m)
  BY <1>1, <1>5 DEF InsertPrepare, TypeOK
<1>7. pre_prepares' = pre_prepares
      /\ pre_prepares' \in [Replicas -> SUBSET Digests]
  BY <1>1 DEF InsertPrepare, TypeOK
<1>8. ASSUME SendsCommit(r, m) PROVE Sound(CommitMsg(m.digest, r))'
  <2>1. OnChain(m.digest)' BY <1>3, <1>4 DEF OnChain
  <2>2. Backed(m.digest, r)'
    <3> DEFINE n == Cardinality(Certificate(PreparesWith(r, m), m.digest))
    <3>1. n + 1 = Quorum /\ m.digest \in pre_prepares[r]
      BY <1>8 DEF SendsCommit, PrepareComplete
    <3>2. n \in Nat BY <1>5, CertificateType
    <3>3. Backed(m.digest, r)' <=> m.digest \in pre_prepares'[r] /\ n >= Quorum - 1
      BY <1>6 DEF Backed, Quorum
    <3> HIDE DEF n
    <3>4. QED BY <3>1, <3>2, <3>3, <1>7
  <2>3. QED BY <2>1, <2>2 DEF Sound, CommitMsg
<1>9. PICK new : new = Sent(CommitOut(r, m), CommitOwn(r, m)) OBVIOUS
<1>10. (\A x \in new : Sound(x)') /\ Messages' \subseteq Messages \cup new
  BY <1>8, <1>9
<1>11. paced' \in BOOLEAN BY <1>1 DEF InsertPrepare, Event, TypeOK
<1>12. UNCHANGED <<clientVars, requests, commit_certificates, executeVars>>
  BY DEF InsertPrepare
<1>13. \A i \in Replicas :
            /\ pre_prepares[i] \subseteq pre_prepares'[i]
            /\ prepare_certificates[i] \subseteq prepare_certificates'[i]
  BY <1>6, <1>7
<1>14. QED BY <1>6, <1>7, <1>10, <1>11, <1>12, <1>13, PreparingStep

\* insert_prepare sends nothing but its own Commit, and that only when the
\* certificate is complete and the block held.
LEMMA CommitSent ==
  ASSUME NEW r \in Live, NEW m \in Prepares
  PROVE  /\ CommitOut(r, m) \in SUBSET Datagrams(Msgs)
         /\ CommitOwn(r, m) \in Seq(OwnMessages)
         /\ Sent(CommitOut(r, m), CommitOwn(r, m)) \subseteq {CommitMsg(m.digest, r)}
         /\ ~SendsCommit(r, m) => Sent(CommitOut(r, m), CommitOwn(r, m)) = {}
<1>1. CommitMsg(m.digest, r) \in OwnMessages
  BY DEF CommitMsg, OwnMessages, Prepares, Commits
<1>2. SendsCommit(r, m) \in BOOLEAN BY DEF SendsCommit
<1>3. QED BY <1>1, <1>2, SendsOrNot DEF CommitOut, CommitOwn

\* Replica::handle_prepare keeps the invariant.
LEMMA HandlePrepareKeeps ==
  ASSUME IInv, NEW r \in Live, NEW m, HandlePrepare(r, m)
  PROVE  IInv'
<1>1. TypeOK /\ r \in Replicas BY LiveAssumption DEF IInv
<1>2. m \in Prepares /\ m \in Messages
  BY <1>1, MessagesType, KindsOfOwn DEF HandlePrepare
<1>3. /\ NetTypeOK(Msgs, OwnMessages)'
      /\ Messages' \subseteq
            Messages \cup Sent(CommitOut(r, m), CommitOwn(r, m))
  BY <1>1, <1>2, CommitSent, ReplicaSends DEF HandlePrepare
<1>4. QED BY <1>2, <1>3, CommitSent, InsertPrepareKeeps DEF HandlePrepare

\* A looped-back Prepare keeps the invariant.
LEMMA LoopbackPrepareKeeps ==
  ASSUME IInv, NEW r \in Live, LoopbackPrepare(r)
  PROVE  IInv'
<1>1. TypeOK /\ r \in Replicas BY LiveAssumption DEF IInv
<1>2. PICK m : m = Own(r) OBVIOUS
<1>3. m \in Prepares /\ m \in Messages
  BY <1>1, <1>2, MessagesType, KindsOfOwn DEF LoopbackPrepare, Msgs
<1>4. /\ NetTypeOK(Msgs, OwnMessages)'
      /\ Messages' \subseteq
            Messages \cup Sent(CommitOut(r, m), CommitOwn(r, m))
  BY <1>1, <1>2, <1>3, CommitSent, ReplicaSends DEF LoopbackPrepare
<1>5. QED
  BY <1>2, <1>3, <1>4, CommitSent, InsertPrepareKeeps DEF LoopbackPrepare
-----------------------------------------------------------------------------
\* A block whose certificate is not complete is new to do_execute.
LEMMA NewBlock ==
  ASSUME IInv, NEW r \in Replicas, NEW d, OnChain(d),
         ~CommitComplete(commit_certificates[r], d)
  PROVE  d \notin chain[r].pending /\ ~IsAncestor(d, app[r])
<1>1. d \notin chain[r].pending BY DEF IInv, Settled
<1>2. ASSUME IsAncestor(d, app[r]) PROVE FALSE
  <2> DEFINE h == Len(d)
             n == Len(app[r])
  <2>1. app[r] \in Digests BY DEF IInv, TypeOK, ExecutionTypeOK
  <2>2. h \in Nat /\ h > 0 /\ n \in Nat BY <2>1, LenProperties DEF OnChain, Digests
  <2>3. h <= n /\ d = SubSeq(app[r], 1, h) BY <1>2 DEF IsAncestor
  <2>4. h \in 1..n
    <3> HIDE DEF h, n
    <3>1. QED BY <2>2, <2>3
  <2>5. CommitComplete(commit_certificates[r], SubSeq(app[r], 1, h))
    BY <2>4 DEF IInv, Settled
  <2>6. QED BY <2>3, <2>5
<1>3. QED BY <1>1, <1>2

\* When no more replicas run than a quorum takes, a complete certificate names
\* them all, so the replica that completes it holds the block itself.
LEMMA CompleteIsHeld ==
  ASSUME IInv, NoSpare, NEW r \in Live, NEW C \in SUBSET (Digests \X Live),
         \A p \in C : Backed(p[1], p[2]), NEW d, CommitComplete(C, d)
  PROVE  d \in pre_prepares[r]
<1>1. Certificate(C, d) \subseteq Live BY DEF Certificate
<1>2. Cardinality(Certificate(C, d)) = Quorum BY DEF CommitComplete
<1>3. Certificate(C, d) = Live
  <2>1. /\ IsFiniteSet(Live) /\ Cardinality(Live) \in Nat
        /\ Quorum \in Nat /\ Cardinality(Live) <= Quorum
    BY QuorumType DEF NoSpare
  <2>2. QED BY <1>1, <1>2, <2>1, FS_Subset
<1>4. PICK p \in C : p[1] = d /\ p[2] = r BY <1>3 DEF Certificate
<1>5. QED BY <1>4 DEF Backed

\* What InsertCommit does to a replica and its certificates.
LEMMA InsertCommitStep ==
  ASSUME IInv, NEW r \in Live, NEW m \in Commits, m \in Messages,
         InsertCommit(r, m)
  PROVE  /\ ExecutionTypeOK' /\ Tip' = Tip /\ Ordered' /\ Settled'
         /\ NoSpare => NoPanic'
<1>1. /\ TypeOK /\ r \in Replicas /\ m.digest \in Digests /\ m.replica \in Live
      /\ m.kind = "Commit"
  BY LiveAssumption DEF IInv, Commits
<1>2. PICK t : t = Tip OBVIOUS
<1>3. PICK d : d = m.digest OBVIOUS
<1>4. OnChain(d) /\ Backed(d, m.replica)
  BY <1>1, <1>3 DEF IInv, MessagesSound, Sound
<1>5. ExecutionTypeOK /\ t \in Digests /\ t = Tip
  BY <1>1, <1>2, PrimaryAssumption DEF TypeOK, ExecutionTypeOK, Tip, Chains
<1>6. commit_certificates' = [commit_certificates EXCEPT ![r] = CommitsWith(r, m)]
  BY DEF InsertCommit
<1>7. commit_certificates \in [Replicas -> SUBSET (Digests \X Live)]
  BY <1>1 DEF TypeOK
<1>8. /\ commit_certificates'[r] = CommitsWith(r, m)
      /\ \A s \in Replicas : s /= r => commit_certificates'[s] = commit_certificates[s]
  BY <1>1, <1>6, <1>7
<1>9. ASSUME NEW s \in Replicas, NEW e,
             CommitComplete(commit_certificates[s], e)
      PROVE  CommitComplete(commit_certificates'[s], e)
  BY <1>8, <1>9, CommitsKeep
<1>10. \A s \in Replicas : InOrder(chain[s], app[s], t)
  BY <1>5 DEF IInv, Ordered
<1>11. CASE ~Executes(r, m)
  <2>1. chain' = chain /\ app' = app /\ panicked' = panicked
    BY <1>11 DEF InsertCommit, executeVars
  <2>2. ExecutionTypeOK' BY <1>5, <2>1 DEF ExecutionTypeOK
  <2>3. Tip' = Tip BY <2>1 DEF Tip
  <2>4. Ordered' BY <1>10, <1>5, <2>1, <2>3 DEF Ordered
  <2>5. Settled'
    <3>1. ASSUME NEW s \in Replicas, NEW e \in chain'[s].pending
          PROVE  CommitComplete(commit_certificates'[s], e)
      BY <1>9, <2>1, <3>1 DEF IInv, Settled
    <3>2. ASSUME NEW s \in Replicas, NEW k \in 1..Len(app'[s])
          PROVE  CommitComplete(commit_certificates'[s], SubSeq(app'[s], 1, k))
      BY <1>9, <2>1, <3>2 DEF IInv, Settled
    <3>3. QED BY <3>1, <3>2 DEF Settled, CommitComplete, Quorum
  <2>6. NoSpare => NoPanic' BY <2>1 DEF IInv, NoPanic
  <2>7. QED BY <2>2, <2>3, <2>4, <2>5, <2>6
<1>12. CASE Executes(r, m)
  <2>1. /\ ~CommitComplete(commit_certificates[r], d)
        /\ CommitComplete(CommitsWith(r, m), d)
        /\ DoExecute(r, d, pre_prepares[r])
    BY <1>3, <1>12 DEF Executes, InsertCommit
  <2>2. d \notin chain[r].pending /\ ~IsAncestor(d, app[r])
    BY <1>1, <1>4, <2>1, NewBlock
  <2>3. d \in Digests /\ Len(d) > 0 /\ IsAncestor(d, t)
    BY <1>4, <1>5 DEF OnChain
  <2>4. PICK held : held = pre_prepares[r] OBVIOUS
  <2>20. OnOneChain(chain[r], app[r], t) BY <1>1, <1>10 DEF InOrder
  <2>5. /\ ExecutionTypeOK'
        /\ InOrder(chain'[r], app'[r], t)
        /\ chain'[r].digest_parent = chain[r].digest_parent
        /\ \A s \in Replicas : s /= r => /\ chain'[s] = chain[s]
                                         /\ app'[s] = app[s]
                                         /\ panicked'[s] = panicked[s]
        /\ panicked'[r] = IF d \in held THEN "no" ELSE "index"
        /\ chain'[r].pending \subseteq chain[r].pending \cup {d}
        /\ \A k \in 1..Len(app'[r]) :
              \/ k <= Len(app[r]) /\ SubSeq(app'[r], 1, k) = SubSeq(app[r], 1, k)
              \/ SubSeq(app'[r], 1, k) \in chain[r].pending \cup {d}
    <3>1. DoExecute(r, d, held) BY <2>1, <2>4
    <3>2. /\ InOrder(chain'[r], app'[r], t)
          /\ panicked'[r] = IF d \in held THEN "no" ELSE "index"
      BY <1>1, <1>5, <1>10, <2>2, <2>3, <3>1, DoExecuteStep
    <3>3. /\ ExecutionTypeOK'
          /\ chain'[r].digest_parent = chain[r].digest_parent
          /\ \A s \in Replicas : s /= r => /\ chain'[s] = chain[s]
                                           /\ app'[s] = app[s]
                                           /\ panicked'[s] = panicked[s]
          /\ chain'[r].pending \subseteq chain[r].pending \cup {d}
          /\ \A k \in 1..Len(app'[r]) :
                \/ /\ k <= Len(app[r])
                   /\ SubSeq(app'[r], 1, k) = SubSeq(app[r], 1, k)
                \/ SubSeq(app'[r], 1, k) \in chain[r].pending \cup {d}
      BY <1>5, <2>3, <2>20, <3>1, DoExecuteAny
    <3>4. QED BY <3>2, <3>3
  <2>6. Tip' = Tip BY <2>5, PrimaryAssumption DEF Tip
  <2>7. Ordered' BY <1>10, <1>5, <2>5, <2>6 DEF Ordered
  <2>8. Settled'
    <3>1. CommitComplete(commit_certificates'[r], d) BY <1>8, <2>1
    <3>2. ASSUME NEW s \in Replicas, NEW e \in chain'[s].pending
          PROVE  CommitComplete(commit_certificates'[s], e)
      BY <1>9, <2>5, <3>1, <3>2 DEF IInv, Settled
    <3>3. ASSUME NEW s \in Replicas, NEW k \in 1..Len(app'[s])
          PROVE  CommitComplete(commit_certificates'[s], SubSeq(app'[s], 1, k))
      <4>1. CASE s /= r
        BY <1>9, <2>5, <3>3, <4>1 DEF IInv, Settled
      <4>2. CASE s = r
        <5>1. CASE SubSeq(app'[r], 1, k) \in chain[r].pending \cup {d}
          BY <1>9, <3>1, <5>1, <4>2 DEF IInv, Settled
        <5>2. CASE k <= Len(app[r]) /\ SubSeq(app'[r], 1, k) = SubSeq(app[r], 1, k)
          <6>1. k \in 1..Len(app[r])
            <7>1. k \in Nat /\ k >= 1
              <8>1. app'[r] \in Digests BY <1>1, <2>5 DEF ExecutionTypeOK
              <8>2. Len(app'[r]) \in Nat BY <8>1, LenProperties DEF Digests
              <8>3. QED BY <8>2, <3>3, <4>2
            <7>2. app[r] \in Digests BY <1>1, <1>5 DEF ExecutionTypeOK
            <7>3. Len(app[r]) \in Nat BY <7>2, LenProperties DEF Digests
            <7>4. QED BY <7>1, <7>3, <5>2
          <6>2. CommitComplete(commit_certificates[r], SubSeq(app[r], 1, k))
            BY <6>1, <1>1 DEF IInv, Settled
          <6>3. QED BY <1>9, <5>2, <6>2, <4>2
        <5>3. QED BY <5>1, <5>2, <2>5, <3>3, <4>2
      <4>3. QED BY <4>1, <4>2
    <3>4. QED BY <3>2, <3>3 DEF Settled, CommitComplete, Quorum
  <2>9. ASSUME NoSpare PROVE NoPanic'
    <3>1. CommitsWith(r, m) \in SUBSET (Digests \X Live)
      BY <1>1, <1>7 DEF CommitsWith
    <3>2. \A p \in CommitsWith(r, m) : Backed(p[1], p[2])
      BY <1>1, <1>3, <1>4 DEF CommitsWith, IInv, CommitsBacked
    <3>3. d \in pre_prepares[r] BY <2>1, <2>9, <3>1, <3>2, CompleteIsHeld
    <3>4. \A s \in Replicas : panicked[s] = "no" BY <2>9 DEF IInv, NoPanic
    <3>5. QED BY <2>4, <2>5, <3>3, <3>4 DEF NoPanic
  <2>10. QED BY <2>5, <2>6, <2>7, <2>8, <2>9
<1>13. QED BY <1>11, <1>12

\* Only do_execute's replies are sent.
LEMMA CommitRepliesType ==
  ASSUME IInv, NEW r \in Live, NEW m \in Commits, m \in Messages
  PROVE  CommitReplies(r, m) \in SUBSET [to : Clients, msg : ReplyMsgs]
<1>1. CASE ~(Executes(r, m) /\ Panic(r, m.digest, pre_prepares[r]) = "no")
  BY <1>1 DEF CommitReplies, ReplyOut
<1>2. CASE Executes(r, m) /\ Panic(r, m.digest, pre_prepares[r]) = "no"
  <2>1. r \in Replicas /\ m.kind = "Commit"
        /\ TypeOK /\ ExecutionTypeOK
    BY LiveAssumption DEF IInv, TypeOK, Commits
  <2>2. PICK t : t = Tip OBVIOUS
  <2>3. PICK d : d = m.digest OBVIOUS
  <2>4. OnChain(d) BY <2>1, <2>3 DEF IInv, MessagesSound, Sound
  <2>5. t \in Digests /\ app[r] \in Digests
    BY <2>1, <2>2, PrimaryAssumption DEF ExecutionTypeOK, Tip, Chains
  <2>6. InOrder(chain[r], app[r], t) BY <2>1, <2>2 DEF IInv, Ordered
  <2>7. d \in Digests /\ Len(d) > 0 /\ IsAncestor(d, t)
    BY <2>2, <2>4 DEF OnChain
  <2>8. Applied(r, d) \in Digests
    BY <2>1, <2>5, <2>6, <2>7, AppliedProperties DEF InOrder
  <2>9. Replies(r, d) \subseteq [to : Clients, msg : ReplyMsgs]
    BY <2>5, <2>7, <2>8, RepliesType
  <2>10. QED BY <1>2, <2>3, <2>9 DEF CommitReplies, ReplyOut
<1>3. QED BY <1>1, <1>2

\* What executing a block keeps.
LEMMA InsertCommitKeeps ==
  ASSUME IInv, NEW r \in Live, NEW m \in Commits, m \in Messages,
         InsertCommit(r, m), NetTypeOK(Msgs, OwnMessages)',
         NEW new, Messages' \subseteq Messages \cup new,
         \A x \in new : x.kind = "Reply"
  PROVE  IInv'
<1>1. /\ TypeOK /\ r \in Replicas /\ m.digest \in Digests /\ m.replica \in Live
      /\ m.kind = "Commit"
  BY LiveAssumption DEF IInv, Commits
<1>2. /\ ExecutionTypeOK' /\ Tip' = Tip /\ Ordered' /\ Settled'
      /\ NoSpare => NoPanic'
  BY InsertCommitStep
<1>3. /\ pre_prepares' = pre_prepares
      /\ prepare_certificates' = prepare_certificates
      /\ requests' = requests /\ paced' = (paced /\ r /= Primary)
      /\ UNCHANGED clientVars
      /\ commit_certificates' =
            [commit_certificates EXCEPT ![r] = CommitsWith(r, m)]
  BY DEF InsertCommit, Event
<1>4. commit_certificates \in [Replicas -> SUBSET (Digests \X Live)]
  BY <1>1 DEF TypeOK
<1>5. CommitsWith(r, m) \in SUBSET (Digests \X Live)
      /\ \A p \in CommitsWith(r, m) : \/ p \in commit_certificates[r]
                                      \/ p = <<m.digest, m.replica>>
  BY <1>1, <1>4 DEF CommitsWith
<1>6. commit_certificates' \in [Replicas -> SUBSET (Digests \X Live)]
  BY <1>3, <1>4, <1>5
<1>7. TypeOK'
  BY <1>1, <1>2, <1>3, <1>6 DEF TypeOK, Msgs, clientVars, ClientTypeOK
<1>8. \A d, i : Backed(d, i)' <=> Backed(d, i)
  BY <1>3 DEF Backed, Quorum, Certificate
<1>9. \A d : OnChain(d)' <=> OnChain(d) BY <1>2 DEF OnChain
<1>10. MessagesSound'
  <2>1. \A x \in Messages : Sound(x)
    BY DEF IInv, MessagesSound
  <2>2. \A x \in Messages : Sound(x)' BY <2>1, <1>8, <1>9 DEF Sound
  <2>3. \A x \in new : Sound(x)' BY DEF Sound
  <2>4. QED BY <2>2, <2>3 DEF MessagesSound
<1>11. CommitsBacked'
  <2>1. Backed(m.digest, m.replica) BY <1>1 DEF IInv, MessagesSound, Sound
  <2>2. \A s \in Replicas : \A p \in commit_certificates[s] : Backed(p[1], p[2])
    BY DEF IInv, CommitsBacked
  <2>3. \A p \in CommitsWith(r, m) : Backed(p[1], p[2])
    BY <1>1, <1>5, <2>1, <2>2
  <2>4. \A s \in Replicas : \A p \in commit_certificates'[s] : Backed(p[1], p[2])
    BY <1>1, <1>3, <1>4, <2>2, <2>3
  <2>5. QED BY <2>4, <1>8 DEF CommitsBacked
<1>12. NoSpare' => NoPanic' BY <1>2 DEF NoSpare, Quorum
<1>13. QED BY <1>2, <1>7, <1>10, <1>11, <1>12 DEF IInv

\* Replica::handle_commit keeps the invariant.
LEMMA HandleCommitKeeps ==
  ASSUME IInv, NEW r \in Live, NEW m, HandleCommit(r, m)
  PROVE  IInv'
<1>1. TypeOK /\ r \in Replicas BY LiveAssumption DEF IInv
<1>2. m \in Commits /\ m \in Messages
  BY <1>1, MessagesType, KindsOfOwn DEF HandleCommit
<1>3. PICK out : out = CommitReplies(r, m) OBVIOUS
<1>4. out \in SUBSET [to : Clients, msg : ReplyMsgs]
  BY <1>2, <1>3, CommitRepliesType
<1>5. PICK new : new = Sent(out, <<>>) OBVIOUS
<1>6. out \in SUBSET Datagrams(Msgs) /\ \A x \in new : x.kind = "Reply"
  BY <1>4, <1>5, RepliesOnly
<1>7. HandleDatagram(r, m, out, <<>>) /\ InsertCommit(r, m)
  BY <1>3 DEF HandleCommit
<1>8. <<>> \in Seq(OwnMessages) BY EmptySeq
<1>9. NetTypeOK(Msgs, OwnMessages)' /\ Messages' \subseteq Messages \cup new
  BY <1>1, <1>5, <1>6, <1>7, <1>8, ReplicaSends
<1>10. QED BY <1>2, <1>6, <1>7, <1>9, InsertCommitKeeps

\* A looped-back Commit keeps the invariant.
LEMMA LoopbackCommitKeeps ==
  ASSUME IInv, NEW r \in Live, LoopbackCommit(r)
  PROVE  IInv'
<1>1. TypeOK /\ r \in Replicas BY LiveAssumption DEF IInv
<1>2. PICK m : m = Own(r) OBVIOUS
<1>3. m \in Commits /\ m \in Messages
  BY <1>1, <1>2, MessagesType, KindsOfOwn DEF LoopbackCommit, Msgs
<1>4. PICK out : out = CommitReplies(r, m) OBVIOUS
<1>5. out \in SUBSET [to : Clients, msg : ReplyMsgs]
  BY <1>3, <1>4, CommitRepliesType
<1>6. PICK new : new = Sent(out, <<>>) OBVIOUS
<1>7. out \in SUBSET Datagrams(Msgs) /\ \A x \in new : x.kind = "Reply"
  BY <1>5, <1>6, RepliesOnly
<1>8. /\ loopback[r] /= <<>> /\ HandleLoopback(r, out, <<>>)
      /\ InsertCommit(r, m)
  BY <1>2, <1>4 DEF LoopbackCommit
<1>9. <<>> \in Seq(OwnMessages) BY EmptySeq
<1>10. NetTypeOK(Msgs, OwnMessages)' /\ Messages' \subseteq Messages \cup new
  BY <1>1, <1>6, <1>7, <1>8, <1>9, ReplicaSends
<1>11. QED BY <1>3, <1>7, <1>8, <1>10, InsertCommitKeeps
-----------------------------------------------------------------------------
LEMMA InitHolds ==
  ASSUME Init
  PROVE  IInv
<1>1. /\ net = {} /\ loopback = [r \in Replicas |-> <<>>] /\ dup = 0
      /\ chain = [r \in Replicas |-> NewChain]
      /\ app = [r \in Replicas |-> <<>>]
      /\ panicked = [r \in Replicas |-> "no"]
      /\ requests = [r \in Replicas |-> <<>>]
      /\ pre_prepares = [r \in Replicas |-> {}]
      /\ prepare_certificates = [r \in Replicas |-> {}]
      /\ commit_certificates = [r \in Replicas |-> {}]
      /\ paced = TRUE
  BY DEF Init, Init_Multiplex, Init_Execution
<1>2. /\ \A S : <<>> \in Seq(S)
      /\ Len(<<>>) = 0 /\ <<>> \in Digests
  BY EmptySeq DEF Digests
<1>3. NewChain \in Chains /\ NewChain.pending = {}
      /\ NewChain.digest_execute = <<>> /\ NewChain.digest_parent = <<>>
  BY <1>2 DEF NewChain, Genesis, Chains
<1>4. TypeOK
  <2>1. ClientTypeOK
    BY <1>2, MaxRequestAssumption DEF Init, Init_Client, ClientTypeOK
  <2>2. ExecutionTypeOK BY <1>1, <1>2, <1>3 DEF ExecutionTypeOK
  <2>3. NetTypeOK(RequestMsgs \cup OwnMessages, OwnMessages)
    BY <1>1, <1>2, MaxDupAssumption DEF NetTypeOK
  <2>4. QED BY <1>1, <1>2, <2>1, <2>2, <2>3 DEF TypeOK
<1>5. MessagesSound
  <2>1. \A r \in Replicas : 1..Len(loopback[r]) = {} BY <1>1, <1>2
  <2>2. Messages = {} BY <1>1, <2>1 DEF Messages
  <2>3. QED BY <2>2 DEF MessagesSound
<1>6. CommitsBacked BY <1>1 DEF CommitsBacked
<1>7. Ordered
  <2>1. Tip = <<>> BY <1>1, <1>3, PrimaryAssumption DEF Tip
  <2>2. IsAncestor(<<>>, <<>>) BY <1>2, AncestorReflexive DEF Digests
  <2>3. QED BY <1>1, <1>3, <2>1, <2>2 DEF Ordered, InOrder, OnOneChain
<1>8. Settled
  <2>1. \A r \in Replicas : 1..Len(app[r]) = {} /\ chain[r].pending = {}
    BY <1>1, <1>2, <1>3
  <2>2. QED BY <2>1 DEF Settled
<1>9. NoPanic BY <1>1 DEF NoPanic
<1>10. QED BY <1>4, <1>5, <1>6, <1>7, <1>8, <1>9 DEF IInv

\* Every step keeps the invariant.
LEMMA StepKeeps ==
  ASSUME IInv, [Next]_vars
  PROVE  IInv'
<1>1. CASE UNCHANGED vars
  <2>1. /\ net' = net /\ loopback' = loopback /\ dup' = dup
        /\ UNCHANGED clientVars /\ requests' = requests /\ paced' = paced
        /\ UNCHANGED <<quorumVars, executeVars>>
    BY <1>1 DEF vars, netVars
  <2>2. TypeOK'
    BY <2>1
    DEF IInv, TypeOK, NetTypeOK, clientVars, ClientTypeOK, quorumVars,
        executeVars, ExecutionTypeOK
  <2>3. Messages' = Messages BY <2>1 DEF Messages
  <2>4. PICK new : new = {} OBVIOUS
  <2>5. Messages' \subseteq Messages \cup new BY <2>3
  <2>6. UNCHANGED <<quorumVars, executeVars>> BY <2>1
  <2>7. QED BY <2>2, <2>4, <2>5, <2>6, UnorderedStep
<1>2. ASSUME NEW c \in Clients, ClientStep(c) PROVE IInv'
  BY <1>2, InvokeKeeps, HandleReplyKeeps DEF ClientStep
<1>3. ASSUME NEW r \in Live, ReplicaStep(r) PROVE IInv'
  <2>1. CASE OnPace(r) BY <2>1, OnPaceKeeps
  <2>2. CASE LoopbackPrePrepare(r) BY <2>2, LoopbackPrePrepareKeeps
  <2>3. CASE LoopbackPrepare(r) BY <2>3, LoopbackPrepareKeeps
  <2>4. CASE LoopbackCommit(r) BY <2>4, LoopbackCommitKeeps
  <2>5. ASSUME NEW m, HandleRequest(r, m) PROVE IInv'
    BY <2>5, HandleRequestKeeps
  <2>6. ASSUME NEW m, HandlePrePrepare(r, m) PROVE IInv'
    BY <2>6, HandlePrePrepareKeeps
  <2>7. ASSUME NEW m, HandlePrepare(r, m) PROVE IInv'
    BY <2>7, HandlePrepareKeeps
  <2>8. ASSUME NEW m, HandleCommit(r, m) PROVE IInv'
    BY <2>8, HandleCommitKeeps
  <2>9. QED
    BY <1>3, <2>1, <2>2, <2>3, <2>4, <2>5, <2>6, <2>7, <2>8 DEF ReplicaStep
<1>4. QED BY <1>1, <1>2, <1>3 DEF Next

-----------------------------------------------------------------------------
\* Clients.  A step of a replica that executes nothing sends no client anything.
LEMMA QuietServed ==
  ASSUME IInv, IInv', Served, NEW r \in Live, UNCHANGED <<clientVars, app>>,
         NEW m, NEW out, net' \subseteq net \cup out,
         out \in {{}, SendTo(Peers(r), m)}
  PROVE  Served'
<1>1. /\ NetTypeOK(Msgs, OwnMessages) /\ ClientTypeOK
      /\ ExecutionTypeOK /\ ExecutionTypeOK'
  BY DEF IInv, TypeOK, Msgs
<1>2. \A x \in out : x.to \in Replicas
  BY LiveAssumption DEF SendTo, Peers, Datagram
<1>3. UNCHANGED clientVars /\ app' = app OBVIOUS
<1>4. QED BY <1>1, <1>2, <1>3, ServedByQuiet

\* insert_commit answers the clients of the blocks it executes.
LEMMA CommitServed ==
  ASSUME IInv, IInv', Served, NEW r \in Live, NEW m \in Commits, m \in Messages,
         InsertCommit(r, m), net' \subseteq net \cup CommitReplies(r, m)
  PROVE  Served'
<1>1. /\ NetTypeOK(Msgs, OwnMessages) /\ ClientTypeOK
      /\ ExecutionTypeOK /\ ExecutionTypeOK' /\ r \in Replicas
      /\ m.kind = "Commit" /\ UNCHANGED clientVars
  BY LiveAssumption DEF IInv, TypeOK, Msgs, InsertCommit, Commits
<1>2. CASE ~Executes(r, m)
  <2>1. app' = app /\ CommitReplies(r, m) = {}
    BY <1>2 DEF InsertCommit, CommitReplies, executeVars
  <2>2. QED BY <1>1, <2>1, QuietServed
<1>3. CASE Executes(r, m)
  <2>1. PICK d : d = m.digest OBVIOUS
  <2>2. PICK t : t = Tip OBVIOUS
  <2>3. OnChain(d) BY <1>1, <2>1 DEF IInv, MessagesSound, Sound
  <2>4. t \in Digests
    BY <1>1, <2>2, PrimaryAssumption DEF ExecutionTypeOK, Tip, Chains
  <2>5. d \in Digests /\ Len(d) > 0 /\ IsAncestor(d, t)
    BY <2>2, <2>3 DEF OnChain
  <2>6. PICK held : held = pre_prepares[r] OBVIOUS
  <2>7. DoExecute(r, d, held) /\ CommitReplies(r, m) = ReplyOut(r, d, held)
    BY <1>3, <2>1, <2>6 DEF InsertCommit, CommitReplies
  <2>8. OnOneChain(chain[r], app[r], t)
    BY <1>1, <2>2 DEF IInv, Ordered, InOrder
  <2>9. \A x \in ReplyOut(r, d, held) : Answer(x.to, x.msg, app')
    BY <1>1, <2>4, <2>5, <2>7, <2>8, ReplyOutAnswers
  <2>10. /\ IsAncestor(app[r], app'[r])
         /\ \A s \in Replicas : s /= r => app'[s] = app[s]
    BY <1>1, <2>4, <2>5, <2>7, <2>8, DoExecuteAny
  <2>11. \A s \in Replicas : IsAncestor(app[s], app'[s])
    BY <1>1, <2>10, AncestorReflexive DEF ExecutionTypeOK, Digests
  <2>12. net' \subseteq net \cup ReplyOut(r, d, held) BY <2>7
  <2>13. QED BY <1>1, <2>9, <2>11, <2>12, ServedByReplica
<1>4. QED BY <1>2, <1>3

\* Every step keeps what the clients are sent, hold and consumed.
LEMMA ServedStep ==
  ASSUME IInv, IInv', Served, [Next]_vars
  PROVE  Served'
<1>1. CASE UNCHANGED vars
  <2>1. /\ net' = net /\ request_num' = request_num /\ invoke' = invoke
        /\ replies' = replies /\ results' = results /\ app' = app
    BY <1>1 DEF vars, netVars, clientVars, executeVars
  <2>2. ConsumedIsExecuted' BY <2>1, ConsumedDef DEF Served
  <2>3. QED BY <2>1, <2>2 DEF Served, ClientServed
<1>2. ASSUME NEW c \in Clients, ClientStep(c) PROVE Served'
  <2>1. NetTypeOK(Msgs, OwnMessages) /\ ClientTypeOK
    BY DEF IInv, TypeOK, Msgs
  <2>2. CASE Invoke(c)
    <3>1. ClientInvoke(c, {Primary}) /\ app' = app
      BY <2>2 DEF Invoke, executeVars
    <3>2. QED BY <2>1, <3>1, PrimaryAssumption, ServedByInvoke
  <2>3. ASSUME NEW m, HandleReply(c, m) PROVE Served'
    <3>1. ClientHandle(c, m) /\ app' = app
      BY <2>3 DEF HandleReply, executeVars
    <3>2. QED BY <2>1, <3>1, ServedByHandle
  <2>4. QED BY <1>2, <2>2, <2>3 DEF ClientStep
<1>3. ASSUME NEW r \in Live, ReplicaStep(r) PROVE Served'
  <2>1. TypeOK /\ r \in Replicas BY LiveAssumption DEF IInv
  <2>2. CASE OnPace(r)
    <3>1. PICK m : Pace(r, SendTo(Peers(r), m), <<m>>)
      BY <2>2 DEF OnPace
    <3>2. UNCHANGED <<clientVars, app>> BY <2>2 DEF OnPace
    <3>3. net' \subseteq net \cup SendTo(Peers(r), m) BY <3>1, HandlerSends
    <3>4. QED BY <3>2, <3>3, QuietServed
  <2>3. CASE LoopbackPrePrepare(r)
    <3>1. UNCHANGED <<clientVars, app>> /\ net' \subseteq net \cup {}
      BY <2>3, HandlerSends DEF LoopbackPrePrepare, executeVars
    <3>2. QED BY <3>1, QuietServed
  <2>4. CASE LoopbackPrepare(r)
    <3>1. PICK out : out = CommitOut(r, Own(r)) OBVIOUS
    <3>2. UNCHANGED <<clientVars, app>> /\ net' \subseteq net \cup out
      BY <2>4, <3>1, HandlerSends DEF LoopbackPrepare, InsertPrepare, executeVars
    <3>3. PICK m : m = CommitMsg(Own(r).digest, r) OBVIOUS
    <3>4. out \in {{}, SendTo(Peers(r), m)} BY <3>1, <3>3 DEF CommitOut
    <3>5. QED BY <3>2, <3>4, QuietServed
  <2>5. CASE LoopbackCommit(r)
    <3>1. PICK m : m = Own(r) OBVIOUS
    <3>2. m \in Commits /\ m \in Messages
      BY <2>1, <2>5, <3>1, MessagesType, KindsOfOwn DEF LoopbackCommit, Msgs
    <3>3. InsertCommit(r, m) /\ net' \subseteq net \cup CommitReplies(r, m)
      BY <2>5, <3>1, HandlerSends DEF LoopbackCommit
    <3>4. QED BY <3>2, <3>3, CommitServed
  <2>6. ASSUME NEW m, HandleRequest(r, m) PROVE Served'
    <3>1. UNCHANGED <<clientVars, app>> /\ net' \subseteq net \cup {}
      BY <2>6, HandlerSends DEF HandleRequest, executeVars
    <3>2. QED BY <3>1, QuietServed
  <2>7. ASSUME NEW m, HandlePrePrepare(r, m) PROVE Served'
    <3>1. PICK p : p = PrepareMsg(m.digest, r) OBVIOUS
    <3>2. UNCHANGED <<clientVars, app>> BY <2>7 DEF HandlePrePrepare, executeVars
    <3>3. HandleDatagram(r, m, SendTo(Peers(r), p), <<p>>)
      BY <2>7, <3>1 DEF HandlePrePrepare
    <3>4. net' \subseteq net \cup SendTo(Peers(r), p) BY <3>3, HandlerSends
    <3>5. QED BY <3>2, <3>4, QuietServed
  <2>8. ASSUME NEW m, HandlePrepare(r, m) PROVE Served'
    <3>1. PICK out : out = CommitOut(r, m) OBVIOUS
    <3>2. UNCHANGED <<clientVars, app>> /\ net' \subseteq net \cup out
      BY <2>8, <3>1, HandlerSends DEF HandlePrepare, InsertPrepare, executeVars
    <3>3. PICK p : p = CommitMsg(m.digest, r) OBVIOUS
    <3>4. out \in {{}, SendTo(Peers(r), p)} BY <3>1, <3>3 DEF CommitOut
    <3>5. QED BY <3>2, <3>4, QuietServed
  <2>9. ASSUME NEW m, HandleCommit(r, m) PROVE Served'
    <3>1. m \in Commits /\ m \in Messages
      BY <2>1, <2>9, MessagesType, KindsOfOwn DEF HandleCommit
    <3>2. InsertCommit(r, m) /\ net' \subseteq net \cup CommitReplies(r, m)
      BY <2>9, HandlerSends DEF HandleCommit
    <3>3. QED BY <3>1, <3>2, CommitServed
  <2>10. QED
    BY <1>3, <2>2, <2>3, <2>4, <2>5, <2>6, <2>7, <2>8, <2>9 DEF ReplicaStep
<1>4. QED BY <1>1, <1>2, <1>3 DEF Next

\* The inductive invariant holds throughout.
THEOREM Invariance == Spec => []IInv
<1>1. Init => IInv BY InitHolds
<1>2. IInv /\ [Next]_vars => IInv' BY StepKeeps
<1>3. QED BY <1>1, <1>2, PTL DEF Spec

\* Every variable of the replicas and clients of pbft.rs keeps its type.
THEOREM TypeCorrect == Spec => []TypeOK
<1>1. IInv => TypeOK BY DEF IInv
<1>2. QED BY <1>1, Invariance, PTL

\* do_execute and Chain: what one replica has executed is a prefix of what any
\* other has, or the reverse.
THEOREM ReplicasAgree == Spec => []Agreement
<1>1. ASSUME IInv PROVE Agreement
  <2>1. SUFFICES ASSUME NEW r \in Replicas, NEW s \in Replicas
                 PROVE  \/ IsAncestor(app[r], app[s])
                        \/ IsAncestor(app[s], app[r])
    BY DEF Agreement
  <2>2. /\ app[r] \in Digests /\ app[s] \in Digests /\ Tip \in Digests
    BY <1>1, PrimaryAssumption DEF IInv, TypeOK, ExecutionTypeOK, Tip, Chains
  <2>3. IsAncestor(app[r], Tip) /\ IsAncestor(app[s], Tip)
    BY <1>1 DEF IInv, Ordered, InOrder, OnOneChain
  <2>4. Len(app[r]) \in Nat /\ Len(app[s]) \in Nat
    BY <2>2, LenProperties DEF Digests
  <2>5. Len(app[r]) <= Len(app[s]) \/ Len(app[s]) <= Len(app[r]) BY <2>4
  <2>6. QED BY <2>2, <2>3, <2>5, AncestorsOfOne DEF Digests
<1>2. QED BY <1>1, Invariance, PTL

\* commit, next_execute and the loop of do_execute together keep the
\* application at digest_execute, and nothing executable is left waiting.
THEOREM ExecutesInOrder == Spec => []ExecutedInOrder
<1>1. ASSUME IInv PROVE ExecutedInOrder
  <2>1. SUFFICES ASSUME NEW r \in Replicas
                 PROVE  /\ app[r] = chain[r].digest_execute
                        /\ \A d \in chain[r].pending :
                              Len(Parent(d)) > Len(app[r])
    BY DEF ExecutedInOrder
  <2>2. InOrder(chain[r], app[r], Tip) BY <1>1 DEF IInv, Ordered
  <2>3. QED BY <2>2 DEF InOrder, OnOneChain
<1>2. QED BY <1>1, Invariance, PTL

\* insert_prepare and insert_commit: n - f replicas hold, with a complete
\* prepare certificate, every block that any replica has executed.
THEOREM ExecutesCertified == Spec => []ExecutedIsCertified
<1>1. ASSUME IInv PROVE ExecutedIsCertified
  <2>1. SUFFICES ASSUME NEW r \in Replicas, NEW k \in 1..Len(app[r]),
                        NEW d, d = SubSeq(app[r], 1, k)
                 PROVE  Cardinality({i \in Replicas : Backed(d, i)}) >= Quorum
    BY DEF ExecutedIsCertified, Backed
  <2>2. CommitComplete(commit_certificates[r], d)
    BY <1>1, <2>1 DEF IInv, Settled
  <2> DEFINE C == Certificate(commit_certificates[r], d)
             B == {i \in Replicas : Backed(d, i)}
  <2>3. commit_certificates[r] \in SUBSET (Digests \X Live)
    BY <1>1 DEF IInv, TypeOK
  <2>4. C \subseteq Replicas BY <2>3, LiveAssumption DEF Certificate
  <2>5. C \subseteq B
    <3>1. SUFFICES ASSUME NEW i \in C PROVE Backed(d, i) BY <2>4
    <3>2. PICK p \in commit_certificates[r] : p[1] = d /\ p[2] = i
      BY DEF Certificate
    <3>3. QED BY <1>1, <3>2 DEF IInv, CommitsBacked
  <2>6. IsFiniteSet(B) BY ReplicasAssumption, FS_Subset
  <2> HIDE DEF B
  <2>7. Cardinality(C) <= Cardinality(B) /\ Cardinality(B) \in Nat
    BY <2>5, <2>6, FS_Subset, FS_CardinalityType
  <2>8. Cardinality(C) = Quorum BY <2>2 DEF CommitComplete
  <2>9. QED BY <2>7, <2>8, QuorumType DEF B
<1>2. QED BY <1>1, Invariance, PTL

\* What the clients are told holds throughout.
LEMMA ServedAlways == Spec => []Served
<1>1. Init => Served
  <2>1. SUFFICES ASSUME Init PROVE Served OBVIOUS
  <2>2. /\ net = {} /\ replies = [c \in Clients |-> {}]
        /\ results = [c \in Clients |-> <<>>]
        /\ invoke = [c \in Clients |-> FALSE]
        /\ request_num = [c \in Clients |-> 0]
    BY <2>1 DEF Init, Init_Multiplex, Init_Client
  <2>3. QED BY <2>2, ConsumedDef DEF Served, ClientServed
<1>2. IInv /\ IInv' /\ Served /\ [Next]_vars => Served' BY ServedStep
<1>3. QED BY <1>1, <1>2, Invariance, PTL DEF Spec

\* Client::handle: what a client consumes for its k-th invocation is the result
\* of executing that very request, where f + 1 replicas executed it.
THEOREM ConsumesExecuted == Spec => []ConsumedIsExecuted
<1>1. Served => ConsumedIsExecuted BY DEF Served
<1>2. QED BY <1>1, ServedAlways, PTL

\* do_execute finds every block it indexes and Chain::commit never meets a
\* conflict, when no more than n - f replicas run.  With more of them n - f
\* Commits can arrive before the PrePrepare of their block, and the index panics.
THEOREM NeverPanics == ASSUME NoSpare PROVE Spec => []NoPanic
<1>1. IInv => NoPanic BY DEF IInv
<1>2. QED BY <1>1, Invariance, PTL
-----------------------------------------------------------------------------
(* The service                                                             *)

\* A request is at one place: on its way to the primary, in its queue, or in one
\* block.
OncePlaced ==
    OnePlace(InFlightTo(net, Primary), requests[Primary], Tip, request_num)

\* No replica's log is ever cut.
Grows == \A i \in Replicas : IsAncestor(app[i], app'[i])

LEMMA GrowsNot == ASSUME IInv, app' = app PROVE Grows
BY AncestorReflexive DEF Grows, IInv, TypeOK, ExecutionTypeOK, Digests

\* The requests there are, and the chain the applications are on.
LEMMA RequestsType ==
  ASSUME IInv
  PROVE  /\ requests[Primary] \in Seq(RequestRecords) /\ Tip \in Digests
         /\ request_num \in [Clients -> Nat]
         /\ \A m \in InFlightTo(net, Primary) : m.kind = "Request" =>
               m \in RequestMsgs
         /\ \A i \in Replicas : app[i] \in Digests /\ IsAncestor(app[i], Tip)
<1>1. requests[Primary] \in Seq(RequestRecords) /\ Tip \in Digests
  BY PrimaryAssumption DEF IInv, TypeOK, ExecutionTypeOK, Chains, Tip
<1>2. request_num \in [Clients -> Nat]
  BY MaxRequestAssumption DEF IInv, TypeOK, ClientTypeOK
<1>3. ASSUME NEW m \in InFlightTo(net, Primary), m.kind = "Request"
      PROVE  m \in RequestMsgs
  <2>1. PICK x \in net : x.to = Primary /\ x.msg = m BY <1>3 DEF InFlightTo
  <2>2. m \in Msgs
    BY <2>1, PrimaryAssumption, ClientsAssumption DEF IInv, TypeOK, NetTypeOK, Msgs
  <2>3. QED
    BY <1>3, <2>2 DEF Msgs, RequestMsgs, OwnMessages, PrePrepares, Prepares, Commits
<1>4. \A i \in Replicas : app[i] \in Digests /\ IsAncestor(app[i], Tip)
  BY DEF IInv, TypeOK, ExecutionTypeOK, Ordered, InOrder, OnOneChain
<1>5. QED BY <1>1, <1>2, <1>3, <1>4

\* A step that sends no request keeps them where they are.
LEMMA OnceQuiet ==
  ASSUME OncePlaced, requests'[Primary] = requests[Primary], Tip' = Tip,
         request_num' = request_num, NEW out, net' \subseteq net \cup out,
         \A x \in out : x.to = Primary => x.msg.kind /= "Request"
  PROVE  OncePlaced'
BY PlacedQuiet DEF OncePlaced

\* invoke sends a request that no client has sent.
LEMMA InvokeOnce ==
  ASSUME IInv, OncePlaced, NEW c \in Clients, Invoke(c)
  PROVE  OncePlaced'
<1>1. PICK sent : sent = InFlightTo(net, Primary) OBVIOUS
<1>2. PICK new : new = InFlightTo(net', Primary) OBVIOUS
<1>3. PICK nums : nums = request_num OBVIOUS
<1>4. PICK n : n = nums[c] + 1 OBVIOUS
<1>5. /\ request_num' = [nums EXCEPT ![c] = n]
      /\ net' = net \cup SendTo({Primary}, RequestMsg(c, n))
      /\ requests' = requests /\ Tip' = Tip
  BY <1>3, <1>4 DEF Invoke, ClientInvoke, ClientSends, executeVars, Tip
<1>6. \A m \in new : m.kind = "Request" => m \in sent \/ m = RequestMsg(c, n)
  BY <1>1, <1>2, <1>5 DEF InFlightTo, SendTo, Datagram
<1>7. OnePlace(new, requests[Primary], Tip, [nums EXCEPT ![c] = n])
  BY <1>1, <1>3, <1>4, <1>6, RequestsType, PlacedInvoke DEF OncePlaced
<1>8. QED BY <1>2, <1>5, <1>7 DEF OncePlaced

\* A request that the primary receives once waits once.
LEMMA RequestOnce ==
  ASSUME IInv, OncePlaced, MaxDup = 0, NEW r \in Live, NEW m,
         HandleRequest(r, m)
  PROVE  OncePlaced'
<1>1. PICK q : q = Request(m.client, m.num) OBVIOUS
<1>2. /\ Tip' = Tip /\ request_num' = request_num
      /\ Datagram(r, m) \in net /\ m.kind = "Request"
      /\ HandleDatagram(r, m, {}, <<>>)
      /\ r \in Replicas
  BY LiveAssumption
  DEF HandleRequest, Arrived, executeVars, clientVars, Tip
<1>3. CASE r /= Primary
  <2>1. requests' = requests BY <1>3 DEF HandleRequest
  <2>2. PICK out : out = {} OBVIOUS
  <2>3. /\ net' \subseteq net \cup out
        /\ \A x \in out : x.to = Primary => x.msg.kind /= "Request"
    BY <1>2, <2>2, HandlerSends
  <2>4. QED BY <1>2, <2>1, <2>3, OnceQuiet
<1>4. CASE r = Primary
  <2>1. PICK sent : sent = InFlightTo(net, Primary) OBVIOUS
  <2>2. PICK new : new = InFlightTo(net', Primary) OBVIOUS
  <2>3. m \in sent BY <1>2, <1>4, <2>1 DEF InFlightTo, Datagram
  <2>4. new \subseteq sent \ {m}
    <3>1. NetTypeOK(Msgs, OwnMessages) BY DEF IInv, TypeOK, Msgs
    <3>2. InFlightTo({}, r) = {} BY <1>2, FlightOut
    <3>3. InFlightTo(net', r)
            \subseteq (InFlightTo(net, r) \ {m}) \cup InFlightTo({}, r)
      BY <1>2, <3>1, FlightStep
    <3>4. QED BY <1>4, <2>1, <2>2, <3>2, <3>3
  <2>5. requests'[Primary] = Append(requests[Primary], q)
    BY <1>1, <1>2, <1>4 DEF HandleRequest, IInv, TypeOK
  <2>6. OnePlace(new, Append(requests[Primary], q), Tip, request_num)
    BY <1>1, <1>2, <2>1, <2>3, <2>4, RequestsType, PlacedReceive
    DEF OncePlaced
  <2>7. QED BY <1>2, <2>2, <2>5, <2>6 DEF OncePlaced
<1>5. QED BY <1>3, <1>4

\* A proposal moves the requests of its block from the queue to the chain.
LEMMA OnPaceOnce ==
  ASSUME IInv, OncePlaced, NEW r \in Live, OnPace(r)
  PROVE  OncePlaced'
<1>1. PICK queue : queue = requests[Primary] OBVIOUS
<1>2. PICK ch : ch = chain[Primary] OBVIOUS
<1>3. PICK next : next = Propose(ch, queue) OBVIOUS
<1>4. PICK m : m = PrePrepareMsg(next.digest_parent) OBVIOUS
<1>5. /\ r = Primary /\ queue /= <<>>
      /\ chain' = [chain EXCEPT ![Primary] = next]
      /\ requests' = [requests EXCEPT ![Primary] = Drained(queue)]
      /\ net' = net \cup SendTo(Peers(r), m)
      /\ request_num' = request_num
  BY <1>1, <1>2, <1>3, <1>4 DEF OnPace, Pace, clientVars
<1>6. /\ queue \in Seq(RequestRecords) /\ ch \in Chains
      /\ Tip = ch.digest_parent /\ Tip' = next.digest_parent
      /\ requests'[Primary] = Drained(queue)
  BY <1>1, <1>2, <1>5, PrimaryAssumption
  DEF IInv, TypeOK, ExecutionTypeOK, Tip
<1>7. PICK sent : sent = InFlightTo(net, Primary) OBVIOUS
<1>8. PICK new : new = InFlightTo(net', Primary) OBVIOUS
<1>9. \A x \in new : x.kind = "Request" => x \in sent
  BY <1>4, <1>5, <1>7, <1>8 DEF InFlightTo, SendTo, Datagram, PrePrepareMsg
<1>10. OnePlace(sent, queue, ch.digest_parent, request_num)
  BY <1>1, <1>6, <1>7 DEF OncePlaced
<1>11. OnePlace(sent, Drained(queue), next.digest_parent, request_num)
  BY <1>3, <1>5, <1>6, <1>10, PlacedPropose
<1>12. OnePlace(new, Drained(queue), next.digest_parent, request_num)
  BY <1>9, <1>11, PlacedKept
<1>13. QED BY <1>5, <1>6, <1>8, <1>12 DEF OncePlaced

\* insert_commit executes the chain on, and sends no request.
LEMMA CommitOnce ==
  ASSUME IInv, OncePlaced, NEW r \in Live, NEW m \in Commits, m \in Messages,
         InsertCommit(r, m), net' \subseteq net \cup CommitReplies(r, m)
  PROVE  OncePlaced' /\ Grows
<1>1. /\ ExecutionTypeOK /\ r \in Replicas /\ m.kind = "Commit"
      /\ UNCHANGED <<clientVars, requests>>
  BY LiveAssumption DEF IInv, TypeOK, InsertCommit, Commits
<1>2. Tip' = Tip /\ Grows
  <2>1. CASE ~Executes(r, m)
    <3>1. app' = app /\ chain' = chain BY <2>1 DEF InsertCommit, executeVars
    <3>2. QED BY <3>1, GrowsNot DEF Tip
  <2>2. CASE Executes(r, m)
    <3>1. PICK d : d = m.digest OBVIOUS
    <3>2. PICK t : t = Tip OBVIOUS
    <3>3. OnChain(d) BY <1>1, <3>1 DEF IInv, MessagesSound, Sound
    <3>4. t \in Digests /\ d \in Digests /\ Len(d) > 0 /\ IsAncestor(d, t)
      BY <3>2, <3>3, RequestsType DEF OnChain
    <3>5. PICK held : held = pre_prepares[r] OBVIOUS
    <3>6. DoExecute(r, d, held) BY <2>2, <3>1, <3>5 DEF InsertCommit
    <3>7. OnOneChain(chain[r], app[r], t)
      BY <1>1, <3>2 DEF IInv, Ordered, InOrder
    <3>8. /\ chain'[r].digest_parent = chain[r].digest_parent
          /\ IsAncestor(app[r], app'[r])
          /\ \A s \in Replicas : s /= r => chain'[s] = chain[s] /\ app'[s] = app[s]
      BY <1>1, <3>4, <3>6, <3>7, DoExecuteAny
    <3>9. Tip' = Tip BY <3>8, PrimaryAssumption DEF Tip
    <3>10. Grows
      BY <1>1, <3>8, AncestorReflexive DEF Grows, ExecutionTypeOK, Digests
    <3>11. QED BY <3>9, <3>10
  <2>3. QED BY <2>1, <2>2
<1>3. PICK out : out = CommitReplies(r, m) OBVIOUS
<1>4. \A x \in out : x.to /= Primary
  BY <1>3, CommitRepliesType, PrimaryAssumption, ClientsAssumption
<1>5. request_num' = request_num /\ requests' = requests
  BY <1>1 DEF clientVars
<1>6. QED BY <1>2, <1>3, <1>4, <1>5, OnceQuiet

\* Every step leaves each request where it is, or moves it on; no log is cut.
LEMMA OnceStep ==
  ASSUME IInv, OncePlaced, MaxDup = 0, [Next]_vars
  PROVE  OncePlaced' /\ Grows
<1>1. TypeOK BY DEF IInv
<1>2. ASSUME UNCHANGED <<requests, executeVars, request_num>>, NEW out,
             net' \subseteq net \cup out,
             \A x \in out : x.to = Primary => x.msg.kind /= "Request"
      PROVE  OncePlaced' /\ Grows
  <2>1. Tip' = Tip /\ Grows BY <1>2, GrowsNot DEF Tip, executeVars
  <2>2. QED BY <1>2, <2>1, OnceQuiet
<1>3. ASSUME net' \subseteq net \cup {},
             UNCHANGED <<requests, executeVars, request_num>>
      PROVE  OncePlaced' /\ Grows
  <2>1. PICK out : out = {} OBVIOUS
  <2>2. /\ net' \subseteq net \cup out
        /\ \A x \in out : x.to = Primary => x.msg.kind /= "Request"
    BY <1>3, <2>1
  <2>3. QED BY <1>2, <1>3, <2>2
<1>4. CASE UNCHANGED vars
  <2>1. net' \subseteq net \cup {} /\ UNCHANGED <<requests, executeVars, request_num>>
    BY <1>4 DEF vars, netVars, clientVars
  <2>2. QED BY <1>3, <2>1
<1>5. ASSUME NEW c \in Clients, Invoke(c) PROVE OncePlaced' /\ Grows
  <2>1. app' = app BY <1>5 DEF Invoke, executeVars
  <2>2. QED BY <1>5, <2>1, InvokeOnce, GrowsNot
<1>6. ASSUME NEW c \in Clients, NEW m, HandleReply(c, m)
      PROVE  OncePlaced' /\ Grows
  <2>1. net' \subseteq net \cup {}
    BY <1>6 DEF HandleReply, ClientHandle, ClientReceives, Flight
  <2>2. request_num' = request_num
    BY <1>6 DEF HandleReply, ClientHandle, Consume, Collect, clientVars
  <2>3. UNCHANGED <<requests, executeVars, request_num>>
    BY <1>6, <2>2 DEF HandleReply
  <2>4. QED BY <1>3, <2>1, <2>3
<1>7. ASSUME NEW r \in Live, ReplicaStep(r) PROVE OncePlaced' /\ Grows
  <2>1. r \in Replicas /\ Msgs = RequestMsgs \cup OwnMessages
    BY LiveAssumption DEF Msgs
  <2>2. CASE OnPace(r)
    <3>1. app' = app BY <2>2 DEF OnPace
    <3>2. QED BY <2>2, <3>1, OnPaceOnce, GrowsNot
  <2>3. ASSUME NEW m, HandleRequest(r, m) PROVE OncePlaced' /\ Grows
    <3>1. app' = app BY <2>3 DEF HandleRequest, executeVars
    <3>2. QED BY <2>3, <3>1, RequestOnce, GrowsNot
  <2>4. CASE LoopbackPrePrepare(r)
    <3>1. net' \subseteq net \cup {}
          /\ UNCHANGED <<requests, executeVars, request_num>>
      BY <2>4, HandlerSends DEF LoopbackPrePrepare, clientVars
    <3>2. QED BY <1>3, <3>1
  <2>5. CASE LoopbackPrepare(r)
    <3>1. PICK out : out = CommitOut(r, Own(r)) OBVIOUS
    <3>2. net' \subseteq net \cup out
          /\ UNCHANGED <<requests, executeVars, request_num>>
      BY <2>5, <3>1, HandlerSends DEF LoopbackPrepare, InsertPrepare, clientVars
    <3>3. \A x \in out : x.msg.kind = "Commit"
      BY <3>1 DEF CommitOut, SendTo, Datagram, CommitMsg
    <3>4. QED BY <1>2, <3>2, <3>3
  <2>6. CASE LoopbackCommit(r)
    <3>1. PICK m : m = Own(r) OBVIOUS
    <3>2. m \in Commits /\ m \in Messages
      BY <1>1, <2>1, <2>6, <3>1, MessagesType, KindsOfOwn DEF LoopbackCommit
    <3>3. InsertCommit(r, m) /\ net' \subseteq net \cup CommitReplies(r, m)
      BY <2>6, <3>1, HandlerSends DEF LoopbackCommit
    <3>4. QED BY <3>2, <3>3, CommitOnce
  <2>7. ASSUME NEW m, HandlePrePrepare(r, m) PROVE OncePlaced' /\ Grows
    <3>1. PICK p : p = PrepareMsg(m.digest, r) OBVIOUS
    <3>2. PICK out : out = SendTo(Peers(r), p) OBVIOUS
    <3>3. HandleDatagram(r, m, out, <<p>>)
          /\ UNCHANGED <<requests, executeVars, request_num>>
      BY <2>7, <3>1, <3>2 DEF HandlePrePrepare, clientVars
    <3>4. net' \subseteq net \cup out BY <3>3, HandlerSends
    <3>5. \A x \in out : x.msg.kind = "Prepare"
      BY <3>1, <3>2 DEF SendTo, Datagram, PrepareMsg
    <3>6. QED BY <1>2, <3>3, <3>4, <3>5
  <2>8. ASSUME NEW m, HandlePrepare(r, m) PROVE OncePlaced' /\ Grows
    <3>1. PICK out : out = CommitOut(r, m) OBVIOUS
    <3>2. net' \subseteq net \cup out
          /\ UNCHANGED <<requests, executeVars, request_num>>
      BY <2>8, <3>1, HandlerSends DEF HandlePrepare, InsertPrepare, clientVars
    <3>3. \A x \in out : x.msg.kind = "Commit"
      BY <3>1 DEF CommitOut, SendTo, Datagram, CommitMsg
    <3>4. QED BY <1>2, <3>2, <3>3
  <2>9. ASSUME NEW m, HandleCommit(r, m) PROVE OncePlaced' /\ Grows
    <3>1. m \in Commits /\ m \in Messages
      BY <1>1, <2>1, <2>9, MessagesType, KindsOfOwn DEF HandleCommit
    <3>2. InsertCommit(r, m) /\ net' \subseteq net \cup CommitReplies(r, m)
      BY <2>9, HandlerSends DEF HandleCommit
    <3>3. QED BY <3>1, <3>2, CommitOnce
  <2>10. QED
    BY <1>7, <2>2, <2>3, <2>4, <2>5, <2>6, <2>7, <2>8, <2>9 DEF ReplicaStep
<1>8. QED BY <1>4, <1>5, <1>6, <1>7 DEF Next, ClientStep

\* A reply completes an invocation with its answer, or the service takes no step.
LEMMA ReplyServes ==
  ASSUME IInv, Served, NEW c \in Clients, NEW m, HandleReply(c, m)
  PROVE  Service!Respond(c) \/ UNCHANGED Service!vars
<1>1. ClientHandle(c, m) /\ Log' = Log
  BY LogIs DEF HandleReply, executeVars
<1>2. PICK t : t = Tip OBVIOUS
<1>3. t \in Digests
      /\ \A i \in Replicas : app[i] \in Digests /\ IsAncestor(app[i], t)
  BY <1>2, RequestsType
<1>4. PICK log : log = Log OBVIOUS
<1>5. Responded(c, log) \/ UNCHANGED <<request_num, invoke, results>>
  <2>1. NetTypeOK(Msgs, OwnMessages) BY DEF IInv, TypeOK, Msgs
  <2>2. QED BY <1>1, <1>3, <1>4, <2>1, HandleResponds
<1>6. CASE Responded(c, log)
  <2>1. \E k \in 1..Len(log) : \E j \in 1..Len(log[k]) :
           /\ log[k][j] = Service!Request(c, request_num[c])
           /\ results' = [results EXCEPT ![c] =
                 Append(@, [before |-> SubSeq(log, 1, k - 1),
                            upto |-> SubSeq(log[k], 1, j)])]
    BY <1>6 DEF Responded, AnsweredIn, Request, Service!Request
  <2>2. QED BY <1>1, <1>4, <1>6, <2>1 DEF Responded, Service!Respond
<1>7. CASE UNCHANGED <<request_num, invoke, results>>
  BY <1>1, <1>7 DEF Service!vars
<1>8. QED BY <1>5, <1>6, <1>7

\* A replica that executes appends to the log, or the service takes no step.
LEMMA ReplicaServes ==
  ASSUME IInv, IInv', Grows, OncePlaced', UNCHANGED clientVars
  PROVE  Service!AppendBatches \/ UNCHANGED Service!vars
<1>1. UNCHANGED <<request_num, invoke, results>> BY DEF clientVars
<1>2. PICK t : t = Tip OBVIOUS
<1>3. PICK u : u = Tip' OBVIOUS
<1>4. PICK nums : nums = request_num OBVIOUS
<1>5. u \in Digests
  BY <1>3, PrimaryAssumption DEF IInv, TypeOK, ExecutionTypeOK, Chains, Tip
<1>6. \A i \in Replicas : app'[i] \in Digests /\ IsAncestor(app'[i], u)
  BY <1>3 DEF IInv, TypeOK, ExecutionTypeOK, Ordered, InOrder, OnOneChain
<1>7. t \in Digests /\ nums \in [Clients -> Nat] BY <1>2, <1>4, RequestsType
<1>8. \A i \in Replicas : /\ app[i] \in Digests /\ IsAncestor(app[i], t)
                          /\ IsAncestor(app[i], app'[i])
  BY <1>2, RequestsType DEF Grows
<1>9. Listed(u, nums) BY <1>1, <1>3, <1>4 DEF OncePlaced, OnePlace
<1>10. Log' = Log \/ Appended(Log, Log', nums)
  BY <1>5, <1>6, <1>7, <1>8, <1>9, LogStep
<1>11. CASE Log' = Log BY <1>1, <1>11 DEF Service!vars
<1>12. CASE Appended(Log, Log', nums)
  BY <1>1, <1>4, <1>12 DEF Appended, Service!AppendBatches
<1>13. QED BY <1>10, <1>11, <1>12

\* Every step is one of the service, or none.
LEMMA NextServes ==
  ASSUME IInv, IInv', Served, Grows, OncePlaced', [Next]_vars
  PROVE  [Service!Next]_(Service!vars)
<1>1. CASE UNCHANGED vars BY <1>1, ReplicaServes DEF vars, Service!Next
<1>2. ASSUME NEW c \in Clients, Invoke(c) PROVE Service!Invoke(c)
  <2>1. Log' = Log BY <1>2, LogIs DEF Invoke, executeVars
  <2>2. QED BY <1>2, <2>1 DEF Invoke, ClientInvoke, Service!Invoke
<1>3. ASSUME NEW c \in Clients, NEW m, HandleReply(c, m)
      PROVE  Service!Respond(c) \/ UNCHANGED Service!vars
  BY <1>3, ReplyServes
<1>4. ASSUME NEW r \in Live, ReplicaStep(r)
      PROVE  Service!AppendBatches \/ UNCHANGED Service!vars
  <2>1. UNCHANGED clientVars
    BY <1>4
    DEF ReplicaStep, OnPace, HandleRequest, HandlePrePrepare, LoopbackPrePrepare,
        InsertPrepare, HandlePrepare, LoopbackPrepare, InsertCommit,
        HandleCommit, LoopbackCommit
  <2>2. QED BY <2>1, ReplicaServes
<1>5. QED BY <1>1, <1>2, <1>3, <1>4 DEF Next, ClientStep, Service!Next

\* The clients cannot tell the replicas from a single log, when the network
\* delivers no request twice: handle_request proposes whatever it is given.
THEOREM ServesLog == ASSUME MaxDup = 0 PROVE Spec => Linearizable
<1>1. Init => Service!Init
  <2>1. SUFFICES ASSUME Init PROVE Service!Init OBVIOUS
  <2>2. Log = <<>> BY <2>1, LogStarts DEF Init, Init_Execution
  <2>3. QED BY <2>1, <2>2 DEF Init, Init_Client, Service!Init
<1>2. Init => OncePlaced
  <2>1. SUFFICES ASSUME Init PROVE OncePlaced OBVIOUS
  <2>2. net = {} /\ Tip = <<>> /\ requests[Primary] = <<>>
    BY <2>1, PrimaryAssumption
    DEF Init, Init_Multiplex, Init_Execution, Tip, NewChain, Genesis
  <2>3. Len(<<>>) = 0 /\ Items(<<>>) = {} BY EmptySeq DEF Items
  <2>4. QED BY <2>2, <2>3 DEF OncePlaced, OnePlace, InBlock, Listed, InFlightTo
<1>3. IInv /\ OncePlaced /\ [Next]_vars => OncePlaced' /\ Grows BY OnceStep
<1>4. IInv /\ IInv' /\ Served /\ Grows /\ OncePlaced' /\ [Next]_vars
         => [Service!Next]_(Service!vars)
  BY NextServes
<1>5. QED
  BY <1>1, <1>2, <1>3, <1>4, Invariance, ServedAlways, PTL
  DEF Spec, Linearizable, Service!Spec
=============================================================================
