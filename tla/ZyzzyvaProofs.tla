---------------------------- MODULE ZyzzyvaProofs ----------------------------
(***************************************************************************)
(* Theorems of Zyzzyva, in two parts.                                      *)
(*                                                                         *)
(* For every network: the primary builds one chain, every replica's chain  *)
(* is a part of it, and a block a replica received is executed or waits    *)
(* for those before it, unless the replica panicked (IInv).  So a Commit   *)
(* is only stored of such a block.                                         *)
(*                                                                         *)
(* When no datagram arrives twice: a request is in one block at most       *)
(* (OncePlaced).  A client that replaces its commit therefore replaces it  *)
(* by one of the same block, the LocalCommits it holds are of that block,  *)
(* and the replicas it counted executed and stored it (ClientSound).  A    *)
(* request that arrives twice can be proposed in two blocks, and then the  *)
(* LocalCommits of one count for the other: nothing clears local_commits   *)
(* when commit_digest changes.  OncePlaced is also why Zyzzyva implements  *)
(* ReplicatedLog: no replica executes a request in a second block.         *)
(***************************************************************************)
EXTENDS Zyzzyva, ExecutionProofs, FiniteSetTheorems

Tip == chain[Primary].digest_parent

\* d is a block the primary proposed.
OnChain(d) == d \in Digests /\ Len(d) > 0 /\ IsAncestor(d, Tip)

OrderRequestMsgs == [kind : {"OrderRequest"}, digest : Digests]
CommitMsgs == [kind : {"Commit"}, client : Clients, digest : Digests]
SpecResponseMsgs ==
    {m \in [kind : {"SpecResponse"}, digest : Digests,
            results : Seq(ReplicaResults), replica : Live] :
        Len(m.results) = Len(BlockRequests(m.digest))}
LocalCommitMsgs == [kind : {"LocalCommit"}, digest : Digests, replica : Live]

Msgs == RequestMsgs \cup OrderRequestMsgs \cup CommitMsgs
Wires == [to : Replicas, msg : Msgs]
           \cup [to : Clients, msg : SpecResponseMsgs \cup LocalCommitMsgs]

ClientTyped ==
    /\ request_num \in [Clients -> 0..MaxRequestNum]
    /\ invoke \in [Clients -> BOOLEAN]
    /\ replies \in [Clients -> SUBSET SpecResponseMsgs]
    /\ results \in [Clients -> Seq(ReplicaResults)]
    /\ commit \in [Clients -> SUBSET [digest : Digests, result : ReplicaResults]]
    /\ local_commits \in [Clients -> SUBSET Live]

ReplicaTyped ==
    /\ requests \in [Replicas -> Seq(RequestRecords)]
    /\ order_requests \in [Replicas -> SUBSET Digests]
    /\ commits \in [Replicas -> SUBSET Digests]
    /\ paced \in BOOLEAN
    /\ ExecutionTypeOK

Typed == Wired(Wires, Msgs, OrderRequestMsgs) /\ ClientTyped /\ ReplicaTyped

\* Every OrderRequest on its way is of a block of the primary's one chain, and
\* every replica's chain is a part of it.
MessagesSound ==
    \A m \in Messages : m.kind = "OrderRequest" => OnChain(m.digest)

OneChain == \A r \in Replicas : OnOneChain(chain[r], app[r], Tip)

\* The block is executed, or waits for those before it.
Settled(r, d) == IsAncestor(d, app[r]) \/ d \in chain[r].pending

\* A replica holds the blocks it stores a Commit of, and unless it panicked no
\* block it received is lost.
Ordered ==
    \A r \in Replicas :
        /\ commits[r] \subseteq order_requests[r]
        /\ \A d \in order_requests[r] :
              OnChain(d) /\ (panicked[r] = "no" => Settled(r, d))

IInv == Typed /\ MessagesSound /\ OneChain /\ Ordered /\ StoredIsExecutable
-----------------------------------------------------------------------------
LEMMA WiresCarry == Carries(Wires, Msgs)
BY ClientsAssumption DEF Carries, Wires

\* EventStep for the messages of zyzzyva.rs.
LEMMA ReplicaSends ==
  ASSUME Typed, NEW r \in Live, NEW m,
         NEW out \in SUBSET Wires, NEW own \in Seq(OrderRequestMsgs),
         \/ HandleDatagram(r, m, out, own)
         \/ loopback[r] /= <<>> /\ HandleLoopback(r, out, own)
         \/ Pace(r, out, own)
  PROVE  /\ Wired(Wires, Msgs, OrderRequestMsgs)'
         /\ Messages' \subseteq Messages \cup Sent(out, own)
<1>1. Wired(Wires, Msgs, OrderRequestMsgs) BY DEF Typed
<1>2. QED BY <1>1, WiresCarry, EventStep

\* A step of a client, which only receives and sends.
LEMMA ClientOnNet ==
  ASSUME Typed, NEW out \in SUBSET Wires, net' \subseteq net \cup out,
         loopback' = loopback, dup' \in 0..MaxDup
  PROVE  /\ Wired(Wires, Msgs, OrderRequestMsgs)'
         /\ Messages' \subseteq Messages \cup {x.msg : x \in out}
<1>1. Wired(Wires, Msgs, OrderRequestMsgs)' BY DEF Typed, Wired
<1>2. QED BY <1>1 DEF Messages

\* What a client's receipt leaves in flight.
LEMMA FlightKeeps ==
  ASSUME Typed, NEW x, NEW out, Flight(x, out)
  PROVE  net' \subseteq net \cup out /\ dup' \in 0..MaxDup
BY MaxDupAssumption DEF Typed, Wired, Flight

\* The types of what a replica receives and of what it takes from its own
\* event channel; the kind of a message tells its type.
LEMMA MessagesType ==
  ASSUME Typed
  PROVE  /\ \A r \in Replicas : \A m : Arrived(r, m) => m \in Msgs /\ m \in Messages
         /\ \A r \in Replicas : loopback[r] /= <<>> =>
               /\ Head(loopback[r]).msg \in OrderRequestMsgs
               /\ Head(loopback[r]).msg \in Messages
         /\ \A c \in Clients : \A m : Datagram(c, m) \in net =>
               m \in SpecResponseMsgs \cup LocalCommitMsgs
<1>1. OrderRequestMsgs \in SUBSET Msgs BY DEF Msgs
<1>2. Wired(Wires, Msgs, OrderRequestMsgs) BY DEF Typed
<1>3. ASSUME NEW c \in Clients, NEW m, Datagram(c, m) \in net
      PROVE  m \in SpecResponseMsgs \cup LocalCommitMsgs
  <2>1. Datagram(c, m) \in Wires BY <1>2, <1>3 DEF Wired
  <2>2. QED BY <2>1, ClientsAssumption DEF Wires, Datagram
<1>4. QED BY <1>1, <1>2, <1>3, WiresCarry, MessagesOfWire

LEMMA Kinds ==
  /\ \A m \in Msgs : /\ m.kind = "Request" => m \in RequestMsgs
                     /\ m.kind = "OrderRequest" => m \in OrderRequestMsgs
                     /\ m.kind = "Commit" => m \in CommitMsgs
  /\ \A m \in SpecResponseMsgs \cup LocalCommitMsgs :
        /\ m.kind = "SpecResponse" => m \in SpecResponseMsgs
        /\ m.kind = "LocalCommit" => m \in LocalCommitMsgs
BY DEF Msgs, RequestMsgs, OrderRequestMsgs, CommitMsgs, SpecResponseMsgs,
       LocalCommitMsgs
-----------------------------------------------------------------------------
\* A step that executes nothing: it keeps the invariant when it keeps the
\* types, sends no other OrderRequest, and a replica stores a Commit only of a
\* block it holds.
LEMMA QuietStep ==
  ASSUME IInv, Typed', NEW new, Messages' \subseteq Messages \cup new,
         \A m \in new : m.kind = "OrderRequest" => OnChain(m.digest)',
         \A d \in Digests : IsAncestor(d, Tip) => IsAncestor(d, Tip'),
         \A i \in Replicas :
            /\ order_requests'[i] = order_requests[i]
            /\ \A d \in commits'[i] :
                  \/ d \in commits[i]
                  \/ d \in order_requests[i] /\ panicked[i] = "no"
            /\ chain'[i].digest_execute = chain[i].digest_execute
            /\ chain'[i].pending = chain[i].pending,
         app' = app, panicked' = panicked
  PROVE  IInv'
<1>1. \A d : OnChain(d) => OnChain(d)' BY DEF OnChain
<1>2. MessagesSound' BY <1>1 DEF IInv, MessagesSound
<1>3. OneChain'
  <2>1. SUFFICES ASSUME NEW r \in Replicas
                 PROVE  OnOneChain(chain'[r], app'[r], Tip')
    BY DEF OneChain
  <2>2. OnOneChain(chain[r], app[r], Tip) BY DEF IInv, OneChain
  <2>3. chain[r] \in Chains BY DEF IInv, Typed, ReplicaTyped, ExecutionTypeOK
  <2>4. QED BY <2>2, <2>3 DEF OnOneChain, Chains
<1>4. \A i \in Replicas : \A d : Settled(i, d)' <=> Settled(i, d)
  BY DEF Settled
<1>5. Ordered' BY <1>1, <1>4 DEF IInv, Ordered
<1>6. StoredIsExecutable'
  <2>1. SUFFICES ASSUME NEW i \in Replicas, NEW d \in commits'[i]
                 PROVE  Settled(i, d)'
    BY DEF StoredIsExecutable, Settled
  <2>2. CASE d \in commits[i]
    BY <1>4, <2>2 DEF IInv, StoredIsExecutable, Settled
  <2>3. CASE d \in order_requests[i] /\ panicked[i] = "no"
    BY <1>4, <2>3 DEF IInv, Ordered
  <2>4. QED BY <2>2, <2>3
<1>7. QED BY <1>2, <1>3, <1>5, <1>6 DEF IInv

\* A step that neither orders, executes nor stores.
LEMMA UnorderedStep ==
  ASSUME IInv, Typed', NEW new, Messages' \subseteq Messages \cup new,
         \A m \in new : m.kind /= "OrderRequest",
         UNCHANGED <<order_requests, commits, executeVars>>
  PROVE  IInv'
<1>1. /\ order_requests' = order_requests /\ commits' = commits
      /\ chain' = chain /\ app' = app /\ panicked' = panicked
  BY DEF executeVars
<1>2. Tip' = Tip BY <1>1 DEF Tip
<1>3. QED BY <1>1, <1>2, QuietStep
-----------------------------------------------------------------------------
\* Each action keeps the invariant.  Those of the clients:
LEMMA InvokeKeeps ==
  ASSUME IInv, NEW c \in Clients, Invoke(c)
  PROVE  IInv'
<1>1. PICK m : m = RequestMsg(c, request_num[c] + 1) OBVIOUS
<1>2. PICK out : out = SendTo({Primary}, m) OBVIOUS
<1>3. /\ Typed /\ ClientInvoke(c, {Primary}) /\ UNCHANGED replicaVars
      /\ commit' = [commit EXCEPT ![c] = {}]
      /\ local_commits' = [local_commits EXCEPT ![c] = {}]
  BY DEF IInv, Invoke
<1>4. ClientTyped BY <1>3 DEF Typed
<1>5. m \in RequestMsgs /\ m.kind = "Request"
  <2>1. request_num[c] + 1 \in 1..MaxRequestNum
    BY <1>3, <1>4, MaxRequestAssumption DEF ClientTyped, ClientInvoke
  <2>2. QED BY <1>1, <2>1 DEF RequestMsg, RequestMsgs
<1>6. out \in SUBSET Wires
  BY <1>2, <1>5, PrimaryAssumption DEF SendTo, Datagram, Wires, Msgs
<1>7. net' \subseteq net \cup out /\ loopback' = loopback /\ dup' \in 0..MaxDup
  BY <1>1, <1>2, <1>3 DEF ClientInvoke, ClientSends, Typed, Wired
<1>8. /\ Wired(Wires, Msgs, OrderRequestMsgs)'
      /\ Messages' \subseteq Messages \cup {x.msg : x \in out}
  BY <1>3, <1>6, <1>7, ClientOnNet
<1>9. ClientTyped'
  BY <1>3, <1>4, MaxRequestAssumption DEF ClientTyped, ClientInvoke
<1>10. ReplicaTyped' /\ UNCHANGED <<order_requests, commits, executeVars>>
  BY <1>3 DEF Typed, ReplicaTyped, replicaVars, executeVars, ExecutionTypeOK
<1>11. Typed' BY <1>8, <1>9, <1>10 DEF Typed
<1>12. \A x \in {y.msg : y \in out} : x.kind /= "OrderRequest"
  BY <1>2, <1>5 DEF SendTo, Datagram
<1>13. PICK new : new = {y.msg : y \in out} OBVIOUS
<1>14. QED BY <1>8, <1>10, <1>11, <1>12, <1>13, UnorderedStep

\* The position of the client's request is one of the results' too.
LEMMA PositionType ==
  ASSUME NEW c, NEW m \in SpecResponseMsgs, NEW i \in Position(c, m)
  PROVE  /\ i \in 1..Len(BlockRequests(m.digest))
         /\ BlockRequests(m.digest)[i] = Request(c, request_num[c])
         /\ m.results[i] \in ReplicaResults
<1>1. /\ i \in 1..Len(BlockRequests(m.digest))
      /\ BlockRequests(m.digest)[i] = Request(c, request_num[c])
  BY DEF Position
<1>2. m.results \in Seq(ReplicaResults)
      /\ Len(m.results) = Len(BlockRequests(m.digest))
  BY DEF SpecResponseMsgs
<1>3. QED BY <1>1, <1>2, ElementOfSeq

\* Consuming a result keeps the types of the client.
LEMMA ConsumeType ==
  ASSUME ClientTyped, NEW c \in Clients, NEW res \in ReplicaResults,
         ConsumeResult(c, res)
  PROVE  ClientTyped'
<1>1. Append(results[c], res) \in Seq(ReplicaResults)
  BY AppendProperties DEF ClientTyped
<1>2. results' \in [Clients -> Seq(ReplicaResults)]
  BY <1>1 DEF ClientTyped, ConsumeResult
<1>3. QED BY <1>2 DEF ClientTyped, ConsumeResult

\* What every handler of a response does to the rest: it sends at most a Commit
\* to the replicas.
LEMMA ResponseStep ==
  ASSUME IInv, NEW c \in Clients, NEW m, HandleResponse(c, m)
  PROVE  /\ m \in SpecResponseMsgs \cup LocalCommitMsgs
         /\ Datagram(c, m) \in net
         /\ ClientTyped'
         /\ UNCHANGED <<loopback, replicaVars>>
         /\ \E out \in SUBSET {Datagram(r, CommitMsg(c, m.digest)) : r \in Live} :
               Flight(Datagram(c, m), out)
<1>1. Typed /\ ClientTyped BY DEF IInv, Typed
<1>2. CASE HandleSpecResponse(c, m)
  <2>1. m \in SpecResponseMsgs /\ Datagram(c, m) \in net
    BY <1>1, <1>2, MessagesType, Kinds DEF HandleSpecResponse
  <2>2. replies[c] \subseteq SpecResponseMsgs BY <1>1 DEF ClientTyped
  <2>3. Responses(c, m) \in SUBSET SpecResponseMsgs
    BY <2>1, <2>2 DEF Responses
  <2>4. [replies EXCEPT ![c] = Responses(c, m)] \in [Clients -> SUBSET SpecResponseMsgs]
    BY <1>1, <2>3 DEF ClientTyped
  <2>5. m.digest \in Digests BY <2>1 DEF SpecResponseMsgs
  <2>6. UNCHANGED <<loopback, replicaVars>> BY <1>2 DEF HandleSpecResponse
  <2>7. CASE \E i \in Position(c, m) :
                /\ ConsumeResult(c, m.results[i])
                /\ Flight(Datagram(c, m), {})
    BY <1>1, <2>1, <2>6, <2>7, PositionType, ConsumeType
  <2>8. CASE \E i \in Position(c, m) :
                /\ replies' = [replies EXCEPT ![c] = Responses(c, m)]
                /\ commit' = [commit EXCEPT ![c] =
                       {[digest |-> m.digest, result |-> m.results[i]]}]
                /\ Flight(Datagram(c, m), SendTo(Live, CommitMsg(c, m.digest)))
                /\ UNCHANGED <<request_num, invoke, results, local_commits>>
    <3>1. PICK i \in Position(c, m) :
              commit' = [commit EXCEPT ![c] =
                           {[digest |-> m.digest, result |-> m.results[i]]}]
      BY <2>8
    <3>2. m.results[i] \in ReplicaResults BY <2>1, PositionType
    <3>3. commit' \in [Clients -> SUBSET [digest : Digests, result : ReplicaResults]]
      BY <1>1, <2>5, <3>1, <3>2 DEF ClientTyped
    <3>4. ClientTyped' BY <1>1, <2>4, <2>8, <3>3 DEF ClientTyped
    <3>5. SendTo(Live, CommitMsg(c, m.digest))
            \in SUBSET {Datagram(r, CommitMsg(c, m.digest)) : r \in Live}
      BY DEF SendTo
    <3>6. QED BY <2>1, <2>6, <2>8, <3>4, <3>5
  <2>9. CASE /\ replies' = [replies EXCEPT ![c] = Responses(c, m)]
             /\ Flight(Datagram(c, m), {})
             /\ UNCHANGED <<request_num, invoke, results, commitVars>>
    <3>1. ClientTyped' BY <1>1, <2>4, <2>9 DEF ClientTyped, commitVars
    <3>2. QED BY <2>1, <2>6, <2>9, <3>1
  <2>10. CASE Flight(Datagram(c, m), {}) /\ UNCHANGED <<clientVars, commitVars>>
    <3>1. ClientTyped' BY <1>1, <2>10 DEF ClientTyped, clientVars, commitVars
    <3>2. QED BY <2>1, <2>6, <2>10, <3>1
  <2>11. QED BY <1>2, <2>7, <2>8, <2>9, <2>10 DEF HandleSpecResponse
<1>3. CASE HandleLocalCommit(c, m)
  <2>1. m \in LocalCommitMsgs /\ Datagram(c, m) \in net
    BY <1>1, <1>3, MessagesType, Kinds DEF HandleLocalCommit, ClientReceives
  <2>2. UNCHANGED <<loopback, replicaVars>> /\ Flight(Datagram(c, m), {})
    BY <1>3 DEF HandleLocalCommit, ClientReceives
  <2>3. ClientTyped'
    <3>1. CASE \E x \in commit[c] : ConsumeResult(c, x.result)
      <4>1. PICK x \in commit[c] : ConsumeResult(c, x.result) BY <3>1
      <4>2. x.result \in ReplicaResults BY <1>1 DEF ClientTyped
      <4>3. QED BY <1>1, <4>1, <4>2, ConsumeType
    <3>2. CASE /\ local_commits' = [local_commits EXCEPT ![c] = @ \cup {m.replica}]
               /\ UNCHANGED <<clientVars, commit>>
      BY <1>1, <2>1, <3>2 DEF ClientTyped, clientVars, LocalCommitMsgs
    <3>3. CASE UNCHANGED <<clientVars, commitVars>>
      BY <1>1, <3>3 DEF ClientTyped, clientVars, commitVars
    <3>4. QED BY <1>3, <3>1, <3>2, <3>3 DEF HandleLocalCommit
  <2>4. QED BY <2>1, <2>2, <2>3
<1>4. QED BY <1>2, <1>3 DEF HandleResponse

\* Client::handle keeps the invariant, whichever response it takes.
LEMMA HandleResponseKeeps ==
  ASSUME IInv, NEW c \in Clients, NEW m, HandleResponse(c, m)
  PROVE  IInv'
<1>1. /\ m \in SpecResponseMsgs \cup LocalCommitMsgs
      /\ ClientTyped' /\ UNCHANGED <<loopback, replicaVars>> /\ Typed
  BY ResponseStep DEF IInv
<1>2. PICK out \in SUBSET {Datagram(r, CommitMsg(c, m.digest)) : r \in Live} :
              Flight(Datagram(c, m), out)
  BY ResponseStep
<1>3. CommitMsg(c, m.digest) \in CommitMsgs
  BY <1>1 DEF CommitMsg, CommitMsgs, SpecResponseMsgs, LocalCommitMsgs
<1>4. out \in SUBSET Wires
  BY <1>2, <1>3, LiveAssumption DEF Datagram, Wires, Msgs
<1>5. net' \subseteq net \cup out /\ dup' \in 0..MaxDup
  BY <1>1, <1>2, FlightKeeps
<1>6. PICK new : new = {x.msg : x \in out} OBVIOUS
<1>7. /\ Wired(Wires, Msgs, OrderRequestMsgs)'
      /\ Messages' \subseteq Messages \cup new
  BY <1>1, <1>4, <1>5, <1>6, ClientOnNet
<1>8. ReplicaTyped' /\ UNCHANGED <<order_requests, commits, executeVars>>
  BY <1>1 DEF Typed, ReplicaTyped, replicaVars, executeVars, ExecutionTypeOK
<1>9. Typed' BY <1>1, <1>7, <1>8 DEF Typed
<1>10. \A x \in new : x.kind /= "OrderRequest"
  BY <1>2, <1>6 DEF Datagram, CommitMsg
<1>11. QED BY <1>7, <1>8, <1>9, <1>10, UnorderedStep

\* Those of the replicas that execute nothing:
LEMMA HandleRequestKeeps ==
  ASSUME IInv, NEW r \in Live, NEW m, HandleRequest(r, m)
  PROVE  IInv'
<1>1. /\ Typed /\ r \in Replicas /\ m.kind = "Request" /\ Arrived(r, m)
      /\ HandleDatagram(r, m, {}, <<>>)
      /\ UNCHANGED <<clientVars, commitVars, order_requests, commits, executeVars>>
      /\ requests' = [requests EXCEPT ![r] = Append(@, Request(m.client, m.num))]
  BY LiveAssumption DEF IInv, HandleRequest
<1>2. m \in RequestMsgs BY <1>1, MessagesType, Kinds
<1>3. /\ <<>> \in Seq(OrderRequestMsgs) /\ {} \in SUBSET Wires
      /\ Sent({}, <<>>) = {}
  BY EmptySeq DEF Sent
<1>4. /\ Wired(Wires, Msgs, OrderRequestMsgs)' /\ Messages' \subseteq Messages
  BY <1>1, <1>3, ReplicaSends
<1>5. requests' \in [Replicas -> Seq(RequestRecords)]
  <2>1. requests \in [Replicas -> Seq(RequestRecords)]
    BY <1>1 DEF Typed, ReplicaTyped
  <2>2. Request(m.client, m.num) \in RequestRecords
    BY <1>2 DEF RequestMsgs, RequestRecords, Request
  <2>3. Append(requests[r], Request(m.client, m.num)) \in Seq(RequestRecords)
    BY <1>1, <2>1, <2>2, AppendProperties
  <2>4. QED BY <1>1, <2>1, <2>3
<1>6. paced' \in BOOLEAN
  BY <1>1 DEF HandleRequest, Event, Typed, ReplicaTyped
<1>7. Typed'
  BY <1>1, <1>4, <1>5, <1>6
  DEF Typed, clientVars, commitVars, executeVars, ClientTyped, ReplicaTyped,
      ExecutionTypeOK
<1>8. PICK new : new = {} OBVIOUS
<1>9. Messages' \subseteq Messages \cup new BY <1>4
<1>10. \A x \in new : x.kind /= "OrderRequest" BY <1>8
<1>11. UNCHANGED <<order_requests, commits, executeVars>> BY <1>1
<1>12. QED BY <1>7, <1>9, <1>10, <1>11, UnorderedStep

\* The primary's proposal keeps the invariant: it extends the one chain.
LEMMA OnPaceKeeps ==
  ASSUME IInv, NEW r \in Live, OnPace(r)
  PROVE  IInv'
<1>1. PICK next : next = Propose(chain[r], requests[r]) OBVIOUS
<1>2. PICK d : d = next.digest_parent OBVIOUS
<1>3. PICK m : m = OrderRequestMsg(d) OBVIOUS
<1>4. /\ Typed /\ r \in Replicas /\ r = Primary /\ requests[r] /= <<>>
      /\ chain' = [chain EXCEPT ![r] = next]
      /\ Pace(r, SendTo(Peers(r), m), <<m>>)
      /\ requests' = [requests EXCEPT ![r] = Drained(@)]
      /\ paced' = TRUE
      /\ UNCHANGED <<clientVars, commitVars, order_requests, commits, app, panicked>>
  BY <1>1, <1>2, <1>3, LiveAssumption DEF IInv, OnPace
<1>5. /\ requests \in [Replicas -> Seq(RequestRecords)]
      /\ requests[r] \in Seq(RequestRecords)
      /\ chain[r] \in Chains /\ Tip = chain[r].digest_parent
      /\ chain \in [Replicas -> Chains]
  BY <1>4 DEF Typed, ReplicaTyped, ExecutionTypeOK, Tip
<1>6. /\ next \in Chains /\ d \in Digests /\ Len(d) > 0 /\ IsAncestor(d, d)
      /\ next.digest_execute = chain[r].digest_execute
      /\ next.pending = chain[r].pending
      /\ \A e \in Digests : IsAncestor(e, Tip) => IsAncestor(e, d)
      /\ Drained(requests[r]) \in Seq(RequestRecords)
  BY <1>1, <1>2, <1>4, <1>5, ProposeProperties
<1>7. Tip' = d BY <1>2, <1>4, <1>5 DEF Tip
<1>8. m \in OrderRequestMsgs /\ m.kind = "OrderRequest" /\ m.digest = d
  BY <1>3, <1>6 DEF OrderRequestMsg, OrderRequestMsgs
<1>9. OnChain(m.digest)' BY <1>6, <1>7, <1>8 DEF OnChain
<1>10. /\ SendTo(Peers(r), m) \in SUBSET Wires
       /\ <<m>> \in Seq(OrderRequestMsgs)
       /\ Sent(SendTo(Peers(r), m), <<m>>) = {m}
  <2>1. SendTo(Peers(r), m) \in SUBSET Wires
    BY <1>8, LiveAssumption DEF SendTo, Peers, Datagram, Wires, Msgs
  <2>2. OrderRequestMsgs \in SUBSET Msgs BY DEF Msgs
  <2>3. QED BY <1>8, <2>1, <2>2, SentType
<1>11. /\ Wired(Wires, Msgs, OrderRequestMsgs)'
       /\ Messages' \subseteq Messages \cup {m}
  BY <1>4, <1>10, ReplicaSends
<1>12. requests' \in [Replicas -> Seq(RequestRecords)]
  BY <1>4, <1>5, <1>6
<1>13. chain' \in [Replicas -> Chains] BY <1>4, <1>5, <1>6
<1>14. Typed'
  BY <1>4, <1>11, <1>12, <1>13
  DEF Typed, clientVars, commitVars, ClientTyped, ReplicaTyped, ExecutionTypeOK
<1>15. \A i \in Replicas :
         /\ order_requests'[i] = order_requests[i]
         /\ \A e \in commits'[i] : e \in commits[i]
         /\ chain'[i].digest_execute = chain[i].digest_execute
         /\ chain'[i].pending = chain[i].pending
  BY <1>4, <1>5, <1>6
<1>16. PICK new : new = {m} OBVIOUS
<1>17. /\ \A x \in new : OnChain(x.digest)'
       /\ Messages' \subseteq Messages \cup new
  BY <1>9, <1>11, <1>16
<1>18. \A e \in Digests : IsAncestor(e, Tip) => IsAncestor(e, Tip')
  BY <1>6, <1>7
<1>19. QED BY <1>4, <1>14, <1>15, <1>17, <1>18, QuietStep
-----------------------------------------------------------------------------
\* res is the result of executing request i of block d where d's chain puts it.
ResultOf(res, d, i) ==
    /\ i \in 1..Len(BlockRequests(d))
    /\ res = Result(Parent(d), BlockRequests(d), i)

\* The results of a batch, each what Execution computes it to be.
LEMMA ResultsType ==
  ASSUME NEW before \in Digests, NEW batch \in Batches
  PROVE  LET res == [i \in 1..Len(batch) |-> Result(before, batch, i)] IN
         /\ res \in Seq(ReplicaResults) /\ Len(res) = Len(batch)
         /\ \A i \in 1..Len(batch) : res[i] = Result(before, batch, i)
<1>1. /\ batch \in Seq(RequestRecords) /\ Len(batch) \in 0..MaxBatchSize
      /\ Len(batch) \in Nat
  BY LenProperties DEF Batches
<1>2. ASSUME NEW i \in 1..Len(batch)
      PROVE  Result(before, batch, i) \in ReplicaResults
  <2>1. i \in Nat /\ i >= 1 /\ i <= Len(batch) BY <1>1
  <2>2. /\ SubSeq(batch, 1, i) \in Seq(RequestRecords)
        /\ Len(SubSeq(batch, 1, i)) = i
    BY <1>1, <2>1, SubSeqOfSeq
  <2>3. i \in 0..MaxBatchSize BY <1>1, <2>1, MaxBatchAssumption
  <2>4. SubSeq(batch, 1, i) \in Batches BY <2>2, <2>3 DEF Batches
  <2>5. QED BY <2>4 DEF Result, ReplicaResults
<1> DEFINE f(i) == Result(before, batch, i)
           res == [i \in 1..Len(batch) |-> f(i)]
<1>3. \A i \in 1..Len(batch) : f(i) \in ReplicaResults BY <1>2
<1>4. res \in [1..Len(batch) -> ReplicaResults]
      /\ \A i \in 1..Len(batch) : res[i] = f(i)
  <2> HIDE DEF f
  <2>1. QED BY <1>3
<1>5. res \in Seq(ReplicaResults) /\ Len(res) = Len(batch)
  <2> HIDE DEF res
  <2>1. QED BY <1>1, <1>4, SeqOfFunction
<1>6. QED BY <1>4, <1>5

\* What do_execute sends: to clients, the results of a block that is executed.
LEMMA SpecResponsesTell ==
  ASSUME NEW t \in Digests, ExecutionTypeOK, NEW r \in Live, NEW d \in Digests,
         Len(d) > 0, IsAncestor(d, t), OnOneChain(chain[r], app[r], t),
         NEW x \in SpecResponses(r, d)
  PROVE  LET m == x.msg IN
         /\ x \in [to : Clients, msg : SpecResponseMsgs]
         /\ m.replica = r /\ Len(m.digest) > 0
         /\ IsAncestor(m.digest, app[r] \o Applied(r, d))
         /\ \A i \in 1..Len(BlockRequests(m.digest)) :
               ResultOf(m.results[i], m.digest, i)
<1> DEFINE batches == Applied(r, d)
           digest(k) == SubSeq(LastExecuted(chain[r], d), 1, Len(d) + k - 1)
           before(k) == app[r] \o SubSeq(batches, 1, k - 1)
           res(k) == [i \in 1..Len(batches[k]) |-> Result(before(k), batches[k], i)]
           response(k) == SpecResponseMsg(digest(k), res(k), r)
           b == app[r] \o batches
<1>1. PICK k \in 1..Len(batches) :
               \E i \in 1..Len(batches[k]) :
                  x = Datagram(batches[k][i].client, response(k))
  <2> HIDE DEF response
  <2>1. SpecResponses(r, d) =
          UNION {{Datagram(batches[k][i].client, response(k)) :
                     i \in 1..Len(batches[k])} : k \in 1..Len(batches)}
    BY DEF SpecResponses, response
  <2>2. QED BY <2>1
<1>2. PICK i \in 1..Len(batches[k]) :
              x = Datagram(batches[k][i].client, response(k))
  BY <1>1
<1>3. /\ app[r] \in Digests /\ app[r] = chain[r].digest_execute
      /\ batches \in Digests /\ Len(d) \in Nat
  BY LiveAssumption, AppliedProperties, LenProperties
  DEF ExecutionTypeOK, OnOneChain, Digests
<1>4. Extends(chain[r], d)
  <2>1. Len(batches) > 0 BY <1>3, LenProperties DEF Digests
  <2>2. QED BY <2>1, EmptySeq DEF Applied
<1>5. LastExecuted(chain[r], d) = b
  BY <1>4, AppliedProperties
<1>6. Len(app[r]) + k = Len(d) + k - 1
  <2>1. Len(app[r]) = Len(d) - 1
    BY <1>3, <1>4, ParentProperties DEF Extends, Digests
  <2>2. k \in Nat BY <1>3, LenProperties DEF Digests
  <2>3. PICK h : h = Len(d) OBVIOUS
  <2>4. PICK p : p = Len(app[r]) OBVIOUS
  <2>5. p = h - 1 /\ h \in Nat BY <1>3, <2>1, <2>3, <2>4
  <2>6. p + k = h + k - 1 BY <2>2, <2>5
  <2>7. QED BY <2>3, <2>4, <2>6
<1> DEFINE p == Len(app[r]) + k - 1
           h == Len(app[r]) + k
<1>7. digest(k) = SubSeq(b, 1, h)
  BY <1>5, <1>6
<1> HIDE DEF batches
<1>8. /\ p \in Nat /\ p + 1 <= Len(b) /\ b \in Digests
      /\ before(k) \in Digests
      /\ SubSeq(b, 1, p) = before(k)
      /\ b[p + 1] = batches[k]
      /\ batches[k] \in Batches
  BY <1>3, AppliedBatch
<1>9. Len(app[r]) \in Nat /\ k \in Nat BY <1>3, LenProperties DEF Digests
<1>10. h = p + 1 /\ h - 1 = p /\ h \in 1..Len(b)
  <2>1. Len(b) \in Nat BY <1>8, LenProperties DEF Digests
  <2>2. PICK n : n = Len(app[r]) OBVIOUS
  <2>3. p = n + k - 1 /\ h = n + k /\ n \in Nat BY <1>9, <2>2
  <2> HIDE DEF p, h, b
  <2>4. QED BY <1>8, <1>9, <2>1, <2>3
<1> HIDE DEF before, b, p, h, digest
<1>11. /\ digest(k) \in Digests /\ Len(digest(k)) = h
       /\ IsAncestor(digest(k), b)
       /\ Parent(digest(k)) = before(k)
       /\ BlockRequests(digest(k)) = batches[k]
  <2>1. /\ SubSeq(b, 1, h) \in Seq(Batches) /\ Len(SubSeq(b, 1, h)) = h
        /\ IsAncestor(SubSeq(b, 1, h), b)
        /\ Parent(SubSeq(b, 1, h)) = SubSeq(b, 1, h - 1)
        /\ BlockRequests(SubSeq(b, 1, h)) = b[h]
    BY <1>8, <1>10, BlockAt DEF Digests
  <2>2. QED BY <1>7, <1>8, <1>10, <2>1 DEF Digests
<1>12. /\ res(k) \in Seq(ReplicaResults) /\ Len(res(k)) = Len(batches[k])
       /\ \A j \in 1..Len(batches[k]) :
             res(k)[j] = Result(before(k), batches[k], j)
  BY <1>8, ResultsType
<1> HIDE DEF res
<1>13. /\ x.to = batches[k][i].client /\ x.msg = response(k)
       /\ x = [to |-> x.to, msg |-> x.msg]
       /\ x.msg.digest = digest(k) /\ x.msg.results = res(k) /\ x.msg.replica = r
  BY <1>2 DEF Datagram, SpecResponseMsg
<1>14. x.to \in Clients
  <2>1. batches[k] \in Seq(RequestRecords) BY <1>8 DEF Batches
  <2>2. batches[k][i] \in RequestRecords BY <2>1, ElementOfSeq
  <2>3. QED BY <1>13, <2>2 DEF RequestRecords
<1>15. x.msg \in SpecResponseMsgs
  <2>1. response(k) \in [kind : {"SpecResponse"}, digest : Digests,
                         results : Seq(ReplicaResults), replica : Live]
    BY <1>11, <1>12 DEF SpecResponseMsg
  <2>2. QED BY <1>11, <1>12, <1>13, <2>1 DEF SpecResponseMsgs
<1>16. h > 0 BY <1>8, <1>10
<1>17. \A j \in 1..Len(BlockRequests(x.msg.digest)) :
          ResultOf(x.msg.results[j], x.msg.digest, j)
  BY <1>11, <1>12, <1>13 DEF ResultOf
<1>18. IsAncestor(x.msg.digest, app[r] \o Applied(r, d))
  BY <1>11, <1>13 DEF b, batches
<1>19. x \in [to : Clients, msg : SpecResponseMsgs] BY <1>13, <1>14, <1>15
<1>20. QED BY <1>11, <1>13, <1>16, <1>17, <1>18, <1>19

\* All that handle_order_request sends are responses to clients.
LEMMA OrderOutType ==
  ASSUME IInv, NEW r \in Live, NEW d, OnChain(d)
  PROVE  /\ OrderOut(r, d) \in SUBSET Wires /\ <<>> \in Seq(OrderRequestMsgs)
         /\ \A m \in Sent(OrderOut(r, d), <<>>) : m.kind = "SpecResponse"
<1>1. PICK t : t = Tip OBVIOUS
<1>2. /\ ExecutionTypeOK /\ d \in Digests /\ Len(d) > 0 /\ IsAncestor(d, t)
      /\ OnOneChain(chain[r], app[r], t) /\ t \in Digests
  BY <1>1, LiveAssumption, PrimaryAssumption
  DEF IInv, Typed, ReplicaTyped, OneChain, OnChain, ExecutionTypeOK, Tip, Chains
<1>3. OrderOut(r, d) \subseteq [to : Clients, msg : SpecResponseMsgs]
  <2>1. SpecResponses(r, d) \subseteq [to : Clients, msg : SpecResponseMsgs]
    BY <1>2, SpecResponsesTell
  <2>2. QED BY <2>1 DEF OrderOut
<1>4. Sent(OrderOut(r, d), <<>>) = {x.msg : x \in OrderOut(r, d)}
  BY EmptySeq DEF Sent
<1>5. QED BY <1>3, <1>4, EmptySeq DEF Wires, SpecResponseMsgs

\* handle_order_request, of a received block or of the primary's own, keeps the
\* invariant: do_execute loses no block that it was given.
LEMMA OrderKeeps ==
  ASSUME IInv, NEW r \in Live, panicked[r] = "no", NEW d, OnChain(d),
         Order(r, d),
         Wired(Wires, Msgs, OrderRequestMsgs)',
         Messages' \subseteq Messages \cup Sent(OrderOut(r, d), <<>>)
  PROVE  IInv'
<1>1. PICK t : t = Tip OBVIOUS
<1>2. PICK held : held = order_requests[r] \cup {d} OBVIOUS
<1>3. /\ ExecutionTypeOK /\ r \in Replicas /\ d \in Digests /\ Len(d) > 0
      /\ IsAncestor(d, t) /\ OnOneChain(chain[r], app[r], t) /\ t \in Digests
      /\ Typed /\ ClientTyped /\ ReplicaTyped
  BY <1>1, LiveAssumption, PrimaryAssumption
  DEF IInv, Typed, ReplicaTyped, OneChain, OnChain, ExecutionTypeOK, Tip, Chains
<1>4. /\ order_requests' = [order_requests EXCEPT ![r] = @ \cup {d}]
      /\ DoExecute(r, d, held)
      /\ paced' \in BOOLEAN
      /\ UNCHANGED <<clientVars, commitVars, requests, commits>>
  BY <1>2, <1>3 DEF Order, Event, ReplicaTyped
<1>5. /\ ExecutionTypeOK'
      /\ OnOneChain(chain'[r], app'[r], t)
      /\ chain'[r].digest_parent = chain[r].digest_parent
      /\ \A s \in Replicas : s /= r => /\ chain'[s] = chain[s]
                                       /\ app'[s] = app[s]
                                       /\ panicked'[s] = panicked[s]
      /\ panicked'[r] = Panic(r, d, held)
      /\ IsAncestor(app[r], app'[r])
  BY <1>3, <1>4, DoExecuteAny
<1>6. Tip' = Tip BY <1>5, PrimaryAssumption DEF Tip
<1>7. \A e : OnChain(e) => OnChain(e)' BY <1>6 DEF OnChain
<1>8. /\ order_requests' \in [Replicas -> SUBSET Digests]
      /\ order_requests'[r] = order_requests[r] \cup {d}
      /\ \A s \in Replicas : s /= r => order_requests'[s] = order_requests[s]
  BY <1>3, <1>4 DEF ReplicaTyped
<1>9. Typed'
  <2>1. ClientTyped' BY <1>3, <1>4 DEF ClientTyped, clientVars, commitVars
  <2>2. ReplicaTyped' BY <1>3, <1>4, <1>5, <1>8 DEF ReplicaTyped
  <2>3. QED BY <2>1, <2>2 DEF Typed
<1>10. MessagesSound'
  <2>1. SUFFICES ASSUME NEW m \in Messages', m.kind = "OrderRequest"
                 PROVE  OnChain(m.digest)'
    BY DEF MessagesSound
  <2>2. m \in Messages BY <2>1, OrderOutType
  <2>3. QED BY <1>7, <2>1, <2>2 DEF IInv, MessagesSound
<1>11. OneChain'
  <2>1. \A s \in Replicas : OnOneChain(chain[s], app[s], t)
    BY <1>1 DEF IInv, OneChain
  <2>2. \A s \in Replicas : OnOneChain(chain'[s], app'[s], t) BY <1>5, <2>1
  <2>3. QED BY <1>1, <1>6, <2>2 DEF OneChain
<1>12. ASSUME NEW e \in Digests, Settled(r, e) PROVE Settled(r, e)'
  <2>1. CASE IsAncestor(e, app[r])
    <3>1. app[r] \in Digests /\ app'[r] \in Digests
      BY <1>3, <1>5 DEF ExecutionTypeOK
    <3>2. IsAncestor(e, app'[r])
      BY <1>5, <2>1, <3>1, AncestorTransitive DEF Digests
    <3>3. QED BY <3>2 DEF Settled
  <2>2. CASE e \in chain[r].pending
    <3>1. CASE Panic(r, d, held) = "no"
      BY <1>3, <1>4, <2>2, <3>1, DoExecuteSettles DEF Settled
    <3>2. CASE Panic(r, d, held) /= "no"
      BY <1>4, <2>2, <3>2 DEF DoExecute, Settled
    <3>3. QED BY <3>1, <3>2
  <2>3. QED BY <1>12, <2>1, <2>2 DEF Settled
<1>13. panicked'[r] = "no" => Settled(r, d)'
  BY <1>3, <1>4, <1>5, DoExecuteSettles DEF Settled
<1>14. \A s \in Replicas : \A e \in Digests : Settled(s, e) => Settled(s, e)'
  BY <1>5, <1>12 DEF Settled
<1>15. \A s \in Replicas : panicked'[s] = "no" => panicked[s] = "no" \/ s = r
  BY <1>5
<1>16. Ordered'
  <2>1. SUFFICES ASSUME NEW s \in Replicas
                 PROVE  /\ commits'[s] \subseteq order_requests'[s]
                        /\ \A e \in order_requests'[s] :
                              /\ OnChain(e)'
                              /\ panicked'[s] = "no" => Settled(s, e)'
    BY DEF Ordered
  <2>2. /\ commits[s] \subseteq order_requests[s]
        /\ \A e \in order_requests[s] :
              OnChain(e) /\ (panicked[s] = "no" => Settled(s, e))
    BY DEF IInv, Ordered
  <2>3. CASE s /= r
    <3>1. order_requests'[s] = order_requests[s] /\ panicked'[s] = panicked[s]
      BY <1>5, <1>8, <2>3
    <3>2. QED BY <1>4, <1>7, <1>14, <2>2, <3>1 DEF OnChain
  <2>4. CASE s = r /\ panicked[r] = "no"
    <3>1. \A e \in order_requests'[r] : e \in order_requests[r] \/ e = d
      BY <1>8
    <3>2. QED BY <1>4, <1>7, <1>8, <1>13, <1>14, <2>2, <2>4, <3>1 DEF OnChain
  <2>5. QED BY <2>3, <2>4
<1>17. StoredIsExecutable'
  <2>1. \A s \in Replicas : \A e \in commits[s] : e \in Digests /\ Settled(s, e)
    BY <1>3 DEF IInv, StoredIsExecutable, Settled, ReplicaTyped
  <2>2. \A s \in Replicas : \A e \in commits'[s] : Settled(s, e)'
    BY <1>4, <1>14, <2>1
  <2>3. QED BY <2>2 DEF StoredIsExecutable, Settled
<1>18. QED BY <1>9, <1>10, <1>11, <1>16, <1>17 DEF IInv

\* The block of the primary, received:
LEMMA HandleOrderRequestKeeps ==
  ASSUME IInv, NEW r \in Live, NEW m, HandleOrderRequest(r, m)
  PROVE  IInv'
<1>1. /\ Typed /\ r \in Replicas /\ panicked[r] = "no"
      /\ m.kind = "OrderRequest" /\ Arrived(r, m) /\ Order(r, m.digest)
      /\ HandleDatagram(r, m, OrderOut(r, m.digest), <<>>)
  BY LiveAssumption DEF IInv, HandleOrderRequest, Running
<1>2. OnChain(m.digest) BY <1>1, MessagesType DEF IInv, MessagesSound
<1>3. OrderOut(r, m.digest) \in SUBSET Wires /\ <<>> \in Seq(OrderRequestMsgs)
  BY <1>2, OrderOutType
<1>4. /\ Wired(Wires, Msgs, OrderRequestMsgs)'
      /\ Messages' \subseteq Messages \cup Sent(OrderOut(r, m.digest), <<>>)
  BY <1>1, <1>3, ReplicaSends
<1>5. QED BY <1>1, <1>2, <1>4, OrderKeeps

\* And looped back to the primary itself:
LEMMA LoopbackOrderRequestKeeps ==
  ASSUME IInv, NEW r \in Live, LoopbackOrderRequest(r)
  PROVE  IInv'
<1>1. PICK m : m = Head(loopback[r]).msg OBVIOUS
<1>2. /\ Typed /\ r \in Replicas /\ panicked[r] = "no" /\ loopback[r] /= <<>>
      /\ Order(r, m.digest)
      /\ HandleLoopback(r, OrderOut(r, m.digest), <<>>)
  BY <1>1, LiveAssumption DEF IInv, LoopbackOrderRequest, Running
<1>3. m \in OrderRequestMsgs /\ m \in Messages BY <1>1, <1>2, MessagesType
<1>4. OnChain(m.digest) BY <1>3 DEF IInv, MessagesSound, OrderRequestMsgs
<1>5. OrderOut(r, m.digest) \in SUBSET Wires /\ <<>> \in Seq(OrderRequestMsgs)
  BY <1>4, OrderOutType
<1>6. /\ Wired(Wires, Msgs, OrderRequestMsgs)'
      /\ Messages' \subseteq Messages \cup Sent(OrderOut(r, m.digest), <<>>)
  BY <1>2, <1>5, ReplicaSends
<1>7. QED BY <1>2, <1>4, <1>6, OrderKeeps

\* A Commit is stored of a block that the replica holds only.
LEMMA HandleCommitKeeps ==
  ASSUME IInv, NEW r \in Live, NEW m, HandleCommit(r, m)
  PROVE  IInv'
<1>1. /\ Typed /\ r \in Replicas /\ panicked[r] = "no" /\ m.kind = "Commit"
      /\ Arrived(r, m) /\ Event(r)
      /\ UNCHANGED <<clientVars, commitVars, requests, order_requests, executeVars>>
  BY LiveAssumption DEF IInv, HandleCommit, Running
<1>2. m \in CommitMsgs BY <1>1, MessagesType, Kinds
<1>3. PICK answer : answer = {Datagram(m.client, LocalCommitMsg(m.digest, r))}
  OBVIOUS
<1>4. /\ answer \in SUBSET Wires /\ {} \in SUBSET Wires
      /\ <<>> \in Seq(OrderRequestMsgs)
      /\ Sent({}, <<>>) = {}
      /\ \A x \in Sent(answer, <<>>) : x.kind = "LocalCommit"
  <2>1. LocalCommitMsg(m.digest, r) \in LocalCommitMsgs
    BY <1>2 DEF LocalCommitMsg, LocalCommitMsgs, CommitMsgs
  <2>2. m.client \in Clients BY <1>2 DEF CommitMsgs
  <2>3. answer \in SUBSET Wires BY <1>3, <2>1, <2>2 DEF Datagram, Wires
  <2>4. /\ Sent({}, <<>>) = {}
        /\ Sent(answer, <<>>) = {x.msg : x \in answer}
    BY EmptySeq DEF Sent
  <2>5. \A x \in Sent(answer, <<>>) : x.kind = "LocalCommit"
    BY <1>3, <2>4 DEF Datagram, LocalCommitMsg
  <2>6. QED BY <2>3, <2>4, <2>5, EmptySeq
<1>5. PICK out \in {answer, {}} :
               /\ HandleDatagram(r, m, out, <<>>)
               /\ \/ /\ m.digest \in order_requests[r]
                     /\ commits' = [commits EXCEPT ![r] = @ \cup {m.digest}]
                  \/ commits' = commits
  BY <1>3 DEF HandleCommit, Storable
<1>6. /\ Wired(Wires, Msgs, OrderRequestMsgs)'
      /\ Messages' \subseteq Messages \cup Sent(out, <<>>)
  BY <1>1, <1>4, <1>5, ReplicaSends
<1>7. commits' \in [Replicas -> SUBSET Digests]
      /\ \A i \in Replicas : \A d \in commits'[i] :
            \/ d \in commits[i]
            \/ d \in order_requests[i] /\ panicked[i] = "no"
  <2>1. m.digest \in Digests /\ commits \in [Replicas -> SUBSET Digests]
    BY <1>1, <1>2 DEF CommitMsgs, Typed, ReplicaTyped
  <2>2. QED BY <1>1, <1>5, <2>1
<1>8. Typed'
  <2>1. ClientTyped' BY <1>1 DEF Typed, ClientTyped, clientVars, commitVars
  <2>2. ReplicaTyped'
    BY <1>1, <1>7 DEF Typed, ReplicaTyped, executeVars, ExecutionTypeOK, Event
  <2>3. QED BY <1>6, <2>1, <2>2 DEF Typed
<1>9. chain' = chain /\ app' = app /\ panicked' = panicked
      /\ order_requests' = order_requests
  BY <1>1 DEF executeVars
<1>10. Tip' = Tip BY <1>9 DEF Tip
<1>11. PICK new : new = Sent(out, <<>>) OBVIOUS
<1>12. \A x \in new : x.kind /= "OrderRequest" BY <1>4, <1>5, <1>11
<1>13. Messages' \subseteq Messages \cup new BY <1>6, <1>11
<1>14. \A i \in Replicas :
          /\ order_requests'[i] = order_requests[i]
          /\ chain'[i].digest_execute = chain[i].digest_execute
          /\ chain'[i].pending = chain[i].pending
  BY <1>9
<1>15. \A d \in Digests : IsAncestor(d, Tip) => IsAncestor(d, Tip') BY <1>10
<1>16. QED BY <1>7, <1>8, <1>9, <1>12, <1>13, <1>14, <1>15, QuietStep
-----------------------------------------------------------------------------
\* Nothing has been sent at first.
LEMMA InitHolds == Init => IInv
<1>1. SUFFICES ASSUME Init PROVE IInv OBVIOUS
<1>2. /\ net = {} /\ loopback = [r \in Replicas |-> <<>>] /\ dup = 0
      /\ request_num = [c \in Clients |-> 0]
      /\ invoke = [c \in Clients |-> FALSE]
      /\ replies = [c \in Clients |-> {}]
      /\ results = [c \in Clients |-> <<>>]
      /\ commit = [c \in Clients |-> {}]
      /\ local_commits = [c \in Clients |-> {}]
      /\ requests = [r \in Replicas |-> <<>>]
      /\ order_requests = [r \in Replicas |-> {}]
      /\ commits = [r \in Replicas |-> {}]
      /\ paced = TRUE
      /\ chain = [r \in Replicas |-> NewChain]
      /\ app = [r \in Replicas |-> <<>>]
      /\ panicked = [r \in Replicas |-> "no"]
  BY <1>1 DEF Init, Init_Multiplex, Init_Client, Init_Execution
<1>3. <<>> \in Digests /\ Len(<<>>) = 0 /\ IsAncestor(<<>>, <<>>)
  BY EmptySeq, AncestorReflexive DEF Digests
<1>4. NewChain \in Chains /\ OnOneChain(NewChain, <<>>, <<>>)
  BY <1>3 DEF NewChain, Genesis, Chains, OnOneChain
<1>5. ExecutionTypeOK BY <1>2, <1>3, <1>4 DEF ExecutionTypeOK
<1>6. Wired(Wires, Msgs, OrderRequestMsgs)
  BY <1>2, EmptySeq, MaxDupAssumption DEF Wired
<1>7. ClientTyped BY <1>2, EmptySeq, MaxRequestAssumption DEF ClientTyped
<1>8. ReplicaTyped BY <1>2, <1>5, EmptySeq DEF ReplicaTyped
<1>9. Messages = {} BY <1>2, EmptySeq DEF Messages
<1>10. Tip = <<>> BY <1>2, PrimaryAssumption DEF Tip, NewChain, Genesis
<1>11. OneChain BY <1>2, <1>4, <1>10 DEF OneChain
<1>12. Ordered /\ StoredIsExecutable BY <1>2 DEF Ordered, StoredIsExecutable
<1>13. QED
  BY <1>6, <1>7, <1>8, <1>9, <1>11, <1>12 DEF IInv, Typed, MessagesSound

\* Every step keeps the invariant.
LEMMA StepKeeps == IInv /\ [Next]_vars => IInv'
<1>1. SUFFICES ASSUME IInv, [Next]_vars PROVE IInv' OBVIOUS
<1>2. CASE UNCHANGED vars
  <2>1. /\ UNCHANGED netVars /\ UNCHANGED clientVars /\ UNCHANGED commitVars
        /\ UNCHANGED <<requests, order_requests, commits, paced>>
        /\ UNCHANGED executeVars
    BY <1>2 DEF vars, replicaVars
  <2>2. Typed'
    BY <1>1, <2>1
    DEF IInv, Typed, Wired, ClientTyped, ReplicaTyped, ExecutionTypeOK, netVars,
        clientVars, commitVars, executeVars
  <2>3. Messages' = Messages BY <2>1 DEF Messages, netVars
  <2>4. PICK new : new = {} OBVIOUS
  <2>5. Messages' \subseteq Messages \cup new
        /\ \A m \in new : m.kind /= "OrderRequest"
    BY <2>3, <2>4
  <2>6. UNCHANGED <<order_requests, commits, executeVars>> BY <2>1
  <2>7. QED BY <1>1, <2>2, <2>5, <2>6, UnorderedStep
<1>3. ASSUME NEW c \in Clients,
             Invoke(c) \/ \E m \in InFlightTo(net, c) : HandleResponse(c, m)
      PROVE  IInv'
  BY <1>1, <1>3, InvokeKeeps, HandleResponseKeeps
<1>4. ASSUME NEW r \in Live, ReplicaStep(r) PROVE IInv'
  BY <1>1, <1>4, HandleRequestKeeps, OnPaceKeeps, HandleOrderRequestKeeps,
     LoopbackOrderRequestKeeps, HandleCommitKeeps
  DEF ReplicaStep
<1>5. QED BY <1>1, <1>2, <1>3, <1>4 DEF Next

\* The inductive invariant holds throughout.
THEOREM Invariance == Spec => []IInv
<1>1. Init => IInv BY InitHolds
<1>2. IInv /\ [Next]_vars => IInv' BY StepKeeps
<1>3. QED BY <1>1, <1>2, PTL DEF Spec

\* handle_commit: a replica stores a Commit only of a block that it has executed
\* or executes once the blocks before it have come, whatever the network loses,
\* reorders or duplicates.
THEOREM StoresExecutable == Spec => []StoredIsExecutable
<1>1. IInv => StoredIsExecutable BY DEF IInv
<1>2. QED BY <1>1, Invariance, PTL
-----------------------------------------------------------------------------
\* A request is at one place: on its way to the primary, in its queue, or in one
\* block.
OncePlaced ==
    OnePlace(InFlightTo(net, Primary), requests[Primary], Tip, request_num)

\* A response tells the results of a block that its replica executed, and a
\* LocalCommit that its replica stored the Commit.
ResponseSound(m) ==
    /\ OnChain(m.digest) /\ IsAncestor(m.digest, app[m.replica])
    /\ \A i \in 1..Len(BlockRequests(m.digest)) :
          ResultOf(m.results[i], m.digest, i)

AnswerSound(m) ==
    /\ m.kind = "SpecResponse" => ResponseSound(m)
    /\ m.kind = "LocalCommit" => m.digest \in commits[m.replica]

AnswersSound == \A x \in net : AnswerSound(x.msg)

Executors(d) == {i \in Replicas : IsAncestor(d, app[i])}
Storers(d) == {i \in Replicas : d \in commits[i]}

\* All replicas executed the block that has the result, or n - f executed it and
\* n - f stored a Commit of it.
FinalResult(res) ==
    \E d \in Digests :
        /\ OnChain(d)
        /\ \E i \in 1..Len(BlockRequests(d)) : ResultOf(res, d, i)
        /\ \/ Executors(d) = Replicas
           \/ /\ Cardinality(Executors(d)) >= Quorum
              /\ Cardinality(Storers(d)) >= Quorum

\* What client c sent Commits for: n - f replicas executed the block of its
\* request, and those it counts have stored the Commit of that very block.
CommitSound(c, x) ==
    /\ OnChain(x.digest)
    /\ Cardinality(Executors(x.digest)) >= Quorum
    /\ \E i \in 1..Len(BlockRequests(x.digest)) :
          /\ BlockRequests(x.digest)[i] = Request(c, request_num[c])
          /\ ResultOf(x.result, x.digest, i)
    /\ \A i \in local_commits[c] : x.digest \in commits[i]

ClientSound(c) ==
    /\ \A m \in replies[c] : ResponseSound(m)
    /\ \A m, x \in replies[c] : m.replica = x.replica => m = x
    /\ \A x \in commit[c] : CommitSound(c, x)
    /\ commit[c] = {} => local_commits[c] = {}
    /\ \A k \in 1..Len(results[c]) : FinalResult(results[c][k])

\* What holds besides when no datagram arrives twice.
FInv == OncePlaced /\ AnswersSound /\ \A c \in Clients : ClientSound(c)

\* Executed and stored blocks stay, and so does the chain.
Grows ==
    /\ \A i \in Replicas : /\ IsAncestor(app[i], app'[i])
                           /\ commits[i] \subseteq commits'[i]
    /\ \A d \in Digests : IsAncestor(d, Tip) => IsAncestor(d, Tip')

\* Nothing is ever undone.
LEMMA StepGrows == IInv /\ [Next]_vars => Grows
<1>1. SUFFICES ASSUME IInv, [Next]_vars PROVE Grows OBVIOUS
<1>2. /\ ExecutionTypeOK /\ ReplicaTyped /\ Typed
      /\ \A i \in Replicas : app[i] \in Digests /\ IsAncestor(app[i], app[i])
  BY <1>1, AncestorReflexive
  DEF IInv, Typed, ReplicaTyped, ExecutionTypeOK, Digests
<1>3. ASSUME UNCHANGED <<chain, app>>,
             \A i \in Replicas : commits[i] \subseteq commits'[i]
      PROVE  Grows
  BY <1>2, <1>3 DEF Grows, Tip
<1>4. CASE UNCHANGED vars
  BY <1>3, <1>4 DEF vars, replicaVars, executeVars
<1>5. ASSUME NEW c \in Clients,
             Invoke(c) \/ \E m \in InFlightTo(net, c) : HandleResponse(c, m)
      PROVE  Grows
  <2>1. UNCHANGED replicaVars
    BY <1>5 DEF Invoke, HandleResponse, HandleSpecResponse, HandleLocalCommit
  <2>2. QED BY <1>3, <2>1 DEF replicaVars, executeVars
<1>6. ASSUME NEW r \in Live, OnPace(r) PROVE Grows
  <2>1. PICK next : /\ next = Propose(chain[r], requests[r])
                    /\ chain' = [chain EXCEPT ![r] = next]
                    /\ r = Primary /\ requests[r] /= <<>>
                    /\ UNCHANGED <<commits, app>>
    BY <1>6 DEF OnPace
  <2>2. /\ r \in Replicas /\ chain[r] \in Chains
        /\ requests[r] \in Seq(RequestRecords)
    BY <1>2, LiveAssumption DEF ReplicaTyped, ExecutionTypeOK
  <2>3. \A e \in Digests : IsAncestor(e, chain[r].digest_parent)
           => IsAncestor(e, next.digest_parent)
    BY <2>1, <2>2, ProposeProperties
  <2>4. chain'[r] = next BY <1>2, <2>1, <2>2 DEF ExecutionTypeOK
  <2>5. QED BY <1>2, <2>1, <2>3, <2>4 DEF Grows, Tip
<1>7. ASSUME NEW r \in Live, NEW d, OnChain(d), Order(r, d) PROVE Grows
  <2>1. PICK t : t = Tip OBVIOUS
  <2>2. PICK held : held = order_requests[r] \cup {d} OBVIOUS
  <2>3. /\ r \in Replicas /\ d \in Digests /\ Len(d) > 0 /\ IsAncestor(d, t)
        /\ OnOneChain(chain[r], app[r], t) /\ t \in Digests
        /\ DoExecute(r, d, held)
        /\ commits' = commits
    BY <1>1, <1>2, <1>7, <2>1, <2>2, LiveAssumption, PrimaryAssumption
    DEF IInv, OneChain, OnChain, ExecutionTypeOK, Tip, Chains, Order
  <2>4. /\ chain'[r].digest_parent = chain[r].digest_parent
        /\ \A s \in Replicas : s /= r => chain'[s] = chain[s] /\ app'[s] = app[s]
        /\ IsAncestor(app[r], app'[r])
    BY <1>2, <2>3, DoExecuteAny
  <2>5. Tip' = Tip BY <2>4, PrimaryAssumption DEF Tip
  <2>6. QED BY <1>2, <2>3, <2>4, <2>5 DEF Grows
<1>8. ASSUME NEW r \in Live, ReplicaStep(r) PROVE Grows
  <2>1. CASE LoopbackOrderRequest(r)
    <3>1. /\ loopback[r] /= <<>> /\ Order(r, Head(loopback[r]).msg.digest)
          /\ r \in Replicas
      BY <2>1, LiveAssumption DEF LoopbackOrderRequest
    <3>2. OnChain(Head(loopback[r]).msg.digest)
      BY <1>1, <1>2, <3>1, MessagesType DEF IInv, MessagesSound, OrderRequestMsgs
    <3>3. QED BY <1>7, <3>1, <3>2
  <2>2. ASSUME NEW m, HandleOrderRequest(r, m) PROVE Grows
    <3>1. /\ m.kind = "OrderRequest" /\ Arrived(r, m) /\ Order(r, m.digest)
          /\ r \in Replicas
      BY <2>2, LiveAssumption DEF HandleOrderRequest
    <3>2. OnChain(m.digest)
      BY <1>1, <1>2, <3>1, MessagesType DEF IInv, MessagesSound
    <3>3. QED BY <1>7, <3>1, <3>2
  <2>3. ASSUME NEW m, HandleRequest(r, m) PROVE Grows
    BY <1>3, <2>3 DEF HandleRequest, executeVars
  <2>4. ASSUME NEW m, HandleCommit(r, m) PROVE Grows
    <3>1. \A i \in Replicas : commits[i] \subseteq commits'[i]
      BY <1>2, <2>4 DEF HandleCommit, ReplicaTyped
    <3>2. QED BY <1>3, <2>4, <3>1 DEF HandleCommit, executeVars
  <2>5. QED BY <1>6, <1>8, <2>1, <2>2, <2>3, <2>4 DEF ReplicaStep
<1>9. QED BY <1>1, <1>4, <1>5, <1>8 DEF Next

\* So the replicas that executed or stored a block still have.
LEMMA BlocksKept ==
  ASSUME IInv, IInv', Grows, NEW d \in Digests
  PROVE  /\ OnChain(d) => OnChain(d)'
         /\ \A i \in Replicas : IsAncestor(d, app[i]) => IsAncestor(d, app'[i])
         /\ Executors(d)' \subseteq Replicas
         /\ Executors(d) = Replicas => Executors(d)' = Replicas
         /\ \A n \in Nat :
               /\ Cardinality(Executors(d)) >= n => Cardinality(Executors(d)') >= n
               /\ Cardinality(Storers(d)) >= n => Cardinality(Storers(d)') >= n
<1>1. \A i \in Replicas : app[i] \in Digests /\ app'[i] \in Digests
  BY DEF IInv, Typed, ReplicaTyped, ExecutionTypeOK
<1>2. \A i \in Replicas : IsAncestor(d, app[i]) => IsAncestor(d, app'[i])
  BY <1>1, AncestorTransitive DEF Grows, Digests
<1>3. Executors(d) \subseteq Executors(d)' /\ Storers(d) \subseteq Storers(d)'
  BY <1>2 DEF Executors, Storers, Grows
<1>4. /\ Executors(d)' \subseteq Replicas /\ Storers(d)' \subseteq Replicas
      /\ Executors(d) \subseteq Replicas /\ Storers(d) \subseteq Replicas
  BY DEF Executors, Storers
<1>5. /\ Cardinality(Executors(d)) <= Cardinality(Executors(d)')
      /\ Cardinality(Storers(d)) <= Cardinality(Storers(d)')
      /\ Cardinality(Executors(d)) \in Nat /\ Cardinality(Executors(d)') \in Nat
      /\ Cardinality(Storers(d)) \in Nat /\ Cardinality(Storers(d)') \in Nat
  BY <1>3, <1>4, ReplicasAssumption, FS_Subset, FS_CardinalityType
<1>6. OnChain(d) => OnChain(d)' BY DEF OnChain, Grows
<1>7. \A n \in Nat :
         /\ Cardinality(Executors(d)) >= n => Cardinality(Executors(d)') >= n
         /\ Cardinality(Storers(d)) >= n => Cardinality(Storers(d)') >= n
  BY <1>5
<1>8. Executors(d) = Replicas => Executors(d)' = Replicas BY <1>3, <1>4
<1>9. QED BY <1>2, <1>4, <1>6, <1>7, <1>8

LEMMA QuorumType == Quorum \in Nat
<1>1. Cardinality(Replicas) \in Nat BY ReplicasAssumption, FS_CardinalityType
<1>2. PICK n : n = Cardinality(Replicas) OBVIOUS
<1>3. n - NumFaulty \in Nat BY <1>1, <1>2, ReplicasAssumption
<1>4. QED BY <1>2, <1>3 DEF Quorum

\* And what was an answer, or a final result, still is.
LEMMA AnswersKept ==
  ASSUME IInv, IInv', Grows
  PROVE  /\ \A m \in SpecResponseMsgs : ResponseSound(m) => ResponseSound(m)'
         /\ \A m \in LocalCommitMsgs : AnswerSound(m) => AnswerSound(m)'
         /\ \A res : FinalResult(res) => FinalResult(res)'
<1>1. \A m \in SpecResponseMsgs : ResponseSound(m) => ResponseSound(m)'
  BY BlocksKept, LiveAssumption DEF ResponseSound, SpecResponseMsgs
<1>2. \A m \in LocalCommitMsgs : AnswerSound(m) => AnswerSound(m)'
  BY LiveAssumption DEF AnswerSound, LocalCommitMsgs, Grows
<1>3. ASSUME NEW res, FinalResult(res) PROVE FinalResult(res)'
  <2>1. PICK d \in Digests :
               /\ OnChain(d)
               /\ \E i \in 1..Len(BlockRequests(d)) : ResultOf(res, d, i)
               /\ \/ Executors(d) = Replicas
                  \/ /\ Cardinality(Executors(d)) >= Quorum
                     /\ Cardinality(Storers(d)) >= Quorum
    BY <1>3 DEF FinalResult
  <2>2. /\ OnChain(d)'
        /\ \/ Executors(d)' = Replicas
           \/ /\ Cardinality(Executors(d)') >= Quorum
              /\ Cardinality(Storers(d)') >= Quorum
    BY <2>1, BlocksKept, QuorumType
  <2>3. QED BY <2>1, <2>2 DEF FinalResult
<1>4. QED BY <1>1, <1>2, <1>3

\* A client that takes no step, or an unrelated one.
LEMMA ClientKept ==
  ASSUME IInv, IInv', Grows, NEW c \in Clients, ClientSound(c),
         /\ request_num'[c] = request_num[c]
         /\ replies'[c] = replies[c]
         /\ results'[c] = results[c]
         /\ commit'[c] = commit[c]
         /\ local_commits'[c] = local_commits[c]
  PROVE  ClientSound(c)'
<1>1. /\ replies[c] \subseteq SpecResponseMsgs
      /\ commit[c] \subseteq [digest : Digests, result : ReplicaResults]
      /\ local_commits[c] \subseteq Replicas
  BY LiveAssumption DEF IInv, Typed, ClientTyped
<1>2. ASSUME NEW x \in commit[c] PROVE CommitSound(c, x)'
  <2>1. CommitSound(c, x) /\ x.digest \in Digests BY <1>1 DEF ClientSound
  <2>2. OnChain(x.digest)' /\ Cardinality(Executors(x.digest)') >= Quorum
    BY <2>1, BlocksKept, QuorumType DEF CommitSound
  <2>3. \A i \in local_commits[c] : x.digest \in commits'[i]
    BY <1>1, <2>1 DEF CommitSound, Grows
  <2>4. QED BY <2>1, <2>2, <2>3 DEF CommitSound
<1>3. QED BY <1>1, <1>2, AnswersKept DEF ClientSound
-----------------------------------------------------------------------------
\* Two blocks of the chain that hold the same request are one.
LEMMA BlockOnce ==
  ASSUME IInv, OncePlaced, NEW d, NEW e, OnChain(d), OnChain(e),
         NEW i \in 1..Len(BlockRequests(d)), NEW j \in 1..Len(BlockRequests(e)),
         BlockRequests(d)[i] = BlockRequests(e)[j]
  PROVE  d = e
<1>1. /\ Tip \in Digests /\ d \in Digests /\ e \in Digests
      /\ IsAncestor(d, Tip) /\ IsAncestor(e, Tip) /\ Len(d) > 0 /\ Len(e) > 0
  BY PrimaryAssumption
  DEF IInv, Typed, ReplicaTyped, ExecutionTypeOK, Chains, Tip, OnChain
<1>2. Len(d) \in 1..Len(Tip) /\ Len(e) \in 1..Len(Tip)
  BY <1>1, LenProperties DEF IsAncestor, Digests
<1>3. d[Len(d)] = Tip[Len(d)] /\ e[Len(e)] = Tip[Len(e)]
  BY <1>1, <1>2, AncestorDef DEF Digests
<1>4. /\ i \in 1..Len(Tip[Len(d)]) /\ j \in 1..Len(Tip[Len(e)])
      /\ Tip[Len(d)][i] = Tip[Len(e)][j]
  BY <1>3 DEF BlockRequests
<1>5. Len(d) = Len(e) BY <1>2, <1>4 DEF OncePlaced, OnePlace, Listed
<1>6. IsAncestor(d, e)
  BY <1>1, <1>2, <1>5, AncestorsOfOne DEF Digests
<1>7. QED BY <1>1, <1>5, <1>6, AncestorAntisymmetric DEF Digests

\* The responses a client holds with m are of different replicas.
LEMMA ResponsesSound ==
  ASSUME NEW c \in Clients, ClientSound(c), NEW m, ResponseSound(m)
  PROVE  /\ \A x \in Responses(c, m) : ResponseSound(x)
         /\ \A x, y \in Responses(c, m) : x.replica = y.replica => x = y
BY DEF Responses, ClientSound

\* So those that match m are of replicas that executed its block.
LEMMA MatchingExecutors ==
  ASSUME IInv, NEW c \in Clients, ClientSound(c), NEW m \in SpecResponseMsgs,
         ResponseSound(m)
  PROVE  /\ NumMatch(c, m) <= Cardinality(Executors(m.digest))
         /\ NumMatch(c, m) \in Nat
         /\ NumMatch(c, m) = Cardinality(Replicas) => Executors(m.digest) = Replicas
<1> DEFINE S == {x \in Responses(c, m) : x.digest = m.digest /\ x.results = m.results}
           B == Executors(m.digest)
           f == [x \in S |-> x.replica]
<1>1. replies[c] \subseteq SpecResponseMsgs BY DEF IInv, Typed, ClientTyped
<1>2. Responses(c, m) \subseteq SpecResponseMsgs BY <1>1 DEF Responses
<1>3. ASSUME NEW x \in S PROVE x.replica \in B
  <2>1. x.replica \in Replicas BY <1>2, LiveAssumption DEF SpecResponseMsgs
  <2>2. IsAncestor(m.digest, app[x.replica])
    BY ResponsesSound DEF ResponseSound
  <2>3. QED BY <2>1, <2>2 DEF Executors
<1>4. \A x, y \in S : f[x] = f[y] => x = y BY ResponsesSound
<1>5. f \in [S -> B] BY <1>3
<1>6. B \subseteq Replicas BY DEF Executors
<1>7. IsFiniteSet(B) BY <1>6, ReplicasAssumption, FS_Subset
<1> HIDE DEF S, B, f
<1>8. f \in Injection(S, B) BY <1>4, <1>5 DEF Injection, IsInjective, f
<1>9. /\ IsFiniteSet(S) /\ Cardinality(S) <= Cardinality(B)
      /\ Cardinality(S) \in Nat /\ Cardinality(B) \in Nat
  BY <1>7, <1>8, FS_Injection, FS_CardinalityType
<1>10. NumMatch(c, m) = Cardinality(S) BY DEF NumMatch, S
<1>11. ASSUME Cardinality(S) = Cardinality(Replicas) PROVE B = Replicas
  <2>1. Cardinality(B) <= Cardinality(Replicas)
    BY <1>6, ReplicasAssumption, FS_Subset
  <2>2. Cardinality(Replicas) \in Nat BY ReplicasAssumption, FS_CardinalityType
  <2>3. Cardinality(B) = Cardinality(Replicas) BY <1>9, <1>11, <2>1, <2>2
  <2>4. QED BY <2>3, <1>6, ReplicasAssumption, FS_Subset
<1>12. QED BY <1>9, <1>10, <1>11 DEF B

\* A client that consumes a final result.
LEMMA ConsumeSound ==
  ASSUME IInv, IInv', Grows, NEW c \in Clients, ClientSound(c),
         NEW res \in ReplicaResults, FinalResult(res), ConsumeResult(c, res)
  PROVE  ClientSound(c)'
<1>1. /\ replies'[c] = {} /\ commit'[c] = {} /\ local_commits'[c] = {}
      /\ results'[c] = Append(results[c], res)
      /\ results[c] \in Seq(ReplicaResults)
  BY DEF ConsumeResult, IInv, Typed, ClientTyped
<1>2. PICK n : n = Len(results[c]) OBVIOUS
<1>3. /\ n \in Nat /\ Len(results'[c]) = n + 1
      /\ \A k \in 1..n : results'[c][k] = results[c][k]
      /\ results'[c][n + 1] = res
  BY <1>1, <1>2, AppendProperties, LenProperties
<1>4. \A k \in 1..n : FinalResult(results[c][k])'
  BY <1>2, <1>3, AnswersKept DEF ClientSound
<1>5. FinalResult(results[c][n + 1])' BY <1>3, AnswersKept
<1>6. \A k \in 1..n + 1 : k \in 1..n \/ k = n + 1 BY <1>3
<1>7. \A k \in 1..Len(results'[c]) : FinalResult(results[c][k])'
  BY <1>3, <1>4, <1>5, <1>6
<1>8. QED BY <1>1, <1>7 DEF ClientSound

\* Client::handle of a response: the commit_digest a client switches to is the
\* one its local_commits are of, as the request is in one block only.
LEMMA SpecResponseSound ==
  ASSUME IInv, IInv', Grows, FInv, NEW c \in Clients, NEW m,
         HandleSpecResponse(c, m)
  PROVE  ClientSound(c)'
<1>1. /\ m \in SpecResponseMsgs /\ Datagram(c, m) \in net /\ m.kind = "SpecResponse"
      /\ Typed /\ ClientTyped
  BY MessagesType, Kinds DEF IInv, Typed, HandleSpecResponse
<1>2. ResponseSound(m)
  <2>1. AnswerSound(Datagram(c, m).msg) BY <1>1 DEF FInv, AnswersSound
  <2>2. QED BY <1>1, <2>1 DEF AnswerSound, Datagram
<1>3. ClientSound(c) BY DEF FInv
<1>4. \A i \in Position(c, m) :
         /\ i \in 1..Len(BlockRequests(m.digest))
         /\ BlockRequests(m.digest)[i] = Request(c, request_num[c])
         /\ m.results[i] \in ReplicaResults
         /\ ResultOf(m.results[i], m.digest, i)
  BY <1>1, <1>2, PositionType DEF ResponseSound
<1>5. m.digest \in Digests BY <1>1 DEF SpecResponseMsgs
<1>6. /\ \A x \in Responses(c, m) : ResponseSound(x)'
      /\ \A x, y \in Responses(c, m) : x.replica = y.replica => x = y
  <2>1. Responses(c, m) \subseteq SpecResponseMsgs
    BY <1>1 DEF Responses, ClientTyped
  <2>2. QED BY <1>2, <1>3, <2>1, ResponsesSound, AnswersKept
<1>7. CASE \E i \in Position(c, m) :
              /\ Final(c, m)
              /\ ConsumeResult(c, m.results[i])
  <2>1. PICK i \in Position(c, m) : ConsumeResult(c, m.results[i]) BY <1>7
  <2>2. Executors(m.digest) = Replicas
    BY <1>1, <1>2, <1>3, <1>7, MatchingExecutors DEF Final
  <2>3. FinalResult(m.results[i])
    BY <1>2, <1>4, <1>5, <2>2 DEF FinalResult, ResponseSound
  <2>4. QED BY <1>3, <1>4, <2>1, <2>3, ConsumeSound
<1>8. CASE \E i \in Position(c, m) :
              /\ ToCommit(c, m)
              /\ replies' = [replies EXCEPT ![c] = Responses(c, m)]
              /\ commit' = [commit EXCEPT ![c] =
                     {[digest |-> m.digest, result |-> m.results[i]]}]
              /\ UNCHANGED <<request_num, invoke, results, local_commits>>
  <2>1. PICK i \in Position(c, m) :
              commit' = [commit EXCEPT ![c] =
                           {[digest |-> m.digest, result |-> m.results[i]]}]
    BY <1>8
  <2>2. PICK x : x = [digest |-> m.digest, result |-> m.results[i]] OBVIOUS
  <2>3. /\ commit'[c] = {x} /\ replies'[c] = Responses(c, m)
        /\ results' = results /\ local_commits' = local_commits
        /\ request_num' = request_num
    BY <1>1, <1>8, <2>1, <2>2 DEF ClientTyped
  <2>4. Cardinality(Executors(m.digest)) >= Quorum
    <3>1. NumMatch(c, m) <= Cardinality(Executors(m.digest))
          /\ NumMatch(c, m) = Quorum
      BY <1>1, <1>2, <1>3, <1>8, MatchingExecutors DEF ToCommit
    <3>2. QED BY <3>1, QuorumType
  <2>5. \A j \in local_commits[c] : m.digest \in commits[j]
    <3>1. CASE commit[c] = {} BY <1>3, <3>1 DEF ClientSound
    <3>2. CASE commit[c] /= {}
      <4>1. PICK y \in commit[c] : CommitSound(c, y) BY <1>3, <3>2 DEF ClientSound
      <4>2. PICK j \in 1..Len(BlockRequests(y.digest)) :
               BlockRequests(y.digest)[j] = Request(c, request_num[c])
        BY <4>1 DEF CommitSound
      <4>3. y.digest = m.digest
        BY <1>2, <1>4, <4>1, <4>2, BlockOnce DEF FInv, CommitSound, ResponseSound
      <4>4. QED BY <4>1, <4>3 DEF CommitSound
    <3>3. QED BY <3>1, <3>2
  <2>6. CommitSound(c, x)'
    <3>1. OnChain(m.digest)' /\ Cardinality(Executors(m.digest)') >= Quorum
      BY <1>2, <1>5, <2>4, BlocksKept, QuorumType DEF ResponseSound
    <3>2. local_commits[c] \subseteq Replicas
      BY <1>1, LiveAssumption DEF ClientTyped
    <3>3. \A j \in local_commits[c] : m.digest \in commits'[j]
      BY <2>5, <3>2 DEF Grows
    <3>4. x.digest = m.digest /\ x.result = m.results[i] BY <2>2
    <3>5. QED BY <1>4, <2>3, <3>1, <3>3, <3>4 DEF CommitSound
  <2>7. \A k \in 1..Len(results'[c]) : FinalResult(results[c][k])'
    BY <1>3, <2>3, AnswersKept DEF ClientSound
  <2>8. QED BY <1>6, <2>3, <2>6, <2>7 DEF ClientSound
<1>9. CASE /\ replies' = [replies EXCEPT ![c] = Responses(c, m)]
           /\ UNCHANGED <<request_num, invoke, results, commitVars>>
  <2>1. /\ replies'[c] = Responses(c, m) /\ results' = results
        /\ commit' = commit /\ local_commits' = local_commits
        /\ request_num' = request_num
    BY <1>1, <1>9 DEF ClientTyped, commitVars
  <2>2. ASSUME NEW x \in commit[c] PROVE CommitSound(c, x)'
    <3>1. CommitSound(c, x) /\ x.digest \in Digests
      BY <1>1, <1>3 DEF ClientSound, ClientTyped
    <3>2. OnChain(x.digest)' /\ Cardinality(Executors(x.digest)') >= Quorum
      BY <3>1, BlocksKept, QuorumType DEF CommitSound
    <3>3. local_commits[c] \subseteq Replicas
      BY <1>1, LiveAssumption DEF ClientTyped
    <3>4. \A i \in local_commits[c] : x.digest \in commits'[i]
      BY <3>1, <3>3 DEF CommitSound, Grows
    <3>5. QED BY <2>1, <3>1, <3>2, <3>4 DEF CommitSound
  <2>3. \A k \in 1..Len(results'[c]) : FinalResult(results[c][k])'
    BY <1>3, <2>1, AnswersKept DEF ClientSound
  <2>4. commit[c] = {} => local_commits[c] = {} BY <1>3 DEF ClientSound
  <2>5. QED BY <1>6, <2>1, <2>2, <2>3, <2>4 DEF ClientSound
<1>10. CASE UNCHANGED <<clientVars, commitVars>>
  BY <1>3, <1>10, ClientKept DEF clientVars, commitVars
<1>11. QED BY <1>7, <1>8, <1>9, <1>10 DEF HandleSpecResponse

\* Client::handle of a LocalCommit: n - f of them make the result final.
LEMMA LocalCommitSound ==
  ASSUME IInv, IInv', Grows, FInv, NEW c \in Clients, NEW m,
         HandleLocalCommit(c, m)
  PROVE  ClientSound(c)'
<1>1. /\ m \in LocalCommitMsgs /\ Datagram(c, m) \in net /\ m.kind = "LocalCommit"
      /\ Typed /\ ClientTyped
  BY MessagesType, Kinds
  DEF IInv, Typed, HandleLocalCommit, ClientReceives
<1>2. m.digest \in commits[m.replica] /\ m.replica \in Replicas
  <2>1. AnswerSound(Datagram(c, m).msg) BY <1>1 DEF FInv, AnswersSound
  <2>2. QED BY <1>1, <2>1, LiveAssumption DEF AnswerSound, Datagram, LocalCommitMsgs
<1>3. ClientSound(c) BY DEF FInv
<1>4. PICK expected : expected = {x \in commit[c] : invoke[c] /\ x.digest = m.digest}
  OBVIOUS
<1>5. \A x \in expected :
         /\ x \in commit[c] /\ x.digest = m.digest /\ CommitSound(c, x)
         /\ x.digest \in Digests /\ x.result \in ReplicaResults
         /\ \A i \in local_commits[c] \cup {m.replica} : x.digest \in commits[i]
  <2>1. SUFFICES ASSUME NEW x \in expected
                 PROVE  /\ x \in commit[c] /\ x.digest = m.digest
                        /\ CommitSound(c, x)
                        /\ x.digest \in Digests /\ x.result \in ReplicaResults
                        /\ \A i \in local_commits[c] \cup {m.replica} :
                              x.digest \in commits[i]
    OBVIOUS
  <2>2. x \in commit[c] /\ x.digest = m.digest BY <1>4
  <2>3. CommitSound(c, x) BY <1>3, <2>2 DEF ClientSound
  <2>4. x.digest \in Digests /\ x.result \in ReplicaResults
    BY <1>1, <2>2 DEF ClientTyped
  <2>5. \A i \in local_commits[c] : x.digest \in commits[i]
    BY <2>3 DEF CommitSound
  <2>6. QED BY <1>2, <2>2, <2>3, <2>4, <2>5
<1>6. local_commits[c] \cup {m.replica} \subseteq Replicas
  BY <1>1, <1>2, LiveAssumption DEF ClientTyped
<1>7. CASE \E x \in expected : /\ LocallyCommitted(c, m)
                               /\ ConsumeResult(c, x.result)
  <2>1. PICK x \in expected : ConsumeResult(c, x.result) BY <1>7
  <2>2. Cardinality(Storers(x.digest)) >= Quorum
    <3>1. local_commits[c] \cup {m.replica} \subseteq Storers(x.digest)
      BY <1>5, <1>6 DEF Storers
    <3>2. Storers(x.digest) \subseteq Replicas BY DEF Storers
    <3>3. Cardinality(local_commits[c] \cup {m.replica})
             <= Cardinality(Storers(x.digest))
      BY <3>1, <3>2, ReplicasAssumption, FS_Subset
    <3>4. QED
      BY <1>7, <3>2, <3>3, QuorumType, ReplicasAssumption, FS_Subset,
         FS_CardinalityType
      DEF LocallyCommitted
  <2>3. FinalResult(x.result)
    BY <1>5, <2>2 DEF FinalResult, CommitSound
  <2>4. QED BY <1>3, <1>5, <2>1, <2>3, ConsumeSound
<1>8. CASE /\ expected /= {}
           /\ local_commits' = [local_commits EXCEPT ![c] = @ \cup {m.replica}]
           /\ UNCHANGED <<clientVars, commit>>
  <2>1. /\ local_commits'[c] = local_commits[c] \cup {m.replica}
        /\ commit' = commit /\ replies' = replies /\ results' = results
        /\ request_num' = request_num
    BY <1>1, <1>8 DEF ClientTyped, clientVars
  <2>2. expected = commit[c]
    <3>1. \A x, y \in commit[c] : x.digest = y.digest
      <4>1. SUFFICES ASSUME NEW x \in commit[c], NEW y \in commit[c]
                     PROVE  x.digest = y.digest
        OBVIOUS
      <4>2. CommitSound(c, x) /\ CommitSound(c, y) BY <1>3 DEF ClientSound
      <4>3. QED BY <4>2, BlockOnce DEF FInv, CommitSound
    <3>2. QED BY <1>4, <1>8, <3>1
  <2>3. ASSUME NEW x \in commit[c] PROVE CommitSound(c, x)'
    <3>1. /\ CommitSound(c, x) /\ x.digest \in Digests
          /\ \A i \in local_commits'[c] : x.digest \in commits[i]
      BY <1>5, <2>1, <2>2
    <3>2. OnChain(x.digest)' /\ Cardinality(Executors(x.digest)') >= Quorum
      BY <3>1, BlocksKept, QuorumType DEF CommitSound
    <3>3. \A i \in local_commits'[c] : x.digest \in commits'[i]
      BY <1>6, <2>1, <3>1 DEF Grows
    <3>4. QED BY <2>1, <3>1, <3>2, <3>3 DEF CommitSound
  <2>4. \A k \in 1..Len(results'[c]) : FinalResult(results[c][k])'
    BY <1>3, <2>1, AnswersKept DEF ClientSound
  <2>5. /\ \A y \in replies'[c] : ResponseSound(y)'
        /\ \A x, y \in replies'[c] : x.replica = y.replica => x = y
    BY <1>1, <1>3, <2>1, AnswersKept DEF ClientSound, ClientTyped
  <2>6. commit'[c] /= {} BY <1>8, <2>1, <2>2
  <2>7. QED BY <2>1, <2>3, <2>4, <2>5, <2>6 DEF ClientSound
<1>9. CASE UNCHANGED <<clientVars, commitVars>>
  BY <1>3, <1>9, ClientKept DEF clientVars, commitVars
<1>10. QED BY <1>4, <1>7, <1>8, <1>9 DEF HandleLocalCommit
-----------------------------------------------------------------------------
\* What is in flight after a step: answers that were, and the new ones.
LEMMA FlightAnswers ==
  ASSUME IInv, IInv', Grows, AnswersSound, NEW out, net' \subseteq net \cup out,
         \A x \in out : AnswerSound(x.msg)'
  PROVE  AnswersSound'
<1>1. SUFFICES ASSUME NEW x \in net' PROVE AnswerSound(x.msg)'
  BY DEF AnswersSound
<1>2. CASE x \in out BY <1>2
<1>3. CASE x \in net
  <2>1. x \in Wires /\ AnswerSound(x.msg)
    BY <1>3 DEF IInv, Typed, Wired, AnswersSound
  <2>2. CASE x.msg \in Msgs
    <3>1. x.msg.kind \in {"Request", "OrderRequest", "Commit"}
      BY <2>2 DEF Msgs, RequestMsgs, OrderRequestMsgs, CommitMsgs
    <3>2. QED BY <3>1 DEF AnswerSound
  <2>3. CASE x.msg \in SpecResponseMsgs
    <3>1. x.msg.kind = "SpecResponse" BY <2>3 DEF SpecResponseMsgs
    <3>2. QED BY <2>1, <2>3, <3>1, AnswersKept DEF AnswerSound
  <2>4. CASE x.msg \in LocalCommitMsgs BY <2>1, <2>4, AnswersKept
  <2>5. QED BY <2>1, <2>2, <2>3, <2>4 DEF Wires
<1>4. QED BY <1>2, <1>3

\* handle_order_request proposes nothing, and its responses are sound once the
\* blocks are executed.
LEMMA OrderAnswers ==
  ASSUME IInv, IInv', NEW r \in Live, NEW d, OnChain(d), Order(r, d)
  PROVE  /\ Tip' = Tip
         /\ \A x \in OrderOut(r, d) : AnswerSound(x.msg)'
<1>1. PICK t : t = Tip OBVIOUS
<1>2. PICK held : held = order_requests[r] \cup {d} OBVIOUS
<1>3. /\ r \in Replicas /\ d \in Digests /\ Len(d) > 0 /\ IsAncestor(d, t)
      /\ OnOneChain(chain[r], app[r], t) /\ t \in Digests
      /\ ExecutionTypeOK /\ DoExecute(r, d, held)
  BY <1>1, <1>2, LiveAssumption, PrimaryAssumption
  DEF IInv, Typed, ReplicaTyped, OneChain, OnChain, ExecutionTypeOK, Tip, Chains,
      Order
<1>4. /\ chain'[r].digest_parent = chain[r].digest_parent
      /\ \A s \in Replicas : s /= r => chain'[s] = chain[s]
  BY <1>3, DoExecuteAny
<1>5. Tip' = Tip BY <1>4, PrimaryAssumption DEF Tip
<1>6. ASSUME NEW x \in OrderOut(r, d) PROVE AnswerSound(x.msg)'
  <2>1. x \in SpecResponses(r, d) /\ Panic(r, d, held) = "no"
    BY <1>2, <1>6 DEF OrderOut
  <2>2. PICK m : m = x.msg OBVIOUS
  <2>3. /\ m \in SpecResponseMsgs /\ m.replica = r /\ Len(m.digest) > 0
        /\ IsAncestor(m.digest, app[r] \o Applied(r, d))
        /\ \A i \in 1..Len(BlockRequests(m.digest)) :
              ResultOf(m.results[i], m.digest, i)
    BY <1>3, <2>1, <2>2, SpecResponsesTell
  <2>4. app'[r] = app[r] \o Applied(r, d)
    BY <1>3, <2>1 DEF DoExecute, ExecutionTypeOK
  <2>5. IsAncestor(app'[r], t)
    BY <1>1, <1>3, <1>5 DEF IInv, OneChain, OnOneChain
  <2>6. m.digest \in Digests /\ app'[r] \in Digests
    BY <1>3, <2>3
    DEF SpecResponseMsgs, IInv, Typed, ReplicaTyped, ExecutionTypeOK
  <2>7. IsAncestor(m.digest, t)
    BY <1>3, <2>3, <2>4, <2>5, <2>6, AncestorTransitive DEF Digests
  <2>8. ResponseSound(m)'
    BY <1>1, <1>5, <2>3, <2>4, <2>6, <2>7 DEF ResponseSound, OnChain
  <2>9. m.kind = "SpecResponse" BY <2>3 DEF SpecResponseMsgs
  <2>10. QED BY <2>2, <2>8, <2>9 DEF AnswerSound
<1>7. QED BY <1>5, <1>6

\* Every step keeps the answers in flight true.
LEMMA AnswersStep ==
  ASSUME IInv, IInv', Grows, AnswersSound, [Next]_vars
  PROVE  AnswersSound'
<1>1. Typed BY DEF IInv
<1>2. ASSUME NEW out, net' \subseteq net \cup out,
             \A x \in out : x.msg.kind \notin {"SpecResponse", "LocalCommit"}
      PROVE  AnswersSound'
  <2>1. \A x \in out : AnswerSound(x.msg)' BY <1>2 DEF AnswerSound
  <2>2. QED BY <1>2, <2>1, FlightAnswers
<1>3. ASSUME net' \subseteq net PROVE AnswersSound'
  <2>1. PICK out : out = {} OBVIOUS
  <2>2. net' \subseteq net \cup out BY <1>3
  <2>3. \A x \in out : x.msg.kind \notin {"SpecResponse", "LocalCommit"} BY <2>1
  <2>4. QED BY <1>2, <2>2, <2>3
<1>4. CASE UNCHANGED vars BY <1>3, <1>4 DEF vars, netVars
<1>5. ASSUME NEW c \in Clients, Invoke(c) PROVE AnswersSound'
  <2>1. PICK out : out = SendTo({Primary}, RequestMsg(c, request_num[c] + 1))
    OBVIOUS
  <2>2. net' \subseteq net \cup out
    BY <1>5, <2>1 DEF Invoke, ClientInvoke, ClientSends
  <2>3. \A x \in out : x.msg.kind = "Request"
    BY <2>1 DEF SendTo, Datagram, RequestMsg
  <2>4. QED BY <1>2, <2>2, <2>3
<1>6. ASSUME NEW c \in Clients, NEW m, HandleResponse(c, m) PROVE AnswersSound'
  <2>1. PICK out \in SUBSET {Datagram(r, CommitMsg(c, m.digest)) : r \in Live} :
                Flight(Datagram(c, m), out)
    BY <1>6, ResponseStep
  <2>2. net' \subseteq net \cup out BY <2>1 DEF Flight
  <2>3. \A x \in out : x.msg.kind = "Commit" BY <2>1 DEF Datagram, CommitMsg
  <2>4. QED BY <1>2, <2>2, <2>3
<1>7. ASSUME NEW r \in Live, ReplicaStep(r) PROVE AnswersSound'
  <2>1. CASE OnPace(r)
    <3>1. PICK m : /\ m.kind = "OrderRequest"
                   /\ Pace(r, SendTo(Peers(r), m), <<m>>)
      BY <2>1 DEF OnPace, OrderRequestMsg
    <3>2. PICK out : out = SendTo(Peers(r), m) OBVIOUS
    <3>3. net' \subseteq net \cup out BY <3>1, <3>2 DEF Pace
    <3>4. \A x \in out : x.msg.kind = "OrderRequest"
      BY <3>1, <3>2 DEF SendTo, Datagram
    <3>5. QED BY <1>2, <3>3, <3>4
  <2>2. CASE LoopbackOrderRequest(r)
    <3>1. PICK d : d = Head(loopback[r]).msg.digest OBVIOUS
    <3>2. /\ r \in Replicas /\ loopback[r] /= <<>> /\ Order(r, d)
          /\ HandleLoopback(r, OrderOut(r, d), <<>>)
      BY <2>2, <3>1, LiveAssumption DEF LoopbackOrderRequest
    <3>3. OnChain(d)
      BY <1>1, <3>1, <3>2, MessagesType DEF IInv, MessagesSound, OrderRequestMsgs
    <3>4. net' \subseteq net \cup OrderOut(r, d) BY <3>2 DEF HandleLoopback
    <3>5. \A x \in OrderOut(r, d) : AnswerSound(x.msg)'
      BY <3>2, <3>3, OrderAnswers
    <3>6. QED BY <3>4, <3>5, FlightAnswers
  <2>3. ASSUME NEW m, HandleRequest(r, m) PROVE AnswersSound'
    <3>1. net' \subseteq net BY <2>3 DEF HandleRequest, HandleDatagram, Flight
    <3>2. QED BY <1>3, <3>1
  <2>4. ASSUME NEW m, HandleOrderRequest(r, m) PROVE AnswersSound'
    <3>1. PICK d : d = m.digest OBVIOUS
    <3>2. /\ r \in Replicas /\ Arrived(r, m) /\ m.kind = "OrderRequest"
          /\ Order(r, d)
          /\ HandleDatagram(r, m, OrderOut(r, d), <<>>)
      BY <2>4, <3>1, LiveAssumption DEF HandleOrderRequest
    <3>3. OnChain(d) BY <1>1, <3>1, <3>2, MessagesType DEF IInv, MessagesSound
    <3>4. net' \subseteq net \cup OrderOut(r, d)
      BY <3>2 DEF HandleDatagram, Flight
    <3>5. \A x \in OrderOut(r, d) : AnswerSound(x.msg)'
      BY <3>2, <3>3, OrderAnswers
    <3>6. QED BY <3>4, <3>5, FlightAnswers
  <2>5. ASSUME NEW m, HandleCommit(r, m) PROVE AnswersSound'
    <3>1. CASE HandleDatagram(r, m, {}, <<>>)
      <4>1. net' \subseteq net BY <3>1 DEF HandleDatagram, Flight
      <4>2. QED BY <1>3, <4>1
    <3>2. CASE /\ HandleDatagram(r, m,
                     {Datagram(m.client, LocalCommitMsg(m.digest, r))}, <<>>)
               /\ commits' = [commits EXCEPT ![r] = @ \cup {m.digest}]
      <4>1. PICK out : out = {Datagram(m.client, LocalCommitMsg(m.digest, r))}
        OBVIOUS
      <4>2. net' \subseteq net \cup out
        BY <3>2, <4>1 DEF HandleDatagram, Flight
      <4>3. m.digest \in commits'[r]
        BY <1>1, <3>2, LiveAssumption DEF Typed, ReplicaTyped
      <4>4. \A x \in out : AnswerSound(x.msg)'
        BY <4>1, <4>3 DEF AnswerSound, Datagram, LocalCommitMsg
      <4>5. QED BY <4>2, <4>4, FlightAnswers
    <3>3. QED BY <2>5, <3>1, <3>2 DEF HandleCommit
  <2>6. QED BY <1>7, <2>1, <2>2, <2>3, <2>4, <2>5 DEF ReplicaStep
<1>8. QED BY <1>4, <1>5, <1>6, <1>7 DEF Next

\* Every step keeps what the clients know true.
LEMMA ClientsStep ==
  ASSUME IInv, IInv', Grows, FInv, [Next]_vars, NEW c \in Clients
  PROVE  ClientSound(c)'
<1>1. ClientSound(c) /\ ClientTyped BY DEF FInv, IInv, Typed
<1>2. ASSUME UNCHANGED <<clientVars, commitVars>> PROVE ClientSound(c)'
  BY <1>1, <1>2, ClientKept DEF clientVars, commitVars
<1>3. CASE UNCHANGED vars BY <1>2, <1>3 DEF vars
<1>4. ASSUME NEW e \in Clients, Invoke(e) PROVE ClientSound(c)'
  <2>1. CASE e = c
    <3>1. /\ replies'[c] = {} /\ commit'[c] = {} /\ local_commits'[c] = {}
          /\ results' = results
      BY <1>1, <1>4, <2>1 DEF Invoke, ClientInvoke, ClientTyped
    <3>2. \A k \in 1..Len(results'[c]) : FinalResult(results[c][k])'
      BY <1>1, <3>1, AnswersKept DEF ClientSound
    <3>3. QED BY <3>1, <3>2 DEF ClientSound
  <2>2. CASE e /= c
    <3>1. /\ request_num'[c] = request_num[c] /\ replies'[c] = replies[c]
          /\ results'[c] = results[c] /\ commit'[c] = commit[c]
          /\ local_commits'[c] = local_commits[c]
      BY <1>1, <1>4, <2>2 DEF Invoke, ClientInvoke, ClientTyped
    <3>2. QED BY <1>1, <3>1, ClientKept
  <2>3. QED BY <2>1, <2>2
<1>5. ASSUME NEW e \in Clients, NEW m, HandleResponse(e, m) PROVE ClientSound(c)'
  <2>1. CASE e = c
    BY <1>5, <2>1, SpecResponseSound, LocalCommitSound DEF HandleResponse
  <2>2. CASE e /= c
    <3>1. /\ request_num'[c] = request_num[c] /\ replies'[c] = replies[c]
          /\ results'[c] = results[c] /\ commit'[c] = commit[c]
          /\ local_commits'[c] = local_commits[c]
      <4>1. CASE HandleSpecResponse(e, m)
        BY <1>1, <2>2, <4>1
        DEF HandleSpecResponse, ConsumeResult, ClientTyped, clientVars, commitVars
      <4>2. CASE HandleLocalCommit(e, m)
        BY <1>1, <2>2, <4>2
        DEF HandleLocalCommit, ConsumeResult, ClientTyped, clientVars, commitVars
      <4>3. QED BY <1>5, <4>1, <4>2 DEF HandleResponse
    <3>2. QED BY <1>1, <3>1, ClientKept
  <2>3. QED BY <2>1, <2>2
<1>6. ASSUME NEW r \in Live, ReplicaStep(r) PROVE ClientSound(c)'
  <2>1. UNCHANGED clientVars /\ UNCHANGED commitVars
    BY <1>6
    DEF ReplicaStep, OnPace, LoopbackOrderRequest, HandleRequest,
        HandleOrderRequest, HandleCommit, Order
  <2>2. QED BY <1>2, <2>1
<1>7. QED BY <1>3, <1>4, <1>5, <1>6 DEF Next
-----------------------------------------------------------------------------
\* A step that sends no request keeps them where they are.
LEMMA OnceQuiet ==
  ASSUME OncePlaced, requests'[Primary] = requests[Primary], Tip' = Tip,
         request_num' = request_num, NEW out, net' \subseteq net \cup out,
         \A x \in out : x.to = Primary => x.msg.kind /= "Request"
  PROVE  OncePlaced'
BY PlacedQuiet DEF OncePlaced

\* The requests there are, and what an InFlightTo set may hold.
LEMMA RequestsType ==
  ASSUME IInv
  PROVE  /\ requests[Primary] \in Seq(RequestRecords) /\ Tip \in Digests
         /\ request_num \in [Clients -> Nat]
         /\ \A m \in InFlightTo(net, Primary) : m.kind = "Request" =>
               m \in RequestMsgs
<1>1. requests[Primary] \in Seq(RequestRecords) /\ Tip \in Digests
  BY PrimaryAssumption
  DEF IInv, Typed, ReplicaTyped, ExecutionTypeOK, Chains, Tip
<1>2. request_num \in [Clients -> Nat]
  BY MaxRequestAssumption DEF IInv, Typed, ClientTyped
<1>3. \A m \in InFlightTo(net, Primary) : m \in Msgs
  BY WiresCarry, InFlightType, PrimaryAssumption DEF IInv, Typed, Wired
<1>4. QED BY <1>1, <1>2, <1>3, Kinds

\* invoke sends a request that no client has sent.
LEMMA InvokeOnce ==
  ASSUME IInv, OncePlaced, NEW c \in Clients, Invoke(c)
  PROVE  OncePlaced'
<1>1. PICK sent : sent = InFlightTo(net, Primary) OBVIOUS
<1>2. PICK new : new = InFlightTo(net', Primary) OBVIOUS
<1>3. PICK nums : nums = request_num OBVIOUS
<1>4. PICK n : n = nums[c] + 1 OBVIOUS
<1>5. /\ request_num' = [nums EXCEPT ![c] = n]
      /\ net' = net \cup SendTo({Primary}, RequestMsg(c, n))
      /\ requests' = requests /\ Tip' = Tip
  BY <1>3, <1>4
  DEF Invoke, ClientInvoke, ClientSends, replicaVars, executeVars, Tip
<1>6. \A m \in new : m.kind = "Request" => m \in sent \/ m = RequestMsg(c, n)
  BY <1>1, <1>2, <1>5 DEF InFlightTo, SendTo, Datagram
<1>7. OnePlace(new, requests[Primary], Tip, [nums EXCEPT ![c] = n])
  BY <1>1, <1>3, <1>4, <1>6, RequestsType, PlacedInvoke DEF OncePlaced
<1>8. QED BY <1>2, <1>5, <1>7 DEF OncePlaced

\* A request that the primary receives once waits once.
LEMMA RequestOnce ==
  ASSUME IInv, OncePlaced, MaxDup = 0, NEW r \in Live, NEW m,
         HandleRequest(r, m)
  PROVE  OncePlaced'
<1>1. PICK q : q = Request(m.client, m.num) OBVIOUS
<1>2. /\ requests' = [requests EXCEPT ![r] = Append(@, q)]
      /\ Tip' = Tip /\ request_num' = request_num
      /\ Datagram(r, m) \in net /\ m.kind = "Request"
      /\ Flight(Datagram(r, m), {})
      /\ r \in Replicas
  BY <1>1, LiveAssumption
  DEF HandleRequest, HandleDatagram, Arrived, executeVars, clientVars, Tip
<1>3. net' = net \ {Datagram(r, m)}
  <2>1. dup \in 0..0 BY DEF IInv, Typed, Wired
  <2>2. ~(dup < MaxDup) BY <2>1
  <2>3. QED BY <1>2, <2>2 DEF Flight
<1>4. CASE r /= Primary
  <2>1. requests'[Primary] = requests[Primary]
    BY <1>2, <1>4, PrimaryAssumption DEF IInv, Typed, ReplicaTyped
  <2>2. PICK out : out = {} OBVIOUS
  <2>3. net' \subseteq net \cup out
        /\ \A x \in out : x.to = Primary => x.msg.kind /= "Request"
    BY <1>3, <2>2
  <2>4. QED BY <1>2, <2>1, <2>3, OnceQuiet
<1>5. CASE r = Primary
  <2>1. PICK sent : sent = InFlightTo(net, Primary) OBVIOUS
  <2>2. PICK new : new = InFlightTo(net', Primary) OBVIOUS
  <2>3. m \in sent BY <1>2, <1>5, <2>1 DEF InFlightTo, Datagram
  <2>4. ASSUME NEW x \in new PROVE x \in sent \ {m}
    <3>1. PICK y \in net' : y.to = Primary /\ y.msg = x
      BY <2>2, <2>4 DEF InFlightTo
    <3>2. y \in net /\ y /= Datagram(r, m) BY <1>3, <3>1
    <3>3. y \in Wires BY <3>2 DEF IInv, Typed, Wired
    <3>4. y = Datagram(Primary, x) BY <3>1, <3>3 DEF Wires, Datagram
    <3>5. QED BY <1>5, <2>1, <3>1, <3>2, <3>4 DEF InFlightTo
  <2>5. requests'[Primary] = Append(requests[Primary], q)
    BY <1>2, <1>5 DEF IInv, Typed, ReplicaTyped
  <2>6. OnePlace(new, Append(requests[Primary], q), Tip, request_num)
    BY <1>1, <1>2, <2>1, <2>3, <2>4, RequestsType, PlacedReceive
    DEF OncePlaced
  <2>7. QED BY <1>2, <2>2, <2>5, <2>6 DEF OncePlaced
<1>6. QED BY <1>4, <1>5

\* A proposal moves the requests of its block from the queue to the chain.
LEMMA OnPaceOnce ==
  ASSUME IInv, OncePlaced, NEW r \in Live, OnPace(r)
  PROVE  OncePlaced'
<1>1. PICK queue : queue = requests[Primary] OBVIOUS
<1>2. PICK ch : ch = chain[Primary] OBVIOUS
<1>3. PICK next : next = Propose(ch, queue) OBVIOUS
<1>4. PICK m : m = OrderRequestMsg(next.digest_parent) OBVIOUS
<1>5. /\ r = Primary /\ queue /= <<>>
      /\ chain' = [chain EXCEPT ![Primary] = next]
      /\ requests' = [requests EXCEPT ![Primary] = Drained(queue)]
      /\ net' = net \cup SendTo(Peers(r), m)
      /\ request_num' = request_num
  BY <1>1, <1>2, <1>3, <1>4 DEF OnPace, Pace, clientVars
<1>6. /\ queue \in Seq(RequestRecords) /\ ch \in Chains
      /\ Tip = ch.digest_parent /\ Tip' = next.digest_parent
      /\ requests'[Primary] = Drained(queue)
  BY <1>1, <1>2, <1>5, PrimaryAssumption
  DEF IInv, Typed, ReplicaTyped, ExecutionTypeOK, Tip
<1>7. PICK sent : sent = InFlightTo(net, Primary) OBVIOUS
<1>8. PICK new : new = InFlightTo(net', Primary) OBVIOUS
<1>9. \A x \in new : x.kind = "Request" => x \in sent
  BY <1>4, <1>5, <1>7, <1>8 DEF InFlightTo, SendTo, Datagram, OrderRequestMsg
<1>10. OnePlace(sent, queue, ch.digest_parent, request_num)
  BY <1>1, <1>6, <1>7 DEF OncePlaced
<1>11. OnePlace(sent, Drained(queue), next.digest_parent, request_num)
  BY <1>3, <1>5, <1>6, <1>10, PlacedPropose
<1>12. OnePlace(new, Drained(queue), next.digest_parent, request_num)
  BY <1>9, <1>11, PlacedKept
<1>13. QED BY <1>5, <1>6, <1>8, <1>12 DEF OncePlaced

\* Every step leaves each request where it is, or moves it on.
LEMMA OnceStep ==
  ASSUME IInv, IInv', OncePlaced, MaxDup = 0, [Next]_vars
  PROVE  OncePlaced'
<1>1. Typed BY DEF IInv
<1>2. ASSUME UNCHANGED <<requests, chain, request_num>>, NEW out,
             net' \subseteq net \cup out,
             \A x \in out : x.to = Primary => x.msg.kind /= "Request"
      PROVE  OncePlaced'
  <2>1. Tip' = Tip BY <1>2 DEF Tip
  <2>2. QED BY <1>2, <2>1, OnceQuiet
<1>3. CASE UNCHANGED vars
  <2>1. PICK out : out = {} OBVIOUS
  <2>2. net' \subseteq net \cup out
        /\ \A x \in out : x.to = Primary => x.msg.kind /= "Request"
    BY <1>3, <2>1 DEF vars, netVars
  <2>3. UNCHANGED <<requests, chain, request_num>>
    BY <1>3 DEF vars, replicaVars, executeVars, clientVars
  <2>4. QED BY <1>2, <2>2, <2>3
<1>4. ASSUME NEW c \in Clients, NEW m, HandleResponse(c, m) PROVE OncePlaced'
  <2>1. PICK out \in SUBSET {Datagram(r, CommitMsg(c, m.digest)) : r \in Live} :
                Flight(Datagram(c, m), out)
    BY <1>4, ResponseStep
  <2>2. net' \subseteq net \cup out BY <2>1 DEF Flight
  <2>3. \A x \in out : x.to = Primary => x.msg.kind /= "Request"
    BY <2>1 DEF Datagram, CommitMsg
  <2>4. UNCHANGED replicaVars BY <1>4, ResponseStep
  <2>5. request_num' = request_num
    BY <1>4
    DEF HandleResponse, HandleSpecResponse, HandleLocalCommit, ConsumeResult,
        clientVars
  <2>6. QED BY <1>2, <2>2, <2>3, <2>4, <2>5 DEF replicaVars, executeVars
<1>5. ASSUME NEW r \in Live, NEW d, OnChain(d), Order(r, d),
             net' \subseteq net \cup OrderOut(r, d)
      PROVE  OncePlaced'
  <2>1. Tip' = Tip BY <1>5, OrderAnswers
  <2>2. requests' = requests /\ request_num' = request_num
    BY <1>5 DEF Order, clientVars
  <2>3. ASSUME NEW x \in OrderOut(r, d) PROVE x.to /= Primary
    <3>1. x \in SpecResponses(r, d) BY <2>3 DEF OrderOut
    <3>2. x \in Wires BY <1>1, <1>5, <2>3, OrderOutType
    <3>3. x.msg.kind = "SpecResponse"
      BY <3>1 DEF SpecResponses, Datagram, SpecResponseMsg
    <3>4. x.msg \notin Msgs
      BY <3>3 DEF Msgs, RequestMsgs, OrderRequestMsgs, CommitMsgs
    <3>5. QED BY <3>2, <3>4, PrimaryAssumption, ClientsAssumption DEF Wires
  <2>4. QED BY <1>5, <2>1, <2>2, <2>3, OnceQuiet
<1>6. ASSUME NEW r \in Live, ReplicaStep(r) PROVE OncePlaced'
  <2>1. CASE OnPace(r) BY <2>1, OnPaceOnce
  <2>2. CASE LoopbackOrderRequest(r)
    <3>1. PICK d : d = Head(loopback[r]).msg.digest OBVIOUS
    <3>2. /\ r \in Replicas /\ loopback[r] /= <<>> /\ Order(r, d)
          /\ HandleLoopback(r, OrderOut(r, d), <<>>)
      BY <2>2, <3>1, LiveAssumption DEF LoopbackOrderRequest
    <3>3. OnChain(d)
      BY <1>1, <3>1, <3>2, MessagesType DEF IInv, MessagesSound, OrderRequestMsgs
    <3>4. net' \subseteq net \cup OrderOut(r, d) BY <3>2 DEF HandleLoopback
    <3>5. QED BY <1>5, <3>2, <3>3, <3>4
  <2>3. ASSUME NEW m, HandleRequest(r, m) PROVE OncePlaced'
    BY <2>3, RequestOnce
  <2>4. ASSUME NEW m, HandleOrderRequest(r, m) PROVE OncePlaced'
    <3>1. PICK d : d = m.digest OBVIOUS
    <3>2. /\ r \in Replicas /\ Arrived(r, m) /\ m.kind = "OrderRequest"
          /\ Order(r, d)
          /\ HandleDatagram(r, m, OrderOut(r, d), <<>>)
      BY <2>4, <3>1, LiveAssumption DEF HandleOrderRequest
    <3>3. OnChain(d) BY <1>1, <3>1, <3>2, MessagesType DEF IInv, MessagesSound
    <3>4. net' \subseteq net \cup OrderOut(r, d)
      BY <3>2 DEF HandleDatagram, Flight
    <3>5. QED BY <1>5, <3>2, <3>3, <3>4
  <2>5. ASSUME NEW m, HandleCommit(r, m) PROVE OncePlaced'
    <3>1. PICK out : /\ net' \subseteq net \cup out
                     /\ \A x \in out : x.msg.kind = "LocalCommit"
      <4>1. PICK answer : answer = {Datagram(m.client, LocalCommitMsg(m.digest, r))}
        OBVIOUS
      <4>2. net' \subseteq net \cup answer
        BY <2>5, <4>1 DEF HandleCommit, HandleDatagram, Flight
      <4>3. QED BY <4>1, <4>2 DEF Datagram, LocalCommitMsg
    <3>2. UNCHANGED <<requests, chain, request_num>>
      BY <2>5 DEF HandleCommit, executeVars, clientVars
    <3>3. QED BY <1>2, <3>1, <3>2
  <2>6. QED BY <1>6, <2>1, <2>2, <2>3, <2>4, <2>5 DEF ReplicaStep
<1>7. QED BY <1>3, <1>4, <1>6, InvokeOnce DEF Next
-----------------------------------------------------------------------------
\* Nothing is placed, answered or consumed at first.
LEMMA InitFinal == Init => FInv
<1>1. SUFFICES ASSUME Init PROVE FInv OBVIOUS
<1>2. /\ net = {} /\ Tip = <<>> /\ requests[Primary] = <<>>
      /\ replies = [c \in Clients |-> {}]
      /\ results = [c \in Clients |-> <<>>]
      /\ commit = [c \in Clients |-> {}]
      /\ local_commits = [c \in Clients |-> {}]
  BY <1>1, PrimaryAssumption
  DEF Init, Init_Multiplex, Init_Client, Init_Execution, Tip, NewChain, Genesis
<1>3. Len(<<>>) = 0 /\ Items(<<>>) = {} BY EmptySeq DEF Items
<1>4. OncePlaced
  BY <1>2, <1>3 DEF OncePlaced, OnePlace, InBlock, Listed, InFlightTo
<1>5. AnswersSound BY <1>2 DEF AnswersSound
<1>6. \A c \in Clients : ClientSound(c) BY <1>2, <1>3 DEF ClientSound
<1>7. QED BY <1>4, <1>5, <1>6 DEF FInv

\* What FInv says of the results is what ConsumedIsFinal asks of them.
LEMMA FinalConsumed == IInv /\ FInv => ConsumedIsFinal
<1>1. SUFFICES ASSUME IInv, FInv, NEW c \in Clients, NEW k \in DOMAIN results[c]
               PROVE
        LET height == Len(results[c][k].before) + 1
            upto == results[c][k].upto
            is(d) == /\ Len(d) = height
                     /\ Parent(d) = results[c][k].before
                     /\ SubSeq(d[height], 1, Len(upto)) = upto
            executed == {i \in Replicas : /\ Len(app[i]) >= height
                                          /\ is(SubSeq(app[i], 1, height))}
            stored == {i \in Replicas : \E d \in commits[i] : is(d)}
        IN  \/ executed = Replicas
            \/ Cardinality(executed) >= Quorum /\ Cardinality(stored) >= Quorum
  BY DEF ConsumedIsFinal
<1> DEFINE height == Len(results[c][k].before) + 1
           upto == results[c][k].upto
           is(d) == /\ Len(d) = height
                    /\ Parent(d) = results[c][k].before
                    /\ SubSeq(d[height], 1, Len(upto)) = upto
           executed == {i \in Replicas : /\ Len(app[i]) >= height
                                         /\ is(SubSeq(app[i], 1, height))}
           stored == {i \in Replicas : \E d \in commits[i] : is(d)}
<1>2. results[c] \in Seq(ReplicaResults) BY <1>1 DEF IInv, Typed, ClientTyped
<1>3. k \in 1..Len(results[c]) BY <1>1, <1>2, LenProperties
<1>4. PICK d \in Digests :
             /\ OnChain(d)
             /\ \E i \in 1..Len(BlockRequests(d)) : ResultOf(results[c][k], d, i)
             /\ \/ Executors(d) = Replicas
                \/ /\ Cardinality(Executors(d)) >= Quorum
                   /\ Cardinality(Storers(d)) >= Quorum
  BY <1>1, <1>3 DEF FInv, ClientSound, FinalResult
<1>5. PICK i \in 1..Len(BlockRequests(d)) : ResultOf(results[c][k], d, i)
  BY <1>4
<1>6. /\ results[c][k].before = Parent(d)
      /\ upto = SubSeq(BlockRequests(d), 1, i)
  BY <1>5 DEF ResultOf, Result
<1>7. height = Len(d) /\ Len(d) \in Nat
  <2>1. Len(d) > 0 /\ Len(d) \in Nat /\ Len(Parent(d)) = Len(d) - 1
    BY <1>4, ParentProperties, LenProperties DEF OnChain, Digests
  <2>2. QED BY <1>6, <2>1
<1>8. Len(upto) = i
  <2>1. Len(d) \in 1..Len(d) BY <1>4, <1>7 DEF OnChain
  <2>2. BlockRequests(d) \in Seq(RequestRecords)
    BY <2>1, ElementOfSeq DEF BlockRequests, Digests, Batches
  <2>3. i \in Nat /\ i >= 1 /\ i <= Len(BlockRequests(d))
    BY <2>2, LenProperties
  <2>4. QED BY <1>6, <2>2, <2>3, SubSeqOfSeq
<1>9. is(d) BY <1>6, <1>7, <1>8 DEF BlockRequests
<1> HIDE DEF is, upto, height
<1>10. Executors(d) \subseteq executed
  <2>1. SUFFICES ASSUME NEW j \in Replicas, IsAncestor(d, app[j])
                 PROVE  Len(app[j]) >= height /\ is(SubSeq(app[j], 1, height))
    BY DEF Executors
  <2>2. app[j] \in Digests
    BY <1>1 DEF IInv, Typed, ReplicaTyped, ExecutionTypeOK
  <2>3. Len(app[j]) \in Nat BY <2>2, LenProperties DEF Digests
  <2>4. QED BY <1>7, <1>9, <2>1, <2>3 DEF IsAncestor
<1>11. Storers(d) \subseteq stored BY <1>9 DEF Storers
<1>12. executed \subseteq Replicas /\ stored \subseteq Replicas OBVIOUS
<1> HIDE DEF executed, stored
<1>13. /\ Cardinality(Executors(d)) <= Cardinality(executed)
       /\ Cardinality(Storers(d)) <= Cardinality(stored)
       /\ Cardinality(Executors(d)) \in Nat /\ Cardinality(executed) \in Nat
       /\ Cardinality(Storers(d)) \in Nat /\ Cardinality(stored) \in Nat
  BY <1>10, <1>11, <1>12, ReplicasAssumption, FS_Subset, FS_CardinalityType
<1>14. \/ executed = Replicas
       \/ Cardinality(executed) >= Quorum /\ Cardinality(stored) >= Quorum
  <2>1. CASE Executors(d) = Replicas BY <1>10, <1>12, <2>1
  <2>2. CASE /\ Cardinality(Executors(d)) >= Quorum
             /\ Cardinality(Storers(d)) >= Quorum
    BY <1>13, <2>2, QuorumType
  <2>3. QED BY <1>4, <2>1, <2>2
<1>15. QED BY <1>14 DEF executed, stored, is, upto, height

\* When no datagram arrives twice, FInv holds besides.
LEMMA FinalAlways == ASSUME MaxDup = 0 PROVE Spec => []FInv
<1>1. Init => FInv BY InitFinal
<1>2. IInv /\ IInv' /\ FInv /\ [Next]_vars => FInv'
  <2>1. SUFFICES ASSUME IInv, IInv', FInv, [Next]_vars PROVE FInv' OBVIOUS
  <2>2. Grows BY <2>1, StepGrows
  <2>3. OncePlaced' BY <2>1, OnceStep DEF FInv
  <2>4. AnswersSound' BY <2>1, <2>2, AnswersStep DEF FInv
  <2>5. \A c \in Clients : ClientSound(c)' BY <2>1, <2>2, ClientsStep
  <2>6. QED BY <2>3, <2>4, <2>5 DEF FInv
<1>3. QED BY <1>1, <1>2, Invariance, PTL DEF Spec

\* Client::handle: every result a client consumes is final, although replicas
\* execute before anything is agreed on, whatever the network loses or reorders.
THEOREM ConsumesFinal == ASSUME MaxDup = 0 PROVE Spec => []ConsumedIsFinal
<1>1. IInv /\ FInv => ConsumedIsFinal BY FinalConsumed
<1>2. QED BY <1>1, Invariance, FinalAlways, PTL
-----------------------------------------------------------------------------
(* The service                                                             *)

\* Every application is on the primary's chain.
LEMMA AppsOnChain ==
  ASSUME IInv
  PROVE  /\ Tip \in Digests
         /\ \A i \in Replicas : app[i] \in Digests /\ IsAncestor(app[i], Tip)
<1>1. Tip \in Digests BY RequestsType
<1>2. \A i \in Replicas : app[i] \in Digests
  BY DEF IInv, Typed, ReplicaTyped, ExecutionTypeOK
<1>3. QED BY <1>1, <1>2 DEF IInv, OneChain, OnOneChain

\* The result of a block's request is the answer of the log the block ends.
LEMMA ResultAnswers ==
  ASSUME NEW d \in Digests, Len(d) > 0, NEW res,
         NEW i \in 1..Len(BlockRequests(d)), ResultOf(res, d, i)
  PROVE  AnsweredIn(d, BlockRequests(d)[i], res)
<1>1. PICK k : k = Len(d) OBVIOUS
<1>2. k \in 1..Len(d) BY <1>1, LenProperties DEF Digests
<1>3. d[k] = BlockRequests(d) BY <1>1 DEF BlockRequests
<1>4. res = [before |-> SubSeq(d, 1, k - 1), upto |-> SubSeq(d[k], 1, i)]
  BY <1>1, <1>3 DEF ResultOf, Result, Parent
<1>5. QED BY <1>2, <1>3, <1>4 DEF AnsweredIn

\* A client that consumes the result of its request in a block a replica
\* executed gets the answer of the service.
LEMMA ConsumeServes ==
  ASSUME IInv, NEW c \in Clients, invoke[c], NEW d, OnChain(d),
         NEW r \in Replicas, IsAncestor(d, app[r]),
         NEW i \in 1..Len(BlockRequests(d)),
         BlockRequests(d)[i] = Request(c, request_num[c]),
         NEW res, ResultOf(res, d, i), ConsumeResult(c, res), app' = app
  PROVE  Service!Respond(c)
<1>1. PICK q : q = Request(c, request_num[c]) OBVIOUS
<1>2. AnsweredIn(d, q, res) BY <1>1, ResultAnswers DEF OnChain
<1>3. AnsweredIn(app[r], q, res)
  BY <1>2, AppsOnChain, AnsweredKept DEF OnChain
<1>4. PICK log : log = Log OBVIOUS
<1>5. AnsweredIn(log, q, res)
  <2>1. PICK t : t = Tip OBVIOUS
  <2>2. /\ t \in Digests
        /\ \A j \in Replicas : app[j] \in Digests /\ IsAncestor(app[j], t)
    BY <2>1, AppsOnChain
  <2>3. QED BY <1>3, <1>4, <2>2, LogAnswers
<1>6. Log' = Log BY LogIs
<1>7. \E k \in 1..Len(log) : \E j \in 1..Len(log[k]) :
         /\ log[k][j] = Service!Request(c, request_num[c])
         /\ results' = [results EXCEPT ![c] =
               Append(@, [before |-> SubSeq(log, 1, k - 1),
                          upto |-> SubSeq(log[k], 1, j)])]
  BY <1>1, <1>5 DEF AnsweredIn, ConsumeResult, Request, Service!Request
<1>8. QED BY <1>4, <1>6, <1>7 DEF ConsumeResult, Service!Respond

\* A response or a LocalCommit completes an invocation with its answer, or the
\* service takes no step.
LEMMA ResponseServes ==
  ASSUME IInv, FInv, NEW c \in Clients, NEW m, HandleResponse(c, m)
  PROVE  Service!Respond(c) \/ UNCHANGED Service!vars
<1>1. app' = app /\ Log' = Log
  <2>1. app' = app BY ResponseStep DEF replicaVars, executeVars
  <2>2. QED BY <2>1, LogIs
<1>2. CASE UNCHANGED <<request_num, invoke, results>>
  BY <1>1, <1>2 DEF Service!vars
<1>3. CASE HandleSpecResponse(c, m)
  <2>1. CASE \E i \in Position(c, m) :
                Final(c, m) /\ ConsumeResult(c, m.results[i])
    <3>1. /\ m \in SpecResponseMsgs /\ Datagram(c, m) \in net
          /\ m.kind = "SpecResponse"
      BY <1>3, MessagesType, Kinds DEF IInv, HandleSpecResponse
    <3>2. ResponseSound(m)
      <4>1. AnswerSound(Datagram(c, m).msg) BY <3>1 DEF FInv, AnswersSound
      <4>2. QED BY <3>1, <4>1 DEF AnswerSound, Datagram
    <3>3. PICK i \in Position(c, m) : ConsumeResult(c, m.results[i]) BY <2>1
    <3>4. /\ i \in 1..Len(BlockRequests(m.digest)) /\ invoke[c]
          /\ BlockRequests(m.digest)[i] = Request(c, request_num[c])
      BY <3>3 DEF Position
    <3>5. ResultOf(m.results[i], m.digest, i) BY <3>2, <3>4 DEF ResponseSound
    <3>6. OnChain(m.digest) /\ IsAncestor(m.digest, app[m.replica])
      BY <3>2 DEF ResponseSound
    <3>7. m.replica \in Replicas BY <3>1, LiveAssumption DEF SpecResponseMsgs
    <3>8. QED BY <1>1, <3>3, <3>4, <3>5, <3>6, <3>7, ConsumeServes
  <2>2. QED BY <1>2, <1>3, <2>1 DEF HandleSpecResponse, clientVars
<1>4. CASE HandleLocalCommit(c, m)
  <2>1. CASE \E x \in commit[c] : invoke[c] /\ ConsumeResult(c, x.result)
    <3>1. PICK x \in commit[c] : invoke[c] /\ ConsumeResult(c, x.result) BY <2>1
    <3>2. CommitSound(c, x) BY DEF FInv, ClientSound
    <3>3. PICK i \in 1..Len(BlockRequests(x.digest)) :
             /\ BlockRequests(x.digest)[i] = Request(c, request_num[c])
             /\ ResultOf(x.result, x.digest, i)
      BY <3>2 DEF CommitSound
    <3>4. PICK r \in Replicas : IsAncestor(x.digest, app[r])
      <4>1. Cardinality(Executors(x.digest)) >= Quorum BY <3>2 DEF CommitSound
      <4>2. Quorum > 0
        <5>1. PICK n : n = Cardinality(Replicas) OBVIOUS
        <5>2. n \in Nat BY <5>1, ReplicasAssumption, FS_CardinalityType
        <5>3. n - NumFaulty > 0 BY <5>1, <5>2, ReplicasAssumption
        <5>4. QED BY <5>1, <5>3 DEF Quorum
      <4>3. Executors(x.digest) /= {}
        <5>1. SUFFICES ASSUME Executors(x.digest) = {} PROVE FALSE OBVIOUS
        <5>2. Cardinality(Executors(x.digest)) = 0 BY <5>1, FS_EmptySet
        <5>3. QED BY <4>1, <4>2, <5>2, QuorumType
      <4>4. QED BY <4>3 DEF Executors
    <3>5. OnChain(x.digest) BY <3>2 DEF CommitSound
    <3>6. QED BY <1>1, <3>1, <3>3, <3>4, <3>5, ConsumeServes
  <2>2. QED BY <1>2, <1>4, <2>1 DEF HandleLocalCommit, clientVars
<1>5. QED BY <1>3, <1>4 DEF HandleResponse

\* A replica that executes appends to the log, or the service takes no step.
LEMMA ReplicaServes ==
  ASSUME IInv, IInv', Grows, FInv', UNCHANGED clientVars
  PROVE  Service!AppendBatches \/ UNCHANGED Service!vars
<1>1. UNCHANGED <<request_num, invoke, results>> BY DEF clientVars
<1>2. PICK t : t = Tip OBVIOUS
<1>3. PICK u : u = Tip' OBVIOUS
<1>4. PICK nums : nums = request_num OBVIOUS
<1>5. /\ u \in Digests
      /\ \A i \in Replicas : app'[i] \in Digests /\ IsAncestor(app'[i], u)
  <2>1. u \in Digests
    BY <1>3, PrimaryAssumption
    DEF IInv, Typed, ReplicaTyped, ExecutionTypeOK, Chains, Tip
  <2>2. \A i \in Replicas : app'[i] \in Digests
    BY DEF IInv, Typed, ReplicaTyped, ExecutionTypeOK
  <2>3. QED BY <1>3, <2>1, <2>2 DEF IInv, OneChain, OnOneChain
<1>6. t \in Digests /\ nums \in [Clients -> Nat] BY <1>2, <1>4, RequestsType
<1>7. \A i \in Replicas : /\ app[i] \in Digests /\ IsAncestor(app[i], t)
                          /\ IsAncestor(app[i], app'[i])
  BY <1>2, AppsOnChain DEF Grows
<1>8. Listed(u, nums) BY <1>1, <1>3, <1>4 DEF FInv, OncePlaced, OnePlace
<1>9. Log' = Log \/ Appended(Log, Log', nums)
  BY <1>5, <1>6, <1>7, <1>8, LogStep
<1>10. CASE Log' = Log BY <1>1, <1>10 DEF Service!vars
<1>11. CASE Appended(Log, Log', nums)
  BY <1>1, <1>4, <1>11 DEF Appended, Service!AppendBatches
<1>12. QED BY <1>9, <1>10, <1>11

\* At the start the service is at its start.
LEMMA InitServes == Init => Service!Init
<1>1. SUFFICES ASSUME Init PROVE Service!Init OBVIOUS
<1>2. Log = <<>> BY <1>1, LogStarts DEF Init, Init_Execution
<1>3. QED BY <1>1, <1>2 DEF Init, Init_Client, Service!Init

\* Every step is one of the service, or none.
LEMMA NextServes ==
  ASSUME IInv, IInv', FInv, FInv', [Next]_vars
  PROVE  [Service!Next]_(Service!vars)
<1>1. Grows BY StepGrows
<1>2. CASE UNCHANGED vars
  BY <1>1, <1>2, ReplicaServes DEF vars, Service!Next
<1>3. ASSUME NEW c \in Clients, Invoke(c) PROVE Service!Invoke(c)
  <2>1. Log' = Log BY <1>3, LogIs DEF Invoke, replicaVars, executeVars
  <2>2. QED BY <1>3, <2>1 DEF Invoke, ClientInvoke, Service!Invoke
<1>4. ASSUME NEW c \in Clients, NEW m, HandleResponse(c, m)
      PROVE  Service!Respond(c) \/ UNCHANGED Service!vars
  BY <1>4, ResponseServes
<1>5. ASSUME NEW r \in Live, ReplicaStep(r)
      PROVE  Service!AppendBatches \/ UNCHANGED Service!vars
  <2>1. UNCHANGED clientVars
    BY <1>5
    DEF ReplicaStep, OnPace, LoopbackOrderRequest, HandleRequest,
        HandleOrderRequest, HandleCommit, Order
  <2>2. QED BY <1>1, <2>1, ReplicaServes
<1>6. QED BY <1>2, <1>3, <1>4, <1>5 DEF Next, Service!Next

\* The clients cannot tell the replicas from a single log, although replicas
\* execute before anything is agreed on and the clients decide what is final.
THEOREM ServesLog == ASSUME MaxDup = 0 PROVE Spec => Linearizable
<1>1. Init => Service!Init BY InitServes
<1>2. IInv /\ IInv' /\ FInv /\ FInv' /\ [Next]_vars
         => [Service!Next]_(Service!vars)
  BY NextServes
<1>3. QED
  BY <1>1, <1>2, Invariance, FinalAlways, PTL
  DEF Spec, Linearizable, Service!Spec
=============================================================================
