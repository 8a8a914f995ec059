------------------------------ MODULE HotStuff ------------------------------
(***************************************************************************)
(* Chained HotStuff as crates/permissioned-blockchain/src/hotstuff.rs runs *)
(* it: primary_index() is constant, and it proposes the next block, an     *)
(* empty one if need be, when the last one is certified.  A block is       *)
(* executed once three blocks follow it, each certifying its parent.       *)
(*                                                                         *)
(* do_propose makes the block it certifies the parent of the one it        *)
(* proposes, so a block's digest determines its certified_digest.  The     *)
(* votes in a Generic are not compared with anything by those who receive  *)
(* it.  Replies carry no digest: Genesis stands for it in the messages     *)
(* that ReplyClient shares.                                                *)
(***************************************************************************)
EXTENDS Execution, Functions

CONSTANTS Primary,  \* the replica primary_index() names
          MaxHeight \* BOUND: blocks the primary proposes

ASSUME PrimaryAssumption == Primary \in Replicas
ASSUME MaxHeightAssumption == MaxHeight \in Nat

VARIABLES requests,         \* the primary's: waiting for the next block
          propose_height,   \* the primary's: height of its last proposal
          votes,            \* the primary's: pairs <<digest, replica>>
          replied,          \* Replica.replies: per client its last request
                            \* and, once executed, the set of its Reply
          generics,         \* Replica: digests of the blocks inserted
          reordering,       \* Replica: per missing digest, the blocks that wait
                            \* for it
          view_height,      \* Replica: height of the last block voted for
          digest_lock,      \* Replica
          digest_certified  \* Replica

primaryVars == <<requests, propose_height, votes>>
blockVars == <<generics, view_height, digest_lock, digest_certified>>
vars == <<netVars, clientVars, executeVars, primaryVars, replied, reordering,
          blockVars>>

Quorum == Cardinality(Replicas) - NumFaulty

GenericMsg(d) == [kind |-> "Generic", digest |-> d]
VoteMsg(d, i) == [kind |-> "Vote", digest |-> d, replica |-> i]

\* certified_digest of the Generic of block d; genesis certifies itself.
Certified(d) == Parent(d)

Init ==
    /\ Init_Multiplex
    /\ Init_Client
    /\ Init_Execution
    /\ requests = <<>>
    /\ propose_height = 0
    /\ votes = {}
    /\ replied = [r \in Replicas |-> [c \in Clients |->
                                         [num |-> 0, reply |-> {}]]]
    /\ generics = [r \in Replicas |-> {Genesis}]
    /\ reordering = [r \in Replicas |-> <<>>]
    /\ view_height = [r \in Replicas |-> 0]
    /\ digest_lock = [r \in Replicas |-> Genesis]
    /\ digest_certified = [r \in Replicas |-> Genesis]
-----------------------------------------------------------------------------
(* Clients *)

Invoke(c) ==
    /\ ClientInvoke(c, Live)
    /\ UNCHANGED <<executeVars, primaryVars, replied, reordering, blockVars>>

HandleReply(c, m) ==
    /\ ClientHandle(c, m)
    /\ UNCHANGED <<executeVars, primaryVars, replied, reordering, blockVars>>
-----------------------------------------------------------------------------
(* Inserting a block, as operators on a record s of the replica's fields   *)
(* and of what the handler has sent so far.                                *)

Fields(r) ==
    [generics |-> generics[r], view_height |-> view_height[r],
     lock |-> digest_lock[r], certified |-> digest_certified[r],
     chain |-> chain[r], app |-> app[r], replied |-> replied[r],
     panicked |-> panicked[r], votes |-> <<>>, replies |-> {}]

Higher(d, e) == IF Len(d) > Len(e) THEN d ELSE e

\* The block extends the locked one, or certifies one above it.
MayVote(s, d) ==
    /\ Len(d) > s.view_height
    /\ \/ s.lock /= d /\ IsAncestor(s.lock, d)
       \/ Len(Certified(d)) > Len(s.lock)

Voted(r, s, d) ==
    IF MayVote(s, d)
      THEN [s EXCEPT !.view_height = Len(d),
                     !.votes = Append(@, VoteMsg(d, r))]
      ELSE s

\* Chain::commit of a block, its execution and its replies.  commit must
\* find the parent executed: the assertion on what it returns panics.
Execute(r, s, d) ==
    LET batch == BlockRequests(d)
        reply(i) == ReplyMsg(batch[i].num, Result(s.app, batch, i), Genesis, r)
        of(c) == {i \in 1..Len(batch) : batch[i].client = c}
        last(c) == CHOOSE i \in of(c) : \A j \in of(c) : j <= i
    IN  IF ~Extends(s.chain, d)
          THEN [s EXCEPT !.panicked = "conflict"]
          ELSE [s EXCEPT
                  !.chain.digest_execute = d,
                  !.app = Append(@, batch),
                  !.replied = [c \in Clients |->
                      IF of(c) = {} THEN @[c]
                      ELSE [num |-> batch[last(c)].num,
                            reply |-> {reply(last(c))}]],
                  !.replies = @ \cup {Datagram(batch[i].client, reply(i)) :
                                         i \in 1..Len(batch)}]

\* The three-chain rule.
Decided(d2, d1, d0) ==
    /\ Parent(d2) = d1
    /\ Parent(d1) = d0
    /\ d0 /= Genesis

DoUpdate(r, s, d3) ==
    LET d2 == Certified(d3)
        d1 == Certified(d2)
        d0 == Certified(d1)
        t  == [s EXCEPT !.certified = Higher(d2, @), !.lock = Higher(d1, @)]
    IN  IF Decided(d2, d1, d0) THEN Execute(r, t, d0) ELSE t

\* insert_generic: every block it looks up is indexed, which panics if it is
\* not held.
InsertGeneric(r, s, d) ==
    IF s.panicked /= "no" THEN s
    ELSE IF Certified(d) \notin s.generics
      THEN [s EXCEPT !.panicked = "index"]
    ELSE DoUpdate(r, Voted(r, [s EXCEPT !.generics = @ \cup {d}], d), d)

\* The replica after it inserted the blocks of a sequence in turn.
InsertAll(r, blocks) ==
    LET after[n \in 0..Len(blocks)] ==
            IF n = 0 THEN Fields(r)
            ELSE InsertGeneric(r, after[n - 1], blocks[n])
    IN  after[Len(blocks)]

Becomes(r, s) ==
    /\ generics' = [generics EXCEPT ![r] = s.generics]
    /\ view_height' = [view_height EXCEPT ![r] = s.view_height]
    /\ digest_lock' = [digest_lock EXCEPT ![r] = s.lock]
    /\ digest_certified' = [digest_certified EXCEPT ![r] = s.certified]
    /\ chain' = [chain EXCEPT ![r] = s.chain]
    /\ app' = [app EXCEPT ![r] = s.app]
    /\ replied' = [replied EXCEPT ![r] = s.replied]
    /\ panicked' = [panicked EXCEPT ![r] = s.panicked]
-----------------------------------------------------------------------------
(* Replicas *)

\* The loopback message that r handles next.
Own(r) == Head(loopback[r]).msg

\* Mutant of Known: only the request that waits is recognised.
Known_Latest(r, m) ==
    replied[r][m.client].num = m.num /\ replied[r][m.client].reply = {}

\* handle_request returns early on a request it has seen.
Known(r, m) == replied[r][m.client].num >= m.num

\* The answer to the client's last request, if that is what m repeats.
Resent(r, m) ==
    IF replied[r][m.client].num = m.num
      THEN {Datagram(m.client, x) : x \in replied[r][m.client].reply}
      ELSE {}

HandleRequest(r, m) ==
    /\ Running(r) /\ Arrived(r, m)
    /\ m.kind = "Request"
    /\ \/ /\ Known(r, m)
          /\ HandleDatagram(r, m, Resent(r, m), <<>>)
          /\ UNCHANGED <<replied, requests>>
       \/ /\ ~Known(r, m)
          /\ HandleDatagram(r, m, {}, <<>>)
          /\ replied' = [replied EXCEPT ![r][m.client] =
                            [num |-> m.num, reply |-> {}]]
          /\ requests' = IF r = Primary
                           THEN Append(requests, Request(m.client, m.num))
                           ELSE requests
    /\ UNCHANGED <<clientVars, executeVars, propose_height, votes, reordering,
                   blockVars>>

\* Mutant of Awaited: only new requests are worth a block.
Awaited_Requests(r) == requests /= <<>>

\* Some request waits for its execution.
Awaited(r) == \E c \in Clients : /\ replied[r][c].num /= 0
                                 /\ replied[r][c].reply = {}

\* do_propose takes what waits, if anything does: Propose with no request is
\* Chain::propose_empty.
OnPace(r) ==
    /\ Running(r)
    /\ r = Primary /\ Awaited(r)
    /\ Len(digest_certified[r]) >= propose_height
    /\ propose_height < MaxHeight
    /\ LET next == Propose([chain[r] EXCEPT !.digest_parent =
                                digest_certified[r]], requests)
           m    == GenericMsg(next.digest_parent)
       IN  /\ chain' = [chain EXCEPT ![r] = next]
           /\ propose_height' = Len(next.digest_parent)
           /\ Pace(r, SendTo(Peers(r), m), <<m>>)
    /\ requests' = Drained(requests)
    /\ UNCHANGED <<clientVars, app, panicked, votes, replied, reordering,
                   blockVars>>

\* The primary inserts its own block without reordering, and its vote is
\* looped back.
LoopbackGeneric(r) ==
    /\ Running(r) /\ loopback[r] /= <<>>
    /\ Own(r).kind = "Generic"
    /\ \E s \in {InsertAll(r, <<Own(r).digest>>)} :
          /\ Becomes(r, s)
          /\ HandleLoopback(r, s.replies, s.votes)
    /\ UNCHANGED <<clientVars, primaryVars, reordering>>

\* Mutant of Missing: blocks are inserted as they come.
Missing_Unchecked(r, d) == {}

\* What do_reorder_generic looks for before it inserts block d.
Missing(r, d) == {Parent(d), Certified(d)} \ generics[r]

\* The blocks that wait for block e.
Waiting(r, e) ==
    IF e \in DOMAIN reordering[r] THEN reordering[r][e] ELSE <<>>

\* Mutant of Released: only the blocks that waited for the first one.
Released_Once(r, d) == Waiting(r, d)

\* The blocks that were waiting for d, directly or not, in the order in which
\* do_reorder_generic comes to insert them.  At most one block extends
\* another, so those that wait for one digest are copies of one Generic, and
\* the first of them releases the next.
Released(r, d) ==
    LET held == reordering[r]
        after[e \in DOMAIN held] ==
            <<Head(held[e])>>
              \o (IF Head(held[e]) \in DOMAIN held THEN after[Head(held[e])]
                                                   ELSE <<>>)
              \o Tail(held[e])
    IN  IF d \in DOMAIN held THEN after[d] ELSE <<>>

Hold(r, m) ==
    /\ Missing(r, m.digest) /= {}
    /\ LET e == Parent(m.digest)
       IN  reordering' = [reordering EXCEPT ![r] =
               [k \in DOMAIN @ \cup {e} |->
                   IF k = e THEN Append(Waiting(r, e), m.digest) ELSE @[k]]]
    /\ HandleDatagram(r, m, {}, <<>>)
    /\ UNCHANGED <<executeVars, replied, blockVars>>

\* What waited for a released block is no longer aside.
Release(r, m) ==
    /\ Missing(r, m.digest) = {}
    /\ \E released \in {Released(r, m.digest)} :
       \E s \in {InsertAll(r, <<m.digest>> \o released)} :
          /\ Becomes(r, s)
          /\ reordering' = [reordering EXCEPT ![r] =
                Restrict(@, DOMAIN @ \ {Parent(e) : e \in Range(released)})]
          /\ HandleDatagram(r, m,
                s.replies \cup {Datagram(Primary, v) : v \in Range(s.votes)},
                <<>>)

HandleGeneric(r, m) ==
    /\ Running(r) /\ Arrived(r, m)
    /\ m.kind = "Generic"
    /\ Hold(r, m) \/ Release(r, m)
    /\ UNCHANGED <<clientVars, primaryVars>>

\* Mutant of VotesComplete: one vote too few.
VotesComplete_OneShort(ballots, d) ==
    Cardinality({p \in ballots : p[1] = d}) = Quorum - 1

VotesComplete(ballots, d) == Cardinality({p \in ballots : p[1] = d}) = Quorum

InsertVote(r, m) ==
    /\ panicked' = [panicked EXCEPT ![r] =
          IF m.digest \in generics[r] THEN "no" ELSE "index"]
    /\ votes' = IF m.digest \notin generics[r]
                     \/ VotesComplete(votes, m.digest)
                  THEN votes
                  ELSE votes \cup {<<m.digest, m.replica>>}
    /\ digest_certified' =
          IF votes' /= votes /\ VotesComplete(votes', m.digest)
            THEN [digest_certified EXCEPT ![r] = Higher(m.digest, @)]
            ELSE digest_certified
    /\ UNCHANGED <<clientVars, chain, app, requests, propose_height, replied,
                   reordering, generics, view_height, digest_lock>>

HandleVote(r, m) ==
    /\ Running(r) /\ Arrived(r, m)
    /\ m.kind = "Vote"
    /\ InsertVote(r, m)
    /\ HandleDatagram(r, m, {}, <<>>)

LoopbackVote(r) ==
    /\ Running(r) /\ loopback[r] /= <<>>
    /\ Own(r).kind = "Vote"
    /\ InsertVote(r, Own(r))
    /\ HandleLoopback(r, {}, <<>>)
-----------------------------------------------------------------------------
ClientStep(c) ==
    \/ Invoke(c)
    \/ \E m \in InFlightTo(net, c) : HandleReply(c, m)

ReplicaStep(r) ==
    \/ OnPace(r)
    \/ LoopbackGeneric(r)
    \/ LoopbackVote(r)
    \/ \E m \in InFlightTo(net, r) :
          \/ HandleRequest(r, m)
          \/ HandleGeneric(r, m)
          \/ HandleVote(r, m)

Next ==
    \/ \E c \in Clients : ClientStep(c)
    \/ \E r \in Live : ReplicaStep(r)

Spec == Init /\ [][Next]_vars
-----------------------------------------------------------------------------
(* Safety, besides what Execution states *)

\* n - f replicas are locked on every block that some replica has executed,
\* or above it, so no quorum can vote for a block that does not extend it.
ExecutedIsLocked ==
    \A r \in Replicas : \A k \in 1..Len(app[r]) :
        Cardinality({i \in Replicas :
                        IsAncestor(SubSeq(app[r], 1, k), digest_lock[i])})
            >= Quorum

\* A block is held back only while a block it needs is missing: the one that
\* arrives last releases all that do_reorder_generic put aside for it.
WaitsForMissing ==
    \A r \in Replicas : DOMAIN reordering[r] \cap generics[r] = {}

\* The clients cannot tell the replicas from a single log.
Service == INSTANCE ReplicatedLog WITH log <- Log

Linearizable == Service!Spec
-----------------------------------------------------------------------------
(* Progress *)

\* What the runtime owes when the network loses nothing: every event reaches
\* its handler, and the loop of a running replica keeps going.
Fairness ==
    /\ \A r \in Live : WF_vars(ReplicaStep(r))
    /\ \A c \in Clients :
          WF_vars(\E m \in InFlightTo(net, c) : HandleReply(c, m))

FairSpec == Spec /\ Fairness

\* Every invocation is answered: the primary keeps proposing until what it
\* has accepted is executed, and stops then.
InvokeCompletes == \A c \in Clients : invoke[c] ~> ~invoke[c]
=============================================================================
