------------------------------- MODULE Chain -------------------------------
(***************************************************************************)
(* The hash chain of blocks (crates/permissioned-blockchain/src/common.rs) *)
(* the PBFT and MinBFT replicas order, as operators on one replica's       *)
(* Chain.                                                                  *)
(*                                                                         *)
(* SHA-256 is taken as collision free: the digest of a block determines    *)
(* its requests and its parent's digest, hence every block before it.  So  *)
(* a digest IS the sequence of batches of the chain that ends in the       *)
(* block: <<>> is genesis, Len is the block's height, the last element its *)
(* requests, and the rest its parent_digest.                               *)
(***************************************************************************)
EXTENDS Naturals, Sequences, FiniteSets

CONSTANTS MaxBatchSize \* Chain::MAX_BATCH_SIZE

ASSUME MaxBatchAssumption == MaxBatchSize \in Nat \ {0}

Genesis == <<>>

Parent(d) == SubSeq(d, 1, Len(d) - 1)

BlockRequests(d) == d[Len(d)]

\* d is e or an ancestor of e.
IsAncestor(d, e) ==
    /\ Len(d) <= Len(e)
    /\ d = SubSeq(e, 1, Len(d))

\* pending_execute maps a parent's digest to a block's; a block's digest
\* determines the parent's, so the set of the blocks' digests is enough.
NewChain == [digest_parent  |-> Genesis,
             digest_execute |-> Genesis,
             pending        |-> {}]

\* Mutant of BatchLen: no limit on the size of a block.
BatchLen_NoLimit(requests) == Len(requests)

\* How many of the waiting requests go into the next block.
BatchLen(requests) ==
    IF Len(requests) < MaxBatchSize THEN Len(requests) ELSE MaxBatchSize

Propose(chain, requests) ==
    [chain EXCEPT !.digest_parent =
        Append(@, SubSeq(requests, 1, BatchLen(requests)))]

\* Mutant of Drained: the last request of the block stays in the queue.
Drained_KeepsLast(requests) ==
    SubSeq(requests, BatchLen(requests), Len(requests))

Drained(requests) ==
    SubSeq(requests, BatchLen(requests) + 1, Len(requests))

\* Mutant of Extends: the parent is not compared with digest_execute.
Extends_Unchecked(chain, d) == TRUE

\* commit finds the parent executed.
Extends(chain, d) == Parent(d) = chain.digest_execute

\* Mutant of Conflicts: certificates are expected to complete in order.
Conflicts_OutOfOrder(chain, d) == ~Extends(chain, d)

\* commit's assertion "commit conflicting blocks" fails: it puts d under a
\* parent another block already waits for.
Conflicts(chain, d) ==
    /\ ~Extends(chain, d)
    /\ \E e \in chain.pending : Parent(e) = Parent(d)

\* The block at which commit(d) and the loop over next_execute end: each
\* round takes the pending block whose parent is the last one executed.
LastExecuted(chain, d) ==
    CHOOSE e \in chain.pending \cup {d} :
        /\ IsAncestor(d, e)
        /\ \A k \in Len(d) + 1 .. Len(e) : SubSeq(e, 1, k) \in chain.pending
        /\ ~\E x \in chain.pending : Parent(x) = e

\* Mutant of Committed: next_execute reads pending_execute without removing.
Committed_KeepsPending(chain, d) ==
    IF Extends(chain, d)
      THEN [chain EXCEPT !.digest_execute = LastExecuted(chain, d)]
      ELSE [chain EXCEPT !.pending = @ \cup {d}]

\* commit(d), then next_execute until it returns None.
Committed(chain, d) ==
    LET last == LastExecuted(chain, d) IN
    IF Extends(chain, d)
      THEN [chain EXCEPT !.digest_execute = last,
                         !.pending = {e \in @ : ~(/\ IsAncestor(d, e)
                                                  /\ e /= d
                                                  /\ IsAncestor(e, last))}]
      ELSE [chain EXCEPT !.pending = @ \cup {d}]
=============================================================================
