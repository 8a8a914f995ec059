-------------------------- MODULE ExecutionProofs --------------------------
(***************************************************************************)
(* Facts about the operators of Chain, for every chain of blocks, and what *)
(* the steps of Multiplex, ReplyClient and Execution preserve, whichever   *)
(* protocol takes them: types, and the order of execution.                 *)
(***************************************************************************)
EXTENDS Execution, SequenceTheorems, FiniteSetTheorems, WellFoundedInduction,
        TLAPS

-----------------------------------------------------------------------------
(* Chains of blocks                                                        *)

\* A digest is an ancestor of another when they agree at all its heights.
LEMMA AncestorDef ==
  ASSUME NEW S, NEW d \in Seq(S), NEW e \in Seq(S)
  PROVE  IsAncestor(d, e) <=> /\ Len(d) <= Len(e)
                              /\ \A i \in 1..Len(d) : d[i] = e[i]
<1>1. ASSUME Len(d) <= Len(e)
      PROVE  d = SubSeq(e, 1, Len(d)) <=> \A i \in 1..Len(d) : d[i] = e[i]
  <2>1. /\ SubSeq(e, 1, Len(d)) \in Seq(S)
        /\ Len(SubSeq(e, 1, Len(d))) = Len(d)
        /\ \A i \in 1..Len(d) : SubSeq(e, 1, Len(d))[i] = e[i]
    BY <1>1, LenProperties, SubSeqProperties
  <2>2. QED BY <2>1, SeqEqual
<1>2. QED BY <1>1, LenProperties DEF IsAncestor

\* A part of a sequence of S is a sequence of S, element by element.
LEMMA SubSeqOfSeq ==
  ASSUME NEW S, NEW s \in Seq(S), NEW m \in Nat \ {0}, NEW n \in Nat,
         n <= Len(s)
  PROVE  /\ SubSeq(s, m, n) \in Seq(S)
         /\ Len(SubSeq(s, m, n)) = IF m <= n THEN n - m + 1 ELSE 0
         /\ \A i \in 1..n - m + 1 : SubSeq(s, m, n)[i] = s[m + i - 1]
<1>1. Len(s) \in Nat /\ \A i \in 1..Len(s) : s[i] \in S
  BY LenProperties, ElementOfSeq
<1>2. m \in Int /\ n \in Int /\ \A i \in m..n : s[i] \in S BY <1>1
<1>3. CASE m <= n BY <1>1, <1>2, <1>3, SubSeqProperties
<1>4. CASE ~(m <= n)
  <2>1. SubSeq(s, m, n) = <<>> BY <1>2, <1>4, SubSeqEmpty
  <2>2. QED BY <2>1, <1>2, <1>4
<1>5. QED BY <1>3, <1>4

\* Parent is the ancestor one block below.
LEMMA ParentProperties ==
  ASSUME NEW S, NEW d \in Seq(S), Len(d) > 0
  PROVE  /\ Parent(d) \in Seq(S)
         /\ Len(Parent(d)) = Len(d) - 1
         /\ IsAncestor(Parent(d), d)
<1>1. Len(d) - 1 \in Nat /\ Len(d) \in Nat BY LenProperties
<1>2. /\ Parent(d) \in Seq(S)
      /\ Len(Parent(d)) = Len(d) - 1
      /\ \A i \in 1..Len(d) - 1 : Parent(d)[i] = d[i]
  <2> DEFINE n == Len(d) - 1
  <2>1. n \in Nat /\ n <= Len(d) BY <1>1
  <2> HIDE DEF n
  <2>2. /\ SubSeq(d, 1, n) \in Seq(S)
        /\ Len(SubSeq(d, 1, n)) = IF 1 <= n THEN n - 1 + 1 ELSE 0
        /\ \A i \in 1..n - 1 + 1 : SubSeq(d, 1, n)[i] = d[1 + i - 1]
    BY <2>1, SubSeqOfSeq
  <2>3. /\ Len(SubSeq(d, 1, n)) = n
        /\ \A i \in 1..n : SubSeq(d, 1, n)[i] = d[i]
    BY <2>1, <2>2
  <2>4. Parent(d) = SubSeq(d, 1, n) BY DEF Parent, n
  <2>5. QED BY <2>2, <2>3, <2>4 DEF n
<1>3. QED BY <1>1, <1>2, AncestorDef

\* Every block is its own ancestor.
LEMMA AncestorReflexive ==
  ASSUME NEW S, NEW d \in Seq(S)
  PROVE  IsAncestor(d, d)
BY AncestorDef, LenProperties

\* Ancestors of an ancestor are ancestors.
LEMMA AncestorTransitive ==
  ASSUME NEW S, NEW a \in Seq(S), NEW b \in Seq(S), NEW c \in Seq(S),
         IsAncestor(a, b), IsAncestor(b, c)
  PROVE  IsAncestor(a, c)
<1>1. Len(a) \in Nat /\ Len(b) \in Nat /\ Len(c) \in Nat BY LenProperties
<1>2. QED BY <1>1, AncestorDef

\* Of two blocks of one chain, the lower is the ancestor of the higher.
LEMMA AncestorsOfOne ==
  ASSUME NEW S, NEW a \in Seq(S), NEW b \in Seq(S), NEW t \in Seq(S),
         IsAncestor(a, t), IsAncestor(b, t), Len(a) <= Len(b)
  PROVE  IsAncestor(a, b)
<1>1. Len(a) \in Nat /\ Len(b) \in Nat /\ Len(t) \in Nat BY LenProperties
<1>2. QED BY <1>1, AncestorDef

\* Two blocks that are ancestors of each other are one block.
LEMMA AncestorAntisymmetric ==
  ASSUME NEW S, NEW a \in Seq(S), NEW b \in Seq(S),
         IsAncestor(a, b), Len(a) = Len(b)
  PROVE  a = b
BY AncestorDef, SeqEqual

\* A longer chain keeps its blocks.
LEMMA AncestorOfAppend ==
  ASSUME NEW S, NEW a \in Seq(S), NEW t \in Seq(S), NEW b \in S,
         IsAncestor(a, t)
  PROVE  IsAncestor(a, Append(t, b))
<1>1. Len(a) \in Nat /\ Len(t) \in Nat BY LenProperties
<1>2. /\ Append(t, b) \in Seq(S)
      /\ Len(Append(t, b)) = Len(t) + 1
      /\ \A i \in 1..Len(t) : Append(t, b)[i] = t[i]
  BY <1>1, AppendProperties
<1>3. /\ Len(a) <= Len(t)
      /\ \A i \in 1..Len(a) : a[i] = t[i]
  BY AncestorDef
<1>4. /\ Len(a) <= Len(Append(t, b))
      /\ \A i \in 1..Len(a) : a[i] = Append(t, b)[i]
  BY <1>1, <1>2, <1>3
<1>5. QED BY <1>2, <1>4, AncestorDef

\* The block of a chain at height h.
LEMMA BlockAt ==
  ASSUME NEW S, NEW b \in Seq(S), NEW h \in 1..Len(b)
  PROVE  LET e == SubSeq(b, 1, h) IN
         /\ e \in Seq(S) /\ Len(e) = h
         /\ IsAncestor(e, b)
         /\ Parent(e) = SubSeq(b, 1, h - 1)
         /\ BlockRequests(e) = b[h]
<1> DEFINE e == SubSeq(b, 1, h)
           k == h - 1
<1>1. /\ Len(b) \in Nat /\ h \in Nat /\ h >= 1 /\ h <= Len(b)
      /\ k \in Nat /\ k <= h /\ k <= Len(b)
  BY LenProperties
<1>2. e \in Seq(S) /\ Len(e) = h /\ \A i \in 1..h : e[i] = b[i]
  <2>1. /\ SubSeq(b, 1, h) \in Seq(S)
        /\ Len(SubSeq(b, 1, h)) = IF 1 <= h THEN h - 1 + 1 ELSE 0
        /\ \A i \in 1..h - 1 + 1 : SubSeq(b, 1, h)[i] = b[1 + i - 1]
    BY <1>1, SubSeqOfSeq
  <2>2. QED BY <1>1, <2>1
<1> HIDE DEF e
<1>3. IsAncestor(e, b) BY <1>1, <1>2, AncestorDef
<1>4. BlockRequests(e) = b[h] BY <1>1, <1>2 DEF BlockRequests
<1>5. Parent(e) = SubSeq(b, 1, k)
  <2>1. Parent(e) \in Seq(S) /\ Len(Parent(e)) = k /\ IsAncestor(Parent(e), e)
    BY <1>1, <1>2, ParentProperties
  <2>2. IsAncestor(Parent(e), b) BY <1>2, <1>3, <2>1, AncestorTransitive
  <2>3. QED BY <2>1, <2>2 DEF IsAncestor
<1>6. QED BY <1>2, <1>3, <1>4, <1>5 DEF e

-----------------------------------------------------------------------------
\* A set of heights has a least one.
LEMMA LeastHeight ==
  ASSUME NEW T \in SUBSET Nat, T /= {}
  PROVE  \E n \in T : \A m \in T : n <= m
<1>1. IsWellFoundedOn(OpToRel(<, Nat), Nat) BY NatLessThanWellFounded
<1>2. PICK n \in T : \A m \in T : ~(<<m, n>> \in OpToRel(<, Nat))
  BY <1>1, WFMin, Zenon
<1>3. \A m \in T : ~(m < n) BY <1>2 DEF OpToRel
<1>4. QED BY <1>3

\* The loop over next_execute ends, and it ends at one block: above d on the
\* chain of d, with no pending child, and every block between is pending.
LEMMA LastExecutedProperties ==
  ASSUME NEW S, NEW t \in Seq(S), NEW d \in Seq(S), NEW ch,
         Len(d) > 0, IsAncestor(d, t),
         ch.pending \subseteq Seq(S),
         \A e \in ch.pending : Len(e) > 0 /\ IsAncestor(e, t)
  PROVE  LET last == LastExecuted(ch, d) IN
         /\ last \in ch.pending \cup {d}
         /\ last \in Seq(S)
         /\ IsAncestor(d, last)
         /\ IsAncestor(last, t)
         /\ \A k \in Len(d) + 1 .. Len(last) :
               SubSeq(last, 1, k) \in ch.pending
         /\ ~\E x \in ch.pending : Parent(x) = last
<1> DEFINE P == ch.pending
           Absent == {n \in Nat : n > Len(d) /\ SubSeq(t, 1, n) \notin P}
           IsLast(e) ==
              /\ IsAncestor(d, e)
              /\ \A k \in Len(d) + 1 .. Len(e) : SubSeq(e, 1, k) \in P
              /\ ~\E x \in P : Parent(x) = e
<1>1. Len(d) \in Nat /\ Len(t) \in Nat /\ Len(d) <= Len(t)
  BY LenProperties DEF IsAncestor
<1>2. \E e \in P \cup {d} : IsLast(e)
  <2>1. Len(t) + 1 \in Absent
    <3>1. ASSUME SubSeq(t, 1, Len(t) + 1) \in P PROVE FALSE
      <4>1. Len(SubSeq(t, 1, Len(t) + 1)) = Len(t) + 1 BY <1>1
      <4>2. Len(SubSeq(t, 1, Len(t) + 1)) <= Len(t)
        BY <3>1 DEF IsAncestor
      <4>3. QED BY <1>1, <4>1, <4>2
    <3>2. QED BY <1>1, <3>1
  <2>2. PICK n \in Absent : \A m \in Absent : n <= m
    BY <2>1, LeastHeight
  <2>3. n \in Nat /\ n > Len(d) /\ n <= Len(t) + 1 /\ SubSeq(t, 1, n) \notin P
    BY <2>1, <2>2, <1>1
  <2> DEFINE h == n - 1
             e == SubSeq(t, 1, h)
  <2>4. h \in Nat /\ h >= Len(d) /\ h <= Len(t) BY <1>1, <2>3
  <2>5. /\ e \in Seq(S)
        /\ Len(e) = h
        /\ \A i \in 1..h : e[i] = t[i]
    <3> HIDE DEF h
    <3>1. /\ SubSeq(t, 1, h) \in Seq(S)
          /\ Len(SubSeq(t, 1, h)) = IF 1 <= h THEN h - 1 + 1 ELSE 0
          /\ \A i \in 1..h - 1 + 1 : SubSeq(t, 1, h)[i] = t[1 + i - 1]
      BY <2>4, SubSeqOfSeq
    <3>2. QED BY <2>4, <3>1
  <2>6. IsAncestor(e, t) BY <2>4, <2>5, <1>1, AncestorDef
  <2>7. IsAncestor(d, e) BY <2>4, <2>5, <2>6, AncestorsOfOne
  <2>8. \A k \in Len(d) + 1 .. h : SubSeq(t, 1, k) \in P
    BY <1>1, <2>2, <2>3
  <2>9. \A k \in Len(d) + 1 .. h : SubSeq(e, 1, k) = SubSeq(t, 1, k)
    BY <1>1, <2>4, <2>5
  <2>10. e \in P \cup {d}
    <3>1. CASE h = Len(d)
      BY <3>1, <2>5, <2>7, AncestorAntisymmetric
    <3>2. CASE h > Len(d)
      BY <3>2, <2>4, <2>8, <1>1
    <3>3. QED BY <3>1, <3>2, <2>4, <1>1
  <2>11. ASSUME NEW x \in P, Parent(x) = e PROVE FALSE
    <3>1. x \in Seq(S) /\ Len(x) > 0 /\ IsAncestor(x, t) OBVIOUS
    <3>2. Len(x) = n
      BY <3>1, <2>11, <2>5, <2>3, ParentProperties, LenProperties
    <3>3. x = SubSeq(t, 1, n) BY <3>1, <3>2 DEF IsAncestor
    <3>4. QED BY <3>3, <2>3
  <2>12. IsLast(e)
    BY <2>5, <2>7, <2>8, <2>9, <2>11
  <2>13. QED BY <2>10, <2>12
<1>3. LastExecuted(ch, d) = CHOOSE e \in P \cup {d} : IsLast(e)
  BY DEF LastExecuted
<1> DEFINE last == LastExecuted(ch, d)
<1>4. last \in P \cup {d} /\ IsLast(last)
  <2> HIDE DEF IsLast, last
  <2>1. last = CHOOSE e \in P \cup {d} : IsLast(e) BY <1>3 DEF last
  <2>2. QED BY <1>2, <2>1
<1>5. QED BY <1>4

\* A block's requests extend the chain of its parent to the chain of the block.
LEMMA ParentThenRest ==
  ASSUME NEW S, NEW d \in Seq(S), NEW e \in Seq(S), Len(d) > 0,
         IsAncestor(d, e)
  PROVE  /\ SubSeq(e, Len(d), Len(e)) \in Seq(S)
         /\ Parent(d) \o SubSeq(e, Len(d), Len(e)) = e
<1> DEFINE k == Len(d) - 1
           n == Len(e)
<1>1. /\ k \in Nat /\ k + 1 = Len(d) /\ k \in 0..Len(e) /\ Len(e) \in k..Len(e)
      /\ Len(d) \in Nat \ {0} /\ Len(e) \in Nat /\ 1 \in 1..Len(e) + 1
      /\ k \in 1 - 1..Len(e)
  BY LenProperties DEF IsAncestor
<1>2. Parent(d) = SubSeq(e, 1, k)
  <2>1. /\ Parent(d) \in Seq(S) /\ Len(Parent(d)) = k
        /\ IsAncestor(Parent(d), d)
    BY ParentProperties
  <2>2. IsAncestor(Parent(d), e) BY <2>1, AncestorTransitive
  <2>3. QED BY <2>1, <2>2 DEF IsAncestor
<1>3. SubSeq(e, Len(d), Len(e)) \in Seq(S) BY <1>1, SubSeqOfSeq
<1>4. SubSeq(e, 1, k) \o SubSeq(e, k + 1, n) = SubSeq(e, 1, n)
  <2> HIDE DEF k, n
  <2>1. 1 \in 1..Len(e) + 1 /\ k \in 1 - 1..Len(e) /\ n \in k..Len(e)
    BY <1>1 DEF n
  <2>2. QED BY <2>1, ConcatAdjacentSubSeq
<1>5. SubSeq(e, 1, n) = e BY SubSeqFull
<1>6. QED BY <1>1, <1>2, <1>3, <1>4, <1>5

\* commit(d) of the next block, with the blocks next_execute takes: the chain
\* executed is the chain of the last block, and what it took waits no more.
LEMMA CommittedTakes ==
  ASSUME NEW S, NEW d, NEW ch, Extends(ch, d),
         ch \in [digest_parent : Seq(S), digest_execute : Seq(S),
                    pending : SUBSET Seq(S)]
  PROVE  LET last == LastExecuted(ch, d) IN
         /\ Committed(ch, d).digest_parent = ch.digest_parent
         /\ Committed(ch, d).digest_execute = last
         /\ Committed(ch, d).pending =
              {e \in ch.pending : ~(/\ IsAncestor(d, e)
                                       /\ e /= d
                                       /\ IsAncestor(e, last))}
<1> DEFINE last == LastExecuted(ch, d)
<1>1. Committed(ch, d) =
        [ch EXCEPT !.digest_execute = last,
                      !.pending = {e \in @ : ~(/\ IsAncestor(d, e)
                                               /\ e /= d
                                               /\ IsAncestor(e, last))}]
  BY DEF Committed
<1> HIDE DEF last
<1>2. /\ Committed(ch, d).digest_parent = ch.digest_parent
      /\ Committed(ch, d).digest_execute = last
      /\ Committed(ch, d).pending =
           {e \in ch.pending : ~(/\ IsAncestor(d, e)
                                    /\ e /= d
                                    /\ IsAncestor(e, last))}
  BY <1>1
<1>3. QED BY <1>2 DEF last

\* When every block that waits is above what is executed, so it is afterwards.
LEMMA CommittedExtends ==
  ASSUME NEW S, NEW t \in Seq(S), NEW d \in Seq(S), NEW ch,
         Len(d) > 0, IsAncestor(d, t), Extends(ch, d),
         ch \in [digest_parent : Seq(S), digest_execute : Seq(S),
                    pending : SUBSET Seq(S)],
         \A e \in ch.pending :
            /\ Len(e) > 0 /\ IsAncestor(e, t)
            /\ Len(Parent(e)) > Len(ch.digest_execute)
  PROVE  LET last == LastExecuted(ch, d) IN
         \A e \in Committed(ch, d).pending : Len(Parent(e)) > Len(last)
<1> DEFINE last == LastExecuted(ch, d)
<1>1. /\ ch.digest_execute \in Seq(S)
      /\ ch.pending \subseteq Seq(S)
      /\ \A e \in ch.pending : Len(e) > 0 /\ IsAncestor(e, t)
  OBVIOUS
<1>2. /\ last \in Seq(S) /\ IsAncestor(d, last) /\ IsAncestor(last, t)
      /\ ~\E x \in ch.pending : Parent(x) = last
  BY <1>1, LastExecutedProperties
<1>4. Committed(ch, d).pending =
           {e \in ch.pending : ~(/\ IsAncestor(d, e)
                                    /\ e /= d
                                    /\ IsAncestor(e, last))}
  BY CommittedTakes
<1>5. Len(d) \in Nat /\ Len(last) \in Nat /\ Len(d) <= Len(last)
  BY <1>2, LenProperties DEF IsAncestor
<1>6. Len(ch.digest_execute) = Len(d) - 1
  BY ParentProperties DEF Extends
<1>7. ASSUME NEW e \in Committed(ch, d).pending
      PROVE  Len(Parent(e)) > Len(last)
  <2> HIDE DEF last
  <2>1. /\ e \in ch.pending /\ e \in Seq(S) /\ Len(e) > 0
        /\ IsAncestor(e, t)
        /\ ~(IsAncestor(d, e) /\ e /= d /\ IsAncestor(e, last))
    BY <1>4, <1>7, <1>1
  <2>2. /\ Len(e) \in Nat /\ Len(Parent(e)) = Len(e) - 1
        /\ Parent(e) \in Seq(S) /\ IsAncestor(Parent(e), e)
    BY <2>1, ParentProperties, LenProperties
  <2>3. Len(e) > Len(d) /\ e /= d BY <2>1, <2>2, <1>5, <1>6
  <2>4. IsAncestor(d, e) BY <2>1, <2>3, <2>2, <1>5, AncestorsOfOne
  <2>5. ~(Len(e) <= Len(last)) BY <2>1, <2>3, <2>4, <1>2, AncestorsOfOne
  <2>6. Len(e) /= Len(last) + 1
    <3>1. SUFFICES ASSUME Len(e) = Len(last) + 1 PROVE FALSE OBVIOUS
    <3>2. IsAncestor(Parent(e), t) BY <2>1, <2>2, AncestorTransitive
    <3>3. Len(Parent(e)) = Len(last) /\ Len(Parent(e)) <= Len(last)
      <4> DEFINE p == Len(Parent(e))
                 n == Len(last)
      <4>1. p = Len(e) - 1 /\ Len(e) = n + 1 /\ n \in Nat
        BY <3>1, <2>2, <1>5
      <4> HIDE DEF p, n
      <4>2. p = n /\ p <= n BY <4>1
      <4>3. QED BY <4>2 DEF p, n
    <3>4. IsAncestor(Parent(e), last)
      BY <3>2, <3>3, <2>2, <1>2, <1>5, AncestorsOfOne
    <3>5. Parent(e) = last BY <3>4, <3>3, <2>2, <1>2, AncestorAntisymmetric
    <3>6. QED BY <3>5, <1>2, <2>1
  <2>7. QED
    <3> DEFINE p == Len(Parent(e))
               n == Len(last)
               h == Len(e)
    <3>1. p = h - 1 /\ h \in Nat /\ n \in Nat /\ ~(h <= n) /\ h /= n + 1
      BY <2>2, <2>5, <2>6, <1>5
    <3> HIDE DEF p, n, h
    <3>2. p > n BY <3>1
    <3>3. QED BY <3>2 DEF p, n
<1>8. QED BY <1>7

\* commit(d) of a block whose parent is not executed only makes it wait.
LEMMA CommittedWaits ==
  ASSUME NEW S, NEW d, NEW ch, ~Extends(ch, d),
         ch \in [digest_parent : Seq(S), digest_execute : Seq(S),
                    pending : SUBSET Seq(S)]
  PROVE  /\ Committed(ch, d).digest_parent = ch.digest_parent
         /\ Committed(ch, d).digest_execute = ch.digest_execute
         /\ Committed(ch, d).pending = ch.pending \cup {d}
BY DEF Committed

-----------------------------------------------------------------------------
(* Datagrams and entries of the event channel                              *)

\* The datagrams of a protocol whose replicas send messages of M.
Datagrams(M) == [to : Replicas, msg : M] \cup [to : Clients, msg : ReplyMsgs]

OwnEntries(M, O) == [msg : O, before : SUBSET M]

\* The network carries datagrams of D, of which the replicas receive messages of
\* M, and of which a replica sends itself messages of O.
Carries(D, M) == \A x \in D : x.to \in Replicas => x.msg \in M

Wired(D, M, O) ==
    /\ net \subseteq D
    /\ loopback \in [Replicas -> Seq(OwnEntries(M, O))]
    /\ dup \in 0..MaxDup

\* The network part of a type invariant, over the sets of all datagrams and
\* of all entries of an event channel.
LEMMA NetTypeDef ==
  ASSUME NEW M, NEW O
  PROVE  /\ NetTypeOK(M, O) <=> Wired(Datagrams(M), M, O)
         /\ NetTypeOK(M, O)' <=> Wired(Datagrams(M), M, O)'
         /\ NetTypeOK(M, O) => /\ net \subseteq Datagrams(M)
                               /\ loopback \in [Replicas -> Seq(OwnEntries(M, O))]
                               /\ dup \in 0..MaxDup
         /\ Carries(Datagrams(M), M)
<1>1. Carries(Datagrams(M), M) BY ClientsAssumption DEF Carries, Datagrams
<1>2. QED BY <1>1 DEF NetTypeOK, Datagrams, OwnEntries, Wired

\* What is in flight to a replica is a replica's message.
LEMMA InFlightType ==
  ASSUME NEW D, NEW M, Carries(D, M), NEW flight \in SUBSET D, NEW r \in Replicas
  PROVE  InFlightTo(flight, r) \subseteq M
BY DEF InFlightTo, Carries

\* Every event of a replica, whatever its handler sends, keeps the type of the
\* network.
LEMMA WiredStep ==
  ASSUME NEW D, NEW M, NEW O, Carries(D, M), Wired(D, M, O),
         NEW r \in Replicas, NEW m, NEW out \in SUBSET D, NEW own \in Seq(O),
         \/ HandleDatagram(r, m, out, own)
         \/ loopback[r] /= <<>> /\ HandleLoopback(r, out, own)
         \/ Pace(r, out, own)
  PROVE  Wired(D, M, O)'
<1> DEFINE E == OwnEntries(M, O)
<1>1. net \subseteq D /\ loopback \in [Replicas -> Seq(E)] /\ dup \in 0..MaxDup
  BY DEF Wired
<1>2. net' \in SUBSET D /\ dup' \in 0..MaxDup
  BY <1>1, MaxDupAssumption DEF HandleDatagram, Flight, HandleLoopback, Pace
<1>3. Looped(r, own) \in Seq(E)
  <2>1. Len(own) \in Nat /\ \A k \in 1..Len(own) : own[k] \in O
    BY LenProperties, ElementOfSeq
  <2>2. InFlightTo(net', r) \in SUBSET M BY <1>2, InFlightType
  <2>3. Looped(r, own) \in [1..Len(own) -> E]
    BY <2>1, <2>2 DEF Looped, OwnEntries
  <2>4. QED BY <2>1, <2>3, SeqDef
<1>4. PICK rest \in Seq(E) :
               loopback' = [loopback EXCEPT ![r] = rest \o Looped(r, own)]
  <2> HIDE DEF E
  <2>1. CASE HandleDatagram(r, m, out, own) \/ Pace(r, out, own)
    BY <1>1, <2>1 DEF HandleDatagram, Pace
  <2>2. CASE loopback[r] /= <<>> /\ HandleLoopback(r, out, own)
    BY <1>1, <2>2, HeadTailProperties DEF HandleLoopback
  <2>3. QED BY <2>1, <2>2
<1> HIDE DEF E
<1>5. rest \o Looped(r, own) \in Seq(E) BY <1>3, <1>4, ConcatProperties
<1>6. loopback' \in [Replicas -> Seq(E)] BY <1>1, <1>4, <1>5
<1>7. QED BY <1>2, <1>6 DEF Wired, E
-----------------------------------------------------------------------------
\* Every message that is in flight or in a replica's event channel.
Messages ==
    {x.msg : x \in net}
      \cup UNION {{loopback[r][k].msg : k \in 1..Len(loopback[r])} :
                     r \in Replicas}

Sent(out, own) == {x.msg : x \in out} \cup {own[k] : k \in 1..Len(own)}

\* What a handler is given was among the messages.
LEMMA ArrivedMessage ==
  ASSUME NEW r, NEW m, Arrived(r, m)
  PROVE  m \in Messages
<1>1. Datagram(r, m) \in net /\ Datagram(r, m).msg = m
  BY DEF Arrived, Datagram
<1>2. QED BY <1>1 DEF Messages

\* The next looped-back message of a replica is one of the messages on their
\* way.
LEMMA LoopbackMessage ==
  ASSUME NEW E, loopback \in [Replicas -> Seq(E)], NEW r \in Replicas,
         loopback[r] /= <<>>
  PROVE  /\ Head(loopback[r]) \in E
         /\ Head(loopback[r]).msg \in Messages
<1>1. /\ loopback[r] \in Seq(E) /\ Head(loopback[r]) \in E
      /\ Head(loopback[r]) = loopback[r][1] /\ 1 \in 1..Len(loopback[r])
  <2>1. loopback[r] \in Seq(E) OBVIOUS
  <2>2. Len(loopback[r]) \in Nat /\ Len(loopback[r]) /= 0
    BY <2>1, LenProperties, EmptySeq
  <2>3. QED BY <2>1, <2>2, HeadTailProperties
<1>2. QED BY <1>1 DEF Messages

\* A function on 1..n into S is a sequence over S.
LEMMA SeqOfFunction ==
  ASSUME NEW S, NEW n \in Nat, NEW f \in [1..n -> S]
  PROVE  f \in Seq(S) /\ Len(f) = n
<1>1. f \in Seq(S) BY SeqDef
<1>2. QED BY <1>1, LenProperties

\* A sequence over a set is one over every larger set.
LEMMA SeqMonotone ==
  ASSUME NEW S, NEW T, S \subseteq T, NEW s \in Seq(S)
  PROVE  s \in Seq(T)
<1>1. Len(s) \in Nat /\ \A i \in 1..Len(s) : s[i] \in S
  BY LenProperties, ElementOfSeq
<1>2. s \in [1..Len(s) -> T] BY <1>1, LenProperties
<1>3. QED BY <1>1, <1>2, SeqOfFunction

\* What a handler loops back comes after what is left of r's channel.
LEMMA LoopedChannel ==
  ASSUME NEW E, NEW r, NEW O, NEW own \in Seq(O), NEW rest \in Seq(E)
  PROVE  LET all == rest \o Looped(r, own) IN
         /\ Len(all) = Len(rest) + Len(own)
         /\ \A k \in 1..Len(rest) : all[k] = rest[k]
         /\ \A k \in Len(rest) + 1 .. Len(rest) + Len(own) :
               /\ all[k].msg = own[k - Len(rest)]
               /\ all[k].before = InFlightTo(net', r)
<1>1. Len(own) \in Nat /\ Len(rest) \in Nat BY LenProperties
<1> DEFINE T == [msg : {own[k] : k \in 1..Len(own)},
                 before : {InFlightTo(net', r)}]
           looped == Looped(r, own)
           all == rest \o looped
<1>2. looped \in Seq(E \cup T) /\ Len(looped) = Len(own)
  <2>1. looped \in [1..Len(own) -> T] BY DEF Looped
  <2>2. looped \in [1..Len(own) -> E \cup T] BY <2>1
  <2>3. QED
    <3> HIDE DEF T, looped
    <3>1. QED BY <1>1, <2>2, SeqOfFunction
<1>3. \A k \in 1..Len(own) :
         looped[k].msg = own[k] /\ looped[k].before = InFlightTo(net', r)
  BY DEF Looped
<1> HIDE DEF looped, T
<1>4. rest \in Seq(E \cup T) BY SeqMonotone
<1>5. /\ Len(all) = Len(rest) + Len(looped)
      /\ \A i \in 1..Len(rest) + Len(looped) :
            all[i] = IF i <= Len(rest) THEN rest[i] ELSE looped[i - Len(rest)]
  BY <1>2, <1>4, ConcatProperties
<1> HIDE DEF all
<1>6. /\ Len(all) = Len(rest) + Len(own)
      /\ \A i \in 1..Len(rest) + Len(own) :
            all[i] = IF i <= Len(rest) THEN rest[i] ELSE looped[i - Len(rest)]
  BY <1>2, <1>5
<1>7. \A k \in 1..Len(rest) : all[k] = rest[k] BY <1>1, <1>6
<1>8. ASSUME NEW k \in Len(rest) + 1 .. Len(rest) + Len(own)
      PROVE  /\ all[k].msg = own[k - Len(rest)]
             /\ all[k].before = InFlightTo(net', r)
  <2>1. k - Len(rest) \in 1..Len(own) /\ k \in 1..Len(rest) + Len(own)
        /\ ~(k <= Len(rest))
    BY <1>1
  <2>2. QED BY <1>3, <1>6, <2>1
<1>9. QED BY <1>6, <1>7, <1>8 DEF all, looped

\* The messages after a step that appends own to what is left of r's channel.
LEMMA StepMessages ==
  ASSUME NEW E, loopback \in [Replicas -> Seq(E)], NEW r \in Replicas,
         NEW O, NEW own \in Seq(O), NEW out, net' \subseteq net \cup out,
         NEW rest \in Seq(E),
         \A k \in 1..Len(rest) : \E j \in 1..Len(loopback[r]) :
             rest[k] = loopback[r][j],
         loopback' = [loopback EXCEPT ![r] = rest \o Looped(r, own)]
  PROVE  Messages' \subseteq Messages \cup Sent(out, own)
<1>1. Len(own) \in Nat /\ Len(rest) \in Nat BY LenProperties
<1>2. /\ Len(loopback'[r]) = Len(rest) + Len(own)
      /\ \A k \in 1..Len(rest) : loopback'[r][k] = rest[k]
      /\ \A k \in Len(rest) + 1 .. Len(rest) + Len(own) :
            loopback'[r][k].msg = own[k - Len(rest)]
  <2>1. loopback'[r] = rest \o Looped(r, own) OBVIOUS
  <2>2. QED BY <2>1, LoopedChannel
<1>3. ASSUME NEW k \in 1..Len(loopback'[r])
      PROVE  loopback'[r][k].msg \in Messages \cup Sent(out, own)
  <2>1. CASE k \in 1..Len(rest) BY <1>2, <2>1 DEF Messages
  <2>2. CASE k \in Len(rest) + 1 .. Len(rest) + Len(own)
    <3>1. k - Len(rest) \in 1..Len(own) BY <2>2, <1>1
    <3>2. QED BY <1>2, <2>2, <3>1 DEF Sent
  <2>3. QED BY <1>1, <1>2, <2>1, <2>2
<1>4. ASSUME NEW s \in Replicas, s /= r
      PROVE  loopback'[s] = loopback[s]
  BY <1>4
<1>5. ASSUME NEW s \in Replicas, NEW k \in 1..Len(loopback'[s])
      PROVE  loopback'[s][k].msg \in Messages \cup Sent(out, own)
  <2>1. CASE s = r BY <2>1, <1>3, <1>5
  <2>2. CASE s /= r BY <2>2, <1>4, <1>5 DEF Messages
  <2>3. QED BY <2>1, <2>2
<1>6. ASSUME NEW x \in net' PROVE x.msg \in Messages \cup Sent(out, own)
  BY <1>6 DEF Messages, Sent
<1>7. Messages' = {x.msg : x \in net'}
        \cup UNION {{loopback'[s][k].msg : k \in 1..Len(loopback'[s])} :
                       s \in Replicas}
  BY DEF Messages
<1>8. QED BY <1>5, <1>6, <1>7

\* Handling a datagram puts nothing on its way but what the handler sends.
LEMMA DatagramMessages ==
  ASSUME NEW E, loopback \in [Replicas -> Seq(E)], NEW r \in Replicas,
         NEW m, NEW O, NEW own \in Seq(O), NEW out,
         HandleDatagram(r, m, out, own)
  PROVE  Messages' \subseteq Messages \cup Sent(out, own)
BY StepMessages DEF HandleDatagram, Flight

\* Handling a looped-back message puts nothing on its way but what the handler
\* sends.
LEMMA LoopbackMessages ==
  ASSUME NEW E, loopback \in [Replicas -> Seq(E)], NEW r \in Replicas,
         loopback[r] /= <<>>, NEW O, NEW own \in Seq(O), NEW out,
         HandleLoopback(r, out, own)
  PROVE  Messages' \subseteq Messages \cup Sent(out, own)
<1> DEFINE rest == Tail(loopback[r])
<1>1. /\ rest \in Seq(E)
      /\ \A k \in 1..Len(rest) : \E j \in 1..Len(loopback[r]) :
            rest[k] = loopback[r][j]
  <2>1. loopback[r] \in Seq(E) OBVIOUS
  <2>2. /\ rest \in Seq(E) /\ Len(rest) = Len(loopback[r]) - 1
        /\ \A k \in 1..Len(rest) : rest[k] = loopback[r][k + 1]
    BY <2>1, HeadTailProperties
  <2>3. Len(loopback[r]) \in Nat BY <2>1, LenProperties
  <2>4. ASSUME NEW k \in 1..Len(rest) PROVE k + 1 \in 1..Len(loopback[r])
    BY <2>2, <2>3, <2>4
  <2>5. QED BY <2>2, <2>4
<1>2. loopback' = [loopback EXCEPT ![r] = rest \o Looped(r, own)]
  BY DEF HandleLoopback
<1>3. net' \subseteq net \cup out BY DEF HandleLoopback
<1> HIDE DEF rest
<1>4. QED BY <1>1, <1>2, <1>3, StepMessages

\* on_pace puts nothing on its way but what it sends.
LEMMA PaceMessages ==
  ASSUME NEW E, loopback \in [Replicas -> Seq(E)], NEW r \in Replicas,
         NEW O, NEW own \in Seq(O), NEW out, Pace(r, out, own)
  PROVE  Messages' \subseteq Messages \cup Sent(out, own)
BY StepMessages DEF Pace

\* A step of an event handler of replica r that sends own and out.
LEMMA EventStep ==
  ASSUME NEW D, NEW M, NEW O, Carries(D, M), Wired(D, M, O),
         NEW r \in Live, NEW m, NEW out \in SUBSET D, NEW own \in Seq(O),
         \/ HandleDatagram(r, m, out, own)
         \/ loopback[r] /= <<>> /\ HandleLoopback(r, out, own)
         \/ Pace(r, out, own)
  PROVE  /\ Wired(D, M, O)'
         /\ Messages' \subseteq Messages \cup Sent(out, own)
<1>1. r \in Replicas /\ loopback \in [Replicas -> Seq(OwnEntries(M, O))]
  BY LiveAssumption DEF Wired
<1>2. Wired(D, M, O)' BY <1>1, WiredStep
<1>3. CASE HandleDatagram(r, m, out, own)
  BY <1>1, <1>2, <1>3, DatagramMessages
<1>4. CASE loopback[r] /= <<>> /\ HandleLoopback(r, out, own)
  BY <1>1, <1>2, <1>4, LoopbackMessages
<1>5. CASE Pace(r, out, own) BY <1>1, <1>2, <1>5, PaceMessages
<1>6. QED BY <1>3, <1>4, <1>5

\* The same where the clients are sent replies.
LEMMA HandlerStep ==
  ASSUME NEW M, NEW O, NetTypeOK(M, O), NEW r \in Live, NEW m,
         NEW out \in SUBSET Datagrams(M), NEW own \in Seq(O),
         \/ HandleDatagram(r, m, out, own)
         \/ loopback[r] /= <<>> /\ HandleLoopback(r, out, own)
         \/ Pace(r, out, own)
  PROVE  /\ NetTypeOK(M, O)'
         /\ Messages' \subseteq Messages \cup Sent(out, own)
BY NetTypeDef, EventStep

\* What a handler sends is all that it adds to the network.
LEMMA HandlerSends ==
  ASSUME NEW r, NEW m, NEW out, NEW own,
         \/ HandleDatagram(r, m, out, own)
         \/ HandleLoopback(r, out, own)
         \/ Pace(r, out, own)
  PROVE  net' \subseteq net \cup out
BY DEF HandleDatagram, Flight, HandleLoopback, Pace

\* A message to the other running replicas is a datagram, and one of the
\* replica's own messages for the loopback.
LEMMA SentType ==
  ASSUME NEW M, NEW O \in SUBSET M, NEW r \in Live, NEW m \in O
  PROVE  /\ SendTo(Peers(r), m) \in SUBSET Datagrams(M)
         /\ <<m>> \in Seq(O) /\ Len(<<m>>) = 1
         /\ Sent(SendTo(Peers(r), m), <<m>>) = {m}
<1>1. SendTo(Peers(r), m) \in SUBSET Datagrams(M)
  BY LiveAssumption DEF SendTo, Peers, Datagram, Datagrams
<1>2. <<m>> \in Seq(O) /\ Len(<<m>>) = 1 /\ <<m>>[1] = m
  OBVIOUS
<1>3. Sent(SendTo(Peers(r), m), <<m>>) = {m}
  <2>1. {<<m>>[k] : k \in 1..Len(<<m>>)} = {m} BY <1>2
  <2>2. {x.msg : x \in SendTo(Peers(r), m)} \subseteq {m}
    BY DEF SendTo, Datagram
  <2>3. QED BY <2>1, <2>2 DEF Sent
<1>4. QED BY <1>1, <1>2, <1>3

\* The types of what a replica receives, and of what it takes from its own event
\* channel.
LEMMA MessagesOfWire ==
  ASSUME NEW D, NEW M, NEW O \in SUBSET M, Carries(D, M), Wired(D, M, O)
  PROVE  /\ \A r \in Replicas : \A m : Arrived(r, m) => m \in M /\ m \in Messages
         /\ \A r \in Replicas : loopback[r] /= <<>> =>
               /\ Head(loopback[r]).msg \in O
               /\ Head(loopback[r]).msg \in Messages
         /\ \A r \in Replicas : \A k \in 1..Len(loopback[r]) :
               loopback[r][k].msg \in M
<1>1. net \subseteq D /\ loopback \in [Replicas -> Seq(OwnEntries(M, O))]
  BY DEF Wired
<1>3. ASSUME NEW r \in Replicas, NEW k \in 1..Len(loopback[r])
      PROVE  loopback[r][k].msg \in M
  <2>1. loopback[r][k] \in OwnEntries(M, O) BY <1>1, ElementOfSeq
  <2>2. QED BY <2>1 DEF OwnEntries
<1>4. ASSUME NEW r \in Replicas, NEW m, Arrived(r, m)
      PROVE  m \in M /\ m \in Messages
  <2>1. Datagram(r, m) \in D BY <1>1, <1>4 DEF Arrived
  <2>2. m \in M BY <2>1 DEF Carries, Datagram
  <2>3. QED BY <1>4, <2>2, ArrivedMessage
<1>5. ASSUME NEW r \in Replicas, loopback[r] /= <<>>
      PROVE  /\ Head(loopback[r]).msg \in O
             /\ Head(loopback[r]).msg \in Messages
  <2>1. /\ Head(loopback[r]) \in OwnEntries(M, O)
        /\ Head(loopback[r]).msg \in Messages
    BY <1>1, <1>5, LoopbackMessage
  <2>2. QED BY <2>1 DEF OwnEntries
<1>6. QED BY <1>3, <1>4, <1>5

\* The same where the clients are sent replies.
LEMMA MessagesOfNet ==
  ASSUME NEW M, NEW O \in SUBSET M, NetTypeOK(M, O)
  PROVE  /\ Messages \subseteq M \cup ReplyMsgs
         /\ \A r \in Replicas : \A m : Arrived(r, m) => m \in M /\ m \in Messages
         /\ \A r \in Replicas : loopback[r] /= <<>> =>
               /\ Head(loopback[r]).msg \in O
               /\ Head(loopback[r]).msg \in Messages
<1>1. \A x \in net : x.msg \in M \cup ReplyMsgs BY NetTypeDef DEF Datagrams
<1>2. QED BY <1>1, NetTypeDef, MessagesOfWire DEF Messages

\* Replies to clients are datagrams, and the only messages in them.
LEMMA RepliesOnly ==
  ASSUME NEW M, NEW out \in SUBSET [to : Clients, msg : ReplyMsgs]
  PROVE  /\ out \in SUBSET Datagrams(M)
         /\ \A x \in Sent(out, <<>>) : x.kind = "Reply"
<1>1. Sent(out, <<>>) = {x.msg : x \in out} BY DEF Sent
<1>2. QED BY <1>1 DEF Datagrams, ReplyMsgs
-----------------------------------------------------------------------------
\* The messages in an event channel, those in a sequence, and that none is in
\* a channel twice.
Held(q) == {q[k].msg : k \in 1..Len(q)}
Items(own) == {own[k] : k \in 1..Len(own)}
Distinct(q) == \A k, l \in 1..Len(q) : q[k].msg = q[l].msg => k = l

\* A channel to which a handler appends at most one message, which it did not
\* hold.
LEMMA ChannelAppend ==
  ASSUME NEW E, NEW r, NEW O, NEW own \in Seq(O), Len(own) <= 1,
         NEW rest \in Seq(E), Distinct(rest),
         Items(own) \cap Held(rest) = {}
  PROVE  LET all == rest \o Looped(r, own) IN
         /\ Distinct(all)
         /\ Held(all) \subseteq Held(rest) \cup Items(own)
<1> DEFINE all == rest \o Looped(r, own)
           n == Len(rest)
<1>1. /\ Len(own) \in Nat /\ n \in Nat
      /\ Len(all) = n + Len(own)
      /\ \A k \in 1..n : all[k] = rest[k]
      /\ \A k \in n + 1 .. n + Len(own) : all[k].msg = own[k - n]
  BY LoopedChannel, LenProperties
<1> HIDE DEF all, n
<1>2. ASSUME NEW k \in 1..Len(all)
      PROVE  \/ k \in 1..n /\ all[k].msg = rest[k].msg /\ all[k].msg \in Held(rest)
             \/ /\ k = n + 1 /\ Len(own) = 1
                /\ all[k].msg = own[1] /\ all[k].msg \notin Held(rest)
  <2>1. CASE k \in 1..n BY <1>1, <2>1 DEF Held, n
  <2>2. CASE k \notin 1..n
    <3>1. PICK h : h = Len(own) OBVIOUS
    <3>2. h \in Nat /\ h <= 1 /\ n \in Nat /\ k \in 1..n + h
      BY <1>1, <3>1
    <3>3. h = 1 /\ k = n + 1 /\ k - n = 1 /\ k \in n + 1 .. n + h
      BY <2>2, <3>2
    <3>4. all[k].msg = own[1] BY <1>1, <3>1, <3>3
    <3>5. own[1] \notin Held(rest) BY <3>1, <3>3 DEF Items
    <3>6. QED BY <3>1, <3>3, <3>4, <3>5
  <2>3. QED BY <2>1, <2>2
<1>3. Distinct(all)
  <2>1. SUFFICES ASSUME NEW k \in 1..Len(all), NEW l \in 1..Len(all),
                        all[k].msg = all[l].msg
                 PROVE  k = l
    BY DEF Distinct
  <2>2. k \in 1..n /\ l \in 1..n => k = l
    BY <1>2, <2>1, <1>1 DEF Distinct, n
  <2>3. QED BY <1>2, <2>1, <2>2
<1>4. Held(all) \subseteq Held(rest) \cup Items(own)
  <2>1. Len(own) = 1 => own[1] \in Items(own) BY DEF Items
  <2>2. PICK S : S = Held(rest) \cup Items(own) OBVIOUS
  <2>3. \A k \in 1..Len(all) : all[k].msg \in S BY <1>2, <2>1, <2>2
  <2>4. Held(all) \subseteq S BY <2>3 DEF Held
  <2>5. QED BY <2>2, <2>4
<1>5. QED BY <1>3, <1>4 DEF all

\* Taking the next message leaves the others.
LEMMA ChannelTail ==
  ASSUME NEW E, NEW q \in Seq(E), q /= <<>>, Distinct(q)
  PROVE  /\ Tail(q) \in Seq(E) /\ Distinct(Tail(q))
         /\ Held(Tail(q)) \subseteq Held(q)
         /\ Head(q).msg \in Held(q) /\ Head(q).msg \notin Held(Tail(q))
<1>1. Len(q) \in Nat /\ Len(q) > 0 BY LenProperties, EmptySeq
<1>2. /\ Tail(q) \in Seq(E) /\ Len(Tail(q)) = Len(q) - 1
      /\ Head(q) = q[1]
      /\ \A k \in 1..Len(q) - 1 : Tail(q)[k] = q[k + 1]
  BY <1>1, HeadTailProperties
<1>3. \A k \in 1..Len(q) - 1 : k + 1 \in 1..Len(q) /\ k + 1 /= 1
  BY <1>1
<1>4. 1 \in 1..Len(q) BY <1>1
<1>5. Distinct(Tail(q))
  <2>1. SUFFICES ASSUME NEW k \in 1..Len(q) - 1, NEW l \in 1..Len(q) - 1,
                        Tail(q)[k].msg = Tail(q)[l].msg
                 PROVE  k = l
    BY <1>2 DEF Distinct
  <2>2. k + 1 = l + 1 BY <1>2, <1>3, <2>1 DEF Distinct
  <2>3. QED BY <1>1, <2>2
<1>6. Held(Tail(q)) \subseteq Held(q) BY <1>2, <1>3 DEF Held
<1>7. Head(q).msg \in Held(q) BY <1>2, <1>4 DEF Held
<1>8. Head(q).msg \notin Held(Tail(q))
  <2>1. SUFFICES ASSUME NEW k \in 1..Len(q) - 1, Tail(q)[k].msg = Head(q).msg
                 PROVE  FALSE
    BY <1>2 DEF Held
  <2>2. q[k + 1].msg = q[1].msg BY <1>2, <2>1
  <2>3. QED BY <1>3, <1>4, <2>2 DEF Distinct
<1>9. QED BY <1>2, <1>5, <1>6, <1>7, <1>8

\* The channels after an event at r.
LEMMA ChannelStep ==
  ASSUME NEW E, loopback \in [Replicas -> Seq(E)], NEW r \in Replicas, NEW m,
         NEW O, NEW own \in Seq(O), Len(own) <= 1, NEW out,
         Distinct(loopback[r]),
         Items(own) \cap Held(loopback[r]) = {},
         \/ HandleDatagram(r, m, out, own)
         \/ Pace(r, out, own)
         \/ loopback[r] /= <<>> /\ HandleLoopback(r, out, own)
  PROVE  /\ \A s \in Replicas : s /= r => loopback'[s] = loopback[s]
         /\ Distinct(loopback'[r])
         /\ Held(loopback'[r])
               \subseteq Held(loopback[r]) \cup Items(own)
         /\ HandleLoopback(r, out, own) /\ loopback[r] /= <<>> =>
               /\ Head(loopback[r]).msg \in Held(loopback[r])
               /\ Held(loopback'[r])
                     \subseteq (Held(loopback[r]) \ {Head(loopback[r]).msg})
                               \cup Items(own)
<1>1. loopback[r] \in Seq(E) OBVIOUS
<1>2. CASE HandleDatagram(r, m, out, own) \/ Pace(r, out, own)
  <2>1. loopback' = [loopback EXCEPT ![r] = @ \o Looped(r, own)]
    BY <1>2 DEF HandleDatagram, Pace
  <2>2. loopback'[r] = loopback[r] \o Looped(r, own)
        /\ \A s \in Replicas : s /= r => loopback'[s] = loopback[s]
    BY <2>1
  <2>3. /\ Distinct(loopback'[r])
        /\ Held(loopback'[r])
              \subseteq Held(loopback[r]) \cup Items(own)
    BY <1>1, <2>2, ChannelAppend
  <2>4. CASE ~HandleLoopback(r, out, own) BY <2>2, <2>3, <2>4
  <2>5. CASE HandleLoopback(r, out, own) /\ loopback[r] /= <<>>
    <3>1. loopback'[r] = Tail(loopback[r]) \o Looped(r, own)
      BY <2>5 DEF HandleLoopback
    <3>2. /\ Tail(loopback[r]) \in Seq(E) /\ Distinct(Tail(loopback[r]))
          /\ Held(Tail(loopback[r])) \subseteq Held(loopback[r])
          /\ Head(loopback[r]).msg \in Held(loopback[r])
          /\ Head(loopback[r]).msg \notin Held(Tail(loopback[r]))
      BY <1>1, <2>5, ChannelTail
    <3>3. PICK rest : rest = Tail(loopback[r]) OBVIOUS
    <3>4. Items(own) \cap Held(rest) = {} BY <3>2, <3>3
    <3>5. rest \in Seq(E) /\ Distinct(rest) BY <3>2, <3>3
    <3>6. Held(rest \o Looped(r, own))
            \subseteq Held(rest) \cup Items(own)
      BY <3>4, <3>5, ChannelAppend
    <3>7. QED BY <2>2, <2>3, <3>1, <3>2, <3>3, <3>6
  <2>6. QED BY <2>2, <2>3, <2>4, <2>5
<1>3. CASE loopback[r] /= <<>> /\ HandleLoopback(r, out, own)
  <2>1. loopback' = [loopback EXCEPT ![r] = Tail(@) \o Looped(r, own)]
    BY <1>3 DEF HandleLoopback
  <2>2. loopback'[r] = Tail(loopback[r]) \o Looped(r, own)
        /\ \A s \in Replicas : s /= r => loopback'[s] = loopback[s]
    BY <2>1
  <2>3. /\ Tail(loopback[r]) \in Seq(E) /\ Distinct(Tail(loopback[r]))
        /\ Held(Tail(loopback[r])) \subseteq Held(loopback[r])
        /\ Head(loopback[r]).msg \in Held(loopback[r])
        /\ Head(loopback[r]).msg \notin Held(Tail(loopback[r]))
    BY <1>1, <1>3, ChannelTail
  <2>4. PICK rest : rest = Tail(loopback[r]) OBVIOUS
  <2>5. Items(own) \cap Held(rest) = {} BY <2>3, <2>4
  <2>6. rest \in Seq(E) /\ Distinct(rest) BY <2>3, <2>4
  <2>7. /\ Distinct(rest \o Looped(r, own))
        /\ Held(rest \o Looped(r, own))
              \subseteq Held(rest) \cup Items(own)
    BY <2>5, <2>6, ChannelAppend
  <2>8. QED BY <2>2, <2>3, <2>4, <2>7
<1>4. QED BY <1>2, <1>3

\* What is in flight to a replica after an event at r: what was, and what the
\* handler sent.  A datagram handled where none arrives twice is gone.
LEMMA FlightStep ==
  ASSUME NEW M, NEW O, NetTypeOK(M, O), NEW r, NEW m, NEW out, NEW own
  PROVE  /\ \/ HandleDatagram(r, m, out, own)
            \/ HandleLoopback(r, out, own)
            \/ Pace(r, out, own)
            => \A s : InFlightTo(net', s)
                         \subseteq InFlightTo(net, s) \cup InFlightTo(out, s)
         /\ HandleDatagram(r, m, out, own) /\ MaxDup = 0
            => InFlightTo(net', r)
                  \subseteq (InFlightTo(net, r) \ {m}) \cup InFlightTo(out, r)
<1>1. net \subseteq Datagrams(M) /\ dup \in 0..MaxDup BY NetTypeDef
<1>2. ASSUME \/ HandleDatagram(r, m, out, own)
             \/ HandleLoopback(r, out, own)
             \/ Pace(r, out, own)
      PROVE  \A s : InFlightTo(net', s)
                       \subseteq InFlightTo(net, s) \cup InFlightTo(out, s)
  <2>1. net' \subseteq net \cup out BY <1>2, HandlerSends
  <2>2. QED BY <2>1 DEF InFlightTo
<1>3. ASSUME HandleDatagram(r, m, out, own), MaxDup = 0
      PROVE  InFlightTo(net', r)
                \subseteq (InFlightTo(net, r) \ {m}) \cup InFlightTo(out, r)
  <2>1. ~(dup < MaxDup) BY <1>1, <1>3
  <2>2. net' = (net \ {Datagram(r, m)}) \cup out
    BY <1>3, <2>1 DEF HandleDatagram, Flight
  <2>3. \A x \in net : x.to = r /\ x.msg = m => x = Datagram(r, m)
    BY <1>1 DEF Datagrams, Datagram
  <2>4. QED BY <2>2, <2>3 DEF InFlightTo
<1>4. QED BY <1>2, <1>3

\* What a message to some replicas and what replies to clients put in flight
\* to a replica.
LEMMA FlightOut ==
  ASSUME NEW s \in Replicas
  PROVE  /\ InFlightTo({}, s) = {}
         /\ \A addrs, m : /\ InFlightTo(SendTo(addrs, m), s) \subseteq {m}
                          /\ s \notin addrs => InFlightTo(SendTo(addrs, m), s) = {}
         /\ \A out \in SUBSET [to : Clients, msg : ReplyMsgs] :
               InFlightTo(out, s) = {}
<1>1. \A out \in SUBSET [to : Clients, msg : ReplyMsgs] : \A x \in out : x.to /= s
  BY ClientsAssumption
<1>2. QED BY <1>1 DEF InFlightTo, SendTo, Datagram

-----------------------------------------------------------------------------
\* The chain and the queue of the primary after a proposal: the new block lies
\* on the chain of those before it, and was none of them.
LEMMA ProposeProperties ==
  ASSUME NEW ch \in Chains, NEW reqs \in Seq(RequestRecords),
         NEW next, next = Propose(ch, reqs)
  PROVE  /\ next \in Chains
         /\ next.digest_execute = ch.digest_execute
         /\ next.pending = ch.pending
         /\ next.digest_parent \in Digests /\ Len(next.digest_parent) > 0
         /\ IsAncestor(next.digest_parent, next.digest_parent)
         /\ \A e \in Digests : IsAncestor(e, ch.digest_parent)
               => IsAncestor(e, next.digest_parent)
         /\ ~IsAncestor(next.digest_parent, ch.digest_parent)
         /\ Drained(reqs) \in Seq(RequestRecords)
<1> DEFINE n == BatchLen(reqs)
           b == SubSeq(reqs, 1, n)
<1>1. PICK t : t = ch.digest_parent OBVIOUS
<1>2. PICK q : q = Len(reqs) OBVIOUS
<1>3. q \in Nat BY <1>2, LenProperties
<1>4. n \in 0..MaxBatchSize /\ n <= q
  BY <1>2, <1>3, MaxBatchAssumption DEF BatchLen
<1>5. b \in Batches
  <2>1. n \in Nat BY <1>4, MaxBatchAssumption
  <2>2. b \in Seq(RequestRecords) /\ Len(b) = n
    BY <1>2, <1>4, <2>1, SubSeqOfSeq
  <2>3. QED BY <1>4, <2>2 DEF Batches
<1>6. /\ next = [ch EXCEPT !.digest_parent = Append(t, b)]
      /\ t \in Digests
  BY <1>1 DEF Propose, Chains
<1> HIDE DEF b
<1>7. PICK d : d = Append(t, b) OBVIOUS
<1>8. /\ next.digest_parent = d
      /\ next.digest_execute = ch.digest_execute
      /\ next.pending = ch.pending
  BY <1>6, <1>7 DEF Chains
<1>9. PICK k : k = Len(t) OBVIOUS
<1>10. PICK h : h = Len(d) OBVIOUS
<1>11. k \in Nat /\ h \in Nat /\ h = k + 1 /\ d \in Digests
  <2>1. t \in Seq(Batches) BY <1>6 DEF Digests
  <2>2. d \in Seq(Batches) /\ Len(d) = Len(t) + 1
    BY <1>5, <1>7, <2>1, AppendProperties
  <2>3. QED BY <1>9, <1>10, <2>1, <2>2, LenProperties DEF Digests
<1>12. IsAncestor(d, d) BY <1>11, AncestorReflexive DEF Digests
<1>13. \A e \in Digests : IsAncestor(e, t) => IsAncestor(e, d)
  BY <1>5, <1>6, <1>7, AncestorOfAppend DEF Digests
<1>14. ~IsAncestor(d, t)
  <2>1. ~(h <= k) BY <1>11
  <2>2. QED BY <1>9, <1>10, <2>1 DEF IsAncestor
<1>15. next \in Chains
  <2>1. ch = [digest_parent |-> ch.digest_parent,
              digest_execute |-> ch.digest_execute, pending |-> ch.pending]
    BY DEF Chains
  <2>2. QED BY <2>1, <1>6, <1>7, <1>11 DEF Chains
<1>16. Drained(reqs) \in Seq(RequestRecords)
  <2>1. PICK l : l = n + 1 OBVIOUS
  <2>2. l \in Nat \ {0} /\ q <= Len(reqs)
    BY <1>2, <1>3, <1>4, <2>1, MaxBatchAssumption
  <2>3. SubSeq(reqs, l, q) \in Seq(RequestRecords)
    BY <1>2, <1>3, <2>2, SubSeqOfSeq
  <2>4. QED BY <1>2, <2>1, <2>3 DEF Drained
<1>17. h > 0 BY <1>11
<1>18. QED
  BY <1>1, <1>8, <1>10, <1>11, <1>12, <1>13, <1>14, <1>15, <1>16, <1>17

\* No request of the queue is proposed twice or stays behind in it.
LEMMA ProposeSplits ==
  ASSUME NEW ch \in Chains, NEW reqs \in Seq(RequestRecords),
         NEW next, next = Propose(ch, reqs),
         \A k, l \in 1..Len(reqs) : reqs[k] = reqs[l] => k = l
  PROVE  LET t == ch.digest_parent
             d == next.digest_parent
             rest == Drained(reqs)
         IN  /\ Len(d) = Len(t) + 1 /\ Len(t) \in Nat
             /\ \A h \in 1..Len(t) : d[h] = t[h]
             /\ Items(d[Len(d)]) \subseteq Items(reqs)
             /\ Items(rest) \subseteq Items(reqs)
             /\ Items(rest) \cap Items(d[Len(d)]) = {}
             /\ \A k, l \in 1..Len(rest) : rest[k] = rest[l] => k = l
             /\ \A k, l \in 1..Len(d[Len(d)]) :
                   d[Len(d)][k] = d[Len(d)][l] => k = l
<1>1. PICK q : q = Len(reqs) OBVIOUS
<1>2. PICK n : n = BatchLen(reqs) OBVIOUS
<1>3. q \in Nat BY <1>1, LenProperties
<1>4. n \in Nat /\ n <= q
  BY <1>1, <1>2, <1>3, MaxBatchAssumption DEF BatchLen
<1>5. PICK b : b = SubSeq(reqs, 1, n) OBVIOUS
<1>6. /\ b \in Seq(RequestRecords) /\ Len(b) = n
      /\ \A i \in 1..n : b[i] = reqs[i]
  BY <1>1, <1>4, <1>5, SubSeqOfSeq
<1>7. b \in Batches
  BY <1>1, <1>2, <1>3, <1>4, <1>6, MaxBatchAssumption DEF Batches, BatchLen
<1>8. PICK rest : rest = Drained(reqs) OBVIOUS
<1>9. /\ Len(rest) = q - n
      /\ \A i \in 1..q - n : rest[i] = reqs[n + i]
  <2>1. PICK l : l = n + 1 OBVIOUS
  <2>2. l \in Nat \ {0} /\ rest = SubSeq(reqs, l, q)
    BY <1>1, <1>2, <1>4, <1>8, <2>1 DEF Drained
  <2>3. /\ Len(rest) = IF l <= q THEN q - l + 1 ELSE 0
        /\ \A i \in 1..q - l + 1 : rest[i] = reqs[l + i - 1]
    BY <1>1, <1>3, <2>2, SubSeqOfSeq
  <2>4. QED BY <1>3, <1>4, <2>1, <2>3
<1>10. PICK t : t = ch.digest_parent OBVIOUS
<1>11. PICK d : d = next.digest_parent OBVIOUS
<1>12. d = Append(t, b) /\ t \in Digests
  BY <1>2, <1>5, <1>10, <1>11 DEF Propose, Chains
<1>13. /\ Len(d) = Len(t) + 1 /\ Len(t) \in Nat
       /\ \A h \in 1..Len(t) : d[h] = t[h]
       /\ d[Len(d)] = b
  BY <1>7, <1>12, AppendProperties, LenProperties DEF Digests
<1>14. Items(b) = {reqs[i] : i \in 1..n} BY <1>6 DEF Items
<1>15. Items(rest) = {reqs[n + i] : i \in 1..q - n} BY <1>9 DEF Items
<1>16. Items(reqs) = {reqs[i] : i \in 1..q} BY <1>1 DEF Items
<1>17. \A i \in 1..n : i \in 1..q BY <1>3, <1>4
<1>18. \A i \in 1..q - n : n + i \in 1..q /\ n + i \notin 1..n BY <1>3, <1>4
<1>19. Items(b) \subseteq Items(reqs) BY <1>14, <1>16, <1>17
<1>20. Items(rest) \subseteq Items(reqs) BY <1>15, <1>16, <1>18
<1>21. Items(rest) \cap Items(b) = {}
  <2>1. SUFFICES ASSUME NEW i \in 1..q - n, NEW j \in 1..n,
                        reqs[n + i] = reqs[j]
                 PROVE  FALSE
    BY <1>14, <1>15
  <2>2. n + i = j BY <1>1, <1>17, <1>18, <2>1
  <2>3. QED BY <1>18, <2>2
<1>22. \A k, l \in 1..Len(rest) : rest[k] = rest[l] => k = l
  <2>1. SUFFICES ASSUME NEW k \in 1..q - n, NEW l \in 1..q - n,
                        reqs[n + k] = reqs[n + l]
                 PROVE  k = l
    BY <1>9
  <2>2. n + k = n + l BY <1>1, <1>18, <2>1
  <2>3. QED BY <1>4, <2>2
<1>23. \A k, l \in 1..Len(b) : b[k] = b[l] => k = l BY <1>1, <1>6, <1>17
<1>24. QED
  BY <1>8, <1>10, <1>11, <1>13, <1>19, <1>20, <1>21, <1>22, <1>23

\* What is in a queue to which a request is appended.
LEMMA ItemsOfAppend ==
  ASSUME NEW S, NEW s \in Seq(S), NEW e \in S
  PROVE  /\ Items(Append(s, e)) = Items(s) \cup {e}
         /\ Items(s) \subseteq S
         /\ e \notin Items(s) /\ (\A k, l \in 1..Len(s) : s[k] = s[l] => k = l)
            => \A k, l \in 1..Len(Append(s, e)) :
                  Append(s, e)[k] = Append(s, e)[l] => k = l
<1>1. PICK n : n = Len(s) OBVIOUS
<1>2. PICK t : t = Append(s, e) OBVIOUS
<1>3. /\ n \in Nat /\ Len(t) = n + 1
      /\ \A k \in 1..n : t[k] = s[k]
      /\ t[n + 1] = e
  BY <1>1, <1>2, AppendProperties, LenProperties
<1>4. \A k \in 1..n + 1 : k \in 1..n \/ k = n + 1 BY <1>3
<1>5. n + 1 \in 1..n + 1 /\ \A k \in 1..n : k \in 1..n + 1 BY <1>3
<1>6. Items(t) = {t[k] : k \in 1..n + 1} /\ Items(s) = {s[k] : k \in 1..n}
  BY <1>1, <1>3 DEF Items
<1>7. Items(t) = Items(s) \cup {e} BY <1>3, <1>4, <1>5, <1>6
<1>8. Items(s) \subseteq S BY <1>1, <1>6, ElementOfSeq
<1>9. ASSUME e \notin Items(s), \A k, l \in 1..n : s[k] = s[l] => k = l,
             NEW k \in 1..n + 1, NEW l \in 1..n + 1, t[k] = t[l]
      PROVE  k = l
  <2>1. CASE k \in 1..n /\ l \in 1..n BY <1>3, <1>9, <2>1
  <2>2. CASE k \in 1..n /\ l = n + 1 BY <1>3, <1>6, <1>9, <2>2
  <2>3. CASE k = n + 1 /\ l \in 1..n BY <1>3, <1>6, <1>9, <2>3
  <2>4. QED BY <1>4, <2>1, <2>2, <2>3
<1>10. QED BY <1>1, <1>2, <1>3, <1>7, <1>8, <1>9
-----------------------------------------------------------------------------
(* The requests                                                            *)

\* q was invoked, when nums are the numbers of the clients' last invocations.
Used(q, nums) == q.num <= nums[q.client]

\* q is in a block of the chain t.
InBlock(q, t) == \E h \in 1..Len(t) : q \in Items(t[h])

\* Every request in the chain t was invoked and is there once.
Listed(t, nums) ==
    \A h, k \in 1..Len(t) : \A i \in 1..Len(t[h]), j \in 1..Len(t[k]) :
        /\ Used(t[h][i], nums)
        /\ t[h][i] = t[k][j] => h = k /\ i = j

\* A request is at one place: among the messages in sent, in the queue, or in
\* one block of the chain t.
OnePlace(sent, queue, t, nums) ==
    /\ \A m \in sent : m.kind = "Request" =>
          LET q == Request(m.client, m.num) IN
          Used(q, nums) /\ q \notin Items(queue) /\ ~InBlock(q, t)
    /\ \A q \in Items(queue) : Used(q, nums) /\ ~InBlock(q, t)
    /\ \A k, l \in 1..Len(queue) : queue[k] = queue[l] => k = l
    /\ Listed(t, nums)

\* Fewer requests in flight are still placed.
LEMMA PlacedKept ==
  ASSUME NEW sent, NEW queue, NEW t, NEW nums, OnePlace(sent, queue, t, nums),
         NEW new, \A m \in new : m.kind = "Request" => m \in sent
  PROVE  OnePlace(new, queue, t, nums)
BY DEF OnePlace

\* So it is while no request is sent.
LEMMA PlacedQuiet ==
  ASSUME NEW p, NEW queue, NEW t, NEW nums,
         OnePlace(InFlightTo(net, p), queue, t, nums),
         NEW out, net' \subseteq net \cup out,
         \A x \in out : x.to = p => x.msg.kind /= "Request"
  PROVE  OnePlace(InFlightTo(net', p), queue, t, nums)
<1>1. PICK sent : sent = InFlightTo(net, p) OBVIOUS
<1>2. PICK new : new = InFlightTo(net', p) OBVIOUS
<1>3. \A m \in new : m.kind = "Request" => m \in sent
  BY <1>1, <1>2 DEF InFlightTo
<1>4. OnePlace(new, queue, t, nums) BY <1>1, <1>3, PlacedKept
<1>5. QED BY <1>2, <1>4

\* The requests that are placed somewhere.
LEMMA PlacedType ==
  ASSUME NEW queue \in Seq(RequestRecords), NEW t \in Digests
  PROVE  /\ \A q \in Items(queue) : q \in RequestRecords
         /\ \A h \in 1..Len(t) : \A q \in Items(t[h]) : q \in RequestRecords
         /\ \A h \in 1..Len(t) : \A i \in 1..Len(t[h]) : t[h][i] \in RequestRecords
<1>1. \A s \in Seq(RequestRecords) : \A i \in 1..Len(s) : s[i] \in RequestRecords
  BY ElementOfSeq
<1>2. \A h \in 1..Len(t) : t[h] \in Seq(RequestRecords)
  BY ElementOfSeq DEF Digests, Batches
<1>3. QED BY <1>1, <1>2 DEF Items

\* invoke sends a request that is nowhere yet.
LEMMA PlacedInvoke ==
  ASSUME NEW sent, NEW queue \in Seq(RequestRecords), NEW t \in Digests,
         NEW nums \in [Clients -> Nat], OnePlace(sent, queue, t, nums),
         \A m \in sent : m.kind = "Request" => m \in RequestMsgs,
         NEW c \in Clients, NEW n, n = nums[c] + 1,
         NEW new, \A m \in new :
                     m.kind = "Request" => m \in sent \/ m = RequestMsg(c, n)
  PROVE  OnePlace(new, queue, t, [nums EXCEPT ![c] = n])
<1>1. PICK more : more = [nums EXCEPT ![c] = n] OBVIOUS
<1>2. ASSUME NEW q \in RequestRecords, Used(q, nums) PROVE Used(q, more)
  <2>1. q.client \in Clients /\ q.num \in Nat BY DEF RequestRecords
  <2>2. nums[q.client] \in Nat /\ more[q.client] \in Nat
        /\ nums[q.client] <= more[q.client]
    BY <1>1, <2>1
  <2>3. QED BY <1>2, <2>1, <2>2 DEF Used
<1>3. PICK q : q = Request(c, n) OBVIOUS
<1>4. Used(q, more) /\ ~Used(q, nums)
  <2>1. q.client = c /\ q.num = n BY <1>3 DEF Request
  <2>2. more[c] = n /\ n <= n /\ ~(n <= nums[c]) BY <1>1
  <2>3. QED BY <2>1, <2>2 DEF Used
<1>5. q \notin Items(queue) BY <1>4 DEF OnePlace
<1>6. ~InBlock(q, t)
  <2>1. SUFFICES ASSUME NEW h \in 1..Len(t), NEW i \in 1..Len(t[h]), q = t[h][i]
                 PROVE  FALSE
    BY DEF InBlock, Items
  <2>2. Used(q, nums) BY <2>1 DEF OnePlace, Listed
  <2>3. QED BY <1>4, <2>2
<1>7. ASSUME NEW m \in new, m.kind = "Request"
      PROVE  LET p == Request(m.client, m.num) IN
             Used(p, more) /\ p \notin Items(queue) /\ ~InBlock(p, t)
  <2>1. CASE m \in sent
    <3>1. PICK p : p = Request(m.client, m.num) OBVIOUS
    <3>2. p \in RequestRecords
      BY <1>7, <2>1, <3>1 DEF RequestMsgs, RequestRecords, Request
    <3>3. Used(p, nums) /\ p \notin Items(queue) /\ ~InBlock(p, t)
      BY <1>7, <2>1, <3>1 DEF OnePlace
    <3>4. QED BY <1>2, <3>1, <3>2, <3>3
  <2>2. CASE m = RequestMsg(c, n)
    <3>1. Request(m.client, m.num) = q BY <1>3, <2>2 DEF RequestMsg, Request
    <3>2. QED BY <1>4, <1>5, <1>6, <3>1
  <2>3. QED BY <1>7, <2>1, <2>2
<1>8. \A p \in Items(queue) : Used(p, more) /\ ~InBlock(p, t)
  BY <1>2, PlacedType DEF OnePlace
<1>9. Listed(t, more)
  <2>1. \A h \in 1..Len(t) : \A i \in 1..Len(t[h]) : Used(t[h][i], more)
    BY <1>2, PlacedType DEF OnePlace, Listed
  <2>2. QED BY <2>1 DEF OnePlace, Listed
<1>10. OnePlace(new, queue, t, more) BY <1>7, <1>8, <1>9 DEF OnePlace
<1>11. QED BY <1>1, <1>10

\* A request that is received once waits once.
LEMMA PlacedReceive ==
  ASSUME NEW sent, NEW queue \in Seq(RequestRecords), NEW t \in Digests,
         NEW nums, OnePlace(sent, queue, t, nums),
         \A x \in sent : x.kind = "Request" => x \in RequestMsgs,
         NEW m \in sent, m.kind = "Request",
         NEW new, \A x \in new : x.kind = "Request" => x \in sent \ {m}
  PROVE  /\ Request(m.client, m.num) \in RequestRecords
         /\ OnePlace(new, Append(queue, Request(m.client, m.num)), t, nums)
<1>1. PICK q : q = Request(m.client, m.num) OBVIOUS
<1>2. PICK more : more = Append(queue, q) OBVIOUS
<1>3. m \in RequestMsgs /\ q \in RequestRecords
  BY <1>1 DEF RequestMsgs, RequestRecords, Request
<1>4. Used(q, nums) /\ q \notin Items(queue) /\ ~InBlock(q, t)
  BY <1>1 DEF OnePlace
<1>5. /\ Items(more) = Items(queue) \cup {q}
      /\ \A k, l \in 1..Len(more) : more[k] = more[l] => k = l
  BY <1>2, <1>3, <1>4, ItemsOfAppend DEF OnePlace
<1>6. ASSUME NEW x \in new, x.kind = "Request"
      PROVE  LET p == Request(x.client, x.num) IN
             Used(p, nums) /\ p \notin Items(more) /\ ~InBlock(p, t)
  <2>1. PICK p : p = Request(x.client, x.num) OBVIOUS
  <2>2. x \in sent /\ x /= m /\ x \in RequestMsgs BY <1>6
  <2>3. p /= q BY <1>1, <1>3, <2>1, <2>2 DEF RequestMsgs, Request
  <2>4. Used(p, nums) /\ p \notin Items(queue) /\ ~InBlock(p, t)
    BY <1>6, <2>1, <2>2 DEF OnePlace
  <2>5. QED BY <1>5, <2>1, <2>3, <2>4
<1>7. \A p \in Items(more) : Used(p, nums) /\ ~InBlock(p, t)
  BY <1>4, <1>5 DEF OnePlace
<1>8. OnePlace(new, more, t, nums) BY <1>5, <1>6, <1>7 DEF OnePlace
<1>9. QED BY <1>1, <1>2, <1>3, <1>8

\* A proposal moves the requests of its block from the queue to the chain.
LEMMA PlacedPropose ==
  ASSUME NEW sent, NEW queue \in Seq(RequestRecords),
         NEW ch \in Chains, NEW next, next = Propose(ch, queue), NEW nums,
         OnePlace(sent, queue, ch.digest_parent, nums)
  PROVE  OnePlace(sent, Drained(queue), next.digest_parent, nums)
<1>1. PICK t : t = ch.digest_parent OBVIOUS
<1>2. PICK d : d = next.digest_parent OBVIOUS
<1>3. PICK rest : rest = Drained(queue) OBVIOUS
<1>4. PICK n : n = Len(t) OBVIOUS
<1>5. /\ \A k, l \in 1..Len(queue) : queue[k] = queue[l] => k = l
      /\ \A p \in Items(queue) : Used(p, nums) /\ ~InBlock(p, t)
      /\ Listed(t, nums)
  BY <1>1 DEF OnePlace
<1>6. /\ Len(d) = n + 1 /\ n \in Nat
      /\ \A h \in 1..n : d[h] = t[h]
      /\ Items(d[Len(d)]) \subseteq Items(queue)
      /\ Items(rest) \subseteq Items(queue)
      /\ Items(rest) \cap Items(d[Len(d)]) = {}
      /\ \A k, l \in 1..Len(rest) : rest[k] = rest[l] => k = l
      /\ \A k, l \in 1..Len(d[Len(d)]) : d[Len(d)][k] = d[Len(d)][l] => k = l
  BY <1>1, <1>2, <1>3, <1>4, <1>5, ProposeSplits
<1>7. PICK b : b = d[n + 1] OBVIOUS
<1>8. /\ Items(b) \subseteq Items(queue)
      /\ Items(rest) \cap Items(b) = {}
      /\ \A k, l \in 1..Len(b) : b[k] = b[l] => k = l
  BY <1>6, <1>7
<1>9. \A h \in 1..Len(d) :
         (h \in 1..n /\ d[h] = t[h]) \/ (h = n + 1 /\ d[h] = b)
  BY <1>6, <1>7
<1>10. \A p : InBlock(p, d) => InBlock(p, t) \/ p \in Items(b)
  BY <1>4, <1>9 DEF InBlock
<1>11. ASSUME NEW m \in sent, m.kind = "Request"
       PROVE  LET p == Request(m.client, m.num) IN
              Used(p, nums) /\ p \notin Items(rest) /\ ~InBlock(p, d)
  <2>1. PICK p : p = Request(m.client, m.num) OBVIOUS
  <2>2. Used(p, nums) /\ p \notin Items(queue) /\ ~InBlock(p, t)
    BY <1>1, <1>11, <2>1 DEF OnePlace
  <2>3. QED BY <1>6, <1>8, <1>10, <2>1, <2>2
<1>12. \A p \in Items(rest) : Used(p, nums) /\ ~InBlock(p, d)
  BY <1>5, <1>6, <1>8, <1>10
<1>13. ASSUME NEW h \in 1..Len(d), NEW k \in 1..Len(d),
              NEW i \in 1..Len(d[h]), NEW j \in 1..Len(d[k])
       PROVE  /\ Used(d[h][i], nums)
              /\ d[h][i] = d[k][j] => h = k /\ i = j
  <2>1. \A l \in 1..Len(b) : b[l] \in Items(b) BY DEF Items
  <2>2. \A l \in 1..n : \A e \in 1..Len(t[l]) : InBlock(t[l][e], t)
    BY <1>4 DEF InBlock, Items
  <2>3. CASE h \in 1..n /\ k \in 1..n
    BY <1>4, <1>5, <1>9, <2>3, <1>6 DEF Listed
  <2>4. CASE h = n + 1 /\ k = n + 1
    <3>1. d[h] = b /\ d[k] = b BY <1>7, <2>4
    <3>2. i \in 1..Len(b) /\ j \in 1..Len(b) BY <3>1
    <3>3. Used(b[i], nums) BY <1>5, <1>8, <2>1, <3>2
    <3>4. QED BY <1>8, <2>4, <3>1, <3>2, <3>3
  <2>5. CASE h \in 1..n /\ k = n + 1
    <3>1. d[h] = t[h] /\ d[k] = b BY <1>6, <1>7, <2>5
    <3>2. InBlock(d[h][i], t) BY <2>2, <2>5, <3>1
    <3>3. ~InBlock(d[k][j], t) BY <1>5, <1>8, <2>1, <3>1
    <3>4. Used(d[h][i], nums) BY <1>4, <1>5, <2>5, <3>1 DEF Listed
    <3>5. QED BY <3>2, <3>3, <3>4
  <2>6. CASE h = n + 1 /\ k \in 1..n
    <3>1. d[h] = b /\ d[k] = t[k] BY <1>6, <1>7, <2>6
    <3>2. InBlock(d[k][j], t) BY <2>2, <2>6, <3>1
    <3>3. ~InBlock(d[h][i], t) /\ Used(d[h][i], nums) BY <1>5, <1>8, <2>1, <3>1
    <3>4. QED BY <3>2, <3>3
  <2>7. QED BY <1>9, <2>3, <2>4, <2>5, <2>6
<1>14. Listed(d, nums) BY <1>13 DEF Listed
<1>15. QED BY <1>2, <1>3, <1>6, <1>11, <1>12, <1>14 DEF OnePlace
-----------------------------------------------------------------------------
\* A client's step keeps the types of its state and of the network.
LEMMA ClientInvokeType ==
  ASSUME NEW M, NEW O, NetTypeOK(M, O), ClientTypeOK, NEW c \in Clients,
         NEW to \in SUBSET Replicas, RequestMsgs \subseteq M, ClientInvoke(c, to)
  PROVE  NetTypeOK(M, O)' /\ ClientTypeOK'
<1>1. request_num[c] + 1 \in 1..MaxRequestNum
  BY MaxRequestAssumption DEF ClientTypeOK, ClientInvoke
<1>2. RequestMsg(c, request_num[c] + 1) \in M
  BY <1>1 DEF RequestMsg, RequestMsgs
<1>3. SendTo(to, RequestMsg(c, request_num[c] + 1)) \subseteq Datagrams(M)
  BY <1>2 DEF SendTo, Datagram, Datagrams
<1>4. /\ net' = net \cup SendTo(to, RequestMsg(c, request_num[c] + 1))
      /\ loopback' = loopback /\ dup' = dup
  BY DEF ClientInvoke, ClientSends
<1>5. NetTypeOK(M, O)' BY <1>3, <1>4 DEF NetTypeOK, Datagrams
<1>6. /\ request_num' \in [Clients -> 0..MaxRequestNum]
      /\ invoke' \in [Clients -> BOOLEAN]
      /\ replies' \in [Clients -> SUBSET ReplyMsgs]
      /\ results' = results
  BY <1>1, MaxRequestAssumption DEF ClientInvoke, ClientTypeOK
<1>7. QED BY <1>5, <1>6 DEF ClientTypeOK

\* Client::handle keeps the types of the client's state and of the network.
LEMMA ClientHandleType ==
  ASSUME NEW M, NEW O, NetTypeOK(M, O), ClientTypeOK, NEW c \in Clients,
         NEW m, ClientHandle(c, m)
  PROVE  NetTypeOK(M, O)' /\ ClientTypeOK'
<1>1. Datagram(c, m) \in net /\ Flight(Datagram(c, m), {})
      /\ loopback' = loopback
  BY DEF ClientHandle, ClientReceives
<1>2. NetTypeOK(M, O)'
  <2>1. net' \subseteq Datagrams(M) /\ dup' \in 0..MaxDup
    BY <1>1, NetTypeDef, MaxDupAssumption DEF Flight
  <2>2. QED BY <1>1, <2>1 DEF NetTypeOK, Datagrams
<1>3. m \in ReplyMsgs
  BY <1>1, ClientsAssumption, LiveAssumption
  DEF NetTypeOK, Datagram
<1>4. m.result \in ReplicaResults BY <1>3 DEF ReplyMsgs
<1>5. Inserted(c, m) \in SUBSET ReplyMsgs
  BY <1>3 DEF Inserted, ClientTypeOK
<1>6. CASE Consume(c, m)
  <2>1. Append(results[c], m.result) \in Seq(ReplicaResults)
    BY <1>4, AppendProperties DEF ClientTypeOK
  <2>2. QED BY <1>2, <1>6, <2>1 DEF Consume, ClientTypeOK
<1>7. CASE Collect(c, m)
  BY <1>2, <1>5, <1>7 DEF Collect, ClientTypeOK
<1>8. CASE UNCHANGED clientVars
  BY <1>2, <1>8 DEF clientVars, ClientTypeOK
<1>9. QED BY <1>6, <1>7, <1>8 DEF ClientHandle
-----------------------------------------------------------------------------
\* One replica's chain and application, when every block is on the chain t.
OnOneChain(ch, log, t) ==
    /\ IsAncestor(ch.digest_execute, t)
    /\ log = ch.digest_execute
    /\ \A e \in ch.pending : Len(e) > 0 /\ IsAncestor(e, t)

\* And what waits is above what is executed, as long as no block is committed
\* twice.
InOrder(ch, log, t) ==
    /\ OnOneChain(ch, log, t)
    /\ \A e \in ch.pending : Len(Parent(e)) > Len(ch.digest_execute)

\* A block on the chain that is neither executed nor waiting is above what is
\* executed, and conflicts with no block that waits.
LEMMA FreshBlock ==
  ASSUME NEW t \in Digests, NEW ch \in Chains, NEW d \in Digests,
         Len(d) > 0, IsAncestor(d, t), InOrder(ch, ch.digest_execute, t),
         ~IsAncestor(d, ch.digest_execute), d \notin ch.pending
  PROVE  /\ Len(d) > Len(ch.digest_execute)
         /\ ~Extends(ch, d) => Len(Parent(d)) > Len(ch.digest_execute)
         /\ ~Conflicts(ch, d)
<1> DEFINE x == ch.digest_execute
<1>1. x \in Digests /\ ch.pending \subseteq Digests BY DEF Chains
<1>2. Len(x) \in Nat /\ Len(d) \in Nat BY <1>1, LenProperties DEF Digests
<1>3. IsAncestor(x, t) BY DEF InOrder, OnOneChain
<1>4. Len(d) > Len(x)
  <2>1. SUFFICES ASSUME Len(d) <= Len(x) PROVE FALSE BY <1>2
  <2>2. QED BY <2>1, <1>1, <1>3, AncestorsOfOne DEF Digests
<1>5. /\ Parent(d) \in Digests /\ Len(Parent(d)) = Len(d) - 1
      /\ IsAncestor(Parent(d), d)
  BY ParentProperties DEF Digests
<1>6. IsAncestor(Parent(d), t) BY <1>5, AncestorTransitive DEF Digests
<1>7. ASSUME ~Extends(ch, d) PROVE Len(Parent(d)) > Len(x)
  <2>1. SUFFICES ASSUME Len(Parent(d)) = Len(x) PROVE FALSE
    <3> DEFINE p == Len(Parent(d))
               n == Len(x)
               h == Len(d)
    <3>1. p = h - 1 /\ h > n /\ h \in Nat /\ n \in Nat
      BY <1>2, <1>4, <1>5
    <3> HIDE DEF p, n, h
    <3>2. p > n \/ p = n BY <3>1
    <3>3. QED BY <3>2 DEF p, n
  <2>10. Len(Parent(d)) <= Len(x) BY <2>1, <1>2
  <2>2. IsAncestor(Parent(d), x)
    BY <2>10, <1>1, <1>2, <1>3, <1>5, <1>6, AncestorsOfOne DEF Digests
  <2>3. Parent(d) = x
    BY <2>1, <2>2, <1>1, <1>5, AncestorAntisymmetric DEF Digests
  <2>4. QED BY <2>3, <1>7 DEF Extends
<1>8. ~Conflicts(ch, d)
  <2>1. SUFFICES ASSUME NEW e \in ch.pending, Parent(e) = Parent(d)
                 PROVE  FALSE
    BY DEF Conflicts
  <2>2. e \in Digests /\ Len(e) > 0 /\ IsAncestor(e, t)
    BY <1>1 DEF InOrder, OnOneChain
  <2>3. Len(e) \in Nat /\ Len(Parent(e)) = Len(e) - 1
    BY <2>2, ParentProperties, LenProperties DEF Digests
  <2>4. Len(e) = Len(d)
    <3> DEFINE p == Len(Parent(d))
    <3>1. p = Len(e) - 1 /\ p = Len(d) - 1 BY <2>1, <2>3, <1>5
    <3> HIDE DEF p
    <3>2. QED BY <3>1, <2>3, <1>2
  <2>5. IsAncestor(e, d) BY <2>2, <2>4, <1>2, AncestorsOfOne DEF Digests
  <2>6. e = d BY <2>2, <2>4, <2>5, AncestorAntisymmetric DEF Digests
  <2>7. QED BY <2>6
<1>9. QED BY <1>4, <1>7, <1>8

\* What do_execute applies brings the application to the chain committed.
LEMMA AppliedProperties ==
  ASSUME NEW t \in Digests, ExecutionTypeOK, NEW r \in Live, NEW d \in Digests,
         Len(d) > 0, IsAncestor(d, t), OnOneChain(chain[r], app[r], t)
  PROVE  /\ Applied(r, d) \in Digests
         /\ Extends(chain[r], d) =>
               /\ LastExecuted(chain[r], d) \in Digests
               /\ app[r] \o Applied(r, d) = LastExecuted(chain[r], d)
         /\ ~Extends(chain[r], d) => app[r] \o Applied(r, d) = app[r]
<1> DEFINE last == LastExecuted(chain[r], d)
<1>1. /\ chain[r] \in Chains /\ app[r] \in Digests
      /\ app[r] = chain[r].digest_execute
      /\ \A e \in chain[r].pending : Len(e) > 0 /\ IsAncestor(e, t)
  BY LiveAssumption DEF ExecutionTypeOK, OnOneChain
<1>2. chain[r].pending \subseteq Digests BY <1>1 DEF Chains
<1>3. last \in Digests /\ IsAncestor(d, last)
  BY <1>1, <1>2, LastExecutedProperties DEF Digests
<1>4. CASE Extends(chain[r], d)
  <2>1. Parent(d) = app[r] BY <1>1, <1>4 DEF Extends
  <2>2. Applied(r, d) = SubSeq(last, Len(d), Len(last))
    BY <1>4 DEF Applied
  <2> HIDE DEF last
  <2>3. /\ SubSeq(last, Len(d), Len(last)) \in Digests
        /\ Parent(d) \o SubSeq(last, Len(d), Len(last)) = last
    BY <1>3, ParentThenRest DEF Digests
  <2>4. QED BY <1>3, <1>4, <2>1, <2>2, <2>3 DEF last
<1>5. CASE ~Extends(chain[r], d)
  <2>1. Applied(r, d) = <<>> BY <1>5 DEF Applied
  <2>2. <<>> \in Digests BY EmptySeq DEF Digests
  <2>3. app[r] \o <<>> = app[r] BY <1>1, ConcatEmptySeq DEF Digests
  <2>4. QED BY <1>5, <2>1, <2>2, <2>3
<1>6. QED BY <1>4, <1>5

\* do_execute of any block of the chain: types, that the application only grows
\* along that chain, and which blocks wait or are executed afterwards.
LEMMA DoExecuteAny ==
  ASSUME NEW t \in Digests, ExecutionTypeOK, NEW r \in Live, NEW d \in Digests,
         NEW held,
         Len(d) > 0, IsAncestor(d, t), OnOneChain(chain[r], app[r], t),
         DoExecute(r, d, held)
  PROVE  /\ ExecutionTypeOK'
         /\ OnOneChain(chain'[r], app'[r], t)
         /\ chain'[r].digest_parent = chain[r].digest_parent
         /\ \A s \in Replicas : s /= r => /\ chain'[s] = chain[s]
                                          /\ app'[s] = app[s]
                                          /\ panicked'[s] = panicked[s]
         /\ panicked'[r] = Panic(r, d, held)
         /\ chain'[r].pending \subseteq chain[r].pending \cup {d}
         /\ IsAncestor(app[r], app'[r])
         /\ \A k \in 1..Len(app'[r]) :
               \/ k <= Len(app[r]) /\ SubSeq(app'[r], 1, k) = SubSeq(app[r], 1, k)
               \/ SubSeq(app'[r], 1, k) \in chain[r].pending \cup {d}
<1> DEFINE last == LastExecuted(chain[r], d)
           new  == Committed(chain[r], d)
<1>1. /\ r \in Replicas /\ chain[r] \in Chains /\ app[r] \in Digests
      /\ app[r] = chain[r].digest_execute
      /\ IsAncestor(chain[r].digest_execute, t)
      /\ \A e \in chain[r].pending : Len(e) > 0 /\ IsAncestor(e, t)
  BY LiveAssumption DEF ExecutionTypeOK, OnOneChain
<1>2. chain[r].pending \subseteq Digests BY <1>1 DEF Chains
<1>3. Panic(r, d, held) \in {"no", "index", "conflict"} BY DEF Panic
<1>4. IsAncestor(app[r], app[r]) BY <1>1, AncestorReflexive DEF Digests
<1>5. /\ panicked' = [panicked EXCEPT ![r] = Panic(r, d, held)]
      /\ panicked' \in [Replicas -> {"no", "index", "conflict"}]
      /\ panicked'[r] = Panic(r, d, held)
      /\ \A s \in Replicas : s /= r => panicked'[s] = panicked[s]
  BY <1>1, <1>3 DEF DoExecute, ExecutionTypeOK
<1>6. Len(app[r]) \in Nat /\ Len(d) \in Nat
  BY <1>1, LenProperties DEF Digests
<1>7. CASE Panic(r, d, held) /= "no"
  <2>1. chain' = chain /\ app' = app BY <1>7 DEF DoExecute
  <2>2. \A k \in 1..Len(app'[r]) : k <= Len(app[r]) BY <2>1, <1>6
  <2>3. QED BY <2>1, <2>2, <1>4, <1>5 DEF ExecutionTypeOK
<1>8. CASE Panic(r, d, held) = "no"
  <2>1. /\ chain' = [chain EXCEPT ![r] = new]
        /\ app' = [app EXCEPT ![r] = @ \o Applied(r, d)]
    BY <1>8 DEF DoExecute
  <2>2. /\ chain'[r] = new /\ app'[r] = app[r] \o Applied(r, d)
        /\ \A s \in Replicas : s /= r => chain'[s] = chain[s] /\ app'[s] = app[s]
    BY <2>1, <1>1 DEF ExecutionTypeOK
  <2>3. SUFFICES /\ new \in Chains
                 /\ app[r] \o Applied(r, d) \in Digests
                 /\ OnOneChain(new, app[r] \o Applied(r, d), t)
                 /\ IsAncestor(app[r], app[r] \o Applied(r, d))
                 /\ new.digest_parent = chain[r].digest_parent
                 /\ new.pending \subseteq chain[r].pending \cup {d}
                 /\ \A k \in 1..Len(app[r] \o Applied(r, d)) :
                       \/ /\ k <= Len(app[r])
                          /\ SubSeq(app[r] \o Applied(r, d), 1, k)
                               = SubSeq(app[r], 1, k)
                       \/ SubSeq(app[r] \o Applied(r, d), 1, k)
                             \in chain[r].pending \cup {d}
    <3> HIDE DEF new
    <3>1. chain' \in [Replicas -> Chains] BY <2>1, <2>3, <1>1 DEF ExecutionTypeOK
    <3>2. app' \in [Replicas -> Digests] BY <2>1, <2>3, <1>1 DEF ExecutionTypeOK
    <3>3. ExecutionTypeOK' BY <3>1, <3>2, <1>5 DEF ExecutionTypeOK
    <3>4. QED BY <2>2, <2>3, <3>3, <1>5
  <2>4. CASE Extends(chain[r], d)
    <3>1. app[r] \o Applied(r, d) = last /\ last \in Digests
      BY <2>4, AppliedProperties
    <3>2. /\ new.digest_parent = chain[r].digest_parent
          /\ new.digest_execute = last
          /\ new.pending \subseteq chain[r].pending
      BY <1>1, <2>4, CommittedTakes DEF Digests, Chains
    <3>3. /\ IsAncestor(d, last) /\ IsAncestor(last, t)
          /\ \A k \in Len(d) + 1 .. Len(last) :
                SubSeq(last, 1, k) \in chain[r].pending
      BY <1>1, <1>2, LastExecutedProperties DEF Digests
    <3>4. new \in Chains
      <4>1. new = [digest_parent |-> new.digest_parent,
                   digest_execute |-> new.digest_execute,
                   pending |-> new.pending]
        BY <1>1, <2>4 DEF Committed, Chains
      <4> HIDE DEF new
      <4>2. QED BY <4>1, <3>1, <3>2, <1>1, <1>2 DEF Chains
    <3>5. OnOneChain(new, last, t)
      <4> HIDE DEF new, last
      <4>1. QED BY <3>2, <3>3, <1>1 DEF OnOneChain
    <3>8. IsAncestor(app[r], last)
      <4> HIDE DEF last
      <4>1. Parent(d) = app[r] BY <1>1, <2>4 DEF Extends
      <4>2. IsAncestor(app[r], d) BY <4>1, ParentProperties DEF Digests
      <4>3. QED BY <4>2, <3>1, <3>3, <1>1, AncestorTransitive DEF Digests
    <3>6. ASSUME NEW k \in 1..Len(last)
          PROVE  \/ /\ k <= Len(app[r])
                    /\ SubSeq(last, 1, k) = SubSeq(app[r], 1, k)
                 \/ SubSeq(last, 1, k) \in chain[r].pending \cup {d}
      <4> HIDE DEF last
      <4>1. Len(last) \in Nat /\ Len(d) <= Len(last) /\ d = SubSeq(last, 1, Len(d))
        BY <3>1, <3>3, LenProperties DEF Digests, IsAncestor
      <4>2. CASE k < Len(d)
        <5>1. Parent(d) = app[r] /\ Len(Parent(d)) = Len(d) - 1
          BY <1>1, <2>4, ParentProperties DEF Extends, Digests
        <5>4. Len(app[r]) = Len(d) - 1 BY <5>1
        <5>5. k <= Len(app[r]) /\ Len(app[r]) <= Len(last)
          <6> DEFINE p == Len(app[r])
                     h == Len(d)
                     n == Len(last)
          <6>1. p = h - 1 BY <5>4
          <6>a. h \in Nat /\ n \in Nat /\ h <= n BY <4>1, <1>6
          <6>b. k \in Nat BY <4>1
          <6>c. k < h BY <4>2
          <6> HIDE DEF p, h, n
          <6>2. k <= p /\ p <= n BY <6>1, <6>a, <6>b, <6>c
          <6>3. QED BY <6>2 DEF p, n
        <5>6. app[r] = SubSeq(last, 1, Len(app[r])) BY <3>8 DEF IsAncestor
        <5>7. SubSeq(SubSeq(last, 1, Len(app[r])), 1, k) = SubSeq(last, 1, k)
          BY <5>5, <4>1, <1>6
        <5>8. QED BY <5>5, <5>6, <5>7
      <4>3. CASE k = Len(d) BY <4>1, <4>3
      <4>4. CASE k > Len(d)
        <5>1. k \in Len(d) + 1 .. Len(last) BY <4>1, <4>4, <1>6
        <5>2. QED BY <5>1, <3>3
      <4>5. QED BY <4>2, <4>3, <4>4, <1>6
    <3>7. QED
      <4> HIDE DEF new, last
      <4>1. QED BY <3>1, <3>2, <3>4, <3>5, <3>6, <3>8
  <2>5. CASE ~Extends(chain[r], d)
    <3>1. app[r] \o Applied(r, d) = app[r] BY <2>5, AppliedProperties
    <3>2. /\ new.digest_parent = chain[r].digest_parent
          /\ new.digest_execute = chain[r].digest_execute
          /\ new.pending = chain[r].pending \cup {d}
      <4>1. chain[r] \in [digest_parent : Seq(Batches),
                          digest_execute : Seq(Batches),
                          pending : SUBSET Seq(Batches)]
        BY <1>1 DEF Digests, Chains
      <4>2. QED BY <4>1, <2>5, CommittedWaits
    <3>3. new \in Chains
      <4>1. new = [digest_parent |-> new.digest_parent,
                   digest_execute |-> new.digest_execute,
                   pending |-> new.pending]
        BY <1>1, <2>5 DEF Committed, Chains
      <4> HIDE DEF new
      <4>2. QED BY <4>1, <3>2, <1>1, <1>2 DEF Chains
    <3>4. OnOneChain(new, app[r], t)
      <4> HIDE DEF new
      <4>1. QED BY <3>2, <1>1 DEF OnOneChain
    <3>5. \A k \in 1..Len(app[r]) : k <= Len(app[r]) BY <1>6
    <3>6. QED
      <4> HIDE DEF new
      <4>1. QED BY <3>1, <3>2, <3>3, <3>4, <3>5, <1>1, <1>4
  <2>6. QED BY <2>4, <2>5
<1>9. QED BY <1>7, <1>8

\* do_execute loses no block: the one it is called with is executed or waits
\* afterwards, and so is every one that waited.
LEMMA DoExecuteSettles ==
  ASSUME NEW t \in Digests, ExecutionTypeOK, NEW r \in Live, NEW d \in Digests,
         NEW held,
         Len(d) > 0, IsAncestor(d, t), OnOneChain(chain[r], app[r], t),
         DoExecute(r, d, held), Panic(r, d, held) = "no"
  PROVE  \A e \in chain[r].pending \cup {d} :
            IsAncestor(e, app'[r]) \/ e \in chain'[r].pending
<1> DEFINE last == LastExecuted(chain[r], d)
           new  == Committed(chain[r], d)
<1>1. /\ r \in Replicas /\ chain[r] \in Chains
      /\ chain[r].pending \subseteq Digests
      /\ \A e \in chain[r].pending : Len(e) > 0 /\ IsAncestor(e, t)
  BY LiveAssumption DEF ExecutionTypeOK, OnOneChain, Chains
<1>2. chain'[r] = new /\ app'[r] = app[r] \o Applied(r, d)
  BY <1>1 DEF DoExecute, ExecutionTypeOK
<1> HIDE DEF new
<1>3. CASE Extends(chain[r], d)
  <2>1. app'[r] = last BY <1>2, <1>3, AppliedProperties
  <2>2. IsAncestor(d, last) BY <1>1, LastExecutedProperties DEF Digests
  <2>3. new.pending = {e \in chain[r].pending : ~(/\ IsAncestor(d, e)
                                                   /\ e /= d
                                                   /\ IsAncestor(e, last))}
    <3>1. PICK ch : ch = chain[r] OBVIOUS
    <3>2. ch \in [digest_parent : Seq(Batches), digest_execute : Seq(Batches),
                  pending : SUBSET Seq(Batches)]
      BY <1>1, <3>1 DEF Digests, Chains
    <3>3. Extends(ch, d) BY <1>3, <3>1
    <3>4. Committed(ch, d).pending =
            {e \in ch.pending : ~(/\ IsAncestor(d, e)
                                  /\ e /= d
                                  /\ IsAncestor(e, LastExecuted(ch, d)))}
      BY <3>2, <3>3, CommittedTakes
    <3>5. QED BY <3>1, <3>4 DEF new
  <2> HIDE DEF last
  <2>4. QED BY <1>2, <2>1, <2>2, <2>3
<1>4. CASE ~Extends(chain[r], d)
  <2>1. new.pending = chain[r].pending \cup {d}
    BY <1>1, <1>4, CommittedWaits DEF Digests, Chains, new
  <2>2. QED BY <1>2, <2>1
<1>5. QED BY <1>3, <1>4

\* do_execute of a fresh block keeps what waits above what is executed, and it
\* can panic only when the replica does not hold the block.
LEMMA DoExecuteStep ==
  ASSUME NEW t \in Digests, ExecutionTypeOK, NEW r \in Live, NEW d \in Digests,
         NEW held,
         Len(d) > 0, IsAncestor(d, t), InOrder(chain[r], app[r], t),
         ~IsAncestor(d, app[r]), d \notin chain[r].pending,
         DoExecute(r, d, held)
  PROVE  /\ InOrder(chain'[r], app'[r], t)
         /\ panicked'[r] = IF d \in held THEN "no" ELSE "index"
<1>1. /\ r \in Replicas /\ chain[r] \in Chains /\ app[r] \in Digests
      /\ app[r] = chain[r].digest_execute
      /\ \A e \in chain[r].pending :
            /\ Len(e) > 0 /\ IsAncestor(e, t)
            /\ Len(Parent(e)) > Len(chain[r].digest_execute)
      /\ OnOneChain(chain[r], app[r], t)
  BY LiveAssumption DEF ExecutionTypeOK, InOrder, OnOneChain
<1>2. /\ ~Extends(chain[r], d) => Len(Parent(d)) > Len(chain[r].digest_execute)
      /\ ~Conflicts(chain[r], d)
  BY <1>1, FreshBlock
<1>3. /\ OnOneChain(chain'[r], app'[r], t)
      /\ panicked'[r] = Panic(r, d, held)
  BY <1>1, DoExecuteAny
<1>4. Panic(r, d, held) = IF d \in held THEN "no" ELSE "index"
  BY <1>2 DEF Panic
<1>5. \A e \in chain'[r].pending : Len(Parent(e)) > Len(chain'[r].digest_execute)
  <2>1. CASE d \notin held
    BY <1>1, <1>4, <2>1 DEF DoExecute
  <2>2. CASE d \in held
    <3>1. chain'[r] = Committed(chain[r], d)
      BY <1>1, <1>4, <2>2 DEF DoExecute, ExecutionTypeOK
    <3>2. CASE Extends(chain[r], d)
      <4>1. /\ chain[r].digest_execute \in Seq(Batches)
            /\ Committed(chain[r], d).digest_execute = LastExecuted(chain[r], d)
        BY <1>1, <3>2, CommittedTakes DEF Digests, Chains
      <4>2. \A e \in Committed(chain[r], d).pending :
               Len(Parent(e)) > Len(LastExecuted(chain[r], d))
        BY <1>1, <3>2, CommittedExtends DEF Digests, Chains
      <4>3. QED BY <3>1, <4>1, <4>2
    <3>3. CASE ~Extends(chain[r], d)
      <4>1. /\ Committed(chain[r], d).digest_execute = chain[r].digest_execute
            /\ Committed(chain[r], d).pending = chain[r].pending \cup {d}
        <5>1. PICK ch : ch = chain[r] OBVIOUS
        <5>2. ~Extends(ch, d) /\ ch \in Chains BY <1>1, <3>3, <5>1
        <5>3. ch \in [digest_parent : Seq(Batches), digest_execute : Seq(Batches),
                     pending : SUBSET Seq(Batches)]
          BY <5>2 DEF Chains, Digests
        <5>4. QED BY <5>1, <5>2, <5>3, CommittedWaits
      <4>2. QED BY <3>1, <3>3, <4>1, <1>1, <1>2
    <3>4. QED BY <3>2, <3>3
  <2>3. QED BY <2>1, <2>2
<1>6. QED BY <1>3, <1>4, <1>5 DEF InOrder

\* The replies of do_execute are replies to clients.
LEMMA RepliesType ==
  ASSUME NEW r \in Live, NEW d \in Digests, Applied(r, d) \in Digests,
         app[r] \in Digests
  PROVE  Replies(r, d) \subseteq [to : Clients, msg : ReplyMsgs]
<1> DEFINE batches == Applied(r, d)
           before(k) == app[r] \o SubSeq(batches, 1, k - 1)
           reply(k, i) ==
              Datagram(batches[k][i].client,
                       ReplyMsg(batches[k][i].num,
                                Result(before(k), batches[k], i), d, r))
<1>1. SUFFICES ASSUME NEW k \in 1..Len(batches), NEW i \in 1..Len(batches[k])
               PROVE  reply(k, i) \in [to : Clients, msg : ReplyMsgs]
  <2> HIDE DEF reply
  <2>1. Replies(r, d) = UNION {{reply(k, i) : i \in 1..Len(batches[k])} :
                                  k \in 1..Len(batches)}
    BY DEF Replies, reply
  <2>2. QED BY <1>1, <2>1
<1> HIDE DEF batches
<1>2. batches \in Seq(Batches) BY DEF batches, Digests
<1>3. batches[k] \in Batches BY <1>2, ElementOfSeq
<1>4. batches[k] \in Seq(RequestRecords) /\ Len(batches[k]) \in 1..MaxBatchSize
  BY <1>3 DEF Batches
<1>5. batches[k][i] \in RequestRecords BY <1>4, ElementOfSeq
<1>6. Len(batches) \in Nat /\ k \in Nat /\ k - 1 \in Nat /\ k - 1 <= Len(batches)
  BY <1>2, LenProperties
<1>7. SubSeq(batches, 1, k - 1) \in Seq(Batches)
  BY <1>2, <1>6, SubSeqOfSeq
<1>8. before(k) \in Digests BY <1>7, ConcatProperties DEF Digests
<1>9. SubSeq(batches[k], 1, i) \in Batches
  <2>1. i \in Nat /\ i >= 1 /\ i <= Len(batches[k]) BY <1>4
  <2>2. /\ SubSeq(batches[k], 1, i) \in Seq(RequestRecords)
        /\ Len(SubSeq(batches[k], 1, i)) = i
    BY <1>4, <2>1, SubSeqOfSeq
  <2>3. i \in 1..MaxBatchSize BY <1>4, <2>1, MaxBatchAssumption
  <2>4. QED BY <2>2, <2>3 DEF Batches
<1> HIDE DEF before
<1>10. Result(before(k), batches[k], i) \in ReplicaResults
  BY <1>8, <1>9 DEF Result, ReplicaResults
<1>11. QED
  BY <1>5, <1>10 DEF Datagram, ReplyMsg, ReplyMsgs, RequestRecords
-----------------------------------------------------------------------------
(* The service                                                             *)

\* The longest of the logs.
LogOf(apps) == apps[CHOOSE r \in Replicas :
                       \A s \in Replicas : Len(apps[s]) <= Len(apps[r])]

\* Batches were appended to the log a, which made it b, and each of its requests
\* was invoked and is in it once.
Appended(a, b, nums) ==
    /\ Len(b) > Len(a)
    /\ SubSeq(b, 1, Len(a)) = a
    /\ \A k \in 1..Len(b), l \in 1..Len(b) :
          \A i \in 1..Len(b[k]), j \in 1..Len(b[l]) :
             /\ b[k][i].num \in 1..nums[b[k][i].client]
             /\ b[k][i] = b[l][j] => k = l /\ i = j

\* The request q is in the log a, and res is what executing it there results in.
AnsweredIn(a, q, res) ==
    \E k \in 1..Len(a) : \E i \in 1..Len(a[k]) :
        /\ a[k][i] = q
        /\ res = [before |-> SubSeq(a, 1, k - 1), upto |-> SubSeq(a[k], 1, i)]

LEMMA LogIs == Log = LogOf(app) /\ Log' = LogOf(app')
BY DEF Log, LogOf

\* One of the logs is the longest, when all are bounded.
LEMMA LongestLog ==
  ASSUME NEW apps, NEW b \in Nat,
         \A r \in Replicas : Len(apps[r]) \in Nat /\ Len(apps[r]) <= b
  PROVE  \E r \in Replicas : /\ LogOf(apps) = apps[r]
                             /\ \A s \in Replicas : Len(apps[s]) <= Len(apps[r])
<1>1. PICK T : T = {b - Len(apps[r]) : r \in Replicas} OBVIOUS
<1>2. T \in SUBSET Nat BY <1>1
<1>3. T /= {}
  <2>1. Replicas /= {}
    <3>1. SUFFICES ASSUME Replicas = {} PROVE FALSE OBVIOUS
    <3>2. Cardinality(Replicas) = 0 BY <3>1, FS_EmptySet
    <3>3. QED BY <3>2, ReplicasAssumption
  <2>2. PICK r : r \in Replicas BY <2>1
  <2>3. b - Len(apps[r]) \in T BY <1>1, <2>2
  <2>4. QED BY <2>3
<1>4. PICK n \in T : \A m \in T : n <= m BY <1>2, <1>3, LeastHeight
<1>5. PICK r \in Replicas : n = b - Len(apps[r]) BY <1>1
<1>6. ASSUME NEW s \in Replicas PROVE Len(apps[s]) <= Len(apps[r])
  <2>1. b - Len(apps[s]) \in T BY <1>1
  <2>2. n <= b - Len(apps[s]) BY <1>4, <2>1
  <2>3. QED BY <1>5, <2>2
<1>7. PICK l : l = CHOOSE x \in Replicas :
                       \A s \in Replicas : Len(apps[s]) <= Len(apps[x])
  OBVIOUS
<1>8. l \in Replicas /\ \A s \in Replicas : Len(apps[s]) <= Len(apps[l])
  BY <1>6, <1>7, Zenon
<1>9. LogOf(apps) = apps[l] BY <1>7 DEF LogOf
<1>10. QED BY <1>8, <1>9

\* On one chain, every replica's log is the beginning of the longest.
LEMMA LogTells ==
  ASSUME NEW apps, NEW t \in Digests,
         \A r \in Replicas : apps[r] \in Digests /\ IsAncestor(apps[r], t)
  PROVE  /\ LogOf(apps) \in Digests /\ IsAncestor(LogOf(apps), t)
         /\ \A r \in Replicas : IsAncestor(apps[r], LogOf(apps))
         /\ \E r \in Replicas : LogOf(apps) = apps[r]
<1>1. Len(t) \in Nat /\ \A r \in Replicas : Len(apps[r]) \in Nat
  BY LenProperties DEF Digests
<1>2. \A r \in Replicas : Len(apps[r]) <= Len(t) BY DEF IsAncestor
<1>3. PICK l \in Replicas : /\ LogOf(apps) = apps[l]
                            /\ \A s \in Replicas : Len(apps[s]) <= Len(apps[l])
  BY <1>1, <1>2, LongestLog
<1>4. \A r \in Replicas : IsAncestor(apps[r], apps[l])
  BY <1>3, AncestorsOfOne DEF Digests
<1>5. QED BY <1>3, <1>4

\* So when the replicas' logs grow on the chain, so does the longest.
LEMMA LogGrows ==
  ASSUME NEW apps, NEW more, NEW t \in Digests, NEW u \in Digests,
         \A r \in Replicas :
            /\ apps[r] \in Digests /\ IsAncestor(apps[r], t)
            /\ more[r] \in Digests /\ IsAncestor(more[r], u)
            /\ IsAncestor(apps[r], more[r])
  PROVE  IsAncestor(LogOf(apps), LogOf(more))
<1>1. PICK l \in Replicas : LogOf(apps) = apps[l] BY LogTells
<1>2. /\ LogOf(more) \in Digests
      /\ IsAncestor(more[l], LogOf(more))
  BY LogTells
<1>3. IsAncestor(apps[l], LogOf(more))
  BY <1>2, AncestorTransitive DEF Digests
<1>4. QED BY <1>1, <1>3

\* A longer log on the chain is the shorter one with batches appended.
LEMMA LogAppends ==
  ASSUME NEW a \in Digests, NEW b \in Digests, NEW t \in Digests, a /= b,
         IsAncestor(a, b), IsAncestor(b, t),
         NEW nums \in [Clients -> Nat], Listed(t, nums)
  PROVE  Appended(a, b, nums)
<1>1. /\ Len(a) \in Nat /\ Len(b) \in Nat /\ Len(t) \in Nat
      /\ Len(a) <= Len(b) /\ Len(b) <= Len(t) /\ a = SubSeq(b, 1, Len(a))
      /\ \A k \in 1..Len(b) : b[k] = t[k]
  BY LenProperties, AncestorDef DEF IsAncestor, Digests
<1>2. Len(b) > Len(a)
  <2>1. CASE Len(a) = Len(b)
    <3>1. \A k \in 1..Len(a) : a[k] = b[k] BY AncestorDef DEF Digests
    <3>2. a = b BY <2>1, <3>1, SeqEqual DEF Digests
    <3>3. QED BY <3>2
  <2>2. QED BY <1>1, <2>1
<1>3. ASSUME NEW k \in 1..Len(b), NEW l \in 1..Len(b),
             NEW i \in 1..Len(b[k]), NEW j \in 1..Len(b[l])
      PROVE  /\ b[k][i].num \in 1..nums[b[k][i].client]
             /\ b[k][i] = b[l][j] => k = l /\ i = j
  <2>1. k \in 1..Len(t) /\ l \in 1..Len(t) /\ b[k] = t[k] /\ b[l] = t[l]
    BY <1>1
  <2>2. /\ Used(b[k][i], nums)
        /\ b[k][i] = b[l][j] => k = l /\ i = j
    BY <2>1 DEF Listed
  <2>3. b[k] \in Seq(RequestRecords)
    BY ElementOfSeq DEF Digests, Batches
  <2>4. b[k][i] \in RequestRecords BY <2>3, ElementOfSeq
  <2>5. b[k][i].num \in 1..nums[b[k][i].client]
    <3>1. PICK q : q = b[k][i] OBVIOUS
    <3>2. q.client \in Clients /\ q.num \in 1..MaxRequestNum
      BY <2>4, <3>1 DEF RequestRecords
    <3>3. nums[q.client] \in Nat /\ q.num <= nums[q.client]
      BY <2>2, <3>1, <3>2 DEF Used
    <3>4. QED BY <3>1, <3>2, <3>3, MaxRequestAssumption
  <2>6. QED BY <2>2, <2>5
<1>4. QED BY <1>1, <1>2, <1>3 DEF Appended

\* What a log answers, every log that begins with it answers.
LEMMA AnsweredKept ==
  ASSUME NEW a \in Digests, NEW b \in Digests, IsAncestor(a, b), NEW q, NEW res,
         AnsweredIn(a, q, res)
  PROVE  AnsweredIn(b, q, res)
<1>1. PICK k \in 1..Len(a) : \E i \in 1..Len(a[k]) :
         /\ a[k][i] = q
         /\ res = [before |-> SubSeq(a, 1, k - 1), upto |-> SubSeq(a[k], 1, i)]
  BY DEF AnsweredIn
<1>2. PICK i \in 1..Len(a[k]) :
         /\ a[k][i] = q
         /\ res = [before |-> SubSeq(a, 1, k - 1), upto |-> SubSeq(a[k], 1, i)]
  BY <1>1
<1>3. /\ Len(a) \in Nat /\ Len(b) \in Nat /\ Len(a) <= Len(b)
      /\ \A h \in 1..Len(a) : a[h] = b[h]
  BY LenProperties, AncestorDef DEF Digests
<1>4. k \in 1..Len(b) /\ a[k] = b[k] BY <1>3
<1>5. SubSeq(a, 1, k - 1) = SubSeq(b, 1, k - 1)
  <2>1. PICK n : n = k - 1 OBVIOUS
  <2>2. n \in Nat /\ n <= Len(a) /\ n <= Len(b) /\ \A h \in 1..n : h \in 1..Len(a)
    BY <1>3, <2>1
  <2>3. /\ SubSeq(a, 1, n) \in Seq(Batches)
        /\ Len(SubSeq(a, 1, n)) = IF 1 <= n THEN n - 1 + 1 ELSE 0
        /\ \A j \in 1..n - 1 + 1 : SubSeq(a, 1, n)[j] = a[1 + j - 1]
    BY <2>2, SubSeqOfSeq DEF Digests
  <2>4. /\ SubSeq(b, 1, n) \in Seq(Batches)
        /\ Len(SubSeq(b, 1, n)) = IF 1 <= n THEN n - 1 + 1 ELSE 0
        /\ \A j \in 1..n - 1 + 1 : SubSeq(b, 1, n)[j] = b[1 + j - 1]
    BY <2>2, SubSeqOfSeq DEF Digests
  <2>5. /\ Len(SubSeq(a, 1, n)) = n /\ Len(SubSeq(b, 1, n)) = n
        /\ \A j \in 1..n : SubSeq(a, 1, n)[j] = SubSeq(b, 1, n)[j]
    BY <1>3, <2>2, <2>3, <2>4
  <2>6. SubSeq(a, 1, n) = SubSeq(b, 1, n) BY <2>3, <2>4, <2>5, SeqEqual
  <2>7. QED BY <2>1, <2>6
<1>6. QED BY <1>2, <1>4, <1>5 DEF AnsweredIn

\* A step of the replicas along the chain leaves the log the clients see alone,
\* or appends to it.
LEMMA LogStep ==
  ASSUME NEW t \in Digests, NEW u \in Digests,
         \A i \in Replicas : /\ app[i] \in Digests /\ IsAncestor(app[i], t)
                             /\ app'[i] \in Digests /\ IsAncestor(app'[i], u)
                             /\ IsAncestor(app[i], app'[i]),
         NEW nums \in [Clients -> Nat], Listed(u, nums)
  PROVE  Log' = Log \/ Appended(Log, Log', nums)
<1>1. PICK a : a = app OBVIOUS
<1>2. PICK b : b = app' OBVIOUS
<1>3. /\ LogOf(a) \in Digests /\ LogOf(b) \in Digests
      /\ IsAncestor(LogOf(b), u) /\ IsAncestor(LogOf(a), LogOf(b))
  BY <1>1, <1>2, LogTells, LogGrows
<1>4. LogOf(b) = LogOf(a) \/ Appended(LogOf(a), LogOf(b), nums)
  BY <1>3, LogAppends
<1>5. QED BY <1>1, <1>2, <1>4, LogIs

\* A client that got the answer of the log to its request.
Responded(c, log) ==
    /\ invoke[c]
    /\ invoke' = [invoke EXCEPT ![c] = FALSE]
    /\ \E res : /\ AnsweredIn(log, Request(c, request_num[c]), res)
                /\ results' = [results EXCEPT ![c] = Append(@, res)]
    /\ UNCHANGED request_num

\* What a replica answers, the log the clients see answers.
LEMMA LogAnswers ==
  ASSUME NEW t \in Digests,
         \A i \in Replicas : app[i] \in Digests /\ IsAncestor(app[i], t),
         NEW r \in Replicas, NEW q, NEW res, AnsweredIn(app[r], q, res)
  PROVE  AnsweredIn(Log, q, res)
<1>1. PICK a : a = app OBVIOUS
<1>2. LogOf(a) \in Digests /\ IsAncestor(a[r], LogOf(a)) BY <1>1, LogTells
<1>3. AnsweredIn(LogOf(a), q, res) BY <1>1, <1>2, AnsweredKept
<1>4. QED BY <1>1, <1>3, LogIs

\* At first the log is empty.
LEMMA LogStarts ==
  ASSUME app = [r \in Replicas |-> <<>>]
  PROVE  Log = <<>>
<1>1. \A r \in Replicas : app[r] \in Digests /\ IsAncestor(app[r], <<>>)
  BY EmptySeq, AncestorReflexive DEF Digests
<1>2. <<>> \in Digests BY EmptySeq DEF Digests
<1>3. \E r \in Replicas : LogOf(app) = app[r] BY <1>1, <1>2, LogTells
<1>4. QED BY <1>3, LogIs
-----------------------------------------------------------------------------
\* An application that executed the batches a has executed the log, as far as
\* the last request in it.
ExecutedIn(a, log) ==
    /\ Len(log) <= Len(a)
    /\ log = Append(SubSeq(a, 1, Len(log) - 1),
                    SubSeq(a[Len(log)], 1, Len(log[Len(log)])))

\* The reply m to client c tells what its replica executed, up to c's request,
\* when the applications executed apps.
Answer(c, m, apps) ==
    LET log == Append(m.result.before, m.result.upto) IN
    /\ BlockRequests(log)[Len(BlockRequests(log))] = Request(c, m.num)
    /\ ExecutedIn(apps[m.replica], log)
    /\ AnsweredIn(apps[m.replica], Request(c, m.num), m.result)

ClientServed(c) ==
    /\ \A x \in replies[c] : Answer(c, x, app)
    /\ \A x, y \in replies[c] : x.replica = y.replica => x = y
    /\ Len(results[c]) + (IF invoke[c] THEN 1 ELSE 0) = request_num[c]

\* What the clients are sent, hold and consumed is what replicas executed.
Served ==
    /\ \A x \in net : x.to \in Clients => Answer(x.to, x.msg, app)
    /\ \A c \in Clients : ClientServed(c)
    /\ ConsumedIsExecuted

\* The log a result stands for.
LEMMA ResultLog ==
  ASSUME NEW res \in ReplicaResults
  PROVE  LET log == Append(res.before, res.upto) IN
         /\ log \in Digests /\ Len(log) \in Nat /\ Len(log) > 0
         /\ Len(log) = Len(res.before) + 1
         /\ BlockRequests(log) = res.upto
<1> DEFINE log == Append(res.before, res.upto)
           n == Len(res.before)
<1>1. res.before \in Seq(Batches) /\ res.upto \in Batches
  BY DEF ReplicaResults, Digests
<1>2. n \in Nat BY <1>1, LenProperties
<1>3. /\ log \in Seq(Batches) /\ Len(log) = n + 1
      /\ log[n + 1] = res.upto
  BY <1>1, <1>2, AppendProperties
<1>4. BlockRequests(log) = res.upto BY <1>3 DEF BlockRequests
<1> HIDE DEF log, n
<1>5. log \in Digests /\ Len(log) \in Nat /\ Len(log) > 0 /\ Len(log) = n + 1
  BY <1>2, <1>3 DEF Digests
<1>6. QED BY <1>4, <1>5 DEF log, n

\* A replica that executes more has still executed what it had.
LEMMA ExecutedInKept ==
  ASSUME NEW a \in Digests, NEW b \in Digests, IsAncestor(a, b),
         NEW log \in Digests, Len(log) > 0, ExecutedIn(a, log)
  PROVE  ExecutedIn(b, log)
<1> DEFINE n == Len(log)
<1>1. /\ a \in Seq(Batches) /\ b \in Seq(Batches)
      /\ n \in Nat /\ n > 0 /\ n <= Len(a) /\ Len(a) <= Len(b)
      /\ Len(a) \in Nat /\ Len(b) \in Nat
      /\ \A k \in 1..Len(a) : a[k] = b[k]
  BY AncestorDef, LenProperties DEF Digests, ExecutedIn
<1>2. log = Append(SubSeq(a, 1, n - 1), SubSeq(a[n], 1, Len(log[n])))
  BY DEF ExecutedIn
<1>3. ExecutedIn(b, log) <=>
        /\ n <= Len(b)
        /\ log = Append(SubSeq(b, 1, n - 1), SubSeq(b[n], 1, Len(log[n])))
  BY DEF ExecutedIn
<1> HIDE DEF n
<1>4. a[n] = b[n] /\ n <= Len(b) BY <1>1
<1>5. SubSeq(a, 1, n - 1) = SubSeq(b, 1, n - 1)
  <2> DEFINE k == n - 1
  <2>1. k \in Nat /\ k <= Len(a) /\ k <= Len(b) BY <1>1
  <2>2. \A j \in 1..k : a[j] = b[j] BY <1>1
  <2> HIDE DEF k
  <2>3. /\ SubSeq(a, 1, k) \in Seq(Batches)
        /\ Len(SubSeq(a, 1, k)) = IF 1 <= k THEN k - 1 + 1 ELSE 0
        /\ \A j \in 1..k - 1 + 1 : SubSeq(a, 1, k)[j] = a[1 + j - 1]
    BY <1>1, <2>1, SubSeqOfSeq
  <2>4. /\ SubSeq(b, 1, k) \in Seq(Batches)
        /\ Len(SubSeq(b, 1, k)) = IF 1 <= k THEN k - 1 + 1 ELSE 0
        /\ \A j \in 1..k - 1 + 1 : SubSeq(b, 1, k)[j] = b[1 + j - 1]
    BY <1>1, <2>1, SubSeqOfSeq
  <2>5. /\ Len(SubSeq(a, 1, k)) = k /\ Len(SubSeq(b, 1, k)) = k
        /\ \A j \in 1..k : SubSeq(a, 1, k)[j] = SubSeq(b, 1, k)[j]
    BY <2>1, <2>2, <2>3, <2>4
  <2>6. SubSeq(a, 1, k) = SubSeq(b, 1, k) BY <2>3, <2>4, <2>5, SeqEqual
  <2>7. QED BY <2>6 DEF k
<1>6. QED BY <1>2, <1>3, <1>4, <1>5

\* So an answer stays one.
LEMMA AnswerKept ==
  ASSUME ExecutionTypeOK, ExecutionTypeOK',
         \A i \in Replicas : IsAncestor(app[i], app'[i]),
         NEW c, NEW m \in ReplyMsgs, Answer(c, m, app)
  PROVE  Answer(c, m, app')
<1> DEFINE log == Append(m.result.before, m.result.upto)
<1>1. m.replica \in Replicas /\ m.result \in ReplicaResults
  BY LiveAssumption DEF ReplyMsgs
<1>2. log \in Digests /\ Len(log) > 0 BY <1>1, ResultLog
<1>3. /\ ExecutedIn(app[m.replica], log)
      /\ BlockRequests(log)[Len(BlockRequests(log))] = Request(c, m.num)
  BY DEF Answer
<1>4. app[m.replica] \in Digests /\ app'[m.replica] \in Digests
  BY <1>1 DEF ExecutionTypeOK
<1>5. AnsweredIn(app'[m.replica], Request(c, m.num), m.result)
  <2>1. AnsweredIn(app[m.replica], Request(c, m.num), m.result) BY DEF Answer
  <2>2. QED BY <1>1, <1>4, <2>1, AnsweredKept
<1> HIDE DEF log
<1>6. ExecutedIn(app'[m.replica], log) BY <1>1, <1>2, <1>3, <1>4, ExecutedInKept
<1>7. QED BY <1>3, <1>5, <1>6 DEF Answer, log

\* What a client consumed stays executed.
LEMMA ConsumedKept ==
  ASSUME ExecutionTypeOK, ExecutionTypeOK',
         \A i \in Replicas : IsAncestor(app[i], app'[i]),
         NEW log \in Digests, Len(log) > 0
  PROVE  Cardinality({i \in Replicas : ExecutedIn(app[i], log)}) >= NumFaulty + 1
           => Cardinality({i \in Replicas : ExecutedIn(app'[i], log)}) >= NumFaulty + 1
<1> DEFINE A == {i \in Replicas : ExecutedIn(app[i], log)}
           B == {i \in Replicas : ExecutedIn(app'[i], log)}
<1>1. A \subseteq B
  <2>1. SUFFICES ASSUME NEW i \in Replicas, ExecutedIn(app[i], log)
                 PROVE  ExecutedIn(app'[i], log)
    OBVIOUS
  <2>2. app[i] \in Digests /\ app'[i] \in Digests BY DEF ExecutionTypeOK
  <2>3. QED BY <2>1, <2>2, ExecutedInKept
<1>2. A \subseteq Replicas /\ B \subseteq Replicas OBVIOUS
<1> HIDE DEF A, B
<1>3. /\ Cardinality(A) \in Nat /\ Cardinality(B) \in Nat
      /\ Cardinality(A) <= Cardinality(B)
  BY <1>1, <1>2, ReplicasAssumption, FS_Subset, FS_CardinalityType
<1>4. Cardinality(A) >= NumFaulty + 1 => Cardinality(B) >= NumFaulty + 1
  BY <1>3, ReplicasAssumption
<1>5. QED BY <1>4 DEF A, B

\* ConsumedIsExecuted, result by result.
ConsumedAs(c, k, res, apps) ==
    LET log == Append(res.before, res.upto) IN
    /\ BlockRequests(log)[Len(BlockRequests(log))] = Request(c, k)
    /\ Cardinality({i \in Replicas : ExecutedIn(apps[i], log)}) >= NumFaulty + 1

LEMMA ConsumedDef ==
  /\ ConsumedIsExecuted <=>
       \A c \in Clients : \A k \in DOMAIN results[c] :
          ConsumedAs(c, k, results[c][k], app)
  /\ ConsumedIsExecuted' <=>
       \A c \in Clients : \A k \in DOMAIN results'[c] :
          ConsumedAs(c, k, results'[c][k], app')
BY DEF ConsumedIsExecuted, ConsumedAs, ExecutedIn

\* A step of the replicas, which sends the clients nothing but answers.
LEMMA ServedByReplica ==
  ASSUME NEW M, NEW O, NetTypeOK(M, O), ClientTypeOK, Served,
         ExecutionTypeOK, ExecutionTypeOK',
         \A i \in Replicas : IsAncestor(app[i], app'[i]),
         UNCHANGED clientVars, NEW out, net' \subseteq net \cup out,
         \A x \in out : x.to \in Clients => Answer(x.to, x.msg, app')
  PROVE  Served'
<1>1. clientVars' = clientVars
      /\ request_num' = request_num /\ invoke' = invoke
      /\ replies' = replies /\ results' = results
  BY DEF clientVars
<1>2. \A x \in net' : x.to \in Clients => Answer(x.to, x.msg, app')
  <2>1. SUFFICES ASSUME NEW x \in net, x.to \in Clients
                 PROVE  Answer(x.to, x.msg, app')
    OBVIOUS
  <2>2. x.msg \in ReplyMsgs
    BY <2>1, ClientsAssumption, NetTypeDef DEF Datagrams
  <2>3. Answer(x.to, x.msg, app) BY <2>1 DEF Served
  <2>4. QED BY <2>2, <2>3, AnswerKept
<1>3. ASSUME NEW c \in Clients PROVE ClientServed(c)'
  <2>1. ClientServed(c) /\ replies[c] \subseteq ReplyMsgs
    BY DEF Served, ClientTypeOK
  <2>2. \A x \in replies[c] : Answer(c, x, app')
    BY <2>1, AnswerKept DEF ClientServed
  <2>3. QED BY <1>1, <2>1, <2>2 DEF ClientServed
<1>4. ConsumedIsExecuted'
  <2>1. SUFFICES ASSUME NEW c \in Clients, NEW k \in DOMAIN results[c]
                 PROVE  ConsumedAs(c, k, results[c][k], app')
    BY <1>1, ConsumedDef
  <2>2. ConsumedAs(c, k, results[c][k], app) BY ConsumedDef DEF Served
  <2>3. results[c] \in Seq(ReplicaResults) BY DEF ClientTypeOK
  <2>4. k \in 1..Len(results[c]) BY <2>3, LenProperties
  <2>5. PICK res : res = results[c][k] OBVIOUS
  <2>6. res \in ReplicaResults BY <2>3, <2>4, <2>5, ElementOfSeq
  <2> DEFINE log == Append(res.before, res.upto)
  <2>7. log \in Digests /\ Len(log) > 0 BY <2>6, ResultLog
  <2>8. ConsumedAs(c, k, res, app) BY <2>2, <2>5
  <2>9. /\ BlockRequests(log)[Len(BlockRequests(log))] = Request(c, k)
        /\ Cardinality({i \in Replicas : ExecutedIn(app[i], log)}) >= NumFaulty + 1
    BY <2>8 DEF ConsumedAs
  <2> HIDE DEF log
  <2>10. Cardinality({i \in Replicas : ExecutedIn(app'[i], log)}) >= NumFaulty + 1
    BY <2>7, <2>9, ConsumedKept
  <2>11. ConsumedAs(c, k, res, app') BY <2>9, <2>10 DEF ConsumedAs, log
  <2>12. QED BY <1>1, <2>5, <2>11
<1>5. QED BY <1>2, <1>3, <1>4 DEF Served

\* invoke: the requests it sends are for replicas.
LEMMA ServedByInvoke ==
  ASSUME ClientTypeOK, Served, NEW c \in Clients, NEW to \in SUBSET Replicas,
         ClientInvoke(c, to), app' = app
  PROVE  Served'
<1>1. /\ ~invoke[c] /\ results' = results
      /\ request_num' = [request_num EXCEPT ![c] = @ + 1]
      /\ invoke' = [invoke EXCEPT ![c] = TRUE]
      /\ replies' = [replies EXCEPT ![c] = {}]
      /\ net' = net \cup SendTo(to, RequestMsg(c, request_num[c] + 1))
  BY DEF ClientInvoke, ClientSends
<1>3. \A x \in net' : x.to \in Clients => Answer(x.to, x.msg, app')
  BY <1>1, ClientsAssumption DEF Served, SendTo, Datagram
<1>4. ASSUME NEW d \in Clients PROVE ClientServed(d)'
  <2>1. ClientServed(d) BY DEF Served
  <2>2. CASE d = c
    <3>1. replies'[d] = {} /\ invoke'[d] /\ request_num'[d] = request_num[d] + 1
      BY <1>1, <2>2 DEF ClientTypeOK
    <3>2. Len(results[d]) = request_num[d]
          /\ request_num[d] \in Nat /\ Len(results[d]) \in Nat
      <4>1. Len(results[d]) \in Nat BY LenProperties DEF ClientTypeOK
      <4>2. request_num[d] \in Nat BY MaxRequestAssumption DEF ClientTypeOK
      <4>3. QED BY <1>1, <2>1, <2>2, <4>1, <4>2 DEF ClientServed
    <3>3. QED BY <1>1, <3>1, <3>2 DEF ClientServed
  <2>3. CASE d /= c
    <3>1. /\ replies'[d] = replies[d] /\ invoke'[d] = invoke[d]
          /\ request_num'[d] = request_num[d]
      BY <1>1, <2>3 DEF ClientTypeOK
    <3>2. QED BY <1>1, <2>1, <3>1 DEF ClientServed
  <2>4. QED BY <2>2, <2>3
<1>5. ConsumedIsExecuted'
  <2>1. ConsumedIsExecuted BY DEF Served
  <2>2. QED BY <1>1, <2>1, ConsumedDef
<1>6. QED BY <1>3, <1>4, <1>5 DEF Served

\* Of the replies a client holds with m, those that match m are of different
\* replicas, and all of them executed what m tells.
LEMMA MatchingExecuted ==
  ASSUME ClientTypeOK, Served, NEW c \in Clients, NEW m \in ReplyMsgs,
         Answer(c, m, app), Enough(c, m)
  PROVE  LET log == Append(m.result.before, m.result.upto) IN
         Cardinality({i \in Replicas : ExecutedIn(app[i], log)}) >= NumFaulty + 1
<1> DEFINE log == Append(m.result.before, m.result.upto)
           B == {i \in Replicas : ExecutedIn(app[i], log)}
           S == Matching(c, m)
           f == [x \in S |-> x.replica]
<1>1. ClientServed(c) /\ replies[c] \subseteq ReplyMsgs
  BY DEF Served, ClientTypeOK
<1>2. \A x \in Inserted(c, m) : x \in ReplyMsgs /\ Answer(c, x, app)
  BY <1>1 DEF Inserted, ClientServed
<1>3. \A x, y \in Inserted(c, m) : x.replica = y.replica => x = y
  BY <1>1 DEF Inserted, ClientServed
<1>4. \A x \in S : x \in Inserted(c, m) /\ x.result = m.result
  BY DEF Matching
<1>5. ASSUME NEW x \in S PROVE x.replica \in B
  <2>1. x.replica \in Replicas BY <1>2, <1>4, LiveAssumption DEF ReplyMsgs
  <2>2. ExecutedIn(app[x.replica], log) BY <1>2, <1>4 DEF Answer
  <2>3. QED BY <2>1, <2>2
<1>6. \A x, y \in S : f[x] = f[y] => x = y BY <1>3, <1>4
<1>7. f \in [S -> B] BY <1>5
<1>8. IsFiniteSet(B) BY ReplicasAssumption, FS_Subset
<1>9. Cardinality(S) = NumFaulty + 1 BY DEF Enough
<1> HIDE DEF S, B, f
<1>10. f \in Injection(S, B) BY <1>6, <1>7 DEF Injection, IsInjective, f
<1>11. Cardinality(S) <= Cardinality(B) /\ Cardinality(B) \in Nat
  BY <1>8, <1>10, FS_Injection, FS_CardinalityType
<1>12. Cardinality(B) >= NumFaulty + 1 BY <1>9, <1>11, ReplicasAssumption
<1>13. QED BY <1>12 DEF B

\* Client::handle: what it consumes, f + 1 replicas executed.
LEMMA ServedByHandle ==
  ASSUME NEW M, NEW O, NetTypeOK(M, O), ClientTypeOK, Served,
         NEW c \in Clients, NEW m, ClientHandle(c, m), app' = app
  PROVE  Served'
<1>1. Datagram(c, m) \in net /\ net' \subseteq net
  BY DEF ClientHandle, ClientReceives, Flight
<1>2. m \in ReplyMsgs /\ Answer(c, m, app)
  BY <1>1, ClientsAssumption DEF NetTypeOK, Served, Datagram
<1>5. \A x \in net' : x.to \in Clients => Answer(x.to, x.msg, app')
  BY <1>1 DEF Served
<1>6. /\ \A d \in Clients : ClientServed(d)
      /\ \A d \in Clients : \A k \in DOMAIN results[d] :
            ConsumedAs(d, k, results[d][k], app)
  BY ConsumedDef DEF Served
<1>7. results[c] \in Seq(ReplicaResults) /\ Len(results[c]) \in Nat
      /\ DOMAIN results[c] = 1..Len(results[c])
      /\ request_num[c] \in Nat
  <2>1. results[c] \in Seq(ReplicaResults) BY DEF ClientTypeOK
  <2>2. QED BY <2>1, LenProperties, MaxRequestAssumption DEF ClientTypeOK
<1>8. CASE Expected(c, m) /\ Consume(c, m)
  <2>1. /\ m.num = request_num[c] /\ invoke[c] /\ Enough(c, m)
        /\ invoke' = [invoke EXCEPT ![c] = FALSE]
        /\ replies' = [replies EXCEPT ![c] = {}]
        /\ results' = [results EXCEPT ![c] = Append(@, m.result)]
        /\ request_num' = request_num
    BY <1>8 DEF Expected, Consume
  <2>2. /\ ~invoke'[c] /\ replies'[c] = {}
        /\ results'[c] = Append(results[c], m.result)
        /\ \A d \in Clients : d /= c => /\ invoke'[d] = invoke[d]
                                        /\ replies'[d] = replies[d]
                                        /\ results'[d] = results[d]
    BY <2>1 DEF ClientTypeOK
  <2>3. m.result \in ReplicaResults BY <1>2 DEF ReplyMsgs
  <2> DEFINE n == Len(results[c])
             q == Append(results[c], m.result)
  <2>4. /\ DOMAIN q = 1..n + 1 /\ Len(q) = n + 1
        /\ \A k \in 1..n : q[k] = results[c][k]
        /\ q[n + 1] = m.result
    BY <1>7, <2>3, AppendProperties
  <2>5. m.num = n + 1 /\ n \in Nat
    BY <1>6, <1>7, <2>1 DEF ClientServed
  <2>6. ConsumedAs(c, n + 1, m.result, app)
    <3>1. ConsumedAs(c, m.num, m.result, app)
      BY <1>2, <2>1, MatchingExecuted DEF ConsumedAs, Answer
    <3>2. QED BY <3>1, <2>5
  <2> HIDE DEF n, q
  <2>7. results'[c] = q BY <2>2 DEF q
  <2>8. \A k \in DOMAIN q : ConsumedAs(c, k, q[k], app)
    <3>1. \A k \in 1..n : ConsumedAs(c, k, results[c][k], app)
      BY <1>6, <1>7 DEF n
    <3>2. \A k \in 1..n + 1 : k \in 1..n \/ k = n + 1 BY <2>5
    <3>3. QED BY <2>4, <2>6, <3>1, <3>2
  <2>9. ConsumedIsExecuted'
    <3>1. SUFFICES ASSUME NEW d \in Clients, NEW k \in DOMAIN results'[d]
                   PROVE  ConsumedAs(d, k, results'[d][k], app')
      BY ConsumedDef
    <3>2. CASE d = c BY <2>7, <2>8, <3>1, <3>2
    <3>3. CASE d /= c BY <1>6, <2>2, <3>1, <3>3
    <3>4. QED BY <3>2, <3>3
  <2>10. ASSUME NEW d \in Clients PROVE ClientServed(d)'
    <3>1. CASE d = c
      <4>1. Len(results'[c]) = request_num'[c] BY <2>1, <2>4, <2>5, <2>7
      <4>2. Len(results'[c]) \in Nat BY <2>4, <2>5, <2>7
      <4>3. QED BY <2>2, <3>1, <4>1, <4>2 DEF ClientServed
    <3>2. CASE d /= c
      <4>1. /\ replies'[d] = replies[d] /\ invoke'[d] = invoke[d]
            /\ results'[d] = results[d] /\ request_num'[d] = request_num[d]
        BY <2>1, <2>2, <3>2
      <4>2. ClientServed(d) BY <1>6
      <4>3. QED BY <4>1, <4>2 DEF ClientServed
    <3>3. QED BY <3>1, <3>2
  <2>11. QED BY <1>5, <2>9, <2>10 DEF Served
<1>9. CASE Expected(c, m) /\ Collect(c, m)
  <2>1. /\ replies' = [replies EXCEPT ![c] = Inserted(c, m)]
        /\ request_num' = request_num /\ invoke' = invoke /\ results' = results
    BY <1>9 DEF Collect
  <2>2. replies'[c] = Inserted(c, m)
        /\ \A d \in Clients : d /= c => replies'[d] = replies[d]
    BY <2>1 DEF ClientTypeOK
  <2>10. ClientServed(c)'
    <3>1. ClientServed(c) BY <1>6
    <3>2. /\ \A x \in Inserted(c, m) : Answer(c, x, app)
          /\ \A x, y \in Inserted(c, m) : x.replica = y.replica => x = y
      BY <1>2, <3>1 DEF Inserted, ClientServed
    <3>3. /\ \A x \in replies'[c] : Answer(c, x, app')
          /\ \A x, y \in replies'[c] : x.replica = y.replica => x = y
      BY <2>2, <3>2
    <3>4. Len(results'[c]) + (IF invoke'[c] THEN 1 ELSE 0) = request_num'[c]
      BY <2>1, <3>1 DEF ClientServed
    <3>5. QED BY <3>3, <3>4 DEF ClientServed
  <2>3. ASSUME NEW d \in Clients PROVE ClientServed(d)'
    <3>1. CASE d = c BY <2>10, <3>1
    <3>2. CASE d /= c BY <1>6, <2>1, <2>2, <3>2 DEF ClientServed
    <3>3. QED BY <3>1, <3>2
  <2>4. ConsumedIsExecuted' BY <1>6, <2>1, ConsumedDef
  <2>5. QED BY <1>5, <2>3, <2>4 DEF Served
<1>10. CASE UNCHANGED clientVars
  <2>1. /\ request_num' = request_num /\ invoke' = invoke
        /\ results' = results /\ replies' = replies
    BY <1>10 DEF clientVars
  <2>2. \A d \in Clients : ClientServed(d)'
    BY <1>6, <2>1 DEF ClientServed
  <2>3. ConsumedIsExecuted' BY <1>6, <2>1, ConsumedDef
  <2>4. QED BY <1>5, <2>2, <2>3 DEF Served
<1>11. QED BY <1>8, <1>9, <1>10 DEF ClientHandle

\* The k-th batch that is applied, and the log before it.
LEMMA AppliedBatch ==
  ASSUME NEW a \in Digests, NEW batches \in Digests, NEW k \in 1..Len(batches)
  PROVE  LET p      == Len(a) + k - 1
             before == a \o SubSeq(batches, 1, k - 1)
         IN
         /\ p \in Nat /\ p + 1 <= Len(a \o batches)
         /\ a \o batches \in Digests
         /\ before \in Digests /\ Len(before) = p
         /\ SubSeq(a \o batches, 1, p) = before
         /\ (a \o batches)[p + 1] = batches[k]
         /\ batches[k] \in Batches
<1> DEFINE b == a \o batches
           n == Len(a)
           head == SubSeq(batches, 1, k - 1)
           p == Len(a) + k - 1
           before == a \o SubSeq(batches, 1, k - 1)
<1>3. /\ a \in Seq(Batches) /\ batches \in Seq(Batches) /\ n \in Nat
      /\ Len(batches) \in Nat /\ k \in Nat /\ k >= 1 /\ k <= Len(batches)
      /\ k - 1 \in Nat /\ k - 1 <= Len(batches)
  BY LenProperties DEF Digests
<1>5. /\ b \in Seq(Batches) /\ Len(b) = n + Len(batches)
      /\ \A j \in 1..n + Len(batches) :
            b[j] = IF j <= n THEN a[j] ELSE batches[j - n]
  BY <1>3, ConcatProperties
<1>6. batches[k] \in Batches BY <1>3, ElementOfSeq
<1>10. /\ head \in Seq(Batches) /\ Len(head) = k - 1
       /\ \A j \in 1..k - 1 : head[j] = batches[j]
  <2> DEFINE h == k - 1
  <2>1. h \in Nat /\ h <= Len(batches) BY <1>3
  <2> HIDE DEF h
  <2>2. /\ SubSeq(batches, 1, h) \in Seq(Batches)
        /\ Len(SubSeq(batches, 1, h)) = IF 1 <= h THEN h - 1 + 1 ELSE 0
        /\ \A j \in 1..h - 1 + 1 : SubSeq(batches, 1, h)[j] = batches[1 + j - 1]
    BY <1>3, <2>1, SubSeqOfSeq
  <2>3. QED BY <2>1, <2>2 DEF h
<1>11. p \in Nat /\ p = n + (k - 1) /\ p + 1 = n + k /\ p <= Len(b) /\ p + 1 <= Len(b)
  BY <1>3, <1>5
<1>12. /\ before \in Seq(Batches) /\ Len(before) = p
       /\ \A j \in 1..p : before[j] = IF j <= n THEN a[j] ELSE head[j - n]
  <2>1. before = a \o head OBVIOUS
  <2> HIDE DEF head, n, before, p
  <2>11. /\ a \o head \in Seq(Batches) /\ Len(a \o head) = Len(a) + Len(head)
        /\ \A j \in 1..Len(a) + Len(head) :
              (a \o head)[j] = IF j <= Len(a) THEN a[j] ELSE head[j - Len(a)]
    BY <1>3, <1>10, ConcatProperties
  <2>3. /\ a \o head \in Seq(Batches) /\ Len(a \o head) = n + (k - 1)
        /\ \A j \in 1..n + (k - 1) :
              (a \o head)[j] = IF j <= n THEN a[j] ELSE head[j - n]
    BY <1>10, <2>11 DEF n
  <2>4. QED BY <2>1, <2>3, <1>11
<1> HIDE DEF head, b, n, p, before
<1>14. SubSeq(b, 1, p) = before
  <2>1. /\ SubSeq(b, 1, p) \in Seq(Batches)
        /\ Len(SubSeq(b, 1, p)) = IF 1 <= p THEN p - 1 + 1 ELSE 0
        /\ \A j \in 1..p - 1 + 1 : SubSeq(b, 1, p)[j] = b[1 + j - 1]
    BY <1>5, <1>11, SubSeqOfSeq
  <2>2. Len(SubSeq(b, 1, p)) = p /\ \A j \in 1..p : SubSeq(b, 1, p)[j] = b[j]
    BY <2>1, <1>11
  <2>3. ASSUME NEW j \in 1..p PROVE b[j] = before[j]
    <3>1. j \in 1..n + Len(batches) BY <1>3, <1>5, <1>11
    <3>2. CASE j <= n BY <1>5, <1>12, <3>1, <3>2
    <3>3. CASE ~(j <= n)
      <4>1. j - n \in 1..k - 1 BY <1>3, <1>11, <3>3
      <4>2. head[j - n] = batches[j - n] BY <1>10, <4>1
      <4>3. QED BY <1>5, <1>12, <3>1, <3>3, <4>2
    <3>4. QED BY <3>2, <3>3
  <2>4. QED BY <1>12, <2>1, <2>2, <2>3, SeqEqual
<1>15. b[p + 1] = batches[k]
  <2>1. p + 1 \in 1..n + Len(batches) /\ ~(p + 1 <= n) /\ p + 1 - n = k
    BY <1>3, <1>5, <1>11
  <2>2. PICK j : j = p + 1 OBVIOUS
  <2>3. b[j] = batches[j - n] BY <1>5, <2>1, <2>2
  <2>4. j - n = k BY <1>3, <1>11, <2>1, <2>2
  <2>5. QED BY <2>2, <2>3, <2>4
<1>16. QED BY <1>5, <1>6, <1>11, <1>12, <1>14, <1>15 DEF b, p, before, Digests

\* do_execute: every reply tells the log up to and including its request.
LEMMA RepliesAnswer ==
  ASSUME NEW r \in Live, NEW d \in Digests, Applied(r, d) \in Digests,
         app[r] \in Digests, app'[r] = app[r] \o Applied(r, d),
         NEW x \in Replies(r, d)
  PROVE  Answer(x.to, x.msg, app')
<1> DEFINE batches == Applied(r, d)
           before(k) == app[r] \o SubSeq(batches, 1, k - 1)
           reply(k, i) ==
              Datagram(batches[k][i].client,
                       ReplyMsg(batches[k][i].num,
                                Result(before(k), batches[k], i), d, r))
<1>0. PICK k \in 1..Len(batches) :
               \E i \in 1..Len(batches[k]) : x = reply(k, i)
  <2> HIDE DEF reply
  <2>1. Replies(r, d) = UNION {{reply(k, i) : i \in 1..Len(batches[k])} :
                                  k \in 1..Len(batches)}
    BY DEF Replies, reply
  <2>2. QED BY <2>1
<1>1. PICK i \in 1..Len(batches[k]) : x = reply(k, i) BY <1>0
<1> DEFINE b == app[r] \o batches
           up == SubSeq(batches[k], 1, i)
           log == Append(before(k), up)
           p == Len(app[r]) + k - 1
<1>2. /\ x.to = batches[k][i].client /\ x.msg.num = batches[k][i].num
      /\ x.msg.replica = r
      /\ x.msg.result.before = before(k) /\ x.msg.result.upto = up
  BY <1>1 DEF Datagram, ReplyMsg, Result
<1>4. app'[r] = b OBVIOUS
<1>5. batches \in Digests /\ k \in 1..Len(batches) OBVIOUS
<1>10. x.msg.result = [before |-> before(k), upto |-> up]
  BY <1>1 DEF Datagram, ReplyMsg, Result
<1> HIDE DEF batches
<1>6. /\ p \in Nat /\ p + 1 <= Len(b)
      /\ before(k) \in Digests /\ Len(before(k)) = p
      /\ SubSeq(b, 1, p) = before(k)
      /\ b[p + 1] = batches[k]
      /\ batches[k] \in Batches
  BY <1>5, AppliedBatch
<1>7. batches[k] \in Seq(RequestRecords) /\ Len(batches[k]) \in Nat
      /\ i \in Nat /\ i >= 1 /\ i <= Len(batches[k])
  BY <1>6, LenProperties DEF Batches
<1>8. batches[k][i] \in RequestRecords BY <1>7, ElementOfSeq
<1>9. /\ up \in Seq(RequestRecords) /\ Len(up) = i
      /\ up[i] = batches[k][i]
  <2>1. /\ SubSeq(batches[k], 1, i) \in Seq(RequestRecords)
        /\ Len(SubSeq(batches[k], 1, i)) = IF 1 <= i THEN i - 1 + 1 ELSE 0
        /\ \A j \in 1..i - 1 + 1 : SubSeq(batches[k], 1, i)[j] = batches[k][1 + j - 1]
    BY <1>7, SubSeqOfSeq
  <2>2. QED BY <1>7, <2>1
<1> HIDE DEF before, up, b, p
<1>13. /\ Len(log) = p + 1 /\ log[p + 1] = up
       /\ BlockRequests(log) = up
  <2>1. Len(log) = p + 1 /\ log[p + 1] = up
    BY <1>6, AppendProperties DEF Digests
  <2>2. QED BY <2>1 DEF BlockRequests
<1>16. ExecutedIn(b, log)
  <2>1. p + 1 - 1 = p BY <1>6
  <2>2. PICK q : q = log OBVIOUS
  <2>3. SubSeq(b[p + 1], 1, Len(up)) = up BY <1>9, <1>6 DEF up
  <2>4. q = Append(SubSeq(b, 1, p), SubSeq(b[p + 1], 1, Len(up)))
    BY <2>2, <2>3, <1>6
  <2>5. Len(q) = p + 1 /\ q[p + 1] = up BY <1>13, <2>2
  <2>6. p + 1 <= Len(b) /\ p \in Nat BY <1>6
  <2>7. ExecutedIn(b, q) BY <2>1, <2>4, <2>5, <2>6 DEF ExecutedIn
  <2>8. QED BY <2>2, <2>7
<1>17. BlockRequests(log)[Len(BlockRequests(log))] = Request(x.to, x.msg.num)
  <2>1. batches[k][i] = [client |-> batches[k][i].client, num |-> batches[k][i].num]
    BY <1>8 DEF RequestRecords
  <2>2. QED BY <2>1, <1>2, <1>9, <1>13 DEF Request
<1>18. AnsweredIn(b, Request(x.to, x.msg.num), x.msg.result)
  <2>1. PICK h : h = p + 1 OBVIOUS
  <2>2. h \in 1..Len(b) /\ h - 1 = p
    <3>1. Len(b) \in Nat BY <1>4, <1>5, <1>6, LenProperties DEF b, Digests
    <3>2. QED BY <2>1, <3>1, <1>6
  <2>3. b[h] = batches[k] /\ i \in 1..Len(b[h]) BY <1>6, <2>1
  <2>4. b[h][i] = Request(x.to, x.msg.num)
    BY <1>2, <1>8, <2>3 DEF Request, RequestRecords
  <2>5. x.msg.result = [before |-> SubSeq(b, 1, h - 1), upto |-> SubSeq(b[h], 1, i)]
    <3>1. x.msg.result = [before |-> before(k), upto |-> up] BY <1>10
    <3>2. before(k) = SubSeq(b, 1, h - 1) BY <1>6, <2>2
    <3>3. up = SubSeq(b[h], 1, i) BY <2>3 DEF up
    <3>4. QED BY <3>1, <3>2, <3>3
  <2>6. QED BY <2>2, <2>3, <2>4, <2>5 DEF AnsweredIn
<1>19. QED BY <1>2, <1>4, <1>16, <1>17, <1>18 DEF Answer

\* So everything do_execute sends is an answer to its client.
LEMMA ReplyOutAnswers ==
  ASSUME NEW t \in Digests, ExecutionTypeOK, NEW r \in Live, NEW d \in Digests,
         NEW held,
         Len(d) > 0, IsAncestor(d, t), OnOneChain(chain[r], app[r], t),
         DoExecute(r, d, held)
  PROVE  /\ ReplyOut(r, d, held) \subseteq [to : Clients, msg : ReplyMsgs]
         /\ \A x \in ReplyOut(r, d, held) : Answer(x.to, x.msg, app')
<1>1. CASE Panic(r, d, held) /= "no" BY <1>1 DEF ReplyOut
<1>2. CASE Panic(r, d, held) = "no"
  <2>1. app[r] \in Digests /\ Applied(r, d) \in Digests
    BY LiveAssumption, AppliedProperties DEF ExecutionTypeOK
  <2>2. app'[r] = app[r] \o Applied(r, d)
    BY <1>2, LiveAssumption DEF DoExecute, ExecutionTypeOK
  <2>3. \A x \in Replies(r, d) : Answer(x.to, x.msg, app')
    BY <2>1, <2>2, RepliesAnswer
  <2>4. QED BY <1>2, <2>1, <2>3, RepliesType DEF ReplyOut
<1>3. QED BY <1>1, <1>2

\* Client::handle: when it completes an invocation, then with the answer of the
\* log the clients see.
LEMMA HandleResponds ==
  ASSUME NEW M, NEW O, NetTypeOK(M, O), Served, NEW t \in Digests,
         \A i \in Replicas : app[i] \in Digests /\ IsAncestor(app[i], t),
         NEW c \in Clients, NEW m, ClientHandle(c, m)
  PROVE  Responded(c, Log) \/ UNCHANGED <<request_num, invoke, results>>
<1>1. CASE UNCHANGED clientVars BY <1>1 DEF clientVars
<1>2. CASE Collect(c, m) BY <1>2 DEF Collect
<1>3. CASE Expected(c, m) /\ Consume(c, m)
  <2>1. Datagram(c, m) \in net BY DEF ClientHandle, ClientReceives
  <2>2. m \in ReplyMsgs /\ Answer(c, m, app)
    <3>1. PICK x \in net : x.to = c /\ x.msg = m BY <2>1 DEF Datagram
    <3>2. x.msg \in ReplyMsgs
      BY <3>1, ClientsAssumption, NetTypeDef DEF Datagrams
    <3>3. QED BY <3>1, <3>2 DEF Served
  <2>3. PICK r \in Replicas : r = m.replica
    BY <2>2, LiveAssumption DEF ReplyMsgs
  <2>4. AnsweredIn(app[r], Request(c, request_num[c]), m.result)
    BY <1>3, <2>2, <2>3 DEF Answer, Expected
  <2>5. AnsweredIn(Log, Request(c, request_num[c]), m.result)
    BY <2>4, LogAnswers
  <2>6. QED BY <1>3, <2>5 DEF Responded, Consume, Expected
<1>4. QED BY <1>1, <1>2, <1>3 DEF ClientHandle

\* A step of replica r that executes nothing and sends replicas only.
LEMMA ServedByQuiet ==
  ASSUME NEW M, NEW O, NetTypeOK(M, O), ClientTypeOK, Served, ExecutionTypeOK,
         app' = app, ExecutionTypeOK', UNCHANGED clientVars,
         NEW out, net' \subseteq net \cup out,
         \A x \in out : x.to \in Replicas
  PROVE  Served'
<1>1. \A i \in Replicas : IsAncestor(app[i], app'[i])
  BY AncestorReflexive DEF ExecutionTypeOK, Digests
<1>2. \A x \in out : x.to \in Clients => Answer(x.to, x.msg, app')
  BY ClientsAssumption
<1>3. QED BY <1>1, <1>2, ServedByReplica
=============================================================================
