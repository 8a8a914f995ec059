--------------------------- MODULE HotStuffProofs ---------------------------
(***************************************************************************)
(* Theorems of HotStuff: its replicas agree, a quorum has locked what one  *)
(* of them executed, a block waits only while one it needs is missing, the *)
(* clients consume what was executed, and no replica panics if no datagram *)
(* arrives twice.  On any network it implements ReplicatedLog.             *)
(*                                                                         *)
(* The argument.  One replica proposes, each time on its last block, so    *)
(* every block is on one chain (Tip ends it), and two blocks of one height *)
(* are one block.  A handler's work on the record of a replica's fields is *)
(* followed block by block: it stays Fit, its blocks on the chain and its  *)
(* messages true.  A vote for d tells that its sender has locked the       *)
(* grandparent of d, and every block but the last has a quorum of votes    *)
(* (Certain); what is executed has three blocks above it, so a quorum has  *)
(* locked it.  Blocks are put aside under their missing parent (Aside),    *)
(* and one that is inserted takes with it all that wait for it, directly   *)
(* or not.  Without duplicates a replica inserts the blocks of the chain   *)
(* once, in the order of their heights (Steady), and the primary has those *)
(* that it gets votes for (OwnIn).                                         *)
(*                                                                         *)
(* The primary alone is steady on any network: it is sent no Generic and   *)
(* counts a vote once.  A request that it accepts follows all that it has  *)
(* executed of its client (Succeeds, Overtakes), so that the last request  *)
(* it has noted of each client (Latest) is enough to know the ones that    *)
(* arrive again, and each is in one block (RequestsOnce).                  *)
(***************************************************************************)
EXTENDS HotStuff, ExecutionProofs, FiniteSetTheorems

Tip == chain[Primary].digest_parent

\* d is a block the primary proposed.
OnChain(d) == d \in Digests /\ Len(d) > 0 /\ IsAncestor(d, Tip)

GenericMsgs == [kind : {"Generic"}, digest : Digests]
VoteMsgs == [kind : {"Vote"}, digest : Digests, replica : Live]
OwnMessages == GenericMsgs \cup VoteMsgs
Msgs == RequestMsgs \cup OwnMessages

Replied == [Clients -> [num : 0..MaxRequestNum, reply : SUBSET ReplyMsgs]]
Waits == UNION {[K -> Seq(Digests)] : K \in SUBSET Digests}

\* The types of a replica's fields and of what its handler sends.
ReplicaFields ==
    [generics : SUBSET Digests, view_height : Nat,
     lock : Digests, certified : Digests,
     chain : Chains, app : Digests, replied : Replied,
     panicked : {"no", "index", "conflict"},
     votes : Seq(VoteMsgs), replies : SUBSET [to : Clients, msg : ReplyMsgs]]

\* The blocks of a replica are on the chain that ends in t, and three of them
\* follow what it has executed.
Follows(s, t) ==
    /\ \A d \in s.generics : IsAncestor(d, t)
    /\ IsAncestor(s.lock, t) /\ IsAncestor(s.certified, t)
    /\ s.app = s.chain.digest_execute /\ IsAncestor(s.app, t)
    /\ Len(s.app) > 0 => Len(s.app) + 3 <= Len(t)

\* A vote for d tells that its sender has locked the grandparent of d.
Locked(d, lock) == IsAncestor(Parent(Parent(d)), lock)

\* The reply m to c tells what replica r, whose application is at a, executed.
Told(c, m, r, a) ==
    LET log == Append(m.result.before, m.result.upto) IN
    /\ m.replica = r
    /\ BlockRequests(log)[Len(BlockRequests(log))] = Request(c, m.num)
    /\ ExecutedIn(a, log)
    /\ AnsweredIn(a, Request(c, m.num), m.result)

\* What a replica says is true of it.
Truthful(s, r, t) ==
    /\ \A v \in Range(s.votes) :
          /\ v.replica = r /\ Len(v.digest) > 0 /\ IsAncestor(v.digest, t)
          /\ Locked(v.digest, s.lock)
    /\ \A x \in s.replies : Told(x.to, x.msg, r, s.app)
    /\ \A c \in Clients : \A x \in s.replied[c].reply : Told(c, x, r, s.app)

Fit(s, r, t) == s \in ReplicaFields /\ Follows(s, t) /\ Truthful(s, r, t)

\* What is noted of a client's last request is as it was, or of a request that
\* was executed in between.
Updated(s, u) ==
    \A c \in Clients :
        \/ u.replied[c].num = s.replied[c].num
        \/ \E h \in Len(s.app) + 1 .. Len(u.app) : \E q \in Items(u.app[h]) :
              q.client = c /\ q.num = u.replied[c].num

\* What a replica's fields may become while it inserts blocks.
Grows(s, u, t) ==
    /\ s.generics \subseteq u.generics
    /\ IsAncestor(s.app, u.app) /\ IsAncestor(s.lock, u.lock)
    /\ u.chain.digest_parent = s.chain.digest_parent
    /\ u.certified = s.certified \/ Len(u.certified) < Len(t)
    /\ Updated(s, u)
-----------------------------------------------------------------------------
\* The parent of a block on a chain; genesis is its own.
LEMMA ParentOnChain ==
  ASSUME NEW t \in Digests, NEW d \in Digests, IsAncestor(d, t)
  PROVE  /\ Parent(d) \in Digests
         /\ IsAncestor(Parent(d), d) /\ IsAncestor(Parent(d), t)
         /\ Len(d) \in Nat /\ Len(t) \in Nat /\ Len(d) <= Len(t)
         /\ Len(Parent(d)) = IF Len(d) = 0 THEN 0 ELSE Len(d) - 1
         /\ Len(d) = 0 <=> d = Genesis
<1>1. d \in Seq(Batches) /\ t \in Seq(Batches) BY DEF Digests
<1>2. Len(d) \in Nat /\ Len(t) \in Nat /\ Len(d) <= Len(t)
  BY <1>1, LenProperties DEF IsAncestor
<1>3. Len(d) = 0 <=> d = Genesis BY <1>1, EmptySeq DEF Genesis
<1>4. CASE Len(d) = 0
  <2>1. d = <<>> BY <1>3, <1>4 DEF Genesis
  <2>2. Parent(d) = <<>>
    <3>1. Len(d) - 1 = -1 BY <1>4
    <3>2. SubSeq(<<>>, 1, -1) = <<>> OBVIOUS
    <3>3. QED BY <2>1, <3>1, <3>2 DEF Parent
  <2>3. Parent(d) = d /\ IsAncestor(d, d) BY <1>1, <2>1, <2>2, AncestorReflexive
  <2>4. QED BY <1>2, <1>3, <1>4, <2>3
<1>5. CASE Len(d) > 0
  <2>1. /\ Parent(d) \in Seq(Batches) /\ Len(Parent(d)) = Len(d) - 1
        /\ IsAncestor(Parent(d), d)
    BY <1>1, <1>5, ParentProperties
  <2>2. IsAncestor(Parent(d), t) BY <1>1, <2>1, AncestorTransitive
  <2>3. QED BY <1>2, <1>3, <1>5, <2>1, <2>2 DEF Digests
<1>6. QED BY <1>2, <1>4, <1>5

\* The higher of two blocks on a chain is above both.
LEMMA HigherOnChain ==
  ASSUME NEW t \in Digests, NEW a \in Digests, NEW b \in Digests,
         IsAncestor(a, t), IsAncestor(b, t)
  PROVE  /\ Higher(a, b) \in Digests /\ IsAncestor(Higher(a, b), t)
         /\ IsAncestor(a, Higher(a, b)) /\ IsAncestor(b, Higher(a, b))
         /\ Higher(a, b) \in {a, b}
<1>1. /\ a \in Seq(Batches) /\ b \in Seq(Batches) /\ t \in Seq(Batches)
      /\ Len(a) \in Nat /\ Len(b) \in Nat
  BY LenProperties DEF Digests
<1>2. CASE Len(a) > Len(b)
  <2>1. IsAncestor(b, a) BY <1>1, <1>2, AncestorsOfOne
  <2>2. QED BY <1>1, <1>2, <2>1, AncestorReflexive DEF Higher
<1>3. CASE ~(Len(a) > Len(b))
  <2>1. IsAncestor(a, b) BY <1>1, <1>3, AncestorsOfOne
  <2>2. QED BY <1>1, <1>3, <2>1, AncestorReflexive DEF Higher
<1>4. QED BY <1>2, <1>3

\* A reply stays true while the application goes on.
LEMMA ToldKept ==
  ASSUME NEW a \in Digests, NEW b \in Digests, IsAncestor(a, b),
         NEW c, NEW m \in ReplyMsgs, NEW r, Told(c, m, r, a)
  PROVE  Told(c, m, r, b)
<1> DEFINE log == Append(m.result.before, m.result.upto)
<1>1. m.result \in ReplicaResults BY DEF ReplyMsgs
<1>2. log \in Digests /\ Len(log) > 0 BY <1>1, ResultLog
<1>3. ExecutedIn(a, log) BY DEF Told
<1>4. ExecutedIn(b, log) BY <1>2, <1>3, ExecutedInKept
<1>5. AnsweredIn(b, Request(c, m.num), m.result)
  <2>1. AnsweredIn(a, Request(c, m.num), m.result) BY DEF Told
  <2>2. QED BY <2>1, AnsweredKept
<1>6. QED BY <1>4, <1>5 DEF Told

\* insert_generic up to do_update's commit: what is voted for, certified and
\* locked.
Noted(r, s, d) ==
    [Voted(r, [s EXCEPT !.generics = @ \cup {d}], d) EXCEPT
        !.certified = Higher(Certified(d), @),
        !.lock = Higher(Certified(Certified(d)), @)]

LEMMA NotedFields ==
  ASSUME NEW r \in Live, NEW s \in ReplicaFields, NEW d \in Digests,
         NEW u, u = Noted(r, s, d)
  PROVE  /\ u.generics = s.generics \cup {d}
         /\ u.lock = Higher(Parent(Parent(d)), s.lock)
         /\ u.certified = Higher(Parent(d), s.certified)
         /\ u.chain = s.chain /\ u.app = s.app /\ u.replied = s.replied
         /\ u.panicked = s.panicked /\ u.replies = s.replies
         /\ u.votes \in Seq(VoteMsgs)
         /\ Range(u.votes) \subseteq Range(s.votes) \cup {VoteMsg(d, r)}
         /\ u.lock \in Digests /\ u.certified \in Digests => u \in ReplicaFields
<1> DEFINE v == [s EXCEPT !.generics = @ \cup {d}]
           w == Voted(r, v, d)
<1>1. v \in ReplicaFields /\ v = [s EXCEPT !.generics = s.generics \cup {d}]
  BY DEF ReplicaFields
<1>2. /\ w \in ReplicaFields
      /\ w.generics = s.generics \cup {d} /\ w.lock = s.lock
      /\ w.certified = s.certified /\ w.chain = s.chain /\ w.app = s.app
      /\ w.replied = s.replied /\ w.panicked = s.panicked
      /\ w.replies = s.replies
      /\ w.votes \in Seq(VoteMsgs)
      /\ Range(w.votes) \subseteq Range(s.votes) \cup {VoteMsg(d, r)}
  <2>1. CASE ~MayVote(v, d)
    <3>1. w = v BY <2>1 DEF Voted
    <3>2. QED BY <1>1, <3>1 DEF ReplicaFields
  <2>2. CASE MayVote(v, d)
    <3>1. PICK e : e = VoteMsg(d, r) OBVIOUS
    <3>2. e \in VoteMsgs BY <3>1 DEF VoteMsg, VoteMsgs
    <3>3. Len(d) \in Nat BY LenProperties DEF Digests
    <3>4. s.votes \in Seq(VoteMsgs) BY DEF ReplicaFields
    <3>5. /\ Append(s.votes, e) \in Seq(VoteMsgs)
          /\ Range(Append(s.votes, e)) \subseteq Range(s.votes) \cup {e}
      <4>1. PICK q : q = s.votes OBVIOUS
      <4>2. PICK p : p = Append(q, e) OBVIOUS
      <4>3. /\ q \in Seq(VoteMsgs) /\ Len(q) \in Nat
            /\ p \in Seq(VoteMsgs) /\ Len(p) = Len(q) + 1
            /\ \A i \in 1..Len(q) : p[i] = q[i]
            /\ p[Len(q) + 1] = e
        BY <3>2, <3>4, <4>1, <4>2, AppendProperties, LenProperties
      <4>4. DOMAIN p = 1..Len(q) + 1 /\ DOMAIN q = 1..Len(q)
        BY <4>3, LenProperties
      <4>5. \A i \in DOMAIN p : i \in DOMAIN q \/ i = Len(q) + 1 BY <4>3, <4>4
      <4>6. QED BY <4>1, <4>2, <4>3, <4>4, <4>5 DEF Range
    <3>6. w = [v EXCEPT !.view_height = Len(d), !.votes = Append(s.votes, e)]
      BY <1>1, <2>2, <3>1 DEF Voted, ReplicaFields
    <3>7. QED BY <1>1, <3>1, <3>3, <3>5, <3>6 DEF ReplicaFields
  <2>3. QED BY <2>1, <2>2
<1> HIDE DEF w
<1>3. u = [w EXCEPT !.certified = Higher(Parent(d), s.certified),
                    !.lock = Higher(Parent(Parent(d)), s.lock)]
  BY <1>2 DEF Noted, Certified, w
<1>4. QED BY <1>2, <1>3 DEF ReplicaFields

\* A vote, and what is certified and locked with it, is sound.
LEMMA NotedFits ==
  ASSUME NEW r \in Live, NEW t \in Digests, NEW s, Fit(s, r, t),
         NEW d \in Digests, Len(d) > 0, IsAncestor(d, t),
         NEW u, u = Noted(r, s, d)
  PROVE  Fit(u, r, t) /\ Grows(s, u, t)
<1>1. PICK d2 : d2 = Parent(d) OBVIOUS
<1>2. PICK d1 : d1 = Parent(d2) OBVIOUS
<1>3. /\ s \in ReplicaFields /\ Follows(s, t) /\ Truthful(s, r, t)
      /\ s.lock \in Digests /\ s.certified \in Digests /\ s.app \in Digests
  BY DEF Fit, ReplicaFields
<1>4. /\ d2 \in Digests /\ IsAncestor(d2, t)
      /\ Len(d2) = Len(d) - 1 /\ Len(d) \in Nat /\ Len(t) \in Nat
      /\ Len(d) <= Len(t)
  BY <1>1, ParentOnChain
<1>5. d1 \in Digests /\ IsAncestor(d1, t) BY <1>2, <1>4, ParentOnChain
<1>6. PICK l : l = Higher(d1, s.lock) OBVIOUS
<1>7. PICK c : c = Higher(d2, s.certified) OBVIOUS
<1>8. IsAncestor(s.lock, t) /\ IsAncestor(s.certified, t)
  BY <1>3 DEF Follows
<1>9. /\ l \in Digests /\ IsAncestor(l, t)
      /\ IsAncestor(d1, l) /\ IsAncestor(s.lock, l)
  BY <1>3, <1>5, <1>6, <1>8, HigherOnChain
<1>10. c \in Digests /\ IsAncestor(c, t) /\ c \in {d2, s.certified}
  BY <1>3, <1>4, <1>7, <1>8, HigherOnChain
<1>11. /\ u.generics = s.generics \cup {d} /\ u.lock = l /\ u.certified = c
       /\ u.chain = s.chain /\ u.app = s.app /\ u.replied = s.replied
       /\ u.replies = s.replies
       /\ Range(u.votes) \subseteq Range(s.votes) \cup {VoteMsg(d, r)}
       /\ u \in ReplicaFields
  BY <1>1, <1>2, <1>3, <1>6, <1>7, <1>9, <1>10, NotedFields
<1>12. Follows(u, t) BY <1>3, <1>9, <1>10, <1>11 DEF Follows
<1>13. Truthful(u, r, t)
  <2>1. ASSUME NEW v \in Range(u.votes)
        PROVE  /\ v.replica = r /\ Len(v.digest) > 0 /\ IsAncestor(v.digest, t)
               /\ Locked(v.digest, l)
    <3>1. CASE v = VoteMsg(d, r)
      BY <1>1, <1>2, <1>9, <3>1 DEF VoteMsg, Locked
    <3>2. CASE v \in Range(s.votes)
      <4>1. v \in VoteMsgs
        <5>1. s.votes \in Seq(VoteMsgs) BY <1>3 DEF ReplicaFields
        <5>2. QED BY <3>2, <5>1, ElementOfSeq, LenProperties DEF Range
      <4>2. /\ v.digest \in Digests /\ v.replica = r /\ Len(v.digest) > 0
            /\ IsAncestor(v.digest, t) /\ Locked(v.digest, s.lock)
        BY <1>3, <3>2, <4>1 DEF Truthful, VoteMsgs
      <4>3. PICK e : e = Parent(v.digest) OBVIOUS
      <4>4. e \in Digests /\ IsAncestor(e, t) BY <4>2, <4>3, ParentOnChain
      <4>5. Parent(e) \in Digests BY <4>4, ParentOnChain
      <4>6. IsAncestor(Parent(e), l)
        BY <1>3, <1>9, <4>2, <4>3, <4>5, AncestorTransitive
        DEF Locked, Digests
      <4>7. QED BY <4>2, <4>3, <4>6 DEF Locked
    <3>3. QED BY <1>11, <2>1, <3>1, <3>2
  <2>2. QED BY <1>3, <1>11, <2>1 DEF Truthful
<1>14. Grows(s, u, t)
  <2>1. IsAncestor(s.app, s.app) BY <1>3, AncestorReflexive DEF Digests
  <2>2. c = s.certified \/ Len(c) < Len(t) BY <1>4, <1>10
  <2>3. Updated(s, u) BY <1>11 DEF Updated
  <2>4. QED BY <1>9, <1>11, <2>1, <2>2, <2>3 DEF Grows
<1>15. QED BY <1>11, <1>12, <1>13, <1>14 DEF Fit

\* A block is its parent and its requests.
LEMMA ParentAndRequests ==
  ASSUME NEW d \in Digests, Len(d) > 0
  PROVE  /\ Append(Parent(d), BlockRequests(d)) = d
         /\ BlockRequests(d) \in Batches
         /\ Parent(d) \in Digests /\ Len(Parent(d)) = Len(d) - 1
         /\ IsAncestor(Parent(d), d)
<1>1. d \in Seq(Batches) /\ Len(d) \in Nat BY LenProperties DEF Digests
<1>2. PICK n : n = Len(d) OBVIOUS
<1>3. PICK p : p = Parent(d) OBVIOUS
<1>4. PICK b : b = d[n] OBVIOUS
<1>5. b \in Batches BY <1>1, <1>2, <1>4, ElementOfSeq
<1>6. p \in Seq(Batches) /\ Len(p) = n - 1 /\ IsAncestor(p, d)
  BY <1>1, <1>2, <1>3, ParentProperties
<1>7. \A i \in 1..n - 1 : p[i] = d[i] BY <1>1, <1>6, AncestorDef
<1>8. PICK q : q = Append(p, b) OBVIOUS
<1>9. /\ q \in Seq(Batches) /\ Len(q) = Len(p) + 1
      /\ \A i \in 1..Len(p) : q[i] = p[i]
      /\ q[Len(p) + 1] = b
  BY <1>5, <1>6, <1>8, AppendProperties
<1>10. Len(q) = n /\ \A i \in 1..n : q[i] = d[i]
  <2>1. Len(q) = n /\ n \in Nat BY <1>1, <1>2, <1>6, <1>9
  <2>2. ASSUME NEW i \in 1..n PROVE q[i] = d[i]
    <3>1. CASE i = n BY <1>1, <1>2, <1>4, <1>6, <1>9, <3>1
    <3>2. CASE i /= n
      <4>1. i \in 1..n - 1 BY <2>1, <3>2
      <4>2. QED BY <1>6, <1>7, <1>9, <4>1
    <3>3. QED BY <3>1, <3>2
  <2>3. QED BY <2>1, <2>2
<1>11. q = d BY <1>1, <1>2, <1>9, <1>10, SeqEqual
<1>12. BlockRequests(d) = b BY <1>2, <1>4 DEF BlockRequests
<1>13. QED BY <1>2, <1>3, <1>5, <1>6, <1>8, <1>11, <1>12 DEF Digests

\* The reply to request i of block d, sent when d has just been executed.
LEMMA ReplyTold ==
  ASSUME NEW r \in Live, NEW d \in Digests, Len(d) > 0,
         NEW batch, batch = BlockRequests(d), NEW i \in 1..Len(batch),
         NEW m, m = ReplyMsg(batch[i].num, Result(Parent(d), batch, i),
                             Genesis, r)
  PROVE  /\ m \in ReplyMsgs
         /\ batch[i].client \in Clients /\ batch[i].num \in 0..MaxRequestNum
         /\ Told(batch[i].client, m, r, d)
<1>1. PICK a : a = Parent(d) OBVIOUS
<1>2. PICK n : n = Len(a) OBVIOUS
<1>3. /\ Append(a, batch) = d /\ batch \in Batches /\ a \in Digests
      /\ n = Len(d) - 1 /\ Len(d) \in Nat /\ IsAncestor(a, d)
  BY <1>1, <1>2, ParentAndRequests, LenProperties DEF Digests
<1>4. /\ batch \in Seq(RequestRecords) /\ Len(batch) \in Nat
      /\ i \in Nat /\ i >= 1 /\ i <= Len(batch)
  BY <1>3, LenProperties DEF Batches
<1>5. batch[i] \in RequestRecords BY <1>4, ElementOfSeq
<1>6. PICK up : up = SubSeq(batch, 1, i) OBVIOUS
<1>7. up \in Seq(RequestRecords) /\ Len(up) = i /\ up[i] = batch[i]
  <2>1. /\ up \in Seq(RequestRecords)
        /\ Len(up) = IF 1 <= i THEN i - 1 + 1 ELSE 0
        /\ \A j \in 1..i - 1 + 1 : up[j] = batch[1 + j - 1]
    BY <1>4, <1>6, SubSeqOfSeq
  <2>2. QED BY <1>4, <2>1
<1>8. up \in Batches
  <2>1. Len(batch) \in 0..MaxBatchSize BY <1>3 DEF Batches
  <2>2. QED BY <1>4, <1>7, <2>1, MaxBatchAssumption DEF Batches
<1>9. m.result = [before |-> a, upto |-> up] /\ m.num = batch[i].num
      /\ m.replica = r
  BY <1>1, <1>6 DEF ReplyMsg, Result
<1>10. m \in ReplyMsgs
  <2>1. Genesis \in Digests BY EmptySeq DEF Genesis, Digests
  <2>2. batch[i].num \in 1..MaxRequestNum BY <1>5 DEF RequestRecords
  <2>3. QED
    BY <1>1, <1>3, <1>6, <1>8, <2>1, <2>2
    DEF ReplyMsg, ReplyMsgs, Result, ReplicaResults
<1>11. PICK log : log = Append(a, up) OBVIOUS
<1>12. /\ Len(log) = n + 1 /\ log[n + 1] = up /\ n \in Nat
  BY <1>2, <1>3, <1>8, <1>11, AppendProperties, LenProperties DEF Digests
<1>13. BlockRequests(log) = up BY <1>12 DEF BlockRequests
<1>14. ExecutedIn(d, log)
  <2>1. n + 1 - 1 = n /\ n + 1 = Len(d) BY <1>3, <1>12
  <2>2. SubSeq(d, 1, n) = a BY <1>2, <1>3 DEF IsAncestor
  <2>3. d[n + 1] = batch
    <3>1. Append(a, batch)[Len(a) + 1] = batch
      BY <1>3, AppendProperties DEF Digests
    <3>2. QED BY <1>2, <1>3, <3>1
  <2>4. log = Append(SubSeq(d, 1, n), SubSeq(d[n + 1], 1, Len(up)))
    BY <1>6, <1>7, <1>11, <2>2, <2>3
  <2>5. Len(d) <= Len(d) BY <1>3
  <2>6. QED BY <1>12, <2>1, <2>4, <2>5 DEF ExecutedIn
<1>15. BlockRequests(log)[Len(BlockRequests(log))]
         = Request(batch[i].client, m.num)
  <2>1. batch[i] = [client |-> batch[i].client, num |-> batch[i].num]
    BY <1>5 DEF RequestRecords
  <2>2. QED BY <1>7, <1>9, <1>13, <2>1 DEF Request
<1>16. m.result.before = a /\ m.result.upto = up BY <1>9
<1>17. AnsweredIn(d, Request(batch[i].client, m.num), m.result)
  <2>1. PICK k : k = Len(d) OBVIOUS
  <2>2. k \in 1..Len(d) /\ k - 1 = n BY <1>3, <1>12, <2>1
  <2>3. d[k] = batch
    <3>1. Append(a, batch)[Len(a) + 1] = batch
      BY <1>3, AppendProperties DEF Digests
    <3>2. n + 1 = k BY <1>12, <2>2
    <3>3. QED BY <1>2, <1>3, <3>1, <3>2
  <2>4. i \in 1..Len(d[k]) BY <2>3
  <2>5. d[k][i] = Request(batch[i].client, m.num)
    BY <1>5, <1>9, <2>3 DEF Request, RequestRecords
  <2>6. m.result = [before |-> SubSeq(d, 1, k - 1), upto |-> SubSeq(d[k], 1, i)]
    BY <1>2, <1>3, <1>6, <1>9, <2>2, <2>3 DEF IsAncestor
  <2>7. QED BY <2>2, <2>4, <2>5, <2>6 DEF AnsweredIn
<1>18. Told(batch[i].client, m, r, d)
  BY <1>9, <1>11, <1>14, <1>15, <1>16, <1>17 DEF Told
<1>19. batch[i].client \in Clients /\ batch[i].num \in 0..MaxRequestNum
  BY <1>5, MaxRequestAssumption DEF RequestRecords
<1>20. QED BY <1>10, <1>18, <1>19

\* A set of positions of a sequence has a last one.
LEMMA LastPosition ==
  ASSUME NEW n \in Nat, NEW P \in SUBSET (1..n), P /= {}
  PROVE  (CHOOSE i \in P : \A j \in P : j <= i) \in P
<1>1. PICK T : T = {n - i : i \in P} OBVIOUS
<1>2. T \in SUBSET Nat /\ T /= {}
  <2>1. \A i \in P : n - i \in Nat OBVIOUS
  <2>2. QED BY <1>1, <2>1
<1>3. PICK k \in T : \A l \in T : k <= l BY <1>2, LeastHeight
<1>4. PICK i \in P : k = n - i BY <1>1
<1>5. ASSUME NEW j \in P PROVE j <= i
  <2>1. n - j \in T BY <1>1
  <2>2. k <= n - j /\ i \in 1..n /\ j \in 1..n BY <1>3, <2>1
  <2>3. QED BY <1>4, <2>2
<1>6. QED BY <1>5

\* What do_update's commit leaves of a replica's fields.
LEMMA ExecuteFields ==
  ASSUME NEW r \in Live, NEW s \in ReplicaFields, NEW d \in Digests, Len(d) > 0,
         s.app = s.chain.digest_execute, NEW u, u = Execute(r, s, d)
  PROVE  /\ u \in ReplicaFields
         /\ u.generics = s.generics /\ u.lock = s.lock
         /\ u.certified = s.certified /\ u.votes = s.votes
         /\ u.chain.digest_parent = s.chain.digest_parent
         /\ u.app = u.chain.digest_execute
         /\ \/ /\ ~Extends(s.chain, d)
               /\ u.app = s.app /\ u.replied = s.replied
               /\ u.replies = s.replies /\ u.panicked = "conflict"
            \/ /\ Extends(s.chain, d)
               /\ u.app = d /\ u.panicked = s.panicked
               /\ \A x \in u.replies : x \in s.replies \/ Told(x.to, x.msg, r, d)
               /\ \A c \in Clients : \A x \in u.replied[c].reply :
                     x \in s.replied[c].reply \/ Told(c, x, r, d)
               /\ \A c \in Clients :
                     \/ u.replied[c].num = s.replied[c].num
                     \/ \E q \in Items(BlockRequests(d)) :
                           q.client = c /\ q.num = u.replied[c].num
<1> DEFINE batch == BlockRequests(d)
           reply(i) == ReplyMsg(batch[i].num, Result(s.app, batch, i), Genesis, r)
           of(c) == {i \in 1..Len(batch) : batch[i].client = c}
           last(c) == CHOOSE i \in of(c) : \A j \in of(c) : j <= i
           next == [c \in Clients |->
                      IF of(c) = {} THEN s.replied[c]
                      ELSE [num |-> batch[last(c)].num, reply |-> {reply(last(c))}]]
           out == {Datagram(batch[i].client, reply(i)) : i \in 1..Len(batch)}
<1>1. CASE ~Extends(s.chain, d)
  <2>1. u = [s EXCEPT !.panicked = "conflict"] BY <1>1 DEF Execute
  <2>2. QED BY <1>1, <2>1 DEF ReplicaFields
<1>2. CASE Extends(s.chain, d)
  <2>1. s.app = Parent(d) BY <1>2 DEF Extends
  <2>2. Append(s.app, batch) = d /\ batch \in Batches
    BY <2>1, ParentAndRequests
  <2>3. \A i \in 1..Len(batch) :
           /\ reply(i) \in ReplyMsgs /\ batch[i].client \in Clients
           /\ batch[i].num \in 0..MaxRequestNum
           /\ Told(batch[i].client, reply(i), r, d)
    BY <2>1, ReplyTold
  <2>4. Len(batch) \in Nat BY <2>2, LenProperties DEF Batches
  <2>5. \A c \in Clients : of(c) /= {} => last(c) \in of(c)
    BY <2>4, LastPosition
  <2>6. s.chain \in Chains /\ s.replied \in Replied BY DEF ReplicaFields
  <2>7. u = [s EXCEPT !.chain = [s.chain EXCEPT !.digest_execute = d],
                      !.app = d, !.replied = next, !.replies = s.replies \cup out]
    <3>1. u = [s EXCEPT !.chain.digest_execute = d,
                        !.app = Append(@, batch),
                        !.replied = [c \in Clients |->
                            IF of(c) = {} THEN @[c]
                            ELSE [num |-> batch[last(c)].num,
                                  reply |-> {reply(last(c))}]],
                        !.replies = @ \cup out]
      BY <1>2 DEF Execute
    <3> HIDE DEF batch, reply, of, last, out
    <3>2. QED BY <2>2, <3>1 DEF ReplicaFields
  <2> HIDE DEF batch, reply, of, last
  <2>8. out \subseteq [to : Clients, msg : ReplyMsgs]
    BY <2>3 DEF Datagram
  <2>9. \A x \in out : Told(x.to, x.msg, r, d) BY <2>3 DEF Datagram
  <2>10. next \in Replied
    <3>1. ASSUME NEW c \in Clients
          PROVE  next[c] \in [num : 0..MaxRequestNum, reply : SUBSET ReplyMsgs]
      <4>1. CASE of(c) = {} BY <2>6, <4>1 DEF Replied
      <4>2. CASE of(c) /= {}
        <5>1. last(c) \in 1..Len(batch) BY <2>5, <4>2 DEF of
        <5>2. QED BY <2>3, <4>2, <5>1
      <4>3. QED BY <4>1, <4>2
    <3>2. QED BY <3>1 DEF Replied
  <2>11. \A c \in Clients : \A x \in next[c].reply :
            x \in s.replied[c].reply \/ Told(c, x, r, d)
    <3>1. SUFFICES ASSUME NEW c \in Clients, NEW x \in next[c].reply,
                          of(c) /= {}
                   PROVE  Told(c, x, r, d)
      OBVIOUS
    <3>2. last(c) \in 1..Len(batch) /\ batch[last(c)].client = c
      BY <2>5, <3>1 DEF of
    <3>3. x = reply(last(c)) BY <3>1
    <3>4. QED BY <2>3, <3>2, <3>3
  <2>12. \A c \in Clients :
            \/ next[c].num = s.replied[c].num
            \/ \E q \in Items(batch) : q.client = c /\ q.num = next[c].num
    <3>1. SUFFICES ASSUME NEW c \in Clients, of(c) /= {}
                   PROVE  \E q \in Items(batch) :
                             q.client = c /\ q.num = next[c].num
      OBVIOUS
    <3>2. last(c) \in 1..Len(batch) /\ batch[last(c)].client = c
      BY <2>5, <3>1 DEF of
    <3>3. next[c].num = batch[last(c)].num BY <3>1
    <3>4. batch[last(c)] \in Items(batch) BY <3>2 DEF Items
    <3>5. QED BY <3>2, <3>3, <3>4
  <2> HIDE DEF next, out
  <2>13. [s.chain EXCEPT !.digest_execute = d] \in Chains BY <2>6 DEF Chains
  <2>14. PICK ch : ch = [s.chain EXCEPT !.digest_execute = d] OBVIOUS
  <2>15. PICK all : all = s.replies \cup out OBVIOUS
  <2>16. all \in SUBSET [to : Clients, msg : ReplyMsgs]
    BY <2>8, <2>15 DEF ReplicaFields
  <2>17. u = [s EXCEPT !.chain = ch, !.app = d, !.replied = next,
                       !.replies = all]
    BY <2>7, <2>14, <2>15
  <2>18. /\ u.generics = s.generics /\ u.lock = s.lock
         /\ u.certified = s.certified /\ u.votes = s.votes
         /\ u.chain = ch /\ u.app = d /\ u.panicked = s.panicked
         /\ u.replied = next /\ u.replies = all
    BY <2>17 DEF ReplicaFields
  <2>19. u \in ReplicaFields
    BY <2>10, <2>13, <2>14, <2>16, <2>17 DEF ReplicaFields
  <2>20. /\ u.chain.digest_parent = s.chain.digest_parent
         /\ u.chain.digest_execute = d
    BY <2>6, <2>14, <2>18 DEF Chains
  <2>21. \A c \in Clients :
            \/ u.replied[c].num = s.replied[c].num
            \/ \E q \in Items(BlockRequests(d)) :
                  q.client = c /\ q.num = u.replied[c].num
    BY <2>18, <2>12 DEF batch
  <2>22. QED BY <1>2, <2>9, <2>11, <2>15, <2>18, <2>19, <2>20, <2>21
<1>3. QED BY <1>1, <1>2

\* Executing the block keeps what the replica says true.
LEMMA ExecuteFits ==
  ASSUME NEW r \in Live, NEW t \in Digests, NEW s, Fit(s, r, t),
         NEW d \in Digests, Len(d) > 0, IsAncestor(d, t), Len(d) + 3 <= Len(t),
         NEW u, u = Execute(r, s, d)
  PROVE  Fit(u, r, t) /\ Grows(s, u, t) /\ u.generics = s.generics
<1>1. /\ s \in ReplicaFields /\ Follows(s, t) /\ Truthful(s, r, t)
      /\ s.lock \in Digests /\ s.app \in Digests
      /\ s.app = s.chain.digest_execute
      /\ s.replies \subseteq [to : Clients, msg : ReplyMsgs]
      /\ \A c \in Clients : s.replied[c].reply \subseteq ReplyMsgs
  BY DEF Fit, Follows, ReplicaFields, Replied
<1>2. IsAncestor(s.lock, s.lock) /\ IsAncestor(s.app, s.app)
  BY <1>1, AncestorReflexive DEF Digests
<1>3. /\ u \in ReplicaFields
      /\ u.generics = s.generics /\ u.lock = s.lock
      /\ u.certified = s.certified /\ u.votes = s.votes
      /\ u.chain.digest_parent = s.chain.digest_parent
      /\ u.app = u.chain.digest_execute
  BY <1>1, ExecuteFields
<1>4. CASE ~Extends(s.chain, d)
  <2>1. u.app = s.app /\ u.replied = s.replied /\ u.replies = s.replies
    BY <1>1, <1>4, ExecuteFields
  <2>2. Follows(u, t) BY <1>1, <1>3, <2>1 DEF Follows
  <2>3. Truthful(u, r, t) BY <1>1, <1>3, <2>1 DEF Truthful
  <2>4. Updated(s, u) BY <2>1 DEF Updated
  <2>5. QED BY <1>2, <1>3, <2>1, <2>2, <2>3, <2>4 DEF Fit, Grows
<1>5. CASE Extends(s.chain, d)
  <2>1. /\ u.app = d
        /\ \A x \in u.replies : x \in s.replies \/ Told(x.to, x.msg, r, d)
        /\ \A c \in Clients : \A x \in u.replied[c].reply :
              x \in s.replied[c].reply \/ Told(c, x, r, d)
        /\ \A c \in Clients :
              \/ u.replied[c].num = s.replied[c].num
              \/ \E q \in Items(BlockRequests(d)) :
                    q.client = c /\ q.num = u.replied[c].num
    BY <1>1, <1>5, ExecuteFields
  <2>2. IsAncestor(s.app, d)
    <3>1. s.app = Parent(d) BY <1>1, <1>5 DEF Extends
    <3>2. QED BY <3>1, ParentAndRequests
  <2>3. Follows(u, t) BY <1>1, <1>3, <2>1 DEF Follows
  <2>4. \A x \in s.replies : Told(x.to, x.msg, r, d)
    BY <1>1, <2>2, ToldKept DEF Truthful
  <2>5. \A c \in Clients : \A x \in s.replied[c].reply : Told(c, x, r, d)
    BY <1>1, <2>2, ToldKept DEF Truthful
  <2>6. Truthful(u, r, t)
    BY <1>1, <1>3, <2>1, <2>4, <2>5 DEF Truthful
  <2>7. Updated(s, u)
    <3>1. s.app = Parent(d) BY <1>1, <1>5 DEF Extends
    <3>2. Len(d) \in Len(s.app) + 1 .. Len(d)
      <4>1. Len(Parent(d)) = Len(d) - 1 /\ Len(d) \in Nat
        BY ParentAndRequests
      <4>2. QED BY <3>1, <4>1
    <3>3. QED BY <2>1, <3>2 DEF Updated, BlockRequests
  <2>8. QED BY <1>2, <1>3, <2>1, <2>2, <2>3, <2>6, <2>7 DEF Fit, Grows
<1>6. QED BY <1>4, <1>5

\* Fields that grow twice have grown.
LEMMA GrowsTwice ==
  ASSUME NEW t, NEW s \in ReplicaFields, NEW u \in ReplicaFields,
         NEW w \in ReplicaFields, Grows(s, u, t), Grows(u, w, t)
  PROVE  Grows(s, w, t)
<1>1. /\ s.app \in Digests /\ u.app \in Digests /\ w.app \in Digests
      /\ s.lock \in Digests /\ u.lock \in Digests /\ w.lock \in Digests
  BY DEF ReplicaFields
<1>2. IsAncestor(s.app, w.app) /\ IsAncestor(s.lock, w.lock)
  BY <1>1, AncestorTransitive DEF Grows, Digests
<1>3. ASSUME NEW c \in Clients
      PROVE  \/ w.replied[c].num = s.replied[c].num
             \/ \E h \in Len(s.app) + 1 .. Len(w.app) :
                   \E q \in Items(w.app[h]) :
                      q.client = c /\ q.num = w.replied[c].num
  <2>1. /\ Len(s.app) \in Nat /\ Len(u.app) \in Nat /\ Len(w.app) \in Nat
        /\ Len(s.app) <= Len(u.app) /\ Len(u.app) <= Len(w.app)
        /\ \A h \in 1..Len(u.app) : u.app[h] = w.app[h]
    BY <1>1, LenProperties, AncestorDef DEF Grows, Digests
  <2>2. CASE w.replied[c].num = u.replied[c].num
    BY <2>1, <2>2 DEF Grows, Updated
  <2>3. ASSUME NEW h \in Len(u.app) + 1 .. Len(w.app),
               NEW q \in Items(w.app[h]), q.client = c, q.num = w.replied[c].num
        PROVE  \E k \in Len(s.app) + 1 .. Len(w.app) :
                  \E p \in Items(w.app[k]) :
                     p.client = c /\ p.num = w.replied[c].num
    BY <2>1, <2>3
  <2>4. QED BY <2>2, <2>3 DEF Grows, Updated
<1>4. QED BY <1>2, <1>3 DEF Grows, Updated

LEMMA GrowsNot ==
  ASSUME NEW t, NEW s \in ReplicaFields
  PROVE  Grows(s, s, t)
<1>1. s.app \in Digests /\ s.lock \in Digests BY DEF ReplicaFields
<1>2. QED BY <1>1, AncestorReflexive DEF Grows, Updated, Digests

\* insert_generic of a block on the chain, whether it panics or not.
LEMMA InsertFits ==
  ASSUME NEW r \in Live, NEW t \in Digests, NEW s, Fit(s, r, t),
         NEW d \in Digests, Len(d) > 0, IsAncestor(d, t),
         NEW u, u = InsertGeneric(r, s, d)
  PROVE  Fit(u, r, t) /\ Grows(s, u, t) /\ u.generics \subseteq s.generics \cup {d}
<1>1. s \in ReplicaFields /\ Follows(s, t) /\ Truthful(s, r, t) BY DEF Fit
<1>2. CASE u = s BY <1>1, <1>2, GrowsNot
<1>3. CASE u = [s EXCEPT !.panicked = "index"]
  <2>1. /\ u \in ReplicaFields
        /\ u.generics = s.generics /\ u.lock = s.lock
        /\ u.certified = s.certified /\ u.chain = s.chain /\ u.app = s.app
        /\ u.replied = s.replied /\ u.votes = s.votes /\ u.replies = s.replies
    BY <1>1, <1>3 DEF ReplicaFields
  <2>2. Follows(u, t) /\ Truthful(u, r, t)
    BY <1>1, <2>1 DEF Follows, Truthful
  <2>3. Grows(s, u, t)
    <3>1. Grows(s, s, t) BY <1>1, GrowsNot
    <3>2. QED BY <2>1, <3>1 DEF Grows, Updated
  <2>4. QED BY <2>1, <2>2, <2>3 DEF Fit
<1>4. CASE u = DoUpdate(r, Voted(r, [s EXCEPT !.generics = @ \cup {d}], d), d)
  <2>1. PICK n : n = Noted(r, s, d) OBVIOUS
  <2>2. Fit(n, r, t) /\ Grows(s, n, t) BY <2>1, NotedFits
  <2>3. n.generics = s.generics \cup {d} BY <1>1, <2>1, NotedFields
  <2>4. PICK d0 : d0 = Parent(Parent(Parent(d))) OBVIOUS
  <2>5. u = n \/ (u = Execute(r, n, d0) /\ d0 /= Genesis)
    BY <1>4, <2>1, <2>4 DEF DoUpdate, Noted, Certified, Decided
  <2>6. CASE u = n BY <2>2, <2>3, <2>6
  <2>7. CASE u = Execute(r, n, d0) /\ d0 /= Genesis
    <3>1. /\ Parent(d) \in Digests /\ IsAncestor(Parent(d), t)
          /\ Len(Parent(d)) = Len(d) - 1 /\ Len(d) <= Len(t)
          /\ Len(d) \in Nat /\ Len(t) \in Nat
      BY ParentOnChain
    <3>2. PICK d2 : d2 = Parent(d) OBVIOUS
    <3>3. PICK d1 : d1 = Parent(d2) OBVIOUS
    <3>4. /\ d1 \in Digests /\ IsAncestor(d1, t)
          /\ Len(d1) = IF Len(d2) = 0 THEN 0 ELSE Len(d2) - 1
      BY <3>1, <3>2, <3>3, ParentOnChain
    <3>5. /\ d0 \in Digests /\ IsAncestor(d0, t) /\ Len(d0) \in Nat
          /\ Len(d0) = IF Len(d1) = 0 THEN 0 ELSE Len(d1) - 1
      <4>1. d0 = Parent(d1) BY <2>4, <3>2, <3>3
      <4>2. QED BY <3>4, <4>1, ParentOnChain, LenProperties DEF Digests
    <3>6. Len(d0) > 0
      <4>1. Len(d0) /= 0 BY <2>7, <3>5, ParentOnChain
      <4>2. PICK k : k = Len(d0) OBVIOUS
      <4>3. k \in Nat /\ k /= 0 BY <3>5, <4>1, <4>2
      <4>4. QED BY <4>2, <4>3
    <3>7. Len(d0) + 3 <= Len(t) BY <3>1, <3>2, <3>4, <3>5, <3>6
    <3>8. Fit(u, r, t) /\ Grows(n, u, t) /\ u.generics = n.generics
      BY <2>2, <2>7, <3>5, <3>6, <3>7, ExecuteFits
    <3>9. Grows(s, u, t) BY <1>1, <2>2, <3>8, GrowsTwice DEF Fit
    <3>10. QED BY <2>3, <3>8, <3>9
  <2>8. QED BY <2>5, <2>6, <2>7
<1>5. QED BY <1>2, <1>3, <1>4 DEF InsertGeneric

\* do_reorder_generic inserts the blocks one after the other.
LEMMA InsertAllSteps ==
  ASSUME NEW r, NEW blocks, Len(blocks) \in Nat
  PROVE  \E f : /\ f[0] = Fields(r)
                /\ \A n \in 1..Len(blocks) :
                      f[n] = InsertGeneric(r, f[n - 1], blocks[n])
                /\ InsertAll(r, blocks) = f[Len(blocks)]
<1> DEFINE N == Len(blocks)
           Nth(f, n) == IF n = 0 THEN Fields(r)
                         ELSE InsertGeneric(r, f[n - 1], blocks[n])
           Run(f, k) == f = [n \in 0..k |-> Nth(f, n)]
<1>1. ASSUME NEW k \in Nat, NEW f, Run(f, k)
      PROVE  \E g : Run(g, k + 1)
  <2>1. PICK g : g = [n \in 0..k + 1 |-> IF n = k + 1 THEN Nth(f, n) ELSE f[n]]
    OBVIOUS
  <2>2. \A n \in 0..k : g[n] = f[n] /\ f[n] = Nth(f, n) BY <1>1, <2>1
  <2>3. ASSUME NEW n \in 0..k + 1 PROVE Nth(f, n) = Nth(g, n)
    <3>1. CASE n = 0 BY <3>1
    <3>2. CASE n /= 0
      <4>1. n - 1 \in 0..k BY <3>2
      <4>2. QED BY <2>2, <4>1
    <3>3. QED BY <3>1, <3>2
  <2>4. \A n \in 0..k + 1 : g[n] = Nth(f, n)
    <3>1. ASSUME NEW n \in 0..k + 1 PROVE g[n] = Nth(f, n)
      <4>1. CASE n = k + 1 BY <2>1, <4>1
      <4>2. CASE n /= k + 1
        <5>1. n \in 0..k BY <4>2
        <5>2. QED BY <2>2, <5>1
      <4>3. QED BY <4>1, <4>2
    <3>2. QED BY <3>1
  <2> HIDE DEF Nth
  <2>5. g = [n \in 0..k + 1 |-> g[n]] BY <2>1
  <2>6. g = [n \in 0..k + 1 |-> Nth(g, n)] BY <2>3, <2>4, <2>5
  <2>7. QED BY <2>6
<1>2. \A k \in Nat : \E f : Run(f, k)
  <2>1. PICK T : T = {k \in Nat : ~\E f : Run(f, k)} OBVIOUS
  <2>2. SUFFICES ASSUME T /= {} PROVE FALSE BY <2>1
  <2>3. PICK k \in T : \A l \in T : k <= l BY <2>1, <2>2, LeastHeight
  <2>4. CASE k = 0
    <3>1. PICK f : f = [n \in 0..0 |-> Fields(r)] OBVIOUS
    <3>2. \A n \in 0..0 : Nth(f, n) = Fields(r) OBVIOUS
    <3>3. Run(f, 0) BY <3>1, <3>2
    <3>4. QED BY <2>1, <2>4, <3>3
  <2>5. CASE k /= 0
    <3>1. k - 1 \in Nat /\ k - 1 \notin T /\ k = (k - 1) + 1
      BY <2>1, <2>3, <2>5
    <3> HIDE DEF Run
    <3>2. PICK f : Run(f, k - 1) BY <2>1, <3>1
    <3>3. \E g : Run(g, (k - 1) + 1) BY <1>1, <3>1, <3>2
    <3>4. QED BY <2>1, <3>1, <3>3
  <2>6. QED BY <2>4, <2>5
<1> DEFINE after[n \in 0..N] == IF n = 0 THEN Fields(r)
                               ELSE InsertGeneric(r, after[n - 1], blocks[n])
<1>3. Run(after, N)
  <2>1. \E f : f = [n \in 0..N |-> Nth(f, n)] BY <1>2
  <2>2. QED BY <2>1
<1>4. InsertAll(r, blocks) = after[N] BY DEF InsertAll
<1> HIDE DEF after
<1>5. \A n \in 0..N : after[n] = Nth(after, n) BY <1>3
<1>6. \A n \in 1..N : n \in 0..N /\ n /= 0 OBVIOUS
<1>7. QED BY <1>4, <1>5, <1>6

\* Inserting blocks of the chain keeps the replica's fields fit.
LEMMA InsertAllFits ==
  ASSUME NEW r \in Live, NEW t \in Digests, Fit(Fields(r), r, t),
         NEW blocks, Len(blocks) \in Nat,
         \A i \in 1..Len(blocks) :
            /\ blocks[i] \in Digests /\ Len(blocks[i]) > 0
            /\ IsAncestor(blocks[i], t),
         NEW u, u = InsertAll(r, blocks)
  PROVE  /\ Fit(u, r, t) /\ Grows(Fields(r), u, t)
         /\ u.generics \subseteq
               generics[r] \cup {blocks[i] : i \in 1..Len(blocks)}
<1>1. PICK f : /\ f[0] = Fields(r)
               /\ \A n \in 1..Len(blocks) :
                     f[n] = InsertGeneric(r, f[n - 1], blocks[n])
               /\ InsertAll(r, blocks) = f[Len(blocks)]
  BY InsertAllSteps
<1> DEFINE all == generics[r] \cup {blocks[i] : i \in 1..Len(blocks)}
           Good(n) == /\ Fit(f[n], r, t) /\ Grows(Fields(r), f[n], t)
                      /\ f[n].generics \subseteq all
<1>2. Good(0)
  <2>1. Fields(r) \in ReplicaFields BY DEF Fit
  <2>2. Grows(Fields(r), Fields(r), t) BY <2>1, GrowsNot
  <2>3. Fields(r).generics = generics[r] BY DEF Fields
  <2>4. QED BY <1>1, <2>2, <2>3
<1>3. ASSUME NEW n \in 1..Len(blocks), Good(n - 1) PROVE Good(n)
  <2>1. PICK s : s = f[n - 1] OBVIOUS
  <2>2. PICK d : d = blocks[n] OBVIOUS
  <2>3. PICK w : w = f[n] OBVIOUS
  <2>4. w = InsertGeneric(r, s, d) BY <1>1, <2>1, <2>2, <2>3
  <2>5. d \in Digests /\ Len(d) > 0 /\ IsAncestor(d, t) BY <2>2
  <2>6. Fit(s, r, t) /\ Grows(Fields(r), s, t) /\ s.generics \subseteq all
    BY <1>3, <2>1
  <2>7. Fit(w, r, t) /\ Grows(s, w, t) /\ w.generics \subseteq s.generics \cup {d}
    BY <2>4, <2>5, <2>6, InsertFits
  <2>8. /\ Fields(r) \in ReplicaFields /\ s \in ReplicaFields
        /\ w \in ReplicaFields
    BY <2>6, <2>7 DEF Fit
  <2>9. Grows(Fields(r), w, t) BY <2>6, <2>7, <2>8, GrowsTwice
  <2>10. d \in all BY <2>2
  <2>11. QED BY <2>3, <2>6, <2>7, <2>9, <2>10
<1> HIDE DEF Good
<1>4. \A n \in 0..Len(blocks) : Good(n)
  <2>1. PICK T : T = {n \in 0..Len(blocks) : ~Good(n)} OBVIOUS
  <2>2. SUFFICES ASSUME T /= {} PROVE FALSE BY <2>1
  <2>3. T \in SUBSET Nat
    <3>1. \A n \in 0..Len(blocks) : n \in Nat OBVIOUS
    <3>2. QED BY <2>1, <3>1
  <2>4. PICK n \in T : \A l \in T : n <= l BY <2>2, <2>3, LeastHeight
  <2>5. n /= 0 BY <1>2, <2>1
  <2>6. n \in 1..Len(blocks) /\ n - 1 \in 0..Len(blocks) BY <2>1, <2>5
  <2>7. Good(n - 1) BY <2>1, <2>4, <2>6
  <2>8. QED BY <1>3, <2>1, <2>6, <2>7
<1>5. Good(Len(blocks)) BY <1>4
<1>6. QED BY <1>1, <1>5 DEF Good

\* What is in a sequence is at its head or in its tail.
LEMMA RangeOfHeadTail ==
  ASSUME NEW S, NEW s \in Seq(S), s /= <<>>
  PROVE  /\ Head(s) \in S /\ Tail(s) \in Seq(S) /\ Head(s) = s[1]
         /\ Range(s) = {Head(s)} \cup Range(Tail(s))
<1>1. PICK n : n = Len(s) OBVIOUS
<1>2. n \in Nat /\ n > 0 /\ Len(s) = n BY <1>1, LenProperties, EmptySeq
<1>3. /\ Head(s) \in S /\ Tail(s) \in Seq(S) /\ Head(s) = s[1]
      /\ Len(Tail(s)) = n - 1
      /\ \A i \in 1..n - 1 : Tail(s)[i] = s[i + 1]
  <2>1. Head(s) = s[1] /\ s[1] \in S BY <1>2, ElementOfSeq
  <2>2. Tail(s) \in Seq(S) /\ Len(Tail(s)) = Len(s) - 1 BY HeadTailProperties
  <2>3. \A i \in 1..Len(Tail(s)) : Tail(s)[i] = s[i + 1]
    BY HeadTailProperties
  <2>4. QED BY <1>2, <2>1, <2>2, <2>3
<1>4. /\ Range(s) = {s[i] : i \in 1..n}
      /\ Range(Tail(s)) = {s[i + 1] : i \in 1..n - 1}
  <2>1. Range(s) = {s[i] : i \in 1..n} BY <1>2, RangeEquality
  <2>2. Range(Tail(s)) = {Tail(s)[i] : i \in 1..n - 1} BY <1>3, RangeEquality
  <2>3. QED BY <1>3, <2>1, <2>2
<1>5. \A i \in 1..n : i = 1 \/ (i - 1 \in 1..n - 1 /\ i = (i - 1) + 1)
  BY <1>2
<1>6. 1 \in 1..n /\ \A i \in 1..n - 1 : i + 1 \in 1..n BY <1>2
<1>7. QED BY <1>3, <1>4, <1>5, <1>6

\* The blocks that wait at a replica, per block they wait for.
AsideOn(W, t) ==
    \A e \in DOMAIN W :
        /\ e \in Digests /\ W[e] \in Seq(Digests) /\ W[e] /= <<>>
        /\ \A x \in Range(W[e]) :
              Len(x) > 0 /\ IsAncestor(x, t) /\ Parent(x) = e

\* The first of them is the block after it, and so are the others.
LEMMA AsideProperties ==
  ASSUME NEW t \in Digests, NEW W, AsideOn(W, t), NEW e \in DOMAIN W
  PROVE  LET h == Head(W[e]) IN
         /\ h \in Digests /\ Tail(W[e]) \in Seq(Digests)
         /\ Range(W[e]) = {h} /\ Range(Tail(W[e])) \subseteq {h}
         /\ Len(e) \in Nat /\ Len(t) \in Nat
         /\ Len(h) = Len(e) + 1 /\ Len(h) <= Len(t)
<1>1. PICK s : s = W[e] OBVIOUS
<1>2. PICK h : h = Head(s) OBVIOUS
<1>3. /\ e \in Digests /\ s \in Seq(Digests) /\ s /= <<>>
      /\ \A x \in Range(s) : Len(x) > 0 /\ IsAncestor(x, t) /\ Parent(x) = e
  BY <1>1 DEF AsideOn
<1>4. /\ h \in Digests /\ Tail(s) \in Seq(Digests)
      /\ Range(s) = {h} \cup Range(Tail(s))
  BY <1>2, <1>3, RangeOfHeadTail
<1>5. ASSUME NEW x \in Range(s)
      PROVE  /\ x \in Seq(Batches) /\ IsAncestor(x, t)
             /\ Len(x) = Len(e) + 1 /\ Len(x) <= Len(t)
             /\ Len(e) \in Nat /\ Len(t) \in Nat
  <2>1. Range(s) \in SUBSET Digests BY <1>3, RangeOfSeq
  <2>2. x \in Digests /\ Len(x) > 0 /\ IsAncestor(x, t) /\ Parent(x) = e
    BY <1>3, <2>1
  <2>3. /\ Len(e) = Len(x) - 1 /\ Len(x) \in Nat /\ Len(t) \in Nat
        /\ Len(x) <= Len(t)
    BY <2>2, ParentOnChain
  <2>4. Len(e) \in Nat BY <1>3, LenProperties DEF Digests
  <2>5. QED BY <2>2, <2>3, <2>4 DEF Digests
<1>6. ASSUME NEW x \in Range(s) PROVE x = h
  <2>1. h \in Range(s) BY <1>4
  <2>2. /\ x \in Seq(Batches) /\ h \in Seq(Batches) /\ t \in Seq(Batches)
        /\ IsAncestor(x, t) /\ IsAncestor(h, t) /\ Len(x) = Len(h)
    BY <1>5, <2>1 DEF Digests
  <2>3. Len(x) <= Len(h) BY <1>5, <2>1, <2>2
  <2>4. IsAncestor(x, h) BY <2>2, <2>3, AncestorsOfOne
  <2>5. QED BY <2>2, <2>4, AncestorAntisymmetric
<1>7. QED BY <1>1, <1>2, <1>4, <1>5, <1>6

\* do_reorder_generic on the blocks that wait for e.
Turn(W, f, e) ==
    <<Head(W[e])>>
      \o (IF Head(W[e]) \in DOMAIN W THEN f[Head(W[e])] ELSE <<>>)
      \o Tail(W[e])

Unfolds(W, d, released) ==
    \E f : /\ \A e \in DOMAIN W : f[e] = Turn(W, f, e)
          /\ released = IF d \in DOMAIN W THEN f[d] ELSE <<>>

LEMMA ReleasedSteps ==
  ASSUME NEW t \in Digests, NEW r, NEW W, W = reordering[r], AsideOn(W, t),
         NEW d
  PROVE  Unfolds(W, d, Released(r, d))
<1> DEFINE Right(f, k) == /\ f = [e \in DOMAIN W |-> f[e]]
                          /\ \A e \in DOMAIN W :
                                Len(e) + k >= Len(t) => f[e] = Turn(W, f, e)
<1>1. \A e \in DOMAIN W :
         /\ Len(e) \in Nat /\ Len(t) \in Nat /\ Len(e) < Len(t)
         /\ Len(Head(W[e])) = Len(e) + 1
  <2>1. SUFFICES ASSUME NEW e \in DOMAIN W
                 PROVE  /\ Len(e) \in Nat /\ Len(t) \in Nat /\ Len(e) < Len(t)
                        /\ Len(Head(W[e])) = Len(e) + 1
    OBVIOUS
  <2>2. /\ Len(e) \in Nat /\ Len(t) \in Nat
        /\ Len(Head(W[e])) = Len(e) + 1 /\ Len(Head(W[e])) <= Len(t)
    BY AsideProperties
  <2>3. QED BY <2>2
<1>2. Len(t) \in Nat BY LenProperties DEF Digests
<1>3. ASSUME NEW k \in Nat, NEW f, Right(f, k) PROVE \E g : Right(g, k + 1)
  <2>1. PICK g : g = [e \in DOMAIN W |->
                        IF Len(e) + k + 1 = Len(t) THEN Turn(W, f, e) ELSE f[e]]
    OBVIOUS
  <2>2. ASSUME NEW e \in DOMAIN W, Len(e) + k + 1 >= Len(t)
        PROVE  g[e] = Turn(W, g, e)
    <3>1. PICK h : h = Head(W[e]) OBVIOUS
    <3>2. Len(h) = Len(e) + 1 /\ Len(e) \in Nat BY <1>1, <3>1
    <3>3. h \in DOMAIN W => g[h] = f[h]
      <4>1. Len(h) + k + 1 /= Len(t) BY <1>2, <2>2, <3>2
      <4>2. QED BY <2>1, <4>1
    <3>4. Turn(W, g, e) = Turn(W, f, e) BY <3>1, <3>3 DEF Turn
    <3>5. CASE Len(e) + k + 1 = Len(t) BY <2>1, <3>4, <3>5
    <3>6. CASE Len(e) + k + 1 /= Len(t)
      <4>1. Len(e) + k >= Len(t) BY <1>2, <2>2, <3>2, <3>6
      <4>2. f[e] = Turn(W, f, e) BY <1>3, <4>1
      <4>3. QED BY <2>1, <3>4, <3>6, <4>2
    <3>7. QED BY <3>5, <3>6
  <2>3. g = [e \in DOMAIN W |-> g[e]] BY <2>1
  <2>4. \A e \in DOMAIN W : Len(e) + (k + 1) >= Len(t) => Len(e) + k + 1 >= Len(t)
    BY <1>1, <1>2
  <2>5. Right(g, k + 1) BY <2>2, <2>3, <2>4
  <2>6. QED BY <2>5
<1>4. \E f : Right(f, Len(t))
  <2>1. PICK T : T = {k \in Nat : ~\E f : Right(f, k)} OBVIOUS
  <2>2. SUFFICES ASSUME T /= {} PROVE FALSE BY <1>2, <2>1
  <2>3. PICK k \in T : \A l \in T : k <= l BY <2>1, <2>2, LeastHeight
  <2>4. CASE k = 0
    <3>1. PICK f : f = [e \in DOMAIN W |-> <<>>] OBVIOUS
    <3>2. \A e \in DOMAIN W : ~(Len(e) + 0 >= Len(t)) BY <1>1
    <3>3. f = [e \in DOMAIN W |-> f[e]] BY <3>1
    <3>4. Right(f, 0) BY <3>2, <3>3
    <3>5. QED BY <2>1, <2>4, <3>4
  <2>5. CASE k /= 0
    <3>1. k - 1 \in Nat /\ k - 1 \notin T /\ k = (k - 1) + 1
      BY <2>1, <2>3, <2>5
    <3> HIDE DEF Right
    <3>2. PICK f : Right(f, k - 1) BY <2>1, <3>1
    <3>3. \E g : Right(g, (k - 1) + 1) BY <1>3, <3>1, <3>2
    <3>4. QED BY <2>1, <3>1, <3>3
  <2>6. QED BY <2>4, <2>5
<1> DEFINE after[e \in DOMAIN W] ==
               <<Head(W[e])>>
                 \o (IF Head(W[e]) \in DOMAIN W THEN after[Head(W[e])]
                                                ELSE <<>>)
                 \o Tail(W[e])
<1>5. \E f : f = [e \in DOMAIN W |-> Turn(W, f, e)]
  <2>1. PICK f : Right(f, Len(t)) BY <1>4
  <2>2. \A e \in DOMAIN W : f[e] = Turn(W, f, e)
    <3>1. \A e \in DOMAIN W : Len(e) + Len(t) >= Len(t) BY <1>1
    <3>2. QED BY <2>1, <3>1
  <2>3. f = [e \in DOMAIN W |-> f[e]] BY <2>1
  <2>4. f = [e \in DOMAIN W |-> Turn(W, f, e)] BY <2>2, <2>3
  <2>5. QED BY <2>4
<1>6. after = [e \in DOMAIN W |-> Turn(W, after, e)]
  <2>1. PICK f : f = [e \in DOMAIN W |-> Turn(W, f, e)] BY <1>5
  <2>2. f = [e \in DOMAIN W |->
               <<Head(W[e])>>
                 \o (IF Head(W[e]) \in DOMAIN W THEN f[Head(W[e])] ELSE <<>>)
                 \o Tail(W[e])]
    BY <2>1 DEF Turn
  <2>3. after = [e \in DOMAIN W |->
               <<Head(W[e])>>
                 \o (IF Head(W[e]) \in DOMAIN W THEN after[Head(W[e])] ELSE <<>>)
                 \o Tail(W[e])]
    BY <2>2
  <2>4. QED BY <2>3 DEF Turn
<1>7. Released(r, d) = IF d \in DOMAIN W THEN after[d] ELSE <<>>
  BY DEF Released
<1> HIDE DEF after
<1>8. \A e \in DOMAIN W : after[e] = Turn(W, after, e) BY <1>6
<1>9. QED BY <1>7, <1>8 DEF Unfolds

\* do_reorder_generic releases the blocks that waited for d or for a block it
\* releases, and no others.
LEMMA ReleasedAll ==
  ASSUME NEW t \in Digests, NEW r, NEW W, W = reordering[r], AsideOn(W, t),
         NEW d, NEW released, released = Released(r, d)
  PROVE  /\ released \in Seq(Digests)
         /\ \A x \in Range(released) : \E e \in DOMAIN W : x \in Range(W[e])
         /\ \A e \in DOMAIN W : e = d \/ e \in Range(released)
               => Range(W[e]) \subseteq Range(released)
<1>1. PICK f : /\ \A e \in DOMAIN W : f[e] = Turn(W, f, e)
               /\ Released(r, d) = IF d \in DOMAIN W THEN f[d] ELSE <<>>
  <2>1. Unfolds(W, d, Released(r, d)) BY ReleasedSteps
  <2>2. QED BY <2>1 DEF Unfolds
<1> DEFINE Whole(s) ==
             /\ s \in Seq(Digests)
             /\ \A x \in Range(s) : \E e \in DOMAIN W : x \in Range(W[e])
             /\ \A e \in DOMAIN W : e \in Range(s) => Range(W[e]) \subseteq Range(s)
           Good(e) == Whole(f[e]) /\ Range(W[e]) \subseteq Range(f[e])
<1>2. Len(t) \in Nat BY LenProperties DEF Digests
<1>3. Whole(<<>>)
  <2>1. <<>> \in Seq(Digests) /\ Len(<<>>) = 0 BY EmptySeq
  <2>2. Range(<<>>) = {<<>>[i] : i \in 1..0} BY <2>1, RangeEquality
  <2>3. Range(<<>>) = {} BY <2>2
  <2>4. QED BY <2>1, <2>3
<1>4. ASSUME NEW e \in DOMAIN W, Head(W[e]) \in DOMAIN W => Good(Head(W[e]))
      PROVE  Good(e)
  <2>1. PICK h : h = Head(W[e]) OBVIOUS
  <2>2. PICK u : u = Tail(W[e]) OBVIOUS
  <2>3. PICK s : s = IF h \in DOMAIN W THEN f[h] ELSE <<>> OBVIOUS
  <2>4. /\ h \in Digests /\ u \in Seq(Digests)
        /\ Range(W[e]) = {h} /\ Range(u) \subseteq {h}
    BY <2>1, <2>2, AsideProperties
  <2>5. Whole(s) /\ (h \in DOMAIN W => Range(W[h]) \subseteq Range(s))
    BY <1>3, <1>4, <2>1, <2>3
  <2>6. f[e] = (<<h>> \o s) \o u BY <1>1, <2>1, <2>2, <2>3 DEF Turn
  <2>7. PICK a : a = <<h>> OBVIOUS
  <2>8. a \in Seq(Digests) /\ Range(a) = {h}
    <3>1. a \in Seq(Digests) /\ Len(a) = 1 /\ a[1] = h BY <2>4, <2>7
    <3>2. Range(a) = {a[i] : i \in 1..1} BY <3>1, RangeEquality
    <3>3. QED BY <3>1, <3>2
  <2> HIDE DEF Whole
  <2>9. s \in Seq(Digests) BY <2>5 DEF Whole
  <2>10. /\ a \o s \in Seq(Digests) /\ Range(a \o s) = {h} \cup Range(s)
    BY <2>8, <2>9, ConcatProperties, RangeConcatenation
  <2>11. /\ f[e] \in Seq(Digests)
         /\ Range(f[e]) = {h} \cup Range(s) \cup Range(u)
    <3>1. PICK b : b = a \o s OBVIOUS
    <3>2. b \in Seq(Digests) /\ Range(b) = {h} \cup Range(s) BY <2>10, <3>1
    <3>3. b \o u \in Seq(Digests) /\ Range(b \o u) = Range(b) \cup Range(u)
      BY <2>4, <3>2, ConcatProperties, RangeConcatenation
    <3>4. f[e] = b \o u BY <2>6, <2>7, <3>1
    <3>5. QED BY <3>2, <3>3, <3>4
  <2>12. Range(f[e]) = {h} \cup Range(s) BY <2>4, <2>11
  <2>13. \A x \in Range(f[e]) : \E k \in DOMAIN W : x \in Range(W[k])
    BY <2>4, <2>5, <2>12 DEF Whole
  <2>14. \A k \in DOMAIN W :
            k \in Range(f[e]) => Range(W[k]) \subseteq Range(f[e])
    BY <2>5, <2>12 DEF Whole
  <2>15. QED BY <2>4, <2>11, <2>12, <2>13, <2>14 DEF Whole
<1> HIDE DEF Good, Whole
<1>5. \A e \in DOMAIN W : Good(e)
  <2>1. PICK T : T = {Len(t) - Len(e) : e \in {k \in DOMAIN W : ~Good(k)}}
    OBVIOUS
  <2>2. SUFFICES ASSUME T /= {} PROVE FALSE BY <2>1
  <2>3. \A e \in DOMAIN W :
           /\ Len(e) \in Nat /\ Len(Head(W[e])) = Len(e) + 1
           /\ Len(Head(W[e])) <= Len(t)
    BY AsideProperties
  <2>4. T \in SUBSET Nat
    <3>1. \A e \in DOMAIN W : Len(t) - Len(e) \in Nat BY <1>2, <2>3
    <3>2. QED BY <2>1, <3>1
  <2>5. PICK n \in T : \A l \in T : n <= l BY <2>2, <2>4, LeastHeight
  <2>6. PICK e \in DOMAIN W : ~Good(e) /\ n = Len(t) - Len(e) BY <2>1
  <2>7. PICK h : h = Head(W[e]) OBVIOUS
  <2>8. ASSUME h \in DOMAIN W, ~Good(h) PROVE FALSE
    <3>1. Len(t) - Len(h) \in T BY <2>1, <2>8
    <3>2. n <= Len(t) - Len(h) BY <2>5, <3>1
    <3>3. Len(h) = Len(e) + 1 /\ Len(e) \in Nat BY <2>3, <2>7
    <3>4. QED BY <1>2, <2>6, <3>2, <3>3
  <2>9. QED BY <1>4, <2>6, <2>7, <2>8
<1>6. CASE d \notin DOMAIN W
  <2>1. Whole(released) /\ released = <<>> BY <1>1, <1>3, <1>6
  <2>2. QED BY <1>6, <2>1 DEF Whole
<1>7. CASE d \in DOMAIN W
  <2>1. released = f[d] BY <1>1, <1>7
  <2>2. Good(d) BY <1>5, <1>7
  <2>3. QED BY <2>1, <2>2 DEF Good, Whole
<1>8. QED BY <1>6, <1>7
-----------------------------------------------------------------------------
(* The invariant *)

Sound(m) ==
    /\ m.kind \in {"Generic", "Vote"} => OnChain(m.digest)
    /\ m.kind = "Vote" => Locked(m.digest, digest_lock[m.replica])

MessagesSound == \A m \in Messages : Sound(m)

VotesSound ==
    \A p \in votes : OnChain(p[1]) /\ Locked(p[1], digest_lock[p[2]])

\* Every block but the last has its certificate, and so has the one that the
\* primary proposes on.
Certain ==
    /\ \A d \in Digests :
          /\ Len(d) > 0 /\ Len(d) < Len(Tip) /\ IsAncestor(d, Tip)
          => VotesComplete(votes, d)
    /\ \/ digest_certified[Primary] = Genesis
       \/ VotesComplete(votes, digest_certified[Primary])

Fitting == \A r \in Replicas : Fit(Fields(r), r, Tip)

Aside == \A r \in Replicas : AsideOn(reordering[r], Tip)

\* The primary alone sends itself Generics, and receives none.
Placed ==
    /\ \A x \in net : x.msg.kind = "Generic" => x.to /= Primary
    /\ \A r \in Replicas : \A m \in Held(loopback[r]) :
          m.kind = "Generic" => r = Primary
    /\ DOMAIN reordering[Primary] = {}

Typed ==
    /\ NetTypeOK(Msgs, OwnMessages)
    /\ ClientTypeOK
    /\ ExecutionTypeOK
    /\ requests \in Seq(RequestRecords)
    /\ propose_height = Len(Tip)
    /\ votes \in SUBSET (Digests \X Live)
    /\ replied \in [Replicas -> Replied]
    /\ generics \in [Replicas -> SUBSET Digests]
    /\ reordering = [r \in Replicas |-> reordering[r]]
    /\ view_height \in [Replicas -> Nat]
    /\ digest_lock \in [Replicas -> Digests]
    /\ digest_certified \in [Replicas -> Digests]

IInv ==
    /\ Typed
    /\ MessagesSound
    /\ VotesSound
    /\ Certain
    /\ Fitting
    /\ Aside
    /\ Placed
    /\ WaitsForMissing
-----------------------------------------------------------------------------
\* A message in r's channel after an event at r was there or is looped back.
LEMMA HeldStep ==
  ASSUME NEW E, loopback \in [Replicas -> Seq(E)], NEW r \in Replicas, NEW m,
         NEW O, NEW own \in Seq(O), NEW out,
         \/ HandleDatagram(r, m, out, own)
         \/ Pace(r, out, own)
         \/ loopback[r] /= <<>> /\ HandleLoopback(r, out, own)
  PROVE  /\ \A s \in Replicas : s /= r => Held(loopback'[s]) = Held(loopback[s])
         /\ Held(loopback'[r]) \subseteq Held(loopback[r]) \cup Items(own)
<1>1. PICK q : q = loopback[r] OBVIOUS
<1>2. q \in Seq(E) /\ Len(q) \in Nat BY <1>1, LenProperties
<1>3. PICK rest : /\ rest \in Seq(E)
                  /\ \A k \in 1..Len(rest) : \E j \in 1..Len(q) : rest[k] = q[j]
                  /\ loopback' = [loopback EXCEPT ![r] = rest \o Looped(r, own)]
  <2>1. CASE HandleDatagram(r, m, out, own) \/ Pace(r, out, own)
    <3>1. loopback' = [loopback EXCEPT ![r] = q \o Looped(r, own)]
      BY <1>1, <2>1 DEF HandleDatagram, Pace
    <3>2. QED BY <1>2, <3>1
  <2>2. CASE loopback[r] /= <<>> /\ HandleLoopback(r, out, own)
    <3>1. PICK rest : rest = Tail(q) OBVIOUS
    <3>2. /\ rest \in Seq(E) /\ Len(rest) = Len(q) - 1
          /\ \A k \in 1..Len(rest) : rest[k] = q[k + 1]
      BY <1>1, <1>2, <2>2, <3>1, HeadTailProperties
    <3>3. \A k \in 1..Len(rest) : k + 1 \in 1..Len(q) BY <1>2, <3>2
    <3>4. loopback' = [loopback EXCEPT ![r] = rest \o Looped(r, own)]
      BY <1>1, <2>2, <3>1 DEF HandleLoopback
    <3>5. QED BY <3>2, <3>3, <3>4
  <2>3. QED BY <2>1, <2>2
<1>4. PICK all : all = rest \o Looped(r, own) OBVIOUS
<1>5. /\ Len(all) = Len(rest) + Len(own)
      /\ \A k \in 1..Len(rest) : all[k] = rest[k]
      /\ \A k \in Len(rest) + 1 .. Len(rest) + Len(own) :
            all[k].msg = own[k - Len(rest)]
  BY <1>3, <1>4, LoopedChannel
<1>6. Len(rest) \in Nat /\ Len(own) \in Nat BY <1>3, LenProperties
<1>7. ASSUME NEW k \in 1..Len(all) PROVE all[k].msg \in Held(q) \cup Items(own)
  <2>1. CASE k \in 1..Len(rest)
    <3>1. PICK j \in 1..Len(q) : rest[k] = q[j] BY <1>3, <2>1
    <3>2. QED BY <1>5, <2>1, <3>1 DEF Held
  <2>2. CASE k \in Len(rest) + 1 .. Len(rest) + Len(own)
    <3>1. k - Len(rest) \in 1..Len(own) BY <2>2, <1>6
    <3>2. QED BY <1>5, <2>2, <3>1 DEF Items
  <2>3. QED BY <1>5, <1>6, <2>1, <2>2
<1>8. loopback'[r] = all BY <1>3, <1>4
<1>9. \A s \in Replicas : s /= r => loopback'[s] = loopback[s] BY <1>3
<1>10. Held(all) \subseteq Held(q) \cup Items(own) BY <1>7 DEF Held
<1>11. QED BY <1>1, <1>8, <1>9, <1>10 DEF Held

\* What a replica knows stays true when the chain grows, and when nothing it has
\* voted for, locked or executed changes.
LEMMA FitKept ==
  ASSUME NEW r, NEW t \in Digests, NEW v \in Digests, IsAncestor(t, v),
         NEW s, Fit(s, r, t), NEW u \in ReplicaFields,
         u.generics = s.generics, u.lock = s.lock, u.app = s.app,
         u.chain.digest_execute = s.chain.digest_execute,
         u.votes = s.votes, u.replies = s.replies,
         \A c \in Clients : u.replied[c].reply \subseteq s.replied[c].reply,
         IsAncestor(u.certified, v)
  PROVE  Fit(u, r, v)
<1>1. /\ s \in ReplicaFields /\ Follows(s, t) /\ Truthful(s, r, t)
      /\ s.lock \in Digests /\ s.app \in Digests
      /\ s.generics \subseteq Digests /\ s.votes \in Seq(VoteMsgs)
  BY DEF Fit, ReplicaFields
<1>2. t \in Seq(Batches) /\ v \in Seq(Batches) /\ Len(t) \in Nat /\ Len(v) \in Nat
      /\ Len(t) <= Len(v)
  BY LenProperties DEF Digests, IsAncestor
<1>3. ASSUME NEW d \in Digests, IsAncestor(d, t) PROVE IsAncestor(d, v)
  BY <1>2, <1>3, AncestorTransitive DEF Digests
<1>4. Follows(u, v)
  <2>1. Len(s.app) \in Nat BY <1>1, LenProperties DEF Digests
  <2>2. Len(s.app) > 0 => Len(s.app) + 3 <= Len(v)
    BY <1>1, <1>2, <2>1 DEF Follows
  <2>3. QED BY <1>1, <1>3, <2>2 DEF Follows
<1>5. Truthful(u, r, v)
  <2>1. ASSUME NEW x \in Range(s.votes)
        PROVE  /\ x.replica = r /\ Len(x.digest) > 0 /\ IsAncestor(x.digest, v)
               /\ Locked(x.digest, s.lock)
    <3>1. x \in VoteMsgs BY <1>1, <2>1, RangeOfSeq
    <3>2. x.digest \in Digests BY <3>1 DEF VoteMsgs
    <3>3. QED BY <1>1, <1>3, <2>1, <3>2 DEF Truthful
  <2>2. QED BY <1>1, <2>1 DEF Truthful
<1>6. QED BY <1>4, <1>5 DEF Fit

\* What was said stays sound while the chain and the locks grow.
LEMMA SoundKept ==
  ASSUME NEW t \in Digests, t = Tip, NEW v \in Digests, v = Tip',
         IsAncestor(t, v),
         digest_lock \in [Replicas -> Digests],
         digest_lock' \in [Replicas -> Digests],
         \A i \in Replicas : IsAncestor(digest_lock[i], digest_lock'[i])
  PROVE  /\ \A d : OnChain(d) => OnChain(d)'
         /\ \A d, i : OnChain(d) /\ i \in Replicas /\ Locked(d, digest_lock[i])
                      => Locked(d, digest_lock'[i])
<1>1. t \in Seq(Batches) /\ v \in Seq(Batches) BY DEF Digests
<1>2. ASSUME NEW d, OnChain(d) PROVE OnChain(d)'
  <2>1. d \in Seq(Batches) /\ Len(d) > 0 /\ IsAncestor(d, t)
    BY <1>2 DEF OnChain, Digests
  <2>2. IsAncestor(d, v) BY <1>1, <2>1, AncestorTransitive
  <2>3. QED BY <1>2, <2>1, <2>2 DEF OnChain
<1>3. ASSUME NEW d, NEW i \in Replicas, OnChain(d), Locked(d, digest_lock[i])
      PROVE  Locked(d, digest_lock'[i])
  <2>1. d \in Digests /\ IsAncestor(d, t) BY <1>3 DEF OnChain
  <2>2. Parent(d) \in Digests /\ IsAncestor(Parent(d), t)
    BY <2>1, ParentOnChain
  <2>3. Parent(Parent(d)) \in Digests BY <2>2, ParentOnChain
  <2>4. digest_lock[i] \in Digests /\ digest_lock'[i] \in Digests OBVIOUS
  <2>5. IsAncestor(Parent(Parent(d)), digest_lock'[i])
    BY <1>3, <2>3, <2>4, AncestorTransitive DEF Locked, Digests
  <2>6. QED BY <2>5 DEF Locked
<1>4. QED BY <1>2, <1>3
-----------------------------------------------------------------------------
LEMMA TipType ==
  /\ Typed => Tip \in Digests /\ Len(Tip) \in Nat
  /\ Typed' => Tip' \in Digests /\ Len(Tip') \in Nat
<1>1. Typed => Tip \in Digests
  BY PrimaryAssumption DEF Typed, ExecutionTypeOK, Tip, Chains
<1>2. Typed' => Tip' \in Digests
  BY PrimaryAssumption DEF Typed, ExecutionTypeOK, Tip, Chains
<1>3. \A d \in Digests : Len(d) \in Nat BY LenProperties DEF Digests
<1>4. QED BY <1>1, <1>2, <1>3

\* The fields of a replica, before and after a step.
LEMMA FieldsType ==
  ASSUME NEW i \in Replicas
  PROVE  /\ Typed => Fields(i) \in ReplicaFields
         /\ Typed' => Fields(i)' \in ReplicaFields
<1>1. <<>> \in Seq(VoteMsgs) BY EmptySeq
<1>2. Typed => Fields(i) \in ReplicaFields
  BY <1>1 DEF Typed, ExecutionTypeOK, Fields, ReplicaFields
<1>3. Typed' => Fields(i)' \in ReplicaFields
  BY <1>1 DEF Typed, ExecutionTypeOK, Fields, ReplicaFields
<1>4. QED BY <1>2, <1>3

\* The types of what is on its way, received, and taken from the own channel.
LEMMA MessagesType ==
  ASSUME Typed
  PROVE  /\ Messages \subseteq Msgs \cup ReplyMsgs
         /\ \A r \in Replicas : \A m : Arrived(r, m) => m \in Msgs /\ m \in Messages
         /\ \A r \in Replicas : loopback[r] /= <<>> =>
               Own(r) \in OwnMessages /\ Own(r) \in Messages
<1>1. OwnMessages \in SUBSET Msgs /\ NetTypeOK(Msgs, OwnMessages)
  BY DEF Typed, Msgs
<1>2. QED BY <1>1, MessagesOfNet DEF Own

\* The kind of a message tells its type.
LEMMA KindsOfOwn ==
  ASSUME NEW m \in Msgs \cup ReplyMsgs
  PROVE  /\ m.kind = "Generic" => m \in GenericMsgs
         /\ m.kind = "Vote" => m \in VoteMsgs
         /\ m.kind = "Request" => m \in RequestMsgs
BY DEF Msgs, OwnMessages, RequestMsgs, GenericMsgs, VoteMsgs, ReplyMsgs

\* What is on its way stays sound while the chain and the locks grow.
LEMMA MessagesStep ==
  ASSUME Typed, Typed', MessagesSound, IsAncestor(Tip, Tip'),
         \A i \in Replicas : IsAncestor(digest_lock[i], digest_lock'[i]),
         NEW new, Messages' \subseteq Messages \cup new,
         \A m \in new : Sound(m)'
  PROVE  MessagesSound'
<1>1. PICK t : t = Tip OBVIOUS
<1>2. PICK v : v = Tip' OBVIOUS
<1>3. t \in Digests /\ v \in Digests /\ IsAncestor(t, v)
  BY <1>1, <1>2, TipType
<1>4. /\ digest_lock \in [Replicas -> Digests]
      /\ digest_lock' \in [Replicas -> Digests]
  BY DEF Typed
<1>5. /\ \A d : OnChain(d) => OnChain(d)'
      /\ \A d, i : OnChain(d) /\ i \in Replicas /\ Locked(d, digest_lock[i])
                   => Locked(d, digest_lock'[i])
  BY <1>1, <1>2, <1>3, <1>4, SoundKept
<1>6. ASSUME NEW m \in Messages PROVE Sound(m)'
  <2>1. Sound(m) BY DEF MessagesSound
  <2>2. m.kind = "Vote" => m.replica \in Replicas
    <3>1. m \in Msgs \cup ReplyMsgs BY MessagesType
    <3>2. QED BY <3>1, KindsOfOwn, LiveAssumption DEF VoteMsgs
  <2>3. m.kind \in {"Generic", "Vote"} => OnChain(m.digest)'
    BY <1>5, <2>1 DEF Sound
  <2>4. m.kind = "Vote" => Locked(m.digest, digest_lock'[m.replica])
    BY <1>5, <2>1, <2>2 DEF Sound
  <2>5. QED BY <2>3, <2>4 DEF Sound
<1>7. QED BY <1>6 DEF MessagesSound

\* The blocks that wait are on the longer chain as well.
LEMMA AsideKept ==
  ASSUME NEW t \in Digests, NEW v \in Digests, IsAncestor(t, v),
         NEW W, AsideOn(W, t)
  PROVE  AsideOn(W, v)
<1>1. ASSUME NEW e \in DOMAIN W, NEW x \in Range(W[e]) PROVE IsAncestor(x, v)
  <2>1. W[e] \in Seq(Digests) /\ IsAncestor(x, t) BY <1>1 DEF AsideOn
  <2>2. x \in Digests BY <1>1, <2>1, RangeOfSeq
  <2>3. QED BY <2>1, <2>2, AncestorTransitive DEF Digests
<1>2. QED BY <1>1 DEF AsideOn

\* A step that inserts no block and releases none: what the replicas know stays
\* fit, and what is on its way sound.
LEMMA PlainStep ==
  ASSUME IInv, Typed', IsAncestor(Tip, Tip'),
         NEW new, Messages' \subseteq Messages \cup new, \A m \in new : Sound(m)',
         UNCHANGED <<generics, digest_lock, app>>,
         \A i \in Replicas :
            /\ chain'[i].digest_execute = chain[i].digest_execute
            /\ IsAncestor(digest_certified'[i], Tip')
            /\ \A c \in Clients : replied'[i][c].reply \subseteq replied[i][c].reply
  PROVE  MessagesSound' /\ Fitting'
<1>1. Typed /\ MessagesSound /\ Fitting BY DEF IInv
<1>2. PICK t : t = Tip OBVIOUS
<1>3. PICK v : v = Tip' OBVIOUS
<1>4. t \in Digests /\ v \in Digests /\ IsAncestor(t, v)
  BY <1>1, <1>2, <1>3, TipType
<1>5. \A i \in Replicas : IsAncestor(digest_lock[i], digest_lock'[i])
  BY <1>1, AncestorReflexive DEF Typed, Digests
<1>6. MessagesSound' BY <1>1, <1>5, MessagesStep
<1>7. ASSUME NEW i \in Replicas PROVE Fit(Fields(i), i, Tip)'
  <2>1. PICK s : s = Fields(i) OBVIOUS
  <2>2. PICK u : u = Fields(i)' OBVIOUS
  <2>3. u \in ReplicaFields /\ Fit(s, i, t)
    BY <1>1, <1>2, <2>1, <2>2, FieldsType DEF Fitting
  <2>4. /\ u.generics = s.generics /\ u.lock = s.lock /\ u.app = s.app
        /\ u.chain.digest_execute = s.chain.digest_execute
        /\ u.votes = s.votes /\ u.replies = s.replies
        /\ \A c \in Clients : u.replied[c].reply \subseteq s.replied[c].reply
        /\ IsAncestor(u.certified, v)
    BY <1>3, <2>1, <2>2 DEF Fields
  <2>5. Fit(u, i, v) BY <1>4, <2>3, <2>4, FitKept
  <2>6. QED BY <1>3, <2>2, <2>5
<1>8. QED BY <1>6, <1>7 DEF Fitting

\* A step that proposes, votes, certifies and inserts nothing.
LEMMA QuietStep ==
  ASSUME IInv, Typed', UNCHANGED <<chain, app, votes, blockVars>>,
         NEW new, Messages' \subseteq Messages \cup new,
         \A m \in new : m.kind \notin {"Generic", "Vote"},
         \A x \in net' : x \in net \/ x.msg.kind /= "Generic",
         \A i \in Replicas : Held(loopback'[i]) \subseteq Held(loopback[i]),
         \A i \in Replicas : \A c \in Clients :
            replied'[i][c].reply \subseteq replied[i][c].reply,
         Aside', WaitsForMissing', DOMAIN reordering'[Primary] = {}
  PROVE  IInv'
<1>1. /\ Typed /\ MessagesSound /\ VotesSound /\ Certain /\ Fitting /\ Aside
      /\ Placed
  BY DEF IInv
<1>2. UNCHANGED <<generics, digest_lock, digest_certified, app, votes>> /\ Tip' = Tip
  BY DEF blockVars, Tip
<1>3. IsAncestor(Tip, Tip') BY <1>1, <1>2, TipType, AncestorReflexive DEF Digests
<1>4. \A m \in new : Sound(m)' BY DEF Sound
<1>5. \A i \in Replicas : IsAncestor(digest_certified'[i], Tip')
  BY <1>1, <1>2 DEF Fitting, Fit, Follows, Fields
<1>6. MessagesSound' /\ Fitting' BY <1>2, <1>3, <1>4, <1>5, PlainStep
<1>7. VotesSound' BY <1>1, <1>2 DEF VotesSound, OnChain
<1>8. Certain' BY <1>1, <1>2 DEF Certain, VotesComplete, Quorum
<1>9. Placed' BY <1>1 DEF Placed
<1>10. QED BY <1>6, <1>7, <1>8, <1>9 DEF IInv

\* Where reordering does not change either.
LEMMA QuieterStep ==
  ASSUME IInv, Typed', UNCHANGED <<chain, app, votes, blockVars, reordering>>,
         NEW new, Messages' \subseteq Messages \cup new,
         \A m \in new : m.kind \notin {"Generic", "Vote"},
         \A x \in net' : x \in net \/ x.msg.kind /= "Generic",
         \A i \in Replicas : Held(loopback'[i]) \subseteq Held(loopback[i]),
         \A i \in Replicas : \A c \in Clients :
            replied'[i][c].reply \subseteq replied[i][c].reply
  PROVE  IInv'
<1>1. Tip' = Tip /\ UNCHANGED <<reordering, generics>> BY DEF Tip, blockVars
<1>2. Aside' BY <1>1 DEF IInv, Aside
<1>3. WaitsForMissing' BY <1>1 DEF IInv, WaitsForMissing
<1>4. DOMAIN reordering'[Primary] = {} BY <1>1 DEF IInv, Placed
<1>5. QED BY <1>2, <1>3, <1>4, QuietStep

\* A client's step leaves the replicas alone.
LEMMA ClientKeeps ==
  ASSUME IInv, NetTypeOK(Msgs, OwnMessages)', ClientTypeOK',
         UNCHANGED <<executeVars, primaryVars, replied, reordering, blockVars>>,
         loopback' = loopback,
         \A x \in net' : x \in net \/ x.msg.kind = "Request"
  PROVE  IInv'
<1>1. UNCHANGED <<chain, app, panicked, requests, propose_height, votes, replied,
                  reordering, generics, view_height, digest_lock,
                  digest_certified>>
  BY DEF executeVars, primaryVars, blockVars
<1>2. Tip' = Tip BY <1>1 DEF Tip
<1>3. Typed'
  BY <1>1, <1>2 DEF IInv, Typed, ExecutionTypeOK
<1>4. PICK new : new = {x.msg : x \in net' \ net} OBVIOUS
<1>5. Messages' \subseteq Messages \cup new BY <1>4 DEF Messages
<1>6. \A m \in new : m.kind \notin {"Generic", "Vote"} BY <1>4
<1>7. \A x \in net' : x \in net \/ x.msg.kind /= "Generic" OBVIOUS
<1>8. UNCHANGED <<chain, app, votes, blockVars, reordering>> BY <1>1 DEF blockVars
<1>9. QED BY <1>1, <1>3, <1>5, <1>6, <1>7, <1>8, QuieterStep

LEMMA InvokeKeeps ==
  ASSUME IInv, NEW c \in Clients, Invoke(c)
  PROVE  IInv'
<1>1. ClientTypeOK /\ NetTypeOK(Msgs, OwnMessages) BY DEF IInv, Typed
<1>2. ClientInvoke(c, Live) /\ Live \in SUBSET Replicas
  BY LiveAssumption DEF Invoke
<1>3. NetTypeOK(Msgs, OwnMessages)' /\ ClientTypeOK'
  BY <1>1, <1>2, ClientInvokeType DEF Msgs
<1>4. loopback' = loopback /\ \A x \in net' : x \in net \/ x.msg.kind = "Request"
  BY <1>2 DEF ClientInvoke, ClientSends, SendTo, Datagram, RequestMsg
<1>5. UNCHANGED <<executeVars, primaryVars, replied, reordering, blockVars>>
  BY DEF Invoke
<1>6. QED BY <1>3, <1>4, <1>5, ClientKeeps

LEMMA HandleReplyKeeps ==
  ASSUME IInv, NEW c \in Clients, NEW m, HandleReply(c, m)
  PROVE  IInv'
<1>1. ClientTypeOK /\ NetTypeOK(Msgs, OwnMessages) BY DEF IInv, Typed
<1>2. ClientHandle(c, m) BY DEF HandleReply
<1>3. NetTypeOK(Msgs, OwnMessages)' /\ ClientTypeOK'
  BY <1>1, <1>2, ClientHandleType
<1>4. loopback' = loopback /\ \A x \in net' : x \in net \/ x.msg.kind = "Request"
  BY <1>2 DEF ClientHandle, ClientReceives, Flight
<1>5. UNCHANGED <<executeVars, primaryVars, replied, reordering, blockVars>>
  BY DEF HandleReply
<1>6. QED BY <1>3, <1>4, <1>5, ClientKeeps

\* What a handler of replica r sends others than itself or loops back.
LEMMA ReplicaSends ==
  ASSUME Typed, NEW r \in Live, NEW m,
         NEW out \in SUBSET Datagrams(Msgs), NEW own \in Seq(OwnMessages),
         \/ HandleDatagram(r, m, out, own)
         \/ loopback[r] /= <<>> /\ HandleLoopback(r, out, own)
         \/ Pace(r, out, own)
  PROVE  /\ NetTypeOK(Msgs, OwnMessages)'
         /\ Messages' \subseteq Messages \cup Sent(out, own)
         /\ net' \subseteq net \cup out
         /\ \A s \in Replicas : s /= r => Held(loopback'[s]) = Held(loopback[s])
         /\ Held(loopback'[r]) \subseteq Held(loopback[r]) \cup Items(own)
<1>1. NetTypeOK(Msgs, OwnMessages) /\ r \in Replicas
  BY LiveAssumption DEF Typed
<1>2. /\ NetTypeOK(Msgs, OwnMessages)'
      /\ Messages' \subseteq Messages \cup Sent(out, own)
  BY <1>1, HandlerStep
<1>3. net' \subseteq net \cup out BY HandlerSends
<1>4. PICK E : E = OwnEntries(Msgs, OwnMessages) OBVIOUS
<1>5. loopback \in [Replicas -> Seq(E)] BY <1>1, <1>4, NetTypeDef
<1>6. /\ \A s \in Replicas : s /= r => Held(loopback'[s]) = Held(loopback[s])
      /\ Held(loopback'[r]) \subseteq Held(loopback[r]) \cup Items(own)
  BY <1>1, <1>5, HeldStep
<1>7. QED BY <1>2, <1>3, <1>6

\* handle_request: known requests are answered with what was executed.
LEMMA ResentType ==
  ASSUME Typed, NEW r \in Replicas, NEW m \in RequestMsgs
  PROVE  /\ Resent(r, m) \subseteq [to : Clients, msg : ReplyMsgs]
         /\ \A x \in Resent(r, m) :
               x.to = m.client /\ x.msg \in replied[r][m.client].reply
<1>1. m.client \in Clients BY DEF RequestMsgs
<1>2. replied[r][m.client].reply \subseteq ReplyMsgs
  BY <1>1 DEF Typed, Replied
<1>3. QED BY <1>1, <1>2 DEF Resent, Datagram

LEMMA HandleRequestKeeps ==
  ASSUME IInv, NEW r \in Live, NEW m, HandleRequest(r, m)
  PROVE  IInv'
<1>1. Typed /\ r \in Replicas /\ m \in RequestMsgs
  BY LiveAssumption, MessagesType, KindsOfOwn DEF IInv, HandleRequest
<1>2. /\ m.client \in Clients /\ m.num \in 0..MaxRequestNum
      /\ Request(m.client, m.num) \in RequestRecords
  BY <1>1, MaxRequestAssumption DEF RequestMsgs, RequestRecords, Request
<1>3. PICK out : out = IF Known(r, m) THEN Resent(r, m) ELSE {} OBVIOUS
<1>4. out \in SUBSET [to : Clients, msg : ReplyMsgs] BY <1>1, <1>3, ResentType
<1>5. HandleDatagram(r, m, out, <<>>) BY <1>3 DEF HandleRequest
<1>6. /\ out \in SUBSET Datagrams(Msgs) /\ <<>> \in Seq(OwnMessages)
      /\ \A x \in Sent(out, <<>>) : x.kind = "Reply"
  BY <1>4, RepliesOnly, EmptySeq
<1>7. /\ NetTypeOK(Msgs, OwnMessages)'
      /\ Messages' \subseteq Messages \cup Sent(out, <<>>)
      /\ net' \subseteq net \cup out
      /\ \A s \in Replicas : s /= r => Held(loopback'[s]) = Held(loopback[s])
      /\ Held(loopback'[r]) \subseteq Held(loopback[r]) \cup Items(<<>>)
  BY <1>1, <1>5, <1>6, ReplicaSends
<1>8. UNCHANGED <<clientVars, executeVars, propose_height, votes, reordering,
                  blockVars>>
  BY DEF HandleRequest
<1>9. /\ replied' \in [Replicas -> Replied]
      /\ \A i \in Replicas : \A c \in Clients :
            replied'[i][c].reply \subseteq replied[i][c].reply
  <2>1. replied \in [Replicas -> Replied] BY <1>1 DEF Typed
  <2>2. CASE replied' = replied BY <2>1, <2>2
  <2>3. CASE replied' = [replied EXCEPT ![r][m.client] =
                            [num |-> m.num, reply |-> {}]]
    <3>1. PICK old : old = replied[r] OBVIOUS
    <3>2. PICK nu : nu = [old EXCEPT ![m.client] = [num |-> m.num, reply |-> {}]]
      OBVIOUS
    <3>3. old \in Replied BY <1>1, <2>1, <3>1
    <3>4. nu \in Replied /\ \A c \in Clients : nu[c].reply \subseteq old[c].reply
      BY <1>2, <3>2, <3>3 DEF Replied
    <3>5. replied' = [replied EXCEPT ![r] = nu] BY <2>3, <3>1, <3>2
    <3>6. QED BY <2>1, <3>1, <3>4, <3>5
  <2>4. QED BY <2>2, <2>3 DEF HandleRequest
<1>10. requests' \in Seq(RequestRecords)
  <2>1. requests \in Seq(RequestRecords) BY <1>1 DEF Typed
  <2>2. Append(requests, Request(m.client, m.num)) \in Seq(RequestRecords)
    BY <1>2, <2>1, AppendProperties
  <2>3. QED BY <2>1, <2>2 DEF HandleRequest
<1>11. Typed'
  BY <1>1, <1>7, <1>8, <1>9, <1>10
  DEF Typed, clientVars, ClientTypeOK, executeVars, ExecutionTypeOK, blockVars,
      Tip
<1>12. \A i \in Replicas : Held(loopback'[i]) \subseteq Held(loopback[i])
  <2>1. Items(<<>>) = {} BY EmptySeq DEF Items
  <2>2. QED BY <1>7, <2>1
<1>13. \A x \in net' : x \in net \/ x.msg.kind /= "Generic"
  BY <1>4, <1>7 DEF ReplyMsgs
<1>14. PICK new : new = Sent(out, <<>>) OBVIOUS
<1>15. Messages' \subseteq Messages \cup new
       /\ \A x \in new : x.kind \notin {"Generic", "Vote"}
  BY <1>6, <1>7, <1>14
<1>16. UNCHANGED <<chain, app, votes, blockVars, reordering>>
  BY <1>8 DEF executeVars
<1>17. QED BY <1>9, <1>11, <1>12, <1>13, <1>15, <1>16, QuieterStep

\* A Generic that waits for a block its replica lacks.
LEMMA HoldKeeps ==
  ASSUME IInv, NEW r \in Live, NEW m, HandleGeneric(r, m), Hold(r, m)
  PROVE  IInv'
<1>1. /\ Typed /\ r \in Replicas /\ m \in GenericMsgs /\ m \in Messages
      /\ m.kind = "Generic" /\ Arrived(r, m)
  BY LiveAssumption, MessagesType, KindsOfOwn DEF IInv, HandleGeneric
<1>2. PICK d : d = m.digest OBVIOUS
<1>3. PICK e : e = Parent(d) OBVIOUS
<1>4. PICK t : t = Tip OBVIOUS
<1>5. t \in Digests BY <1>1, <1>4, TipType
<1>6. d \in Digests /\ Len(d) > 0 /\ IsAncestor(d, t)
  BY <1>1, <1>2, <1>4 DEF IInv, MessagesSound, Sound, OnChain
<1>7. e \in Digests BY <1>3, <1>5, <1>6, ParentOnChain
<1>8. e \notin generics[r]
  BY <1>2, <1>3 DEF Hold, Missing, Certified
<1>9. r /= Primary
  BY <1>1 DEF IInv, Placed, Arrived, Datagram
<1>10. PICK W : W = reordering[r] OBVIOUS
<1>11. PICK s : s = Append(Waiting(r, e), d) OBVIOUS
<1>12. PICK U : U = [k \in DOMAIN W \cup {e} |-> IF k = e THEN s ELSE W[k]]
  OBVIOUS
<1>13. reordering' = [reordering EXCEPT ![r] = U]
  BY <1>2, <1>3, <1>10, <1>11, <1>12 DEF Hold
<1>14. AsideOn(W, t) BY <1>1, <1>4, <1>10 DEF IInv, Aside
<1>15. /\ s \in Seq(Digests) /\ s /= <<>>
       /\ \A x \in Range(s) : Len(x) > 0 /\ IsAncestor(x, t) /\ Parent(x) = e
  <2>1. PICK q : q = Waiting(r, e) OBVIOUS
  <2>2. /\ q \in Seq(Digests)
        /\ \A i \in 1..Len(q) :
              Len(q[i]) > 0 /\ IsAncestor(q[i], t) /\ Parent(q[i]) = e
    <3>1. CASE e \in DOMAIN W
      <4>1. q = W[e] BY <1>10, <2>1, <3>1 DEF Waiting
      <4>2. /\ q \in Seq(Digests)
            /\ \A x \in Range(q) : Len(x) > 0 /\ IsAncestor(x, t) /\ Parent(x) = e
        BY <1>14, <3>1, <4>1 DEF AsideOn
      <4>3. Range(q) = {q[i] : i \in 1..Len(q)} BY <4>2, RangeEquality
      <4>4. QED BY <4>2, <4>3
    <3>2. CASE e \notin DOMAIN W
      <4>1. q = <<>> BY <1>10, <2>1, <3>2 DEF Waiting
      <4>2. QED BY <4>1, EmptySeq
    <3>3. QED BY <3>1, <3>2
  <2>3. /\ s \in Seq(Digests) /\ Len(s) = Len(q) + 1 /\ Len(q) \in Nat
        /\ \A i \in 1..Len(q) : s[i] = q[i]
        /\ s[Len(q) + 1] = d
    BY <1>6, <1>11, <2>1, <2>2, AppendProperties, LenProperties
  <2>4. Len(<<>>) = 0 BY EmptySeq
  <2>5. s /= <<>> BY <2>3, <2>4
  <2>6. Range(s) = {s[i] : i \in 1..Len(q) + 1} BY <2>3, RangeEquality
  <2>7. ASSUME NEW i \in 1..Len(q) + 1
        PROVE  Len(s[i]) > 0 /\ IsAncestor(s[i], t) /\ Parent(s[i]) = e
    <3>1. CASE i \in 1..Len(q) BY <2>2, <2>3, <3>1
    <3>2. CASE i = Len(q) + 1 BY <1>3, <1>6, <2>3, <3>2
    <3>3. QED BY <2>3, <3>1, <3>2
  <2>8. QED BY <2>3, <2>5, <2>6, <2>7
<1>16. AsideOn(U, t) BY <1>7, <1>12, <1>14, <1>15 DEF AsideOn
<1>17. DOMAIN U \cap generics[r] = {}
  <2>1. DOMAIN W \cap generics[r] = {}
    BY <1>1, <1>10 DEF IInv, WaitsForMissing
  <2>2. DOMAIN U = DOMAIN W \cup {e} BY <1>12
  <2>3. QED BY <1>8, <2>1, <2>2
<1>18. /\ HandleDatagram(r, m, {}, <<>>)
       /\ UNCHANGED <<executeVars, replied, blockVars, clientVars, primaryVars>>
  BY DEF Hold, HandleGeneric
<1>19. {} \in SUBSET Datagrams(Msgs) /\ <<>> \in Seq(OwnMessages)
       /\ Sent({}, <<>>) = {} /\ Items(<<>>) = {}
  BY EmptySeq DEF Sent, Items
<1>20. /\ NetTypeOK(Msgs, OwnMessages)'
       /\ Messages' \subseteq Messages \cup {}
       /\ net' \subseteq net
       /\ \A i \in Replicas : Held(loopback'[i]) \subseteq Held(loopback[i])
  BY <1>1, <1>18, <1>19, ReplicaSends
<1>21. UNCHANGED <<chain, app, panicked, requests, propose_height, votes, replied,
                   generics, view_height, digest_lock, digest_certified>>
  BY <1>18 DEF executeVars, primaryVars, blockVars
<1>22. Tip' = Tip BY <1>21 DEF Tip
<1>23. Typed'
  BY <1>1, <1>13, <1>18, <1>20, <1>21, <1>22
  DEF Typed, clientVars, ClientTypeOK, ExecutionTypeOK
<1>24. Aside' BY <1>1, <1>4, <1>13, <1>16, <1>22 DEF IInv, Typed, Aside
<1>25. WaitsForMissing'
  BY <1>1, <1>13, <1>17, <1>21 DEF IInv, Typed, WaitsForMissing
<1>26. DOMAIN reordering'[Primary] = {}
  BY <1>1, <1>9, <1>13, PrimaryAssumption DEF IInv, Typed, Placed
<1>27. PICK new : new = {} OBVIOUS
<1>28. Messages' \subseteq Messages \cup new
       /\ \A y \in new : y.kind \notin {"Generic", "Vote"}
       /\ \A x \in net' : x \in net \/ x.msg.kind /= "Generic"
  BY <1>20, <1>27
<1>29. UNCHANGED <<chain, app, votes, blockVars>> BY <1>18, <1>21
<1>30. \A i \in Replicas : \A c \in Clients :
          replied'[i][c].reply \subseteq replied[i][c].reply
  BY <1>21
<1>31. QED
  BY <1>20, <1>23, <1>24, <1>25, <1>26, <1>28, <1>29, <1>30, QuietStep

\* The primary proposes on the last block, which has its certificate.
LEMMA ProposesOnTip ==
  ASSUME IInv, Len(digest_certified[Primary]) >= propose_height
  PROVE  digest_certified[Primary] = Tip
<1>1. PICK c : c = digest_certified[Primary] OBVIOUS
<1>2. PICK t : t = Tip OBVIOUS
<1>3. /\ c \in Seq(Batches) /\ t \in Seq(Batches)
      /\ Len(c) \in Nat /\ Len(t) \in Nat
  BY <1>1, <1>2, PrimaryAssumption, TipType, LenProperties
  DEF IInv, Typed, Digests
<1>4. IsAncestor(c, t)
  BY <1>1, <1>2, PrimaryAssumption DEF IInv, Fitting, Fit, Follows, Fields
<1>5. Len(t) <= Len(c) BY <1>1, <1>2, <1>3 DEF IInv, Typed
<1>6. Len(c) = Len(t) BY <1>3, <1>4, <1>5 DEF IsAncestor
<1>7. QED BY <1>1, <1>2, <1>3, <1>4, <1>6, AncestorAntisymmetric

LEMMA Proposes ==
  ASSUME IInv, NEW r \in Live, OnPace(r), NEW t, t = Tip
  PROVE  /\ r = Primary
         /\ t \in Digests /\ t \in Seq(Batches) /\ Len(t) \in Nat
         /\ digest_certified[r] = t
         /\ \E next \in Chains : \E d \in Digests :
              /\ next = Propose(chain[r], requests)
              /\ next.digest_parent = d
              /\ next.digest_execute = chain[r].digest_execute
              /\ chain' = [chain EXCEPT ![r] = next]
              /\ propose_height' = Len(d)
              /\ Pace(r, SendTo(Peers(r), GenericMsg(d)), <<GenericMsg(d)>>)
              /\ requests' = Drained(requests)
              /\ Drained(requests) \in Seq(RequestRecords)
              /\ Tip' = d
              /\ d \in Seq(Batches) /\ Len(d) = Len(t) + 1 /\ Parent(d) = t
              /\ IsAncestor(d, d) /\ IsAncestor(t, d)
              /\ \A e \in Digests : IsAncestor(e, t) => IsAncestor(e, d)
<1>1. Typed /\ r \in Replicas /\ r = Primary
  BY LiveAssumption DEF IInv, OnPace
<1>2. t \in Digests /\ t \in Seq(Batches) /\ Len(t) \in Nat
  BY <1>1, TipType DEF Digests
<1>3. digest_certified[r] = t BY <1>1, ProposesOnTip DEF OnPace
<1>4. chain \in [Replicas -> Chains] BY <1>1 DEF Typed, ExecutionTypeOK
<1>5. PICK ch : ch = chain[r] OBVIOUS
<1>6. ch \in Chains /\ ch.digest_parent = t /\ [ch EXCEPT !.digest_parent = t] = ch
  BY <1>1, <1>4, <1>5 DEF Tip, Chains
<1>7. PICK next : next = Propose(ch, requests) OBVIOUS
<1>8. PICK d : d = next.digest_parent OBVIOUS
<1>9. /\ chain' = [chain EXCEPT ![r] = next]
      /\ propose_height' = Len(d)
      /\ Pace(r, SendTo(Peers(r), GenericMsg(d)), <<GenericMsg(d)>>)
      /\ requests' = Drained(requests)
  <2>1. [chain[r] EXCEPT !.digest_parent = digest_certified[r]] = ch
    BY <1>3, <1>5, <1>6
  <2>2. QED BY <1>7, <1>8, <2>1 DEF OnPace
<1>10. requests \in Seq(RequestRecords) BY <1>1 DEF Typed
<1>11. /\ next \in Chains /\ next.digest_execute = ch.digest_execute
       /\ d \in Digests /\ IsAncestor(d, d)
       /\ \A e \in Digests : IsAncestor(e, t) => IsAncestor(e, d)
       /\ Drained(requests) \in Seq(RequestRecords)
  BY <1>6, <1>7, <1>8, <1>10, ProposeProperties
<1>12. Len(d) = Len(t) + 1
  <2>1. PICK b : b = SubSeq(requests, 1, BatchLen(requests)) OBVIOUS
  <2>2. d = Append(t, b) BY <1>6, <1>7, <1>8, <2>1 DEF Propose, Chains
  <2>3. QED BY <1>2, <2>2
<1>13. IsAncestor(t, d) BY <1>2, <1>11, AncestorReflexive
<1>14. Parent(d) = t
  <2>1. Len(d) - 1 = Len(t) BY <1>2, <1>12
  <2>2. QED BY <1>13, <2>1 DEF Parent, IsAncestor
<1>15. Tip' = d BY <1>1, <1>4, <1>8, <1>9 DEF Tip
<1>16. d \in Seq(Batches) BY <1>11 DEF Digests
<1>17. QED
  BY <1>1, <1>2, <1>3, <1>5, <1>7, <1>8, <1>9, <1>11, <1>12, <1>13, <1>14, <1>15,
     <1>16

LEMMA OnPaceKeeps ==
  ASSUME IInv, NEW r \in Live, OnPace(r)
  PROVE  IInv'
<1>1. /\ Typed /\ MessagesSound /\ VotesSound /\ Certain /\ Fitting /\ Aside
      /\ Placed /\ r \in Replicas /\ r = Primary
  BY LiveAssumption DEF IInv, OnPace
<1>2. PICK t : t = Tip OBVIOUS
<1>3. t \in Digests /\ t \in Seq(Batches) /\ Len(t) \in Nat
      /\ digest_certified[r] = t
  BY <1>2, Proposes
<1>4. chain \in [Replicas -> Chains] BY <1>1 DEF Typed, ExecutionTypeOK
<1>5. PICK next \in Chains, d \in Digests :
        /\ next.digest_parent = d
        /\ next.digest_execute = chain[r].digest_execute
        /\ chain' = [chain EXCEPT ![r] = next]
        /\ propose_height' = Len(d)
        /\ Pace(r, SendTo(Peers(r), GenericMsg(d)), <<GenericMsg(d)>>)
        /\ requests' = Drained(requests)
        /\ Drained(requests) \in Seq(RequestRecords)
        /\ Tip' = d
        /\ d \in Seq(Batches) /\ Len(d) = Len(t) + 1 /\ Parent(d) = t
        /\ IsAncestor(d, d) /\ IsAncestor(t, d)
        /\ \A e \in Digests : IsAncestor(e, t) => IsAncestor(e, d)
  BY <1>2, Proposes
<1>6. PICK m : m = GenericMsg(d) OBVIOUS
<1>7. /\ Pace(r, SendTo(Peers(r), m), <<m>>)
      /\ UNCHANGED <<clientVars, app, panicked, votes, replied, reordering,
                     blockVars>>
  BY <1>5, <1>6 DEF OnPace
<1>8. Len(d) > 0 /\ Len(d) \in Nat BY <1>3, <1>5
<1>9. m \in OwnMessages
  BY <1>5, <1>6, <1>8 DEF GenericMsg, GenericMsgs, OwnMessages
<1>10. /\ SendTo(Peers(r), m) \in SUBSET Datagrams(Msgs)
       /\ <<m>> \in Seq(OwnMessages) /\ Len(<<m>>) = 1
       /\ Sent(SendTo(Peers(r), m), <<m>>) = {m}
  <2>1. OwnMessages \in SUBSET Msgs BY DEF Msgs
  <2>2. QED BY <1>9, <2>1, SentType
<1>11. /\ NetTypeOK(Msgs, OwnMessages)'
       /\ Messages' \subseteq Messages \cup {m}
       /\ net' \subseteq net \cup SendTo(Peers(r), m)
       /\ \A i \in Replicas : i /= r => Held(loopback'[i]) = Held(loopback[i])
  BY <1>1, <1>5, <1>7, <1>10, ReplicaSends
<1>12. UNCHANGED <<generics, view_height, digest_lock, digest_certified>>
  BY <1>5, <1>7 DEF blockVars
<1>13. Typed'
  BY <1>1, <1>5, <1>7, <1>8, <1>11, <1>12
  DEF Typed, clientVars, ClientTypeOK, ExecutionTypeOK
<1>14. PICK new : new = {m} OBVIOUS
<1>15. Messages' \subseteq Messages \cup new /\ \A x \in new : Sound(x)'
  BY <1>5, <1>6, <1>8, <1>11, <1>14 DEF Sound, OnChain, GenericMsg
<1>16. MessagesSound' /\ Fitting'
  <2>1. IsAncestor(Tip, Tip') BY <1>2, <1>5
  <2>2. UNCHANGED <<generics, digest_lock, app>> BY <1>5, <1>7, <1>12
  <2>3. ASSUME NEW i \in Replicas
        PROVE  /\ chain'[i].digest_execute = chain[i].digest_execute
               /\ IsAncestor(digest_certified'[i], Tip')
               /\ \A c \in Clients :
                     replied'[i][c].reply \subseteq replied[i][c].reply
    <3>1. chain'[i].digest_execute = chain[i].digest_execute
      BY <1>4, <1>5, <1>7, <1>8
    <3>2. digest_certified[i] \in Digests /\ IsAncestor(digest_certified[i], t)
      BY <1>1, <1>2 DEF Typed, Fitting, Fit, Follows, Fields
    <3>3. QED BY <1>5, <1>7, <1>8, <1>12, <3>1, <3>2
  <2>4. QED BY <1>13, <1>15, <2>1, <2>2, <2>3, PlainStep
<1>17. VotesSound'
  <2>1. \A e : OnChain(e) => OnChain(e)'
    BY <1>2, <1>5, <1>8 DEF OnChain
  <2>2. QED BY <1>1, <1>5, <1>7, <1>12, <2>1 DEF VotesSound
<1>18. Certain'
  <2>1. ASSUME NEW e \in Digests, Len(e) > 0, Len(e) < Len(d), IsAncestor(e, d)
        PROVE  VotesComplete(votes, e)
    <3>1. e \in Seq(Batches) /\ Len(e) \in Nat
      BY LenProperties DEF Digests
    <3>2. Len(e) <= Len(t) BY <1>3, <1>5, <1>8, <2>1, <3>1
    <3>3. IsAncestor(e, t)
      BY <1>3, <1>5, <1>8, <2>1, <3>1, <3>2, AncestorsOfOne
    <3>4. CASE Len(e) < Len(t) BY <1>1, <1>2, <2>1, <3>3, <3>4 DEF Certain
    <3>5. CASE Len(e) = Len(t)
      <4>1. e = t BY <1>3, <3>1, <3>3, <3>5, AncestorAntisymmetric
      <4>2. t /= Genesis BY <2>1, <4>1, EmptySeq DEF Genesis
      <4>3. QED BY <1>1, <1>3, <4>1, <4>2 DEF Certain
    <3>6. QED BY <1>3, <3>1, <3>2, <3>4, <3>5
  <2>2. votes' = votes /\ digest_certified' = digest_certified
    BY <1>5, <1>7, <1>12
  <2>3. QED BY <1>1, <1>5, <2>1, <2>2 DEF Certain, VotesComplete, Quorum
<1>19. Aside'
  <2>1. \A i \in Replicas : AsideOn(reordering[i], d)
    BY <1>1, <1>2, <1>3, <1>5, <1>8, AsideKept DEF Aside
  <2>2. QED BY <1>5, <1>7, <2>1 DEF Aside
<1>20. Placed'
  <2>1. \A x \in SendTo(Peers(r), m) : x.to /= Primary
    BY <1>1 DEF SendTo, Peers, Datagram
  <2>2. QED BY <1>1, <1>5, <1>7, <1>11, <2>1 DEF Placed
<1>21. WaitsForMissing' BY <1>5, <1>7, <1>12 DEF IInv, WaitsForMissing
<1>22. QED
  BY <1>13, <1>16, <1>17, <1>18, <1>19, <1>20, <1>21 DEF IInv

\* insert_vote adds a sound vote, unless the certificate is complete, and
\* certifies a block only when it becomes so.
LEMMA InsertVoteStep ==
  ASSUME IInv, NEW r \in Live, NEW m \in VoteMsgs, m \in Messages, m.kind = "Vote",
         InsertVote(r, m)
  PROVE  /\ votes' \in SUBSET (Digests \X Live)
         /\ VotesSound' /\ Certain'
         /\ digest_certified' \in [Replicas -> Digests]
         /\ \A i \in Replicas : IsAncestor(digest_certified'[i], Tip)
         /\ Tip' = Tip
<1>1. Typed /\ VotesSound /\ Certain /\ Fitting /\ r \in Replicas
  BY LiveAssumption DEF IInv
<1>2. PICK d : d = m.digest OBVIOUS
<1>3. PICK t : t = Tip OBVIOUS
<1>4. t \in Digests BY <1>1, <1>3, TipType
<1>5. /\ OnChain(d) /\ d \in Digests /\ Len(d) > 0 /\ IsAncestor(d, t)
      /\ Locked(d, digest_lock[m.replica]) /\ m.replica \in Live
  BY <1>2, <1>3 DEF IInv, MessagesSound, Sound, OnChain, VoteMsgs
<1>6. chain' = chain /\ digest_lock' = digest_lock /\ Tip' = Tip
  BY DEF InsertVote, Tip
<1>7. PICK p : p = <<d, m.replica>> OBVIOUS
<1>8. \/ votes' = votes
      \/ votes' = votes \cup {p} /\ ~VotesComplete(votes, d)
  BY <1>2, <1>7 DEF InsertVote
<1>9. votes' \in SUBSET (Digests \X Live) BY <1>1, <1>5, <1>7, <1>8 DEF Typed
<1>10. VotesSound'
  <2>1. \A e : OnChain(e)' <=> OnChain(e) BY <1>6 DEF OnChain
  <2>2. \A q \in votes' : q \in votes \/ q = p BY <1>8
  <2>3. p[1] = d /\ p[2] = m.replica BY <1>7
  <2>4. QED BY <1>1, <1>5, <1>6, <2>1, <2>2, <2>3 DEF VotesSound
<1>11. ASSUME NEW e, VotesComplete(votes, e) PROVE VotesComplete(votes', e)
  <2>1. CASE votes' = votes BY <1>11, <2>1
  <2>2. CASE votes' = votes \cup {p} /\ ~VotesComplete(votes, d)
    <3>1. e /= d /\ p[1] = d BY <1>7, <1>11, <2>2
    <3>2. {q \in votes' : q[1] = e} = {q \in votes : q[1] = e} BY <2>2, <3>1
    <3>3. QED BY <1>11, <3>2 DEF VotesComplete
  <2>3. QED BY <1>8, <2>1, <2>2
<1>12. \/ digest_certified' = digest_certified
       \/ /\ digest_certified' =
                [digest_certified EXCEPT ![r] = Higher(d, digest_certified[r])]
          /\ VotesComplete(votes', d)
  BY <1>2 DEF InsertVote
<1>13. digest_certified \in [Replicas -> Digests]
       /\ \A i \in Replicas : IsAncestor(digest_certified[i], t)
  BY <1>1, <1>3 DEF Typed, Fitting, Fit, Follows, Fields
<1>14. PICK c : c = Higher(d, digest_certified[r]) OBVIOUS
<1>15. c \in Digests /\ IsAncestor(c, t) /\ c \in {d, digest_certified[r]}
  BY <1>1, <1>4, <1>5, <1>13, <1>14, HigherOnChain
<1>16. /\ digest_certified' \in [Replicas -> Digests]
       /\ \A i \in Replicas : IsAncestor(digest_certified'[i], t)
  BY <1>12, <1>13, <1>14, <1>15
<1>17. \/ digest_certified'[Primary] = Genesis
       \/ VotesComplete(votes', digest_certified'[Primary])
  <2>1. \/ digest_certified'[Primary] = digest_certified[Primary]
        \/ digest_certified'[Primary] = d /\ VotesComplete(votes', d)
    BY <1>12, <1>13, <1>14, <1>15, PrimaryAssumption
  <2>2. QED BY <1>1, <1>11, <2>1 DEF Certain
<1>18. Certain'
  BY <1>1, <1>6, <1>11, <1>17 DEF Certain, VotesComplete, Quorum
<1>19. QED BY <1>3, <1>6, <1>9, <1>10, <1>16, <1>18

\* insert_vote, whichever way the vote came.
LEMMA InsertVoteKeeps ==
  ASSUME IInv, NEW r \in Live, NEW m \in VoteMsgs, m \in Messages, m.kind = "Vote",
         InsertVote(r, m), NEW x,
         \/ HandleDatagram(r, x, {}, <<>>)
         \/ loopback[r] /= <<>> /\ HandleLoopback(r, {}, <<>>)
  PROVE  IInv'
<1>1. Typed /\ Fitting /\ r \in Replicas BY LiveAssumption DEF IInv
<1>2. /\ votes' \in SUBSET (Digests \X Live)
      /\ VotesSound' /\ Certain'
      /\ digest_certified' \in [Replicas -> Digests]
      /\ \A i \in Replicas : IsAncestor(digest_certified'[i], Tip)
      /\ Tip' = Tip
  BY InsertVoteStep
<1>3. {} \in SUBSET Datagrams(Msgs) /\ <<>> \in Seq(OwnMessages)
      /\ Sent({}, <<>>) = {} /\ Items(<<>>) = {}
  BY EmptySeq DEF Sent, Items
<1>4. /\ NetTypeOK(Msgs, OwnMessages)'
      /\ Messages' \subseteq Messages \cup {}
      /\ net' \subseteq net
      /\ \A i \in Replicas : Held(loopback'[i]) \subseteq Held(loopback[i])
  <2>1. /\ NetTypeOK(Msgs, OwnMessages)'
        /\ Messages' \subseteq Messages \cup Sent({}, <<>>)
        /\ net' \subseteq net \cup {}
        /\ \A s \in Replicas : s /= r => Held(loopback'[s]) = Held(loopback[s])
        /\ Held(loopback'[r]) \subseteq Held(loopback[r]) \cup Items(<<>>)
    BY <1>1, <1>3, ReplicaSends
  <2>2. QED BY <1>3, <2>1
<1>5. UNCHANGED <<clientVars, chain, app, requests, propose_height, replied,
                  reordering, generics, view_height, digest_lock>>
  BY DEF InsertVote
<1>6. panicked' \in [Replicas -> {"no", "index", "conflict"}]
  BY <1>1 DEF InsertVote, Typed, ExecutionTypeOK
<1>7. Typed'
  BY <1>1, <1>2, <1>4, <1>5, <1>6
  DEF Typed, clientVars, ClientTypeOK, ExecutionTypeOK
<1>8. PICK new : new = {} OBVIOUS
<1>9. Messages' \subseteq Messages \cup new /\ \A y \in new : Sound(y)'
  BY <1>4, <1>8
<1>10. IsAncestor(Tip, Tip')
  BY <1>1, <1>2, TipType, AncestorReflexive DEF Digests
<1>11. \A i \in Replicas :
          /\ chain'[i].digest_execute = chain[i].digest_execute
          /\ IsAncestor(digest_certified'[i], Tip')
          /\ \A c \in Clients : replied'[i][c].reply \subseteq replied[i][c].reply
  BY <1>2, <1>5
<1>12. MessagesSound' /\ Fitting' BY <1>5, <1>7, <1>9, <1>10, <1>11, PlainStep
<1>13. Aside' BY <1>2, <1>5 DEF IInv, Aside
<1>14. Placed' BY <1>4, <1>5 DEF IInv, Placed
<1>15. WaitsForMissing' BY <1>5 DEF IInv, WaitsForMissing
<1>16. QED BY <1>2, <1>7, <1>12, <1>13, <1>14, <1>15 DEF IInv

LEMMA HandleVoteKeeps ==
  ASSUME IInv, NEW r \in Live, NEW m, HandleVote(r, m)
  PROVE  IInv'
<1>1. m \in VoteMsgs /\ m \in Messages /\ m.kind = "Vote"
  BY LiveAssumption, MessagesType, KindsOfOwn DEF IInv, HandleVote
<1>2. InsertVote(r, m) /\ HandleDatagram(r, m, {}, <<>>) BY DEF HandleVote
<1>3. QED BY <1>1, <1>2, InsertVoteKeeps

LEMMA LoopbackVoteKeeps ==
  ASSUME IInv, NEW r \in Live, LoopbackVote(r)
  PROVE  IInv'
<1>1. PICK m : m = Own(r) OBVIOUS
<1>2. m \in VoteMsgs /\ m \in Messages /\ m.kind = "Vote"
  BY <1>1, LiveAssumption, MessagesType, KindsOfOwn
  DEF IInv, LoopbackVote, Msgs
<1>3. InsertVote(r, m) /\ loopback[r] /= <<>> /\ HandleLoopback(r, {}, <<>>)
  BY <1>1 DEF LoopbackVote
<1>4. QED BY <1>2, <1>3, InsertVoteKeeps
-----------------------------------------------------------------------------
\* The fields when what was sent is on its way.
Kept(s) ==
    [generics |-> s.generics, view_height |-> s.view_height,
     lock |-> s.lock, certified |-> s.certified,
     chain |-> s.chain, app |-> s.app, replied |-> s.replied,
     panicked |-> s.panicked, votes |-> <<>>, replies |-> {}]

\* What becomes of a replica's fields when it has inserted blocks.
LEMMA BecomesFields ==
  ASSUME Typed, NEW r \in Live, NEW s \in ReplicaFields, Becomes(r, s)
  PROVE  /\ ExecutionTypeOK'
         /\ replied' \in [Replicas -> Replied]
         /\ generics' \in [Replicas -> SUBSET Digests]
         /\ view_height' \in [Replicas -> Nat]
         /\ digest_lock' \in [Replicas -> Digests]
         /\ digest_certified' \in [Replicas -> Digests]
         /\ \A i \in Replicas : i /= r => Fields(i)' = Fields(i)
         /\ Fields(r)' = Kept(s)
<1>1. r \in Replicas BY LiveAssumption
<1>2. /\ s.generics \in SUBSET Digests /\ s.view_height \in Nat
      /\ s.lock \in Digests /\ s.certified \in Digests
      /\ s.chain \in Chains /\ s.app \in Digests /\ s.replied \in Replied
      /\ s.panicked \in {"no", "index", "conflict"}
  BY DEF ReplicaFields
<1>3. /\ generics' = [generics EXCEPT ![r] = s.generics]
      /\ view_height' = [view_height EXCEPT ![r] = s.view_height]
      /\ digest_lock' = [digest_lock EXCEPT ![r] = s.lock]
      /\ digest_certified' = [digest_certified EXCEPT ![r] = s.certified]
      /\ chain' = [chain EXCEPT ![r] = s.chain]
      /\ app' = [app EXCEPT ![r] = s.app]
      /\ replied' = [replied EXCEPT ![r] = s.replied]
      /\ panicked' = [panicked EXCEPT ![r] = s.panicked]
  BY DEF Becomes
<1>4. ExecutionTypeOK' BY <1>1, <1>2, <1>3 DEF Typed, ExecutionTypeOK
<1>5. /\ replied' \in [Replicas -> Replied]
      /\ generics' \in [Replicas -> SUBSET Digests]
      /\ view_height' \in [Replicas -> Nat]
      /\ digest_lock' \in [Replicas -> Digests]
      /\ digest_certified' \in [Replicas -> Digests]
  BY <1>1, <1>2, <1>3 DEF Typed
<1>6. \A i \in Replicas : i /= r => Fields(i)' = Fields(i)
  BY <1>3 DEF Typed, ExecutionTypeOK, Fields
<1>7. Fields(r)' = Kept(s)
  <2>1. /\ generics'[r] = s.generics /\ view_height'[r] = s.view_height
        /\ digest_lock'[r] = s.lock /\ digest_certified'[r] = s.certified
        /\ chain'[r] = s.chain /\ app'[r] = s.app /\ replied'[r] = s.replied
        /\ panicked'[r] = s.panicked
    BY <1>1, <1>3 DEF Typed, ExecutionTypeOK
  <2>2. Fields(r)' = [generics |-> s.generics, view_height |-> s.view_height,
                      lock |-> s.lock, certified |-> s.certified,
                      chain |-> s.chain, app |-> s.app, replied |-> s.replied,
                      panicked |-> s.panicked, votes |-> <<>>, replies |-> {}]
    BY <2>1 DEF Fields
  <2>3. QED BY <2>2 DEF Kept
<1>8. QED BY <1>4, <1>5, <1>6, <1>7

\* Fit fields are so when what was sent is forgotten.
LEMMA FitSent ==
  ASSUME NEW r, NEW t, NEW s, Fit(s, r, t),
         NEW u, u = Kept(s)
  PROVE  Fit(u, r, t)
<1>1. <<>> \in Seq(VoteMsgs) /\ Len(<<>>) = 0 BY EmptySeq
<1>2. s \in ReplicaFields BY DEF Fit
<1>3. /\ u \in ReplicaFields /\ u.votes = <<>> /\ u.replies = {}
      /\ u.generics = s.generics /\ u.lock = s.lock
      /\ u.certified = s.certified /\ u.chain = s.chain /\ u.app = s.app
      /\ u.replied = s.replied
  BY <1>1, <1>2 DEF ReplicaFields, Kept
<1>4. Range(<<>>) = {}
  <2>1. Range(<<>>) = {<<>>[i] : i \in 1..0} BY <1>1, RangeEquality
  <2>2. QED BY <2>1
<1>5. QED BY <1>3, <1>4 DEF Fit, Follows, Truthful

\* A step in which r inserts blocks of the chain, and sends its votes and
\* replies.
LEMMA InsertingStep ==
  ASSUME IInv, NEW r \in Live, NEW s, Fit(s, r, Tip), Grows(Fields(r), s, Tip),
         Becomes(r, s), UNCHANGED <<clientVars, primaryVars>>,
         NetTypeOK(Msgs, OwnMessages)',
         NEW new, Messages' \subseteq Messages \cup new,
         \A m \in new : m \in Range(s.votes) \/ m.kind = "Reply",
         \A x \in net' : x \in net \/ x.msg.kind /= "Generic",
         \A i \in Replicas : \A m \in Held(loopback'[i]) :
            m \in Held(loopback[i]) \/ m.kind /= "Generic",
         reordering' = [i \in Replicas |-> reordering'[i]],
         Aside', WaitsForMissing', DOMAIN reordering'[Primary] = {}
  PROVE  IInv'
<1>1. /\ Typed /\ MessagesSound /\ VotesSound /\ Certain /\ Fitting /\ Placed
      /\ r \in Replicas
  BY LiveAssumption DEF IInv
<1>2. PICK t : t = Tip OBVIOUS
<1>3. t \in Digests BY <1>1, <1>2, TipType
<1>4. s \in ReplicaFields BY DEF Fit
<1>5. /\ s.lock \in Digests /\ s.certified \in Digests
      /\ s.votes \in Seq(VoteMsgs)
      /\ IsAncestor(s.certified, t)
  BY <1>2, <1>4 DEF Fit, Follows, ReplicaFields
<1>6. /\ IsAncestor(digest_lock[r], s.lock)
      /\ s.chain.digest_parent = chain[r].digest_parent
      /\ s.certified = digest_certified[r] \/ Len(s.certified) < Len(t)
  BY <1>2 DEF Grows, Fields
<1>7. /\ ExecutionTypeOK'
      /\ replied' \in [Replicas -> Replied]
      /\ generics' \in [Replicas -> SUBSET Digests]
      /\ view_height' \in [Replicas -> Nat]
      /\ digest_lock' \in [Replicas -> Digests]
      /\ digest_certified' \in [Replicas -> Digests]
      /\ \A i \in Replicas : i /= r => Fields(i)' = Fields(i)
      /\ Fields(r)' = Kept(s)
  BY <1>1, <1>4, BecomesFields
<1>8. /\ digest_lock' = [digest_lock EXCEPT ![r] = s.lock]
      /\ digest_certified' = [digest_certified EXCEPT ![r] = s.certified]
      /\ chain' = [chain EXCEPT ![r] = s.chain]
  BY DEF Becomes
<1>9. UNCHANGED <<requests, propose_height, votes>> BY DEF primaryVars
<1>10. Tip' = t
  BY <1>1, <1>2, <1>6, <1>8, PrimaryAssumption DEF Typed, ExecutionTypeOK, Tip
<1>11. Typed'
  BY <1>1, <1>2, <1>7, <1>9, <1>10 DEF Typed, clientVars, ClientTypeOK
<1>12. IsAncestor(t, t) BY <1>3, AncestorReflexive DEF Digests
<1>13. /\ digest_lock \in [Replicas -> Digests]
       /\ \A i \in Replicas : IsAncestor(digest_lock[i], digest_lock'[i])
  <2>1. digest_lock \in [Replicas -> Digests] BY <1>1 DEF Typed
  <2>2. \A d \in Digests : IsAncestor(d, d) BY AncestorReflexive DEF Digests
  <2>3. QED BY <1>6, <1>8, <2>1, <2>2
<1>14. ASSUME NEW m \in new PROVE Sound(m)'
  <2>1. CASE m.kind = "Reply" BY <2>1 DEF Sound
  <2>2. CASE m \in Range(s.votes)
    <3>1. m \in VoteMsgs BY <1>5, <2>2, RangeOfSeq
    <3>2. /\ m.replica = r /\ Len(m.digest) > 0 /\ IsAncestor(m.digest, t)
          /\ Locked(m.digest, s.lock) /\ m.digest \in Digests
      BY <1>2, <2>2, <3>1 DEF Fit, Truthful, VoteMsgs
    <3>3. digest_lock'[m.replica] = s.lock BY <1>1, <1>8, <1>13, <3>2
    <3>4. OnChain(m.digest)' BY <1>10, <3>2 DEF OnChain
    <3>5. QED BY <3>2, <3>3, <3>4 DEF Sound
  <2>3. QED BY <2>1, <2>2
<1>15. MessagesSound'
  <2>1. IsAncestor(Tip, Tip') BY <1>2, <1>10, <1>12
  <2>2. QED BY <1>1, <1>11, <1>13, <1>14, <2>1, MessagesStep
<1>16. VotesSound'
  <2>1. /\ \A d : OnChain(d) => OnChain(d)'
        /\ \A d, i : OnChain(d) /\ i \in Replicas /\ Locked(d, digest_lock[i])
                     => Locked(d, digest_lock'[i])
    BY <1>2, <1>3, <1>7, <1>10, <1>12, <1>13, SoundKept
  <2>2. \A p \in votes : p[2] \in Replicas BY <1>1, LiveAssumption DEF Typed
  <2>3. QED BY <1>1, <1>9, <2>1, <2>2 DEF VotesSound
<1>17. Certain'
  <2>1. \A d \in Digests : Len(d) > 0 /\ Len(d) < Len(t) /\ IsAncestor(d, t)
                           => VotesComplete(votes, d)
    BY <1>1, <1>2 DEF Certain
  <2>2. \/ digest_certified'[Primary] = Genesis
        \/ VotesComplete(votes, digest_certified'[Primary])
    <3>1. digest_certified \in [Replicas -> Digests] BY <1>1 DEF Typed
    <3>2. CASE digest_certified'[Primary] = digest_certified[Primary]
      BY <1>1, <3>2 DEF Certain
    <3>3. CASE /\ digest_certified'[Primary] = s.certified
               /\ Len(s.certified) < Len(t)
      <4>1. s.certified \in Seq(Batches) BY <1>5 DEF Digests
      <4>2. s.certified = Genesis \/ Len(s.certified) > 0
        BY <4>1, EmptySeq, LenProperties DEF Genesis
      <4>3. QED BY <1>5, <2>1, <3>3, <4>2
    <3>4. QED BY <1>6, <1>8, <3>1, <3>2, <3>3, PrimaryAssumption
  <2>3. QED BY <1>9, <1>10, <2>1, <2>2 DEF Certain, VotesComplete, Quorum
<1>18. Fitting'
  <2>1. ASSUME NEW i \in Replicas PROVE Fit(Fields(i), i, Tip)'
    <3>1. CASE i = r
      <4>1. PICK u : u = Kept(s) OBVIOUS
      <4>2. Fit(u, r, t) BY <1>2, <4>1, FitSent
      <4>3. QED BY <1>7, <1>10, <3>1, <4>1, <4>2
    <3>2. CASE i /= r
      <4>1. Fit(Fields(i), i, t) BY <1>1, <1>2 DEF Fitting
      <4>2. QED BY <1>7, <1>10, <3>2, <4>1
    <3>3. QED BY <3>1, <3>2
  <2>2. QED BY <2>1 DEF Fitting
<1>19. Placed' BY <1>1 DEF Placed
<1>20. QED BY <1>11, <1>15, <1>16, <1>17, <1>18, <1>19 DEF IInv

\* Votes and replies, as what a handler sends.
LEMMA InsertedSends ==
  ASSUME NEW r \in Live, NEW t, NEW s, Fit(s, r, t)
  PROVE  /\ s.replies \in SUBSET Datagrams(Msgs)
         /\ s.votes \in Seq(OwnMessages)
         /\ \A x \in s.replies : x.msg.kind = "Reply"
         /\ Items(s.votes) = Range(s.votes)
         /\ \A v \in Range(s.votes) :
               v.kind = "Vote" /\ (Primary \in Replicas =>
                  Datagram(Primary, v) \in Datagrams(Msgs))
<1>1. /\ s.replies \subseteq [to : Clients, msg : ReplyMsgs]
      /\ s.votes \in Seq(VoteMsgs)
  BY DEF Fit, ReplicaFields
<1>2. s.replies \in SUBSET Datagrams(Msgs) BY <1>1 DEF Datagrams
<1>3. VoteMsgs \subseteq OwnMessages BY DEF OwnMessages
<1>4. s.votes \in Seq(OwnMessages) BY <1>1, <1>3, SeqMonotone
<1>5. \A x \in s.replies : x.msg.kind = "Reply" BY <1>1 DEF ReplyMsgs
<1>6. Items(s.votes) = Range(s.votes)
  <2>1. Range(s.votes) = {s.votes[k] : k \in 1..Len(s.votes)}
    BY <1>1, RangeEquality
  <2>2. QED BY <2>1 DEF Items
<1>7. ASSUME NEW v \in Range(s.votes)
      PROVE  v.kind = "Vote" /\ (Primary \in Replicas =>
                Datagram(Primary, v) \in Datagrams(Msgs))
  <2>1. v \in VoteMsgs BY <1>1, RangeOfSeq
  <2>2. v \in Msgs BY <2>1 DEF Msgs, OwnMessages
  <2>3. QED BY <2>1, <2>2 DEF VoteMsgs, Datagram, Datagrams
<1>8. QED BY <1>2, <1>4, <1>5, <1>6, <1>7

\* The primary's own block is on the chain.
LEMMA LoopbackInserts ==
  ASSUME IInv, NEW r \in Live, LoopbackGeneric(r),
         NEW s, s = InsertAll(r, <<Own(r).digest>>)
  PROVE  Fit(s, r, Tip) /\ Grows(Fields(r), s, Tip)
<1>1. Typed /\ Fitting /\ r \in Replicas BY LiveAssumption DEF IInv
<1>2. PICK d : d = Own(r).digest OBVIOUS
<1>3. PICK t : t = Tip OBVIOUS
<1>4. t \in Digests BY <1>1, <1>3, TipType
<1>5. d \in Digests /\ Len(d) > 0 /\ IsAncestor(d, t)
  <2>1. Own(r) \in Messages /\ Own(r).kind = "Generic"
    BY <1>1, MessagesType DEF LoopbackGeneric
  <2>2. QED BY <1>2, <1>3, <2>1 DEF IInv, MessagesSound, Sound, OnChain
<1>6. PICK b : b = <<d>> OBVIOUS
<1>7. Len(b) = 1 /\ b[1] = d /\ Len(b) \in Nat BY <1>6
<1>8. Fit(Fields(r), r, t) BY <1>1, <1>3 DEF Fitting
<1>9. s = InsertAll(r, b) BY <1>2, <1>6
<1>10. \A i \in 1..Len(b) :
          b[i] \in Digests /\ Len(b[i]) > 0 /\ IsAncestor(b[i], t)
  BY <1>5, <1>7
<1>11. Fit(s, r, t) /\ Grows(Fields(r), s, t)
  BY <1>4, <1>7, <1>8, <1>9, <1>10, InsertAllFits
<1>12. QED BY <1>3, <1>11

\* The primary inserts its own block: nothing waits at the primary.
LEMMA LoopbackGenericKeeps ==
  ASSUME IInv, NEW r \in Live, LoopbackGeneric(r)
  PROVE  IInv'
<1>1. Typed /\ Placed /\ r \in Replicas BY LiveAssumption DEF IInv
<1>2. PICK d : d = Own(r).digest OBVIOUS
<1>3. PICK t : t = Tip OBVIOUS
<1>6. r = Primary
  <2>1. PICK q : q = loopback[r] OBVIOUS
  <2>2. PICK E : E = OwnEntries(Msgs, OwnMessages) OBVIOUS
  <2>3. q \in Seq(E) /\ q /= <<>>
    BY <1>1, <2>1, <2>2, NetTypeDef DEF Typed, LoopbackGeneric
  <2>4. Len(q) \in Nat /\ Len(q) > 0 BY <2>3, EmptySeq, LenProperties
  <2>5. Head(q) = q[1] /\ 1 \in 1..Len(q) BY <2>3, <2>4
  <2>6. Own(r) \in Held(loopback[r]) BY <2>1, <2>5 DEF Own, Held
  <2>7. QED BY <1>1, <2>6 DEF LoopbackGeneric, Placed
<1>7. PICK s : /\ s = InsertAll(r, <<d>>) /\ Becomes(r, s)
               /\ HandleLoopback(r, s.replies, s.votes)
  BY <1>2 DEF LoopbackGeneric
<1>8. loopback[r] /= <<>> /\ UNCHANGED <<clientVars, primaryVars, reordering>>
  BY DEF LoopbackGeneric
<1>9. Fit(s, r, t) /\ Grows(Fields(r), s, t)
  BY <1>2, <1>3, <1>7, LoopbackInserts
<1>10. /\ s.replies \in SUBSET Datagrams(Msgs)
       /\ s.votes \in Seq(OwnMessages)
       /\ \A x \in s.replies : x.msg.kind = "Reply"
       /\ Items(s.votes) = Range(s.votes)
       /\ \A v \in Range(s.votes) : v.kind = "Vote"
  BY <1>9, InsertedSends
<1>11. /\ NetTypeOK(Msgs, OwnMessages)'
       /\ Messages' \subseteq Messages \cup Sent(s.replies, s.votes)
       /\ net' \subseteq net \cup s.replies
       /\ \A i \in Replicas : i /= r => Held(loopback'[i]) = Held(loopback[i])
       /\ Held(loopback'[r]) \subseteq Held(loopback[r]) \cup Items(s.votes)
  BY <1>1, <1>7, <1>8, <1>10, ReplicaSends
<1>12. PICK new : new = Sent(s.replies, s.votes) OBVIOUS
<1>13. Messages' \subseteq Messages \cup new
       /\ \A m \in new : m \in Range(s.votes) \/ m.kind = "Reply"
  BY <1>10, <1>11, <1>12 DEF Sent, Items
<1>14. \A x \in net' : x \in net \/ x.msg.kind /= "Generic"
  BY <1>10, <1>11
<1>15. \A i \in Replicas : \A m \in Held(loopback'[i]) :
          m \in Held(loopback[i]) \/ m.kind /= "Generic"
  BY <1>10, <1>11
<1>16. reordering' = reordering BY <1>8
<1>17. reordering' = [i \in Replicas |-> reordering'[i]]
       /\ DOMAIN reordering'[Primary] = {}
  BY <1>1, <1>16 DEF Typed, Placed
<1>18. Tip' = t
  BY <1>1, <1>3, <1>7, <1>9, PrimaryAssumption
  DEF Becomes, Grows, Fields, Typed, ExecutionTypeOK, Tip
<1>19. Aside' BY <1>3, <1>16, <1>18 DEF IInv, Aside
<1>20. WaitsForMissing'
  <2>1. generics' = [generics EXCEPT ![r] = s.generics] BY <1>7 DEF Becomes
  <2>2. QED BY <1>1, <1>6, <1>16, <1>17, <2>1 DEF IInv, Typed, WaitsForMissing
<1>21. Fit(s, r, Tip) /\ Grows(Fields(r), s, Tip) /\ Becomes(r, s)
       /\ UNCHANGED <<clientVars, primaryVars>>
  BY <1>3, <1>7, <1>8, <1>9
<1>22. NetTypeOK(Msgs, OwnMessages)' BY <1>11
<1>23. QED
  BY <1>13, <1>14, <1>15, <1>17, <1>19, <1>20, <1>21, <1>22, InsertingStep

\* do_reorder_generic: the blocks it inserts are on the chain, and what it
\* leaves aside still waits for a block that is missing.
LEMMA ReleaseInserts ==
  ASSUME IInv, NEW r \in Live, NEW d, OnChain(d),
         NEW released, released = Released(r, d),
         NEW s, s = InsertAll(r, <<d>> \o released),
         NEW U, U = Restrict(reordering[r], DOMAIN reordering[r] \
                                {Parent(e) : e \in Range(released)})
  PROVE  /\ Fit(s, r, Tip) /\ Grows(Fields(r), s, Tip)
         /\ AsideOn(U, Tip)
         /\ DOMAIN U \cap s.generics = {}
         /\ DOMAIN U \subseteq DOMAIN reordering[r]
<1>1. Typed /\ Fitting /\ Aside /\ WaitsForMissing /\ r \in Replicas
  BY LiveAssumption DEF IInv
<1>2. PICK t : t = Tip OBVIOUS
<1>3. t \in Digests /\ d \in Digests /\ Len(d) > 0 /\ IsAncestor(d, t)
  BY <1>1, <1>2, TipType DEF OnChain
<1>4. PICK W : W = reordering[r] OBVIOUS
<1>5. AsideOn(W, t) BY <1>1, <1>2, <1>4 DEF Aside
<1>6. /\ released \in Seq(Digests)
      /\ \A x \in Range(released) : \E e \in DOMAIN W : x \in Range(W[e])
      /\ \A e \in DOMAIN W : e = d \/ e \in Range(released)
            => Range(W[e]) \subseteq Range(released)
  BY <1>3, <1>4, <1>5, ReleasedAll
<1>7. ASSUME NEW x \in Range(released)
      PROVE  x \in Digests /\ Len(x) > 0 /\ IsAncestor(x, t)
  <2>1. PICK e \in DOMAIN W : x \in Range(W[e]) BY <1>6
  <2>2. W[e] \in Seq(Digests) /\ Len(x) > 0 /\ IsAncestor(x, t)
    BY <1>5, <2>1 DEF AsideOn
  <2>3. QED BY <2>1, <2>2, RangeOfSeq
<1>8. PICK a : a = <<d>> OBVIOUS
<1>9. PICK b : b = a \o released OBVIOUS
<1>10. /\ b \in Seq(Digests) /\ Len(b) \in Nat
       /\ Range(b) = {d} \cup Range(released)
       /\ Range(b) = {b[i] : i \in 1..Len(b)}
  <2>1. a \in Seq(Digests) /\ Len(a) = 1 /\ a[1] = d BY <1>3, <1>8
  <2>2. Range(a) = {a[i] : i \in 1..1} BY <2>1, RangeEquality
  <2>3. Range(a) = {d} BY <2>1, <2>2
  <2>4. b \in Seq(Digests) /\ Range(b) = Range(a) \cup Range(released)
    BY <1>6, <1>9, <2>1, ConcatProperties, RangeConcatenation
  <2>5. QED BY <2>3, <2>4, LenProperties, RangeEquality
<1>11. \A i \in 1..Len(b) :
          b[i] \in Digests /\ Len(b[i]) > 0 /\ IsAncestor(b[i], t)
  <2>1. \A i \in 1..Len(b) : b[i] \in {d} \cup Range(released) BY <1>10
  <2>2. QED BY <1>3, <1>7, <2>1
<1>12. /\ Fit(s, r, t) /\ Grows(Fields(r), s, t)
       /\ s.generics \subseteq generics[r] \cup {b[i] : i \in 1..Len(b)}
  <2>1. s = InsertAll(r, b) BY <1>8, <1>9
  <2>2. Fit(Fields(r), r, t) BY <1>1, <1>2 DEF Fitting
  <2>3. Fit(s, r, t) /\ Grows(Fields(r), s, t)
    BY <1>3, <1>10, <1>11, <2>1, <2>2, InsertAllFits
  <2>4. s.generics \subseteq generics[r] \cup {b[i] : i \in 1..Len(b)}
    BY <1>3, <1>10, <1>11, <2>1, <2>2, InsertAllFits
  <2>5. QED BY <2>3, <2>4
<1>13. s.generics \subseteq generics[r] \cup {d} \cup Range(released)
  BY <1>10, <1>12
<1>14. /\ DOMAIN U = DOMAIN W \ {Parent(e) : e \in Range(released)}
       /\ \A e \in DOMAIN U : U[e] = W[e]
  BY <1>4 DEF Restrict
<1>15. AsideOn(U, t) BY <1>5, <1>14 DEF AsideOn
<1>16. ASSUME NEW e \in DOMAIN U PROVE e \notin s.generics
  <2>1. e \in DOMAIN W BY <1>14
  <2>2. e \notin generics[r] BY <1>1, <1>4, <2>1 DEF WaitsForMissing
  <2>3. PICK h : h = Head(W[e]) OBVIOUS
  <2>4. /\ W[e] \in Seq(Digests) /\ W[e] /= <<>>
        /\ \A x \in Range(W[e]) : Parent(x) = e
    BY <1>5, <2>1 DEF AsideOn
  <2>5. h \in Range(W[e]) BY <2>3, <2>4, RangeOfHeadTail
  <2>6. Parent(h) = e BY <2>4, <2>5
  <2>7. h \notin Range(released) BY <1>14, <2>6
  <2>8. ~(e = d \/ e \in Range(released)) BY <1>6, <2>1, <2>5, <2>7
  <2>9. QED BY <1>13, <2>2, <2>8
<1>17. QED BY <1>2, <1>4, <1>12, <1>14, <1>15, <1>16

LEMMA ReleaseKeeps ==
  ASSUME IInv, NEW r \in Live, NEW m, HandleGeneric(r, m), Release(r, m)
  PROVE  IInv'
<1>1. /\ Typed /\ Fitting /\ Placed /\ r \in Replicas
      /\ m \in Messages /\ m.kind = "Generic"
  BY LiveAssumption, MessagesType DEF IInv, HandleGeneric
<1>2. PICK d : d = m.digest OBVIOUS
<1>3. PICK t : t = Tip OBVIOUS
<1>4. OnChain(d) BY <1>1, <1>2 DEF IInv, MessagesSound, Sound
<1>5. PICK released : released = Released(r, d) OBVIOUS
<1>6. PICK U : U = Restrict(reordering[r], DOMAIN reordering[r] \
                               {Parent(e) : e \in Range(released)})
  OBVIOUS
<1>7. PICK s : s = InsertAll(r, <<d>> \o released) OBVIOUS
<1>8. PICK out : out = s.replies \cup {Datagram(Primary, v) : v \in Range(s.votes)}
  OBVIOUS
<1>9. /\ Becomes(r, s)
      /\ reordering' = [reordering EXCEPT ![r] = U]
      /\ HandleDatagram(r, m, out, <<>>)
      /\ UNCHANGED <<clientVars, primaryVars>>
  BY <1>2, <1>5, <1>6, <1>7, <1>8 DEF Release, HandleGeneric
<1>10. /\ Fit(s, r, Tip) /\ Grows(Fields(r), s, Tip)
       /\ AsideOn(U, Tip)
       /\ DOMAIN U \cap s.generics = {}
       /\ DOMAIN U \subseteq DOMAIN reordering[r]
  BY <1>4, <1>5, <1>6, <1>7, ReleaseInserts
<1>11. /\ s.replies \in SUBSET Datagrams(Msgs)
       /\ \A x \in s.replies : x.msg.kind = "Reply"
       /\ \A v \in Range(s.votes) :
             v.kind = "Vote" /\ Datagram(Primary, v) \in Datagrams(Msgs)
  BY <1>10, InsertedSends, PrimaryAssumption
<1>12. /\ out \in SUBSET Datagrams(Msgs) /\ <<>> \in Seq(OwnMessages)
       /\ Items(<<>>) = {}
  BY <1>8, <1>11, EmptySeq DEF Items
<1>13. /\ NetTypeOK(Msgs, OwnMessages)'
       /\ Messages' \subseteq Messages \cup Sent(out, <<>>)
       /\ net' \subseteq net \cup out
       /\ \A i \in Replicas : i /= r => Held(loopback'[i]) = Held(loopback[i])
       /\ Held(loopback'[r]) \subseteq Held(loopback[r]) \cup Items(<<>>)
  BY <1>1, <1>9, <1>12, ReplicaSends
<1>14. PICK new : new = Sent(out, <<>>) OBVIOUS
<1>15. /\ Messages' \subseteq Messages \cup new
       /\ \A x \in new : x \in Range(s.votes) \/ x.kind = "Reply"
  <2>1. Sent(out, <<>>) = {x.msg : x \in out} BY EmptySeq DEF Sent
  <2>2. \A x \in out : x.msg \in Range(s.votes) \/ x.msg.kind = "Reply"
    BY <1>8, <1>11 DEF Datagram
  <2>3. QED BY <1>13, <1>14, <2>1, <2>2
<1>16. \A x \in net' : x \in net \/ x.msg.kind /= "Generic"
  BY <1>8, <1>11, <1>13 DEF Datagram
<1>17. \A i \in Replicas : \A x \in Held(loopback'[i]) :
          x \in Held(loopback[i]) \/ x.kind /= "Generic"
  BY <1>12, <1>13
<1>18. reordering' = [i \in Replicas |-> reordering'[i]]
       /\ DOMAIN reordering'[Primary] = {}
  BY <1>1, <1>9, <1>10, PrimaryAssumption DEF Typed, Placed
<1>19. Tip' = Tip
  BY <1>1, <1>9, <1>10, PrimaryAssumption
  DEF Becomes, Grows, Fields, Typed, ExecutionTypeOK, Tip
<1>20. Aside' BY <1>1, <1>9, <1>10, <1>19 DEF IInv, Typed, Aside
<1>21. WaitsForMissing'
  <2>1. generics' = [generics EXCEPT ![r] = s.generics] BY <1>9 DEF Becomes
  <2>2. QED BY <1>1, <1>9, <1>10, <2>1 DEF IInv, Typed, WaitsForMissing
<1>22. NetTypeOK(Msgs, OwnMessages)' BY <1>13
<1>23. Fit(s, r, Tip) /\ Grows(Fields(r), s, Tip) /\ Becomes(r, s)
       /\ UNCHANGED <<clientVars, primaryVars>>
  BY <1>9, <1>10
<1>24. QED
  BY <1>15, <1>16, <1>17, <1>18, <1>20, <1>21, <1>22, <1>23, InsertingStep

LEMMA HandleGenericKeeps ==
  ASSUME IInv, NEW r \in Live, NEW m, HandleGeneric(r, m)
  PROVE  IInv'
<1>1. Hold(r, m) \/ Release(r, m) BY DEF HandleGeneric
<1>2. QED BY <1>1, HoldKeeps, ReleaseKeeps
-----------------------------------------------------------------------------
LEMMA InitHolds ==
  ASSUME Init
  PROVE  IInv
<1>1. /\ net = {} /\ loopback = [r \in Replicas |-> <<>>] /\ dup = 0
      /\ chain = [r \in Replicas |-> NewChain]
      /\ app = [r \in Replicas |-> <<>>]
      /\ panicked = [r \in Replicas |-> "no"]
      /\ requests = <<>> /\ propose_height = 0 /\ votes = {}
      /\ replied = [r \in Replicas |-> [c \in Clients |->
                                           [num |-> 0, reply |-> {}]]]
      /\ generics = [r \in Replicas |-> {Genesis}]
      /\ reordering = [r \in Replicas |-> <<>>]
      /\ view_height = [r \in Replicas |-> 0]
      /\ digest_lock = [r \in Replicas |-> Genesis]
      /\ digest_certified = [r \in Replicas |-> Genesis]
  BY DEF Init, Init_Multiplex, Init_Execution
<1>2. /\ \A S : <<>> \in Seq(S)
      /\ Len(<<>>) = 0 /\ <<>> \in Digests /\ 1..Len(<<>>) = {}
  BY EmptySeq DEF Digests
<1>3. NewChain \in Chains /\ NewChain.digest_parent = <<>>
      /\ NewChain.digest_execute = <<>>
  BY <1>2 DEF NewChain, Genesis, Chains
<1>4. Tip = <<>> BY <1>1, <1>3, PrimaryAssumption DEF Tip
<1>5. IsAncestor(<<>>, <<>>) BY <1>2, AncestorReflexive DEF Digests
<1>6. [c \in Clients |-> [num |-> 0, reply |-> {}]] \in Replied
  BY MaxRequestAssumption DEF Replied
<1>7. DOMAIN <<>> = {} BY <1>2, LenProperties
<1>8. Typed
  <2>1. ClientTypeOK
    BY <1>2, MaxRequestAssumption DEF Init, Init_Client, ClientTypeOK
  <2>2. ExecutionTypeOK BY <1>1, <1>2, <1>3 DEF ExecutionTypeOK
  <2>3. NetTypeOK(Msgs, OwnMessages)
    BY <1>1, <1>2, MaxDupAssumption DEF NetTypeOK
  <2>4. replied \in [Replicas -> Replied] BY <1>1, <1>6
  <2>5. /\ generics \in [Replicas -> SUBSET Digests]
        /\ digest_lock \in [Replicas -> Digests]
        /\ digest_certified \in [Replicas -> Digests]
    BY <1>1, <1>2 DEF Genesis
  <2>6. /\ view_height \in [Replicas -> Nat]
        /\ reordering = [r \in Replicas |-> reordering[r]]
        /\ votes \in SUBSET (Digests \X Live)
        /\ requests \in Seq(RequestRecords) /\ propose_height = Len(Tip)
    BY <1>1, <1>2, <1>4
  <2>7. QED BY <2>1, <2>2, <2>3, <2>4, <2>5, <2>6 DEF Typed
<1>9. MessagesSound
  <2>1. \A r \in Replicas : 1..Len(loopback[r]) = {} BY <1>1, <1>2
  <2>2. Messages = {} BY <1>1, <2>1 DEF Messages
  <2>3. QED BY <2>2 DEF MessagesSound
<1>10. VotesSound BY <1>1 DEF VotesSound
<1>11. Certain
  <2>1. \A d \in Digests : ~(Len(d) > 0 /\ Len(d) < 0)
    BY LenProperties DEF Digests
  <2>2. QED BY <1>1, <1>2, <1>4, <2>1, PrimaryAssumption DEF Certain
<1>12. Fitting
  <2>1. ASSUME NEW r \in Replicas PROVE Fit(Fields(r), r, Tip)
    <3>1. PICK s : s = Fields(r) OBVIOUS
    <3>2. s \in ReplicaFields BY <1>8, <3>1, FieldsType
    <3>3. /\ s.generics = {<<>>} /\ s.lock = <<>> /\ s.certified = <<>>
          /\ s.app = <<>> /\ s.chain = NewChain /\ s.votes = <<>>
          /\ s.replies = {} /\ \A c \in Clients : s.replied[c].reply = {}
      BY <1>1, <3>1 DEF Fields, Genesis
    <3>4. Follows(s, <<>>) BY <1>2, <1>3, <1>5, <3>3 DEF Follows
    <3>5. Range(<<>>) = {} BY <1>7 DEF Range
    <3>6. Truthful(s, r, <<>>) BY <3>3, <3>5 DEF Truthful
    <3>7. QED BY <1>4, <3>1, <3>2, <3>4, <3>6 DEF Fit
  <2>2. QED BY <2>1 DEF Fitting
<1>13. Aside BY <1>1, <1>7 DEF Aside, AsideOn
<1>14. Placed BY <1>1, <1>2, <1>7, PrimaryAssumption DEF Placed, Held
<1>15. WaitsForMissing BY <1>1, <1>7 DEF WaitsForMissing
<1>16. QED
  BY <1>8, <1>9, <1>10, <1>11, <1>12, <1>13, <1>14, <1>15 DEF IInv

\* A step that changes nothing.
LEMMA StutterKeeps ==
  ASSUME IInv, UNCHANGED vars
  PROVE  IInv'
<1>1. UNCHANGED <<net, loopback, dup, clientVars, chain, app, panicked, requests,
                  propose_height, votes, replied, reordering, blockVars>>
  BY DEF vars, netVars, executeVars, primaryVars
<1>2. UNCHANGED <<generics, view_height, digest_lock, digest_certified>>
      /\ Tip' = Tip
  BY <1>1 DEF blockVars, Tip
<1>3. NetTypeOK(Msgs, OwnMessages)' BY <1>1 DEF IInv, Typed, NetTypeOK
<1>4. Typed'
  BY <1>1, <1>2, <1>3
  DEF IInv, Typed, clientVars, ClientTypeOK, ExecutionTypeOK
<1>5. PICK new : new = {} OBVIOUS
<1>6. Messages' \subseteq Messages \cup new
      /\ \A m \in new : m.kind \notin {"Generic", "Vote"}
  BY <1>1, <1>5 DEF Messages
<1>7. UNCHANGED <<chain, app, votes, blockVars, reordering>> BY <1>1
<1>8. \A x \in net' : x \in net \/ x.msg.kind /= "Generic" BY <1>1
<1>9. /\ \A i \in Replicas : Held(loopback'[i]) \subseteq Held(loopback[i])
      /\ \A i \in Replicas : \A c \in Clients :
            replied'[i][c].reply \subseteq replied[i][c].reply
  BY <1>1
<1>10. QED BY <1>4, <1>6, <1>7, <1>8, <1>9, QuieterStep

\* Every step keeps the invariant.
LEMMA StepKeeps ==
  ASSUME IInv, [Next]_vars
  PROVE  IInv'
<1>1. CASE UNCHANGED vars BY <1>1, StutterKeeps
<1>2. ASSUME NEW c \in Clients, ClientStep(c) PROVE IInv'
  BY <1>2, InvokeKeeps, HandleReplyKeeps DEF ClientStep
<1>3. ASSUME NEW r \in Live, ReplicaStep(r) PROVE IInv'
  <2>1. CASE OnPace(r) BY <2>1, OnPaceKeeps
  <2>2. CASE LoopbackGeneric(r) BY <2>2, LoopbackGenericKeeps
  <2>3. CASE LoopbackVote(r) BY <2>3, LoopbackVoteKeeps
  <2>4. ASSUME NEW m, HandleRequest(r, m) PROVE IInv'
    BY <2>4, HandleRequestKeeps
  <2>5. ASSUME NEW m, HandleGeneric(r, m) PROVE IInv'
    BY <2>5, HandleGenericKeeps
  <2>6. ASSUME NEW m, HandleVote(r, m) PROVE IInv'
    BY <2>6, HandleVoteKeeps
  <2>7. QED
    BY <1>3, <2>1, <2>2, <2>3, <2>4, <2>5, <2>6 DEF ReplicaStep
<1>4. QED BY <1>1, <1>2, <1>3 DEF Next
-----------------------------------------------------------------------------
\* Clients.  What a replica's insertions send them is what it has executed.
LEMMA InsertedServed ==
  ASSUME IInv, IInv', Served, NEW r \in Live, NEW s, Fit(s, r, Tip),
         Grows(Fields(r), s, Tip), Becomes(r, s), UNCHANGED clientVars,
         NEW out, net' \subseteq net \cup out,
         \A x \in out : x \in s.replies \/ x.to \in Replicas
  PROVE  Served'
<1>1. /\ NetTypeOK(Msgs, OwnMessages) /\ ClientTypeOK
      /\ ExecutionTypeOK /\ ExecutionTypeOK' /\ r \in Replicas
  BY LiveAssumption DEF IInv, Typed
<1>2. app' = [app EXCEPT ![r] = s.app] /\ IsAncestor(app[r], s.app)
  BY DEF Becomes, Grows, Fields
<1>3. app \in [Replicas -> Digests] BY <1>1 DEF ExecutionTypeOK
<1>4. \A i \in Replicas : IsAncestor(app[i], app'[i])
  <2>1. \A d \in Digests : IsAncestor(d, d) BY AncestorReflexive DEF Digests
  <2>2. QED BY <1>1, <1>2, <1>3, <2>1
<1>5. ASSUME NEW x \in out, x.to \in Clients PROVE Answer(x.to, x.msg, app')
  <2>1. x \in s.replies BY <1>5, ClientsAssumption
  <2>2. Told(x.to, x.msg, r, s.app) BY <2>1 DEF Fit, Truthful
  <2>3. app'[r] = s.app BY <1>1, <1>2, <1>3
  <2>4. QED BY <2>2, <2>3 DEF Told, Answer
<1>6. QED BY <1>1, <1>4, <1>5, ServedByReplica

\* A step of a replica that executes nothing and sends replicas only.
LEMMA QuietServed ==
  ASSUME IInv, IInv', Served, UNCHANGED <<clientVars, app>>,
         NEW out, net' \subseteq net \cup out, \A x \in out : x.to \in Replicas
  PROVE  Served'
<1>1. /\ NetTypeOK(Msgs, OwnMessages) /\ ClientTypeOK
      /\ ExecutionTypeOK /\ ExecutionTypeOK'
  BY DEF IInv, Typed
<1>2. UNCHANGED clientVars /\ app' = app OBVIOUS
<1>3. QED BY <1>1, <1>2, ServedByQuiet

\* handle_request: the reply it sends again still tells what was executed.
LEMMA HandleRequestServed ==
  ASSUME IInv, IInv', Served, NEW r \in Live, NEW m, HandleRequest(r, m)
  PROVE  Served'
<1>1. /\ Typed /\ NetTypeOK(Msgs, OwnMessages) /\ ClientTypeOK
      /\ ExecutionTypeOK /\ ExecutionTypeOK' /\ r \in Replicas
  BY LiveAssumption DEF IInv, Typed
<1>2. m \in RequestMsgs BY <1>1, MessagesType, KindsOfOwn DEF HandleRequest
<1>3. PICK out : out = IF Known(r, m) THEN Resent(r, m) ELSE {} OBVIOUS
<1>4. HandleDatagram(r, m, out, <<>>) BY <1>3 DEF HandleRequest
<1>5. net' \subseteq net \cup out BY <1>4, HandlerSends
<1>6. UNCHANGED clientVars /\ app' = app
  BY DEF HandleRequest, executeVars
<1>7. ASSUME NEW x \in out, x.to \in Clients PROVE Answer(x.to, x.msg, app')
  <2>1. /\ x.to = m.client /\ x.msg \in replied[r][m.client].reply
        /\ m.client \in Clients
    BY <1>1, <1>2, <1>3, ResentType DEF RequestMsgs
  <2>2. Told(x.to, x.msg, r, app[r])
    BY <1>1, <2>1 DEF IInv, Fitting, Fit, Truthful, Fields
  <2>3. QED BY <1>6, <2>2 DEF Told, Answer
<1>8. \A i \in Replicas : IsAncestor(app[i], app'[i])
  BY <1>1, <1>6, AncestorReflexive DEF ExecutionTypeOK, Digests
<1>9. UNCHANGED clientVars BY <1>6
<1>10. QED BY <1>1, <1>5, <1>7, <1>8, <1>9, ServedByReplica

\* do_reorder_generic, as far as the clients see it.
LEMMA HandleGenericServed ==
  ASSUME IInv, IInv', Served, NEW r \in Live, NEW m, HandleGeneric(r, m)
  PROVE  Served'
<1>1. /\ Typed /\ r \in Replicas /\ m \in Messages /\ m.kind = "Generic"
  BY LiveAssumption, MessagesType DEF IInv, HandleGeneric
<1>2. CASE Hold(r, m)
  <2>1. UNCHANGED <<clientVars, app>> /\ HandleDatagram(r, m, {}, <<>>)
    BY <1>2 DEF Hold, HandleGeneric, executeVars
  <2>2. PICK out : out = {} OBVIOUS
  <2>3. net' \subseteq net \cup out /\ \A x \in out : x.to \in Replicas
    BY <2>1, <2>2, HandlerSends
  <2>4. QED BY <2>1, <2>3, QuietServed
<1>3. CASE Release(r, m)
  <2>1. PICK d : d = m.digest OBVIOUS
  <2>2. OnChain(d) BY <1>1, <2>1 DEF IInv, MessagesSound, Sound
  <2>3. PICK released : released = Released(r, d) OBVIOUS
  <2>4. PICK s : s = InsertAll(r, <<d>> \o released) OBVIOUS
  <2>5. PICK out : out = s.replies \cup {Datagram(Primary, v) : v \in Range(s.votes)}
    OBVIOUS
  <2>6. Becomes(r, s) /\ HandleDatagram(r, m, out, <<>>) /\ UNCHANGED clientVars
    BY <1>3, <2>1, <2>3, <2>4, <2>5 DEF Release, HandleGeneric
  <2>7. PICK U : U = Restrict(reordering[r], DOMAIN reordering[r] \
                                 {Parent(e) : e \in Range(released)})
    OBVIOUS
  <2>8. Fit(s, r, Tip) /\ Grows(Fields(r), s, Tip)
    BY <2>2, <2>3, <2>4, <2>7, ReleaseInserts
  <2>9. net' \subseteq net \cup out BY <2>6, HandlerSends
  <2>10. \A x \in out : x \in s.replies \/ x.to \in Replicas
    BY <2>5, PrimaryAssumption DEF Datagram
  <2>11. QED BY <2>6, <2>8, <2>9, <2>10, InsertedServed
<1>4. QED BY <1>2, <1>3 DEF HandleGeneric

\* Every step keeps what the clients are sent, hold and consumed.
LEMMA ServedStep ==
  ASSUME IInv, IInv', Served, [Next]_vars
  PROVE  Served'
<1>1. CASE UNCHANGED vars
  <2>1. /\ net' = net /\ request_num' = request_num /\ invoke' = invoke
        /\ replies' = replies /\ results' = results /\ app' = app
    BY <1>1 DEF vars, netVars, clientVars, executeVars
  <2>2. ConsumedIsExecuted' BY <2>1, ConsumedDef DEF Served
  <2>3. QED BY <2>1, <2>2 DEF Served, ClientServed
<1>2. ASSUME NEW c \in Clients, ClientStep(c) PROVE Served'
  <2>1. NetTypeOK(Msgs, OwnMessages) /\ ClientTypeOK
    BY DEF IInv, Typed
  <2>2. CASE Invoke(c)
    <3>1. ClientInvoke(c, Live) /\ app' = app
      BY <2>2 DEF Invoke, executeVars
    <3>2. QED BY <2>1, <3>1, LiveAssumption, ServedByInvoke
  <2>3. ASSUME NEW m, HandleReply(c, m) PROVE Served'
    <3>1. ClientHandle(c, m) /\ app' = app
      BY <2>3 DEF HandleReply, executeVars
    <3>2. QED BY <2>1, <3>1, ServedByHandle
  <2>4. QED BY <1>2, <2>2, <2>3 DEF ClientStep
<1>3. ASSUME NEW r \in Live, ReplicaStep(r) PROVE Served'
  <2>1. CASE OnPace(r)
    <3>1. PICK m : Pace(r, SendTo(Peers(r), m), <<m>>)
      BY <2>1 DEF OnPace
    <3>2. UNCHANGED <<clientVars, app>> BY <2>1 DEF OnPace
    <3>3. PICK out : out = SendTo(Peers(r), m) OBVIOUS
    <3>4. net' \subseteq net \cup out BY <3>1, <3>3, HandlerSends
    <3>5. \A x \in out : x.to \in Replicas
      BY <3>3, LiveAssumption DEF SendTo, Peers, Datagram
    <3>6. QED BY <3>2, <3>4, <3>5, QuietServed
  <2>2. CASE LoopbackGeneric(r)
    <3>1. PICK s : /\ s = InsertAll(r, <<Own(r).digest>>) /\ Becomes(r, s)
                   /\ HandleLoopback(r, s.replies, s.votes)
      BY <2>2 DEF LoopbackGeneric
    <3>2. UNCHANGED clientVars BY <2>2 DEF LoopbackGeneric
    <3>3. Fit(s, r, Tip) /\ Grows(Fields(r), s, Tip)
      BY <2>2, <3>1, LoopbackInserts
    <3>4. PICK out : out = s.replies OBVIOUS
    <3>5. /\ net' \subseteq net \cup out
          /\ \A x \in out : x \in s.replies \/ x.to \in Replicas
      BY <3>1, <3>4, HandlerSends
    <3>6. QED BY <3>1, <3>2, <3>3, <3>5, InsertedServed
  <2>3. CASE LoopbackVote(r)
    <3>1. UNCHANGED <<clientVars, app>> /\ HandleLoopback(r, {}, <<>>)
      BY <2>3 DEF LoopbackVote, InsertVote
    <3>2. PICK out : out = {} OBVIOUS
    <3>3. net' \subseteq net \cup out /\ \A x \in out : x.to \in Replicas
      BY <3>1, <3>2, HandlerSends
    <3>4. QED BY <3>1, <3>3, QuietServed
  <2>4. ASSUME NEW m, HandleRequest(r, m) PROVE Served'
    BY <2>4, HandleRequestServed
  <2>5. ASSUME NEW m, HandleGeneric(r, m) PROVE Served'
    BY <2>5, HandleGenericServed
  <2>6. ASSUME NEW m, HandleVote(r, m) PROVE Served'
    <3>1. UNCHANGED <<clientVars, app>> /\ HandleDatagram(r, m, {}, <<>>)
      BY <2>6 DEF HandleVote, InsertVote
    <3>2. PICK out : out = {} OBVIOUS
    <3>3. net' \subseteq net \cup out /\ \A x \in out : x.to \in Replicas
      BY <3>1, <3>2, HandlerSends
    <3>4. QED BY <3>1, <3>3, QuietServed
  <2>7. QED
    BY <1>3, <2>1, <2>2, <2>3, <2>4, <2>5, <2>6 DEF ReplicaStep
<1>4. QED BY <1>1, <1>2, <1>3 DEF Next
-----------------------------------------------------------------------------
\* The inductive invariant holds throughout.
THEOREM Invariance == Spec => []IInv
<1>1. Init => IInv BY InitHolds
<1>2. IInv /\ [Next]_vars => IInv' BY StepKeeps
<1>3. QED BY <1>1, <1>2, PTL DEF Spec

\* do_update: what one replica has executed is a prefix of what any other has,
\* or the reverse, in whatever order the blocks reach each of them.
THEOREM ReplicasAgree == Spec => []Agreement
<1>1. ASSUME IInv PROVE Agreement
  <2>1. SUFFICES ASSUME NEW r \in Replicas, NEW s \in Replicas
                 PROVE  \/ IsAncestor(app[r], app[s])
                        \/ IsAncestor(app[s], app[r])
    BY DEF Agreement
  <2>2. /\ app[r] \in Digests /\ app[s] \in Digests /\ Tip \in Digests
    BY <1>1, TipType DEF IInv, Typed, ExecutionTypeOK
  <2>3. IsAncestor(app[r], Tip) /\ IsAncestor(app[s], Tip)
    BY <1>1 DEF IInv, Fitting, Fit, Follows, Fields
  <2>4. Len(app[r]) \in Nat /\ Len(app[s]) \in Nat
    BY <2>2, LenProperties DEF Digests
  <2>5. Len(app[r]) <= Len(app[s]) \/ Len(app[s]) <= Len(app[r]) BY <2>4
  <2>6. QED BY <2>2, <2>3, <2>5, AncestorsOfOne DEF Digests
<1>2. QED BY <1>1, Invariance, PTL

\* do_reorder_generic: no block is left aside once the block it waits for has
\* been inserted.
THEOREM ReleasesAll == Spec => []WaitsForMissing
<1>1. IInv => WaitsForMissing BY DEF IInv
<1>2. QED BY <1>1, Invariance, PTL

\* The two blocks after an executed one, d, have their certificates.
LEMMA ExecutedIsCertain ==
  ASSUME IInv, NEW r \in Replicas, NEW k \in 1..Len(app[r])
  PROVE  \E e \in Digests : /\ VotesComplete(votes, e)
                            /\ IsAncestor(SubSeq(app[r], 1, k), Parent(Parent(e)))
<1>1. PICK t : t = Tip OBVIOUS
<1>2. PICK a : a = app[r] OBVIOUS
<1>3. PICK n : n = Len(a) OBVIOUS
<1>4. /\ t \in Digests /\ a \in Digests /\ t \in Seq(Batches) /\ a \in Seq(Batches)
      /\ Len(t) \in Nat /\ n \in Nat /\ k \in 1..n
  BY <1>1, <1>2, <1>3, TipType, LenProperties
  DEF IInv, Typed, ExecutionTypeOK, Digests
<1>5. IsAncestor(a, t) /\ n + 3 <= Len(t)
  <2>1. n > 0 BY <1>4
  <2>2. Follows(Fields(r), t) /\ Fields(r).app = a
    BY <1>1, <1>2 DEF IInv, Fitting, Fit, Fields
  <2>3. QED BY <1>3, <2>1, <2>2 DEF Follows
<1>6. PICK e : e = SubSeq(t, 1, n + 2) OBVIOUS
<1>7. /\ e \in Digests /\ e \in Seq(Batches) /\ Len(e) = n + 2
      /\ IsAncestor(e, t)
  <2>1. n + 2 \in Nat /\ n + 2 <= Len(t) BY <1>4, <1>5
  <2>2. e \in Seq(Batches) /\ Len(e) = n + 2
    <3>1. 1 \in Nat /\ 1 <= n + 2 /\ n + 2 - 1 + 1 = n + 2 BY <2>1, <1>4
    <3>2. \A i \in 1..n + 2 : i \in 1..Len(t) BY <2>1, <1>4
    <3>3. QED BY <1>4, <1>6, <2>1, <3>1, <3>2, SubSeqOfSeq
  <2>3. QED BY <1>6, <2>1, <2>2 DEF Digests, IsAncestor
<1>8. VotesComplete(votes, e)
  BY <1>1, <1>4, <1>5, <1>7 DEF IInv, Certain
<1>9. PICK p : p = Parent(e) OBVIOUS
<1>10. p \in Digests /\ IsAncestor(p, t) /\ Len(p) = n + 1
  <2>1. /\ p \in Digests /\ IsAncestor(p, t)
        /\ Len(p) = IF Len(e) = 0 THEN 0 ELSE Len(e) - 1
    BY <1>4, <1>7, <1>9, ParentOnChain
  <2>2. QED BY <1>4, <1>7, <2>1
<1>11. PICK q : q = Parent(p) OBVIOUS
<1>12. q \in Seq(Batches) /\ IsAncestor(q, t) /\ Len(q) = n
  <2>1. q \in Digests /\ IsAncestor(q, t)
        /\ Len(q) = IF Len(p) = 0 THEN 0 ELSE Len(p) - 1
    BY <1>4, <1>10, <1>11, ParentOnChain
  <2>2. QED BY <1>4, <1>10, <2>1 DEF Digests
<1>13. IsAncestor(a, q) BY <1>3, <1>4, <1>5, <1>12, AncestorsOfOne
<1>14. q = a BY <1>3, <1>4, <1>12, <1>13, AncestorAntisymmetric
<1>15. IsAncestor(SubSeq(a, 1, k), a)
  <2>1. k \in Nat /\ k <= n BY <1>4
  <2>2. Len(SubSeq(a, 1, k)) = k
    <3>1. 1 <= k /\ k - 1 + 1 = k /\ \A i \in 1..k : i \in 1..Len(a)
      BY <1>3, <1>4
    <3>2. QED BY <1>3, <1>4, <2>1, <3>1, SubSeqOfSeq
  <2>3. QED BY <1>3, <2>1, <2>2 DEF IsAncestor
<1>16. QED BY <1>2, <1>7, <1>8, <1>9, <1>11, <1>14, <1>15

\* The three-chain rule: n - f replicas are locked on every block that any
\* replica has executed, or above it.
THEOREM ExecutesLocked == Spec => []ExecutedIsLocked
<1>1. ASSUME IInv PROVE ExecutedIsLocked
  <2>1. SUFFICES ASSUME NEW r \in Replicas, NEW k \in 1..Len(app[r]),
                        NEW d, d = SubSeq(app[r], 1, k)
                 PROVE  Cardinality({i \in Replicas :
                                       IsAncestor(d, digest_lock[i])}) >= Quorum
    BY DEF ExecutedIsLocked
  <2>2. PICK e \in Digests : /\ VotesComplete(votes, e)
                             /\ IsAncestor(d, Parent(Parent(e)))
    BY <1>1, <2>1, ExecutedIsCertain
  <2> DEFINE P == {p \in votes : p[1] = e}
             L == {i \in Replicas : IsAncestor(d, digest_lock[i])}
             f == [p \in P |-> p[2]]
  <2>3. votes \in SUBSET (Digests \X Live) BY <1>1 DEF IInv, Typed
  <2>4. ASSUME NEW p \in P PROVE p[2] \in L
    <3>1. /\ p \in votes /\ p[1] = e /\ p[2] \in Replicas
      BY <2>3, LiveAssumption
    <3>2. IsAncestor(Parent(Parent(e)), digest_lock[p[2]]) /\ OnChain(e)
      BY <1>1, <3>1 DEF IInv, VotesSound, Locked
    <3>3. Tip \in Digests BY <1>1, TipType DEF IInv
    <3>4. Parent(e) \in Digests /\ IsAncestor(Parent(e), Tip)
      BY <3>2, <3>3, ParentOnChain DEF OnChain
    <3>5. Parent(Parent(e)) \in Digests BY <3>3, <3>4, ParentOnChain
    <3>6. digest_lock[p[2]] \in Digests BY <1>1, <3>1 DEF IInv, Typed
    <3>7. d \in Seq(Batches)
      <4>1. app[r] \in Seq(Batches) /\ Len(app[r]) \in Nat
        BY <1>1, LenProperties DEF IInv, Typed, ExecutionTypeOK, Digests
      <4>2. k \in Nat /\ \A i \in 1..k : i \in 1..Len(app[r]) BY <4>1
      <4>3. QED BY <2>1, <4>1, <4>2, SubSeqOfSeq
    <3>8. IsAncestor(d, digest_lock[p[2]])
      BY <2>2, <3>2, <3>5, <3>6, <3>7, AncestorTransitive DEF Digests
    <3>9. QED BY <3>1, <3>8
  <2>5. f \in Injection(P, L)
    <3>1. f \in [P -> L] BY <2>4
    <3>2. ASSUME NEW p \in P, NEW q \in P, f[p] = f[q] PROVE p = q
      <4>1. p \in Digests \X Live /\ q \in Digests \X Live BY <2>3
      <4>2. p[1] = q[1] /\ p[2] = q[2] BY <3>2
      <4>3. QED BY <4>1, <4>2
    <3> HIDE DEF P, L, f
    <3>3. QED BY <3>1, <3>2 DEF Injection, IsInjective
  <2>6. IsFiniteSet(L) BY ReplicasAssumption, FS_Subset
  <2> HIDE DEF P, L, f
  <2>7. Cardinality(P) <= Cardinality(L) BY <2>5, <2>6, FS_Injection
  <2>8. Cardinality(P) = Quorum BY <2>2 DEF VotesComplete, P
  <2>9. Quorum \in Int
    BY ReplicasAssumption, FS_CardinalityType DEF Quorum
  <2>10. Cardinality(L) \in Nat BY <2>6, FS_CardinalityType
  <2>11. QED BY <2>7, <2>8, <2>9, <2>10 DEF L
<1>2. QED BY <1>1, Invariance, PTL

\* What the clients are told holds throughout.
LEMMA ServedAlways == Spec => []Served
<1>1. Init => Served
  <2>1. SUFFICES ASSUME Init PROVE Served OBVIOUS
  <2>2. /\ net = {} /\ replies = [c \in Clients |-> {}]
        /\ results = [c \in Clients |-> <<>>]
        /\ invoke = [c \in Clients |-> FALSE]
        /\ request_num = [c \in Clients |-> 0]
    BY <2>1 DEF Init, Init_Multiplex, Init_Client
  <2>3. QED BY <2>2, ConsumedDef DEF Served, ClientServed
<1>2. IInv /\ IInv' /\ Served /\ [Next]_vars => Served' BY ServedStep
<1>3. QED BY <1>1, <1>2, Invariance, PTL DEF Spec

\* Client::handle: what a client consumes for its k-th invocation is the result
\* of executing that very request, where f + 1 replicas executed it, a reply
\* that was sent again included.
THEOREM ConsumesExecuted == Spec => []ConsumedIsExecuted
<1>1. Served => ConsumedIsExecuted BY DEF Served
<1>2. QED BY <1>1, ServedAlways, PTL
-----------------------------------------------------------------------------
(* Without duplicates no replica panics: it inserts every block of the     *)
(* chain once, in the order of their heights.                              *)

\* The replica has inserted the blocks of the chain that ends in t up to height
\* h, and has executed all but the last three of them.
Steady(s, t, h) ==
    /\ h <= Len(t)
    /\ s.panicked = "no"
    /\ s.certified \in s.generics
    /\ \A d \in Digests : IsAncestor(d, t) => (d \in s.generics <=> Len(d) <= h)
    /\ Len(s.app) = IF h > 3 THEN h - 3 ELSE 0

\* Two blocks of one chain at one height are one block.
LEMMA SameHeight ==
  ASSUME NEW t \in Digests, NEW a \in Digests, NEW b \in Digests,
         IsAncestor(a, t), IsAncestor(b, t), Len(a) = Len(b)
  PROVE  a = b
<1>1. a \in Seq(Batches) /\ b \in Seq(Batches) /\ t \in Seq(Batches) BY DEF Digests
<1>2. Len(a) \in Nat /\ Len(a) <= Len(b) BY <1>1, LenProperties
<1>3. IsAncestor(a, b) BY <1>1, <1>2, AncestorsOfOne
<1>4. QED BY <1>1, <1>3, AncestorAntisymmetric

\* insert_generic of the next block finds the block it certifies, and
\* do_update's commit the parent of the one it executes.
LEMMA InsertSteady ==
  ASSUME NEW r \in Live, NEW t \in Digests, NEW s, Fit(s, r, t),
         NEW h \in Nat, Steady(s, t, h),
         NEW d \in Digests, IsAncestor(d, t), Len(d) = h + 1,
         NEW u, u = InsertGeneric(r, s, d)
  PROVE  Steady(u, t, h + 1)
<1>1. /\ s \in ReplicaFields /\ Follows(s, t) /\ s.app \in Digests
      /\ s.generics \subseteq Digests
  BY DEF Fit, ReplicaFields
<1>2. PICK d2 : d2 = Parent(d) OBVIOUS
<1>3. PICK d1 : d1 = Parent(d2) OBVIOUS
<1>4. PICK d0 : d0 = Parent(d1) OBVIOUS
<1>5. /\ d2 \in Digests /\ IsAncestor(d2, t) /\ Len(d2) = h
      /\ Len(t) \in Nat /\ h + 1 <= Len(t)
  <2>1. /\ d2 \in Digests /\ IsAncestor(d2, t) /\ Len(d) \in Nat
        /\ Len(t) \in Nat /\ Len(d) <= Len(t)
        /\ Len(d2) = IF Len(d) = 0 THEN 0 ELSE Len(d) - 1
    BY <1>2, ParentOnChain
  <2>2. QED BY <2>1
<1>6. /\ d1 \in Digests /\ IsAncestor(d1, t)
      /\ Len(d1) = IF h = 0 THEN 0 ELSE h - 1
  BY <1>3, <1>5, ParentOnChain
<1>7. /\ d0 \in Digests /\ IsAncestor(d0, t)
      /\ Len(d0) = IF h > 2 THEN h - 2 ELSE 0
      /\ Len(d0) = 0 <=> d0 = Genesis
  <2>1. /\ d0 \in Digests /\ IsAncestor(d0, t)
        /\ Len(d0) = IF Len(d1) = 0 THEN 0 ELSE Len(d1) - 1
    BY <1>4, <1>6, ParentOnChain
  <2>2. Len(d0) = IF h > 2 THEN h - 2 ELSE 0 BY <1>6, <2>1
  <2>3. Len(d0) = 0 <=> d0 = Genesis BY <2>1, ParentOnChain
  <2>4. QED BY <2>1, <2>2, <2>3
<1>8. d2 \in s.generics
  <2>1. Len(d2) <= h BY <1>5
  <2>2. QED BY <1>5, <2>1 DEF Steady
<1>9. PICK n : n = Noted(r, s, d) OBVIOUS
<1>10. /\ n \in ReplicaFields /\ n.generics = s.generics \cup {d}
       /\ n.certified = Higher(d2, s.certified)
       /\ n.chain = s.chain /\ n.app = s.app /\ n.panicked = s.panicked
  <2>1. Fit(n, r, t)
    BY <1>5, <1>9, NotedFits
  <2>2. n \in ReplicaFields BY <2>1 DEF Fit
  <2>3. QED BY <1>1, <1>2, <1>9, <2>2, NotedFields
<1>11. u = IF d0 /= Genesis THEN Execute(r, n, d0) ELSE n
  <2>1. u = DoUpdate(r, Voted(r, [s EXCEPT !.generics = @ \cup {d}], d), d)
    BY <1>2, <1>8 DEF InsertGeneric, Steady, Certified
  <2>2. Certified(d) = d2 /\ Certified(d2) = d1 /\ Certified(d1) = d0
    BY <1>2, <1>3, <1>4 DEF Certified
  <2>3. Decided(d2, d1, d0) <=> d0 /= Genesis BY <1>3, <1>4 DEF Decided
  <2>4. QED BY <1>9, <2>1, <2>2, <2>3 DEF DoUpdate, Noted
<1>12. n.certified \in n.generics
  <2>1. s.certified \in s.generics BY DEF Steady
  <2>2. n.certified = d2 \/ n.certified = s.certified BY <1>10 DEF Higher
  <2>3. QED BY <1>8, <1>10, <2>1, <2>2
<1>13. ASSUME NEW e \in Digests, IsAncestor(e, t)
       PROVE  e \in n.generics <=> Len(e) <= h + 1
  <2>1. Len(e) \in Nat BY LenProperties DEF Digests
  <2>2. e \in s.generics <=> Len(e) <= h BY <1>13 DEF Steady
  <2>3. e = d <=> Len(e) = h + 1 BY <1>13, SameHeight
  <2>4. QED BY <1>10, <2>1, <2>2, <2>3
<1>14. Len(s.app) = IF h > 3 THEN h - 3 ELSE 0 BY DEF Steady
<1>15. CASE d0 = Genesis
  <2>1. u = n /\ ~(h > 2) BY <1>7, <1>11, <1>15
  <2>2. Len(u.app) = IF h + 1 > 3 THEN h + 1 - 3 ELSE 0
    BY <1>10, <1>14, <2>1
  <2>3. QED BY <1>5, <1>10, <1>12, <1>13, <2>1, <2>2 DEF Steady
<1>16. CASE d0 /= Genesis
  <2>1. u = Execute(r, n, d0) /\ h > 2 /\ Len(d0) = h - 2
    BY <1>7, <1>11, <1>16
  <2>2. Extends(s.chain, d0)
    <3>1. PICK p : p = Parent(d0) OBVIOUS
    <3>2. /\ p \in Digests /\ IsAncestor(p, t)
          /\ Len(p) = IF Len(d0) = 0 THEN 0 ELSE Len(d0) - 1
      BY <1>7, <3>1, ParentOnChain
    <3>3. Len(p) = h - 3 /\ Len(s.app) = h - 3 BY <1>14, <2>1, <3>2
    <3>4. IsAncestor(s.app, t) /\ s.app = s.chain.digest_execute
      BY <1>1 DEF Follows
    <3>5. p = s.app BY <1>1, <3>2, <3>3, <3>4, SameHeight
    <3>6. QED BY <3>1, <3>4, <3>5 DEF Extends
  <2>3. n.app = n.chain.digest_execute BY <1>1, <1>10 DEF Follows
  <2>4. Len(d0) > 0 BY <2>1
  <2>5. /\ u.generics = n.generics /\ u.certified = n.certified
        /\ u.app = d0 /\ u.panicked = n.panicked
    BY <1>7, <1>10, <2>1, <2>2, <2>3, <2>4, ExecuteFields
  <2>6. Len(u.app) = IF h + 1 > 3 THEN h + 1 - 3 ELSE 0 BY <2>1, <2>5
  <2>7. QED BY <1>5, <1>10, <1>12, <1>13, <2>5, <2>6 DEF Steady
<1>17. QED BY <1>15, <1>16

\* do_reorder_generic inserts blocks that follow one another.
LEMMA InsertAllSteady ==
  ASSUME NEW r \in Live, NEW t \in Digests, Fit(Fields(r), r, t),
         NEW h \in Nat, Steady(Fields(r), t, h),
         NEW blocks, Len(blocks) \in Nat,
         \A i \in 1..Len(blocks) :
            /\ blocks[i] \in Digests /\ IsAncestor(blocks[i], t)
            /\ Len(blocks[i]) = h + i,
         NEW u, u = InsertAll(r, blocks)
  PROVE  Steady(u, t, h + Len(blocks))
<1>1. PICK f : /\ f[0] = Fields(r)
               /\ \A n \in 1..Len(blocks) :
                     f[n] = InsertGeneric(r, f[n - 1], blocks[n])
               /\ InsertAll(r, blocks) = f[Len(blocks)]
  BY InsertAllSteps
<1> DEFINE Good(n) == Fit(f[n], r, t) /\ Steady(f[n], t, h + n)
<1>2. Good(0)
  <2>1. h + 0 = h OBVIOUS
  <2>2. QED BY <1>1, <2>1
<1>3. ASSUME NEW n \in 1..Len(blocks), Good(n - 1) PROVE Good(n)
  <2>1. PICK s : s = f[n - 1] OBVIOUS
  <2>2. PICK d : d = blocks[n] OBVIOUS
  <2>3. PICK w : w = f[n] OBVIOUS
  <2>4. w = InsertGeneric(r, s, d) BY <1>1, <2>1, <2>2, <2>3
  <2>5. PICK k : k = h + (n - 1) OBVIOUS
  <2>6. d \in Digests /\ IsAncestor(d, t) /\ Len(d) = k + 1 /\ Len(d) > 0
        /\ k \in Nat /\ k + 1 = h + n
    BY <2>2, <2>5
  <2>7. Fit(s, r, t) /\ Steady(s, t, k) BY <1>3, <2>1, <2>5
  <2>8. Fit(w, r, t) BY <2>4, <2>6, <2>7, InsertFits
  <2>9. Steady(w, t, k + 1) BY <2>4, <2>6, <2>7, InsertSteady
  <2>10. QED BY <2>3, <2>6, <2>8, <2>9
<1> HIDE DEF Good
<1>4. \A n \in 0..Len(blocks) : Good(n)
  <2>1. PICK T : T = {n \in 0..Len(blocks) : ~Good(n)} OBVIOUS
  <2>2. SUFFICES ASSUME T /= {} PROVE FALSE BY <2>1
  <2>3. T \in SUBSET Nat
    <3>1. \A n \in 0..Len(blocks) : n \in Nat OBVIOUS
    <3>2. QED BY <2>1, <3>1
  <2>4. PICK n \in T : \A l \in T : n <= l BY <2>2, <2>3, LeastHeight
  <2>5. n /= 0 BY <1>2, <2>1
  <2>6. n \in 1..Len(blocks) /\ n - 1 \in 0..Len(blocks) BY <2>1, <2>5
  <2>7. Good(n - 1) BY <2>1, <2>4, <2>6
  <2>8. QED BY <1>3, <2>1, <2>6, <2>7
<1>5. Good(Len(blocks)) BY <1>4
<1>6. QED BY <1>1, <1>5 DEF Good

\* One after the other: what do_reorder_generic releases for d, where no block
\* is held twice.
LEMMA ReleasedInOrder ==
  ASSUME NEW t \in Digests, NEW r, NEW W, W = reordering[r], AsideOn(W, t),
         \A e \in DOMAIN W : Len(W[e]) = 1,
         NEW d, NEW released, released = Released(r, d)
  PROVE  \A i \in 1..Len(released) : Len(released[i]) = Len(d) + i
<1>1. PICK f : /\ \A e \in DOMAIN W : f[e] = Turn(W, f, e)
               /\ Released(r, d) = IF d \in DOMAIN W THEN f[d] ELSE <<>>
  <2>1. Unfolds(W, d, Released(r, d)) BY ReleasedSteps
  <2>2. QED BY <2>1 DEF Unfolds
<1> DEFINE Good(e) == /\ f[e] \in Seq(Digests)
                      /\ \A i \in 1..Len(f[e]) : Len(f[e][i]) = Len(e) + i
<1>2. Len(t) \in Nat /\ <<>> \in Seq(Digests) /\ Len(<<>>) = 0
  BY LenProperties, EmptySeq DEF Digests
<1>3. ASSUME NEW e \in DOMAIN W, Head(W[e]) \in DOMAIN W => Good(Head(W[e]))
      PROVE  Good(e)
  <2>1. PICK h : h = Head(W[e]) OBVIOUS
  <2>2. PICK s : s = IF h \in DOMAIN W THEN f[h] ELSE <<>> OBVIOUS
  <2>3. /\ h \in Digests /\ Len(h) = Len(e) + 1 /\ Len(e) \in Nat
        /\ Tail(W[e]) \in Seq(Digests)
    BY <2>1, AsideProperties
  <2>4. Tail(W[e]) = <<>>
    <3>1. W[e] \in Seq(Digests) /\ W[e] /= <<>> /\ Len(W[e]) = 1
      BY DEF AsideOn
    <3>2. Len(Tail(W[e])) = 0 BY <3>1, HeadTailProperties
    <3>3. QED BY <2>3, <3>2, EmptySeq
  <2>5. s \in Seq(Digests) /\ \A i \in 1..Len(s) : Len(s[i]) = Len(h) + i
    BY <1>2, <1>3, <2>1, <2>2
  <2>6. PICK a : a = <<h>> OBVIOUS
  <2>7. a \in Seq(Digests) /\ Len(a) = 1 /\ a[1] = h BY <2>3, <2>6
  <2>8. PICK b : b = a \o s OBVIOUS
  <2>9. /\ b \in Seq(Digests) /\ Len(b) = 1 + Len(s) /\ Len(s) \in Nat
        /\ \A i \in 1..1 + Len(s) : b[i] = IF i <= 1 THEN a[i] ELSE s[i - 1]
    <3>1. /\ b \in Seq(Digests) /\ Len(b) = Len(a) + Len(s)
          /\ \A i \in 1..Len(a) + Len(s) :
                b[i] = IF i <= Len(a) THEN a[i] ELSE s[i - Len(a)]
      BY <2>5, <2>7, <2>8, ConcatProperties
    <3>2. Len(s) \in Nat BY <2>5, LenProperties
    <3>3. QED BY <2>7, <3>1, <3>2
  <2>10. f[e] = b
    <3>1. f[e] = b \o <<>> BY <1>1, <2>1, <2>2, <2>4, <2>6, <2>8 DEF Turn
    <3>2. b \o <<>> = b BY <2>9, ConcatEmptySeq
    <3>3. QED BY <3>1, <3>2
  <2>11. ASSUME NEW i \in 1..Len(b) PROVE Len(b[i]) = Len(e) + i
    <3>1. CASE i = 1 BY <2>3, <2>7, <2>9, <3>1
    <3>2. CASE i /= 1
      <4>1. i - 1 \in 1..Len(s) /\ b[i] = s[i - 1] BY <2>9, <3>2
      <4>2. Len(b[i]) = Len(h) + (i - 1) BY <2>5, <4>1
      <4>3. QED BY <2>3, <2>9, <4>2
    <3>3. QED BY <3>1, <3>2
  <2>12. QED BY <2>9, <2>10, <2>11
<1> HIDE DEF Good
<1>4. \A e \in DOMAIN W : Good(e)
  <2>1. PICK T : T = {Len(t) - Len(e) : e \in {k \in DOMAIN W : ~Good(k)}}
    OBVIOUS
  <2>2. SUFFICES ASSUME T /= {} PROVE FALSE BY <2>1
  <2>3. \A e \in DOMAIN W :
           /\ Len(e) \in Nat /\ Len(Head(W[e])) = Len(e) + 1
           /\ Len(Head(W[e])) <= Len(t)
    BY AsideProperties
  <2>4. T \in SUBSET Nat
    <3>1. \A e \in DOMAIN W : Len(t) - Len(e) \in Nat BY <1>2, <2>3
    <3>2. QED BY <2>1, <3>1
  <2>5. PICK n \in T : \A l \in T : n <= l BY <2>2, <2>4, LeastHeight
  <2>6. PICK e \in DOMAIN W : ~Good(e) /\ n = Len(t) - Len(e) BY <2>1
  <2>7. PICK h : h = Head(W[e]) OBVIOUS
  <2>8. ASSUME h \in DOMAIN W, ~Good(h) PROVE FALSE
    <3>1. Len(t) - Len(h) \in T BY <2>1, <2>8
    <3>2. n <= Len(t) - Len(h) BY <2>5, <3>1
    <3>3. Len(h) = Len(e) + 1 /\ Len(e) \in Nat BY <2>3, <2>7
    <3>4. QED BY <1>2, <2>6, <3>2, <3>3
  <2>9. QED BY <1>3, <2>6, <2>7, <2>8
<1>5. CASE d \notin DOMAIN W
  <2>1. released = <<>> BY <1>1, <1>5
  <2>2. QED BY <1>2, <2>1
<1>6. CASE d \in DOMAIN W
  <2>1. released = f[d] BY <1>1, <1>6
  <2>2. QED BY <1>4, <1>6, <2>1 DEF Good
<1>7. QED BY <1>5, <1>6

\* A replica that follows the chain does so while the chain grows.
LEMMA SteadyKept ==
  ASSUME NEW t \in Digests, NEW v \in Digests, IsAncestor(t, v),
         NEW s, Follows(s, t), NEW h \in Nat, Steady(s, t, h)
  PROVE  Steady(s, v, h)
<1>1. Len(t) \in Nat /\ Len(v) \in Nat /\ Len(t) <= Len(v) /\ h <= Len(t)
  BY LenProperties DEF Digests, IsAncestor, Steady
<1>2. ASSUME NEW d \in Digests, IsAncestor(d, v)
      PROVE  d \in s.generics <=> Len(d) <= h
  <2>1. d \in Seq(Batches) /\ t \in Seq(Batches) /\ v \in Seq(Batches)
        /\ Len(d) \in Nat
    BY LenProperties DEF Digests
  <2>2. CASE Len(d) <= Len(t)
    <3>1. IsAncestor(d, t) BY <1>2, <2>1, <2>2, AncestorsOfOne
    <3>2. QED BY <3>1 DEF Steady
  <2>3. CASE ~(Len(d) <= Len(t))
    <3>1. ~(Len(d) <= h) BY <1>1, <2>1, <2>3
    <3>2. d \notin s.generics BY <2>3 DEF Follows, IsAncestor
    <3>3. QED BY <3>1, <3>2
  <2>4. QED BY <2>2, <2>3
<1>3. QED BY <1>1, <1>2 DEF Steady

\* Replica r is steady; a Generic on its way to it is of a block that it does
\* not have, inserted or aside, and it holds no block aside twice.
Orderly(r) ==
    /\ \E h \in Nat : Steady(Fields(r), Tip, h)
    /\ \A e \in DOMAIN reordering[r] : Len(reordering[r][e]) = 1
    /\ \A x \in net : x.to = r /\ x.msg.kind = "Generic" =>
          /\ x.msg.digest \notin generics[r]
          /\ Parent(x.msg.digest) \notin DOMAIN reordering[r]

Once(S) == \A r \in S : Orderly(r)

\* Votes are the primary's to receive, and only it sends messages to itself.
ToPrimary ==
    /\ \A x \in net : x.msg.kind = "Vote" => x.to = Primary
    /\ \A r \in Replicas : r /= Primary => loopback[r] = <<>>

\* The primary's channel q, where it holds the blocks G of the chain that ends
\* in t: it misses at most its last block, which is then in the channel, and no
\* vote for that block is ahead of it.
OwnIn(q, G, t) ==
    /\ Parent(t) \in G
    /\ t \in G => \A k \in 1..Len(q) : q[k].msg.kind = "Vote"
    /\ t \notin G => \E k \in 1..Len(q) :
          /\ q[k].msg = GenericMsg(t)
          /\ \A j \in 1..Len(q) : j /= k => q[j].msg.kind = "Vote"
    /\ \A k \in 1..Len(q) :
          /\ q[k].msg.kind = "Vote" => q[k].msg.digest \in G
          /\ \A m \in q[k].before : m.kind = "Vote" => m.digest \in G

\* Of the replicas in S.  Without duplicates those are all; on any network they
\* are the primary alone, which is sent no Generic and counts a vote once.
OInv(S) ==
    /\ Once(S)
    /\ ToPrimary
    /\ OwnIn(loopback[Primary], generics[Primary], Tip)

\* Being steady depends on four of the fields.
LEMMA SteadySame ==
  ASSUME NEW s, NEW u, NEW t, NEW h, Steady(s, t, h),
         u.panicked = s.panicked, u.certified = s.certified,
         u.generics = s.generics, u.app = s.app
  PROVE  Steady(u, t, h)
BY DEF Steady

\* A replica that holds the last block of the chain holds every block.
LEMMA HoldsChain ==
  ASSUME NEW t \in Digests, NEW s, NEW h \in Nat, Steady(s, t, h),
         t \in s.generics, NEW d \in Digests, IsAncestor(d, t)
  PROVE  d \in s.generics /\ h = Len(t)
<1>1. IsAncestor(t, t) BY AncestorReflexive DEF Digests
<1>2. Len(t) <= h /\ h <= Len(t) BY <1>1 DEF Steady
<1>3. Len(t) \in Nat /\ Len(d) \in Nat /\ Len(d) <= Len(t)
  BY LenProperties DEF Digests, IsAncestor
<1>4. QED BY <1>2, <1>3 DEF Steady

\* Without duplicates a handler takes its datagram from the network.
LEMMA TakenOnce ==
  ASSUME Typed, MaxDup = 0, NEW r, NEW m, NEW out, NEW own,
         HandleDatagram(r, m, out, own)
  PROVE  net' = (net \ {Datagram(r, m)}) \cup out
<1>1. dup \in 0..MaxDup BY DEF Typed, NetTypeOK
<1>2. ~(dup < MaxDup) BY <1>1
<1>3. QED BY <1>2 DEF HandleDatagram, Flight

\* A handler that sends its own replica nothing leaves the channels alone.
LEMMA QuietChannel ==
  ASSUME Typed, NEW r \in Replicas, NEW m, NEW out,
         HandleDatagram(r, m, out, <<>>)
  PROVE  loopback' = loopback
<1>1. PICK E : E = OwnEntries(Msgs, OwnMessages) OBVIOUS
<1>2. loopback \in [Replicas -> Seq(E)] BY <1>1, NetTypeDef DEF Typed
<1>3. loopback' = [loopback EXCEPT ![r] = loopback[r] \o Looped(r, <<>>)]
  BY DEF HandleDatagram
<1>4. Looped(r, <<>>) = <<>>
  <2>1. PICK own : own = <<>> OBVIOUS
  <2>2. Len(own) = 0 BY <2>1
  <2>3. Looped(r, own) = [k \in 1..0 |->
            [msg |-> own[k], before |-> InFlightTo(net', r)]]
    BY <2>2 DEF Looped
  <2>4. QED BY <2>1, <2>3
<1>5. loopback[r] \o <<>> = loopback[r] BY <1>2, ConcatEmptySeq
<1>6. QED BY <1>2, <1>3, <1>4, <1>5

\* The channel of the primary after it proposed: its own message is last.
LEMMA PaceChannel ==
  ASSUME Typed, NEW r \in Replicas, NEW m \in OwnMessages, NEW out,
         Pace(r, out, <<m>>),
         NEW q, q = loopback[r], NEW u, u = loopback'[r]
  PROVE  /\ \A i \in Replicas : i /= r => loopback'[i] = loopback[i]
         /\ Len(q) \in Nat /\ Len(u) = Len(q) + 1
         /\ \A k \in 1..Len(q) : u[k] = q[k]
         /\ u[Len(q) + 1].msg = m
         /\ u[Len(q) + 1].before = InFlightTo(net', r)
<1>1. PICK E : E = OwnEntries(Msgs, OwnMessages) OBVIOUS
<1>2. loopback \in [Replicas -> Seq(E)] BY <1>1, NetTypeDef DEF Typed
<1>3. q \in Seq(E) BY <1>2
<1>4. PICK own : own = <<m>> OBVIOUS
<1>5. own \in Seq(OwnMessages) /\ Len(own) = 1 /\ own[1] = m BY <1>4
<1>6. PICK all : all = q \o Looped(r, own) OBVIOUS
<1>7. loopback' = [loopback EXCEPT ![r] = all] BY <1>4, <1>6 DEF Pace
<1>8. u = all /\ \A i \in Replicas : i /= r => loopback'[i] = loopback[i]
  BY <1>2, <1>7
<1>9. /\ Len(all) = Len(q) + Len(own)
      /\ \A k \in 1..Len(q) : all[k] = q[k]
      /\ \A k \in Len(q) + 1 .. Len(q) + Len(own) :
            /\ all[k].msg = own[k - Len(q)]
            /\ all[k].before = InFlightTo(net', r)
  <2>1. own \in Seq(OwnMessages) BY <1>5
  <2>2. QED BY <1>3, <1>6, <2>1, LoopedChannel
<1>10. Len(q) \in Nat BY <1>3, LenProperties
<1>11. /\ Len(q) + 1 \in Len(q) + 1 .. Len(q) + Len(own)
       /\ Len(q) + 1 - Len(q) = 1
  BY <1>5, <1>10
<1>12. all[Len(q) + 1].msg = m /\ all[Len(q) + 1].before = InFlightTo(net', r)
  BY <1>5, <1>9, <1>11
<1>13. QED BY <1>5, <1>8, <1>9, <1>10, <1>12

\* A step that leaves the blocks of r alone, and sends it no Generic.
LEMMA OrderlyKept ==
  ASSUME NEW r, Orderly(r), Tip' = Tip, panicked'[r] = panicked[r],
         digest_certified'[r] = digest_certified[r], generics'[r] = generics[r],
         app'[r] = app[r], reordering'[r] = reordering[r],
         \A x \in net' : x \in net \/ x.msg.kind /= "Generic"
  PROVE  Orderly(r)'
<1>1. PICK h \in Nat : Steady(Fields(r), Tip, h) BY DEF Orderly
<1>2. PICK s : s = Fields(r) OBVIOUS
<1>3. PICK u : u = Fields(r)' OBVIOUS
<1>4. /\ u.panicked = s.panicked /\ u.certified = s.certified
      /\ u.generics = s.generics /\ u.app = s.app
  BY <1>2, <1>3 DEF Fields
<1>5. Steady(u, Tip, h) BY <1>1, <1>2, <1>4, SteadySame
<1>6. Steady(Fields(r), Tip, h)' BY <1>3, <1>5
<1>7. QED BY <1>6 DEF Orderly

\* A step that leaves the blocks and the channels alone.
LEMMA QuietOnce ==
  ASSUME NEW S \in SUBSET Replicas, Primary \in S,
         OInv(S), UNCHANGED <<chain, app, panicked, blockVars, reordering, loopback>>,
         \A x \in net' : x \in net \/ x.msg.kind \notin {"Generic", "Vote"}
  PROVE  OInv(S)'
<1>1. UNCHANGED <<generics, digest_certified>> /\ Tip' = Tip
  BY DEF blockVars, Tip
<1>2. \A x \in net' : x \in net \/ x.msg.kind /= "Generic" OBVIOUS
<1>3. Once(S)' BY <1>1, <1>2, OrderlyKept DEF OInv, Once
<1>4. ToPrimary' BY DEF OInv, ToPrimary
<1>5. QED BY <1>1, <1>3, <1>4 DEF OInv

\* Blocks of the chain on their way.
LEMMA ChainInFlight ==
  ASSUME IInv, NEW x \in net, x.msg.kind \in {"Generic", "Vote"}
  PROVE  /\ OnChain(x.msg.digest)
         /\ x.msg.kind = "Generic" =>
               x = Datagram(x.to, GenericMsg(x.msg.digest)) /\ x.to /= Primary
<1>1. x.msg \in Messages BY DEF Messages
<1>2. OnChain(x.msg.digest) BY <1>1 DEF IInv, MessagesSound, Sound
<1>3. ASSUME x.msg.kind = "Generic"
      PROVE  x = Datagram(x.to, GenericMsg(x.msg.digest)) /\ x.to /= Primary
  <2>1. x \in Datagrams(Msgs) BY NetTypeDef DEF IInv, Typed
  <2>2. x = [to |-> x.to, msg |-> x.msg] BY <2>1 DEF Datagrams
  <2>3. x.msg \in GenericMsgs
    BY <1>1, <1>3, MessagesType, KindsOfOwn DEF IInv
  <2>4. x.msg = [kind |-> "Generic", digest |-> x.msg.digest]
    BY <2>3 DEF GenericMsgs
  <2>5. x.to /= Primary BY <1>3 DEF IInv, Placed
  <2>6. QED BY <2>2, <2>4, <2>5 DEF Datagram, GenericMsg
<1>4. QED BY <1>2, <1>3

\* One block of a chain extends another.
LEMMA SameParent ==
  ASSUME NEW t \in Digests, NEW a \in Digests, NEW b \in Digests,
         IsAncestor(a, t), IsAncestor(b, t), Len(a) > 0, Len(b) > 0,
         Parent(a) = Parent(b)
  PROVE  a = b
<1>1. Len(a) \in Nat /\ Len(Parent(a)) = Len(a) - 1
  BY ParentOnChain
<1>2. Len(b) \in Nat /\ Len(Parent(b)) = Len(b) - 1
  BY ParentOnChain
<1>3. Len(a) = Len(b) BY <1>1, <1>2
<1>4. QED BY <1>3, SameHeight

\* u is the channel q without its first message and with own at its end.
ChannelMoved(r, q, u, own) ==
  /\ \A i \in Replicas : i /= r => loopback'[i] = loopback[i]
  /\ Len(q) \in Nat \ {0} /\ Len(own) \in Nat
  /\ q[1].msg = Own(r)
  /\ Len(u) = Len(q) - 1 + Len(own)
  /\ \A k \in 1..Len(q) - 1 : u[k] = q[k + 1]
  /\ \A k \in Len(q) .. Len(q) - 1 + Len(own) :
        /\ u[k].msg = own[k - (Len(q) - 1)]
        /\ u[k].before = InFlightTo(net', r)

\* The channel of a replica that took its first message.
LEMMA OwnChannelTail ==
  ASSUME Typed, NEW r \in Replicas, loopback[r] /= <<>>, NEW out,
         NEW own \in Seq(OwnMessages), HandleLoopback(r, out, own),
         NEW q, q = loopback[r], NEW u, u = loopback'[r]
  PROVE  ChannelMoved(r, q, u, own)
<1>1. PICK E : E = OwnEntries(Msgs, OwnMessages) OBVIOUS
<1>2. loopback \in [Replicas -> Seq(E)] BY <1>1, NetTypeDef DEF Typed
<1>3. q \in Seq(E) /\ q /= <<>> BY <1>2
<1>4. Len(q) \in Nat \ {0} /\ Head(q) = q[1]
  BY <1>3, EmptySeq, LenProperties
<1>5. PICK rest : rest = Tail(q) OBVIOUS
<1>6. /\ rest \in Seq(E) /\ Len(rest) = Len(q) - 1
      /\ \A k \in 1..Len(rest) : rest[k] = q[k + 1]
  BY <1>3, <1>5, HeadTailProperties
<1>7. PICK all : all = rest \o Looped(r, own) OBVIOUS
<1>8. loopback' = [loopback EXCEPT ![r] = all]
  BY <1>5, <1>7 DEF HandleLoopback
<1>9. u = all /\ \A i \in Replicas : i /= r => loopback'[i] = loopback[i]
  BY <1>2, <1>8
<1>10. /\ Len(all) = Len(rest) + Len(own)
       /\ \A k \in 1..Len(rest) : all[k] = rest[k]
       /\ \A k \in Len(rest) + 1 .. Len(rest) + Len(own) :
             /\ all[k].msg = own[k - Len(rest)]
             /\ all[k].before = InFlightTo(net', r)
  BY <1>6, <1>7, LoopedChannel
<1>11. Len(own) \in Nat BY LenProperties
<1>12. Own(r) = q[1].msg BY <1>4 DEF Own
<1>13. Len(q) = Len(rest) + 1 BY <1>4, <1>6
<1>14. \A k \in Len(q) .. Len(q) - 1 + Len(own) :
          /\ all[k].msg = own[k - (Len(q) - 1)]
          /\ all[k].before = InFlightTo(net', r)
  BY <1>6, <1>10, <1>13
<1>15. QED
  BY <1>4, <1>6, <1>9, <1>10, <1>11, <1>12, <1>14 DEF ChannelMoved

\* A Generic that is put aside for a block that is missing.
LEMMA HoldOnce ==
  ASSUME IInv, OInv(Replicas), MaxDup = 0,
         NEW r \in Live, NEW m, HandleGeneric(r, m), Hold(r, m)
  PROVE  OInv(Replicas)'
<1>1. /\ Typed /\ r \in Replicas /\ m.kind = "Generic"
      /\ Datagram(r, m) \in net
  BY LiveAssumption DEF IInv, HandleGeneric, Arrived
<1>2. PICK d : d = m.digest OBVIOUS
<1>3. PICK e : e = Parent(d) OBVIOUS
<1>4. PICK y : y = Datagram(r, m) OBVIOUS
<1>5. y \in net /\ y.to = r /\ y.msg = m BY <1>1, <1>4 DEF Datagram
<1>6. OnChain(d) /\ y = Datagram(r, GenericMsg(d)) /\ r /= Primary
  BY <1>1, <1>2, <1>5, ChainInFlight
<1>7. /\ HandleDatagram(r, m, {}, <<>>)
      /\ UNCHANGED <<executeVars, replied, blockVars, clientVars, primaryVars>>
      /\ reordering' = [reordering EXCEPT ![r] =
            [k \in DOMAIN reordering[r] \cup {e} |->
                IF k = e THEN Append(Waiting(r, e), d) ELSE reordering[r][k]]]
  BY <1>2, <1>3 DEF Hold, HandleGeneric
<1>8. UNCHANGED <<chain, app, panicked, generics, digest_certified>>
      /\ Tip' = Tip
  BY <1>7 DEF executeVars, blockVars, Tip
<1>9. net' = net \ {y}
  <2>1. net' = (net \ {Datagram(r, m)}) \cup {} BY <1>1, <1>7, TakenOnce
  <2>2. QED BY <1>4, <2>1
<1>10. loopback' = loopback BY <1>1, <1>7, QuietChannel
<1>11. ASSUME NEW i \in Replicas, i /= r PROVE Orderly(i)'
  <2>1. reordering'[i] = reordering[i] BY <1>1, <1>7, <1>11 DEF Typed
  <2>2. Orderly(i) BY DEF OInv, Once
  <2>3. \A x \in net' : x \in net \/ x.msg.kind /= "Generic" BY <1>9
  <2>4. QED BY <1>8, <2>1, <2>2, <2>3, OrderlyKept
<1>12. Orderly(r)'
  <2>1. Orderly(r) BY <1>1 DEF OInv, Once
  <2>2. PICK W : W = reordering[r] OBVIOUS
  <2>3. PICK U : U = [k \in DOMAIN W \cup {e} |->
                         IF k = e THEN Append(Waiting(r, e), d) ELSE W[k]]
    OBVIOUS
  <2>4. reordering'[r] = U BY <1>1, <1>7, <2>2, <2>3 DEF Typed
  <2>5. e \notin DOMAIN W
    BY <1>1, <1>2, <1>3, <1>5, <2>1, <2>2 DEF Orderly
  <2>6. Append(Waiting(r, e), d) = <<d>> BY <2>2, <2>5 DEF Waiting
  <2>7. Len(<<d>>) = 1 OBVIOUS
  <2>8. \A k \in DOMAIN W : Len(W[k]) = 1 BY <2>1, <2>2 DEF Orderly
  <2>9. \A k \in DOMAIN U : Len(U[k]) = 1 BY <2>3, <2>6, <2>7, <2>8
  <2>10. ASSUME NEW x \in net', x.to = r, x.msg.kind = "Generic"
         PROVE  x.msg.digest \notin generics[r] /\ Parent(x.msg.digest) \notin DOMAIN U
    <3>1. x \in net /\ x /= y BY <1>9
    <3>2. PICK a : a = x.msg.digest OBVIOUS
    <3>3. a \notin generics[r] /\ Parent(a) \notin DOMAIN W
      BY <2>1, <2>2, <2>10, <3>1, <3>2 DEF Orderly
    <3>4. OnChain(a) /\ x = Datagram(r, GenericMsg(a))
      BY <2>10, <3>1, <3>2, ChainInFlight
    <3>5. a /= d BY <1>6, <3>1, <3>4
    <3>6. Parent(a) /= e
      <4>1. Tip \in Digests BY <1>1, TipType
      <4>2. QED BY <1>3, <1>6, <3>4, <3>5, <4>1, SameParent DEF OnChain
    <3>7. Parent(a) \notin DOMAIN U BY <2>3, <3>3, <3>6
    <3>8. QED BY <3>2, <3>3, <3>7
  <2>11. PICK h \in Nat : Steady(Fields(r), Tip, h) BY <2>1 DEF Orderly
  <2>12. PICK s : s = Fields(r) OBVIOUS
  <2>13. PICK u : u = Fields(r)' OBVIOUS
  <2>14. /\ u.panicked = s.panicked /\ u.certified = s.certified
         /\ u.generics = s.generics /\ u.app = s.app
    BY <1>8, <2>12, <2>13 DEF Fields
  <2>15. Steady(u, Tip, h) BY <2>11, <2>12, <2>14, SteadySame
  <2>16. Steady(Fields(r), Tip, h)' BY <1>8, <2>13, <2>15
  <2>17. QED BY <1>8, <2>4, <2>9, <2>10, <2>16 DEF Orderly
<1>13. Once(Replicas)' BY <1>11, <1>12 DEF Once
<1>14. ToPrimary' BY <1>9, <1>10 DEF OInv, ToPrimary
<1>15. QED BY <1>8, <1>10, <1>13, <1>14 DEF OInv

\* do_reorder_generic inserts the next block, and the ones that follow it.
LEMMA ReleaseSteady ==
  ASSUME IInv, NEW r \in Live, Orderly(r), NEW d, OnChain(d),
         d \notin generics[r], Parent(d) \in generics[r],
         NEW released, released = Released(r, d),
         NEW s, s = InsertAll(r, <<d>> \o released)
  PROVE  /\ \E h \in Nat : Steady(s, Tip, h)
         /\ s.generics \subseteq generics[r] \cup {d} \cup Range(released)
         /\ \A x \in Range(released) : Parent(x) \in DOMAIN reordering[r]
<1>1. Typed /\ Fitting /\ Aside /\ r \in Replicas BY LiveAssumption DEF IInv
<1>2. PICK t : t = Tip OBVIOUS
<1>3. t \in Digests /\ d \in Digests /\ Len(d) > 0 /\ IsAncestor(d, t)
  BY <1>1, <1>2, TipType DEF OnChain
<1>4. PICK W : W = reordering[r] OBVIOUS
<1>5. AsideOn(W, t) BY <1>1, <1>2, <1>4 DEF Aside
<1>6. /\ released \in Seq(Digests)
      /\ \A x \in Range(released) : \E e \in DOMAIN W : x \in Range(W[e])
  BY <1>4, <1>5, <1>3, ReleasedAll
<1>7. ASSUME NEW x \in Range(released)
      PROVE  /\ x \in Digests /\ Len(x) > 0 /\ IsAncestor(x, t)
             /\ Parent(x) \in DOMAIN W
  <2>1. PICK e \in DOMAIN W : x \in Range(W[e]) BY <1>6
  <2>2. /\ W[e] \in Seq(Digests) /\ Len(x) > 0 /\ IsAncestor(x, t)
        /\ Parent(x) = e
    BY <1>5, <2>1 DEF AsideOn
  <2>3. QED BY <2>1, <2>2, RangeOfSeq
<1>8. \A i \in 1..Len(released) : Len(released[i]) = Len(d) + i
  <2>1. \A e \in DOMAIN W : Len(W[e]) = 1 BY <1>4 DEF Orderly
  <2>2. QED BY <1>3, <1>4, <1>5, <2>1, ReleasedInOrder
<1>9. PICK h \in Nat : Steady(Fields(r), t, h) BY <1>2 DEF Orderly
<1>10. Len(d) = h + 1
  <2>1. PICK p : p = Parent(d) OBVIOUS
  <2>2. /\ p \in Digests /\ IsAncestor(p, t) /\ Len(p) = Len(d) - 1
        /\ Len(d) \in Nat
    BY <1>3, <2>1, ParentOnChain
  <2>3. p \in generics[r] BY <2>1
  <2>4. Fields(r).generics = generics[r] BY DEF Fields
  <2>5. Len(p) <= h /\ ~(Len(d) <= h)
    BY <1>3, <1>9, <2>2, <2>3, <2>4 DEF Steady
  <2>6. QED BY <1>9, <2>2, <2>5
<1>11. PICK a : a = <<d>> OBVIOUS
<1>12. a \in Seq(Digests) /\ Len(a) = 1 /\ a[1] = d BY <1>3, <1>11
<1>13. PICK b : b = a \o released OBVIOUS
<1>14. /\ b \in Seq(Digests) /\ Len(b) = 1 + Len(released)
       /\ Len(released) \in Nat
       /\ \A i \in 1..1 + Len(released) :
             b[i] = IF i <= 1 THEN a[i] ELSE released[i - 1]
  <2>1. /\ b \in Seq(Digests) /\ Len(b) = Len(a) + Len(released)
        /\ \A i \in 1..Len(a) + Len(released) :
              b[i] = IF i <= Len(a) THEN a[i] ELSE released[i - Len(a)]
    <3>1. a \in Seq(Digests) BY <1>12
    <3>2. released \in Seq(Digests) BY <1>6
    <3>3. QED BY <1>13, <3>1, <3>2, ConcatProperties
  <2>2. Len(released) \in Nat BY <1>6, LenProperties
  <2>3. QED BY <1>12, <2>1, <2>2
<1>15. ASSUME NEW i \in 1..Len(b)
       PROVE  /\ b[i] \in Digests /\ IsAncestor(b[i], t) /\ Len(b[i]) = h + i
              /\ Len(b[i]) > 0
              /\ b[i] \in {d} \cup Range(released)
  <2>1. CASE i = 1
    <3>1. b[i] = d BY <1>12, <1>14, <2>1
    <3>2. QED BY <1>3, <1>10, <2>1, <3>1
  <2>2. CASE i /= 1
    <3>1. i - 1 \in 1..Len(released) /\ b[i] = released[i - 1]
      BY <1>14, <2>2
    <3>2. Range(released) = {released[k] : k \in 1..Len(released)}
      BY <1>6, RangeEquality
    <3>3. b[i] \in Range(released) BY <3>1, <3>2
    <3>4. Len(b[i]) = Len(d) + (i - 1) BY <1>8, <3>1
    <3>5. Len(b[i]) = h + i BY <1>9, <1>10, <3>1, <3>4
    <3>6. QED BY <1>7, <3>3, <3>5
  <2>3. QED BY <2>1, <2>2
<1>16. Fit(Fields(r), r, t) BY <1>1, <1>2 DEF Fitting
<1>17. s = InsertAll(r, b) /\ Len(b) \in Nat BY <1>11, <1>13, <1>14
<1>18. Steady(s, t, h + Len(b))
  BY <1>3, <1>9, <1>15, <1>16, <1>17, InsertAllSteady
<1>19. s.generics \subseteq generics[r] \cup {b[i] : i \in 1..Len(b)}
  BY <1>3, <1>15, <1>16, <1>17, InsertAllFits
<1>20. s.generics \subseteq generics[r] \cup {d} \cup Range(released)
  BY <1>15, <1>19
<1>21. h + Len(b) \in Nat BY <1>9, <1>17
<1>22. QED BY <1>2, <1>4, <1>7, <1>18, <1>20, <1>21

\* What a replica has inserted it keeps steady.
LEMMA BecomesSteady ==
  ASSUME Typed, NEW r \in Live, NEW s, Fit(s, r, Tip), Becomes(r, s),
         Tip' = Tip, NEW h \in Nat, Steady(s, Tip, h)
  PROVE  /\ Steady(Fields(r), Tip, h)'
         /\ generics'[r] = s.generics
         /\ \A i \in Replicas : i /= r =>
               /\ panicked'[i] = panicked[i] /\ app'[i] = app[i]
               /\ digest_certified'[i] = digest_certified[i]
               /\ generics'[i] = generics[i]
<1>1. r \in Replicas BY LiveAssumption
<1>2. s \in ReplicaFields BY DEF Fit
<1>3. Fields(r)' = Kept(s) BY <1>2, BecomesFields
<1>4. PICK u : u = Kept(s) OBVIOUS
<1>5. /\ u.panicked = s.panicked /\ u.certified = s.certified
      /\ u.generics = s.generics /\ u.app = s.app
  BY <1>4 DEF Kept
<1>6. Steady(u, Tip, h) BY <1>5, SteadySame
<1>7. Steady(Fields(r), Tip, h)' BY <1>3, <1>4, <1>6
<1>8. /\ generics' = [generics EXCEPT ![r] = s.generics]
      /\ digest_certified' = [digest_certified EXCEPT ![r] = s.certified]
      /\ app' = [app EXCEPT ![r] = s.app]
      /\ panicked' = [panicked EXCEPT ![r] = s.panicked]
  BY DEF Becomes
<1>9. QED BY <1>1, <1>7, <1>8 DEF Typed, ExecutionTypeOK

LEMMA ReleaseOnce ==
  ASSUME IInv, OInv(Replicas), MaxDup = 0,
         NEW r \in Live, NEW m, HandleGeneric(r, m), Release(r, m)
  PROVE  OInv(Replicas)'
<1>1. /\ Typed /\ r \in Replicas /\ m.kind = "Generic"
      /\ Datagram(r, m) \in net
  BY LiveAssumption DEF IInv, HandleGeneric, Arrived
<1>2. PICK d : d = m.digest OBVIOUS
<1>3. PICK y : y = Datagram(r, m) OBVIOUS
<1>4. y \in net /\ y.to = r /\ y.msg = m BY <1>1, <1>3 DEF Datagram
<1>5. OnChain(d) /\ y = Datagram(r, GenericMsg(d)) /\ r /= Primary
  BY <1>1, <1>2, <1>4, ChainInFlight
<1>6. PICK W : W = reordering[r] OBVIOUS
<1>7. PICK released : released = Released(r, d) OBVIOUS
<1>8. PICK s : s = InsertAll(r, <<d>> \o released) OBVIOUS
<1>9. PICK out : out = s.replies \cup {Datagram(Primary, v) : v \in Range(s.votes)}
  OBVIOUS
<1>10. PICK U : U = Restrict(W, DOMAIN W \ {Parent(e) : e \in Range(released)})
  OBVIOUS
<1>11. /\ Becomes(r, s)
       /\ reordering' = [reordering EXCEPT ![r] = U]
       /\ HandleDatagram(r, m, out, <<>>)
  BY <1>2, <1>6, <1>7, <1>8, <1>9, <1>10 DEF Release
<1>12. Fit(s, r, Tip) /\ Grows(Fields(r), s, Tip)
  BY <1>5, <1>6, <1>7, <1>8, <1>10, ReleaseInserts
<1>13. /\ \A x \in s.replies : x.msg.kind = "Reply"
       /\ \A v \in Range(s.votes) : v.kind = "Vote"
  BY <1>12, InsertedSends
<1>14. Orderly(r) BY <1>1 DEF OInv, Once
<1>15. d \notin generics[r] BY <1>1, <1>2, <1>4, <1>14 DEF Orderly
<1>16. Parent(d) \in generics[r] BY <1>2 DEF Release, Missing
<1>17. PICK h \in Nat : Steady(s, Tip, h)
  BY <1>5, <1>7, <1>8, <1>14, <1>15, <1>16, ReleaseSteady
<1>18. /\ s.generics \subseteq generics[r] \cup {d} \cup Range(released)
       /\ \A x \in Range(released) : Parent(x) \in DOMAIN W
  BY <1>5, <1>6, <1>7, <1>8, <1>14, <1>15, <1>16, ReleaseSteady
<1>19. Tip' = Tip
  BY <1>1, <1>5, <1>11, PrimaryAssumption
  DEF Becomes, Typed, ExecutionTypeOK, Tip
<1>20. /\ Steady(Fields(r), Tip, h)'
       /\ generics'[r] = s.generics
       /\ \A i \in Replicas : i /= r =>
             /\ panicked'[i] = panicked[i] /\ app'[i] = app[i]
             /\ digest_certified'[i] = digest_certified[i]
             /\ generics'[i] = generics[i]
  BY <1>1, <1>11, <1>12, <1>17, <1>19, BecomesSteady
<1>21. net' = (net \ {y}) \cup out BY <1>1, <1>3, <1>11, TakenOnce
<1>22. \A x \in out : x.msg.kind /= "Generic"
       /\ (x.msg.kind = "Vote" => x.to = Primary)
  BY <1>9, <1>13 DEF Datagram
<1>23. loopback' = loopback BY <1>1, <1>11, QuietChannel
<1>24. ASSUME NEW i \in Replicas, i /= r PROVE Orderly(i)'
  <2>1. reordering'[i] = reordering[i] BY <1>1, <1>11, <1>24 DEF Typed
  <2>2. Orderly(i) BY DEF OInv, Once
  <2>3. \A x \in net' : x \in net \/ x.msg.kind /= "Generic"
    BY <1>21, <1>22
  <2>4. QED BY <1>19, <1>20, <1>24, <2>1, <2>2, <2>3, OrderlyKept
<1>25. Orderly(r)'
  <2>1. reordering'[r] = U BY <1>1, <1>11 DEF Typed
  <2>2. DOMAIN U \subseteq DOMAIN W /\ \A e \in DOMAIN U : U[e] = W[e]
    BY <1>10 DEF Restrict
  <2>3. \A e \in DOMAIN U : Len(U[e]) = 1
    BY <1>6, <1>14, <2>2 DEF Orderly
  <2>4. ASSUME NEW x \in net', x.to = r, x.msg.kind = "Generic"
        PROVE  x.msg.digest \notin s.generics /\ Parent(x.msg.digest) \notin DOMAIN U
    <3>1. x \in net /\ x /= y BY <1>21, <1>22, <2>4
    <3>2. PICK a : a = x.msg.digest OBVIOUS
    <3>3. a \notin generics[r] /\ Parent(a) \notin DOMAIN W
      BY <1>6, <1>14, <2>4, <3>1, <3>2 DEF Orderly
    <3>4. x = Datagram(r, GenericMsg(a))
      BY <2>4, <3>1, <3>2, ChainInFlight
    <3>5. a /= d BY <1>5, <3>1, <3>4
    <3>6. a \notin Range(released) BY <1>18, <3>3
    <3>7. QED BY <1>18, <2>2, <3>2, <3>3, <3>5, <3>6
  <2>5. QED BY <1>20, <2>1, <2>3, <2>4 DEF Orderly
<1>26. Once(Replicas)' BY <1>24, <1>25 DEF Once
<1>27. ToPrimary' BY <1>21, <1>22, <1>23 DEF OInv, ToPrimary
<1>28. generics'[Primary] = generics[Primary]
  BY <1>5, <1>20, PrimaryAssumption
<1>29. QED BY <1>19, <1>23, <1>26, <1>27, <1>28 DEF OInv

\* on_pace: the primary holds the block that it proposes on, and with it every
\* block of the chain.
LEMMA OnPaceOnce ==
  ASSUME IInv, NEW S \in SUBSET Replicas, Primary \in S,
         OInv(S), NEW r \in Live, OnPace(r)
  PROVE  OInv(S)'
<1>1. Typed /\ Fitting /\ Aside /\ r \in Replicas BY LiveAssumption DEF IInv
<1>2. PICK t : t = Tip OBVIOUS
<1>3. /\ r = Primary /\ t \in Digests /\ Len(t) \in Nat
      /\ digest_certified[r] = t
  BY <1>2, Proposes
<1>4. PICK d \in Digests :
        /\ Pace(r, SendTo(Peers(r), GenericMsg(d)), <<GenericMsg(d)>>)
        /\ Tip' = d
        /\ Len(d) = Len(t) + 1 /\ Parent(d) = t /\ IsAncestor(t, d)
  BY <1>2, Proposes
<1>5. PICK m : m = GenericMsg(d) OBVIOUS
<1>6. m.kind = "Generic" /\ m.digest = d /\ m \in OwnMessages
  BY <1>5 DEF GenericMsg, GenericMsgs, OwnMessages
<1>7. PICK own : own = <<m>> OBVIOUS
<1>8. own \in Seq(OwnMessages) /\ Len(own) = 1 /\ own[1] = m BY <1>6, <1>7
<1>9. PICK out : out = SendTo(Peers(r), m) OBVIOUS
<1>10. /\ Pace(r, out, own)
       /\ UNCHANGED <<app, panicked, reordering, blockVars>>
  BY <1>4, <1>5, <1>7, <1>9 DEF OnPace
<1>11. UNCHANGED <<app, panicked, reordering, generics, digest_certified>>
  BY <1>10 DEF blockVars
<1>12. net' = net \cup out BY <1>10 DEF Pace
<1>13. \A x \in out : x.msg = m BY <1>9 DEF SendTo, Datagram
<1>14. ASSUME NEW i \in S PROVE Orderly(i)'
  <2>1. Orderly(i) BY DEF OInv, Once
  <2>2. PICK h \in Nat : Steady(Fields(i), t, h) BY <1>2, <2>1 DEF Orderly
  <2>3. PICK s : s = Fields(i) OBVIOUS
  <2>4. PICK u : u = Fields(i)' OBVIOUS
  <2>5. Follows(s, t) BY <1>1, <1>2, <2>3 DEF Fitting, Fit
  <2>6. Steady(s, d, h) BY <1>3, <1>4, <2>2, <2>3, <2>5, SteadyKept
  <2>7. /\ u.panicked = s.panicked /\ u.certified = s.certified
        /\ u.generics = s.generics /\ u.app = s.app
    BY <1>11, <2>3, <2>4 DEF Fields
  <2>8. Steady(u, d, h) BY <2>6, <2>7, SteadySame
  <2>9. Steady(Fields(i), Tip, h)' BY <1>4, <2>4, <2>8
  <2>10. ASSUME NEW x \in net', x.to = i, x.msg.kind = "Generic"
         PROVE  /\ x.msg.digest \notin generics[i]
                /\ Parent(x.msg.digest) \notin DOMAIN reordering[i]
    <3>1. CASE x \in net BY <2>1, <2>10, <3>1 DEF Orderly
    <3>2. CASE x \in out
      <4>1. x.msg.digest = d BY <1>6, <1>13, <3>2
      <4>2. d \notin generics[i]
        <5>1. \A e \in generics[i] : Len(e) <= Len(t)
          BY <2>3, <2>5 DEF Follows, Fields, IsAncestor
        <5>2. QED BY <1>3, <1>4, <5>1
      <4>3. t \notin DOMAIN reordering[i]
        <5>1. PICK W : W = reordering[i] OBVIOUS
        <5>2. AsideOn(W, t) BY <1>1, <1>2, <5>1 DEF Aside
        <5>3. \A e \in DOMAIN W :
                 /\ Len(e) \in Nat /\ Len(Head(W[e])) = Len(e) + 1
                 /\ Len(Head(W[e])) <= Len(t)
          BY <1>3, <5>2, AsideProperties
        <5>4. \A e \in DOMAIN W : e /= t BY <1>3, <5>3
        <5>5. QED BY <5>1, <5>4
      <4>4. QED BY <1>4, <4>1, <4>2, <4>3
    <3>3. QED BY <1>12, <3>1, <3>2
  <2>11. QED BY <1>11, <2>1, <2>9, <2>10 DEF Orderly
<1>15. Once(S)' BY <1>14 DEF Once
<1>16. PICK q : q = loopback[r] OBVIOUS
<1>17. PICK u : u = loopback'[r] OBVIOUS
<1>18. /\ \A i \in Replicas : i /= r => loopback'[i] = loopback[i]
       /\ Len(q) \in Nat
       /\ Len(u) = Len(q) + 1
       /\ \A k \in 1..Len(q) : u[k] = q[k]
       /\ u[Len(q) + 1].msg = m
       /\ u[Len(q) + 1].before = InFlightTo(net', r)
  <2>1. Pace(r, out, <<m>>) BY <1>7, <1>10
  <2>2. Typed /\ r \in Replicas /\ m \in OwnMessages BY <1>1, <1>6
  <2>3. QED BY <1>16, <1>17, <2>1, <2>2, PaceChannel
<1>19. ToPrimary'
  <2>1. \A x \in out : x.msg.kind /= "Vote" BY <1>6, <1>13
  <2>2. QED BY <1>3, <1>12, <1>18, <2>1 DEF OInv, ToPrimary
<1>20. PICK G : G = generics[r] OBVIOUS
<1>21. PICK h \in Nat : Steady(Fields(r), t, h)
  BY <1>2, <1>3 DEF OInv, Once, Orderly
<1>22. Fields(r).generics = G /\ Fields(r).certified = t
  BY <1>3, <1>20 DEF Fields
<1>23. t \in G /\ \A e \in Digests : IsAncestor(e, t) => e \in G
  <2>1. t \in G BY <1>21, <1>22 DEF Steady
  <2>2. QED BY <1>3, <1>21, <1>22, <2>1, HoldsChain
<1>24. OwnIn(q, G, t) BY <1>2, <1>3, <1>16, <1>20 DEF OInv
<1>25. d \notin G
  <2>1. \A e \in G : Len(e) <= Len(t)
    BY <1>1, <1>2, <1>22 DEF Fitting, Fit, Follows, IsAncestor
  <2>2. QED BY <1>3, <1>4, <2>1
<1>26. ASSUME NEW y \in InFlightTo(net', r), y.kind = "Vote"
       PROVE  y.digest \in G
  <2>1. PICK x \in net' : x.to = r /\ x.msg = y BY DEF InFlightTo
  <2>2. x \in net BY <1>6, <1>12, <1>13, <1>26, <2>1
  <2>3. OnChain(y.digest) BY <1>26, <2>1, <2>2, ChainInFlight
  <2>4. QED BY <1>2, <1>23, <2>3 DEF OnChain
<1>27. OwnIn(u, G, d)
  <2>1. \A k \in 1..Len(q) : u[k].msg.kind = "Vote"
    BY <1>18, <1>23, <1>24 DEF OwnIn
  <2>2. \A k \in 1..Len(u) : k \in 1..Len(q) \/ k = Len(q) + 1 BY <1>18
  <2>3. Len(q) + 1 \in 1..Len(u) BY <1>18
  <2>4. /\ u[Len(q) + 1].msg = GenericMsg(d)
        /\ \A j \in 1..Len(u) : j /= Len(q) + 1 => u[j].msg.kind = "Vote"
    BY <1>5, <1>18, <2>1, <2>2
  <2>5. ASSUME NEW k \in 1..Len(u)
        PROVE  /\ u[k].msg.kind = "Vote" => u[k].msg.digest \in G
               /\ \A y \in u[k].before : y.kind = "Vote" => y.digest \in G
    <3>1. CASE k \in 1..Len(q) BY <1>18, <1>24, <3>1 DEF OwnIn
    <3>2. CASE k = Len(q) + 1 BY <1>6, <1>18, <1>26, <3>2
    <3>3. QED BY <2>2, <3>1, <3>2
  <2>6. QED BY <1>4, <1>23, <1>25, <2>3, <2>4, <2>5 DEF OwnIn
<1>28. QED
  BY <1>3, <1>4, <1>11, <1>15, <1>17, <1>19, <1>20, <1>27 DEF OInv

\* The primary inserts its last block, and may then be sent votes for it.
LEMMA LoopbackGenericOnce ==
  ASSUME IInv, NEW S \in SUBSET Replicas, Primary \in S,
         OInv(S), NEW r \in Live, LoopbackGeneric(r)
  PROVE  OInv(S)' /\ (Tip \in generics[Primary])'
<1>1. Typed /\ Fitting /\ r \in Replicas BY LiveAssumption DEF IInv
<1>2. loopback[r] /= <<>> BY DEF LoopbackGeneric
<1>3. r = Primary BY <1>1, <1>2 DEF OInv, ToPrimary
<1>4. PICK t : t = Tip OBVIOUS
<1>5. t \in Digests BY <1>1, <1>4, TipType
<1>6. PICK q : q = loopback[r] OBVIOUS
<1>7. PICK u : u = loopback'[r] OBVIOUS
<1>8. PICK G : G = generics[r] OBVIOUS
<1>9. OwnIn(q, G, t) BY <1>3, <1>4, <1>6, <1>8 DEF OInv
<1>10. PICK d : d = Own(r).digest OBVIOUS
<1>11. PICK s : /\ s = InsertAll(r, <<d>>) /\ Becomes(r, s)
                /\ HandleLoopback(r, s.replies, s.votes)
                /\ reordering' = reordering
  BY <1>10 DEF LoopbackGeneric
<1>12. Fit(s, r, t) /\ Grows(Fields(r), s, t)
  BY <1>4, <1>10, <1>11, LoopbackInserts
<1>13. /\ s.votes \in Seq(OwnMessages)
       /\ \A x \in s.replies : x.msg.kind = "Reply"
       /\ Items(s.votes) = Range(s.votes)
       /\ \A v \in Range(s.votes) : v.kind = "Vote"
  BY <1>12, InsertedSends
<1>14. /\ \A i \in Replicas : i /= r => loopback'[i] = loopback[i]
       /\ Len(q) \in Nat \ {0} /\ Len(s.votes) \in Nat
       /\ q[1].msg = Own(r)
       /\ Len(u) = Len(q) - 1 + Len(s.votes)
       /\ \A k \in 1..Len(q) - 1 : u[k] = q[k + 1]
       /\ \A k \in Len(q) .. Len(q) - 1 + Len(s.votes) :
             /\ u[k].msg = s.votes[k - (Len(q) - 1)]
             /\ u[k].before = InFlightTo(net', r)
  <2>1. PICK own : own = s.votes OBVIOUS
  <2>2. own \in Seq(OwnMessages) BY <1>13, <2>1
  <2>3. HandleLoopback(r, s.replies, own) BY <1>11, <2>1
  <2>4. r \in Replicas /\ Typed /\ loopback[r] /= <<>> BY <1>1, <1>2
  <2>5. ChannelMoved(r, q, u, own)
    BY <1>6, <1>7, <2>2, <2>3, <2>4, OwnChannelTail
  <2>6. QED BY <2>1, <2>5 DEF ChannelMoved
<1>15. q[1].msg.kind = "Generic" /\ 1 \in 1..Len(q)
  BY <1>14 DEF LoopbackGeneric
<1>16. /\ t \notin G /\ q[1].msg = GenericMsg(t)
       /\ \A j \in 1..Len(q) : j /= 1 => q[j].msg.kind = "Vote"
  <2>1. t \notin G BY <1>9, <1>15 DEF OwnIn
  <2>2. PICK k \in 1..Len(q) :
           /\ q[k].msg = GenericMsg(t)
           /\ \A j \in 1..Len(q) : j /= k => q[j].msg.kind = "Vote"
    BY <1>9, <2>1 DEF OwnIn
  <2>3. k = 1 BY <1>15, <2>2
  <2>4. QED BY <2>1, <2>2, <2>3
<1>17. d = t BY <1>10, <1>14, <1>16 DEF GenericMsg
<1>18. PICK h \in Nat : Steady(Fields(r), t, h)
  BY <1>3, <1>4 DEF OInv, Once, Orderly
<1>19. Fields(r).generics = G BY <1>8 DEF Fields
<1>20. IsAncestor(t, t) BY <1>5, AncestorReflexive DEF Digests
<1>21. Len(t) = h + 1
  <2>1. PICK p : p = Parent(t) OBVIOUS
  <2>2. /\ p \in Digests /\ IsAncestor(p, t) /\ Len(t) \in Nat
        /\ Len(p) = IF Len(t) = 0 THEN 0 ELSE Len(t) - 1
    BY <1>5, <1>20, <2>1, ParentOnChain
  <2>3. p \in G BY <1>9, <2>1 DEF OwnIn
  <2>4. Len(p) <= h /\ ~(Len(t) <= h)
    BY <1>5, <1>16, <1>18, <1>19, <1>20, <2>2, <2>3 DEF Steady
  <2>5. QED BY <1>18, <2>2, <2>4
<1>22. Steady(s, t, h + 1)
  <2>1. PICK b : b = <<t>> OBVIOUS
  <2>2. Len(b) = 1 /\ b[1] = t /\ Len(b) \in Nat BY <2>1
  <2>3. Fit(Fields(r), r, t) BY <1>1, <1>4 DEF Fitting
  <2>4. \A i \in 1..Len(b) :
           b[i] \in Digests /\ IsAncestor(b[i], t) /\ Len(b[i]) = h + i
    BY <1>5, <1>20, <1>21, <2>2
  <2>5. s = InsertAll(r, b) BY <1>11, <1>17, <2>1
  <2>6. Steady(s, t, h + Len(b))
    BY <1>5, <1>18, <2>2, <2>3, <2>4, <2>5, InsertAllSteady
  <2>7. QED BY <2>2, <2>6
<1>23. Tip' = t
  BY <1>1, <1>3, <1>4, <1>11, <1>12, PrimaryAssumption
  DEF Becomes, Grows, Fields, Typed, ExecutionTypeOK, Tip
<1>24. /\ Steady(Fields(r), Tip, h + 1)'
       /\ generics'[r] = s.generics
       /\ \A i \in Replicas : i /= r =>
             /\ panicked'[i] = panicked[i] /\ app'[i] = app[i]
             /\ digest_certified'[i] = digest_certified[i]
             /\ generics'[i] = generics[i]
  <2>1. h + 1 \in Nat OBVIOUS
  <2>2. QED
    BY <1>1, <1>4, <1>11, <1>12, <1>22, <1>23, <2>1, BecomesSteady
<1>25. net' = net \cup s.replies BY <1>11 DEF HandleLoopback
<1>26. ASSUME NEW i \in S, i /= r PROVE Orderly(i)'
  <2>1. Orderly(i) BY DEF OInv, Once
  <2>2. \A x \in net' : x \in net \/ x.msg.kind /= "Generic"
    BY <1>13, <1>25
  <2>3. QED BY <1>4, <1>11, <1>23, <1>24, <1>26, <2>1, <2>2, OrderlyKept
<1>27. Orderly(r)'
  <2>1. \A x \in net' : ~(x.to = r /\ x.msg.kind = "Generic")
    BY <1>3, <1>13, <1>25, ChainInFlight
  <2>2. \A e \in DOMAIN reordering'[r] : Len(reordering'[r][e]) = 1
    BY <1>3, <1>11 DEF OInv, Once, Orderly
  <2>3. h + 1 \in Nat OBVIOUS
  <2>4. QED BY <1>24, <2>1, <2>2, <2>3 DEF Orderly
<1>28. Once(S)' BY <1>26, <1>27 DEF Once
<1>29. ToPrimary' BY <1>3, <1>13, <1>14, <1>25 DEF OInv, ToPrimary
<1>30. G \subseteq s.generics BY <1>12, <1>19 DEF Grows
<1>31. t \in s.generics /\ \A e \in Digests : IsAncestor(e, t) => e \in s.generics
  <2>1. Len(t) <= h + 1 BY <1>18, <1>21
  <2>2. t \in s.generics BY <1>5, <1>20, <1>22, <2>1 DEF Steady
  <2>3. h + 1 \in Nat OBVIOUS
  <2>4. QED BY <1>5, <1>22, <2>2, <2>3, HoldsChain
<1>32. ASSUME NEW y \in InFlightTo(net', r), y.kind = "Vote"
       PROVE  y.digest \in s.generics
  <2>1. PICK x \in net' : x.to = r /\ x.msg = y BY DEF InFlightTo
  <2>2. x \in net BY <1>13, <1>25, <1>32, <2>1
  <2>3. OnChain(y.digest) BY <1>32, <2>1, <2>2, ChainInFlight
  <2>4. QED BY <1>4, <1>31, <2>3 DEF OnChain
<1>33. ASSUME NEW k \in 1..Len(s.votes)
       PROVE  s.votes[k].kind = "Vote" /\ s.votes[k].digest \in s.generics
  <2>1. s.votes[k] \in Range(s.votes) BY <1>13 DEF Items
  <2>2. s.votes \in Seq(VoteMsgs) BY <1>12 DEF Fit, ReplicaFields
  <2>3. s.votes[k] \in VoteMsgs BY <2>2, ElementOfSeq
  <2>4. s.votes[k].digest \in Digests /\ IsAncestor(s.votes[k].digest, t)
    BY <1>12, <2>1, <2>3 DEF Fit, Truthful, VoteMsgs
  <2>5. QED BY <1>13, <1>31, <2>1, <2>4
<1>34. ASSUME NEW k \in 1..Len(u)
       PROVE  /\ u[k].msg.kind = "Vote" /\ u[k].msg.digest \in s.generics
              /\ \A y \in u[k].before : y.kind = "Vote" => y.digest \in s.generics
  <2>1. CASE k \in 1..Len(q) - 1
    <3>1. k + 1 \in 1..Len(q) /\ k + 1 /= 1 BY <1>14, <2>1
    <3>2. u[k] = q[k + 1] BY <1>14, <2>1
    <3>3. u[k].msg.kind = "Vote" BY <1>16, <3>1, <3>2
    <3>4. /\ u[k].msg.digest \in G
          /\ \A y \in u[k].before : y.kind = "Vote" => y.digest \in G
      BY <1>9, <3>1, <3>2, <3>3 DEF OwnIn
    <3>5. QED BY <1>30, <3>3, <3>4
  <2>2. CASE k \in Len(q) .. Len(q) - 1 + Len(s.votes)
    <3>1. k - (Len(q) - 1) \in 1..Len(s.votes) BY <1>14, <2>2
    <3>2. /\ u[k].msg = s.votes[k - (Len(q) - 1)]
          /\ u[k].before = InFlightTo(net', r)
      BY <1>14, <2>2
    <3>3. QED BY <1>32, <1>33, <3>1, <3>2
  <2>3. QED BY <1>14, <2>1, <2>2
<1>35. OwnIn(u, s.generics, t) BY <1>9, <1>30, <1>31, <1>34 DEF OwnIn
<1>36. OInv(S)' BY <1>3, <1>7, <1>23, <1>24, <1>28, <1>29, <1>35 DEF OInv
<1>37. QED BY <1>3, <1>23, <1>24, <1>31, <1>36

\* insert_vote at the primary, of a block it holds.
LEMMA InsertVoteOnce ==
  ASSUME IInv, NEW S \in SUBSET Replicas, Primary \in S,
         OInv(S), NEW r \in Live, r = Primary, NEW m, InsertVote(r, m),
         m.digest \in generics[r], net' \subseteq net,
         \A i \in Replicas : i /= r => loopback'[i] = loopback[i],
         OwnIn(loopback'[r], generics[r], Tip)
  PROVE  OInv(S)'
<1>1. Typed /\ r \in Replicas BY LiveAssumption DEF IInv
<1>2. UNCHANGED <<chain, app, generics, reordering>> /\ Tip' = Tip
  BY DEF InsertVote, Tip
<1>3. panicked' = [panicked EXCEPT ![r] = "no"] BY DEF InsertVote
<1>4. /\ panicked'[r] = "no"
      /\ \A i \in Replicas : i /= r => panicked'[i] = panicked[i]
  BY <1>1, <1>3 DEF Typed, ExecutionTypeOK
<1>5. /\ digest_certified'[r] \in {m.digest, digest_certified[r]}
      /\ \A i \in Replicas : i /= r => digest_certified'[i] = digest_certified[i]
  BY <1>1 DEF InsertVote, Higher, Typed
<1>6. \A x \in net' : x \in net \/ x.msg.kind /= "Generic" OBVIOUS
<1>7. ASSUME NEW i \in S, i /= r PROVE Orderly(i)'
  <2>1. Orderly(i) BY DEF OInv, Once
  <2>2. QED BY <1>2, <1>4, <1>5, <1>6, <1>7, <2>1, OrderlyKept
<1>8. Orderly(r)'
  <2>1. Orderly(r) BY <1>1 DEF OInv, Once
  <2>2. PICK h \in Nat : Steady(Fields(r), Tip, h) BY <2>1 DEF Orderly
  <2>3. PICK s : s = Fields(r) OBVIOUS
  <2>4. PICK u : u = Fields(r)' OBVIOUS
  <2>5. /\ u.panicked = "no" /\ u.generics = s.generics /\ u.app = s.app
        /\ u.certified \in s.generics \cup {s.certified}
    BY <1>2, <1>4, <1>5, <2>3, <2>4 DEF Fields
  <2>6. Steady(u, Tip, h) BY <2>2, <2>3, <2>5 DEF Steady
  <2>7. Steady(Fields(r), Tip, h)' BY <1>2, <2>4, <2>6
  <2>8. QED BY <1>2, <2>1, <2>7 DEF Orderly
<1>9. Once(S)' BY <1>7, <1>8 DEF Once
<1>10. ToPrimary' BY DEF OInv, ToPrimary
<1>11. QED BY <1>2, <1>9, <1>10 DEF OInv

\* handle_vote: the vote does not overtake the primary's own block, in a
\* datagram that was in flight no earlier, ...
LEMMA HandleVoteOnce ==
  ASSUME IInv, NEW S \in SUBSET Replicas, Primary \in S,
         OInv(S), NEW r \in Live, NEW m, HandleVote(r, m)
  PROVE  OInv(S)'
<1>1. /\ Typed /\ r \in Replicas /\ m.kind = "Vote"
      /\ Datagram(r, m) \in net /\ Arrived(r, m)
      /\ InsertVote(r, m) /\ HandleDatagram(r, m, {}, <<>>)
  BY LiveAssumption DEF IInv, HandleVote, Arrived
<1>2. PICK y : y = Datagram(r, m) OBVIOUS
<1>3. y \in net /\ y.to = r /\ y.msg = m BY <1>1, <1>2 DEF Datagram
<1>4. r = Primary BY <1>1, <1>3 DEF OInv, ToPrimary
<1>5. PICK q : q = loopback[r] OBVIOUS
<1>6. PICK t : t = Tip OBVIOUS
<1>7. OwnIn(q, generics[r], t) BY <1>4, <1>5, <1>6 DEF OInv
<1>8. m.digest \in generics[r]
  <2>1. PICK E : E = OwnEntries(Msgs, OwnMessages) OBVIOUS
  <2>2. q \in Seq(E) BY <1>1, <1>5, <2>1, NetTypeDef DEF Typed
  <2>3. CASE q = <<>>
    <3>1. Len(q) = 0 BY <2>2, <2>3, EmptySeq
    <3>2. t \in generics[r] BY <1>7, <3>1 DEF OwnIn
    <3>3. PICK h \in Nat : Steady(Fields(r), t, h)
      BY <1>4, <1>6 DEF OInv, Once, Orderly
    <3>4. Fields(r).generics = generics[r] BY DEF Fields
    <3>5. OnChain(m.digest) BY <1>1, <1>3, ChainInFlight
    <3>6. t \in Digests BY <1>1, <1>6, TipType
    <3>7. QED
      BY <1>6, <3>2, <3>3, <3>4, <3>5, <3>6, HoldsChain DEF OnChain
  <2>4. CASE q /= <<>>
    <3>1. 1 \in 1..Len(q) /\ Head(q) = q[1]
      BY <2>2, <2>4, EmptySeq, LenProperties
    <3>2. m \in q[1].before BY <1>1, <1>5, <2>4, <3>1 DEF Arrived
    <3>3. QED BY <1>1, <1>7, <3>1, <3>2 DEF OwnIn
  <2>5. QED BY <2>3, <2>4
<1>9. net' \subseteq net
  <2>1. net' \subseteq net \cup {} BY <1>1, HandlerSends
  <2>2. QED BY <2>1
<1>10. loopback' = loopback BY <1>1, QuietChannel
<1>11. QED
  BY <1>1, <1>4, <1>5, <1>6, <1>7, <1>8, <1>9, <1>10, InsertVoteOnce

\* ... nor on the channel.
LEMMA LoopbackVoteOnce ==
  ASSUME IInv, NEW S \in SUBSET Replicas, Primary \in S,
         OInv(S), NEW r \in Live, LoopbackVote(r)
  PROVE  OInv(S)'
<1>1. /\ Typed /\ r \in Replicas /\ loopback[r] /= <<>>
      /\ Own(r).kind = "Vote" /\ InsertVote(r, Own(r))
      /\ HandleLoopback(r, {}, <<>>)
  BY LiveAssumption DEF IInv, LoopbackVote
<1>2. r = Primary BY <1>1 DEF OInv, ToPrimary
<1>3. PICK q : q = loopback[r] OBVIOUS
<1>4. PICK u : u = loopback'[r] OBVIOUS
<1>5. PICK t : t = Tip OBVIOUS
<1>6. PICK G : G = generics[r] OBVIOUS
<1>7. OwnIn(q, G, t) BY <1>2, <1>3, <1>5, <1>6 DEF OInv
<1>8. <<>> \in Seq(OwnMessages) /\ Len(<<>>) = 0 BY EmptySeq
<1>9. /\ \A i \in Replicas : i /= r => loopback'[i] = loopback[i]
      /\ Len(q) \in Nat \ {0}
      /\ q[1].msg = Own(r)
      /\ Len(u) = Len(q) - 1
      /\ \A k \in 1..Len(q) - 1 : u[k] = q[k + 1]
  <2>1. PICK own : own = <<>> OBVIOUS
  <2>2. own \in Seq(OwnMessages) /\ Len(own) = 0 BY <1>8, <2>1
  <2>3. HandleLoopback(r, {}, own) BY <1>1, <2>1
  <2>4. r \in Replicas /\ Typed /\ loopback[r] /= <<>> BY <1>1, <1>2
  <2>5. ChannelMoved(r, q, u, own)
    BY <1>3, <1>4, <2>2, <2>3, <2>4, OwnChannelTail
  <2>6. QED BY <2>2, <2>5 DEF ChannelMoved
<1>10. 1 \in 1..Len(q) BY <1>9
<1>11. Own(r).digest \in G BY <1>1, <1>7, <1>9, <1>10 DEF OwnIn
<1>12. OwnIn(u, G, t)
  <2>1. \A k \in 1..Len(u) : k + 1 \in 1..Len(q) /\ u[k] = q[k + 1] BY <1>9
  <2>2. ASSUME t \notin G
        PROVE  \E k \in 1..Len(u) :
                  /\ u[k].msg = GenericMsg(t)
                  /\ \A j \in 1..Len(u) : j /= k => u[j].msg.kind = "Vote"
    <3>1. PICK k \in 1..Len(q) :
            /\ q[k].msg = GenericMsg(t)
            /\ \A j \in 1..Len(q) : j /= k => q[j].msg.kind = "Vote"
      BY <1>7, <2>2 DEF OwnIn
    <3>2. k /= 1 BY <1>1, <1>9, <3>1 DEF GenericMsg
    <3>3. k - 1 \in 1..Len(u) /\ k - 1 + 1 = k BY <1>9, <3>2
    <3>4. u[k - 1].msg = GenericMsg(t) BY <2>1, <3>1, <3>3
    <3>5. \A j \in 1..Len(u) : j /= k - 1 => u[j].msg.kind = "Vote"
      BY <2>1, <3>1, <3>3
    <3>6. QED BY <3>3, <3>4, <3>5
  <2>3. t \in G => \A k \in 1..Len(u) : u[k].msg.kind = "Vote"
    BY <1>7, <2>1 DEF OwnIn
  <2>4. \A k \in 1..Len(u) :
           /\ u[k].msg.kind = "Vote" => u[k].msg.digest \in G
           /\ \A y \in u[k].before : y.kind = "Vote" => y.digest \in G
    BY <1>7, <2>1 DEF OwnIn
  <2>5. QED BY <1>7, <2>2, <2>3, <2>4 DEF OwnIn
<1>13. net' \subseteq net BY <1>1 DEF HandleLoopback
<1>14. QED
  BY <1>1, <1>2, <1>4, <1>5, <1>6, <1>9, <1>11, <1>12, <1>13, InsertVoteOnce

\* handle_request sends replies only.
LEMMA HandleRequestOnce ==
  ASSUME IInv, NEW S \in SUBSET Replicas, Primary \in S,
         OInv(S), NEW r \in Live, NEW m, HandleRequest(r, m)
  PROVE  OInv(S)'
<1>1. Typed /\ r \in Replicas /\ m \in RequestMsgs
  BY LiveAssumption, MessagesType, KindsOfOwn DEF IInv, HandleRequest
<1>2. PICK out : out = IF Known(r, m) THEN Resent(r, m) ELSE {} OBVIOUS
<1>3. \A x \in out : x.msg.kind = "Reply"
  BY <1>1, <1>2, ResentType DEF ReplyMsgs
<1>4. HandleDatagram(r, m, out, <<>>) BY <1>2 DEF HandleRequest
<1>5. loopback' = loopback BY <1>1, <1>4, QuietChannel
<1>6. net' \subseteq net \cup out BY <1>4, HandlerSends
<1>7. UNCHANGED <<chain, app, panicked, blockVars, reordering>>
  BY DEF HandleRequest, executeVars
<1>8. QED BY <1>3, <1>5, <1>6, <1>7, QuietOnce

LEMMA InitOnce ==
  ASSUME Init, NEW S \in SUBSET Replicas
  PROVE  OInv(S)
<1>1. /\ net = {} /\ loopback = [r \in Replicas |-> <<>>]
      /\ chain = [r \in Replicas |-> NewChain]
      /\ app = [r \in Replicas |-> <<>>]
      /\ panicked = [r \in Replicas |-> "no"]
      /\ generics = [r \in Replicas |-> {Genesis}]
      /\ reordering = [r \in Replicas |-> <<>>]
      /\ digest_certified = [r \in Replicas |-> Genesis]
  BY DEF Init, Init_Multiplex, Init_Execution
<1>2. <<>> \in Digests /\ Len(<<>>) = 0 /\ DOMAIN <<>> = {}
  <2>1. <<>> \in Digests /\ Len(<<>>) = 0 BY EmptySeq DEF Digests
  <2>2. QED BY <2>1, LenProperties DEF Digests
<1>3. Tip = <<>> BY <1>1, PrimaryAssumption DEF Tip, NewChain, Genesis
<1>4. ASSUME NEW r \in Replicas PROVE Orderly(r)
  <2>1. PICK s : s = Fields(r) OBVIOUS
  <2>2. /\ s.panicked = "no" /\ s.certified = <<>> /\ s.generics = {<<>>}
        /\ s.app = <<>>
    BY <1>1, <2>1 DEF Fields, Genesis
  <2>3. \A d \in Digests : Len(d) <= 0 <=> d = <<>>
    BY EmptySeq, LenProperties DEF Digests
  <2>4. Steady(s, <<>>, 0) BY <1>2, <2>2, <2>3 DEF Steady
  <2>5. \E h \in Nat : Steady(Fields(r), Tip, h) BY <1>3, <2>1, <2>4
  <2>6. QED BY <1>1, <1>2, <2>5 DEF Orderly
<1>5. Once(S) BY <1>4 DEF Once
<1>6. ToPrimary BY <1>1 DEF ToPrimary
<1>7. OwnIn(<<>>, {<<>>}, <<>>)
  <2>1. IsAncestor(<<>>, <<>>) BY <1>2, AncestorReflexive DEF Digests
  <2>2. PICK g : g = <<>> OBVIOUS
  <2>3. g \in Digests /\ IsAncestor(g, g) /\ Len(g) = 0 BY <1>2, <2>1, <2>2
  <2>4. Parent(g) \in Digests /\ Len(Parent(g)) = 0 BY <2>3, ParentOnChain
  <2>5. Parent(g) = <<>> BY <2>4, EmptySeq, LenProperties DEF Digests
  <2>6. 1..Len(<<>>) = {} BY <1>2
  <2>7. QED BY <2>2, <2>5, <2>6 DEF OwnIn
<1>8. QED
  BY <1>1, <1>3, <1>5, <1>6, <1>7, PrimaryAssumption DEF OInv, Genesis

\* A Generic disturbs no replica but the one it reaches.
LEMMA ElsewhereOnce ==
  ASSUME IInv, NEW S \in SUBSET Replicas, Primary \in S,
         OInv(S), NEW r \in Live, r \notin S, NEW m, HandleGeneric(r, m)
  PROVE  OInv(S)'
<1>1. /\ Typed /\ r \in Replicas /\ m \in Messages /\ m.kind = "Generic"
  BY LiveAssumption, MessagesType DEF IInv, HandleGeneric
<1>2. r /= Primary OBVIOUS
<1>3. PICK out : /\ HandleDatagram(r, m, out, <<>>)
                 /\ \A x \in out : /\ x.msg.kind /= "Generic"
                                   /\ x.msg.kind = "Vote" => x.to = Primary
                 /\ \A i \in Replicas : i /= r =>
                       /\ panicked'[i] = panicked[i] /\ app'[i] = app[i]
                       /\ digest_certified'[i] = digest_certified[i]
                       /\ generics'[i] = generics[i] /\ chain'[i] = chain[i]
                       /\ reordering'[i] = reordering[i]
  <2>1. CASE Hold(r, m)
    <3>1. PICK out : out = {} OBVIOUS
    <3>2. HandleDatagram(r, m, out, <<>>)
          /\ UNCHANGED <<chain, app, panicked, generics, digest_certified>>
      BY <2>1, <3>1 DEF Hold, executeVars, blockVars
    <3>3. \A i \in Replicas : i /= r => reordering'[i] = reordering[i]
      BY <1>1, <2>1 DEF Hold, Typed
    <3>4. QED BY <3>1, <3>2, <3>3
  <2>2. CASE Release(r, m)
    <3>1. PICK d : d = m.digest OBVIOUS
    <3>2. OnChain(d) BY <1>1, <3>1 DEF IInv, MessagesSound, Sound
    <3>3. PICK released : released = Released(r, d) OBVIOUS
    <3>4. PICK s : s = InsertAll(r, <<d>> \o released) OBVIOUS
    <3>5. PICK out : out = s.replies \cup {Datagram(Primary, v) : v \in Range(s.votes)}
      OBVIOUS
    <3>6. PICK U : U = Restrict(reordering[r], DOMAIN reordering[r] \
                                   {Parent(e) : e \in Range(released)})
      OBVIOUS
    <3>7. /\ Becomes(r, s) /\ HandleDatagram(r, m, out, <<>>)
          /\ reordering' = [reordering EXCEPT ![r] = U]
      BY <2>2, <3>1, <3>3, <3>4, <3>5, <3>6 DEF Release
    <3>8. Fit(s, r, Tip) BY <3>2, <3>3, <3>4, <3>6, ReleaseInserts
    <3>9. /\ \A x \in s.replies : x.msg.kind = "Reply"
          /\ \A v \in Range(s.votes) : v.kind = "Vote"
      BY <3>8, InsertedSends
    <3>10. \A x \in out : /\ x.msg.kind /= "Generic"
                          /\ x.msg.kind = "Vote" => x.to = Primary
      BY <3>5, <3>9 DEF Datagram
    <3>11. \A i \in Replicas : i /= r =>
              /\ panicked'[i] = panicked[i] /\ app'[i] = app[i]
              /\ digest_certified'[i] = digest_certified[i]
              /\ generics'[i] = generics[i] /\ chain'[i] = chain[i]
              /\ reordering'[i] = reordering[i]
      BY <1>1, <3>7 DEF Becomes, Typed, ExecutionTypeOK
    <3>12. QED BY <3>7, <3>10, <3>11
  <2>3. QED BY <2>1, <2>2 DEF HandleGeneric
<1>4. net' \subseteq net \cup out BY <1>3, HandlerSends
<1>5. loopback' = loopback BY <1>1, <1>3, QuietChannel
<1>6. Tip' = Tip /\ generics'[Primary] = generics[Primary]
  BY <1>2, <1>3, PrimaryAssumption DEF Tip
<1>7. \A x \in net' : x \in net \/ x.msg.kind /= "Generic" BY <1>3, <1>4
<1>8. ASSUME NEW i \in S PROVE Orderly(i)'
  <2>1. Orderly(i) BY DEF OInv, Once
  <2>2. i \in Replicas /\ i /= r OBVIOUS
  <2>3. QED BY <1>3, <1>6, <1>7, <2>1, <2>2, OrderlyKept
<1>9. Once(S)' BY <1>8 DEF Once
<1>10. ToPrimary' BY <1>3, <1>4, <1>5 DEF OInv, ToPrimary
<1>11. QED BY <1>5, <1>6, <1>9, <1>10 DEF OInv

\* Every step keeps the replicas steady.
LEMMA OnceStep ==
  ASSUME IInv, NEW S, S = {Primary} \/ (S = Replicas /\ MaxDup = 0),
         OInv(S), [Next]_vars
  PROVE  OInv(S)'
<1> S \in SUBSET Replicas /\ Primary \in S BY PrimaryAssumption
<1>1. CASE UNCHANGED vars
  <2>1. UNCHANGED <<chain, app, panicked, blockVars, reordering, loopback>>
        /\ net' = net
    BY <1>1 DEF vars, netVars, executeVars
  <2>2. QED BY <2>1, QuietOnce
<1>2. ASSUME NEW c \in Clients, ClientStep(c) PROVE OInv(S)'
  <2>1. CASE Invoke(c)
    <3>1. UNCHANGED <<chain, app, panicked, blockVars, reordering>>
      BY <2>1 DEF Invoke, executeVars
    <3>2. /\ loopback' = loopback
          /\ \A x \in net' : x \in net \/ x.msg.kind = "Request"
      BY <2>1 DEF Invoke, ClientInvoke, ClientSends, SendTo, Datagram, RequestMsg
    <3>3. QED BY <3>1, <3>2, QuietOnce
  <2>2. ASSUME NEW m, HandleReply(c, m) PROVE OInv(S)'
    <3>1. UNCHANGED <<chain, app, panicked, blockVars, reordering>>
      BY <2>2 DEF HandleReply, executeVars
    <3>2. loopback' = loopback /\ net' \subseteq net
      BY <2>2 DEF HandleReply, ClientHandle, ClientReceives, Flight
    <3>3. QED BY <3>1, <3>2, QuietOnce
  <2>3. QED BY <1>2, <2>1, <2>2 DEF ClientStep
<1>3. ASSUME NEW r \in Live, ReplicaStep(r) PROVE OInv(S)'
  <2>1. CASE OnPace(r) BY <2>1, OnPaceOnce
  <2>2. CASE LoopbackGeneric(r) BY <2>2, LoopbackGenericOnce
  <2>3. CASE LoopbackVote(r) BY <2>3, LoopbackVoteOnce
  <2>4. ASSUME NEW m, HandleRequest(r, m) PROVE OInv(S)'
    BY <2>4, HandleRequestOnce
  <2>5. ASSUME NEW m, HandleGeneric(r, m) PROVE OInv(S)'
    <3>1. CASE r \notin S BY <2>5, <3>1, ElsewhereOnce
    <3>2. CASE r \in S
      <4>1. m.kind = "Generic" /\ Datagram(r, m) \in net
        BY <2>5 DEF HandleGeneric, Arrived
      <4>2. r /= Primary BY <4>1 DEF IInv, Placed, Datagram
      <4>3. S = Replicas /\ MaxDup = 0 BY <3>2, <4>2
      <4>4. QED BY <2>5, <4>3, HoldOnce, ReleaseOnce DEF HandleGeneric
    <3>3. QED BY <3>1, <3>2
  <2>6. ASSUME NEW m, HandleVote(r, m) PROVE OInv(S)'
    BY <2>6, HandleVoteOnce
  <2>7. QED
    BY <1>3, <2>1, <2>2, <2>3, <2>4, <2>5, <2>6 DEF ReplicaStep
<1>4. QED BY <1>1, <1>2, <1>3 DEF Next

\* No replica misses a block it looks up, nor commits one whose parent is not
\* the last it executed, when nothing arrives twice.  In whatever order Generics
\* and votes arrive, and whatever is lost.
THEOREM NeverPanics ==
  ASSUME MaxDup = 0
  PROVE  Spec => []NoPanic
<1>1. Init => OInv(Replicas) BY InitOnce
<1>2. IInv /\ OInv(Replicas) /\ [Next]_vars => OInv(Replicas)' BY OnceStep
<1>3. OInv(Replicas) => NoPanic
  BY DEF OInv, Once, Orderly, Steady, Fields, NoPanic
<1>4. QED BY <1>1, <1>2, <1>3, Invariance, PTL DEF Spec
-----------------------------------------------------------------------------
(* The service, whatever the network does                                  *)

\* A request waits at the primary or is in one block, and only if it was invoked.
RequestsOnce == OnePlace({}, requests, Tip, request_num)

\* No request is newer than its client's last one in R, and one that waits in
\* the queue or in a block of t above height n is that one.
LatestIn(R, queue, t, n) ==
    /\ \A q \in Items(queue) : q.num = R[q.client].num
    /\ \A h \in 1..Len(t) : \A q \in Items(t[h]) :
          /\ q.num <= R[q.client].num
          /\ h > n => q.num = R[q.client].num

\* Of the requests that the primary has accepted.
Latest == LatestIn(replied[Primary], requests, Tip, Len(app[Primary]))

\* Requests on their way to the primary were invoked.
Invoked ==
    \A x \in net : x.to = Primary /\ x.msg.kind = "Request" =>
        x.msg.num <= request_num[x.msg.client]

\* If m is a request, the log a holds all that its client invoked before.
Succeeds(m, a) ==
    m.kind = "Request" =>
        \A n \in 1..m.num - 1 : InBlock(Request(m.client, n), a)

\* What may overtake the primary's own messages follows what it has executed.
Overtakes ==
    \A k \in 1..Len(loopback[Primary]) :
        \A m \in loopback[Primary][k].before : Succeeds(m, app[Primary])

\* Some replica has executed what a client no longer waits for.
Answered ==
    \A c \in Clients : \A n \in 1..request_num[c] :
        n < request_num[c] \/ ~invoke[c]
        => \E i \in Replicas : InBlock(Request(c, n), app[i])

RInv == RequestsOnce /\ Latest /\ Invoked /\ Overtakes /\ Answered

\* No replica's log is ever cut.
AppsGrow == \A i \in Replicas : IsAncestor(app[i], app'[i])

\* What is in a block stays there when the chain grows.
LEMMA InBlockKept ==
  ASSUME NEW a \in Digests, NEW b \in Digests, IsAncestor(a, b),
         NEW q, InBlock(q, a)
  PROVE  InBlock(q, b)
<1>1. Len(a) \in Nat /\ Len(b) \in Nat /\ Len(a) <= Len(b)
      /\ \A h \in 1..Len(a) : a[h] = b[h]
  BY AncestorDef, LenProperties DEF Digests
<1>2. PICK h \in 1..Len(a) : q \in Items(a[h]) BY DEF InBlock
<1>3. h \in 1..Len(b) /\ b[h] = a[h] BY <1>1, <1>2
<1>4. QED BY <1>2, <1>3 DEF InBlock

\* The applications are on the chain.
LEMMA AppsType ==
  ASSUME IInv
  PROVE  /\ Tip \in Digests /\ requests \in Seq(RequestRecords)
         /\ request_num \in [Clients -> Nat]
         /\ \A i \in Replicas :
               /\ app[i] \in Digests /\ IsAncestor(app[i], Tip)
               /\ Len(app[i]) > 0 => Len(app[i]) + 3 <= Len(Tip)
<1>1. Typed /\ Fitting BY DEF IInv
<1>2. \A i \in Replicas :
         /\ app[i] \in Digests /\ IsAncestor(app[i], Tip)
         /\ Len(app[i]) > 0 => Len(app[i]) + 3 <= Len(Tip)
  BY <1>1 DEF Typed, ExecutionTypeOK, Fitting, Fit, Follows, Fields
<1>3. request_num \in [Clients -> Nat]
  BY <1>1, MaxRequestAssumption DEF Typed, ClientTypeOK
<1>4. QED BY <1>1, <1>2, <1>3, TipType DEF Typed

\* The same after a step.
LEMMA AppsTypeNext ==
  ASSUME IInv'
  PROVE  /\ Tip' \in Digests
         /\ \A i \in Replicas : app'[i] \in Digests /\ IsAncestor(app'[i], Tip')
<1>1. Typed' /\ Fitting' BY DEF IInv
<1>2. \A i \in Replicas : app'[i] \in Digests /\ IsAncestor(app'[i], Tip')
  BY <1>1 DEF Typed, ExecutionTypeOK, Fitting, Fit, Follows, Fields
<1>3. QED BY <1>1, <1>2, TipType

\* A replica that has inserted the whole chain has executed all that any other
\* has.
LEMMA FullExecuted ==
  ASSUME NEW t \in Digests, NEW s, Follows(s, t), s.app \in Digests,
         NEW h \in Nat, Steady(s, t, h), t \in s.generics,
         NEW a \in Digests, IsAncestor(a, t), Len(a) > 0 => Len(a) + 3 <= Len(t)
  PROVE  IsAncestor(a, s.app)
<1>1. IsAncestor(t, t) BY AncestorReflexive DEF Digests
<1>2. h = Len(t) BY <1>1, HoldsChain
<1>3. /\ Len(a) \in Nat /\ Len(t) \in Nat
      /\ Len(s.app) = IF Len(t) > 3 THEN Len(t) - 3 ELSE 0
  BY <1>2, LenProperties DEF Steady, Digests
<1>4. Len(a) <= Len(s.app) BY <1>3
<1>5. IsAncestor(s.app, t) BY DEF Follows
<1>6. QED BY <1>4, <1>5, AncestorsOfOne DEF Digests

\* So has the primary, before a step ...
LEMMA FullPrimary ==
  ASSUME IInv, OInv({Primary}), Tip \in generics[Primary], NEW i \in Replicas
  PROVE  IsAncestor(app[i], app[Primary])
<1>1. PICK s : s = Fields(Primary) OBVIOUS
<1>2. PICK t : t = Tip OBVIOUS
<1>3. /\ s.app = app[Primary] /\ s.generics = generics[Primary] BY <1>1 DEF Fields
<1>4. Follows(s, t) BY <1>1, <1>2, PrimaryAssumption DEF IInv, Fitting, Fit
<1>5. PICK h \in Nat : Steady(s, t, h)
  BY <1>1, <1>2 DEF OInv, Once, Orderly
<1>6. /\ t \in Digests /\ s.app \in Digests /\ app[i] \in Digests
      /\ IsAncestor(app[i], t)
      /\ Len(app[i]) > 0 => Len(app[i]) + 3 <= Len(t)
  BY <1>2, <1>3, AppsType, PrimaryAssumption
<1>7. PICK a : a = app[i] OBVIOUS
<1>8. t \in s.generics BY <1>2, <1>3
<1>9. IsAncestor(a, s.app) BY <1>4, <1>5, <1>6, <1>7, <1>8, FullExecuted
<1>10. QED BY <1>3, <1>7, <1>9

\* ... and after it.
LEMMA FullPrimaryNext ==
  ASSUME IInv', OInv({Primary})', (Tip \in generics[Primary])', NEW i \in Replicas
  PROVE  IsAncestor(app'[i], app'[Primary])
<1>1. PICK s : s = Fields(Primary)' OBVIOUS
<1>2. PICK t : t = Tip' OBVIOUS
<1>3. PICK a : a = app'[i] OBVIOUS
<1>4. s.app = app'[Primary] /\ s.generics = generics'[Primary] BY <1>1 DEF Fields
<1>5. Typed' /\ Fitting' BY DEF IInv
<1>6. Follows(s, t) BY <1>1, <1>2, <1>5, PrimaryAssumption DEF Fitting, Fit
<1>7. PICK h \in Nat : Steady(s, t, h)
  BY <1>1, <1>2 DEF OInv, Once, Orderly
<1>8. /\ t \in Digests /\ s.app \in Digests /\ a \in Digests
      /\ IsAncestor(a, t)
  BY <1>2, <1>3, <1>4, AppsTypeNext, PrimaryAssumption
<1>9. Len(a) > 0 => Len(a) + 3 <= Len(t)
  BY <1>2, <1>3, <1>5 DEF Fitting, Fit, Follows, Fields
<1>10. t \in s.generics BY <1>2, <1>4
<1>11. IsAncestor(a, s.app) BY <1>6, <1>7, <1>8, <1>9, <1>10, FullExecuted
<1>12. QED BY <1>3, <1>4, <1>11

\* A request in flight follows what its client no longer waits for, which is
\* in every log that extends all replicas' logs.
LEMMA SentSucceeds ==
  ASSUME IInv, Invoked, Answered, NEW a \in Digests,
         \A i \in Replicas : IsAncestor(app[i], a),
         NEW x \in net, x.to = Primary
  PROVE  Succeeds(x.msg, a)
<1>1. PICK m : m = x.msg OBVIOUS
<1>2. SUFFICES ASSUME m.kind = "Request", NEW n \in 1..m.num - 1
               PROVE  InBlock(Request(m.client, n), a)
  BY <1>1 DEF Succeeds
<1>3. m \in RequestMsgs
  <2>1. x \in Datagrams(Msgs) BY NetTypeDef DEF IInv, Typed
  <2>2. m \in Msgs \cup ReplyMsgs BY <1>1, <2>1 DEF Datagrams
  <2>3. QED BY <1>2, <2>2, KindsOfOwn
<1>4. m.client \in Clients /\ m.num \in Nat BY <1>3 DEF RequestMsgs
<1>5. m.num <= request_num[m.client] BY <1>1, <1>2 DEF Invoked
<1>6. request_num[m.client] \in Nat BY <1>4, AppsType
<1>7. n \in 1..request_num[m.client] /\ n < request_num[m.client]
  BY <1>2, <1>4, <1>5, <1>6
<1>8. PICK i \in Replicas : InBlock(Request(m.client, n), app[i])
  BY <1>4, <1>7 DEF Answered
<1>9. app[i] \in Digests /\ IsAncestor(app[i], a) BY AppsType
<1>10. QED BY <1>8, <1>9, InBlockKept

\* What was answered stays so.
LEMMA AnsweredStill ==
  ASSUME IInv, IInv', Answered, AppsGrow, UNCHANGED <<request_num, invoke>>
  PROVE  Answered'
<1>1. ASSUME NEW c \in Clients, NEW n \in 1..request_num[c],
             n < request_num[c] \/ ~invoke[c]
      PROVE  \E i \in Replicas : InBlock(Request(c, n), app'[i])
  <2>1. PICK i \in Replicas : InBlock(Request(c, n), app[i])
    BY <1>1 DEF Answered
  <2>2. app[i] \in Digests /\ app'[i] \in Digests BY AppsType, AppsTypeNext
  <2>3. IsAncestor(app[i], app'[i]) BY DEF AppsGrow
  <2>4. InBlock(Request(c, n), app'[i]) BY <2>1, <2>2, <2>3, InBlockKept
  <2>5. QED BY <2>4
<1>2. QED BY <1>1 DEF Answered

\* A step that neither accepts nor proposes a request.
LEMMA AcceptedKept ==
  ASSUME IInv, IInv', RequestsOnce, Latest, Invoked,
         requests' = requests, Tip' = Tip, request_num' = request_num,
         IsAncestor(app[Primary], app'[Primary]),
         \A c \in Clients : replied'[Primary][c].num = replied[Primary][c].num,
         NEW out, net' \subseteq net \cup out,
         \A x \in out : x.to = Primary => x.msg.kind /= "Request"
  PROVE  RequestsOnce' /\ Latest' /\ Invoked'
<1>1. RequestsOnce' BY DEF RequestsOnce
<1>2. Invoked' BY DEF Invoked
<1>3. PICK t : t = Tip OBVIOUS
<1>4. PICK queue : queue = requests OBVIOUS
<1>5. /\ \A q \in Items(queue) : q.client \in Clients
      /\ \A h \in 1..Len(t) : \A q \in Items(t[h]) : q.client \in Clients
  <2>1. queue \in Seq(RequestRecords) /\ t \in Digests BY <1>3, <1>4, AppsType
  <2>2. QED BY <2>1, PlacedType DEF RequestRecords
<1>6. /\ Len(app[Primary]) \in Nat /\ Len(app'[Primary]) \in Nat
      /\ Len(app[Primary]) <= Len(app'[Primary]) /\ Len(t) \in Nat
  BY <1>3, AppsType, AppsTypeNext, PrimaryAssumption, LenProperties
  DEF Digests, IsAncestor
<1>7. PICK R : R = replied[Primary] OBVIOUS
<1>8. PICK U : U = replied'[Primary] OBVIOUS
<1>9. LatestIn(R, queue, t, Len(app[Primary])) BY <1>3, <1>4, <1>7 DEF Latest
<1>10. LatestIn(U, queue, t, Len(app'[Primary]))
  BY <1>5, <1>6, <1>7, <1>8, <1>9 DEF LatestIn
<1>11. Latest' BY <1>3, <1>4, <1>8, <1>10 DEF Latest
<1>12. QED BY <1>1, <1>2, <1>11

\* So do those that overtake, as messages leave the channel.
LEMMA OvertakesKept ==
  ASSUME IInv, IInv', Overtakes, IsAncestor(app[Primary], app'[Primary]),
         \A k \in 1..Len(loopback'[Primary]) : \E j \in 1..Len(loopback[Primary]) :
            loopback'[Primary][k].before = loopback[Primary][j].before
  PROVE  Overtakes'
<1>1. app[Primary] \in Digests /\ app'[Primary] \in Digests
  BY AppsType, AppsTypeNext, PrimaryAssumption
<1>2. ASSUME NEW m, Succeeds(m, app[Primary]) PROVE Succeeds(m, app'[Primary])
  BY <1>1, <1>2, InBlockKept DEF Succeeds
<1>3. QED BY <1>2 DEF Overtakes

\* Whatever changes neither the requests nor what is noted of them.
LEMMA QuietRequests ==
  ASSUME IInv, IInv', RInv, AppsGrow,
         requests' = requests, Tip' = Tip, request_num' = request_num,
         invoke' = invoke,
         \A c \in Clients : replied'[Primary][c].num = replied[Primary][c].num,
         NEW out, net' \subseteq net \cup out,
         \A x \in out : x.to = Primary => x.msg.kind /= "Request",
         \A k \in 1..Len(loopback'[Primary]) : \E j \in 1..Len(loopback[Primary]) :
            loopback'[Primary][k].before = loopback[Primary][j].before
  PROVE  RInv'
<1>1. IsAncestor(app[Primary], app'[Primary]) BY PrimaryAssumption DEF AppsGrow
<1>2. RequestsOnce /\ Latest /\ Invoked /\ Overtakes /\ Answered BY DEF RInv
<1>3. RequestsOnce' /\ Latest' /\ Invoked' BY <1>1, <1>2, AcceptedKept
<1>4. Overtakes' BY <1>1, <1>2, OvertakesKept
<1>5. Answered' BY <1>2, AnsweredStill
<1>6. QED BY <1>3, <1>4, <1>5 DEF RInv

\* Logs that do not change are not cut.
LEMMA AppsGrowNot ==
  ASSUME IInv, app' = app
  PROVE  AppsGrow
BY AppsType, AncestorReflexive DEF AppsGrow, Digests

\* Requests on their way are typed.
LEMMA RequestType ==
  ASSUME IInv, NEW x \in net, x.msg.kind = "Request"
  PROVE  x.msg \in RequestMsgs /\ x.msg.client \in Clients /\ x.msg.num \in Nat \ {0}
<1>1. PICK m : m = x.msg OBVIOUS
<1>2. x \in Datagrams(Msgs) BY NetTypeDef DEF IInv, Typed
<1>3. m \in Msgs \cup ReplyMsgs BY <1>1, <1>2 DEF Datagrams
<1>4. m \in RequestMsgs BY <1>1, <1>3, KindsOfOwn
<1>5. m.client \in Clients /\ m.num \in Nat \ {0}
  BY <1>4, MaxRequestAssumption DEF RequestMsgs
<1>6. QED BY <1>1, <1>4, <1>5

\* invoke sends a request that is nowhere yet.
LEMMA InvokeRequests ==
  ASSUME IInv, IInv', RInv, NEW c \in Clients, Invoke(c)
  PROVE  RInv' /\ AppsGrow
<1>1. PICK nums : nums = request_num OBVIOUS
<1>2. PICK n : n = nums[c] + 1 OBVIOUS
<1>3. nums \in [Clients -> Nat] /\ nums[c] \in Nat BY <1>1, AppsType
<1>4. /\ request_num' = [nums EXCEPT ![c] = n] /\ ~invoke[c]
      /\ invoke' = [invoke EXCEPT ![c] = TRUE]
      /\ net' = net \cup SendTo(Live, RequestMsg(c, n))
      /\ loopback' = loopback
      /\ UNCHANGED <<executeVars, primaryVars, replied>>
  BY <1>1, <1>2 DEF Invoke, ClientInvoke, ClientSends
<1>5. Tip' = Tip /\ requests' = requests /\ app' = app
  BY <1>4 DEF executeVars, primaryVars, Tip
<1>6. AppsGrow BY <1>5, AppsGrowNot
<1>7. RequestsOnce /\ Latest /\ Invoked /\ Overtakes /\ Answered BY DEF RInv
<1>8. RequestsOnce'
  <2>1. PICK sent : sent = {} OBVIOUS
  <2>2. OnePlace(sent, requests, Tip, nums) BY <1>1, <1>7, <2>1 DEF RequestsOnce
  <2>3. /\ requests \in Seq(RequestRecords) /\ Tip \in Digests
        /\ \A m \in sent : m.kind = "Request" => m \in RequestMsgs
        /\ \A m \in sent : m.kind = "Request" =>
              m \in sent \/ m = RequestMsg(c, n)
    BY <2>1, AppsType
  <2>4. OnePlace(sent, requests, Tip, [nums EXCEPT ![c] = n])
    BY <1>2, <1>3, <2>2, <2>3, PlacedInvoke
  <2>5. QED BY <1>4, <1>5, <2>1, <2>4 DEF RequestsOnce
<1>9. Latest' BY <1>4, <1>5, <1>7 DEF Latest
<1>10. Invoked'
  <2>1. SUFFICES ASSUME NEW x \in net', x.to = Primary, x.msg.kind = "Request"
                 PROVE  x.msg.num <= request_num'[x.msg.client]
    BY DEF Invoked
  <2>2. CASE x \in net
    <3>1. x.msg.client \in Clients /\ x.msg.num \in Nat BY <2>1, <2>2, RequestType
    <3>2. x.msg.num <= nums[x.msg.client] BY <1>1, <1>7, <2>1, <2>2 DEF Invoked
    <3>3. nums[x.msg.client] <= request_num'[x.msg.client]
          /\ nums[x.msg.client] \in Nat /\ request_num'[x.msg.client] \in Nat
      BY <1>2, <1>3, <1>4, <3>1
    <3>4. QED BY <3>1, <3>2, <3>3
  <2>3. CASE x \in SendTo(Live, RequestMsg(c, n))
    <3>1. x.msg.num = n /\ x.msg.client = c
      BY <2>3 DEF SendTo, Datagram, RequestMsg
    <3>2. request_num'[c] = n /\ n \in Nat BY <1>2, <1>3, <1>4
    <3>3. QED BY <3>1, <3>2
  <2>4. QED BY <1>4, <2>1, <2>2, <2>3
<1>11. Overtakes' BY <1>4, <1>5, <1>7 DEF Overtakes
<1>12. Answered'
  <2>1. SUFFICES ASSUME NEW b \in Clients, NEW k \in 1..request_num'[b],
                        k < request_num'[b] \/ ~invoke'[b]
                 PROVE  \E i \in Replicas : InBlock(Request(b, k), app[i])
    BY <1>5 DEF Answered
  <2>2. invoke \in [Clients -> BOOLEAN] BY DEF IInv, Typed, ClientTypeOK
  <2>3. CASE b = c
    <3>1. invoke'[b] /\ request_num'[b] = nums[c] + 1
      BY <1>2, <1>3, <1>4, <2>2, <2>3
    <3>2. k \in 1..nums[b] /\ ~invoke[b] BY <1>3, <1>4, <2>1, <2>3, <3>1
    <3>3. QED BY <1>1, <1>7, <3>2 DEF Answered
  <2>4. CASE b /= c
    <3>1. invoke'[b] = invoke[b] /\ request_num'[b] = nums[b]
      BY <1>3, <1>4, <2>2, <2>4
    <3>2. QED BY <1>1, <1>7, <2>1, <3>1 DEF Answered
  <2>5. QED BY <2>3, <2>4
<1>13. QED BY <1>6, <1>8, <1>9, <1>10, <1>11, <1>12 DEF RInv

\* handle: what completes an invocation some replica has executed.
LEMMA HandleReplyRequests ==
  ASSUME IInv, IInv', Served, RInv, NEW c \in Clients, NEW m, HandleReply(c, m)
  PROVE  RInv' /\ AppsGrow
<1>1. /\ ClientHandle(c, m) /\ UNCHANGED <<executeVars, primaryVars, replied>>
      /\ net' \subseteq net /\ loopback' = loopback
  BY DEF HandleReply, ClientHandle, ClientReceives, Flight
<1>2. Tip' = Tip /\ requests' = requests /\ app' = app
  BY <1>1 DEF executeVars, primaryVars, Tip
<1>3. AppsGrow BY <1>2, AppsGrowNot
<1>4. PICK t : t = Tip OBVIOUS
<1>5. t \in Digests
      /\ \A i \in Replicas : app[i] \in Digests /\ IsAncestor(app[i], t)
  BY <1>4, AppsType
<1>6. PICK log : log = Log OBVIOUS
<1>7. Responded(c, log) \/ UNCHANGED <<request_num, invoke, results>>
  <2>1. NetTypeOK(Msgs, OwnMessages) BY DEF IInv, Typed
  <2>2. QED BY <1>1, <1>5, <1>6, <2>1, HandleResponds
<1>8. request_num' = request_num BY <1>7 DEF Responded
<1>9. PICK out : out = {} OBVIOUS
<1>10. /\ net' \subseteq net \cup out
       /\ \A x \in out : x.to = Primary => x.msg.kind /= "Request"
  BY <1>1, <1>9
<1>11. CASE UNCHANGED <<request_num, invoke, results>>
  <2>1. RInv' BY <1>1, <1>2, <1>3, <1>10, <1>11, QuietRequests
  <2>2. QED BY <1>3, <2>1
<1>12. CASE Responded(c, log)
  <2>1. RequestsOnce /\ Latest /\ Invoked /\ Overtakes /\ Answered BY DEF RInv
  <2>2. IsAncestor(app[Primary], app'[Primary])
    BY <1>3, PrimaryAssumption DEF AppsGrow
  <2>3. RequestsOnce' /\ Latest' /\ Invoked'
    BY <1>1, <1>2, <1>8, <1>10, <2>1, <2>2, AcceptedKept
  <2>4. Overtakes' BY <1>1, <1>2, <2>1 DEF Overtakes
  <2>5. PICK nums : nums = request_num OBVIOUS
  <2>6. nums \in [Clients -> Nat] BY <2>5, AppsType
  <2>7. PICK i \in Replicas : log = app[i]
    BY <1>5, <1>6, LogIs, LogTells
  <2>8. InBlock(Request(c, nums[c]), app[i])
    BY <1>12, <2>5, <2>7 DEF Responded, AnsweredIn, InBlock, Items
  <2>9. invoke' = [invoke EXCEPT ![c] = FALSE] BY <1>12 DEF Responded
  <2>10. Answered'
    <3>1. SUFFICES ASSUME NEW b \in Clients, NEW k \in 1..nums[b],
                          k < nums[b] \/ ~invoke'[b]
                   PROVE  \E j \in Replicas : InBlock(Request(b, k), app[j])
      BY <1>2, <1>8, <2>5 DEF Answered
    <3>2. CASE k < nums[b] BY <2>1, <2>5, <3>2 DEF Answered
    <3>3. CASE b /= c
      <4>1. invoke'[b] = invoke[b] BY <2>9, <3>3
      <4>2. QED BY <2>1, <2>5, <3>1, <4>1 DEF Answered
    <3>4. CASE b = c /\ ~(k < nums[b])
      <4>1. k = nums[c] BY <2>6, <3>4
      <4>2. QED BY <2>8, <3>4, <4>1
    <3>5. QED BY <3>2, <3>3, <3>4
  <2>11. QED BY <1>3, <2>3, <2>4, <2>10 DEF RInv
<1>13. QED BY <1>7, <1>11, <1>12

\* What reaches the primary follows what it has executed: if none of its own
\* messages waits, it has executed all, and else the request has overtaken one.
LEMMA RequestSucceeds ==
  ASSUME IInv, OInv({Primary}), RInv, NEW m, Arrived(Primary, m)
  PROVE  Succeeds(m, app[Primary])
<1>1. loopback \in [Replicas -> Seq(OwnEntries(Msgs, OwnMessages))]
  BY NetTypeDef DEF IInv, Typed
<1>2. PICK q : q = loopback[Primary] OBVIOUS
<1>3. q \in Seq(OwnEntries(Msgs, OwnMessages)) BY <1>1, <1>2, PrimaryAssumption
<1>4. CASE q = <<>>
  <2>1. Len(q) = 0 BY <1>4, EmptySeq
  <2>2. OwnIn(q, generics[Primary], Tip) BY <1>2 DEF OInv
  <2>3. Tip \in generics[Primary] BY <2>1, <2>2 DEF OwnIn
  <2>4. PICK a : a = app[Primary] OBVIOUS
  <2>5. \A i \in Replicas : IsAncestor(app[i], a) BY <2>3, <2>4, FullPrimary
  <2>6. PICK x \in net : x.to = Primary /\ x.msg = m BY DEF Arrived, Datagram
  <2>7. a \in Digests BY <2>4, AppsType, PrimaryAssumption
  <2>8. QED BY <2>4, <2>5, <2>6, <2>7, SentSucceeds DEF RInv
<1>5. CASE q /= <<>>
  <2>1. Head(q) = q[1] /\ 1 \in 1..Len(q)
    <3>1. Len(q) \in Nat /\ Len(q) /= 0 BY <1>3, <1>5, LenProperties, EmptySeq
    <3>2. QED BY <1>3, <3>1
  <2>2. m \in q[1].before BY <1>2, <1>5, <2>1 DEF Arrived
  <2>3. QED BY <1>2, <2>1, <2>2 DEF RInv, Overtakes
<1>6. QED BY <1>4, <1>5

\* So a request that the primary accepts finds its client's last one executed.
LEMMA RequestTaken ==
  ASSUME IInv, OInv({Primary}), RInv, NEW m \in RequestMsgs,
         Arrived(Primary, m), ~Known(Primary, m),
         requests' = Append(requests, Request(m.client, m.num)),
         replied' = [replied EXCEPT ![Primary][m.client] =
                        [num |-> m.num, reply |-> {}]],
         Tip' = Tip, UNCHANGED <<request_num, app>>
  PROVE  RequestsOnce' /\ Latest'
<1>1. PICK c : c = m.client OBVIOUS
<1>2. PICK n : n = m.num OBVIOUS
<1>3. PICK q : q = Request(c, n) OBVIOUS
<1>4. PICK a : a = app[Primary] OBVIOUS
<1>5. PICK t : t = Tip OBVIOUS
<1>6. PICK queue : queue = requests OBVIOUS
<1>7. PICK R : R = replied[Primary] OBVIOUS
<1>8. /\ c \in Clients /\ n \in Nat \ {0} /\ m.kind = "Request"
      /\ q.client = c /\ q.num = n
  BY <1>1, <1>2, <1>3, MaxRequestAssumption DEF RequestMsgs, Request
<1>9. /\ R \in Replied /\ replied \in [Replicas -> Replied]
      /\ R[c].num \in Nat /\ R[c].num < n
  <2>1. replied \in [Replicas -> Replied] BY DEF IInv, Typed
  <2>2. R \in Replied BY <1>7, <2>1, PrimaryAssumption
  <2>3. R[c].num \in Nat BY <1>8, <2>2, MaxRequestAssumption DEF Replied
  <2>4. ~(R[c].num >= n) BY <1>1, <1>2, <1>7 DEF Known
  <2>5. QED BY <1>8, <2>1, <2>2, <2>3, <2>4
<1>10. /\ queue \in Seq(RequestRecords) /\ t \in Digests /\ a \in Digests
       /\ IsAncestor(a, t)
  BY <1>4, <1>5, <1>6, AppsType, PrimaryAssumption
<1>11. /\ Len(a) \in Nat /\ Len(t) \in Nat /\ Len(a) <= Len(t)
       /\ \A h \in 1..Len(a) : h \in 1..Len(t) /\ a[h] = t[h]
  BY <1>10, AncestorDef, LenProperties DEF Digests
<1>12. OnePlace({}, queue, t, request_num) BY <1>5, <1>6 DEF RInv, RequestsOnce
<1>13. LatestIn(R, queue, t, Len(a)) BY <1>4, <1>5, <1>6, <1>7 DEF RInv, Latest
<1>14. /\ \A p \in Items(queue) : p \in RequestRecords
       /\ \A h \in 1..Len(t) : \A p \in Items(t[h]) : p \in RequestRecords
  BY <1>10, PlacedType
<1>15. q \notin Items(queue) /\ ~InBlock(q, t)
  BY <1>8, <1>9, <1>11, <1>13 DEF LatestIn, InBlock
<1>16. Used(q, request_num)
  <2>1. PICK x \in net : x.to = Primary /\ x.msg = m BY DEF Arrived, Datagram
  <2>2. m.num <= request_num[m.client] BY <1>8, <2>1 DEF RInv, Invoked
  <2>3. QED BY <1>1, <1>2, <1>8, <2>2 DEF Used
<1>17. PICK new : new = {} OBVIOUS
<1>18. PICK sent : sent = {m} OBVIOUS
<1>19. OnePlace(sent, queue, t, request_num)
  BY <1>1, <1>2, <1>3, <1>12, <1>15, <1>16, <1>18 DEF OnePlace
<1>20. OnePlace(new, Append(queue, q), t, request_num)
  BY <1>1, <1>2, <1>3, <1>8, <1>10, <1>17, <1>18, <1>19, PlacedReceive
<1>21. RequestsOnce'
  BY <1>1, <1>2, <1>3, <1>5, <1>6, <1>17, <1>20 DEF RequestsOnce
<1>22. ASSUME NEW p \in RequestRecords, p.client = c, p.num <= R[c].num
       PROVE  InBlock(p, a)
  <2>1. p.num \in Nat \ {0} BY MaxRequestAssumption DEF RequestRecords
  <2>2. p.num \in 1..n - 1 BY <1>8, <1>9, <1>22, <2>1
  <2>3. p = Request(c, p.num) BY <1>22 DEF RequestRecords, Request
  <2>4. Succeeds(m, a) BY <1>4, RequestSucceeds
  <2>5. QED BY <1>1, <1>2, <1>8, <2>2, <2>3, <2>4 DEF Succeeds
<1>23. ASSUME NEW p \in Items(queue) PROVE p.client /= c /\ p.client \in Clients
  <2>1. p \in RequestRecords /\ p.client \in Clients
    BY <1>14 DEF RequestRecords
  <2>2. SUFFICES ASSUME p.client = c PROVE FALSE BY <2>1
  <2>3. p.num <= R[c].num BY <1>9, <1>13, <2>2 DEF LatestIn
  <2>4. InBlock(p, a) BY <1>22, <2>1, <2>2, <2>3
  <2>5. InBlock(p, t) BY <1>10, <2>4, InBlockKept
  <2>6. QED BY <1>12, <2>5 DEF OnePlace
<1>24. ASSUME NEW h \in 1..Len(t), h > Len(a), NEW p \in Items(t[h])
       PROVE  p.client /= c
  <2>1. SUFFICES ASSUME p.client = c PROVE FALSE OBVIOUS
  <2>2. p \in RequestRecords BY <1>14
  <2>3. p.num <= R[c].num BY <1>13, <2>1 DEF LatestIn
  <2>4. PICK k \in 1..Len(a) : p \in Items(a[k])
    BY <1>22, <2>1, <2>2, <2>3 DEF InBlock
  <2>5. k \in 1..Len(t) /\ p \in Items(t[k]) /\ k /= h BY <1>11, <1>24, <2>4
  <2>6. PICK i \in 1..Len(t[h]) : t[h][i] = p BY DEF Items
  <2>7. PICK j \in 1..Len(t[k]) : t[k][j] = p BY <2>5 DEF Items
  <2>8. Listed(t, request_num) BY <1>12 DEF OnePlace
  <2>9. QED BY <2>5, <2>6, <2>7, <2>8 DEF Listed
<1>25. PICK U : U = replied'[Primary] OBVIOUS
<1>26. U[c].num = n /\ \A b \in Clients : b /= c => U[b] = R[b]
  BY <1>1, <1>2, <1>7, <1>8, <1>9, <1>25, PrimaryAssumption DEF Replied
<1>27. Items(Append(queue, q)) = Items(queue) \cup {q}
  <2>1. q \in RequestRecords BY <1>1, <1>2, <1>3 DEF RequestMsgs, RequestRecords, Request
  <2>2. QED BY <1>10, <2>1, ItemsOfAppend
<1>28. LatestIn(U, Append(queue, q), t, Len(a))
  <2>1. ASSUME NEW p \in Items(Append(queue, q)) PROVE p.num = U[p.client].num
    BY <1>8, <1>13, <1>23, <1>26, <1>27, <2>1 DEF LatestIn
  <2>2. ASSUME NEW h \in 1..Len(t), NEW p \in Items(t[h])
        PROVE  /\ p.num <= U[p.client].num
               /\ h > Len(a) => p.num = U[p.client].num
    <3>1. p \in RequestRecords BY <1>14
    <3>2. p.client \in Clients /\ p.num \in Nat
      BY <3>1, MaxRequestAssumption DEF RequestRecords
    <3>3. p.num <= R[p.client].num BY <1>13 DEF LatestIn
    <3>4. CASE p.client = c
      BY <1>8, <1>9, <1>24, <1>26, <3>2, <3>3, <3>4
    <3>5. CASE p.client /= c BY <1>13, <1>26, <3>2, <3>5 DEF LatestIn
    <3>6. QED BY <3>4, <3>5
  <2>3. QED BY <2>1, <2>2 DEF LatestIn
<1>29. Latest' BY <1>1, <1>2, <1>3, <1>4, <1>5, <1>6, <1>25, <1>28 DEF Latest
<1>30. QED BY <1>21, <1>29

\* handle_request, at any replica, of a request it knows or not.
LEMMA HandleRequestRequests ==
  ASSUME IInv, IInv', OInv({Primary}), RInv,
         NEW r \in Live, NEW m, HandleRequest(r, m)
  PROVE  RInv' /\ AppsGrow
<1>1. Typed /\ r \in Replicas /\ replied \in [Replicas -> Replied]
  BY LiveAssumption DEF IInv, Typed
<1>2. m \in RequestMsgs /\ Arrived(r, m)
  BY <1>1, MessagesType, KindsOfOwn DEF HandleRequest
<1>3. PICK out : out = IF Known(r, m) THEN Resent(r, m) ELSE {} OBVIOUS
<1>4. HandleDatagram(r, m, out, <<>>) BY <1>3 DEF HandleRequest
<1>5. net' \subseteq net \cup out BY <1>4, HandlerSends
<1>6. loopback' = loopback BY <1>1, <1>4, QuietChannel
<1>7. \A x \in out : x.to /= Primary
  BY <1>1, <1>2, <1>3, ResentType, PrimaryAssumption, ClientsAssumption
  DEF RequestMsgs
<1>8. Tip' = Tip /\ app' = app /\ request_num' = request_num /\ invoke' = invoke
  BY DEF HandleRequest, executeVars, clientVars, Tip
<1>9. AppsGrow BY <1>8, AppsGrowNot
<1>10. CASE Known(r, m) \/ r /= Primary
  <2>1. requests' = requests BY <1>10 DEF HandleRequest
  <2>2. replied'[Primary] = replied[Primary]
    BY <1>1, <1>10, PrimaryAssumption DEF HandleRequest
  <2>3. RInv' BY <1>5, <1>6, <1>7, <1>8, <1>9, <2>1, <2>2, QuietRequests
  <2>4. QED BY <1>9, <2>3
<1>11. CASE ~Known(r, m) /\ r = Primary
  <2>1. /\ requests' = Append(requests, Request(m.client, m.num))
        /\ replied' = [replied EXCEPT ![Primary][m.client] =
                          [num |-> m.num, reply |-> {}]]
    BY <1>11 DEF HandleRequest
  <2>2. RequestsOnce' /\ Latest'
    BY <1>2, <1>8, <1>11, <2>1, RequestTaken
  <2>3. Invoked' BY <1>5, <1>7, <1>8 DEF RInv, Invoked
  <2>4. Overtakes' BY <1>6, <1>8 DEF RInv, Overtakes
  <2>5. Answered' BY <1>8 DEF RInv, Answered
  <2>6. QED BY <1>9, <2>2, <2>3, <2>4, <2>5 DEF RInv
<1>12. QED BY <1>10, <1>11

\* A block takes what waits, or nothing, and what may then overtake it the
\* primary has executed the predecessors of.
LEMMA OnPaceRequests ==
  ASSUME IInv, IInv', OInv({Primary}), RInv, NEW r \in Live, OnPace(r)
  PROVE  RInv' /\ AppsGrow
<1>1. Typed /\ Fitting /\ r \in Replicas BY LiveAssumption DEF IInv
<1>2. PICK t : t = Tip OBVIOUS
<1>3. /\ r = Primary /\ t \in Digests /\ Len(t) \in Nat
      /\ digest_certified[r] = t
  BY <1>2, Proposes
<1>4. PICK next \in Chains : \E d \in Digests :
        /\ next = Propose(chain[r], requests) /\ next.digest_parent = d
        /\ Pace(r, SendTo(Peers(r), GenericMsg(d)), <<GenericMsg(d)>>)
        /\ requests' = Drained(requests)
        /\ Tip' = d
        /\ Len(d) = Len(t) + 1
  BY <1>2, Proposes
<1>5. PICK d \in Digests :
        /\ next = Propose(chain[r], requests) /\ next.digest_parent = d
        /\ Pace(r, SendTo(Peers(r), GenericMsg(d)), <<GenericMsg(d)>>)
        /\ requests' = Drained(requests)
        /\ Tip' = d
        /\ Len(d) = Len(t) + 1
  BY <1>4
<1>6. PICK ch : ch = chain[r] OBVIOUS
<1>7. PICK queue : queue = requests OBVIOUS
<1>8. /\ ch \in Chains /\ queue \in Seq(RequestRecords) /\ ch.digest_parent = t
      /\ next = Propose(ch, queue)
  BY <1>1, <1>2, <1>3, <1>5, <1>6, <1>7 DEF Typed, ExecutionTypeOK, Tip
<1>9. /\ app' = app /\ replied' = replied /\ request_num' = request_num
      /\ invoke' = invoke
  BY DEF OnPace, clientVars
<1>10. AppsGrow BY <1>9, AppsGrowNot
<1>11. OnePlace({}, queue, t, request_num)
  BY <1>2, <1>7 DEF RInv, RequestsOnce
<1>12. RequestsOnce'
  <2>1. PICK sent : sent = {} OBVIOUS
  <2>2. OnePlace(sent, queue, ch.digest_parent, request_num)
    BY <1>8, <1>11, <2>1
  <2>3. OnePlace(sent, Drained(queue), next.digest_parent, request_num)
    BY <1>8, <2>2, PlacedPropose
  <2>4. QED BY <1>5, <1>7, <1>9, <2>1, <2>3 DEF RequestsOnce
<1>13. Latest'
  <2>1. \A k, l \in 1..Len(queue) : queue[k] = queue[l] => k = l
    BY <1>11 DEF OnePlace
  <2>2. /\ \A h \in 1..Len(t) : d[h] = t[h]
        /\ Items(d[Len(d)]) \subseteq Items(queue)
        /\ Items(Drained(queue)) \subseteq Items(queue)
    BY <1>5, <1>8, <2>1, ProposeSplits
  <2>3. PICK R : R = replied[Primary] OBVIOUS
  <2>4. PICK n : n = Len(app[Primary]) OBVIOUS
  <2>5. LatestIn(R, queue, t, n) BY <1>2, <1>7, <2>3, <2>4 DEF RInv, Latest
  <2>6. ASSUME NEW q \in Items(queue) PROVE q.num \in Nat
    <3>1. q \in RequestRecords BY <1>3, <1>8, PlacedType
    <3>2. QED BY <3>1, MaxRequestAssumption DEF RequestRecords
  <2>7. ASSUME NEW h \in 1..Len(d), NEW q \in Items(d[h])
        PROVE  q.num <= R[q.client].num /\ (h > n => q.num = R[q.client].num)
    <3>1. CASE h \in 1..Len(t) BY <2>2, <2>5, <2>7, <3>1 DEF LatestIn
    <3>2. CASE h = Len(d)
      <4>1. q \in Items(queue) BY <2>2, <2>7, <3>2
      <4>2. QED BY <2>5, <2>6, <4>1 DEF LatestIn
    <3>3. QED BY <1>3, <1>5, <3>1, <3>2
  <2>8. LatestIn(R, Drained(queue), d, n) BY <2>2, <2>5, <2>7 DEF LatestIn
  <2>9. QED BY <1>5, <1>7, <1>9, <2>3, <2>4, <2>8 DEF Latest
<1>14. PICK m : m = GenericMsg(d) OBVIOUS
<1>15. m.kind = "Generic" /\ m \in OwnMessages
  BY <1>14 DEF GenericMsg, GenericMsgs, OwnMessages
<1>16. PICK out : out = SendTo(Peers(r), m) OBVIOUS
<1>17. Pace(r, out, <<m>>) BY <1>5, <1>14, <1>16
<1>18. net' = net \cup out BY <1>17 DEF Pace
<1>19. \A x \in out : x.msg = m BY <1>16 DEF SendTo, Datagram
<1>20. \A x \in net' : x \in net \/ x.msg.kind /= "Request"
  BY <1>15, <1>18, <1>19
<1>21. Invoked' BY <1>9, <1>20 DEF RInv, Invoked
<1>22. Answered' BY <1>9 DEF RInv, Answered
<1>23. PICK q : q = loopback[r] OBVIOUS
<1>24. PICK u : u = loopback'[r] OBVIOUS
<1>25. /\ Len(q) \in Nat /\ Len(u) = Len(q) + 1
       /\ \A k \in 1..Len(q) : u[k] = q[k]
       /\ u[Len(q) + 1].before = InFlightTo(net', r)
  BY <1>1, <1>15, <1>17, <1>23, <1>24, PaceChannel
<1>26. PICK a : a = app[Primary] OBVIOUS
<1>27. a \in Digests /\ \A i \in Replicas : IsAncestor(app[i], a)
  <2>1. PICK h \in Nat : Steady(Fields(r), t, h)
    BY <1>2, <1>3 DEF OInv, Once, Orderly
  <2>2. t \in generics[r] BY <1>3, <2>1 DEF Steady, Fields
  <2>3. \A i \in Replicas : IsAncestor(app[i], app[Primary])
    BY <1>2, <1>3, <2>2, FullPrimary
  <2>4. QED BY <1>26, <2>3, AppsType, PrimaryAssumption
<1>28. ASSUME NEW y \in InFlightTo(net', r) PROVE Succeeds(y, a)
  <2>1. SUFFICES ASSUME y.kind = "Request" PROVE Succeeds(y, a)
    BY DEF Succeeds
  <2>2. PICK x \in net' : x.to = r /\ x.msg = y BY DEF InFlightTo
  <2>3. x \in net BY <1>20, <2>1, <2>2
  <2>4. QED BY <1>3, <1>27, <2>2, <2>3, SentSucceeds DEF RInv
<1>29. ASSUME NEW k \in 1..Len(u), NEW y \in u[k].before PROVE Succeeds(y, a)
  <2>1. CASE k \in 1..Len(q)
    BY <1>3, <1>23, <1>25, <1>26, <1>29, <2>1 DEF RInv, Overtakes
  <2>2. CASE k = Len(q) + 1 BY <1>25, <1>28, <1>29, <2>2
  <2>3. QED BY <1>25, <2>1, <2>2
<1>30. Overtakes' BY <1>3, <1>9, <1>24, <1>26, <1>29 DEF Overtakes
<1>31. QED
  BY <1>10, <1>12, <1>13, <1>21, <1>22, <1>30 DEF RInv

\* What r executes it notes of requests that were noted already.
LEMMA LoopbackGenericRequests ==
  ASSUME IInv, IInv', OInv({Primary}), OInv({Primary})', RInv,
         NEW r \in Live, LoopbackGeneric(r)
  PROVE  RInv' /\ AppsGrow
<1>1. Typed /\ Fitting /\ r \in Replicas BY LiveAssumption DEF IInv
<1>2. loopback[r] /= <<>> BY DEF LoopbackGeneric
<1>3. r = Primary BY <1>1, <1>2 DEF OInv, ToPrimary
<1>4. PICK t : t = Tip OBVIOUS
<1>5. t \in Digests BY <1>1, <1>4, TipType
<1>6. PICK d : d = Own(r).digest OBVIOUS
<1>7. PICK s : /\ s = InsertAll(r, <<d>>) /\ Becomes(r, s)
               /\ HandleLoopback(r, s.replies, s.votes)
               /\ UNCHANGED <<clientVars, primaryVars>>
  BY <1>6 DEF LoopbackGeneric
<1>8. Fit(s, r, t) /\ Grows(Fields(r), s, t)
  BY <1>4, <1>6, <1>7, LoopbackInserts
<1>9. s \in ReplicaFields BY <1>8 DEF Fit
<1>10. (\A i \in Replicas : i /= r => Fields(i)' = Fields(i))
       /\ Fields(r)' = Kept(s)
  BY <1>1, <1>7, <1>9, BecomesFields
<1>11. /\ app'[r] = s.app /\ replied'[r] = s.replied
       /\ chain'[r].digest_parent = s.chain.digest_parent
  BY <1>10 DEF Fields, Kept
<1>12. Tip' = t BY <1>3, <1>4, <1>8, <1>11 DEF Grows, Fields, Tip
<1>13. \A i \in Replicas : i /= r => app'[i] = app[i] BY <1>10 DEF Fields
<1>14. AppsGrow
  <2>1. IsAncestor(app[r], app'[r]) BY <1>8, <1>11 DEF Grows, Fields
  <2>2. \A i \in Replicas : IsAncestor(app[i], app[i])
    BY AppsType, AncestorReflexive DEF Digests
  <2>3. QED BY <1>13, <2>1, <2>2 DEF AppsGrow
<1>15. /\ request_num' = request_num /\ invoke' = invoke /\ requests' = requests
  BY <1>7 DEF clientVars, primaryVars
<1>16. /\ s.votes \in Seq(OwnMessages)
       /\ \A x \in s.replies : x.msg.kind = "Reply"
  BY <1>8, InsertedSends
<1>17. PICK out : out = s.replies OBVIOUS
<1>18. net' = net \cup out /\ \A x \in out : x.msg.kind /= "Request"
  BY <1>7, <1>16, <1>17 DEF HandleLoopback
<1>19. \A c \in Clients : replied'[Primary][c].num = replied[Primary][c].num
  <2>1. SUFFICES ASSUME NEW c \in Clients
                 PROVE  s.replied[c].num = replied[r][c].num
    BY <1>3, <1>11
  <2>2. PICK a : a = app[r] OBVIOUS
  <2>3. \/ s.replied[c].num = replied[r][c].num
        \/ \E h \in Len(a) + 1 .. Len(s.app) : \E q \in Items(s.app[h]) :
              q.client = c /\ q.num = s.replied[c].num
    BY <1>8, <2>2 DEF Grows, Updated, Fields
  <2>4. SUFFICES ASSUME NEW h \in Len(a) + 1 .. Len(s.app),
                        NEW q \in Items(s.app[h]),
                        q.client = c, q.num = s.replied[c].num
                 PROVE  s.replied[c].num = replied[r][c].num
    BY <2>3
  <2>5. s.app \in Digests /\ IsAncestor(s.app, t)
    BY <1>8, <1>9 DEF Fit, Follows, ReplicaFields
  <2>6. /\ Len(s.app) \in Nat /\ Len(t) \in Nat /\ Len(s.app) <= Len(t)
        /\ \A k \in 1..Len(s.app) : s.app[k] = t[k]
    BY <1>5, <2>5, AncestorDef, LenProperties DEF Digests
  <2>7. Len(a) \in Nat BY <1>1, <2>2, AppsType, LenProperties DEF Digests
  <2>8. h \in 1..Len(t) /\ h \in 1..Len(s.app) /\ h > Len(a) BY <2>6, <2>7
  <2>9. q \in Items(t[h]) BY <2>6, <2>8
  <2>10. LatestIn(replied[r], requests, t, Len(a))
    BY <1>3, <1>4, <2>2 DEF RInv, Latest
  <2>11. QED BY <2>4, <2>8, <2>9, <2>10 DEF LatestIn
<1>20. IsAncestor(app[Primary], app'[Primary])
  BY <1>14, PrimaryAssumption DEF AppsGrow
<1>21. RequestsOnce /\ Latest /\ Invoked /\ Overtakes /\ Answered BY DEF RInv
<1>22. RequestsOnce' /\ Latest' /\ Invoked'
  <2>1. net' \subseteq net \cup out
        /\ \A x \in out : x.to = Primary => x.msg.kind /= "Request"
    BY <1>18
  <2>2. QED
    BY <1>4, <1>12, <1>15, <1>19, <1>20, <1>21, <2>1, AcceptedKept
<1>23. Answered' BY <1>14, <1>15, <1>21, AnsweredStill
<1>24. PICK q : q = loopback[r] OBVIOUS
<1>25. PICK u : u = loopback'[r] OBVIOUS
<1>26. PICK own : own = s.votes OBVIOUS
<1>27. ChannelMoved(r, q, u, own)
  <2>1. own \in Seq(OwnMessages) /\ HandleLoopback(r, s.replies, own)
    BY <1>7, <1>16, <1>26
  <2>2. QED BY <1>1, <1>2, <1>24, <1>25, <2>1, OwnChannelTail
<1>28. PICK a : a = app'[Primary] OBVIOUS
<1>29. a \in Digests /\ \A i \in Replicas : IsAncestor(app[i], a)
  <2>1. OInv({Primary})' /\ (Tip \in generics[Primary])'
    <3>1. {Primary} \in SUBSET Replicas /\ Primary \in {Primary}
      BY PrimaryAssumption
    <3>2. QED BY <3>1, LoopbackGenericOnce
  <2>2. \A i \in Replicas : IsAncestor(app'[i], a)
    BY <1>28, <2>1, FullPrimaryNext
  <2>3. /\ a \in Digests
        /\ \A i \in Replicas : app[i] \in Digests /\ app'[i] \in Digests
    BY <1>28, AppsType, AppsTypeNext, PrimaryAssumption
  <2>4. \A i \in Replicas : IsAncestor(app[i], app'[i]) BY <1>14 DEF AppsGrow
  <2>5. QED BY <2>2, <2>3, <2>4, AncestorTransitive DEF Digests
<1>30. ASSUME NEW y \in InFlightTo(net', r) PROVE Succeeds(y, a)
  <2>1. SUFFICES ASSUME y.kind = "Request" PROVE Succeeds(y, a)
    BY DEF Succeeds
  <2>2. PICK x \in net' : x.to = r /\ x.msg = y BY DEF InFlightTo
  <2>3. x \in net BY <1>18, <2>1, <2>2
  <2>4. QED BY <1>3, <1>21, <1>29, <2>2, <2>3, SentSucceeds
<1>31. ASSUME NEW y, Succeeds(y, app[Primary]) PROVE Succeeds(y, a)
  <2>1. app[Primary] \in Digests /\ IsAncestor(app[Primary], a)
    BY <1>29, AppsType, PrimaryAssumption
  <2>2. QED BY <1>29, <1>31, <2>1, InBlockKept DEF Succeeds
<1>32. ASSUME NEW k \in 1..Len(u), NEW y \in u[k].before PROVE Succeeds(y, a)
  <2>1. CASE k \in 1..Len(q) - 1
    <3>1. k + 1 \in 1..Len(q) /\ u[k] = q[k + 1]
      BY <1>27, <2>1 DEF ChannelMoved
    <3>2. Succeeds(y, app[Primary])
      BY <1>3, <1>21, <1>24, <1>32, <3>1 DEF Overtakes
    <3>3. QED BY <1>31, <3>2
  <2>2. CASE k \in Len(q) .. Len(q) - 1 + Len(own)
    <3>1. u[k].before = InFlightTo(net', r) BY <1>27, <2>2 DEF ChannelMoved
    <3>2. QED BY <1>30, <1>32, <3>1
  <2>3. QED BY <1>27, <2>1, <2>2 DEF ChannelMoved
<1>33. Overtakes' BY <1>3, <1>25, <1>28, <1>32 DEF Overtakes
<1>34. QED BY <1>14, <1>22, <1>23, <1>33 DEF RInv

\* Another replica's blocks are not the primary's business.
LEMMA HandleGenericRequests ==
  ASSUME IInv, IInv', RInv, NEW r \in Live, NEW m, HandleGeneric(r, m)
  PROVE  RInv' /\ AppsGrow
<1>1. /\ Typed /\ r \in Replicas /\ m \in Messages /\ m.kind = "Generic"
  BY LiveAssumption, MessagesType DEF IInv, HandleGeneric
<1>2. r /= Primary
  <2>1. Datagram(r, m) \in net BY DEF HandleGeneric, Arrived
  <2>2. QED BY <1>1, <2>1 DEF IInv, Placed, Datagram
<1>3. /\ request_num' = request_num /\ invoke' = invoke /\ requests' = requests
  BY DEF HandleGeneric, clientVars, primaryVars
<1>4. CASE Hold(r, m)
  <2>1. /\ UNCHANGED executeVars /\ replied' = replied
        /\ HandleDatagram(r, m, {}, <<>>)
    BY <1>4 DEF Hold
  <2>2. PICK out : out = {} OBVIOUS
  <2>3. /\ net' \subseteq net \cup out
        /\ \A x \in out : x.to = Primary => x.msg.kind /= "Request"
    BY <2>1, <2>2, HandlerSends
  <2>4. loopback' = loopback BY <1>1, <2>1, QuietChannel
  <2>5. Tip' = Tip /\ app' = app BY <2>1 DEF executeVars, Tip
  <2>6. AppsGrow BY <2>5, AppsGrowNot
  <2>7. RInv' BY <1>3, <2>1, <2>3, <2>4, <2>5, <2>6, QuietRequests
  <2>8. QED BY <2>6, <2>7
<1>5. CASE Release(r, m)
  <2>1. PICK d : d = m.digest OBVIOUS
  <2>2. OnChain(d) BY <1>1, <2>1 DEF IInv, MessagesSound, Sound
  <2>3. PICK released : released = Released(r, d) OBVIOUS
  <2>4. PICK s : s = InsertAll(r, <<d>> \o released) OBVIOUS
  <2>5. PICK out : out = s.replies \cup {Datagram(Primary, v) : v \in Range(s.votes)}
    OBVIOUS
  <2>6. Becomes(r, s) /\ HandleDatagram(r, m, out, <<>>)
    BY <1>5, <2>1, <2>3, <2>4, <2>5 DEF Release
  <2>7. PICK U : U = Restrict(reordering[r], DOMAIN reordering[r] \
                                 {Parent(e) : e \in Range(released)})
    OBVIOUS
  <2>8. Fit(s, r, Tip) /\ Grows(Fields(r), s, Tip)
    BY <2>2, <2>3, <2>4, <2>7, ReleaseInserts
  <2>9. s \in ReplicaFields BY <2>8 DEF Fit
  <2>10. (\A i \in Replicas : i /= r => Fields(i)' = Fields(i))
         /\ Fields(r)' = Kept(s)
    BY <1>1, <2>6, <2>9, BecomesFields
  <2>11. /\ \A i \in Replicas : i /= r => app'[i] = app[i]
         /\ app'[r] = s.app
         /\ replied'[Primary] = replied[Primary]
         /\ chain'[Primary] = chain[Primary]
    BY <1>2, <2>10, PrimaryAssumption DEF Fields, Kept
  <2>12. AppsGrow
    <3>1. IsAncestor(app[r], app'[r]) BY <2>8, <2>11 DEF Grows, Fields
    <3>2. \A i \in Replicas : IsAncestor(app[i], app[i])
      BY AppsType, AncestorReflexive DEF Digests
    <3>3. QED BY <2>11, <3>1, <3>2 DEF AppsGrow
  <2>13. net' \subseteq net \cup out BY <2>6, HandlerSends
  <2>14. /\ \A x \in s.replies : x.msg.kind = "Reply"
         /\ \A v \in Range(s.votes) : v.kind = "Vote"
    BY <2>8, InsertedSends
  <2>15. \A x \in out : x.to = Primary => x.msg.kind /= "Request"
    BY <2>5, <2>14 DEF Datagram
  <2>16. loopback' = loopback BY <1>1, <2>6, QuietChannel
  <2>17. Tip' = Tip BY <2>11 DEF Tip
  <2>18. RInv'
    BY <1>3, <2>11, <2>12, <2>13, <2>15, <2>16, <2>17, QuietRequests
  <2>19. QED BY <2>12, <2>18
<1>6. QED BY <1>4, <1>5 DEF HandleGeneric

\* Nor do votes bear on requests.
LEMMA VoteRequests ==
  ASSUME IInv, IInv', RInv, NEW r \in Live,
         LoopbackVote(r) \/ \E m : HandleVote(r, m)
  PROVE  RInv' /\ AppsGrow
<1>1. Typed /\ r \in Replicas BY LiveAssumption DEF IInv
<1>2. PICK m : InsertVote(r, m) BY DEF LoopbackVote, HandleVote
<1>3. /\ request_num' = request_num /\ invoke' = invoke /\ requests' = requests
      /\ Tip' = Tip /\ app' = app /\ replied' = replied
  BY <1>2 DEF InsertVote, clientVars, Tip
<1>4. AppsGrow BY <1>3, AppsGrowNot
<1>5. PICK out : out = {} OBVIOUS
<1>6. \/ \E x : HandleDatagram(r, x, out, <<>>)
      \/ loopback[r] /= <<>> /\ HandleLoopback(r, out, <<>>)
  BY <1>5 DEF LoopbackVote, HandleVote
<1>7. /\ net' \subseteq net \cup out
      /\ \A x \in out : x.to = Primary => x.msg.kind /= "Request"
  BY <1>5, <1>6, HandlerSends
<1>8. \A k \in 1..Len(loopback'[Primary]) : \E j \in 1..Len(loopback[Primary]) :
         loopback'[Primary][k].before = loopback[Primary][j].before
  <2>1. CASE \E x : HandleDatagram(r, x, out, <<>>)
    <3>1. loopback' = loopback BY <1>1, <2>1, QuietChannel
    <3>2. QED BY <3>1
  <2>2. CASE loopback[r] /= <<>> /\ HandleLoopback(r, out, <<>>)
    <3>1. PICK own : own = <<>> OBVIOUS
    <3>2. own \in Seq(OwnMessages) /\ Len(own) = 0 BY <3>1, EmptySeq
    <3>3. PICK q : q = loopback[r] OBVIOUS
    <3>4. PICK u : u = loopback'[r] OBVIOUS
    <3>5. ChannelMoved(r, q, u, own)
      BY <1>1, <2>2, <3>1, <3>2, <3>3, <3>4, OwnChannelTail
    <3>6. \A k \in 1..Len(u) : k + 1 \in 1..Len(q) /\ u[k] = q[k + 1]
      BY <3>2, <3>5 DEF ChannelMoved
    <3>7. CASE r = Primary
      <4>1. \A k \in 1..Len(u) : \E j \in 1..Len(q) : u[k].before = q[j].before
        BY <3>6
      <4>2. QED BY <3>3, <3>4, <3>7, <4>1
    <3>8. CASE r /= Primary
      <4>1. loopback'[Primary] = loopback[Primary]
        BY <3>5, <3>8, PrimaryAssumption DEF ChannelMoved
      <4>2. QED BY <4>1
    <3>9. QED BY <3>7, <3>8
  <2>3. QED BY <1>6, <2>1, <2>2
<1>9. RInv' BY <1>3, <1>4, <1>7, <1>8, QuietRequests
<1>10. QED BY <1>4, <1>9

\* Every step accepts a request once, and only when its client's last one is
\* executed; no log is cut.
LEMMA RequestsStep ==
  ASSUME IInv, IInv', Served, OInv({Primary}), OInv({Primary})', RInv, [Next]_vars
  PROVE  RInv' /\ AppsGrow
<1>1. CASE UNCHANGED vars
  <2>1. /\ UNCHANGED <<executeVars, primaryVars, replied, clientVars>>
        /\ net' = net /\ loopback' = loopback
    BY <1>1 DEF vars, netVars
  <2>2. /\ Tip' = Tip /\ requests' = requests /\ app' = app
        /\ request_num' = request_num /\ invoke' = invoke
    BY <2>1 DEF executeVars, primaryVars, clientVars, Tip
  <2>3. AppsGrow BY <2>2, AppsGrowNot
  <2>4. PICK out : out = {} OBVIOUS
  <2>5. /\ net' \subseteq net \cup out
        /\ \A x \in out : x.to = Primary => x.msg.kind /= "Request"
    BY <2>1, <2>4
  <2>6. RInv' BY <2>1, <2>2, <2>3, <2>5, QuietRequests
  <2>7. QED BY <2>3, <2>6
<1>2. ASSUME NEW c \in Clients, ClientStep(c) PROVE RInv' /\ AppsGrow
  BY <1>2, InvokeRequests, HandleReplyRequests DEF ClientStep
<1>3. ASSUME NEW r \in Live, ReplicaStep(r) PROVE RInv' /\ AppsGrow
  <2>1. CASE OnPace(r) BY <2>1, OnPaceRequests
  <2>2. CASE LoopbackGeneric(r) BY <2>2, LoopbackGenericRequests
  <2>3. CASE LoopbackVote(r) BY <2>3, VoteRequests
  <2>4. ASSUME NEW m, HandleRequest(r, m) PROVE RInv' /\ AppsGrow
    BY <2>4, HandleRequestRequests
  <2>5. ASSUME NEW m, HandleGeneric(r, m) PROVE RInv' /\ AppsGrow
    BY <2>5, HandleGenericRequests
  <2>6. ASSUME NEW m, HandleVote(r, m) PROVE RInv' /\ AppsGrow
    BY <2>6, VoteRequests
  <2>7. QED
    BY <1>3, <2>1, <2>2, <2>3, <2>4, <2>5, <2>6 DEF ReplicaStep
<1>4. QED BY <1>1, <1>2, <1>3 DEF Next

\* At first there is no request.
LEMMA InitRequests ==
  ASSUME Init
  PROVE  RInv
<1>1. /\ net = {} /\ Tip = <<>> /\ requests = <<>> /\ app[Primary] = <<>>
      /\ loopback[Primary] = <<>> /\ request_num = [c \in Clients |-> 0]
  BY PrimaryAssumption
  DEF Init, Init_Multiplex, Init_Client, Init_Execution, Tip, NewChain, Genesis
<1>2. Len(<<>>) = 0 /\ Items(<<>>) = {} BY EmptySeq DEF Items
<1>3. RequestsOnce
  BY <1>1, <1>2 DEF RequestsOnce, OnePlace, InBlock, Listed
<1>4. Latest BY <1>1, <1>2 DEF Latest, LatestIn
<1>5. Invoked /\ Overtakes BY <1>1, <1>2 DEF Invoked, Overtakes
<1>6. Answered BY <1>1 DEF Answered
<1>7. QED BY <1>3, <1>4, <1>5, <1>6 DEF RInv

\* A reply completes an invocation with its answer, or the service takes no step.
LEMMA ReplyServes ==
  ASSUME IInv, Served, NEW c \in Clients, NEW m, HandleReply(c, m)
  PROVE  Service!Respond(c) \/ UNCHANGED Service!vars
<1>1. ClientHandle(c, m) /\ Log' = Log
  BY LogIs DEF HandleReply, executeVars
<1>2. PICK t : t = Tip OBVIOUS
<1>3. t \in Digests
      /\ \A i \in Replicas : app[i] \in Digests /\ IsAncestor(app[i], t)
  BY <1>2, AppsType
<1>4. PICK log : log = Log OBVIOUS
<1>5. Responded(c, log) \/ UNCHANGED <<request_num, invoke, results>>
  <2>1. NetTypeOK(Msgs, OwnMessages) BY DEF IInv, Typed
  <2>2. QED BY <1>1, <1>3, <1>4, <2>1, HandleResponds
<1>6. CASE Responded(c, log)
  <2>1. \E k \in 1..Len(log) : \E j \in 1..Len(log[k]) :
           /\ log[k][j] = Service!Request(c, request_num[c])
           /\ results' = [results EXCEPT ![c] =
                 Append(@, [before |-> SubSeq(log, 1, k - 1),
                            upto |-> SubSeq(log[k], 1, j)])]
    BY <1>6 DEF Responded, AnsweredIn, Request, Service!Request
  <2>2. QED BY <1>1, <1>4, <1>6, <2>1 DEF Responded, Service!Respond
<1>7. CASE UNCHANGED <<request_num, invoke, results>>
  BY <1>1, <1>7 DEF Service!vars
<1>8. QED BY <1>5, <1>6, <1>7

\* A replica that executes appends to the log, or the service takes no step.
LEMMA ReplicaServes ==
  ASSUME IInv, IInv', AppsGrow, RInv', UNCHANGED clientVars
  PROVE  Service!AppendBatches \/ UNCHANGED Service!vars
<1>1. UNCHANGED <<request_num, invoke, results>> BY DEF clientVars
<1>2. PICK t : t = Tip OBVIOUS
<1>3. PICK u : u = Tip' OBVIOUS
<1>4. PICK nums : nums = request_num OBVIOUS
<1>5. u \in Digests
      /\ \A i \in Replicas : app'[i] \in Digests /\ IsAncestor(app'[i], u)
  BY <1>3, AppsTypeNext
<1>6. t \in Digests /\ nums \in [Clients -> Nat] BY <1>2, <1>4, AppsType
<1>7. \A i \in Replicas : /\ app[i] \in Digests /\ IsAncestor(app[i], t)
                          /\ IsAncestor(app[i], app'[i])
  BY <1>2, AppsType DEF AppsGrow
<1>8. Listed(u, nums) BY <1>1, <1>3, <1>4 DEF RInv, RequestsOnce, OnePlace
<1>9. Log' = Log \/ Appended(Log, Log', nums)
  BY <1>5, <1>6, <1>7, <1>8, LogStep
<1>10. CASE Log' = Log BY <1>1, <1>10 DEF Service!vars
<1>11. CASE Appended(Log, Log', nums)
  BY <1>1, <1>4, <1>11 DEF Appended, Service!AppendBatches
<1>12. QED BY <1>9, <1>10, <1>11

\* Every step is one of the service, or none.
LEMMA NextServes ==
  ASSUME IInv, IInv', Served, AppsGrow, RInv', [Next]_vars
  PROVE  [Service!Next]_(Service!vars)
<1>1. CASE UNCHANGED vars BY <1>1, ReplicaServes DEF vars, Service!Next
<1>2. ASSUME NEW c \in Clients, Invoke(c) PROVE Service!Invoke(c)
  <2>1. Log' = Log BY <1>2, LogIs DEF Invoke, executeVars
  <2>2. QED BY <1>2, <2>1 DEF Invoke, ClientInvoke, Service!Invoke
<1>3. ASSUME NEW c \in Clients, NEW m, HandleReply(c, m)
      PROVE  Service!Respond(c) \/ UNCHANGED Service!vars
  BY <1>3, ReplyServes
<1>4. ASSUME NEW r \in Live, ReplicaStep(r)
      PROVE  Service!AppendBatches \/ UNCHANGED Service!vars
  <2>1. UNCHANGED clientVars
    BY <1>4
    DEF ReplicaStep, OnPace, HandleRequest, LoopbackGeneric, HandleGeneric,
        LoopbackVote, HandleVote, InsertVote
  <2>2. QED BY <2>1, ReplicaServes
<1>5. QED BY <1>1, <1>2, <1>3, <1>4 DEF Next, ClientStep, Service!Next

\* The clients cannot tell the replicas from a single log, on any network: a
\* request that arrives again is known, and one that arrives late finds all that
\* its client invoked before executed.
THEOREM ServesLog == Spec => Linearizable
<1>1. Init => Service!Init
  <2>1. SUFFICES ASSUME Init PROVE Service!Init OBVIOUS
  <2>2. Log = <<>> BY <2>1, LogStarts DEF Init, Init_Execution
  <2>3. QED BY <2>1, <2>2 DEF Init, Init_Client, Service!Init
<1>2. Init => OInv({Primary}) /\ RInv
  <2>1. {Primary} \in SUBSET Replicas BY PrimaryAssumption
  <2>2. QED BY <2>1, InitOnce, InitRequests
<1>3. IInv /\ OInv({Primary}) /\ [Next]_vars => OInv({Primary})' BY OnceStep
<1>4. /\ IInv /\ IInv' /\ Served /\ OInv({Primary}) /\ OInv({Primary})' /\ RInv
      /\ [Next]_vars
      => RInv' /\ AppsGrow
  BY RequestsStep
<1>5. IInv /\ IInv' /\ Served /\ AppsGrow /\ RInv' /\ [Next]_vars
         => [Service!Next]_(Service!vars)
  BY NextServes
<1>6. QED
  BY <1>1, <1>2, <1>3, <1>4, <1>5, Invariance, ServedAlways, PTL
  DEF Spec, Linearizable, Service!Spec
=============================================================================
