----------------------------- MODULE NeoProofs -----------------------------
(***************************************************************************)
(* Theorems of Neo: its replicas execute the sequencer's order and nothing *)
(* that n - f of them do not have, what waits there waits for something,   *)
(* the clients consume what was executed and cannot tell the replicas from *)
(* one log (ReplicatedLog), no assertion fails, and when nothing was lost  *)
(* nothing is forgotten; and one of the ordered multicast below it.        *)
(*                                                                         *)
(* The argument.  IInv and SInv are invariants, one on the other.  IInv    *)
(* holds on any network.  It follows a replica's record through the        *)
(* functions that call one another (Fit): what is executed are the first   *)
(* of the ordered requests, up to verified_num or confirmed_num; of the    *)
(* Confirms of one sender, in flight, parked or counted, no two overlap    *)
(* (Gathered, Ahead), so that remote_confirmed_nums never exceeds what its *)
(* sender has ordered (Backed).  A panic is not excluded, but only two     *)
(* are: that of a digest, if some Confirm was not Truthful, and that of    *)
(* too many parked packets (Fine).                                         *)
(*                                                                         *)
(* SInv says why all of them are, while the sequencer gets no request      *)
(* twice (NumbersOnce).  It numbers a request once then (Fresh, Distinct); *)
(* each packet, wherever it waits, holds the request of its number         *)
(* (Sound); and a replica's first packet is the first of all, since a      *)
(* second request is invoked only after n - f replicas, all those that     *)
(* run, have answered the first (Bootstrapping).  So what a replica orders *)
(* is what the sequencer did (InOrder), and so is every digest. Of a       *)
(* client at most one request is parked, its last (FewParked): those       *)
(* before it were answered by all that run.                                *)
(*                                                                         *)
(* PacketInv and ReplyInv follow each packet and each reply to its end: a  *)
(* number that was given is in flight to a replica, held back, parked or   *)
(* ordered there (Accounted), what is ordered and verified is executed     *)
(* (Marked), and what is executed is answered by a reply that is in flight *)
(* or that its client has (Owed).                                          *)
(***************************************************************************)
EXTENDS Neo, SequenceTheorems, FiniteSetTheorems, FunctionTheorems,
        WellFoundedInduction, TLAPS

-----------------------------------------------------------------------------
(* The ordered multicast.  (The code counts the HalfSipHash codes in a u8, *)
(* so that this holds for up to 252 replicas.)                             *)

\* The packets of a request in scheme s that hold a code for replica r.
Codes(r, s, n, q) ==
    {o \in Offsets(s) : IsFor(r, Packet(n, s, o, q))}

\* Of the packets the sequencer sends for one request, the delegate of every
\* replica passes on exactly one, for every number of replicas: apply counts
\* the codes from 0 in steps of four, handle compares with its own index.
THEOREM OneCode ==
    ASSUME NEW r \in Replicas, NEW n, NEW q
    PROVE  \E o \in Offsets("HalfSipHash") :
              Codes(r, "HalfSipHash", n, q) = {o}
<1>1. Cardinality(Replicas) \in Nat
  BY ReplicasAssumption, FS_CardinalityType
<1>2. Index[r] \in 0..Cardinality(Replicas) - 1
  BY IndexAssumption
<1> DEFINE i == Index[r]
           o == i - (i % 4)
<1>3. i \in Nat
  BY <1>1, <1>2
<1>4. o \in 0..Cardinality(Replicas) - 1 /\ o % 4 = 0
  BY <1>1, <1>2, <1>3
<1>5. \A x \in Nat : x + (i % 4) = i <=> x = o
  BY <1>3
<1>6. \A x \in Nat : IsFor(r, Packet(n, "HalfSipHash", x, q))
                       <=> x + (i % 4) = i
  BY DEF IsFor, Packet
<1>7. Codes(r, "HalfSipHash", n, q) = {o}
  BY <1>1, <1>4, <1>5, <1>6 DEF Codes, Offsets
<1> QED
  BY <1>4, <1>7 DEF Offsets
-----------------------------------------------------------------------------
(* Types                                                                   *)

Signed == [kind : {"Request"}, seq_num : Nat \ {0}, signature : SignatureKinds,
           codes : Nat, request : Requests]
Pledges == [kind : {"Confirm"}, replica : Live, start : Nat \ {0},
            end : Nat \ {0}, digest : Seq(Requests)]
Asks == [kind : {"Query"}, replica : Live, op_num : Nat \ {0}]
Answers == [kind : {"QueryOk"}, op_num : Nat \ {0}, packet : Signed]
Results == [before : Seq(Seq(Requests)), upto : Seq(Requests)]
Replies == [kind : {"Reply"}, num : 1..MaxRequestNum, result : Results,
            digest : Nat, replica : Live]
Wanted == [kind : {"Request"}, client : Clients, num : 1..MaxRequestNum]
Sent == [to : Clients \cup Live, msg : Replies \cup Asks]

\* The fields of a replica.
ReplicaFields ==
    [seq_num_offset : Nat, reordering_requests : SUBSET Signed,
     requests : Seq(Signed), verified_num : Nat, confirmed_num : Nat,
     local_confirmed_num : Nat, remote_confirmed_nums : [Replicas -> Nat],
     reordering_confirms1 : SUBSET Pledges,
     reordering_confirms2 : SUBSET Pledges,
     app : Seq(Requests), panicked : {"no", "digest", "reordering"},
     out : SUBSET Sent]

-----------------------------------------------------------------------------
(* The state of one replica                                                *)

\* The Confirms that replica r, in state s, has not counted yet: those parked
\* and those in X, which are in flight or being handled.
Pending(s, X) == s.reordering_confirms1 \cup s.reordering_confirms2 \cup X

\* The ranges of two Confirms of one sender are disjoint.
Apart(m, n) ==
    m.replica = n.replica /\ m /= n => m.end < n.start \/ n.end < m.start

\* What is known of the Confirms in G, sent to replica r when each replica i
\* had confirmed caps[i] operations.
Gathered(G, r, caps) ==
    /\ IsFiniteSet(G)
    /\ G /= {} => confirm
    /\ \A m \in G : /\ m \in Pledges /\ m.replica /= r
                    /\ m.start <= m.end /\ m.end <= caps[m.replica]
    /\ \A m, n \in G : Apart(m, n)

\* The Confirms in G that cover ordered requests have these requests' digest.
Truthful(G, reqs) ==
    \A m \in G : m.end <= Len(reqs) =>
        m.digest = [k \in 1..m.end - m.start + 1 |-> reqs[m.start + k - 1].request]

Sizes(s) ==
    /\ s \in ReplicaFields
    /\ IsFiniteSet(s.reordering_requests)
    /\ s.verified_num <= Len(s.requests)
    /\ s.local_confirmed_num <= Len(s.requests)

\* The application has executed the first requests, up to what is confirmed
\* or verified.
Executing(s) ==
    /\ Len(s.app) <= Len(s.requests)
    /\ \A k \in 1..Len(s.app) : s.app[k] = s.requests[k].request
    /\ s.panicked /= "digest" =>
          Len(s.app) = IF confirm THEN s.confirmed_num ELSE s.verified_num
    /\ ~confirm => s.confirmed_num = 0

\* n - f of the numbers are at least b.
Backing(nums, b) ==
    Cardinality({i \in Replicas : nums[i] >= b})
        >= Cardinality(Replicas) - NumFaulty

\* n - f replicas confirmed what is executed, and each as much as it had.
Backed(s, caps) ==
    /\ \A i \in Replicas : /\ s.remote_confirmed_nums[i] <= caps[i]
                           /\ s.remote_confirmed_nums[i] <= Len(s.requests)
    /\ confirm => Backing(s.remote_confirmed_nums, Len(s.app))

\* Each pending Confirm is pending once and starts above what its sender is
\* known to have confirmed; parked ones wait for a reason.
Ahead(s, X) ==
    /\ s.reordering_confirms1 \cap s.reordering_confirms2 = {}
    /\ X \cap (s.reordering_confirms1 \cup s.reordering_confirms2) = {}
    /\ \A m \in Pending(s, X) : m.start > s.remote_confirmed_nums[m.replica]
    /\ s.panicked = "no" =>
          \A m \in s.reordering_confirms1 : m.end > s.verified_num
    /\ \A m \in s.reordering_confirms2 : m.end <= Len(s.requests)

\* Parked packets are behind a gap, one for each number.
Gapped(s) ==
    /\ s.seq_num_offset = 0 => s.requests = <<>> /\ s.reordering_requests = {}
    /\ \A p \in s.reordering_requests : op_num(s, p) > ordered_num(s) + 1
    /\ \A p, q \in s.reordering_requests : p.seq_num = q.seq_num => p = q

\* A Query asks for what is ordered, or for what comes before a parked packet.
Lacks(s, m) ==
    \/ m.op_num <= Len(s.requests)
    \/ s.reordering_requests /= {} /\ m.op_num <= Len(s.requests) + 1

\* What the handler sends are replies to what it executed, and Queries.
Honest(s, r) ==
    \A d \in s.out :
        \/ /\ d.to \in Live /\ d.msg \in Asks /\ Lacks(s, d.msg)
        \/ /\ d.to \in Clients /\ d.msg \in Replies /\ d.msg.replica = r
           /\ Executed(s.app, d.to, d.msg.num, d.msg.result)

Fit(s, r, caps, G, X) ==
    /\ Sizes(s)
    /\ Executing(s)
    /\ Backed(s, caps)
    /\ Pending(s, X) \subseteq G
    /\ Ahead(s, X)
    /\ Gapped(s)
    /\ Honest(s, r)

\* No parked Confirm comes next.
Settled(s) ==
    s.panicked = "no" => \A m \in s.reordering_confirms2 :
        m.start /= s.remote_confirmed_nums[m.replica] + 1

-----------------------------------------------------------------------------
(* The whole                                                               *)

InNet(r) == {m \in InFlightTo(net, r) : m.kind = "Confirm"}
Locals == [i \in Replicas |-> replica[i].local_confirmed_num]
Universe(r) == Pending(replica[r], InNet(r))

ReplicaInv(r) ==
    /\ Fit(replica[r], r, Locals, Universe(r), InNet(r))
    /\ Gathered(Universe(r), r, Locals)
    /\ Settled(replica[r])
    /\ replica[r].out = {}
    /\ r \notin Live => replica[r].app = <<>>

\* The replica's own Confirm is the only one it has not counted of its own.
LoopbackInv(r) ==
    \/ /\ loopback[r] = <<>>
       /\ replica[r].remote_confirmed_nums[r] = replica[r].local_confirmed_num
    \/ /\ \E e : /\ loopback[r] = <<e>>
                 /\ e.msg \in Pledges /\ e.msg.replica = r
                 /\ e.msg.start = replica[r].remote_confirmed_nums[r] + 1
                 /\ e.msg.end = replica[r].local_confirmed_num
                 /\ e.msg.start <= e.msg.end
       /\ confirm

NetInv(d) ==
    /\ d = Datagram(d.to, d.msg)
    /\ \/ /\ d.to \in Clients /\ d.msg \in Replies
          /\ Executed(replica[d.msg.replica].app, d.to, d.msg.num, d.msg.result)
       \/ /\ d.to = Sequencer /\ d.msg \in Wanted
          /\ d.msg.num <= request_num[d.msg.client]
       \/ /\ d.to \in Live
          /\ d.msg \in Signed \cup Pledges \cup Asks \cup Answers

ClientInv(c) ==
    /\ request_num[c] \in 0..MaxRequestNum
    /\ invoke[c] \in BOOLEAN
    /\ results[c] \in Seq(Results)
    /\ Len(results[c]) = IF invoke[c] THEN request_num[c] - 1 ELSE request_num[c]
    /\ IsFiniteSet(replies[c])
    /\ \A x \in replies[c] :
          /\ x \in Replies /\ x.num = request_num[c]
          /\ Executed(replica[x.replica].app, c, x.num, x.result)
    /\ \A x, y \in replies[c] : x.replica = y.replica => x = y

Shapes ==
    /\ DOMAIN replica = Replicas /\ DOMAIN loopback = Replicas
    /\ DOMAIN saved = Replicas
    /\ \A r \in Replicas : saved[r] = <<>> \/ \E p \in Signed : saved[r] = <<p>>
    /\ DOMAIN request_num = Clients /\ DOMAIN invoke = Clients
    /\ DOMAIN replies = Clients /\ DOMAIN results = Clients
    /\ dup \in Nat
    /\ sequenced \in Seq(Requests)

IInv ==
    /\ Shapes
    /\ \A d \in net : NetInv(d)
    /\ \A r \in Replicas : ReplicaInv(r) /\ LoopbackInv(r)
    /\ \A c \in Clients : ClientInv(c)
    /\ ConsumedIsExecuted

-----------------------------------------------------------------------------
(* Numbers and sequences                                                   *)

\* A set of numbers has a least one.
LEMMA LeastNumber ==
  ASSUME NEW T \in SUBSET Nat, T /= {}
  PROVE  \E n \in T : \A m \in T : n <= m
<1>1. IsWellFoundedOn(OpToRel(<, Nat), Nat) BY NatLessThanWellFounded, Zenon
<1>2. PICK n \in T : \A m \in T : ~(<<m, n>> \in OpToRel(<, Nat))
  BY <1>1, WFMin, Zenon
<1>3. \A m \in T : ~(m < n) BY <1>2 DEF OpToRel
<1>4. QED BY <1>3

\* A bounded set of numbers has a greatest one.
LEMMA GreatestNumber ==
  ASSUME NEW T \in SUBSET Nat, T /= {}, NEW b \in Nat, \A n \in T : n <= b
  PROVE  \E n \in T : \A m \in T : m <= n
<1>1. PICK D : D = {b - n : n \in T} OBVIOUS
<1>2. D \in SUBSET Nat /\ D /= {}
  <2>1. \A n \in T : b - n \in Nat OBVIOUS
  <2>2. \A d \in D : d \in Nat BY <1>1, <2>1
  <2>3. PICK n : n \in T OBVIOUS
  <2>4. b - n \in D BY <1>1, <2>3
  <2>5. QED BY <2>2, <2>4
<1>3. PICK d \in D : \A e \in D : d <= e BY <1>2, LeastNumber
<1>4. PICK n \in T : d = b - n BY <1>1
<1>5. ASSUME NEW m \in T PROVE m <= n
  <2>1. b - m \in D BY <1>1
  <2>2. d <= b - m /\ m \in Nat /\ n \in Nat BY <1>3, <2>1
  <2>3. QED BY <1>4, <2>2
<1>6. QED BY <1>5

\* A sequence given by its elements.
LEMMA SeqOf ==
  ASSUME NEW S, NEW n \in Nat, NEW f \in [1..n -> S]
  PROVE  f \in Seq(S) /\ Len(f) = n
<1>1. f \in Seq(S) BY SeqDef
<1>2. Len(f) \in Nat /\ DOMAIN f = 1..Len(f) BY <1>1, LenProperties
<1>3. 1..Len(f) = 1..n BY <1>2
<1>4. QED
  <2>1. CASE Len(f) < n
    <3>1. n \in 1..n /\ ~(n \in 1..Len(f)) BY <1>2, <2>1
    <3>2. QED BY <1>3, <3>1
  <2>2. CASE Len(f) > n
    <3>1. Len(f) \in 1..Len(f) /\ ~(Len(f) \in 1..n) BY <1>2, <2>2
    <3>2. QED BY <1>3, <3>1
  <2>3. QED BY <1>1, <1>2, <2>1, <2>2

\* The first elements of a sequence.
LEMMA FirstOf ==
  ASSUME NEW S, NEW s \in Seq(S), NEW n \in 0..Len(s)
  PROVE  /\ SubSeq(s, 1, n) \in Seq(S) /\ Len(SubSeq(s, 1, n)) = n
         /\ \A k \in 1..n : SubSeq(s, 1, n)[k] = s[k]
<1>1. Len(s) \in Nat /\ n \in Nat /\ n <= Len(s) BY LenProperties
<1>2. \A k \in 1..n : k \in 1..Len(s) BY <1>1
<1>3. \A k \in 1..n : s[k] \in S BY <1>2, ElementOfSeq
<1>4. n - 1 + 1 = n BY <1>1
<1>5. /\ SubSeq(s, 1, n) \in Seq(S)
      /\ Len(SubSeq(s, 1, n)) = IF 1 <= n THEN n - 1 + 1 ELSE 0
      /\ \A k \in 1..n - 1 + 1 : SubSeq(s, 1, n)[k] = s[1 + k - 1]
  BY <1>1, <1>3, SubSeqProperties
<1>6. \A k \in 1..n : 1 + k - 1 = k BY <1>1
<1>7. \A k \in 1..n : SubSeq(s, 1, n)[k] = s[k] BY <1>4, <1>5, <1>6
<1>8. QED BY <1>1, <1>5, <1>7

\* t starts with s.
StartsWith(t, s) ==
    /\ Len(s) <= Len(t)
    /\ \A k \in 1..Len(s) : t[k] = s[k]

\* A sequence starts with itself.
LEMMA StartsWithSelf ==
  ASSUME NEW S, NEW s \in Seq(S)
  PROVE  StartsWith(s, s)
BY LenProperties DEF StartsWith

\* To start with is transitive.
LEMMA StartsWithMore ==
  ASSUME NEW S, NEW s \in Seq(S), NEW t \in Seq(S), NEW u \in Seq(S),
         StartsWith(t, s), StartsWith(u, t)
  PROVE  StartsWith(u, s)
<1>1. Len(s) \in Nat /\ Len(t) \in Nat /\ Len(u) \in Nat BY LenProperties
<1>2. Len(s) <= Len(t) /\ Len(t) <= Len(u) BY DEF StartsWith
<1>3. \A k \in 1..Len(s) : k \in 1..Len(t) BY <1>1, <1>2
<1>4. QED BY <1>1, <1>2, <1>3 DEF StartsWith

\* The first elements stay when a sequence is continued.
LEMMA FirstStays ==
  ASSUME NEW S, NEW s \in Seq(S), NEW t \in Seq(S), StartsWith(t, s),
         NEW n \in 0..Len(s)
  PROVE  SubSeq(t, 1, n) = SubSeq(s, 1, n)
<1>1. Len(s) \in Nat /\ Len(t) \in Nat /\ Len(s) <= Len(t)
  BY LenProperties DEF StartsWith
<1>2. n \in 0..Len(t) BY <1>1
<1>3. /\ SubSeq(s, 1, n) \in Seq(S) /\ Len(SubSeq(s, 1, n)) = n
      /\ \A k \in 1..n : SubSeq(s, 1, n)[k] = s[k]
  BY FirstOf
<1>4. /\ SubSeq(t, 1, n) \in Seq(S) /\ Len(SubSeq(t, 1, n)) = n
      /\ \A k \in 1..n : SubSeq(t, 1, n)[k] = t[k]
  BY <1>2, FirstOf
<1>5. \A k \in 1..n : k \in 1..Len(s) BY <1>1
<1>6. \A k \in 1..n : t[k] = s[k] BY <1>5 DEF StartsWith
<1>7. QED BY <1>3, <1>4, <1>6, SeqEqual

\* What was executed stays executed, with the same result.
LEMMA ExecutedStays ==
  ASSUME NEW s \in Seq(Requests), NEW t \in Seq(Requests), StartsWith(t, s),
         NEW c, NEW k, NEW res, Executed(s, c, k, res)
  PROVE  Executed(t, c, k, res)
<1>1. PICK n \in 1..Len(s) : /\ s[n] = Request(c, k)
                             /\ Result(SubSeq(s, 1, n)) = res
  BY DEF Executed
<1>2. Len(s) \in Nat /\ Len(t) \in Nat /\ Len(s) <= Len(t)
  BY LenProperties DEF StartsWith
<1>3. n \in 0..Len(s) /\ n \in 1..Len(t) BY <1>2
<1>4. SubSeq(t, 1, n) = SubSeq(s, 1, n) BY <1>3, FirstStays
<1>5. t[n] = s[n] BY DEF StartsWith
<1>6. QED BY <1>1, <1>3, <1>4, <1>5 DEF Executed

\* Requests are records of a client and a number.
LEMMA RequestType ==
  /\ \A c \in Clients, n \in 1..MaxRequestNum : Request(c, n) \in Requests
  /\ \A q \in Requests : /\ q.client \in Clients /\ q.num \in 1..MaxRequestNum
                         /\ q = Request(q.client, q.num)
BY DEF Request, Requests

\* Results are typed.
LEMMA ResultType ==
  ASSUME NEW log \in Seq(Requests), Len(log) > 0
  PROVE  Result(log) \in Results
<1>1. Len(log) \in Nat /\ Len(log) \in 1..Len(log) /\ Len(log) - 1 \in Nat
  BY LenProperties
<1>2. \A k \in 1..Len(log) : log[k] \in Requests BY ElementOfSeq
<1>3. \A q \in Requests : <<q>> \in Seq(Requests)
  <2>1. ASSUME NEW q \in Requests PROVE <<q>> \in Seq(Requests)
    <3>1. <<q>> \in [1..1 -> Requests] OBVIOUS
    <3>2. QED BY <3>1, SeqOf
  <2>2. QED BY <2>1
<1> DEFINE f == [k \in 1..Len(log) - 1 |-> <<log[k]>>]
<1>4. f \in [1..Len(log) - 1 -> Seq(Requests)]
  <2>1. \A k \in 1..Len(log) - 1 : k \in 1..Len(log) BY <1>1
  <2>2. \A k \in 1..Len(log) - 1 : <<log[k]>> \in Seq(Requests)
    BY <1>2, <1>3, <2>1
  <2>3. QED BY <2>2
<1> HIDE DEF f
<1>5. f \in Seq(Seq(Requests)) BY <1>1, <1>4, SeqOf
<1>6. <<log[Len(log)]>> \in Seq(Requests) BY <1>1, <1>2, <1>3
<1>7. QED BY <1>5, <1>6 DEF Result, Results, f

\* The inner requests of a range of what is ordered.
LEMMA InnerType ==
  ASSUME NEW s, s.requests \in Seq(Signed), NEW first \in Nat \ {0},
         NEW last \in Nat, first <= last + 1, last <= Len(s.requests)
  PROVE  /\ Inner(s, first, last) \in Seq(Requests)
         /\ Len(Inner(s, first, last)) = last - first + 1
         /\ \A k \in 1..last - first + 1 :
               Inner(s, first, last)[k] = s.requests[first + k - 1].request
<1>1. Len(s.requests) \in Nat BY LenProperties
<1>2. PICK n : n = last - first + 1 OBVIOUS
<1>3. n \in Nat BY <1>2
<1>4. \A k \in 1..n : first + k - 1 \in 1..Len(s.requests) BY <1>1, <1>2
<1>5. \A k \in 1..n : s.requests[first + k - 1] \in Signed
  BY <1>4, ElementOfSeq
<1>6. \A k \in 1..n : s.requests[first + k - 1].request \in Requests
  BY <1>5 DEF Signed
<1>7. Inner(s, first, last) = [k \in 1..n |-> s.requests[first + k - 1].request]
  BY <1>2 DEF Inner
<1>8. Inner(s, first, last) \in [1..n -> Requests] BY <1>6, <1>7
<1>9. Inner(s, first, last) \in Seq(Requests) /\ Len(Inner(s, first, last)) = n
  BY <1>3, <1>8, SeqOf
<1>10. QED BY <1>2, <1>7, <1>9
-----------------------------------------------------------------------------
(* The number n - f replicas confirmed                                     *)

\* How many replicas have a number up to n.
LEMMA CountType ==
  ASSUME NEW T \in SUBSET Replicas
  PROVE  /\ IsFiniteSet(T) /\ Cardinality(T) \in Nat
         /\ Cardinality(T) <= Cardinality(Replicas)
         /\ Cardinality(Replicas) \in Nat
         /\ Cardinality(Replicas \ T) = Cardinality(Replicas) - Cardinality(T)
<1>1. IsFiniteSet(Replicas) BY ReplicasAssumption
<1>2. IsFiniteSet(T) /\ Cardinality(T) <= Cardinality(Replicas)
  BY <1>1, FS_Subset
<1>3. Cardinality(T) \in Nat /\ Cardinality(Replicas) \in Nat
  BY <1>1, <1>2, FS_CardinalityType
<1>4. Cardinality(Replicas \ T)
        = Cardinality(Replicas) - Cardinality(Replicas \cap T)
  BY <1>1, FS_Difference
<1>5. Replicas \cap T = T OBVIOUS
<1>6. QED BY <1>2, <1>3, <1>4, <1>5

\* A part of a set of replicas has no more members.
LEMMA CountLess ==
  ASSUME NEW T \in SUBSET Replicas, NEW U \in SUBSET T
  PROVE  Cardinality(U) <= Cardinality(T)
BY CountType, FS_Subset

\* A finite set of numbers is bounded.
LEMMA FiniteBound ==
  ASSUME NEW V \in SUBSET Nat, IsFiniteSet(V)
  PROVE  \E b \in Nat : \A v \in V : v <= b
<1> DEFINE T == {n \in Nat : \E W \in SUBSET V : /\ Cardinality(W) = n
                                             /\ ~\E b \in Nat : \A v \in W : v <= b}
<1>1. \A W \in SUBSET V : IsFiniteSet(W) /\ Cardinality(W) \in Nat
  BY FS_Subset, FS_CardinalityType
<1>2. SUFFICES ASSUME T /= {} PROVE FALSE
  <2>1. Cardinality(V) \notin T BY <1>2
  <2>2. QED BY <1>1, <2>1
<1>3. T \in SUBSET Nat OBVIOUS
<1> HIDE DEF T
<1>4. PICK n \in T : \A m \in T : n <= m BY <1>2, <1>3, LeastNumber
<1>5. PICK W \in SUBSET V : /\ Cardinality(W) = n
                            /\ ~\E b \in Nat : \A v \in W : v <= b
  BY <1>4 DEF T
<1>6. PICK w : w \in W BY <1>5
<1>7. PICK U : U = W \ {w} OBVIOUS
<1>8. U \in SUBSET V /\ Cardinality(U) = n - 1 /\ Cardinality(U) \in Nat
  BY <1>1, <1>5, <1>6, <1>7, FS_RemoveElement
<1>9. n \in Nat BY <1>3, <1>4
<1>10. n - 1 \notin T BY <1>4, <1>8, <1>9, <1>3
<1>11. PICK b \in Nat : \A v \in U : v <= b BY <1>8, <1>10 DEF T
<1>12. PICK c : c = IF b <= w THEN w ELSE b OBVIOUS
<1>13. c \in Nat /\ \A v \in W : v <= c
  <2>1. w \in Nat BY <1>6
  <2>2. \A v \in W : v \in Nat /\ (v = w \/ v <= b) BY <1>7, <1>11
  <2>3. b <= c /\ w <= c /\ c \in Nat BY <1>12, <2>1
  <2>4. QED BY <2>1, <2>2, <2>3
<1>14. QED BY <1>5, <1>13

\* The numbers have a (f + 1)-th smallest one, which is ConfirmedNum.
LEMMA ConfirmedNumDef ==
  ASSUME NEW nums \in [Replicas -> Nat]
  PROVE  /\ ConfirmedNum(nums) \in {nums[i] : i \in Replicas}
         /\ Cardinality({i \in Replicas : nums[i] < ConfirmedNum(nums)})
              <= NumFaulty
         /\ Cardinality({i \in Replicas : nums[i] <= ConfirmedNum(nums)})
              > NumFaulty
<1> DEFINE upto(n) == {i \in Replicas : nums[i] <= n}
           below(n) == {i \in Replicas : nums[i] < n}
           Many == {n \in Nat : Cardinality(upto(n)) > NumFaulty}
<1>1. \A n : upto(n) \in SUBSET Replicas /\ below(n) \in SUBSET Replicas
  OBVIOUS
<1>2. NumFaulty \in Nat /\ Cardinality(Replicas) \in Nat
      /\ Cardinality(Replicas) > NumFaulty /\ IsFiniteSet(Replicas)
  BY ReplicasAssumption, FS_CardinalityType
<1>3. Many /= {}
  <2>1. PICK V : V = {nums[i] : i \in Replicas} OBVIOUS
  <2>2. IsFiniteSet(V)
    <3>1. PICK f : f = [i \in Replicas |-> nums[i]] OBVIOUS
    <3>2. f \in Surjection(Replicas, V) BY <2>1, <3>1 DEF Surjection
    <3>3. QED BY <1>2, <3>2, FS_Surjection
  <2>3. V \in SUBSET Nat BY <2>1
  <2>4. PICK b \in Nat : \A v \in V : v <= b BY <2>2, <2>3, FiniteBound
  <2>5. upto(b) = Replicas
    <3>1. \A i \in Replicas : nums[i] \in V BY <2>1
    <3>2. QED BY <2>4, <3>1
  <2>6. b \in Many BY <1>2, <2>5
  <2>7. QED BY <2>6
<1>4. PICK n \in Many : \A m \in Many : n <= m BY <1>3, LeastNumber
<1>5. n \in Nat /\ Cardinality(upto(n)) > NumFaulty BY <1>4
<1>6. Cardinality(below(n)) <= NumFaulty
  <2>1. CASE n = 0
    <3>1. below(n) = {} BY <2>1
    <3>2. QED BY <1>2, <3>1, FS_EmptySet
  <2>2. CASE n /= 0
    <3>1. PICK m : m = n - 1 OBVIOUS
    <3>2. m \in Nat /\ m < n BY <1>5, <2>2, <3>1
    <3>3. m \notin Many BY <1>4, <1>5, <3>2
    <3>4. Cardinality(upto(m)) <= NumFaulty
      <4>1. PICK k : k = Cardinality(upto(m)) OBVIOUS
      <4>2. k \in Nat BY <1>1, <4>1, CountType
      <4>3. ~(k > NumFaulty) BY <3>2, <3>3, <4>1
      <4>4. QED BY <1>2, <4>1, <4>2, <4>3
    <3>5. below(n) = upto(m) BY <1>5, <3>1, <3>2
    <3>6. QED BY <3>4, <3>5
  <2>3. QED BY <2>1, <2>2
<1>7. n \in {nums[i] : i \in Replicas}
  <2>1. SUFFICES ASSUME \A i \in Replicas : nums[i] /= n PROVE FALSE OBVIOUS
  <2>2. upto(n) = below(n) BY <1>5, <2>1
  <2>3. PICK k : k = Cardinality(upto(n)) OBVIOUS
  <2>4. k \in Nat BY <1>1, <2>3, CountType
  <2>5. k > NumFaulty BY <1>5, <2>3
  <2>6. k <= NumFaulty BY <1>6, <2>2, <2>3
  <2>7. QED BY <1>2, <2>4, <2>5, <2>6
<1>8. QED BY <1>5, <1>6, <1>7 DEF ConfirmedNum

\* n - f replicas have at least ConfirmedNum, and a number that n - f replicas
\* have is not above it.
LEMMA ConfirmedNumBacked ==
  ASSUME NEW nums \in [Replicas -> Nat], NEW n, n = ConfirmedNum(nums)
  PROVE  /\ n \in Nat /\ \E i \in Replicas : n = nums[i]
         /\ Backing(nums, n)
         /\ \A b \in Nat : Backing(nums, b) => b <= n
<1>1. NumFaulty \in Nat BY ReplicasAssumption
<1>2. /\ \E i \in Replicas : n = nums[i]
      /\ Cardinality({i \in Replicas : nums[i] < n}) <= NumFaulty
      /\ Cardinality({i \in Replicas : nums[i] <= n}) > NumFaulty
  BY ConfirmedNumDef
<1>3. n \in Nat BY <1>2
<1>4. Cardinality({i \in Replicas : nums[i] >= n})
        >= Cardinality(Replicas) - NumFaulty
  <2>1. PICK T : T = {i \in Replicas : nums[i] < n} OBVIOUS
  <2>2. T \in SUBSET Replicas BY <2>1
  <2>3. {i \in Replicas : nums[i] >= n} = Replicas \ T BY <1>3, <2>1
  <2>4. /\ Cardinality(T) \in Nat /\ Cardinality(Replicas) \in Nat
        /\ Cardinality(Replicas \ T) = Cardinality(Replicas) - Cardinality(T)
    BY <2>2, CountType
  <2>5. Cardinality(T) <= NumFaulty BY <1>2, <2>1
  <2>6. QED BY <1>1, <2>3, <2>4, <2>5
<1>5. ASSUME NEW b \in Nat, ~(b <= n),
             Cardinality({i \in Replicas : nums[i] >= b})
                 >= Cardinality(Replicas) - NumFaulty
      PROVE  FALSE
  <2>1. PICK T : T = {i \in Replicas : nums[i] >= b} OBVIOUS
  <2>2. PICK U : U = {i \in Replicas : nums[i] <= n} OBVIOUS
  <2>3. T \in SUBSET Replicas BY <2>1
  <2>4. U \in SUBSET (Replicas \ T) BY <1>3, <1>5, <2>1, <2>2
  <2>5. /\ Cardinality(T) \in Nat /\ Cardinality(Replicas) \in Nat
        /\ Cardinality(Replicas \ T) = Cardinality(Replicas) - Cardinality(T)
    BY <2>3, CountType
  <2>6. Cardinality(U) <= Cardinality(Replicas \ T)
    <3>1. Replicas \ T \in SUBSET Replicas OBVIOUS
    <3>2. QED BY <2>4, <3>1, CountLess
  <2>7. Cardinality(U) \in Nat
    <3>1. U \in SUBSET Replicas BY <2>2
    <3>2. QED BY <3>1, CountType
  <2>8. Cardinality(U) > NumFaulty BY <1>2, <2>2
  <2>9. Cardinality(T) >= Cardinality(Replicas) - NumFaulty BY <1>5, <2>1
  <2>10. QED BY <1>1, <2>5, <2>6, <2>7, <2>8, <2>9
<1>6. QED BY <1>2, <1>3, <1>4, <1>5 DEF Backing
-----------------------------------------------------------------------------
(* What the replica's handlers call                                        *)

\* Counting Confirms does not concern the packets.
Counts(s, t) ==
    /\ t.requests = s.requests
    /\ t.seq_num_offset = s.seq_num_offset
    /\ t.reordering_requests = s.reordering_requests
    /\ t.verified_num = s.verified_num

\* Only the number of replica i changes.
CountsOnly(s, t, i) ==
    \A j \in Replicas : j /= i =>
        t.remote_confirmed_nums[j] = s.remote_confirmed_nums[j]

\* Nor does executing concern the Confirms.
Executes(s, t) ==
    /\ Counts(s, t)
    /\ t.local_confirmed_num = s.local_confirmed_num
    /\ t.remote_confirmed_nums = s.remote_confirmed_nums
    /\ t.reordering_confirms1 = s.reordering_confirms1
    /\ t.reordering_confirms2 = s.reordering_confirms2
    /\ t.panicked = s.panicked

\* The replies of DoCommit, when the log becomes `done`.
CommitReply(r, s, done, k) ==
    Datagram(s.requests[k].request.client,
             ReplyMsg(s.requests[k].request.num, Result(SubSeq(done, 1, k)),
                      s.requests[k].seq_num, r))

CommitReplies(r, s, done, first, last) ==
    {CommitReply(r, s, done, k) : k \in first..last}

\* A replica executes what is ordered, in this order, and replies.
LEMMA DoCommitDoes ==
  ASSUME NEW r \in Live, NEW s \in ReplicaFields, NEW last \in Nat,
         Len(s.app) <= last, last <= Len(s.requests),
         \A k \in 1..Len(s.app) : s.app[k] = s.requests[k].request,
         Honest(s, r),
         NEW t, t = DoCommit(r, s, Len(s.app) + 1, last)
  PROVE  /\ t \in ReplicaFields
         /\ Executes(s, t) /\ t.confirmed_num = s.confirmed_num
         /\ Len(t.app) = last
         /\ \A k \in 1..last : t.app[k] = s.requests[k].request
         /\ StartsWith(t.app, s.app)
         /\ Honest(t, r)
         /\ t.out = s.out \cup CommitReplies(r, s, t.app, Len(s.app) + 1, last)
<1>1. s.requests \in Seq(Signed) /\ s.app \in Seq(Requests)
      /\ s.out \in SUBSET Sent
  BY DEF ReplicaFields
<1>2. Len(s.requests) \in Nat /\ Len(s.app) \in Nat BY <1>1, LenProperties
<1> DEFINE first == Len(s.app) + 1
           done == s.app \o Inner(s, first, last)
           new == {CommitReply(r, s, done, k) : k \in first..last}
<1>3. first \in Nat \ {0} /\ first <= last + 1 BY <1>2
<1>4. /\ Inner(s, first, last) \in Seq(Requests)
      /\ Len(Inner(s, first, last)) = last - first + 1
      /\ \A k \in 1..last - first + 1 :
            Inner(s, first, last)[k] = s.requests[first + k - 1].request
  BY <1>1, <1>3, InnerType
<1>5. /\ done \in Seq(Requests) /\ Len(done) = last
      /\ \A k \in 1..last : done[k] = s.requests[k].request
      /\ StartsWith(done, s.app)
  <2>1. PICK w : w = Inner(s, first, last) OBVIOUS
  <2>2. w \in Seq(Requests) /\ Len(w) = last - first + 1 BY <1>4, <2>1
  <2>3. /\ s.app \o w \in Seq(Requests)
        /\ Len(s.app \o w) = Len(s.app) + Len(w)
        /\ \A k \in 1..Len(s.app) + Len(w) : (s.app \o w)[k] =
              IF k <= Len(s.app) THEN s.app[k] ELSE w[k - Len(s.app)]
    BY <1>1, <2>2, ConcatProperties
  <2>4. Len(s.app) + Len(w) = last BY <1>2, <2>2
  <2>5. done = s.app \o w BY <2>1
  <2>6. ASSUME NEW k \in 1..last PROVE done[k] = s.requests[k].request
    <3>1. CASE k <= Len(s.app)
      <4>1. k \in 1..Len(s.app) BY <1>2, <3>1
      <4>2. QED BY <2>3, <2>4, <2>5, <3>1, <4>1
    <3>2. CASE ~(k <= Len(s.app))
      <4>1. PICK l : l = k - Len(s.app) OBVIOUS
      <4>2. l \in 1..last - first + 1 /\ first + l - 1 = k
        <5>1. PICK a : a = Len(s.app) OBVIOUS
        <5>2. a \in Nat /\ k > a /\ l = k - a /\ first = a + 1
          BY <1>2, <3>2, <4>1, <5>1
        <5> HIDE DEF first
        <5>3. QED BY <5>2
      <4>3. w[l] = s.requests[k].request BY <1>4, <2>1, <4>2
      <4>4. QED BY <2>3, <2>4, <2>5, <3>2, <4>1, <4>3
    <3>3. QED BY <3>1, <3>2
  <2>7. StartsWith(done, s.app)
    <3>1. \A k \in 1..Len(s.app) : k \in 1..last /\ k <= Len(s.app) BY <1>2
    <3>2. \A k \in 1..Len(s.app) : done[k] = s.app[k]
      BY <2>3, <2>4, <2>5, <3>1
    <3>3. QED BY <2>3, <2>4, <2>5, <3>2 DEF StartsWith
  <2>8. QED BY <2>3, <2>4, <2>5, <2>6, <2>7
<1> HIDE DEF done
<1>6. t = [s EXCEPT !.app = done, !.out = @ \cup new]
  <2>1. ~(last > ordered_num(s)) BY <1>2 DEF ordered_num
  <2>2. \A k \in first..last : Len(s.app) + k - first + 1 = k BY <1>2
  <2>3. t = [s EXCEPT !.app = done, !.out = @ \cup
               {Datagram(s.requests[k].request.client,
                   ReplyMsg(s.requests[k].request.num,
                      Result(SubSeq(done, 1, Len(s.app) + k - first + 1)),
                      s.requests[k].seq_num, r)) : k \in first..last}]
    BY <2>1 DEF DoCommit, done
  <2>4. new = {Datagram(s.requests[k].request.client,
                   ReplyMsg(s.requests[k].request.num,
                      Result(SubSeq(done, 1, Len(s.app) + k - first + 1)),
                      s.requests[k].seq_num, r)) : k \in first..last}
    BY <2>2 DEF CommitReply
  <2>5. QED BY <2>3, <2>4
<1>7. ASSUME NEW d \in new
      PROVE  /\ d \in Sent
             /\ d.to \in Clients /\ d.msg \in Replies /\ d.msg.replica = r
             /\ Executed(done, d.to, d.msg.num, d.msg.result)
  <2>1. PICK k \in first..last : d = CommitReply(r, s, done, k) OBVIOUS
  <2>2. k \in 1..last /\ k \in 1..Len(s.requests) /\ k \in 0..Len(done)
    BY <1>2, <1>3, <1>5
  <2>3. PICK p : p = s.requests[k] OBVIOUS
  <2>4. p \in Signed BY <1>1, <2>2, <2>3, ElementOfSeq
  <2>5. p.request \in Requests /\ p.seq_num \in Nat BY <2>4 DEF Signed
  <2>6. p.request.client \in Clients /\ p.request.num \in 1..MaxRequestNum
        /\ p.request = Request(p.request.client, p.request.num)
    BY <2>5, RequestType
  <2>7. PICK res : res = Result(SubSeq(done, 1, k)) OBVIOUS
  <2>8. res \in Results
    <3>1. /\ SubSeq(done, 1, k) \in Seq(Requests)
          /\ Len(SubSeq(done, 1, k)) = k
      BY <1>5, <2>2, FirstOf
    <3>2. PICK w : w = SubSeq(done, 1, k) OBVIOUS
    <3>3. w \in Seq(Requests) /\ Len(w) > 0 BY <2>2, <3>1, <3>2
    <3>4. QED BY <2>7, <3>2, <3>3, ResultType
  <2>9. d = [to |-> p.request.client,
             msg |-> [kind |-> "Reply", num |-> p.request.num, result |-> res,
                      digest |-> p.seq_num, replica |-> r]]
    BY <2>1, <2>3, <2>7 DEF CommitReply, Datagram, ReplyMsg
  <2>10. d.msg \in Replies BY <2>5, <2>6, <2>8, <2>9 DEF Replies
  <2>11. d \in Sent
    <3>1. d = [to |-> d.to, msg |-> d.msg] BY <2>9
    <3>2. d.to \in Clients BY <2>6, <2>9
    <3>3. QED BY <2>10, <3>1, <3>2 DEF Sent
  <2>12. Executed(done, d.to, d.msg.num, d.msg.result)
    <3>1. done[k] = p.request BY <1>5, <2>2, <2>3
    <3>2. k \in 1..Len(done) BY <1>5, <2>2
    <3>3. done[k] = Request(d.to, d.msg.num) BY <2>6, <2>9, <3>1
    <3>4. Result(SubSeq(done, 1, k)) = d.msg.result BY <2>7, <2>9
    <3>5. QED BY <3>2, <3>3, <3>4 DEF Executed
  <2>13. QED BY <2>6, <2>9, <2>10, <2>11, <2>12
<1> HIDE DEF new
<1>8. t.app = done /\ t.out = s.out \cup new /\ t \in ReplicaFields
      /\ Executes(s, t) /\ t.confirmed_num = s.confirmed_num
  <2>1. s.out \cup new \in SUBSET Sent BY <1>1, <1>7
  <2>2. QED BY <1>5, <1>6, <2>1 DEF ReplicaFields, Executes, Counts
<1>9. Honest(t, r)
  <2>1. ASSUME NEW d \in s.out,
               ~(d.to \in Live /\ d.msg \in Asks /\ Lacks(s, d.msg))
        PROVE  /\ d.to \in Clients /\ d.msg \in Replies /\ d.msg.replica = r
               /\ Executed(done, d.to, d.msg.num, d.msg.result)
    <3>1. /\ d.to \in Clients /\ d.msg \in Replies /\ d.msg.replica = r
          /\ Executed(s.app, d.to, d.msg.num, d.msg.result)
      BY <2>1 DEF Honest
    <3>2. QED BY <1>1, <1>5, <3>1, ExecutedStays
  <2>2. \A m : Lacks(s, m) => Lacks(t, m)
    BY <1>8 DEF Lacks, Executes, Counts
  <2>3. QED BY <1>7, <1>8, <2>1, <2>2 DEF Honest
<1>10. t.out = s.out \cup CommitReplies(r, s, t.app, first, last)
  BY <1>8 DEF new, CommitReplies
<1>11. QED BY <1>5, <1>8, <1>9, <1>10

\* What a handler never does: it forgets no request, and of its assertions
\* only the one on digests may fail.
Steps(s, t, r, G) ==
    /\ StartsWith(t.requests, s.requests)
    /\ Len(s.app) <= Len(t.app)
    /\ t.local_confirmed_num = s.local_confirmed_num
    /\ t.remote_confirmed_nums[r] = s.remote_confirmed_nums[r]
    /\ s.panicked = "no" /\ Truthful(G, t.requests) => t.panicked = "no"

\* The assertion on the number of parked packets fails.
Crowded(s) == Cardinality(s.reordering_requests) >= QueryThreshold + 1000

Fine(s) == s.panicked = "no" \/ (s.panicked = "reordering" /\ Crowded(s))

\* The same for a handler that may park a packet.
Goes(s, t, r, G) ==
    /\ StartsWith(t.requests, s.requests)
    /\ Len(s.app) <= Len(t.app)
    /\ t.local_confirmed_num = s.local_confirmed_num
    /\ t.remote_confirmed_nums[r] = s.remote_confirmed_nums[r]
    /\ s.panicked = "no" /\ Truthful(G, t.requests) => Fine(t)

\* What n - f replicas confirmed is executed.
LEMMA DoUpdateDoes ==
  ASSUME NEW r \in Live, NEW s \in ReplicaFields, confirm, Executing(s),
         NEW caps, Backed(s, caps), Honest(s, r), s.panicked = "no",
         NEW t, t = DoUpdateConfirmNum(r, s)
  PROVE  /\ t \in ReplicaFields
         /\ Executes(s, t)
         /\ Executing(t) /\ Backed(t, caps) /\ Honest(t, r)
         /\ Len(s.app) <= Len(t.app)
<1>1. /\ s.requests \in Seq(Signed) /\ s.app \in Seq(Requests)
      /\ s.remote_confirmed_nums \in [Replicas -> Nat]
  BY DEF ReplicaFields
<1>2. Len(s.requests) \in Nat /\ Len(s.app) \in Nat BY <1>1, LenProperties
<1>3. PICK n : n = ConfirmedNum(s.remote_confirmed_nums) OBVIOUS
<1>4. PICK nums : nums = s.remote_confirmed_nums OBVIOUS
<1>5. /\ n \in Nat /\ \E i \in Replicas : n = nums[i]
      /\ Backing(nums, n)
      /\ \A b \in Nat : Backing(nums, b) => b <= n
  BY <1>1, <1>3, <1>4, ConfirmedNumBacked
<1>6. Len(s.app) = s.confirmed_num BY DEF Executing
<1>7. Len(s.app) <= n
  <2>1. Backing(nums, Len(s.app)) BY <1>4 DEF Backed
  <2>2. QED BY <1>2, <1>5, <2>1
<1>8. n <= Len(s.requests) BY <1>4, <1>5 DEF Backed
<1>9. ~(n < s.confirmed_num) BY <1>2, <1>5, <1>6, <1>7
<1>10. PICK u : u = DoCommit(r, s, Len(s.app) + 1, n) OBVIOUS
<1>11. t = [u EXCEPT !.confirmed_num = n]
  BY <1>3, <1>6, <1>9, <1>10 DEF DoUpdateConfirmNum
<1>12. \A k \in 1..Len(s.app) : s.app[k] = s.requests[k].request
  BY DEF Executing
<1>13. /\ u \in ReplicaFields
       /\ Executes(s, u) /\ u.confirmed_num = s.confirmed_num
       /\ Len(u.app) = n
       /\ \A k \in 1..n : u.app[k] = s.requests[k].request
       /\ StartsWith(u.app, s.app)
       /\ Honest(u, r)
  BY <1>5, <1>7, <1>8, <1>10, <1>12, DoCommitDoes
<1>14. /\ t \in ReplicaFields
       /\ t.app = u.app /\ t.out = u.out /\ t.confirmed_num = n
       /\ t.requests = s.requests /\ t.panicked = "no"
       /\ t.remote_confirmed_nums = nums
       /\ Executes(s, t)
  BY <1>4, <1>5, <1>11, <1>13 DEF ReplicaFields, Executes, Counts
<1>15. Executing(t) BY <1>8, <1>13, <1>14 DEF Executing
<1>16. Backed(t, caps) BY <1>4, <1>5, <1>13, <1>14 DEF Backed
<1>17. Honest(t, r)
  <2>1. \A m : Lacks(u, m) => Lacks(t, m)
    BY <1>13, <1>14 DEF Lacks, Executes, Counts
  <2>2. QED BY <1>13, <1>14, <2>1 DEF Honest
<1>18. QED BY <1>7, <1>13, <1>14, <1>15, <1>16, <1>17

\* Backed holds for every greater number of every replica.
LEMMA BackedGrows ==
  ASSUME NEW nums \in [Replicas -> Nat], NEW nums2 \in [Replicas -> Nat],
         \A i \in Replicas : nums[i] <= nums2[i], NEW b \in Nat,
         Backing(nums, b)
  PROVE  Backing(nums2, b)
<1>1. PICK T : T = {i \in Replicas : nums2[i] >= b} OBVIOUS
<1>2. PICK U : U = {i \in Replicas : nums[i] >= b} OBVIOUS
<1>3. T \in SUBSET Replicas /\ U \in SUBSET T
  <2>1. \A i \in Replicas : nums[i] \in Nat /\ nums2[i] \in Nat OBVIOUS
  <2>2. QED BY <1>1, <1>2, <2>1
<1>4. Cardinality(U) <= Cardinality(T) BY <1>3, CountLess
<1>5. U \in SUBSET Replicas BY <1>3
<1>6. Cardinality(U) \in Nat /\ Cardinality(T) \in Nat
      /\ Cardinality(Replicas) \in Nat
  BY <1>3, <1>5, CountType
<1>7. NumFaulty \in Nat BY ReplicasAssumption
<1>8. QED BY <1>1, <1>2, <1>4, <1>6, <1>7 DEF Backing

\* A Confirm that comes next is counted.
LEMMA DoConfirm2Fits ==
  ASSUME NEW r \in Live, NEW caps \in [Replicas -> Nat], NEW G,
         Gathered(G, r, caps), NEW s, NEW X, Fit(s, r, caps, G, X),
         s.panicked = "no", NEW m \in X,
         m.start = s.remote_confirmed_nums[m.replica] + 1,
         m.end <= Len(s.requests),
         NEW t, t = DoConfirm2(r, s, m)
  PROVE  /\ Fit(t, r, caps, G, X \ {m})
         /\ Counts(s, t) /\ Steps(s, t, r, G)
         /\ t.reordering_confirms1 = s.reordering_confirms1
         /\ t.reordering_confirms2 = s.reordering_confirms2
         /\ CountsOnly(s, t, m.replica)
<1>1. s \in ReplicaFields BY DEF Fit, Sizes
<1>2. /\ s.requests \in Seq(Signed) /\ s.app \in Seq(Requests)
      /\ s.remote_confirmed_nums \in [Replicas -> Nat]
  BY <1>1 DEF ReplicaFields
<1>3. Len(s.requests) \in Nat /\ Len(s.app) \in Nat BY <1>2, LenProperties
<1>4. m \in G BY DEF Fit, Pending
<1>5. /\ confirm /\ m \in Pledges /\ m.replica /= r
      /\ m.start <= m.end /\ m.end <= caps[m.replica]
  BY <1>4 DEF Gathered
<1>6. m.replica \in Replicas /\ m.end \in Nat /\ m.start \in Nat
      /\ m.digest \in Seq(Requests)
  BY <1>5, LiveAssumption DEF Pledges
<1>7. ~(m.end > ordered_num(s)) BY <1>3, <1>6 DEF ordered_num
<1>8. CASE m.digest /= Inner(s, m.start, m.end)
  <2>1. t = [s EXCEPT !.panicked = "digest"]
    BY <1>7, <1>8 DEF DoConfirm2, Panics
  <2>2. /\ t \in ReplicaFields /\ t.panicked = "digest"
        /\ t.requests = s.requests /\ t.app = s.app /\ t.out = s.out
        /\ t.verified_num = s.verified_num
        /\ t.confirmed_num = s.confirmed_num
        /\ t.local_confirmed_num = s.local_confirmed_num
        /\ t.remote_confirmed_nums = s.remote_confirmed_nums
        /\ t.reordering_requests = s.reordering_requests
        /\ t.reordering_confirms1 = s.reordering_confirms1
        /\ t.reordering_confirms2 = s.reordering_confirms2
        /\ t.seq_num_offset = s.seq_num_offset
    BY <1>1, <2>1 DEF ReplicaFields
  <2>3. ~Truthful(G, t.requests)
    BY <1>4, <1>7, <1>8, <2>2 DEF Truthful, Inner, ordered_num
  <2>4. Sizes(t) /\ Executing(t) /\ Backed(t, caps) /\ Honest(t, r)
    BY <2>2 DEF Fit, Sizes, Executing, Backed, Honest, Lacks
  <2>5. Pending(t, X \ {m}) \subseteq G /\ Ahead(t, X \ {m})
    BY <2>2 DEF Fit, Ahead, Pending
  <2>6. Gapped(t) BY <2>2 DEF Fit, Gapped, op_num, ordered_num
  <2>7. StartsWith(s.requests, s.requests) BY <1>2, StartsWithSelf
  <2>8. Counts(s, t) /\ Steps(s, t, r, G)
    BY <1>3, <2>2, <2>3, <2>7 DEF Counts, Steps
  <2>9. QED BY <2>2, <2>4, <2>5, <2>6, <2>8 DEF Fit, CountsOnly
<1>9. CASE m.digest = Inner(s, m.start, m.end)
  <2> DEFINE u == [s EXCEPT !.remote_confirmed_nums[m.replica] = m.end]
  <2>1. t = DoUpdateConfirmNum(r, u) BY <1>7, <1>9 DEF DoConfirm2
  <2>2. /\ u \in ReplicaFields /\ u.panicked = "no"
        /\ u.requests = s.requests /\ u.app = s.app /\ u.out = s.out
        /\ u.verified_num = s.verified_num
        /\ u.confirmed_num = s.confirmed_num
        /\ u.local_confirmed_num = s.local_confirmed_num
        /\ u.remote_confirmed_nums
              = [s.remote_confirmed_nums EXCEPT ![m.replica] = m.end]
        /\ u.reordering_requests = s.reordering_requests
        /\ u.reordering_confirms1 = s.reordering_confirms1
        /\ u.reordering_confirms2 = s.reordering_confirms2
        /\ u.seq_num_offset = s.seq_num_offset
    BY <1>1, <1>2, <1>6 DEF ReplicaFields
  <2> HIDE DEF u
  <2>3. /\ u.remote_confirmed_nums \in [Replicas -> Nat]
        /\ u.remote_confirmed_nums[m.replica] = m.end
        /\ \A i \in Replicas : i /= m.replica =>
              u.remote_confirmed_nums[i] = s.remote_confirmed_nums[i]
    BY <1>2, <1>6, <2>2
  <2>4. \A i \in Replicas :
           s.remote_confirmed_nums[i] <= u.remote_confirmed_nums[i]
    <3>1. s.remote_confirmed_nums[m.replica] <= m.end
      BY <1>2, <1>5, <1>6
    <3>2. \A i \in Replicas : s.remote_confirmed_nums[i] \in Nat BY <1>2
    <3>3. QED BY <2>3, <3>1, <3>2
  <2>5. Backed(u, caps)
    <3>1. Backing(s.remote_confirmed_nums, Len(s.app))
      BY <1>5 DEF Fit, Backed
    <3>2. Backing(u.remote_confirmed_nums, Len(s.app))
      BY <1>2, <1>3, <2>3, <2>4, <3>1, BackedGrows
    <3>3. \A i \in Replicas : /\ u.remote_confirmed_nums[i] <= caps[i]
                              /\ u.remote_confirmed_nums[i] <= Len(s.requests)
      <4>1. \A i \in Replicas : /\ s.remote_confirmed_nums[i] <= caps[i]
                                /\ s.remote_confirmed_nums[i] <= Len(s.requests)
        BY DEF Fit, Backed
      <4>2. QED BY <1>5, <2>3, <4>1
    <3>4. QED BY <2>2, <3>2, <3>3 DEF Backed
  <2>6. Executing(u) /\ Honest(u, r)
    BY <2>2 DEF Fit, Executing, Honest, Lacks
  <2>7. /\ t \in ReplicaFields
        /\ Executes(u, t)
        /\ Executing(t) /\ Backed(t, caps) /\ Honest(t, r)
        /\ Len(u.app) <= Len(t.app)
    BY <1>5, <2>1, <2>2, <2>5, <2>6, DoUpdateDoes
  <2>8. /\ t.panicked = "no" /\ t.requests = s.requests
        /\ t.verified_num = s.verified_num
        /\ t.local_confirmed_num = s.local_confirmed_num
        /\ t.remote_confirmed_nums = u.remote_confirmed_nums
        /\ t.reordering_requests = s.reordering_requests
        /\ t.reordering_confirms1 = s.reordering_confirms1
        /\ t.reordering_confirms2 = s.reordering_confirms2
        /\ t.seq_num_offset = s.seq_num_offset
    BY <2>2, <2>7 DEF Executes, Counts
  <2>9. Sizes(t) BY <2>7, <2>8 DEF Fit, Sizes
  <2>10. Ahead(t, X \ {m})
    <3>1. ASSUME NEW n \in Pending(s, X), n /= m
          PROVE  n.start > u.remote_confirmed_nums[n.replica]
      <4>1. n \in G BY DEF Fit
      <4>2. /\ n \in Pledges /\ n.start <= n.end /\ Apart(m, n)
        BY <1>4, <4>1 DEF Gathered
      <4>3. n.start \in Nat /\ n.end \in Nat /\ n.replica \in Replicas
        BY <4>2, LiveAssumption DEF Pledges
      <4>4. n.start > s.remote_confirmed_nums[n.replica] BY DEF Fit, Ahead
      <4>5. CASE n.replica = m.replica
        <5>1. m.end < n.start \/ n.end < m.start
          BY <3>1, <4>2, <4>5 DEF Apart
        <5>2. s.remote_confirmed_nums[m.replica] \in Nat BY <1>2, <1>6
        <5>3. ~(n.end < m.start) BY <4>2, <4>3, <4>4, <4>5, <5>2
        <5>4. QED BY <2>3, <4>5, <5>1, <5>3
      <4>6. CASE n.replica /= m.replica BY <2>3, <4>3, <4>4, <4>6
      <4>7. QED BY <4>5, <4>6
    <3>2. m \notin s.reordering_confirms1 /\ m \notin s.reordering_confirms2
      BY DEF Fit, Ahead
    <3>3. \A n \in Pending(t, X \ {m}) : n \in Pending(s, X) /\ n /= m
      BY <2>8, <3>2 DEF Pending
    <3>4. \A n \in Pending(t, X \ {m}) :
             n.start > t.remote_confirmed_nums[n.replica]
      BY <2>8, <3>1, <3>3
    <3>5. QED BY <2>8, <3>4 DEF Fit, Ahead
  <2>11. Pending(t, X \ {m}) \subseteq G BY <2>8 DEF Fit, Pending
  <2>12. Gapped(t) BY <2>8 DEF Fit, Gapped, op_num, ordered_num
  <2>13. StartsWith(s.requests, s.requests) BY <1>2, StartsWithSelf
  <2>14. t.remote_confirmed_nums[r] = s.remote_confirmed_nums[r]
    BY <1>5, <2>3, <2>8, LiveAssumption
  <2>15. Counts(s, t) /\ Steps(s, t, r, G)
    BY <2>2, <2>7, <2>8, <2>13, <2>14 DEF Counts, Steps
  <2>16. QED BY <2>3, <2>7, <2>8, <2>9, <2>10, <2>11, <2>12, <2>15
             DEF Fit, CountsOnly
<1>10. QED BY <1>8, <1>9

\* What is true of more requests is true of fewer.
LEMMA TruthfulEarlier ==
  ASSUME NEW G \in SUBSET Pledges, NEW p \in Seq(Signed), NEW q \in Seq(Signed),
         StartsWith(q, p), Truthful(G, q)
  PROVE  Truthful(G, p)
<1>1. Len(p) \in Nat /\ Len(q) \in Nat /\ Len(p) <= Len(q)
  BY LenProperties DEF StartsWith
<1>2. ASSUME NEW m \in G, m.end <= Len(p)
      PROVE  m.digest = [k \in 1..m.end - m.start + 1 |->
                            p[m.start + k - 1].request]
  <2>1. m.start \in Nat \ {0} /\ m.end \in Nat BY DEF Pledges
  <2>2. m.digest = [k \in 1..m.end - m.start + 1 |->
                            q[m.start + k - 1].request]
    BY <1>1, <1>2, <2>1 DEF Truthful
  <2>3. \A k \in 1..m.end - m.start + 1 : m.start + k - 1 \in 1..Len(p)
    BY <1>1, <1>2, <2>1
  <2>4. \A k \in 1..m.end - m.start + 1 : q[m.start + k - 1] = p[m.start + k - 1]
    BY <2>3 DEF StartsWith
  <2>5. QED BY <2>2, <2>4
<1>3. QED BY <1>2 DEF Truthful

\* Steps in a row.
LEMMA StepsTwice ==
  ASSUME NEW r, NEW G \in SUBSET Pledges, NEW s \in ReplicaFields,
         NEW t \in ReplicaFields, NEW u \in ReplicaFields,
         Steps(s, t, r, G), Steps(t, u, r, G)
  PROVE  Steps(s, u, r, G)
<1>1. /\ s.requests \in Seq(Signed) /\ t.requests \in Seq(Signed)
      /\ u.requests \in Seq(Signed)
      /\ s.app \in Seq(Requests) /\ t.app \in Seq(Requests)
      /\ u.app \in Seq(Requests)
  BY DEF ReplicaFields
<1>2. StartsWith(u.requests, s.requests) /\ StartsWith(u.requests, t.requests)
  BY <1>1, StartsWithMore DEF Steps
<1>3. Len(s.app) <= Len(u.app)
  <2>1. Len(s.app) \in Nat /\ Len(t.app) \in Nat /\ Len(u.app) \in Nat
    BY <1>1, LenProperties
  <2>2. QED BY <2>1 DEF Steps
<1>4. ASSUME s.panicked = "no", Truthful(G, u.requests) PROVE u.panicked = "no"
  <2>1. Truthful(G, t.requests) BY <1>1, <1>2, <1>4, TruthfulEarlier
  <2>2. QED BY <1>4, <2>1 DEF Steps
<1>5. QED BY <1>2, <1>3, <1>4 DEF Steps

\* A handler that parks no packet.
LEMMA StepsGo ==
  ASSUME NEW r, NEW G, NEW s, NEW t, Steps(s, t, r, G)
  PROVE  Goes(s, t, r, G)
BY DEF Steps, Goes, Fine

\* A handler that does nothing.
LEMMA StepsNot ==
  ASSUME NEW r, NEW G, NEW s \in ReplicaFields
  PROVE  Steps(s, s, r, G) /\ Counts(s, s)
<1>1. s.requests \in Seq(Signed) /\ s.app \in Seq(Requests)
  BY DEF ReplicaFields
<1>2. Len(s.app) \in Nat BY <1>1, LenProperties
<1>3. QED BY <1>1, <1>2, StartsWithSelf DEF Steps, Counts

\* s and t differ in parked Confirms only.
OnlyParks(s, t) ==
    /\ Counts(s, t)
    /\ t.local_confirmed_num = s.local_confirmed_num
    /\ t.remote_confirmed_nums = s.remote_confirmed_nums
    /\ t.confirmed_num = s.confirmed_num
    /\ t.app = s.app /\ t.out = s.out /\ t.panicked = s.panicked

\* Parked Confirms may be taken out, and Confirms in flight disappear.
LEMMA FitUnparked ==
  ASSUME NEW r, NEW caps, NEW G, NEW s, NEW X, Fit(s, r, caps, G, X),
         NEW t \in ReplicaFields, OnlyParks(s, t),
         t.reordering_confirms1 \subseteq s.reordering_confirms1,
         t.reordering_confirms2 \subseteq s.reordering_confirms2,
         NEW Y, Pending(t, Y) \subseteq Pending(s, X),
         Y \cap (t.reordering_confirms1 \cup t.reordering_confirms2) = {}
  PROVE  Fit(t, r, caps, G, Y)
<1>1. /\ t.requests = s.requests /\ t.seq_num_offset = s.seq_num_offset
      /\ t.reordering_requests = s.reordering_requests
      /\ t.verified_num = s.verified_num /\ t.confirmed_num = s.confirmed_num
      /\ t.local_confirmed_num = s.local_confirmed_num
      /\ t.remote_confirmed_nums = s.remote_confirmed_nums
      /\ t.app = s.app /\ t.out = s.out /\ t.panicked = s.panicked
  BY DEF OnlyParks, Counts
<1>2. Sizes(t) /\ Executing(t) /\ Backed(t, caps) /\ Honest(t, r)
  BY <1>1 DEF Fit, Sizes, Executing, Backed, Honest, Lacks
<1>3. Gapped(t) BY <1>1 DEF Fit, Gapped, op_num, ordered_num
<1>4. Pending(t, Y) \subseteq G BY DEF Fit
<1>5. Ahead(t, Y)
  <2>1. Ahead(s, X) BY DEF Fit
  <2>2. \A m \in Pending(t, Y) : m.start > t.remote_confirmed_nums[m.replica]
    BY <1>1, <2>1 DEF Ahead
  <2>3. QED BY <1>1, <2>1, <2>2 DEF Ahead
<1>6. QED BY <1>2, <1>3, <1>4, <1>5 DEF Fit

\* Nothing is left for the loop of do_confirm1.
Released(s, i) == s.panicked /= "no" \/ Follows(s, i) = {}

\* One turn of the loop of do_confirm1.
LEMMA ReleaseNextFits ==
  ASSUME NEW r \in Live, NEW caps \in [Replicas -> Nat], NEW G,
         Gathered(G, r, caps), NEW s, NEW X, Fit(s, r, caps, G, X),
         NEW i, NEW t, t = ReleaseNext(r, s, i)
  PROVE  /\ Fit(t, r, caps, G, X) /\ Counts(s, t) /\ Steps(s, t, r, G)
         /\ t.reordering_confirms1 = s.reordering_confirms1
         /\ t.reordering_confirms2 \subseteq s.reordering_confirms2
         /\ CountsOnly(s, t, i)
         /\ Released(s, i) => t = s
         /\ ~Released(s, i) => Cardinality(t.reordering_confirms2)
                                = Cardinality(s.reordering_confirms2) - 1
<1>1. s \in ReplicaFields BY DEF Fit, Sizes
<1>2. CASE Released(s, i)
  <2>1. t = s BY <1>2 DEF ReleaseNext, Released
  <2>2. QED BY <1>1, <1>2, <2>1, StepsNot DEF CountsOnly
<1>3. CASE ~Released(s, i)
  <2>1. s.panicked = "no" /\ Follows(s, i) /= {} BY <1>3 DEF Released
  <2>2. PICK m : m = CHOOSE x \in Follows(s, i) : TRUE OBVIOUS
  <2>3. m \in Follows(s, i) BY <2>1, <2>2
  <2>4. /\ m \in s.reordering_confirms2 /\ m.replica = i
        /\ m.start = s.remote_confirmed_nums[i] + 1
    BY <2>3 DEF Follows
  <2>5. PICK u : u = [s EXCEPT !.reordering_confirms2 = @ \ {m}] OBVIOUS
  <2>6. t = DoConfirm2(r, u, m) BY <2>1, <2>2, <2>5 DEF ReleaseNext
  <2>7. /\ u \in ReplicaFields /\ OnlyParks(s, u)
        /\ u.reordering_confirms1 = s.reordering_confirms1
        /\ u.reordering_confirms2 = s.reordering_confirms2 \ {m}
    BY <1>1, <2>5 DEF ReplicaFields, OnlyParks, Counts
  <2>8. Ahead(s, X) BY DEF Fit
  <2>9. m \notin X /\ m \notin s.reordering_confirms1 BY <2>4, <2>8 DEF Ahead
  <2>10. Fit(u, r, caps, G, X \cup {m})
    <3>1. Pending(u, X \cup {m}) \subseteq Pending(s, X)
      BY <2>4, <2>7 DEF Pending
    <3>2. (X \cup {m}) \cap
             (u.reordering_confirms1 \cup u.reordering_confirms2) = {}
      BY <2>7, <2>8, <2>9 DEF Ahead
    <3>3. QED BY <2>7, <3>1, <3>2, FitUnparked
  <2>11. /\ u.panicked = "no" /\ u.requests = s.requests
         /\ u.remote_confirmed_nums = s.remote_confirmed_nums
         /\ u.app = s.app /\ u.local_confirmed_num = s.local_confirmed_num
    BY <2>1, <2>7 DEF OnlyParks, Counts
  <2>12. m.end <= Len(u.requests) BY <2>4, <2>8, <2>11 DEF Ahead
  <2>13. m.start = u.remote_confirmed_nums[m.replica] + 1 BY <2>4, <2>11
  <2>14. /\ Fit(t, r, caps, G, (X \cup {m}) \ {m})
         /\ Counts(u, t) /\ Steps(u, t, r, G)
         /\ t.reordering_confirms1 = u.reordering_confirms1
         /\ t.reordering_confirms2 = u.reordering_confirms2
         /\ CountsOnly(u, t, m.replica)
    <3>1. PICK Y : Y = X \cup {m} OBVIOUS
    <3>2. m \in Y /\ Fit(u, r, caps, G, Y) BY <2>10, <3>1
    <3>3. QED BY <2>6, <2>11, <2>12, <2>13, <3>1, <3>2, DoConfirm2Fits
  <2>15. (X \cup {m}) \ {m} = X BY <2>9
  <2>16. Counts(s, t) BY <2>7, <2>14 DEF OnlyParks, Counts
  <2>17. Steps(s, t, r, G) BY <2>1, <2>11, <2>14 DEF Steps
  <2>18. Cardinality(t.reordering_confirms2)
           = Cardinality(s.reordering_confirms2) - 1
    <3>1. IsFiniteSet(G) /\ s.reordering_confirms2 \subseteq G
      BY DEF Fit, Pending, Gathered
    <3>2. IsFiniteSet(s.reordering_confirms2) BY <3>1, FS_Subset
    <3>3. Cardinality(s.reordering_confirms2 \ {m})
            = Cardinality(s.reordering_confirms2) - 1
      BY <2>4, <3>2, FS_RemoveElement
    <3>4. QED BY <2>7, <2>14, <3>3
  <2>19. QED BY <1>3, <2>4, <2>7, <2>11, <2>14, <2>15, <2>16, <2>17, <2>18
              DEF CountsOnly
<1>4. QED BY <1>2, <1>3

\* The loop of do_confirm1 takes one turn after the other.
LEMMA ReleaseTurns ==
  ASSUME NEW r, NEW s, NEW i, NEW N, N = Cardinality(s.reordering_confirms2),
         N \in Nat
  PROVE  \E f : /\ f[0] = s
                /\ \A n \in 1..N : f[n] = ReleaseNext(r, f[n - 1], i)
                /\ Release(r, s, i) = f[N]
<1> DEFINE Nth(f, n) == IF n = 0 THEN s ELSE ReleaseNext(r, f[n - 1], i)
           Run(f, k) == f = [n \in 0..k |-> Nth(f, n)]
<1>1. ASSUME NEW k \in Nat, NEW f, Run(f, k)
      PROVE  \E g : Run(g, k + 1)
  <2>1. PICK g : g = [n \in 0..k + 1 |-> IF n = k + 1 THEN Nth(f, n) ELSE f[n]]
    OBVIOUS
  <2>2. \A n \in 0..k : g[n] = f[n] /\ f[n] = Nth(f, n) BY <1>1, <2>1
  <2>3. ASSUME NEW n \in 0..k + 1 PROVE Nth(f, n) = Nth(g, n)
    <3>1. CASE n = 0 BY <3>1
    <3>2. CASE n /= 0
      <4>1. n - 1 \in 0..k BY <3>2
      <4>2. QED BY <2>2, <4>1
    <3>3. QED BY <3>1, <3>2
  <2>4. \A n \in 0..k + 1 : g[n] = Nth(f, n)
    <3>1. ASSUME NEW n \in 0..k + 1 PROVE g[n] = Nth(f, n)
      <4>1. CASE n = k + 1 BY <2>1, <4>1
      <4>2. CASE n /= k + 1
        <5>1. n \in 0..k BY <4>2
        <5>2. QED BY <2>2, <5>1
      <4>3. QED BY <4>1, <4>2
    <3>2. QED BY <3>1
  <2> HIDE DEF Nth
  <2>5. g = [n \in 0..k + 1 |-> g[n]] BY <2>1
  <2>6. g = [n \in 0..k + 1 |-> Nth(g, n)] BY <2>3, <2>4, <2>5
  <2>7. QED BY <2>6
<1>2. \A k \in Nat : \E f : Run(f, k)
  <2>1. PICK T : T = {k \in Nat : ~\E f : Run(f, k)} OBVIOUS
  <2>2. SUFFICES ASSUME T /= {} PROVE FALSE BY <2>1
  <2>3. PICK k \in T : \A l \in T : k <= l BY <2>1, <2>2, LeastNumber
  <2>4. CASE k = 0
    <3>1. PICK f : f = [n \in 0..0 |-> s] OBVIOUS
    <3>2. \A n \in 0..0 : Nth(f, n) = s OBVIOUS
    <3>3. Run(f, 0) BY <3>1, <3>2
    <3>4. QED BY <2>1, <2>4, <3>3
  <2>5. CASE k /= 0
    <3> HIDE DEF Run
    <3>1. k - 1 \in Nat /\ k - 1 \notin T /\ k = (k - 1) + 1
      <4>1. k \in Nat BY <2>1
      <4>2. k - 1 \in Nat /\ ~(k <= k - 1) /\ k = (k - 1) + 1 BY <2>5, <4>1
      <4>3. QED BY <2>3, <4>2
    <3>2. PICK f : Run(f, k - 1) BY <2>1, <3>1
    <3>3. \E g : Run(g, (k - 1) + 1) BY <1>1, <3>1, <3>2
    <3>4. QED BY <2>1, <3>1, <3>3
  <2>6. QED BY <2>4, <2>5
<1> DEFINE turns == Cardinality(s.reordering_confirms2)
           after[n \in 0..turns] ==
              IF n = 0 THEN s ELSE ReleaseNext(r, after[n - 1], i)
<1>3. Run(after, N)
  <2>1. \E f : f = [n \in 0..turns |-> Nth(f, n)] BY <1>2
  <2>2. QED BY <2>1
<1>4. Release(r, s, i) = after[N] BY DEF Release
<1> HIDE DEF after
<1>5. \A n \in 0..N : after[n] = Nth(after, n) BY <1>3
<1>6. \A n \in 1..N : n \in 0..N /\ n /= 0 OBVIOUS
<1>7. QED BY <1>4, <1>5, <1>6

\* The loop of do_confirm1 counts all Confirms of i that come next.
LEMMA ReleaseFits ==
  ASSUME NEW r \in Live, NEW caps \in [Replicas -> Nat], NEW G,
         Gathered(G, r, caps), NEW s, NEW X, Fit(s, r, caps, G, X),
         NEW i, NEW t, t = Release(r, s, i)
  PROVE  /\ Fit(t, r, caps, G, X) /\ Counts(s, t) /\ Steps(s, t, r, G)
         /\ t.reordering_confirms1 = s.reordering_confirms1
         /\ t.reordering_confirms2 \subseteq s.reordering_confirms2
         /\ CountsOnly(s, t, i)
         /\ Released(t, i)
<1>1. /\ IsFiniteSet(G) /\ \A m \in G : m \in Pledges
      /\ s.reordering_confirms2 \subseteq G
  BY DEF Fit, Pending, Gathered
<1>2. G \in SUBSET Pledges BY <1>1
<1>3. PICK N : N = Cardinality(s.reordering_confirms2) OBVIOUS
<1>4. N \in Nat BY <1>1, <1>3, FS_Subset, FS_CardinalityType
<1>5. PICK f : /\ f[0] = s
               /\ \A n \in 1..N : f[n] = ReleaseNext(r, f[n - 1], i)
               /\ Release(r, s, i) = f[N]
  BY <1>3, <1>4, ReleaseTurns
<1>6. s \in ReplicaFields BY DEF Fit, Sizes
<1> DEFINE Good(n) ==
              /\ Fit(f[n], r, caps, G, X) /\ Counts(s, f[n])
              /\ Steps(s, f[n], r, G)
              /\ f[n].reordering_confirms1 = s.reordering_confirms1
              /\ f[n].reordering_confirms2 \subseteq s.reordering_confirms2
              /\ CountsOnly(s, f[n], i)
              /\ \/ Released(f[n], i)
                 \/ Cardinality(f[n].reordering_confirms2) = N - n
<1>7. Good(0) BY <1>3, <1>4, <1>5, <1>6, StepsNot DEF CountsOnly
<1>8. ASSUME NEW n \in 1..N, Good(n - 1) PROVE Good(n)
  <2>1. PICK u : u = f[n - 1] OBVIOUS
  <2>2. PICK w : w = f[n] OBVIOUS
  <2>3. w = ReleaseNext(r, u, i) BY <1>5, <2>1, <2>2
  <2>4. /\ Fit(u, r, caps, G, X) /\ Counts(s, u) /\ Steps(s, u, r, G)
        /\ u.reordering_confirms1 = s.reordering_confirms1
        /\ u.reordering_confirms2 \subseteq s.reordering_confirms2
        /\ CountsOnly(s, u, i)
        /\ Released(u, i) \/ Cardinality(u.reordering_confirms2) = N - (n - 1)
    BY <1>8, <2>1
  <2>5. /\ Fit(w, r, caps, G, X) /\ Counts(u, w) /\ Steps(u, w, r, G)
        /\ w.reordering_confirms1 = u.reordering_confirms1
        /\ w.reordering_confirms2 \subseteq u.reordering_confirms2
        /\ CountsOnly(u, w, i)
        /\ Released(u, i) => w = u
        /\ ~Released(u, i) => Cardinality(w.reordering_confirms2)
                               = Cardinality(u.reordering_confirms2) - 1
    BY <2>3, <2>4, ReleaseNextFits
  <2>6. u \in ReplicaFields /\ w \in ReplicaFields
    BY <2>4, <2>5 DEF Fit, Sizes
  <2>7. Steps(s, w, r, G) BY <1>2, <1>6, <2>4, <2>5, <2>6, StepsTwice
  <2>8. Counts(s, w) /\ CountsOnly(s, w, i)
    BY <2>4, <2>5 DEF Counts, CountsOnly
  <2>9. Released(w, i) \/ Cardinality(w.reordering_confirms2) = N - n
    <3>1. CASE Released(u, i) BY <2>5, <3>1
    <3>2. CASE ~Released(u, i)
      <4>1. Cardinality(w.reordering_confirms2) = (N - (n - 1)) - 1
        BY <2>4, <2>5, <3>2
      <4>2. (N - (n - 1)) - 1 = N - n BY <1>4
      <4>3. QED BY <4>1, <4>2
    <3>3. QED BY <3>1, <3>2
  <2>10. QED BY <2>2, <2>4, <2>5, <2>7, <2>8, <2>9
<1> HIDE DEF Good
<1>9. \A n \in 0..N : Good(n)
  <2>1. PICK T : T = {n \in 0..N : ~Good(n)} OBVIOUS
  <2>2. SUFFICES ASSUME T /= {} PROVE FALSE BY <2>1
  <2>3. T \in SUBSET Nat
    <3>1. \A n \in 0..N : n \in Nat OBVIOUS
    <3>2. QED BY <2>1, <3>1
  <2>4. PICK n \in T : \A l \in T : n <= l BY <2>2, <2>3, LeastNumber
  <2>5. n /= 0 BY <1>7, <2>1
  <2>6. n \in 1..N /\ n - 1 \in 0..N BY <1>4, <2>1, <2>5
  <2>7. Good(n - 1) BY <2>1, <2>4, <2>6
  <2>8. QED BY <1>8, <2>1, <2>6, <2>7
<1>10. Good(N) BY <1>4, <1>9
<1>11. t = f[N] BY <1>5
<1>12. Released(t, i)
  <2>1. Released(t, i) \/ Cardinality(t.reordering_confirms2) = N - N
    BY <1>10, <1>11 DEF Good
  <2>2. CASE Cardinality(t.reordering_confirms2) = N - N
    <3>1. Cardinality(t.reordering_confirms2) = 0 BY <1>4, <2>2
    <3>2. t.reordering_confirms2 \subseteq s.reordering_confirms2
      BY <1>10, <1>11 DEF Good
    <3>3. IsFiniteSet(t.reordering_confirms2)
      <4>1. t.reordering_confirms2 \in SUBSET G BY <1>1, <3>2
      <4>2. QED BY <1>1, <4>1, FS_Subset
    <3>4. t.reordering_confirms2 = {} BY <3>1, <3>3, FS_EmptySet
    <3>5. QED BY <3>4 DEF Released, Follows
  <2>3. QED BY <2>1, <2>2
<1>13. QED BY <1>10, <1>11, <1>12 DEF Good

\* do_confirm1 counts the Confirm and those that waited for it, or parks it.
LEMMA DoConfirm1Fits ==
  ASSUME NEW r \in Live, NEW caps \in [Replicas -> Nat], NEW G,
         Gathered(G, r, caps), NEW s, NEW X, Fit(s, r, caps, G, X),
         Settled(s), s.panicked = "no", NEW m \in X,
         m.end <= Len(s.requests),
         NEW t, t = DoConfirm1(r, s, m)
  PROVE  /\ Fit(t, r, caps, G, X \ {m})
         /\ Counts(s, t) /\ Steps(s, t, r, G)
         /\ t.reordering_confirms1 = s.reordering_confirms1
         /\ Settled(t)
<1>1. s \in ReplicaFields BY DEF Fit, Sizes
<1>2. s.remote_confirmed_nums \in [Replicas -> Nat] BY <1>1 DEF ReplicaFields
<1>3. m \in G BY DEF Fit, Pending
<1>4. m \in Pledges /\ m.replica /= r BY <1>3 DEF Gathered
<1>5. m.replica \in Replicas /\ m.start \in Nat
  BY <1>4, LiveAssumption DEF Pledges
<1>6. PICK i : i = m.replica OBVIOUS
<1>7. PICK b : b = s.remote_confirmed_nums[i] OBVIOUS
<1>8. b \in Nat BY <1>2, <1>5, <1>6, <1>7
<1>9. ~(m.start <= b)
  <2>1. m.start > b BY <1>6, <1>7 DEF Fit, Ahead, Pending
  <2>2. QED BY <1>5, <1>8, <2>1
<1>10. Ahead(s, X) BY DEF Fit
<1>11. CASE m.start /= b + 1
  <2>1. t = [s EXCEPT !.reordering_confirms2 = @ \cup {m}]
    BY <1>6, <1>7, <1>9, <1>11 DEF DoConfirm1
  <2>2. /\ t \in ReplicaFields /\ OnlyParks(s, t)
        /\ t.reordering_confirms1 = s.reordering_confirms1
        /\ t.reordering_confirms2 = s.reordering_confirms2 \cup {m}
    <3>1. PICK C : C = s.reordering_confirms2 \cup {m} OBVIOUS
    <3>2. s.reordering_confirms2 \in SUBSET Pledges
      BY <1>1 DEF ReplicaFields
    <3>3. C \in SUBSET Pledges BY <1>4, <3>1, <3>2
    <3>4. t = [s EXCEPT !.reordering_confirms2 = C] BY <2>1, <3>1
    <3>5. QED BY <1>1, <3>1, <3>3, <3>4 DEF ReplicaFields, OnlyParks, Counts
  <2>3. /\ t.requests = s.requests /\ t.seq_num_offset = s.seq_num_offset
        /\ t.reordering_requests = s.reordering_requests
        /\ t.verified_num = s.verified_num /\ t.confirmed_num = s.confirmed_num
        /\ t.local_confirmed_num = s.local_confirmed_num
        /\ t.remote_confirmed_nums = s.remote_confirmed_nums
        /\ t.app = s.app /\ t.out = s.out /\ t.panicked = s.panicked
    BY <2>2 DEF OnlyParks, Counts
  <2>4. Sizes(t) /\ Executing(t) /\ Backed(t, caps) /\ Honest(t, r)
    BY <2>2, <2>3 DEF Fit, Sizes, Executing, Backed, Honest, Lacks
  <2>5. Gapped(t) BY <2>3 DEF Fit, Gapped, op_num, ordered_num
  <2>6. Pending(t, X \ {m}) \subseteq Pending(s, X) BY <2>2 DEF Pending
  <2>7. Ahead(t, X \ {m})
    <3>1. m \notin s.reordering_confirms1 BY <1>10 DEF Ahead
    <3>2. \A n \in Pending(t, X \ {m}) :
             n.start > t.remote_confirmed_nums[n.replica]
      BY <1>10, <2>3, <2>6 DEF Ahead
    <3>3. QED BY <1>10, <2>2, <2>3, <3>1, <3>2 DEF Ahead
  <2>8. Settled(t) BY <1>6, <1>7, <1>11, <2>2, <2>3 DEF Settled
  <2>9. s.requests \in Seq(Signed) /\ s.app \in Seq(Requests)
    BY <1>1 DEF ReplicaFields
  <2>10. Counts(s, t) /\ Steps(s, t, r, G)
    <3>1. Len(s.app) \in Nat BY <2>9, LenProperties
    <3>2. StartsWith(s.requests, s.requests) BY <2>9, StartsWithSelf
    <3>3. QED BY <2>3, <3>1, <3>2 DEF Counts, Steps
  <2>11. QED BY <2>2, <2>4, <2>5, <2>6, <2>7, <2>8, <2>10 DEF Fit
<1>12. CASE m.start = b + 1
  <2>1. PICK u : u = DoConfirm2(r, s, m) OBVIOUS
  <2>2. t = Release(r, u, i) BY <1>6, <1>7, <1>9, <1>12, <2>1 DEF DoConfirm1
  <2>3. PICK Y : Y = X \ {m} OBVIOUS
  <2>4. m.start = s.remote_confirmed_nums[m.replica] + 1
    BY <1>6, <1>7, <1>12
  <2>5. /\ Fit(u, r, caps, G, X \ {m})
        /\ Counts(s, u) /\ Steps(s, u, r, G)
        /\ u.reordering_confirms1 = s.reordering_confirms1
        /\ u.reordering_confirms2 = s.reordering_confirms2
        /\ CountsOnly(s, u, m.replica)
    BY <2>1, <2>4, DoConfirm2Fits
  <2>6. Fit(u, r, caps, G, Y) BY <2>3, <2>5
  <2>7. /\ Fit(t, r, caps, G, Y) /\ Counts(u, t) /\ Steps(u, t, r, G)
        /\ t.reordering_confirms1 = u.reordering_confirms1
        /\ t.reordering_confirms2 \subseteq u.reordering_confirms2
        /\ CountsOnly(u, t, i)
        /\ Released(t, i)
    BY <2>2, <2>6, ReleaseFits
  <2>8. u \in ReplicaFields /\ t \in ReplicaFields
    BY <2>6, <2>7 DEF Fit, Sizes
  <2>9. Steps(s, t, r, G)
    <3>1. G \in SUBSET Pledges BY DEF Gathered
    <3>2. QED BY <1>1, <2>5, <2>7, <2>8, <3>1, StepsTwice
  <2>10. Counts(s, t) BY <2>5, <2>7 DEF Counts
  <2>11. Settled(t)
    <3>1. SUFFICES ASSUME t.panicked = "no",
                          NEW n \in t.reordering_confirms2,
                          n.start = t.remote_confirmed_nums[n.replica] + 1
                   PROVE  FALSE
      BY DEF Settled
    <3>2. n.replica /= i BY <2>7, <3>1 DEF Released, Follows
    <3>3. n \in s.reordering_confirms2 BY <2>5, <2>7
    <3>4. n.replica \in Replicas
      <4>1. n \in Pledges BY <1>1, <3>3 DEF ReplicaFields
      <4>2. QED BY <4>1, LiveAssumption DEF Pledges
    <3>5. t.remote_confirmed_nums[n.replica] = s.remote_confirmed_nums[n.replica]
      BY <1>6, <2>5, <2>7, <3>2, <3>4 DEF CountsOnly
    <3>6. QED BY <3>1, <3>3, <3>5 DEF Settled
  <2>12. QED BY <2>3, <2>5, <2>7, <2>9, <2>10, <2>11
<1>13. QED BY <1>11, <1>12

\* Nothing is left for the loop of handle_request over waiting Confirms.
Confirmed(s, last) == s.panicked /= "no" \/ Due(s, last) = {}

\* One turn of the loop of handle_request over waiting Confirms.
LEMMA ConfirmNextFits ==
  ASSUME NEW r \in Live, NEW caps \in [Replicas -> Nat], NEW G,
         Gathered(G, r, caps), NEW s, NEW X, Fit(s, r, caps, G, X),
         Settled(s), NEW last \in Nat, last <= Len(s.requests),
         NEW t, t = ConfirmNext(r, s, last)
  PROVE  /\ Fit(t, r, caps, G, X) /\ Counts(s, t) /\ Steps(s, t, r, G)
         /\ Settled(t)
         /\ t.reordering_confirms1 \subseteq s.reordering_confirms1
         /\ Confirmed(s, last) => t = s
         /\ ~Confirmed(s, last) => Cardinality(t.reordering_confirms1)
                                = Cardinality(s.reordering_confirms1) - 1
<1>1. s \in ReplicaFields BY DEF Fit, Sizes
<1>2. CASE Confirmed(s, last)
  <2>1. t = s BY <1>2 DEF ConfirmNext, Confirmed
  <2>2. QED BY <1>1, <1>2, <2>1, StepsNot
<1>3. CASE ~Confirmed(s, last)
  <2>1. s.panicked = "no" /\ Due(s, last) /= {} BY <1>3 DEF Confirmed
  <2>2. PICK m : m = CHOOSE x \in Due(s, last) :
                        \A y \in Due(s, last) : x.end <= y.end
    OBVIOUS
  <2>3. s.reordering_confirms1 \subseteq G /\ IsFiniteSet(G)
        /\ \A x \in G : x \in Pledges
    BY DEF Fit, Pending, Gathered
  <2>4. m \in Due(s, last)
    <3>1. PICK T : T = {x.end : x \in Due(s, last)} OBVIOUS
    <3>2. \A x \in Due(s, last) : x.end \in Nat
      BY <2>3 DEF Due, Pledges
    <3>3. T \in SUBSET Nat /\ T /= {} BY <2>1, <3>1, <3>2
    <3>4. PICK n \in T : \A k \in T : n <= k BY <3>3, LeastNumber
    <3>5. PICK x \in Due(s, last) : n = x.end BY <3>1
    <3>6. \A y \in Due(s, last) : x.end <= y.end BY <3>1, <3>4, <3>5
    <3>7. QED BY <2>2, <3>6
  <2>5. /\ m \in s.reordering_confirms1 /\ m.end \in FirstDue(s)..last
    BY <2>4 DEF Due
  <2>6. PICK u : u = [s EXCEPT !.reordering_confirms1 = @ \ {m}] OBVIOUS
  <2>7. t = DoConfirm1(r, u, m) BY <2>1, <2>2, <2>6 DEF ConfirmNext
  <2>8. /\ u \in ReplicaFields /\ OnlyParks(s, u)
        /\ u.reordering_confirms1 = s.reordering_confirms1 \ {m}
        /\ u.reordering_confirms2 = s.reordering_confirms2
    BY <1>1, <2>6 DEF ReplicaFields, OnlyParks, Counts
  <2>9. Ahead(s, X) BY DEF Fit
  <2>10. m \notin X /\ m \notin s.reordering_confirms2
    BY <2>5, <2>9 DEF Ahead
  <2>11. PICK Y : Y = X \cup {m} OBVIOUS
  <2>12. Fit(u, r, caps, G, Y)
    <3>1. Pending(u, Y) \subseteq Pending(s, X)
      BY <2>5, <2>8, <2>11 DEF Pending
    <3>2. Y \cap (u.reordering_confirms1 \cup u.reordering_confirms2) = {}
      BY <2>8, <2>9, <2>10, <2>11 DEF Ahead
    <3>3. QED BY <2>8, <3>1, <3>2, FitUnparked
  <2>13. /\ u.panicked = "no" /\ u.requests = s.requests
         /\ u.remote_confirmed_nums = s.remote_confirmed_nums
         /\ u.app = s.app /\ u.local_confirmed_num = s.local_confirmed_num
    BY <2>1, <2>8 DEF OnlyParks, Counts
  <2>14. Settled(u) BY <2>1, <2>8, <2>13 DEF Settled
  <2>15. m.end <= Len(u.requests)
    <3>1. s.requests \in Seq(Signed) /\ s.verified_num \in Nat
      BY <1>1 DEF ReplicaFields
    <3>2. Len(s.requests) \in Nat BY <3>1, LenProperties
    <3>3. m.end <= last /\ m.end \in Int BY <2>5, <3>1 DEF FirstDue
    <3>4. QED BY <2>13, <3>2, <3>3
  <2>16. m \in Y BY <2>11
  <2>17. /\ Fit(t, r, caps, G, Y \ {m})
         /\ Counts(u, t) /\ Steps(u, t, r, G)
         /\ t.reordering_confirms1 = u.reordering_confirms1
         /\ Settled(t)
    BY <2>7, <2>12, <2>13, <2>14, <2>15, <2>16, DoConfirm1Fits
  <2>18. Y \ {m} = X BY <2>10, <2>11
  <2>19. Counts(s, t) BY <2>8, <2>17 DEF OnlyParks, Counts
  <2>20. Steps(s, t, r, G) BY <2>1, <2>13, <2>17 DEF Steps
  <2>21. Cardinality(t.reordering_confirms1)
           = Cardinality(s.reordering_confirms1) - 1
    <3>1. IsFiniteSet(s.reordering_confirms1) BY <2>3, FS_Subset
    <3>2. Cardinality(s.reordering_confirms1 \ {m})
            = Cardinality(s.reordering_confirms1) - 1
      BY <2>5, <3>1, FS_RemoveElement
    <3>3. QED BY <2>8, <2>17, <3>2
  <2>22. QED BY <1>3, <2>8, <2>17, <2>18, <2>19, <2>20, <2>21
<1>4. QED BY <1>2, <1>3

\* The loop of handle_request over waiting Confirms takes one
\* turn after the other.
LEMMA ConfirmTurns ==
  ASSUME NEW r, NEW s, NEW last, NEW N, N = Cardinality(s.reordering_confirms1),
         N \in Nat
  PROVE  \E f : /\ f[0] = s
                /\ \A n \in 1..N : f[n] = ConfirmNext(r, f[n - 1], last)
                /\ ConfirmAll(r, s, last) = f[N]
<1> DEFINE Nth(f, n) == IF n = 0 THEN s ELSE ConfirmNext(r, f[n - 1], last)
           Run(f, k) == f = [n \in 0..k |-> Nth(f, n)]
<1>1. ASSUME NEW k \in Nat, NEW f, Run(f, k)
      PROVE  \E g : Run(g, k + 1)
  <2>1. PICK g : g = [n \in 0..k + 1 |-> IF n = k + 1 THEN Nth(f, n) ELSE f[n]]
    OBVIOUS
  <2>2. \A n \in 0..k : g[n] = f[n] /\ f[n] = Nth(f, n) BY <1>1, <2>1
  <2>3. ASSUME NEW n \in 0..k + 1 PROVE Nth(f, n) = Nth(g, n)
    <3>1. CASE n = 0 BY <3>1
    <3>2. CASE n /= 0
      <4>1. n - 1 \in 0..k BY <3>2
      <4>2. QED BY <2>2, <4>1
    <3>3. QED BY <3>1, <3>2
  <2>4. \A n \in 0..k + 1 : g[n] = Nth(f, n)
    <3>1. ASSUME NEW n \in 0..k + 1 PROVE g[n] = Nth(f, n)
      <4>1. CASE n = k + 1 BY <2>1, <4>1
      <4>2. CASE n /= k + 1
        <5>1. n \in 0..k BY <4>2
        <5>2. QED BY <2>2, <5>1
      <4>3. QED BY <4>1, <4>2
    <3>2. QED BY <3>1
  <2> HIDE DEF Nth
  <2>5. g = [n \in 0..k + 1 |-> g[n]] BY <2>1
  <2>6. g = [n \in 0..k + 1 |-> Nth(g, n)] BY <2>3, <2>4, <2>5
  <2>7. QED BY <2>6
<1>2. \A k \in Nat : \E f : Run(f, k)
  <2>1. PICK T : T = {k \in Nat : ~\E f : Run(f, k)} OBVIOUS
  <2>2. SUFFICES ASSUME T /= {} PROVE FALSE BY <2>1
  <2>3. PICK k \in T : \A l \in T : k <= l BY <2>1, <2>2, LeastNumber
  <2>4. CASE k = 0
    <3>1. PICK f : f = [n \in 0..0 |-> s] OBVIOUS
    <3>2. \A n \in 0..0 : Nth(f, n) = s OBVIOUS
    <3>3. Run(f, 0) BY <3>1, <3>2
    <3>4. QED BY <2>1, <2>4, <3>3
  <2>5. CASE k /= 0
    <3> HIDE DEF Run
    <3>1. k - 1 \in Nat /\ k - 1 \notin T /\ k = (k - 1) + 1
      <4>1. k \in Nat BY <2>1
      <4>2. k - 1 \in Nat /\ ~(k <= k - 1) /\ k = (k - 1) + 1 BY <2>5, <4>1
      <4>3. QED BY <2>3, <4>2
    <3>2. PICK f : Run(f, k - 1) BY <2>1, <3>1
    <3>3. \E g : Run(g, (k - 1) + 1) BY <1>1, <3>1, <3>2
    <3>4. QED BY <2>1, <3>1, <3>3
  <2>6. QED BY <2>4, <2>5
<1> DEFINE turns == Cardinality(s.reordering_confirms1)
           after[n \in 0..turns] ==
              IF n = 0 THEN s ELSE ConfirmNext(r, after[n - 1], last)
<1>3. Run(after, N)
  <2>1. \E f : f = [n \in 0..turns |-> Nth(f, n)] BY <1>2
  <2>2. QED BY <2>1
<1>4. ConfirmAll(r, s, last) = after[N] BY DEF ConfirmAll
<1> HIDE DEF after
<1>5. \A n \in 0..N : after[n] = Nth(after, n) BY <1>3
<1>6. \A n \in 1..N : n \in 0..N /\ n /= 0 OBVIOUS
<1>7. QED BY <1>4, <1>5, <1>6

\* It counts or parks again all Confirms that waited for the requests verified.
LEMMA ConfirmAllFits ==
  ASSUME NEW r \in Live, NEW caps \in [Replicas -> Nat], NEW G,
         Gathered(G, r, caps), NEW s, NEW X, Fit(s, r, caps, G, X),
         Settled(s), NEW last \in Nat, last <= Len(s.requests),
         NEW t, t = ConfirmAll(r, s, last)
  PROVE  /\ Fit(t, r, caps, G, X) /\ Counts(s, t) /\ Steps(s, t, r, G)
         /\ Settled(t)
         /\ t.reordering_confirms1 \subseteq s.reordering_confirms1
         /\ Confirmed(t, last)
<1>1. /\ IsFiniteSet(G) /\ \A m \in G : m \in Pledges
      /\ s.reordering_confirms1 \subseteq G
  BY DEF Fit, Pending, Gathered
<1>2. G \in SUBSET Pledges BY <1>1
<1>3. PICK N : N = Cardinality(s.reordering_confirms1) OBVIOUS
<1>4. N \in Nat BY <1>1, <1>3, FS_Subset, FS_CardinalityType
<1>5. PICK f : /\ f[0] = s
               /\ \A n \in 1..N : f[n] = ConfirmNext(r, f[n - 1], last)
               /\ ConfirmAll(r, s, last) = f[N]
  BY <1>3, <1>4, ConfirmTurns
<1>6. s \in ReplicaFields BY DEF Fit, Sizes
<1> DEFINE Good(n) ==
              /\ Fit(f[n], r, caps, G, X) /\ Counts(s, f[n])
              /\ Steps(s, f[n], r, G)
              /\ Settled(f[n])
              /\ f[n].reordering_confirms1 \subseteq s.reordering_confirms1
              /\ \/ Confirmed(f[n], last)
                 \/ Cardinality(f[n].reordering_confirms1) = N - n
<1>7. Good(0) BY <1>3, <1>4, <1>5, <1>6, StepsNot
<1>8. ASSUME NEW n \in 1..N, Good(n - 1) PROVE Good(n)
  <2>1. PICK u : u = f[n - 1] OBVIOUS
  <2>2. PICK w : w = f[n] OBVIOUS
  <2>3. w = ConfirmNext(r, u, last) BY <1>5, <2>1, <2>2
  <2>4. /\ Fit(u, r, caps, G, X) /\ Counts(s, u) /\ Steps(s, u, r, G)
        /\ Settled(u)
        /\ u.reordering_confirms1 \subseteq s.reordering_confirms1
        /\ Confirmed(u, last) \/ Cardinality(u.reordering_confirms1) = N - (n - 1)
    BY <1>8, <2>1
  <2>5. /\ Fit(w, r, caps, G, X) /\ Counts(u, w) /\ Steps(u, w, r, G)
        /\ Settled(w)
        /\ w.reordering_confirms1 \subseteq u.reordering_confirms1
        /\ Confirmed(u, last) => w = u
        /\ ~Confirmed(u, last) => Cardinality(w.reordering_confirms1)
                               = Cardinality(u.reordering_confirms1) - 1
    <3>1. last <= Len(u.requests) BY <2>4 DEF Counts
    <3>2. QED BY <2>3, <2>4, <3>1, ConfirmNextFits
  <2>6. u \in ReplicaFields /\ w \in ReplicaFields
    BY <2>4, <2>5 DEF Fit, Sizes
  <2>7. Steps(s, w, r, G) BY <1>2, <1>6, <2>4, <2>5, <2>6, StepsTwice
  <2>8. Counts(s, w) BY <2>4, <2>5 DEF Counts
  <2>9. Confirmed(w, last) \/ Cardinality(w.reordering_confirms1) = N - n
    <3>1. CASE Confirmed(u, last) BY <2>5, <3>1
    <3>2. CASE ~Confirmed(u, last)
      <4>1. Cardinality(w.reordering_confirms1) = (N - (n - 1)) - 1
        BY <2>4, <2>5, <3>2
      <4>2. (N - (n - 1)) - 1 = N - n BY <1>4
      <4>3. QED BY <4>1, <4>2
    <3>3. QED BY <3>1, <3>2
  <2>10. QED BY <2>2, <2>4, <2>5, <2>7, <2>8, <2>9
<1> HIDE DEF Good
<1>9. \A n \in 0..N : Good(n)
  <2>1. PICK T : T = {n \in 0..N : ~Good(n)} OBVIOUS
  <2>2. SUFFICES ASSUME T /= {} PROVE FALSE BY <2>1
  <2>3. T \in SUBSET Nat
    <3>1. \A n \in 0..N : n \in Nat OBVIOUS
    <3>2. QED BY <2>1, <3>1
  <2>4. PICK n \in T : \A l \in T : n <= l BY <2>2, <2>3, LeastNumber
  <2>5. n /= 0 BY <1>7, <2>1
  <2>6. n \in 1..N /\ n - 1 \in 0..N BY <1>4, <2>1, <2>5
  <2>7. Good(n - 1) BY <2>1, <2>4, <2>6
  <2>8. QED BY <1>8, <2>1, <2>6, <2>7
<1>10. Good(N) BY <1>4, <1>9
<1>11. t = f[N] BY <1>5
<1>12. Confirmed(t, last)
  <2>1. Confirmed(t, last) \/ Cardinality(t.reordering_confirms1) = N - N
    BY <1>10, <1>11 DEF Good
  <2>2. CASE Cardinality(t.reordering_confirms1) = N - N
    <3>1. Cardinality(t.reordering_confirms1) = 0 BY <1>4, <2>2
    <3>2. t.reordering_confirms1 \subseteq s.reordering_confirms1
      BY <1>10, <1>11 DEF Good
    <3>3. IsFiniteSet(t.reordering_confirms1)
      <4>1. t.reordering_confirms1 \in SUBSET G BY <1>1, <3>2
      <4>2. QED BY <1>1, <4>1, FS_Subset
    <3>4. t.reordering_confirms1 = {} BY <3>1, <3>3, FS_EmptySet
    <3>5. QED BY <3>4 DEF Confirmed, Due
  <2>3. QED BY <2>1, <2>2
<1>13. QED BY <1>10, <1>11, <1>12 DEF Good
-----------------------------------------------------------------------------
(* Packets                                                                 *)

\* Operation numbers are natural numbers, wrapped around or not.
LEMMA OpNumType ==
  ASSUME NEW s, s.seq_num_offset \in Nat, NEW p \in Signed
  PROVE  op_num(s, p) \in Nat
<1>1. p.seq_num \in Nat BY DEF Signed
<1>2. p.seq_num - s.seq_num_offset + 1 \in Int BY <1>1
<1>3. \A n \in Int : n % 65536 \in Nat OBVIOUS
<1>4. QED BY <1>2, <1>3 DEF op_num, U32

\* Putting packets into order does not concern Confirms and execution.
OnlyOrders(s, t) ==
    /\ t.seq_num_offset = s.seq_num_offset
    /\ t.verified_num = s.verified_num /\ t.confirmed_num = s.confirmed_num
    /\ t.local_confirmed_num = s.local_confirmed_num
    /\ t.remote_confirmed_nums = s.remote_confirmed_nums
    /\ t.reordering_confirms1 = s.reordering_confirms1
    /\ t.reordering_confirms2 = s.reordering_confirms2
    /\ t.app = s.app /\ t.out = s.out /\ t.panicked = s.panicked

\* What is ordered from s to t was parked in s or is the packet p.
Orders(s, t, p) ==
    /\ StartsWith(t.requests, s.requests)
    /\ \A x \in t.reordering_requests : x \in s.reordering_requests \cup {p}
    /\ \A k \in 1..Len(t.requests) : k > Len(s.requests) =>
          /\ t.requests[k] \in s.reordering_requests \cup {p}
          /\ op_num(t, t.requests[k]) = k

\* The gap above what is ordered ends where no packet waits.
LEMMA GapExists ==
  ASSUME NEW s \in ReplicaFields, IsFiniteSet(s.reordering_requests),
         NEW first \in Nat
  PROVE  \E n \in first..first + Cardinality(s.reordering_requests) :
            /\ \A k \in first + 1..n :
                  \E x \in s.reordering_requests : op_num(s, x) = k
            /\ ~\E x \in s.reordering_requests : op_num(s, x) = n + 1
<1>1. PICK W : W = s.reordering_requests OBVIOUS
<1>2. PICK C : C = Cardinality(W) OBVIOUS
<1>3. C \in Nat BY <1>1, <1>2, FS_CardinalityType
<1> DEFINE held(k) == \E x \in W : op_num(s, x) = k
           T == {k \in Nat : ~held(first + k + 1)}
<1>4. \E k \in 0..C : ~held(first + k + 1)
  <2>1. SUFFICES ASSUME \A k \in 0..C : held(first + k + 1) PROVE FALSE
    OBVIOUS
  <2>2. PICK f : f = [k \in 0..C |-> CHOOSE x \in W : op_num(s, x) = first + k + 1]
    OBVIOUS
  <2>3. \A k \in 0..C : f[k] \in W /\ op_num(s, f[k]) = first + k + 1
    BY <2>1, <2>2
  <2>4. \A k, l \in 0..C : f[k] = f[l] => k = l
    <3>1. ASSUME NEW k \in 0..C, NEW l \in 0..C, f[k] = f[l] PROVE k = l
      <4>1. first + k + 1 = first + l + 1 BY <2>3, <3>1
      <4>2. QED BY <4>1
    <3>2. QED BY <3>1
  <2>5. f \in [0..C -> W] BY <2>2, <2>3
  <2>6. f \in Injection(0..C, W) BY <2>4, <2>5 DEF Injection, IsInjective
  <2>7. Cardinality(0..C) <= Cardinality(W) BY <1>1, <2>6, FS_Injection
  <2>8. Cardinality(0..C) = C + 1 BY <1>3, FS_Interval
  <2>9. QED BY <1>2, <1>3, <2>7, <2>8
<1>5. PICK b \in 0..C : ~held(first + b + 1) BY <1>4
<1> HIDE DEF held
<1>6. b \in T BY <1>5
<1>7. PICK d \in T : \A k \in T : d <= k BY <1>6, LeastNumber
<1>8. d \in Nat /\ d <= b /\ ~held(first + d + 1) BY <1>6, <1>7
<1>9. PICK n : n = first + d OBVIOUS
<1>10. n \in first..first + C /\ ~held(n + 1) BY <1>3, <1>5, <1>8, <1>9
<1>11. \A k \in first + 1..n : held(k)
  <2>1. SUFFICES ASSUME NEW k \in first + 1..n, ~held(k) PROVE FALSE OBVIOUS
  <2>2. PICK e : e = k - first - 1 OBVIOUS
  <2>3. e \in Nat /\ k = first + e + 1 /\ ~(d <= e) BY <1>8, <1>9, <2>2
  <2>4. e \in T BY <2>1, <2>3
  <2>5. QED BY <1>7, <2>3, <2>4
<1>12. QED BY <1>1, <1>2, <1>10, <1>11 DEF held

\* handle_request appends the packet and those that waited for it, and leaves
\* a gap below the others.
LEMMA OrderedDoes ==
  ASSUME NEW s \in ReplicaFields, IsFiniteSet(s.reordering_requests),
         \A x \in s.reordering_requests : op_num(s, x) > ordered_num(s) + 1,
         NEW p \in Signed, op_num(s, p) = ordered_num(s) + 1,
         NEW t, t = Ordered(s, p)
  PROVE  /\ t \in ReplicaFields /\ OnlyOrders(s, t) /\ Orders(s, t, p)
         /\ IsFiniteSet(t.reordering_requests)
         /\ t.reordering_requests \subseteq s.reordering_requests
         /\ Len(t.requests) > Len(s.requests)
         /\ \A x \in t.reordering_requests : op_num(t, x) > ordered_num(t) + 1
         /\ \A x \in s.reordering_requests \cup {p} :
               x \in t.reordering_requests \/ op_num(t, x) <= Len(t.requests)
<1>1. /\ s.requests \in Seq(Signed) /\ s.reordering_requests \in SUBSET Signed
      /\ s.seq_num_offset \in Nat
  BY DEF ReplicaFields
<1>2. PICK N : N = Len(s.requests) OBVIOUS
<1>3. N \in Nat BY <1>1, <1>2, LenProperties
<1> DEFINE first == ordered_num(s) + 1
           W == s.reordering_requests
           waiting(n) == {x \in W : op_num(s, x) = n}
           fine(n) == /\ \A k \in first + 1..n : waiting(k) /= {}
                      /\ waiting(n + 1) = {}
<1>4. first = N + 1 /\ first \in Nat BY <1>2, <1>3 DEF ordered_num
<1>5. PICK last : last = CHOOSE n \in first..first + Cardinality(W) : fine(n)
  OBVIOUS
<1>6. last \in first..first + Cardinality(W) /\ fine(last)
  <2>1. PICK n \in first..first + Cardinality(W) :
            /\ \A k \in first + 1..n :
                  \E x \in s.reordering_requests : op_num(s, x) = k
            /\ ~\E x \in s.reordering_requests : op_num(s, x) = n + 1
    BY <1>4, GapExists
  <2>2. fine(n) BY <2>1
  <2> HIDE DEF fine
  <2>3. QED BY <1>5, <2>2
<1>7. last \in Nat /\ first <= last
  <2>1. Cardinality(W) \in Nat BY FS_CardinalityType
  <2>2. QED BY <1>4, <1>6, <2>1
<1> DEFINE rest == [k \in 1..last - first |-> CHOOSE x \in waiting(first + k) : TRUE]
           new == <<p>> \o rest
<1>8. t = [s EXCEPT !.requests = @ \o new,
                    !.reordering_requests =
                       {x \in W : op_num(s, x) \notin first..last}]
  BY <1>5 DEF Ordered
<1>9. \A k \in 1..last - first : /\ rest[k] \in W
                                 /\ op_num(s, rest[k]) = first + k
  <2>1. ASSUME NEW k \in 1..last - first
        PROVE  rest[k] \in waiting(first + k)
    <3>1. first + k \in first + 1..last BY <1>4, <1>7
    <3>2. waiting(first + k) /= {} BY <1>6, <3>1
    <3> HIDE DEF waiting
    <3>3. QED BY <3>2
  <2>2. QED BY <2>1
<1>10. /\ new \in Seq(Signed) /\ Len(new) = last - N
       /\ \A k \in 1..last - N : /\ new[k] \in W \cup {p}
                                 /\ op_num(s, new[k]) = N + k
  <2>1. PICK q : q = rest OBVIOUS
  <2>2. q \in [1..last - first -> Signed] BY <1>1, <1>9, <2>1
  <2>3. last - first \in Nat BY <1>4, <1>7
  <2>4. q \in Seq(Signed) /\ Len(q) = last - first BY <2>2, <2>3, SeqOf
  <2>5. \A k \in 1..last - first : q[k] \in W /\ op_num(s, q[k]) = first + k
    BY <1>9, <2>1
  <2> HIDE DEF rest
  <2>6. PICK h : h = <<p>> OBVIOUS
  <2>7. h \in Seq(Signed) /\ Len(h) = 1 /\ h[1] = p
    <3>1. h \in [1..1 -> Signed] /\ h[1] = p BY <2>6
    <3>2. QED BY <3>1, SeqOf
  <2>8. /\ h \o q \in Seq(Signed) /\ Len(h \o q) = Len(h) + Len(q)
        /\ \A i \in 1 .. Len(h) + Len(q) : (h \o q)[i] =
                     IF i <= Len(h) THEN h[i] ELSE q[i - Len(h)]
    <3>1. h \in Seq(Signed) BY <2>7
    <3>2. q \in Seq(Signed) BY <2>4
    <3> HIDE <2>1, <2>6
    <3>3. QED BY ONLY <3>1, <3>2, ConcatProperties
  <2>9. new = h \o q BY <2>1, <2>6
  <2>10. Len(h) + Len(q) = last - N BY <1>3, <1>4, <1>7, <2>4, <2>7
  <2>11. ASSUME NEW k \in 1..last - N
         PROVE  new[k] \in W \cup {p} /\ op_num(s, new[k]) = N + k
    <3>1. CASE k = 1
      <4>1. new[k] = p BY <2>7, <2>8, <2>9, <2>10, <3>1
      <4>2. N + k = ordered_num(s) + 1 BY <1>2, <3>1 DEF ordered_num
      <4>3. QED BY <4>1, <4>2
    <3>2. CASE k /= 1
      <4>1. PICK l : l = k - 1 OBVIOUS
      <4>2. l \in 1..last - first /\ ~(k <= 1) /\ first + l = N + k
        BY <1>3, <1>4, <1>7, <3>2, <4>1
      <4>3. new[k] = q[l] BY <2>7, <2>8, <2>9, <2>10, <4>1, <4>2
      <4>4. QED BY <2>5, <4>2, <4>3
    <3>3. QED BY <3>1, <3>2
  <2>12. QED BY <2>8, <2>9, <2>10, <2>11
<1> HIDE DEF new, rest
<1>11. PICK req : req = s.requests \o new OBVIOUS
<1>12. /\ req \in Seq(Signed) /\ Len(req) = last
       /\ \A k \in 1..N : req[k] = s.requests[k]
       /\ \A k \in N + 1..last : /\ req[k] \in W \cup {p}
                                 /\ op_num(s, req[k]) = k
  <2>1. /\ req \in Seq(Signed) /\ Len(req) = N + Len(new)
        /\ \A i \in 1..N + Len(new) : req[i] =
              IF i <= N THEN s.requests[i] ELSE new[i - N]
    BY <1>1, <1>2, <1>10, <1>11, ConcatProperties
  <2>2. Len(req) = last BY <1>3, <1>4, <1>7, <1>10, <2>1
  <2>3. N + Len(new) = last BY <1>3, <1>4, <1>7, <1>10
  <2>4. \A k \in 1..N : k \in 1..last /\ k <= N BY <1>3, <1>4, <1>7
  <2>5. \A k \in N + 1..last :
           /\ k \in 1..last /\ ~(k <= N) /\ k - N \in 1..last - N
           /\ N + (k - N) = k
    BY <1>3, <1>4, <1>7
  <2>6. \A k \in N + 1..last : req[k] = new[k - N] BY <2>1, <2>3, <2>5
  <2>7. QED BY <1>10, <2>1, <2>2, <2>3, <2>4, <2>5, <2>6
<1>13. PICK V : V = {x \in W : op_num(s, x) \notin first..last} OBVIOUS
<1>14. V \in SUBSET Signed /\ V \subseteq W /\ IsFiniteSet(V)
  <2>1. V \in SUBSET W BY <1>13
  <2>2. QED BY <1>1, <2>1, FS_Subset
<1>15. /\ t \in ReplicaFields /\ OnlyOrders(s, t)
       /\ t.requests = req /\ t.reordering_requests = V
  <2>1. t = [s EXCEPT !.requests = req, !.reordering_requests = V]
    BY <1>8, <1>11, <1>13
  <2>2. QED BY <1>12, <1>14, <2>1 DEF ReplicaFields, OnlyOrders
<1>16. \A x : op_num(t, x) = op_num(s, x) BY <1>15 DEF op_num, OnlyOrders
<1>17. Orders(s, t, p)
  <2>1. StartsWith(t.requests, s.requests)
    BY <1>2, <1>3, <1>4, <1>7, <1>12, <1>15 DEF StartsWith
  <2>2. ASSUME NEW k \in 1..Len(t.requests), k > Len(s.requests)
        PROVE  k \in N + 1..last
    BY <1>2, <1>3, <1>12, <1>15, <2>2
  <2>3. QED BY <1>12, <1>14, <1>15, <1>16, <2>1, <2>2 DEF Orders
<1>18. \A x \in V : op_num(s, x) > last + 1
  <2>1. ASSUME NEW x \in V PROVE op_num(s, x) > last + 1
    <3>1. x \in W /\ op_num(s, x) \notin first..last BY <1>13
    <3>2. op_num(s, x) > first BY <3>1
    <3>3. op_num(s, x) /= last + 1 BY <1>6, <3>1
    <3>4. op_num(s, x) \in Nat BY <1>1, <3>1, OpNumType
    <3>5. PICK o : o = op_num(s, x) OBVIOUS
    <3>6. o \in Nat /\ o > first /\ o /= last + 1 /\ ~(o \in first..last)
      BY <3>1, <3>2, <3>3, <3>4, <3>5
    <3> HIDE DEF first
    <3>7. o > last + 1 BY <1>4, <1>7, <3>6
    <3>8. QED BY <3>5, <3>7
  <2>2. QED BY <2>1
<1>19. \A x \in t.reordering_requests : op_num(t, x) > ordered_num(t) + 1
  BY <1>12, <1>15, <1>16, <1>18 DEF ordered_num
<1>20. Len(t.requests) > Len(s.requests)
  BY <1>2, <1>3, <1>4, <1>7, <1>12, <1>15
<1>21. ASSUME NEW x \in W \cup {p}
       PROVE  x \in V \/ op_num(s, x) <= last
  <2>1. CASE x = p BY <1>4, <1>7, <2>1
  <2>2. CASE x \in W /\ op_num(s, x) \in first..last BY <1>4, <1>7, <2>2
  <2>3. CASE x \in W /\ op_num(s, x) \notin first..last BY <1>13, <2>3
  <2>4. QED BY <2>1, <2>2, <2>3
<1>22. \A x \in s.reordering_requests \cup {p} :
          x \in t.reordering_requests \/ op_num(t, x) <= Len(t.requests)
  BY <1>12, <1>15, <1>16, <1>21
<1>23. QED BY <1>14, <1>15, <1>17, <1>19, <1>20, <1>22

\* The last verified request is not before an earlier one, and ordered; no new
\* one behind it is verified.
LEMMA VerifiedNumType ==
  ASSUME NEW s, s.verified_num \in Nat, NEW t, NEW N, N = Len(t.requests),
         NEW L, L = Len(s.requests), N \in Nat, L \in Nat, L <= N,
         s.verified_num <= L, NEW v, v = VerifiedNum(s, t)
  PROVE  /\ v \in Nat /\ s.verified_num <= v /\ v <= N
         /\ \A k \in L + 1..N : verified(t.requests[k]) => k <= v
<1>1. PICK new : new = {k \in L + 1..N : verified(t.requests[k])} OBVIOUS
<1>2. v = IF new = {} THEN s.verified_num
          ELSE CHOOSE k \in new : \A l \in new : l <= k
  BY <1>1 DEF VerifiedNum, ordered_num
<1>3. CASE new = {} BY <1>1, <1>2, <1>3
<1>4. CASE new /= {}
  <2>1. new \in SUBSET Nat /\ \A k \in new : k <= N /\ L < k BY <1>1
  <2>2. \E k \in new : \A l \in new : l <= k BY <1>4, <2>1, GreatestNumber
  <2>3. v \in new
    <3>1. v = CHOOSE k \in new : \A l \in new : l <= k BY <1>2, <1>4
    <3> HIDE <1>1
    <3>2. QED BY <2>2, <3>1
  <2>4. \A l \in new : l <= v
    <3>1. v = CHOOSE k \in new : \A l \in new : l <= k BY <1>2, <1>4
    <3> HIDE <1>1
    <3>2. QED BY <2>2, <3>1
  <2>5. QED BY <1>1, <2>1, <2>3, <2>4
<1>5. QED BY <1>3, <1>4

\* Of the packets numbered like x, one is ordered or parked.
Retained(s, x) ==
    \/ op_num(s, x) <= Len(s.requests)
    \/ \E y \in s.reordering_requests : y.seq_num = x.seq_num

\* No ordered request is verified behind verified_num.
Marked(s) ==
    \A k \in 1..Len(s.requests) :
        verified(s.requests[k]) => k <= s.verified_num

\* From s to t, nothing is executed and nothing but Queries sent.
OnlyAsks(s, t) ==
    /\ t.verified_num = s.verified_num /\ t.app = s.app
    /\ \A d \in t.out : d \in s.out \/ d.msg \in Asks
    /\ \A d \in s.out : d \in t.out

\* What is executed from s to t is answered, and nothing else.
Replying(r, s, t) ==
    LET new == CommitReplies(r, t, t.app, Len(s.app) + 1, Len(t.app))
    IN  /\ \A d \in t.out : d \in s.out \/ d.msg \in Asks \/ d \in new
        /\ \A d \in new : d \in t.out

\* A handler that received the packets P, one or none, keeps or executes them.
Yields(r, s, t, P) ==
    /\ \A x \in s.reordering_requests \cup P : Retained(t, x)
    /\ Marked(s) => Marked(t)
    /\ ~confirm => Replying(r, s, t)

\* Without executing anything it answers nothing.
LEMMA AsksReplying ==
  ASSUME NEW r, NEW s \in ReplicaFields, NEW t, OnlyAsks(s, t)
  PROVE  Replying(r, s, t)
<1>1. Len(s.app) \in Nat /\ t.app = s.app
  BY LenProperties DEF ReplicaFields, OnlyAsks
<1>2. ~\E k \in Len(s.app) + 1..Len(t.app) : TRUE BY <1>1
<1>3. CommitReplies(r, t, t.app, Len(s.app) + 1, Len(t.app)) = {}
  BY <1>2 DEF CommitReplies
<1>4. QED BY <1>3 DEF OnlyAsks, Replying

\* Two states agree in what concerns Confirms and execution.
LEMMA FitOrders ==
  ASSUME NEW r, NEW caps, NEW G, NEW s, NEW X, Fit(s, r, caps, G, X),
         NEW t \in ReplicaFields,
         t.verified_num = s.verified_num, t.confirmed_num = s.confirmed_num,
         t.local_confirmed_num = s.local_confirmed_num,
         t.remote_confirmed_nums = s.remote_confirmed_nums,
         t.reordering_confirms1 = s.reordering_confirms1,
         t.reordering_confirms2 = s.reordering_confirms2,
         t.app = s.app, t.out = s.out, t.panicked = s.panicked,
         StartsWith(t.requests, s.requests),
         \A m \in Asks : Lacks(s, m) => Lacks(t, m),
         IsFiniteSet(t.reordering_requests), Gapped(t)
  PROVE  Fit(t, r, caps, G, X)
<1>1. PICK M : M = Len(s.requests) OBVIOUS
<1>2. PICK N : N = Len(t.requests) OBVIOUS
<1>3. PICK A : A = Len(s.app) OBVIOUS
<1>4. s \in ReplicaFields BY DEF Fit, Sizes
<1>5. /\ s.requests \in Seq(Signed) /\ t.requests \in Seq(Signed)
      /\ s.app \in Seq(Requests)
  BY <1>4 DEF ReplicaFields
<1>6. M \in Nat /\ N \in Nat /\ A \in Nat BY <1>1, <1>2, <1>3, <1>5, LenProperties
<1>7. M <= N /\ \A k \in 1..M : t.requests[k] = s.requests[k]
  BY <1>1, <1>2 DEF StartsWith
<1>8. Sizes(t)
  <2>1. s.verified_num <= M /\ s.local_confirmed_num <= M
    BY <1>1 DEF Fit, Sizes
  <2>2. s.verified_num \in Nat /\ s.local_confirmed_num \in Nat
    BY <1>4 DEF ReplicaFields
  <2>3. s.verified_num <= N /\ s.local_confirmed_num <= N
    BY <1>6, <1>7, <2>1, <2>2
  <2>4. QED BY <1>2, <2>3 DEF Sizes
<1>9. Executing(t)
  <2>1. A <= M /\ \A k \in 1..A : s.app[k] = s.requests[k].request
    BY <1>1, <1>3 DEF Fit, Executing
  <2>2. \A k \in 1..A : k \in 1..M BY <1>6, <2>1
  <2>3. A <= N BY <1>6, <1>7, <2>1
  <2>4. \A k \in 1..A : t.app[k] = t.requests[k].request BY <1>7, <2>1, <2>2
  <2>5. t.panicked /= "digest" =>
          Len(t.app) = IF confirm THEN t.confirmed_num ELSE t.verified_num
    BY DEF Fit, Executing
  <2>6. ~confirm => t.confirmed_num = 0 BY DEF Fit, Executing
  <2>7. QED BY <1>2, <1>3, <2>3, <2>4, <2>5, <2>6 DEF Executing
<1>10. Backed(t, caps)
  <2>1. \A i \in Replicas : /\ s.remote_confirmed_nums[i] <= caps[i]
                            /\ s.remote_confirmed_nums[i] <= M
    BY <1>1 DEF Fit, Backed
  <2>2. \A i \in Replicas : s.remote_confirmed_nums[i] \in Nat
    BY <1>4 DEF ReplicaFields
  <2>3. \A i \in Replicas : s.remote_confirmed_nums[i] <= N
    BY <1>6, <1>7, <2>1, <2>2
  <2>4. confirm => Backing(t.remote_confirmed_nums, Len(t.app))
    BY DEF Fit, Backed
  <2>5. QED BY <1>2, <2>1, <2>3, <2>4 DEF Backed
<1>11. Pending(t, X) = Pending(s, X) BY DEF Pending
<1>12. Ahead(t, X)
  <2>1. /\ s.reordering_confirms1 \cap s.reordering_confirms2 = {}
        /\ X \cap (s.reordering_confirms1 \cup s.reordering_confirms2) = {}
        /\ \A m \in Pending(s, X) : m.start > s.remote_confirmed_nums[m.replica]
        /\ s.panicked = "no" =>
              \A m \in s.reordering_confirms1 : m.end > s.verified_num
        /\ \A m \in s.reordering_confirms2 : m.end <= M
    BY <1>1 DEF Fit, Ahead
  <2>2. \A m \in s.reordering_confirms2 : m.end \in Nat
    BY <1>4 DEF ReplicaFields, Pledges
  <2>3. \A m \in s.reordering_confirms2 : m.end <= N
    BY <1>6, <1>7, <2>1, <2>2
  <2>4. QED BY <1>2, <1>11, <2>1, <2>3 DEF Ahead
<1>13. Honest(t, r) BY DEF Fit, Honest
<1>14. Pending(t, X) \subseteq G BY <1>11 DEF Fit
<1>15. QED BY <1>8, <1>9, <1>10, <1>12, <1>13, <1>14 DEF Fit

\* A Query changes nothing else.
LEMMA DoQueryFits ==
  ASSUME NEW r \in Live, NEW caps, NEW G, NEW s, NEW X,
         Fit(s, r, caps, G, X), Settled(s), s.reordering_requests /= {},
         NEW t, t = DoQuery(r, s)
  PROVE  /\ Fit(t, r, caps, G, X) /\ Settled(t) /\ Steps(s, t, r, G)
         /\ t.requests = s.requests /\ t.seq_num_offset = s.seq_num_offset
         /\ t.reordering_requests = s.reordering_requests
         /\ OnlyAsks(s, t)
<1>1. s \in ReplicaFields /\ s.requests \in Seq(Signed)
      /\ s.out \in SUBSET Sent
  BY DEF Fit, Sizes, ReplicaFields
<1>2. PICK O : O = SendTo(Peers(r), QueryMsg(r, ordered_num(s) + 1)) OBVIOUS
<1>3. \A d \in O : d.to \in Live /\ d.msg \in Asks /\ d \in Sent /\ Lacks(s, d.msg)
  <2>1. ordered_num(s) + 1 \in Nat \ {0}
    <3>1. Len(s.requests) \in Nat BY <1>1, LenProperties
    <3>2. QED BY <3>1 DEF ordered_num
  <2>2. QueryMsg(r, ordered_num(s) + 1) \in Asks BY <2>1 DEF QueryMsg, Asks
  <2>3. \A d \in O : d.msg = QueryMsg(r, ordered_num(s) + 1)
    BY <1>2 DEF SendTo, Datagram
  <2>4. Lacks(s, QueryMsg(r, ordered_num(s) + 1))
    BY <2>1 DEF Lacks, QueryMsg, ordered_num
  <2>5. QED BY <1>2, <2>2, <2>3, <2>4 DEF SendTo, Peers, Datagram, Sent
<1>4. PICK P : P = s.out \cup O OBVIOUS
<1>5. P \in SUBSET Sent BY <1>1, <1>3, <1>4
<1>6. t = [s EXCEPT !.out = P] BY <1>2, <1>4 DEF DoQuery
<1>7. /\ t \in ReplicaFields /\ OnlyParks(s, [t EXCEPT !.out = s.out])
      /\ t.out = P
      /\ t.requests = s.requests /\ t.seq_num_offset = s.seq_num_offset
      /\ t.reordering_requests = s.reordering_requests
      /\ t.verified_num = s.verified_num /\ t.confirmed_num = s.confirmed_num
      /\ t.local_confirmed_num = s.local_confirmed_num
      /\ t.remote_confirmed_nums = s.remote_confirmed_nums
      /\ t.reordering_confirms1 = s.reordering_confirms1
      /\ t.reordering_confirms2 = s.reordering_confirms2
      /\ t.app = s.app /\ t.panicked = s.panicked
  BY <1>1, <1>5, <1>6 DEF ReplicaFields, OnlyParks, Counts
<1>8. Pending(t, X) = Pending(s, X) BY <1>7 DEF Pending
<1>9. Honest(t, r)
  <2>1. \A d \in P : d \in s.out \/ d \in O BY <1>4
  <2>2. \A m : Lacks(s, m) => Lacks(t, m) BY <1>7 DEF Lacks
  <2>3. QED BY <1>3, <1>7, <2>1, <2>2 DEF Fit, Honest
<1>10. Fit(t, r, caps, G, X)
  <2>1. Sizes(t) BY <1>7 DEF Fit, Sizes
  <2>2. Executing(t) BY <1>7 DEF Fit, Executing
  <2>3. Backed(t, caps) BY <1>7 DEF Fit, Backed
  <2>4. Ahead(t, X) BY <1>7, <1>8 DEF Fit, Ahead
  <2>5. Gapped(t) BY <1>7 DEF Fit, Gapped, op_num, ordered_num
  <2>6. QED BY <1>8, <1>9, <2>1, <2>2, <2>3, <2>4, <2>5 DEF Fit
<1>11. Settled(t) BY <1>7 DEF Settled
<1>12. Steps(s, t, r, G)
  <2>1. Steps(s, s, r, G) BY <1>1, StepsNot
  <2>2. QED BY <1>7, <2>1 DEF Steps
<1>13. OnlyAsks(s, t) BY <1>3, <1>4, <1>7 DEF OnlyAsks
<1>14. QED BY <1>7, <1>10, <1>11, <1>12, <1>13

\* Too many packets are put aside.
LEMMA CrowdedFits ==
  ASSUME NEW r, NEW caps, NEW G, NEW s, NEW X, Fit(s, r, caps, G, X),
         Crowded(s), s.panicked = "no", NEW t, t = Panics(s, "reordering")
  PROVE  /\ Fit(t, r, caps, G, X) /\ Settled(t) /\ Goes(s, t, r, G)
         /\ t.requests = s.requests /\ t.seq_num_offset = s.seq_num_offset
         /\ t.reordering_requests = s.reordering_requests
         /\ OnlyAsks(s, t)
<1>1. s \in ReplicaFields BY DEF Fit, Sizes
<1>2. /\ t \in ReplicaFields /\ t.panicked = "reordering"
      /\ t.requests = s.requests /\ t.seq_num_offset = s.seq_num_offset
      /\ t.reordering_requests = s.reordering_requests
      /\ t.verified_num = s.verified_num /\ t.confirmed_num = s.confirmed_num
      /\ t.local_confirmed_num = s.local_confirmed_num
      /\ t.remote_confirmed_nums = s.remote_confirmed_nums
      /\ t.reordering_confirms1 = s.reordering_confirms1
      /\ t.reordering_confirms2 = s.reordering_confirms2
      /\ t.app = s.app /\ t.out = s.out
  BY <1>1 DEF ReplicaFields, Panics
<1>3. Pending(t, X) = Pending(s, X) BY <1>2 DEF Pending
<1>4. Fit(t, r, caps, G, X)
  <2>1. Sizes(t) BY <1>2 DEF Fit, Sizes
  <2>2. Executing(t) BY <1>2 DEF Fit, Executing
  <2>3. Backed(t, caps) BY <1>2 DEF Fit, Backed
  <2>4. Ahead(t, X) BY <1>2, <1>3 DEF Fit, Ahead
  <2>5. Gapped(t) BY <1>2 DEF Fit, Gapped, op_num, ordered_num
  <2>6. Honest(t, r) BY <1>2 DEF Fit, Honest, Lacks
  <2>7. QED BY <1>3, <2>1, <2>2, <2>3, <2>4, <2>5, <2>6 DEF Fit
<1>5. Settled(t) BY <1>2 DEF Settled
<1>6. Goes(s, t, r, G)
  <2>1. Steps(s, s, r, G) BY <1>1, StepsNot
  <2>2. Fine(t) BY <1>2 DEF Fine, Crowded
  <2>3. QED BY <1>2, <2>1, <2>2 DEF Steps, Goes
<1>7. OnlyAsks(s, t) BY <1>2 DEF OnlyAsks
<1>8. QED BY <1>2, <1>4, <1>5, <1>6, <1>7

\* A packet behind a gap is put aside.
LEMMA ParkedFits ==
  ASSUME NEW r \in Live, NEW caps, NEW G, NEW s, NEW X,
         Fit(s, r, caps, G, X), Settled(s), s.panicked = "no",
         NEW p \in Signed,
         s.seq_num_offset /= 0, op_num(s, p) > ordered_num(s) + 1,
         NEW t, t = Parked(r, s, p)
  PROVE  /\ Fit(t, r, caps, G, X) /\ Settled(t) /\ Goes(s, t, r, G)
         /\ t.requests = s.requests /\ t.seq_num_offset = s.seq_num_offset
         /\ \A x \in t.reordering_requests : x \in s.reordering_requests \cup {p}
         /\ \A x \in s.reordering_requests \cup {p} :
               \E y \in t.reordering_requests : y.seq_num = x.seq_num
         /\ OnlyAsks(s, t)
<1>1. s \in ReplicaFields /\ s.reordering_requests \in SUBSET Signed
      /\ IsFiniteSet(s.reordering_requests) /\ s.requests \in Seq(Signed)
  BY DEF Fit, Sizes, ReplicaFields
<1>2. PICK V : V = {x \in s.reordering_requests : x.seq_num /= p.seq_num}
  OBVIOUS
<1>3. PICK W : W = V \cup {p} OBVIOUS
<1>4. /\ W \in SUBSET Signed /\ IsFiniteSet(W)
      /\ W \subseteq s.reordering_requests \cup {p}
  <2>1. V \in SUBSET s.reordering_requests BY <1>2
  <2>2. IsFiniteSet(V) BY <1>1, <2>1, FS_Subset
  <2>3. IsFiniteSet(W) BY <1>3, <2>2, FS_AddElement
  <2>4. QED BY <1>1, <1>3, <2>1, <2>3
<1>5. PICK u : u = [s EXCEPT !.reordering_requests = W] OBVIOUS
<1>6. t = IF Crowded(u) THEN Panics(u, "reordering")
          ELSE IF Cardinality(u.reordering_requests) = QueryThreshold
            THEN DoQuery(r, u) ELSE u
  BY <1>2, <1>3, <1>5 DEF Parked, Crowded
<1>7. /\ u \in ReplicaFields /\ OnlyOrders(s, u) /\ u.requests = s.requests
      /\ u.reordering_requests = W
  BY <1>1, <1>4, <1>5 DEF ReplicaFields, OnlyOrders
<1>8. Gapped(u)
  <2>1. \A x : op_num(u, x) = op_num(s, x) BY <1>7 DEF op_num, OnlyOrders
  <2>2. \A x \in W : x \in s.reordering_requests \/ x = p BY <1>4
  <2>3. \A x \in W : op_num(s, x) > ordered_num(s) + 1
    BY <2>2 DEF Fit, Gapped
  <2>4. \A x, y \in s.reordering_requests : x.seq_num = y.seq_num => x = y
    BY DEF Fit, Gapped
  <2>5. \A x, y \in W : x.seq_num = y.seq_num => x = y
    BY <1>2, <1>3, <2>4
  <2>6. QED BY <1>7, <2>1, <2>3, <2>5 DEF Gapped, OnlyOrders, ordered_num
<1>9. Fit(u, r, caps, G, X)
  <2>1. StartsWith(u.requests, s.requests) BY <1>1, <1>7, StartsWithSelf
  <2>2. \A m \in Asks : Lacks(s, m) => Lacks(u, m)
    <3>1. Len(s.requests) \in Nat BY <1>1, LenProperties
    <3>2. W /= {} BY <1>3
    <3>3. ASSUME NEW m \in Asks, Lacks(s, m) PROVE Lacks(u, m)
      <4>1. m.op_num \in Nat BY DEF Asks
      <4>2. m.op_num <= Len(s.requests) + 1 BY <3>1, <3>3, <4>1 DEF Lacks
      <4>3. QED BY <1>7, <3>2, <4>2 DEF Lacks
    <3>4. QED BY <3>3
  <2>3. QED BY <1>4, <1>7, <1>8, <2>1, <2>2, FitOrders DEF OnlyOrders
<1>10. Settled(u) BY <1>7 DEF Settled, OnlyOrders
<1>11. Steps(s, u, r, G)
  <2>1. Steps(s, s, r, G) BY <1>1, StepsNot
  <2>2. QED BY <1>7, <2>1 DEF Steps, OnlyOrders
<1>12. \A x \in s.reordering_requests \cup {p} :
          \E y \in W : y.seq_num = x.seq_num
  BY <1>2, <1>3
<1>13. CASE t = u
  <2>1. OnlyAsks(s, t) BY <1>7, <1>13 DEF OnlyOrders, OnlyAsks
  <2>2. QED
    BY <1>4, <1>7, <1>9, <1>10, <1>11, <1>12, <1>13, <2>1, StepsGo
    DEF OnlyOrders
<1>14. CASE t = DoQuery(r, u)
  <2>1. /\ Fit(t, r, caps, G, X) /\ Settled(t) /\ Steps(u, t, r, G)
        /\ t.requests = u.requests /\ t.seq_num_offset = u.seq_num_offset
        /\ t.reordering_requests = u.reordering_requests
        /\ OnlyAsks(u, t)
    <3>1. u.reordering_requests /= {} BY <1>3, <1>7
    <3>2. QED BY <1>9, <1>10, <1>14, <3>1, DoQueryFits
  <2>2. Steps(s, t, r, G) BY <1>7, <2>1 DEF Steps, OnlyOrders
  <2>3. OnlyAsks(s, t) BY <1>7, <2>1 DEF OnlyOrders, OnlyAsks
  <2>4. QED BY <1>4, <1>7, <1>12, <2>1, <2>2, <2>3, StepsGo DEF OnlyOrders
<1>15. CASE Crowded(u) /\ t = Panics(u, "reordering")
  <2>1. u.panicked = "no" BY <1>7 DEF OnlyOrders
  <2>2. /\ Fit(t, r, caps, G, X) /\ Settled(t) /\ Goes(u, t, r, G)
        /\ t.requests = u.requests /\ t.seq_num_offset = u.seq_num_offset
        /\ t.reordering_requests = u.reordering_requests
        /\ OnlyAsks(u, t)
    BY <1>9, <1>15, <2>1, CrowdedFits
  <2>3. Goes(s, t, r, G) BY <1>7, <2>1, <2>2 DEF Goes, OnlyOrders
  <2>4. OnlyAsks(s, t) BY <1>7, <2>2 DEF OnlyOrders, OnlyAsks
  <2>5. QED BY <1>4, <1>7, <1>12, <2>2, <2>3, <2>4 DEF OnlyOrders
<1>16. QED BY <1>6, <1>13, <1>14, <1>15

\* What is verified is executed, or the Confirms that waited for it counted.
LEMMA HandleVerifiedFits ==
  ASSUME NEW r \in Live, NEW caps \in [Replicas -> Nat], NEW G,
         Gathered(G, r, caps), NEW s, NEW X, Fit(s, r, caps, G, X),
         Settled(s), s.panicked = "no", NEW last \in Nat,
         s.verified_num <= last, last <= Len(s.requests),
         NEW t, t = HandleVerified(r, s, last)
  PROVE  /\ Fit(t, r, caps, G, X) /\ Settled(t) /\ Steps(s, t, r, G)
         /\ t.requests = s.requests /\ t.seq_num_offset = s.seq_num_offset
         /\ t.reordering_requests = s.reordering_requests
         /\ t.verified_num = last
         /\ ~confirm => Replying(r, s, t)
<1>1. s \in ReplicaFields BY DEF Fit, Sizes
<1>2. PICK u : u = IF confirm THEN ConfirmAll(r, s, last)
                   ELSE DoCommit(r, s, FirstDue(s), last)
  OBVIOUS
<1>3. t = [u EXCEPT !.verified_num = last] BY <1>2 DEF HandleVerified
<1>4. SUFFICES /\ u \in ReplicaFields /\ Steps(s, u, r, G) /\ Settled(u)
               /\ Counts(s, u) /\ Fit(t, r, caps, G, X)
               /\ ~confirm => Replying(r, s, t)
  <2>1. /\ t.requests = u.requests /\ t.app = u.app
        /\ t.verified_num = last
        /\ t.seq_num_offset = u.seq_num_offset
        /\ t.reordering_requests = u.reordering_requests
        /\ t.local_confirmed_num = u.local_confirmed_num
        /\ t.remote_confirmed_nums = u.remote_confirmed_nums
        /\ t.reordering_confirms2 = u.reordering_confirms2
        /\ t.panicked = u.panicked
    BY <1>3, <1>4 DEF ReplicaFields
  <2>2. Settled(t) BY <1>4, <2>1 DEF Settled
  <2>3. Steps(s, t, r, G) BY <1>4, <2>1 DEF Steps
  <2>4. QED BY <1>4, <2>1, <2>2, <2>3 DEF Counts
<1>5. CASE confirm
  <2>1. u = ConfirmAll(r, s, last) BY <1>2, <1>5
  <2>2. /\ Fit(u, r, caps, G, X) /\ Counts(s, u) /\ Steps(s, u, r, G)
        /\ Settled(u) /\ Confirmed(u, last)
    BY <2>1, ConfirmAllFits
  <2>3. u \in ReplicaFields BY <2>2 DEF Fit, Sizes
  <2>4. /\ t \in ReplicaFields /\ t.verified_num = last
        /\ t.requests = u.requests /\ t.app = u.app /\ t.out = u.out
        /\ t.seq_num_offset = u.seq_num_offset
        /\ t.reordering_requests = u.reordering_requests
        /\ t.confirmed_num = u.confirmed_num
        /\ t.local_confirmed_num = u.local_confirmed_num
        /\ t.remote_confirmed_nums = u.remote_confirmed_nums
        /\ t.reordering_confirms1 = u.reordering_confirms1
        /\ t.reordering_confirms2 = u.reordering_confirms2
        /\ t.panicked = u.panicked
    BY <1>3, <2>3 DEF ReplicaFields
  <2>5. Sizes(t)
    <3>1. last <= Len(t.requests) BY <2>2, <2>4 DEF Counts
    <3>2. QED BY <2>2, <2>4, <3>1 DEF Fit, Sizes
  <2>6. Executing(t) BY <1>5, <2>2, <2>4 DEF Fit, Executing
  <2>7. Backed(t, caps) BY <2>2, <2>4 DEF Fit, Backed
  <2>8. Pending(t, X) = Pending(u, X) BY <2>4 DEF Pending
  <2>9. u.panicked = "no" => \A m \in u.reordering_confirms1 : m.end > last
    <3>1. SUFFICES ASSUME u.panicked = "no", NEW m \in u.reordering_confirms1
                   PROVE  m.end > last
      OBVIOUS
    <3>2. m.end > u.verified_num BY <2>2, <3>1 DEF Fit, Ahead
    <3>3. m.end \in Nat /\ u.verified_num \in Nat
      BY <2>3, <3>1 DEF ReplicaFields, Pledges
    <3>4. m.end \notin u.verified_num + 1..last
      BY <2>2, <3>1 DEF Confirmed, Due, FirstDue
    <3>5. QED BY <3>2, <3>3, <3>4
  <2>10. Ahead(t, X) BY <2>2, <2>4, <2>8, <2>9 DEF Fit, Ahead
  <2>11. Gapped(t) BY <2>2, <2>4 DEF Fit, Gapped, op_num, ordered_num
  <2>12. Honest(t, r) BY <2>2, <2>4 DEF Fit, Honest, Lacks
  <2>13. Fit(t, r, caps, G, X)
    BY <2>2, <2>5, <2>6, <2>7, <2>8, <2>10, <2>11, <2>12 DEF Fit
  <2>14. QED BY <1>5, <2>2, <2>3, <2>13
<1>6. CASE ~confirm
  <2>1. G = {} BY <1>6 DEF Gathered
  <2>2. Pending(s, X) = {} BY <2>1 DEF Fit
  <2>3. /\ X = {} /\ s.reordering_confirms1 = {}
        /\ s.reordering_confirms2 = {}
    BY <2>2 DEF Pending
  <2>4. Len(s.app) = s.verified_num BY <1>6 DEF Fit, Executing
  <2>5. u = DoCommit(r, s, Len(s.app) + 1, last)
    BY <1>2, <1>6, <2>4 DEF FirstDue
  <2>6. /\ u \in ReplicaFields
        /\ Executes(s, u) /\ u.confirmed_num = s.confirmed_num
        /\ Len(u.app) = last
        /\ \A k \in 1..last : u.app[k] = s.requests[k].request
        /\ StartsWith(u.app, s.app)
        /\ Honest(u, r)
        /\ u.out = s.out \cup CommitReplies(r, s, u.app, Len(s.app) + 1, last)
    <3>1. /\ Honest(s, r)
          /\ \A k \in 1..Len(s.app) : s.app[k] = s.requests[k].request
      BY DEF Fit, Executing
    <3>2. QED BY <1>1, <2>4, <2>5, <3>1, DoCommitDoes
  <2>7. /\ t \in ReplicaFields /\ t.verified_num = last
        /\ t.requests = u.requests /\ t.app = u.app /\ t.out = u.out
        /\ t.seq_num_offset = u.seq_num_offset
        /\ t.reordering_requests = u.reordering_requests
        /\ t.confirmed_num = u.confirmed_num
        /\ t.local_confirmed_num = u.local_confirmed_num
        /\ t.remote_confirmed_nums = u.remote_confirmed_nums
        /\ t.reordering_confirms1 = u.reordering_confirms1
        /\ t.reordering_confirms2 = u.reordering_confirms2
        /\ t.panicked = u.panicked
    BY <1>3, <2>6 DEF ReplicaFields
  <2>8. /\ t.requests = s.requests /\ t.seq_num_offset = s.seq_num_offset
        /\ t.reordering_requests = s.reordering_requests
        /\ t.local_confirmed_num = s.local_confirmed_num
        /\ t.remote_confirmed_nums = s.remote_confirmed_nums
        /\ t.reordering_confirms1 = s.reordering_confirms1
        /\ t.reordering_confirms2 = s.reordering_confirms2
    BY <2>6, <2>7 DEF Executes, Counts
  <2>9. Sizes(t) BY <2>7, <2>8 DEF Fit, Sizes
  <2>10. Executing(t)
    <3>1. t.confirmed_num = 0 BY <1>6, <2>6, <2>7 DEF Fit, Executing
    <3>2. QED BY <1>6, <2>6, <2>7, <2>8, <3>1 DEF Executing
  <2>11. Backed(t, caps) BY <1>6, <2>8 DEF Fit, Backed
  <2>12. Pending(t, X) = {} BY <2>3, <2>8 DEF Pending
  <2>13. Ahead(t, X) BY <2>3, <2>8, <2>12 DEF Ahead
  <2>14. Gapped(t) BY <2>8 DEF Fit, Gapped, op_num, ordered_num
  <2>15. Honest(t, r) BY <2>6, <2>7 DEF Honest, Lacks
  <2>16. Fit(t, r, caps, G, X)
    BY <2>9, <2>10, <2>11, <2>12, <2>13, <2>14, <2>15 DEF Fit
  <2>17. Steps(s, u, r, G)
    <3>1. StartsWith(u.requests, s.requests)
      <4>1. s.requests \in Seq(Signed) BY <1>1 DEF ReplicaFields
      <4>2. QED BY <2>6, <4>1, StartsWithSelf DEF Executes, Counts
    <3>2. Len(s.app) <= Len(u.app) BY <2>6 DEF StartsWith
    <3>3. QED BY <2>6, <3>1, <3>2 DEF Steps, Executes
  <2>18. Settled(u) BY <2>3, <2>6 DEF Settled, Executes
  <2>19. Replying(r, s, t)
    <3>1. PICK first : first = Len(s.app) + 1 OBVIOUS
    <3>2. /\ t.app = u.app /\ Len(t.app) = last
          /\ \A k : CommitReply(r, t, t.app, k) = CommitReply(r, s, u.app, k)
      BY <2>6, <2>7, <2>8 DEF CommitReply
    <3>3. CommitReplies(r, t, t.app, first, last)
            = CommitReplies(r, s, u.app, first, last)
      BY <3>2 DEF CommitReplies
    <3>4. t.out = s.out \cup CommitReplies(r, t, t.app, first, last)
      BY <2>6, <2>7, <3>1, <3>3
    <3>5. QED BY <3>1, <3>2, <3>4 DEF Replying
  <2>20. QED BY <2>6, <2>16, <2>17, <2>18, <2>19 DEF Executes
<1>7. QED BY <1>5, <1>6

\* handle_request only appends the packet p, and those that waited for it.
Receives(s, t, p) ==
    /\ t.seq_num_offset = IF s.seq_num_offset = 0 THEN p.seq_num
                          ELSE s.seq_num_offset
    /\ Orders(s, t, p)

\* handle_request
LEMMA ReceiveFits ==
  ASSUME NEW r \in Live, NEW caps \in [Replicas -> Nat], NEW G,
         Gathered(G, r, caps), NEW s0, NEW X, Fit(s0, r, caps, G, X),
         Settled(s0), s0.panicked = "no", NEW p \in Signed,
         NEW t, t = Receive(r, s0, p)
  PROVE  /\ Fit(t, r, caps, G, X) /\ Settled(t) /\ Goes(s0, t, r, G)
         /\ Receives(s0, t, p) /\ Yields(r, s0, t, {p})
<1>1. /\ s0 \in ReplicaFields /\ s0.seq_num_offset \in Nat
      /\ p.seq_num \in Nat \ {0} /\ s0.requests \in Seq(Signed)
      /\ IsFiniteSet(s0.reordering_requests)
  BY DEF Fit, Sizes, ReplicaFields, Signed
<1>2. PICK s : s = IF s0.seq_num_offset = 0
                     THEN [s0 EXCEPT !.seq_num_offset = p.seq_num] ELSE s0
  OBVIOUS
<1>3. /\ s \in ReplicaFields
      /\ s.seq_num_offset = IF s0.seq_num_offset = 0 THEN p.seq_num
                            ELSE s0.seq_num_offset
      /\ s.seq_num_offset /= 0
      /\ s.requests = s0.requests /\ s.app = s0.app /\ s.out = s0.out
      /\ s.reordering_requests = s0.reordering_requests
      /\ s.verified_num = s0.verified_num
      /\ s.confirmed_num = s0.confirmed_num
      /\ s.local_confirmed_num = s0.local_confirmed_num
      /\ s.remote_confirmed_nums = s0.remote_confirmed_nums
      /\ s.reordering_confirms1 = s0.reordering_confirms1
      /\ s.reordering_confirms2 = s0.reordering_confirms2
      /\ s.panicked = s0.panicked
  BY <1>1, <1>2 DEF ReplicaFields
<1>4. StartsWith(s.requests, s0.requests) BY <1>1, <1>3, StartsWithSelf
<1>5. Gapped(s)
  <2>1. CASE s0.seq_num_offset = 0
    <3>1. s.reordering_requests = {} BY <1>3, <2>1 DEF Fit, Gapped
    <3>2. QED BY <1>3, <3>1 DEF Gapped
  <2>2. CASE s0.seq_num_offset /= 0
    <3>1. s = s0 BY <1>2, <2>2
    <3>2. QED BY <3>1 DEF Fit
  <2>3. QED BY <2>1, <2>2
<1>6. Fit(s, r, caps, G, X)
  <2>1. \A m \in Asks : Lacks(s0, m) => Lacks(s, m) BY <1>3 DEF Lacks
  <2>2. QED BY <1>1, <1>3, <1>4, <1>5, <2>1, FitOrders
<1>7. Settled(s) BY <1>3 DEF Settled
<1>8. PICK n : n = op_num(s, p) OBVIOUS
<1>9. PICK u : u = Ordered(s, p) OBVIOUS
<1>10. t = IF n < ordered_num(s) + 1 THEN s
           ELSE IF n /= ordered_num(s) + 1 THEN Parked(r, s, p)
           ELSE HandleVerified(r, u, VerifiedNum(s, u))
  BY <1>2, <1>8, <1>9 DEF Receive
<1>11. n \in Nat BY <1>1, <1>3, <1>8, OpNumType
<1>12. ordered_num(s) \in Nat
  BY <1>1, <1>3, LenProperties DEF ordered_num
<1>13. SUFFICES /\ Fit(t, r, caps, G, X) /\ Settled(t) /\ Goes(s, t, r, G)
                /\ t.seq_num_offset = s.seq_num_offset /\ Orders(s, t, p)
                /\ Yields(r, s, t, {p})
  <2>1. Goes(s0, t, r, G) BY <1>3, <1>13 DEF Goes
  <2>2. Orders(s0, t, p) BY <1>3, <1>13 DEF Orders
  <2>3. Marked(s0) => Marked(s) BY <1>3 DEF Marked
  <2>4. Replying(r, s, t) => Replying(r, s0, t) BY <1>3 DEF Replying
  <2>5. Yields(r, s0, t, {p}) BY <1>3, <1>13, <2>3, <2>4 DEF Yields
  <2>6. QED BY <1>3, <1>13, <2>1, <2>2, <2>5 DEF Receives
<1>14. ASSUME t.requests = s.requests,
              \A x \in t.reordering_requests : x \in s.reordering_requests \cup {p}
       PROVE  Orders(s, t, p)
  <2>1. StartsWith(t.requests, s.requests) BY <1>1, <1>3, <1>14, StartsWithSelf
  <2>2. \A k \in 1..Len(t.requests) : ~(k > Len(s.requests))
    BY <1>1, <1>3, <1>14, LenProperties
  <2>3. QED BY <1>14, <2>1, <2>2 DEF Orders
<1>15. CASE t = s /\ n < ordered_num(s) + 1
  <2>1. Goes(s, t, r, G) BY <1>3, <1>15, StepsNot, StepsGo
  <2>2. Retained(t, p)
    BY <1>8, <1>11, <1>12, <1>15 DEF Retained, ordered_num
  <2>3. \A x \in s.reordering_requests : Retained(t, x) BY <1>15 DEF Retained
  <2>4. OnlyAsks(s, t) BY <1>15 DEF OnlyAsks
  <2>5. Yields(r, s, t, {p})
    BY <1>3, <1>15, <2>2, <2>3, <2>4, AsksReplying DEF Yields
  <2>6. QED BY <1>6, <1>7, <1>14, <1>15, <2>1, <2>5
<1>16. CASE t = Parked(r, s, p) /\ op_num(s, p) > ordered_num(s) + 1
  <2>1. /\ Fit(t, r, caps, G, X) /\ Settled(t) /\ Goes(s, t, r, G)
        /\ t.requests = s.requests /\ t.seq_num_offset = s.seq_num_offset
        /\ \A x \in t.reordering_requests : x \in s.reordering_requests \cup {p}
        /\ \A x \in s.reordering_requests \cup {p} :
              \E y \in t.reordering_requests : y.seq_num = x.seq_num
        /\ OnlyAsks(s, t)
    BY <1>3, <1>6, <1>7, <1>16, ParkedFits
  <2>2. Marked(s) => Marked(t) BY <2>1 DEF Marked, OnlyAsks
  <2>3. Yields(r, s, t, {p})
    BY <1>3, <2>1, <2>2, AsksReplying DEF Yields, Retained
  <2>4. QED BY <1>14, <2>1, <2>3
<1>17. CASE /\ t = HandleVerified(r, u, VerifiedNum(s, u))
            /\ op_num(s, p) = ordered_num(s) + 1
  <2>1. /\ u \in ReplicaFields /\ OnlyOrders(s, u) /\ Orders(s, u, p)
        /\ IsFiniteSet(u.reordering_requests)
        /\ u.reordering_requests \subseteq s.reordering_requests
        /\ Len(u.requests) > Len(s.requests)
        /\ \A x \in u.reordering_requests : op_num(u, x) > ordered_num(u) + 1
        /\ \A x \in s.reordering_requests \cup {p} :
              x \in u.reordering_requests \/ op_num(u, x) <= Len(u.requests)
    <3>1. \A x \in s.reordering_requests : op_num(s, x) > ordered_num(s) + 1
      BY <1>5 DEF Gapped
    <3>2. IsFiniteSet(s.reordering_requests) BY <1>1, <1>3
    <3>3. QED BY <1>3, <1>9, <1>17, <3>1, <3>2, OrderedDoes
  <2>2. StartsWith(u.requests, s.requests) BY <2>1 DEF Orders
  <2>3. Gapped(u)
    <3>1. \A x, y \in s.reordering_requests : x.seq_num = y.seq_num => x = y
      BY <1>5 DEF Gapped
    <3>2. \A x, y \in u.reordering_requests : x.seq_num = y.seq_num => x = y
      BY <2>1, <3>1
    <3>3. QED BY <1>3, <2>1, <3>2 DEF Gapped, OnlyOrders
  <2>4. Fit(u, r, caps, G, X)
    <3>1. PICK a, b : a = Len(s.requests) /\ b = Len(u.requests) OBVIOUS
    <3>2. a \in Nat /\ b \in Nat /\ b > a
      BY <1>1, <1>3, <2>1, <3>1, LenProperties DEF ReplicaFields
    <3>3. ASSUME NEW m \in Asks, Lacks(s, m) PROVE Lacks(u, m)
      <4>1. m.op_num \in Nat BY DEF Asks
      <4>2. m.op_num <= a + 1 BY <3>1, <3>2, <3>3, <4>1 DEF Lacks
      <4>3. m.op_num <= b /\ m.op_num <= b + 1 BY <3>2, <4>1, <4>2
      <4>4. QED BY <3>1, <3>2, <4>3 DEF Lacks
    <3>4. \A m \in Asks : Lacks(s, m) => Lacks(u, m) BY <3>3
    <3>5. QED BY <1>6, <2>1, <2>2, <2>3, <3>4, FitOrders DEF OnlyOrders
  <2>5. Settled(u) /\ u.panicked = "no"
    BY <1>3, <1>7, <2>1 DEF Settled, OnlyOrders
  <2>6. PICK v : v = VerifiedNum(s, u) OBVIOUS
  <2>7. /\ v \in Nat /\ u.verified_num <= v /\ v <= Len(u.requests)
        /\ Marked(s) => \A k \in 1..Len(u.requests) :
                           verified(u.requests[k]) => k <= v
    <3>1. Len(u.requests) \in Nat /\ Len(s.requests) \in Nat
      BY <1>1, <1>3, <2>1, LenProperties DEF ReplicaFields
    <3>2. s.verified_num \in Nat /\ s.verified_num <= Len(s.requests)
      BY <1>3, <1>6 DEF Fit, Sizes, ReplicaFields
    <3>3. Len(s.requests) <= Len(u.requests) BY <2>2 DEF StartsWith
    <3>4. /\ v \in Nat /\ s.verified_num <= v /\ v <= Len(u.requests)
          /\ \A k \in Len(s.requests) + 1..Len(u.requests) :
                verified(u.requests[k]) => k <= v
      BY <2>6, <3>1, <3>2, <3>3, VerifiedNumType
    <3>5. ASSUME Marked(s), NEW k \in 1..Len(u.requests),
                 verified(u.requests[k])
          PROVE  k <= v
      <4>1. CASE k <= Len(s.requests)
        <5>1. k \in 1..Len(s.requests) BY <3>1, <4>1
        <5>2. u.requests[k] = s.requests[k] BY <2>2, <5>1 DEF StartsWith
        <5>3. k <= s.verified_num BY <3>5, <5>1, <5>2 DEF Marked
        <5>4. QED BY <3>2, <3>4, <5>3
      <4>2. CASE ~(k <= Len(s.requests))
        <5>1. k \in Len(s.requests) + 1..Len(u.requests) BY <3>1, <4>2
        <5>2. QED BY <3>4, <3>5, <5>1
      <4>3. QED BY <4>1, <4>2
    <3>6. QED BY <2>1, <3>4, <3>5 DEF OnlyOrders
  <2>8. /\ Fit(t, r, caps, G, X) /\ Settled(t) /\ Steps(u, t, r, G)
        /\ t.requests = u.requests /\ t.seq_num_offset = u.seq_num_offset
        /\ t.reordering_requests = u.reordering_requests
        /\ t.verified_num = v
        /\ ~confirm => Replying(r, u, t)
    BY <1>17, <2>4, <2>5, <2>6, <2>7, HandleVerifiedFits
  <2>9. Goes(s, t, r, G)
    <3>1. Steps(s, t, r, G) BY <2>1, <2>2, <2>8 DEF Steps, OnlyOrders
    <3>2. QED BY <3>1, StepsGo
  <2>10. t.seq_num_offset = s.seq_num_offset BY <2>1, <2>8 DEF OnlyOrders
  <2>11. Orders(s, t, p)
    <3>1. \A x : op_num(t, x) = op_num(u, x) BY <2>8 DEF op_num
    <3>2. QED BY <2>1, <2>8, <3>1 DEF Orders
  <2>12. Yields(r, s, t, {p})
    <3>1. \A x : op_num(t, x) = op_num(u, x) BY <2>8 DEF op_num
    <3>2. \A x \in s.reordering_requests \cup {p} : Retained(t, x)
      BY <2>1, <2>8, <3>1 DEF Retained
    <3>3. Marked(s) => Marked(t) BY <2>7, <2>8 DEF Marked
    <3>4. Replying(r, u, t) => Replying(r, s, t)
      BY <2>1 DEF OnlyOrders, Replying
    <3>5. QED BY <2>8, <3>2, <3>3, <3>4 DEF Yields
  <2>13. QED BY <2>8, <2>9, <2>10, <2>11, <2>12
<1>18. n < ordered_num(s) + 1 \/ n = ordered_num(s) + 1
       \/ n > ordered_num(s) + 1
  BY <1>11, <1>12
<1>19. QED BY <1>8, <1>10, <1>11, <1>12, <1>15, <1>16, <1>17, <1>18
-----------------------------------------------------------------------------
(* What a step leaves                                                      *)

\* The mode is the same in every state.
LEMMA SameFit ==
  ASSUME variant' = variant, NEW s, NEW r, NEW caps, NEW G, NEW X,
         Fit(s, r, caps, G, X), Gathered(G, r, caps)
  PROVE  Fit(s, r, caps, G, X)' /\ Gathered(G, r, caps)'
<1>1. confirm' = confirm BY DEF confirm
<1>2. Executing(s)' BY <1>1 DEF Fit, Executing
<1>3. Backed(s, caps)' BY <1>1 DEF Fit, Backed
<1>4. Fit(s, r, caps, G, X)' BY <1>2, <1>3 DEF Fit
<1>5. Gathered(G, r, caps)' BY <1>1 DEF Gathered
<1>6. QED BY <1>4, <1>5

\* What was to be sent is sent.
LEMMA FitSends ==
  ASSUME NEW r, NEW caps, NEW G, NEW s, NEW X, Fit(s, r, caps, G, X),
         Settled(s), NEW t, t = [s EXCEPT !.out = {}]
  PROVE  /\ Fit(t, r, caps, G, X) /\ Settled(t) /\ t.out = {}
         /\ t.app = s.app /\ t.requests = s.requests
         /\ t.local_confirmed_num = s.local_confirmed_num
         /\ t.remote_confirmed_nums = s.remote_confirmed_nums
<1>1. s \in ReplicaFields BY DEF Fit, Sizes
<1>2. /\ t \in ReplicaFields /\ t.out = {}
      /\ t.requests = s.requests /\ t.seq_num_offset = s.seq_num_offset
      /\ t.reordering_requests = s.reordering_requests
      /\ t.verified_num = s.verified_num /\ t.confirmed_num = s.confirmed_num
      /\ t.local_confirmed_num = s.local_confirmed_num
      /\ t.remote_confirmed_nums = s.remote_confirmed_nums
      /\ t.reordering_confirms1 = s.reordering_confirms1
      /\ t.reordering_confirms2 = s.reordering_confirms2
      /\ t.app = s.app /\ t.panicked = s.panicked
  BY <1>1 DEF ReplicaFields
<1>3. Pending(t, X) = Pending(s, X) BY <1>2 DEF Pending
<1>4. Fit(t, r, caps, G, X)
  <2>1. Sizes(t) BY <1>2 DEF Fit, Sizes
  <2>2. Executing(t) BY <1>2 DEF Fit, Executing
  <2>3. Backed(t, caps) BY <1>2 DEF Fit, Backed
  <2>4. Ahead(t, X) BY <1>2, <1>3 DEF Fit, Ahead
  <2>5. Gapped(t) BY <1>2 DEF Fit, Gapped, op_num, ordered_num
  <2>6. Honest(t, r) BY <1>2 DEF Honest
  <2>7. QED BY <1>3, <2>1, <2>2, <2>3, <2>4, <2>5, <2>6 DEF Fit
<1>5. Settled(t) BY <1>2 DEF Settled
<1>6. QED BY <1>2, <1>4, <1>5

\* What is known of Confirms is known of fewer.
LEMMA FitLess ==
  ASSUME NEW r, NEW caps, NEW G, NEW s, NEW X, Fit(s, r, caps, G, X),
         Gathered(G, r, caps), NEW H, H = Pending(s, X)
  PROVE  Fit(s, r, caps, H, X) /\ Gathered(H, r, caps)
<1>1. H \subseteq G BY DEF Fit
<1>2. IsFiniteSet(H) BY <1>1, FS_Subset DEF Gathered
<1>3. Gathered(H, r, caps) BY <1>1, <1>2 DEF Gathered
<1>4. QED BY <1>3 DEF Fit

\* The replicas confirm more and more.
LEMMA FitLater ==
  ASSUME NEW r, NEW caps \in [Replicas -> Nat], NEW G, NEW s, NEW X,
         Fit(s, r, caps, G, X), Gathered(G, r, caps),
         NEW caps2 \in [Replicas -> Nat],
         \A i \in Replicas : caps[i] <= caps2[i]
  PROVE  Fit(s, r, caps2, G, X) /\ Gathered(G, r, caps2)
<1>1. s \in ReplicaFields BY DEF Fit, Sizes
<1>2. \A i \in Replicas : s.remote_confirmed_nums[i] \in Nat
  BY <1>1 DEF ReplicaFields
<1>3. \A i \in Replicas : caps[i] \in Nat /\ caps2[i] \in Nat OBVIOUS
<1>4. \A i \in Replicas : s.remote_confirmed_nums[i] <= caps[i]
  BY DEF Fit, Backed
<1>5. \A i \in Replicas : s.remote_confirmed_nums[i] <= caps2[i]
  BY <1>2, <1>3, <1>4
<1>6. Backed(s, caps2) BY <1>5 DEF Fit, Backed
<1>7. Fit(s, r, caps2, G, X) BY <1>6 DEF Fit
<1>8. ASSUME NEW m \in G PROVE m.end <= caps2[m.replica]
  <2>1. m.replica \in Replicas /\ m.end \in Nat /\ m.end <= caps[m.replica]
    BY LiveAssumption DEF Gathered, Pledges
  <2>2. QED BY <1>3, <2>1
<1>9. Gathered(G, r, caps2) BY <1>8 DEF Gathered
<1>10. QED BY <1>7, <1>9

\* Another replica confirms what it has not confirmed.
LEMMA FitAdds ==
  ASSUME NEW r, NEW caps \in [Replicas -> Nat], NEW G, NEW s, NEW X,
         Fit(s, r, caps, G, X), Gathered(G, r, caps),
         NEW caps2 \in [Replicas -> Nat],
         \A i \in Replicas : caps[i] <= caps2[i], confirm,
         NEW m \in Pledges, m.replica /= r, m.start = caps[m.replica] + 1,
         m.start <= m.end, m.end = caps2[m.replica],
         NEW H, H = G \cup {m}, NEW Y, Y = X \cup {m}
  PROVE  Fit(s, r, caps2, H, Y) /\ Gathered(H, r, caps2)
<1>1. /\ Fit(s, r, caps2, G, X) /\ Gathered(G, r, caps2) BY FitLater
<1>2. s \in ReplicaFields BY DEF Fit, Sizes
<1>3. PICK i : i = m.replica OBVIOUS
<1>4. /\ i \in Replicas /\ caps[i] \in Nat /\ m.start \in Nat /\ m.end \in Nat
      /\ m.start > caps[i] /\ m.end > caps[i]
  BY <1>3, LiveAssumption DEF Pledges
<1>5. ASSUME NEW n \in G, n.replica = i
      PROVE  n.end < m.start /\ n /= m
  <2>1. n.end <= caps[i] /\ n.end \in Nat BY <1>5 DEF Gathered, Pledges
  <2>2. QED BY <1>4, <2>1
<1>6. m \notin G BY <1>3, <1>5
<1>7. Gathered(H, r, caps2)
  <2>1. IsFiniteSet(H) BY <1>1, FS_AddElement DEF Gathered
  <2>2. \A n \in H : /\ n \in Pledges /\ n.replica /= r
                     /\ n.start <= n.end /\ n.end <= caps2[n.replica]
    <3>1. \A n \in G : /\ n \in Pledges /\ n.replica /= r
                       /\ n.start <= n.end /\ n.end <= caps2[n.replica]
      BY <1>1 DEF Gathered
    <3>2. m.end <= caps2[m.replica] BY <1>4
    <3>3. QED BY <3>1, <3>2
  <2>3. \A n \in G : Apart(n, m) /\ Apart(m, n)
    BY <1>3, <1>5 DEF Apart
  <2>4. \A n, o \in G : Apart(n, o) BY <1>1 DEF Gathered
  <2>5. Apart(m, m) BY DEF Apart
  <2>6. \A n, o \in H : Apart(n, o) BY <2>3, <2>4, <2>5
  <2>7. QED BY <2>1, <2>2, <2>6 DEF Gathered
<1>8. Pending(s, Y) = Pending(s, X) \cup {m} BY DEF Pending
<1>9. Ahead(s, Y)
  <2>1. m \notin s.reordering_confirms1 \cup s.reordering_confirms2
    BY <1>6 DEF Fit, Pending
  <2>2. m.start > s.remote_confirmed_nums[m.replica]
    <3>1. s.remote_confirmed_nums[i] <= caps[i] BY <1>4 DEF Fit, Backed
    <3>2. s.remote_confirmed_nums[i] \in Nat BY <1>2, <1>4 DEF ReplicaFields
    <3>3. QED BY <1>3, <1>4, <3>1, <3>2
  <2>3. \A n \in Pending(s, Y) : n.start > s.remote_confirmed_nums[n.replica]
    BY <1>1, <1>8, <2>2 DEF Fit, Ahead
  <2>4. Y \cap (s.reordering_confirms1 \cup s.reordering_confirms2) = {}
    BY <1>1, <2>1 DEF Fit, Ahead
  <2>5. QED BY <1>1, <2>3, <2>4 DEF Fit, Ahead
<1>10. Fit(s, r, caps2, H, Y)
  <2>1. Pending(s, Y) \subseteq H BY <1>1, <1>8 DEF Fit
  <2>2. QED BY <1>1, <1>9, <2>1 DEF Fit
<1>11. QED BY <1>7, <1>10

\* What is executed only grows.
LEMMA AppStarts ==
  ASSUME NEW s \in ReplicaFields, NEW t \in ReplicaFields,
         Executing(s), Executing(t),
         StartsWith(t.requests, s.requests), Len(s.app) <= Len(t.app)
  PROVE  StartsWith(t.app, s.app)
<1>1. PICK A : A = Len(s.app) OBVIOUS
<1>2. PICK B : B = Len(t.app) OBVIOUS
<1>3. PICK M : M = Len(s.requests) OBVIOUS
<1>4. A \in Nat /\ B \in Nat /\ M \in Nat
  BY <1>1, <1>2, <1>3, LenProperties DEF ReplicaFields
<1>5. A <= M /\ A <= B BY <1>1, <1>2, <1>3 DEF Executing
<1>6. \A k \in 1..A : k \in 1..B /\ k \in 1..M BY <1>4, <1>5
<1>7. \A k \in 1..A : s.app[k] = s.requests[k].request
  BY <1>1 DEF Executing
<1>8. \A k \in 1..B : t.app[k] = t.requests[k].request
  BY <1>2 DEF Executing
<1>9. \A k \in 1..M : t.requests[k] = s.requests[k] BY <1>3 DEF StartsWith
<1>10. \A k \in 1..A : t.app[k] = s.app[k] BY <1>6, <1>7, <1>8, <1>9
<1>11. QED BY <1>1, <1>2, <1>5, <1>10 DEF StartsWith
-----------------------------------------------------------------------------
(* A step keeps the invariant                                              *)

\* What the invariant says of the fields.
LEMMA Known ==
  ASSUME IInv
  PROVE  /\ \A r \in Replicas :
               /\ replica[r] \in ReplicaFields
               /\ Fit(replica[r], r, Locals, Universe(r), InNet(r))
               /\ Gathered(Universe(r), r, Locals) /\ Settled(replica[r])
               /\ replica[r].app \in Seq(Requests)
               /\ replica[r].requests \in Seq(Signed)
               /\ replica[r].local_confirmed_num \in Nat
         /\ Locals \in [Replicas -> Nat]
<1>1. ASSUME NEW r \in Replicas
      PROVE  /\ replica[r] \in ReplicaFields
             /\ Fit(replica[r], r, Locals, Universe(r), InNet(r))
             /\ Gathered(Universe(r), r, Locals) /\ Settled(replica[r])
             /\ replica[r].app \in Seq(Requests)
             /\ replica[r].requests \in Seq(Signed)
             /\ replica[r].local_confirmed_num \in Nat
  <2>1. /\ Fit(replica[r], r, Locals, Universe(r), InNet(r))
        /\ Gathered(Universe(r), r, Locals) /\ Settled(replica[r])
    BY DEF IInv, ReplicaInv
  <2>2. replica[r] \in ReplicaFields BY <2>1 DEF Fit, Sizes
  <2>3. /\ replica[r].app \in Seq(Requests)
        /\ replica[r].requests \in Seq(Signed)
        /\ replica[r].local_confirmed_num \in Nat
    BY <2>2 DEF ReplicaFields
  <2>4. QED BY <2>1, <2>2, <2>3
<1>2. Locals \in [Replicas -> Nat] BY <1>1 DEF Locals
<1>3. QED BY <1>1, <1>2

\* Neither what was sent nor what the clients know is undone when replicas
\* move.
LEMMA Moves ==
  ASSUME IInv,
         \A i \in Replicas : /\ replica'[i].app \in Seq(Requests)
                             /\ StartsWith(replica'[i].app, replica[i].app),
         UNCHANGED clientVars, Shapes',
         \A d \in net' : d \in net \/ NetInv(d)',
         \A i \in Replicas : ReplicaInv(i)' /\ LoopbackInv(i)'
  PROVE  IInv'
<1>1. \A i \in Replicas : replica[i].app \in Seq(Requests) BY Known
<1>2. ASSUME NEW i \in Replicas, NEW c, NEW k, NEW res,
             Executed(replica[i].app, c, k, res)
      PROVE  Executed(replica'[i].app, c, k, res)
  <2>1. PICK a : a = replica[i].app OBVIOUS
  <2>2. PICK b : b = replica'[i].app OBVIOUS
  <2>3. a \in Seq(Requests) /\ b \in Seq(Requests) /\ StartsWith(b, a)
    BY <1>1, <2>1, <2>2
  <2>4. Executed(a, c, k, res) BY <1>2, <2>1
  <2>5. Executed(b, c, k, res) BY <2>3, <2>4, ExecutedStays
  <2>6. QED BY <2>2, <2>5
<1>3. Live \subseteq Replicas BY LiveAssumption
<1>4. ASSUME NEW d \in net' PROVE NetInv(d)'
  <2>1. CASE d \in net
    <3>1. NetInv(d) BY <2>1 DEF IInv
    <3>2. d.msg \in Replies => d.msg.replica \in Replicas
      BY <1>3 DEF Replies
    <3>3. request_num' = request_num BY DEF clientVars
    <3>4. QED BY <1>2, <3>1, <3>2, <3>3 DEF NetInv
  <2>2. QED BY <2>1
<1>5. ASSUME NEW c \in Clients PROVE ClientInv(c)'
  <2>1. ClientInv(c) BY DEF IInv
  <2>2. \A x \in Replies : x.replica \in Replicas BY <1>3 DEF Replies
  <2>3. /\ request_num' = request_num /\ invoke' = invoke
        /\ replies' = replies /\ results' = results
    BY DEF clientVars
  <2>4. ASSUME NEW x \in replies[c]
        PROVE  Executed(replica'[x.replica].app, c, x.num, x.result)
    <3>1. /\ x \in Replies
          /\ Executed(replica[x.replica].app, c, x.num, x.result)
      BY <2>1 DEF ClientInv
    <3>2. QED BY <1>2, <2>2, <3>1
  <2>5. QED BY <2>1, <2>3, <2>4 DEF ClientInv
<1>6. ConsumedIsExecuted'
  <2>1. SUFFICES ASSUME NEW c \in Clients, NEW k \in DOMAIN results[c]
                 PROVE  Cardinality({i \in Replicas :
                          Executed(replica'[i].app, c, k, results[c][k])})
                            >= Cardinality(Replicas) - NumFaulty
    BY DEF ConsumedIsExecuted, clientVars
  <2>2. PICK res : res = results[c][k] OBVIOUS
  <2>3. PICK A : A = {i \in Replicas : Executed(replica[i].app, c, k, res)}
    OBVIOUS
  <2>4. PICK B : B = {i \in Replicas : Executed(replica'[i].app, c, k, res)}
    OBVIOUS
  <2>5. A \in SUBSET B /\ B \in SUBSET Replicas BY <1>2, <2>3, <2>4
  <2>6. Cardinality(A) >= Cardinality(Replicas) - NumFaulty
    BY <2>2, <2>3 DEF IInv, ConsumedIsExecuted
  <2>7. /\ Cardinality(A) \in Nat /\ Cardinality(B) \in Nat
        /\ Cardinality(A) <= Cardinality(B) /\ Cardinality(Replicas) \in Nat
    BY <2>5, CountType, CountLess
  <2>8. Cardinality(B) >= Cardinality(Replicas) - NumFaulty
    BY <2>6, <2>7, ReplicasAssumption
  <2>9. QED BY <2>2, <2>4, <2>8
<1>7. QED BY <1>4, <1>5, <1>6 DEF IInv

\* A replica that handles a message but confirms nothing.
LEMMA HandlerKeeps ==
  ASSUME IInv, NEW r \in Live, NEW t, NEW G, NEW X, X = InNet(r)',
         Gathered(G, r, Locals), Fit(t, r, Locals, G, X), Settled(t),
         NEW s, s = replica[r], StartsWith(t.requests, s.requests),
         Len(s.app) <= Len(t.app),
         t.local_confirmed_num = s.local_confirmed_num,
         Becomes(r, t), UNCHANGED <<clientVars, variant>>, Shapes',
         \A d \in net' : \/ d \in net \/ d \in t.out
                         \/ /\ d = Datagram(d.to, d.msg) /\ d.to \in Live
                            /\ d.msg \in Signed \cup Asks \cup Answers,
         \A i \in Replicas : i /= r => InNet(i)' = InNet(i),
         \A i \in Replicas : LoopbackInv(i)'
  PROVE  IInv'
<1>1. r \in Replicas /\ DOMAIN replica = Replicas
  BY LiveAssumption DEF IInv, Shapes
<1>2. PICK u : u = [t EXCEPT !.out = {}] OBVIOUS
<1>3. replica' = [replica EXCEPT ![r] = u] BY <1>2 DEF Becomes
<1>4. PICK caps : caps = Locals OBVIOUS
<1>5. caps \in [Replicas -> Nat] BY <1>4, Known
<1>6. /\ Fit(u, r, caps, G, X) /\ Settled(u) /\ u.out = {} /\ u.app = t.app
      /\ u.local_confirmed_num = s.local_confirmed_num
  BY <1>2, <1>4, FitSends
<1>7. Locals' = caps
  <2>1. \A i \in Replicas : replica'[i].local_confirmed_num
                              = replica[i].local_confirmed_num
    BY <1>1, <1>3, <1>6
  <2>2. QED BY <1>4, <2>1 DEF Locals
<1>8. replica'[r] = u BY <1>1, <1>3
<1>9. ReplicaInv(r)'
  <2>1. PICK H : H = Pending(u, X) OBVIOUS
  <2>2. Fit(u, r, caps, H, X) /\ Gathered(H, r, caps)
    BY <1>4, <1>6, <2>1, FitLess
  <2>3. Fit(u, r, caps, H, X)' /\ Gathered(H, r, caps)' BY <2>2, SameFit
  <2>4. Universe(r)' = H BY <1>8, <2>1 DEF Universe
  <2>5. QED BY <1>6, <1>7, <1>8, <2>3, <2>4 DEF ReplicaInv
<1>10. ASSUME NEW i \in Replicas PROVE ReplicaInv(i)'
  <2>1. CASE i = r BY <1>9, <2>1
  <2>2. CASE i /= r
    <3>1. PICK v : v = replica[i] OBVIOUS
    <3>2. PICK Y : Y = InNet(i) OBVIOUS
    <3>3. PICK H : H = Universe(i) OBVIOUS
    <3>4. replica'[i] = v /\ InNet(i)' = Y BY <1>1, <1>3, <2>2, <3>1, <3>2
    <3>5. Universe(i)' = H BY <3>1, <3>2, <3>3, <3>4 DEF Universe
    <3>6. /\ Fit(v, i, caps, H, Y) /\ Gathered(H, i, caps) /\ Settled(v)
          /\ v.out = {} /\ (i \notin Live => v.app = <<>>)
      BY <1>4, <3>1, <3>2, <3>3 DEF IInv, ReplicaInv
    <3>7. Fit(v, i, caps, H, Y)' /\ Gathered(H, i, caps)' BY <3>6, SameFit
    <3>8. QED BY <1>7, <3>4, <3>5, <3>6, <3>7 DEF ReplicaInv
  <2>3. QED BY <2>1, <2>2
<1>11. t \in ReplicaFields /\ u \in ReplicaFields /\ s \in ReplicaFields
  BY <1>1, <1>6, Known DEF Fit, Sizes
<1>12. ASSUME NEW i \in Replicas
       PROVE  /\ replica'[i].app \in Seq(Requests)
              /\ StartsWith(replica'[i].app, replica[i].app)
  <2>1. CASE i = r
    <3>1. Executing(s) /\ Executing(t) BY <1>1, Known DEF Fit
    <3>2. StartsWith(t.app, s.app) BY <1>11, <3>1, AppStarts
    <3>3. t.app \in Seq(Requests) BY <1>11 DEF ReplicaFields
    <3>4. QED BY <1>6, <1>8, <2>1, <3>2, <3>3
  <2>2. CASE i /= r
    <3>1. replica'[i] = replica[i] BY <1>1, <1>3, <2>2
    <3>2. replica[i].app \in Seq(Requests) BY Known
    <3>3. StartsWith(replica[i].app, replica[i].app) BY <3>2, StartsWithSelf
    <3>4. QED BY <3>1, <3>2, <3>3
  <2>3. QED BY <2>1, <2>2
<1>13. ASSUME NEW d \in net' PROVE d \in net \/ NetInv(d)'
  <2>1. CASE d \in t.out
    <3>1. \/ d.to \in Live /\ d.msg \in Asks
          \/ /\ d.to \in Clients /\ d.msg \in Replies /\ d.msg.replica = r
             /\ Executed(t.app, d.to, d.msg.num, d.msg.result)
      BY <2>1 DEF Fit, Honest
    <3>2. d \in Sent BY <1>11, <2>1 DEF ReplicaFields
    <3>3. d = Datagram(d.to, d.msg) BY <3>2 DEF Sent, Datagram
    <3>4. QED BY <1>6, <1>8, <3>1, <3>3 DEF NetInv
  <2>2. CASE /\ d = Datagram(d.to, d.msg) /\ d.to \in Live
             /\ d.msg \in Signed \cup Asks \cup Answers
    BY <2>2 DEF NetInv
  <2>3. QED BY <2>1, <2>2
<1>14. QED BY <1>10, <1>12, <1>13, Moves

\* Only Confirms count as Confirms in flight.
LEMMA SameConfirms ==
  ASSUME NEW i, \A d \in net' : d \in net \/ d.msg.kind /= "Confirm",
         \A d \in net : d \in net' \/ d.msg.kind /= "Confirm" \/ d.to /= i
  PROVE  InNet(i)' = InNet(i)
<1>1. ASSUME NEW m, m \in InNet(i) PROVE m \in InNet(i)'
  <2>1. PICK d \in net : d.to = i /\ d.msg = m /\ m.kind = "Confirm"
    BY <1>1 DEF InNet, InFlightTo
  <2>2. d \in net' BY <2>1
  <2>3. QED BY <2>1, <2>2 DEF InNet, InFlightTo
<1>2. ASSUME NEW m, m \in InNet(i)' PROVE m \in InNet(i)
  <2>1. PICK d \in net' : d.to = i /\ d.msg = m /\ m.kind = "Confirm"
    BY <1>2 DEF InNet, InFlightTo
  <2>2. d \in net BY <2>1
  <2>3. QED BY <2>1, <2>2 DEF InNet, InFlightTo
<1>3. QED BY <1>1, <1>2

\* The kinds of the messages.
LEMMA Kinds ==
  /\ \A m \in Signed \cup Wanted : m.kind = "Request"
  /\ \A m \in Pledges : m.kind = "Confirm"
  /\ \A m \in Asks : m.kind = "Query"
  /\ \A m \in Answers : m.kind = "QueryOk"
  /\ \A m \in Replies : m.kind = "Reply"
BY DEF Signed, Wanted, Pledges, Asks, Answers, Replies

\* What arrives at a replica, by its kind.
LEMMA ArrivesAtReplica ==
  ASSUME IInv, NEW r \in Live, NEW m, Datagram(r, m) \in net
  PROVE  /\ m.kind = "Request" => m \in Signed
         /\ m.kind = "Confirm" => m \in Pledges /\ m \in InNet(r)
         /\ m.kind = "Query" => m \in Asks
         /\ m.kind = "QueryOk" => m \in Answers
<1>1. PICK d : d = Datagram(r, m) OBVIOUS
<1>2. d \in net /\ d.to = r /\ d.msg = m BY <1>1 DEF Datagram
<1>3. NetInv(d) BY <1>2 DEF IInv
<1>4. r \notin Clients /\ r /= Sequencer
  BY LiveAssumption, ClientsAssumption, SequencerAssumption
<1>5. m \in Signed \cup Pledges \cup Asks \cup Answers
  BY <1>2, <1>3, <1>4 DEF NetInv
<1>6. m.kind = "Confirm" => m \in InNet(r) BY <1>2 DEF InNet, InFlightTo
<1>7. QED BY <1>5, <1>6, Kinds

\* A handler that sends itself nothing leaves the loopback as it is.
LEMMA LoopbackSame ==
  ASSUME IInv, NEW r \in Replicas,
         loopback' = [loopback EXCEPT ![r] = @ \o Looped(r, <<>>)]
  PROVE  /\ DOMAIN loopback' = Replicas
         /\ \A i \in Replicas : loopback'[i] = loopback[i]
<1>1. DOMAIN loopback = Replicas BY DEF IInv, Shapes
<1>2. Looped(r, <<>>) = <<>> BY DEF Looped
<1>3. loopback[r] \o <<>> = loopback[r]
  <2>1. PICK q : q = loopback[r] OBVIOUS
  <2>2. q = <<>> \/ \E e : q = <<e>> BY <2>1 DEF IInv, LoopbackInv
  <2>3. \E S : q \in Seq(S)
    <3>1. CASE q = <<>>
      <4>1. q \in Seq({}) BY <3>1
      <4>2. QED BY <4>1
    <3>2. CASE \E e : q = <<e>>
      <4>1. PICK e : q = <<e>> BY <3>2
      <4>2. q \in [1..1 -> {e}] BY <4>1
      <4>3. q \in Seq({e}) BY <4>2, SeqOf
      <4>4. QED BY <4>3
    <3>3. QED BY <2>2, <3>1, <3>2
  <2>4. PICK S : q \in Seq(S) BY <2>3
  <2>5. q \o <<>> = q BY <2>4, ConcatEmptySeq
  <2>6. QED BY <2>1, <2>5
<1>4. QED BY <1>1, <1>2, <1>3

\* What a handler leaves in flight.
LEMMA HandlerNet ==
  ASSUME IInv, NEW r \in Live, NEW m, NEW O,
         \A d \in O : d.msg.kind /= "Confirm", HandleDatagram(r, m, O, <<>>)
  PROVE  /\ \A d \in net' : d \in net \/ d \in O
         /\ \A i \in Replicas : i /= r => InNet(i)' = InNet(i)
         /\ m.kind /= "Confirm" => InNet(r)' = InNet(r)
         /\ dup' = dup => InNet(r)' = InNet(r) \ {m}
         /\ \A i \in Replicas : loopback'[i] = loopback[i]
         /\ DOMAIN loopback' = Replicas
         /\ dup' \in Nat
<1>1. r \in Replicas BY LiveAssumption
<1>2. PICK e : e = Datagram(r, m) OBVIOUS
<1>3. e.to = r /\ e.msg = m BY <1>2 DEF Datagram
<1>4. dup \in Nat BY DEF IInv, Shapes
<1>5. \/ net' = (net \ {e}) \cup O /\ dup' = dup
      \/ net' = net \cup O /\ dup' = dup + 1
  BY <1>2 DEF HandleDatagram, Flight
<1>6. \A d \in net' : d \in net \/ d \in O BY <1>5
<1>7. \A d \in net : d \in net' \/ d = e BY <1>5
<1>8. dup' \in Nat BY <1>4, <1>5
<1>9. /\ DOMAIN loopback' = Replicas
      /\ \A i \in Replicas : loopback'[i] = loopback[i]
  BY <1>1, LoopbackSame DEF HandleDatagram
<1>10. \A i \in Replicas : i /= r => InNet(i)' = InNet(i)
  <2>1. ASSUME NEW i \in Replicas, i /= r PROVE InNet(i)' = InNet(i)
    <3>1. \A d \in net : d \in net' \/ d.msg.kind /= "Confirm" \/ d.to /= i
      BY <1>3, <1>7, <2>1
    <3>2. \A d \in net' : d \in net \/ d.msg.kind /= "Confirm" BY <1>6
    <3>3. QED BY <3>1, <3>2, SameConfirms
  <2>2. QED BY <2>1
<1>11. ASSUME m.kind /= "Confirm" PROVE InNet(r)' = InNet(r)
  <2>1. \A d \in net : d \in net' \/ d.msg.kind /= "Confirm" \/ d.to /= r
    BY <1>3, <1>7, <1>11
  <2>2. \A d \in net' : d \in net \/ d.msg.kind /= "Confirm" BY <1>6
  <2>3. QED BY <2>1, <2>2, SameConfirms
<1>12. ASSUME dup' = dup PROVE InNet(r)' = InNet(r) \ {m}
  <2>1. net' = (net \ {e}) \cup O BY <1>4, <1>5, <1>12
  <2>2. ASSUME NEW x, x \in InNet(r)' PROVE x \in InNet(r) \ {m}
    <3>1. PICK d \in net' : d.to = r /\ d.msg = x /\ x.kind = "Confirm"
      BY <2>2 DEF InNet, InFlightTo
    <3>2. d \in net /\ d /= e BY <2>1, <3>1
    <3>3. x \in InNet(r) BY <3>1, <3>2 DEF InNet, InFlightTo
    <3>4. x /= m
      <4>1. SUFFICES ASSUME x = m PROVE d = e BY <3>2
      <4>2. NetInv(d) BY <3>2 DEF IInv
      <4>3. d = Datagram(r, m) BY <3>1, <4>1, <4>2 DEF NetInv
      <4>4. QED BY <1>2, <4>3
    <3>5. QED BY <3>3, <3>4
  <2>3. ASSUME NEW x, x \in InNet(r) \ {m} PROVE x \in InNet(r)'
    <3>1. PICK d \in net : d.to = r /\ d.msg = x /\ x.kind = "Confirm"
      BY <2>3 DEF InNet, InFlightTo
    <3>2. d \in net' BY <1>3, <1>7, <2>3, <3>1
    <3>3. QED BY <3>1, <3>2 DEF InNet, InFlightTo
  <2>4. QED BY <2>2, <2>3
<1>13. QED BY <1>6, <1>8, <1>9, <1>10, <1>11, <1>12

\* A replica keeps what it knows of its own Confirms.
LEMMA LoopbackStays ==
  ASSUME IInv, NEW i \in Replicas, loopback'[i] = loopback[i],
         variant' = variant,
         replica'[i].local_confirmed_num = replica[i].local_confirmed_num,
         replica'[i].remote_confirmed_nums[i]
            = replica[i].remote_confirmed_nums[i]
  PROVE  LoopbackInv(i)'
<1>1. LoopbackInv(i) BY DEF IInv
<1>2. confirm' = confirm BY DEF confirm
<1>3. QED BY <1>1, <1>2 DEF LoopbackInv

\* A step in which no replica's state changes.
LEMMA ReplicasStay ==
  ASSUME IInv, UNCHANGED <<replica, variant>>,
         \A i \in Replicas : InNet(i)' = InNet(i),
         \A i \in Replicas : loopback'[i] = loopback[i]
  PROVE  /\ \A i \in Replicas : ReplicaInv(i)' /\ LoopbackInv(i)'
         /\ \A i \in Replicas : /\ replica'[i].app \in Seq(Requests)
                                /\ StartsWith(replica'[i].app, replica[i].app)
<1>1. ASSUME NEW i \in Replicas PROVE ReplicaInv(i)'
  <2>1. PICK v : v = replica[i] OBVIOUS
  <2>2. PICK Y : Y = InNet(i) OBVIOUS
  <2>3. PICK H : H = Universe(i) OBVIOUS
  <2>4. PICK caps : caps = Locals OBVIOUS
  <2>5. replica'[i] = v /\ InNet(i)' = Y /\ Locals' = caps
    BY <2>1, <2>2, <2>4 DEF Locals
  <2>6. Universe(i)' = H BY <2>1, <2>2, <2>3, <2>5 DEF Universe
  <2>7. /\ Fit(v, i, caps, H, Y) /\ Gathered(H, i, caps) /\ Settled(v)
        /\ v.out = {} /\ (i \notin Live => v.app = <<>>)
    BY <2>1, <2>2, <2>3, <2>4 DEF IInv, ReplicaInv
  <2>8. Fit(v, i, caps, H, Y)' /\ Gathered(H, i, caps)' BY <2>7, SameFit
  <2>9. QED BY <2>5, <2>6, <2>7, <2>8 DEF ReplicaInv
<1>2. \A i \in Replicas : LoopbackInv(i)' BY LoopbackStays
<1>3. ASSUME NEW i \in Replicas
      PROVE  /\ replica'[i].app \in Seq(Requests)
             /\ StartsWith(replica'[i].app, replica[i].app)
  <2>1. replica[i].app \in Seq(Requests) BY Known
  <2>2. StartsWith(replica[i].app, replica[i].app) BY <2>1, StartsWithSelf
  <2>3. QED BY <2>1, <2>2
<1>4. QED BY <1>1, <1>2, <1>3

\* The delegate passes packets on to handle_request, if any.
LEMMA ReceiveAllFits ==
  ASSUME NEW r \in Live, NEW caps \in [Replicas -> Nat], NEW G,
         Gathered(G, r, caps), NEW s, NEW X, Fit(s, r, caps, G, X),
         Settled(s), s.panicked = "no",
         NEW ps, ps = <<>> \/ \E p \in Signed : ps = <<p>>,
         NEW t, t = ReceiveAll(r, s, ps)
  PROVE  /\ Fit(t, r, caps, G, X) /\ Settled(t) /\ Goes(s, t, r, G)
         /\ ps = <<>> => t = s
         /\ \A p \in Signed :
               ps = <<p>> => Receives(s, t, p) /\ Yields(r, s, t, {p})
<1>1. s \in ReplicaFields BY DEF Fit, Sizes
<1>2. CASE ps = <<>>
  <2>1. t = s BY <1>2 DEF ReceiveAll
  <2>2. \A p : ps /= <<p>> BY <1>2
  <2>3. QED BY <1>1, <2>1, <2>2, StepsNot, StepsGo
<1>3. CASE \E p \in Signed : ps = <<p>>
  <2>1. PICK p \in Signed : ps = <<p>> BY <1>3
  <2>2. ps /= <<>> /\ Head(ps) = p BY <2>1
  <2>3. t = Receive(r, s, p) BY <2>2 DEF ReceiveAll
  <2>4. /\ Fit(t, r, caps, G, X) /\ Settled(t) /\ Goes(s, t, r, G)
        /\ Receives(s, t, p) /\ Yields(r, s, t, {p})
    BY <2>3, ReceiveFits
  <2>5. \A q : ps = <<q>> => q = p BY <2>1
  <2>6. QED BY <2>2, <2>4, <2>5
<1>4. QED BY <1>2, <1>3

\* What the delegate passes on and keeps.
LEMMA PassedType ==
  ASSUME NEW r \in Replicas,
         saved[r] = <<>> \/ \E p \in Signed : saved[r] = <<p>>,
         NEW m \in Signed
  PROVE  /\ \/ Passed(r, m) = <<>>
            \/ \E p \in Signed :
                  /\ Passed(r, m) = <<p>>
                  /\ \E q \in Signed : /\ q = m \/ saved[r] = <<q>>
                                       /\ p.seq_num = q.seq_num
                                       /\ p.request = q.request
         /\ Saved(r, m) = saved[r] \/ Saved(r, m) = <<m>>
<1>1. CASE m.signature = "K256"
  <2>1. PICK f : f = [k \in 1..Len(saved[r]) |-> Unverified(saved[r][k])]
    OBVIOUS
  <2>2. Passed(r, m) = f BY <1>1, <2>1 DEF Passed
  <2>3. CASE saved[r] = <<>>
    <3>1. f = <<>> BY <2>1, <2>3
    <3>2. QED BY <1>1, <2>2, <3>1 DEF Saved
  <2>4. CASE \E p \in Signed : saved[r] = <<p>>
    <3>1. PICK p \in Signed : saved[r] = <<p>> BY <2>4
    <3>2. PICK q : q = Unverified(p) OBVIOUS
    <3>3. q \in Signed /\ q.seq_num = p.seq_num /\ q.request = p.request
      BY <3>2 DEF Unverified, Signed, SignatureKinds
    <3>4. Len(saved[r]) = 1 /\ saved[r][1] = p BY <3>1
    <3>5. f = <<q>> BY <2>1, <3>2, <3>4
    <3>6. QED BY <1>1, <2>2, <3>1, <3>3, <3>5 DEF Saved
  <2>5. QED BY <2>3, <2>4
<1>2. CASE m.signature /= "K256" BY <1>2 DEF Passed, Saved
<1>3. QED BY <1>1, <1>2

-----------------------------------------------------------------------------
(* What a replica's step does, as far as the sequencer's order is concerned *)

\* The packet p is at replica r, or has come to it.
Comes(r, p) ==
    \/ Datagram(r, p) \in net
    \/ \E n : Datagram(r, QueryOkMsg(n, p)) \in net
    \/ saved[r] = <<p>>

\* So does p but for its signature.
Came(r, p) ==
    \E q \in Signed : /\ Comes(r, q)
                      /\ p.seq_num = q.seq_num /\ p.request = q.request

SameRequests(s, t) ==
    /\ t.requests = s.requests /\ t.seq_num_offset = s.seq_num_offset
    /\ t.reordering_requests = s.reordering_requests

\* Replica r received a packet that came, or none.
Took(r, s, t) ==
    \/ SameRequests(s, t)
    \/ \E p \in Signed : Came(r, p) /\ Receives(s, t, p)

\* A Confirm that was there, or that covers what r has ordered now.
Vouched(r, i, m) ==
    \/ m \in Universe(i)
    \/ /\ m.end = Len(replica'[r].requests)
       /\ m.digest = Inner(replica'[r], m.start, m.end)

Does(r) ==
    /\ UNCHANGED <<clientVars, sequenced, variant>>
    /\ \A i \in Replicas : i /= r => replica'[i] = replica[i]
    /\ Took(r, replica[r], replica'[r])
    /\ Len(replica[r].app) <= Len(replica'[r].app)
    /\ Truthful(Universe(r), replica'[r].requests) => Fine(replica'[r])
    /\ \A i \in Replicas : \A m \in Universe(i)' : Vouched(r, i, m)
    /\ \A i \in Replicas : \/ saved'[i] = saved[i] \/ saved'[i] = <<>>
                           \/ \E p \in Signed : /\ saved'[i] = <<p>>
                                                /\ Datagram(i, p) \in net
    /\ \A d \in net' : \/ d \in net \/ d.to \in Clients
                       \/ d.to \in Live /\ d.msg.kind = "Confirm"
                       \/ /\ d.to \in Live /\ d.msg \in Asks
                          /\ Lacks(replica'[r], d.msg)

\* Only the fields that hold packets matter to Took.
LEMMA TookSame ==
  ASSUME NEW r, NEW s, NEW t, NEW u, Took(r, s, t), SameRequests(t, u)
  PROVE  Took(r, s, u)
<1>1. CASE SameRequests(s, t)
  <2>1. SameRequests(s, u) BY <1>1 DEF SameRequests
  <2>2. QED BY <2>1 DEF Took
<1>2. CASE \E p \in Signed : Came(r, p) /\ Receives(s, t, p)
  <2>1. PICK p \in Signed : Came(r, p) /\ Receives(s, t, p) BY <1>2
  <2>2. Receives(s, u, p)
    BY <2>1 DEF SameRequests, Receives, Orders, StartsWith, op_num
  <2>3. QED BY <2>1, <2>2 DEF Took
<1>3. QED BY <1>1, <1>2 DEF Took

\* The effect of a step in which r counts no Confirm of its own.
LEMMA StepDoes ==
  ASSUME IInv, NEW r \in Live, NEW t, NEW s, s = replica[r],
         s.panicked = "no", NEW G, G = Universe(r), NEW X, X = InNet(r)',
         NEW caps, Fit(t, r, caps, G, X), Took(r, s, t),
         Len(s.app) <= Len(t.app),
         Truthful(G, t.requests) => Fine(t), Becomes(r, t),
         \A d \in net' : d \in net \/ d \in t.out,
         \A i \in Replicas : i /= r => InNet(i)' = InNet(i),
         UNCHANGED <<clientVars, sequenced, variant>>,
         NEW q, \/ q = saved[r] \/ q = <<>>
                \/ \E p \in Signed : q = <<p>> /\ Datagram(r, p) \in net,
         saved' = saved \/ saved' = [saved EXCEPT ![r] = q]
  PROVE  Does(r)
<1>1. r \in Replicas /\ DOMAIN replica = Replicas /\ DOMAIN saved = Replicas
  BY LiveAssumption DEF IInv, Shapes
<1>2. PICK v : v = [t EXCEPT !.out = {}] OBVIOUS
<1>3. /\ replica'[r] = v
      /\ \A i \in Replicas : i /= r => replica'[i] = replica[i]
  BY <1>1, <1>2 DEF Becomes
<1>4. t \in ReplicaFields /\ Pending(t, X) \subseteq G BY DEF Fit, Sizes
<1>5. /\ v.requests = t.requests /\ v.seq_num_offset = t.seq_num_offset
      /\ v.reordering_requests = t.reordering_requests
      /\ v.panicked = t.panicked /\ v.app = t.app
      /\ v.reordering_confirms1 = t.reordering_confirms1
      /\ v.reordering_confirms2 = t.reordering_confirms2
  BY <1>2, <1>4 DEF ReplicaFields
<1>6. Took(r, replica[r], replica'[r])
  BY <1>3, <1>5, TookSame DEF SameRequests
<1>7. \A i \in Replicas : \A m \in Universe(i)' : Vouched(r, i, m)
  <2>1. ASSUME NEW i \in Replicas, NEW m \in Universe(i)' PROVE m \in Universe(i)
    <3>1. CASE i = r
      <4>1. Universe(r)' = Pending(v, X) BY <1>3 DEF Universe
      <4>2. Pending(v, X) = Pending(t, X) BY <1>5 DEF Pending
      <4>3. QED BY <1>4, <2>1, <3>1, <4>1, <4>2
    <3>2. CASE i /= r
      <4>1. replica'[i] = replica[i] /\ InNet(i)' = InNet(i) BY <1>3, <3>2
      <4>2. QED BY <2>1, <4>1 DEF Universe
    <3>3. QED BY <3>1, <3>2
  <2>2. QED BY <2>1 DEF Vouched
<1>8. ASSUME NEW i \in Replicas
      PROVE  \/ saved'[i] = saved[i] \/ saved'[i] = <<>>
             \/ \E p \in Signed : saved'[i] = <<p>> /\ Datagram(i, p) \in net
  BY <1>1
<1>9. ASSUME NEW d \in net', d \notin net
      PROVE  \/ d.to \in Clients
             \/ d.to \in Live /\ d.msg \in Asks /\ Lacks(replica'[r], d.msg)
  <2>1. d \in t.out BY <1>9
  <2>2. \/ d.to \in Clients
        \/ d.to \in Live /\ d.msg \in Asks /\ Lacks(t, d.msg)
    BY <2>1 DEF Fit, Honest
  <2>3. Lacks(t, d.msg) => Lacks(v, d.msg) BY <1>5 DEF Lacks
  <2>4. QED BY <1>3, <2>2, <2>3
<1>10. Truthful(Universe(r), replica'[r].requests) => Fine(replica'[r])
  <2>1. Fine(t) => Fine(v) BY <1>5 DEF Fine, Crowded
  <2>2. QED BY <1>3, <1>5, <2>1
<1>11. Len(replica[r].app) <= Len(replica'[r].app) BY <1>3, <1>5
<1>12. QED BY <1>3, <1>6, <1>7, <1>8, <1>9, <1>10, <1>11 DEF Does

\* A replica's step that counts no Confirm of its own and receives none.
LEMMA StepKeeps ==
  ASSUME IInv, NEW r \in Live, NEW m, NEW t, NEW s, s = replica[r],
         NEW G, G = Universe(r), NEW X, X = InNet(r)',
         Fit(t, r, Locals, G, X), Settled(t), Goes(s, t, r, G),
         s.panicked = "no", Took(r, s, t),
         Becomes(r, t), HandleDatagram(r, m, t.out, <<>>),
         UNCHANGED <<clientVars, sequenced, variant>>,
         NEW q, \/ q = saved[r] \/ q = <<>>
                \/ \E p \in Signed : q = <<p>> /\ Datagram(r, p) \in net,
         saved' = saved \/ saved' = [saved EXCEPT ![r] = q]
  PROVE  IInv' /\ Does(r)
<1>1. r \in Replicas /\ DOMAIN replica = Replicas /\ DOMAIN saved = Replicas
  BY LiveAssumption DEF IInv, Shapes
<1>2. t.out \in SUBSET Sent BY DEF Fit, Sizes, ReplicaFields
<1>3. \A d \in t.out : d.msg.kind /= "Confirm"
  <2>1. \A d \in t.out : d.msg \in Replies \cup Asks BY <1>2 DEF Sent
  <2>2. QED BY <2>1, Kinds
<1>4. /\ \A d \in net' : d \in net \/ d \in t.out
      /\ \A i \in Replicas : i /= r => InNet(i)' = InNet(i)
      /\ \A i \in Replicas : loopback'[i] = loopback[i]
      /\ DOMAIN loopback' = Replicas
      /\ dup' \in Nat
  BY <1>3, HandlerNet
<1>5. Shapes'
  <2>1. \A i \in Replicas : saved[i] = <<>> \/ \E p \in Signed : saved[i] = <<p>>
    BY DEF IInv, Shapes
  <2>2. /\ DOMAIN saved' = Replicas
        /\ \A i \in Replicas : saved'[i] = saved[i] \/ saved'[i] = q
    BY <1>1
  <2>3. \A i \in Replicas : saved'[i] = <<>> \/ \E p \in Signed : saved'[i] = <<p>>
    BY <1>1, <2>1, <2>2
  <2>4. DOMAIN replica' = Replicas BY <1>1 DEF Becomes
  <2>5. /\ request_num' = request_num /\ invoke' = invoke
        /\ replies' = replies /\ results' = results
    BY DEF clientVars
  <2>6. QED BY <1>4, <2>2, <2>3, <2>4, <2>5 DEF IInv, Shapes
<1>6. \A i \in Replicas : LoopbackInv(i)'
  <2>1. ASSUME NEW i \in Replicas PROVE LoopbackInv(i)'
    <3>1. CASE i = r
      <4>1. replica'[r] = [t EXCEPT !.out = {}] BY <1>1 DEF Becomes
      <4>2. t \in ReplicaFields BY DEF Fit, Sizes
      <4>3. /\ replica'[r].local_confirmed_num = t.local_confirmed_num
            /\ replica'[r].remote_confirmed_nums = t.remote_confirmed_nums
        BY <4>1, <4>2 DEF ReplicaFields
      <4>4. /\ t.local_confirmed_num = s.local_confirmed_num
            /\ t.remote_confirmed_nums[r] = s.remote_confirmed_nums[r]
        BY DEF Goes
      <4>5. QED BY <1>1, <1>4, <3>1, <4>3, <4>4, LoopbackStays
    <3>2. CASE i /= r
      <4>1. replica'[i] = replica[i] BY <1>1, <3>2 DEF Becomes
      <4>2. QED BY <1>4, <4>1, LoopbackStays
    <3>3. QED BY <3>1, <3>2
  <2>2. QED BY <2>1
<1>7. Gathered(G, r, Locals) BY <1>1, Known
<1>8. StartsWith(t.requests, s.requests) /\ Len(s.app) <= Len(t.app)
      /\ t.local_confirmed_num = s.local_confirmed_num
  BY DEF Goes
<1>9. IInv' BY <1>4, <1>5, <1>6, <1>7, <1>8, HandlerKeeps
<1>10. Truthful(G, t.requests) => Fine(t) BY DEF Goes
<1>11. Does(r) BY <1>4, <1>8, <1>10, StepDoes
<1>12. QED BY <1>9, <1>11

\* A replica that received what the delegate passed on, which had come.
LEMMA ReceiveTook ==
  ASSUME NEW r, NEW s, NEW t, NEW ps, ps = <<>> => t = s,
         \A p \in Signed : ps = <<p>> => Receives(s, t, p),
         ps = <<>> \/ \E p \in Signed : ps = <<p>> /\ Came(r, p)
  PROVE  Took(r, s, t)
<1>1. CASE ps = <<>>
  <2>1. SameRequests(s, t) BY <1>1 DEF SameRequests
  <2>2. QED BY <2>1 DEF Took
<1>2. CASE \E p \in Signed : ps = <<p>> /\ Came(r, p)
  <2>1. PICK p \in Signed : ps = <<p>> /\ Came(r, p) BY <1>2
  <2>2. Receives(s, t, p) BY <2>1
  <2>3. QED BY <2>1, <2>2 DEF Took
<1>3. QED BY <1>1, <1>2

\* A running replica's state, as the lemmas on its handlers take it.
LEMMA RunningFit ==
  ASSUME IInv, NEW r \in Live, Running(r), NEW s, s = replica[r],
         NEW caps, caps = Locals, NEW G, G = Universe(r),
         NEW X, X = InNet(r)
  PROVE  /\ caps \in [Replicas -> Nat] /\ Gathered(G, r, caps)
         /\ Fit(s, r, caps, G, X) /\ Settled(s) /\ s.panicked = "no"
         /\ s \in ReplicaFields
BY Known, LiveAssumption DEF Running

\* A multicast packet arrives.
LEMMA HandleRequestKeeps ==
  ASSUME IInv, NEW r \in Live, NEW m, HandleRequest(r, m)
  PROVE  IInv' /\ Does(r)
<1>1. PICK s : s = replica[r] OBVIOUS
<1>2. PICK caps : caps = Locals OBVIOUS
<1>3. PICK G : G = Universe(r) OBVIOUS
<1>4. PICK X : X = InNet(r) OBVIOUS
<1>5. PICK ps : ps = Passed(r, m) OBVIOUS
<1>6. PICK t : /\ t = ReceiveAll(r, s, ps)
               /\ Becomes(r, t)
               /\ HandleDatagram(r, m, t.out, <<>>)
  BY <1>1, <1>5 DEF HandleRequest
<1>7. /\ caps \in [Replicas -> Nat] /\ Gathered(G, r, caps)
      /\ Fit(s, r, caps, G, X) /\ Settled(s) /\ s.panicked = "no"
  BY <1>1, <1>2, <1>3, <1>4, RunningFit DEF HandleRequest
<1>8. r \in Replicas
      /\ (saved[r] = <<>> \/ \E p \in Signed : saved[r] = <<p>>)
  BY LiveAssumption DEF IInv, Shapes
<1>9. m \in Signed /\ m.kind = "Request" /\ Datagram(r, m) \in net
  BY ArrivesAtReplica DEF HandleRequest, Arrived
<1>10. PICK q : q = Saved(r, m) OBVIOUS
<1>11. /\ ps = <<>> \/ \E p \in Signed : ps = <<p>> /\ Came(r, p)
       /\ \/ q = saved[r] \/ q = <<>>
          \/ \E p \in Signed : q = <<p>> /\ Datagram(r, p) \in net
  BY <1>5, <1>8, <1>9, <1>10, PassedType DEF Came, Comes
<1>12. /\ Fit(t, r, caps, G, X) /\ Settled(t) /\ Goes(s, t, r, G)
       /\ ps = <<>> => t = s
       /\ \A p \in Signed : ps = <<p>> => Receives(s, t, p)
  <2>1. ps = <<>> \/ \E p \in Signed : ps = <<p>> BY <1>11
  <2>2. QED BY <1>6, <1>7, <2>1, ReceiveAllFits
<1>13. InNet(r)' = X
  <2>1. \A d \in t.out : d.msg.kind /= "Confirm"
    <3>1. \A d \in t.out : d.msg \in Replies \cup Asks
      BY <1>12 DEF Fit, Sizes, ReplicaFields, Sent
    <3>2. QED BY <3>1, Kinds
  <2>2. m.kind /= "Confirm" BY <1>9
  <2>3. QED BY <1>4, <1>6, <2>1, <2>2, HandlerNet
<1>14. UNCHANGED <<clientVars, sequenced, variant>> BY DEF HandleRequest
<1>15. saved' = [saved EXCEPT ![r] = q] BY <1>10 DEF HandleRequest
<1>16. Took(r, s, t) BY <1>11, <1>12, ReceiveTook
<1>17. QED
  BY <1>1, <1>2, <1>3, <1>6, <1>7, <1>11, <1>12, <1>13, <1>14, <1>15, <1>16,
     StepKeeps

\* The answer to a Query arrives.
LEMMA HandleQueryOkKeeps ==
  ASSUME IInv, NEW r \in Live, NEW m, HandleQueryOk(r, m)
  PROVE  IInv' /\ Does(r)
<1>1. PICK s : s = replica[r] OBVIOUS
<1>2. PICK caps : caps = Locals OBVIOUS
<1>3. PICK G : G = Universe(r) OBVIOUS
<1>4. PICK X : X = InNet(r) OBVIOUS
<1>5. PICK u : u = IF m.op_num = ordered_num(s) + 1
                     THEN Receive(r, s, m.packet) ELSE s
  OBVIOUS
<1>6. PICK t : /\ t = IF /\ m.op_num = ordered_num(s) + 1
                         /\ u.panicked = "no"
                         /\ Cardinality(u.reordering_requests) >= QueryThreshold
                        THEN DoQuery(r, u) ELSE u
               /\ Becomes(r, t)
               /\ HandleDatagram(r, m, t.out, <<>>)
  BY <1>1, <1>5 DEF HandleQueryOk
<1>7. /\ caps \in [Replicas -> Nat] /\ Gathered(G, r, caps)
      /\ Fit(s, r, caps, G, X) /\ Settled(s) /\ s.panicked = "no"
      /\ s \in ReplicaFields
  BY <1>1, <1>2, <1>3, <1>4, RunningFit DEF HandleQueryOk
<1>8. m.kind = "QueryOk" /\ m.packet \in Signed /\ Came(r, m.packet)
  <2>1. m \in Answers /\ Datagram(r, m) \in net /\ m.kind = "QueryOk"
    BY ArrivesAtReplica DEF HandleQueryOk, Arrived
  <2>2. m = QueryOkMsg(m.op_num, m.packet) BY <2>1 DEF Answers, QueryOkMsg
  <2>3. m.packet \in Signed BY <2>1 DEF Answers
  <2>4. Comes(r, m.packet) BY <2>1, <2>2 DEF Comes
  <2>5. QED BY <2>1, <2>3, <2>4 DEF Came
<1>9. /\ Fit(u, r, caps, G, X) /\ Settled(u) /\ Goes(s, u, r, G)
      /\ Took(r, s, u)
  <2>1. CASE u = s BY <1>7, <2>1, StepsNot, StepsGo DEF Took, SameRequests
  <2>2. CASE u = Receive(r, s, m.packet)
    <3>1. /\ Fit(u, r, caps, G, X) /\ Settled(u) /\ Goes(s, u, r, G)
          /\ Receives(s, u, m.packet)
      BY <1>7, <1>8, <2>2, ReceiveFits
    <3>2. QED BY <1>8, <3>1 DEF Took
  <2>3. QED BY <1>5, <2>1, <2>2
<1>10. /\ Fit(t, r, caps, G, X) /\ Settled(t) /\ Goes(s, t, r, G)
       /\ Took(r, s, t)
  <2>1. CASE t = u BY <1>9, <2>1
  <2>2. CASE /\ t = DoQuery(r, u) /\ u.panicked = "no"
             /\ Cardinality(u.reordering_requests) >= QueryThreshold
    <3>1. /\ Fit(t, r, caps, G, X) /\ Settled(t) /\ Steps(u, t, r, G)
          /\ SameRequests(u, t)
      <4>1. u.reordering_requests /= {}
        <5>1. Cardinality({}) = 0 BY FS_EmptySet
        <5>2. QED BY <2>2, <5>1, QueryAssumption
      <4>2. /\ Fit(u, r, caps, G, X) /\ Settled(u) /\ t = DoQuery(r, u)
        BY <1>9, <2>2
      <4>3. /\ Fit(t, r, caps, G, X) /\ Settled(t) /\ Steps(u, t, r, G)
            /\ t.requests = u.requests /\ t.seq_num_offset = u.seq_num_offset
            /\ t.reordering_requests = u.reordering_requests
        BY <4>1, <4>2, DoQueryFits
      <4>4. QED BY <4>3 DEF SameRequests
    <3>2. u \in ReplicaFields /\ t \in ReplicaFields
      BY <1>9, <3>1 DEF Fit, Sizes
    <3>3. G \in SUBSET Pledges BY <1>7 DEF Gathered
    <3>4. Goes(s, t, r, G)
      <4>1. Steps(s, u, r, G) BY <1>9, <2>2 DEF Goes, Steps
      <4>2. Steps(s, t, r, G) BY <1>7, <3>1, <3>2, <3>3, <4>1, StepsTwice
      <4>3. QED BY <4>2, StepsGo
    <3>5. Took(r, s, t) BY <1>9, <3>1, TookSame
    <3>6. QED BY <3>1, <3>4, <3>5
  <2>3. QED BY <1>6, <2>1, <2>2
<1>11. InNet(r)' = X
  <2>1. \A d \in t.out : d.msg.kind /= "Confirm"
    <3>1. \A d \in t.out : d.msg \in Replies \cup Asks
      BY <1>10 DEF Fit, Sizes, ReplicaFields, Sent
    <3>2. QED BY <3>1, Kinds
  <2>2. m.kind /= "Confirm" BY <1>8
  <2>3. QED BY <1>4, <1>6, <2>1, <2>2, HandlerNet
<1>12. UNCHANGED <<clientVars, sequenced, variant>> /\ saved' = saved
  BY DEF HandleQueryOk, multicastVars
<1>13. PICK q : q = <<>> OBVIOUS
<1>14. QED
  BY <1>1, <1>2, <1>3, <1>6, <1>7, <1>10, <1>11, <1>12, <1>13, StepKeeps

\* A Confirm waits until its requests are ordered.
LEMMA ParksConfirm ==
  ASSUME NEW r, NEW caps, NEW G, NEW s, NEW X, Fit(s, r, caps, G, X),
         Gathered(G, r, caps), Settled(s), NEW m \in X,
         m.end > Len(s.requests),
         NEW t, t = [s EXCEPT !.reordering_confirms1 = @ \cup {m}]
  PROVE  /\ Fit(t, r, caps, G, X \ {m}) /\ Settled(t) /\ Steps(s, t, r, G)
         /\ SameRequests(s, t)
<1>1. s \in ReplicaFields /\ s.reordering_confirms1 \in SUBSET Pledges
  BY DEF Fit, Sizes, ReplicaFields
<1>2. m \in G BY DEF Fit, Pending
<1>3. m \in Pledges BY <1>2 DEF Gathered
<1>4. PICK V : V = s.reordering_confirms1 \cup {m} OBVIOUS
<1>5. V \in SUBSET Pledges BY <1>1, <1>3, <1>4
<1>6. PICK Y : Y = X \ {m} OBVIOUS
<1>7. t = [s EXCEPT !.reordering_confirms1 = V] BY <1>4
<1>8. /\ t \in ReplicaFields /\ t.reordering_confirms1 = V
      /\ t.requests = s.requests /\ t.seq_num_offset = s.seq_num_offset
      /\ t.reordering_requests = s.reordering_requests
      /\ t.verified_num = s.verified_num /\ t.confirmed_num = s.confirmed_num
      /\ t.local_confirmed_num = s.local_confirmed_num
      /\ t.remote_confirmed_nums = s.remote_confirmed_nums
      /\ t.reordering_confirms2 = s.reordering_confirms2
      /\ t.app = s.app /\ t.out = s.out /\ t.panicked = s.panicked
  BY <1>1, <1>5, <1>7 DEF ReplicaFields
<1>9. Pending(t, Y) = Pending(s, X) BY <1>4, <1>6, <1>8 DEF Pending
<1>10. Ahead(t, Y)
  <2>1. /\ s.reordering_confirms1 \cap s.reordering_confirms2 = {}
        /\ X \cap (s.reordering_confirms1 \cup s.reordering_confirms2) = {}
        /\ \A n \in Pending(s, X) : n.start > s.remote_confirmed_nums[n.replica]
        /\ s.panicked = "no" =>
              \A n \in s.reordering_confirms1 : n.end > s.verified_num
        /\ \A n \in s.reordering_confirms2 : n.end <= Len(s.requests)
    BY DEF Fit, Ahead
  <2>2. V \cap s.reordering_confirms2 = {} BY <1>4, <2>1
  <2>3. Y \cap (V \cup s.reordering_confirms2) = {} BY <1>4, <1>6, <2>1
  <2>4. m.end > s.verified_num
    <3>1. s.verified_num <= Len(s.requests) BY DEF Fit, Sizes
    <3>2. Len(s.requests) \in Nat /\ s.verified_num \in Nat
      BY <1>1, LenProperties DEF ReplicaFields
    <3>3. m.end \in Nat BY <1>3 DEF Pledges
    <3>4. QED BY <3>1, <3>2, <3>3
  <2>5. s.panicked = "no" => \A n \in V : n.end > s.verified_num
    BY <1>4, <2>1, <2>4
  <2>6. QED BY <1>8, <1>9, <2>1, <2>2, <2>3, <2>5 DEF Ahead
<1>11. Fit(t, r, caps, G, Y)
  <2>1. Sizes(t) BY <1>8 DEF Fit, Sizes
  <2>2. Executing(t) BY <1>8 DEF Fit, Executing
  <2>3. Backed(t, caps) BY <1>8 DEF Fit, Backed
  <2>4. Gapped(t) BY <1>8 DEF Fit, Gapped, op_num, ordered_num
  <2>5. Honest(t, r) BY <1>8 DEF Fit, Honest, Lacks
  <2>6. Pending(t, Y) \subseteq G BY <1>9 DEF Fit
  <2>7. QED BY <1>10, <2>1, <2>2, <2>3, <2>4, <2>5, <2>6 DEF Fit
<1>12. Settled(t) BY <1>8 DEF Settled
<1>13. Steps(s, t, r, G)
  <2>1. Steps(s, s, r, G) BY <1>1, StepsNot
  <2>2. QED BY <1>8, <2>1 DEF Steps
<1>14. SameRequests(s, t) BY <1>8 DEF SameRequests
<1>15. QED BY <1>6, <1>11, <1>12, <1>13, <1>14

\* Another replica's Confirm arrives.
LEMMA HandleConfirmKeeps ==
  ASSUME IInv, NEW r \in Live, NEW m, HandleConfirm(r, m)
  PROVE  IInv' /\ Does(r)
<1>1. PICK s : s = replica[r] OBVIOUS
<1>2. PICK caps : caps = Locals OBVIOUS
<1>3. PICK G : G = Universe(r) OBVIOUS
<1>4. PICK X : X = InNet(r) OBVIOUS
<1>5. PICK t : /\ t = IF ~confirm THEN Panics(s, "confirm")
                      ELSE IF Overtakes(s, m)
                        THEN [s EXCEPT !.reordering_confirms1 = @ \cup {m}]
                        ELSE DoConfirm1(r, s, m)
               /\ Becomes(r, t)
               /\ HandleDatagram(r, m, t.out, <<>>)
  BY <1>1 DEF HandleConfirm
<1>6. /\ caps \in [Replicas -> Nat] /\ Gathered(G, r, caps)
      /\ Fit(s, r, caps, G, X) /\ Settled(s) /\ s.panicked = "no"
      /\ s \in ReplicaFields
  BY <1>1, <1>2, <1>3, <1>4, RunningFit DEF HandleConfirm
<1>7. m \in X /\ m \in Pledges
  BY <1>4, ArrivesAtReplica DEF HandleConfirm, Arrived
<1>8. PICK Y : Y = X \ {m} OBVIOUS
<1>9. /\ Fit(t, r, caps, G, Y) /\ Settled(t) /\ Goes(s, t, r, G)
      /\ SameRequests(s, t)
  <2>1. confirm
    <3>1. m \in G BY <1>6, <1>7 DEF Fit, Pending
    <3>2. QED BY <1>6, <3>1 DEF Gathered
  <2>2. CASE Overtakes(s, m)
    BY <1>5, <1>6, <1>7, <1>8, <2>1, <2>2, ParksConfirm, StepsGo
    DEF Overtakes, ordered_num
  <2>3. CASE ~Overtakes(s, m)
    <3>1. Len(s.requests) \in Nat /\ m.end \in Nat
      BY <1>6, <1>7, LenProperties DEF ReplicaFields, Pledges
    <3>2. m.end <= Len(s.requests) BY <2>3, <3>1 DEF Overtakes, ordered_num
    <3>3. t = DoConfirm1(r, s, m) BY <1>5, <2>1, <2>3
    <3>4. /\ Fit(t, r, caps, G, Y) /\ Counts(s, t) /\ Steps(s, t, r, G)
          /\ Settled(t)
      BY <1>6, <1>7, <1>8, <3>2, <3>3, DoConfirm1Fits
    <3>5. QED BY <3>4, StepsGo DEF Counts, SameRequests
  <2>4. QED BY <2>2, <2>3
<1>10. InNet(r)' = Y
  <2>1. \A d \in t.out : d.msg.kind /= "Confirm"
    <3>1. \A d \in t.out : d.msg \in Replies \cup Asks
      BY <1>9 DEF Fit, Sizes, ReplicaFields, Sent
    <3>2. QED BY <3>1, Kinds
  <2>2. dup' = dup BY DEF HandleConfirm
  <2>3. QED BY <1>4, <1>5, <1>8, <2>1, <2>2, HandlerNet
<1>11. UNCHANGED <<clientVars, sequenced, variant>> /\ saved' = saved
  BY DEF HandleConfirm, multicastVars
<1>12. PICK q : q = <<>> OBVIOUS
<1>13. Took(r, s, t) BY <1>9 DEF Took
<1>14. QED
  BY <1>1, <1>2, <1>3, <1>5, <1>6, <1>9, <1>10, <1>11, <1>12, <1>13, StepKeeps

\* A step that changes nothing but what is in flight.
LEMMA IdleKeeps ==
  ASSUME IInv, UNCHANGED <<clientVars, replica, variant>>, Shapes',
         \A i \in Replicas : loopback'[i] = loopback[i],
         \A d \in net' : \/ d \in net
                         \/ /\ d = Datagram(d.to, d.msg) /\ d.to \in Live
                            /\ d.msg \in Signed \cup Asks \cup Answers,
         \A d \in net : d \in net' \/ d.msg.kind /= "Confirm"
  PROVE  IInv'
<1>1. ASSUME NEW i \in Replicas PROVE InNet(i)' = InNet(i)
  <2>1. \A d \in net' : d \in net \/ d.msg.kind /= "Confirm" BY Kinds
  <2>2. QED BY <2>1, SameConfirms
<1>2. /\ \A i \in Replicas : ReplicaInv(i)' /\ LoopbackInv(i)'
      /\ \A i \in Replicas : /\ replica'[i].app \in Seq(Requests)
                             /\ StartsWith(replica'[i].app, replica[i].app)
  BY <1>1, ReplicasStay
<1>3. \A d \in net' : d \in net \/ NetInv(d)' BY DEF NetInv
<1>4. QED BY <1>2, <1>3, Moves

\* Replica r, in state s, holds the packet q.
Holds(s, q) ==
    \/ q \in s.reordering_requests
    \/ \E k \in 1..Len(s.requests) : q = s.requests[k]

\* d answers a Query with a packet that r holds, except for its signature.
Answering(r, d) ==
    /\ d.to \in Live /\ d.msg \in Answers
    /\ \E b \in net : /\ b.to = r /\ b.msg.kind = "Query"
                      /\ b.msg.op_num = d.msg.op_num
    /\ \E q \in Signed : /\ Holds(replica[r], q)
                         /\ d.msg.packet.seq_num = q.seq_num
                         /\ d.msg.packet.request = q.request
                         /\ q.signature = "HalfSipHash" =>
                               d.msg.packet.signature = "HalfSipHash"

\* A replica answers a Query.
LEMMA HandleQueryKeeps ==
  ASSUME IInv, NEW r \in Live, NEW m, HandleQuery(r, m)
  PROVE  /\ IInv' /\ \A d \in net' : d \in net \/ Answering(r, d)
         /\ \A d \in net : d \in net' \/ (d.to = r /\ d.msg.kind = "Query")
<1>1. r \in Replicas BY LiveAssumption
<1>2. PICK s : s = replica[r] OBVIOUS
<1>3. s \in ReplicaFields BY <1>1, <1>2, Known
<1>4. m \in Asks /\ m.kind = "Query" /\ Datagram(r, m) \in net
  BY ArrivesAtReplica DEF HandleQuery, Arrived
<1> DEFINE vouched(p) == IF p.signature = "K256Unverified"
                           THEN [p EXCEPT !.signature = "K256"] ELSE p
<1>5. PICK O : /\ O = {Datagram(m.replica, QueryOkMsg(m.op_num, vouched(p))) :
                          p \in Held(s, m.op_num)}
               /\ HandleDatagram(r, m, O, <<>>)
  BY <1>2 DEF HandleQuery
<1>6. \A d \in O : d = Datagram(d.to, d.msg) /\ Answering(r, d)
  <2>1. SUFFICES ASSUME NEW p \in Held(s, m.op_num),
                        NEW d, d = Datagram(m.replica,
                                       QueryOkMsg(m.op_num, vouched(p)))
                 PROVE  d = Datagram(d.to, d.msg) /\ Answering(r, d)
    BY <1>5
  <2>2. m.replica \in Live /\ m.op_num \in Nat \ {0} BY <1>4 DEF Asks
  <2>3. p \in Signed /\ Holds(s, p)
    <3>1. s.requests \in Seq(Signed) /\ s.reordering_requests \in SUBSET Signed
      BY <1>3 DEF ReplicaFields
    <3>2. CASE m.op_num <= ordered_num(s)
      <4>1. Len(s.requests) \in Nat BY <3>1, LenProperties
      <4>2. m.op_num \in 1..Len(s.requests)
        BY <2>2, <3>2, <4>1 DEF ordered_num
      <4>3. s.requests[m.op_num] \in Signed BY <3>1, <4>2, ElementOfSeq
      <4>4. p = s.requests[m.op_num] BY <2>1, <3>2 DEF Held
      <4>5. QED BY <4>2, <4>3, <4>4 DEF Holds
    <3>3. CASE ~(m.op_num <= ordered_num(s))
      <4>1. p \in s.reordering_requests BY <2>1, <3>3 DEF Held
      <4>2. QED BY <3>1, <4>1 DEF Holds
    <3>4. QED BY <3>2, <3>3
  <2>4. PICK v : v = vouched(p) OBVIOUS
  <2>5. /\ v \in Signed /\ v.seq_num = p.seq_num /\ v.request = p.request
        /\ p.signature = "HalfSipHash" => v.signature = "HalfSipHash"
    BY <2>3, <2>4 DEF Signed, SignatureKinds
  <2>6. PICK a : a = QueryOkMsg(m.op_num, v) OBVIOUS
  <2>7. a \in Answers /\ a.packet = v /\ a.op_num = m.op_num
    BY <2>2, <2>5, <2>6 DEF QueryOkMsg, Answers
  <2>8. d = Datagram(m.replica, a) BY <2>1, <2>4, <2>6
  <2>9. d.to = m.replica /\ d.msg = a BY <2>8 DEF Datagram
  <2>10. Answering(r, d)
    <3>1. \E b \in net : /\ b.to = r /\ b.msg.kind = "Query"
                         /\ b.msg.op_num = d.msg.op_num
      BY <1>4, <2>7, <2>9 DEF Datagram
    <3>2. QED BY <1>2, <2>2, <2>3, <2>5, <2>7, <2>9, <3>1 DEF Answering
  <2>11. QED BY <2>8, <2>9, <2>10
<1>7. /\ \A d \in net' : d \in net \/ d \in O
      /\ \A i \in Replicas : loopback'[i] = loopback[i]
      /\ DOMAIN loopback' = Replicas
      /\ dup' \in Nat
  <2>1. \A d \in O : d.msg.kind /= "Confirm" BY <1>6, Kinds DEF Answering
  <2>2. QED BY <1>5, <2>1, HandlerNet
<1>8. /\ \A d \in net : d \in net' \/ d.msg.kind /= "Confirm"
      /\ \A d \in net : d \in net' \/ (d.to = r /\ d.msg.kind = "Query")
  <2>1. \A d \in net : d \in net' \/ d = Datagram(r, m)
    BY <1>5 DEF HandleDatagram, Flight
  <2>2. QED BY <1>4, <2>1 DEF Datagram
<1>9. UNCHANGED <<clientVars, replica, variant>>
      /\ saved' = saved /\ sequenced' = sequenced
  BY DEF HandleQuery, multicastVars
<1>10. Shapes' BY <1>7, <1>9 DEF IInv, Shapes, clientVars
<1>11. \A d \in O : /\ d = Datagram(d.to, d.msg) /\ d.to \in Live
                    /\ d.msg \in Answers
  BY <1>6 DEF Answering
<1>12. IInv' BY <1>7, <1>8, <1>9, <1>10, <1>11, IdleKeeps
<1>13. QED BY <1>6, <1>7, <1>8, <1>12

\* What the sequencer sends, and that the request is gone from flight unless
\* another copy of it is still to come.
LEMMA SequenceNet ==
  ASSUME IInv, NEW m, Sequence(m),
         NEW e, e = Datagram(Sequencer, m), NEW q, q = Request(m.client, m.num),
         NEW n, n = Len(sequenced) + 1
  PROVE  \E sig \in Signatures(Scheme, n), gone \in {{}, {e}} :
            /\ net' = (net \ gone) \cup
                         UNION {SendTo(Live, Packet(n, sig, o, q)) :
                                   o \in Offsets(Scheme)}
            /\ dup' \in Nat
            /\ dup' = dup => gone = {e}
<1>1. PICK sig \in Signatures(Scheme, n) :
        Flight(e, UNION {SendTo(Live, Packet(n, sig, o, q)) :
                            o \in Offsets(Scheme)})
  BY DEF Sequence, Process
<1>2. PICK O : O = UNION {SendTo(Live, Packet(n, sig, o, q)) :
                             o \in Offsets(Scheme)}
  OBVIOUS
<1>3. dup \in Nat BY DEF IInv, Shapes
<1>4. CASE net' = (net \ {e}) \cup O /\ dup' = dup BY <1>2, <1>3, <1>4
<1>5. CASE net' = net \cup O /\ dup' = dup + 1
  <2>1. dup' \in Nat /\ dup' /= dup BY <1>3, <1>5
  <2>2. net' = (net \ {}) \cup O BY <1>5
  <2>3. QED BY <1>2, <2>1, <2>2
<1>6. QED BY <1>1, <1>2, <1>4, <1>5 DEF Flight

\* The sequencer numbers a request and multicasts it.
LEMMA SequenceKeeps ==
  ASSUME IInv, NEW m, Sequence(m)
  PROVE  IInv'
<1>1. PICK e : e = Datagram(Sequencer, m) OBVIOUS
<1>2. e \in net /\ e.to = Sequencer /\ e.msg = m
  BY <1>1 DEF Sequence, Process, Datagram
<1>3. m \in Wanted
  <2>1. NetInv(e) BY <1>2 DEF IInv
  <2>2. Sequencer \notin Clients /\ Sequencer \notin Live
    BY SequencerAssumption, LiveAssumption
  <2>3. QED BY <1>2, <2>1, <2>2 DEF NetInv
<1>4. m.kind = "Request" BY <1>3, Kinds
<1>5. PICK q : q = Request(m.client, m.num) OBVIOUS
<1>6. q \in Requests BY <1>3, <1>5, RequestType DEF Wanted
<1>7. PICK n : n = Len(sequenced) + 1 OBVIOUS
<1>8. sequenced \in Seq(Requests) /\ n \in Nat \ {0}
  <2>1. sequenced \in Seq(Requests) BY DEF IInv, Shapes
  <2>2. QED BY <1>7, <2>1, LenProperties
<1>9. PICK sig \in Signatures(Scheme, n), gone \in {{}, {e}} :
        /\ net' = (net \ gone) \cup UNION {SendTo(Live, Packet(n, sig, o, q)) :
                                             o \in Offsets(Scheme)}
        /\ dup' \in Nat
  BY <1>1, <1>5, <1>7, SequenceNet
<1>10. sig \in SignatureKinds BY DEF Signatures, Scheme, SignatureKinds
<1>11. \A o \in Offsets(Scheme) : o \in Nat
  <2>1. Cardinality(Replicas) \in Nat
    BY ReplicasAssumption, FS_CardinalityType
  <2>2. QED BY <2>1 DEF Offsets
<1>12. \A o \in Offsets(Scheme) : Packet(n, sig, o, q) \in Signed
  BY <1>6, <1>8, <1>10, <1>11 DEF Packet, Signed
<1>13. \A d \in net' : \/ d \in net
                       \/ /\ d = Datagram(d.to, d.msg) /\ d.to \in Live
                          /\ d.msg \in Signed
  <2>1. ASSUME NEW d \in net', d \notin net
        PROVE  /\ d = Datagram(d.to, d.msg) /\ d.to \in Live
               /\ d.msg \in Signed
    <3>1. PICK o \in Offsets(Scheme) : d \in SendTo(Live, Packet(n, sig, o, q))
      BY <1>9, <2>1
    <3>2. PICK p : p = Packet(n, sig, o, q) OBVIOUS
    <3>3. PICK a \in Live : d = Datagram(a, p) BY <3>1, <3>2 DEF SendTo
    <3>4. QED BY <1>12, <3>2, <3>3 DEF Datagram
  <2>2. QED BY <2>1
<1>14. \A d \in net : d \in net' \/ d.msg.kind /= "Confirm"
  BY <1>2, <1>4, <1>9
<1>15. /\ UNCHANGED <<clientVars, replica, variant>>
       /\ loopback' = loopback /\ saved' = saved
       /\ sequenced' = Append(sequenced, q)
  BY <1>5 DEF Sequence, Process
<1>16. Append(sequenced, q) \in Seq(Requests)
  BY <1>6, <1>8, AppendProperties
<1>17. Shapes' BY <1>9, <1>15, <1>16 DEF IInv, Shapes, clientVars
<1>18. QED BY <1>13, <1>14, <1>15, <1>17, IdleKeeps

\* A multicast packet is lost.
LEMMA LoseKeeps ==
  ASSUME IInv, NEW d \in net, Lose(d)
  PROVE  IInv'
<1>1. /\ net' = net \ {d} /\ d.msg.kind = "Request"
      /\ UNCHANGED <<clientVars, replica, variant, loopback, dup>>
      /\ saved' = saved /\ sequenced' = sequenced
  BY DEF Lose, multicastVars
<1>2. Shapes' BY <1>1 DEF IInv, Shapes, clientVars
<1>3. \A e \in net : e \in net' \/ e.msg.kind /= "Confirm" BY <1>1
<1>4. QED BY <1>1, <1>2, <1>3, IdleKeeps

\* A client starts an invocation.
LEMMA InvokeKeeps ==
  ASSUME IInv, NEW c \in Clients, Invoke(c)
  PROVE  IInv'
<1>1. PICK k : k = request_num[c] OBVIOUS
<1>2. ClientInv(c) BY DEF IInv
<1>3. /\ invoke[c] = FALSE /\ k < MaxRequestNum
      /\ request_num' = [request_num EXCEPT ![c] = k + 1]
      /\ invoke' = [invoke EXCEPT ![c] = TRUE]
      /\ replies' = [replies EXCEPT ![c] = {}]
      /\ results' = results
      /\ UNCHANGED <<replica, variant, loopback, dup, saved, sequenced>>
  BY <1>1, <1>2 DEF Invoke, ClientInvoke, ClientSends, multicastVars, ClientInv
<1>4. k \in Nat /\ MaxRequestNum \in Nat /\ k + 1 \in 1..MaxRequestNum
  BY <1>1, <1>2, <1>3, MaxRequestAssumption DEF ClientInv
<1>5. /\ DOMAIN request_num = Clients /\ DOMAIN invoke = Clients
      /\ DOMAIN replies = Clients
  BY DEF IInv, Shapes
<1>6. PICK e : e = Datagram(Sequencer, RequestMsg(c, k + 1)) OBVIOUS
<1>7. net' = net \cup {e}
  BY <1>1, <1>6 DEF Invoke, ClientInvoke, ClientSends, SendTo
<1>8. /\ e = Datagram(e.to, e.msg) /\ e.to = Sequencer /\ e.msg \in Wanted
      /\ e.msg.client = c /\ e.msg.num = k + 1
  BY <1>4, <1>6 DEF Datagram, RequestMsg, Wanted
<1>9. e.msg.kind = "Request" BY <1>8, Kinds
<1>10. \A i \in Replicas : InNet(i)' = InNet(i)
  <2>1. \A d \in net' : d \in net \/ d.msg.kind /= "Confirm" BY <1>7, <1>9
  <2>2. \A d \in net : d \in net' BY <1>7
  <2>3. QED BY <2>1, <2>2, SameConfirms
<1>11. \A i \in Replicas : ReplicaInv(i)' /\ LoopbackInv(i)'
  BY <1>3, <1>10, ReplicasStay
<1>12. Shapes' BY <1>3 DEF IInv, Shapes
<1>13. ASSUME NEW b \in Clients
       PROVE  /\ request_num'[b] = IF b = c THEN k + 1 ELSE request_num[b]
              /\ invoke'[b] = IF b = c THEN TRUE ELSE invoke[b]
              /\ replies'[b] = IF b = c THEN {} ELSE replies[b]
  BY <1>3, <1>5
<1>14. ASSUME NEW d \in net' PROVE NetInv(d)'
  <2>1. CASE d = e
    <3>1. request_num'[c] = k + 1 BY <1>13, Zenon
    <3>2. k + 1 <= k + 1 BY <1>4
    <3>3. d.msg.num <= request_num'[d.msg.client] BY <1>8, <2>1, <3>1, <3>2
    <3>4. QED BY <1>8, <2>1, <3>3 DEF NetInv
  <2>2. CASE d \in net
    <3>1. NetInv(d) BY <2>2 DEF IInv
    <3>2. \A x \in Wanted : /\ x.client \in Clients /\ x.num \in Nat
      BY DEF Wanted
    <3>3. \A x \in Wanted : x.num <= request_num[x.client]
                             => x.num <= request_num'[x.client]
      <4>1. SUFFICES ASSUME NEW x \in Wanted, x.num <= request_num[x.client]
                     PROVE  x.num <= request_num'[x.client]
        OBVIOUS
      <4>2. CASE x.client = c
        <5>1. request_num'[x.client] = k + 1 BY <3>2, <1>13, <4>2
        <5>2. x.num <= k /\ x.num \in Nat BY <1>1, <3>2, <4>1, <4>2
        <5>3. QED BY <1>4, <5>1, <5>2
      <4>3. CASE x.client /= c BY <1>13, <3>2, <4>1, <4>3
      <4>4. QED BY <4>2, <4>3
    <3>4. replica' = replica BY <1>3
    <3>5. QED BY <3>1, <3>3, <3>4 DEF NetInv
  <2>3. QED BY <1>7, <2>1, <2>2
<1>15. ASSUME NEW b \in Clients PROVE ClientInv(b)'
  <2>1. ClientInv(b) /\ results' = results /\ replica' = replica
    BY <1>3 DEF IInv
  <2>2. CASE b = c
    <3>1. Len(results[c]) = k BY <1>1, <1>2, <1>3 DEF ClientInv
    <3>2. k = k + 1 - 1 BY <1>4
    <3>3. IsFiniteSet({}) BY FS_EmptySet
    <3>4. request_num'[b] = k + 1 /\ invoke'[b] = TRUE /\ replies'[b] = {}
      BY <1>13, <2>2
    <3>5. request_num'[b] = k + 1 /\ k + 1 \in 0..MaxRequestNum
      BY <1>4, <3>4
    <3>6. results'[b] \in Seq(Results) /\ Len(results'[b]) = k + 1 - 1
      BY <2>1, <2>2, <3>1, <3>2 DEF ClientInv
    <3>7. Len(results'[b])
            = IF invoke'[b] THEN request_num'[b] - 1 ELSE request_num'[b]
      <4>1. invoke'[b] BY <3>4, Zenon
      <4>2. Len(results'[b]) = request_num'[b] - 1 BY <1>4, <3>5, <3>6
      <4>3. QED BY <4>1, <4>2, Zenon
    <3>8. /\ request_num'[b] \in 0..MaxRequestNum
          /\ invoke'[b] \in BOOLEAN
          /\ IsFiniteSet(replies'[b])
      BY <3>3, <3>4, <3>5
    <3>9. replies'[b] = {} BY <3>4
    <3>10. QED BY <3>6, <3>7, <3>8, <3>9 DEF ClientInv
  <2>3. CASE b /= c BY <1>13, <2>1, <2>3 DEF ClientInv
  <2>4. QED BY <2>2, <2>3
<1>16. ConsumedIsExecuted' BY <1>3 DEF IInv, ConsumedIsExecuted
<1>17. QED BY <1>11, <1>12, <1>14, <1>15, <1>16 DEF IInv

\* The replies that agree with m come from different replicas, each of which
\* has executed the request.
LEMMA MatchingExecuted ==
  ASSUME IInv, NEW c \in Clients, NEW m \in Replies, Expected(c, m),
         Executed(replica[m.replica].app, c, m.num, m.result),
         NEW T, T = Inserted(c, m), NEW E,
         E = {i \in Replicas : Executed(replica[i].app, c, m.num, m.result)}
  PROVE  /\ IsFiniteSet(T)
         /\ \A x \in T : /\ x \in Replies /\ x.num = request_num[c]
                         /\ Executed(replica[x.replica].app, c, x.num, x.result)
         /\ \A x, y \in T : x.replica = y.replica => x = y
         /\ Cardinality(Matching(c, m)) \in Nat
         /\ Cardinality(Matching(c, m)) <= Cardinality(E)
<1>1. ClientInv(c) BY DEF IInv
<1>2. PICK O : O = {x \in replies[c] : x.replica /= m.replica} OBVIOUS
<1>3. T = O \cup {m} BY <1>2 DEF Inserted
<1>4. IsFiniteSet(T)
  <2>1. O \in SUBSET replies[c] BY <1>2
  <2>2. IsFiniteSet(O) BY <1>1, <2>1, FS_Subset DEF ClientInv
  <2>3. QED BY <1>3, <2>2, FS_AddElement
<1>5. \A x \in T : /\ x \in Replies /\ x.num = request_num[c]
                   /\ Executed(replica[x.replica].app, c, x.num, x.result)
  <2>1. m.num = request_num[c] BY DEF Expected
  <2>2. \A x \in O : /\ x \in Replies /\ x.num = request_num[c]
                     /\ Executed(replica[x.replica].app, c, x.num, x.result)
    BY <1>1, <1>2 DEF ClientInv
  <2>3. QED BY <1>3, <2>1, <2>2
<1>6. \A x, y \in T : x.replica = y.replica => x = y
  <2>1. \A x, y \in O : x.replica = y.replica => x = y
    BY <1>1, <1>2 DEF ClientInv
  <2>2. \A x \in O : x.replica /= m.replica BY <1>2
  <2>3. QED BY <1>3, <2>1, <2>2
<1>7. PICK M : M = Matching(c, m) OBVIOUS
<1>8. M \in SUBSET T /\ \A x \in M : x.result = m.result
  BY <1>7 DEF Matching
<1>9. PICK f : f = [x \in M |-> x.replica] OBVIOUS
<1>10. \A x \in M : f[x] \in E
  <2>1. ASSUME NEW x \in M PROVE f[x] \in E
    <3>1. /\ x \in Replies /\ x.num = m.num /\ x.result = m.result
          /\ Executed(replica[x.replica].app, c, x.num, x.result)
      BY <1>5, <1>8 DEF Expected
    <3>2. x.replica \in Replicas BY <3>1, LiveAssumption DEF Replies
    <3>3. QED BY <1>9, <3>1, <3>2
  <2>2. QED BY <2>1
<1>11. f \in [M -> E] BY <1>9, <1>10
<1>12. \A x, y \in M : f[x] = f[y] => x = y BY <1>6, <1>8, <1>9
<1>13. f \in Injection(M, E) BY <1>11, <1>12 DEF Injection, IsInjective
<1>14. E \in SUBSET Replicas /\ IsFiniteSet(E)
  <2>1. E \in SUBSET Replicas OBVIOUS
  <2>2. QED BY <2>1, CountType
<1>15. Cardinality(M) <= Cardinality(E) BY <1>13, <1>14, FS_Injection
<1>16. Cardinality(M) \in Nat
  <2>1. IsFiniteSet(M) BY <1>4, <1>8, FS_Subset
  <2>2. QED BY <2>1, FS_CardinalityType
<1>17. QED BY <1>4, <1>5, <1>6, <1>7, <1>15, <1>16

\* A client collects replies, and consumes what enough of them say.
LEMMA HandleReplyKeeps ==
  ASSUME IInv, NEW c \in Clients, NEW m, HandleReply(c, m)
  PROVE  IInv'
<1>1. PICK e : e = Datagram(c, m) OBVIOUS
<1>2. e \in net /\ e.to = c /\ e.msg = m
  BY <1>1 DEF HandleReply, ClientReceives, Datagram
<1>3. m \in Replies /\ Executed(replica[m.replica].app, c, m.num, m.result)
  <2>1. NetInv(e) BY <1>2 DEF IInv
  <2>2. c \notin Live /\ c /= Sequencer
    BY SequencerAssumption, LiveAssumption, ClientsAssumption
  <2>3. QED BY <1>2, <2>1, <2>2 DEF NetInv
<1>4. /\ UNCHANGED <<replica, variant, saved, sequenced, loopback>>
      /\ net' = net \ {e} \/ net' = net
      /\ dup' \in Nat
  <2>1. dup \in Nat BY DEF IInv, Shapes
  <2>2. \/ net' = (net \ {e}) \cup {} /\ dup' = dup
        \/ net' = net \cup {} /\ dup' = dup + 1
    BY <1>1 DEF HandleReply, ClientReceives, Flight
  <2>3. UNCHANGED <<replica, variant, saved, sequenced, loopback>>
    BY DEF HandleReply, ClientReceives, multicastVars
  <2>4. QED BY <2>1, <2>2, <2>3
<1>5. /\ DOMAIN request_num = Clients /\ DOMAIN invoke = Clients
      /\ DOMAIN replies = Clients /\ DOMAIN results = Clients
  BY DEF IInv, Shapes
<1>6. \A i \in Replicas : InNet(i)' = InNet(i)
  <2>1. m.kind /= "Confirm" BY <1>3, Kinds
  <2>2. \A d \in net' : d \in net BY <1>4
  <2>3. \A d \in net : d \in net' \/ d.msg.kind /= "Confirm" BY <1>2, <1>4, <2>1
  <2>4. QED BY <2>2, <2>3, SameConfirms
<1>7. \A i \in Replicas : ReplicaInv(i)' /\ LoopbackInv(i)'
  BY <1>4, <1>6, ReplicasStay
<1>8. ClientInv(c) BY DEF IInv
<1>9. PICK k : k = request_num[c] OBVIOUS
<1>10. PICK T : T = Inserted(c, m) OBVIOUS
<1>11. PICK E : E = {i \in Replicas :
                        Executed(replica[i].app, c, m.num, m.result)}
  OBVIOUS
<1>12. PICK q : q = Append(results[c], m.result) OBVIOUS
<1>13. request_num' = request_num
  BY DEF HandleReply, clientVars
<1>14. \A d \in net' : NetInv(d)'
  BY <1>4, <1>13 DEF IInv, NetInv
<1>15. CASE UNCHANGED clientVars
  <2>1. Shapes' BY <1>4, <1>15 DEF IInv, Shapes, clientVars
  <2>2. \A b \in Clients : ClientInv(b)'
    BY <1>4, <1>15 DEF IInv, ClientInv, clientVars
  <2>3. ConsumedIsExecuted'
    BY <1>4, <1>15 DEF IInv, ConsumedIsExecuted, clientVars
  <2>4. QED BY <1>7, <1>14, <2>1, <2>2, <2>3 DEF IInv
<1>16. CASE /\ Expected(c, m)
            /\ replies' = [replies EXCEPT ![c] = T]
            /\ UNCHANGED <<invoke, results>>
  <2>1. Shapes' BY <1>4, <1>13, <1>16 DEF IInv, Shapes
  <2>2. /\ IsFiniteSet(T)
        /\ \A x \in T : /\ x \in Replies /\ x.num = request_num[c]
                        /\ Executed(replica[x.replica].app, c, x.num, x.result)
        /\ \A x, y \in T : x.replica = y.replica => x = y
    BY <1>3, <1>10, <1>11, <1>16, MatchingExecuted
  <2>3. ASSUME NEW b \in Clients PROVE ClientInv(b)'
    <3>1. ClientInv(b) BY DEF IInv
    <3>2. CASE b = c
      <4>1. replies'[b] = T BY <1>5, <1>16, <3>2
      <4>2. QED BY <1>4, <1>13, <1>16, <2>2, <3>1, <3>2, <4>1 DEF ClientInv
    <3>3. CASE b /= c
      <4>1. replies'[b] = replies[b] BY <1>5, <1>16, <3>3
      <4>2. QED BY <1>4, <1>13, <1>16, <3>1, <4>1 DEF ClientInv
    <3>4. QED BY <3>2, <3>3
  <2>4. ConsumedIsExecuted'
    BY <1>4, <1>16 DEF IInv, ConsumedIsExecuted
  <2>5. QED BY <1>7, <1>14, <2>1, <2>3, <2>4 DEF IInv
<1>17. CASE /\ Expected(c, m) /\ Complete(c, m)
            /\ invoke' = [invoke EXCEPT ![c] = FALSE]
            /\ replies' = [replies EXCEPT ![c] = {}]
            /\ results' = [results EXCEPT ![c] = q]
  <2>1. Shapes' BY <1>4, <1>5, <1>13, <1>17 DEF IInv, Shapes
  <2>2. invoke[c] = TRUE /\ m.num = k
    BY <1>8, <1>9, <1>17 DEF Expected, ClientInv
  <2>3. k \in Nat /\ k <= MaxRequestNum /\ Len(results[c]) = k - 1
        /\ results[c] \in Seq(Results)
    BY <1>8, <1>9, <2>2, MaxRequestAssumption DEF ClientInv
  <2>4. m.result \in Results BY <1>3 DEF Replies
  <2>5. /\ q \in Seq(Results) /\ Len(q) = k
        /\ \A j \in 1..k - 1 : q[j] = results[c][j]
        /\ q[k] = m.result
    <3>1. /\ Append(results[c], m.result) \in Seq(Results)
          /\ Len(Append(results[c], m.result)) = Len(results[c]) + 1
          /\ \A i \in 1..Len(results[c]) :
                Append(results[c], m.result)[i] = results[c][i]
          /\ Append(results[c], m.result)[Len(results[c]) + 1] = m.result
      BY <2>3, <2>4, AppendProperties
    <3>2. Len(results[c]) + 1 = k BY <2>3
    <3>3. QED BY <1>12, <2>3, <3>1, <3>2
  <2>6. ASSUME NEW b \in Clients PROVE ClientInv(b)'
    <3>1. ClientInv(b) BY DEF IInv
    <3>2. CASE b = c
      <4>1. replies'[b] = {} /\ invoke'[b] = FALSE /\ results'[b] = q
        BY <1>5, <1>17, <3>2
      <4>2. IsFiniteSet({}) BY FS_EmptySet
      <4>3. request_num'[b] = k BY <1>9, <1>13, <3>2
      <4>4. k \in 0..MaxRequestNum BY <2>3, MaxRequestAssumption
      <4>5. QED BY <2>5, <4>1, <4>2, <4>3, <4>4 DEF ClientInv
    <3>3. CASE b /= c
      <4>1. replies'[b] = replies[b] /\ invoke'[b] = invoke[b]
            /\ results'[b] = results[b]
        BY <1>5, <1>17, <3>3
      <4>2. QED BY <1>4, <1>13, <3>1, <4>1 DEF ClientInv
    <3>4. QED BY <3>2, <3>3
  <2>7. Cardinality(E) >= Cardinality(Replicas) - NumFaulty
    <3>1. /\ Cardinality(Matching(c, m)) \in Nat
          /\ Cardinality(Matching(c, m)) <= Cardinality(E)
      BY <1>3, <1>10, <1>11, <1>17, MatchingExecuted
    <3>2. E \in SUBSET Replicas BY <1>11
    <3>3. Cardinality(E) \in Nat /\ Cardinality(Replicas) \in Nat
      BY <3>2, CountType
    <3>4. Cardinality(Matching(c, m)) >= Cardinality(Replicas) - NumFaulty
      BY <1>17 DEF Complete
    <3>5. QED BY <3>1, <3>3, <3>4, ReplicasAssumption
  <2>8. ConsumedIsExecuted'
    <3>1. SUFFICES ASSUME NEW b \in Clients, NEW j \in DOMAIN results'[b]
                   PROVE  Cardinality({i \in Replicas :
                            Executed(replica[i].app, b, j, results'[b][j])})
                              >= Cardinality(Replicas) - NumFaulty
      BY <1>4 DEF ConsumedIsExecuted
    <3>2. CASE b = c /\ j = k
      <4>1. results'[b][j] = m.result BY <1>5, <1>17, <2>5, <3>2
      <4>2. QED BY <1>11, <2>2, <2>7, <3>2, <4>1
    <3>3. CASE ~(b = c /\ j = k)
      <4>1. j \in DOMAIN results[b] /\ results'[b][j] = results[b][j]
        <5>1. CASE b = c
          <6>1. results'[b] = q BY <1>5, <1>17, <5>1
          <6>2. DOMAIN q = 1..k BY <2>5, LenProperties
          <6>3. j \in 1..k - 1 BY <2>3, <3>1, <3>3, <5>1, <6>1, <6>2
          <6>4. DOMAIN results[c] = 1..k - 1 BY <2>3, LenProperties
          <6>5. QED BY <2>5, <5>1, <6>1, <6>3, <6>4
        <5>2. CASE b /= c
          <6>1. results'[b] = results[b] BY <1>5, <1>17, <5>2
          <6>2. QED BY <3>1, <6>1
        <5>3. QED BY <5>1, <5>2
      <4>2. QED BY <4>1 DEF IInv, ConsumedIsExecuted
    <3>4. QED BY <3>2, <3>3
  <2>9. QED BY <1>7, <1>14, <2>1, <2>6, <2>8 DEF IInv
<1>18. \/ UNCHANGED clientVars
       \/ /\ Expected(c, m)
          /\ replies' = [replies EXCEPT ![c] = T]
          /\ UNCHANGED <<invoke, results>>
       \/ /\ Expected(c, m) /\ Complete(c, m)
          /\ invoke' = [invoke EXCEPT ![c] = FALSE]
          /\ replies' = [replies EXCEPT ![c] = {}]
          /\ results' = [results EXCEPT ![c] = q]
  BY <1>10, <1>12 DEF HandleReply
<1>19. QED BY <1>15, <1>16, <1>17, <1>18

\* A replica counts its own Confirm.
LEMMA OwnConfirmFits ==
  ASSUME NEW r \in Live, NEW caps \in [Replicas -> Nat], NEW G,
         Gathered(G, r, caps), NEW s, NEW X, Fit(s, r, caps, G, X), Settled(s),
         s.panicked = "no", confirm, NEW end \in Nat,
         s.remote_confirmed_nums[r] <= end, end <= caps[r],
         end <= Len(s.requests), NEW u,
         u = [s EXCEPT !.remote_confirmed_nums[r] = end],
         NEW t, t = DoUpdateConfirmNum(r, u)
  PROVE  /\ Fit(t, r, caps, G, X) /\ Settled(t)
         /\ t.requests = s.requests /\ Len(s.app) <= Len(t.app)
         /\ t.local_confirmed_num = s.local_confirmed_num
         /\ t.remote_confirmed_nums[r] = end
         /\ t.panicked = "no" /\ t.seq_num_offset = s.seq_num_offset
         /\ t.verified_num = s.verified_num
         /\ t.reordering_requests = s.reordering_requests
         /\ t.reordering_confirms1 = s.reordering_confirms1
         /\ t.reordering_confirms2 = s.reordering_confirms2
<1>1. s \in ReplicaFields /\ r \in Replicas
  BY LiveAssumption DEF Fit, Sizes
<1>2. /\ s.requests \in Seq(Signed) /\ s.app \in Seq(Requests)
      /\ s.remote_confirmed_nums \in [Replicas -> Nat]
  BY <1>1 DEF ReplicaFields
<1>3. Len(s.requests) \in Nat /\ Len(s.app) \in Nat BY <1>2, LenProperties
<1>4. /\ u \in ReplicaFields /\ u.panicked = "no"
      /\ u.requests = s.requests /\ u.app = s.app /\ u.out = s.out
      /\ u.verified_num = s.verified_num
      /\ u.confirmed_num = s.confirmed_num
      /\ u.local_confirmed_num = s.local_confirmed_num
      /\ u.remote_confirmed_nums = [s.remote_confirmed_nums EXCEPT ![r] = end]
      /\ u.reordering_requests = s.reordering_requests
      /\ u.reordering_confirms1 = s.reordering_confirms1
      /\ u.reordering_confirms2 = s.reordering_confirms2
      /\ u.seq_num_offset = s.seq_num_offset
  BY <1>1, <1>2 DEF ReplicaFields
<1>5. /\ u.remote_confirmed_nums \in [Replicas -> Nat]
      /\ u.remote_confirmed_nums[r] = end
      /\ \A i \in Replicas : i /= r =>
            u.remote_confirmed_nums[i] = s.remote_confirmed_nums[i]
  BY <1>1, <1>2, <1>4
<1>6. \A i \in Replicas :
         s.remote_confirmed_nums[i] <= u.remote_confirmed_nums[i]
  <2>1. \A i \in Replicas : s.remote_confirmed_nums[i] \in Nat BY <1>2
  <2>2. QED BY <1>5, <2>1
<1>7. Backed(u, caps)
  <2>1. Backing(s.remote_confirmed_nums, Len(s.app)) BY DEF Fit, Backed
  <2>2. Backing(u.remote_confirmed_nums, Len(s.app))
    BY <1>2, <1>3, <1>5, <1>6, <2>1, BackedGrows
  <2>3. \A i \in Replicas : /\ u.remote_confirmed_nums[i] <= caps[i]
                            /\ u.remote_confirmed_nums[i] <= Len(s.requests)
    <3>1. \A i \in Replicas : /\ s.remote_confirmed_nums[i] <= caps[i]
                              /\ s.remote_confirmed_nums[i] <= Len(s.requests)
      BY DEF Fit, Backed
    <3>2. QED BY <1>5, <3>1
  <2>4. QED BY <1>4, <2>2, <2>3 DEF Backed
<1>8. Executing(u) /\ Honest(u, r)
  BY <1>4 DEF Fit, Executing, Honest, Lacks
<1>9. /\ t \in ReplicaFields
      /\ Executes(u, t)
      /\ Executing(t) /\ Backed(t, caps) /\ Honest(t, r)
      /\ Len(u.app) <= Len(t.app)
  BY <1>4, <1>7, <1>8, DoUpdateDoes
<1>10. /\ t.panicked = "no" /\ t.requests = s.requests
       /\ t.verified_num = s.verified_num
       /\ t.local_confirmed_num = s.local_confirmed_num
       /\ t.remote_confirmed_nums = u.remote_confirmed_nums
       /\ t.reordering_requests = s.reordering_requests
       /\ t.reordering_confirms1 = s.reordering_confirms1
       /\ t.reordering_confirms2 = s.reordering_confirms2
       /\ t.seq_num_offset = s.seq_num_offset
  BY <1>4, <1>9 DEF Executes, Counts
<1>11. Sizes(t) BY <1>9, <1>10 DEF Fit, Sizes
<1>12. Pending(t, X) = Pending(s, X) BY <1>10 DEF Pending
<1>13. \A n \in Pending(s, X) : n \in Pledges /\ n.replica /= r
                                /\ n.replica \in Replicas
  BY LiveAssumption DEF Fit, Gathered, Pledges
<1>14. \A n \in Pending(s, X) : n.start > t.remote_confirmed_nums[n.replica]
  BY <1>5, <1>10, <1>13 DEF Fit, Ahead
<1>15. Ahead(t, X) BY <1>10, <1>12, <1>14 DEF Fit, Ahead
<1>16. Gapped(t) BY <1>10 DEF Fit, Gapped, op_num, ordered_num
<1>17. Pending(t, X) \subseteq G BY <1>12 DEF Fit
<1>18. Fit(t, r, caps, G, X) BY <1>9, <1>11, <1>15, <1>16, <1>17 DEF Fit
<1>19. Settled(t)
  <2>1. \A m \in s.reordering_confirms2 :
           m.replica \in Replicas /\ m.replica /= r
    BY <1>13 DEF Pending
  <2>2. QED BY <1>5, <1>10, <2>1 DEF Settled
<1>20. Len(s.app) <= Len(t.app) BY <1>4, <1>9
<1>21. QED BY <1>5, <1>10, <1>18, <1>19, <1>20

\* The replica's own Confirm comes out of the loopback.
LEMMA LoopbackConfirmKeeps ==
  ASSUME IInv, NEW r \in Live, LoopbackConfirm(r)
  PROVE  IInv' /\ Does(r)
<1>1. PICK s : s = replica[r] OBVIOUS
<1>2. PICK caps : caps = Locals OBVIOUS
<1>3. PICK G : G = Universe(r) OBVIOUS
<1>4. PICK X : X = InNet(r) OBVIOUS
<1>5. r \in Replicas /\ DOMAIN replica = Replicas /\ DOMAIN loopback = Replicas
  BY LiveAssumption DEF IInv, Shapes
<1>6. /\ caps \in [Replicas -> Nat] /\ Gathered(G, r, caps)
      /\ Fit(s, r, caps, G, X) /\ Settled(s) /\ s.panicked = "no"
      /\ s \in ReplicaFields
  BY <1>1, <1>2, <1>3, <1>4, RunningFit DEF LoopbackConfirm
<1>7. PICK e : /\ loopback[r] = <<e>>
               /\ e.msg \in Pledges /\ e.msg.replica = r
               /\ e.msg.start = s.remote_confirmed_nums[r] + 1
               /\ e.msg.end = s.local_confirmed_num
               /\ e.msg.start <= e.msg.end
               /\ confirm
  <2>1. LoopbackInv(r) /\ loopback[r] /= <<>>
    BY <1>5 DEF IInv, LoopbackConfirm
  <2>2. QED BY <1>1, <2>1 DEF LoopbackInv
<1>8. Head(loopback[r]) = e /\ Tail(loopback[r]) = <<>> BY <1>7
<1>9. PICK end : end = e.msg.end OBVIOUS
<1>10. PICK u : u = [s EXCEPT !.remote_confirmed_nums[r] = end] OBVIOUS
<1>11. PICK t : t = DoUpdateConfirmNum(r, u) OBVIOUS
<1>12. /\ Becomes(r, t) /\ HandleLoopback(r, t.out, <<>>)
       /\ UNCHANGED <<clientVars, sequenced, saved, variant>>
  BY <1>1, <1>7, <1>8, <1>9, <1>10, <1>11
  DEF LoopbackConfirm, multicastVars
<1>13. /\ end \in Nat /\ s.remote_confirmed_nums[r] <= end
       /\ end <= caps[r] /\ end <= Len(s.requests)
  <2>1. s.remote_confirmed_nums[r] \in Nat BY <1>5, <1>6 DEF ReplicaFields
  <2>2. end \in Nat BY <1>7, <1>9 DEF Pledges
  <2>3. caps[r] = s.local_confirmed_num BY <1>1, <1>2, <1>5 DEF Locals
  <2>4. s.local_confirmed_num <= Len(s.requests) BY <1>6 DEF Fit, Sizes
  <2>5. end = s.local_confirmed_num /\ s.remote_confirmed_nums[r] + 1 <= end
    BY <1>7, <1>9
  <2>6. QED BY <2>1, <2>2, <2>3, <2>4, <2>5
<1>14. /\ Fit(t, r, caps, G, X) /\ Settled(t)
       /\ t.requests = s.requests /\ Len(s.app) <= Len(t.app)
       /\ t.local_confirmed_num = s.local_confirmed_num
       /\ t.remote_confirmed_nums[r] = end
       /\ t.panicked = "no" /\ SameRequests(s, t)
  BY <1>6, <1>7, <1>10, <1>11, <1>13, OwnConfirmFits DEF SameRequests
<1>15. net' = net \cup t.out /\ dup' = dup
       /\ loopback' = [loopback EXCEPT ![r] = Tail(@) \o Looped(r, <<>>)]
  BY <1>12 DEF HandleLoopback
<1>16. /\ DOMAIN loopback' = Replicas /\ loopback'[r] = <<>>
       /\ \A i \in Replicas : i /= r => loopback'[i] = loopback[i]
  <2>1. Looped(r, <<>>) = <<>> BY DEF Looped
  <2>2. <<>> \o <<>> = <<>> OBVIOUS
  <2>3. QED BY <1>5, <1>8, <1>15, <2>1, <2>2
<1>17. \A d \in t.out : d.msg.kind /= "Confirm"
  <2>1. \A d \in t.out : d.msg \in Replies \cup Asks
    BY <1>14 DEF Fit, Sizes, ReplicaFields, Sent
  <2>2. QED BY <2>1, Kinds
<1>18. \A i \in Replicas : InNet(i)' = InNet(i)
  <2>1. \A d \in net' : d \in net \/ d.msg.kind /= "Confirm"
    BY <1>15, <1>17
  <2>2. \A d \in net : d \in net' BY <1>15
  <2>3. QED BY <2>1, <2>2, SameConfirms
<1>19. Shapes'
  <2>1. DOMAIN replica' = Replicas BY <1>5, <1>12 DEF Becomes
  <2>2. QED BY <1>12, <1>15, <1>16, <2>1 DEF IInv, Shapes, clientVars
<1>20. \A i \in Replicas : LoopbackInv(i)'
  <2>1. ASSUME NEW i \in Replicas PROVE LoopbackInv(i)'
    <3>1. CASE i = r
      <4>1. replica'[r] = [t EXCEPT !.out = {}] BY <1>5, <1>12 DEF Becomes
      <4>2. t \in ReplicaFields BY <1>14 DEF Fit, Sizes
      <4>3. /\ replica'[r].local_confirmed_num = t.local_confirmed_num
            /\ replica'[r].remote_confirmed_nums = t.remote_confirmed_nums
        BY <4>1, <4>2 DEF ReplicaFields
      <4>4. replica'[r].remote_confirmed_nums[r]
              = replica'[r].local_confirmed_num
        BY <1>7, <1>9, <1>14, <4>3
      <4>5. QED BY <1>16, <3>1, <4>4 DEF LoopbackInv
    <3>2. CASE i /= r
      <4>1. replica'[i] = replica[i] BY <1>5, <1>12, <3>2 DEF Becomes
      <4>2. loopback'[i] = loopback[i] /\ variant' = variant
        BY <1>12, <1>16, <3>2
      <4>3. QED BY <4>1, <4>2, LoopbackStays
    <3>3. QED BY <3>1, <3>2
  <2>2. QED BY <2>1
<1>21. \A d \in net' : d \in net \/ d \in t.out BY <1>15
<1>22. StartsWith(t.requests, s.requests)
  <2>1. s.requests \in Seq(Signed) BY <1>6 DEF ReplicaFields
  <2>2. QED BY <1>14, <2>1, StartsWithSelf
<1>23. InNet(r)' = X BY <1>4, <1>5, <1>18
<1>24. UNCHANGED <<clientVars, variant>> BY <1>12
<1>25. IInv'
  BY <1>1, <1>2, <1>6, <1>12, <1>14, <1>18, <1>19, <1>20, <1>21, <1>22,
     <1>23, <1>24, HandlerKeeps
<1>26. Does(r)
  <2>1. Took(r, s, t) BY <1>14 DEF Took
  <2>2. PICK q : q = <<>> OBVIOUS
  <2>3. saved' = saved /\ UNCHANGED <<clientVars, sequenced, variant>>
    BY <1>12
  <2>4. Fine(t) BY <1>14 DEF Fine
  <2>5. QED
    BY <1>1, <1>3, <1>6, <1>12, <1>14, <1>18, <1>21, <1>23, <2>1, <2>2, <2>3,
       <2>4, StepDoes
<1>27. QED BY <1>25, <1>26

\* A Confirm covers what is ordered and not confirmed.
LEMMA SendConfirmDoes ==
  ASSUME NEW r \in Live, NEW s \in ReplicaFields,
         s.local_confirmed_num <= Len(s.requests), NEW N, N = Len(s.requests),
         NEW own, own = SendConfirm(r, s), own /= <<>>
  PROVE  \E c \in Pledges :
            /\ own = <<c>> /\ confirm /\ c.replica = r
            /\ c.start = s.local_confirmed_num + 1 /\ c.end = N
            /\ c.start <= c.end
            /\ c.start = s.remote_confirmed_nums[r] + 1
            /\ c.digest = Inner(s, c.start, c.end)
<1>1. s.requests \in Seq(Signed) /\ s.local_confirmed_num \in Nat
  BY DEF ReplicaFields
<1>2. N \in Nat BY <1>1, LenProperties
<1>3. PICK first : first = s.local_confirmed_num + 1 OBVIOUS
<1>4. /\ confirm /\ first <= N /\ first = s.remote_confirmed_nums[r] + 1
      /\ own = <<ConfirmMsg(r, first, N, Inner(s, first, N))>>
  BY <1>3 DEF SendConfirm, ordered_num
<1>5. first \in Nat \ {0} /\ N \in Nat \ {0} /\ first <= N + 1 /\ N <= N
  BY <1>1, <1>2, <1>3, <1>4
<1>6. Inner(s, first, N) \in Seq(Requests) BY <1>1, <1>5, InnerType
<1>7. PICK d : d = Inner(s, first, N) OBVIOUS
<1>8. PICK c : c = ConfirmMsg(r, first, N, d) OBVIOUS
<1>9. /\ c \in Pledges /\ c.replica = r /\ c.start = first /\ c.end = N
      /\ c.digest = d
  BY <1>5, <1>6, <1>7, <1>8 DEF ConfirmMsg, Pledges
<1>10. QED BY <1>3, <1>4, <1>7, <1>8, <1>9

\* The replica has confirmed all it has ordered.
LEMMA FitConfirms ==
  ASSUME NEW r, NEW caps, NEW G, NEW s, NEW X, Fit(s, r, caps, G, X),
         NEW N, N = Len(s.requests), s.local_confirmed_num <= N,
         NEW u, u = [s EXCEPT !.local_confirmed_num = N]
  PROVE  /\ Fit(u, r, caps, G, X) /\ (Settled(s) => Settled(u))
         /\ u.local_confirmed_num = N /\ u.requests = s.requests
         /\ u.remote_confirmed_nums = s.remote_confirmed_nums
         /\ u.app = s.app /\ u.out = s.out
<1>1. s \in ReplicaFields BY DEF Fit, Sizes
<1>2. N \in Nat BY <1>1, LenProperties DEF ReplicaFields
<1>3. /\ u \in ReplicaFields /\ u.local_confirmed_num = N
      /\ u.requests = s.requests /\ u.app = s.app /\ u.out = s.out
      /\ u.verified_num = s.verified_num
      /\ u.confirmed_num = s.confirmed_num
      /\ u.remote_confirmed_nums = s.remote_confirmed_nums
      /\ u.reordering_requests = s.reordering_requests
      /\ u.reordering_confirms1 = s.reordering_confirms1
      /\ u.reordering_confirms2 = s.reordering_confirms2
      /\ u.seq_num_offset = s.seq_num_offset /\ u.panicked = s.panicked
  BY <1>1, <1>2 DEF ReplicaFields
<1>4. Pending(u, X) = Pending(s, X) BY <1>3 DEF Pending
<1>5. N <= N BY <1>2
<1>6. Sizes(u) BY <1>3, <1>5 DEF Fit, Sizes
<1>7. Executing(u) /\ Backed(u, caps) /\ Honest(u, r)
  BY <1>3 DEF Fit, Executing, Backed, Honest, Lacks
<1>8. Ahead(u, X) BY <1>3, <1>4 DEF Fit, Ahead
<1>9. Gapped(u) BY <1>3 DEF Fit, Gapped, op_num, ordered_num
<1>10. Fit(u, r, caps, G, X) BY <1>4, <1>6, <1>7, <1>8, <1>9 DEF Fit
<1>11. Settled(s) => Settled(u) BY <1>3 DEF Settled
<1>12. QED BY <1>3, <1>10, <1>11

\* A new Confirm reaches the live replicas but its sender.
LEMMA ConfirmSpreads ==
  ASSUME NEW r \in Live, NEW c, c.kind = "Confirm",
         NEW O, \A d \in O : d.msg.kind /= "Confirm",
         net' = net \cup (O \cup SendTo(Peers(r), c)), NEW i \in Replicas
  PROVE  InNet(i)' = IF i \in Peers(r) THEN InNet(i) \cup {c} ELSE InNet(i)
<1>1. CASE i \notin Peers(r)
  <2>1. ASSUME NEW m, m \in InNet(i)' PROVE m \in InNet(i)
    <3>1. PICK d \in net' : d.to = i /\ d.msg = m /\ m.kind = "Confirm"
      BY <2>1 DEF InNet, InFlightTo
    <3>2. d \notin SendTo(Peers(r), c) BY <1>1, <3>1 DEF SendTo, Datagram
    <3>3. d \in net BY <3>1, <3>2
    <3>4. QED BY <3>1, <3>3 DEF InNet, InFlightTo
  <2>2. ASSUME NEW m, m \in InNet(i) PROVE m \in InNet(i)'
    BY <2>2 DEF InNet, InFlightTo
  <2>3. InNet(i)' = InNet(i) BY <2>1, <2>2
  <2>4. QED BY <1>1, <2>3
<1>2. CASE i \in Peers(r)
  <2>1. ASSUME NEW m, m \in InNet(i)' PROVE m \in InNet(i) \cup {c}
    <3>1. PICK d \in net' : d.to = i /\ d.msg = m /\ m.kind = "Confirm"
      BY <2>1 DEF InNet, InFlightTo
    <3>2. CASE d \in SendTo(Peers(r), c)
      <4>1. m = c BY <3>1, <3>2 DEF SendTo, Datagram
      <4>2. QED BY <4>1
    <3>3. CASE d \in net BY <3>1, <3>3 DEF InNet, InFlightTo
    <3>4. QED BY <3>1, <3>2, <3>3
  <2>2. ASSUME NEW m, m \in InNet(i) \cup {c} PROVE m \in InNet(i)'
    <3>1. CASE m \in InNet(i) BY <3>1 DEF InNet, InFlightTo
    <3>2. CASE m = c
      <4>1. PICK d : d = Datagram(i, c) OBVIOUS
      <4>2. d \in net' /\ d.to = i /\ d.msg = c
        BY <1>2, <4>1 DEF SendTo, Datagram
      <4>3. QED BY <3>2, <4>2 DEF InNet, InFlightTo
    <3>3. QED BY <2>2, <3>1, <3>2
  <2>3. InNet(i)' = InNet(i) \cup {c} BY <2>1, <2>2
  <2>4. QED BY <1>2, <2>3
<1>3. QED BY <1>1, <1>2

\* A replica that has received what was held back confirms what is ordered.
LEMMA ConfirmingKeeps ==
  ASSUME IInv, NEW r \in Live, NEW s, s = replica[r], NEW t, NEW caps,
         caps = Locals, NEW G, G = Universe(r), NEW X, X = InNet(r),
         Fit(t, r, caps, G, X), Settled(t), Steps(s, t, r, G),
         s.panicked = "no", Took(r, s, t),
         NEW own, own = SendConfirm(r, t), own /= <<>>,
         Becomes(r, [t EXCEPT !.local_confirmed_num = ordered_num(t)]),
         Pace(r, t.out \cup UNION {SendTo(Peers(r), own[k]) :
                                      k \in 1..Len(own)}, own),
         UNCHANGED <<clientVars, sequenced, variant>>,
         saved' = [saved EXCEPT ![r] = <<>>]
  PROVE  IInv' /\ Does(r)
<1>1. /\ r \in Replicas /\ DOMAIN replica = Replicas
      /\ DOMAIN loopback = Replicas /\ DOMAIN saved = Replicas
  BY LiveAssumption DEF IInv, Shapes
<1>2. PICK N : N = Len(t.requests) OBVIOUS
<1>3. t \in ReplicaFields /\ t.local_confirmed_num <= N
  BY <1>2 DEF Fit, Sizes
<1>4. PICK c \in Pledges :
         /\ own = <<c>> /\ confirm /\ c.replica = r
         /\ c.start = t.local_confirmed_num + 1 /\ c.end = N
         /\ c.start <= c.end
         /\ c.start = t.remote_confirmed_nums[r] + 1
         /\ c.digest = Inner(t, c.start, c.end)
  BY <1>2, <1>3, SendConfirmDoes
<1>5. PICK u : u = [t EXCEPT !.local_confirmed_num = N] OBVIOUS
<1>6. /\ Fit(u, r, caps, G, X) /\ Settled(u)
      /\ u.local_confirmed_num = N /\ u.requests = t.requests
      /\ u.remote_confirmed_nums = t.remote_confirmed_nums
      /\ u.app = t.app /\ u.out = t.out
  BY <1>2, <1>3, <1>5, FitConfirms
<1>7. PICK v : v = [u EXCEPT !.out = {}] OBVIOUS
<1>8. /\ Fit(v, r, caps, G, X) /\ Settled(v) /\ v.out = {}
      /\ v.app = t.app /\ v.requests = t.requests
      /\ v.local_confirmed_num = N
      /\ v.remote_confirmed_nums = t.remote_confirmed_nums
  BY <1>6, <1>7, FitSends
<1>9. replica' = [replica EXCEPT ![r] = v]
  BY <1>2, <1>5, <1>7 DEF Becomes, ordered_num
<1>10. /\ replica'[r] = v
       /\ \A i \in Replicas : i /= r => replica'[i] = replica[i]
  BY <1>1, <1>9
<1>11. caps \in [Replicas -> Nat] BY Known
<1>12. N \in Nat BY <1>2, <1>3, LenProperties DEF ReplicaFields
<1>13. PICK caps2 : caps2 = [caps EXCEPT ![r] = N] OBVIOUS
<1>14. caps[r] = t.local_confirmed_num
  BY <1>1 DEF Locals, Steps
<1>15. /\ caps2 \in [Replicas -> Nat] /\ caps2[r] = N
       /\ \A i \in Replicas : i /= r => caps2[i] = caps[i]
       /\ \A i \in Replicas : caps[i] <= caps2[i]
  <2>1. /\ caps2 \in [Replicas -> Nat] /\ caps2[r] = N
        /\ \A i \in Replicas : i /= r => caps2[i] = caps[i]
    BY <1>1, <1>11, <1>12, <1>13
  <2>2. \A i \in Replicas : caps[i] \in Nat BY <1>11
  <2>3. caps[r] <= caps2[r] BY <1>3, <1>14, <2>1
  <2>4. \A i \in Replicas : i /= r => caps[i] <= caps2[i] BY <2>1, <2>2
  <2>5. QED BY <2>1, <2>3, <2>4
<1>16. Locals' = caps2
  <2>1. \A i \in Replicas : replica'[i].local_confirmed_num = caps2[i]
    <3>1. \A i \in Replicas : caps[i] = replica[i].local_confirmed_num
      BY DEF Locals
    <3>2. QED BY <1>8, <1>10, <1>15, <3>1
  <2>2. Locals' = [i \in Replicas |-> caps2[i]] BY <2>1 DEF Locals
  <2>3. QED BY <1>15, <2>2
<1>17. PICK O : O = t.out OBVIOUS
<1>18. \A d \in O : d.msg.kind /= "Confirm"
  <2>1. \A d \in O : d.msg \in Replies \cup Asks
    BY <1>3, <1>17 DEF ReplicaFields, Sent
  <2>2. QED BY <2>1, Kinds
<1>19. net' = net \cup (O \cup SendTo(Peers(r), c))
  <2>1. Len(own) = 1 /\ own[1] = c BY <1>4
  <2>2. UNION {SendTo(Peers(r), own[k]) : k \in 1..Len(own)}
          = SendTo(Peers(r), c)
    BY <2>1
  <2>3. QED BY <1>17, <2>2 DEF Pace
<1>20. c.kind = "Confirm" BY Kinds
<1>21. \A i \in Replicas :
          InNet(i)' = IF i \in Peers(r) THEN InNet(i) \cup {c} ELSE InNet(i)
  BY <1>18, <1>19, <1>20, ConfirmSpreads
<1>22. ReplicaInv(r)'
  <2>1. PICK H : H = Pending(v, X) OBVIOUS
  <2>2. Gathered(G, r, caps) BY <1>1, Known
  <2>3. Fit(v, r, caps2, G, X) /\ Gathered(G, r, caps2)
    BY <1>8, <1>11, <1>15, <2>2, FitLater
  <2>4. Fit(v, r, caps2, H, X) /\ Gathered(H, r, caps2)
    BY <2>1, <2>3, FitLess
  <2>5. Fit(v, r, caps2, H, X)' /\ Gathered(H, r, caps2)' BY <2>4, SameFit
  <2>6. InNet(r)' = X BY <1>1, <1>21 DEF Peers
  <2>7. Universe(r)' = H BY <1>10, <2>1, <2>6 DEF Universe
  <2>8. QED BY <1>8, <1>10, <1>16, <2>5, <2>6, <2>7 DEF ReplicaInv
<1>23. ASSUME NEW i \in Replicas, i /= r PROVE ReplicaInv(i)'
  <2>1. PICK w : w = replica[i] OBVIOUS
  <2>2. PICK Y : Y = InNet(i) OBVIOUS
  <2>3. PICK H : H = Universe(i) OBVIOUS
  <2>4. replica'[i] = w BY <1>10, <1>23, <2>1
  <2>5. /\ Fit(w, i, caps, H, Y) /\ Gathered(H, i, caps) /\ Settled(w)
        /\ w.out = {} /\ (i \notin Live => w.app = <<>>)
    BY <2>1, <2>2, <2>3 DEF IInv, ReplicaInv
  <2>6. CASE i \in Peers(r)
    <3>1. PICK Y2 : Y2 = Y \cup {c} OBVIOUS
    <3>2. PICK H2 : H2 = H \cup {c} OBVIOUS
    <3>3. Fit(w, i, caps2, H2, Y2) /\ Gathered(H2, i, caps2)
      <4>1. /\ confirm /\ c.replica /= i /\ c.start = caps[c.replica] + 1
            /\ c.start <= c.end /\ c.end = caps2[c.replica]
        BY <1>4, <1>14, <1>15, <1>23
      <4>2. /\ Fit(w, i, caps, H, Y) /\ Gathered(H, i, caps)
            /\ caps \in [Replicas -> Nat] /\ caps2 \in [Replicas -> Nat]
            /\ \A j \in Replicas : caps[j] <= caps2[j]
        BY <1>11, <1>15, <2>5
      <4>3. QED BY ONLY c \in Pledges, <3>1, <3>2, <4>1, <4>2, FitAdds
    <3>4. Fit(w, i, caps2, H2, Y2)' /\ Gathered(H2, i, caps2)'
      BY <3>3, SameFit
    <3>5. InNet(i)' = Y2 BY <1>21, <2>2, <2>6, <3>1
    <3>6. Universe(i)' = H2
      BY <2>1, <2>2, <2>3, <2>4, <3>1, <3>2, <3>5 DEF Universe, Pending
    <3>7. QED BY <1>16, <2>4, <2>5, <3>4, <3>5, <3>6 DEF ReplicaInv
  <2>7. CASE i \notin Peers(r)
    <3>1. Fit(w, i, caps2, H, Y) /\ Gathered(H, i, caps2)
      BY <1>11, <1>15, <2>5, FitLater
    <3>2. Fit(w, i, caps2, H, Y)' /\ Gathered(H, i, caps2)'
      BY <3>1, SameFit
    <3>3. InNet(i)' = Y BY <1>21, <2>2, <2>7
    <3>4. Universe(i)' = H BY <2>1, <2>2, <2>3, <2>4, <3>3 DEF Universe
    <3>5. QED BY <1>16, <2>4, <2>5, <3>2, <3>3, <3>4 DEF ReplicaInv
  <2>8. QED BY <2>6, <2>7
<1>24. loopback[r] = <<>>
  <2>1. /\ s.remote_confirmed_nums[r] = t.remote_confirmed_nums[r]
        /\ s.local_confirmed_num = t.local_confirmed_num
    BY DEF Steps
  <2>2. /\ t.remote_confirmed_nums[r] \in Nat
        /\ t.local_confirmed_num \in Nat
    BY <1>1, <1>3 DEF ReplicaFields
  <2>3. s.remote_confirmed_nums[r] = s.local_confirmed_num
    BY <1>4, <2>1, <2>2
  <2>4. \A e : e.msg.start = s.remote_confirmed_nums[r] + 1
               /\ e.msg.end = s.local_confirmed_num
                 => ~(e.msg.start <= e.msg.end)
    BY <2>1, <2>2, <2>3
  <2>5. LoopbackInv(r) BY <1>1 DEF IInv
  <2>6. QED BY <2>4, <2>5 DEF LoopbackInv
<1>25. PICK e : e = [msg |-> c, before |-> InFlightTo(net', r)] OBVIOUS
<1>26. /\ DOMAIN loopback' = Replicas /\ loopback'[r] = <<e>>
       /\ \A i \in Replicas : i /= r => loopback'[i] = loopback[i]
  <2>1. Looped(r, own) = <<e>>
    <3>1. Len(own) = 1 /\ own[1] = c BY <1>4
    <3>2. Looped(r, own) = [k \in 1..1 |-> [msg |-> own[k],
                                            before |-> InFlightTo(net', r)]]
      BY <3>1 DEF Looped
    <3>3. QED BY <1>25, <3>1, <3>2
  <2>2. <<>> \o <<e>> = <<e>>
    <3>1. <<e>> \in [1..1 -> {e}] OBVIOUS
    <3>2. <<e>> \in Seq({e}) BY <3>1, SeqOf
    <3>3. QED BY <3>2, ConcatEmptySeq
  <2>3. loopback' = [loopback EXCEPT ![r] = @ \o Looped(r, own)]
    BY DEF Pace
  <2>4. QED BY <1>1, <1>24, <2>1, <2>2, <2>3
<1>27. ASSUME NEW i \in Replicas PROVE LoopbackInv(i)'
  <2>1. CASE i = r
    <3>1. e.msg = c BY <1>25
    <3>2. replica'[r].local_confirmed_num = N
          /\ replica'[r].remote_confirmed_nums[r] = t.remote_confirmed_nums[r]
      BY <1>8, <1>10
    <3>3. confirm' BY <1>4 DEF confirm
    <3>4. QED BY <1>4, <1>26, <2>1, <3>1, <3>2, <3>3 DEF LoopbackInv
  <2>2. CASE i /= r BY <1>10, <1>26, <2>2, LoopbackStays
  <2>3. QED BY <2>1, <2>2
<1>28. Shapes'
  <2>1. DOMAIN replica' = Replicas BY <1>1, <1>9
  <2>2. /\ DOMAIN saved' = Replicas
        /\ \A i \in Replicas : saved'[i] = saved[i] \/ saved'[i] = <<>>
    BY <1>1
  <2>3. \A i \in Replicas : saved'[i] = <<>> \/ \E p \in Signed : saved'[i] = <<p>>
    BY <2>2 DEF IInv, Shapes
  <2>4. dup' = dup BY DEF Pace
  <2>5. QED BY <1>26, <2>1, <2>2, <2>3, <2>4 DEF IInv, Shapes, clientVars
<1>29. ASSUME NEW i \in Replicas
       PROVE  /\ replica'[i].app \in Seq(Requests)
              /\ StartsWith(replica'[i].app, replica[i].app)
  <2>1. CASE i = r
    <3>1. s \in ReplicaFields /\ Executing(s) /\ Executing(t)
      BY <1>1, Known DEF Fit
    <3>2. StartsWith(t.requests, s.requests) /\ Len(s.app) <= Len(t.app)
      BY DEF Steps
    <3>3. StartsWith(t.app, s.app) BY <1>3, <3>1, <3>2, AppStarts
    <3>4. t.app \in Seq(Requests) BY <1>3 DEF ReplicaFields
    <3>5. QED BY <1>8, <1>10, <2>1, <3>3, <3>4
  <2>2. CASE i /= r
    <3>1. replica[i].app \in Seq(Requests) BY Known
    <3>2. StartsWith(replica[i].app, replica[i].app) BY <3>1, StartsWithSelf
    <3>3. QED BY <1>10, <2>2, <3>1, <3>2
  <2>3. QED BY <2>1, <2>2
<1>30. ASSUME NEW d \in net' PROVE d \in net \/ NetInv(d)'
  <2>1. CASE d \in O
    <3>1. \/ d.to \in Live /\ d.msg \in Asks
          \/ /\ d.to \in Clients /\ d.msg \in Replies /\ d.msg.replica = r
             /\ Executed(t.app, d.to, d.msg.num, d.msg.result)
      BY <1>17, <2>1 DEF Fit, Honest
    <3>2. d \in Sent BY <1>3, <1>17, <2>1 DEF ReplicaFields
    <3>3. d = Datagram(d.to, d.msg) BY <3>2 DEF Sent, Datagram
    <3>4. QED BY <1>8, <1>10, <3>1, <3>3 DEF NetInv
  <2>2. CASE d \in SendTo(Peers(r), c)
    BY <2>2 DEF SendTo, Datagram, Peers, NetInv
  <2>3. QED BY <1>19, <2>1, <2>2
<1>31. \A i \in Replicas : ReplicaInv(i)' BY <1>22, <1>23
<1>32. UNCHANGED clientVars OBVIOUS
<1>33. IInv' BY <1>27, <1>28, <1>29, <1>30, <1>31, <1>32, Moves
<1>34. Does(r)
  <2>1. /\ u.requests = t.requests /\ u.seq_num_offset = t.seq_num_offset
        /\ u.reordering_requests = t.reordering_requests
        /\ u.panicked = t.panicked /\ u.app = t.app /\ u \in ReplicaFields
    BY <1>3, <1>5, <1>6 DEF ReplicaFields, Fit, Sizes
  <2>2. /\ v.requests = t.requests /\ v.seq_num_offset = t.seq_num_offset
        /\ v.reordering_requests = t.reordering_requests
        /\ v.panicked = t.panicked /\ v.app = t.app
    BY <1>7, <2>1 DEF ReplicaFields
  <2>3. Took(r, replica[r], replica'[r])
    BY <1>10, <2>2, TookSame DEF SameRequests
  <2>4. Truthful(Universe(r), replica'[r].requests) => Fine(replica'[r])
    BY <1>10, <2>2 DEF Steps, Fine
  <2>5. ASSUME NEW i \in Replicas, NEW m \in Universe(i)'
        PROVE  Vouched(r, i, m)
    <3>1. CASE i = r
      <4>1. InNet(r)' = X BY <1>1, <1>21 DEF Peers
      <4>2. Universe(r)' = Pending(v, X) BY <1>10, <4>1 DEF Universe
      <4>3. Pending(v, X) \subseteq G BY <1>8 DEF Fit
      <4>4. QED BY <2>5, <3>1, <4>2, <4>3 DEF Vouched
    <3>2. CASE i /= r
      <4>1. InNet(i)' = InNet(i) \/ InNet(i)' = InNet(i) \cup {c} BY <1>21
      <4>2. m \in Universe(i) \/ m = c
        BY <1>10, <2>5, <3>2, <4>1 DEF Universe, Pending
      <4>3. CASE m = c
        <5>1. Inner(v, c.start, c.end) = Inner(t, c.start, c.end)
          BY <2>2 DEF Inner
        <5>2. QED BY <1>2, <1>4, <1>10, <2>2, <4>3, <5>1 DEF Vouched
      <4>4. QED BY <4>2, <4>3 DEF Vouched
    <3>3. QED BY <3>1, <3>2
  <2>6. ASSUME NEW d \in net', d \notin net
        PROVE  \/ d.to \in Clients
               \/ d.to \in Live /\ d.msg.kind = "Confirm"
               \/ d.to \in Live /\ d.msg \in Asks /\ Lacks(replica'[r], d.msg)
    <3>1. CASE d \in O
      <4>1. \/ d.to \in Clients
            \/ d.to \in Live /\ d.msg \in Asks /\ Lacks(t, d.msg)
        BY <1>17, <3>1 DEF Fit, Honest
      <4>2. Lacks(t, d.msg) => Lacks(v, d.msg) BY <2>2 DEF Lacks
      <4>3. QED BY <1>10, <4>1, <4>2
    <3>2. CASE d \in SendTo(Peers(r), c)
      BY <1>20, <3>2 DEF SendTo, Datagram, Peers
    <3>3. QED BY <1>19, <2>6, <3>1, <3>2
  <2>7. \A i \in Replicas : saved'[i] = saved[i] \/ saved'[i] = <<>> BY <1>1
  <2>8. Len(replica[r].app) <= Len(replica'[r].app)
    BY <1>10, <2>2 DEF Steps
  <2>9. QED BY <1>10, <2>3, <2>4, <2>5, <2>6, <2>7, <2>8 DEF Does
<1>35. QED BY <1>33, <1>34

\* The delegate's pace, and the replica's.
LEMMA OnPaceKeeps ==
  ASSUME IInv, NEW r \in Live, OnPace(r)
  PROVE  IInv' /\ Does(r)
<1>1. PICK s : s = replica[r] OBVIOUS
<1>2. PICK caps : caps = Locals OBVIOUS
<1>3. PICK G : G = Universe(r) OBVIOUS
<1>4. PICK X : X = InNet(r) OBVIOUS
<1>5. PICK ps : ps = saved[r] OBVIOUS
<1>6. PICK t : t = ReceiveAll(r, s, ps) OBVIOUS
<1>7. PICK own :
        /\ own = IF t.panicked = "no" THEN SendConfirm(r, t) ELSE <<>>
        /\ Becomes(r, IF own = <<>> THEN t
                      ELSE [t EXCEPT !.local_confirmed_num = ordered_num(t)])
        /\ Pace(r, t.out \cup UNION {SendTo(Peers(r), own[k]) :
                                        k \in 1..Len(own)}, own)
  BY <1>1, <1>5, <1>6 DEF OnPace
<1>8. UNCHANGED <<clientVars, sequenced, variant>>
      /\ saved' = [saved EXCEPT ![r] = <<>>]
  BY DEF OnPace
<1>9. /\ caps \in [Replicas -> Nat] /\ Gathered(G, r, caps)
      /\ Fit(s, r, caps, G, X) /\ Settled(s) /\ s.panicked = "no"
      /\ s \in ReplicaFields
  BY <1>1, <1>2, <1>3, <1>4, RunningFit DEF OnPace
<1>10. r \in Replicas /\ DOMAIN replica = Replicas /\ DOMAIN saved = Replicas
       /\ DOMAIN loopback = Replicas
       /\ (ps = <<>> \/ \E p \in Signed : ps = <<p>>)
  BY <1>5, LiveAssumption DEF IInv, Shapes
<1>11. /\ Fit(t, r, caps, G, X) /\ Settled(t) /\ Goes(s, t, r, G)
       /\ Took(r, s, t)
  <2>1. /\ Fit(t, r, caps, G, X) /\ Settled(t) /\ Goes(s, t, r, G)
        /\ ps = <<>> => t = s
        /\ \A p \in Signed : ps = <<p>> => Receives(s, t, p)
    BY <1>6, <1>9, <1>10, ReceiveAllFits
  <2>2. \A p \in Signed : ps = <<p>> => Came(r, p)
    BY <1>5 DEF Came, Comes
  <2>3. Took(r, s, t) BY <1>10, <2>1, <2>2, ReceiveTook
  <2>4. QED BY <2>1, <2>3
<1>12. CASE own = <<>>
  <2>1. Becomes(r, t) BY <1>7, <1>12
  <2>2. net' = net \cup t.out /\ dup' = dup
        /\ loopback' = [loopback EXCEPT ![r] = @ \o Looped(r, <<>>)]
    <3>1. Len(own) = 0 BY <1>12
    <3>2. UNION {SendTo(Peers(r), own[k]) : k \in 1..Len(own)} = {}
      BY <3>1
    <3>3. QED BY <1>7, <1>12, <3>2 DEF Pace
  <2>3. \A d \in t.out : d.msg.kind /= "Confirm"
    <3>1. \A d \in t.out : d.msg \in Replies \cup Asks
      BY <1>11 DEF Fit, Sizes, ReplicaFields, Sent
    <3>2. QED BY <3>1, Kinds
  <2>4. \A i \in Replicas : InNet(i)' = InNet(i)
    <3>1. \A d \in net' : d \in net \/ d.msg.kind /= "Confirm"
      BY <2>2, <2>3
    <3>2. \A d \in net : d \in net' BY <2>2
    <3>3. QED BY <3>1, <3>2, SameConfirms
  <2>5. DOMAIN loopback' = Replicas
        /\ \A i \in Replicas : loopback'[i] = loopback[i]
    BY <1>10, <2>2, LoopbackSame
  <2>6. Shapes'
    <3>1. DOMAIN replica' = Replicas BY <1>10, <2>1 DEF Becomes
    <3>2. /\ DOMAIN saved' = Replicas
          /\ \A i \in Replicas : saved'[i] = saved[i] \/ saved'[i] = <<>>
      BY <1>8, <1>10
    <3>3. \A i \in Replicas : saved'[i] = <<>> \/ \E p \in Signed : saved'[i] = <<p>>
      BY <3>2 DEF IInv, Shapes
    <3>4. QED BY <1>8, <2>2, <2>5, <3>1, <3>2, <3>3 DEF IInv, Shapes, clientVars
  <2>7. \A i \in Replicas : LoopbackInv(i)'
    <3>1. ASSUME NEW i \in Replicas PROVE LoopbackInv(i)'
      <4>1. CASE i = r
        <5>1. replica'[r] = [t EXCEPT !.out = {}] BY <1>10, <2>1 DEF Becomes
        <5>2. t \in ReplicaFields BY <1>11 DEF Fit, Sizes
        <5>3. /\ replica'[r].local_confirmed_num = t.local_confirmed_num
              /\ replica'[r].remote_confirmed_nums = t.remote_confirmed_nums
          BY <5>1, <5>2 DEF ReplicaFields
        <5>4. /\ t.local_confirmed_num = s.local_confirmed_num
              /\ t.remote_confirmed_nums[r] = s.remote_confirmed_nums[r]
          BY <1>11 DEF Goes
        <5>5. QED BY <1>1, <1>8, <1>10, <2>5, <4>1, <5>3, <5>4, LoopbackStays
      <4>2. CASE i /= r
        <5>1. replica'[i] = replica[i] BY <1>10, <2>1, <4>2 DEF Becomes
        <5>2. QED BY <1>8, <2>5, <5>1, LoopbackStays
      <4>3. QED BY <4>1, <4>2
    <3>2. QED BY <3>1
  <2>8. InNet(r)' = X BY <1>4, <1>10, <2>4
  <2>9. \A d \in net' : d \in net \/ d \in t.out BY <2>2
  <2>10. StartsWith(t.requests, s.requests) /\ Len(s.app) <= Len(t.app)
         /\ t.local_confirmed_num = s.local_confirmed_num
    BY <1>11 DEF Goes
  <2>11. UNCHANGED <<clientVars, variant>> BY <1>8
  <2>12. IInv'
    BY <1>1, <1>2, <1>9, <1>11, <2>1, <2>4, <2>6, <2>7, <2>8, <2>9, <2>10,
       <2>11, HandlerKeeps
  <2>13. Does(r)
    <3>1. PICK q : q = <<>> OBVIOUS
    <3>2. saved' = [saved EXCEPT ![r] = q] BY <1>8, <3>1
    <3>3. Truthful(G, t.requests) => Fine(t)
      BY <1>9, <1>11 DEF Goes
    <3>4. UNCHANGED <<clientVars, sequenced, variant>> BY <1>8
    <3>5. QED
      BY <1>1, <1>3, <1>9, <1>11, <2>1, <2>4, <2>8, <2>9, <3>1, <3>2, <3>3,
         <2>10, <3>4, StepDoes
  <2>14. QED BY <2>12, <2>13
<1>13. CASE own /= <<>>
  <2>1. own = SendConfirm(r, t) /\ t.panicked = "no" BY <1>7, <1>13
  <2>2. Becomes(r, [t EXCEPT !.local_confirmed_num = ordered_num(t)])
    BY <1>7, <1>13
  <2>3. Steps(s, t, r, G) BY <1>11, <2>1 DEF Goes, Steps
  <2>4. QED
    BY <1>1, <1>2, <1>3, <1>4, <1>7, <1>8, <1>9, <1>11, <1>13, <2>1, <2>2,
       <2>3, ConfirmingKeeps
<1>14. QED BY <1>12, <1>13

\* At the start.
LEMMA InitKeeps ==
  ASSUME Init
  PROVE  IInv
<1>1. Cardinality(Replicas) \in Nat /\ NumFaulty \in Nat
      /\ IsFiniteSet(Replicas)
  BY ReplicasAssumption, FS_CardinalityType
<1>2. /\ net = {} /\ loopback = [r \in Replicas |-> <<>>] /\ dup = 0
      /\ sequenced = <<>> /\ saved = [r \in Replicas |-> <<>>]
      /\ replica = [r \in Replicas |-> NewReplica]
      /\ request_num = [c \in Clients |-> 0]
      /\ invoke = [c \in Clients |-> FALSE]
      /\ replies = [c \in Clients |-> {}]
      /\ results = [c \in Clients |-> <<>>]
  BY DEF Init, Init_Multiplex, Init_Client, Init_OrderedMulticast
<1>3. Shapes
  <2>1. <<>> \in Seq(Requests) OBVIOUS
  <2>2. QED BY <1>2, <2>1 DEF Shapes
<1>4. \A r \in Replicas : InNet(r) = {} BY <1>2 DEF InNet, InFlightTo
<1>5. PICK s : s = NewReplica OBVIOUS
<1>6. /\ s \in ReplicaFields /\ s.requests = <<>> /\ s.app = <<>>
      /\ s.verified_num = 0 /\ s.confirmed_num = 0
      /\ s.local_confirmed_num = 0 /\ s.out = {} /\ s.panicked = "no"
      /\ s.reordering_requests = {} /\ s.reordering_confirms1 = {}
      /\ s.reordering_confirms2 = {} /\ s.seq_num_offset = 0
      /\ s.remote_confirmed_nums = [i \in Replicas |-> 0]
  <2>1. <<>> \in Seq(Requests) /\ <<>> \in Seq(Signed) OBVIOUS
  <2>2. QED BY <1>5, <2>1 DEF NewReplica, ReplicaFields
<1>7. ASSUME NEW r \in Replicas PROVE ReplicaInv(r)
  <2>1. replica[r] = s BY <1>2, <1>5
  <2>2. Pending(s, {}) = {} BY <1>6 DEF Pending
  <2>3. Universe(r) = {} BY <1>4, <2>1, <2>2 DEF Universe
  <2>4. IsFiniteSet({}) BY FS_EmptySet
  <2>5. Len(s.requests) = 0 /\ Len(s.app) = 0 BY <1>6
  <2>6. Sizes(s) BY <1>6, <2>4, <2>5 DEF Sizes
  <2>7. Executing(s) BY <1>6, <2>5 DEF Executing
  <2>8. Backed(s, Locals)
    <3>1. {i \in Replicas : s.remote_confirmed_nums[i] >= 0} = Replicas
      BY <1>6
    <3>2. Backing(s.remote_confirmed_nums, 0) BY <1>1, <3>1 DEF Backing
    <3>3. \A i \in Replicas : Locals[i] = 0 BY <1>2, <1>5, <1>6 DEF Locals
    <3>4. QED BY <1>6, <2>5, <3>2, <3>3 DEF Backed
  <2>9. Ahead(s, {}) BY <1>6, <2>2 DEF Ahead
  <2>10. Gapped(s) BY <1>6 DEF Gapped
  <2>11. Honest(s, r) BY <1>6 DEF Honest
  <2>12. Fit(s, r, Locals, {}, {})
    BY <2>2, <2>6, <2>7, <2>8, <2>9, <2>10, <2>11 DEF Fit
  <2>13. Gathered({}, r, Locals) BY <2>4 DEF Gathered
  <2>14. Settled(s) BY <1>6 DEF Settled
  <2>15. QED BY <1>4, <1>6, <2>1, <2>3, <2>12, <2>13, <2>14 DEF ReplicaInv
<1>8. \A r \in Replicas : LoopbackInv(r)
  BY <1>2, <1>5, <1>6 DEF LoopbackInv
<1>9. ASSUME NEW c \in Clients PROVE ClientInv(c)
  <2>1. <<>> \in Seq(Results) /\ Len(<<>>) = 0 OBVIOUS
  <2>2. IsFiniteSet({}) BY FS_EmptySet
  <2>3. 0 \in 0..MaxRequestNum BY MaxRequestAssumption
  <2>4. QED BY <1>2, <2>1, <2>2, <2>3 DEF ClientInv
<1>10. ConsumedIsExecuted BY <1>2 DEF ConsumedIsExecuted
<1>11. QED BY <1>2, <1>3, <1>7, <1>8, <1>9, <1>10 DEF IInv

\* Every step keeps the invariant.
LEMMA NextKeeps ==
  ASSUME IInv, [Next]_vars
  PROVE  IInv'
<1>1. CASE UNCHANGED vars
  <2>1. /\ UNCHANGED <<clientVars, replica, variant>>
        /\ net' = net /\ loopback' = loopback /\ dup' = dup
        /\ saved' = saved /\ sequenced' = sequenced
    BY <1>1 DEF vars, netVars, multicastVars
  <2>2. Shapes' BY <2>1 DEF IInv, Shapes, clientVars
  <2>3. QED BY <2>1, <2>2, IdleKeeps
<1>2. CASE \E c \in Clients : Invoke(c) BY <1>2, InvokeKeeps
<1>3. CASE \E c \in Clients : \E m : HandleReply(c, m)
  BY <1>3, HandleReplyKeeps
<1>4. CASE \E m : Sequence(m) BY <1>4, SequenceKeeps
<1>5. CASE \E r \in Live : OnPace(r) BY <1>5, OnPaceKeeps
<1>6. CASE \E r \in Live : LoopbackConfirm(r) BY <1>6, LoopbackConfirmKeeps
<1>7. CASE \E r \in Live : \E m : HandleRequest(r, m)
  BY <1>7, HandleRequestKeeps
<1>8. CASE \E r \in Live : \E m : HandleConfirm(r, m)
  BY <1>8, HandleConfirmKeeps
<1>9. CASE \E r \in Live : \E m : HandleQuery(r, m) BY <1>9, HandleQueryKeeps
<1>10. CASE \E r \in Live : \E m : HandleQueryOk(r, m)
  BY <1>10, HandleQueryOkKeeps
<1>11. CASE \E d \in net : Lose(d) BY <1>11, LoseKeeps
<1>12. QED
  BY <1>1, <1>2, <1>3, <1>4, <1>5, <1>6, <1>7, <1>8, <1>9, <1>10, <1>11
  DEF Next, ReplicaStep

\* The invariant holds in every state.
THEOREM Invariance == Spec => []IInv
<1>1. Init => IInv BY InitKeeps
<1>2. IInv /\ [Next]_vars => IInv' BY NextKeeps
<1>3. QED BY <1>1, <1>2, PTL DEF Spec

\* What a client consumed is what n - f replicas executed.
THEOREM ConsumesExecuted == Spec => []ConsumedIsExecuted
<1>1. IInv => ConsumedIsExecuted BY DEF IInv
<1>2. QED BY <1>1, Invariance, PTL

\* A replica of neo-bn has executed what n - f replicas have in order.
THEOREM ExecutesOrdered == Spec => []ExecutedIsOrdered
<1>1. ASSUME IInv PROVE ExecutedIsOrdered
  <2>1. SUFFICES ASSUME confirm, NEW r \in Replicas,
                        NEW k \in 1..Len(replica[r].app)
                 PROVE  Cardinality({i \in Replicas :
                                       ordered_num(replica[i]) >= k})
                          >= Cardinality(Replicas) - NumFaulty
    BY DEF ExecutedIsOrdered
  <2>2. PICK s : s = replica[r] OBVIOUS
  <2>3. Fit(s, r, Locals, Universe(r), InNet(r)) /\ s \in ReplicaFields
    BY <1>1, <2>2, Known
  <2>4. PICK nums : nums = s.remote_confirmed_nums OBVIOUS
  <2>5. nums \in [Replicas -> Nat] BY <2>3, <2>4 DEF ReplicaFields
  <2>6. Len(s.app) \in Nat BY <2>3, LenProperties DEF ReplicaFields
  <2>7. PICK A : A = {i \in Replicas : nums[i] >= Len(s.app)} OBVIOUS
  <2>8. PICK B : B = {i \in Replicas : ordered_num(replica[i]) >= k} OBVIOUS
  <2>9. ASSUME NEW i \in A PROVE i \in B
    <3>1. i \in Replicas /\ nums[i] >= Len(s.app) BY <2>7
    <3>2. nums[i] <= replica[i].local_confirmed_num
      BY <2>3, <2>4, <3>1 DEF Fit, Backed, Locals
    <3>3. replica[i] \in ReplicaFields
          /\ replica[i].local_confirmed_num <= Len(replica[i].requests)
      BY <1>1, <3>1, Known DEF Fit, Sizes
    <3>4. Len(replica[i].requests) \in Nat
          /\ replica[i].local_confirmed_num \in Nat /\ nums[i] \in Nat
      BY <2>5, <3>1, <3>3, LenProperties DEF ReplicaFields
    <3>5. k <= Len(s.app) BY <2>2
    <3>6. Len(replica[i].requests) >= k
      BY <2>6, <3>1, <3>2, <3>3, <3>4, <3>5
    <3>7. QED BY <2>8, <3>1, <3>6 DEF ordered_num
  <2>10. Cardinality(A) >= Cardinality(Replicas) - NumFaulty
    BY <2>1, <2>3, <2>4, <2>7 DEF Fit, Backed, Backing
  <2>11. B \in SUBSET Replicas /\ A \in SUBSET B BY <2>8, <2>9
  <2>12. /\ Cardinality(A) \in Nat /\ Cardinality(B) \in Nat
         /\ Cardinality(A) <= Cardinality(B) /\ Cardinality(Replicas) \in Nat
    BY <2>11, CountType, CountLess
  <2>13. QED BY <2>8, <2>10, <2>12, ReplicasAssumption
<1>2. IInv => ExecutedIsOrdered BY <1>1
<1>3. QED BY <1>2, Invariance, PTL

\* What waits, waits for something that has not come.
THEOREM ReleasesParked == Spec => []ParkedWaits
<1>1. ASSUME IInv PROVE ParkedWaits
  <2>1. SUFFICES ASSUME NEW r \in Replicas, Running(r), NEW s, s = replica[r]
                 PROVE  /\ \A p \in s.reordering_requests :
                              op_num(s, p) > ordered_num(s) + 1
                        /\ \A m \in s.reordering_confirms1 :
                              m.end > s.verified_num
                        /\ \A m \in s.reordering_confirms2 :
                              m.start > s.remote_confirmed_nums[m.replica] + 1
    BY DEF ParkedWaits
  <2>2. /\ Fit(s, r, Locals, Universe(r), InNet(r)) /\ Settled(s)
        /\ Gathered(Universe(r), r, Locals)
        /\ s \in ReplicaFields /\ s.panicked = "no"
    BY <1>1, <2>1, Known DEF Running
  <2>3. \A p \in s.reordering_requests : op_num(s, p) > ordered_num(s) + 1
    BY <2>2 DEF Fit, Gapped
  <2>4. \A m \in s.reordering_confirms1 : m.end > s.verified_num
    BY <2>2 DEF Fit, Ahead
  <2>5. ASSUME NEW m \in s.reordering_confirms2
        PROVE  m.start > s.remote_confirmed_nums[m.replica] + 1
    <3>1. m.start > s.remote_confirmed_nums[m.replica]
      BY <2>2 DEF Fit, Ahead, Pending
    <3>2. m.start /= s.remote_confirmed_nums[m.replica] + 1
      BY <2>2 DEF Settled
    <3>3. m \in Pledges BY <2>2 DEF ReplicaFields
    <3>4. m.start \in Nat /\ m.replica \in Replicas
      BY <3>3, LiveAssumption DEF Pledges
    <3>5. s.remote_confirmed_nums[m.replica] \in Nat
      BY <2>2, <3>4 DEF ReplicaFields
    <3>6. QED BY <3>1, <3>2, <3>4, <3>5
  <2>6. QED BY <2>3, <2>4, <2>5
<1>2. IInv => ParkedWaits BY <1>1
<1>3. QED BY <1>2, Invariance, PTL

-----------------------------------------------------------------------------
(* The sequencer's order                                                   *)
(*                                                                         *)
(* What follows needs three things the model does not assume.  A replica   *)
(* takes the first packet it sees for the first of all, so that one that   *)
(* is late would start behind the others: the control script starts        *)
(* 2 * num_faulty + 1 replicas, n - f, each of which takes part in the     *)
(* first invocation.  The sequencer's numbers do not wrap around.  And no  *)
(* request reaches the sequencer twice (NumbersOnce): both copies would be *)
(* numbered and executed, and a replica could start at the second.  Every  *)
(* other datagram may be duplicated.                                       *)

Deployed ==
    /\ IsFiniteSet(Clients)
    /\ Cardinality(Clients) * MaxRequestNum < U32
    /\ Cardinality(Live) <= Cardinality(Replicas) - NumFaulty

\* Each request is numbered at most once, after its invocation.
Distinct ==
    \A k, l \in 1..Len(sequenced) : sequenced[k] = sequenced[l] => k = l

Invoked ==
    \A k \in 1..Len(sequenced) :
        sequenced[k].num <= request_num[sequenced[k].client]

\* A request on its way to the sequencer is not numbered yet.
Fresh(d) ==
    d.to = Sequencer => \A k \in 1..Len(sequenced) :
        sequenced[k] /= Request(d.msg.client, d.msg.num)

\* Until an invocation is over, one client only has started any.
Bootstrapping ==
    (\A c \in Clients : results[c] = <<>>) =>
        \A b, c \in Clients : request_num[b] > 0 /\ request_num[c] > 0 => b = c

SeqInv ==
    /\ Distinct
    /\ Invoked
    /\ \A d \in net : Fresh(d)
    /\ Bootstrapping

\* A packet holds the request the sequencer gave its number.
Sound(p) ==
    /\ p.seq_num \in 1..Len(sequenced)
    /\ p.request = sequenced[p.seq_num]

\* d brings such packets only, and is about numbers that were given.
Delivers(d) ==
    d.to \in Live => /\ d.msg.kind = "Request" => Sound(d.msg)
                     /\ d.msg.kind = "QueryOk" => Sound(d.msg.packet)
                     /\ d.msg.kind \in {"Query", "QueryOk"} =>
                           d.msg.op_num \in 1..Len(sequenced)

\* A replica in state s has ordered the sequencer's first requests.
InOrder(s) ==
    /\ s.seq_num_offset \in {0, 1}
    /\ s.seq_num_offset <= Len(sequenced)
    /\ \A p \in s.reordering_requests : Sound(p)
    /\ \A k \in 1..Len(s.requests) :
          Sound(s.requests[k]) /\ s.requests[k].seq_num = k

\* A Confirm has the digest of what the sequencer numbered.
Attests(m) ==
    /\ m.end <= Len(sequenced)
    /\ m.digest = [k \in 1..m.end - m.start + 1 |-> sequenced[m.start + k - 1]]

OrderInv(r) ==
    /\ InOrder(replica[r])
    /\ \A p : saved[r] = <<p>> => Sound(p)
    /\ \A m \in Universe(r) : Attests(m)
    /\ Fine(replica[r])
    /\ r \notin Live => replica[r].panicked = "no"

SInv ==
    /\ SeqInv
    /\ \A d \in net : Delivers(d)
    /\ \A r \in Replicas : OrderInv(r)

\* The sequencer numbers no more than what the clients may invoke.
LEMMA SequencedBound ==
  ASSUME IInv, Distinct, IsFiniteSet(Clients)
  PROVE  /\ Len(sequenced) \in Nat /\ Cardinality(Clients) \in Nat
         /\ Len(sequenced) <= Cardinality(Clients) * MaxRequestNum
<1>1. sequenced \in Seq(Requests) BY DEF IInv, Shapes
<1>2. PICK n : n = Len(sequenced) OBVIOUS
<1>3. n \in Nat BY <1>1, <1>2, LenProperties
<1>4. \A k \in 1..n : sequenced[k] \in Requests BY <1>1, <1>2, ElementOfSeq
<1>5. PICK T : T = Clients \X (1..MaxRequestNum) OBVIOUS
<1>6. PICK f : f = [k \in 1..n |-> <<sequenced[k].client, sequenced[k].num>>]
  OBVIOUS
<1>7. \A k \in 1..n : /\ sequenced[k].client \in Clients
                      /\ sequenced[k].num \in 1..MaxRequestNum
  BY <1>4 DEF Requests
<1>8. f \in [1..n -> T] BY <1>5, <1>6, <1>7
<1>9. \A k, l \in 1..n : f[k] = f[l] => k = l
  <2>1. SUFFICES ASSUME NEW k \in 1..n, NEW l \in 1..n, f[k] = f[l]
                 PROVE  k = l
    OBVIOUS
  <2>2. sequenced[k].client = sequenced[l].client
        /\ sequenced[k].num = sequenced[l].num
    BY <1>6, <2>1
  <2>3. sequenced[k] = sequenced[l] BY <1>4, <2>2, RequestType
  <2>4. QED BY <1>2, <2>3 DEF Distinct
<1>10. f \in Injection(1..n, T) BY <1>8, <1>9, Fun_IsInj
<1>11. /\ IsFiniteSet(1..MaxRequestNum)
       /\ Cardinality(1..MaxRequestNum) = MaxRequestNum
       /\ MaxRequestNum \in Nat
  <2>1. MaxRequestNum \in Int /\ 1 \in Int BY MaxRequestAssumption
  <2>2. Cardinality(1..MaxRequestNum)
          = IF 1 > MaxRequestNum THEN 0 ELSE MaxRequestNum - 1 + 1
    BY <2>1, FS_Interval
  <2>3. QED BY <2>1, <2>2, FS_Interval, MaxRequestAssumption
<1>12. IsFiniteSet(T) /\ Cardinality(T) = Cardinality(Clients) * MaxRequestNum
  BY <1>5, <1>11, FS_Product
<1>13. Cardinality(1..n) <= Cardinality(T) BY <1>10, <1>12, FS_Injection
<1>14. Cardinality(1..n) = n
  <2>1. n \in Int /\ 1 \in Int BY <1>3
  <2>2. Cardinality(1..n) = IF 1 > n THEN 0 ELSE n - 1 + 1
    BY <2>1, FS_Interval
  <2>3. QED BY <1>3, <2>2
<1>15. Cardinality(Clients) \in Nat BY FS_CardinalityType
<1>16. QED BY <1>2, <1>3, <1>12, <1>13, <1>14, <1>15

\* With no more than n - f replicas running, each of them has executed what a
\* client consumed.
LEMMA AllExecuted ==
  ASSUME IInv, Deployed, NEW r \in Live, NEW c \in Clients,
         NEW k \in DOMAIN results[c]
  PROVE  Executed(replica[r].app, c, k, results[c][k])
<1>1. PICK E : E = {i \in Replicas :
                      Executed(replica[i].app, c, k, results[c][k])}
  OBVIOUS
<1>2. Cardinality(E) >= Cardinality(Replicas) - NumFaulty
  BY <1>1 DEF IInv, ConsumedIsExecuted
<1>3. E \subseteq Live
  <2>1. ASSUME NEW i \in Replicas, i \notin Live PROVE i \notin E
    <3>1. replica[i].app = <<>> BY <2>1 DEF IInv, ReplicaInv
    <3>2. ~\E n \in 1..Len(replica[i].app) : TRUE BY <3>1
    <3>3. QED BY <1>1, <3>2 DEF Executed
  <2>2. QED BY <1>1, <2>1
<1>4. IsFiniteSet(Live) /\ Cardinality(Live) \in Nat
  BY LiveAssumption, CountType
<1>5. /\ Cardinality(E) \in Nat /\ Cardinality(Replicas) \in Nat
      /\ NumFaulty \in Nat
  <2>1. E \in SUBSET Replicas BY <1>1
  <2>2. QED BY <2>1, CountType, ReplicasAssumption
<1>6. Cardinality(E) >= Cardinality(Live) BY <1>2, <1>4, <1>5 DEF Deployed
<1>7. E = Live
  <2>1. SUFFICES ASSUME E /= Live PROVE FALSE OBVIOUS
  <2>2. E \in SUBSET Live BY <1>3
  <2>3. Cardinality(E) <= Cardinality(Live) /\ Cardinality(E) /= Cardinality(Live)
    BY <1>4, <2>1, <2>2, FS_Subset
  <2>4. QED BY <1>4, <1>5, <1>6, <2>3
<1>8. QED BY <1>1, <1>7

\* A live replica without a packet: only one request is numbered so far.
LEMMA FirstPacket ==
  ASSUME IInv, SeqInv, Deployed, NEW r \in Live, replica[r].requests = <<>>
  PROVE  Len(sequenced) <= 1
<1>1. sequenced \in Seq(Requests) BY DEF IInv, Shapes
<1>2. Len(sequenced) \in Nat BY <1>1, LenProperties
<1>3. \A k \in 1..Len(sequenced) : sequenced[k] \in Requests
  BY <1>1, ElementOfSeq
<1>4. ASSUME NEW c \in Clients PROVE results[c] = <<>>
  <2>1. SUFFICES ASSUME results[c] /= <<>> PROVE FALSE OBVIOUS
  <2>2. results[c] \in Seq(Results) BY DEF IInv, ClientInv
  <2>3. 1 \in DOMAIN results[c]
    <3>1. Len(results[c]) \in Nat /\ DOMAIN results[c] = 1..Len(results[c])
      BY <2>2, LenProperties
    <3>2. Len(results[c]) /= 0 BY <2>1, <2>2, EmptySeq
    <3>3. QED BY <3>1, <3>2
  <2>4. \E n \in 1..Len(replica[r].app) : TRUE
    BY <2>3, AllExecuted DEF Executed
  <2>5. r \in Replicas BY LiveAssumption
  <2>6. Executing(replica[r]) /\ replica[r].app \in Seq(Requests)
    BY <2>5, Known DEF Fit
  <2>7. Len(replica[r].app) <= 0 /\ Len(replica[r].app) \in Nat
    BY <2>6, LenProperties DEF Executing
  <2>8. QED BY <2>4, <2>7
<1>5. ASSUME NEW k \in 1..Len(sequenced)
      PROVE  /\ sequenced[k].client \in Clients /\ sequenced[k].num = 1
             /\ request_num[sequenced[k].client] > 0
  <2>1. PICK c : c = sequenced[k].client OBVIOUS
  <2>2. c \in Clients /\ sequenced[k].num \in 1..MaxRequestNum
    BY <1>3, <2>1 DEF Requests
  <2>3. sequenced[k].num <= request_num[c] BY <2>1 DEF SeqInv, Invoked
  <2>4. /\ request_num[c] \in 0..MaxRequestNum
        /\ Len(results[c]) = IF invoke[c] THEN request_num[c] - 1
                             ELSE request_num[c]
    BY <2>2 DEF IInv, ClientInv
  <2>5. Len(results[c]) = 0 BY <1>4, <2>2
  <2>6. request_num[c] <= 1 BY <2>4, <2>5
  <2>7. QED BY <2>1, <2>2, <2>3, <2>4, <2>6
<1>6. ASSUME NEW k \in 1..Len(sequenced), NEW l \in 1..Len(sequenced)
      PROVE  k = l
  <2>1. sequenced[k].client = sequenced[l].client
    BY <1>4, <1>5 DEF SeqInv, Bootstrapping
  <2>2. sequenced[k] = sequenced[l] BY <1>3, <1>5, <2>1, RequestType
  <2>3. QED BY <2>2 DEF SeqInv, Distinct
<1>7. SUFFICES ASSUME Len(sequenced) > 1 PROVE FALSE BY <1>2
<1>8. 1 \in 1..Len(sequenced) /\ 2 \in 1..Len(sequenced) BY <1>2, <1>7
<1>9. QED BY <1>6, <1>8

\* The sequencer's order only grows.
Grows ==
    /\ sequenced \in Seq(Requests) /\ sequenced' \in Seq(Requests)
    /\ StartsWith(sequenced', sequenced)

\* What agrees with the sequencer's order goes on doing so.
LEMMA SoundStays ==
  ASSUME Grows, NEW p, Sound(p)
  PROVE  Sound(p)'
<1>1. /\ Len(sequenced) \in Nat /\ Len(sequenced') \in Nat
      /\ Len(sequenced) <= Len(sequenced')
      /\ \A k \in 1..Len(sequenced) : sequenced'[k] = sequenced[k]
  BY LenProperties DEF Grows, StartsWith
<1>2. p.seq_num \in 1..Len(sequenced) /\ p.request = sequenced[p.seq_num]
  BY DEF Sound
<1>3. p.seq_num \in 1..Len(sequenced') BY <1>1, <1>2
<1>4. QED BY <1>1, <1>2, <1>3 DEF Sound

\* So does the digest of a Confirm.
LEMMA AttestsStays ==
  ASSUME Grows, NEW m \in Pledges, Attests(m)
  PROVE  Attests(m)'
<1>1. /\ Len(sequenced) \in Nat /\ Len(sequenced') \in Nat
      /\ Len(sequenced) <= Len(sequenced')
      /\ \A k \in 1..Len(sequenced) : sequenced'[k] = sequenced[k]
  BY LenProperties DEF Grows, StartsWith
<1>2. m.end <= Len(sequenced) BY DEF Attests
<1>3. m.start \in Nat \ {0} /\ m.end \in Nat BY DEF Pledges
<1>4. \A k \in 1..m.end - m.start + 1 : m.start + k - 1 \in 1..Len(sequenced)
  BY <1>1, <1>2, <1>3
<1>5. \A k \in 1..m.end - m.start + 1 :
         sequenced'[m.start + k - 1] = sequenced[m.start + k - 1]
  BY <1>1, <1>4
<1>6. m.digest = [k \in 1..m.end - m.start + 1 |-> sequenced[m.start + k - 1]]
  BY DEF Attests
<1>7. m.digest = [k \in 1..m.end - m.start + 1 |-> sequenced'[m.start + k - 1]]
  BY <1>5, <1>6
<1>8. m.end <= Len(sequenced') BY <1>1, <1>2, <1>3
<1>9. QED BY <1>7, <1>8 DEF Attests

\* What replica r receives keeps its requests in the sequencer's order.
LEMMA TookInOrder ==
  ASSUME sequenced \in Seq(Requests), Len(sequenced) < U32,
         NEW r, NEW s \in ReplicaFields, NEW t \in ReplicaFields,
         InOrder(s), Took(r, s, t), \A p \in Signed : Came(r, p) => Sound(p),
         s.seq_num_offset = 0 => Len(sequenced) <= 1
  PROVE  InOrder(t)
<1>1. CASE SameRequests(s, t) BY <1>1 DEF SameRequests, InOrder
<1>2. CASE \E p \in Signed : Came(r, p) /\ Receives(s, t, p)
  <2>1. PICK p \in Signed : Came(r, p) /\ Receives(s, t, p) BY <1>2
  <2>2. Sound(p) BY <2>1
  <2>3. Len(sequenced) \in Nat BY LenProperties
  <2>4. p.seq_num \in 1..Len(sequenced) BY <2>2 DEF Sound
  <2>5. t.seq_num_offset = 1
    <3>1. s.seq_num_offset \in {0, 1} BY DEF InOrder
    <3>2. t.seq_num_offset = IF s.seq_num_offset = 0 THEN p.seq_num
                             ELSE s.seq_num_offset
      BY <2>1 DEF Receives
    <3>3. s.seq_num_offset = 0 => p.seq_num = 1 BY <2>3, <2>4
    <3>4. QED BY <3>1, <3>2, <3>3
  <2>6. /\ StartsWith(t.requests, s.requests)
        /\ \A x \in t.reordering_requests : x \in s.reordering_requests \cup {p}
        /\ \A k \in 1..Len(t.requests) : k > Len(s.requests) =>
              /\ t.requests[k] \in s.reordering_requests \cup {p}
              /\ op_num(t, t.requests[k]) = k
    BY <2>1 DEF Receives, Orders
  <2>7. \A x \in s.reordering_requests \cup {p} : Sound(x)
    BY <2>2 DEF InOrder
  <2>8. ASSUME NEW k \in 1..Len(t.requests)
        PROVE  Sound(t.requests[k]) /\ t.requests[k].seq_num = k
    <3>1. Len(s.requests) \in Nat /\ Len(t.requests) \in Nat
      BY LenProperties DEF ReplicaFields
    <3>2. CASE k <= Len(s.requests)
      <4>1. k \in 1..Len(s.requests) BY <3>1, <3>2
      <4>2. t.requests[k] = s.requests[k] BY <2>6, <4>1 DEF StartsWith
      <4>3. QED BY <4>1, <4>2 DEF InOrder
    <3>3. CASE k > Len(s.requests)
      <4>1. PICK x : x = t.requests[k] OBVIOUS
      <4>2. Sound(x) /\ op_num(t, x) = k BY <2>6, <2>7, <3>3, <4>1
      <4>3. PICK n : n = x.seq_num OBVIOUS
      <4>4. n \in 1..Len(sequenced) BY <4>2, <4>3 DEF Sound
      <4>5. (n - 1 + 1) % U32 = k BY <2>5, <4>2, <4>3 DEF op_num
      <4>6. n \in Nat /\ n < 65536 BY <2>3, <4>4 DEF U32
      <4>7. n - 1 + 1 = n /\ n % 65536 = n BY <4>6
      <4>8. n = k BY <4>5, <4>7 DEF U32
      <4>9. QED BY <4>1, <4>2, <4>3, <4>8
    <3>4. QED BY <3>1, <3>2, <3>3
  <2>9. 1 <= Len(sequenced) BY <2>3, <2>4
  <2>10. QED BY <2>5, <2>6, <2>7, <2>8, <2>9 DEF InOrder
<1>3. QED BY <1>1, <1>2 DEF Took

\* The requests of a replica are the sequencer's first.
LEMMA InOrderRequests ==
  ASSUME sequenced \in Seq(Requests), NEW s \in ReplicaFields, InOrder(s)
  PROVE  /\ Len(s.requests) \in Nat /\ Len(sequenced) \in Nat
         /\ Len(s.requests) <= Len(sequenced)
         /\ \A k \in 1..Len(s.requests) : s.requests[k].request = sequenced[k]
<1>1. Len(s.requests) \in Nat /\ Len(sequenced) \in Nat
  BY LenProperties DEF ReplicaFields
<1>2. \A k \in 1..Len(s.requests) : /\ k \in 1..Len(sequenced)
                                    /\ s.requests[k].request = sequenced[k]
  BY DEF InOrder, Sound
<1>3. CASE Len(s.requests) = 0 BY <1>1, <1>2, <1>3
<1>4. CASE Len(s.requests) /= 0
  <2>1. Len(s.requests) \in 1..Len(s.requests) BY <1>1, <1>4
  <2>2. Len(s.requests) \in 1..Len(sequenced) BY <1>2, <2>1
  <2>3. QED BY <1>1, <1>2, <2>2
<1>5. QED BY <1>3, <1>4

\* A parked packet is numbered above what its replica ordered and the next.
LEMMA ParkedAbove ==
  ASSUME sequenced \in Seq(Requests), Len(sequenced) < U32,
         NEW s \in ReplicaFields, InOrder(s), Gapped(s),
         NEW x \in s.reordering_requests
  PROVE  /\ x.seq_num \in 1..Len(sequenced)
         /\ x.seq_num > Len(s.requests) + 1
<1>1. PICK a, b : a = Len(s.requests) /\ b = Len(sequenced) OBVIOUS
<1>2. a \in Nat /\ b \in Nat /\ a <= b BY <1>1, InOrderRequests
<1>3. Sound(x) /\ s.seq_num_offset = 1 BY DEF InOrder, Gapped
<1>4. op_num(s, x) > a + 1 BY <1>1 DEF Gapped, ordered_num
<1>5. PICK n : n = x.seq_num OBVIOUS
<1>6. n \in 1..b BY <1>1, <1>3, <1>5 DEF Sound
<1>7. b < 65536 BY <1>1 DEF U32
<1>8. op_num(s, x) = (n - 1 + 1) % 65536 BY <1>3, <1>5 DEF op_num, U32
<1>9. n \in Nat /\ n < 65536 BY <1>2, <1>6, <1>7
<1>10. n - 1 + 1 = n /\ n % 65536 = n BY <1>9
<1>11. n > a + 1 BY <1>4, <1>8, <1>10
<1>12. QED BY <1>1, <1>5, <1>6, <1>11

\* What is asked for is numbered.
LEMMA LacksNumbered ==
  ASSUME sequenced \in Seq(Requests), Len(sequenced) < U32,
         NEW s \in ReplicaFields, InOrder(s), Gapped(s),
         NEW m \in Asks, Lacks(s, m)
  PROVE  m.op_num \in 1..Len(sequenced)
<1>1. PICK a, b : a = Len(s.requests) /\ b = Len(sequenced) OBVIOUS
<1>2. a \in Nat /\ b \in Nat /\ a <= b BY <1>1, InOrderRequests
<1>3. m.op_num \in Nat \ {0} BY DEF Asks
<1>4. CASE m.op_num <= a BY <1>1, <1>2, <1>3, <1>4
<1>5. CASE s.reordering_requests /= {} /\ m.op_num <= a + 1
  <2>1. PICK x : x \in s.reordering_requests BY <1>5
  <2>2. x.seq_num \in 1..b /\ x.seq_num > a + 1 BY <1>1, <2>1, ParkedAbove
  <2>3. QED BY <1>1, <1>2, <1>3, <1>5, <2>2
<1>6. QED BY <1>1, <1>4, <1>5 DEF Lacks

\* So a Confirm that agrees with the sequencer agrees with the replica.
LEMMA InOrderTruthful ==
  ASSUME sequenced \in Seq(Requests), NEW s \in ReplicaFields, InOrder(s),
         NEW G \in SUBSET Pledges, \A m \in G : Attests(m)
  PROVE  Truthful(G, s.requests)
<1>1. SUFFICES ASSUME NEW m \in G, m.end <= Len(s.requests)
               PROVE  m.digest = [k \in 1..m.end - m.start + 1 |->
                                     s.requests[m.start + k - 1].request]
  BY DEF Truthful
<1>2. /\ Len(s.requests) \in Nat
      /\ \A k \in 1..Len(s.requests) : s.requests[k].request = sequenced[k]
  BY InOrderRequests
<1>3. m.start \in Nat \ {0} /\ m.end \in Nat BY DEF Pledges
<1>4. \A k \in 1..m.end - m.start + 1 : m.start + k - 1 \in 1..Len(s.requests)
  BY <1>1, <1>2, <1>3
<1>5. \A k \in 1..m.end - m.start + 1 :
         s.requests[m.start + k - 1].request = sequenced[m.start + k - 1]
  BY <1>2, <1>4
<1>6. m.digest = [k \in 1..m.end - m.start + 1 |-> sequenced[m.start + k - 1]]
  BY DEF Attests
<1>7. QED BY <1>5, <1>6

\* And so does the replica's own.
LEMMA OwnAttests ==
  ASSUME sequenced \in Seq(Requests), NEW s \in ReplicaFields, InOrder(s),
         NEW m \in Pledges, m.end = Len(s.requests),
         m.digest = Inner(s, m.start, m.end)
  PROVE  Attests(m)
<1>1. /\ Len(s.requests) \in Nat /\ Len(s.requests) <= Len(sequenced)
      /\ \A k \in 1..Len(s.requests) : s.requests[k].request = sequenced[k]
  BY InOrderRequests
<1>2. m.start \in Nat \ {0} /\ m.end \in Nat BY DEF Pledges
<1>3. \A k \in 1..m.end - m.start + 1 : m.start + k - 1 \in 1..Len(s.requests)
  BY <1>1, <1>2
<1>4. \A k \in 1..m.end - m.start + 1 :
         s.requests[m.start + k - 1].request = sequenced[m.start + k - 1]
  BY <1>1, <1>3
<1>5. m.digest = [k \in 1..m.end - m.start + 1 |->
                     s.requests[m.start + k - 1].request]
  BY DEF Inner
<1>6. QED BY <1>1, <1>4, <1>5 DEF Attests

\* What the invariant says of the next state's replicas.
LEMMA KnownNext ==
  ASSUME IInv'
  PROVE  /\ sequenced' \in Seq(Requests)
         /\ \A r \in Replicas : /\ replica'[r] \in ReplicaFields
                                /\ Universe(r)' \in SUBSET Pledges
<1>1. sequenced' \in Seq(Requests) BY DEF IInv, Shapes
<1>2. ASSUME NEW r \in Replicas
      PROVE  /\ replica'[r] \in ReplicaFields
             /\ Universe(r)' \in SUBSET Pledges
  <2>1. ReplicaInv(r)' BY DEF IInv
  <2>2. replica'[r] \in ReplicaFields BY <2>1 DEF ReplicaInv, Fit, Sizes
  <2>3. \A m \in Universe(r)' : m \in Pledges
    BY <2>1 DEF ReplicaInv, Gathered
  <2>4. QED BY <2>2, <2>3
<1>3. QED BY <1>1, <1>2

\* A packet that came to a replica is the sequencer's.
LEMMA CameSound ==
  ASSUME IInv, SInv, NEW r \in Live, NEW p \in Signed, Came(r, p)
  PROVE  Sound(p)
<1>1. PICK q \in Signed : /\ Comes(r, q) /\ p.seq_num = q.seq_num
                          /\ p.request = q.request
  BY DEF Came
<1>2. r \in Replicas BY LiveAssumption
<1>3. Sound(q)
  <2>1. CASE Datagram(r, q) \in net
    <3>1. PICK d : d = Datagram(r, q) OBVIOUS
    <3>2. d.to = r /\ d.msg = q BY <3>1 DEF Datagram
    <3>3. Delivers(d) BY <2>1, <3>1 DEF SInv
    <3>4. q.kind = "Request" BY Kinds
    <3>5. QED BY <3>2, <3>3, <3>4 DEF Delivers
  <2>2. CASE \E n : Datagram(r, QueryOkMsg(n, q)) \in net
    <3>1. PICK n : Datagram(r, QueryOkMsg(n, q)) \in net BY <2>2
    <3>2. PICK d : d = Datagram(r, QueryOkMsg(n, q)) OBVIOUS
    <3>3. d.to = r /\ d.msg.kind = "QueryOk" /\ d.msg.packet = q
      BY <3>2 DEF Datagram, QueryOkMsg
    <3>4. Delivers(d) BY <3>1, <3>2 DEF SInv
    <3>5. QED BY <3>3, <3>4 DEF Delivers
  <2>3. CASE saved[r] = <<q>> BY <1>2, <2>3 DEF SInv, OrderInv
  <2>4. QED BY <1>1, <2>1, <2>2, <2>3 DEF Comes
<1>4. QED BY <1>1, <1>3 DEF Sound

\* So the sequence numbers do not wrap.
LEMMA NumberedFits ==
  ASSUME IInv, SInv, Deployed
  PROVE  Len(sequenced) < U32
<1>1. /\ Len(sequenced) \in Nat /\ Cardinality(Clients) \in Nat
      /\ Len(sequenced) <= Cardinality(Clients) * MaxRequestNum
  BY SequencedBound DEF SInv, SeqInv, Deployed
<1>2. PICK b : b = Cardinality(Clients) * MaxRequestNum OBVIOUS
<1>3. b \in Nat BY <1>1, <1>2, MaxRequestAssumption
<1>4. Len(sequenced) <= b /\ b < U32 BY <1>1, <1>2 DEF Deployed
<1>5. QED BY <1>1, <1>3, <1>4 DEF U32

\* A replica's step keeps to the order.
LEMMA DoesOrders ==
  ASSUME IInv, IInv', SInv, Deployed, NEW r \in Live, Does(r)
  PROVE  SInv'
<1>1. /\ sequenced' = sequenced /\ request_num' = request_num
      /\ results' = results
  BY DEF Does, clientVars
<1>2. r \in Replicas /\ r \notin Clients /\ Sequencer \notin Live \cup Clients
  BY LiveAssumption, ClientsAssumption, SequencerAssumption
<1>3. sequenced \in Seq(Requests) /\ Grows
  <2>1. sequenced \in Seq(Requests) BY DEF IInv, Shapes
  <2>2. QED BY <1>1, <2>1, StartsWithSelf DEF Grows
<1>4. \A d \in net' : \/ d \in net \/ d.to \in Clients
                      \/ d.to \in Live /\ d.msg.kind = "Confirm"
                      \/ /\ d.to \in Live /\ d.msg \in Asks
                         /\ Lacks(replica'[r], d.msg)
  BY DEF Does
<1>5. SeqInv'
  <2>1. \A d \in net' : Fresh(d)'
    <3>1. ASSUME NEW d \in net' PROVE Fresh(d)'
      <4>1. CASE d \in net
        <5>1. Fresh(d) BY <4>1 DEF SInv, SeqInv
        <5>2. QED BY <1>1, <5>1 DEF Fresh
      <4>2. CASE d.to \in Clients \cup Live BY <1>2, <4>2 DEF Fresh
      <4>3. QED BY <1>4, <4>1, <4>2
    <3>2. QED BY <3>1
  <2>2. Distinct' /\ Invoked' /\ Bootstrapping'
    BY <1>1 DEF SInv, SeqInv, Distinct, Invoked, Bootstrapping
  <2>3. QED BY <2>1, <2>2 DEF SeqInv
<1>6. PICK s : s = replica[r] OBVIOUS
<1>7. PICK t : t = replica'[r] OBVIOUS
<1>8. s \in ReplicaFields /\ t \in ReplicaFields
  BY <1>2, <1>6, <1>7, Known, KnownNext
<1>9. InOrder(s) BY <1>2, <1>6 DEF SInv, OrderInv
<1>10. Len(sequenced) < U32 BY NumberedFits
<1>11. s.seq_num_offset = 0 => Len(sequenced) <= 1
  <2>1. s.seq_num_offset = 0 => s.requests = <<>>
    BY <1>2, <1>6, Known DEF Fit, Gapped
  <2>2. QED BY <1>6, <2>1, FirstPacket DEF SInv
<1>12. Took(r, s, t) BY <1>6, <1>7 DEF Does
<1>13. InOrder(t)
  <2>1. \A p \in Signed : Came(r, p) => Sound(p) BY CameSound
  <2>2. QED BY <1>3, <1>8, <1>9, <1>10, <1>11, <1>12, <2>1, TookInOrder
<1>14. ASSUME NEW d \in net' PROVE Delivers(d)'
  <2>1. CASE d \in net
    <3>1. Delivers(d) BY <2>1 DEF SInv
    <3>2. QED BY <1>1, <3>1 DEF Delivers, Sound
  <2>2. CASE d.to \in Clients
    BY <2>2, LiveAssumption, ClientsAssumption DEF Delivers
  <2>3. CASE d.to \in Live /\ d.msg.kind = "Confirm" BY <2>3 DEF Delivers
  <2>4. CASE d.to \in Live /\ d.msg \in Asks /\ Lacks(t, d.msg)
    <3>1. Gapped(t)
      <4>1. ReplicaInv(r)' BY <1>2 DEF IInv
      <4>2. QED BY <1>7, <4>1 DEF ReplicaInv, Fit, Gapped, op_num, ordered_num
    <3>2. PICK m \in Asks : m = d.msg BY <2>4
    <3>3. m.op_num \in 1..Len(sequenced)
      BY <1>3, <1>8, <1>10, <1>13, <2>4, <3>1, <3>2, LacksNumbered
    <3>4. d.msg.kind = "Query" BY <2>4 DEF Asks
    <3>5. QED BY <1>1, <3>2, <3>3, <3>4 DEF Delivers
  <2>5. QED BY <1>4, <1>7, <2>1, <2>2, <2>3, <2>4
<1>15. ASSUME NEW i \in Replicas, NEW m \in Universe(i)' PROVE Attests(m)
  <2>1. Vouched(r, i, m) BY <1>15 DEF Does
  <2>2. CASE m \in Universe(i) BY <2>2 DEF SInv, OrderInv
  <2>3. CASE /\ m.end = Len(replica'[r].requests)
             /\ m.digest = Inner(replica'[r], m.start, m.end)
    <3>1. m \in Pledges BY <1>15, KnownNext
    <3>2. m.end = Len(t.requests) /\ m.digest = Inner(t, m.start, m.end)
      BY <1>7, <2>3
    <3>3. QED BY <1>3, <1>8, <1>13, <3>1, <3>2, OwnAttests
  <2>4. QED BY <2>1, <2>2, <2>3 DEF Vouched
<1>16. Fine(t)
  <2>1. PICK G : G = Universe(r) OBVIOUS
  <2>2. G \in SUBSET Pledges BY <1>2, <2>1, Known DEF Gathered
  <2>3. \A m \in G : Attests(m) BY <1>2, <2>1 DEF SInv, OrderInv
  <2>4. Truthful(G, t.requests) BY <1>3, <1>8, <1>13, <2>2, <2>3, InOrderTruthful
  <2>5. QED BY <1>7, <2>1, <2>4 DEF Does
<1>17. ASSUME NEW i \in Replicas PROVE OrderInv(i)'
  <2>1. PICK w : /\ w = replica'[i] /\ InOrder(w) /\ Fine(w)
                 /\ i \notin Live => w.panicked = "no"
    <3>1. CASE i = r BY <1>7, <1>13, <1>16, <3>1
    <3>2. CASE i /= r
      <4>1. replica'[i] = replica[i] BY <3>2 DEF Does
      <4>2. QED BY <4>1 DEF SInv, OrderInv
    <3>3. QED BY <3>1, <3>2
  <2>2. ASSUME NEW p, saved'[i] = <<p>> PROVE Sound(p)
    <3>1. CASE saved'[i] = saved[i] BY <2>2, <3>1 DEF SInv, OrderInv
    <3>2. CASE saved'[i] = <<>> BY <2>2, <3>2
    <3>3. CASE \E q \in Signed : saved'[i] = <<q>> /\ Datagram(i, q) \in net
      <4>1. PICK q \in Signed : saved'[i] = <<q>> /\ Datagram(i, q) \in net
        BY <3>3
      <4>2. q = p BY <2>2, <4>1
      <4>3. PICK d : d = Datagram(i, q) OBVIOUS
      <4>4. d \in net /\ d.to = i /\ d.msg = q BY <4>1, <4>3 DEF Datagram
      <4>5. CASE i \in Live
        <5>1. Delivers(d) BY <4>4 DEF SInv
        <5>2. QED BY <4>2, <4>4, <4>5, <5>1, Kinds DEF Delivers
      <4>6. CASE i \notin Live
        <5>1. NetInv(d) BY <4>4 DEF IInv
        <5>2. QED
          BY <4>4, <4>6, <5>1, ClientsAssumption, SequencerAssumption
          DEF NetInv
      <4>7. QED BY <4>5, <4>6
    <3>4. QED BY <3>1, <3>2, <3>3 DEF Does
  <2>3. \A m \in Universe(i)' : Attests(m)' BY <1>1, <1>15 DEF Attests
  <2>4. InOrder(w)' BY <1>1, <2>1 DEF InOrder, Sound
  <2>5. \A p : saved'[i] = <<p>> => Sound(p)' BY <1>1, <2>2 DEF Sound
  <2>6. Fine(w)' BY <2>1 DEF Fine, Crowded
  <2>7. QED BY <2>1, <2>3, <2>4, <2>5, <2>6 DEF OrderInv
<1>18. QED BY <1>5, <1>14, <1>17 DEF SInv

\* A step that leaves the replicas alone keeps to the order.
LEMMA IdleOrders ==
  ASSUME IInv, IInv', SInv, SeqInv', Grows, UNCHANGED <<replica, saved>>,
         \A d \in net' : d \in net \/ Delivers(d)',
         \A d \in net' : d \in net \/ d.msg.kind /= "Confirm"
  PROVE  SInv'
<1>1. ASSUME NEW d \in net' PROVE Delivers(d)'
  <2>1. CASE d \in net
    <3>1. Delivers(d) BY <2>1 DEF SInv
    <3>2. \A n \in 1..Len(sequenced) : n \in 1..Len(sequenced')
      BY LenProperties DEF Grows, StartsWith
    <3>3. QED BY <3>1, <3>2, SoundStays DEF Delivers
  <2>2. QED BY <2>1
<1>2. ASSUME NEW i \in Replicas PROVE OrderInv(i)'
  <2>1. ASSUME NEW m \in Universe(i)' PROVE Attests(m)'
    <3>1. CASE m \in InNet(i)'
      <4>1. PICK d \in net' : d.to = i /\ d.msg = m /\ m.kind = "Confirm"
        BY <3>1 DEF InNet, InFlightTo
      <4>2. d \in net BY <4>1
      <4>3. m \in InNet(i) BY <4>1, <4>2 DEF InNet, InFlightTo
      <4>4. m \in Universe(i) BY <4>3 DEF Universe, Pending
      <4>5. Attests(m) /\ m \in Pledges
        BY <4>4, Known DEF SInv, OrderInv, Gathered
      <4>6. QED BY <4>5, AttestsStays
    <3>2. CASE m \in Universe(i)
      <4>1. Attests(m) /\ m \in Pledges
        BY <3>2, Known DEF SInv, OrderInv, Gathered
      <4>2. QED BY <4>1, AttestsStays
    <3>3. QED BY <2>1, <3>1, <3>2 DEF Universe, Pending
  <2>2. PICK s : s = replica[i] OBVIOUS
  <2>3. InOrder(s) BY <2>2 DEF SInv, OrderInv
  <2>4. InOrder(s)'
    <3>1. s.seq_num_offset \in {0, 1} /\ s.seq_num_offset <= Len(sequenced')
      <4>1. /\ s.seq_num_offset \in {0, 1}
            /\ s.seq_num_offset <= Len(sequenced)
        BY <2>3 DEF InOrder
      <4>2. /\ Len(sequenced) \in Nat /\ Len(sequenced') \in Nat
            /\ Len(sequenced) <= Len(sequenced')
        BY LenProperties DEF Grows, StartsWith
      <4>3. QED BY <4>1, <4>2
    <3>2. \A p \in s.reordering_requests : Sound(p)'
      BY <2>3, SoundStays DEF InOrder
    <3>3. \A k \in 1..Len(s.requests) :
             Sound(s.requests[k])' /\ s.requests[k].seq_num = k
      <4>1. ASSUME NEW k \in 1..Len(s.requests)
            PROVE  Sound(s.requests[k])' /\ s.requests[k].seq_num = k
        <5>1. PICK p : p = s.requests[k] OBVIOUS
        <5>2. Sound(p) /\ p.seq_num = k BY <2>3, <5>1 DEF InOrder
        <5>3. Sound(p)' BY <5>2, SoundStays
        <5>4. QED BY <5>1, <5>2, <5>3
      <4>2. QED BY <4>1
    <3>4. QED BY <3>1, <3>2, <3>3 DEF InOrder
  <2>5. ASSUME NEW p, saved'[i] = <<p>> PROVE Sound(p)'
    <3>1. Sound(p) BY <2>5 DEF SInv, OrderInv
    <3>2. QED BY <3>1, SoundStays
  <2>6. Fine(s)' /\ (i \notin Live => s.panicked = "no")
    <3>1. Fine(s) /\ (i \notin Live => s.panicked = "no")
      BY <2>2 DEF SInv, OrderInv
    <3>2. QED BY <3>1 DEF Fine, Crowded
  <2>7. replica'[i] = s BY <2>2
  <2>8. QED BY <2>1, <2>4, <2>5, <2>6, <2>7 DEF OrderInv
<1>3. QED BY <1>1, <1>2 DEF SInv

\* A client invokes what is not numbered yet.
LEMMA InvokeOrders ==
  ASSUME IInv, IInv', SInv, NEW c \in Clients, Invoke(c)
  PROVE  SInv'
<1>1. /\ sequenced' = sequenced /\ saved' = saved /\ replica' = replica
      /\ results' = results
      /\ request_num' = [request_num EXCEPT ![c] = @ + 1]
      /\ net' = net \cup SendTo({Sequencer}, RequestMsg(c, request_num[c] + 1))
  BY DEF Invoke, ClientInvoke, ClientSends, multicastVars
<1>2. sequenced \in Seq(Requests) /\ Grows
  <2>1. sequenced \in Seq(Requests) BY DEF IInv, Shapes
  <2>2. QED BY <1>1, <2>1, StartsWithSelf DEF Grows
<1>3. /\ DOMAIN request_num = Clients
      /\ \A b \in Clients : request_num[b] \in Nat
  BY DEF IInv, Shapes, ClientInv
<1>4. /\ request_num'[c] = request_num[c] + 1
      /\ \A b \in Clients : b /= c => request_num'[b] = request_num[b]
  BY <1>1, <1>3
<1>5. \A k \in 1..Len(sequenced) : /\ sequenced[k] \in Requests
                                   /\ sequenced[k].client \in Clients
                                   /\ sequenced[k].num \in Nat
  <2>1. \A k \in 1..Len(sequenced) : sequenced[k] \in Requests
    BY <1>2, ElementOfSeq
  <2>2. \A q \in Requests : q.client \in Clients /\ q.num \in Nat
    BY DEF Requests
  <2>3. QED BY <2>1, <2>2
<1>6. PICK e : e = Datagram(Sequencer, RequestMsg(c, request_num[c] + 1))
  OBVIOUS
<1>7. /\ \A d \in net' : d \in net \/ d = e
      /\ e.to = Sequencer /\ e.msg.kind = "Request"
      /\ e.msg.client = c /\ e.msg.num = request_num[c] + 1
  BY <1>1, <1>6 DEF SendTo, Datagram, RequestMsg
<1>8. Distinct' BY <1>1 DEF SInv, SeqInv, Distinct
<1>9. Invoked'
  <2>1. ASSUME NEW k \in 1..Len(sequenced)
        PROVE  sequenced[k].num <= request_num'[sequenced[k].client]
    <3>1. PICK b : b = sequenced[k].client OBVIOUS
    <3>2. sequenced[k].num <= request_num[b] /\ b \in Clients
      BY <1>5, <3>1 DEF SInv, SeqInv, Invoked
    <3>3. request_num[b] <= request_num'[b] BY <1>3, <1>4, <3>2
    <3>4. request_num'[b] \in Nat BY <1>3, <1>4, <3>2
    <3>5. QED BY <1>3, <1>5, <3>1, <3>2, <3>3, <3>4
  <2>2. QED BY <1>1, <2>1 DEF Invoked
<1>10. ASSUME NEW d \in net' PROVE Fresh(d)'
  <2>1. CASE d \in net
    <3>1. Fresh(d) BY <2>1 DEF SInv, SeqInv
    <3>2. QED BY <1>1, <3>1 DEF Fresh
  <2>2. CASE d = e
    <3>1. ASSUME NEW k \in 1..Len(sequenced),
                 sequenced[k] = Request(c, request_num[c] + 1)
          PROVE  FALSE
      <4>1. sequenced[k].client = c /\ sequenced[k].num = request_num[c] + 1
        BY <3>1 DEF Request
      <4>2. sequenced[k].num <= request_num[c]
        BY <4>1 DEF SInv, SeqInv, Invoked
      <4>3. request_num[c] \in Nat BY <1>3
      <4>4. QED BY <4>1, <4>2, <4>3
    <3>2. QED BY <1>1, <1>7, <2>2, <3>1 DEF Fresh
  <2>3. QED BY <1>7, <2>1, <2>2
<1>11. Bootstrapping'
  <2>1. SUFFICES ASSUME \A b \in Clients : results[b] = <<>>,
                        NEW a \in Clients, NEW b \in Clients,
                        request_num'[a] > 0, request_num'[b] > 0
                 PROVE  a = b
    BY <1>1 DEF Bootstrapping
  <2>2. \A b2 \in Clients : request_num[b2] = 0
    BY <2>1 DEF Invoke, Bootstrapped
  <2>3. \A b2 \in Clients : b2 /= c => request_num'[b2] = 0 BY <1>4, <2>2
  <2>4. a = c /\ b = c BY <2>1, <2>3
  <2>5. QED BY <2>4
<1>12. SeqInv' BY <1>8, <1>9, <1>10, <1>11 DEF SeqInv
<1>13. \A d \in net' : d \in net \/ Delivers(d)'
  <2>1. Sequencer \notin Live BY LiveAssumption, SequencerAssumption
  <2>2. Delivers(e)' BY <1>7, <2>1 DEF Delivers
  <2>3. QED BY <1>7, <2>2
<1>14. \A d \in net' : d \in net \/ d.msg.kind /= "Confirm" BY <1>7
<1>15. QED BY <1>1, <1>2, <1>12, <1>13, <1>14, IdleOrders

\* A client handles a reply.
LEMMA HandleReplyOrders ==
  ASSUME IInv, IInv', SInv, NEW c \in Clients, NEW m, HandleReply(c, m)
  PROVE  SInv'
<1>1. /\ sequenced' = sequenced /\ saved' = saved /\ replica' = replica
      /\ request_num' = request_num
  BY DEF HandleReply, multicastVars, clientVars
<1>2. \A d \in net' : d \in net
  BY DEF HandleReply, ClientReceives, Flight
<1>3. sequenced \in Seq(Requests) /\ Grows
  <2>1. sequenced \in Seq(Requests) BY DEF IInv, Shapes
  <2>2. QED BY <1>1, <2>1, StartsWithSelf DEF Grows
<1>4. \A b \in Clients : results'[b] = <<>> => results[b] = <<>>
  <2>1. DOMAIN results = Clients /\ \A b \in Clients : results[b] \in Seq(Results)
    BY DEF IInv, Shapes, ClientInv
  <2>2. CASE results' = results BY <2>2
  <2>3. CASE results' = [results EXCEPT ![c] = Append(@, m.result)]
    <3>1. results'[c] = Append(results[c], m.result) BY <2>1, <2>3
    <3>2. Append(results[c], m.result) /= <<>>
      <4>1. PICK q : q = results[c] OBVIOUS
      <4>2. Len(Append(q, m.result)) = Len(q) + 1 /\ Len(q) \in Nat
        BY <2>1, <4>1, LenProperties
      <4>3. Len(Append(q, m.result)) /= 0 BY <4>2
      <4>4. QED BY <4>1, <4>3
    <3>3. \A b \in Clients : b /= c => results'[b] = results[b]
      BY <2>1, <2>3
    <3>4. QED BY <3>1, <3>2, <3>3
  <2>4. QED BY <2>2, <2>3 DEF HandleReply, clientVars
<1>5. SeqInv'
  <2>1. Distinct' /\ Invoked' BY <1>1 DEF SInv, SeqInv, Distinct, Invoked
  <2>2. \A d \in net' : Fresh(d)'
    <3>1. \A d \in net : Fresh(d)' BY <1>1 DEF SInv, SeqInv, Fresh
    <3>2. QED BY <1>2, <3>1
  <2>3. Bootstrapping' BY <1>1, <1>4 DEF SInv, SeqInv, Bootstrapping
  <2>4. QED BY <2>1, <2>2, <2>3 DEF SeqInv
<1>6. QED BY <1>1, <1>2, <1>3, <1>5, IdleOrders

\* The sequencer numbers a request, and no copy of it is left in flight.
LEMMA SequenceOrders ==
  ASSUME IInv, IInv', SInv, NEW m, Sequence(m), NumbersOnce
  PROVE  SInv'
<1>1. PICK e : e = Datagram(Sequencer, m) OBVIOUS
<1>2. e \in net /\ e.to = Sequencer /\ e.msg = m
  BY <1>1 DEF Sequence, Process, Datagram
<1>3. Sequencer \notin Clients /\ Sequencer \notin Live
  BY SequencerAssumption, LiveAssumption
<1>4. m \in Wanted /\ m.num <= request_num[m.client]
  <2>1. NetInv(e) BY <1>2 DEF IInv
  <2>2. QED BY <1>2, <1>3, <2>1 DEF NetInv
<1>5. PICK q : q = Request(m.client, m.num) OBVIOUS
<1>6. q \in Requests /\ q.client = m.client /\ q.num = m.num
  BY <1>4, <1>5, RequestType DEF Wanted, Request
<1>7. PICK n : n = Len(sequenced) + 1 OBVIOUS
<1>8. sequenced \in Seq(Requests) /\ n \in Nat \ {0} /\ Len(sequenced) = n - 1
  <2>1. sequenced \in Seq(Requests) BY DEF IInv, Shapes
  <2>2. Len(sequenced) \in Nat BY <2>1, LenProperties
  <2>3. QED BY <1>7, <2>1, <2>2
<1>9. PICK sig \in Signatures(Scheme, n) :
        net' = (net \ {e}) \cup UNION {SendTo(Live, Packet(n, sig, o, q)) :
                                          o \in Offsets(Scheme)}
  <2>1. sequenced' = Append(sequenced, q) BY <1>5 DEF Sequence, Process
  <2>2. Len(sequenced') = n BY <1>6, <1>7, <1>8, <2>1, AppendProperties
  <2>3. sequenced' /= sequenced BY <1>8, <2>2
  <2>4. dup' = dup BY <2>3 DEF NumbersOnce
  <2>5. QED BY <1>1, <1>5, <1>7, <2>4, SequenceNet
<1>10. /\ sequenced' = Append(sequenced, q) /\ saved' = saved
       /\ replica' = replica /\ request_num' = request_num
       /\ results' = results
  BY <1>5 DEF Sequence, Process, clientVars
<1>11. /\ sequenced' \in Seq(Requests) /\ Len(sequenced') = n
       /\ sequenced'[n] = q
       /\ \A k \in 1..Len(sequenced) : sequenced'[k] = sequenced[k]
  BY <1>6, <1>7, <1>8, <1>10, AppendProperties
<1>12. Grows BY <1>8, <1>11 DEF Grows, StartsWith
<1>13. \A k \in 1..n : k = n \/ k \in 1..Len(sequenced) BY <1>8
<1>14. \A k \in 1..Len(sequenced) : sequenced[k] /= q
  <2>1. Fresh(e) BY <1>2 DEF SInv, SeqInv
  <2>2. QED BY <1>2, <1>5, <2>1 DEF Fresh
<1>15. Distinct'
  <2>1. SUFFICES ASSUME NEW k \in 1..n, NEW l \in 1..n,
                        sequenced'[k] = sequenced'[l]
                 PROVE  k = l
    BY <1>11 DEF Distinct
  <2>2. CASE k = n /\ l = n BY <2>2
  <2>3. CASE k = n /\ l \in 1..Len(sequenced) BY <1>11, <1>14, <2>1, <2>3
  <2>4. CASE l = n /\ k \in 1..Len(sequenced) BY <1>11, <1>14, <2>1, <2>4
  <2>5. CASE k \in 1..Len(sequenced) /\ l \in 1..Len(sequenced)
    BY <1>11, <2>1, <2>5 DEF SInv, SeqInv, Distinct
  <2>6. QED BY <1>13, <2>2, <2>3, <2>4, <2>5
<1>16. Invoked'
  <2>1. ASSUME NEW k \in 1..n
        PROVE  sequenced'[k].num <= request_num[sequenced'[k].client]
    <3>1. CASE k = n BY <1>4, <1>6, <1>11, <3>1
    <3>2. CASE k \in 1..Len(sequenced)
      BY <1>11, <3>2 DEF SInv, SeqInv, Invoked
    <3>3. QED BY <1>13, <3>1, <3>2
  <2>2. QED BY <1>10, <1>11, <2>1 DEF Invoked
<1>17. ASSUME NEW d \in net'
       PROVE  \/ d \in net /\ d /= e
              \/ /\ d.to \in Live /\ d.msg.kind = "Request"
                 /\ d.msg.seq_num = n /\ d.msg.request = q
  <2>1. CASE d \in net \ {e} BY <2>1
  <2>2. CASE d \notin net \ {e}
    <3>1. PICK o \in Offsets(Scheme) : d \in SendTo(Live, Packet(n, sig, o, q))
      BY <1>9, <2>2
    <3>2. PICK p : p = Packet(n, sig, o, q) OBVIOUS
    <3>3. PICK a \in Live : d = Datagram(a, p) BY <3>1, <3>2 DEF SendTo
    <3>4. d.to = a /\ d.msg = p BY <3>3 DEF Datagram
    <3>5. p.kind = "Request" /\ p.seq_num = n /\ p.request = q
      BY <3>2 DEF Packet
    <3>6. QED BY <3>4, <3>5
  <2>3. QED BY <2>1, <2>2
<1>18. ASSUME NEW d \in net' PROVE Fresh(d)'
  <2>1. CASE d \in net /\ d /= e
    <3>1. SUFFICES ASSUME d.to = Sequencer, NEW k \in 1..n,
                          sequenced'[k] = Request(d.msg.client, d.msg.num)
                   PROVE  FALSE
      BY <1>11 DEF Fresh
    <3>2. CASE k \in 1..Len(sequenced)
      <4>1. Fresh(d) BY <2>1 DEF SInv, SeqInv
      <4>2. QED BY <1>11, <3>1, <3>2, <4>1 DEF Fresh
    <3>3. CASE k = n
      <4>1. NetInv(d) BY <2>1 DEF IInv
      <4>2. d.msg \in Wanted /\ d = Datagram(d.to, d.msg)
        BY <1>3, <3>1, <4>1 DEF NetInv
      <4>3. q = Request(d.msg.client, d.msg.num) BY <1>11, <3>1, <3>3
      <4>4. d.msg.client = m.client /\ d.msg.num = m.num
        BY <1>6, <4>3 DEF Request
      <4>5. d.msg = m BY <1>4, <4>2, <4>4 DEF Wanted
      <4>6. QED BY <1>1, <2>1, <3>1, <4>2, <4>5
    <3>4. QED BY <1>13, <3>2, <3>3
  <2>2. CASE d.to \in Live BY <1>3, <2>2 DEF Fresh
  <2>3. QED BY <1>17, <2>1, <2>2
<1>19. Bootstrapping' BY <1>10 DEF SInv, SeqInv, Bootstrapping
<1>20. SeqInv' BY <1>15, <1>16, <1>18, <1>19 DEF SeqInv
<1>21. ASSUME NEW d \in net', d \notin net PROVE Delivers(d)'
  <2>1. d.msg.kind = "Request" /\ d.msg.seq_num = n /\ d.msg.request = q
    BY <1>17, <1>21
  <2>2. n \in 1..n BY <1>8
  <2>3. Sound(d.msg)' BY <1>11, <2>1, <2>2 DEF Sound
  <2>4. QED BY <2>1, <2>3 DEF Delivers
<1>22. \A d \in net' : d \in net \/ d.msg.kind /= "Confirm" BY <1>17
<1>23. QED BY <1>10, <1>12, <1>20, <1>21, <1>22, IdleOrders

\* At the start.
LEMMA InitOrders ==
  ASSUME Init
  PROVE  SInv
<1>1. /\ net = {} /\ sequenced = <<>> /\ saved = [r \in Replicas |-> <<>>]
      /\ replica = [r \in Replicas |-> NewReplica]
      /\ request_num = [c \in Clients |-> 0]
  BY DEF Init, Init_Multiplex, Init_Client, Init_OrderedMulticast
<1>2. SeqInv BY <1>1 DEF SeqInv, Distinct, Invoked, Bootstrapping
<1>3. ASSUME NEW r \in Replicas PROVE OrderInv(r)
  <2>1. /\ replica[r].seq_num_offset = 0 /\ replica[r].reordering_requests = {}
        /\ replica[r].requests = <<>> /\ replica[r].panicked = "no"
        /\ replica[r].reordering_confirms1 = {}
        /\ replica[r].reordering_confirms2 = {}
    BY <1>1 DEF NewReplica
  <2>2. Universe(r) = {}
    BY <1>1, <2>1 DEF Universe, Pending, InNet, InFlightTo
  <2>3. Len(replica[r].requests) = 0 BY <2>1
  <2>4. InOrder(replica[r]) BY <1>1, <2>1, <2>3 DEF InOrder
  <2>5. saved[r] = <<>> BY <1>1
  <2>6. \A p : saved[r] /= <<p>> BY <2>5
  <2>7. QED BY <2>1, <2>2, <2>4, <2>6 DEF OrderInv, Fine
<1>4. QED BY <1>1, <1>2, <1>3 DEF SInv

\* A live replica's step is one of those above.
LEMMA ReplicaOrders ==
  ASSUME IInv, IInv', SInv, Deployed, NEW r \in Live, ReplicaStep(r)
  PROVE  SInv'
<1>1. CASE Does(r) BY <1>1, DoesOrders
<1>2. CASE \E m : HandleQuery(r, m)
  <2>1. PICK m : HandleQuery(r, m) BY <1>2
  <2>2. \A d \in net' : d \in net \/ Answering(r, d)
    BY <2>1, HandleQueryKeeps
  <2>3. /\ sequenced' = sequenced /\ saved' = saved /\ replica' = replica
        /\ request_num' = request_num /\ results' = results
    BY <2>1 DEF HandleQuery, multicastVars, clientVars
  <2>4. sequenced \in Seq(Requests) /\ Grows
    <3>1. sequenced \in Seq(Requests) BY DEF IInv, Shapes
    <3>2. QED BY <2>3, <3>1, StartsWithSelf DEF Grows
  <2>5. SeqInv'
    <3>1. Distinct' /\ Invoked' /\ Bootstrapping'
      BY <2>3 DEF SInv, SeqInv, Distinct, Invoked, Bootstrapping
    <3>2. ASSUME NEW d \in net' PROVE Fresh(d)'
      <4>1. CASE d \in net
        <5>1. Fresh(d) BY <4>1 DEF SInv, SeqInv
        <5>2. QED BY <2>3, <5>1 DEF Fresh
      <4>2. CASE Answering(r, d)
        BY <4>2, LiveAssumption, SequencerAssumption DEF Answering, Fresh
      <4>3. QED BY <2>2, <4>1, <4>2
    <3>3. QED BY <3>1, <3>2 DEF SeqInv
  <2>6. ASSUME NEW d \in net', d \notin net
        PROVE  Delivers(d)' /\ d.msg.kind /= "Confirm"
    <3>1. Answering(r, d) BY <2>2, <2>6
    <3>2. PICK q \in Signed : /\ Holds(replica[r], q)
                              /\ d.msg.packet.seq_num = q.seq_num
                              /\ d.msg.packet.request = q.request
      BY <3>1 DEF Answering
    <3>3. Sound(q)
      <4>1. InOrder(replica[r]) BY LiveAssumption DEF SInv, OrderInv
      <4>2. QED BY <3>2, <4>1 DEF Holds, InOrder
    <3>4. Sound(d.msg.packet)' BY <2>3, <3>2, <3>3 DEF Sound
    <3>5. d.msg.kind = "QueryOk" BY <3>1, Kinds DEF Answering
    <3>6. PICK b \in net : /\ b.to = r /\ b.msg.kind = "Query"
                           /\ b.msg.op_num = d.msg.op_num
      BY <3>1 DEF Answering
    <3>7. Delivers(b) BY <3>6 DEF SInv
    <3>8. d.msg.op_num \in 1..Len(sequenced) BY <3>6, <3>7 DEF Delivers
    <3>9. QED BY <2>3, <3>4, <3>5, <3>8 DEF Delivers
  <2>7. QED BY <2>3, <2>4, <2>5, <2>6, IdleOrders
<1>3. CASE OnPace(r) BY <1>1, <1>3, OnPaceKeeps
<1>4. CASE LoopbackConfirm(r) BY <1>1, <1>4, LoopbackConfirmKeeps
<1>5. CASE \E m : HandleRequest(r, m) BY <1>1, <1>5, HandleRequestKeeps
<1>6. CASE \E m : HandleConfirm(r, m) BY <1>1, <1>6, HandleConfirmKeeps
<1>7. CASE \E m : HandleQueryOk(r, m) BY <1>1, <1>7, HandleQueryOkKeeps
<1>8. QED BY <1>2, <1>3, <1>4, <1>5, <1>6, <1>7 DEF ReplicaStep

\* Every step keeps to the order.
LEMMA NextOrders ==
  ASSUME IInv, IInv', SInv, Deployed, [Next]_vars, [NumbersOnce]_vars
  PROVE  SInv'
<1>1. sequenced \in Seq(Requests) BY DEF IInv, Shapes
<1>2. CASE /\ UNCHANGED <<sequenced, saved, replica, request_num, results>>
           /\ \A d \in net' : d \in net
  <2>1. Grows BY <1>1, <1>2, StartsWithSelf DEF Grows
  <2>2. Distinct' /\ Invoked' /\ Bootstrapping'
    BY <1>2 DEF SInv, SeqInv, Distinct, Invoked, Bootstrapping
  <2>3. \A d \in net' : Fresh(d)' BY <1>2 DEF SInv, SeqInv, Fresh
  <2>4. SeqInv' BY <2>2, <2>3 DEF SeqInv
  <2>5. UNCHANGED <<replica, saved>> /\ \A d \in net' : d \in net BY <1>2
  <2>6. QED BY <2>1, <2>4, <2>5, IdleOrders
<1>3. CASE UNCHANGED vars
  BY <1>2, <1>3 DEF vars, netVars, clientVars, multicastVars
<1>4. CASE \E d \in net : Lose(d)
  BY <1>2, <1>4 DEF Lose, clientVars, multicastVars
<1>5. CASE \E c \in Clients : Invoke(c) BY <1>5, InvokeOrders
<1>6. CASE \E c \in Clients : \E m : HandleReply(c, m)
  BY <1>6, HandleReplyOrders
<1>7. CASE (\E m : Sequence(m)) /\ NumbersOnce BY <1>7, SequenceOrders
<1>8. CASE \E r \in Live : ReplicaStep(r) BY <1>8, ReplicaOrders
<1>9. QED BY <1>3, <1>4, <1>5, <1>6, <1>7, <1>8 DEF Next

\* While the sequencer gets no request twice, its order is kept to.
THEOREM OrderInvariance ==
  ASSUME Deployed
  PROVE  Spec /\ [][NumbersOnce]_vars => []SInv
<1>1. Init => SInv BY InitOrders
<1>2. IInv /\ IInv' /\ SInv /\ [Next]_vars /\ [NumbersOnce]_vars => SInv'
  BY NextOrders
<1>3. QED BY <1>1, <1>2, Invariance, PTL DEF Spec

\* Every replica executes the sequencer's order from its first request on,
\* while the sequencer gets no request twice.
THEOREM ExecutesSequenced ==
  ASSUME Deployed
  PROVE  Spec /\ [][NumbersOnce]_vars => []ExecutedAsSequenced
<1>1. ASSUME IInv, SInv PROVE ExecutedAsSequenced
  <2>1. SUFFICES ASSUME NEW r \in Replicas
                 PROVE  \E n \in 0..Len(sequenced) :
                           replica[r].app = SubSeq(sequenced, 1, n)
    BY DEF ExecutedAsSequenced
  <2>2. PICK s : s = replica[r] OBVIOUS
  <2>3. s \in ReplicaFields /\ Executing(s) /\ InOrder(s)
    BY <1>1, <2>2, Known DEF Fit, SInv, OrderInv
  <2>4. sequenced \in Seq(Requests) /\ s.app \in Seq(Requests)
    BY <1>1, <2>3 DEF IInv, Shapes, ReplicaFields
  <2>5. PICK n : n = Len(s.app) OBVIOUS
  <2>6. /\ Len(s.requests) \in Nat /\ Len(sequenced) \in Nat
        /\ Len(s.requests) <= Len(sequenced)
        /\ \A k \in 1..Len(s.requests) : s.requests[k].request = sequenced[k]
    BY <2>3, <2>4, InOrderRequests
  <2>7. /\ n \in Nat /\ n <= Len(s.requests)
        /\ \A k \in 1..n : s.app[k] = s.requests[k].request
    BY <2>3, <2>4, <2>5, LenProperties DEF Executing
  <2>8. n \in 0..Len(sequenced) BY <2>6, <2>7
  <2>9. /\ SubSeq(sequenced, 1, n) \in Seq(Requests)
        /\ Len(SubSeq(sequenced, 1, n)) = n
        /\ \A k \in 1..n : SubSeq(sequenced, 1, n)[k] = sequenced[k]
    BY <2>4, <2>8, FirstOf
  <2>10. \A k \in 1..n : s.app[k] = sequenced[k]
    <3>1. \A k \in 1..n : k \in 1..Len(s.requests) BY <2>6, <2>7
    <3>2. QED BY <2>6, <2>7, <3>1
  <2>11. s.app = SubSeq(sequenced, 1, n)
    BY <2>4, <2>5, <2>9, <2>10, SeqEqual
  <2>12. QED BY <2>2, <2>8, <2>11
<1>2. IInv /\ SInv => ExecutedAsSequenced BY <1>1
<1>3. QED BY <1>2, Invariance, OrderInvariance, PTL

\* What a live replica has not ordered is the last request of its client, for
\* it has executed the ones that are over.
LEMMA UnorderedIsLast ==
  ASSUME IInv, SInv, Deployed, NEW r \in Live,
         NEW k \in 1..Len(sequenced), k > Len(replica[r].requests)
  PROVE  sequenced[k].num = request_num[sequenced[k].client]
<1>1. r \in Replicas BY LiveAssumption
<1>2. PICK s : s = replica[r] OBVIOUS
<1>3. s \in ReplicaFields /\ Executing(s) /\ InOrder(s)
  BY <1>1, <1>2, Known DEF Fit, SInv, OrderInv
<1>4. sequenced \in Seq(Requests) /\ s.app \in Seq(Requests)
  BY <1>3 DEF IInv, Shapes, ReplicaFields
<1>5. /\ Len(s.requests) \in Nat /\ Len(sequenced) \in Nat
      /\ Len(s.requests) <= Len(sequenced)
      /\ \A n \in 1..Len(s.requests) : s.requests[n].request = sequenced[n]
  BY <1>3, <1>4, InOrderRequests
<1>6. PICK c, j : c = sequenced[k].client /\ j = sequenced[k].num OBVIOUS
<1>7. c \in Clients /\ j \in 1..MaxRequestNum /\ sequenced[k] = Request(c, j)
  <2>1. sequenced[k] \in Requests BY <1>4, ElementOfSeq
  <2>2. QED BY <1>6, <2>1, RequestType
<1>8. j <= request_num[c] BY <1>6 DEF SInv, SeqInv, Invoked
<1>9. /\ request_num[c] \in 0..MaxRequestNum /\ results[c] \in Seq(Results)
      /\ Len(results[c]) = IF invoke[c] THEN request_num[c] - 1
                           ELSE request_num[c]
  BY <1>7 DEF IInv, ClientInv
<1>10. SUFFICES ASSUME j < request_num[c] PROVE FALSE
  BY <1>6, <1>7, <1>8, <1>9
<1>11. j \in DOMAIN results[c]
  <2>1. DOMAIN results[c] = 1..Len(results[c]) BY <1>9, LenProperties
  <2>2. QED BY <1>7, <1>9, <1>10, <2>1
<1>12. PICK n \in 1..Len(s.app) : s.app[n] = Request(c, j)
  BY <1>2, <1>7, <1>11, AllExecuted DEF Executed
<1>13. n \in 1..Len(s.requests) /\ s.app[n] = s.requests[n].request
  BY <1>3, <1>4, <1>5, LenProperties DEF Executing
<1>14. n \in 1..Len(sequenced) /\ sequenced[n] = sequenced[k]
  BY <1>5, <1>7, <1>12, <1>13
<1>15. n = k BY <1>14 DEF SInv, SeqInv, Distinct
<1>16. QED BY <1>2, <1>5, <1>13, <1>15

\* A live replica parks at most one packet for each client.
LEMMA FewParked ==
  ASSUME IInv, SInv, Deployed, NEW r \in Live
  PROVE  /\ Cardinality(replica[r].reordering_requests) \in Nat
         /\ Cardinality(replica[r].reordering_requests)
               <= Cardinality(Clients)
<1>1. r \in Replicas BY LiveAssumption
<1>2. PICK s : s = replica[r] OBVIOUS
<1>3. s \in ReplicaFields /\ Gapped(s) /\ InOrder(s)
  BY <1>1, <1>2, Known DEF Fit, SInv, OrderInv
<1>4. PICK W : W = s.reordering_requests OBVIOUS
<1>5. W \in SUBSET Signed BY <1>3, <1>4 DEF ReplicaFields
<1>6. sequenced \in Seq(Requests) BY DEF IInv, Shapes
<1>7. /\ \A k \in 1..Len(sequenced) : sequenced[k] \in Requests
      /\ Len(sequenced) < U32
  BY <1>6, ElementOfSeq, NumberedFits
<1>8. ASSUME NEW p \in W
      PROVE  /\ p.seq_num \in 1..Len(sequenced)
             /\ p.seq_num > Len(s.requests)
             /\ p.request = sequenced[p.seq_num]
  <2>1. Sound(p) BY <1>3, <1>4 DEF InOrder
  <2>2. PICK a, n : a = Len(s.requests) /\ n = p.seq_num OBVIOUS
  <2>3. n \in 1..Len(sequenced) /\ n > a + 1
    BY <1>3, <1>4, <1>6, <1>7, <2>2, ParkedAbove
  <2>4. a \in Nat BY <1>3, <1>6, <2>2, InOrderRequests
  <2>5. n > a BY <1>6, <2>3, <2>4
  <2>6. QED BY <2>1, <2>2, <2>3, <2>5 DEF Sound
<1>9. PICK f : f = [p \in W |-> p.request.client] OBVIOUS
<1>10. f \in [W -> Clients]
  <2>1. ASSUME NEW p \in W PROVE p.request.client \in Clients
    <3>1. p.request \in Requests BY <1>5 DEF Signed
    <3>2. QED BY <3>1, RequestType
  <2>2. QED BY <1>9, <2>1
<1>11. ASSUME NEW p \in W, NEW q \in W, f[p] = f[q] PROVE p = q
  <2>1. PICK c : c = p.request.client OBVIOUS
  <2>2. q.request.client = c BY <1>9, <1>11, <2>1
  <2>3. p.request.num = request_num[c] /\ q.request.num = request_num[c]
    BY <1>2, <1>8, <2>1, <2>2, UnorderedIsLast
  <2>4. p.request \in Requests /\ q.request \in Requests
    BY <1>5 DEF Signed
  <2>5. p.request = q.request BY <2>1, <2>2, <2>3, <2>4, RequestType
  <2>6. p.seq_num = q.seq_num
    BY <1>8, <2>5 DEF SInv, SeqInv, Distinct
  <2>7. QED BY <1>3, <1>4, <2>6 DEF Gapped
<1>12. f \in Injection(W, Clients) BY <1>10, <1>11, Fun_IsInj
<1>13. IsFiniteSet(W) BY <1>1, <1>2, <1>4, Known DEF Fit, Sizes
<1>14. Cardinality(W) \in Nat BY <1>13, FS_CardinalityType
<1>15. IsFiniteSet(Clients) BY DEF Deployed
<1>16. Cardinality(W) <= Cardinality(Clients)
  BY <1>12, <1>15, FS_Injection
<1>17. QED BY <1>2, <1>4, <1>14, <1>16

\* While the sequencer gets no request twice, no assertion fails and no index
\* is out of bounds, if there are not so many clients that their requests could
\* wait behind one gap until the assertion on their number fails.
THEOREM NeverPanics ==
  ASSUME Deployed, Cardinality(Clients) < QueryThreshold + 1000
  PROVE  Spec /\ [][NumbersOnce]_vars => []NoPanic
<1>1. ASSUME IInv, SInv PROVE NoPanic
  <2>1. ASSUME NEW r \in Replicas PROVE replica[r].panicked = "no"
    <3>1. CASE r \in Live
      <4>1. PICK n : n = Cardinality(replica[r].reordering_requests) OBVIOUS
      <4>2. n \in Nat /\ n <= Cardinality(Clients)
        BY <1>1, <3>1, <4>1, FewParked
      <4>3. Cardinality(Clients) \in Nat /\ QueryThreshold \in Nat
        BY QueryAssumption, FS_CardinalityType DEF Deployed
      <4>4. ~Crowded(replica[r]) BY <4>1, <4>2, <4>3 DEF Crowded
      <4>5. QED BY <1>1, <4>4 DEF SInv, OrderInv, Fine
    <3>2. CASE r \notin Live BY <1>1, <3>2 DEF SInv, OrderInv
    <3>3. QED BY <3>1, <3>2
  <2>2. QED BY <2>1 DEF NoPanic
<1>2. IInv /\ SInv => NoPanic BY <1>1
<1>3. QED BY <1>2, Invariance, OrderInvariance, PTL

\* What the sequencer gave a number to has a number of the model's.
LEMMA NumsBound ==
  ASSUME IInv, SInv, Deployed
  PROVE  \A n \in 0..Len(sequenced) : n \in Nums
<1>1. /\ Len(sequenced) \in Nat /\ Cardinality(Clients) \in Nat
      /\ Len(sequenced) <= Cardinality(Clients) * MaxRequestNum
  BY SequencedBound DEF SInv, SeqInv, Deployed
<1>2. PICK b : b = Cardinality(Clients) * MaxRequestNum OBVIOUS
<1>3. b \in Nat BY <1>1, <1>2, MaxRequestAssumption
<1>4. MaxDup \in Nat BY MaxDupAssumption
<1>5. b * (MaxDup + 1) = b * MaxDup + b BY <1>3, <1>4
<1>6. b * MaxDup \in Nat BY <1>3, <1>4
<1>7. PICK c : c = b * (MaxDup + 1) OBVIOUS
<1>8. c \in Nat /\ b <= c
  <2>1. PICK e : e = b * MaxDup OBVIOUS
  <2>2. e \in Nat /\ c = e + b BY <1>5, <1>6, <1>7, <2>1
  <2>3. QED BY <1>3, <2>2
<1>9. Nums = 0..c BY <1>2, <1>7 DEF Nums
<1>10. QED BY <1>1, <1>2, <1>3, <1>8, <1>9

\* So the messages and what a replica holds of them are typed.
LEMMA TypedMessages ==
  ASSUME IInv, SInv, Deployed
  PROVE  /\ \A p \in Signed : Sound(p) => p \in Packets
         /\ \A r \in Replicas : \A m \in Universe(r) : m \in Confirms
<1>1. \A n \in 0..Len(sequenced) : n \in Nums BY NumsBound
<1>2. sequenced \in Seq(Requests) BY DEF IInv, Shapes
<1>3. Len(sequenced) \in Nat BY <1>2, LenProperties
<1>4. ASSUME NEW p \in Signed, Sound(p) PROVE p \in Packets
  <2>1. p.seq_num \in 0..Len(sequenced) BY <1>3, <1>4 DEF Sound
  <2>2. p.seq_num \in Nums BY <1>1, <2>1
  <2>3. QED BY <2>2 DEF Signed, Packets
<1>5. ASSUME NEW r \in Replicas, NEW m \in Universe(r) PROVE m \in Confirms
  <2>1. m \in Pledges /\ m.start <= m.end BY <1>5, Known DEF Gathered
  <2>2. m.end <= Len(sequenced) BY <1>5 DEF SInv, OrderInv, Attests
  <2>3. m.start \in Nat /\ m.end \in Nat BY <2>1 DEF Pledges
  <2>4. m.start \in 0..Len(sequenced) /\ m.end \in 0..Len(sequenced)
    BY <1>3, <2>1, <2>2, <2>3
  <2>5. m.start \in Nums /\ m.end \in Nums BY <1>1, <2>4
  <2>6. QED BY <2>1, <2>5 DEF Pledges, Confirms
<1>6. QED BY <1>4, <1>5

\* The types of the messages to replicas.
LEMMA NetTyped ==
  ASSUME IInv, SInv, Deployed, NEW d \in net, d.to \in Live
  PROVE  d.msg \in Packets \cup Confirms \cup Queries \cup QueryOks
<1>1. d.to \in Replicas /\ d.to \notin Clients /\ d.to /= Sequencer
  BY LiveAssumption, ClientsAssumption, SequencerAssumption
<1>2. d.msg \in Signed \cup Pledges \cup Asks \cup Answers
      /\ d = Datagram(d.to, d.msg)
  BY <1>1 DEF IInv, NetInv
<1>3. Delivers(d) BY DEF SInv
<1>4. sequenced \in Seq(Requests) BY DEF IInv, Shapes
<1>5. Len(sequenced) \in Nat BY <1>4, LenProperties
<1>6. \A n \in 1..Len(sequenced) : n \in Nums
  <2>1. \A n \in 1..Len(sequenced) : n \in 0..Len(sequenced) BY <1>5
  <2>2. QED BY <2>1, NumsBound
<1>7. CASE d.msg \in Signed
  <2>1. Sound(d.msg) BY <1>3, <1>7, Kinds DEF Delivers
  <2>2. QED BY <1>7, <2>1, TypedMessages
<1>8. CASE d.msg \in Pledges
  <2>1. d.msg \in InNet(d.to)
    BY <1>1, <1>2, <1>8, Kinds DEF InNet, InFlightTo
  <2>2. d.msg \in Universe(d.to) BY <2>1 DEF Universe, Pending
  <2>3. QED BY <1>1, <2>2, TypedMessages
<1>9. CASE d.msg \in Asks
  <2>1. d.msg.op_num \in 1..Len(sequenced)
    BY <1>3, <1>9, Kinds DEF Delivers
  <2>2. QED BY <1>6, <1>9, <2>1 DEF Asks, Queries
<1>10. CASE d.msg \in Answers
  <2>1. d.msg.op_num \in 1..Len(sequenced) /\ Sound(d.msg.packet)
    BY <1>3, <1>10, Kinds DEF Delivers
  <2>2. d.msg.packet \in Signed BY <1>10 DEF Answers
  <2>3. d.msg.packet \in Packets BY <2>1, <2>2, TypedMessages
  <2>4. QED BY <1>6, <1>10, <2>1, <2>3 DEF Answers, QueryOks
<1>11. QED BY <1>2, <1>7, <1>8, <1>9, <1>10

\* The types of a replica's fields.
LEMMA ReplicaTyped ==
  ASSUME IInv, SInv, Deployed, NEW r \in Replicas, NEW s, s = replica[r]
  PROVE  /\ s.seq_num_offset \in Nums
         /\ s.reordering_requests \subseteq Packets
         /\ s.requests \in Seq(Packets)
         /\ s.app \in Seq(Requests)
         /\ s.verified_num \in 0..Len(s.requests)
         /\ s.confirmed_num \in 0..Len(s.requests)
         /\ s.local_confirmed_num \in 0..Len(s.requests)
         /\ s.remote_confirmed_nums \in [Replicas -> 0..Len(s.requests)]
         /\ s.reordering_confirms1 \subseteq Confirms
         /\ s.reordering_confirms2 \subseteq Confirms
         /\ s.out = {}
<1>1. /\ Fit(s, r, Locals, Universe(r), InNet(r)) /\ s \in ReplicaFields
      /\ s.out = {}
  BY DEF IInv, ReplicaInv, Fit, Sizes
<1>2. InOrder(s) /\ s.panicked /= "digest"
  BY DEF SInv, OrderInv, Fine
<1>3. /\ s.requests \in Seq(Signed) /\ s.app \in Seq(Requests)
      /\ s.verified_num \in Nat /\ s.confirmed_num \in Nat
      /\ s.local_confirmed_num \in Nat
      /\ s.remote_confirmed_nums \in [Replicas -> Nat]
      /\ s.reordering_requests \in SUBSET Signed
  BY <1>1 DEF ReplicaFields
<1>4. PICK n : n = Len(s.requests) OBVIOUS
<1>5. n \in Nat /\ Len(s.app) \in Nat BY <1>3, <1>4, LenProperties
<1>6. s.seq_num_offset \in Nums
  <2>1. sequenced \in Seq(Requests) BY DEF IInv, Shapes
  <2>2. Len(sequenced) \in Nat BY <2>1, LenProperties
  <2>3. s.seq_num_offset \in 0..Len(sequenced) BY <1>2, <2>2 DEF InOrder
  <2>4. QED BY <2>3, NumsBound
<1>7. s.reordering_requests \subseteq Packets
  BY <1>2, <1>3, TypedMessages DEF InOrder
<1>8. s.requests \in Seq(Packets)
  <2>1. \A k \in 1..n : s.requests[k] \in Signed BY <1>3, <1>4, ElementOfSeq
  <2>2. \A k \in 1..n : s.requests[k] \in Packets
    BY <1>2, <1>4, <2>1, TypedMessages DEF InOrder
  <2>3. s.requests = [k \in 1..n |-> s.requests[k]]
    BY <1>3, <1>4, LenProperties
  <2>4. s.requests \in [1..n -> Packets] BY <2>2, <2>3
  <2>5. QED BY <1>5, <2>4, SeqOf
<1>9. s.verified_num \in 0..n /\ s.local_confirmed_num \in 0..n
  BY <1>1, <1>3, <1>4, <1>5 DEF Fit, Sizes
<1>10. s.confirmed_num \in 0..n
  <2>1. CASE confirm
    <3>1. s.confirmed_num = Len(s.app) /\ Len(s.app) <= n
      BY <1>1, <1>2, <1>4, <2>1 DEF Fit, Executing
    <3>2. QED BY <1>3, <1>5, <3>1
  <2>2. CASE ~confirm
    <3>1. s.confirmed_num = 0 BY <1>1, <2>2 DEF Fit, Executing
    <3>2. QED BY <1>5, <3>1
  <2>3. QED BY <2>1, <2>2
<1>11. s.remote_confirmed_nums \in [Replicas -> 0..n]
  <2>1. \A i \in Replicas : /\ s.remote_confirmed_nums[i] \in Nat
                            /\ s.remote_confirmed_nums[i] <= n
    BY <1>1, <1>3, <1>4 DEF Fit, Backed
  <2>2. \A i \in Replicas : s.remote_confirmed_nums[i] \in 0..n
    BY <1>5, <2>1
  <2>3. QED BY <1>3, <2>2
<1>12. /\ s.reordering_confirms1 \subseteq Confirms
       /\ s.reordering_confirms2 \subseteq Confirms
  BY TypedMessages DEF Universe, Pending
<1>13. QED
  BY <1>1, <1>3, <1>4, <1>6, <1>7, <1>8, <1>9, <1>10, <1>11, <1>12

\* Every variable keeps its type, while the sequencer gets no request twice:
\* what is in flight then carries numbers that were given.
THEOREM TypeCorrect ==
  ASSUME Deployed
  PROVE  Spec /\ [][NumbersOnce]_vars => []TypeOK
<1>1. ASSUME IInv, SInv PROVE TypeOK
  <2>1. \A d \in net : d.to \in Live =>
           d.msg \in Packets \cup Confirms \cup Queries \cup QueryOks
    BY <1>1, NetTyped
  <2>2. sequenced \in Seq(Requests) BY <1>1 DEF IInv, Shapes
  <2>3. ASSUME NEW r \in Replicas
        PROVE  saved[r] \in Seq(Packets) /\ Len(saved[r]) <= 1
    <3>1. CASE saved[r] = <<>> BY <3>1
    <3>2. CASE \E p \in Signed : saved[r] = <<p>>
      <4>1. PICK p \in Signed : saved[r] = <<p>> BY <3>2
      <4>2. Sound(p) BY <1>1, <4>1 DEF SInv, OrderInv
      <4>3. p \in Packets BY <1>1, <4>2, TypedMessages
      <4>4. <<p>> \in [1..1 -> Packets] BY <4>3
      <4>5. <<p>> \in Seq(Packets) /\ Len(<<p>>) = 1 BY <4>4, SeqOf
      <4>6. QED BY <4>1, <4>5
    <3>3. QED BY <1>1, <3>1, <3>2 DEF IInv, Shapes
  <2>4. QED BY <1>1, <2>1, <2>2, <2>3, ReplicaTyped DEF TypeOK
<1>2. IInv /\ SInv => TypeOK BY <1>1
<1>3. QED BY <1>2, Invariance, OrderInvariance, PTL

-----------------------------------------------------------------------------
(* The service                                                             *)

\* The longest log, with the states rep of the replicas.
Longest(rep) == CHOOSE r \in Replicas : \A s \in Replicas :
                   Len(rep[s].app) <= Len(rep[r].app)
LogOf(rep) ==
    [k \in 1..Len(rep[Longest(rep)].app) |-> <<rep[Longest(rep)].app[k]>>]

\* The first n requests of seq, each a batch.
Batches(seq, n) == [k \in 1..n |-> <<seq[k]>>]

\* The replicas have executed first requests of seq.
Prefixed(rep, seq) ==
    \A r \in Replicas : /\ rep[r].app \in Seq(Requests)
                        /\ Len(rep[r].app) <= Len(seq)
                        /\ \A k \in 1..Len(rep[r].app) : rep[r].app[k] = seq[k]

\* Some replica has executed n requests and none has more.
Reaches(rep, n) ==
    /\ \E r \in Replicas : Len(rep[r].app) = n
    /\ \A r \in Replicas : Len(rep[r].app) <= n

\* There is a replica.
LEMMA SomeReplica == \E r : r \in Replicas
<1>1. SUFFICES ASSUME Replicas = {} PROVE FALSE OBVIOUS
<1>2. Cardinality(Replicas) = 0 BY <1>1, FS_EmptySet
<1>3. QED BY <1>2, ReplicasAssumption

\* The longest log is a beginning of the sequencer's order.
LEMMA LogIs ==
  ASSUME NEW seq \in Seq(Requests), NEW rep, Prefixed(rep, seq)
  PROVE  \E n \in 0..Len(seq) : Reaches(rep, n) /\ LogOf(rep) = Batches(seq, n)
<1>1. PICK T : T = {Len(rep[r].app) : r \in Replicas} OBVIOUS
<1>2. Len(seq) \in Nat BY LenProperties
<1>3. \A r \in Replicas : Len(rep[r].app) \in Nat /\ Len(rep[r].app) <= Len(seq)
  BY LenProperties DEF Prefixed
<1>4. T \in SUBSET Nat /\ \A n \in T : n <= Len(seq) BY <1>1, <1>3
<1>5. T /= {}
  <2>1. PICK r : r \in Replicas BY SomeReplica
  <2>2. Len(rep[r].app) \in T BY <1>1, <2>1
  <2>3. QED BY <2>2
<1>6. PICK n \in T : \A k \in T : k <= n BY <1>2, <1>4, <1>5, GreatestNumber
<1>7. PICK i \in Replicas : Len(rep[i].app) = n BY <1>1, <1>6
<1>8. \A r \in Replicas : Len(rep[r].app) <= n
  <2>1. \A r \in Replicas : Len(rep[r].app) \in T BY <1>1
  <2>2. QED BY <1>6, <2>1
<1>9. Reaches(rep, n) BY <1>7, <1>8 DEF Reaches
<1>10. \E r \in Replicas : \A s \in Replicas :
          Len(rep[s].app) <= Len(rep[r].app)
  BY <1>7, <1>8
<1>11. PICK l : l = Longest(rep) OBVIOUS
<1>12. l \in Replicas /\ \A s \in Replicas : Len(rep[s].app) <= Len(rep[l].app)
  BY <1>10, <1>11, Zenon DEF Longest
<1>13. Len(rep[l].app) = n
  <2>1. Len(rep[i].app) <= Len(rep[l].app) BY <1>12
  <2>2. Len(rep[l].app) <= n /\ Len(rep[l].app) \in Nat /\ n \in Nat
    BY <1>3, <1>4, <1>8, <1>12
  <2>3. QED BY <1>7, <2>1, <2>2
<1>14. LogOf(rep) = [k \in 1..Len(rep[l].app) |-> <<rep[l].app[k]>>]
  BY <1>11 DEF LogOf
<1>15. \A k \in 1..n : rep[l].app[k] = seq[k]
  BY <1>12, <1>13 DEF Prefixed
<1>16. LogOf(rep) = Batches(seq, n)
  BY <1>13, <1>14, <1>15 DEF Batches
<1>17. n \in 0..Len(seq) BY <1>2, <1>4
<1>18. QED BY <1>9, <1>16, <1>17

\* The batches of one request.
LEMMA BatchesType ==
  ASSUME NEW seq \in Seq(Requests), NEW n \in 0..Len(seq)
  PROVE  /\ Batches(seq, n) \in Seq(Seq(Requests))
         /\ Len(Batches(seq, n)) = n
         /\ \A k \in 1..n : /\ Batches(seq, n)[k] = <<seq[k]>>
                            /\ seq[k] \in Requests
                            /\ Len(<<seq[k]>>) = 1 /\ <<seq[k]>>[1] = seq[k]
<1>1. n \in Nat /\ Len(seq) \in Nat /\ n <= Len(seq) BY LenProperties
<1>2. \A k \in 1..n : k \in 1..Len(seq) BY <1>1
<1>3. \A k \in 1..n : seq[k] \in Requests BY <1>2, ElementOfSeq
<1>4. \A q \in Requests : <<q>> \in Seq(Requests) /\ Len(<<q>>) = 1 /\ <<q>>[1] = q
  <2>1. ASSUME NEW q \in Requests
        PROVE  <<q>> \in Seq(Requests) /\ Len(<<q>>) = 1 /\ <<q>>[1] = q
    <3>1. <<q>> \in [1..1 -> Requests] /\ <<q>>[1] = q OBVIOUS
    <3>2. QED BY <3>1, SeqOf
  <2>2. QED BY <2>1
<1>5. PICK f : f = Batches(seq, n) OBVIOUS
<1>6. f = [k \in 1..n |-> <<seq[k]>>] BY <1>5 DEF Batches
<1>7. f \in [1..n -> Seq(Requests)] BY <1>3, <1>4, <1>6
<1>8. f \in Seq(Seq(Requests)) /\ Len(f) = n BY <1>1, <1>7, SeqOf
<1>9. \A k \in 1..n : f[k] = <<seq[k]>> BY <1>6
<1>10. QED BY <1>3, <1>4, <1>5, <1>8, <1>9

\* The first batches are the batches of the first requests.
LEMMA BatchesFirst ==
  ASSUME NEW seq \in Seq(Requests), NEW n \in 0..Len(seq), NEW m \in 0..n
  PROVE  SubSeq(Batches(seq, n), 1, m) = Batches(seq, m)
<1>1. n \in Nat /\ Len(seq) \in Nat /\ n <= Len(seq) BY LenProperties
<1>2. m \in 0..Len(seq) BY <1>1
<1>3. PICK b : b = Batches(seq, n) OBVIOUS
<1>4. b \in Seq(Seq(Requests)) /\ Len(b) = n /\ \A k \in 1..n : b[k] = <<seq[k]>>
  BY <1>3, BatchesType
<1>5. PICK a : a = Batches(seq, m) OBVIOUS
<1>6. a \in Seq(Seq(Requests)) /\ Len(a) = m /\ \A k \in 1..m : a[k] = <<seq[k]>>
  BY <1>2, <1>5, BatchesType
<1>7. /\ SubSeq(b, 1, m) \in Seq(Seq(Requests)) /\ Len(SubSeq(b, 1, m)) = m
      /\ \A k \in 1..m : SubSeq(b, 1, m)[k] = b[k]
  BY <1>4, FirstOf
<1>8. \A k \in 1..m : k \in 1..n BY <1>1
<1>9. \A k \in 1..m : SubSeq(b, 1, m)[k] = a[k] BY <1>4, <1>6, <1>7, <1>8
<1>10. SubSeq(b, 1, m) = a BY <1>6, <1>7, <1>9, SeqEqual
<1>11. QED BY <1>3, <1>5, <1>10

\* The replicas keep to the sequencer's order.
LEMMA AppsPrefixed ==
  ASSUME IInv, SInv
  PROVE  Prefixed(replica, sequenced)
<1>1. sequenced \in Seq(Requests) BY DEF IInv, Shapes
<1>2. ASSUME NEW r \in Replicas
      PROVE  /\ replica[r].app \in Seq(Requests)
             /\ Len(replica[r].app) <= Len(sequenced)
             /\ \A k \in 1..Len(replica[r].app) :
                   replica[r].app[k] = sequenced[k]
  <2>1. PICK s : s = replica[r] OBVIOUS
  <2>2. s \in ReplicaFields /\ Executing(s) /\ InOrder(s)
    BY <2>1, Known DEF Fit, SInv, OrderInv
  <2>3. s.app \in Seq(Requests) BY <2>2 DEF ReplicaFields
  <2>4. /\ Len(s.requests) \in Nat /\ Len(sequenced) \in Nat
        /\ Len(s.requests) <= Len(sequenced)
        /\ \A k \in 1..Len(s.requests) : s.requests[k].request = sequenced[k]
    BY <1>1, <2>2, InOrderRequests
  <2>5. /\ Len(s.app) \in Nat /\ Len(s.app) <= Len(s.requests)
        /\ \A k \in 1..Len(s.app) : s.app[k] = s.requests[k].request
    BY <2>2, <2>3, LenProperties DEF Executing
  <2>6. \A k \in 1..Len(s.app) : k \in 1..Len(s.requests) BY <2>4, <2>5
  <2>7. QED BY <2>1, <2>3, <2>4, <2>5, <2>6
<1>3. QED BY <1>2 DEF Prefixed

\* Each request in seq is there once and was invoked, with nums the clients'
\* numbers.
Countable(seq, nums) ==
    /\ \A k \in 1..Len(seq) : seq[k].num \in 1..nums[seq[k].client]
    /\ \A k, l \in 1..Len(seq) : seq[k] = seq[l] => k = l

\* The log b is a with batches appended, in which the same holds.
Appended(a, b, nums) ==
    /\ Len(b) > Len(a)
    /\ SubSeq(b, 1, Len(a)) = a
    /\ \A k \in 1..Len(b), l \in 1..Len(b) :
          \A i \in 1..Len(b[k]), j \in 1..Len(b[l]) :
             /\ b[k][i].num \in 1..nums[b[k][i].client]
             /\ b[k][i] = b[l][j] => k = l /\ i = j

\* A log that is a longer beginning of the order is the old one with batches
\* appended.
LEMMA BatchesAppend ==
  ASSUME NEW seq \in Seq(Requests), NEW nums, Countable(seq, nums),
         NEW n \in 0..Len(seq), NEW m \in 0..Len(seq), n < m,
         NEW a, a = Batches(seq, n), NEW b, b = Batches(seq, m)
  PROVE  Appended(a, b, nums)
<1>1. n \in Nat /\ m \in Nat /\ Len(seq) \in Nat /\ n \in 0..m /\ m <= Len(seq)
  BY LenProperties
<1>2. Len(a) = n BY BatchesType
<1>3. /\ Len(b) = m
      /\ \A k \in 1..m : b[k] = <<seq[k]>> /\ Len(<<seq[k]>>) = 1
                         /\ <<seq[k]>>[1] = seq[k]
  BY BatchesType
<1>4. SubSeq(b, 1, n) = a BY <1>1, BatchesFirst
<1>5. ASSUME NEW k \in 1..m, NEW l \in 1..m,
             NEW i \in 1..Len(b[k]), NEW j \in 1..Len(b[l])
      PROVE  /\ b[k][i].num \in 1..nums[b[k][i].client]
             /\ b[k][i] = b[l][j] => k = l /\ i = j
  <2>1. Len(b[k]) = 1 /\ Len(b[l]) = 1 BY <1>3
  <2>2. i = 1 /\ j = 1 BY <2>1
  <2>3. b[k][i] = seq[k] /\ b[l][j] = seq[l] BY <1>3, <2>2
  <2>4. k \in 1..Len(seq) /\ l \in 1..Len(seq) BY <1>1
  <2>5. QED BY <2>2, <2>3, <2>4 DEF Countable
<1>6. QED BY <1>1, <1>2, <1>3, <1>4, <1>5 DEF Appended

\* A replica's step that executes more than any replica has appends to the
\* service's log; the clients do not see any other.
LEMMA DoesServe ==
  ASSUME IInv, SInv, Prefixed(replica, sequenced)',
         NEW r \in Live, Does(r)
  PROVE  Service!AppendBatches \/ UNCHANGED Service!vars
<1>1. sequenced \in Seq(Requests) /\ Prefixed(replica, sequenced)
  BY AppsPrefixed DEF IInv, Shapes
<1>2. /\ sequenced' = sequenced /\ request_num' = request_num
      /\ invoke' = invoke /\ results' = results
  BY DEF Does, clientVars
<1>3. PICK rep : rep = replica OBVIOUS
<1>4. PICK new : new = replica' OBVIOUS
<1>5. PICK seq : seq = sequenced OBVIOUS
<1>6. Prefixed(rep, seq) /\ Prefixed(new, seq) /\ seq \in Seq(Requests)
  BY <1>1, <1>2, <1>3, <1>4, <1>5
<1>7. PICK n \in 0..Len(seq) : Reaches(rep, n) /\ LogOf(rep) = Batches(seq, n)
  BY <1>6, LogIs
<1>8. PICK m \in 0..Len(seq) : Reaches(new, m) /\ LogOf(new) = Batches(seq, m)
  BY <1>6, LogIs
<1>9. Log = LogOf(replica) /\ Log' = LogOf(replica)'
  BY DEF Log, LogOf, Longest
<1>10. Log = Batches(seq, n) /\ Log' = Batches(seq, m)
  BY <1>3, <1>4, <1>7, <1>8, <1>9
<1>11. n <= m
  <2>1. PICK i \in Replicas : Len(rep[i].app) = n BY <1>7 DEF Reaches
  <2>2. Len(new[i].app) <= m BY <1>8 DEF Reaches
  <2>3. Len(rep[i].app) <= Len(new[i].app)
    <3>1. CASE i = r BY <1>3, <1>4, <3>1 DEF Does
    <3>2. CASE i /= r
      <4>1. new[i] = rep[i] BY <1>3, <1>4, <3>2 DEF Does
      <4>2. Len(rep[i].app) \in Nat BY <2>1
      <4>3. QED BY <4>1, <4>2
    <3>3. QED BY <3>1, <3>2
  <2>4. Len(new[i].app) \in Nat /\ n \in Nat /\ m \in Nat
    BY <1>6, LenProperties DEF Prefixed
  <2>5. QED BY <2>1, <2>2, <2>3, <2>4
<1>12. CASE n = m
  <2>1. Log' = Log BY <1>10, <1>12
  <2>2. QED BY <1>2, <2>1 DEF Service!vars
<1>13. CASE n < m
  <2>1. Countable(seq, request_num)
    <3>1. ASSUME NEW k \in 1..Len(seq)
          PROVE  seq[k].num \in 1..request_num[seq[k].client]
      <4>1. seq[k] \in Requests BY <1>6, ElementOfSeq
      <4>2. seq[k].num \in 1..MaxRequestNum /\ seq[k].client \in Clients
        BY <4>1 DEF Requests
      <4>3. seq[k].num <= request_num[seq[k].client]
        BY <1>5 DEF SInv, SeqInv, Invoked
      <4>4. request_num[seq[k].client] \in 0..MaxRequestNum
        BY <4>2 DEF IInv, ClientInv
      <4>5. QED BY <4>2, <4>3, <4>4, MaxRequestAssumption
    <3>2. \A k, l \in 1..Len(seq) : seq[k] = seq[l] => k = l
      BY <1>5 DEF SInv, SeqInv, Distinct
    <3>3. QED BY <3>1, <3>2 DEF Countable
  <2>2. PICK nums : nums = request_num OBVIOUS
  <2>3. PICK a : a = Log OBVIOUS
  <2>4. PICK b : b = Log' OBVIOUS
  <2>5. Appended(a, b, nums)
    BY <1>6, <1>10, <1>13, <2>1, <2>2, <2>3, <2>4, BatchesAppend
  <2>6. Service!AppendBatches
    BY <1>2, <2>2, <2>3, <2>4, <2>5 DEF Service!AppendBatches, Appended
  <2>7. QED BY <2>6
<1>14. QED BY <1>11, <1>12, <1>13

\* What the service answers at the k-th batch of the log.
Answer(log, k) == [before |-> SubSeq(log, 1, k - 1), upto |-> SubSeq(log[k], 1, 1)]

\* The k-th batch of the log is the request q, and the answer to it res.
Answered(log, k, q, res) ==
    /\ k \in 1..Len(log) /\ Len(log[k]) = 1 /\ log[k][1] = q
    /\ res = Answer(log, k)

\* What the application answers tells of the log up to and including the
\* request.
LEMMA ResultOfLog ==
  ASSUME NEW seq \in Seq(Requests), NEW n \in 0..Len(seq),
         NEW app \in Seq(Requests), Len(app) <= n,
         \A k \in 1..Len(app) : app[k] = seq[k], NEW k \in 1..Len(app),
         NEW log, log = Batches(seq, n)
  PROVE  Answered(log, k, app[k], Result(SubSeq(app, 1, k)))
<1>1. /\ n \in Nat /\ Len(seq) \in Nat /\ Len(app) \in Nat
      /\ k \in 1..n /\ k \in 0..Len(app) /\ k - 1 \in 0..n
      /\ k - 1 \in 0..Len(seq)
  BY LenProperties
<1>2. /\ Len(log) = n /\ log[k] = <<seq[k]>> /\ seq[k] \in Requests
      /\ Len(<<seq[k]>>) = 1 /\ <<seq[k]>>[1] = seq[k]
  BY <1>1, BatchesType
<1>3. PICK b : b = log[k] OBVIOUS
<1>4. b \in Seq(Requests) /\ Len(b) = 1
  <2>1. <<seq[k]>> \in [1..1 -> Requests] BY <1>2
  <2>2. QED BY <1>2, <1>3, <2>1, SeqOf
<1>5. SubSeq(b, 1, 1) = b
  <2>1. 1 \in 0..Len(b) BY <1>4
  <2>2. /\ SubSeq(b, 1, 1) \in Seq(Requests) /\ Len(SubSeq(b, 1, 1)) = 1
        /\ \A j \in 1..1 : SubSeq(b, 1, 1)[j] = b[j]
    BY <1>4, <2>1, FirstOf
  <2>3. QED BY <1>4, <2>2, SeqEqual
<1>6. SubSeq(log, 1, k - 1) = Batches(seq, k - 1) BY <1>1, BatchesFirst
<1>7. PICK a : a = SubSeq(app, 1, k) OBVIOUS
<1>8. Len(a) = k /\ \A j \in 1..k : a[j] = app[j] BY <1>1, <1>7, FirstOf
<1>9. \A j \in 1..k : j \in 1..Len(app) BY <1>1
<1>10. \A j \in 1..k : a[j] = seq[j] BY <1>8, <1>9
<1>11. \A j \in 1..k - 1 : j \in 1..k BY <1>1
<1>12. [j \in 1..Len(a) - 1 |-> <<a[j]>>] = Batches(seq, k - 1)
  BY <1>8, <1>10, <1>11 DEF Batches
<1>13. k \in 1..k BY <1>1
<1>14. <<a[Len(a)]>> = <<seq[k]>> BY <1>8, <1>10, <1>13
<1>15. Result(a) = [before |-> Batches(seq, k - 1), upto |-> <<seq[k]>>]
  BY <1>12, <1>14 DEF Result
<1>16. Answer(log, k) = [before |-> Batches(seq, k - 1), upto |-> <<seq[k]>>]
  BY <1>2, <1>3, <1>5, <1>6 DEF Answer
<1>17. QED BY <1>1, <1>2, <1>7, <1>15, <1>16 DEF Answered

\* Without a step of a replica, the log stays.
LEMMA LogStays ==
  ASSUME replica' = replica
  PROVE  Log' = Log
<1>1. Log = LogOf(replica) /\ Log' = LogOf(replica)'
  BY DEF Log, LogOf, Longest
<1>2. QED BY <1>1

\* An invocation is one of the service.
LEMMA InvokeServes ==
  ASSUME NEW c \in Clients, Invoke(c)
  PROVE  Service!Invoke(c)
<1>1. Log' = Log BY LogStays DEF Invoke
<1>2. QED BY <1>1 DEF Invoke, ClientInvoke, Service!Invoke

\* A reply that completes an invocation is an answer of the service.
LEMMA ReplyServes ==
  ASSUME IInv, SInv, NEW c \in Clients, NEW m, HandleReply(c, m)
  PROVE  Service!Respond(c) \/ UNCHANGED Service!vars
<1>1. Log' = Log BY LogStays DEF HandleReply
<1>2. CASE UNCHANGED <<request_num, invoke, results>>
  BY <1>1, <1>2 DEF Service!vars
<1>3. CASE /\ Expected(c, m)
           /\ invoke' = [invoke EXCEPT ![c] = FALSE]
           /\ results' = [results EXCEPT ![c] = Append(@, m.result)]
           /\ UNCHANGED request_num
  <2>1. PICK e : e = Datagram(c, m) OBVIOUS
  <2>2. e \in net /\ e.to = c /\ e.msg = m
    BY <2>1 DEF HandleReply, ClientReceives, Datagram
  <2>3. m \in Replies /\ Executed(replica[m.replica].app, c, m.num, m.result)
    <3>1. NetInv(e) BY <2>2 DEF IInv
    <3>2. c \notin Live /\ c /= Sequencer
      BY SequencerAssumption, LiveAssumption, ClientsAssumption
    <3>3. QED BY <2>2, <3>1, <3>2 DEF NetInv
  <2>4. PICK r \in Replicas : r = m.replica BY <2>3, LiveAssumption DEF Replies
  <2>5. PICK app : app = replica[r].app OBVIOUS
  <2>6. PICK seq : seq = sequenced OBVIOUS
  <2>7. PICK rep : rep = replica OBVIOUS
  <2>8. seq \in Seq(Requests) /\ Prefixed(rep, seq)
    BY <2>6, <2>7, AppsPrefixed DEF IInv, Shapes
  <2>9. PICK n \in 0..Len(seq) :
           Reaches(rep, n) /\ LogOf(rep) = Batches(seq, n)
    BY <2>8, LogIs
  <2>10. PICK log : log = Log OBVIOUS
  <2>11. log = Batches(seq, n)
    <3>1. Log = LogOf(replica) BY DEF Log, LogOf, Longest
    <3>2. QED BY <2>7, <2>9, <2>10, <3>1
  <2>12. /\ app \in Seq(Requests) /\ Len(app) <= n
         /\ \A k \in 1..Len(app) : app[k] = seq[k]
    BY <2>5, <2>7, <2>8, <2>9 DEF Prefixed, Reaches
  <2>13. PICK k \in 1..Len(app) : /\ app[k] = Request(c, m.num)
                                  /\ Result(SubSeq(app, 1, k)) = m.result
    BY <2>3, <2>4, <2>5 DEF Executed
  <2>14. Answered(log, k, app[k], Result(SubSeq(app, 1, k)))
    BY <2>8, <2>11, <2>12, ResultOfLog
  <2>15. k \in 1..Len(log) /\ 1 \in 1..Len(log[k]) BY <2>14 DEF Answered
  <2>16. log[k][1] = Service!Request(c, request_num[c])
    BY <1>3, <2>13, <2>14 DEF Answered, Expected, Request, Service!Request
  <2>17. results' = [results EXCEPT ![c] =
             Append(@, [before |-> SubSeq(log, 1, k - 1),
                        upto |-> SubSeq(log[k], 1, 1)])]
    BY <1>3, <2>13, <2>14 DEF Answered, Answer
  <2>18. \E j \in 1..Len(log) : \E i \in 1..Len(log[j]) :
            /\ log[j][i] = Service!Request(c, request_num[c])
            /\ results' = [results EXCEPT ![c] =
                  Append(@, [before |-> SubSeq(log, 1, j - 1),
                             upto |-> SubSeq(log[j], 1, i)])]
    BY <2>15, <2>16, <2>17
  <2>19. invoke[c] BY <1>3 DEF Expected
  <2>20. Service!Respond(c)
    BY <1>1, <1>3, <2>10, <2>18, <2>19 DEF Service!Respond
  <2>21. QED BY <2>20
<1>4. QED BY <1>2, <1>3 DEF HandleReply, clientVars

\* At the start the log is empty.
LEMMA InitServes ==
  ASSUME Init
  PROVE  Service!Init
<1>1. PICK seq : seq = sequenced OBVIOUS
<1>2. seq = <<>> BY <1>1 DEF Init, Init_OrderedMulticast
<1>3. seq \in Seq(Requests) /\ Len(seq) = 0 BY <1>2
<1>4. PICK rep : rep = replica OBVIOUS
<1>5. \A r \in Replicas : rep[r].app = <<>>
  BY <1>4 DEF Init, NewReplica
<1>6. Prefixed(rep, seq)
  <2>1. <<>> \in Seq(Requests) /\ Len(<<>>) = 0
    BY <1>2, <1>3
  <2>2. \A r \in Replicas : /\ rep[r].app \in Seq(Requests)
                            /\ Len(rep[r].app) = 0
    BY <1>5, <2>1
  <2>3. QED BY <1>3, <2>2 DEF Prefixed
<1>7. PICK n \in 0..Len(seq) : LogOf(rep) = Batches(seq, n)
  BY <1>3, <1>6, LogIs
<1>8. n = 0 BY <1>3, <1>7
<1>9. PICK b : b = Batches(seq, n) OBVIOUS
<1>10. b \in Seq(Seq(Requests)) /\ Len(b) = 0 BY <1>3, <1>8, <1>9, BatchesType
<1>11. b = <<>> BY <1>10
<1>12. Log = LogOf(replica) BY DEF Log, LogOf, Longest
<1>13. Log = <<>> BY <1>4, <1>7, <1>9, <1>11, <1>12
<1>14. QED BY <1>13 DEF Init, Init_Client, Service!Init

\* Every step is one of the service, or none.
LEMMA NextServes ==
  ASSUME IInv, SInv, Prefixed(replica, sequenced)', [Next]_vars
  PROVE  [Service!Next]_(Service!vars)
<1>1. CASE UNCHANGED <<request_num, invoke, results, replica>>
  <2>1. Log' = Log BY <1>1, LogStays
  <2>2. QED BY <1>1, <2>1 DEF Service!vars
<1>2. CASE UNCHANGED vars BY <1>1, <1>2 DEF vars, clientVars
<1>3. CASE \E c \in Clients : Invoke(c)
  BY <1>3, InvokeServes DEF Service!Next
<1>4. CASE \E c \in Clients : \E m : HandleReply(c, m)
  BY <1>4, ReplyServes DEF Service!Next
<1>5. CASE \E m : Sequence(m)
  BY <1>1, <1>5 DEF Sequence, clientVars
<1>6. CASE \E d \in net : Lose(d)
  BY <1>1, <1>6 DEF Lose, clientVars
<1>7. CASE \E r \in Live : ReplicaStep(r)
  <2>1. PICK r \in Live : ReplicaStep(r) BY <1>7
  <2>2. CASE Does(r) BY <2>2, DoesServe DEF Service!Next
  <2>3. CASE OnPace(r) BY <2>2, <2>3, OnPaceKeeps
  <2>4. CASE LoopbackConfirm(r) BY <2>2, <2>4, LoopbackConfirmKeeps
  <2>5. CASE \E m : HandleRequest(r, m) BY <2>2, <2>5, HandleRequestKeeps
  <2>6. CASE \E m : HandleConfirm(r, m) BY <2>2, <2>6, HandleConfirmKeeps
  <2>7. CASE \E m : HandleQueryOk(r, m) BY <2>2, <2>7, HandleQueryOkKeeps
  <2>8. CASE \E m : HandleQuery(r, m)
    BY <1>1, <2>8 DEF HandleQuery, clientVars
  <2>9. QED BY <2>1, <2>3, <2>4, <2>5, <2>6, <2>7, <2>8 DEF ReplicaStep
<1>8. QED BY <1>2, <1>3, <1>4, <1>5, <1>6, <1>7 DEF Next

\* The clients cannot tell the replicas from a single log that executes each
\* request once, while the sequencer gets no request twice.
THEOREM ServesLog ==
  ASSUME Deployed
  PROVE  Spec /\ [][NumbersOnce]_vars => Linearizable
<1>1. Init => Service!Init BY InitServes
<1>2. IInv /\ SInv => Prefixed(replica, sequenced) BY AppsPrefixed
<1>3. IInv /\ SInv /\ Prefixed(replica, sequenced)' /\ [Next]_vars
         => [Service!Next]_(Service!vars)
  BY NextServes
<1>4. QED
  BY <1>1, <1>2, <1>3, Invariance, OrderInvariance, PTL
  DEF Spec, Linearizable, Service!Spec
-----------------------------------------------------------------------------
(* Nothing is forgotten                                                    *)
(*                                                                         *)
(* Each packet is followed to the replica's log: it is in flight with a    *)
(* code for the replica, held back, parked or ordered (Accounted).         *)

\* The packet p reaches handle_request of replica r.
Fetched(r, p) ==
    \/ Comes(r, p)
    \/ \E m, q \in Signed : /\ Datagram(r, m) \in net /\ m.signature = "K256"
                            /\ saved[r] = <<q>> /\ p = Unverified(q)

\* From s to t, replica r receives P, one such packet or none.
Gets(r, s, t, P) ==
    \/ P = {} /\ SameRequests(s, t)
    \/ \E p \in Signed : P = {p} /\ Fetched(r, p) /\ Receives(s, t, p)

\* The packet numbered k is in flight to replica r, with a code for it, or its
\* delegate holds it back.
Underway(r, k) ==
    \/ \E d \in net : /\ d.to = r /\ d.msg.kind = "Request"
                      /\ IsFor(r, d.msg) /\ d.msg.seq_num = k
    \/ \E p \in Signed : saved[r] = <<p>> /\ p.seq_num = k

\* A step of replica r, as far as packets and replies are concerned.
Passes(r) ==
    LET s == replica[r]
        t == replica'[r]
        new == CommitReplies(r, t, t.app, Len(s.app) + 1, Len(t.app))
    IN  /\ UNCHANGED <<clientVars, sequenced, variant, lost>>
        /\ \A i \in Replicas : i /= r => /\ replica'[i] = replica[i]
                                         /\ saved'[i] = saved[i]
        /\ \A p : saved'[r] = <<p>> => saved[r] = <<p>> \/ Datagram(r, p) \in net
        /\ \A d \in net : d \in net' \/ d.to = r
        /\ \E P : /\ Gets(r, s, t, P)
                  /\ \A x \in s.reordering_requests \cup P : Retained(t, x)
                  /\ \A k : Underway(r, k) =>
                        Underway(r, k)' \/ \E p \in P : p.seq_num = k
        /\ Marked(s) => Marked(t)
        /\ ~confirm => /\ \A d \in net' : d \in net \/ d.msg \in Asks \/ d \in new
                       /\ \A d \in new : d \in net'

\* A packet that does not concern the handler stays where it is.
LEMMA UnderwayStays ==
  ASSUME NEW r, NEW k, Underway(r, k), saved'[r] = saved[r],
         \A d \in net : d \in net' \/ d.to /= r \/ d.msg.kind /= "Request"
  PROVE  Underway(r, k)'
BY DEF Underway

\* Without a packet everything stays.
LEMMA SameYields ==
  ASSUME NEW r, NEW s \in ReplicaFields, NEW t, SameRequests(s, t),
         t.verified_num = s.verified_num, ~confirm => OnlyAsks(s, t)
  PROVE  Yields(r, s, t, {})
<1>1. \A x \in s.reordering_requests : Retained(t, x)
  BY DEF SameRequests, Retained
<1>2. Marked(s) => Marked(t) BY DEF SameRequests, Marked
<1>3. ~confirm => Replying(r, s, t) BY AsksReplying
<1>4. QED BY <1>1, <1>2, <1>3 DEF Yields

\* Queries may be sent in addition.
LEMMA AsksYields ==
  ASSUME NEW r, NEW s, NEW u, NEW P, Yields(r, s, u, P), NEW t,
         SameRequests(u, t), OnlyAsks(u, t)
  PROVE  Yields(r, s, t, P)
<1>1. \A x : op_num(t, x) = op_num(u, x) BY DEF SameRequests, op_num
<1>2. \A x \in s.reordering_requests \cup P : Retained(t, x)
  BY <1>1 DEF SameRequests, Retained, Yields
<1>3. Marked(s) => Marked(t) BY DEF SameRequests, OnlyAsks, Marked, Yields
<1>4. ASSUME ~confirm PROVE Replying(r, s, t)
  <2>1. Replying(r, s, u) BY <1>4 DEF Yields
  <2>2. \A k : CommitReply(r, t, t.app, k) = CommitReply(r, u, u.app, k)
    BY DEF CommitReply, SameRequests, OnlyAsks
  <2>3. PICK a : a = Len(s.app) + 1 OBVIOUS
  <2>4. PICK b : b = Len(t.app) /\ b = Len(u.app) BY DEF OnlyAsks
  <2>5. CommitReplies(r, t, t.app, a, b) = CommitReplies(r, u, u.app, a, b)
    BY <2>2 DEF CommitReplies
  <2>6. PICK N : N = CommitReplies(r, u, u.app, a, b) OBVIOUS
  <2>7. /\ \A d \in u.out : d \in s.out \/ d.msg \in Asks \/ d \in N
        /\ \A d \in N : d \in u.out
    BY <2>1, <2>3, <2>4, <2>6 DEF Replying
  <2>8. \A d \in t.out : d \in s.out \/ d.msg \in Asks \/ d \in N
    BY <2>7 DEF OnlyAsks
  <2>9. \A d \in N : d \in t.out BY <2>7 DEF OnlyAsks
  <2>10. CommitReplies(r, t, t.app, Len(s.app) + 1, Len(t.app)) = N
    BY <2>3, <2>4, <2>5, <2>6
  <2>11. QED BY <2>8, <2>9, <2>10 DEF Replying
<1>5. QED BY <1>2, <1>3, <1>4 DEF Yields

\* From the handler's effect to the step.
LEMMA StepPasses ==
  ASSUME NEW r \in Replicas, NEW s, s = replica[r], s.out = {}, NEW t, NEW P,
         Gets(r, s, t, P), Yields(r, s, t, P),
         NEW v, v = replica'[r], \A i \in Replicas : i /= r =>
                   replica'[i] = replica[i] /\ saved'[i] = saved[i],
         SameRequests(t, v), v.verified_num = t.verified_num, v.app = t.app,
         UNCHANGED <<clientVars, sequenced, variant, lost>>,
         \A p : saved'[r] = <<p>> => saved[r] = <<p>> \/ Datagram(r, p) \in net,
         \A d \in net : d \in net' \/ d.to = r,
         ~confirm => \A d \in net' : d \in net \/ d \in t.out,
         \A d \in t.out : d \in net',
         \A k : Underway(r, k) =>
             Underway(r, k)' \/ \E p \in P : p.seq_num = k
  PROVE  Passes(r)
<1>1. Gets(r, s, v, P)
  <2>1. CASE P = {} /\ SameRequests(s, t) BY <2>1 DEF SameRequests, Gets
  <2>2. CASE \E p \in Signed : P = {p} /\ Fetched(r, p) /\ Receives(s, t, p)
    <3>1. PICK p \in Signed : P = {p} /\ Fetched(r, p) /\ Receives(s, t, p)
      BY <2>2
    <3>2. Receives(s, v, p)
      BY <3>1 DEF SameRequests, Receives, Orders, StartsWith, op_num
    <3>3. QED BY <3>1, <3>2 DEF Gets
  <2>3. QED BY <2>1, <2>2 DEF Gets
<1>2. \A x \in s.reordering_requests \cup P : Retained(v, x)
  <2>1. \A x : op_num(v, x) = op_num(t, x) BY DEF SameRequests, op_num
  <2>2. QED BY <2>1 DEF SameRequests, Retained, Yields
<1>3. Marked(s) => Marked(v) BY DEF SameRequests, Marked, Yields
<1>4. PICK N : N = CommitReplies(r, v, v.app, Len(s.app) + 1, Len(v.app))
  OBVIOUS
<1>5. ASSUME ~confirm
      PROVE  /\ \A d \in net' : d \in net \/ d.msg \in Asks \/ d \in N
             /\ \A d \in N : d \in net'
  <2>1. Replying(r, s, t) BY <1>5 DEF Yields
  <2>2. \A k : CommitReply(r, v, v.app, k) = CommitReply(r, t, t.app, k)
    BY DEF CommitReply, SameRequests
  <2>3. PICK a : a = Len(s.app) + 1 OBVIOUS
  <2>4. PICK b : b = Len(v.app) /\ b = Len(t.app) OBVIOUS
  <2>5. CommitReplies(r, v, v.app, a, b) = CommitReplies(r, t, t.app, a, b)
    BY <2>2 DEF CommitReplies
  <2>6. N = CommitReplies(r, t, t.app, a, b) BY <1>4, <2>3, <2>4, <2>5
  <2>7. /\ \A d \in t.out : d \in s.out \/ d.msg \in Asks \/ d \in N
        /\ \A d \in N : d \in t.out
    BY <2>1, <2>3, <2>4, <2>6 DEF Replying
  <2>8. QED BY <1>5, <2>7
<1>6. \E Q : /\ Gets(r, s, v, Q)
             /\ \A x \in s.reordering_requests \cup Q : Retained(v, x)
             /\ \A k : Underway(r, k) =>
                   Underway(r, k)' \/ \E p \in Q : p.seq_num = k
  BY <1>1, <1>2
<1>7. QED BY <1>3, <1>4, <1>5, <1>6 DEF Passes

\* A packet that the delegate takes is kept, passed on or for another replica.
LEMMA PassedOn ==
  ASSUME NEW r, saved[r] = <<>> \/ \E z \in Signed : saved[r] = <<z>>,
         NEW m \in Signed, Datagram(r, m) \in net
  PROVE  \E P : /\ \/ P = {} /\ Passed(r, m) = <<>>
                   \/ \E p \in Signed : /\ P = {p} /\ Passed(r, m) = <<p>>
                                        /\ Fetched(r, p)
                /\ \A z : saved[r] = <<z>> => \/ Saved(r, m) = <<z>>
                                              \/ \E p \in P : p.seq_num = z.seq_num
                /\ IsFor(r, m) => Saved(r, m) = <<m>> \/ m \in P
                /\ \A p : Saved(r, m) = <<p>> => saved[r] = <<p>> \/ p = m
<1>1. CASE m.signature = "K256"
  <2>1. Saved(r, m) = <<m>> BY <1>1 DEF Saved
  <2>2. PICK f : f = [k \in 1..Len(saved[r]) |-> Unverified(saved[r][k])]
    OBVIOUS
  <2>3. Passed(r, m) = f BY <1>1, <2>2 DEF Passed
  <2>4. CASE saved[r] = <<>>
    <3>1. f = <<>> BY <2>2, <2>4
    <3>2. \A z : saved[r] /= <<z>> BY <2>4
    <3>3. QED BY <2>1, <2>3, <3>1, <3>2
  <2>5. CASE \E z \in Signed : saved[r] = <<z>>
    <3>1. PICK z \in Signed : saved[r] = <<z>> BY <2>5
    <3>2. PICK q : q = Unverified(z) OBVIOUS
    <3>3. q \in Signed /\ q.seq_num = z.seq_num
      BY <3>2 DEF Unverified, Signed, SignatureKinds
    <3>4. Len(saved[r]) = 1 /\ saved[r][1] = z BY <3>1
    <3>5. f = <<q>> BY <2>2, <3>2, <3>4
    <3>6. Fetched(r, q) BY <1>1, <3>1, <3>2 DEF Fetched
    <3>7. \A y : saved[r] = <<y>> => y = z BY <3>1
    <3>8. PICK P : P = {q} OBVIOUS
    <3>9. \A p : Saved(r, m) = <<p>> => p = m BY <2>1
    <3>10. QED BY <2>1, <2>3, <3>3, <3>5, <3>6, <3>7, <3>8, <3>9
  <2>6. QED BY <2>4, <2>5
<1>2. CASE m.signature /= "K256" /\ IsFor(r, m)
  <2>1. Saved(r, m) = saved[r] /\ Passed(r, m) = <<m>>
    BY <1>2 DEF Saved, Passed
  <2>2. Fetched(r, m) BY DEF Fetched, Comes
  <2>3. PICK P : P = {m} OBVIOUS
  <2>4. QED BY <2>1, <2>2, <2>3
<1>3. CASE m.signature /= "K256" /\ ~IsFor(r, m)
  <2>1. Saved(r, m) = saved[r] /\ Passed(r, m) = <<>>
    BY <1>3 DEF Saved, Passed
  <2>2. QED BY <1>3, <2>1
<1>4. QED BY <1>1, <1>2, <1>3

\* A handler of a datagram.
LEMMA DatagramPasses ==
  ASSUME IInv, NEW r \in Live, NEW s, s = replica[r], NEW t \in ReplicaFields,
         NEW P, Gets(r, s, t, P), Yields(r, s, t, P), Becomes(r, t),
         NEW m, HandleDatagram(r, m, t.out, <<>>),
         UNCHANGED <<clientVars, sequenced, variant, lost>>,
         \A i \in Replicas : i /= r => saved'[i] = saved[i],
         \A p : saved'[r] = <<p>> => saved[r] = <<p>> \/ Datagram(r, p) \in net,
         \A k : Underway(r, k) =>
             Underway(r, k)' \/ \E p \in P : p.seq_num = k
  PROVE  Passes(r)
<1>1. r \in Replicas BY LiveAssumption
<1>2. s.out = {} /\ DOMAIN replica = Replicas
  BY <1>1 DEF IInv, ReplicaInv, Shapes
<1>3. PICK v : v = [t EXCEPT !.out = {}] OBVIOUS
<1>4. replica' = [replica EXCEPT ![r] = v] BY <1>3 DEF Becomes
<1>5. v = replica'[r] /\ \A i \in Replicas : i /= r => replica'[i] = replica[i]
  BY <1>1, <1>2, <1>4
<1>6. SameRequests(t, v) /\ v.verified_num = t.verified_num /\ v.app = t.app
  BY <1>3 DEF ReplicaFields, SameRequests
<1>7. PICK e : e = Datagram(r, m) OBVIOUS
<1>8. net' = (net \ {e}) \cup t.out \/ net' = net \cup t.out
  BY <1>7 DEF HandleDatagram, Flight
<1>9. e.to = r BY <1>7 DEF Datagram
<1>10. /\ \A d \in net : d \in net' \/ d.to = r
       /\ \A d \in net' : d \in net \/ d \in t.out
       /\ \A d \in t.out : d \in net'
  BY <1>8, <1>9
<1>11. QED BY <1>1, <1>2, <1>5, <1>6, <1>10, StepPasses

\* A multicast packet arrives.
LEMMA HandleRequestPasses ==
  ASSUME IInv, NEW r \in Live, NEW m, HandleRequest(r, m)
  PROVE  Passes(r)
<1>1. PICK s : s = replica[r] OBVIOUS
<1>2. PICK caps : caps = Locals OBVIOUS
<1>3. PICK G : G = Universe(r) OBVIOUS
<1>4. PICK X : X = InNet(r) OBVIOUS
<1>5. PICK ps : ps = Passed(r, m) OBVIOUS
<1>6. PICK t : /\ t = ReceiveAll(r, s, ps)
               /\ Becomes(r, t)
               /\ HandleDatagram(r, m, t.out, <<>>)
  BY <1>1, <1>5 DEF HandleRequest
<1>7. /\ caps \in [Replicas -> Nat] /\ Gathered(G, r, caps)
      /\ Fit(s, r, caps, G, X) /\ Settled(s) /\ s.panicked = "no"
      /\ s \in ReplicaFields
  BY <1>1, <1>2, <1>3, <1>4, RunningFit DEF HandleRequest
<1>8. /\ r \in Replicas /\ DOMAIN saved = Replicas
      /\ (saved[r] = <<>> \/ \E z \in Signed : saved[r] = <<z>>)
  BY LiveAssumption DEF IInv, Shapes
<1>9. m \in Signed /\ m.kind = "Request" /\ Datagram(r, m) \in net
  BY ArrivesAtReplica DEF HandleRequest, Arrived
<1>10. PICK q : q = Saved(r, m) OBVIOUS
<1>11. /\ saved'[r] = q
       /\ \A i \in Replicas : i /= r => saved'[i] = saved[i]
  BY <1>8, <1>10 DEF HandleRequest
<1>12. PICK P : /\ \/ P = {} /\ ps = <<>>
                   \/ \E p \in Signed : /\ P = {p} /\ ps = <<p>>
                                        /\ Fetched(r, p)
                /\ \A z : saved[r] = <<z>> => \/ q = <<z>>
                                              \/ \E p \in P : p.seq_num = z.seq_num
                /\ IsFor(r, m) => q = <<m>> \/ m \in P
                /\ \A p : q = <<p>> => saved[r] = <<p>> \/ p = m
  <2>1. \E P : /\ \/ P = {} /\ Passed(r, m) = <<>>
                  \/ \E p \in Signed : /\ P = {p} /\ Passed(r, m) = <<p>>
                                       /\ Fetched(r, p)
               /\ \A z : saved[r] = <<z>> => \/ Saved(r, m) = <<z>>
                                             \/ \E p \in P : p.seq_num = z.seq_num
               /\ IsFor(r, m) => Saved(r, m) = <<m>> \/ m \in P
               /\ \A p : Saved(r, m) = <<p>> => saved[r] = <<p>> \/ p = m
    BY <1>8, <1>9, PassedOn
  <2>2. QED BY <1>5, <1>10, <2>1
<1>13. /\ t \in ReplicaFields /\ Gets(r, s, t, P) /\ Yields(r, s, t, P)
  <2>1. CASE P = {} /\ ps = <<>>
    <3>1. t = s BY <1>6, <2>1 DEF ReceiveAll
    <3>2. SameRequests(s, s) /\ OnlyAsks(s, s) BY DEF SameRequests, OnlyAsks
    <3>3. Yields(r, s, s, {}) BY <1>7, <3>2, SameYields
    <3>4. QED BY <1>7, <2>1, <3>1, <3>2, <3>3 DEF Gets
  <2>2. CASE \E p \in Signed : P = {p} /\ ps = <<p>> /\ Fetched(r, p)
    <3>1. PICK p \in Signed : P = {p} /\ ps = <<p>> /\ Fetched(r, p) BY <2>2
    <3>2. /\ Fit(t, r, caps, G, X) /\ Receives(s, t, p)
          /\ Yields(r, s, t, {p})
      BY <1>6, <1>7, <3>1, ReceiveAllFits
    <3>3. t \in ReplicaFields BY <3>2 DEF Fit, Sizes
    <3>4. QED BY <3>1, <3>2, <3>3 DEF Gets
  <2>3. QED BY <1>12, <2>1, <2>2
<1>14. ASSUME NEW k, Underway(r, k)
       PROVE  Underway(r, k)' \/ \E p \in P : p.seq_num = k
  <2>1. CASE \E p \in Signed : saved[r] = <<p>> /\ p.seq_num = k
    BY <1>11, <1>12, <2>1 DEF Underway
  <2>2. CASE \E d \in net : /\ d.to = r /\ d.msg.kind = "Request"
                            /\ IsFor(r, d.msg) /\ d.msg.seq_num = k
    <3>1. PICK d \in net : /\ d.to = r /\ d.msg.kind = "Request"
                           /\ IsFor(r, d.msg) /\ d.msg.seq_num = k
      BY <2>2
    <3>2. CASE d \in net' BY <3>1, <3>2 DEF Underway
    <3>3. CASE d \notin net'
      <4>1. d = Datagram(r, m)
        BY <1>6, <3>3 DEF HandleDatagram, Flight
      <4>2. d.msg = m BY <4>1 DEF Datagram
      <4>3. q = <<m>> \/ m \in P BY <1>12, <3>1, <4>2
      <4>4. m.seq_num = k BY <3>1, <4>2
      <4>5. QED BY <1>9, <1>11, <4>3, <4>4 DEF Underway
    <3>4. QED BY <3>2, <3>3
  <2>3. QED BY <1>14, <2>1, <2>2 DEF Underway
<1>15. UNCHANGED <<clientVars, sequenced, variant, lost>> BY DEF HandleRequest
<1>16. \A p : saved'[r] = <<p>> => saved[r] = <<p>> \/ Datagram(r, p) \in net
  BY <1>9, <1>11, <1>12
<1>17. \A k : Underway(r, k) => Underway(r, k)' \/ \E p \in P : p.seq_num = k
  BY <1>14
<1>18. /\ \A i \in Replicas : i /= r => saved'[i] = saved[i]
       /\ Becomes(r, t) /\ HandleDatagram(r, m, t.out, <<>>)
  BY <1>6, <1>11
<1>19. QED
  BY <1>1, <1>13, <1>15, <1>16, <1>17, <1>18, DatagramPasses

\* The answer to a Query arrives.
LEMMA HandleQueryOkPasses ==
  ASSUME IInv, NEW r \in Live, NEW m, HandleQueryOk(r, m)
  PROVE  Passes(r)
<1>1. PICK s : s = replica[r] OBVIOUS
<1>2. PICK caps : caps = Locals OBVIOUS
<1>3. PICK G : G = Universe(r) OBVIOUS
<1>4. PICK X : X = InNet(r) OBVIOUS
<1>5. PICK u : u = IF m.op_num = ordered_num(s) + 1
                     THEN Receive(r, s, m.packet) ELSE s
  OBVIOUS
<1>6. PICK t : /\ t = IF /\ m.op_num = ordered_num(s) + 1
                         /\ u.panicked = "no"
                         /\ Cardinality(u.reordering_requests) >= QueryThreshold
                        THEN DoQuery(r, u) ELSE u
               /\ Becomes(r, t)
               /\ HandleDatagram(r, m, t.out, <<>>)
  BY <1>1, <1>5 DEF HandleQueryOk
<1>7. /\ caps \in [Replicas -> Nat] /\ Gathered(G, r, caps)
      /\ Fit(s, r, caps, G, X) /\ Settled(s) /\ s.panicked = "no"
      /\ s \in ReplicaFields
  BY <1>1, <1>2, <1>3, <1>4, RunningFit DEF HandleQueryOk
<1>8. PICK p : p = m.packet OBVIOUS
<1>9. m.kind = "QueryOk" /\ p \in Signed /\ Fetched(r, p)
  <2>1. m \in Answers /\ Datagram(r, m) \in net /\ m.kind = "QueryOk"
    BY ArrivesAtReplica DEF HandleQueryOk, Arrived
  <2>2. m = QueryOkMsg(m.op_num, p) BY <1>8, <2>1 DEF Answers, QueryOkMsg
  <2>3. p \in Signed BY <1>8, <2>1 DEF Answers
  <2>4. Comes(r, p) BY <2>1, <2>2 DEF Comes
  <2>5. QED BY <2>1, <2>3, <2>4 DEF Fetched
<1>10. PICK P : /\ Fit(u, r, caps, G, X) /\ Settled(u)
                /\ Gets(r, s, u, P) /\ Yields(r, s, u, P)
  <2>1. CASE u = s
    <3>1. SameRequests(s, s) /\ OnlyAsks(s, s) BY DEF SameRequests, OnlyAsks
    <3>2. Yields(r, s, s, {}) BY <1>7, <3>1, SameYields
    <3>3. Gets(r, s, u, {}) BY <2>1, <3>1 DEF Gets
    <3>4. QED BY <1>7, <2>1, <3>2, <3>3
  <2>2. CASE u = Receive(r, s, p)
    <3>1. /\ Fit(u, r, caps, G, X) /\ Settled(u)
          /\ Receives(s, u, p) /\ Yields(r, s, u, {p})
      BY <1>7, <1>9, <2>2, ReceiveFits
    <3>2. Gets(r, s, u, {p}) BY <1>9, <3>1 DEF Gets
    <3>3. QED BY <3>1, <3>2
  <2>3. QED BY <1>5, <1>8, <2>1, <2>2
<1>11. t \in ReplicaFields /\ SameRequests(u, t) /\ OnlyAsks(u, t)
  <2>1. CASE t = u
    <3>1. t \in ReplicaFields BY <1>10, <2>1 DEF Fit, Sizes
    <3>2. QED BY <2>1, <3>1 DEF SameRequests, OnlyAsks
  <2>2. CASE /\ t = DoQuery(r, u)
             /\ Cardinality(u.reordering_requests) >= QueryThreshold
    <3>1. u.reordering_requests /= {}
      <4>1. Cardinality({}) = 0 BY FS_EmptySet
      <4>2. QED BY <2>2, <4>1, QueryAssumption
    <3>2. /\ Fit(u, r, caps, G, X) /\ Settled(u) /\ t = DoQuery(r, u)
      BY <1>10, <2>2
    <3>3. /\ Fit(t, r, caps, G, X)
          /\ t.requests = u.requests /\ t.seq_num_offset = u.seq_num_offset
          /\ t.reordering_requests = u.reordering_requests
          /\ OnlyAsks(u, t)
      BY <3>1, <3>2, DoQueryFits
    <3>4. QED BY <3>3 DEF SameRequests, Fit, Sizes
  <2>3. QED BY <1>6, <2>1, <2>2
<1>12. Yields(r, s, t, P) BY <1>10, <1>11, AsksYields
<1>13. Gets(r, s, t, P)
  <2>1. CASE P = {} /\ SameRequests(s, u)
    BY <1>11, <2>1 DEF SameRequests, Gets
  <2>2. CASE \E x \in Signed : P = {x} /\ Fetched(r, x) /\ Receives(s, u, x)
    <3>1. PICK x \in Signed : P = {x} /\ Fetched(r, x) /\ Receives(s, u, x)
      BY <2>2
    <3>2. Receives(s, t, x)
      BY <1>11, <3>1 DEF SameRequests, Receives, Orders, StartsWith, op_num
    <3>3. QED BY <3>1, <3>2 DEF Gets
  <2>3. QED BY <1>10, <2>1, <2>2 DEF Gets
<1>14. UNCHANGED <<clientVars, sequenced, variant, lost>> /\ saved' = saved
  BY DEF HandleQueryOk, multicastVars
<1>15. \A d \in net : d \in net' \/ d.to /= r \/ d.msg.kind /= "Request"
  <2>1. \A d \in net : d \in net' \/ d = Datagram(r, m)
    BY <1>6 DEF HandleDatagram, Flight
  <2>2. QED BY <1>9, <2>1 DEF Datagram
<1>16. \A k : Underway(r, k) => Underway(r, k)'
  BY <1>14, <1>15, UnderwayStays
<1>17. QED
  BY <1>1, <1>6, <1>11, <1>12, <1>13, <1>14, <1>16, DatagramPasses

\* Another replica's Confirm arrives.
LEMMA HandleConfirmPasses ==
  ASSUME IInv, NEW r \in Live, NEW m, HandleConfirm(r, m)
  PROVE  Passes(r)
<1>1. PICK s : s = replica[r] OBVIOUS
<1>2. PICK caps : caps = Locals OBVIOUS
<1>3. PICK G : G = Universe(r) OBVIOUS
<1>4. PICK X : X = InNet(r) OBVIOUS
<1>5. PICK t : /\ t = IF ~confirm THEN Panics(s, "confirm")
                      ELSE IF Overtakes(s, m)
                        THEN [s EXCEPT !.reordering_confirms1 = @ \cup {m}]
                        ELSE DoConfirm1(r, s, m)
               /\ Becomes(r, t)
               /\ HandleDatagram(r, m, t.out, <<>>)
  BY <1>1 DEF HandleConfirm
<1>6. /\ caps \in [Replicas -> Nat] /\ Gathered(G, r, caps)
      /\ Fit(s, r, caps, G, X) /\ Settled(s) /\ s.panicked = "no"
      /\ s \in ReplicaFields
  BY <1>1, <1>2, <1>3, <1>4, RunningFit DEF HandleConfirm
<1>7. m \in X /\ m \in Pledges /\ m.kind = "Confirm"
  BY <1>4, ArrivesAtReplica DEF HandleConfirm, Arrived
<1>8. PICK Y : Y = X \ {m} OBVIOUS
<1>9. confirm
  <2>1. m \in G BY <1>6, <1>7 DEF Fit, Pending
  <2>2. QED BY <1>6, <2>1 DEF Gathered
<1>10. t \in ReplicaFields /\ SameRequests(s, t) /\ t.verified_num = s.verified_num
  <2>1. CASE Overtakes(s, m)
    <3>1. t = [s EXCEPT !.reordering_confirms1 = @ \cup {m}]
      BY <1>5, <1>9, <2>1
    <3>2. PICK V : V = s.reordering_confirms1 \cup {m} OBVIOUS
    <3>3. t = [s EXCEPT !.reordering_confirms1 = V] BY <3>1, <3>2
    <3>4. V \in SUBSET Pledges BY <1>6, <1>7, <3>2 DEF ReplicaFields
    <3>5. QED BY <1>6, <3>3, <3>4 DEF ReplicaFields, SameRequests
  <2>2. CASE ~Overtakes(s, m)
    <3>1. Len(s.requests) \in Nat /\ m.end \in Nat
      BY <1>6, <1>7, LenProperties DEF ReplicaFields, Pledges
    <3>2. m.end <= Len(s.requests) BY <2>2, <3>1 DEF Overtakes, ordered_num
    <3>3. t = DoConfirm1(r, s, m) BY <1>5, <1>9, <2>2
    <3>4. Fit(t, r, caps, G, Y) /\ Counts(s, t)
      BY <1>6, <1>7, <1>8, <3>2, <3>3, DoConfirm1Fits
    <3>5. QED BY <3>4 DEF Fit, Sizes, Counts, SameRequests
  <2>3. QED BY <2>1, <2>2
<1>11. Yields(r, s, t, {}) BY <1>6, <1>9, <1>10, SameYields
<1>12. Gets(r, s, t, {}) BY <1>10 DEF Gets
<1>13. UNCHANGED <<clientVars, sequenced, variant, lost>> /\ saved' = saved
  <2>1. sequenced' = sequenced /\ saved' = saved
    BY DEF HandleConfirm, multicastVars
  <2>2. QED BY <2>1 DEF HandleConfirm
<1>14. \A d \in net : d \in net' \/ d.to /= r \/ d.msg.kind /= "Request"
  <2>1. \A d \in net : d \in net' \/ d = Datagram(r, m)
    BY <1>5 DEF HandleDatagram, Flight
  <2>2. QED BY <1>7, <2>1 DEF Datagram
<1>15. \A k : Underway(r, k) => Underway(r, k)'
  BY <1>13, <1>14, UnderwayStays
<1>16. Becomes(r, t) /\ HandleDatagram(r, m, t.out, <<>>) BY <1>5
<1>17. QED
  BY <1>1, <1>10, <1>11, <1>12, <1>13, <1>15, <1>16, DatagramPasses

\* The replica's own Confirm comes out of the loopback.
LEMMA LoopbackConfirmPasses ==
  ASSUME IInv, NEW r \in Live, LoopbackConfirm(r)
  PROVE  Passes(r)
<1>1. PICK s : s = replica[r] OBVIOUS
<1>2. PICK caps : caps = Locals OBVIOUS
<1>3. PICK G : G = Universe(r) OBVIOUS
<1>4. PICK X : X = InNet(r) OBVIOUS
<1>5. r \in Replicas /\ DOMAIN replica = Replicas
  BY LiveAssumption DEF IInv, Shapes
<1>6. /\ caps \in [Replicas -> Nat] /\ Gathered(G, r, caps)
      /\ Fit(s, r, caps, G, X) /\ Settled(s) /\ s.panicked = "no"
      /\ s \in ReplicaFields
  BY <1>1, <1>2, <1>3, <1>4, RunningFit DEF LoopbackConfirm
<1>7. PICK e : /\ loopback[r] = <<e>>
               /\ e.msg \in Pledges /\ e.msg.replica = r
               /\ e.msg.start = s.remote_confirmed_nums[r] + 1
               /\ e.msg.end = s.local_confirmed_num
               /\ e.msg.start <= e.msg.end
               /\ confirm
  <2>1. LoopbackInv(r) /\ loopback[r] /= <<>>
    BY <1>5 DEF IInv, LoopbackConfirm
  <2>2. QED BY <1>1, <2>1 DEF LoopbackInv
<1>8. Head(loopback[r]) = e BY <1>7
<1>9. PICK end : end = e.msg.end OBVIOUS
<1>10. PICK u : u = [s EXCEPT !.remote_confirmed_nums[r] = end] OBVIOUS
<1>11. PICK t : t = DoUpdateConfirmNum(r, u) OBVIOUS
<1>12. Becomes(r, t) /\ HandleLoopback(r, t.out, <<>>)
  BY <1>1, <1>7, <1>8, <1>9, <1>10, <1>11 DEF LoopbackConfirm
<1>13. /\ end \in Nat /\ s.remote_confirmed_nums[r] <= end
       /\ end <= caps[r] /\ end <= Len(s.requests)
  <2>1. s.remote_confirmed_nums[r] \in Nat BY <1>5, <1>6 DEF ReplicaFields
  <2>2. end \in Nat BY <1>7, <1>9 DEF Pledges
  <2>3. caps[r] = s.local_confirmed_num BY <1>1, <1>2, <1>5 DEF Locals
  <2>4. s.local_confirmed_num <= Len(s.requests) BY <1>6 DEF Fit, Sizes
  <2>5. end = s.local_confirmed_num /\ s.remote_confirmed_nums[r] + 1 <= end
    BY <1>7, <1>9
  <2>6. QED BY <2>1, <2>2, <2>3, <2>4, <2>5
<1>14. /\ Fit(t, r, caps, G, X) /\ SameRequests(s, t)
       /\ t.verified_num = s.verified_num
  BY <1>6, <1>7, <1>10, <1>11, <1>13, OwnConfirmFits DEF SameRequests
<1>15. Yields(r, s, t, {}) BY <1>6, <1>7, <1>14, SameYields
<1>16. Gets(r, s, t, {}) BY <1>14 DEF Gets
<1>17. UNCHANGED <<clientVars, sequenced, variant, lost>> /\ saved' = saved
  BY DEF LoopbackConfirm, multicastVars
<1>18. net' = net \cup t.out BY <1>12 DEF HandleLoopback
<1>19. \A k : Underway(r, k) => Underway(r, k)'
  <2>1. \A d \in net : d \in net' \/ d.to /= r \/ d.msg.kind /= "Request"
    BY <1>18
  <2>2. QED BY <1>17, <2>1, UnderwayStays
<1>20. PICK v : v = [t EXCEPT !.out = {}] OBVIOUS
<1>21. replica' = [replica EXCEPT ![r] = v] BY <1>12, <1>20 DEF Becomes
<1>22. v = replica'[r] /\ \A i \in Replicas : i /= r =>
                             replica'[i] = replica[i] /\ saved'[i] = saved[i]
  BY <1>5, <1>17, <1>21
<1>23. t \in ReplicaFields BY <1>14 DEF Fit, Sizes
<1>24. SameRequests(t, v) /\ v.verified_num = t.verified_num /\ v.app = t.app
  BY <1>20, <1>23 DEF ReplicaFields, SameRequests
<1>25. s.out = {} BY <1>1, <1>5 DEF IInv, ReplicaInv
<1>26. /\ \A d \in net : d \in net' \/ d.to = r
       /\ \A d \in net' : d \in net \/ d \in t.out
       /\ \A d \in t.out : d \in net'
       /\ \A p : saved'[r] = <<p>> => saved[r] = <<p>> \/ Datagram(r, p) \in net
  BY <1>17, <1>18
<1>27. QED
  BY <1>1, <1>5, <1>15, <1>16, <1>17, <1>19, <1>22, <1>24, <1>25, <1>26,
     StepPasses

\* The delegate's pace, and the replica's.
LEMMA OnPacePasses ==
  ASSUME IInv, NEW r \in Live, OnPace(r)
  PROVE  Passes(r)
<1>1. PICK s : s = replica[r] OBVIOUS
<1>2. PICK caps : caps = Locals OBVIOUS
<1>3. PICK G : G = Universe(r) OBVIOUS
<1>4. PICK X : X = InNet(r) OBVIOUS
<1>5. PICK ps : ps = saved[r] OBVIOUS
<1>6. PICK t : t = ReceiveAll(r, s, ps) OBVIOUS
<1>7. PICK own :
        /\ own = IF t.panicked = "no" THEN SendConfirm(r, t) ELSE <<>>
        /\ Becomes(r, IF own = <<>> THEN t
                      ELSE [t EXCEPT !.local_confirmed_num = ordered_num(t)])
        /\ Pace(r, t.out \cup UNION {SendTo(Peers(r), own[k]) :
                                        k \in 1..Len(own)}, own)
  BY <1>1, <1>5, <1>6 DEF OnPace
<1>8. UNCHANGED <<clientVars, sequenced, variant, lost>>
      /\ saved' = [saved EXCEPT ![r] = <<>>]
  BY DEF OnPace
<1>9. /\ caps \in [Replicas -> Nat] /\ Gathered(G, r, caps)
      /\ Fit(s, r, caps, G, X) /\ Settled(s) /\ s.panicked = "no"
      /\ s \in ReplicaFields
  BY <1>1, <1>2, <1>3, <1>4, RunningFit DEF OnPace
<1>10. r \in Replicas /\ DOMAIN replica = Replicas /\ DOMAIN saved = Replicas
       /\ (ps = <<>> \/ \E p \in Signed : ps = <<p>>)
  BY <1>5, LiveAssumption DEF IInv, Shapes
<1>11. PICK P : /\ t \in ReplicaFields
                /\ Gets(r, s, t, P) /\ Yields(r, s, t, P)
                /\ \A p : ps = <<p>> => p \in P
  <2>1. CASE ps = <<>>
    <3>1. t = s BY <1>6, <2>1 DEF ReceiveAll
    <3>2. SameRequests(s, s) /\ OnlyAsks(s, s) BY DEF SameRequests, OnlyAsks
    <3>3. Yields(r, s, s, {}) BY <1>9, <3>2, SameYields
    <3>4. Gets(r, s, t, {}) BY <3>1, <3>2 DEF Gets
    <3>5. \A p : ps /= <<p>> BY <2>1
    <3>6. QED BY <1>9, <3>1, <3>3, <3>4, <3>5
  <2>2. CASE \E p \in Signed : ps = <<p>>
    <3>1. PICK p \in Signed : ps = <<p>> BY <2>2
    <3>2. /\ Fit(t, r, caps, G, X) /\ Receives(s, t, p)
          /\ Yields(r, s, t, {p})
      BY <1>6, <1>9, <3>1, ReceiveAllFits
    <3>3. t \in ReplicaFields BY <3>2 DEF Fit, Sizes
    <3>4. Fetched(r, p) BY <1>5, <3>1 DEF Fetched, Comes
    <3>5. Gets(r, s, t, {p}) BY <3>2, <3>4 DEF Gets
    <3>6. \A q : ps = <<q>> => q = p BY <3>1
    <3>7. QED BY <3>2, <3>3, <3>5, <3>6
  <2>3. QED BY <1>10, <2>1, <2>2
<1>12. PICK o : o = UNION {SendTo(Peers(r), own[k]) : k \in 1..Len(own)}
  OBVIOUS
<1>13. net' = net \cup (t.out \cup o) BY <1>7, <1>12 DEF Pace
<1>14. ~confirm => o = {}
  <2>1. SUFFICES ASSUME ~confirm PROVE o = {} OBVIOUS
  <2>2. own = <<>> BY <1>7, <2>1 DEF SendConfirm
  <2>3. Len(own) = 0 BY <2>2
  <2>4. QED BY <1>12, <2>3
<1>15. PICK u : u = IF own = <<>> THEN t
                    ELSE [t EXCEPT !.local_confirmed_num = ordered_num(t)]
  OBVIOUS
<1>16. PICK v : v = [u EXCEPT !.out = {}] OBVIOUS
<1>17. SameRequests(t, v) /\ v.verified_num = t.verified_num /\ v.app = t.app
  <2>1. t \in ReplicaFields BY <1>11
  <2>2. PICK n : n = ordered_num(t) OBVIOUS
  <2>3. v = [t EXCEPT !.out = {}]
        \/ v = [[t EXCEPT !.local_confirmed_num = n] EXCEPT !.out = {}]
    BY <1>15, <1>16, <2>2
  <2>4. QED BY <2>1, <2>3 DEF ReplicaFields, SameRequests
<1>18. replica' = [replica EXCEPT ![r] = v]
  BY <1>7, <1>15, <1>16 DEF Becomes
<1>19. /\ v = replica'[r] /\ saved'[r] = <<>>
       /\ \A i \in Replicas : i /= r =>
             replica'[i] = replica[i] /\ saved'[i] = saved[i]
  BY <1>8, <1>10, <1>18
<1>20. s.out = {} BY <1>1, <1>10 DEF IInv, ReplicaInv
<1>21. /\ \A d \in net : d \in net' \/ d.to = r
       /\ ~confirm => \A d \in net' : d \in net \/ d \in t.out
       /\ \A d \in t.out : d \in net'
       /\ \A p : saved'[r] = <<p>> => saved[r] = <<p>> \/ Datagram(r, p) \in net
  <2>1. \A p : saved'[r] /= <<p>> BY <1>19
  <2>2. QED BY <1>13, <1>14, <2>1
<1>22. ASSUME NEW k, Underway(r, k)
       PROVE  Underway(r, k)' \/ \E p \in P : p.seq_num = k
  <2>1. CASE \E p \in Signed : saved[r] = <<p>> /\ p.seq_num = k
    BY <1>5, <1>11, <2>1
  <2>2. CASE \E d \in net : /\ d.to = r /\ d.msg.kind = "Request"
                            /\ IsFor(r, d.msg) /\ d.msg.seq_num = k
    BY <1>13, <2>2 DEF Underway
  <2>3. QED BY <1>22, <2>1, <2>2 DEF Underway
<1>23. \A k : Underway(r, k) => Underway(r, k)' \/ \E p \in P : p.seq_num = k
  BY <1>22
<1>24. Gets(r, s, t, P) /\ Yields(r, s, t, P) BY <1>11
<1>25. UNCHANGED <<clientVars, sequenced, variant, lost>> BY <1>8
<1>26. QED
  BY <1>1, <1>10, <1>17, <1>19, <1>20, <1>21, <1>23, <1>24, <1>25, StepPasses
-----------------------------------------------------------------------------
(* Each packet is accounted for                                            *)

\* Replica r has ordered or parked the packet numbered k.
Taken(s, k) ==
    \/ k <= Len(s.requests)
    \/ \E x \in s.reordering_requests : x.seq_num = k

Accounted ==
    \A r \in Live : \A k \in 1..Len(sequenced) :
        Underway(r, k) \/ Taken(replica[r], k)

\* In neo-hm every packet carries its codes.
Coded(p) == p.signature = "HalfSipHash"
CodedIn(d) ==
    d.to \in Live => /\ d.msg.kind = "Request" => Coded(d.msg)
                     /\ d.msg.kind = "QueryOk" => Coded(d.msg.packet)
CodedAt(r) ==
    /\ \A p : saved[r] = <<p>> => Coded(p)
    /\ \A p : Holds(replica[r], p) => Coded(p)
AllCoded == (\A d \in net : CodedIn(d)) /\ (\A r \in Replicas : CodedAt(r))

PacketInv ==
    /\ lost \in Nat
    /\ lost = 0 => Accounted
    /\ \A r \in Replicas : Marked(replica[r])
    /\ variant = "neo-hm" => AllCoded

\* A step is a client's, the sequencer's, a loss, or a replica's.
LEMMA StepIs ==
  ASSUME IInv, [Next]_vars
  PROVE  \/ UNCHANGED vars
         \/ \E c \in Clients : Invoke(c) \/ \E m : HandleReply(c, m)
         \/ \E m : Sequence(m)
         \/ \E d \in net : Lose(d)
         \/ \E r \in Live : \/ Passes(r) /\ Does(r)
                            \/ \E m : HandleQuery(r, m)
<1>1. ASSUME NEW r \in Live, ReplicaStep(r)
      PROVE  (Passes(r) /\ Does(r)) \/ \E m : HandleQuery(r, m)
  <2>1. CASE OnPace(r) BY <2>1, OnPacePasses, OnPaceKeeps
  <2>2. CASE LoopbackConfirm(r)
    BY <2>2, LoopbackConfirmPasses, LoopbackConfirmKeeps
  <2>3. CASE \E m : HandleRequest(r, m)
    BY <2>3, HandleRequestPasses, HandleRequestKeeps
  <2>4. CASE \E m : HandleConfirm(r, m)
    BY <2>4, HandleConfirmPasses, HandleConfirmKeeps
  <2>5. CASE \E m : HandleQueryOk(r, m)
    BY <2>5, HandleQueryOkPasses, HandleQueryOkKeeps
  <2>6. QED BY <1>1, <2>1, <2>2, <2>3, <2>4, <2>5 DEF ReplicaStep
<1>2. QED BY <1>1 DEF Next

\* A packet that a replica fetches came to it.
LEMMA FetchedCame ==
  ASSUME NEW r, NEW p \in Signed, Fetched(r, p)
  PROVE  Came(r, p)
<1>1. CASE Comes(r, p) BY <1>1 DEF Came
<1>2. CASE \E q \in Signed : saved[r] = <<q>> /\ p = Unverified(q)
  <2>1. PICK q \in Signed : saved[r] = <<q>> /\ p = Unverified(q) BY <1>2
  <2>2. p.seq_num = q.seq_num /\ p.request = q.request
    BY <2>1 DEF Unverified, Signed
  <2>3. QED BY <2>1, <2>2 DEF Came, Comes
<1>3. QED BY <1>1, <1>2 DEF Fetched

\* A number is the operation's too, so that what is kept is taken.
LEMMA RetainedTaken ==
  ASSUME sequenced \in Seq(Requests), Len(sequenced) < U32,
         NEW t, t.seq_num_offset = 1, NEW x, Sound(x), Retained(t, x)
  PROVE  Taken(t, x.seq_num)
<1>1. Len(sequenced) \in Nat BY LenProperties
<1>2. PICK n : n = x.seq_num OBVIOUS
<1>3. n \in 1..Len(sequenced) BY <1>2 DEF Sound
<1>4. n \in Nat /\ n < 65536 BY <1>1, <1>3 DEF U32
<1>5. op_num(t, x) = (n - 1 + 1) % 65536 BY <1>2 DEF op_num, U32
<1>6. n - 1 + 1 = n /\ n % 65536 = n BY <1>4
<1>7. op_num(t, x) = n BY <1>5, <1>6
<1>8. QED BY <1>2, <1>7 DEF Retained, Taken

\* What a replica has taken, and what reaches it, stays there.
LEMMA TakenStays ==
  ASSUME IInv, IInv', SInv, SInv', Deployed, NEW r \in Live,
         NEW s, s = replica[r], NEW t, t = replica'[r], sequenced' = sequenced,
         NEW P, Gets(r, s, t, P),
         \A x \in s.reordering_requests \cup P : Retained(t, x)
  PROVE  /\ \A k \in 1..Len(sequenced) : Taken(s, k) => Taken(t, k)
         /\ \A p \in P : Taken(t, p.seq_num)
<1>1. r \in Replicas BY LiveAssumption
<1>2. sequenced \in Seq(Requests) /\ Len(sequenced) < U32
  BY NumberedFits DEF IInv, Shapes
<1>3. /\ s \in ReplicaFields /\ t \in ReplicaFields
      /\ Gapped(s) /\ InOrder(s)
  BY <1>1, Known, KnownNext DEF Fit, SInv, OrderInv
<1>4. t.seq_num_offset \in {0, 1} BY <1>1 DEF SInv, OrderInv, InOrder
<1>5. Len(s.requests) \in Nat /\ Len(t.requests) \in Nat
  BY <1>3, LenProperties DEF ReplicaFields
<1>6. CASE P = {} /\ SameRequests(s, t)
  <2>1. ASSUME NEW x \in s.reordering_requests PROVE Taken(t, x.seq_num)
    BY <1>6, <2>1 DEF Taken, SameRequests
  <2>2. QED BY <1>6, <2>1 DEF Taken, SameRequests
<1>7. CASE \E p \in Signed : P = {p} /\ Fetched(r, p) /\ Receives(s, t, p)
  <2>1. PICK p \in Signed : P = {p} /\ Fetched(r, p) /\ Receives(s, t, p)
    BY <1>7
  <2>2. Sound(p) BY <2>1, FetchedCame, CameSound
  <2>3. t.seq_num_offset = 1
    <3>1. p.seq_num /= 0 /\ s.seq_num_offset \in {0, 1}
      BY <1>3, <2>1 DEF Signed, InOrder
    <3>2. QED BY <1>4, <2>1, <3>1 DEF Receives
  <2>4. \A x \in s.reordering_requests \cup P : Sound(x)
    BY <1>3, <2>1, <2>2 DEF InOrder
  <2>5. \A x \in s.reordering_requests \cup P : Taken(t, x.seq_num)
    BY <1>2, <2>3, <2>4, RetainedTaken
  <2>6. Len(s.requests) <= Len(t.requests)
    BY <2>1 DEF Receives, Orders, StartsWith
  <2>7. ASSUME NEW k \in 1..Len(sequenced), Taken(s, k) PROVE Taken(t, k)
    <3>1. CASE k <= Len(s.requests)
      <4>1. Len(sequenced) \in Nat BY <1>2, LenProperties
      <4>2. k <= Len(t.requests) BY <1>5, <2>6, <3>1, <4>1
      <4>3. QED BY <4>2 DEF Taken
    <3>2. CASE \E x \in s.reordering_requests : x.seq_num = k
      BY <2>5, <3>2
    <3>3. QED BY <2>7, <3>1, <3>2 DEF Taken
  <2>8. QED BY <2>5, <2>7
<1>8. QED BY <1>6, <1>7 DEF Gets

\* A packet is accounted for as long as nothing is lost.
LEMMA AccountedNext ==
  ASSUME IInv, IInv', SInv, SInv', Deployed, lost \in Nat,
         lost = 0 => Accounted, [Next]_vars
  PROVE  lost' \in Nat /\ (lost' = 0 => Accounted')
<1>1. \A r \in Live : /\ r \in Replicas /\ r \notin Clients
                      /\ r /= Sequencer
  BY LiveAssumption, ClientsAssumption, SequencerAssumption
<1>2. CASE /\ UNCHANGED <<replica, saved, sequenced, lost>>
           /\ \A d \in net : \/ d \in net' \/ d.to \notin Live
                             \/ d.msg.kind /= "Request"
  <2>1. ASSUME Accounted, NEW r \in Live, NEW k \in 1..Len(sequenced')
        PROVE  Underway(r, k)' \/ Taken(replica'[r], k)
    <3>1. Underway(r, k) \/ Taken(replica[r], k)
      BY <1>2, <2>1 DEF Accounted
    <3>2. CASE Underway(r, k) BY <1>2, <3>2, UnderwayStays
    <3>3. CASE Taken(replica[r], k) BY <1>2, <3>3
    <3>4. QED BY <3>1, <3>2, <3>3
  <2>2. QED BY <1>2, <2>1 DEF Accounted
<1>3. CASE UNCHANGED vars
  BY <1>2, <1>3 DEF vars, netVars, multicastVars
<1>4. CASE \E c \in Clients : Invoke(c)
  BY <1>2, <1>4 DEF Invoke, ClientInvoke, ClientSends, multicastVars
<1>5. CASE \E c \in Clients : \E m : HandleReply(c, m)
  <2>1. PICK c \in Clients : \E m : HandleReply(c, m) BY <1>5
  <2>2. PICK m : HandleReply(c, m) BY <2>1
  <2>3. \A d \in net : d \in net' \/ d = Datagram(c, m)
    BY <2>2 DEF HandleReply, ClientReceives, Flight
  <2>4. \A d \in net : d \in net' \/ d.to \notin Live
    BY <1>1, <2>3 DEF Datagram
  <2>5. UNCHANGED <<replica, saved, sequenced, lost>>
    BY <2>2 DEF HandleReply, multicastVars
  <2>6. QED BY <1>2, <2>4, <2>5
<1>6. CASE \E d \in net : Lose(d)
  <2>1. lost' = lost + 1 BY <1>6 DEF Lose
  <2>2. QED BY <2>1
<1>7. CASE \E r \in Live : \E m : HandleQuery(r, m)
  <2>1. PICK r \in Live : \E m : HandleQuery(r, m) BY <1>7
  <2>2. PICK m : HandleQuery(r, m) BY <2>1
  <2>3. \A d \in net : d \in net' \/ (d.to = r /\ d.msg.kind = "Query")
    BY <2>2, HandleQueryKeeps
  <2>4. UNCHANGED <<replica, saved, sequenced, lost>>
    BY <2>2 DEF HandleQuery, multicastVars
  <2>5. QED BY <1>2, <2>3, <2>4
<1>8. CASE \E m : Sequence(m)
  <2>1. PICK m : Sequence(m) BY <1>8
  <2>2. PICK e : e = Datagram(Sequencer, m) OBVIOUS
  <2>3. PICK q : q = Request(m.client, m.num) OBVIOUS
  <2>4. PICK n : n = Len(sequenced) + 1 OBVIOUS
  <2>5. PICK sig \in Signatures(Scheme, n), gone \in {{}, {e}} :
          net' = (net \ gone) \cup UNION {SendTo(Live, Packet(n, sig, o, q)) :
                                             o \in Offsets(Scheme)}
    BY <2>1, <2>2, <2>3, <2>4, SequenceNet
  <2>6. UNCHANGED <<replica, saved, lost>> /\ sequenced' = Append(sequenced, q)
    BY <2>1, <2>3 DEF Sequence, Process
  <2>7. e.to = Sequencer BY <2>2 DEF Datagram
  <2>8. sequenced \in Seq(Requests) /\ Len(sequenced) \in Nat
    <3>1. sequenced \in Seq(Requests) BY DEF IInv, Shapes
    <3>2. QED BY <3>1, LenProperties
  <2>9. Len(sequenced') = n
    <3>1. q \in Requests
      <4>1. sequenced' \in Seq(Requests) BY DEF IInv, Shapes
      <4>2. sequenced' = Append(sequenced, q) BY <2>6
      <4>3. Len(sequenced') = Len(sequenced) + 1
        BY <2>8, <4>2
      <4>4. sequenced'[Len(sequenced) + 1] = q BY <2>8, <4>2
      <4>5. Len(sequenced) + 1 \in 1..Len(sequenced') BY <2>8, <4>3
      <4>6. QED BY <4>1, <4>4, <4>5, ElementOfSeq
    <3>2. QED BY <2>4, <2>6, <2>8, <3>1, AppendProperties
  <2>10. ASSUME Accounted, NEW r \in Live, NEW k \in 1..Len(sequenced')
         PROVE  Underway(r, k)' \/ Taken(replica'[r], k)
    <3>1. CASE k \in 1..Len(sequenced)
      <4>1. Underway(r, k) \/ Taken(replica[r], k)
        BY <2>10, <3>1 DEF Accounted
      <4>2. \A d \in net : d \in net' \/ d.to /= r \/ d.msg.kind /= "Request"
        BY <1>1, <2>5, <2>7
      <4>3. Underway(r, k) => Underway(r, k)'
        BY <2>6, <4>2, UnderwayStays
      <4>4. QED BY <2>6, <4>1, <4>3
    <3>2. CASE k = n
      <4>1. PICK o \in Offsets(Scheme) : IsFor(r, Packet(n, sig, o, q))
        <5>1. CASE Scheme = "HalfSipHash"
          <6>1. r \in Replicas BY <1>1
          <6>2. PICK o \in Offsets("HalfSipHash") :
                   Codes(r, "HalfSipHash", n, q) = {o}
            BY <6>1, OneCode
          <6>3. o \in Codes(r, "HalfSipHash", n, q) BY <6>2
          <6>4. o \in Offsets(Scheme) /\ IsFor(r, Packet(n, Scheme, o, q))
            BY <5>1, <6>3 DEF Codes
          <6>5. sig = Scheme BY <5>1 DEF Signatures
          <6>6. QED BY <6>4, <6>5
        <5>2. CASE Scheme /= "HalfSipHash"
          <6>1. 0 \in Offsets(Scheme) BY <5>2 DEF Offsets
          <6>2. sig /= "HalfSipHash" BY <5>2 DEF Signatures, Scheme
          <6>3. IsFor(r, Packet(n, sig, 0, q)) BY <6>2 DEF IsFor, Packet
          <6>4. QED BY <6>1, <6>3
        <5>3. QED BY <5>1, <5>2
      <4>2. PICK p : p = Packet(n, sig, o, q) OBVIOUS
      <4>3. p.kind = "Request" /\ p.seq_num = n BY <4>2 DEF Packet
      <4>4. PICK d : d = Datagram(r, p) OBVIOUS
      <4>5. d.to = r /\ d.msg = p BY <4>4 DEF Datagram
      <4>6. d \in net' BY <2>5, <4>2, <4>4 DEF SendTo
      <4>7. QED BY <3>2, <4>1, <4>2, <4>3, <4>5, <4>6 DEF Underway
    <3>3. QED BY <2>4, <2>8, <2>9, <2>10, <3>1, <3>2
  <2>11. QED BY <2>6, <2>10 DEF Accounted
<1>9. CASE \E r \in Live : Passes(r)
  <2>1. PICK r \in Live : Passes(r) BY <1>9
  <2>2. UNCHANGED <<sequenced, lost>> BY <2>1 DEF Passes
  <2>3. PICK s, t : s = replica[r] /\ t = replica'[r] OBVIOUS
  <2>4. PICK P : /\ Gets(r, s, t, P)
                 /\ \A x \in s.reordering_requests \cup P : Retained(t, x)
                 /\ \A k : Underway(r, k) =>
                       Underway(r, k)' \/ \E p \in P : p.seq_num = k
    BY <2>1, <2>3 DEF Passes
  <2>5. /\ \A k \in 1..Len(sequenced) : Taken(s, k) => Taken(t, k)
        /\ \A p \in P : Taken(t, p.seq_num)
    BY <2>2, <2>3, <2>4, TakenStays
  <2>6. ASSUME Accounted, NEW i \in Live, NEW k \in 1..Len(sequenced')
        PROVE  Underway(i, k)' \/ Taken(replica'[i], k)
    <3>1. Underway(i, k) \/ Taken(replica[i], k)
      BY <2>2, <2>6 DEF Accounted
    <3>2. CASE i = r
      <4>1. k \in 1..Len(sequenced) BY <2>2
      <4>2. QED BY <2>3, <2>4, <2>5, <3>1, <3>2, <4>1
    <3>3. CASE i /= r
      <4>1. /\ replica'[i] = replica[i] /\ saved'[i] = saved[i]
            /\ \A d \in net : d \in net' \/ d.to /= i
        BY <1>1, <2>1, <3>3 DEF Passes
      <4>2. Underway(i, k) => Underway(i, k)' BY <4>1, UnderwayStays
      <4>3. QED BY <3>1, <4>1, <4>2
    <3>4. QED BY <3>2, <3>3
  <2>7. QED BY <2>2, <2>6 DEF Accounted
<1>10. QED BY <1>3, <1>4, <1>5, <1>6, <1>7, <1>8, <1>9, StepIs

\* No verified packet is overlooked.
LEMMA MarkedNext ==
  ASSUME IInv, \A r \in Replicas : Marked(replica[r]), [Next]_vars
  PROVE  \A r \in Replicas : Marked(replica'[r])
<1>1. CASE UNCHANGED replica BY <1>1
<1>2. CASE \E r \in Live : Passes(r)
  <2>1. PICK r \in Live : Passes(r) BY <1>2
  <2>2. r \in Replicas BY LiveAssumption
  <2>3. Marked(replica'[r]) BY <2>1, <2>2 DEF Passes
  <2>4. \A i \in Replicas : i /= r => replica'[i] = replica[i]
    BY <2>1 DEF Passes
  <2>5. QED BY <2>3, <2>4
<1>3. CASE UNCHANGED vars BY <1>1, <1>3 DEF vars
<1>4. CASE \E c \in Clients : Invoke(c) \/ \E m : HandleReply(c, m)
  BY <1>1, <1>4 DEF Invoke, HandleReply
<1>5. CASE \/ \E m : Sequence(m)
           \/ \E d \in net : Lose(d)
           \/ \E r \in Live : \E m : HandleQuery(r, m)
  BY <1>1, <1>5 DEF Sequence, Lose, HandleQuery
<1>6. QED BY <1>2, <1>3, <1>4, <1>5, StepIs

\* A packet fetched by a replica has its codes.
LEMMA FetchedCoded ==
  ASSUME IInv, AllCoded, NEW r \in Live, NEW p \in Signed, Fetched(r, p)
  PROVE  Coded(p)
<1>1. r \in Replicas BY LiveAssumption
<1>2. ASSUME NEW q \in Signed, Datagram(r, q) \in net PROVE Coded(q)
  <2>1. PICK d : d = Datagram(r, q) OBVIOUS
  <2>2. d.to = r /\ d.msg = q BY <2>1 DEF Datagram
  <2>3. CodedIn(d) BY <1>2, <2>1 DEF AllCoded
  <2>4. q.kind = "Request" BY Kinds
  <2>5. QED BY <2>2, <2>3, <2>4 DEF CodedIn
<1>3. CASE Datagram(r, p) \in net BY <1>2, <1>3
<1>4. CASE \E n : Datagram(r, QueryOkMsg(n, p)) \in net
  <2>1. PICK n : Datagram(r, QueryOkMsg(n, p)) \in net BY <1>4
  <2>2. PICK d : d = Datagram(r, QueryOkMsg(n, p)) OBVIOUS
  <2>3. d.to = r /\ d.msg.kind = "QueryOk" /\ d.msg.packet = p
    BY <2>2 DEF Datagram, QueryOkMsg
  <2>4. CodedIn(d) BY <2>1, <2>2 DEF AllCoded
  <2>5. QED BY <2>3, <2>4 DEF CodedIn
<1>5. CASE saved[r] = <<p>> BY <1>1, <1>5 DEF AllCoded, CodedAt
<1>6. CASE \E m \in Signed : Datagram(r, m) \in net /\ m.signature = "K256"
  <2>1. PICK m \in Signed : Datagram(r, m) \in net /\ m.signature = "K256"
    BY <1>6
  <2>2. Coded(m) BY <1>2, <2>1
  <2>3. QED BY <2>1, <2>2 DEF Coded
<1>7. QED BY <1>3, <1>4, <1>5, <1>6 DEF Fetched, Comes

\* In neo-hm no packet is without its codes.
LEMMA CodedNext ==
  ASSUME IInv, IInv', variant = "neo-hm", AllCoded, [Next]_vars
  PROVE  variant' = "neo-hm" /\ AllCoded'
<1>1. \A r \in Live : /\ r \in Replicas /\ r \notin Clients
                      /\ r /= Sequencer
  BY LiveAssumption, ClientsAssumption, SequencerAssumption
<1>2. CASE /\ UNCHANGED <<replica, saved, variant>>
           /\ \A d \in net' : d \in net \/ CodedIn(d)
  <2>1. \A r \in Replicas : CodedAt(r)'
    <3>1. \A r \in Replicas : CodedAt(r) BY DEF AllCoded
    <3>2. QED BY <1>2, <3>1 DEF CodedAt
  <2>2. \A d \in net' : CodedIn(d)' BY <1>2 DEF AllCoded, CodedIn
  <2>3. QED BY <1>2, <2>1, <2>2 DEF AllCoded
<1>3. CASE UNCHANGED vars
  BY <1>2, <1>3 DEF vars, netVars, multicastVars
<1>4. CASE \E c \in Clients : Invoke(c)
  <2>1. PICK c \in Clients : Invoke(c) BY <1>4
  <2>2. net' = net \cup SendTo({Sequencer}, RequestMsg(c, request_num[c] + 1))
    BY <2>1 DEF Invoke, ClientInvoke, ClientSends
  <2>3. \A d \in net' : d \in net \/ d.to = Sequencer
    BY <2>2 DEF SendTo, Datagram
  <2>4. \A d \in net' : d \in net \/ CodedIn(d) BY <1>1, <2>3 DEF CodedIn
  <2>5. UNCHANGED <<replica, saved, variant>>
    BY <2>1 DEF Invoke, multicastVars
  <2>6. QED BY <1>2, <2>4, <2>5
<1>5. CASE \E c \in Clients : \E m : HandleReply(c, m)
  <2>1. PICK c \in Clients : \E m : HandleReply(c, m) BY <1>5
  <2>2. PICK m : HandleReply(c, m) BY <2>1
  <2>3. \A d \in net' : d \in net
    BY <2>2 DEF HandleReply, ClientReceives, Flight
  <2>4. UNCHANGED <<replica, saved, variant>>
    BY <2>2 DEF HandleReply, multicastVars
  <2>5. QED BY <1>2, <2>3, <2>4
<1>6. CASE \E d \in net : Lose(d)
  BY <1>2, <1>6 DEF Lose, multicastVars
<1>7. CASE \E r \in Live : \E m : HandleQuery(r, m)
  <2>1. PICK r \in Live : \E m : HandleQuery(r, m) BY <1>7
  <2>2. PICK m : HandleQuery(r, m) BY <2>1
  <2>3. \A d \in net' : d \in net \/ Answering(r, d)
    BY <2>2, HandleQueryKeeps
  <2>4. UNCHANGED <<replica, saved, variant>>
    BY <2>2 DEF HandleQuery, multicastVars
  <2>5. ASSUME NEW d \in net', Answering(r, d) PROVE CodedIn(d)
    <3>1. PICK q \in Signed : /\ Holds(replica[r], q)
                              /\ q.signature = "HalfSipHash" =>
                                    d.msg.packet.signature = "HalfSipHash"
      BY <2>5 DEF Answering
    <3>2. Coded(q) BY <1>1, <3>1 DEF AllCoded, CodedAt
    <3>3. Coded(d.msg.packet) BY <3>1, <3>2 DEF Coded
    <3>4. d.msg.kind = "QueryOk" BY <2>5, Kinds DEF Answering
    <3>5. QED BY <3>3, <3>4 DEF CodedIn
  <2>6. QED BY <1>2, <2>3, <2>4, <2>5
<1>8. CASE \E m : Sequence(m)
  <2>1. PICK m : Sequence(m) BY <1>8
  <2>2. PICK e : e = Datagram(Sequencer, m) OBVIOUS
  <2>3. PICK q : q = Request(m.client, m.num) OBVIOUS
  <2>4. PICK n : n = Len(sequenced) + 1 OBVIOUS
  <2>5. PICK sig \in Signatures(Scheme, n), gone \in {{}, {e}} :
          net' = (net \ gone) \cup UNION {SendTo(Live, Packet(n, sig, o, q)) :
                                             o \in Offsets(Scheme)}
    BY <2>1, <2>2, <2>3, <2>4, SequenceNet
  <2>6. sig = "HalfSipHash" BY DEF Signatures, Scheme
  <2>7. ASSUME NEW d \in net', d \notin net PROVE CodedIn(d)
    <3>1. PICK o \in Offsets(Scheme) : d \in SendTo(Live, Packet(n, sig, o, q))
      BY <2>5, <2>7
    <3>2. PICK p : p = Packet(n, sig, o, q) OBVIOUS
    <3>3. PICK a \in Live : d = Datagram(a, p) BY <3>1, <3>2 DEF SendTo
    <3>4. d.msg = p BY <3>3 DEF Datagram
    <3>5. p.kind = "Request" /\ Coded(p) BY <2>6, <3>2 DEF Packet, Coded
    <3>6. QED BY <3>4, <3>5 DEF CodedIn
  <2>8. UNCHANGED <<replica, saved, variant>>
    BY <2>1 DEF Sequence, Process
  <2>9. QED BY <1>2, <2>7, <2>8
<1>9. CASE \E r \in Live : Passes(r)
  <2>1. PICK r \in Live : Passes(r) BY <1>9
  <2>2. PICK s, t : s = replica[r] /\ t = replica'[r] OBVIOUS
  <2>3. variant' = variant BY <2>1 DEF Passes
  <2>4. CodedAt(r) BY <1>1 DEF AllCoded
  <2>5. ASSUME NEW x, Holds(t, x) PROVE Coded(x)
    <3>1. PICK P : Gets(r, s, t, P) BY <2>1, <2>2 DEF Passes
    <3>2. CASE P = {} /\ SameRequests(s, t)
      <4>1. Holds(s, x) BY <2>5, <3>2 DEF SameRequests, Holds
      <4>2. QED BY <2>2, <2>4, <4>1 DEF CodedAt
    <3>3. CASE \E p \in Signed : Fetched(r, p) /\ Receives(s, t, p)
      <4>1. PICK p \in Signed : Fetched(r, p) /\ Receives(s, t, p) BY <3>3
      <4>2. Coded(p) BY <4>1, FetchedCoded
      <4>3. Orders(s, t, p) BY <4>1 DEF Receives
      <4>4. \A y \in s.reordering_requests \cup {p} : Coded(y)
        BY <2>2, <2>4, <4>2 DEF CodedAt, Holds
      <4>5. CASE x \in t.reordering_requests BY <4>3, <4>4, <4>5 DEF Orders
      <4>6. CASE \E k \in 1..Len(t.requests) : x = t.requests[k]
        <5>1. PICK k \in 1..Len(t.requests) : x = t.requests[k] BY <4>6
        <5>2. CASE k > Len(s.requests) BY <4>3, <4>4, <5>1, <5>2 DEF Orders
        <5>3. CASE ~(k > Len(s.requests))
          <6>1. Len(s.requests) \in Nat /\ Len(t.requests) \in Nat
            <7>1. s \in ReplicaFields /\ t \in ReplicaFields
              BY <1>1, <2>2, Known, KnownNext
            <7>2. QED BY <7>1, LenProperties DEF ReplicaFields
          <6>2. k \in 1..Len(s.requests) BY <5>3, <6>1
          <6>3. x = s.requests[k] BY <4>3, <5>1, <6>2 DEF Orders, StartsWith
          <6>4. Holds(s, x) BY <6>2, <6>3 DEF Holds
          <6>5. QED BY <2>2, <2>4, <6>4 DEF CodedAt
        <5>4. QED BY <5>2, <5>3
      <4>7. QED BY <2>5, <4>5, <4>6 DEF Holds
    <3>4. QED BY <3>1, <3>2, <3>3 DEF Gets
  <2>6. CodedAt(r)'
    <3>1. ASSUME NEW p, saved'[r] = <<p>> PROVE Coded(p)
      <4>1. CASE saved[r] = <<p>> BY <2>4, <4>1 DEF CodedAt
      <4>2. CASE Datagram(r, p) \in net
        <5>1. \E q \in Signed : saved'[r] = <<q>>
          <6>1. saved'[r] /= <<>> BY <3>1
          <6>2. QED BY <1>1, <6>1 DEF IInv, Shapes
        <5>2. p \in Signed BY <3>1, <5>1
        <5>3. Fetched(r, p) BY <4>2 DEF Fetched, Comes
        <5>4. QED BY <5>2, <5>3, FetchedCoded
      <4>3. QED BY <2>1, <3>1, <4>1, <4>2 DEF Passes
    <3>2. QED BY <2>2, <2>5, <3>1 DEF CodedAt
  <2>7. \A i \in Replicas : CodedAt(i)'
    <3>1. \A i \in Replicas : i /= r => /\ replica'[i] = replica[i]
                                        /\ saved'[i] = saved[i]
      BY <2>1 DEF Passes
    <3>2. \A i \in Replicas : CodedAt(i) BY DEF AllCoded
    <3>3. QED BY <2>6, <3>1, <3>2 DEF CodedAt
  <2>8. \A d \in net' : CodedIn(d)'
    <3>1. PICK N : N = CommitReplies(r, t, t.app, Len(s.app) + 1, Len(t.app))
      OBVIOUS
    <3>2. ~confirm BY DEF confirm
    <3>3. \A d \in net' : d \in net \/ d.msg \in Asks \/ d \in N
      BY <2>1, <2>2, <3>1, <3>2 DEF Passes
    <3>4. \A d \in N : d.msg.kind = "Reply"
      BY <3>1 DEF CommitReplies, CommitReply, Datagram, ReplyMsg
    <3>5. \A d \in net' : d \in net \/ d.msg.kind \in {"Query", "Reply"}
      BY <3>3, <3>4, Kinds
    <3>6. QED BY <3>5 DEF AllCoded, CodedIn
  <2>9. QED BY <2>3, <2>7, <2>8 DEF AllCoded
<1>10. QED BY <1>3, <1>4, <1>5, <1>6, <1>7, <1>8, <1>9, StepIs
-----------------------------------------------------------------------------
(* Each reply is accounted for                                             *)

\* The reply x answers what its replica executed for client c.
Stands(c, x) ==
    \E n \in 1..Len(replica[x.replica].app) :
        /\ replica[x.replica].app[n] = Request(c, x.num) /\ x.digest = n
        /\ x.result = Result(SubSeq(replica[x.replica].app, 1, n))

\* Client c has the reply of r to its k-th request, or it is in flight.
Replied(c, r, k) ==
    \E x : /\ x.replica = r /\ x.num = k
           /\ x \in replies[c] \/ Datagram(c, x) \in net

\* The k-th request of client c is in flight, or numbered.
Asked(c, k) ==
    \/ Datagram(Sequencer, RequestMsg(c, k)) \in net
    \/ \E n \in 1..Len(sequenced) : sequenced[n] = Request(c, k)

\* Client c waits for replies to its last request.
Owed(c) ==
    /\ Cardinality(replies[c]) < Cardinality(Replicas) - NumFaulty
    /\ Asked(c, request_num[c])
    /\ \A r \in Live : \A n \in 1..Len(replica[r].app) :
          replica[r].app[n] = Request(c, request_num[c])
             => Replied(c, r, request_num[c])

ReplyInv ==
    ~confirm => \A c \in Clients :
        /\ \A x : x \in replies[c] \/ Datagram(c, x) \in net => Stands(c, x)
        /\ invoke[c] => Owed(c)

\* The replies of a client are replies.
LEMMA RepliesType ==
  ASSUME IInv, NEW c \in Clients, NEW x,
         x \in replies[c] \/ Datagram(c, x) \in net
  PROVE  x \in Replies /\ x.replica \in Replicas
<1>1. CASE x \in replies[c]
  <2>1. x \in Replies BY <1>1 DEF IInv, ClientInv
  <2>2. QED BY <2>1, LiveAssumption DEF Replies
<1>2. CASE Datagram(c, x) \in net
  <2>1. PICK d : d = Datagram(c, x) OBVIOUS
  <2>2. d.to = c /\ d.msg = x BY <2>1 DEF Datagram
  <2>3. NetInv(d) BY <1>2, <2>1 DEF IInv
  <2>4. c \notin Live /\ c /= Sequencer
    BY SequencerAssumption, LiveAssumption, ClientsAssumption
  <2>5. x \in Replies BY <2>2, <2>3, <2>4 DEF NetInv
  <2>6. QED BY <2>5, LiveAssumption DEF Replies
<1>3. QED BY <1>1, <1>2

\* A reply goes on standing while the logs grow.
LEMMA StandsStays ==
  ASSUME NEW c, NEW x, Stands(c, x),
         replica[x.replica].app \in Seq(Requests),
         replica'[x.replica].app \in Seq(Requests),
         StartsWith(replica'[x.replica].app, replica[x.replica].app)
  PROVE  Stands(c, x)'
<1>1. PICK a, b : a = replica[x.replica].app /\ b = replica'[x.replica].app
  OBVIOUS
<1>2. a \in Seq(Requests) /\ b \in Seq(Requests) /\ StartsWith(b, a) BY <1>1
<1>3. PICK n \in 1..Len(a) : /\ a[n] = Request(c, x.num) /\ x.digest = n
                             /\ x.result = Result(SubSeq(a, 1, n))
  BY <1>1 DEF Stands
<1>4. Len(a) \in Nat /\ Len(b) \in Nat /\ Len(a) <= Len(b)
  BY <1>2, LenProperties DEF StartsWith
<1>5. n \in 0..Len(a) /\ n \in 1..Len(b) BY <1>4
<1>6. SubSeq(b, 1, n) = SubSeq(a, 1, n) BY <1>2, <1>5, FirstStays
<1>7. b[n] = a[n] BY <1>2 DEF StartsWith
<1>8. QED BY <1>1, <1>3, <1>5, <1>6, <1>7 DEF Stands

\* Two replies to one request agree.
LEMMA SameAnswer ==
  ASSUME IInv, SInv, NEW c, NEW x, NEW y, Stands(c, x), Stands(c, y),
         x.replica \in Replicas, y.replica \in Replicas, x.num = y.num
  PROVE  x.digest = y.digest /\ x.result = y.result
<1>1. PICK a, b : a = replica[x.replica].app /\ b = replica[y.replica].app
  OBVIOUS
<1>2. PICK n \in 1..Len(a) : /\ a[n] = Request(c, x.num) /\ x.digest = n
                             /\ x.result = Result(SubSeq(a, 1, n))
  BY <1>1 DEF Stands
<1>3. PICK m \in 1..Len(b) : /\ b[m] = Request(c, y.num) /\ y.digest = m
                             /\ y.result = Result(SubSeq(b, 1, m))
  BY <1>1 DEF Stands
<1>4. PICK q : q = sequenced OBVIOUS
<1>5. /\ q \in Seq(Requests) /\ a \in Seq(Requests) /\ b \in Seq(Requests)
      /\ StartsWith(q, a) /\ StartsWith(q, b)
  <2>1. Prefixed(replica, sequenced) BY AppsPrefixed
  <2>2. sequenced \in Seq(Requests) BY DEF IInv, Shapes
  <2>3. QED BY <1>1, <1>4, <2>1, <2>2 DEF Prefixed, StartsWith
<1>6. q[n] = a[n] /\ q[m] = b[m] BY <1>5 DEF StartsWith
<1>7. /\ Len(a) \in Nat /\ Len(b) \in Nat /\ Len(q) \in Nat
      /\ Len(a) <= Len(q) /\ Len(b) <= Len(q)
  BY <1>5, LenProperties DEF StartsWith
<1>8. n \in 1..Len(q) /\ m \in 1..Len(q) BY <1>7
<1>9. n = m BY <1>2, <1>3, <1>4, <1>6, <1>8 DEF SInv, SeqInv, Distinct
<1>10. n \in 0..Len(a) /\ m \in 0..Len(b) BY <1>7
<1>11. SubSeq(q, 1, n) = SubSeq(a, 1, n) BY <1>5, <1>10, FirstStays
<1>12. SubSeq(q, 1, m) = SubSeq(b, 1, m) BY <1>5, <1>10, FirstStays
<1>13. QED BY <1>2, <1>3, <1>9, <1>11, <1>12

\* What executed operation n is answered with.
LEMMA ReplyIs ==
  ASSUME NEW t \in ReplicaFields, Executing(t), InOrder(t),
         NEW r, NEW n \in 1..Len(t.app)
  PROVE  /\ CommitReply(r, t, t.app, n)
              = Datagram(t.app[n].client,
                         ReplyMsg(t.app[n].num, Result(SubSeq(t.app, 1, n)), n, r))
         /\ t.app[n] \in Requests
<1>1. t.app \in Seq(Requests) /\ t.requests \in Seq(Signed)
  BY DEF ReplicaFields
<1>2. Len(t.app) \in Nat /\ Len(t.requests) \in Nat BY <1>1, LenProperties
<1>3. n \in 1..Len(t.requests) BY <1>2 DEF Executing
<1>4. t.app[n] = t.requests[n].request BY DEF Executing
<1>5. t.requests[n].seq_num = n BY <1>3 DEF InOrder
<1>6. t.app[n] \in Requests BY <1>1, ElementOfSeq
<1>7. QED BY <1>4, <1>5, <1>6 DEF CommitReply

\* What is in flight to clients and to the sequencer is all that matters.
LEMMA IdleReplies ==
  ASSUME ReplyInv, UNCHANGED <<clientVars, replica, variant>>,
         \A c \in Clients : \A x : Datagram(c, x) \in net <=> Datagram(c, x) \in net',
         \A c \in Clients : \A k : Asked(c, k) => Asked(c, k)'
  PROVE  ReplyInv'
<1>1. SUFFICES ASSUME ~confirm, NEW c \in Clients
               PROVE  /\ \A x : x \in replies'[c] \/ Datagram(c, x) \in net'
                                   => Stands(c, x)'
                      /\ invoke'[c] => Owed(c)'
  BY DEF ReplyInv, confirm
<1>2. /\ \A x : x \in replies[c] \/ Datagram(c, x) \in net => Stands(c, x)
      /\ invoke[c] => Owed(c)
  BY <1>1 DEF ReplyInv
<1>3. /\ request_num' = request_num /\ invoke' = invoke
      /\ replies' = replies /\ replica' = replica
  BY DEF clientVars
<1>4. \A x : Stands(c, x) => Stands(c, x)' BY <1>3 DEF Stands
<1>5. \A r, k : Replied(c, r, k) => Replied(c, r, k)' BY <1>3 DEF Replied
<1>6. Owed(c) => Owed(c)' BY <1>3, <1>5 DEF Owed
<1>7. QED BY <1>2, <1>3, <1>4, <1>6

\* A client starts an invocation.
LEMMA InvokeReplies ==
  ASSUME IInv, SInv, ReplyInv, NEW c \in Clients, Invoke(c)
  PROVE  ReplyInv'
<1>1. PICK k : k = request_num[c] + 1 OBVIOUS
<1>2. /\ replica' = replica /\ variant' = variant /\ sequenced' = sequenced
      /\ request_num' = [request_num EXCEPT ![c] = k]
      /\ invoke' = [invoke EXCEPT ![c] = TRUE]
      /\ replies' = [replies EXCEPT ![c] = {}]
      /\ net' = net \cup SendTo({Sequencer}, RequestMsg(c, k))
  BY <1>1 DEF Invoke, ClientInvoke, ClientSends, multicastVars
<1>3. /\ DOMAIN request_num = Clients /\ DOMAIN invoke = Clients
      /\ DOMAIN replies = Clients /\ request_num[c] \in Nat
  BY DEF IInv, Shapes, ClientInv
<1>4. Sequencer \notin Clients /\ Sequencer \notin Live
  BY SequencerAssumption, LiveAssumption
<1>5. PICK e : e = Datagram(Sequencer, RequestMsg(c, k)) OBVIOUS
<1>6. net' = net \cup {e} BY <1>2, <1>5 DEF SendTo
<1>7. e.to = Sequencer BY <1>5 DEF Datagram
<1>8. \A b \in Clients : \A x : Datagram(b, x) \in net <=> Datagram(b, x) \in net'
  <2>1. \A b \in Clients : \A x : Datagram(b, x) /= e
    BY <1>4, <1>7 DEF Datagram
  <2>2. QED BY <1>6, <2>1
<1>9. SUFFICES ASSUME ~confirm, NEW b \in Clients
               PROVE  /\ \A x : x \in replies'[b] \/ Datagram(b, x) \in net'
                                   => Stands(b, x)'
                      /\ invoke'[b] => Owed(b)'
  BY <1>2 DEF ReplyInv, confirm
<1>10. /\ \A x : x \in replies[b] \/ Datagram(b, x) \in net => Stands(b, x)
       /\ invoke[b] => Owed(b)
  BY <1>9 DEF ReplyInv
<1>11. \A x : Stands(b, x) => Stands(b, x)' BY <1>2 DEF Stands
<1>12. CASE b = c
  <2>1. replies'[b] = {} /\ request_num'[b] = k BY <1>2, <1>3, <1>12
  <2>2. \A x : x \in replies'[b] \/ Datagram(b, x) \in net' => Stands(b, x)'
    BY <1>8, <1>10, <1>11, <2>1
  <2>3. Cardinality(replies'[b]) < Cardinality(Replicas) - NumFaulty
    <3>1. Cardinality({}) = 0 BY FS_EmptySet
    <3>2. Cardinality(Replicas) \in Nat
      BY ReplicasAssumption, FS_CardinalityType
    <3>3. QED BY <2>1, <3>1, <3>2, ReplicasAssumption
  <2>4. Asked(b, k)' BY <1>5, <1>6, <1>12 DEF Asked
  <2>5. ASSUME NEW r \in Live, NEW n \in 1..Len(replica[r].app)
        PROVE  replica[r].app[n] /= Request(b, k)
    <3>1. PICK a : a = replica[r].app OBVIOUS
    <3>2. /\ a \in Seq(Requests) /\ Len(a) <= Len(sequenced)
          /\ a[n] = sequenced[n]
      BY <2>5, <3>1, AppsPrefixed, LiveAssumption DEF Prefixed
    <3>3. Len(a) \in Nat /\ Len(sequenced) \in Nat
      BY <3>2, LenProperties DEF IInv, Shapes
    <3>4. n \in 1..Len(sequenced) BY <2>5, <3>1, <3>2, <3>3
    <3>5. a[n].num <= request_num[a[n].client]
      BY <3>2, <3>4 DEF SInv, SeqInv, Invoked
    <3>6. a[n] = Request(b, k) => k <= request_num[c]
      BY <1>12, <3>5 DEF Request
    <3>7. QED BY <1>1, <1>3, <3>1, <3>6
  <2>6. Owed(b)' BY <1>2, <2>1, <2>3, <2>4, <2>5 DEF Owed
  <2>7. QED BY <2>2, <2>6
<1>13. CASE b /= c
  <2>1. /\ replies'[b] = replies[b] /\ request_num'[b] = request_num[b]
        /\ invoke'[b] = invoke[b]
    BY <1>2, <1>3, <1>13
  <2>2. \A r, j : Replied(b, r, j) => Replied(b, r, j)'
    BY <1>6, <2>1 DEF Replied
  <2>3. \A j : Asked(b, j) => Asked(b, j)' BY <1>2, <1>6 DEF Asked
  <2>4. Owed(b) => Owed(b)' BY <1>2, <2>1, <2>2, <2>3 DEF Owed
  <2>5. QED BY <1>8, <1>10, <1>11, <2>1, <2>4
<1>14. QED BY <1>12, <1>13

\* A client collects replies until enough agree, as all do.
LEMMA HandleReplyReplies ==
  ASSUME IInv, SInv, ReplyInv, NEW c \in Clients, NEW m, HandleReply(c, m)
  PROVE  ReplyInv'
<1>1. /\ replica' = replica /\ variant' = variant /\ sequenced' = sequenced
      /\ request_num' = request_num
  BY DEF HandleReply, multicastVars, clientVars
<1>2. PICK e : e = Datagram(c, m) OBVIOUS
<1>3. e \in net /\ e.to = c /\ e.msg = m /\ (net' = net \ {e} \/ net' = net)
  <2>1. net' = (net \ {e}) \cup {} \/ net' = net \cup {}
    BY <1>2 DEF HandleReply, ClientReceives, Flight
  <2>2. QED BY <1>2, <2>1 DEF HandleReply, ClientReceives, Datagram
<1>4. Sequencer \notin Clients BY SequencerAssumption
<1>5. /\ DOMAIN request_num = Clients /\ DOMAIN invoke = Clients
      /\ DOMAIN replies = Clients
  BY DEF IInv, Shapes
<1>6. \A b, k : Asked(b, k) => Asked(b, k)'
  <2>1. \A x : Datagram(Sequencer, x) /= e BY <1>3, <1>4 DEF Datagram
  <2>2. QED BY <1>1, <1>3, <2>1 DEF Asked
<1>7. \A b, x : Stands(b, x) => Stands(b, x)' BY <1>1 DEF Stands
<1>8. \A b, x : Datagram(b, x) \in net' => Datagram(b, x) \in net BY <1>3
<1>9. \A b, x : Datagram(b, x) \in net =>
                   Datagram(b, x) \in net' \/ (b = c /\ x = m)
  BY <1>3 DEF Datagram
<1>10. PICK T : T = Inserted(c, m) OBVIOUS
<1>11. \A x \in T : x = m \/ x \in replies[c] BY <1>10 DEF Inserted
<1>12. SUFFICES ASSUME ~confirm, NEW b \in Clients
                PROVE  /\ \A x : x \in replies'[b] \/ Datagram(b, x) \in net'
                                    => Stands(b, x)'
                       /\ invoke'[b] => Owed(b)'
  BY <1>1 DEF ReplyInv, confirm
<1>13. /\ \A x : x \in replies[b] \/ Datagram(b, x) \in net => Stands(b, x)
       /\ invoke[b] => Owed(b)
  BY <1>12 DEF ReplyInv
<1>14. CASE replies'[b] = replies[b] /\ invoke'[b] = invoke[b]
            /\ (b = c => ~Expected(c, m))
  <2>1. invoke[b] => \A r : Replied(b, r, request_num[b])
                               => Replied(b, r, request_num[b])'
    BY <1>1, <1>9, <1>14 DEF Replied, Expected
  <2>2. invoke[b] /\ Owed(b) => Owed(b)'
    BY <1>1, <1>6, <1>14, <2>1 DEF Owed
  <2>3. QED BY <1>7, <1>8, <1>13, <1>14, <2>2
<1>15. CASE UNCHANGED clientVars /\ ~Expected(c, m)
  BY <1>14, <1>15 DEF clientVars
<1>16. CASE /\ Expected(c, m)
            /\ invoke' = [invoke EXCEPT ![c] = FALSE]
            /\ replies' = [replies EXCEPT ![c] = {}]
  <2>1. CASE b = c
    <3>1. replies'[b] = {} /\ invoke'[b] = FALSE BY <1>5, <1>16, <2>1
    <3>2. QED BY <1>7, <1>8, <1>13, <3>1
  <2>2. CASE b /= c BY <1>5, <1>14, <1>16, <2>2
  <2>3. QED BY <2>1, <2>2
<1>17. CASE /\ Expected(c, m) /\ ~Complete(c, m)
            /\ replies' = [replies EXCEPT ![c] = T] /\ invoke' = invoke
  <2>1. CASE b = c
    <3>1. replies'[c] = T /\ invoke[c] /\ m.num = request_num[c]
      BY <1>5, <1>17 DEF Expected
    <3>2. \A x \in T : Stands(c, x)
      BY <1>2, <1>3, <1>11, <1>13, <2>1
    <3>3. \A x \in T : x.num = m.num /\ x.replica \in Replicas
      <4>1. \A x \in replies[c] : x.num = request_num[c]
        BY DEF IInv, ClientInv
      <4>2. \A x \in T : x.replica \in Replicas
        BY <1>2, <1>3, <1>11, RepliesType
      <4>3. QED BY <1>11, <3>1, <4>1, <4>2
    <3>4. m \in T BY <1>10 DEF Inserted
    <3>5. \A x \in T : x.digest = m.digest /\ x.result = m.result
      BY <3>2, <3>3, <3>4, SameAnswer
    <3>6. Matching(c, m) = T BY <1>10, <3>5 DEF Matching
    <3>7. Cardinality(T) < Cardinality(Replicas) - NumFaulty
      <4>1. ~(Cardinality(T) >= Cardinality(Replicas) - NumFaulty)
        BY <1>17, <3>6 DEF Complete
      <4>2. Cardinality(T) \in Nat
        <5>1. IsFiniteSet(T)
          <6>1. IsFiniteSet(replies[c]) BY DEF IInv, ClientInv
          <6>2. PICK U : U = {x \in replies[c] : x.replica /= m.replica}
            OBVIOUS
          <6>3. U \subseteq replies[c] BY <6>2
          <6>4. IsFiniteSet(U) BY <6>1, <6>3, FS_Subset
          <6>5. T = U \cup {m} BY <1>10, <6>2 DEF Inserted
          <6>6. QED BY <6>4, <6>5, FS_AddElement
        <5>2. QED BY <5>1, FS_CardinalityType
      <4>3. Cardinality(Replicas) \in Nat
        BY ReplicasAssumption, FS_CardinalityType
      <4>4. QED BY <4>1, <4>2, <4>3, ReplicasAssumption
    <3>8. ASSUME NEW r, Replied(c, r, request_num[c])
          PROVE  Replied(c, r, request_num[c])'
      <4>1. PICK x : /\ x.replica = r /\ x.num = request_num[c]
                     /\ x \in replies[c] \/ Datagram(c, x) \in net
        BY <3>8 DEF Replied
      <4>2. CASE x.replica = m.replica
        BY <1>1, <3>1, <3>4, <4>1, <4>2 DEF Replied
      <4>3. CASE x.replica /= m.replica
        <5>1. x \in T \/ Datagram(c, x) \in net'
          BY <1>9, <1>10, <4>1, <4>3 DEF Inserted
        <5>2. QED BY <1>1, <3>1, <4>1, <5>1 DEF Replied
      <4>4. QED BY <4>2, <4>3
    <3>9. Owed(c) BY <1>13, <2>1, <3>1
    <3>10. Owed(c)' BY <1>1, <1>6, <3>1, <3>7, <3>8, <3>9 DEF Owed
    <3>11. \A x : x \in replies'[c] \/ Datagram(c, x) \in net' => Stands(c, x)'
      BY <1>7, <1>8, <1>13, <2>1, <3>1, <3>2
    <3>12. QED BY <2>1, <3>10, <3>11
  <2>2. CASE b /= c BY <1>5, <1>14, <1>17, <2>2
  <2>3. QED BY <2>1, <2>2
<1>18. QED BY <1>10, <1>15, <1>16, <1>17 DEF HandleReply

\* A packet is lost, or a Query answered: no client is concerned.
LEMMA QueryReplies ==
  ASSUME IInv, ReplyInv,
         (\E d \in net : Lose(d)) \/ \E r \in Live : \E m : HandleQuery(r, m)
  PROVE  ReplyInv'
<1>1. /\ \A r \in Live : r \notin Clients /\ r /= Sequencer
      /\ Sequencer \notin Clients
  BY LiveAssumption, ClientsAssumption, SequencerAssumption
<1>2. /\ UNCHANGED <<clientVars, replica, variant, sequenced>>
      /\ \A d \in net : d \in net' \/ d.to \in Live
      /\ \A d \in net' : d \in net \/ d.to \in Live
  <2>1. CASE \E d \in net : Lose(d) BY <2>1 DEF Lose, multicastVars
  <2>2. CASE \E r \in Live : \E m : HandleQuery(r, m)
    <3>1. PICK r \in Live : \E m : HandleQuery(r, m) BY <2>2
    <3>2. PICK m : HandleQuery(r, m) BY <3>1
    <3>3. /\ \A d \in net' : d \in net \/ Answering(r, d)
          /\ \A d \in net : d \in net' \/ d.to = r
      BY <3>2, HandleQueryKeeps
    <3>4. \A d \in net' : d \in net \/ d.to \in Live BY <3>3 DEF Answering
    <3>5. QED BY <3>2, <3>3, <3>4 DEF HandleQuery, multicastVars
  <2>3. QED BY <2>1, <2>2
<1>3. \A a, x : Datagram(a, x).to = a BY DEF Datagram
<1>4. \A c \in Clients : \A x : Datagram(c, x) \in net <=> Datagram(c, x) \in net'
  BY <1>1, <1>2, <1>3
<1>5. \A c \in Clients : \A k : Asked(c, k) => Asked(c, k)'
  BY <1>1, <1>2, <1>3 DEF Asked
<1>6. QED BY <1>2, <1>4, <1>5, IdleReplies

\* The sequencer numbers the request it takes.
LEMMA SequenceReplies ==
  ASSUME IInv, ReplyInv, NEW m, Sequence(m)
  PROVE  ReplyInv'
<1>1. /\ \A r \in Live : r \notin Clients /\ r /= Sequencer
      /\ Sequencer \notin Clients
  BY LiveAssumption, ClientsAssumption, SequencerAssumption
<1>2. PICK e : e = Datagram(Sequencer, m) OBVIOUS
<1>3. PICK q : q = Request(m.client, m.num) OBVIOUS
<1>4. PICK n : n = Len(sequenced) + 1 OBVIOUS
<1>5. PICK sig \in Signatures(Scheme, n), gone \in {{}, {e}} :
        net' = (net \ gone) \cup UNION {SendTo(Live, Packet(n, sig, o, q)) :
                                           o \in Offsets(Scheme)}
  BY <1>2, <1>3, <1>4, SequenceNet
<1>6. /\ \A d \in net : d \in net' \/ d = e
      /\ \A d \in net' : d \in net \/ d.to \in Live
  <2>1. ASSUME NEW d \in net', d \notin net PROVE d.to \in Live
    <3>1. PICK o \in Offsets(Scheme) : d \in SendTo(Live, Packet(n, sig, o, q))
      BY <1>5, <2>1
    <3>2. PICK p : p = Packet(n, sig, o, q) OBVIOUS
    <3>3. QED BY <3>1, <3>2 DEF SendTo, Datagram
  <2>2. QED BY <1>5, <2>1
<1>7. \A a, x : Datagram(a, x).to = a /\ Datagram(a, x).msg = x BY DEF Datagram
<1>8. e.to = Sequencer /\ e.msg = m BY <1>2 DEF Datagram
<1>9. \A c \in Clients : \A x : Datagram(c, x) \in net <=> Datagram(c, x) \in net'
  BY <1>1, <1>6, <1>7, <1>8
<1>10. sequenced \in Seq(Requests) /\ sequenced' = Append(sequenced, q)
  BY <1>3 DEF IInv, Shapes, Sequence, Process
<1>11. q \in Requests /\ m \in Wanted
  <2>1. e \in net BY <1>2 DEF Sequence, Process
  <2>2. NetInv(e) BY <2>1 DEF IInv
  <2>3. m \in Wanted BY <1>1, <1>8, <2>2 DEF NetInv
  <2>4. QED BY <1>3, <2>3 DEF Wanted, Request, Requests
<1>12. /\ Len(sequenced) \in Nat /\ Len(sequenced') = n /\ sequenced'[n] = q
       /\ \A k \in 1..Len(sequenced) : sequenced'[k] = sequenced[k]
  BY <1>4, <1>10, <1>11, LenProperties, AppendProperties
<1>13. ASSUME NEW c \in Clients, NEW k, Asked(c, k) PROVE Asked(c, k)'
  <2>1. CASE Datagram(Sequencer, RequestMsg(c, k)) \in net
    <3>1. CASE RequestMsg(c, k) = m
      <4>1. m.client = c /\ m.num = k BY <3>1 DEF RequestMsg
      <4>2. sequenced'[n] = Request(c, k) BY <1>3, <1>12, <4>1
      <4>3. n \in 1..Len(sequenced') BY <1>4, <1>12
      <4>4. QED BY <4>2, <4>3 DEF Asked
    <3>2. CASE RequestMsg(c, k) /= m
      <4>1. Datagram(Sequencer, RequestMsg(c, k)) /= e BY <1>7, <1>8, <3>2
      <4>2. QED BY <1>6, <2>1, <4>1 DEF Asked
    <3>3. QED BY <3>1, <3>2
  <2>2. CASE \E l \in 1..Len(sequenced) : sequenced[l] = Request(c, k)
    <3>1. \A l \in 1..Len(sequenced) : l \in 1..Len(sequenced')
      BY <1>4, <1>12
    <3>2. QED BY <1>12, <2>2, <3>1 DEF Asked
  <2>3. QED BY <1>13, <2>1, <2>2 DEF Asked
<1>14. UNCHANGED <<clientVars, replica, variant>> BY DEF Sequence
<1>15. QED BY <1>9, <1>13, <1>14, IdleReplies

\* A replica answers what it executes, and nothing else.
LEMMA PassesReplies ==
  ASSUME IInv, IInv', SInv, SInv', ReplyInv, NEW r \in Live, Passes(r), Does(r)
  PROVE  ReplyInv'
<1>1. r \in Replicas /\ r \notin Clients /\ r /= Sequencer
  BY LiveAssumption, ClientsAssumption, SequencerAssumption
<1>2. PICK s, t : s = replica[r] /\ t = replica'[r] OBVIOUS
<1>3. /\ request_num' = request_num /\ invoke' = invoke /\ replies' = replies
      /\ sequenced' = sequenced /\ variant' = variant
      /\ \A i \in Replicas : i /= r => replica'[i] = replica[i]
      /\ \A d \in net : d \in net' \/ d.to = r
  BY DEF Passes, clientVars
<1>4. /\ s \in ReplicaFields /\ t \in ReplicaFields
      /\ Executing(s) /\ Executing(t) /\ InOrder(t)
  <2>1. s \in ReplicaFields /\ t \in ReplicaFields
    BY <1>1, <1>2, Known, KnownNext
  <2>2. Executing(s) BY <1>1, <1>2, Known DEF Fit
  <2>3. Executing(t)'
    BY <1>1, <1>2 DEF IInv, ReplicaInv, Fit, Executing
  <2>4. Executing(t) BY <1>2, <1>3, <2>3 DEF Executing, confirm
  <2>5. InOrder(t) BY <1>1, <1>2, <1>3 DEF SInv, OrderInv, InOrder, Sound
  <2>6. QED BY <2>1, <2>2, <2>4, <2>5
<1>5. StartsWith(t.app, s.app)
  <2>1. PICK P : Gets(r, s, t, P) BY <1>2 DEF Passes
  <2>2. StartsWith(t.requests, s.requests)
    <3>1. CASE SameRequests(s, t)
      <4>1. t.requests = s.requests BY <3>1 DEF SameRequests
      <4>2. s.requests \in Seq(Signed) BY <1>4 DEF ReplicaFields
      <4>3. QED BY <4>1, <4>2, StartsWithSelf
    <3>2. CASE \E p \in Signed : Receives(s, t, p)
      BY <3>2 DEF Receives, Orders
    <3>3. QED BY <2>1, <3>1, <3>2 DEF Gets
  <2>3. Len(s.app) <= Len(t.app) BY <1>2 DEF Does
  <2>4. QED BY <1>4, <2>2, <2>3, AppStarts
<1>6. /\ s.app \in Seq(Requests) /\ t.app \in Seq(Requests)
      /\ Len(s.app) \in Nat /\ Len(t.app) \in Nat
      /\ \A n \in 1..Len(s.app) : n \in 1..Len(t.app) /\ t.app[n] = s.app[n]
  <2>1. s.app \in Seq(Requests) /\ t.app \in Seq(Requests)
    BY <1>4 DEF ReplicaFields
  <2>2. Len(s.app) \in Nat /\ Len(t.app) \in Nat BY <2>1, LenProperties
  <2>3. QED BY <1>5, <2>1, <2>2 DEF StartsWith
<1>7. SUFFICES ASSUME ~confirm, NEW c \in Clients
               PROVE  /\ \A x : x \in replies'[c] \/ Datagram(c, x) \in net'
                                   => Stands(c, x)'
                      /\ invoke'[c] => Owed(c)'
  BY <1>3 DEF ReplyInv, confirm
<1>8. PICK N : N = CommitReplies(r, t, t.app, Len(s.app) + 1, Len(t.app))
  OBVIOUS
<1>9. /\ \A d \in net' : d \in net \/ d.msg \in Asks \/ d \in N
      /\ \A d \in N : d \in net'
  BY <1>2, <1>7, <1>8 DEF Passes
<1>10. ASSUME NEW n \in 1..Len(t.app)
       PROVE  /\ CommitReply(r, t, t.app, n)
                   = Datagram(t.app[n].client,
                        ReplyMsg(t.app[n].num, Result(SubSeq(t.app, 1, n)), n, r))
              /\ t.app[n] \in Requests
  BY <1>4, <1>10, ReplyIs
<1>11. ASSUME NEW x, Stands(c, x), x.replica \in Replicas PROVE Stands(c, x)'
  <2>1. CASE x.replica = r
    BY <1>2, <1>5, <1>6, <1>11, <2>1, StandsStays
  <2>2. CASE x.replica /= r
    <3>1. replica'[x.replica] = replica[x.replica] BY <1>3, <1>11, <2>2
    <3>2. QED BY <1>11, <3>1 DEF Stands
  <2>3. QED BY <2>1, <2>2
<1>12. ASSUME NEW x, Datagram(c, x) \in N PROVE Stands(c, x)'
  <2>1. PICK n \in Len(s.app) + 1..Len(t.app) :
           Datagram(c, x) = CommitReply(r, t, t.app, n)
    BY <1>8, <1>12 DEF CommitReplies
  <2>2. n \in 1..Len(t.app) BY <1>6, <2>1
  <2>3. PICK q : q = t.app[n] OBVIOUS
  <2>4. PICK z : z = Result(SubSeq(t.app, 1, n)) OBVIOUS
  <2>5. /\ q \in Requests
        /\ Datagram(c, x) = Datagram(q.client, ReplyMsg(q.num, z, n, r))
    BY <1>10, <2>1, <2>2, <2>3, <2>4
  <2>6. c = q.client /\ x = ReplyMsg(q.num, z, n, r) BY <2>5 DEF Datagram
  <2>7. x.replica = r /\ x.num = q.num /\ x.digest = n /\ x.result = z
    BY <2>6 DEF ReplyMsg
  <2>8. q = Request(c, x.num) BY <2>5, <2>6, <2>7, RequestType
  <2>9. QED BY <1>2, <2>2, <2>3, <2>4, <2>7, <2>8 DEF Stands
<1>13. ASSUME NEW x, Datagram(c, x) \in net'
       PROVE  Datagram(c, x) \in net \/ Datagram(c, x) \in N
  <2>1. PICK d : d = Datagram(c, x) OBVIOUS
  <2>2. d.to = c /\ d.msg = x BY <2>1 DEF Datagram
  <2>3. c \notin Live /\ c /= Sequencer
    BY SequencerAssumption, LiveAssumption, ClientsAssumption
  <2>4. NetInv(d)' BY <1>13, <2>1 DEF IInv
  <2>5. x \in Replies BY <2>2, <2>3, <2>4 DEF NetInv
  <2>6. x \notin Asks BY <2>5, Kinds
  <2>7. QED BY <1>9, <1>13, <2>1, <2>2, <2>6
<1>14. /\ \A x : x \in replies[c] \/ Datagram(c, x) \in net => Stands(c, x)
       /\ invoke[c] => Owed(c)
  BY <1>7 DEF ReplyInv
<1>15. ASSUME NEW x, x \in replies'[c] \/ Datagram(c, x) \in net'
       PROVE  Stands(c, x)'
  <2>1. CASE x \in replies[c] \/ Datagram(c, x) \in net
    <3>1. x.replica \in Replicas BY <2>1, RepliesType
    <3>2. QED BY <1>11, <1>14, <2>1, <3>1
  <2>2. CASE Datagram(c, x) \in N BY <1>12, <2>2
  <2>3. QED BY <1>3, <1>13, <1>15, <2>1, <2>2
<1>16. ASSUME invoke[c] PROVE Owed(c)'
  <2>1. PICK k : k = request_num[c] OBVIOUS
  <2>2. \A a, x : Datagram(a, x).to = a BY DEF Datagram
  <2>3. Asked(c, k)'
    BY <1>1, <1>3, <1>14, <1>16, <2>1, <2>2 DEF Owed, Asked
  <2>4. \A i : Replied(c, i, k) => Replied(c, i, k)'
    BY <1>1, <1>3, <2>2 DEF Replied
  <2>5. ASSUME NEW i \in Live, NEW n \in 1..Len(replica'[i].app),
               replica'[i].app[n] = Request(c, k)
        PROVE  Replied(c, i, k)'
    <3>1. i \in Replicas BY LiveAssumption
    <3>2. CASE i /= r
      BY <1>3, <1>14, <1>16, <2>1, <2>4, <2>5, <3>1, <3>2 DEF Owed
    <3>3. CASE i = r /\ n \in 1..Len(s.app)
      BY <1>2, <1>6, <1>14, <1>16, <2>1, <2>4, <2>5, <3>3 DEF Owed
    <3>4. CASE i = r /\ n \notin 1..Len(s.app)
      <4>1. n \in Len(s.app) + 1..Len(t.app)
        BY <1>2, <1>6, <2>5, <3>4
      <4>2. n \in 1..Len(t.app) /\ t.app[n] = Request(c, k)
        BY <1>2, <2>5, <3>4
      <4>3. PICK x : x = ReplyMsg(k, Result(SubSeq(t.app, 1, n)), n, r) OBVIOUS
      <4>4. t.app[n].client = c /\ t.app[n].num = k BY <4>2 DEF Request
      <4>5. CommitReply(r, t, t.app, n) = Datagram(c, x)
        BY <1>10, <4>2, <4>3, <4>4
      <4>6. Datagram(c, x) \in N BY <1>8, <4>1, <4>5 DEF CommitReplies
      <4>7. Datagram(c, x) \in net' BY <1>9, <4>6
      <4>8. x.replica = r /\ x.num = k BY <4>3 DEF ReplyMsg
      <4>9. QED BY <3>4, <4>7, <4>8 DEF Replied
    <3>5. QED BY <3>2, <3>3, <3>4
  <2>6. QED BY <1>3, <1>14, <1>16, <2>1, <2>3, <2>5 DEF Owed
<1>17. QED BY <1>3, <1>15, <1>16

\* What the clients know of the replies stays true.
LEMMA ReplyNext ==
  ASSUME IInv, IInv', SInv, SInv', ReplyInv, [Next]_vars
  PROVE  ReplyInv'
<1>1. CASE UNCHANGED vars
  <2>1. UNCHANGED <<clientVars, replica, variant, net, sequenced>>
    BY <1>1 DEF vars, netVars, multicastVars
  <2>2. \A c, k : Asked(c, k) => Asked(c, k)' BY <2>1 DEF Asked
  <2>3. QED BY <2>1, <2>2, IdleReplies
<1>2. CASE \E c \in Clients : Invoke(c) BY <1>2, InvokeReplies
<1>3. CASE \E c \in Clients : \E m : HandleReply(c, m)
  BY <1>3, HandleReplyReplies
<1>4. CASE \E m : Sequence(m) BY <1>4, SequenceReplies
<1>5. CASE (\E d \in net : Lose(d)) \/ \E r \in Live : \E m : HandleQuery(r, m)
  BY <1>5, QueryReplies
<1>6. CASE \E r \in Live : Passes(r) /\ Does(r) BY <1>6, PassesReplies
<1>7. QED BY <1>1, <1>2, <1>3, <1>4, <1>5, <1>6, StepIs

\* At the start nothing was sent.
LEMMA InitAccounts ==
  ASSUME Init
  PROVE  PacketInv /\ ReplyInv
<1>1. /\ net = {} /\ sequenced = <<>> /\ lost = 0
      /\ saved = [r \in Replicas |-> <<>>]
      /\ replica = [r \in Replicas |-> NewReplica]
      /\ invoke = [c \in Clients |-> FALSE]
      /\ replies = [c \in Clients |-> {}]
  BY DEF Init, Init_Multiplex, Init_OrderedMulticast, Init_Client
<1>2. Len(sequenced) = 0 BY <1>1
<1>3. \A r \in Replicas : /\ replica[r].requests = <<>>
                          /\ replica[r].reordering_requests = {}
  BY <1>1 DEF NewReplica
<1>4. \A r \in Replicas : 1..Len(replica[r].requests) = {}
  <2>1. \A r \in Replicas : Len(replica[r].requests) = 0 BY <1>3
  <2>2. QED BY <2>1
<1>5. Accounted BY <1>2 DEF Accounted
<1>6. \A r \in Replicas : Marked(replica[r]) BY <1>4 DEF Marked
<1>7. AllCoded
  <2>1. \A r \in Replicas : \A p : saved[r] /= <<p>> BY <1>1
  <2>2. \A r \in Replicas : \A p : ~Holds(replica[r], p)
    BY <1>3, <1>4 DEF Holds
  <2>3. QED BY <1>1, <2>1, <2>2 DEF AllCoded, CodedAt
<1>8. PacketInv BY <1>1, <1>5, <1>6, <1>7 DEF PacketInv
<1>9. ReplyInv BY <1>1 DEF ReplyInv
<1>10. QED BY <1>8, <1>9

\* Packets and replies are followed in every step.
LEMMA AccountsNext ==
  ASSUME IInv, IInv', SInv, SInv', Deployed, PacketInv, ReplyInv, [Next]_vars
  PROVE  PacketInv' /\ ReplyInv'
<1>1. lost' \in Nat /\ (lost' = 0 => Accounted')
  BY AccountedNext DEF PacketInv
<1>2. \A r \in Replicas : Marked(replica'[r])
  BY MarkedNext DEF PacketInv
<1>3. variant' = "neo-hm" => AllCoded'
  <2>1. ASSUME NEW r \in Live, Passes(r) PROVE variant' = variant
    BY <2>1 DEF Passes
  <2>2. variant' = variant
    BY <2>1, StepIs DEF vars, Invoke, HandleReply, Sequence, Lose, HandleQuery
  <2>3. QED BY <2>2, CodedNext DEF PacketInv
<1>4. ReplyInv' BY ReplyNext
<1>5. QED BY <1>1, <1>2, <1>3, <1>4 DEF PacketInv

\* When nothing is in flight or held back, a replica has ordered everything.
LEMMA QuietOrders ==
  ASSUME Deployed, IInv, SInv, PacketInv, lost = 0, Quiescent, NEW r \in Live
  PROVE  /\ Len(replica[r].requests) = Len(sequenced)
         /\ Len(sequenced) \in Nat
<1>1. r \in Replicas BY LiveAssumption
<1>2. PICK s : s = replica[r] OBVIOUS
<1>3. sequenced \in Seq(Requests) /\ Len(sequenced) < U32
  BY NumberedFits DEF IInv, Shapes
<1>4. s \in ReplicaFields /\ Gapped(s) /\ InOrder(s)
  BY <1>1, <1>2, Known DEF Fit, SInv, OrderInv
<1>5. PICK a, b : a = Len(s.requests) /\ b = Len(sequenced) OBVIOUS
<1>6. a \in Nat /\ b \in Nat /\ a <= b BY <1>3, <1>4, <1>5, InOrderRequests
<1>7. SUFFICES ASSUME a < b PROVE FALSE BY <1>2, <1>5, <1>6
<1>8. a + 1 \in 1..b BY <1>6, <1>7
<1>9. Underway(r, a + 1) \/ Taken(s, a + 1)
  BY <1>2, <1>5, <1>8 DEF PacketInv, Accounted
<1>10. ~Underway(r, a + 1)
  <2>1. net = {} /\ saved[r] = <<>> BY DEF Quiescent
  <2>2. \A p : saved[r] /= <<p>> BY <2>1
  <2>3. QED BY <2>1, <2>2 DEF Underway
<1>11. ~(a + 1 <= a) BY <1>6
<1>12. PICK x \in s.reordering_requests : x.seq_num = a + 1
  BY <1>5, <1>9, <1>10, <1>11 DEF Taken
<1>13. x.seq_num > a + 1 BY <1>3, <1>4, <1>5, ParkedAbove
<1>14. QED BY <1>6, <1>12, <1>13

\* Without confirms it has executed all up to the last one it has verified.
LEMMA QuietExecutes ==
  ASSUME Deployed, IInv, SInv, PacketInv, lost = 0, Quiescent, ~confirm,
         NEW r \in Live, NEW k \in 1..Len(sequenced),
         verified(replica[r].requests[k])
  PROVE  k <= Len(replica[r].app)
<1>1. r \in Replicas BY LiveAssumption
<1>2. PICK s : s = replica[r] OBVIOUS
<1>3. Executing(s) BY <1>1, <1>2, Known DEF Fit
<1>4. s.panicked /= "digest"
  <2>1. Fine(s) BY <1>1, <1>2 DEF SInv, OrderInv
  <2>2. QED BY <2>1 DEF Fine
<1>5. Len(s.app) = s.verified_num BY <1>3, <1>4 DEF Executing
<1>6. k \in 1..Len(s.requests) BY <1>2, QuietOrders
<1>7. k <= s.verified_num BY <1>1, <1>2, <1>6 DEF PacketInv, Marked
<1>8. QED BY <1>2, <1>5, <1>7

\* In neo-hm no client waits then, for every replica has answered it.
LEMMA QuietAnswers ==
  ASSUME Deployed, Cardinality(Live) = Cardinality(Replicas) - NumFaulty,
         IInv, SInv, PacketInv, ReplyInv, lost = 0, Quiescent,
         variant = "neo-hm", NEW c \in Clients
  PROVE  ~invoke[c]
<1>1. ~confirm BY DEF confirm
<1>2. SUFFICES ASSUME invoke[c] PROVE FALSE OBVIOUS
<1>3. PICK k : k = request_num[c] OBVIOUS
<1>4. Owed(c) BY <1>1, <1>2 DEF ReplyInv
<1>5. net = {} BY DEF Quiescent
<1>6. PICK n \in 1..Len(sequenced) : sequenced[n] = Request(c, k)
  BY <1>3, <1>4, <1>5 DEF Owed, Asked
<1>7. ASSUME NEW r \in Live PROVE \E x \in replies[c] : x.replica = r
  <2>1. r \in Replicas BY LiveAssumption
  <2>2. PICK s : s = replica[r] OBVIOUS
  <2>3. n \in 1..Len(s.requests) BY <2>2, QuietOrders
  <2>4. Holds(s, s.requests[n]) BY <2>3 DEF Holds
  <2>5. CodedAt(r) BY <2>1 DEF PacketInv, AllCoded
  <2>6. Coded(s.requests[n]) BY <2>2, <2>4, <2>5 DEF CodedAt
  <2>7. verified(s.requests[n]) BY <2>6 DEF Coded, verified
  <2>8. n <= Len(s.app) BY <1>1, <2>2, <2>7, QuietExecutes
  <2>9. s.app \in Seq(Requests) BY <2>1, <2>2, Known
  <2>10. Len(s.app) \in Nat /\ Len(sequenced) \in Nat
    BY <2>9, LenProperties DEF IInv, Shapes
  <2>11. n \in 1..Len(s.app) BY <2>8, <2>10
  <2>12. s.app[n] = Request(c, k)
    BY <1>6, <2>1, <2>2, <2>11, AppsPrefixed DEF Prefixed
  <2>13. Replied(c, r, k) BY <1>3, <1>4, <2>2, <2>11, <2>12 DEF Owed
  <2>14. QED BY <1>5, <2>13 DEF Replied
<1>8. PICK f : f = [r \in Live |-> CHOOSE x \in replies[c] : x.replica = r]
  OBVIOUS
<1>9. \A r \in Live : f[r] \in replies[c] /\ f[r].replica = r BY <1>7, <1>8
<1>10. f \in Injection(Live, replies[c])
  <2>1. f \in [Live -> replies[c]] BY <1>8, <1>9
  <2>2. \A q, r \in Live : f[q] = f[r] => q = r BY <1>9
  <2>3. QED BY <2>1, <2>2 DEF Injection, IsInjective
<1>11. IsFiniteSet(replies[c]) BY DEF IInv, ClientInv
<1>12. Cardinality(Live) <= Cardinality(replies[c])
  BY <1>10, <1>11, FS_Injection
<1>13. Cardinality(replies[c]) < Cardinality(Replicas) - NumFaulty
  BY <1>4 DEF Owed
<1>14. /\ Cardinality(replies[c]) \in Nat /\ Cardinality(Replicas) \in Nat
       /\ NumFaulty \in Nat
  BY <1>11, ReplicasAssumption, FS_CardinalityType
<1>15. QED BY <1>12, <1>13, <1>14

\* When no packet was lost, the sequencer got no request twice and nothing can
\* move any more, every replica has ordered all requests, has executed those up
\* to the last verified one, and in neo-hm no client waits: nothing that the
\* delegate held back, that waited behind a gap or for the answer to a Query,
\* is forgotten, whatever packets, Queries, answers and replies came twice.
THEOREM ForgetsNothing ==
  ASSUME Deployed, Cardinality(Live) = Cardinality(Replicas) - NumFaulty
  PROVE  Spec /\ [][NumbersOnce]_vars => []NothingForgotten
<1>1. Init => PacketInv /\ ReplyInv BY InitAccounts
<1>2. IInv /\ IInv' /\ SInv /\ SInv' /\ PacketInv /\ ReplyInv /\ [Next]_vars
         => PacketInv' /\ ReplyInv'
  BY AccountsNext
<1>3. ASSUME IInv, SInv, PacketInv, ReplyInv, lost = 0, Quiescent
      PROVE  /\ \A r \in Live :
                   /\ ordered_num(replica[r]) = Len(sequenced)
                   /\ \A k \in 1..Len(sequenced) :
                         ~confirm /\ verified(replica[r].requests[k])
                             => k <= Len(replica[r].app)
             /\ variant = "neo-hm" => \A c \in Clients : ~invoke[c]
  BY <1>3, QuietOrders, QuietExecutes, QuietAnswers DEF ordered_num
<1>4. IInv /\ SInv /\ PacketInv /\ ReplyInv => NothingForgotten
  BY <1>3 DEF NothingForgotten
<1>5. QED
  BY <1>1, <1>2, <1>4, Invariance, OrderInvariance, PTL DEF Spec
=============================================================================
