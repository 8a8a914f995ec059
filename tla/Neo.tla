-------------------------------- MODULE Neo --------------------------------
(***************************************************************************)
(* NeoBFT (crates/permissioned-blockchain/src/neo.rs) on the ordered       *)
(* multicast: a replica puts the sequencer's packets back into order, asks *)
(* the others for those it misses, and executes a request once it is       *)
(* verified (neo-hm, neo-pk) or once n - f replicas confirmed it (neo-bn). *)
(*                                                                         *)
(* A handler calls itself through several levels (handle_request,          *)
(* do_confirm1, do_confirm2, do_update_confirm_num, do_commit), so a       *)
(* replica's state is a record and each level a function on it; `out`      *)
(* collects what the handler sends.  replies is consulted by do_commit but *)
(* never written, so it holds nothing and is left out.                     *)
(***************************************************************************)
EXTENDS OrderedMulticast

CONSTANTS Variants,       \* the modes considered: neo-hm, neo-pk, neo-bn
          QueryThreshold, \* Replica::QUERY_THRESHOLD
          MaxLoss         \* BOUND: lost multicast packets

ASSUME VariantsAssumption == Variants \subseteq {"neo-hm", "neo-pk", "neo-bn"}
ASSUME QueryAssumption == QueryThreshold \in Nat \ {0}
ASSUME MaxLossAssumption == MaxLoss \in Nat

VARIABLES variant, \* the mode all replicas are started in
          replica, \* Replica: its fields, see NewReplica
          lost     \* multicast packets lost so far

vars == <<netVars, clientVars, multicastVars, variant, replica, lost>>

confirm == variant = "neo-bn"
Scheme == IF variant = "neo-hm" THEN "HalfSipHash" ELSE "K256"

ConfirmMsg(i, first, last, qs) ==
    [kind |-> "Confirm", replica |-> i, start |-> first, end |-> last,
     digest |-> qs]
QueryMsg(i, n) == [kind |-> "Query", replica |-> i, op_num |-> n]
QueryOkMsg(n, p) == [kind |-> "QueryOk", op_num |-> n, packet |-> p]

\* BOUND: stands for the 2^32 of the operation numbers' arithmetic.
U32 == 65536

\* requests holds what is ordered, so ordered_num is its length.
NewReplica ==
    [seq_num_offset |-> 0,  \* 0 is None
     reordering_requests |-> {}, requests |-> <<>>, verified_num |-> 0,
     confirmed_num |-> 0, local_confirmed_num |-> 0,
     remote_confirmed_nums |-> [i \in Replicas |-> 0],
     reordering_confirms1 |-> {}, reordering_confirms2 |-> {},
     app |-> <<>>, panicked |-> "no", out |-> {}]

Init ==
    /\ Init_Multiplex
    /\ Init_Client
    /\ Init_OrderedMulticast
    /\ variant \in Variants
    /\ replica = [r \in Replicas |-> NewReplica]
    /\ lost = 0
-----------------------------------------------------------------------------
(* The client *)

\* Mutant of Bootstrapped: every client starts at once.
Bootstrapped_AtOnce == TRUE

\* close_loop finishes one invocation before it starts any other, so that the
\* first packet is the first one at every replica.
Bootstrapped ==
    \/ \A c \in Clients : request_num[c] = 0
    \/ \E c \in Clients : results[c] /= <<>>

Invoke(c) ==
    /\ Bootstrapped
    /\ ClientInvoke(c, {Sequencer})
    /\ UNCHANGED <<multicastVars, variant, replica, lost>>

\* Mutant of Complete: one reply too few.
Complete_OneShort(c, m) ==
    Cardinality(Matching(c, m)) >= Cardinality(Replicas) - NumFaulty - 1

\* handle: n - f replies agree in the sequence number and the result.
Complete(c, m) ==
    Cardinality(Matching(c, m)) >= Cardinality(Replicas) - NumFaulty

HandleReply(c, m) ==
    /\ ClientReceives(c, m)
    /\ \/ /\ Expected(c, m) /\ Complete(c, m)
          /\ invoke' = [invoke EXCEPT ![c] = FALSE]
          /\ replies' = [replies EXCEPT ![c] = {}]
          /\ results' = [results EXCEPT ![c] = Append(@, m.result)]
          /\ UNCHANGED request_num
       \/ /\ Expected(c, m) /\ ~Complete(c, m)
          /\ replies' = [replies EXCEPT ![c] = Inserted(c, m)]
          /\ UNCHANGED <<request_num, invoke, results>>
       \/ ~Expected(c, m) /\ UNCHANGED clientVars
    /\ UNCHANGED <<multicastVars, variant, replica, lost>>
-----------------------------------------------------------------------------
(* What the replica's handlers call, on the state s of replica r *)

Panics(s, why) == [s EXCEPT !.panicked = why]

ordered_num(s) == Len(s.requests)

\* The inner requests of operations first..last.
Inner(s, first, last) ==
    [k \in 1..last - first + 1 |-> s.requests[first + k - 1].request]

\* What the application answers when it has executed the requests in log: a
\* batch of one for each.
Result(log) ==
    [before |-> [k \in 1..Len(log) - 1 |-> <<log[k]>>],
     upto |-> <<log[Len(log)]>>]

\* do_commit of operations first..last: execute and reply.
DoCommit(r, s, first, last) ==
    IF last > ordered_num(s) THEN Panics(s, "index") ELSE
    LET done == s.app \o Inner(s, first, last)
        reply(k) ==
            LET p == s.requests[k]
                upto == SubSeq(done, 1, Len(s.app) + k - first + 1)
            IN  Datagram(p.request.client,
                         ReplyMsg(p.request.num, Result(upto), p.seq_num, r))
    IN  [s EXCEPT !.app = done, !.out = @ \cup {reply(k) : k \in first..last}]

\* Mutant of ConfirmedNum: one confirmation too few.
ConfirmedNum_OneShort(nums) ==
    CHOOSE n \in {nums[i] : i \in Replicas} :
        /\ Cardinality({i \in Replicas : nums[i] < n}) <= NumFaulty + 1
        /\ Cardinality({i \in Replicas : nums[i] <= n}) > NumFaulty + 1

\* confirmed_nums[num_faulty] once they are sorted.
ConfirmedNum(nums) ==
    CHOOSE n \in {nums[i] : i \in Replicas} :
        /\ Cardinality({i \in Replicas : nums[i] < n}) <= NumFaulty
        /\ Cardinality({i \in Replicas : nums[i] <= n}) > NumFaulty

DoUpdateConfirmNum(r, s) ==
    LET n == ConfirmedNum(s.remote_confirmed_nums)
    IN  IF n < s.confirmed_num THEN Panics(s, "confirmed_num")
        ELSE [DoCommit(r, s, s.confirmed_num + 1, n) EXCEPT
                 !.confirmed_num = n]

DoConfirm2(r, s, m) ==
    IF m.end > ordered_num(s) THEN Panics(s, "index")
    ELSE IF m.digest /= Inner(s, m.start, m.end) THEN Panics(s, "digest")
    ELSE DoUpdateConfirmNum(r,
            [s EXCEPT !.remote_confirmed_nums[m.replica] = m.end])

\* Mutant of Release: do_confirm1 without its loop.
Release_None(r, s, i) == s

\* The confirms of replica i that waited and come next now.
Follows(s, i) ==
    {m \in s.reordering_confirms2 :
        m.replica = i /\ m.start = s.remote_confirmed_nums[i] + 1}

\* One turn of the loop of do_confirm1.
ReleaseNext(r, s, i) ==
    LET m == CHOOSE x \in Follows(s, i) : TRUE
    IN  IF s.panicked /= "no" \/ Follows(s, i) = {} THEN s
        ELSE DoConfirm2(r, [s EXCEPT !.reordering_confirms2 = @ \ {m}], m)

\* The loop of do_confirm1 over the confirms of replica i that waited.
Release(r, s, i) ==
    LET turns == Cardinality(s.reordering_confirms2)
        after[n \in 0..turns] ==
            IF n = 0 THEN s ELSE ReleaseNext(r, after[n - 1], i)
    IN  after[turns]

DoConfirm1(r, s, m) ==
    LET confirmed == s.remote_confirmed_nums[m.replica] IN
    IF m.start <= confirmed THEN Panics(s, "confirm again")
    ELSE IF m.start /= confirmed + 1
      THEN [s EXCEPT !.reordering_confirms2 = @ \cup {m}]
      ELSE Release(r, DoConfirm2(r, s, m), m.replica)

DoQuery(r, s) ==
    [s EXCEPT !.out = @ \cup SendTo(Peers(r), QueryMsg(r, ordered_num(s) + 1))]

op_num(s, p) == (p.seq_num - s.seq_num_offset + 1) % U32

\* handle_request puts a request behind a gap aside, and asserts that it has
\* put aside fewer than 1000 above the threshold.
Parked(r, s, p) ==
    LET t == [s EXCEPT !.reordering_requests =
                 {x \in @ : x.seq_num /= p.seq_num} \cup {p}]
        parked == Cardinality(t.reordering_requests)
    IN  IF parked >= QueryThreshold + 1000 THEN Panics(t, "reordering")
        ELSE IF parked = QueryThreshold THEN DoQuery(r, t) ELSE t

\* handle_request appends the next request and those that waited for it.
Ordered(s, p) ==
    LET waiting(n) == {x \in s.reordering_requests : op_num(s, x) = n}
        first == ordered_num(s) + 1
        last == CHOOSE n \in first..first + Cardinality(s.reordering_requests) :
                   /\ \A k \in first + 1..n : waiting(k) /= {}
                   /\ waiting(n + 1) = {}
        new == <<p>> \o [k \in 1..last - first |->
                            CHOOSE x \in waiting(first + k) : TRUE]
    IN  [s EXCEPT !.requests = @ \o new,
                  !.reordering_requests =
                      {x \in @ : op_num(s, x) \notin first..last}]

\* The last verified request among those appended from s to t.
VerifiedNum(s, t) ==
    LET new == {k \in ordered_num(s) + 1..ordered_num(t) :
                   verified(t.requests[k])}
    IN  IF new = {} THEN s.verified_num
        ELSE CHOOSE k \in new : \A l \in new : l <= k

\* Mutant of FirstDue: the last committed request is committed again.
FirstDue_Again(s) == IF s.verified_num = 0 THEN 1 ELSE s.verified_num

FirstDue(s) == s.verified_num + 1

\* The confirms that waited for the requests up to last.
Due(s, last) == {m \in s.reordering_confirms1 : m.end \in FirstDue(s)..last}

\* One turn of the loop of handle_request over these confirms.
ConfirmNext(r, s, last) ==
    LET m == CHOOSE x \in Due(s, last) : \A y \in Due(s, last) : x.end <= y.end
    IN  IF s.panicked /= "no" \/ Due(s, last) = {} THEN s
        ELSE DoConfirm1(r, [s EXCEPT !.reordering_confirms1 = @ \ {m}], m)

\* The loop of handle_request over the confirms that waited.
ConfirmAll(r, s, last) ==
    LET turns == Cardinality(s.reordering_confirms1)
        after[n \in 0..turns] ==
            IF n = 0 THEN s ELSE ConfirmNext(r, after[n - 1], last)
    IN  after[turns]

\* handle_request: the newly verified requests are committed, or the confirms
\* that waited for them are released.
HandleVerified(r, s, last) ==
    LET done == IF confirm THEN ConfirmAll(r, s, last)
                ELSE DoCommit(r, s, FirstDue(s), last)
    IN  [done EXCEPT !.verified_num = last]

\* handle_request
Receive(r, s0, p) ==
    LET s == IF s0.seq_num_offset = 0
               THEN [s0 EXCEPT !.seq_num_offset = p.seq_num] ELSE s0
        n == op_num(s, p)
        t == Ordered(s, p)
    IN  IF n < ordered_num(s) + 1 THEN s
        ELSE IF n /= ordered_num(s) + 1 THEN Parked(r, s, p)
        ELSE HandleVerified(r, t, VerifiedNum(s, t))

\* ps is a packet, if any.
ReceiveAll(r, s, ps) == IF ps = <<>> THEN s ELSE Receive(r, s, Head(ps))

\* do_send_confirm: what it sends, if anything.
SendConfirm(r, s) ==
    LET first == s.local_confirmed_num + 1 IN
    IF /\ confirm
       /\ first <= ordered_num(s)
       /\ first = s.remote_confirmed_nums[r] + 1
      THEN <<ConfirmMsg(r, first, ordered_num(s),
                        Inner(s, first, ordered_num(s)))>>
      ELSE <<>>
-----------------------------------------------------------------------------
(* Replicas *)

Running(r) == r \in Live /\ replica[r].panicked = "no"

\* The handler of r left its state s; what it sent is in s.out.
Becomes(r, s) == replica' = [replica EXCEPT ![r] = [s EXCEPT !.out = {}]]

\* A multicast packet reaches the delegate, which passes on what it may.
HandleRequest(r, m) ==
    /\ Running(r) /\ Arrived(r, m)
    /\ m.kind = "Request"
    /\ \E s \in {ReceiveAll(r, replica[r], Passed(r, m))} :
          /\ Becomes(r, s)
          /\ HandleDatagram(r, m, s.out, <<>>)
    /\ saved' = [saved EXCEPT ![r] = Saved(r, m)]
    /\ UNCHANGED <<clientVars, sequenced, variant, lost>>

\* Mutant of Overtakes: the first operation is compared, not the last.
Overtakes_Start(s, m) == m.start > ordered_num(s)

\* handle_confirm: m covers requests that are not ordered yet.
Overtakes(s, m) == m.end > ordered_num(s)

\* BOUND: Confirms are delivered once, for do_confirm1 asserts it.
HandleConfirm(r, m) ==
    /\ Running(r) /\ Arrived(r, m)
    /\ m.kind = "Confirm"
    /\ \E s \in {IF ~confirm THEN Panics(replica[r], "confirm")
                 ELSE IF Overtakes(replica[r], m)
                   THEN [replica[r] EXCEPT !.reordering_confirms1 = @ \cup {m}]
                   ELSE DoConfirm1(r, replica[r], m)} :
          /\ Becomes(r, s)
          /\ HandleDatagram(r, m, s.out, <<>>)
    /\ UNCHANGED <<dup, clientVars, multicastVars, variant, lost>>

\* The packet of operation n, ordered or waiting.
Held(s, n) ==
    IF n <= ordered_num(s) THEN {s.requests[n]}
    ELSE {p \in s.reordering_requests : op_num(s, p) = n}

HandleQuery(r, m) ==
    /\ Running(r) /\ Arrived(r, m)
    /\ m.kind = "Query"
    /\ LET vouched(p) == IF p.signature = "K256Unverified"
                           THEN [p EXCEPT !.signature = "K256"] ELSE p
       IN  HandleDatagram(r, m,
              {Datagram(m.replica, QueryOkMsg(m.op_num, vouched(p))) :
                  p \in Held(replica[r], m.op_num)}, <<>>)
    /\ UNCHANGED <<clientVars, multicastVars, variant, replica, lost>>

HandleQueryOk(r, m) ==
    /\ Running(r) /\ Arrived(r, m)
    /\ m.kind = "QueryOk"
    /\ \E s \in {IF m.op_num = ordered_num(replica[r]) + 1
                   THEN Receive(r, replica[r], m.packet) ELSE replica[r]} :
       \E t \in {IF /\ m.op_num = ordered_num(replica[r]) + 1
                    /\ s.panicked = "no"
                    /\ Cardinality(s.reordering_requests) >= QueryThreshold
                   THEN DoQuery(r, s) ELSE s} :
          /\ Becomes(r, t)
          /\ HandleDatagram(r, m, t.out, <<>>)
    /\ UNCHANGED <<clientVars, multicastVars, variant, lost>>

\* The replica's own Confirm.
LoopbackConfirm(r) ==
    /\ Running(r) /\ loopback[r] /= <<>>
    /\ LET m == Head(loopback[r]).msg
           s == replica[r]
       IN  \E t \in {IF s.remote_confirmed_nums[r] + 1 /= m.start
                       THEN Panics(s, "own confirm")
                       ELSE DoUpdateConfirmNum(r, [s EXCEPT
                               !.remote_confirmed_nums[r] = m.end])} :
              /\ Becomes(r, t)
              /\ HandleLoopback(r, t.out, <<>>)
    /\ UNCHANGED <<clientVars, multicastVars, variant, lost>>

\* The delegate's on_pace passes on the packet it holds, as verified, and the
\* replica's confirms what is ordered.
OnPace(r) ==
    /\ Running(r)
    /\ \E s \in {ReceiveAll(r, replica[r], saved[r])} :
       \E own \in {IF s.panicked = "no" THEN SendConfirm(r, s) ELSE <<>>} :
          /\ saved[r] /= <<>> \/ own /= <<>>
          /\ Becomes(r, IF own = <<>> THEN s
                        ELSE [s EXCEPT !.local_confirmed_num = ordered_num(s)])
          /\ Pace(r, s.out \cup UNION {SendTo(Peers(r), own[k]) :
                                          k \in 1..Len(own)}, own)
    /\ saved' = [saved EXCEPT ![r] = <<>>]
    /\ UNCHANGED <<clientVars, sequenced, variant, lost>>
-----------------------------------------------------------------------------
(* The sequencer and the network *)

Sequence(m) ==
    /\ Process(Scheme, m)
    /\ UNCHANGED <<clientVars, variant, replica, lost>>

\* drop_rate, or the network: a multicast packet does not reach one replica.
Lose(d) ==
    /\ lost < MaxLoss
    /\ d.msg.kind = "Request" /\ d.to \in Live
    /\ lost' = lost + 1
    /\ net' = net \ {d}
    /\ UNCHANGED <<loopback, dup, clientVars, multicastVars, variant, replica>>
-----------------------------------------------------------------------------
ReplicaStep(r) ==
    \/ OnPace(r)
    \/ LoopbackConfirm(r)
    \/ \E m \in InFlightTo(net, r) :
          \/ HandleRequest(r, m)
          \/ HandleConfirm(r, m)
          \/ HandleQuery(r, m)
          \/ HandleQueryOk(r, m)

Next ==
    \/ \E c \in Clients :
          \/ Invoke(c)
          \/ \E m \in InFlightTo(net, c) : HandleReply(c, m)
    \/ \E m \in InFlightTo(net, Sequencer) : Sequence(m)
    \/ \E r \in Live : ReplicaStep(r)
    \/ \E d \in net : Lose(d)

Spec == Init /\ [][Next]_vars

\* No request reaches the sequencer twice: one that it numbers is not left in
\* flight.  Nothing in the code sees to it.  Properties below that need it say
\* so; without it the sequencer numbers, and the replicas execute, both copies.
NumbersOnce == sequenced' = sequenced \/ dup' = dup
-----------------------------------------------------------------------------
(* Types *)

Requests == [client : Clients, num : 1..MaxRequestNum]
Nums == 0..Cardinality(Clients) * MaxRequestNum * (MaxDup + 1)
SignatureKinds == {"HalfSipHash", "K256", "K256Linked", "K256Unverified"}
Packets == [kind : {"Request"}, seq_num : Nums, signature : SignatureKinds,
            codes : Nat, request : Requests]
Confirms == [kind : {"Confirm"}, replica : Live, start : Nums, end : Nums,
             digest : Seq(Requests)]
Queries == [kind : {"Query"}, replica : Live, op_num : Nums]
QueryOks == [kind : {"QueryOk"}, op_num : Nums, packet : Packets]

\* The type invariant.
TypeOK ==
    /\ \A d \in net : d.to \in Live =>
          d.msg \in Packets \cup Confirms \cup Queries \cup QueryOks
    /\ sequenced \in Seq(Requests)
    /\ \A r \in Replicas :
          LET s == replica[r] IN
          /\ saved[r] \in Seq(Packets) /\ Len(saved[r]) <= 1
          /\ s.seq_num_offset \in Nums
          /\ s.reordering_requests \subseteq Packets
          /\ s.requests \in Seq(Packets)
          /\ s.app \in Seq(Requests)
          /\ s.verified_num \in 0..Len(s.requests)
          /\ s.confirmed_num \in 0..Len(s.requests)
          /\ s.local_confirmed_num \in 0..Len(s.requests)
          /\ s.remote_confirmed_nums \in [Replicas -> 0..Len(s.requests)]
          /\ s.reordering_confirms1 \subseteq Confirms
          /\ s.reordering_confirms2 \subseteq Confirms
          /\ s.out = {}
-----------------------------------------------------------------------------
(* Safety *)

\* Whatever is lost, delayed, overtaken, queried or held back by the delegate,
\* every replica executes the sequencer's order from its first request on.
ExecutedAsSequenced ==
    \A r \in Replicas : \E n \in 0..Len(sequenced) :
        replica[r].app = SubSeq(sequenced, 1, n)

\* neo-bn executes a request only where n - f replicas have it in order, so
\* that it survives f failures.
ExecutedIsOrdered ==
    confirm => \A r \in Replicas : \A k \in 1..Len(replica[r].app) :
        Cardinality({i \in Replicas : ordered_num(replica[i]) >= k})
            >= Cardinality(Replicas) - NumFaulty

\* The log of executed requests has the k-th request of c, with result res.
Executed(log, c, k, res) ==
    \E n \in 1..Len(log) : /\ log[n] = Request(c, k)
                           /\ Result(SubSeq(log, 1, n)) = res

\* What a client consumed for its k-th request is the result of that request,
\* executed by n - f replicas after the same requests.
ConsumedIsExecuted ==
    \A c \in Clients : \A k \in DOMAIN results[c] :
        Cardinality({i \in Replicas :
                        Executed(replica[i].app, c, k, results[c][k])})
            >= Cardinality(Replicas) - NumFaulty

\* Nothing waits for what has come: a parked request is behind a gap, a parked
\* Confirm ends beyond what is verified or starts behind a gap of its sender's.
ParkedWaits ==
    \A r \in Replicas : Running(r) =>
        LET s == replica[r] IN
        /\ \A p \in s.reordering_requests : op_num(s, p) > ordered_num(s) + 1
        /\ \A m \in s.reordering_confirms1 : m.end > s.verified_num
        /\ \A m \in s.reordering_confirms2 :
              m.start > s.remote_confirmed_nums[m.replica] + 1

\* No assertion fails and no index is out of bounds: Confirms arrive in any
\* order and before their requests, but each covers what its receiver ordered.
NoPanic == \A r \in Replicas : replica[r].panicked = "no"

\* The longest log any replica has executed, as batches of one request.
Log ==
    LET longest == CHOOSE r \in Replicas : \A s \in Replicas :
                      Len(replica[s].app) <= Len(replica[r].app)
    IN  [k \in 1..Len(replica[longest].app) |-> <<replica[longest].app[k]>>]

Service == INSTANCE ReplicatedLog WITH log <- Log

\* The clients cannot tell the replicas from a single log.
Linearizable == Service!Spec
-----------------------------------------------------------------------------
(* Progress *)

\* Nothing is in flight, held back or left to confirm.
Quiescent ==
    /\ net = {}
    /\ \A r \in Live : /\ loopback[r] = <<>> /\ saved[r] = <<>>
                       /\ SendConfirm(r, replica[r]) = <<>>

\* When nothing is lost or duplicated, the clients never all wait for good.
\* It fails in neo-bn: a Confirm that came before its last request waits until
\* that request is verified, but a packet the delegate passed on unverified,
\* and that was parked behind a gap, stays so until a later packet is verified.
\* It fails in neo-pk too, in longer executions with queries: a packet that
\* comes late, when the answer to a Query was there before it, makes the
\* delegate pass the newest packet on unverified and is then dropped itself.
NotAllStuck ==
    lost = 0 /\ dup = 0 /\ Quiescent => Bootstrapped /\ \E c \in Clients : ~invoke[c]

\* What holds: when no packet was lost, the sequencer got no request twice and
\* nothing can move any more, every replica has ordered all requests, whatever
\* was held back, parked or queried, and without confirms it has executed them
\* up to the last one it has verified.  In neo-hm, where every packet is, no
\* client waits.
NothingForgotten ==
    lost = 0 /\ Quiescent =>
        /\ \A r \in Live :
              /\ ordered_num(replica[r]) = Len(sequenced)
              /\ \A k \in 1..Len(sequenced) :
                    ~confirm /\ verified(replica[r].requests[k])
                        => k <= Len(replica[r].app)
        /\ variant = "neo-hm" => \A c \in Clients : ~invoke[c]
=============================================================================
