-------------------------- MODULE OrderedMulticast --------------------------
(***************************************************************************)
(* The ordered multicast of src/src/context/ordered_multicast.rs: a        *)
(* sequencer numbers the clients' requests and multicasts them, and a      *)
(* delegate in front of each receiver's handler drops the packets meant    *)
(* for others (HalfSipHash) or holds back the last signed packet so that   *)
(* only one signature of a burst is verified (K256).                       *)
(*                                                                         *)
(* The sequencer's channel and its worker threads (bin/neo-sequencer.rs)   *)
(* only delay and reorder packets that are already numbered, as the        *)
(* network does, so a request is numbered and sent in one step.  linked is *)
(* never looked at by a receiver and is left out.                          *)
(***************************************************************************)
EXTENDS Integers, ReplyClient

CONSTANTS Sequencer, \* the sequencer's address
          Index,     \* the index of a replica, from 0
          Linked     \* numbers of the packets that may be left unsigned

ASSUME SequencerAssumption == Sequencer \notin Replicas \cup Clients
ASSUME IndexAssumption ==
    /\ Index \in [Replicas -> 0..Cardinality(Replicas) - 1]
    /\ \A r, s \in Replicas : Index[r] = Index[s] => r = s
ASSUME LinkedAssumption == Linked \subseteq Nat

VARIABLES sequenced, \* Sequencer: the requests in their order; seq_num is
                     \* the length
          saved      \* ReceiverDelegate::K256: <<>> or the packet held back

multicastVars == <<sequenced, saved>>

\* deserialize: a packet with its signature; codes is the offset of the four
\* HalfSipHash codes the packet carries.
Packet(n, sig, codes, q) ==
    [kind |-> "Request", seq_num |-> n, signature |-> sig, codes |-> codes,
     request |-> q]

verified(p) == p.signature \in {"HalfSipHash", "K256"}

Init_OrderedMulticast ==
    /\ sequenced = <<>>
    /\ saved = [r \in Replicas |-> <<>>]

\* apply sends one HalfSipHash packet for every four replicas, and one K256
\* packet for all.
Offsets(scheme) ==
    IF scheme = "HalfSipHash"
      THEN {o \in 0..Cardinality(Replicas) - 1 : o % 4 = 0}
      ELSE {0}

\* The software sequencer signs every packet; a receiver takes unsigned ones
\* too, for a sequencer that cannot keep up with signing.
Signatures(scheme, n) ==
    {scheme} \cup (IF scheme = "K256" /\ n \in Linked THEN {"K256Linked"} ELSE {})

\* process and apply: number the request m and multicast it.  Nothing is looked
\* up, so that a request that arrives twice is numbered twice.
Process(scheme, m) ==
    LET n == Len(sequenced) + 1
        q == Request(m.client, m.num)
    IN  /\ Datagram(Sequencer, m) \in net
        /\ sequenced' = Append(sequenced, q)
        /\ \E sig \in Signatures(scheme, n) :
              Flight(Datagram(Sequencer, m),
                     UNION {SendTo(Live, Packet(n, sig, o, q)) :
                               o \in Offsets(scheme)})
        /\ UNCHANGED <<loopback, saved>>

\* The packet carries a code for replica r.
IsFor(r, p) ==
    p.signature = "HalfSipHash" => p.codes + (Index[r] % 4) = Index[r]

Unverified(p) == [p EXCEPT !.signature = "K256Unverified"]

\* Mutant of Passed: the packet held back is replaced, and not passed on.
Passed_Replaced(r, p) ==
    IF p.signature /= "K256" /\ IsFor(r, p) THEN <<p>> ELSE <<>>

\* ReceiverDelegate::handle: the packets it passes on, and the one it saves.
Passed(r, p) ==
    IF p.signature = "K256"
      THEN [k \in 1..Len(saved[r]) |-> Unverified(saved[r][k])]
      ELSE IF IsFor(r, p) THEN <<p>> ELSE <<>>

\* Mutant of Saved: the packet is added to the one held back.
Saved_Added(r, p) ==
    IF p.signature = "K256" THEN Append(saved[r], p) ELSE saved[r]

Saved(r, p) == IF p.signature = "K256" THEN <<p>> ELSE saved[r]
=============================================================================
