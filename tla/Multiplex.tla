----------------------------- MODULE Multiplex -----------------------------
(***************************************************************************)
(* The event loop every replica and client runs on (src/src/context/       *)
(* tokio.rs) and the network below it, at the level a protocol handler     *)
(* sees them.                                                              *)
(*                                                                         *)
(* Datagrams.  Each UDP send is spawned as a task of its own, so datagrams *)
(* may be lost, overtake each other and arrive twice.  `net` is the set of *)
(* datagrams in flight: any of them may be the next one received (reorder) *)
(* or never be received (loss), and a receipt may leave the datagram in    *)
(* flight (duplication), at most MaxDup times.                             *)
(*                                                                         *)
(* Loopback.  A message a replica sends to itself is put into its own      *)
(* event channel synchronously, BEFORE the copies for the others are given *)
(* to the socket, so it is never lost and it is handled before anything    *)
(* that any other node sent in response.  Only a datagram that was already *)
(* in flight at that moment can have entered the channel ahead of it:      *)
(* every entry of `loopback` remembers those datagrams in `before`.        *)
(***************************************************************************)
EXTENDS Naturals, Sequences, FiniteSets

CONSTANTS Replicas, \* the replicas of the configuration
          Live,     \* those that run; the others never take a step
          Clients,  \* the clients of the configuration
          MaxDup    \* BOUND: receipts that leave their datagram in flight

VARIABLES net,      \* datagrams in flight
          loopback, \* per replica, its own messages in its event channel
          dup       \* duplicated receipts so far

netVars == <<net, loopback, dup>>

ASSUME LiveAssumption == Live \subseteq Replicas
ASSUME ClientsAssumption == Clients \cap Replicas = {}
ASSUME MaxDupAssumption == MaxDup \in Nat

Peers(r) == Live \ {r}

Datagram(addr, m) == [to |-> addr, msg |-> m]

SendTo(addrs, m) == {Datagram(a, m) : a \in addrs}

InFlightTo(flight, addr) == {d.msg : d \in {x \in flight : x.to = addr}}

Init_Multiplex ==
    /\ net = {}
    /\ loopback = [r \in Replicas |-> <<>>]
    /\ dup = 0

\* m can be the next event of replica r: it is in flight, and no message of
\* r's own entered the channel before m could.
Arrived(r, m) ==
    /\ Datagram(r, m) \in net
    /\ loopback[r] /= <<>> => m \in Head(loopback[r]).before

\* The copies of a message a handler sends, all at once.
Flight(d, out) ==
    \/ /\ net' = (net \ {d}) \cup out
       /\ UNCHANGED dup
    \/ /\ dup < MaxDup
       /\ dup' = dup + 1
       /\ net' = net \cup out

\* own is <<m>> when the handler sends m with loopback and <<>> when not.
Looped(r, own) ==
    [k \in 1..Len(own) |->
        [msg |-> own[k], before |-> InFlightTo(net', r)]]

\* Event::Message at replica r, whose handler sends out and own.
HandleDatagram(r, m, out, own) ==
    /\ Flight(Datagram(r, m), out)
    /\ loopback' = [loopback EXCEPT ![r] = @ \o Looped(r, own)]

\* Event::LocalMessage at replica r, whose handler sends out and own.
HandleLoopback(r, out, own) ==
    /\ net' = net \cup out
    /\ loopback' = [loopback EXCEPT ![r] = Tail(@) \o Looped(r, own)]
    /\ UNCHANGED dup

\* on_pace of replica r, which sends out and own.
Pace(r, out, own) ==
    /\ net' = net \cup out
    /\ loopback' = [loopback EXCEPT ![r] = @ \o Looped(r, own)]
    /\ UNCHANGED dup

\* Event::Message at client c: clients only record replies.
ClientReceives(c, m) ==
    /\ Datagram(c, m) \in net
    /\ Flight(Datagram(c, m), {})
    /\ UNCHANGED loopback

\* A client sends, from the thread that calls invoke.
ClientSends(out) ==
    /\ net' = net \cup out
    /\ UNCHANGED <<loopback, dup>>
=============================================================================
