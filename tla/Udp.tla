-------------------------------- MODULE Udp ---------------------------------
(***************************************************************************)
(* The datagram service under every client and server of Hwagok-Land.     *)
(* All programs use AF_INET/SOCK_DGRAM sockets and blocking recvfrom, and  *)
(* none of them numbers, acknowledges or repeats a datagram, so whatever   *)
(* the network does to a datagram reaches the programs.  A socket is the   *)
(* sequence of datagrams waiting in it.  Nothing here is under src/.       *)
(***************************************************************************)
EXTENDS Naturals, Sequences, SequencesExt

CONSTANTS
    Faults,    \* what the network does to datagrams in this instance
    Capacity   \* how many datagrams a receive buffer holds

ASSUME NetworkAssumption ==
    /\ Faults \subseteq {"loss", "duplicate", "reorder"}
    /\ Capacity \in Nat \ {0}

(* The queues a receive buffer q may become when m is sent to it: a full    *)
(* buffer drops m, a faulty network loses it, doubles it or lets it overtake *)
(* datagrams sent earlier.                                                   *)
Arrivals(q, m) ==
    IF Len(q) >= Capacity
    THEN {q}
    ELSE {Append(q, m)}
           \cup {q2 \in {q} : "loss" \in Faults}
           \cup {q2 \in {Append(Append(q, m), m)} : "duplicate" \in Faults}
           \cup {q2 \in {InsertAt(q, k, m) : k \in 1 .. Len(q)} : "reorder" \in Faults}
=============================================================================
