---------------------------- MODULE FileTransfer ----------------------------
(***************************************************************************)
(* send_path/send_file of execute.c and recv_path/recv_file of client.c,   *)
(* the file transfer of the server machine: one file, cut into datagrams   *)
(* of BUF_SIZE bytes.  The sender waits for nothing, and nothing but an    *)
(* empty datagram ends the receiver.  Neither program calls its half, so   *)
(* the two are modelled as they would run against each other.              *)
(*                                                                         *)
(* Bytes are their positions in the file.  spc: "open", "send", "done",    *)
(* "failed"; rpc: "open", "receive", "done", "failed".                     *)
(***************************************************************************)
EXTENDS Udp, Integers

CONSTANTS
    BUF_SIZE,      \* 256 in both programs; so is MAX_BUF
    Lengths        \* the lengths of the files that are sent

ASSUME FileAssumption ==
    /\ BUF_SIZE \in Nat /\ BUF_SIZE > 1
    /\ Lengths \subseteq Nat

VARIABLES
    length,        \* of the file that is sent
    spc, read,     \* the sender, and how far it has read
    socket,        \* datagrams waiting in the receiver's socket
    rpc, written,  \* the receiver, and the bytes it has written
    lost           \* history: a datagram did not arrive

vars == <<length, spc, read, socket, rpc, written, lost>>

MAX_BUF == BUF_SIZE

(* The bytes with positions a .. b, and what a recvfrom of n bytes returns *)
(* of a datagram: the rest of it is discarded.                             *)
Bytes(a, b) == [i \in 1 .. b - a + 1 |-> a + i - 1]
Truncate(d, n) == SubSeq(d, 1, IF Len(d) < n THEN Len(d) ELSE n)

Init ==
    /\ length \in Lengths
    /\ spc = "open" /\ read = 0
    /\ socket = <<>>
    /\ rpc = "open" /\ written = <<>>
    /\ lost = FALSE

-----------------------------------------------------------------------------
(* send_path: fopen may fail.                                              *)
send_path ==
    /\ spc = "open"
    /\ spc' \in {"send", "failed"}
    /\ UNCHANGED <<length, read, socket, rpc, written, lost>>

(* One turn of send_file.  A short read at the end of the file is sent,    *)
(* empty or not, and is the last one; a short read for an error is not     *)
(* sent.                                                                   *)
ChunkAlwaysFull == Bytes(read + 1, read + BUF_SIZE)   \* mutant: uret is not asked
Chunk == Bytes(read + 1, IF read + BUF_SIZE < length THEN read + BUF_SIZE ELSE length)

send_fileSkipsEmpty ==   \* mutant: an empty last read is not sent
    /\ spc = "send"
    /\ \/ /\ Chunk # <<>>
          /\ socket' \in Arrivals(socket, Chunk)
          /\ lost' = (lost \/ socket' = socket)
       \/ Chunk = <<>> /\ UNCHANGED <<socket, lost>>
    /\ read' = read + Len(Chunk)
    /\ spc' = IF Len(Chunk) < BUF_SIZE THEN "done" ELSE "send"
    /\ UNCHANGED <<length, rpc, written>>

send_fileTwice ==        \* mutant: every chunk is sent twice, against losses
    /\ spc = "send"
    /\ socket' \in UNION {Arrivals(q, Chunk) : q \in Arrivals(socket, Chunk)}
    /\ lost' = (lost \/ socket' = socket)
    /\ read' = read + Len(Chunk)
    /\ spc' = IF Len(Chunk) < BUF_SIZE THEN "done" ELSE "send"
    /\ UNCHANGED <<length, rpc, written>>

send_file ==
    /\ spc = "send"
    /\ \/ /\ socket' \in Arrivals(socket, Chunk)
          /\ lost' = (lost \/ socket' = socket)
          /\ read' = read + Len(Chunk)
          /\ spc' = IF Len(Chunk) < BUF_SIZE THEN "done" ELSE "send"
       \/ spc' = "failed" /\ UNCHANGED <<read, socket, lost>>
    /\ UNCHANGED <<length, rpc, written>>

-----------------------------------------------------------------------------
(* recv_path: fopen may fail.                                              *)
recv_path ==
    /\ rpc = "open"
    /\ rpc' \in {"receive", "failed"}
    /\ UNCHANGED <<length, spc, read, socket, written, lost>>

recv_fileStopsShort ==   \* mutant: a datagram that is not full ends the file
    LET d == Truncate(Head(socket), MAX_BUF - 1)
    IN  /\ rpc = "receive" /\ socket # <<>>
        /\ socket' = Tail(socket)
        /\ written' = written \o d
        /\ rpc' = IF Len(d) < MAX_BUF THEN "done" ELSE "receive"
        /\ UNCHANGED <<length, spc, read, lost>>

(* One turn of recv_file: MAX_BUF - 1 bytes of the next datagram are       *)
(* written, or fewer if fwrite fails; an empty datagram ends the file.     *)
recv_file ==
    LET d == Truncate(Head(socket), MAX_BUF - 1)
    IN  /\ rpc = "receive" /\ socket # <<>>
        /\ socket' = Tail(socket)
        /\ \/ d = <<>> /\ rpc' = "done" /\ UNCHANGED written
           \/ d # <<>> /\ written' = written \o d /\ UNCHANGED rpc
           \/ \E n \in 0 .. Len(d) - 1 : written' = written \o SubSeq(d, 1, n)
                                         /\ rpc' = "failed"
        /\ UNCHANGED <<length, spc, read, lost>>

Next == send_path \/ send_file \/ recv_path \/ recv_file

Spec == Init /\ [][Next]_vars
FairSpec == Spec /\ WF_vars(send_path \/ send_file) /\ WF_vars(recv_path \/ recv_file)

-----------------------------------------------------------------------------
(* The programs read and write within the file.                            *)
TypeOK ==
    /\ length \in Lengths /\ read \in 0 .. length /\ lost \in BOOLEAN
    /\ spc \in {"open", "send", "done", "failed"}
    /\ rpc \in {"open", "receive", "done", "failed"}
    /\ written \in Seq(1 .. length)
    /\ socket \in Seq(Seq(1 .. length))

(* The copy never has a byte twice, nor two bytes in the wrong order, as   *)
(* long as the network keeps the order of the datagrams.                   *)
InOrder(q) == \A i, j \in 1 .. Len(q) : i < j => q[i] < q[j]
CopyInOrder == InOrder(written)

(* The bytes a transfer without a lost datagram leaves in the copy: the    *)
(* last byte of every full datagram is cut off, because the sender reads   *)
(* BUF_SIZE bytes and the receiver asks for MAX_BUF - 1                    *)
(* (execute.c:66, client.c:95).                                            *)
Kept == {p \in 1 .. length : p % BUF_SIZE # 0}
AllKept == InOrder(written) /\ Range(written) = Kept

(* What a receiver that returns 0 has: a file whose length is a multiple   *)
(* of the buffer's, in order, without the last byte of each full datagram  *)
(* and without any datagram that was lost.  No other file ends it.         *)
EndedCopy ==
    rpc = "done" =>
        /\ length % BUF_SIZE = 0
        /\ ~lost => AllKept

(* A file whose length is a multiple of the buffer's comes to an end, and  *)
(* of every file all that the receiver keeps arrives, unless an error or   *)
(* the network prevents it (client.c:101-104).                             *)
Spoilt == lost \/ spc = "failed" \/ rpc = "failed"
TransferEnds ==
    /\ <>(Spoilt \/ AllKept)
    /\ (length % BUF_SIZE = 0) ~> (Spoilt \/ rpc = "done")
=============================================================================
