------------------------ MODULE FileTransferProofs -------------------------
(***************************************************************************)
(* Theorems about the file transfer for every buffer size, every length    *)
(* and every receive buffer: its type invariant under any fault of the     *)
(* network, and, on a network that may lose datagrams but neither doubles  *)
(* nor reorders them, that the copy is in the order of the file and that   *)
(* a receiver that returns 0 has all it ever keeps of a file of whole      *)
(* buffers.                                                                *)
(***************************************************************************)
EXTENDS FileTransfer, UdpProofs

-----------------------------------------------------------------------------
(* The operators.                                                          *)

(* What one read returns: the next bytes of the file, BUF_SIZE of them or  *)
(* all that are left.                                                      *)
LEMMA ChunkProperties ==
    ASSUME TypeOK
    PROVE  /\ Chunk \in Seq(1 .. length)
           /\ Len(Chunk) \in 0 .. BUF_SIZE
           /\ read + Len(Chunk) \in 0 .. length
           /\ Len(Chunk) < BUF_SIZE => read + Len(Chunk) = length
           /\ \A j \in 1 .. Len(Chunk) : Chunk[j] = read + j
<1> DEFINE top == IF read + BUF_SIZE < length THEN read + BUF_SIZE ELSE length
           n == top - read
<1>1. length \in Nat /\ read \in 0 .. length /\ BUF_SIZE \in Nat
  BY FileAssumption DEF TypeOK
<1>2. /\ n \in 0 .. BUF_SIZE /\ read + n \in 0 .. length
      /\ n < BUF_SIZE => read + n = length
  BY <1>1
<1>3. top - (read + 1) + 1 = n /\ n \in Nat
  BY <1>1
<1>4. Chunk = [j \in 1 .. n |-> read + 1 + j - 1]
  BY <1>3 DEF Chunk, Bytes
<1>5. \A j \in 1 .. n : read + 1 + j - 1 = read + j /\ read + j \in 1 .. length
  BY <1>1, <1>2
<1> HIDE DEF n
<1>6. Chunk \in [1 .. n -> 1 .. length]
  BY <1>4, <1>5
<1>7. Chunk \in Seq(1 .. length)
  BY <1>3, <1>6, SeqDef
<1>8. Len(Chunk) = n
  BY <1>3, <1>6, <1>7, LenProperties
<1>9. \A j \in 1 .. n : Chunk[j] = read + j
  BY <1>4, <1>5
<1> QED
  BY <1>2, <1>7, <1>8, <1>9

(* The beginning of a datagram.                                            *)
LEMMA PrefixProperties ==
    ASSUME NEW S, NEW d \in Seq(S), NEW n \in 0 .. Len(d)
    PROVE  /\ SubSeq(d, 1, n) \in Seq(S) /\ Len(SubSeq(d, 1, n)) = n
           /\ \A i \in 1 .. n : SubSeq(d, 1, n)[i] = d[i]
<1>1. Len(d) \in Nat /\ \A i \in 1 .. n : d[i] \in S
  BY LenProperties
<1> QED
  BY <1>1, SubSeqProperties

(* The part of a datagram that recv_file writes, whether fwrite fails or   *)
(* not: its beginning, and all of it but the last byte of a full buffer    *)
(* unless the write failed.                                                *)
LEMMA WritesPrefix ==
    ASSUME TypeOK, recv_file
    PROVE  /\ socket # <<>> /\ Head(socket) \in Seq(1 .. length)
           /\ \E n \in 0 .. Len(Head(socket)) :
                 /\ n < BUF_SIZE
                 /\ written' = written \o SubSeq(Head(socket), 1, n)
                 /\ rpc' = "done" => n = 0
                 /\ rpc' # "failed" =>
                       n = IF Len(Head(socket)) < BUF_SIZE - 1
                           THEN Len(Head(socket)) ELSE BUF_SIZE - 1
<1> DEFINE h == Head(socket)
           k == IF Len(h) < MAX_BUF - 1 THEN Len(h) ELSE MAX_BUF - 1
           d == Truncate(h, MAX_BUF - 1)
<1>1. socket # <<>> /\ socket \in Seq(Seq(1 .. length)) /\ written \in Seq(1 .. length)
  BY DEF recv_file, TypeOK
<1>2. h \in Seq(1 .. length)
  BY <1>1, HeadTailProperties
<1>3. MAX_BUF = BUF_SIZE /\ Len(h) \in Nat /\ BUF_SIZE \in Nat /\ BUF_SIZE > 1
  BY <1>2, LenProperties, FileAssumption DEF MAX_BUF
<1>4. k \in 0 .. Len(h) /\ d = SubSeq(h, 1, k)
  BY <1>3 DEF Truncate
<1>5. d \in Seq(1 .. length) /\ Len(d) = k /\ \A i \in 1 .. k : d[i] = h[i]
  BY <1>2, <1>4, PrefixProperties
<1>6. CASE d = <<>> /\ rpc' = "done" /\ UNCHANGED written
  <2>1. written' = written \o SubSeq(h, 1, k)
    BY <1>1, <1>4, <1>6, ConcatEmptySeq
  <2>2. k = 0
    BY <1>5, <1>6
  <2>3. k < BUF_SIZE
    BY <1>3, <2>2
  <2>4. k = IF Len(h) < BUF_SIZE - 1 THEN Len(h) ELSE BUF_SIZE - 1
    BY <1>3
  <2> HIDE DEF k
  <2> QED
    BY <1>1, <1>2, <1>4, <2>1, <2>2, <2>3, <2>4
<1>7. CASE d # <<>> /\ written' = written \o d /\ UNCHANGED rpc
  <2>1. rpc' = "receive" /\ k < BUF_SIZE
    BY <1>3, <1>7 DEF recv_file
  <2> QED
    BY <1>1, <1>2, <1>3, <1>4, <1>7, <2>1
<1>8. ASSUME NEW n \in 0 .. Len(d) - 1, written' = written \o SubSeq(d, 1, n), rpc' = "failed"
      PROVE  \E i \in 0 .. Len(h) : i < BUF_SIZE /\ written' = written \o SubSeq(h, 1, i)
  <2>1. n \in 0 .. Len(d) /\ n \in 0 .. Len(h) /\ n <= k /\ n < BUF_SIZE
    BY <1>3, <1>4, <1>5
  <2>2. SubSeq(d, 1, n) = SubSeq(h, 1, n)
    <3>1. /\ SubSeq(d, 1, n) \in Seq(1 .. length) /\ Len(SubSeq(d, 1, n)) = n
          /\ \A i \in 1 .. n : SubSeq(d, 1, n)[i] = d[i]
      BY <1>5, <2>1, PrefixProperties
    <3>2. /\ SubSeq(h, 1, n) \in Seq(1 .. length) /\ Len(SubSeq(h, 1, n)) = n
          /\ \A i \in 1 .. n : SubSeq(h, 1, n)[i] = h[i]
      BY <1>2, <2>1, PrefixProperties
    <3>3. \A i \in 1 .. n : d[i] = h[i]
      BY <1>3, <1>4, <1>5, <2>1
    <3> HIDE DEF h, d
    <3> QED
      BY <3>1, <3>2, <3>3, SeqEqual
  <2> QED
    BY <1>8, <2>1, <2>2
<1> QED
  BY <1>1, <1>2, <1>6, <1>7, <1>8 DEF recv_file

-----------------------------------------------------------------------------
(* Types.                                                                  *)

(* The sender never reads and the receiver never writes a byte outside the *)
(* file, whatever the network does (execute.c:60-86, client.c:90-113).     *)
THEOREM FileTypes == Spec => []TypeOK
<1>1. Init => TypeOK
  <2> SUFFICES ASSUME Init PROVE TypeOK
    OBVIOUS
  <2>1. length \in Lengths /\ read \in 0 .. length
    BY FileAssumption DEF Init
  <2>2. written \in Seq(1 .. length)
    BY EmptyHasType DEF Init
  <2>3. socket \in Seq(Seq(1 .. length))
    BY EmptyHasType DEF Init
  <2> QED
    BY <2>1, <2>2, <2>3 DEF Init, TypeOK
<1>2. TypeOK /\ [Next]_vars => TypeOK'
  <2> SUFFICES ASSUME TypeOK, [Next]_vars PROVE TypeOK'
    OBVIOUS
  <2>1. CASE send_path
    BY <2>1 DEF send_path, TypeOK
  <2>2. CASE recv_path
    BY <2>2 DEF recv_path, TypeOK
  <2>3. CASE UNCHANGED vars
    BY <2>3 DEF vars, TypeOK
  <2>4. CASE send_file
    <3>1. CASE spc' = "failed" /\ UNCHANGED <<read, socket, lost>>
      BY <2>4, <3>1 DEF send_file, TypeOK
    <3>2. CASE /\ socket' \in Arrivals(socket, Chunk)
               /\ lost' = (lost \/ socket' = socket)
               /\ read' = read + Len(Chunk)
               /\ spc' = IF Len(Chunk) < BUF_SIZE THEN "done" ELSE "send"
      <4>1. read' \in 0 .. length /\ lost' \in BOOLEAN /\ spc' \in {"done", "send"}
        BY <3>2, ChunkProperties DEF TypeOK
      <4>2. socket' \in Seq(Seq(1 .. length))
        BY <3>2, ChunkProperties, ArrivalsType DEF TypeOK
      <4> QED
        BY <2>4, <4>1, <4>2 DEF send_file, TypeOK
    <3> QED
      BY <2>4, <3>1, <3>2 DEF send_file
  <2>5. CASE recv_file
    <3>1. /\ socket' = Tail(socket) /\ rpc' \in {"receive", "done", "failed"}
          /\ UNCHANGED <<length, spc, read, lost>>
      BY <2>5 DEF recv_file
    <3>2. socket' \in Seq(Seq(1 .. length))
      BY <2>5, <3>1, HeadTailProperties DEF recv_file, TypeOK
    <3>3. PICK n \in 0 .. Len(Head(socket)) : written' = written \o SubSeq(Head(socket), 1, n)
      BY <2>5, WritesPrefix
    <3>4. SubSeq(Head(socket), 1, n) \in Seq(1 .. length)
      BY <2>5, WritesPrefix, PrefixProperties
    <3>5. written' \in Seq(1 .. length)
      BY <3>3, <3>4, ConcatProperties DEF TypeOK
    <3> QED
      BY <3>1, <3>2, <3>5 DEF TypeOK
  <2> QED
    BY <2>1, <2>2, <2>3, <2>4, <2>5 DEF Next
<1> QED
  BY <1>1, <1>2, PTL DEF Spec

-----------------------------------------------------------------------------
(* On a network that keeps the order, the file is a stream: what has been  *)
(* written, then one waiting datagram after the other, then what has not   *)
(* been read.                                                              *)
Before(p, q) == \A i \in 1 .. Len(p), j \in 1 .. Len(q) : p[i] < q[j]
Upto(q, n) == \A i \in 1 .. Len(q) : q[i] <= n
Queued(q) ==
    \A k \in 1 .. Len(q) :
        InOrder(q[k]) /\ Upto(q[k], read) /\ \A l \in 1 .. k - 1 : Before(q[l], q[k])
Stream ==
    /\ InOrder(written) /\ Upto(written, read)
    /\ Queued(socket)
    /\ \A k \in 1 .. Len(socket) : Before(written, socket[k])

(* Every receive buffer the network may leave is the old one or the old    *)
(* one and the chunk.                                                      *)
LEMMA SendsOneChunk ==
    ASSUME Faults \subseteq {"loss"}, TypeOK, send_file, ~UNCHANGED <<read, socket, lost>>
    PROVE  /\ spc = "send" /\ read' = read + Len(Chunk)
           /\ spc' = IF Len(Chunk) < BUF_SIZE THEN "done" ELSE "send"
           /\ socket' \in {socket, Append(socket, Chunk)}
           /\ lost' = (lost \/ socket' = socket)
           /\ UNCHANGED <<length, rpc, written>>
BY LossyArrivals DEF send_file

(* Sending keeps the stream.                                               *)
LEMMA StreamSent ==
    ASSUME Faults \subseteq {"loss"}, TypeOK, Stream, send_file
    PROVE  Stream'
<1>1. CASE UNCHANGED <<read, socket, lost>>
  <2>1. UNCHANGED <<read, socket, written>>
    BY <1>1 DEF send_file
  <2> QED
    BY <2>1 DEF Stream, InOrder, Upto, Queued, Before
<1>2. CASE ~UNCHANGED <<read, socket, lost>>
  <2>1. /\ read' = read + Len(Chunk) /\ read' >= read /\ written' = written
        /\ socket' = socket \/ socket' = Append(socket, Chunk)
    BY <1>2, SendsOneChunk, ChunkProperties DEF TypeOK
  <2>2. /\ \A i \in 1 .. Len(written) : written[i] \in Int
        /\ \A k \in 1 .. Len(socket) : \A j \in 1 .. Len(socket[k]) : socket[k][j] \in Int
        /\ read \in Int /\ Len(socket) \in Nat /\ Len(Chunk) \in Nat
    <3>1. \A k \in 1 .. Len(socket) : socket[k] \in Seq(1 .. length)
      BY LenProperties DEF TypeOK
    <3>2. ASSUME NEW q \in Seq(1 .. length), NEW j \in 1 .. Len(q) PROVE q[j] \in Int
      <4>1. q[j] \in 1 .. length
        BY LenProperties
      <4> QED
        BY <4>1, FileAssumption DEF TypeOK
    <3>3. read \in Int /\ Len(socket) \in Nat /\ Len(Chunk) \in Nat
      BY LenProperties, ChunkProperties, FileAssumption DEF TypeOK
    <3> QED
      BY <3>1, <3>2, <3>3 DEF TypeOK
  <2>3. Upto(written, read') /\ \A k \in 1 .. Len(socket) : Upto(socket[k], read')
    <3>1. Upto(written, read) /\ \A k \in 1 .. Len(socket) : Upto(socket[k], read)
      BY DEF Stream, Queued
    <3> QED
      BY <2>1, <2>2, <3>1 DEF Upto
  <2>4. CASE socket' = socket
    BY <2>1, <2>3, <2>4 DEF Stream, Queued
  <2>5. CASE socket' = Append(socket, Chunk)
    <3>1. /\ Len(socket') = Len(socket) + 1 /\ socket'[Len(socket) + 1] = Chunk
          /\ \A k \in 1 .. Len(socket) : socket'[k] = socket[k]
      BY <2>5, ChunkProperties, AppendProperties DEF TypeOK
    <3>2. InOrder(Chunk) /\ Upto(Chunk, read')
      BY <2>1, <2>2, ChunkProperties DEF InOrder, Upto
    <3>3. Before(written, Chunk) /\ \A k \in 1 .. Len(socket) : Before(socket[k], Chunk)
      <4>1. Upto(written, read) /\ \A k \in 1 .. Len(socket) : Upto(socket[k], read)
        BY DEF Stream, Queued
      <4>2. \A j \in 1 .. Len(Chunk) : Chunk[j] \in Int /\ Chunk[j] > read
        BY <2>2, ChunkProperties
      <4> QED
        <5>1. \A q : Upto(q, read) /\ (\A i \in 1 .. Len(q) : q[i] \in Int) => Before(q, Chunk)
          BY <2>2, <4>2 DEF Upto, Before
        <5> QED
          BY <2>2, <4>1, <5>1
    <3>4. ASSUME NEW k \in 1 .. Len(socket')
          PROVE  /\ InOrder(socket'[k]) /\ Upto(socket'[k], read')
                 /\ \A l \in 1 .. k - 1 : Before(socket'[l], socket'[k])
                 /\ Before(written, socket'[k])
      <4>1. CASE k \in 1 .. Len(socket)
        <5>1. \A l \in 1 .. k - 1 : l \in 1 .. Len(socket)
          BY <4>1, <2>2
        <5> QED
          BY <2>3, <3>1, <4>1, <5>1 DEF Stream, Queued
      <4>2. CASE k = Len(socket) + 1
        <5>1. \A l \in 1 .. k - 1 : l \in 1 .. Len(socket)
          BY <4>2, <2>2
        <5> QED
          BY <3>1, <3>2, <3>3, <4>2, <5>1
      <4> QED
        BY <2>2, <3>1, <4>1, <4>2
    <3>5. InOrder(written)
      BY DEF Stream
    <3> QED
      BY <2>1, <2>3, <3>4, <3>5 DEF Stream, Queued
  <2> QED
    BY <2>1, <2>4, <2>5
<1> QED
  BY <1>1, <1>2

(* So does receiving: the beginning of the first datagram follows what has *)
(* been written and comes before the other datagrams.                      *)
LEMMA StreamReceived ==
    ASSUME TypeOK, Stream, recv_file
    PROVE  Stream'
<1> DEFINE h == Head(socket)
<1>1. /\ socket # <<>> /\ socket' = Tail(socket) /\ read' = read
      /\ socket \in Seq(Seq(1 .. length)) /\ written \in Seq(1 .. length)
  BY DEF recv_file, TypeOK
<1>2. /\ Len(socket) \in Nat \ {0} /\ Len(Tail(socket)) = Len(socket) - 1
      /\ \A k \in 1 .. Len(Tail(socket)) : Tail(socket)[k] = socket[k + 1] /\ k + 1 \in 1 .. Len(socket)
      /\ h = socket[1] /\ h \in Seq(1 .. length) /\ 1 \in 1 .. Len(socket)
  BY <1>1, HeadTailProperties, EmptySeq, LenProperties
<1>3. PICK n \in 0 .. Len(h) : written' = written \o SubSeq(h, 1, n)
  BY WritesPrefix
<1> DEFINE e == SubSeq(h, 1, n)
<1>4. /\ e \in Seq(1 .. length) /\ Len(e) = n
      /\ \A i \in 1 .. n : e[i] = h[i] /\ i \in 1 .. Len(h)
  <2>1. e \in Seq(1 .. length) /\ Len(e) = n /\ \A i \in 1 .. n : e[i] = h[i]
    BY <1>2, <1>3, PrefixProperties
  <2>2. Len(h) \in Nat
    BY <1>2, LenProperties
  <2> HIDE DEF h
  <2>3. \A i \in 1 .. n : i \in 1 .. Len(h)
    BY <1>3, <2>2
  <2> QED
    BY <2>1, <2>3
<1>5. /\ Len(written') = Len(written) + n /\ Len(written) \in Nat /\ n \in Nat
      /\ \A i \in 1 .. Len(written) + n :
            written'[i] = IF i <= Len(written) THEN written[i] ELSE h[i - Len(written)]
  <2>1. \A i \in 1 .. Len(written) + n : ~(i <= Len(written)) => i - Len(written) \in 1 .. n
    BY <1>1, <1>4, LenProperties
  <2> HIDE DEF e
  <2> QED
    BY <1>1, <1>3, <1>4, <2>1, ConcatProperties, LenProperties DEF e
<1>6. /\ InOrder(written) /\ Upto(written, read) /\ Before(written, h)
      /\ InOrder(h) /\ Upto(h, read)
      /\ \A k \in 1 .. Len(socket) : k # 1 => Before(h, socket[k]) /\ Before(written, socket[k])
  BY <1>2 DEF Stream, Queued
<1> HIDE DEF h
<1>7. \A i \in 1 .. Len(written) + n :
         \/ i \in 1 .. Len(written) /\ written'[i] = written[i]
         \/ i - Len(written) \in 1 .. Len(h) /\ i > Len(written) /\ written'[i] = h[i - Len(written)]
  BY <1>2, <1>4, <1>5, LenProperties
<1>8. InOrder(written')
  <2> SUFFICES ASSUME NEW i \in 1 .. Len(written) + n, NEW j \in 1 .. Len(written) + n, i < j
               PROVE  written'[i] < written'[j]
    BY <1>5 DEF InOrder
  <2>1. Len(h) \in Nat
    BY <1>2, LenProperties
  <2>2. CASE j \in 1 .. Len(written) /\ written'[j] = written[j]
    <3>1. i \in 1 .. Len(written) /\ written'[i] = written[i]
      BY <1>5, <2>2
    <3> QED
      BY <1>6, <2>2, <3>1 DEF InOrder
  <2>3. CASE /\ j - Len(written) \in 1 .. Len(h) /\ j > Len(written)
             /\ written'[j] = h[j - Len(written)]
    <3>1. CASE i \in 1 .. Len(written) /\ written'[i] = written[i]
      BY <1>6, <2>3, <3>1 DEF Before
    <3>2. CASE /\ i - Len(written) \in 1 .. Len(h) /\ i > Len(written)
               /\ written'[i] = h[i - Len(written)]
      <4>1. i - Len(written) < j - Len(written)
        BY <1>5
      <4> QED
        BY <1>6, <2>3, <3>2, <4>1 DEF InOrder
    <3> QED
      BY <1>7, <3>1, <3>2
  <2> QED
    BY <1>7, <2>2, <2>3
<1>9. Upto(written', read)
  BY <1>5, <1>6, <1>7 DEF Upto
<1>10. ASSUME NEW k \in 1 .. Len(socket')
       PROVE  /\ InOrder(socket'[k]) /\ Upto(socket'[k], read)
              /\ \A l \in 1 .. k - 1 : Before(socket'[l], socket'[k])
              /\ Before(written', socket'[k])
  <2>1. socket'[k] = socket[k + 1] /\ k + 1 \in 1 .. Len(socket) /\ k + 1 # 1
    BY <1>1, <1>2
  <2>2. \A l \in 1 .. k - 1 : socket'[l] = socket[l + 1] /\ l + 1 \in 1 .. (k + 1) - 1
    BY <1>1, <1>2
  <2>3. InOrder(socket'[k]) /\ Upto(socket'[k], read) /\ \A l \in 1 .. k - 1 : Before(socket'[l], socket'[k])
    BY <2>1, <2>2 DEF Stream, Queued
  <2>4. Before(written', socket'[k])
    BY <1>5, <1>6, <1>7, <2>1 DEF Before
  <2> QED
    BY <2>3, <2>4
<1> QED
  BY <1>1, <1>8, <1>9, <1>10 DEF Stream, Queued

(* The stream holds always.                                                *)
LEMMA StreamAlways ==
    ASSUME Faults \subseteq {"loss"}
    PROVE  Spec => []Stream
<1>1. Init => Stream
  BY DEF Init, Stream, InOrder, Upto, Queued, Before
<1>2. TypeOK /\ Stream /\ [Next]_vars => Stream'
  <2> SUFFICES ASSUME TypeOK, Stream, [Next]_vars PROVE Stream'
    OBVIOUS
  <2>1. CASE UNCHANGED <<read, socket, written>>
    BY <2>1 DEF Stream, InOrder, Upto, Queued, Before
  <2> QED
    BY <2>1, StreamSent, StreamReceived DEF Next, send_path, recv_path, vars
<1> QED
  BY <1>1, <1>2, FileTypes, PTL DEF Spec

(* On a network that may lose datagrams but neither doubles nor reorders   *)
(* them, the copy has no byte twice and no two in the wrong order.         *)
THEOREM FileCopyInOrder ==
    ASSUME Faults \subseteq {"loss"}
    PROVE  Spec => []CopyInOrder
<1>1. Stream => CopyInOrder
  BY DEF Stream, CopyInOrder
<1> QED
  BY <1>1, StreamAlways, PTL

-----------------------------------------------------------------------------
(* Positions and buffers.                                                  *)

(* Division leaves a quotient and a remainder,                             *)
LEMMA Division ==
    ASSUME NEW B \in Nat, B > 1, NEW p \in Nat
    PROVE  p % B \in 0 .. B - 1 /\ p \div B \in Nat /\ p = B * (p \div B) + (p % B)
OBVIOUS

(* and no other remainder.                                                 *)
LEMMA DivisionIsUnique ==
    ASSUME NEW B \in Nat, B > 1, NEW q \in Int, NEW r \in Int,
           NEW j \in 0 .. B - 1, NEW k \in 0 .. B - 1, B * q + j = B * r + k
    PROVE  j = k
<1>1. B * (q - r) = k - j
  OBVIOUS
<1>2. q - r = 0 \/ q - r >= 1 \/ q - r <= -1
  OBVIOUS
<1>3. q - r >= 1 => B * (q - r) >= B
  OBVIOUS
<1>4. q - r <= -1 => B * (q - r) <= -B
  OBVIOUS
<1> QED
  BY <1>1, <1>2, <1>3, <1>4

(* The bytes of a buffer that begins where a buffer may: all but the last  *)
(* have positions that are no multiples of its size, and the last is one.  *)
LEMMA BufferPositions ==
    ASSUME NEW B \in Nat, B > 1, NEW p \in Nat, p % B = 0
    PROVE  /\ \A j \in 1 .. B - 1 : (p + j) % B # 0
           /\ (p + B) % B = 0
<1>1. ASSUME NEW j \in 1 .. B - 1 PROVE (p + j) % B = j
  <2> DEFINE a == (p + j) \div B
             m == (p + j) % B
             b == p \div B
  <2>1. p + j \in Nat /\ j \in 0 .. B - 1
    OBVIOUS
  <2>2. a \in Int /\ m \in 0 .. B - 1 /\ p + j = B * a + m
    BY <2>1, Division
  <2>3. b \in Int /\ p = B * b
    BY Division
  <2> HIDE DEF a, m, b
  <2>4. m = j
    BY <2>1, <2>2, <2>3, DivisionIsUnique
  <2> QED
    BY <2>4 DEF m
<1>2. (p + B) % B = 0
  OBVIOUS
<1>3. \A j \in 1 .. B - 1 : j # 0
  OBVIOUS
<1> QED
  BY <1>1, <1>2, <1>3

-----------------------------------------------------------------------------
(* What arrives.  Datagrams begin where buffers do; only a file of whole   *)
(* buffers ends with an empty one, the last that is sent; and as long as   *)
(* nothing is lost and nothing fails, every byte that was read and is not  *)
(* the last of a buffer has been written or waits in the socket.           *)
EndSent == spc = "done" /\ read = length /\ length % BUF_SIZE = 0
Aligned(q) ==
    \A k \in 1 .. Len(q) :
        /\ Len(q[k]) \in 0 .. BUF_SIZE
        /\ \A j \in 1 .. Len(q[k]) : q[k][j] % BUF_SIZE = 0 <=> j = BUF_SIZE
        /\ Len(q[k]) = 0 => k = Len(q)
EmptyIsEnd == \A k \in 1 .. Len(socket) : Len(socket[k]) = 0 => EndSent
Waits(q, p) == \E k \in 1 .. Len(q) : \E j \in 1 .. Len(q[k]) : q[k][j] = p
Written(p) == \E i \in 1 .. Len(written) : written[i] = p
Delivery ==
    /\ spc \in {"open", "send"} => read % BUF_SIZE = 0
    /\ Aligned(socket) /\ EmptyIsEnd
    /\ rpc = "done" => socket = <<>> /\ EndSent
    /\ \A i \in 1 .. Len(written) : written[i] % BUF_SIZE # 0
    /\ ~lost /\ rpc # "failed" =>
          \A p \in 1 .. read : p % BUF_SIZE # 0 => Written(p) \/ Waits(socket, p)

(* Sending keeps the account.                                              *)
LEMMA DeliverySent ==
    ASSUME Faults \subseteq {"loss"}, TypeOK, Delivery, send_file
    PROVE  Delivery'
<1>1. CASE UNCHANGED <<read, socket, lost>>
  <2>1. /\ UNCHANGED <<read, socket, written, lost, rpc, length>>
        /\ spc = "send" /\ spc' \in {"send", "done", "failed"} /\ ~EndSent
    BY <1>1 DEF send_file, EndSent
  <2>2. spc' \in {"open", "send"} => read' % BUF_SIZE = 0
    BY <2>1 DEF Delivery
  <2>3. \A k \in 1 .. Len(socket) : Len(socket[k]) # 0
    BY <2>1 DEF Delivery, EmptyIsEnd
  <2>4. Aligned(socket') /\ EmptyIsEnd' /\ rpc' # "done"
    BY <2>1, <2>3 DEF Delivery, EmptyIsEnd
  <2> QED
    BY <2>1, <2>2, <2>4 DEF Delivery, Written
<1>2. CASE ~UNCHANGED <<read, socket, lost>>
  <2>1. /\ spc = "send" /\ read' = read + Len(Chunk) /\ ~EndSent
        /\ spc' = IF Len(Chunk) < BUF_SIZE THEN "done" ELSE "send"
        /\ socket' \in {socket, Append(socket, Chunk)}
        /\ lost' = (lost \/ socket' = socket)
        /\ UNCHANGED <<length, rpc, written>>
    BY <1>2, SendsOneChunk DEF EndSent
  <2>2. /\ read \in Nat /\ read % BUF_SIZE = 0 /\ BUF_SIZE \in Nat /\ BUF_SIZE > 1
        /\ Len(socket) \in Nat /\ rpc # "done"
        /\ \A k \in 1 .. Len(socket) : Len(socket[k]) # 0
    BY <2>1, FileAssumption, LenProperties DEF TypeOK, Delivery, EmptyIsEnd
  <2>3. spc' \in {"open", "send"} => read' % BUF_SIZE = 0
    <3>1. spc' \in {"open", "send"} => Len(Chunk) = BUF_SIZE
      BY <2>1, ChunkProperties, FileAssumption
    <3> QED
      BY <2>1, <2>2, <3>1, BufferPositions
  <2>4. CASE socket' = socket
    <3>1. Aligned(socket') /\ EmptyIsEnd' /\ lost'
      BY <2>1, <2>2, <2>4 DEF Delivery, EmptyIsEnd
    <3> QED
      BY <2>1, <2>2, <2>3, <2>4, <3>1 DEF Delivery
  <2>5. CASE socket' = Append(socket, Chunk)
    <3>1. /\ Len(socket') = Len(socket) + 1 /\ socket'[Len(socket) + 1] = Chunk
          /\ \A k \in 1 .. Len(socket) : socket'[k] = socket[k]
      BY <2>5, ChunkProperties, AppendProperties DEF TypeOK
    <3>2. /\ Len(Chunk) \in 0 .. BUF_SIZE
          /\ \A j \in 1 .. Len(Chunk) : Chunk[j] % BUF_SIZE = 0 <=> j = BUF_SIZE
      <4>1. ASSUME NEW j \in 1 .. Len(Chunk)
            PROVE  Chunk[j] = read + j /\ (j \in 1 .. BUF_SIZE - 1 \/ j = BUF_SIZE)
        BY <2>2, ChunkProperties
      <4>2. /\ \A j \in 1 .. BUF_SIZE - 1 : (read + j) % BUF_SIZE # 0 /\ j # BUF_SIZE
            /\ (read + BUF_SIZE) % BUF_SIZE = 0
        BY <2>2, BufferPositions
      <4> QED
        BY <4>1, <4>2, ChunkProperties
    <3>3. Aligned(socket')
      <4> SUFFICES ASSUME NEW k \in 1 .. Len(socket) + 1
                   PROVE  /\ Len(socket'[k]) \in 0 .. BUF_SIZE
                          /\ \A j \in 1 .. Len(socket'[k]) : socket'[k][j] % BUF_SIZE = 0 <=> j = BUF_SIZE
                          /\ Len(socket'[k]) = 0 => k = Len(socket) + 1
        BY <3>1 DEF Aligned
      <4>1. CASE k \in 1 .. Len(socket)
        BY <2>2, <3>1, <4>1 DEF Delivery, Aligned
      <4>2. CASE k = Len(socket) + 1
        BY <3>1, <3>2, <4>2
      <4> QED
        BY <2>2, <4>1, <4>2
    <3>4. EmptyIsEnd'
      <4> SUFFICES ASSUME NEW k \in 1 .. Len(socket) + 1, Len(socket'[k]) = 0
                   PROVE  EndSent'
        BY <3>1 DEF EmptyIsEnd
      <4>1. k = Len(socket) + 1 /\ Len(Chunk) = 0
        <5>1. k \notin 1 .. Len(socket)
          BY <2>2, <3>1
        <5> QED
          BY <2>2, <3>1, <5>1
      <4>2. Len(Chunk) < BUF_SIZE /\ read + Len(Chunk) = read
        BY <2>2, <4>1
      <4>3. spc' = "done" /\ read' = length' /\ read' = read
        BY <2>1, <4>2, ChunkProperties
      <4> QED
        BY <2>2, <4>3 DEF EndSent
    <3>5. ASSUME ~lost', rpc' # "failed", NEW p \in 1 .. read', p % BUF_SIZE # 0
          PROVE  Written(p)' \/ Waits(socket', p)
      <4>1. CASE p \in 1 .. read
        <5>1. Written(p) \/ Waits(socket, p)
          BY <2>1, <3>5, <4>1 DEF Delivery
        <5>2. Waits(socket, p) => Waits(socket', p)
          <6>1. \A k \in 1 .. Len(socket) : k \in 1 .. Len(socket')
            BY <2>2, <3>1
          <6> QED
            BY <3>1, <6>1 DEF Waits
        <5> QED
          BY <2>1, <5>1, <5>2 DEF Written
      <4>2. CASE p \notin 1 .. read
        <5>1. p - read \in 1 .. Len(Chunk) /\ read + (p - read) = p
          BY <2>1, <2>2, <4>2, ChunkProperties
        <5>2. Chunk[p - read] = p
          BY <5>1, ChunkProperties
        <5>3. Len(socket) + 1 \in 1 .. Len(socket')
          BY <2>2, <3>1
        <5> QED
          BY <3>1, <5>1, <5>2, <5>3 DEF Waits
      <4> QED
        BY <4>1, <4>2
    <3> QED
      BY <2>1, <2>2, <2>3, <3>3, <3>4, <3>5 DEF Delivery
  <2> QED
    BY <2>1, <2>4, <2>5
<1> QED
  BY <1>1, <1>2

(* So does receiving: the byte that is cut off a full datagram is the one  *)
(* that the account leaves out.                                            *)
LEMMA DeliveryReceived ==
    ASSUME TypeOK, Delivery, recv_file
    PROVE  Delivery'
<1> DEFINE h == Head(socket)
<1>1. /\ socket # <<>> /\ socket' = Tail(socket) /\ rpc = "receive"
      /\ UNCHANGED <<length, spc, read, lost>>
      /\ socket \in Seq(Seq(1 .. length)) /\ written \in Seq(1 .. length)
      /\ BUF_SIZE \in Nat /\ BUF_SIZE > 1
  BY FileAssumption DEF recv_file, TypeOK
<1>2. /\ Len(socket) \in Nat \ {0} /\ Len(Tail(socket)) = Len(socket) - 1
      /\ Tail(socket) \in Seq(Seq(1 .. length))
      /\ \A k \in 1 .. Len(Tail(socket)) : Tail(socket)[k] = socket[k + 1] /\ k + 1 \in 1 .. Len(socket)
      /\ h = socket[1] /\ h \in Seq(1 .. length) /\ 1 \in 1 .. Len(socket)
  BY <1>1, HeadTailProperties, EmptySeq, LenProperties
<1>3. PICK n \in 0 .. Len(h) :
              /\ n < BUF_SIZE /\ written' = written \o SubSeq(h, 1, n)
              /\ rpc' = "done" => n = 0
              /\ rpc' # "failed" => n = IF Len(h) < BUF_SIZE - 1 THEN Len(h) ELSE BUF_SIZE - 1
  BY WritesPrefix
<1>4. /\ Len(h) \in 0 .. BUF_SIZE /\ n \in Nat
      /\ \A j \in 1 .. Len(h) : h[j] % BUF_SIZE = 0 <=> j = BUF_SIZE
      /\ Len(h) = 0 => Len(socket) = 1 /\ EndSent
  <2>1. Len(h) \in Nat
    BY <1>2, LenProperties
  <2>2. n \in Nat
    BY <1>3, <2>1
  <2>3. /\ Len(socket[1]) \in 0 .. BUF_SIZE
        /\ \A j \in 1 .. Len(socket[1]) : socket[1][j] % BUF_SIZE = 0 <=> j = BUF_SIZE
        /\ Len(socket[1]) = 0 => 1 = Len(socket) /\ EndSent
    BY <1>2 DEF Delivery, Aligned, EmptyIsEnd
  <2> HIDE DEF h
  <2> QED
    BY <1>2, <2>2, <2>3
<1> DEFINE e == SubSeq(h, 1, n)
<1>5. /\ e \in Seq(1 .. length) /\ Len(e) = n
      /\ \A i \in 1 .. n : e[i] = h[i]
  BY <1>2, <1>3, PrefixProperties
<1>6. /\ Len(written') = Len(written) + n /\ Len(written) \in Nat
      /\ \A i \in 1 .. Len(written) + n :
            written'[i] = IF i <= Len(written) THEN written[i] ELSE e[i - Len(written)]
  <2> HIDE DEF e
  <2> QED
    BY <1>1, <1>3, <1>5, ConcatProperties, LenProperties DEF e
<1> HIDE DEF h, e
<1>7. Aligned(socket') /\ EmptyIsEnd'
  <2>1. EndSent' = EndSent
    BY <1>1 DEF EndSent
  <2>2. ASSUME NEW k \in 1 .. Len(socket')
        PROVE  /\ Len(socket'[k]) \in 0 .. BUF_SIZE
               /\ \A j \in 1 .. Len(socket'[k]) : socket'[k][j] % BUF_SIZE = 0 <=> j = BUF_SIZE
               /\ Len(socket'[k]) = 0 => k + 1 = Len(socket) /\ EndSent
    <3>1. socket'[k] = socket[k + 1] /\ k + 1 \in 1 .. Len(socket)
      BY <1>1, <1>2
    <3> QED
      BY <3>1 DEF Delivery, Aligned, EmptyIsEnd
  <2>3. \A k \in 1 .. Len(socket') : k + 1 = Len(socket) => k = Len(socket')
    <3>1. Len(socket') = Len(socket) - 1 /\ Len(socket) \in Nat
      BY <1>1, <1>2
    <3> QED
      BY <3>1
  <2> QED
    BY <2>1, <2>2, <2>3 DEF Aligned, EmptyIsEnd
<1>8. rpc' = "done" => socket' = <<>> /\ EndSent'
  <2> SUFFICES ASSUME rpc' = "done" PROVE socket' = <<>> /\ EndSent'
    OBVIOUS
  <2>1. Len(h) = 0
    BY <1>1, <1>3, <1>4
  <2>2. Len(socket') = 0 /\ EndSent
    BY <1>1, <1>2, <1>4, <2>1
  <2> QED
    BY <1>1, <1>2, <2>2, EmptyByLength DEF EndSent
<1>9. ASSUME NEW i \in 1 .. Len(written') PROVE written'[i] % BUF_SIZE # 0
  <2>1. CASE i \in 1 .. Len(written)
    BY <1>6, <2>1 DEF Delivery
  <2>2. CASE i \notin 1 .. Len(written)
    <3>1. /\ i - Len(written) \in 1 .. n /\ i - Len(written) \in 1 .. Len(h)
          /\ i - Len(written) # BUF_SIZE
      BY <1>1, <1>3, <1>4, <1>6, <2>2
    <3>2. written'[i] = h[i - Len(written)]
      BY <1>5, <1>6, <2>2, <3>1
    <3> QED
      BY <1>4, <3>1, <3>2
  <2> QED
    BY <2>1, <2>2
<1>10. ASSUME ~lost, rpc' # "failed", NEW p \in 1 .. read, p % BUF_SIZE # 0
       PROVE  Written(p)' \/ Waits(socket', p)
  <2>1. CASE Written(p)
    <3>1. PICK i \in 1 .. Len(written) : written[i] = p
      BY <2>1 DEF Written
    <3>2. i \in 1 .. Len(written') /\ written'[i] = p
      BY <1>4, <1>6, <3>1
    <3> QED
      BY <3>2 DEF Written
  <2>2. CASE Waits(socket, p)
    <3>1. PICK k \in 1 .. Len(socket) : \E j \in 1 .. Len(socket[k]) : socket[k][j] = p
      BY <2>2 DEF Waits
    <3>2. CASE k = 1
      <4>1. PICK j \in 1 .. Len(h) : h[j] = p
        BY <1>2, <3>1, <3>2
      <4>2. j # BUF_SIZE
        BY <1>4, <1>10, <4>1
      <4>3. j \in 1 .. n
        BY <1>1, <1>3, <1>4, <4>1, <4>2, <1>10
      <4>4. /\ Len(written) + j \in 1 .. Len(written) + n
            /\ ~(Len(written) + j <= Len(written)) /\ (Len(written) + j) - Len(written) = j
        BY <1>4, <1>6, <4>3
      <4>5. written'[Len(written) + j] = p
        BY <1>5, <1>6, <4>1, <4>3, <4>4
      <4> QED
        BY <1>6, <4>4, <4>5 DEF Written
    <3>3. CASE k # 1
      <4>1. /\ k - 1 \in 1 .. Len(Tail(socket)) /\ (k - 1) + 1 = k
        BY <1>2, <3>3
      <4>2. socket'[k - 1] = socket[k]
        BY <1>1, <1>2, <4>1
      <4> QED
        BY <1>1, <3>1, <4>1, <4>2 DEF Waits
    <3> QED
      BY <3>2, <3>3
  <2> QED
    BY <1>1, <1>10, <2>1, <2>2 DEF Delivery
<1>11. spc' \in {"open", "send"} => read' % BUF_SIZE = 0
  BY <1>1 DEF Delivery
<1> QED
  BY <1>1, <1>7, <1>8, <1>9, <1>10, <1>11 DEF Delivery

(* The account holds always.                                               *)
LEMMA DeliveryAlways ==
    ASSUME Faults \subseteq {"loss"}
    PROVE  Spec => []Delivery
<1>1. Init => Delivery
  <2>1. 0 % BUF_SIZE = 0
    BY FileAssumption
  <2> QED
    BY <2>1 DEF Init, Delivery, Aligned, EmptyIsEnd
<1>2. TypeOK /\ Delivery /\ [Next]_vars => Delivery'
  <2> SUFFICES ASSUME TypeOK, Delivery, [Next]_vars PROVE Delivery'
    OBVIOUS
  <2>1. CASE send_path \/ recv_path \/ UNCHANGED vars
    <3>1. /\ UNCHANGED <<length, read, socket, written, lost>>
          /\ EndSent => EndSent'
          /\ spc' \in {"open", "send"} => spc \in {"open", "send"}
          /\ rpc' = "done" => rpc = "done"
          /\ rpc' # "failed" => rpc # "failed"
      BY <2>1 DEF send_path, recv_path, vars, EndSent
    <3> QED
      BY <3>1 DEF Delivery, Aligned, EmptyIsEnd, Written, Waits
  <2> QED
    BY <2>1, DeliverySent, DeliveryReceived DEF Next
<1> QED
  BY <1>1, <1>2, FileTypes, PTL DEF Spec

(* On such a network a receiver that returns 0 has received a file of      *)
(* whole buffers, and unless a datagram was lost, everything of it but the *)
(* last byte of each buffer, in order (execute.c:60-86, client.c:90-113).  *)
THEOREM FileEndedCopy ==
    ASSUME Faults \subseteq {"loss"}
    PROVE  Spec => []EndedCopy
<1>1. TypeOK /\ Delivery /\ Stream => EndedCopy
  <2> SUFFICES ASSUME TypeOK, Delivery, Stream, rpc = "done", ~lost
               PROVE  Range(written) = Kept
    BY DEF Delivery, EndSent, Stream, EndedCopy, AllKept
  <2>1. socket = <<>> /\ read = length
    BY DEF Delivery, EndSent
  <2>2. ASSUME NEW p \in Kept PROVE p \in Range(written)
    <3>1. p \in 1 .. read /\ p % BUF_SIZE # 0
      BY <2>1 DEF Kept
    <3>2. ~Waits(socket, p)
      BY <2>1 DEF Waits
    <3>3. Written(p)
      BY <3>1, <3>2 DEF Delivery
    <3> QED
      BY <3>3, LenProperties DEF Written, Range, TypeOK
  <2>3. ASSUME NEW i \in 1 .. Len(written) PROVE written[i] \in Kept
    <3>1. written[i] \in 1 .. length
      BY LenProperties DEF TypeOK
    <3> QED
      BY <3>1 DEF Kept, Delivery
  <2>4. DOMAIN written = 1 .. Len(written)
    BY LenProperties DEF TypeOK
  <2> QED
    BY <2>2, <2>3, <2>4 DEF Range
<1> QED
  BY <1>1, FileTypes, StreamAlways, DeliveryAlways, PTL
=============================================================================
