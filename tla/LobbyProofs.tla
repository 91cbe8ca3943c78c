---------------------------- MODULE LobbyProofs -----------------------------
(***************************************************************************)
(* Theorems about the dispatcher and its command lines for any clients,    *)
(* any games and any number of commands: the types on every network, the   *)
(* match of replies with commands on one that doubles no datagram, and,    *)
(* without faults, what becomes of every command.                          *)
(***************************************************************************)
EXTENDS Lobby, UdpProofs, FiniteSetTheorems

-----------------------------------------------------------------------------
(* Types.                                                                  *)

(* What the programs send to the dispatcher is a datagram it can read.     *)
LEMMA CommandTypes ==
    /\ \A c \in Clients, cmd \in {"Connection", "QUIT", "PWD", "OK"} :
          /\ Command(c, cmd) \in Datagrams
          /\ Command(c, cmd).from = c /\ Command(c, cmd).cmd = cmd
    /\ \A c \in Clients, k \in Numbers :
          /\ GameCommand(c, k) \in Datagrams
          /\ GameCommand(c, k).from = c /\ GameCommand(c, k).cmd = "GAME"
          /\ GameCommand(c, k).arg = k
BY DEF Command, GameCommand, Datagrams, Numbers

(* A send to the dispatcher keeps the type of its socket.                  *)
LEMMA ToDispatcherType ==
    ASSUME inbox \in Seq(Datagrams), NEW m \in Datagrams, ToDispatcher(m)
    PROVE  inbox' \in Seq(Datagrams)
BY ArrivalsType DEF ToDispatcher

(* What the dispatcher reads was sent by a client.                         *)
LEMMA HeadRead ==
    ASSUME TypeOK, inbox # <<>>
    PROVE  /\ Head(inbox) \in Datagrams /\ Tail(inbox) \in Seq(Datagrams)
           /\ Head(inbox).from \in Clients /\ Head(inbox).arg \in Numbers
           /\ Len(inbox) \in Nat \ {0} /\ Head(inbox) = inbox[1]
           /\ Len(Tail(inbox)) = Len(inbox) - 1
           /\ \A i \in 1 .. Len(inbox) - 1 : Tail(inbox)[i] = inbox[i + 1]
<1>1. inbox \in Seq(Datagrams)
  BY DEF TypeOK
<1>2. /\ Head(inbox) \in Datagrams /\ Tail(inbox) \in Seq(Datagrams)
      /\ Head(inbox) = inbox[1] /\ Len(Tail(inbox)) = Len(inbox) - 1
      /\ \A i \in 1 .. Len(inbox) - 1 : Tail(inbox)[i] = inbox[i + 1]
  BY <1>1, HeadTailProperties
<1>3. Len(inbox) \in Nat \ {0}
  BY <1>1, LenProperties, EmptySeq
<1> QED
  BY <1>2, <1>3 DEF Datagrams

(* The dispatcher's steps keep every type.                                 *)
LEMMA DispatcherTypes ==
    ASSUME TypeOK, Boot \/ Dispatcher
    PROVE  TypeOK'
<1> USE LobbyAssumption
<1>1. CASE Boot
  BY <1>1 DEF Boot, TypeOK, cvars
<1>2. CASE Swallow
  <2>1. eaten' \subseteq Datagrams
    BY <1>2, HeadRead DEF Swallow, TypeOK
  <2> QED
    BY <1>2, <2>1, HeadRead DEF Swallow, TypeOK, cvars
<1>3. CASE ServeReply
  <2> DEFINE m == Head(inbox)
  <2>1. /\ m.from \in Clients /\ m.cmd \in {"QUIT", "PWD"}
        /\ inbox' \in Seq(Datagrams)
    BY <1>3, HeadRead DEF ServeReply
  <2>2. PICK q : /\ replies' = [replies EXCEPT ![m.from] = q]
                 /\ q = replies[m.from] \/ q \in Arrivals(replies[m.from], m.cmd)
    BY <1>3 DEF ServeReply, Answer
  <2>3. q \in Seq({"QUIT", "PWD"})
    BY <2>1, <2>2, ArrivalsType DEF TypeOK
  <2> QED
    BY <1>3, <2>1, <2>2, <2>3 DEF ServeReply, TypeOK, cvars, dvars
<1>4. CASE ServeUnknown
  BY <1>4, HeadRead DEF ServeUnknown, TypeOK, cvars, dvars
<1>5. CASE ServeGame
  BY <1>5, HeadRead DEF ServeGame, TypeOK, cvars, dvars
<1>6. CASE GameServerEnds
  BY <1>6 DEF GameServerEnds, ServerReaped, TypeOK, cvars
<1> QED
  BY <1>1, <1>2, <1>3, <1>4, <1>5, <1>6 DEF Dispatcher

(* So do the clients' and the games'.                                      *)
LEMMA ClientTypes ==
    ASSUME TypeOK, NEW c \in Clients,
           \/ ClientStart(c) \/ Client(c) \/ ClientKilled(c) \/ Meet(c) \/ Miss(c)
           \/ \E cmd \in {"QUIT", "PWD"} : UserAsks(c, cmd)
           \/ \E a \in Arguments : UserPlays(c, a)
    PROVE  TypeOK'
<1> USE LobbyAssumption
<1>1. CASE ClientStart(c)
  <2>1. inbox' \in Seq(Datagrams)
    <3>1. Command(c, "Connection") \in Datagrams /\ inbox \in Seq(Datagrams)
      BY CommandTypes DEF TypeOK
    <3>2. \A q \in Arrivals(inbox, Command(c, "Connection")) :
             Arrivals(q, Command(c, "Connection")) \subseteq Seq(Datagrams)
      BY <3>1, ArrivalsType
    <3> QED
      BY <1>1, <3>1, <3>2 DEF ClientStart
  <2> QED
    BY <1>1, <2>1 DEF ClientStart, TypeOK, dvars
<1>2. ASSUME NEW cmd \in {"QUIT", "PWD"}, UserAsks(c, cmd)
      PROVE  TypeOK'
  <2>1. inbox' \in Seq(Datagrams)
    BY <1>2, ToDispatcherType, CommandTypes DEF UserAsks, TypeOK
  <2>2. left' \in [Clients -> 0 .. MaxCommands]
    BY <1>2 DEF UserAsks, TypeOK
  <2> QED
    BY <1>2, <2>1, <2>2 DEF UserAsks, TypeOK, dvars
<1>3. ASSUME NEW a \in Arguments, UserPlays(c, a)
      PROVE  TypeOK'
  <2>1. fbuf' \in [Clients -> Numbers]
    BY <1>3 DEF UserPlays, TypeOK, Numbers
  <2>2. inbox' \in Seq(Datagrams)
    BY <1>3, <2>1, ToDispatcherType, CommandTypes DEF UserPlays, TypeOK
  <2>3. left' \in [Clients -> 0 .. MaxCommands]
    BY <1>3 DEF UserPlays, TypeOK
  <2> QED
    BY <1>3, <2>1, <2>2, <2>3 DEF UserPlays, TypeOK, dvars
<1>4. CASE ClientReply(c)
  <2>1. (IF cpc[c] = "quit" THEN <<>> ELSE Tail(replies[c])) \in Seq({"QUIT", "PWD"})
    BY <1>4, EmptyHasType, HeadTailProperties DEF ClientReply, TypeOK
  <2> QED
    BY <1>4, <2>1 DEF ClientReply, TypeOK, dvars
<1>5. CASE GameClientEnds(c)
  <2>1. inbox' \in Seq(Datagrams)
    BY <1>5, ToDispatcherType, CommandTypes DEF GameClientEnds, ClientReaped, TypeOK
  <2> QED
    BY <1>5, <2>1 DEF GameClientEnds, ClientReaped, TypeOK, dvars
<1>6. CASE ClientKilled(c)
  <2>1. <<>> \in Seq({"QUIT", "PWD"})
    BY EmptyHasType
  <2> QED
    BY <1>6, <2>1 DEF ClientKilled, TypeOK, dvars
<1>7. CASE Meet(c)
  BY <1>7 DEF Meet, Met, TypeOK
<1>8. CASE Miss(c)
  BY <1>8 DEF Miss, TypeOK, dvars
<1> QED
  BY <1>1, <1>2, <1>3, <1>4, <1>5, <1>6, <1>7, <1>8 DEF Client

(* The dispatcher has a child exactly while it waits for one, and clients  *)
(* receive nothing but replies, on every network (execute.c:186-231,       *)
(* client.c:149-216).                                                      *)
THEOREM LobbyTypes == Spec => []TypeOK
<1>1. Init => TypeOK
  <2>1. <<>> \in Seq(Datagrams) /\ <<>> \in Seq({"QUIT", "PWD"})
    BY EmptyHasType
  <2>2. MaxCommands \in 0 .. MaxCommands
    BY LobbyAssumption
  <2> SUFFICES ASSUME Init PROVE TypeOK
    OBVIOUS
  <2>3. left \in [Clients -> 0 .. MaxCommands] /\ replies \in [Clients -> Seq({"QUIT", "PWD"})]
    BY <2>1, <2>2 DEF Init
  <2> QED
    BY <2>1, <2>3 DEF Init, TypeOK
<1>2. TypeOK /\ [Next]_vars => TypeOK'
  <2>1. TypeOK /\ UNCHANGED vars => TypeOK'
    BY DEF vars, dvars, cvars, TypeOK
  <2> QED
    BY <2>1, DispatcherTypes, ClientTypes DEF Next
<1> QED
  BY <1>1, <1>2, PTL DEF Spec

-----------------------------------------------------------------------------
(* What a client may be waiting for.                                       *)

(* A client that has asked for cmd has its command in the dispatcher's     *)
(* socket q, or the reply to it in its own socket r, or nothing at all.    *)
Blocked(q, r, c, cmd) ==
    \/ /\ r = <<>>
       /\ \A i \in Asked(q, c) : q[i].cmd = cmd
       /\ \A i, j \in Asked(q, c) : i = j
    \/ r = <<cmd>> /\ Asked(q, c) = {}

(* A client that is not blocked has nothing in flight.                     *)
InFlight ==
    \A c \in Clients :
        /\ cpc[c] \in {"off", "prompt", "game"} => Asked(inbox, c) = {} /\ replies[c] = <<>>
        /\ cpc[c] = "quit" => Blocked(inbox, replies[c], c, "QUIT")
        /\ cpc[c] = "pwd" => Blocked(inbox, replies[c], c, "PWD")

(* Asking again, of a shorter socket: what is left was there before.       *)
LEMMA AskedOfTail ==
    ASSUME NEW q \in Seq(Datagrams), q # <<>>, NEW c
    PROVE  \A i \in Asked(Tail(q), c) : i + 1 \in Asked(q, c) /\ Tail(q)[i] = q[i + 1]
<1>1. /\ Len(q) \in Nat \ {0} /\ Len(Tail(q)) = Len(q) - 1
      /\ \A i \in 1 .. Len(q) - 1 : Tail(q)[i] = q[i + 1]
  BY HeadTailProperties, LenProperties, EmptySeq
<1> SUFFICES ASSUME NEW i \in Asked(Tail(q), c)
             PROVE  i + 1 \in Asked(q, c) /\ Tail(q)[i] = q[i + 1]
  OBVIOUS
<1>2. i \in 1 .. Len(q) - 1 /\ i + 1 \in 1 .. Len(q)
  BY <1>1 DEF Asked
<1>3. Tail(q)[i] = q[i + 1]
  BY <1>1, <1>2
<1> QED
  BY <1>2, <1>3 DEF Asked

(* Reading a datagram leaves a client no more than it had in flight.       *)
LEMMA ReadKeeps ==
    ASSUME NEW q \in Seq(Datagrams), q # <<>>, NEW r, NEW c, NEW cmd
    PROVE  /\ Asked(q, c) = {} => Asked(Tail(q), c) = {}
           /\ Blocked(q, r, c, cmd) => Blocked(Tail(q), r, c, cmd)
<1>1. \A i \in Asked(Tail(q), c) : i + 1 \in Asked(q, c) /\ Tail(q)[i] = q[i + 1]
  BY AskedOfTail
<1>2. Asked(q, c) = {} => Asked(Tail(q), c) = {}
  BY <1>1
<1>3. ASSUME \A i, j \in Asked(q, c) : i = j,
             NEW i \in Asked(Tail(q), c), NEW j \in Asked(Tail(q), c)
      PROVE  i = j
  <2>1. i \in Int /\ j \in Int
    BY DEF Asked
  <2>2. i + 1 = j + 1
    BY <1>1, <1>3
  <2> QED
    BY <2>1, <2>2
<1> QED
  BY <1>1, <1>2, <1>3 DEF Blocked

(* Nor does a datagram that is neither "quit" nor "pwd", or another's.     *)
LEMMA OtherSent ==
    ASSUME NEW q \in Seq(Datagrams), NEW m \in Datagrams, NEW c,
           m.from # c \/ m.cmd \notin {"QUIT", "PWD"}
    PROVE  /\ Asked(Append(q, m), c) = Asked(q, c)
           /\ \A r, cmd : Blocked(q, r, c, cmd) => Blocked(Append(q, m), r, c, cmd)
<1>1. /\ Len(q) \in Nat /\ Len(Append(q, m)) = Len(q) + 1
      /\ Append(q, m)[Len(q) + 1] = m
      /\ \A i \in 1 .. Len(q) : Append(q, m)[i] = q[i]
  BY AppendProperties, LenProperties
<1>2. Asked(Append(q, m), c) = Asked(q, c)
  BY <1>1 DEF Asked
<1>3. \A i \in Asked(q, c) : Append(q, m)[i] = q[i]
  BY <1>1 DEF Asked
<1> QED
  BY <1>2, <1>3 DEF Blocked

(* A command sent from the prompt is the only one in flight.               *)
LEMMA OwnSent ==
    ASSUME NEW q \in Seq(Datagrams), NEW m \in Datagrams, NEW c, Asked(q, c) = {},
           m.from = c, m.cmd \in {"QUIT", "PWD"}
    PROVE  /\ Asked(Append(q, m), c) = {Len(q) + 1}
           /\ Blocked(Append(q, m), <<>>, c, m.cmd)
<1>1. /\ Len(q) \in Nat /\ Len(Append(q, m)) = Len(q) + 1
      /\ Append(q, m)[Len(q) + 1] = m
      /\ \A i \in 1 .. Len(q) : Append(q, m)[i] = q[i]
  BY AppendProperties, LenProperties
<1>2. Asked(Append(q, m), c) = {Len(q) + 1}
  BY <1>1 DEF Asked
<1> QED
  BY <1>1, <1>2 DEF Blocked

(* A command that overtakes others is still the one it was.                *)
LEMMA AskedInserted ==
    ASSUME NEW q \in Seq(Datagrams), NEW m \in Datagrams, NEW k \in 1 .. Len(q) + 1, NEW r,
           Inserted(q, k, m, r), NEW c, NEW i \in Asked(r, c)
    PROVE  /\ i \in Int /\ k \in Int
           /\ i = k => r[i] = m /\ m.from = c /\ m.cmd \in {"QUIT", "PWD"}
           /\ i < k => i \in Asked(q, c) /\ r[i] = q[i]
           /\ i > k => i - 1 \in Asked(q, c) /\ r[i] = q[i - 1]
<1>1. Len(q) \in Nat /\ i \in 1 .. Len(q) + 1 /\ r[i].from = c /\ r[i].cmd \in {"QUIT", "PWD"}
  BY LenProperties DEF Asked, Inserted
<1>2. i = k => r[i] = m /\ m.from = c /\ m.cmd \in {"QUIT", "PWD"}
  BY <1>1 DEF Inserted
<1>3. ASSUME i < k PROVE i \in Asked(q, c) /\ r[i] = q[i]
  <2>1. i \in 1 .. k - 1 /\ i \in 1 .. Len(q)
    BY <1>1, <1>3
  <2> QED
    BY <1>1, <2>1 DEF Inserted, Asked
<1>4. ASSUME i > k PROVE i - 1 \in Asked(q, c) /\ r[i] = q[i - 1]
  <2>1. i \in k + 1 .. Len(q) + 1 /\ i - 1 \in 1 .. Len(q)
    BY <1>1, <1>4
  <2> QED
    BY <1>1, <2>1 DEF Inserted, Asked
<1> QED
  BY <1>1, <1>2, <1>3, <1>4

(* A datagram of somebody else, or none that is answered, changes nothing  *)
(* for a client wherever it arrives.                                       *)
LEMMA OtherArrives ==
    ASSUME "duplicate" \notin Faults, NEW q \in Seq(Datagrams), NEW m \in Datagrams,
           NEW r \in Arrivals(q, m), NEW c, m.from # c \/ m.cmd \notin {"QUIT", "PWD"}
    PROVE  /\ Asked(q, c) = {} => Asked(r, c) = {}
           /\ \A p, cmd : Blocked(q, p, c, cmd) => Blocked(r, p, c, cmd)
<1>1. CASE r = q
  BY <1>1
<1>2. ASSUME NEW k \in 1 .. Len(q) + 1, Inserted(q, k, m, r)
      PROVE  /\ Asked(q, c) = {} => Asked(r, c) = {}
             /\ \A p, cmd : Blocked(q, p, c, cmd) => Blocked(r, p, c, cmd)
  <2>1. ASSUME NEW i \in Asked(r, c)
        PROVE  /\ i \in Int /\ k \in Int
               /\ \/ i < k /\ i \in Asked(q, c) /\ r[i] = q[i]
                  \/ i > k /\ i - 1 \in Asked(q, c) /\ r[i] = q[i - 1]
    BY <1>2, AskedInserted
  <2>2. Asked(q, c) = {} => Asked(r, c) = {}
    BY <2>1
  <2>3. ASSUME \A i, j \in Asked(q, c) : i = j, NEW i \in Asked(r, c), NEW j \in Asked(r, c)
        PROVE  i = j
    <3>1. /\ i \in Int /\ k \in Int /\ j \in Int
          /\ (i < k /\ i \in Asked(q, c)) \/ (i > k /\ i - 1 \in Asked(q, c))
          /\ (j < k /\ j \in Asked(q, c)) \/ (j > k /\ j - 1 \in Asked(q, c))
      BY <2>1
    <3>2. i < k /\ j > k /\ j - 1 \in Asked(q, c) => i = j - 1
      BY <2>3, <3>1
    <3>3. j < k /\ i > k /\ i - 1 \in Asked(q, c) => j = i - 1
      BY <2>3, <3>1
    <3>4. i - 1 \in Asked(q, c) /\ j - 1 \in Asked(q, c) => i - 1 = j - 1
      BY <2>3
    <3> QED
      BY <2>3, <3>1, <3>2, <3>3, <3>4
  <2>4. ASSUME NEW p, NEW cmd, Blocked(q, p, c, cmd) PROVE Blocked(r, p, c, cmd)
    <3>1. CASE p = <<cmd>> /\ Asked(q, c) = {}
      BY <2>2, <3>1 DEF Blocked
    <3>2. CASE /\ p = <<>> /\ \A i \in Asked(q, c) : q[i].cmd = cmd
               /\ \A i, j \in Asked(q, c) : i = j
      <4>1. \A i \in Asked(r, c) : r[i].cmd = cmd
        BY <2>1, <3>2
      <4>2. \A i, j \in Asked(r, c) : i = j
        BY <2>3, <3>2
      <4> QED
        BY <3>2, <4>1, <4>2 DEF Blocked
    <3> QED
      BY <2>4, <3>1, <3>2 DEF Blocked
  <2> QED
    BY <2>2, <2>4
<1> QED
  BY <1>1, <1>2, SingleArrivals

(* And a client's own command is then the only one in flight.              *)
LEMMA OwnArrives ==
    ASSUME "duplicate" \notin Faults, NEW q \in Seq(Datagrams), NEW m \in Datagrams,
           NEW r \in Arrivals(q, m), NEW c, Asked(q, c) = {}, m.from = c
    PROVE  Blocked(r, <<>>, c, m.cmd)
<1>1. CASE r = q
  BY <1>1 DEF Blocked
<1>2. ASSUME NEW k \in 1 .. Len(q) + 1, Inserted(q, k, m, r) PROVE Blocked(r, <<>>, c, m.cmd)
  <2>1. ASSUME NEW i \in Asked(r, c) PROVE i = k /\ r[i] = m
    BY <1>2, AskedInserted
  <2> QED
    BY <2>1 DEF Blocked
<1> QED
  BY <1>1, <1>2, SingleArrivals

(* A send that concerns no "quit" and no "pwd" of anybody.                 *)
LEMMA SmallTalkSent ==
    ASSUME "duplicate" \notin Faults, inbox \in Seq(Datagrams), NEW m \in Datagrams,
           m.cmd \notin {"QUIT", "PWD"}, ToDispatcher(m)
    PROVE  /\ inbox' \in Seq(Datagrams)
           /\ \A c \in Clients :
                 /\ Asked(inbox, c) = {} => Asked(inbox', c) = {}
                 /\ \A r, cmd : Blocked(inbox, r, c, cmd) => Blocked(inbox', r, c, cmd)
<1>1. inbox' = inbox \/ inbox' \in Arrivals(inbox, m)
  BY DEF ToDispatcher
<1> QED
  BY <1>1, OtherArrives, ToDispatcherType

(* Every step that reads one datagram, without an answer, or none.         *)
LEMMA ReadInFlight ==
    ASSUME TypeOK, InFlight, UNCHANGED <<cpc, replies>>,
           inbox' = inbox \/ (inbox # <<>> /\ inbox' = Tail(inbox))
    PROVE  InFlight'
<1>1. \A c \in Clients :
         /\ Asked(inbox, c) = {} => Asked(inbox', c) = {}
         /\ \A r, cmd : Blocked(inbox, r, c, cmd) => Blocked(inbox', r, c, cmd)
  <2>1. CASE inbox' = inbox
    BY <2>1
  <2>2. CASE inbox # <<>> /\ inbox' = Tail(inbox)
    <3>1. inbox \in Seq(Datagrams)
      BY DEF TypeOK
    <3> QED
      BY <2>2, <3>1, ReadKeeps
  <2> QED
    BY <2>1, <2>2
<1> QED
  BY <1>1 DEF InFlight

(* A reply goes to the client that is blocked on it, or to nobody.         *)
LEMMA ServeReplyInFlight ==
    ASSUME "duplicate" \notin Faults, TypeOK, InFlight, ServeReply
    PROVE  InFlight'
<1> DEFINE m == Head(inbox)
           c == m.from
<1>1. /\ c \in Clients /\ m.cmd \in {"QUIT", "PWD"} /\ UNCHANGED cpc
      /\ inbox # <<>> /\ inbox' = Tail(inbox) /\ inbox \in Seq(Datagrams)
  BY HeadRead DEF ServeReply, cvars, TypeOK
<1>2. 1 \in Asked(inbox, c) /\ inbox[1].cmd = m.cmd
  BY <1>1, HeadRead DEF Asked
<1>3. \A d \in Clients :
         /\ Asked(inbox, d) = {} => Asked(inbox', d) = {}
         /\ \A r, cmd : Blocked(inbox, r, d, cmd) => Blocked(inbox', r, d, cmd)
  BY <1>1, ReadKeeps
<1>4. PICK q : /\ replies' = [replies EXCEPT ![c] = q]
               /\ q = replies[c] \/ (cpc[c] # "exited" /\ q \in Arrivals(replies[c], m.cmd))
  BY DEF ServeReply, Answer
<1>5. \A d \in Clients \ {c} : replies'[d] = replies[d]
  BY <1>4 DEF TypeOK
<1>6. replies'[c] = q
  BY <1>1, <1>4 DEF TypeOK
<1>7. ASSUME cpc[c] # "exited"
      PROVE  /\ cpc[c] = (IF m.cmd = "QUIT" THEN "quit" ELSE "pwd")
             /\ Blocked(inbox', q, c, m.cmd)
  <2>1. Asked(inbox, c) # {}
    BY <1>2
  <2>2. cpc[c] \in {"quit", "pwd"}
    BY <1>1, <1>7, <2>1 DEF InFlight, TypeOK
  <2>3. Blocked(inbox, replies[c], c, IF cpc[c] = "quit" THEN "QUIT" ELSE "PWD")
    BY <1>1, <2>2 DEF InFlight
  <2>4. /\ m.cmd = (IF cpc[c] = "quit" THEN "QUIT" ELSE "PWD")
        /\ replies[c] = <<>> /\ \A i \in Asked(inbox, c) : i = 1
    BY <1>2, <2>1, <2>3 DEF Blocked
  <2>5. Asked(inbox', c) = {}
    <3>1. \A i \in Asked(inbox', c) : i \in Nat \ {0} /\ i + 1 = 1
      BY <1>1, <2>4, AskedOfTail DEF Asked
    <3> QED
      BY <3>1
  <2>6. q = <<>> \/ q = <<m.cmd>>
    BY <1>1, <1>4, <2>4, FirstArrival
  <2> QED
    BY <2>2, <2>4, <2>5, <2>6 DEF Blocked
<1>8. \A d \in Clients \ {c} :
        /\ cpc[d] \in {"off", "prompt", "game"} => Asked(inbox', d) = {} /\ replies'[d] = <<>>
        /\ cpc[d] = "quit" => Blocked(inbox', replies'[d], d, "QUIT")
        /\ cpc[d] = "pwd" => Blocked(inbox', replies'[d], d, "PWD")
  BY <1>3, <1>5 DEF InFlight
<1>9. /\ cpc[c] \notin {"off", "prompt", "game"}
      /\ cpc[c] = "quit" => Blocked(inbox', replies'[c], c, "QUIT")
      /\ cpc[c] = "pwd" => Blocked(inbox', replies'[c], c, "PWD")
  BY <1>1, <1>6, <1>7
<1> HIDE DEF m, c
<1> QED
  BY <1>1, <1>8, <1>9 DEF InFlight

(* A client asks from its prompt, with nothing else in flight.             *)
LEMMA UserAsksInFlight ==
    ASSUME "duplicate" \notin Faults, TypeOK, InFlight,
           NEW c \in Clients, NEW cmd \in {"QUIT", "PWD"}, UserAsks(c, cmd)
    PROVE  InFlight'
<1> DEFINE m == Command(c, cmd)
<1>1. m \in Datagrams /\ m.from = c /\ m.cmd = cmd /\ inbox \in Seq(Datagrams)
  BY CommandTypes DEF TypeOK
<1>2. inbox' = inbox \/ inbox' \in Arrivals(inbox, m)
  BY DEF UserAsks, ToDispatcher
<1>3. cpc[c] = "prompt" /\ UNCHANGED replies
      /\ cpc' \in {[cpc EXCEPT ![c] = IF cmd = "QUIT" THEN "quit" ELSE "pwd"],
                   [cpc EXCEPT ![c] = "exited"]}
  BY DEF UserAsks
<1>4. Asked(inbox, c) = {} /\ replies[c] = <<>>
  BY <1>3 DEF InFlight
<1>5. Blocked(inbox', <<>>, c, cmd)
  <2>1. CASE inbox' = inbox
    BY <1>4, <2>1 DEF Blocked
  <2>2. CASE inbox' \in Arrivals(inbox, m)
    BY <1>1, <1>4, <2>2, OwnArrives
  <2> QED
    BY <1>2, <2>1, <2>2
<1>6. \A d \in Clients \ {c} :
         /\ Asked(inbox, d) = {} => Asked(inbox', d) = {}
         /\ \A r, x : Blocked(inbox, r, d, x) => Blocked(inbox', r, d, x)
  <2>1. CASE inbox' = inbox
    BY <2>1
  <2>2. CASE inbox' \in Arrivals(inbox, m)
    BY <1>1, <2>2, OtherArrives
  <2> QED
    BY <1>2, <2>1, <2>2
<1>7. /\ \A d \in Clients \ {c} : cpc'[d] = cpc[d]
      /\ cpc'[c] = (IF cmd = "QUIT" THEN "quit" ELSE "pwd") \/ cpc'[c] = "exited"
  BY <1>3 DEF TypeOK
<1> QED
  BY <1>3, <1>4, <1>5, <1>6, <1>7 DEF InFlight

(* The rest of a client's steps sends no request and reads only its reply. *)
LEMMA ClientInFlight ==
    ASSUME "duplicate" \notin Faults, TypeOK, InFlight, NEW c \in Clients,
           \/ ClientStart(c) \/ Client(c) \/ ClientKilled(c) \/ Meet(c) \/ Miss(c)
           \/ \E a \in Arguments : UserPlays(c, a)
    PROVE  InFlight'
<1> DEFINE Kept == \A d \in Clients :
                      /\ Asked(inbox, d) = {} => Asked(inbox', d) = {}
                      /\ \A r, cmd : Blocked(inbox, r, d, cmd) => Blocked(inbox', r, d, cmd)
<1>1. inbox \in Seq(Datagrams) /\ cpc \in [Clients -> {"off", "prompt", "quit", "pwd", "game", "exited"}]
  BY DEF TypeOK
<1>2. CASE ClientStart(c)
  <2> DEFINE m == Command(c, "Connection")
  <2>1. m \in Datagrams /\ m.cmd \notin {"QUIT", "PWD"}
    BY CommandTypes
  <2>2. \/ inbox' = inbox
        \/ \E q \in Arrivals(inbox, m) : inbox' \in Arrivals(q, m)
    BY <1>2 DEF ClientStart
  <2>3. ASSUME NEW q \in Arrivals(inbox, m), inbox' \in Arrivals(q, m) PROVE Kept
    <3>1. q \in Seq(Datagrams)
      BY <1>1, <2>1, ArrivalsType
    <3>2. \A d \in Clients :
             /\ Asked(inbox, d) = {} => Asked(q, d) = {}
             /\ \A r, cmd : Blocked(inbox, r, d, cmd) => Blocked(q, r, d, cmd)
      BY <1>1, <2>1, <2>3, OtherArrives
    <3>3. \A d \in Clients :
             /\ Asked(q, d) = {} => Asked(inbox', d) = {}
             /\ \A r, cmd : Blocked(q, r, d, cmd) => Blocked(inbox', r, d, cmd)
      BY <2>1, <2>3, <3>1, OtherArrives
    <3> QED
      BY <3>2, <3>3
  <2>4. Kept
    BY <2>2, <2>3
  <2> QED
    BY <1>1, <1>2, <2>4 DEF ClientStart, InFlight
<1>3. ASSUME NEW a \in Arguments, UserPlays(c, a) PROVE InFlight'
  <2>1. fbuf'[c] \in Numbers
    BY <1>3, LobbyAssumption DEF UserPlays, TypeOK, Numbers
  <2>2. Kept
    BY <1>1, <1>3, <2>1, CommandTypes, SmallTalkSent DEF UserPlays
  <2>3. UNCHANGED replies /\ cpc[c] = "prompt"
        /\ cpc' \in {[cpc EXCEPT ![c] = "game"], [cpc EXCEPT ![c] = "exited"]}
    BY <1>3 DEF UserPlays
  <2> QED
    BY <1>1, <2>2, <2>3 DEF InFlight
<1>4. CASE ClientReply(c)
  <2>1. /\ cpc[c] \in {"quit", "pwd"} /\ replies[c] # <<>> /\ UNCHANGED inbox
        /\ cpc' = [cpc EXCEPT ![c] = IF cpc[c] = "quit" THEN "exited" ELSE "prompt"]
        /\ replies' = [replies EXCEPT ![c] = IF cpc[c] = "quit" THEN <<>> ELSE Tail(replies[c])]
    BY <1>4 DEF ClientReply
  <2>2. Asked(inbox, c) = {} /\ \E cmd \in {"QUIT", "PWD"} : replies[c] = <<cmd>>
    BY <2>1 DEF InFlight, Blocked
  <2>3. Tail(replies[c]) = <<>>
    BY <2>2
  <2>4. replies'[c] = <<>> /\ \A d \in Clients \ {c} : replies'[d] = replies[d]
    BY <2>1, <2>3 DEF TypeOK
  <2>5. cpc'[c] \in {"exited", "prompt"} /\ \A d \in Clients \ {c} : cpc'[d] = cpc[d]
    BY <1>1, <2>1
  <2> QED
    BY <2>1, <2>2, <2>4, <2>5 DEF InFlight
<1>5. CASE GameClientEnds(c)
  <2>1. Kept
    BY <1>1, <1>5, CommandTypes, SmallTalkSent DEF GameClientEnds, ClientReaped
  <2>2. UNCHANGED replies /\ cpc[c] = "game" /\ cpc' = [cpc EXCEPT ![c] = "prompt"]
    BY <1>5 DEF GameClientEnds, ClientReaped
  <2> QED
    BY <1>1, <2>1, <2>2 DEF InFlight
<1>6. CASE ClientKilled(c)
  <2>1. /\ UNCHANGED inbox
        /\ cpc' = [cpc EXCEPT ![c] = "exited"] /\ replies' = [replies EXCEPT ![c] = <<>>]
    BY <1>6 DEF ClientKilled
  <2>2. cpc'[c] = "exited"
        /\ \A d \in Clients \ {c} : cpc'[d] = cpc[d] /\ replies'[d] = replies[d]
    BY <1>1, <2>1 DEF TypeOK
  <2> QED
    BY <2>1, <2>2 DEF InFlight
<1>7. CASE Meet(c) \/ Miss(c)
  BY <1>7 DEF Meet, Met, Miss, InFlight
<1> QED
  BY <1>2, <1>3, <1>4, <1>5, <1>6, <1>7 DEF Client

(* A client has at most its one command or the reply to it in flight, and  *)
(* none at its prompt.                                                     *)
LEMMA InFlightAlways ==
    ASSUME "duplicate" \notin Faults
    PROVE  Spec => []InFlight
<1>1. Init => InFlight
  BY DEF Init, InFlight, Asked
<1>2. TypeOK /\ InFlight /\ [Next]_vars => InFlight'
  <2> SUFFICES ASSUME TypeOK, InFlight, [Next]_vars PROVE InFlight'
    OBVIOUS
  <2>1. CASE Boot \/ Swallow \/ ServeUnknown \/ ServeGame \/ GameServerEnds \/ UNCHANGED vars
    <3>1. /\ UNCHANGED <<cpc, replies>>
          /\ inbox' = inbox \/ (inbox # <<>> /\ inbox' = Tail(inbox))
      BY <2>1 DEF Boot, Swallow, ServeUnknown, ServeGame, GameServerEnds, ServerReaped,
                  vars, cvars
    <3> QED
      BY <3>1, ReadInFlight
  <2>2. CASE ServeReply
    BY <2>2, ServeReplyInFlight
  <2> QED
    BY <2>1, <2>2, UserAsksInFlight, ClientInFlight DEF Next, Dispatcher
<1> QED
  BY <1>1, <1>2, LobbyTypes, PTL DEF Spec

(* What is in flight, counted.                                             *)
LEMMA AskedCounted ==
    ASSUME NEW q \in Seq(Datagrams), NEW c, \A i, j \in Asked(q, c) : i = j
    PROVE  Cardinality(Asked(q, c)) = IF Asked(q, c) = {} THEN 0 ELSE 1
<1>1. CASE Asked(q, c) = {}
  BY <1>1, FS_EmptySet
<1>2. CASE Asked(q, c) # {}
  <2>1. PICK i : Asked(q, c) = {i}
    BY <1>2
  <2> QED
    BY <1>2, <2>1, FS_Singleton
<1> QED
  BY <1>1, <1>2

(* No client takes a reply for the answer to another command, and none at  *)
(* its prompt has left one behind (client.c:168 and 180), although a reply *)
(* may be lost with the game that came between.                            *)
THEOREM LobbyRepliesMatch ==
    ASSUME "duplicate" \notin Faults
    PROVE  Spec => []RepliesMatch
<1>1. TypeOK /\ InFlight => RepliesMatch
  <2> SUFFICES ASSUME TypeOK, InFlight, NEW c \in Clients, cpc[c] # "exited"
               PROVE  /\ Pending(c) <= IF cpc[c] \in {"quit", "pwd"} THEN 1 ELSE 0
                      /\ replies[c] # <<>> =>
                            Head(replies[c]) = IF cpc[c] = "quit" THEN "QUIT" ELSE "PWD"
    BY DEF RepliesMatch
  <2>1. inbox \in Seq(Datagrams)
    BY DEF TypeOK
  <2>2. CASE cpc[c] \in {"off", "prompt", "game"}
    <3>1. Asked(inbox, c) = {} /\ replies[c] = <<>>
      BY <2>2 DEF InFlight
    <3>2. Cardinality(Asked(inbox, c)) = 0 /\ Len(replies[c]) = 0
      BY <3>1, FS_EmptySet
    <3> QED
      BY <2>2, <3>1, <3>2 DEF Pending
  <2>3. CASE cpc[c] \in {"quit", "pwd"}
    <3>1. Blocked(inbox, replies[c], c, IF cpc[c] = "quit" THEN "QUIT" ELSE "PWD")
      BY <2>3 DEF InFlight
    <3>2. CASE replies[c] = <<>> /\ \A i, j \in Asked(inbox, c) : i = j
      <4>1. Cardinality(Asked(inbox, c)) \in {0, 1} /\ Len(replies[c]) = 0
        BY <2>1, <3>2, AskedCounted
      <4> QED
        BY <2>3, <3>2, <4>1 DEF Pending
    <3>3. CASE /\ replies[c] = <<IF cpc[c] = "quit" THEN "QUIT" ELSE "PWD">>
               /\ Asked(inbox, c) = {}
      <4>1. Cardinality(Asked(inbox, c)) = 0 /\ Len(replies[c]) = 1
        BY <3>3, FS_EmptySet
      <4>2. Head(replies[c]) = IF cpc[c] = "quit" THEN "QUIT" ELSE "PWD"
        BY <3>3
      <4> QED
        BY <2>3, <4>1, <4>2 DEF Pending
    <3> QED
      BY <3>1, <3>2, <3>3 DEF Blocked
  <2> QED
    BY <2>2, <2>3 DEF TypeOK
<1> QED
  BY <1>1, LobbyTypes, InFlightAlways, PTL

-----------------------------------------------------------------------------
(* What becomes of the commands, on a network without faults.              *)

(* The dispatcher's socket has room for the two datagrams of a client that *)
(* starts: MaxCommands bounds what the players type, not when.             *)
Room == Len(inbox) + 1 < Capacity

(* A command of c has been read by a recvfrom that drops what it reads.    *)
Dropped(c) == \E m \in eaten : m.from = c /\ m.cmd # "GAME"

(* A client that is blocked with nothing in flight has had its command     *)
(* dropped, and only such a client.                                        *)
Conserved ==
    \A c \in Clients :
        /\ cpc[c] # "off" => Listening
        /\ cpc[c] \in {"off", "prompt", "game"} => ~Dropped(c)
        /\ cpc[c] \in {"quit", "pwd"} =>
              (Dropped(c) <=> Asked(inbox, c) = {} /\ replies[c] = <<>>)

(* Reading a datagram takes nothing of the clients that did not send it.   *)
LEMMA AskedWithoutHead ==
    ASSUME NEW q \in Seq(Datagrams), q # <<>>, NEW c
    PROVE  Asked(Tail(q), c) = {} <=> Asked(q, c) \subseteq {1}
<1>1. /\ Len(q) \in Nat \ {0} /\ Len(Tail(q)) = Len(q) - 1
      /\ \A i \in 1 .. Len(q) - 1 : Tail(q)[i] = q[i + 1]
  BY HeadTailProperties, LenProperties, EmptySeq
<1>2. ASSUME NEW i \in Asked(q, c), i # 1 PROVE i - 1 \in Asked(Tail(q), c)
  <2>1. i \in 1 .. Len(q) /\ i - 1 \in 1 .. Len(q) - 1 /\ (i - 1) + 1 = i
    BY <1>1, <1>2 DEF Asked
  <2>2. Tail(q)[i - 1] = q[i]
    BY <1>1, <2>1
  <2> QED
    BY <1>1, <2>1, <2>2 DEF Asked
<1>3. ASSUME NEW i \in Asked(Tail(q), c) PROVE i + 1 \in Asked(q, c) /\ i + 1 # 1
  <2>1. i \in Nat \ {0}
    BY DEF Asked
  <2> QED
    BY <2>1, AskedOfTail
<1> QED
  BY <1>2, <1>3

(* A datagram that the dispatcher reads was the only one of its client, if *)
(* it was a command the client waits for.                                  *)
LEMMA OnlyCommand ==
    ASSUME TypeOK, InFlight, inbox # <<>>, NEW c \in Clients, cpc[c] # "exited"
    PROVE  IF Head(inbox).from = c /\ Head(inbox).cmd \in {"QUIT", "PWD"}
           THEN /\ cpc[c] \in {"quit", "pwd"} /\ replies[c] = <<>>
                /\ Asked(inbox, c) # {} /\ Asked(Tail(inbox), c) = {}
           ELSE Asked(Tail(inbox), c) = {} <=> Asked(inbox, c) = {}
<1>1. inbox \in Seq(Datagrams) /\ Len(inbox) \in Nat \ {0} /\ Head(inbox) = inbox[1]
  BY HeadRead DEF TypeOK
<1>2. Asked(Tail(inbox), c) = {} <=> Asked(inbox, c) \subseteq {1}
  BY <1>1, AskedWithoutHead
<1>3. CASE Head(inbox).from = c /\ Head(inbox).cmd \in {"QUIT", "PWD"}
  <2>1. 1 \in Asked(inbox, c)
    BY <1>1, <1>3 DEF Asked
  <2>2. cpc[c] \in {"quit", "pwd"}
    BY <2>1 DEF InFlight, TypeOK
  <2>3. replies[c] = <<>> /\ \A i \in Asked(inbox, c) : i = 1
    BY <2>1, <2>2 DEF InFlight, Blocked
  <2> QED
    BY <1>2, <1>3, <2>1, <2>2, <2>3
<1>4. CASE ~(Head(inbox).from = c /\ Head(inbox).cmd \in {"QUIT", "PWD"})
  <2>1. 1 \notin Asked(inbox, c)
    BY <1>1, <1>4 DEF Asked
  <2> QED
    BY <1>2, <1>4, <2>1
<1> QED
  BY <1>3, <1>4

(* On a network without faults a datagram sent to the dispatcher arrives.  *)
LEMMA ToDispatcherArrives ==
    ASSUME Faults = {}, Room, inbox \in Seq(Datagrams), NEW m, ToDispatcher(m), Listening
    PROVE  inbox' = Append(inbox, m)
<1>1. Len(inbox) \in Nat /\ Len(inbox) < Capacity
  BY LenProperties, NetworkAssumption DEF Room
<1> QED
  BY <1>1, FaultlessArrivals DEF ToDispatcher

(* The dispatcher's steps account for every command.                       *)
LEMMA DispatcherConserves ==
    ASSUME Faults = {}, TypeOK, InFlight, Conserved, Dispatcher
    PROVE  Conserved'
<1>1. dpc \in {"first", "serve", "game", "ack"} /\ dpc' \in {"serve", "game", "ack"}
      /\ UNCHANGED cpc /\ inbox \in Seq(Datagrams)
  BY DEF Dispatcher, Swallow, ServeReply, ServeUnknown, ServeGame, GameServerEnds,
         ServerReaped, cvars, dvars, TypeOK
<1>2. CASE Swallow
  <2> SUFFICES ASSUME NEW c \in Clients, cpc[c] # "exited"
               PROVE  /\ cpc[c] \in {"off", "prompt", "game"} => ~Dropped(c)'
                      /\ cpc[c] \in {"quit", "pwd"} =>
                            (Dropped(c)' <=> Asked(inbox', c) = {} /\ replies'[c] = <<>>)
    BY <1>1 DEF Conserved, Listening, TypeOK
  <2>1. /\ inbox # <<>> /\ inbox' = Tail(inbox) /\ UNCHANGED replies
        /\ eaten' = eaten \cup {d \in {Head(inbox)} : d.cmd \in {"QUIT", "PWD", "GAME"}}
    BY <1>2 DEF Swallow
  <2>2. Dropped(c)' <=> \/ Dropped(c)
                        \/ Head(inbox).from = c /\ Head(inbox).cmd \in {"QUIT", "PWD"}
    BY <2>1 DEF Dropped
  <2> QED
    BY <2>1, <2>2, OnlyCommand DEF Conserved
<1>3. CASE ServeReply
  <2> SUFFICES ASSUME NEW c \in Clients, cpc[c] # "exited"
               PROVE  /\ cpc[c] \in {"off", "prompt", "game"} => ~Dropped(c)'
                      /\ cpc[c] \in {"quit", "pwd"} =>
                            (Dropped(c)' <=> Asked(inbox', c) = {} /\ replies'[c] = <<>>)
    BY <1>1 DEF Conserved, Listening, TypeOK
  <2> DEFINE m == Head(inbox)
  <2>1. /\ inbox # <<>> /\ inbox' = Tail(inbox) /\ m.cmd \in {"QUIT", "PWD"}
        /\ m.from \in Clients
    BY <1>3, HeadRead DEF ServeReply
  <2>2. Dropped(c)' <=> Dropped(c)
    BY <1>3 DEF ServeReply, Dropped
  <2>3. PICK q : /\ replies' = [replies EXCEPT ![m.from] = q]
                 /\ q \in IF cpc[m.from] = "exited" THEN {replies[m.from]}
                                                    ELSE Arrivals(replies[m.from], m.cmd)
    BY <1>3 DEF ServeReply, Answer
  <2>4. CASE m.from # c
    <3>1. replies'[c] = replies[c]
      BY <2>3, <2>4 DEF TypeOK
    <3> QED
      BY <2>1, <2>2, <2>4, <3>1, OnlyCommand DEF Conserved
  <2>5. CASE m.from = c
    <3>1. cpc[c] \in {"quit", "pwd"} /\ replies[c] = <<>> /\ Asked(inbox, c) # {}
      BY <2>1, <2>5, OnlyCommand
    <3>2. Arrivals(<<>>, m.cmd) = {Append(<<>>, m.cmd)}
      <4>1. Len(<<>>) \in Nat /\ Len(<<>>) < Capacity
        BY NetworkAssumption
      <4> QED
        BY <4>1, FaultlessArrivals
    <3>3. q = <<m.cmd>>
      BY <2>3, <2>5, <3>1, <3>2
    <3>4. replies'[c] = <<m.cmd>>
      BY <2>3, <2>5, <3>3 DEF TypeOK
    <3>5. ~Dropped(c)
      BY <3>1 DEF Conserved
    <3> QED
      BY <2>2, <3>1, <3>4, <3>5
  <2> QED
    BY <2>4, <2>5
<1>4. CASE ServeUnknown \/ ServeGame
  <2> SUFFICES ASSUME NEW c \in Clients, cpc[c] # "exited"
               PROVE  /\ cpc[c] \in {"off", "prompt", "game"} => ~Dropped(c)'
                      /\ cpc[c] \in {"quit", "pwd"} =>
                            (Dropped(c)' <=> Asked(inbox', c) = {} /\ replies'[c] = <<>>)
    BY <1>1 DEF Conserved, Listening, TypeOK
  <2>1. /\ inbox # <<>> /\ inbox' = Tail(inbox) /\ Head(inbox).cmd \notin {"QUIT", "PWD"}
        /\ UNCHANGED <<replies, eaten>>
    BY <1>4 DEF ServeUnknown, ServeGame
  <2>2. Dropped(c)' <=> Dropped(c)
    BY <2>1 DEF Dropped
  <2> QED
    BY <2>1, <2>2, OnlyCommand DEF Conserved
<1>5. CASE GameServerEnds
  BY <1>1, <1>5 DEF GameServerEnds, ServerReaped, Conserved, Dropped, Listening
<1> QED
  BY <1>2, <1>3, <1>4, <1>5 DEF Dispatcher

(* The clients' steps account for every command.                           *)
LEMMA ClientConserves ==
    ASSUME Faults = {}, UserWaits, TypeOK, InFlight, Conserved, Room, NEW c \in Clients,
           \/ ClientStart(c) \/ Client(c) \/ ClientKilled(c) \/ Meet(c) \/ Miss(c)
           \/ \E cmd \in {"QUIT", "PWD"} : UserAsks(c, cmd)
           \/ \E a \in Arguments : UserPlays(c, a)
    PROVE  Conserved'
<1> DEFINE Kept == \A d \in Clients : Asked(inbox', d) = Asked(inbox, d)
<1>1. /\ inbox \in Seq(Datagrams) /\ Len(inbox) \in Nat
      /\ cpc \in [Clients -> {"off", "prompt", "quit", "pwd", "game", "exited"}]
  BY LenProperties DEF TypeOK
<1>2. /\ UNCHANGED <<dpc, eaten>> /\ (Listening' <=> Listening)
      /\ \A d \in Clients : Dropped(d)' <=> Dropped(d)
  BY DEF ClientStart, Client, ClientReply, GameClientEnds, ClientReaped, ClientKilled, Meet,
         Met, Miss, UserAsks, UserPlays, dvars, Listening, Dropped
<1>3. CASE ClientStart(c)
  <2> DEFINE m == Command(c, "Connection")
  <2>1. m \in Datagrams /\ m.cmd \notin {"QUIT", "PWD"} /\ Listening
    BY <1>3, CommandTypes DEF ClientStart
  <2>2. Arrivals(inbox, m) = {Append(inbox, m)}
    <3>1. Len(inbox) < Capacity
      BY <1>1, NetworkAssumption DEF Room
    <3> QED
      BY <1>1, <3>1, FaultlessArrivals
  <2>3. /\ Append(inbox, m) \in Seq(Datagrams)
        /\ Arrivals(Append(inbox, m), m) = {Append(Append(inbox, m), m)}
    <3>1. Append(inbox, m) \in Seq(Datagrams) /\ Len(Append(inbox, m)) = Len(inbox) + 1
      BY <1>1, <2>1, AppendProperties
    <3>2. Len(Append(inbox, m)) \in Nat /\ Len(Append(inbox, m)) < Capacity
      BY <1>1, <3>1 DEF Room
    <3> QED
      BY <3>1, <3>2, FaultlessArrivals
  <2>4. inbox' = Append(Append(inbox, m), m)
    BY <1>3, <2>1, <2>2, <2>3 DEF ClientStart
  <2>5. Kept
    <3>1. \A d \in Clients : /\ Asked(Append(inbox, m), d) = Asked(inbox, d)
                             /\ Asked(inbox', d) = Asked(Append(inbox, m), d)
      BY <1>1, <2>1, <2>3, <2>4, OtherSent
    <3> QED
      BY <3>1
  <2>6. UNCHANGED replies /\ cpc[c] = "off" /\ cpc' = [cpc EXCEPT ![c] = "prompt"]
    BY <1>3 DEF ClientStart
  <2> QED
    BY <1>1, <1>2, <2>1, <2>5, <2>6 DEF Conserved
<1>4. ASSUME NEW cmd \in {"QUIT", "PWD"}, UserAsks(c, cmd)
      PROVE  Conserved'
  <2> DEFINE m == Command(c, cmd)
  <2>1. m \in Datagrams /\ m.from = c /\ m.cmd = cmd
    BY CommandTypes
  <2>2. cpc[c] = "prompt" /\ UNCHANGED replies /\ Listening /\ ~Dropped(c)
    BY <1>4 DEF UserAsks, Conserved
  <2>3. inbox' = Append(inbox, m)
    BY <1>1, <1>4, <2>2, ToDispatcherArrives DEF UserAsks
  <2>4. Asked(inbox', c) # {} /\ \A d \in Clients \ {c} : Asked(inbox', d) = Asked(inbox, d)
    <3>1. Asked(inbox, c) = {}
      BY <2>2 DEF InFlight
    <3>2. Asked(inbox', c) = {Len(inbox) + 1}
      BY <1>1, <2>1, <2>3, <3>1, OwnSent
    <3>3. \A d \in Clients \ {c} : Asked(inbox', d) = Asked(inbox, d)
      BY <1>1, <2>1, <2>3, OtherSent
    <3> QED
      BY <3>2, <3>3
  <2>5. cpc' = [cpc EXCEPT ![c] = IF cmd = "QUIT" THEN "quit" ELSE "pwd"]
    BY <1>4, <2>2 DEF UserAsks
  <2>6. cpc'[c] \in {"quit", "pwd"} /\ \A d \in Clients \ {c} : cpc'[d] = cpc[d]
    BY <1>1, <2>5
  <2> QED
    BY <1>2, <2>2, <2>4, <2>6 DEF Conserved
<1>5. ASSUME NEW a \in Arguments, UserPlays(c, a)
      PROVE  Conserved'
  <2> DEFINE m == GameCommand(c, fbuf'[c])
  <2>1. cpc[c] = "prompt" /\ UNCHANGED replies /\ Listening
        /\ cpc' \in {[cpc EXCEPT ![c] = "game"], [cpc EXCEPT ![c] = "exited"]}
    BY <1>5 DEF UserPlays, Conserved
  <2>2. fbuf'[c] \in Numbers
    BY <1>5, LobbyAssumption DEF UserPlays, TypeOK, Numbers
  <2>3. inbox' = Append(inbox, m) /\ m \in Datagrams /\ m.cmd = "GAME"
    BY <1>1, <1>5, <2>1, <2>2, CommandTypes, ToDispatcherArrives DEF UserPlays
  <2>4. Kept
    BY <1>1, <2>3, OtherSent
  <2> QED
    BY <1>1, <1>2, <2>1, <2>4 DEF Conserved
<1>6. CASE GameClientEnds(c)
  <2> DEFINE m == Command(c, "OK")
  <2>1. cpc[c] = "game" /\ UNCHANGED replies /\ Listening /\ cpc' = [cpc EXCEPT ![c] = "prompt"]
    BY <1>6 DEF GameClientEnds, ClientReaped, Conserved
  <2>2. inbox' = Append(inbox, m) /\ m \in Datagrams /\ m.cmd = "OK"
    BY <1>1, <1>6, <2>1, CommandTypes, ToDispatcherArrives DEF GameClientEnds, ClientReaped
  <2>3. Kept
    BY <1>1, <2>2, OtherSent
  <2> QED
    BY <1>1, <1>2, <2>1, <2>3 DEF Conserved
<1>7. CASE ClientReply(c) \/ ClientKilled(c)
  <2>1. /\ UNCHANGED inbox /\ cpc'[c] \in {"prompt", "exited"} /\ cpc[c] # "off"
        /\ cpc'[c] = "prompt" => cpc[c] \in {"quit", "pwd"} /\ replies[c] # <<>>
        /\ \A d \in Clients \ {c} : cpc'[d] = cpc[d] /\ replies'[d] = replies[d]
    BY <1>1, <1>7 DEF ClientReply, ClientKilled, TypeOK
  <2> QED
    BY <1>2, <2>1 DEF Conserved
<1>8. CASE Meet(c) \/ Miss(c)
  <2>1. UNCHANGED <<inbox, cpc, replies>>
    BY <1>8 DEF Meet, Met, Miss
  <2> QED
    BY <1>2, <2>1 DEF Conserved
<1> QED
  BY <1>3, <1>4, <1>5, <1>6, <1>7, <1>8 DEF Client

(* On a network without faults, with players that start after the          *)
(* dispatcher and as long as its socket has room, every command is in      *)
(* flight, answered, or was read by one of the two recvfroms that drop     *)
(* what they read (execute.c:303 and 226).                                 *)
THEOREM LobbyRequestConserved ==
    ASSUME Faults = {}, UserWaits
    PROVE  Spec /\ []Room => []RequestConserved
<1>1. Init => Conserved
  BY DEF Init, Conserved, Dropped
<1>2. TypeOK /\ InFlight /\ Conserved /\ Room /\ [Next]_vars => Conserved'
  <2>1. TypeOK /\ InFlight /\ Conserved /\ Boot => Conserved'
    <3> SUFFICES ASSUME TypeOK, Conserved, Boot PROVE Conserved'
      OBVIOUS
    <3>1. \A c \in Clients : cpc[c] = "off" /\ ~Dropped(c)
      BY DEF Boot, Conserved, Listening
    <3>2. UNCHANGED <<cpc, inbox, replies, eaten>>
      BY DEF Boot, cvars
    <3> QED
      BY <3>1, <3>2 DEF Conserved, Dropped
  <2>2. Conserved /\ UNCHANGED vars => Conserved'
    BY DEF vars, dvars, cvars, Conserved, Dropped, Listening
  <2> QED
    BY <2>1, <2>2, DispatcherConserves, ClientConserves DEF Next
<1>3. TypeOK /\ InFlight /\ Conserved => RequestConserved
  <2> SUFFICES ASSUME TypeOK, InFlight, Conserved, NEW c \in Clients, cpc[c] \in {"quit", "pwd"}
               PROVE  Pending(c) = IF Dropped(c) THEN 0 ELSE 1
    BY DEF RequestConserved, Dropped
  <2>1. Dropped(c) <=> Asked(inbox, c) = {} /\ replies[c] = <<>>
    BY DEF Conserved
  <2>2. \E cmd : Blocked(inbox, replies[c], c, cmd)
    BY DEF InFlight
  <2>3. CASE replies[c] = <<>> /\ \A i, j \in Asked(inbox, c) : i = j
    <3>1. Cardinality(Asked(inbox, c)) = IF Asked(inbox, c) = {} THEN 0 ELSE 1
      BY <2>3, AskedCounted DEF TypeOK
    <3> QED
      BY <2>1, <2>3, <3>1 DEF Pending
  <2>4. CASE Asked(inbox, c) = {} /\ \E cmd : replies[c] = <<cmd>>
    <3>1. Cardinality(Asked(inbox, c)) = 0 /\ Len(replies[c]) = 1 /\ replies[c] # <<>>
      BY <2>4, FS_EmptySet
    <3> QED
      BY <2>1, <3>1 DEF Pending
  <2> QED
    BY <2>2, <2>3, <2>4 DEF Blocked
<1>4. "duplicate" \notin Faults
  OBVIOUS
<1>5. Spec => []InFlight
  BY <1>4, InFlightAlways
<1> QED
  BY <1>1, <1>2, <1>3, <1>5, LobbyTypes, PTL DEF Spec

-----------------------------------------------------------------------------
(* One player, who stays, types an argument every time, and whose games    *)
(* start as they should.                                                   *)

(* The instance, with a socket that holds all that the player can send.    *)
Alone(p) ==
    /\ Clients = {p}
    /\ Faults = {} /\ Capacity >= 2 + 2 * MaxCommands
    /\ UserWaits /\ ServerBound /\ ~ProcessesFail /\ ~PlayersLeave
    /\ "nothing" \notin Arguments

(* The half of a game that a game command has started.                     *)
Started(m) == IF m.arg = "bad" THEN "over" ELSE m.arg

(* The datagrams of the one player come in an order that the dispatcher    *)
(* follows: an "OK" behind every game command but the last one, and at the *)
(* front exactly when the dispatcher is in a game or behind it; a game     *)
(* that has a server in it is the last command.                            *)
Sequence(p) ==
    LET n == Len(inbox)
    IN  /\ \A i \in 2 .. n : inbox[i].cmd = "OK" => inbox[i - 1].cmd = "GAME"
        /\ \A i \in 1 .. n - 1 : inbox[i].cmd = "GAME" =>
              inbox[i + 1].cmd = "OK" /\ inbox[i].arg = "bad"
        /\ n >= 1 /\ inbox[n].cmd = "GAME" =>
              cpc[p] = "game" /\ game[p] = Started(inbox[n])
        /\ n >= 1 /\ inbox[1].cmd = "OK" => dpc \in {"game", "ack"}

(* Where the dispatcher is tells what is at the front of its socket, and,  *)
(* when that is nothing, where the player is.                              *)
Paired(p) ==
    /\ dpc # "exited" /\ (cpc[p] # "off" => dpc # "boot")
    /\ cpc[p] = "off" => inbox = <<>> /\ dpc \in {"boot", "first"}
    /\ dpc = "first" /\ cpc[p] # "off" => Len(inbox) >= 1 /\ inbox[1].cmd = "Connection"
    /\ dpc = "game" /\ ~met => inbox = <<>> /\ cpc[p] = "game" /\ game[p] = child
    /\ dpc = "ack" \/ (dpc = "game" /\ met) =>
          \/ inbox = <<>> /\ cpc[p] = "game" /\ game[p] = "over"
          \/ Len(inbox) >= 1 /\ inbox[1].cmd = "OK"
    /\ cpc[p] = "game" =>
          IF inbox = <<>> THEN dpc \in {"game", "ack"} ELSE inbox[Len(inbox)].cmd = "GAME"

(* The socket holds at most two datagrams of each command typed so far.    *)
Spare(p) ==
    cpc[p] # "off" =>
        Len(inbox) + (IF cpc[p] = "game" THEN 1 ELSE 0) <= 2 + 2 * (MaxCommands - left[p])

Orderly(p) == eaten = {} /\ Sequence(p) /\ Paired(p) /\ Spare(p)

(* A datagram sent by the player arrives.                                  *)
LEMMA SentByPlayer ==
    ASSUME NEW p, Alone(p), TypeOK, Orderly(p), cpc[p] # "off", Len(inbox) < 2 + 2 * MaxCommands,
           NEW m \in Datagrams, ToDispatcher(m)
    PROVE  /\ inbox' = Append(inbox, m) /\ Len(inbox') = Len(inbox) + 1
           /\ inbox'[Len(inbox) + 1] = m
           /\ \A i \in 1 .. Len(inbox) : inbox'[i] = inbox[i]
<1>1. inbox \in Seq(Datagrams) /\ Len(inbox) \in Nat
  BY LenProperties DEF TypeOK
<1>2. Listening
  BY DEF Orderly, Paired, Listening
<1>3. Len(inbox) < Capacity
  BY <1>1, NetworkAssumption, LobbyAssumption DEF Alone
<1>4. inbox' = Append(inbox, m)
  BY <1>1, <1>2, <1>3, FaultlessArrivals DEF ToDispatcher, Alone
<1> QED
  BY <1>1, <1>4, AppendProperties

(* Reading the front of the socket keeps the order of what is behind it.   *)
LEMMA ReadKeepsSequence ==
    ASSUME NEW p, TypeOK, Sequence(p), inbox # <<>>, inbox' = Tail(inbox),
           UNCHANGED <<cpc, game>>,
           Head(inbox).cmd = "GAME" => dpc' \in {"game", "ack"}
    PROVE  Sequence(p)'
<1> DEFINE n == Len(inbox)
<1>1. /\ n \in Nat \ {0} /\ Len(inbox') = n - 1 /\ Head(inbox) = inbox[1]
      /\ \A i \in 1 .. n - 1 : inbox'[i] = inbox[i + 1]
  BY HeadRead
<1>2. \A i \in 2 .. n - 1 : inbox'[i].cmd = "OK" => inbox'[i - 1].cmd = "GAME"
  <2> SUFFICES ASSUME NEW i \in 2 .. n - 1, inbox'[i].cmd = "OK" PROVE inbox'[i - 1].cmd = "GAME"
    OBVIOUS
  <2>1. i + 1 \in 2 .. n /\ i \in 1 .. n - 1 /\ i - 1 \in 1 .. n - 1 /\ (i + 1) - 1 = i /\ (i - 1) + 1 = i
    BY <1>1
  <2> QED
    BY <1>1, <2>1 DEF Sequence
<1>3. \A i \in 1 .. (n - 1) - 1 : inbox'[i].cmd = "GAME" =>
         inbox'[i + 1].cmd = "OK" /\ inbox'[i].arg = "bad"
  <2> TAKE i \in 1 .. (n - 1) - 1
  <2>1. i \in 1 .. n - 1 /\ i + 1 \in 1 .. n - 1
    BY <1>1
  <2> QED
    BY <1>1, <2>1 DEF Sequence
<1>4. n - 1 >= 1 /\ inbox'[n - 1].cmd = "GAME" =>
         cpc'[p] = "game" /\ game'[p] = Started(inbox'[n - 1])
  <2> SUFFICES ASSUME n - 1 >= 1, inbox'[n - 1].cmd = "GAME"
               PROVE  cpc[p] = "game" /\ game[p] = Started(inbox'[n - 1])
    OBVIOUS
  <2>1. n - 1 \in 1 .. n - 1 /\ (n - 1) + 1 = n /\ n >= 1
    BY <1>1
  <2>2. inbox'[n - 1] = inbox[n]
    BY <1>1, <2>1
  <2> QED
    BY <2>1, <2>2 DEF Sequence
<1>5. n - 1 >= 1 /\ inbox'[1].cmd = "OK" => dpc' \in {"game", "ack"}
  <2> SUFFICES ASSUME n - 1 >= 1, inbox'[1].cmd = "OK" PROVE Head(inbox).cmd = "GAME"
    OBVIOUS
  <2>1. 1 \in 1 .. n - 1 /\ 2 \in 2 .. n /\ 2 - 1 = 1 /\ 1 + 1 = 2
    BY <1>1
  <2> QED
    BY <1>1, <2>1 DEF Sequence
<1> QED
  BY <1>1, <1>2, <1>3, <1>4, <1>5 DEF Sequence, Started

(* The dispatcher's steps follow the player's order.                       *)
LEMMA DispatcherOrderly ==
    ASSUME NEW p, Alone(p), TypeOK, Orderly(p), Boot \/ Dispatcher
    PROVE  Orderly(p)'
<1> DEFINE n == Len(inbox)
<1>1. /\ ~ProcessesFail /\ ~Crowded /\ p \in Clients
      /\ Sequence(p) /\ Paired(p) /\ Spare(p) /\ eaten = {}
      /\ n \in Nat /\ (n = 0 <=> inbox = <<>>)
  BY LenProperties, EmptySeq DEF Alone, Crowded, Orderly, TypeOK
<1>2. CASE Boot
  <2>1. /\ dpc = "boot" /\ dpc' = "first"
        /\ UNCHANGED <<child, met, inbox, cpc, fbuf, game, left, eaten>>
    BY <1>1, <1>2 DEF Boot, cvars
  <2>2. cpc[p] = "off" /\ inbox = <<>>
    BY <1>1, <2>1 DEF Paired
  <2> QED
    BY <1>1, <2>1, <2>2 DEF Orderly, Sequence, Paired, Spare, Started
<1>3. CASE GameServerEnds
  <2>1. /\ dpc = "game" /\ met /\ dpc' = "ack"
        /\ UNCHANGED <<met, inbox, cpc, fbuf, game, left, eaten>>
    BY <1>1, <1>3 DEF GameServerEnds, ServerReaped, cvars
  <2>2. Sequence(p)' /\ Spare(p)'
    BY <1>1, <2>1 DEF Sequence, Spare, Started
  <2>3. Paired(p)'
    BY <1>1, <2>1 DEF Paired
  <2> QED
    BY <1>1, <2>1, <2>2, <2>3 DEF Orderly
<1>4. ASSUME inbox # <<>>, inbox' = Tail(inbox), UNCHANGED <<cpc, game, left>>
      PROVE  /\ n >= 1 /\ Len(inbox') = n - 1 /\ Head(inbox) = inbox[1]
             /\ \A i \in 1 .. n - 1 : inbox'[i] = inbox[i + 1]
             /\ inbox' = <<>> <=> n = 1
             /\ Spare(p)' /\ cpc[p] # "off"
             /\ cpc'[p] = "game" /\ inbox' # <<>> => inbox'[Len(inbox')].cmd = "GAME"
  <2>1. /\ n \in Nat \ {0} /\ Len(inbox') = n - 1 /\ Head(inbox) = inbox[1]
        /\ \A i \in 1 .. n - 1 : inbox'[i] = inbox[i + 1]
        /\ inbox' \in Seq(Datagrams)
    BY <1>4, HeadRead
  <2>2. inbox' = <<>> <=> n = 1
    BY <2>1, EmptyByLength
  <2>3. Spare(p)' /\ cpc[p] # "off"
    <3>1. cpc[p] # "off"
      BY <1>1, <1>4 DEF Paired
    <3>2. left[p] \in Int /\ MaxCommands \in Int
      BY <1>1, LobbyAssumption DEF TypeOK
    <3> QED
      BY <1>1, <1>4, <2>1, <3>1, <3>2 DEF Spare
  <2>4. ASSUME cpc'[p] = "game", inbox' # <<>> PROVE inbox'[Len(inbox')].cmd = "GAME"
    <3>1. inbox[n].cmd = "GAME"
      BY <1>1, <1>4, <2>4 DEF Paired
    <3>2. n - 1 \in 1 .. n - 1 /\ (n - 1) + 1 = n
      BY <2>1, <2>2, <2>4
    <3> QED
      BY <2>1, <3>1, <3>2
  <2> QED
    BY <2>1, <2>2, <2>3, <2>4
<1>5. CASE Swallow
  <2>1. /\ dpc \in {"first", "ack"} /\ dpc' = "serve" /\ inbox # <<>> /\ inbox' = Tail(inbox)
        /\ UNCHANGED <<child, met, cpc, game, left>>
        /\ eaten' = eaten \cup {d \in {Head(inbox)} : d.cmd \in {"QUIT", "PWD", "GAME"}}
    BY <1>5 DEF Swallow, cvars
  <2>2. Head(inbox).cmd \in {"Connection", "OK"} /\ cpc[p] # "off"
    BY <1>1, <1>4, <2>1 DEF Paired
  <2>3. eaten' = {}
    BY <1>1, <2>1, <2>2
  <2>4. Sequence(p)'
    BY <1>1, <2>1, <2>2, ReadKeepsSequence
  <2>5. ~(cpc[p] = "game" /\ inbox' = <<>>)
    <3> SUFFICES ASSUME cpc[p] = "game", inbox' = <<>> PROVE FALSE
      OBVIOUS
    <3>1. n = 1
      BY <1>4, <2>1
    <3>2. inbox[n].cmd = "GAME"
      BY <1>1, <2>1 DEF Paired
    <3> QED
      BY <1>4, <2>1, <2>2, <3>1, <3>2
  <2>6. Paired(p)'
    BY <1>4, <2>1, <2>2, <2>5 DEF Paired
  <2> QED
    BY <1>4, <2>1, <2>3, <2>4, <2>6 DEF Orderly
<1>6. CASE ServeReply \/ ServeUnknown
  <2>1. /\ dpc = "serve" /\ dpc' = "serve" /\ inbox # <<>> /\ inbox' = Tail(inbox)
        /\ UNCHANGED <<child, met, cpc, game, left, eaten>>
        /\ Head(inbox).cmd # "GAME"
    BY <1>6 DEF ServeReply, ServeUnknown, cvars, dvars
  <2>2. Sequence(p)'
    BY <1>1, <2>1, ReadKeepsSequence
  <2>3. ~(cpc[p] = "game" /\ inbox' = <<>>)
    <3> SUFFICES ASSUME cpc[p] = "game", inbox' = <<>> PROVE FALSE
      OBVIOUS
    <3>1. n = 1
      BY <1>4, <2>1
    <3>2. inbox[n].cmd = "GAME"
      BY <1>1, <2>1 DEF Paired
    <3> QED
      BY <1>4, <2>1, <3>1, <3>2
  <2>4. Paired(p)'
    BY <1>4, <2>1, <2>3 DEF Paired
  <2> QED
    BY <1>1, <1>4, <2>1, <2>2, <2>4 DEF Orderly
<1>7. CASE ServeGame
  <2> DEFINE m == Head(inbox)
  <2>1. /\ dpc = "serve" /\ inbox # <<>> /\ inbox' = Tail(inbox) /\ m.cmd = "GAME"
        /\ \/ m.arg \in Games /\ dpc' = "game" /\ child' = m.arg /\ met' = FALSE
           \/ m.arg = "bad" /\ dpc' = "ack"
        /\ UNCHANGED <<cpc, game, left, eaten>>
    BY <1>1, <1>7 DEF ServeGame, cvars
  <2>2. Sequence(p)'
    BY <1>1, <2>1, ReadKeepsSequence
  <2>3. "bad" \notin Games
    BY LobbyAssumption
  <2>4. CASE n = 1
    <3>1. inbox' = <<>> /\ cpc[p] = "game" /\ game[p] = Started(m)
      BY <1>1, <1>4, <2>1, <2>4 DEF Sequence
    <3> QED
      BY <1>1, <1>4, <2>1, <2>2, <2>3, <3>1 DEF Orderly, Paired, Started
  <2>5. CASE n > 1
    <3>1. 1 \in 1 .. n - 1 /\ 1 + 1 = 2
      BY <1>1, <2>5
    <3>2. m.arg = "bad" /\ inbox[2].cmd = "OK"
      BY <1>1, <1>4, <2>1, <3>1 DEF Sequence
    <3>3. inbox'[1].cmd = "OK" /\ Len(inbox') >= 1 /\ inbox' # <<>> /\ dpc' = "ack"
      BY <1>1, <1>4, <2>1, <2>3, <2>5, <3>1, <3>2
    <3> QED
      BY <1>1, <1>4, <2>1, <2>2, <3>3 DEF Orderly, Paired
  <2> QED
    BY <1>1, <1>4, <2>1, <2>4, <2>5
<1> QED
  BY <1>2, <1>3, <1>5, <1>6, <1>7 DEF Dispatcher

(* The player's steps keep the order.                                      *)
LEMMA PlayerOrderly ==
    ASSUME NEW p, Alone(p), TypeOK, Orderly(p),
           \/ ClientStart(p) \/ Client(p) \/ ClientKilled(p) \/ Meet(p) \/ Miss(p)
           \/ \E cmd \in {"QUIT", "PWD"} : UserAsks(p, cmd)
           \/ \E a \in Arguments : UserPlays(p, a)
    PROVE  Orderly(p)'
<1> DEFINE n == Len(inbox)
<1>1. /\ ~ProcessesFail /\ ~PlayersLeave /\ UserWaits /\ ServerBound /\ p \in Clients
      /\ Sequence(p) /\ Paired(p) /\ Spare(p) /\ eaten = {}
      /\ n \in Nat /\ (n = 0 <=> inbox = <<>>) /\ inbox \in Seq(Datagrams)
      /\ cpc[p] \in {"off", "prompt", "quit", "pwd", "game", "exited"}
      /\ left[p] \in 0 .. MaxCommands /\ MaxCommands \in Nat
  BY LenProperties, EmptySeq, LobbyAssumption DEF Alone, Orderly, TypeOK
<1>2. "bad" \notin Games /\ "over" \notin Games /\ "none" \notin Games
  BY LobbyAssumption
<1>3. CASE ClientStart(p)
  <2> DEFINE m == Command(p, "Connection")
  <2>1. /\ cpc[p] = "off" /\ cpc'[p] = "prompt" /\ Listening
        /\ UNCHANGED <<dpc, child, met, game, left, eaten>>
    BY <1>1, <1>3 DEF ClientStart, dvars, TypeOK
  <2>2. inbox = <<>> /\ dpc = "first"
    BY <1>1, <2>1 DEF Paired, Listening
  <2>3. Arrivals(<<>>, m) = {<<m>>} /\ Arrivals(<<m>>, m) = {<<m, m>>}
    <3>1. 0 < Capacity /\ 1 < Capacity
      BY <1>1, NetworkAssumption DEF Alone
    <3>0. m \in Datagrams
      BY <1>1, CommandTypes
    <3> HIDE DEF m
    <3>2. Len(<<>>) = 0 /\ Append(<<>>, m) = <<m>>
      OBVIOUS
    <3>3. Append(<<m>>, m) = <<m, m>> /\ Len(<<m>>) = 1
      BY <3>0, TwoElements
    <3>4. Arrivals(<<>>, m) = {<<m>>}
      BY <3>1, <3>2, FaultlessArrivals DEF Alone
    <3>5. Arrivals(<<m>>, m) = {<<m, m>>}
      BY <3>1, <3>3, FaultlessArrivals DEF Alone
    <3> QED
      BY <3>4, <3>5
  <2>4. inbox' = <<m, m>>
    BY <1>3, <2>1, <2>2, <2>3 DEF ClientStart
  <2>5. Len(inbox') = 2 /\ inbox'[1] = m /\ inbox'[2] = m /\ m.cmd = "Connection" /\ inbox' # <<>>
    BY <1>1, <2>4, CommandTypes
  <2>6. \A i \in 1 .. 2 : inbox'[i].cmd = "Connection"
    BY <2>5
  <2>7. Sequence(p)'
    BY <2>5, <2>6 DEF Sequence
  <2>8. Paired(p)'
    BY <2>1, <2>2, <2>5 DEF Paired
  <2>9. Spare(p)'
    BY <1>1, <2>1, <2>5 DEF Spare
  <2> QED
    BY <1>1, <2>1, <2>7, <2>8, <2>9 DEF Orderly
<1>4. ASSUME NEW cmd \in {"QUIT", "PWD"}, UserAsks(p, cmd) PROVE Orderly(p)'
  <2> DEFINE m == Command(p, cmd)
  <2>1. /\ cpc[p] = "prompt" /\ left[p] > 0 /\ left'[p] = left[p] - 1
        /\ UNCHANGED <<dpc, child, met, game, eaten>>
        /\ cpc'[p] \in {"quit", "pwd"}
    <3>1. Listening
      BY <1>1, <1>4 DEF UserAsks, Paired, Listening
    <3> QED
      BY <1>1, <1>4, <3>1 DEF UserAsks, dvars, TypeOK
  <2>2. n <= 2 + 2 * (MaxCommands - left[p]) /\ n < 2 + 2 * MaxCommands
    BY <1>1, <2>1 DEF Spare
  <2>3. /\ m \in Datagrams /\ m.cmd = cmd
        /\ inbox' = Append(inbox, m) /\ Len(inbox') = n + 1 /\ inbox'[n + 1] = m
        /\ \A i \in 1 .. n : inbox'[i] = inbox[i]
    BY <1>1, <1>4, <2>1, <2>2, CommandTypes, SentByPlayer DEF UserAsks
  <2>4. Sequence(p)'
    <3>1. n >= 1 => inbox[n].cmd # "GAME"
      BY <1>1, <2>1 DEF Sequence
    <3>2. \A i \in 2 .. n + 1 : inbox'[i].cmd = "OK" => inbox'[i - 1].cmd = "GAME"
      <4> SUFFICES ASSUME NEW i \in 2 .. n + 1, inbox'[i].cmd = "OK"
                   PROVE  inbox'[i - 1].cmd = "GAME"
        OBVIOUS
      <4>1. i # n + 1
        BY <2>3
      <4>2. i \in 2 .. n /\ i \in 1 .. n /\ i - 1 \in 1 .. n
        BY <1>1, <4>1
      <4> QED
        BY <1>1, <2>3, <4>2 DEF Sequence
    <3>3. \A i \in 1 .. (n + 1) - 1 : inbox'[i].cmd = "GAME" =>
             inbox'[i + 1].cmd = "OK" /\ inbox'[i].arg = "bad"
      <4> SUFFICES ASSUME NEW i \in 1 .. n, inbox'[i].cmd = "GAME"
                   PROVE  inbox'[i + 1].cmd = "OK" /\ inbox'[i].arg = "bad"
        BY <1>1
      <4>1. i # n /\ inbox[i].cmd = "GAME"
        BY <1>1, <2>3, <3>1
      <4>2. i \in 1 .. n - 1 /\ i + 1 \in 1 .. n
        BY <1>1, <4>1
      <4> QED
        BY <1>1, <2>3, <4>1, <4>2 DEF Sequence
    <3>4. inbox'[1].cmd = "OK" => dpc \in {"game", "ack"}
      BY <1>1, <2>3 DEF Sequence
    <3> QED
      BY <2>1, <2>3, <3>2, <3>3, <3>4 DEF Sequence
  <2>5. Paired(p)'
    BY <1>1, <2>1, <2>3 DEF Paired
  <2>6. Spare(p)'
    BY <1>1, <2>1, <2>2, <2>3 DEF Spare
  <2> QED
    BY <1>1, <2>1, <2>4, <2>5, <2>6 DEF Orderly
<1>5. ASSUME NEW a \in Arguments, UserPlays(p, a) PROVE Orderly(p)'
  <2> DEFINE m == GameCommand(p, a)
  <2>1. /\ cpc[p] = "prompt" /\ left[p] > 0 /\ left'[p] = left[p] - 1
        /\ UNCHANGED <<dpc, child, met, eaten>>
        /\ cpc'[p] = "game" /\ game'[p] = (IF a \in Games THEN a ELSE "over")
    BY <1>1, <1>5 DEF UserPlays, dvars, TypeOK
  <2>2. a \in Numbers /\ fbuf'[p] = a
    BY <1>1, <1>5, LobbyAssumption DEF UserPlays, Numbers, Alone, TypeOK
  <2>3. n <= 2 + 2 * (MaxCommands - left[p]) /\ n < 2 + 2 * MaxCommands
    BY <1>1, <2>1 DEF Spare
  <2>4. m \in Datagrams /\ m.cmd = "GAME" /\ m.arg = a
    BY <1>1, <2>2, CommandTypes
  <2>5. /\ inbox' = Append(inbox, m) /\ Len(inbox') = n + 1 /\ inbox'[n + 1] = m
        /\ \A i \in 1 .. n : inbox'[i] = inbox[i]
    BY <1>1, <1>5, <2>1, <2>2, <2>3, <2>4, SentByPlayer DEF UserPlays
  <2>6. game'[p] = Started(m)
    BY <1>2, <2>1, <2>2, <2>4 DEF Started, Numbers
  <2>7. Sequence(p)'
    <3>1. n >= 1 => inbox[n].cmd # "GAME"
      BY <1>1, <2>1 DEF Sequence
    <3>2. \A i \in 2 .. n + 1 : inbox'[i].cmd = "OK" => inbox'[i - 1].cmd = "GAME"
      <4> SUFFICES ASSUME NEW i \in 2 .. n + 1, inbox'[i].cmd = "OK"
                   PROVE  inbox'[i - 1].cmd = "GAME"
        OBVIOUS
      <4>1. i # n + 1
        BY <2>4, <2>5
      <4>2. i \in 2 .. n /\ i \in 1 .. n /\ i - 1 \in 1 .. n
        BY <1>1, <4>1
      <4> QED
        BY <1>1, <2>5, <4>2 DEF Sequence
    <3>3. \A i \in 1 .. (n + 1) - 1 : inbox'[i].cmd = "GAME" =>
             inbox'[i + 1].cmd = "OK" /\ inbox'[i].arg = "bad"
      <4> SUFFICES ASSUME NEW i \in 1 .. n, inbox'[i].cmd = "GAME"
                   PROVE  inbox'[i + 1].cmd = "OK" /\ inbox'[i].arg = "bad"
        BY <1>1
      <4>1. i # n /\ inbox[i].cmd = "GAME"
        BY <1>1, <2>5, <3>1
      <4>2. i \in 1 .. n - 1 /\ i + 1 \in 1 .. n
        BY <1>1, <4>1
      <4> QED
        BY <1>1, <2>5, <4>1, <4>2 DEF Sequence
    <3>4. inbox'[1].cmd = "OK" => dpc \in {"game", "ack"}
      BY <1>1, <2>4, <2>5 DEF Sequence
    <3> QED
      BY <2>1, <2>5, <2>6, <3>2, <3>3, <3>4 DEF Sequence
  <2>8. Paired(p)'
    <3>1. inbox' # <<>> /\ inbox'[Len(inbox')].cmd = "GAME"
      BY <1>1, <2>4, <2>5
    <3>2. dpc = "first" => Len(inbox') >= 1 /\ inbox'[1].cmd = "Connection"
      BY <1>1, <2>1, <2>5 DEF Paired
    <3>3. dpc = "ack" \/ (dpc = "game" /\ met) => Len(inbox') >= 1 /\ inbox'[1].cmd = "OK"
      BY <1>1, <2>1, <2>5 DEF Paired
    <3>4. ~(dpc = "game" /\ ~met) /\ dpc \notin {"boot", "exited"}
      BY <1>1, <2>1 DEF Paired
    <3> QED
      BY <2>1, <3>1, <3>2, <3>3, <3>4 DEF Paired
  <2>9. Spare(p)'
    BY <1>1, <2>1, <2>3, <2>5 DEF Spare
  <2> QED
    BY <1>1, <2>1, <2>7, <2>8, <2>9 DEF Orderly
<1>6. CASE ClientReply(p)
  <2>1. /\ cpc[p] \in {"quit", "pwd"} /\ cpc'[p] \in {"exited", "prompt"}
        /\ UNCHANGED <<dpc, child, met, inbox, game, left, eaten>>
    BY <1>1, <1>6 DEF ClientReply, dvars, TypeOK
  <2> QED
    BY <1>1, <2>1 DEF Orderly, Sequence, Paired, Spare, Started
<1>7. CASE GameClientEnds(p)
  <2> DEFINE m == Command(p, "OK")
  <2>1. /\ cpc[p] = "game" /\ cpc'[p] = "prompt" /\ game[p] = "over" /\ game'[p] = "none"
        /\ UNCHANGED <<dpc, child, met, left, eaten>>
    BY <1>1, <1>7 DEF GameClientEnds, ClientReaped, dvars, TypeOK
  <2>2. n + 1 <= 2 + 2 * (MaxCommands - left[p]) /\ n < 2 + 2 * MaxCommands
    BY <1>1, <2>1 DEF Spare
  <2>3. m \in Datagrams /\ m.cmd = "OK"
    BY <1>1, CommandTypes
  <2>4. /\ inbox' = Append(inbox, m) /\ Len(inbox') = n + 1 /\ inbox'[n + 1] = m
        /\ \A i \in 1 .. n : inbox'[i] = inbox[i]
    BY <1>1, <1>7, <2>1, <2>2, <2>3, SentByPlayer DEF GameClientEnds, ClientReaped
  <2>5. n >= 1 => inbox[n].cmd = "GAME" /\ inbox[n].arg = "bad"
    <3> SUFFICES ASSUME n >= 1 PROVE inbox[n].cmd = "GAME" /\ inbox[n].arg = "bad"
      OBVIOUS
    <3>1. inbox # <<>> /\ inbox[n].cmd = "GAME"
      BY <1>1, <2>1 DEF Paired
    <3>2. Started(inbox[n]) = "over"
      BY <1>1, <2>1, <3>1 DEF Sequence
    <3>3. inbox[n].arg \in Numbers
      <4>1. inbox[n] \in Datagrams
        BY <1>1, ElementOfSeq
      <4> QED
        BY <4>1 DEF Datagrams
    <3> QED
      BY <1>2, <3>1, <3>2, <3>3 DEF Started, Numbers
  <2>6. n = 0 => dpc \in {"game", "ack"}
    BY <1>1, <2>1 DEF Paired
  <2>7. Sequence(p)'
    <3>1. \A i \in 2 .. n + 1 : inbox'[i].cmd = "OK" => inbox'[i - 1].cmd = "GAME"
      <4> SUFFICES ASSUME NEW i \in 2 .. n + 1, inbox'[i].cmd = "OK"
                   PROVE  inbox'[i - 1].cmd = "GAME"
        OBVIOUS
      <4>1. CASE i = n + 1
        <5>1. n \in 1 .. n /\ i - 1 = n /\ n >= 1
          BY <1>1, <4>1
        <5> QED
          BY <2>4, <2>5, <5>1
      <4>2. CASE i # n + 1
        <5>1. i \in 2 .. n /\ i \in 1 .. n /\ i - 1 \in 1 .. n
          BY <1>1, <4>2
        <5> QED
          BY <1>1, <2>4, <5>1 DEF Sequence
      <4> QED
        BY <4>1, <4>2
    <3>2. \A i \in 1 .. (n + 1) - 1 : inbox'[i].cmd = "GAME" =>
             inbox'[i + 1].cmd = "OK" /\ inbox'[i].arg = "bad"
      <4> SUFFICES ASSUME NEW i \in 1 .. n, inbox'[i].cmd = "GAME"
                   PROVE  inbox'[i + 1].cmd = "OK" /\ inbox'[i].arg = "bad"
        BY <1>1
      <4>1. CASE i = n
        BY <1>1, <2>3, <2>4, <2>5, <4>1
      <4>2. CASE i # n
        <5>1. i \in 1 .. n - 1 /\ i + 1 \in 1 .. n
          BY <1>1, <4>2
        <5> QED
          BY <1>1, <2>4, <5>1 DEF Sequence
      <4> QED
        BY <4>1, <4>2
    <3>3. inbox'[1].cmd = "OK" => dpc \in {"game", "ack"}
      BY <1>1, <2>4, <2>6 DEF Sequence
    <3>4. inbox'[n + 1].cmd # "GAME"
      BY <2>3, <2>4
    <3> QED
      BY <2>1, <2>4, <3>1, <3>2, <3>3, <3>4 DEF Sequence
  <2>8. Paired(p)'
    <3>1. dpc = "first" => inbox'[1].cmd = "Connection"
      BY <1>1, <2>1, <2>4 DEF Paired
    <3>2. ~(dpc = "game" /\ ~met) /\ dpc \notin {"boot", "exited"}
      <4>1. child = "none" \/ child \in Games
        BY DEF TypeOK
      <4>2. child # "over"
        BY <1>2, <4>1
      <4> QED
        BY <1>1, <2>1, <4>2 DEF Paired
    <3>3. dpc = "ack" \/ (dpc = "game" /\ met) => inbox'[1].cmd = "OK"
      BY <1>1, <2>1, <2>3, <2>4 DEF Paired
    <3>4. Len(inbox') >= 1
      BY <1>1, <2>4
    <3> QED
      BY <2>1, <3>1, <3>2, <3>3, <3>4 DEF Paired
  <2>9. Spare(p)'
    BY <1>1, <2>1, <2>2, <2>4 DEF Spare
  <2> QED
    BY <1>1, <2>1, <2>7, <2>8, <2>9 DEF Orderly
<1>8. CASE Meet(p)
  <2>1. /\ dpc = "game" /\ ~met /\ met' /\ game'[p] = "over"
        /\ UNCHANGED <<dpc, child, inbox, cpc, left, eaten>>
    BY <1>1, <1>8 DEF Meet, Met, TypeOK
  <2>2. inbox = <<>> /\ cpc[p] = "game"
    BY <1>1, <2>1 DEF Paired
  <2> QED
    BY <1>1, <2>1, <2>2 DEF Orderly, Sequence, Paired, Spare
<1> QED
  BY <1>1, <1>3, <1>4, <1>5, <1>6, <1>7, <1>8 DEF Client, ClientKilled, Miss

(* The order of a lone player's datagrams is never lost.                   *)
LEMMA OrderlyAlways ==
    ASSUME NEW p, Alone(p)
    PROVE  Spec => []Orderly(p)
<1>1. Init => Orderly(p)
  <2> SUFFICES ASSUME Init PROVE Orderly(p)
    OBVIOUS
  <2>1. inbox = <<>> /\ Len(inbox) = 0 /\ dpc = "boot" /\ cpc[p] = "off" /\ eaten = {}
    BY DEF Init, Alone
  <2> QED
    BY <2>1 DEF Orderly, Sequence, Paired, Spare
<1>2. TypeOK /\ Orderly(p) /\ [Next]_vars => Orderly(p)'
  <2> SUFFICES ASSUME TypeOK, Orderly(p), [Next]_vars PROVE Orderly(p)'
    OBVIOUS
  <2>1. CASE UNCHANGED vars
    BY <2>1 DEF vars, dvars, cvars, Orderly, Sequence, Paired, Spare, Started
  <2>2. CASE Boot \/ Dispatcher
    BY <2>2, DispatcherOrderly
  <2>3. ASSUME NEW c \in Clients,
               \/ ClientStart(c) \/ Client(c) \/ ClientKilled(c) \/ Meet(c) \/ Miss(c)
               \/ \E cmd \in {"QUIT", "PWD"} : UserAsks(c, cmd)
               \/ \E a \in Arguments : UserPlays(c, a)
        PROVE  Orderly(p)'
    <3>1. c = p
      BY DEF Alone
    <3> QED
      BY <2>3, <3>1, PlayerOrderly
  <2> QED
    BY <2>1, <2>2, <2>3 DEF Next
<1> QED
  BY <1>1, <1>2, LobbyTypes, PTL DEF Spec

(* For a player alone the two recvfroms that drop what they read never     *)
(* drop a command (execute.c:303 and 226).                                 *)
THEOREM LobbyNothingEaten ==
    ASSUME NEW p, Alone(p)
    PROVE  Spec => []NothingEaten
<1>1. Orderly(p) => NothingEaten
  BY DEF Orderly, NothingEaten
<1> QED
  BY <1>1, OrderlyAlways, PTL

(* And a game's server that waits for a player waits for one that plays    *)
(* the same game (execute.c:190-227, client.c:197-216).                    *)
THEOREM LobbyGameHasPlayer ==
    ASSUME NEW p, Alone(p)
    PROVE  Spec => []GameHasPlayer
<1>1. Orderly(p) => GameHasPlayer
  BY DEF Orderly, Paired, GameHasPlayer, Alone
<1> QED
  BY <1>1, OrderlyAlways, PTL
=============================================================================
