---------------------------- MODULE SlotMachine -----------------------------
(***************************************************************************)
(* slot_machine_server.c and slot_machine_client.c playing against each    *)
(* other over UDP.  Both sides keep a coin counter; the client asks the    *)
(* server to charge a stop ("s"), reports the reels and is told a reward.  *)
(* Neither side has a time-out on the game itself: each one blocks in      *)
(* recvfrom until the other one speaks.                                    *)
(*                                                                         *)
(* spc is where the server's main() is: "boot" before bind, "await" in the *)
(* first select loop, "top" at the head of the outer loop, "play" in the   *)
(* inner recvfrom loop, "result" in the recvfrom for the reels, "exited".  *)
(* cpc is where the client's main() is: "press" in the first getchar,      *)
(* "home" in the blink loop, "top" at the head of the game loop, "prompt"  *)
(* and "netprompt" in the getchar of the game-over branch (reached by the  *)
(* button, or by a readable socket), "spin" in the reel loop, "report"     *)
(* before the reels are sent, "pause" in the one-second sleep, "exited",   *)
(* and the recvfroms: "awaitCoin" after "s", "awaitButton" after the GPIO  *)
(* button, "awaitEnd" after "q", "awaitRestart" and "awaitReward".         *)
(***************************************************************************)
EXTENDS Udp, Integers

CONSTANTS
    InitCoin,      \* CLIENT_INIT_COIN and the client's initial client_coin
    Outcomes,      \* the reels a round may stop on: triples of digits
    MaxKeys,       \* bound: how many keys the user types besides the first
    FirstLines,    \* what the line answering the first prompt has behind its first key
    UserWaits,     \* TRUE: the user starts the client only once the server is bound
    TimelyServer   \* TRUE: the server's 0.5 s select ends within the client's 1 s sleep

ASSUME SlotAssumption ==
    /\ InitCoin \in Int
    /\ Outcomes \subseteq [1 .. 3 -> 0 .. 9]
    /\ MaxKeys \in Nat
    /\ FirstLines \subseteq Seq({"s", "q", "r", "x"})
    /\ UserWaits \in BOOLEAN
    /\ TimelyServer \in BOOLEAN

VARIABLES
    spc, scoin,    \* the server's position and its client_coin
    watch,         \* whether restart_fds still holds the server's socket
    inbox,         \* datagrams waiting in the server's socket
    cpc, ccoin,    \* the client's position and its client_coin
    replies,       \* datagrams waiting in the client's socket
    tty, stdio,    \* typed keys: in the terminal, and read ahead by stdio
    keysLeft,      \* keys the user may still type
    stray          \* history: a game-over prompt sent a key the game loop obeys

svars == <<spc, scoin, watch>>
cvars == <<cpc, ccoin>>
kvars == <<tty, stdio, keysLeft>>
vars == <<svars, inbox, cvars, replies, kvars, stray>>

-----------------------------------------------------------------------------
(* Datagrams.  "x" stands for every key the programs treat alike.          *)

Keys == {"s", "q", "r", "x"}
CLIENT_GAME_COST == 10

Start == [type |-> "start"]
Key(k) == [type |-> "key", ch |-> k]
Reels(r) == [type |-> "result", reels |-> r]
Datagrams == {Start} \cup {Key(k) : k \in Keys} \cup {Reels(r) : r \in Outcomes}

(* What strncmp(buf, "s", 1) and strncmp(buf, "q", 1) look at: "start"     *)
(* begins like a stop.                                                     *)
FirstChar(m) ==
    CASE m.type = "start" -> "s"
      [] m.type = "key"   -> m.ch
      [] OTHER            -> "digit"

(* A reply is a number printed in decimal and read back by atoi; kind      *)
(* says which sendto produced it and is visible to the properties only.    *)
Reply(kind, n) == [kind |-> kind, num |-> n]
Replies == [kind : {"coin", "reward", "end", "restart"}, num : Int]

(* The digits arrive as characters, so buf[0] == 7 compares 48 + d with 7: *)
(* the branch that pays 1000 is dead.                                      *)
Byte(d) == 48 + d

Reward(r) ==
    IF Byte(r[1]) = Byte(r[2]) /\ Byte(r[2]) = Byte(r[3])
    THEN IF Byte(r[1]) = 7 THEN 1000 ELSE 100
    ELSE IF \E i, j \in 1 .. 3 : i # j /\ Byte(r[i]) = Byte(r[j]) THEN 10 ELSE 0

(* The server computes a reward from the first three bytes of whatever     *)
(* datagram it reads in "result".  A one-key datagram leaves bytes of an   *)
(* earlier datagram behind its own, which may match or not.                *)
Rewards(m) ==
    CASE m.type = "result" -> {Reward(m.reels)}
      [] m.type = "start"  -> {0}
      [] OTHER             -> {0, 10, 100}

Listening == spc \notin {"boot", "exited"}

(* A datagram to a port nobody has bound is gone.                          *)
ToServer(m) == inbox' \in IF Listening THEN Arrivals(inbox, m) ELSE {inbox}
ToClient(r) == replies' \in IF cpc # "exited" THEN Arrivals(replies, r) ELSE {replies}

-----------------------------------------------------------------------------
Init ==
    /\ spc = "boot" /\ scoin = InitCoin /\ watch = FALSE
    /\ inbox = <<>>
    /\ cpc = "press" /\ ccoin = InitCoin
    /\ replies = <<>>
    /\ tty = <<>> /\ stdio = <<>> /\ keysLeft = MaxKeys
    /\ stray = FALSE

-----------------------------------------------------------------------------
(* The server.                                                             *)

(* FD_SET(sfd, &restart_fds) runs before sfd is assigned: the bit it sets  *)
(* may or may not be the one of the descriptor socket() returns later, and *)
(* a wild index may kill the process.  socket or bind may fail as well.    *)
ServerBoot ==
    /\ spc = "boot"
    /\ \/ spc' = "await" /\ watch' \in BOOLEAN
       \/ spc' = "exited" /\ UNCHANGED watch
    /\ UNCHANGED <<scoin, inbox, cvars, replies, kvars, stray>>

ServerFirstPeek ==       \* mutant: the first datagram is left in the socket
    /\ spc = "await" /\ inbox # <<>>
    /\ spc' = "top"
    /\ UNCHANGED <<scoin, watch, inbox, cvars, replies, kvars, stray>>

(* The first datagram, whatever it is, starts the game.                    *)
ServerFirst ==
    /\ spc = "await" /\ inbox # <<>>
    /\ spc' = "top" /\ inbox' = Tail(inbox)
    /\ UNCHANGED <<scoin, watch, cvars, replies, kvars, stray>>

(* Head of the outer loop with coins left: straight to the game loop.      *)
ServerTopPlay ==
    /\ spc = "top" /\ scoin > 0
    /\ spc' = "play"
    /\ UNCHANGED <<scoin, watch, inbox, cvars, replies, kvars, stray>>

(* Without coins, the one select on restart_fds.  A timeout empties the    *)
(* set for good, because nothing sets the bit again.                       *)
ServerTopTimeout ==
    /\ spc = "top" /\ scoin <= 0
    /\ ~watch \/ inbox = <<>>
    /\ spc' = "play" /\ watch' = FALSE
    /\ UNCHANGED <<scoin, inbox, cvars, replies, kvars, stray>>

(* The select saw a datagram: "r" restarts, and its break leaves the outer *)
(* loop, closes the socket and ends main; anything else is thrown away.    *)
ServerTopRestart ==
    /\ spc = "top" /\ scoin <= 0
    /\ watch /\ inbox # <<>>
    /\ IF Head(inbox) = Key("r")
       THEN /\ scoin' = CLIENT_GAME_COST
            /\ ToClient(Reply("restart", scoin'))
            /\ spc' = "exited" /\ inbox' = <<>>
       ELSE /\ spc' = "play" /\ inbox' = Tail(inbox)
            /\ UNCHANGED <<scoin, replies>>
    /\ UNCHANGED <<watch, cvars, kvars, stray>>

(* One recvfrom of the game loop.                                          *)
ServerStopNoBreak ==     \* mutant: the break after the charge is missing
    /\ spc = "play" /\ inbox # <<>> /\ FirstChar(Head(inbox)) = "s"
    /\ scoin' = scoin - 10
    /\ ToClient(Reply("coin", scoin'))
    /\ inbox' = Tail(inbox)
    /\ UNCHANGED <<spc, watch, cvars, kvars, stray>>

ServerStopBroke ==       \* mutant: no reply when the last coins are spent
    /\ spc = "play" /\ inbox # <<>> /\ FirstChar(Head(inbox)) = "s"
    /\ scoin' = scoin - 10
    /\ IF scoin' > 0 THEN ToClient(Reply("coin", scoin')) ELSE UNCHANGED replies
    /\ spc' = "result" /\ inbox' = Tail(inbox)
    /\ UNCHANGED <<watch, cvars, kvars, stray>>

ServerStop ==
    /\ spc = "play" /\ inbox # <<>> /\ FirstChar(Head(inbox)) = "s"
    /\ scoin' = scoin - 10
    /\ ToClient(Reply("coin", scoin'))
    /\ spc' = "result" /\ inbox' = Tail(inbox)
    /\ UNCHANGED <<watch, cvars, kvars, stray>>

ServerQuitSilent ==      \* mutant: the server leaves without "Game End"
    /\ spc = "play" /\ inbox # <<>> /\ FirstChar(Head(inbox)) = "q"
    /\ spc' = "exited" /\ inbox' = <<>>
    /\ UNCHANGED <<scoin, watch, cvars, replies, kvars, stray>>

ServerQuit ==
    /\ spc = "play" /\ inbox # <<>> /\ FirstChar(Head(inbox)) = "q"
    /\ ToClient(Reply("end", 0))
    /\ spc' = "exited" /\ inbox' = <<>>
    /\ UNCHANGED <<scoin, watch, cvars, kvars, stray>>

ServerIgnore ==
    /\ spc = "play" /\ inbox # <<>> /\ FirstChar(Head(inbox)) \notin {"s", "q"}
    /\ inbox' = Tail(inbox)
    /\ UNCHANGED <<svars, cvars, replies, kvars, stray>>

ServerResultUnbooked ==  \* mutant: the reward is sent and never booked
    /\ spc = "result" /\ inbox # <<>>
    /\ \E reward \in Rewards(Head(inbox)) : ToClient(Reply("reward", reward))
    /\ spc' = "top" /\ inbox' = Tail(inbox)
    /\ UNCHANGED <<scoin, watch, cvars, kvars, stray>>

ServerResultTwice ==     \* mutant: the reward is booked before and after it is sent
    /\ spc = "result" /\ inbox # <<>>
    /\ \E reward \in Rewards(Head(inbox)) :
          /\ ToClient(Reply("reward", reward))
          /\ scoin' = scoin + reward + reward
    /\ spc' = "top" /\ inbox' = Tail(inbox)
    /\ UNCHANGED <<watch, cvars, kvars, stray>>

(* The recvfrom for the reels, the reward and its booking.                 *)
ServerResult ==
    /\ spc = "result" /\ inbox # <<>>
    /\ \E reward \in Rewards(Head(inbox)) :
          /\ ToClient(Reply("reward", reward))
          /\ scoin' = scoin + reward
    /\ spc' = "top" /\ inbox' = Tail(inbox)
    /\ UNCHANGED <<watch, cvars, kvars, stray>>

Server ==
    \/ ServerFirst \/ ServerTopPlay \/ ServerTopTimeout \/ ServerTopRestart
    \/ ServerStop \/ ServerQuit \/ ServerIgnore \/ ServerResult

-----------------------------------------------------------------------------
(* The user's hands and the terminal.                                      *)

UserTypes ==
    /\ cpc \notin {"press", "exited"} /\ keysLeft > 0
    /\ \E k \in Keys : tty' = Append(tty, k)
    /\ keysLeft' = keysLeft - 1
    /\ UNCHANGED <<svars, inbox, cvars, replies, stdio, stray>>

(* getchar and fgetc: stdio hands out what it has read ahead, and when it  *)
(* has nothing it reads everything the terminal holds.                     *)
NextChar == Head(stdio \o tty)
TakeChar ==
    IF stdio # <<>>
    THEN stdio' = Tail(stdio) /\ UNCHANGED tty
    ELSE stdio' = Tail(tty) /\ tty' = <<>>

-----------------------------------------------------------------------------
(* The client.                                                             *)

(* getchar on a line-buffered terminal (the rest of the line, whatever it  *)
(* is, stays in stdio and counts as typed), "start", then the frame        *)
(* buffer, whose failure ends the client.                                  *)
ClientStart ==
    /\ cpc = "press"
    /\ UserWaits => Listening
    /\ ToServer(Start)
    /\ stdio' \in FirstLines
    /\ Len(stdio') <= keysLeft /\ keysLeft' = keysLeft - Len(stdio')
    /\ cpc' \in {"home", "exited"}
    /\ UNCHANGED <<svars, ccoin, replies, tty, stray>>

(* The blink loop leaves on the GPIO button only.                          *)
ClientHome ==
    /\ cpc = "home"
    /\ cpc' = "top"
    /\ UNCHANGED <<svars, inbox, ccoin, replies, kvars, stray>>

(* Head of the game loop with coins left: a new round.                     *)
ClientTopSpin ==
    /\ cpc = "top" /\ ccoin > 0
    /\ cpc' = "spin"
    /\ UNCHANGED <<svars, inbox, ccoin, replies, kvars, stray>>

(* Game over: read_key, then select on the socket (not on the keyboard).   *)
(* Neither a button nor a datagram: the code falls into a new round.       *)
ClientTopGameOver ==
    /\ cpc = "top" /\ ccoin <= 0
    /\ \/ cpc' = "prompt"
       \/ replies # <<>> /\ cpc' = "netprompt"
       \/ replies = <<>> /\ cpc' = "spin"
    /\ UNCHANGED <<svars, inbox, ccoin, replies, kvars, stray>>

(* getchar of the game-over branch: after the button any key is sent, after *)
(* a readable socket only "r".                                              *)
ClientPrompt ==
    /\ cpc \in {"prompt", "netprompt"} /\ stdio \o tty # <<>>
    /\ TakeChar
    /\ IF cpc = "prompt" \/ NextChar = "r"
       THEN /\ ToServer(Key(NextChar))
            /\ cpc' = "awaitRestart"
            /\ stray' = (stray \/ NextChar \in {"s", "q"})
       ELSE cpc' = "spin" /\ UNCHANGED <<inbox, stray>>
    /\ UNCHANGED <<svars, ccoin, replies, keysLeft>>

ClientGetsRestart ==
    /\ cpc = "awaitRestart" /\ replies # <<>>
    /\ ccoin' = Head(replies).num /\ replies' = Tail(replies)
    /\ cpc' = "top"
    /\ UNCHANGED <<svars, inbox, kvars, stray>>

(* The button in the reel loop: recvfrom, with nothing sent.               *)
ClientButton ==
    /\ cpc = "spin"
    /\ cpc' = "awaitButton"
    /\ UNCHANGED <<svars, inbox, ccoin, replies, kvars, stray>>

ClientKeyHasty ==        \* mutant: the client does not wait for the charge
    /\ cpc = "spin" /\ tty # <<>>
    /\ TakeChar
    /\ CASE NextChar = "s" -> ToServer(Key("s")) /\ cpc' = "report"
         [] NextChar = "q" -> ToServer(Key("q")) /\ cpc' = "awaitEnd"
         [] OTHER          -> UNCHANGED <<inbox, cpc>>
    /\ UNCHANGED <<svars, ccoin, replies, keysLeft, stray>>

(* A key in the reel loop: select reports the terminal, fgetc asks stdio.  *)
ClientKey ==
    /\ cpc = "spin" /\ tty # <<>>
    /\ TakeChar
    /\ CASE NextChar = "s" -> ToServer(Key("s")) /\ cpc' = "awaitCoin"
         [] NextChar = "q" -> ToServer(Key("q")) /\ cpc' = "awaitEnd"
         [] OTHER          -> UNCHANGED <<inbox, cpc>>
    /\ UNCHANGED <<svars, ccoin, replies, keysLeft, stray>>

ClientGetsCoin ==
    /\ cpc \in {"awaitCoin", "awaitButton"} /\ replies # <<>>
    /\ ccoin' = Head(replies).num /\ replies' = Tail(replies)
    /\ cpc' = "report"
    /\ UNCHANGED <<svars, inbox, kvars, stray>>

ClientGetsEnd ==
    /\ cpc = "awaitEnd" /\ replies # <<>>
    /\ cpc' = "exited" /\ replies' = <<>>
    /\ UNCHANGED <<svars, inbox, ccoin, kvars, stray>>

(* The reels have come to rest and are sent.                               *)
ClientReportLower ==     \* mutant: the digits coming up, without the % 10
    /\ cpc = "report"
    /\ \E r \in Outcomes : ToServer(Reels([i \in 1 .. 3 |-> r[i] + 1]))
    /\ cpc' = "awaitReward"
    /\ UNCHANGED <<svars, ccoin, replies, kvars, stray>>

ClientReport ==
    /\ cpc = "report"
    /\ \E r \in Outcomes : ToServer(Reels(r))
    /\ cpc' = "awaitReward"
    /\ UNCHANGED <<svars, ccoin, replies, kvars, stray>>

ClientGetsReward ==
    /\ cpc = "awaitReward" /\ replies # <<>>
    /\ ccoin' = ccoin + Head(replies).num /\ replies' = Tail(replies)
    /\ cpc' = "pause"
    /\ UNCHANGED <<svars, inbox, kvars, stray>>

ClientWakes ==
    /\ cpc = "pause"
    /\ TimelyServer => spc # "top"
    /\ cpc' = "top"
    /\ UNCHANGED <<svars, inbox, ccoin, replies, kvars, stray>>

(* Control-C anywhere (signal_handler calls exit), and the exits of a GPIO *)
(* chip that cannot be opened or read.                                     *)
ClientDies ==
    /\ cpc # "exited"
    /\ cpc' = "exited" /\ replies' = <<>>
    /\ UNCHANGED <<svars, inbox, ccoin, kvars, stray>>

(* What the client's processor does on its own.  ClientStart, ClientHome,  *)
(* ClientButton, UserTypes and ClientDies wait for the user's hands.       *)
Client ==
    \/ ClientTopSpin \/ ClientTopGameOver \/ ClientPrompt \/ ClientGetsRestart
    \/ ClientKey \/ ClientGetsCoin \/ ClientGetsEnd
    \/ ClientReport \/ ClientGetsReward \/ ClientWakes

-----------------------------------------------------------------------------
Next ==
    \/ ServerBoot \/ Server
    \/ UserTypes \/ ClientStart \/ ClientHome \/ ClientButton \/ ClientDies
    \/ Client

Spec == Init /\ [][Next]_vars

(* Both processes run whenever they can: no user action is assumed.        *)
FairSpec == Spec /\ WF_vars(Server) /\ WF_vars(Client)

-----------------------------------------------------------------------------
(* Properties.                                                             *)

(* The variables have the shapes the programs give them; the keys in the   *)
(* terminal and in stdio never exceed what the user typed.                 *)
TypeOK ==
    /\ spc \in {"boot", "await", "top", "play", "result", "exited"}
    /\ cpc \in {"press", "home", "top", "prompt", "netprompt", "spin", "report",
                "pause", "exited", "awaitCoin", "awaitButton", "awaitEnd",
                "awaitRestart", "awaitReward"}
    /\ scoin \in Int /\ ccoin \in Int
    /\ watch \in BOOLEAN /\ stray \in BOOLEAN
    /\ inbox \in Seq(Datagrams) /\ replies \in Seq(Replies)
    /\ tty \in Seq(Keys) /\ stdio \in Seq(Keys) /\ keysLeft \in 0 .. MaxKeys
    /\ Len(tty) + Len(stdio) + keysLeft <= MaxKeys

(* Between rounds: the client waits for its user or for its own clock.     *)
Idle == {"press", "home", "top", "spin", "prompt", "netprompt", "pause"}

(* The two coin counters, kept by two programs in two address spaces, are  *)
(* equal whenever the client is between rounds, whatever datagrams were    *)
(* lost, as long as the user obeyed the game-over prompt (client_coin,     *)
(* slot_machine_server.c:25 and slot_machine_client.c:65).                 *)
CoinsAgree == ~stray /\ cpc \in Idle => ccoin = scoin

(* The kind of reply the recvfrom the client is blocked in was written for. *)
Expected ==
    CASE cpc = "awaitCoin"    -> "coin"
      [] cpc = "awaitReward"  -> "reward"
      [] cpc = "awaitRestart" -> "restart"
      [] cpc = "awaitEnd"     -> "end"
      [] OTHER                -> "none"

(* A reply that reaches the client answers the request the client is       *)
(* blocked on: atoi never turns a coin count into a reward, "Game End" into *)
(* a coin count, and so on, although replies carry no type and no number.  *)
(* With one exception: the server may read a "q" that overtakes the start  *)
(* signal as the start of the game, and answer the start signal as a stop; *)
(* the client takes the coin count for the end (slot_machine_client.c:631). *)
RepliesMatch ==
    ~stray /\ replies # <<>> =>
        \/ Head(replies).kind = Expected
        \/ "reorder" \in Faults /\ cpc = "awaitEnd" /\ Head(replies).kind = "coin"

(* The reels are read by the recvfrom written for them and by no other     *)
(* (the others store a NUL at buf[len], one past buf for the 256-byte       *)
(* reels), and that recvfrom reads nothing else: its reward is never       *)
(* computed from another message (slot_machine_server.c:160).              *)
ReelsMeetResult ==
    ~stray /\ inbox # <<>> => (Head(inbox).type = "result" <=> spc = "result")

(* At most one request or reply is in flight, besides the unanswered       *)
(* "start", and none while the client is between rounds: the stop-and-wait *)
(* discipline the untyped datagrams rely on.                               *)
Requests == {i \in 1 .. Len(inbox) : inbox[i] # Start}
StopAndWait ==
    ~stray => Cardinality(Requests) + Len(replies) <= IF cpc \in Idle THEN 0 ELSE 1

(* Where a conversation can be, while the user obeys the game-over prompt. *)
(* Carries: the server's socket holds at most the start signal, which only *)
(* the first recvfrom will see, and behind it one key of K.                *)
Carries(K) ==
    \A i \in 1 .. Len(inbox) :
        \/ i = 1 /\ inbox[i] = Start /\ spc = "await"
        \/ i = Len(inbox) /\ \E k \in K : inbox[i] = Key(k)

Unserved(K) == ccoin = scoin /\ spc # "result" /\ replies = <<>> /\ Carries(K)

Answered(kind, n) ==
    /\ inbox = <<>>
    /\ Len(replies) <= 1
    /\ Len(replies) = 1 => replies[1] = Reply(kind, n)

ReelsOnly == Len(inbox) <= 1 /\ \A i \in 1 .. Len(inbox) : inbox[i].type = "result"

(* The client's program counter tells what the server has done and what is *)
(* in flight: the joint state of the two programs, from which CoinsAgree,  *)
(* RepliesMatch and ReelsMeetResult follow.                                *)
Conversation ==
    /\ spc \in {"boot", "exited"} => inbox = <<>>
    /\ cpc = "press" => inbox = <<>> /\ spc \in {"boot", "await", "exited"}
    /\ cpc \in Idle \cup {"awaitButton"} => Unserved({})
    /\ cpc = "exited" =>
          replies = <<>> /\ (IF spc = "result" THEN ReelsOnly ELSE Carries(Keys))
    /\ cpc = "awaitCoin" =>
          Unserved({"s"}) \/ (spc = "result" /\ Answered("coin", scoin))
    /\ cpc = "awaitEnd" =>
          Unserved({"q"}) \/ (spc = "exited" /\ Answered("end", 0))
    /\ cpc = "awaitRestart" =>
          Unserved({"r", "x"}) \/ (spc = "exited" /\ Answered("restart", scoin))
    /\ cpc = "report" =>
          spc = "result" /\ ccoin = scoin /\ inbox = <<>> /\ replies = <<>>
    /\ cpc = "awaitReward" =>
          \/ spc = "result" /\ ccoin = scoin /\ replies = <<>> /\ ReelsOnly
          \/ spc \in {"top", "play"} /\ Answered("reward", scoin - ccoin)

(* What reordering adds: a key in front of the start signal.  The server   *)
(* takes the key for the start of the game, and the start signal, which    *)
(* begins with the same letter, for a stop (slot_machine_server.c:139).    *)
Overtaken ==
    \/ /\ cpc \in {"awaitCoin", "awaitEnd", "exited"}
       /\ replies = <<>> /\ (cpc # "exited" => ccoin = scoin)
       /\ \/ spc = "await" /\ \E k \in {"s", "q"} : inbox = <<Key(k), Start>>
          \/ spc \in {"top", "play"} /\ inbox = <<Start>>
    \/ cpc = "awaitEnd" /\ spc = "result" /\ Answered("coin", scoin)

InConversation == ~stray => Conversation \/ ("reorder" \in Faults /\ Overtaken)

(* The server's money, whatever the network does and whatever the user     *)
(* types: every stop costs ten and is settled once, by one prize, and the  *)
(* account changes in no other way (slot_machine_server.c:142-184).        *)
Phase == CASE spc = "result" -> "owed" [] spc = "exited" -> "closed" [] OTHER -> "idle"
Ledger == INSTANCE SlotLedger WITH coin <- scoin, phase <- Phase
ImplementsLedger == Ledger!Spec

(* A user who has stopped the reels and does not kill the client gets to   *)
(* the next round, on a network without faults, if the server is still     *)
(* there and the user obeyed the game-over prompt.                         *)
RoundCompletes ==
    (cpc = "awaitCoin" /\ ~stray /\ Listening) ~> cpc \in {"top", "exited"}

(* A user who has typed "q" gets both programs to end, even one who then   *)
(* kills the client.                                                       *)
QuitCompletes ==
    (cpc = "awaitEnd" /\ ~stray /\ Listening) ~> (cpc = "exited" /\ spc = "exited")

-----------------------------------------------------------------------------
(* What comments, prompts and logs of the programs say, and the programs   *)
(* do not do.                                                              *)

(* slot_machine_client.c:573 "wait for the s signal or (OR) the GPIO       *)
(* input": the button stops the reels as the key does.                     *)
ButtonStops == cpc = "awaitButton" ~> cpc \in {"report", "exited"}

(* slot_machine_client.c:334 "PRESS 'R' TO RESTART": a player whose R has  *)
(* reached the server gets back to the head of the game loop (:551).       *)
RestartReturns ==
    (cpc = "awaitRestart" /\ inbox # <<>> /\ Head(inbox) = Key("r")) ~> cpc \in {"top", "exited"}
=============================================================================
