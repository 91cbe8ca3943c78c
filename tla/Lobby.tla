------------------------------- MODULE Lobby --------------------------------
(***************************************************************************)
(* execute.c, the dispatcher of the server machine, and client.c, the      *)
(* command line in front of each player.  They exchange commands over one  *)
(* UDP socket of the dispatcher; each side starts its half of a game as a  *)
(* child process and waits for it.  The games appear here by their         *)
(* contract only: two halves of the same game that meet both end.  Land    *)
(* replaces the contract of the dice game by its processes.                *)
(*                                                                         *)
(* dpc is where the dispatcher is: "boot" before bind, "first" in main's   *)
(* one recvfrom, "serve" in the recvfrom of process_command, "game" in     *)
(* wait(), "ack" in the recvfrom after the game, "exited".                 *)
(* cpc[c]: "off", "prompt" in fgets, "quit" and "pwd" in the recvfrom for  *)
(* the reply, "game" in wait(), "exited".                                  *)
(***************************************************************************)
EXTENDS Udp, Integers

CONSTANTS
    Clients,
    Games,         \* the valid game numbers
    Arguments,     \* what a player types after "game ": a number, "bad" or "nothing"
    MaxCommands,   \* bound: commands a player types
    UserWaits,     \* TRUE: a client starts only once the dispatcher is bound
    ProcessesFail, \* TRUE: fork, exec and a game's own initialisation may fail
    PlayersLeave,  \* TRUE: a player may press control-C
    ServerBound    \* TRUE: a game's server is bound before its client starts

ASSUME LobbyAssumption ==
    /\ Games \subseteq {"1", "2", "3"}
    /\ Arguments \subseteq Games \cup {"bad", "nothing"}
    /\ MaxCommands \in Nat
    /\ UserWaits \in BOOLEAN /\ ServerBound \in BOOLEAN
    /\ ProcessesFail \in BOOLEAN /\ PlayersLeave \in BOOLEAN

VARIABLES
    dpc,
    child,      \* the dispatcher's game process: the game it serves, or "none"
    met,        \* whether that game's client has been found
    inbox,      \* datagrams waiting in the dispatcher's socket, with their sender
    cpc,
    fbuf,       \* the clients' fbuf[], which sscanf leaves alone without an argument
    game,       \* the clients' game processes: "none", a game, "lost" or "over"
    left,       \* commands the players may still type
    replies,    \* datagrams waiting in each client's socket
    eaten       \* history: commands that a recvfrom read and dropped

dvars == <<dpc, child, met>>
cvars == <<cpc, fbuf, game, left>>
vars == <<dvars, inbox, cvars, replies, eaten>>

Numbers == Games \cup {"bad"}
Command(c, cmd) == [from |-> c, cmd |-> cmd, arg |-> "bad"]
GameCommand(c, k) == [from |-> c, cmd |-> "GAME", arg |-> k]
Datagrams == [from : Clients, cmd : {"Connection", "QUIT", "PWD", "GAME", "OK"}, arg : Numbers]

Listening == dpc \notin {"boot", "exited"}

ToDispatcher(m) == inbox' \in IF Listening THEN Arrivals(inbox, m) ELSE {inbox}
Answer(m) ==
    replies' \in {[replies EXCEPT ![m.from] = q] :
                     q \in IF cpc[m.from] = "exited" THEN {replies[m.from]}
                           ELSE Arrivals(replies[m.from], m.cmd)}

(* The players' fbuf starts out uninitialised.                             *)
Init ==
    /\ dpc = "boot" /\ child = "none" /\ met = FALSE
    /\ inbox = <<>>
    /\ cpc = [c \in Clients |-> "off"]
    /\ fbuf \in [Clients -> Numbers]
    /\ game = [c \in Clients |-> "none"]
    /\ left = [c \in Clients |-> MaxCommands]
    /\ replies = [c \in Clients |-> <<>>]
    /\ eaten = {}

-----------------------------------------------------------------------------
(* The dispatcher.                                                         *)

Boot ==
    /\ dpc = "boot"
    /\ dpc' \in {"first"} \cup {d \in {"exited"} : ProcessesFail}
    /\ UNCHANGED <<child, met, inbox, cvars, replies, eaten>>

(* recvfrom in main, whose datagram nobody looks at, and the one after a   *)
(* game, whose datagram decides nothing: "ERR" continues, anything else    *)
(* reaches the end of the loop body.                                       *)
Swallow ==
    LET m == Head(inbox)
    IN  /\ dpc \in {"first", "ack"} /\ inbox # <<>>
        /\ dpc' = "serve" /\ inbox' = Tail(inbox)
        /\ eaten' = eaten \cup {d \in {m} : d.cmd \in {"QUIT", "PWD", "GAME"}}
        /\ UNCHANGED <<child, met, cvars, replies>>

(* QUIT and PWD are answered.  After QUIT process_command returns and main *)
(* calls it again.                                                         *)
ServeReplyQuitEnds ==   \* mutant: QUIT ends the dispatcher without a reply
    LET m == Head(inbox)
    IN  /\ dpc = "serve" /\ inbox # <<>> /\ m.cmd \in {"QUIT", "PWD"}
        /\ inbox' = Tail(inbox)
        /\ IF m.cmd = "PWD" THEN Answer(m) ELSE UNCHANGED replies
        /\ UNCHANGED <<dvars, cvars, eaten>>

ServeReply ==
    LET m == Head(inbox)
    IN  /\ dpc = "serve" /\ inbox # <<>> /\ m.cmd \in {"QUIT", "PWD"}
        /\ inbox' = Tail(inbox)
        /\ Answer(m)
        /\ UNCHANGED <<dvars, cvars, eaten>>

(* Anything that is no command is dropped, "Connection" and a late "OK"    *)
(* among them.                                                             *)
ServeUnknownErr ==      \* mutant: an unknown command is answered
    LET m == Head(inbox)
    IN  /\ dpc = "serve" /\ inbox # <<>> /\ m.cmd \in {"Connection", "OK"}
        /\ inbox' = Tail(inbox)
        /\ Answer(m)
        /\ UNCHANGED <<dvars, cvars, eaten>>

ServeUnknown ==
    LET m == Head(inbox)
    IN  /\ dpc = "serve" /\ inbox # <<>> /\ m.cmd \in {"Connection", "OK"}
        /\ inbox' = Tail(inbox)
        /\ UNCHANGED <<dvars, cvars, replies, eaten>>

(* GAME: fork, and in the child game_executer[atoi(wbuf) - 1], an index    *)
(* out of bounds killing the child.  A failed fork returns to main, a      *)
(* failed exec turns the child into a dispatcher while its parent waits    *)
(* for ever: both go on in "serve".                                        *)
ServeGameOffByOne ==    \* mutant: the slot next to the game's is executed
    LET m == Head(inbox)
    IN  /\ dpc = "serve" /\ inbox # <<>> /\ m.cmd = "GAME"
        /\ inbox' = Tail(inbox)
        /\ \/ /\ m.arg \in Games /\ dpc' = "game" /\ met' = FALSE
              /\ child' \in Games \ {m.arg}
           \/ /\ m.arg = "bad" /\ dpc' = "ack" /\ UNCHANGED <<child, met>>
           \/ /\ ProcessesFail /\ UNCHANGED dvars
        /\ UNCHANGED <<cvars, replies, eaten>>

ServeGame ==
    LET m == Head(inbox)
    IN  /\ dpc = "serve" /\ inbox # <<>> /\ m.cmd = "GAME"
        /\ inbox' = Tail(inbox)
        /\ \/ /\ m.arg \in Games /\ dpc' = "game" /\ child' = m.arg /\ met' = FALSE
           \/ /\ m.arg = "bad" /\ dpc' = "ack" /\ UNCHANGED <<child, met>>
           \/ /\ ProcessesFail /\ UNCHANGED dvars
        /\ UNCHANGED <<cvars, replies, eaten>>

(* wait() returns.                                                         *)
ServerReaped ==
    /\ dpc = "game"
    /\ dpc' = "ack" /\ child' = "none"
    /\ UNCHANGED <<met, inbox, cvars, replies, eaten>>

(* The game's server has ended, or never came up.  Where there is another  *)
(* player, that player's datagrams may also end a server before it has     *)
(* found its own.                                                          *)
Crowded == \E c, d \in Clients : c # d
GameServerEnds == (met \/ ProcessesFail \/ Crowded) /\ ServerReaped

Dispatcher == Swallow \/ ServeReply \/ ServeUnknown \/ ServeGame \/ GameServerEnds

-----------------------------------------------------------------------------
(* The command line.                                                       *)

(* socket, connect and two datagrams "Connection" (the second finds what   *)
(* the first left of the queue).                                           *)
ClientStart(c) ==
    /\ cpc[c] = "off"
    /\ UserWaits => Listening
    /\ inbox' \in IF Listening
                  THEN UNION {Arrivals(q, Command(c, "Connection")) :
                                 q \in Arrivals(inbox, Command(c, "Connection"))}
                  ELSE {inbox}
    /\ cpc' = [cpc EXCEPT ![c] = "prompt"]
    /\ UNCHANGED <<dvars, fbuf, game, left, replies, eaten>>

(* "quit" and "pwd".  The recvfrom of a connected socket fails if the      *)
(* dispatcher's port is closed, which ends the client; but it may also     *)
(* have been the sendto that took the error, which nobody looks at.        *)
UserAsks(c, cmd) ==
    /\ cpc[c] = "prompt" /\ left[c] > 0
    /\ left' = [left EXCEPT ![c] = @ - 1]
    /\ ToDispatcher(Command(c, cmd))
    /\ \/ cpc' = [cpc EXCEPT ![c] = IF cmd = "QUIT" THEN "quit" ELSE "pwd"]
       \/ ~Listening /\ cpc' = [cpc EXCEPT ![c] = "exited"]
    /\ UNCHANGED <<dvars, fbuf, game, replies, eaten>>

(* The reply, any reply, ends a "quit" and brings back the prompt of a     *)
(* "pwd".                                                                  *)
ClientReplyPeeks(c) ==       \* mutant: the reply to "pwd" stays in the socket
    /\ cpc[c] \in {"quit", "pwd"} /\ replies[c] # <<>>
    /\ cpc' = [cpc EXCEPT ![c] = IF @ = "quit" THEN "exited" ELSE "prompt"]
    /\ replies' = [replies EXCEPT ![c] = IF cpc[c] = "quit" THEN <<>> ELSE @]
    /\ UNCHANGED <<dvars, inbox, fbuf, game, left, eaten>>

ClientReply(c) ==
    /\ cpc[c] \in {"quit", "pwd"} /\ replies[c] # <<>>
    /\ cpc' = [cpc EXCEPT ![c] = IF @ = "quit" THEN "exited" ELSE "prompt"]
    /\ replies' = [replies EXCEPT ![c] = IF cpc[c] = "quit" THEN <<>> ELSE Tail(@)]
    /\ UNCHANGED <<dvars, inbox, fbuf, game, left, eaten>>

(* "game ...": the command goes out with fbuf, old or new, and a child is  *)
(* forked that dies of a missing or bad argument.  A failed fork ends the  *)
(* client.                                                                 *)
UserPlays(c, a) ==
    /\ cpc[c] = "prompt" /\ left[c] > 0
    /\ left' = [left EXCEPT ![c] = @ - 1]
    /\ fbuf' = [fbuf EXCEPT ![c] = IF a = "nothing" THEN @ ELSE a]
    /\ ToDispatcher(GameCommand(c, fbuf'[c]))
    /\ \/ /\ cpc' = [cpc EXCEPT ![c] = "game"]
          /\ game' = [game EXCEPT ![c] = IF a \in Games THEN a ELSE "over"]
       \/ ProcessesFail /\ cpc' = [cpc EXCEPT ![c] = "exited"] /\ UNCHANGED game
    /\ UNCHANGED <<dvars, replies, eaten>>

ClientReapedSilent(c) ==   \* mutant: no "OK" after the game
    /\ cpc[c] = "game"
    /\ cpc' = [cpc EXCEPT ![c] = "prompt"]
    /\ game' = [game EXCEPT ![c] = "none"]
    /\ UNCHANGED <<dvars, inbox, fbuf, left, replies, eaten>>

(* wait() returns, and "OK" goes out.                                      *)
ClientReaped(c) ==
    /\ cpc[c] = "game"
    /\ cpc' = [cpc EXCEPT ![c] = "prompt"]
    /\ game' = [game EXCEPT ![c] = "none"]
    /\ ToDispatcher(Command(c, "OK"))
    /\ UNCHANGED <<dvars, fbuf, left, replies, eaten>>

GameClientEnds(c) ==
    /\ game[c] = "over" \/ (ProcessesFail /\ game[c] \in Games)
    /\ ClientReaped(c)

(* Control-C at the terminal kills the command line and the game it waits  *)
(* for: neither says a word to a server.                                   *)
ClientKilled(c) ==
    /\ PlayersLeave
    /\ cpc[c] \notin {"off", "exited"}
    /\ cpc' = [cpc EXCEPT ![c] = "exited"]
    /\ game' = [game EXCEPT ![c] = "none"]
    /\ replies' = [replies EXCEPT ![c] = <<>>]
    /\ UNCHANGED <<dvars, inbox, fbuf, left, eaten>>

Client(c) == ClientReply(c) \/ GameClientEnds(c)

-----------------------------------------------------------------------------
(* The two halves of a game, each blocked in recvfrom until they meet.     *)

Met(c) ==
    /\ met' = TRUE
    /\ game' = [game EXCEPT ![c] = "over"]
    /\ UNCHANGED <<dpc, child, inbox, cpc, fbuf, left, replies, eaten>>

Meet(c) == dpc = "game" /\ ~met /\ game[c] = child /\ Met(c)

(* A start datagram sent while no server of that game is bound, or while   *)
(* the server plays with somebody else, leaves the game's client blocked.  *)
Miss(c) ==
    /\ ~ServerBound
    /\ game[c] \in Games /\ (child # game[c] \/ met)
    /\ game' = [game EXCEPT ![c] = "lost"]
    /\ UNCHANGED <<dvars, inbox, cpc, fbuf, left, replies, eaten>>

Next ==
    \/ Boot \/ Dispatcher
    \/ \E c \in Clients :
          \/ ClientStart(c)
          \/ \E cmd \in {"QUIT", "PWD"} : UserAsks(c, cmd)
          \/ \E a \in Arguments : UserPlays(c, a)
          \/ Client(c) \/ ClientKilled(c) \/ Meet(c) \/ Miss(c)

Spec == Init /\ [][Next]_vars

(* The programs run whenever they can, and two halves that can meet do.    *)
FairSpec ==
    /\ Spec /\ WF_vars(Dispatcher)
    /\ \A c \in Clients : WF_vars(Client(c)) /\ WF_vars(Meet(c))

-----------------------------------------------------------------------------
(* The dispatcher has a child exactly while it waits for one, and clients   *)
(* receive nothing but replies.                                            *)
TypeOK ==
    /\ dpc \in {"boot", "first", "serve", "game", "ack", "exited"}
    /\ child \in Games \cup {"none"} /\ met \in BOOLEAN
    /\ child # "none" <=> dpc = "game"
    /\ inbox \in Seq(Datagrams)
    /\ cpc \in [Clients -> {"off", "prompt", "quit", "pwd", "game", "exited"}]
    /\ fbuf \in [Clients -> Numbers]
    /\ game \in [Clients -> Games \cup {"none", "lost", "over"}]
    /\ left \in [Clients -> 0 .. MaxCommands]
    /\ replies \in [Clients -> Seq({"QUIT", "PWD"})]
    /\ eaten \subseteq Datagrams

(* What client c may still be waiting for: its command in the dispatcher's *)
(* socket q, or the reply to it in its own.                                *)
Asked(q, c) == {i \in 1 .. Len(q) : q[i].from = c /\ q[i].cmd \in {"QUIT", "PWD"}}
Pending(c) == Cardinality(Asked(inbox, c)) + Len(replies[c])

(* A reply that reaches a client answers the command the client is blocked *)
(* on, whatever games failed and datagrams were lost on the way: a client  *)
(* at its prompt has nothing in flight that a later recvfrom would take    *)
(* for the answer to another command (client.c:168 and 180).               *)
RepliesMatch ==
    \A c \in Clients : cpc[c] # "exited" =>
        /\ Pending(c) <= IF cpc[c] \in {"quit", "pwd"} THEN 1 ELSE 0
        /\ replies[c] # <<>> => Head(replies[c]) = IF cpc[c] = "quit" THEN "QUIT" ELSE "PWD"

(* On a network without faults the only commands that are never answered   *)
(* are the ones main's first recvfrom and the recvfrom after a game read   *)
(* and drop (execute.c:303 and 226): any other blocked client has exactly  *)
(* one command or reply in flight.                                         *)
RequestConserved ==
    \A c \in Clients :
        cpc[c] \in {"quit", "pwd"} =>
            Pending(c) = IF \E m \in eaten : m.from = c /\ m.cmd # "GAME" THEN 0 ELSE 1

(* With one player, whose games start as they should, those two recvfroms  *)
(* read "Connection" and "OK" and never a command.                         *)
NothingEaten == eaten = {}

(* With one such player who types an argument every time, a game's server  *)
(* that waits for a player is waiting for one that plays the same game.    *)
GameHasPlayer == dpc = "game" /\ ~met => \E c \in Clients : game[c] = child

(* And every command of that player brings back the prompt or ends the     *)
(* client.                                                                 *)
CommandsReturn ==
    \A c \in Clients :
        cpc[c] \in {"quit", "pwd", "game"} ~> cpc[c] \in {"prompt", "exited"}
=============================================================================
