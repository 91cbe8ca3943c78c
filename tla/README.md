# Hwagok-Land in TLA+

Hwagok-Land is a set of C programs that play three small games over UDP. A
server machine runs a dispatcher (`execute.c`) and starts a game server for
every game; each player runs a command line (`client.c`) that starts the
matching game client, which draws on the frame buffer of an embedded board.
This directory models the programs' control and communication in TLA+, checks
the models with TLC and proves with TLAPS, for every value of the constants, each
safety property that TLC checks on a small instance.

Paths below are relative to `src/`; `S` stands for `Server/mini_project_team2`
and `C` for `Client/mini_project_team2(Client)`.

## 1. Inventory

| component | source | state | operations |
|---|---|---|---|
| slot machine server | `S/slot_machine_server.c` | `client_coin`, position in `main`, `restart_fds` | wait for a first datagram; per round: charge a stop, compute and book a reward; restart; quit |
| slot machine client | `C/slot_machine_client.c` | its own `client_coin`, position in `main`, terminal, stdio buffer, GPIO button and `prev_state`, the reels (`slots`, `offsets`, `stop_flags`) | start, home screen, reel loop, stop (key or button), quit, game over and restart, report, reward, SIGINT |
| horse race server | `S/horse_racing_server.c` | positions, finished flags, rankings, counters | wait for the start signal, sweep over the horses, send a snapshot |
| horse race client | `C/horse_racing_client.c` | positions, its own rankings | start, receive a snapshot and rank, print the podium |
| dice server | `S/Dice_server.c` | the dice | answer one datagram, end on the next |
| dice client | `C/Dice_client.c` | the dice, the verdict | request, show the result, `GAME ENDS` |
| dispatcher | `S/execute.c` | position in `process_command`, the child process | `QUIT`, `PWD`, `GAME n` (fork, exec, wait, one more recvfrom) |
| command line | `C/client.c` | `fbuf`, the child process | `quit`, `pwd`, `game n` (send, fork, exec, wait, `OK`) |
| file transfer | `send_path`, `send_file` in `S/execute.c`; `recv_path`, `recv_file` in `C/client.c` | position in the file, the copy | send a chunk, write a chunk; called by nobody |
| drawing, fonts, bitmaps, build files, `define.h` | | | output and assets (the rows of the reels' digits are in `SlotScreen`) |

**Interaction.** The programs share nothing but datagrams. Every exchange is
blocking `sendto`/`recvfrom` on UDP: no datagram carries a number or a type
that the receiver looks at beyond its first characters, none is repeated, and no game
client has a time-out on an answer. The dispatcher and the command line start
the two halves of a game independently of each other; a player's game client
may be up before its server has bound its port.

**What is hard.**

* Concurrency: two `main` functions whose program counters must stay in step
  although only untyped text travels between them; several players on one
  dispatcher socket and on one game server.
* Failure: lost, doubled and overtaking datagrams; datagrams sent before
  `bind`; `fork`, `exec`, `bind` and frame-buffer failures; a client killed in
  the middle of a conversation.
* Ordering: rankings computed twice, from different data; replies that are told
  apart by position only; a datagram that two `recvfrom`s compete for.
* Time: `select` time-outs that are value-result arguments and are never reset;
  a 0.5 s wait of the server against a 1 s sleep of the client.
* Boundaries: the 256-byte reels in a 256-byte buffer; characters compared with
  numbers; a sweep that brings more than the third horse home; a resting reel
  whose offset is the wrapping point of a turning one; `BUF_SIZE` bytes sent to
  a receiver that asks for `MAX_BUF - 1`.

**What makes each component correct.** Slot machine: the two counters agree,
every reply answers the request it is read for, the account only moves by the
rules, rounds and quits complete, the player is paid for the digits on the
windows, and one press of the button counts once. Horse race: both rankings are rankings, final,
without phantom finishers, and the same when nothing is lost; the race ends at the server, whatever becomes of the client.
Dice: one client is served, with what was rolled for it; the game ends. Lobby:
commands are conserved, replies match, the two halves of a game meet, and the
game processes put in the place of the contract keep it. File transfer: the copy
is in order, and complete up to what is always cut off. The hazards with their lines are listed in `PROJECT.json`.

## 2. Modules

| module | models | extends |
|---|---|---|
| `Udp` | a receive buffer and what the network does to a datagram (external to `src/`) | community `SequencesExt` |
| `SlotMachine` | both slot-machine programs, the terminal and the user | `Udp` |
| `SlotLedger` | abstract: the server's account of the player's money | |
| `SlotScreen` | the slot-machine client frame by frame: reels, button, what is on the screen; refines `SlotMachine` | `SlotMachine` |
| `HorseRace` | both horse-race programs | `Udp` |
| `DiceGame` | the dice server and any number of dice clients | `Udp` |
| `Lobby` | the dispatcher, the command lines and the game processes by their contract | `Udp` |
| `Land` | `Lobby` with the dice processes of `DiceGame` in the place of the contract of game 1; refines `Lobby` | `Lobby`, an instance of `DiceGame` |
| `FileTransfer` | `send_path`/`send_file` against `recv_path`/`recv_file` | `Udp` |
| `MC*` | constants for TLC | one of the above |
| `UdpProofs` | lemmas about `Udp`, used by all the others | `Udp`, TLAPS |
| `SlotMachineProofs` | theorems about `SlotMachine` | `SlotMachine`, `UdpProofs` |
| `SlotScreenProofs` | theorems about `SlotScreen` | `SlotScreen`, `SlotMachineProofs` |
| `HorseRaceProofs` | theorems about `HorseRace` | `HorseRace`, `UdpProofs` |
| `DiceGameProofs` | theorems about `DiceGame` | `DiceGame`, `UdpProofs` |
| `LobbyProofs` | theorems about `Lobby` | `Lobby`, `UdpProofs` |
| `LandProofs` | theorems about `Land` | `Land`, `LobbyProofs` |
| `FileTransferProofs` | theorems about `FileTransfer` | `FileTransfer`, `UdpProofs` |

**From code to model.** A program's state is its position in `main` (`spc`,
`cpc`, `dpc`: one value per blocking call or loop head) and those of its variables that a later step
reads. An action is the code between two blocking points: the `recvfrom`,
`select` or `getchar` that lets it run is its guard, and it includes every
assignment and `sendto` up to the next one. `PROJECT.json` names the lines of
every definition. Where a name could be kept it was (`finished_count`,
`rankings`, `fbuf`, `scoin`/`ccoin` for the two `client_coin`s).

**Data.** A key is `"s"`, `"q"`, `"r"` or `"x"` (any other). A reply is the
number `atoi` will read; its `kind` field, which says which `sendto` wrote it,
is read by properties only. The reels are a triple of digits; the reward
compares the bytes `48 + d`, as the code does. A datagram that is not the
reels, read where the reels are expected, leaves bytes of an earlier datagram
behind its own, so its reward is any of the values those can give (`Rewards`).

**Undefined behaviour.** `FD_SET(sfd, &restart_fds)` with an uninitialised
`sfd` (slot_machine_server.c:70) may or may not watch the later socket, or ends
the process: `ServerBoot` allows all three. `game_executer[atoi(..) - 1]`
outside the array ends the child. The uninitialised `fbuf` of `client.c` is
any value. `buf[len] = '\0'` with `len = 256` cannot be reached; that is the
invariant `ReelsMeetResult`. On networks that double datagrams it
can be reached, and there the byte written is assumed to be padding, as it is in the checked-in
x86 executable of the server.

**Left out:** a dice result that does not parse, which the server never sends; errors
returned by `sendto`, and by `recvfrom` on an unconnected bound socket. A first dice
datagram other than `1` is modelled, since `GAME ENDS` may come first.

## 3. Slot machine

`Init` has the server before `bind` and the client in its first `getchar`.
`stray` is a history variable: it becomes true when the user answers the
game-over prompt, after the button, with a key the server's game loop obeys
(`s` or `q`); the agreement properties are stated for users who did not.

Runs:

* `slot_machine` (20 coins, four reel outcomes that cover every branch of
  the reward but the dead one, 5 keys, loss and reordering, client deaths, no timing
  assumption): `TypeOK`, `CoinsAgree`, `RepliesMatch`, `ReelsMeetResult`, `StopAndWait`,
  the joint invariant `InConversation`, and `ImplementsLedger`. Two stops spend the
  coins and reach game over, a third key answers the prompt, the others follow it or
  were read ahead. Reordering puts a key before
  `start`: the server then takes the key for the start of the game and charges
  `start`, which begins with the same letter as `s`, as a stop
  (slot_machine_server.c:134). The counters agree all the same, because the client
  waits for the coins (`s`) or ends (`q`), but after a `q` it takes the coin count it
  gets for the end, and the server waits for reels that never come: the one exception in
  `RepliesMatch`. A key behind the prompt that the game loop obeys (`stray`) reaches the
  branches where a datagram is read in the wrong place; the ledger is kept there too. A
  network that doubles datagrams is left to the theorem.
* `slot_screen` (no faults, 10 coins, 3 keys, 2 presses, `STOP_DELAY` 2): module
  `SlotScreen`, below; also `RoundCompletes` and `QuitCompletes` of `SlotMachine`,
  which are therefore checked with a client that has to bring its reels to rest
  before it can report.
* `slot_button` (a violation): the comment at slot_machine_client.c:573 lets the
  button stop the reels; in the code it makes client and server wait for each
  other for ever.
* `slot_restart` (a violation): "PRESS 'R' TO RESTART" (slot_machine_client.c:334) and
  "back to the game screen" (:551). With every time kept the server's half-second
  `select` (slot_machine_server.c:112) is over before the client's second of sleep
  (slot_machine_client.c:691) is: the `r` finds the server in its game loop, which ignores it,
  and the client waits in `recvfrom` (:544) for ever.
* `slot_rest_offset` (a violation): the comments at slot_machine_client.c:271 and 652 fix a
  reel at rest to the offset 64, the code (:284, 291, 298) to 80. The digit is whole in its
  window at either, in the rows -16 to 16 at 64 and 0 to 32 at 80, and the next digit is
  below the window at both.

Other differences between the programs and their own prompts that the actions
show (no run checks them):

* The branch for three sevens, `if(buf[0] == 7) { reward = 1000; }`
  (slot_machine_server.c:167), is dead: the reels arrive as characters, and no digit has
  the code 7. Three sevens pay 100. `Prizes` of `SlotLedger` has the 1000, since the source
  names it; `Reward` never returns it. No comment, prompt or log says what three
  sevens should pay.
* "Server: Restarting game..." (slot_machine_server.c:120): the `break` at :125 leaves the outer
  loop, and the server that restarts a game ends (`ServerTopRestart`). It takes a
  server slower than the client's second of sleep for an `r` to get there at all.
* "PRESS ANY KEY TO START" (slot_machine_client.c:501): only the button leaves the
  home screen (`ClientHome`).
* "PRESS 'R' TO RESTART" (:334): half a second later the player is in a new round
  with no coins (`ClientTopGameOver`, the time-out).
* "코인 초기화" (:548): the key behind the button is sent whatever it is, and the
  reply to an `s` is taken for the new coins.
* `select` looks at the terminal, `fgetc` reads a line ahead: an `s` in stdio
  stops nothing until another key is typed (`NextChar`, `ClientKey`).

**`SlotScreen`.** `SlotMachine` lets the reels stop on any outcome and lets the
button be seen at any time. `SlotScreen` computes both: `SpinTurning` and
`SpinStopping` are the two halves of `spin_slots`, `read_key` is `read_key`, and
each of the loops that call them (`Blink` at home, `Frame` while the reels turn,
`HaltFrame` while they come to rest, `GameOver`) is one action per turn. Every
such action is an action of `SlotMachine` or leaves its variables alone, and
`ImplementsMachine` has TLC check that, with fairness: the frame-by-frame client
never stays in the halting loop for ever, so it is as fair as `FairSpec` says.
The other properties cannot be stated without the frames:

* `PaidAsShown`: `Shown` follows `draw_ui` and `draw_to_buffer`, rows relative to
  the middle of the screen; each window shows exactly one whole digit when the result
  arrives, and the reward is that of these three. Only the windows count: nothing is
  clipped, and below the window of a resting reel, on the background, its next digit is
  drawn as well.
* `StopsSpaced`: the reels at rest are always the first n from the left, and n of them took n
  times `STOP_DELAY` frames on the one `stop_counter` they share. Two frames instead of twenty already separate a wait from a
  snap.
* `PressSeenOnce`: a press held from the home screen into the reel loop or into a
  game over is acted upon once. Two presses are enough for one to leave the home
  screen and one to be held across a later loop.
* `HomePressStarts`: a button that is held leaves the home screen.

`UserPresses` and `UserReleases` are free: a press that ends before any frame is
not seen. Two calls of `read_key` are at least a frame (50 ms) apart, and a contact
is taken to bounce for less than that.

What the actions of `SlotScreen` show besides:

* At offset 0, where a turning reel is every other frame, the window shows the
  *next* digit; a reel told to stop there jumps one digit back when it snaps.
* A key read in the first frame of a round reports the three zeros the round began
  with, before any digit was drawn by `rand`: 000, a prize of 100.
* The GAME OVER picture is drawn for `coins == 0` and the loop's head tests
  `<= 0`; the two differ only with a negative account.

Fairness (`FairSpec`): weak fairness of each program's own steps. A step that
waits for the user (typing, the button, pressing or releasing, starting or killing the client) is
never assumed to happen. `FairScreenSpec` is the same for `SlotScreen`: one thread of
the client (`ClientRuns`) and one of the server (`ServerRuns`). `UserWaits` (the client is started after the server is bound) and
`TimelyServer` (the server's 0.5 s select ends within the client's 1 s sleep,
slot_machine_client.c:691) are switched on for liveness and, being the
favourable case, for the three refutations; the safety run `slot_machine` and the proofs do
without. `FirstLines` is what the line that answers the first prompt may have behind its
first key: `getchar` reads the whole line, and the rest of it waits in stdio, its newline
and any `s` or `q` in front of that included. `Capacity = 2` datagrams is small against a real
receive buffer; since a full buffer only loses datagrams, it adds behaviours
to the faulty runs, and in the runs without faults stop-and-wait never fills it.

## 4. Horse race

One action per iteration of the sweep, one for the snapshot that ends it, and one client,
which may be killed at any time before it prints (`ClientDies`).

* `horse_faults` (4 horses, track of 1, steps of 0 to 2, all faults, a client that may fall
  behind): both rankings are rankings of exactly the horses past the line, ranks are
  final, no horse finishes at the client only. Four horses let a fourth one finish in
  the last sweep. `RaceEnds`: the race ends at the server, with the snapshots lost, the
  client's buffer full or the client dead, since nothing the server does waits for it.
* `horse_live` (4 horses, track of 2, steps of 0 to 2, no faults): `RankingsAgree`,
  the two rankings are the same; `ClientSeesEnd`, a client that is not killed prints.

Fairness: weak fairness of both programs, strong fairness of non-zero rolls (`rand() % 5`
is not 0 for ever); the client's death is never assumed.

Both properties of `horse_live` need a network without faults: one lost snapshot puts two sweeps into one and can
make the podium contradict the server's ranks, and the loss of the last one
leaves the client in `recvfrom` for ever.

`KeepsUp` says that the client is never a whole receive buffer behind; it is
assumed only where nothing may be lost. Real tracks are longer (`TRACK_LENGTH`
in the sources), but a race is decided by which horses cross in which sweep,
and a track of 1 already gives every such pattern for 4 horses, because a roll may be 0. A
track of 2 adds positions short of the line.

## 5. Dice

* `dice_faults` (two clients, all faults): one roll, one client served, its
  verdict is that of the roll.

A request sent before `bind`, and a second client's request (which the server takes
for the end of the first game, Dice_server.c:74), are never answered. That the
game ends, `GameEnds`, is therefore a property of a client that finds the server
bound; it is checked where the dispatcher starts the server (`land_one`, next section).

Two faces are enough for either side to win and for a draw; where only the
question who is answered matters (`Land`), one face is.

## 6. Lobby and Land

**`Lobby`** has the games by their contract: a server and a client of the same game
that meet both end (`Meet`); otherwise the client blocks (`Miss`). A server ends
unmet only if processes fail or if there is another player (`Crowded`).

**`Land`** takes the contract of game 1 away. `LandServeGame` and `LandUserPlays`
start the processes of `DiceGame` (an instance whose server, queue and clients are
`dspc`, `dinbox`, `dcpc`, ...), their datagrams decide who meets whom, and `wait()`
returns when the process has exited. All dice servers share one port, so a
datagram meant for one may be read by the next. `ImplementsLobby` (safety) and
`ImplementsFairLobby` (with fairness) say that the contract is kept: every
step of the composition is a step of `Lobby` or none.

`Crowded` is there because of `Land`: without it `ImplementsLobby` fails. With two
players a `GAME ENDS` that arrives after its server has ended, or another
player's `1`, is the first datagram of the next dice server, whose own player's request
is then the second one and ends it unanswered (Dice_server.c:74). What survives
is `OneRollPerGame`: whatever the players send, a GAME command buys at most one roll,
and a result only reaches a client that waits for one.

Runs:

* `lobby_faults` (two players, two commands each, one game, losses and reordering, failing
  processes, control-C, a capacity of 3): `TypeOK`, `RepliesMatch`. Doubled datagrams are
  left out because a doubled command is answered twice, and the second reply answers nothing.
* `land_two` (two players, three commands each, games 1 and 2, control-C, no losses: the
  capacity of 16 exceeds all sends): `LandTypeOK`, `OneRollPerGame`,
  `RequestConserved`, `ImplementsLobby`. Three commands let one player start two dice
  games and leave datagrams of the first to the second. Failing processes are left
  out: with them `Lobby` lets a server end at any time.
* `land_one` (one player, five commands, games 1 and 2, arguments that are no game,
  `ServerBound`, no failing process): `NothingEaten`, `GameHasPlayer`,
  `CommandsReturn`, `GameEnds`, `ImplementsFairLobby`.

`ProcessesFail`, `PlayersLeave`, `ServerBound` (a game's server is bound before its
client sends; in `Land`, `OwnServerWaits`) and `UserWaits` are assumptions about the environment,
named and given per run. `land_one` leaves out an omitted argument, with which the
dispatcher starts a game the player does not.

Fairness: weak fairness of the dispatcher, of each command line and of each game
process. Typing, control-C and starting a program are never assumed to happen.

## 7. File transfer

`send_path` and `recv_path` are called by nobody; `FileTransfer` runs them against each
other. One action per turn of either loop; a byte is its position in the file.

* `file` (`BUF_SIZE` 3, files of 0 to 12 bytes, losses, a capacity of 3, failing reads and
  writes): `TypeOK`, `EndedCopy`, `CopyInOrder`, `TransferEnds`.

The sender reads `BUF_SIZE` bytes at a time (execute.c:66), the receiver asks for
`MAX_BUF - 1` of the same number (client.c:95): the last byte of every full datagram
is cut off (`Kept`). Only an empty datagram ends the receiver, and the sender
sends one only for a file whose length is a multiple of `BUF_SIZE`; for every other
file the receiver waits for ever, with all the bytes it will get. `EndedCopy` and
`TransferEnds` say exactly this. Three bytes to a buffer and up to four buffers
give an empty file, short, full and several full datagrams, on both sides of every
boundary. Fairness: both programs run.

## 8. Proofs

Every invariant and every safety action property that a passing run checks is also
a theorem. The theorems hold for every value of the constants that the `ASSUME`s
of the modules admit: any number of clients, horses, coins, keys, commands,
buffers and any capacity of a socket. What they suppose besides, about the network and
the environment, is in the table; "-" is nothing.

| theorems | suppose |
|---|---|
| `SlotTypes`, `SlotImplementsLedger` | - |
| `SlotConversation`, `SlotCoinsAgree`, `SlotRepliesMatch`, `SlotReelsMeetResult`, `SlotStopAndWait` | nothing doubled; where datagrams are reordered, `InitCoin > 0` |
| `ScreenTypes`, `ScreenStopsSpaced`, `ScreenPressSeenOnce`, `ScreenImplementsSlot` | - |
| `ScreenPaidAsShown` | the same |
| `HorseTypes`, `HorseServerRanking`, `HorseClientRanking`, `HorseNoPhantomFinisher`, `HorseRanksStand` | - |
| `HorseRankingsAgree` | no faults, `KeepsUp` |
| `DiceTypes`, `DiceOneClientServed` | - |
| `LobbyTypes`, `LandTypes` | - |
| `LobbyRepliesMatch`, `LandRepliesMatch`, `LandOneRollPerGame`, `LandImplementsLobby` | nothing doubled |
| `LobbyRequestConserved`, `LandRequestConserved` | no faults, `UserWaits`, `[]Room` |
| `LobbyNothingEaten`, `LobbyGameHasPlayer`, `LandNothingEaten`, `LandGameHasPlayer` | `Alone(p)` |
| `FileTypes` | - |
| `FileCopyInOrder`, `FileEndedCopy` | nothing doubled or reordered |

Each theorem follows from an inductive invariant, kept by one lemma per action. They
are, with what makes them necessary:

* **`UdpProofs`.** What `Arrivals`, the choice of the network, can make of a buffer: on
  a lossy network the old buffer or the old one with the datagram at its end
  (`LossyArrivals`), without faults the latter as long as there is room
  (`FaultlessArrivals`), and without doubling the datagram is inserted at most once
  (`InsertAtInserts`, `ArrivalsOnce`; into a buffer of none or one, `FirstArrival` and
  `SecondArrival`). `ArrivalsType` alone is enough for the types.
* **Slot machine.** `CoinsAgree` says nothing about a client that is waiting, so it is
  not inductive; `Conversation` adds, for each position of the client, where the
  server is, what the sockets hold and how far the two counters are apart.
  `RequestFound` says what the game loop can find in its socket, `ReplyRead` what the
  client can. `StopAndWait` counts the requests that `Conversation` places
  (`RequestsInFlight`). `SlotImplementsLedger` needs none of it, only that a reward is one of
  the prizes (`RewardsType`). Reordering adds `Overtaken` to the
  conversation, a key in front of the start signal: the server then begins the game with
  the key and charges the start signal as the stop. For an "s" this makes no
  difference, and `Conversation` holds again with the coin count; for a "q" the coin count is
  the exception that `RepliesMatch` names. `KeySent` and `ReplySent` say that there is
  never more to overtake (a key is sent into a socket with at most the start signal, a
  reply into an empty one), and `SpentByPlay` that a client which began with
  coins has played a round, and so seen the start signal served, before it is asked for
  "r" or "x". Doubling breaks the conversation: a doubled "s" is charged twice.
* **`SlotScreen`.** `ReelsMove` says where in a spin or a halt the frame counters are:
  each reel at rest has its offset at 80, the next one stops `STOP_DELAY` frames later.
  `PressesCount` counts every press that can still be seen. `ScreenImplementsSlot` goes
  through the actions of `SlotScreen` one by one; by it the theorems about `SlotMachine`
  hold of the frame-by-frame client, and `PaysShown` ties the outcome in the
  conversation to the digits in the windows.
* **Horse race.** `Ranked` (types, both rankings, everything the client ranks has
  finished, every waiting snapshot is of a position that the server has passed) is
  inductive on any network, because positions only grow. For the agreement `InStep`
  reads the client's screen, the waiting snapshots and the server's positions as one
  chain: each link adds horses in the order of the server's ranks (`Follows`), and a
  link with a full podium is the last one. A lost or overtaken snapshot breaks the chain, and
  the two rankings may then differ. A client that is killed has no chain any more, but the
  ranks it gave stand (`StepStands`), so `AgreedInStep` asks for `InStep` of the living only.
* **Dice.** `OneAnswer`: before the answer nobody has a result, afterwards all
  results in flight are the one roll and in one client's socket. It holds on every
  network because the second datagram ends the server whoever sent it.
* **Lobby.** `InFlight` puts one command or one reply, of the right kind, on the way of
  each blocked client and nothing on the way of the others. `Conserved` adds that a
  client with nothing on its way has had its command dropped, and only such a client. `Room`
  (the dispatcher's socket is not full; what users type is bounded, how fast they type
  it is not) stands in for the capacity of 16 of `land_two`. `Alone(p)` describes the
  instance of `land_one`: one player, no failing process, no omitted argument; `Orderly`
  is then the order of the datagrams in the dispatcher's socket (`Sequence`), what
  is at its front for each position of the dispatcher (`Paired`), and that there is room
  (`Spare`).
* **Land.** `LandInv`: a dice server exists only while the dispatcher waits for it
  (`ServerHeld`), a server that has not answered has a roll to its credit (`RollsPaid`),
  and each player's request is in the server's socket, or its result in its own, or
  neither, but never twice (`PlayersHeld`). For a player alone whose processes do not
  fail `WhenSole` adds that the server the player finds is its own. Doubling is
  excluded for two reasons: a doubled result is still in its player's socket when the
  player waits no more, against `OneRollPerGame`; and the doubled request of a lone
  player who has been killed ends the server that it started without a meeting, against the
  contract. The theorems of `LobbyProofs` then hold of
  `Land` by `LandImplementsLobby`.
* **File transfer.** `Stream`: the copy and, behind it, the waiting chunks are in the
  order of the file, and go no further than the sender has read. `Delivery`: chunks begin at multiples of
  `BUF_SIZE`, an empty chunk waits only behind the whole file, and, as long as
  nothing was lost, every byte that has been read and is not the last of its buffer is
  written or waits.

**Only model-checked**: everything under fairness, which is out of TLAPS's reach as is
`ENABLED` (`RoundCompletes`, `QuitCompletes`, `HomePressStarts`, `RaceEnds`,
`ClientSeesEnd`, `CommandsReturn`, `GameEnds`, `TransferEnds`, and the fairness in
`ImplementsMachine` and `ImplementsFairLobby`, whose safety halves are
`ScreenImplementsSlot` and `LandImplementsLobby`), and the three violations.

## 9. Not modelled

* More than one client of the slot machine or of the horse race, and a second run of either
  server: `SlotMachine` and `HorseRace` have one client each. Only the dice game and the
  dispatcher are modelled with several.
* Drawing: fonts, bitmaps, rectangles, copies to the frame buffer. No later step
  reads any of it; the rows of the reels' digits, on which `PaidAsShown` depends, are
  in `SlotScreen`.
* Terminal modes (`set_terminal_mode`), and code under `#if 0`.
* A contact of the button that bounces for longer than a frame.
* The end of the command line's input: `fgets` fails, `client.c:159` goes round its
  loop without leaving it and without sending anything.
* Errors of `sendto`, and of `recvfrom` on a bound socket.
* `define.h` (nothing it declares is used), build files and executables.

## 10. Plan

1. Proofs with weaker suppositions. `ImplementsLobby` holds with doubled
   datagrams of two players with two commands each: only a lone player needs
   `"duplicate" \notin Faults`. `RequestConserved` under reordering needs
   `FaultlessArrivals` for an insertion anywhere.
2. The horse race and the slot machine in `Land` next to the dice. Their clients and
   servers end by other rules (the slot machine's server may survive its player),
   so `Lobby`'s contract would become one per game.
