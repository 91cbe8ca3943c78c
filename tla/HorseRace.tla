----------------------------- MODULE HorseRace ------------------------------
(***************************************************************************)
(* horse_racing_server.c runs a race and sends a snapshot of all positions *)
(* after every sweep over the horses; horse_racing_client.c ranks the      *)
(* horses a second time, from the snapshots that reach it.  Nobody sends   *)
(* the ranking itself.                                                     *)
(*                                                                         *)
(* spc: "boot" before bind, "await" the start signal, "race", "exited".    *)
(* cpc: "press" in getchar, "race" in the receive loop, "exited" after the *)
(* results were printed, "killed" if it ended before.                      *)
(***************************************************************************)
EXTENDS Udp, Integers, FiniteSets

CONSTANTS
    HORSES,        \* number of horses
    TRACK_LENGTH,  \* the position that finishes the race
    MaxRoll,       \* rand() % 5 gives 0 .. MaxRoll
    UserWaits,     \* TRUE: the user starts the client only once the server is bound
    KeepsUp        \* TRUE: the client never falls a whole receive buffer behind

ASSUME RaceAssumption ==
    /\ HORSES \in Nat /\ HORSES >= 3
    /\ TRACK_LENGTH \in Nat \ {0}
    /\ MaxRoll \in Nat \ {0}
    /\ UserWaits \in BOOLEAN
    /\ KeepsUp \in BOOLEAN

VARIABLES
    spc,
    turn,            \* the horse the server's for loop is at
    position,        \* horses[i].position
    finished,        \* the horses with horses[i].finished set
    rankings,        \* the server's rankings[]
    rank,            \* the server's next rank
    finished_count,
    inbox,           \* datagrams waiting in the server's socket
    cpc,
    shown,           \* the client's positions[]
    crankings,       \* the client's rankings[]
    crank,           \* the client's next rank
    cfinished,       \* the client's count of finished horses
    snapshots        \* datagrams waiting in the client's socket

svars == <<spc, turn, position, finished, rankings, rank, finished_count>>
cvars == <<cpc, shown, crankings, crank, cfinished>>
vars == <<svars, inbox, cvars, snapshots>>

Horse == 1 .. HORSES
Winners == 3

Init ==
    /\ spc = "boot" /\ turn = 1
    /\ position = [h \in Horse |-> 0] /\ finished = {}
    /\ rankings = [h \in Horse |-> 0] /\ rank = 1 /\ finished_count = 0
    /\ inbox = <<>>
    /\ cpc = "press"
    /\ shown = [h \in Horse |-> 0]
    /\ crankings = [h \in Horse |-> 0] /\ crank = 1 /\ cfinished = 0
    /\ snapshots = <<>>

-----------------------------------------------------------------------------
(* The server.                                                             *)

Listening == spc \notin {"boot", "exited"}

(* socket and bind, either of which may fail.                              *)
ServerBoot ==
    /\ spc = "boot"
    /\ spc' \in {"await", "exited"}
    /\ UNCHANGED <<turn, position, finished, rankings, rank, finished_count,
                   inbox, cvars, snapshots>>

(* The start signal, which the strcmp with "1" lets pass since nothing else *)
(* is ever sent to this port, and the horses' initialisation, which finds  *)
(* them as Init left them.                                                 *)
ServerSignal ==
    /\ spc = "await" /\ inbox # <<>>
    /\ spc' = "race" /\ inbox' = Tail(inbox)
    /\ UNCHANGED <<turn, position, finished, rankings, rank, finished_count, cvars, snapshots>>

(* One iteration of the for loop over the horses.                          *)
MoveHorseAgain ==      \* mutant: finished horses keep running
    /\ spc = "race" /\ turn \in Horse
    /\ \E roll \in 0 .. MaxRoll :
          position' = [position EXCEPT ![turn] = @ + roll]
    /\ IF position'[turn] >= TRACK_LENGTH
       THEN /\ finished' = finished \cup {turn}
            /\ rankings' = [rankings EXCEPT ![turn] = rank]
            /\ rank' = rank + 1
            /\ finished_count' = finished_count + 1
       ELSE UNCHANGED <<finished, rankings, rank, finished_count>>
    /\ turn' = turn + 1
    /\ UNCHANGED <<spc, inbox, cvars, snapshots>>

MoveHorseRanksLate ==  \* mutant: the rank of a horse is not used up
    /\ spc = "race" /\ turn \in Horse
    /\ \E roll \in IF turn \in finished THEN {0} ELSE 0 .. MaxRoll :
          position' = [position EXCEPT ![turn] = @ + roll]
    /\ IF turn \notin finished /\ position'[turn] >= TRACK_LENGTH
       THEN /\ finished' = finished \cup {turn}
            /\ rankings' = [rankings EXCEPT ![turn] = rank]
            /\ finished_count' = finished_count + 1
            /\ UNCHANGED rank
       ELSE UNCHANGED <<finished, rankings, rank, finished_count>>
    /\ turn' = turn + 1
    /\ UNCHANGED <<spc, inbox, cvars, snapshots>>

MoveHorse ==
    /\ spc = "race" /\ turn \in Horse
    /\ \E roll \in IF turn \in finished THEN {0} ELSE 0 .. MaxRoll :
          position' = [position EXCEPT ![turn] = @ + roll]
    /\ IF turn \notin finished /\ position'[turn] >= TRACK_LENGTH
       THEN /\ finished' = finished \cup {turn}
            /\ rankings' = [rankings EXCEPT ![turn] = rank]
            /\ rank' = rank + 1
            /\ finished_count' = finished_count + 1
       ELSE UNCHANGED <<finished, rankings, rank, finished_count>>
    /\ turn' = turn + 1
    /\ UNCHANGED <<spc, inbox, cvars, snapshots>>

(* send_positions after the sweep, the sleep and the loop condition: the   *)
(* race is over when a whole sweep has ended with three horses finished.   *)
SendToClient ==
    snapshots' \in IF cpc \in {"press", "race"} THEN Arrivals(snapshots, position) ELSE {snapshots}

SendPositionsUnlessOver ==  \* mutant: the loop ends before the last snapshot is sent
    /\ spc = "race" /\ turn > HORSES
    /\ KeepsUp => Len(snapshots) < Capacity
    /\ turn' = 1
    /\ IF finished_count < Winners
       THEN SendToClient /\ UNCHANGED spc
       ELSE spc' = "exited" /\ UNCHANGED snapshots
    /\ inbox' = IF spc' = "exited" THEN <<>> ELSE inbox
    /\ UNCHANGED <<position, finished, rankings, rank, finished_count, cvars>>

SendPositionsForever ==     \* mutant: the loop waits for one finisher too many
    /\ spc = "race" /\ turn > HORSES
    /\ KeepsUp => Len(snapshots) < Capacity
    /\ SendToClient
    /\ turn' = 1
    /\ spc' = IF finished_count <= HORSES THEN "race" ELSE "exited"
    /\ inbox' = IF spc' = "exited" THEN <<>> ELSE inbox
    /\ UNCHANGED <<position, finished, rankings, rank, finished_count, cvars>>

SendPositions ==
    /\ spc = "race" /\ turn > HORSES
    /\ KeepsUp => Len(snapshots) < Capacity
    /\ SendToClient
    /\ turn' = 1
    /\ spc' = IF finished_count < Winners THEN "race" ELSE "exited"
    /\ inbox' = IF spc' = "exited" THEN <<>> ELSE inbox
    /\ UNCHANGED <<position, finished, rankings, rank, finished_count, cvars>>

-----------------------------------------------------------------------------
(* The client.                                                             *)

(* getchar and the start signal "1".                                       *)
ClientStart ==
    /\ cpc = "press"
    /\ UserWaits => Listening
    /\ inbox' \in IF Listening THEN Arrivals(inbox, "1") ELSE {inbox}
    /\ cpc' = "race"
    /\ UNCHANGED <<svars, shown, crankings, crank, cfinished, snapshots>>

(* recvfrom, sscanf and the for loop: the horses that have crossed the     *)
(* line and have no rank yet are ranked in the order of their index.       *)
ClientReceiveReRanks ==     \* mutant: rankings[i] == 0 is not asked
    LET news == {h \in Horse : Head(snapshots)[h] >= TRACK_LENGTH}
        place(h) == Cardinality({g \in news : g < h})
    IN  /\ cpc = "race" /\ snapshots # <<>>
        /\ shown' = Head(snapshots) /\ snapshots' = Tail(snapshots)
        /\ crankings' = [h \in Horse |-> IF h \in news THEN crank + place(h) ELSE crankings[h]]
        /\ crank' = crank + Cardinality(news)
        /\ cfinished' = cfinished + Cardinality(news)
        /\ cpc' = IF cfinished' < Winners THEN "race" ELSE "exited"
        /\ UNCHANGED <<svars, inbox>>

ClientReceiveAtLine ==      \* mutant: a horse one step before the line counts
    LET news == {h \in Horse : Head(snapshots)[h] >= TRACK_LENGTH - 1 /\ crankings[h] = 0}
        place(h) == Cardinality({g \in news : g < h})
    IN  /\ cpc = "race" /\ snapshots # <<>>
        /\ shown' = Head(snapshots) /\ snapshots' = Tail(snapshots)
        /\ crankings' = [h \in Horse |-> IF h \in news THEN crank + place(h) ELSE crankings[h]]
        /\ crank' = crank + Cardinality(news)
        /\ cfinished' = cfinished + Cardinality(news)
        /\ cpc' = IF cfinished' < Winners THEN "race" ELSE "exited"
        /\ UNCHANGED <<svars, inbox>>

ClientReceive ==
    LET news == {h \in Horse : Head(snapshots)[h] >= TRACK_LENGTH /\ crankings[h] = 0}
        place(h) == Cardinality({g \in news : g < h})
    IN  /\ cpc = "race" /\ snapshots # <<>>
        /\ shown' = Head(snapshots) /\ snapshots' = Tail(snapshots)
        /\ crankings' = [h \in Horse |-> IF h \in news THEN crank + place(h) ELSE crankings[h]]
        /\ crank' = crank + Cardinality(news)
        /\ cfinished' = cfinished + Cardinality(news)
        /\ cpc' = IF cfinished' < Winners THEN "race" ELSE "exited"
        /\ UNCHANGED <<svars, inbox>>

(* Control-C anywhere (the client has no handler), and a frame buffer that *)
(* cannot be opened; its socket goes with it.                              *)
ClientDies ==
    /\ cpc \in {"press", "race"}
    /\ cpc' = "killed" /\ snapshots' = <<>>
    /\ UNCHANGED <<svars, inbox, shown, crankings, crank, cfinished>>

(* The horses printed behind place r once the loop has ended.              *)
print_race_results(r) == {h \in Horse : crankings[h] = r}

-----------------------------------------------------------------------------
Server == ServerSignal \/ MoveHorse \/ SendPositions

Next == ServerBoot \/ Server \/ ClientStart \/ ClientReceive \/ ClientDies

Spec == Init /\ [][Next]_vars

(* Both programs run whenever they can, and rand() % 5 is not zero forever. *)
Progress == MoveHorse /\ position' # position
FairSpec == Spec /\ WF_vars(Server) /\ WF_vars(ClientReceive) /\ SF_vars(Progress)

-----------------------------------------------------------------------------
(* Properties.                                                             *)

(* No position is beyond the last step over the line, and no rank or count  *)
(* beyond the number of horses, on either side.                            *)
TypeOK ==
    /\ spc \in {"boot", "await", "race", "exited"}
    /\ cpc \in {"press", "race", "exited", "killed"}
    /\ turn \in 1 .. HORSES + 1
    /\ position \in [Horse -> 0 .. TRACK_LENGTH + MaxRoll - 1]
    /\ finished \subseteq Horse
    /\ rankings \in [Horse -> 0 .. HORSES] /\ rank \in 1 .. HORSES + 1
    /\ finished_count \in 0 .. HORSES
    /\ inbox \in Seq({"1"})
    /\ shown \in [Horse -> 0 .. TRACK_LENGTH + MaxRoll - 1]
    /\ crankings \in [Horse -> 0 .. HORSES] /\ crank \in 1 .. HORSES + 1
    /\ cfinished \in 0 .. HORSES
    /\ snapshots \in Seq([Horse -> 0 .. TRACK_LENGTH + MaxRoll - 1])

(* r is a ranking of the horses in F: they hold the ranks 1 .. n, each     *)
(* exactly once, next is the rank after them, and nobody else has one.     *)
RankingOf(r, F, n, next) ==
    /\ next = n + 1
    /\ \A h \in Horse : r[h] # 0 <=> h \in F
    /\ \A h \in F : r[h] \in 1 .. n
    /\ \A h, g \in F : r[h] = r[g] => h = g
    /\ \A k \in 1 .. n : \E h \in F : r[h] = k

(* The horses the server has ranked are those past the line, and their     *)
(* ranks are 1, 2, 3 ... without a gap or a tie, even when several horses  *)
(* cross in the last sweep, after the third finisher                       *)
(* (horse_racing_server.c:103-118).                                        *)
ServerRanking ==
    /\ finished = {h \in Horse : position[h] >= TRACK_LENGTH}
    /\ RankingOf(rankings, finished, finished_count, rank)

(* The same of the ranking the client makes up from the snapshots, however *)
(* few of them arrive: the printed podium has one 1st, one 2nd and one 3rd *)
(* (horse_racing_client.c:364-369 and 302-320).                            *)
ClientRanking ==
    /\ RankingOf(crankings, {h \in Horse : crankings[h] # 0}, cfinished, crank)
    /\ cpc = "exited" => \A r \in 1 .. Winners : Cardinality(print_race_results(r)) = 1

(* The client ranks no horse that has not finished at the server.          *)
NoPhantomFinisher == \A h \in Horse : crankings[h] # 0 => rankings[h] # 0

(* A rank once given, on either side, stands.                              *)
RanksStand ==
    [][\A h \in Horse : /\ rankings[h] # 0 => rankings'[h] = rankings[h]
                        /\ crankings[h] # 0 => crankings'[h] = crankings[h]]_vars

(* Without faults the client's ranking never contradicts the server's, and *)
(* the two are the same when the client prints: each orders the horses     *)
(* that crossed in one sweep by their index.  With losses the client may   *)
(* see two sweeps at once and order them wrongly.                          *)
RankingsAgree ==
    /\ \A h \in Horse : crankings[h] # 0 => crankings[h] = rankings[h]
    /\ cpc = "exited" => crankings = rankings

(* Every race the server starts ends at the server, whatever becomes of    *)
(* the snapshots: they may be lost, or find the client's receive buffer    *)
(* full or the client killed (horse_racing_server.c:103-125).              *)
RaceEnds == spc = "race" ~> spc = "exited"

(* horse_racing_client.c:357 "until 3 horses have finished": a client      *)
(* whose start signal has reached the server prints the results, unless it *)
(* is killed.                                                              *)
ClientSeesEnd ==
    (cpc = "race" /\ (inbox # <<>> \/ spc = "race")) ~> cpc \in {"exited", "killed"}
=============================================================================
