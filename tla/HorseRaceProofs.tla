-------------------------- MODULE HorseRaceProofs ---------------------------
(***************************************************************************)
(* Theorems about the horse race for any number of horses, any track and   *)
(* any rolls: on every network the types, the two rankings, no phantom     *)
(* finisher and no rank taken back; on a network without faults, with a    *)
(* client that keeps up, the agreement of the two rankings.                *)
(***************************************************************************)
EXTENDS HorseRace, UdpProofs, FiniteSetTheorems, FunctionTheorems

-----------------------------------------------------------------------------
(* Counting horses.                                                        *)

(* What the number of horses makes of a set of horses.                     *)
LEMMA HorsesFinite ==
    ASSUME NEW F \in SUBSET Horse
    PROVE  /\ IsFiniteSet(F)
           /\ Cardinality(F) \in 0 .. HORSES
<1>1. IsFiniteSet(Horse) /\ Cardinality(Horse) = HORSES
  BY FS_Interval, RaceAssumption DEF Horse
<1> QED
  BY <1>1, FS_Subset, FS_CardinalityType, RaceAssumption

(* The rank after a count of horses.                                       *)
LEMMA NextRank == \A n \in 0 .. HORSES : n + 1 \in 1 .. HORSES + 1
BY RaceAssumption

(* The ranks of a ranking are as many as its horses.                       *)
LEMMA RankingCounts ==
    ASSUME NEW r \in [Horse -> Int], NEW F \in SUBSET Horse, NEW n \in Nat, NEW next,
           RankingOf(r, F, n, next)
    PROVE  n = Cardinality(F) /\ n \in 0 .. HORSES /\ next = n + 1
<1> DEFINE f == [h \in F |-> r[h]]
<1>1. f \in Bijection(F, 1 .. n)
  <2>1. f \in [F -> 1 .. n]
    BY DEF RankingOf
  <2>2. \A h, g \in F : f[h] = f[g] => h = g
    BY DEF RankingOf
  <2>3. \A k \in 1 .. n : \E h \in F : f[h] = k
    BY DEF RankingOf
  <2> QED
    BY <2>1, <2>2, <2>3, Fun_IsBij
<1>2. IsFiniteSet(F) /\ Cardinality(F) \in 0 .. HORSES
  BY HorsesFinite
<1>3. ExistsBijection(F, 1 .. n)
  BY <1>1, Fun_ExistsBij
<1>4. Cardinality(1 .. n) = Cardinality(F) /\ Cardinality(1 .. n) = n
  BY <1>2, <1>3, FS_Bijection, FS_Interval
<1> QED
  BY <1>2, <1>4 DEF RankingOf

(* The places of the horses of a set, by index, are 0, 1, 2, ...           *)
LEMMA Places ==
    ASSUME NEW N \in SUBSET Horse
    PROVE  LET place(h) == Cardinality({g \in N : g < h})
           IN  /\ \A h \in N : place(h) \in 0 .. Cardinality(N) - 1
               /\ \A h, k \in N : place(h) = place(k) => h = k
               /\ \A p \in 0 .. Cardinality(N) - 1 : \E h \in N : place(h) = p
<1> DEFINE before(h) == {g \in N : g < h}
           place(h) == Cardinality(before(h))
           f == [h \in N |-> place(h)]
           P == 0 .. Cardinality(N) - 1
<1> N \subseteq Int
  BY RaceAssumption DEF Horse
<1>1. IsFiniteSet(N) /\ Cardinality(N) \in Nat
  BY HorsesFinite
<1>2. ASSUME NEW h \in N PROVE place(h) \in P
  <2>1. before(h) \subseteq N \ {h}
    OBVIOUS
  <2>2. IsFiniteSet(N \ {h}) /\ Cardinality(N \ {h}) = Cardinality(N) - 1
    BY <1>1, FS_RemoveElement
  <2>3. IsFiniteSet(before(h)) /\ Cardinality(before(h)) <= Cardinality(N \ {h})
    BY <2>1, <2>2, FS_Subset
  <2>4. Cardinality(before(h)) \in Nat
    BY <2>3, FS_CardinalityType
  <2> QED
    BY <1>1, <2>2, <2>3, <2>4
<1>3. ASSUME NEW h \in N, NEW k \in N, h < k PROVE place(h) < place(k)
  <2>1. before(h) \subseteq before(k) /\ h \in before(k) /\ h \notin before(h)
    <3>1. h \in Int /\ k \in Int /\ ~(h < h)
      OBVIOUS
    <3>2. \A g \in N : g < h => g < k
      BY <1>3, <3>1
    <3> QED
      BY <1>3, <3>1, <3>2
  <2>2. IsFiniteSet(before(k)) /\ before(k) \subseteq Horse /\ before(h) \subseteq Horse
    <3>1. before(k) \subseteq Horse /\ before(h) \subseteq Horse
      OBVIOUS
    <3> QED
      BY <3>1, HorsesFinite
  <2>3. Cardinality(before(h)) <= Cardinality(before(k))
        /\ Cardinality(before(h)) # Cardinality(before(k))
    BY <2>1, <2>2, FS_Subset
  <2>4. Cardinality(before(h)) \in Nat /\ Cardinality(before(k)) \in Nat
    BY <2>2, HorsesFinite
  <2> QED
    BY <2>3, <2>4
<1>4. \A h, k \in N : place(h) = place(k) => h = k
  <2> SUFFICES ASSUME NEW h \in N, NEW k \in N, h # k PROVE place(h) # place(k)
    OBVIOUS
  <2>1. place(h) \in Int /\ place(k) \in Int
    BY <1>2
  <2>2. h < k \/ k < h
    OBVIOUS
  <2> HIDE DEF place
  <2> QED
    BY <1>3, <2>1, <2>2
<1>5. \A p \in P : \E h \in N : place(h) = p
  <2>1. f \in Injection(N, P)
    <3>1. f \in [N -> P]
      BY <1>2
    <3>2. \A h, k \in N : f[h] = f[k] => h = k
      BY <1>4
    <3> QED
      BY <3>1, <3>2, Fun_IsInj
  <2>2. IsFiniteSet(P) /\ Cardinality(P) = Cardinality(N)
    BY <1>1, FS_Interval
  <2>3. f \in Surjection(N, P)
    BY <2>1, <2>2, FS_Injection
  <2>4. \A p \in P : \E h \in N : f[h] = p
    BY <2>3 DEF Surjection
  <2> QED
    BY <2>4
<1> QED
  BY <1>2, <1>4, <1>5

(* Ranking further horses by their index makes a ranking of them all: one  *)
(* receive of the client ranks several, one iteration of the server one.   *)
LEMMA RankingGrows ==
    ASSUME NEW r \in [Horse -> Int], NEW F \in SUBSET Horse, NEW n \in Nat, NEW next,
           RankingOf(r, F, n, next), NEW N \in SUBSET Horse, F \cap N = {},
           NEW q \in [Horse -> Int],
           \A h \in Horse : q[h] = IF h \in N THEN next + Cardinality({g \in N : g < h})
                                   ELSE r[h]
    PROVE  RankingOf(q, F \cup N, n + Cardinality(N), next + Cardinality(N))
<1> DEFINE c == Cardinality(N)
           place(h) == Cardinality({g \in N : g < h})
<1>1. c \in Nat /\ next = n + 1
  BY HorsesFinite DEF RankingOf
<1>2. /\ \A h \in N : place(h) \in 0 .. c - 1
      /\ \A h, k \in N : place(h) = place(k) => h = k
      /\ \A p \in 0 .. c - 1 : \E h \in N : place(h) = p
  BY Places
<1>3. /\ \A h \in N : q[h] = n + 1 + place(h)
      /\ \A h \in Horse \ N : q[h] = r[h]
  BY <1>1
<1> HIDE DEF place, c
<1>4. \A h \in N : q[h] \in n + 1 .. n + c
  BY <1>1, <1>2, <1>3
<1>5. \A h \in F : q[h] = r[h] /\ q[h] \in 1 .. n
  BY <1>3 DEF RankingOf
<1>6. \A h \in Horse : q[h] # 0 <=> h \in F \cup N
  BY <1>1, <1>3, <1>4, <1>5 DEF RankingOf
<1>7. \A h \in F \cup N : q[h] \in 1 .. n + c
  BY <1>1, <1>4, <1>5
<1>8. ASSUME NEW h \in F \cup N, NEW g \in F \cup N, q[h] = q[g] PROVE h = g
  <2>1. CASE h \in F /\ g \in F
    BY <1>5, <1>8, <2>1 DEF RankingOf
  <2>2. CASE h \in N /\ g \in N
    <3>1. place(h) = place(g)
      BY <1>1, <1>2, <1>3, <1>8, <2>2
    <3> QED
      BY <1>2, <2>2, <3>1
  <2>3. CASE (h \in F /\ g \in N) \/ (h \in N /\ g \in F)
    BY <1>1, <1>4, <1>5, <1>8, <2>3
  <2> QED
    BY <2>1, <2>2, <2>3
<1>9. ASSUME NEW k \in 1 .. n + c PROVE \E h \in F \cup N : q[h] = k
  <2>1. CASE k <= n
    <3>1. PICK h \in F : r[h] = k
      BY <2>1, <1>9 DEF RankingOf
    <3> QED
      BY <3>1, <1>5
  <2>2. CASE k > n
    <3>1. k - n - 1 \in 0 .. c - 1
      BY <1>1, <2>2
    <3>2. PICK h \in N : place(h) = k - n - 1
      BY <1>2, <3>1
    <3>3. q[h] = k
      BY <1>3, <3>2
    <3> QED
      BY <3>3
  <2> QED
    BY <1>1, <2>1, <2>2
<1>10. next + c = (n + c) + 1
  BY <1>1
<1> QED
  BY <1>6, <1>7, <1>8, <1>9, <1>10 DEF RankingOf, c

-----------------------------------------------------------------------------
(* The inductive invariant on every network.                               *)

Positions == [Horse -> 0 .. TRACK_LENGTH + MaxRoll - 1]

(* The snapshots the server may have sent: they show no horse over the line *)
(* that has not finished.                                                  *)
Past == {s \in Positions : \A h \in Horse : s[h] >= TRACK_LENGTH => h \in finished}

CRanked == {h \in Horse : crankings[h] # 0}

(* What either program knows of the race is true of it.                    *)
Ranked ==
    /\ TypeOK
    /\ ServerRanking
    /\ RankingOf(crankings, CRanked, cfinished, crank)
    /\ cpc = "exited" => cfinished >= Winners
    /\ CRanked \subseteq finished
    /\ snapshots \in Seq(Past)

(* A buffer keeps its type when the type admits more.                      *)
LEMMA PastGrows ==
    ASSUME NEW S, NEW T, S \subseteq T, NEW q \in Seq(S)
    PROVE  q \in Seq(T)
<1>1. \A i \in 1 .. Len(q) : q[i] \in T
  BY ElementOfSeq
<1> QED
  BY <1>1, SeqOfSubset

(* One iteration of the server's loop either moves a horse that stays short *)
(* of the line, or leaves a finished one, or gives one horse the next rank. *)
LEMMA MoveHorseCases ==
    ASSUME TypeOK, ServerRanking, MoveHorse
    PROVE  /\ turn \in Horse /\ turn' = turn + 1
           /\ position' \in Positions
           /\ \A h \in Horse \ {turn} : position'[h] = position[h]
           /\ UNCHANGED <<spc, inbox, cvars, snapshots>>
           /\ \/ /\ position'[turn] >= TRACK_LENGTH <=> turn \in finished
                 /\ UNCHANGED <<finished, rankings, rank, finished_count>>
              \/ /\ turn \notin finished /\ position'[turn] >= TRACK_LENGTH
                 /\ finished' = finished \cup {turn}
                 /\ rankings' = [rankings EXCEPT ![turn] = rank]
                 /\ rank' = rank + 1 /\ finished_count' = finished_count + 1
<1> USE RaceAssumption
<1>1. PICK roll \in IF turn \in finished THEN {0} ELSE 0 .. MaxRoll :
         position' = [position EXCEPT ![turn] = position[turn] + roll]
  BY DEF MoveHorse
<1>2. turn \in Horse /\ position[turn] \in 0 .. TRACK_LENGTH + MaxRoll - 1
  BY DEF MoveHorse, TypeOK
<1>3. turn \notin finished => position[turn] < TRACK_LENGTH
  BY <1>2 DEF ServerRanking
<1>4. turn \in finished => position[turn] >= TRACK_LENGTH /\ roll = 0
  BY <1>1 DEF ServerRanking
<1>5. position[turn] + roll \in 0 .. TRACK_LENGTH + MaxRoll - 1
  BY <1>1, <1>2, <1>3, <1>4
<1>6. /\ position' \in Positions /\ position'[turn] = position[turn] + roll
      /\ \A h \in Horse \ {turn} : position'[h] = position[h]
  BY <1>1, <1>2, <1>5 DEF TypeOK, Positions
<1>7. CASE turn \notin finished /\ position'[turn] >= TRACK_LENGTH
  BY <1>2, <1>6, <1>7 DEF MoveHorse
<1>8. CASE ~(turn \notin finished /\ position'[turn] >= TRACK_LENGTH)
  <2>1. position'[turn] >= TRACK_LENGTH <=> turn \in finished
    BY <1>2, <1>4, <1>6, <1>8
  <2> QED
    BY <1>2, <1>6, <1>8, <2>1 DEF MoveHorse
<1> QED
  BY <1>7, <1>8

(* The server's loop keeps the ranking of the horses past the line.        *)
LEMMA MoveHorseKeeps ==
    ASSUME Ranked, MoveHorse
    PROVE  Ranked'
<1> USE RaceAssumption
<1>1. TypeOK /\ ServerRanking
  BY DEF Ranked
<1>2. /\ turn \in Horse /\ turn' = turn + 1
      /\ position' \in Positions
      /\ \A h \in Horse \ {turn} : position'[h] = position[h]
      /\ UNCHANGED <<spc, inbox, cvars, snapshots>>
  BY <1>1, MoveHorseCases
<1>3. /\ rankings' \in [Horse -> Int] /\ finished_count' \in Nat
      /\ finished \subseteq finished' /\ finished' \subseteq Horse
      /\ finished' = {h \in Horse : position'[h] >= TRACK_LENGTH}
      /\ RankingOf(rankings', finished', finished_count', rank')
  <2>1. CASE /\ position'[turn] >= TRACK_LENGTH <=> turn \in finished
             /\ UNCHANGED <<finished, rankings, rank, finished_count>>
    <3>1. finished = {h \in Horse : position'[h] >= TRACK_LENGTH}
      <4>1. \A h \in Horse : h \in finished <=> position'[h] >= TRACK_LENGTH
        BY <1>1, <1>2, <2>1 DEF ServerRanking
      <4> QED
        BY <1>1, <4>1 DEF TypeOK
    <3> QED
      BY <1>1, <2>1, <3>1 DEF ServerRanking, TypeOK
  <2>2. CASE /\ turn \notin finished /\ position'[turn] >= TRACK_LENGTH
             /\ finished' = finished \cup {turn}
             /\ rankings' = [rankings EXCEPT ![turn] = rank]
             /\ rank' = rank + 1 /\ finished_count' = finished_count + 1
    <3> DEFINE N == {turn}
    <3>1. /\ rankings \in [Horse -> Int] /\ finished_count \in Nat /\ rank \in Int
          /\ finished \in SUBSET Horse /\ N \in SUBSET Horse /\ finished \cap N = {}
      BY <1>1, <1>2, <2>2 DEF TypeOK
    <3>2. rankings' \in [Horse -> Int] /\ finished_count' \in Nat
      BY <3>1, <2>2
    <3>3. Cardinality(N) = 1 /\ Cardinality({}) = 0
      BY FS_Singleton, FS_EmptySet
    <3>4. {g \in N : g < turn} = {}
      BY <1>2 DEF Horse
    <3>5. \A h \in Horse : rankings'[h] =
             IF h \in N THEN rank + Cardinality({g \in N : g < h}) ELSE rankings[h]
      BY <2>2, <3>1, <3>3, <3>4
    <3>6. RankingOf(rankings, finished, finished_count, rank)
      BY <1>1 DEF ServerRanking
    <3> HIDE DEF N
    <3>7. RankingOf(rankings', finished \cup N, finished_count + Cardinality(N),
                    rank + Cardinality(N))
      BY <3>1, <3>2, <3>5, <3>6, RankingGrows
    <3>8. finished' = {h \in Horse : position'[h] >= TRACK_LENGTH}
      BY <1>1, <1>2, <2>2 DEF ServerRanking
    <3> QED
      BY <2>2, <3>1, <3>2, <3>3, <3>7, <3>8 DEF N
  <2> QED
    BY <1>1, <2>1, <2>2, MoveHorseCases
<1>4. finished_count' \in 0 .. HORSES /\ rank' = finished_count' + 1
  BY <1>3, RankingCounts
<1>5. rankings' \in [Horse -> 0 .. HORSES]
  BY <1>3, <1>4 DEF RankingOf
<1>6. turn' \in 1 .. HORSES + 1
  BY <1>2 DEF Horse
<1>7. TypeOK'
  <2>1. rank' \in 1 .. HORSES + 1
    BY <1>4, NextRank
  <2>2. UNCHANGED <<spc, inbox, cpc, shown, crankings, crank, cfinished, snapshots>>
    BY <1>2 DEF cvars
  <2> QED
    BY <1>1, <1>2, <1>3, <1>4, <1>5, <1>6, <2>1, <2>2 DEF TypeOK, Positions
<1>8. snapshots' \in Seq(Past')
  <2>1. Past \subseteq Past'
    BY <1>3 DEF Past, Positions
  <2> QED
    BY <1>2, <2>1, PastGrows DEF Ranked
<1>9. ServerRanking'
  BY <1>3 DEF ServerRanking
<1> QED
  BY <1>2, <1>3, <1>7, <1>8, <1>9 DEF Ranked, CRanked, cvars

(* A snapshot of the positions is true when it is sent.                    *)
LEMMA SendPositionsKeeps ==
    ASSUME Ranked, SendPositions
    PROVE  Ranked'
<1>1. UNCHANGED <<position, finished, rankings, rank, finished_count, cvars>>
  BY DEF SendPositions
<1>2. position \in Past
  BY DEF Ranked, TypeOK, ServerRanking, Past, Positions
<1>3. snapshots' \in Seq(Past)
  BY <1>2, ArrivalsType DEF SendPositions, SendToClient, Ranked
<1>4. snapshots' \in Seq(Past') /\ Past' = Past
  BY <1>1, <1>3 DEF Past, Positions
<1>5. snapshots' \in Seq(Positions)
  BY <1>3, PastGrows DEF Past
<1>6. spc' \in {"race", "exited"} /\ turn' = 1 /\ inbox' \in {inbox, <<>>}
  BY DEF SendPositions
<1>7. inbox' \in Seq({"1"})
  BY <1>6, EmptyHasType DEF Ranked, TypeOK
<1>8. TypeOK'
  BY <1>1, <1>5, <1>6, <1>7, RaceAssumption DEF Ranked, TypeOK, Positions, cvars
<1> QED
  BY <1>1, <1>4, <1>8 DEF Ranked, ServerRanking, CRanked, cvars

(* What one receive of the client does to its ranking, in terms of the     *)
(* horses that are new in the snapshot.                                    *)
LEMMA ReceiveCases ==
    ASSUME Ranked, ClientReceive
    PROVE  \E news \in SUBSET Horse :
              /\ news = {h \in Horse : Head(snapshots)[h] >= TRACK_LENGTH /\ crankings[h] = 0}
              /\ news \subseteq finished /\ news \cap CRanked = {}
              /\ Head(snapshots) \in Past /\ Tail(snapshots) \in Seq(Past)
              /\ crankings' \in [Horse -> Int]
              /\ \A h \in Horse : crankings'[h] =
                    IF h \in news THEN crank + Cardinality({g \in news : g < h})
                                  ELSE crankings[h]
              /\ crank' = crank + Cardinality(news)
              /\ cfinished' = cfinished + Cardinality(news)
<1> DEFINE news == {h \in Horse : Head(snapshots)[h] >= TRACK_LENGTH /\ crankings[h] = 0}
           place(h) == Cardinality({g \in news : g < h})
<1>1. Head(snapshots) \in Past /\ Tail(snapshots) \in Seq(Past)
  BY HeadTailProperties DEF ClientReceive, Ranked
<1>2. news \subseteq finished /\ news \cap CRanked = {}
  BY <1>1 DEF Past, CRanked
<1>3. /\ crankings' = [h \in Horse |-> IF h \in news THEN crank + place(h) ELSE crankings[h]]
      /\ crank' = crank + Cardinality(news)
      /\ cfinished' = cfinished + Cardinality(news)
  BY DEF ClientReceive
<1>4. \A h \in Horse : Cardinality({g \in news : g < h}) \in Int
  BY HorsesFinite
<1>5. crankings' \in [Horse -> Int]
  <2>1. crank \in Int /\ \A h \in Horse : crankings[h] \in Int
    BY DEF Ranked, TypeOK
  <2> HIDE DEF news
  <2> QED
    BY <1>3, <1>4, <2>1
<1> QED
  BY <1>1, <1>2, <1>3, <1>5

(* The client's ranking stays a ranking, of horses that have finished.     *)
LEMMA ClientReceiveKeeps ==
    ASSUME Ranked, ClientReceive
    PROVE  Ranked'
<1> USE RaceAssumption
<1>1. PICK news \in SUBSET Horse :
          /\ news \subseteq finished /\ news \cap CRanked = {}
          /\ Head(snapshots) \in Past /\ Tail(snapshots) \in Seq(Past)
          /\ crankings' \in [Horse -> Int]
          /\ \A h \in Horse : crankings'[h] =
                IF h \in news THEN crank + Cardinality({g \in news : g < h})
                              ELSE crankings[h]
          /\ crank' = crank + Cardinality(news)
          /\ cfinished' = cfinished + Cardinality(news)
  BY ReceiveCases
<1>2. UNCHANGED <<svars, inbox>> /\ shown' = Head(snapshots) /\ snapshots' = Tail(snapshots)
      /\ cpc' = (IF cfinished' < Winners THEN "race" ELSE "exited")
  BY DEF ClientReceive
<1>3. /\ crankings \in [Horse -> Int] /\ CRanked \in SUBSET Horse /\ cfinished \in Nat
      /\ RankingOf(crankings, CRanked, cfinished, crank)
  BY DEF Ranked, TypeOK, CRanked
<1>4. RankingOf(crankings', CRanked \cup news, cfinished', crank')
  BY <1>1, <1>3, RankingGrows
<1>5. CRanked' = CRanked \cup news
  BY <1>4 DEF RankingOf, CRanked
<1>6. cfinished' \in 0 .. HORSES /\ crank' = cfinished' + 1
  <2>1. cfinished' \in Nat
    BY <1>1, <1>3, HorsesFinite
  <2> QED
    BY <1>1, <1>3, <1>4, <2>1, RankingCounts
<1>7. crankings' \in [Horse -> 0 .. HORSES]
  BY <1>1, <1>4, <1>6 DEF RankingOf
<1>8. Past' = Past
  BY <1>2 DEF Past, Positions, svars
<1>9. snapshots' \in Seq(Positions) /\ shown' \in Positions
  BY <1>1, <1>2, PastGrows DEF Past
<1>10. TypeOK'
  <2>1. crank' \in 1 .. HORSES + 1
    BY <1>6, NextRank
  <2>2. UNCHANGED <<spc, turn, position, finished, rankings, rank, finished_count, inbox>>
    BY <1>2 DEF svars
  <2> QED
    BY <1>2, <1>6, <1>7, <1>9, <2>1, <2>2 DEF Ranked, TypeOK, Positions
<1>11. CRanked' \subseteq finished'
  BY <1>1, <1>2, <1>5 DEF Ranked, svars
<1>12. cpc' = "exited" => cfinished' >= Winners
  BY <1>2, <1>6 DEF Winners
<1>13. ServerRanking'
  BY <1>2 DEF Ranked, ServerRanking, svars
<1> QED
  BY <1>1, <1>2, <1>4, <1>5, <1>8, <1>10, <1>11, <1>12, <1>13 DEF Ranked

(* The rest of the programs leaves the rankings alone.                     *)
LEMMA OthersKeep ==
    ASSUME Ranked, ServerBoot \/ ServerSignal \/ ClientStart \/ UNCHANGED vars
    PROVE  Ranked'
<1>1. /\ UNCHANGED <<turn, position, finished, rankings, rank, finished_count,
                     shown, crankings, crank, cfinished, snapshots>>
      /\ spc' \in {"boot", "await", "race", "exited"}
      /\ cpc' \in {"press", "race", "exited", "killed"} /\ (cpc' = "exited" => cpc = "exited")
  BY DEF ServerBoot, ServerSignal, ClientStart, vars, svars, cvars, Ranked, TypeOK
<1>2. inbox' \in Seq({"1"})
  <2>1. CASE ServerSignal
    BY <2>1, HeadTailProperties DEF ServerSignal, Ranked, TypeOK
  <2>2. CASE ClientStart
    BY <2>2, ArrivalsType DEF ClientStart, Ranked, TypeOK
  <2>3. CASE ServerBoot \/ UNCHANGED vars
    BY <2>3 DEF ServerBoot, vars, Ranked, TypeOK
  <2> QED
    BY <2>1, <2>2, <2>3
<1>3. TypeOK'
  BY <1>1, <1>2 DEF Ranked, TypeOK
<1> QED
  BY <1>1, <1>3 DEF Ranked, ServerRanking, CRanked, Past, Positions

(* A client that is killed leaves its ranks as they are.                   *)
LEMMA ClientDiesKeeps ==
    ASSUME Ranked, ClientDies
    PROVE  Ranked'
<1>1. /\ cpc' = "killed" /\ snapshots' = <<>>
      /\ UNCHANGED <<spc, turn, position, finished, rankings, rank, finished_count,
                     inbox, shown, crankings, crank, cfinished>>
  BY DEF ClientDies, svars
<1>2. snapshots' \in Seq(Past') /\ snapshots' \in Seq(Positions)
  BY <1>1, EmptyHasType
<1>3. TypeOK'
  BY <1>1, <1>2 DEF Ranked, TypeOK, Positions
<1> QED
  BY <1>1, <1>2, <1>3 DEF Ranked, ServerRanking, CRanked

(* A race that has not begun is ranked.                                    *)
LEMMA InitRanked == Init => Ranked
<1> SUFFICES ASSUME Init PROVE Ranked
  OBVIOUS
<1> USE RaceAssumption
<1>1. TypeOK
  BY EmptyHasType DEF Init, TypeOK, Horse
<1>2. \A r \in [Horse -> {0}] : RankingOf(r, {}, 0, 1)
  BY DEF RankingOf
<1>3. ServerRanking
  BY <1>2 DEF Init, ServerRanking
<1>4. CRanked = {}
  BY DEF Init, CRanked
<1>5. RankingOf(crankings, CRanked, cfinished, crank)
  BY <1>2, <1>4 DEF Init
<1> QED
  BY <1>1, <1>3, <1>4, <1>5, EmptyHasType DEF Init, Ranked

(* What either program knows of the race is true of it, always.            *)
LEMMA RankedAlways == Spec => []Ranked
<1>1. Ranked /\ [Next]_vars => Ranked'
  BY MoveHorseKeeps, SendPositionsKeeps, ClientReceiveKeeps, OthersKeep, ClientDiesKeeps
  DEF Next, Server
<1> QED
  BY <1>1, InitRanked, PTL DEF Spec

-----------------------------------------------------------------------------
(* What holds on every network.                                            *)

(* No position, rank or count leaves its bounds (horse_racing_server.c:    *)
(* 86-125, horse_racing_client.c:357-372).                                 *)
THEOREM HorseTypes == Spec => []TypeOK
<1>1. Ranked => TypeOK
  BY DEF Ranked
<1> QED
  BY <1>1, RankedAlways, PTL

(* The server ranks the horses past the line 1, 2, 3 ... without a gap or  *)
(* a tie, however many cross in the last sweep.                            *)
THEOREM HorseServerRanking == Spec => []ServerRanking
<1>1. Ranked => ServerRanking
  BY DEF Ranked
<1> QED
  BY <1>1, RankedAlways, PTL

(* So does the client, from whatever snapshots reach it, in whatever order: *)
(* when it prints, each place of the podium has one horse                   *)
(* (horse_racing_client.c:302-320).                                         *)
THEOREM HorseClientRanking == Spec => []ClientRanking
<1>1. Ranked => ClientRanking
  <2> SUFFICES ASSUME Ranked PROVE ClientRanking
    OBVIOUS
  <2>1. RankingOf(crankings, CRanked, cfinished, crank)
    BY DEF Ranked
  <2>2. ASSUME cpc = "exited", NEW r \in 1 .. Winners
        PROVE  Cardinality(print_race_results(r)) = 1
    <3>1. cfinished \in Int /\ cfinished >= Winners /\ Winners = 3
      BY <2>2 DEF Ranked, TypeOK, Winners
    <3>2. r \in 1 .. cfinished /\ r # 0
      BY <3>1
    <3>3. PICK h \in CRanked : crankings[h] = r
      BY <2>1, <3>2 DEF RankingOf
    <3>4. \A g \in Horse : crankings[g] = r => g = h
      BY <2>1, <3>2, <3>3 DEF RankingOf, CRanked
    <3>5. print_race_results(r) = {h}
      BY <3>3, <3>4 DEF print_race_results, CRanked
    <3> QED
      BY <3>5, FS_Singleton
  <2> QED
    BY <2>1, <2>2 DEF ClientRanking, CRanked
<1> QED
  BY <1>1, RankedAlways, PTL

(* The client ranks no horse that the server has not ranked, even when old *)
(* snapshots overtake new ones.                                            *)
THEOREM HorseNoPhantomFinisher == Spec => []NoPhantomFinisher
<1>1. Ranked => NoPhantomFinisher
  BY DEF Ranked, ServerRanking, RankingOf, CRanked, NoPhantomFinisher
<1> QED
  BY <1>1, RankedAlways, PTL

(* Neither program takes a rank back or changes it.                        *)
LEMMA StepStands ==
    ASSUME Ranked, [Next]_vars
    PROVE  \A h \in Horse : /\ rankings[h] # 0 => rankings'[h] = rankings[h]
                            /\ crankings[h] # 0 => crankings'[h] = crankings[h]
<1>1. CASE MoveHorse
  <2>1. TypeOK /\ ServerRanking
    BY DEF Ranked
  <2>2. turn \in finished \/ rankings[turn] = 0
    BY <1>1, <2>1 DEF ServerRanking, RankingOf, MoveHorse
  <2>3. UNCHANGED crankings
    BY <1>1 DEF MoveHorse, cvars
  <2>4. UNCHANGED rankings \/ (rankings[turn] = 0 /\ rankings' = [rankings EXCEPT ![turn] = rank])
    BY <1>1, <2>1, <2>2, MoveHorseCases
  <2> QED
    BY <2>1, <2>3, <2>4 DEF TypeOK
<1>2. CASE ClientReceive
  <2>1. PICK news \in SUBSET Horse :
            /\ news \cap CRanked = {}
            /\ \A h \in Horse : crankings'[h] =
                  IF h \in news THEN crank + Cardinality({g \in news : g < h})
                                ELSE crankings[h]
    BY <1>2, ReceiveCases
  <2>2. \A h \in Horse : crankings[h] # 0 => h \notin news
    BY <2>1 DEF CRanked
  <2>3. UNCHANGED rankings
    BY <1>2 DEF ClientReceive, svars
  <2> QED
    BY <2>1, <2>2, <2>3
<1>3. CASE \/ ServerBoot \/ ServerSignal \/ SendPositions \/ ClientStart
          \/ ClientDies \/ UNCHANGED vars
  BY <1>3 DEF ServerBoot, ServerSignal, SendPositions, ClientStart, ClientDies,
                vars, svars, cvars
<1> QED
  BY <1>1, <1>2, <1>3 DEF Next, Server

(* No step of either program takes a rank back or changes it.              *)
THEOREM HorseRanksStand == Spec => RanksStand
<1>1. Ranked /\ [Next]_vars =>
         [\A h \in Horse : /\ rankings[h] # 0 => rankings'[h] = rankings[h]
                           /\ crankings[h] # 0 => crankings'[h] = crankings[h]]_vars
  BY StepStands
<1> QED
  BY <1>1, RankedAlways, PTL DEF Spec, RanksStand

-----------------------------------------------------------------------------
(* The two rankings, on a network without faults and with a client that    *)
(* keeps up.                                                               *)

Over(s) == {h \in Horse : s[h] >= TRACK_LENGTH}

(* The snapshot the client has read last, at 0, and those it has yet to    *)
(* read.                                                                   *)
Seen == [i \in 0 .. Len(snapshots) |-> IF i = 0 THEN shown ELSE snapshots[i]]

(* The horses that cross between s and t are ranked in r after those that  *)
(* had crossed in s, by their index.                                       *)
Follows(r, s, t) ==
    /\ Over(s) \subseteq Over(t)
    /\ \A h \in Over(t) \ Over(s) :
          r[h] = Cardinality(Over(s)) + 1
                   + Cardinality({g \in Over(t) \ Over(s) : g < h})

(* The client has ranked the horses of its last snapshot as the server did, *)
(* each waiting snapshot adds the finishers of one sweep, the sweep under   *)
(* way has added horses it has passed, and the first snapshot with three    *)
(* finishers is the last one.                                               *)
InStep ==
    /\ CRanked = Over(shown)
    /\ \A h \in CRanked : crankings[h] = rankings[h]
    /\ \A i \in 0 .. Len(snapshots) - 1 : Follows(rankings, Seen[i], Seen[i + 1])
    /\ Follows(rankings, Seen[Len(snapshots)], position)
    /\ \A h \in Over(position) \ Over(Seen[Len(snapshots)]) : h < turn
    /\ \A i \in 0 .. Len(snapshots) :
          Cardinality(Over(Seen[i])) >= Winners => spc = "exited" /\ Over(Seen[i]) = finished

(* The horses over the line in a waiting snapshot have finished.           *)
LEMMA SeenFinished ==
    ASSUME Ranked, InStep, NEW i \in 0 .. Len(snapshots)
    PROVE  Over(Seen[i]) \subseteq finished /\ finished \subseteq Horse
<1>1. CASE i = 0
  BY <1>1 DEF Ranked, InStep, TypeOK, Seen
<1>2. CASE i # 0
  <2>1. i \in 1 .. Len(snapshots) /\ snapshots \in Seq(Past)
    BY <1>2, LenProperties DEF Ranked
  <2>2. snapshots[i] \in Past
    BY <2>1, ElementOfSeq
  <2> QED
    BY <1>2, <2>2 DEF Past, Over, Seen, Ranked, TypeOK
<1> QED
  BY <1>1, <1>2

(* A ranking of later finishers only tells as much about earlier ones.     *)
LEMMA FollowsKeeps ==
    ASSUME NEW r, NEW q, NEW s, NEW t, Follows(r, s, t),
           \A h \in Over(t) : q[h] = r[h]
    PROVE  Follows(q, s, t)
BY DEF Follows

(* The step of the server's loop that moves a horse over the line gives it *)
(* the rank behind those of this sweep.                                    *)
LEMMA MoveHorseInStep ==
    ASSUME Ranked, InStep, MoveHorse
    PROVE  InStep'
<1> DEFINE n == Len(snapshots)
           last == Seen[n]
           news == Over(position) \ Over(last)
<1>1. /\ TypeOK /\ ServerRanking /\ n \in Nat
      /\ RankingOf(rankings, finished, finished_count, rank)
      /\ Over(position) = finished
  BY LenProperties DEF Ranked, TypeOK, ServerRanking, Over
<1>2. /\ turn \in Horse /\ turn' = turn + 1
      /\ \A h \in Horse \ {turn} : position'[h] = position[h]
      /\ UNCHANGED <<spc, cpc, shown, crankings, crank, cfinished, snapshots>>
  BY <1>1, MoveHorseCases DEF cvars
<1>3. \A i \in 0 .. n : Seen'[i] = Seen[i] /\ Over(Seen[i]) \subseteq finished
  BY <1>2, SeenFinished DEF Seen
<1>4. spc = "race"
  BY DEF MoveHorse
<1>5. \A i \in 0 .. n : ~(Cardinality(Over(Seen[i])) >= Winners)
  BY <1>4 DEF InStep
<1>6. /\ Over(shown) \subseteq finished /\ CRanked' = CRanked
  BY <1>2, <1>3 DEF Ranked, InStep, CRanked
<1>7. \A h \in finished : rankings'[h] = rankings[h]
  <2>1. CASE UNCHANGED rankings
    BY <2>1
  <2>2. CASE turn \notin finished /\ rankings' = [rankings EXCEPT ![turn] = rank]
    BY <1>1, <2>2 DEF TypeOK
  <2> QED
    BY <1>1, <2>1, <2>2, MoveHorseCases
<1>8. \A i \in 0 .. n - 1 : Follows(rankings', Seen[i], Seen[i + 1])
  <2> TAKE i \in 0 .. n - 1
  <2>1. i + 1 \in 0 .. n
    BY <1>1
  <2>2. Over(Seen[i + 1]) \subseteq finished
    BY <1>3, <2>1
  <2> QED
    BY <1>7, <2>2, FollowsKeeps DEF InStep
<1>9. /\ Follows(rankings', last, position')
      /\ \A h \in Over(position') \ Over(last) : h < turn + 1
  <2>1. Follows(rankings, last, position) /\ \A h \in news : h < turn
    BY DEF InStep
  <2>2. \A h \in news : h < turn + 1
    BY <1>2, <2>1 DEF Horse, Over
  <2>3. CASE /\ position'[turn] >= TRACK_LENGTH <=> turn \in finished
             /\ UNCHANGED <<finished, rankings, rank, finished_count>>
    <3>1. Over(position') = Over(position)
      BY <1>1, <1>2, <2>3 DEF Over
    <3> QED
      BY <2>1, <2>2, <2>3, <3>1 DEF Follows
  <2>4. CASE /\ turn \notin finished /\ position'[turn] >= TRACK_LENGTH
             /\ rankings' = [rankings EXCEPT ![turn] = rank]
    <3>1. Over(position') = Over(position) \cup {turn}
      BY <1>2, <2>4 DEF Over
    <3>2. Over(last) \subseteq Over(position) /\ turn \notin Over(last)
      BY <1>1, <1>3, <2>4
    <3>3. Over(position') \ Over(last) = news \cup {turn}
      BY <3>1, <3>2
    <3>4. rank = Cardinality(Over(last)) + 1 + Cardinality(news)
      <4>1. rank = Cardinality(finished) + 1 /\ Cardinality(finished) \in Nat
        <5>1. /\ rankings \in [Horse -> Int] /\ finished \in SUBSET Horse
              /\ finished_count \in Nat
          BY <1>1 DEF TypeOK
        <5>2. finished_count = Cardinality(finished) /\ rank = finished_count + 1
          BY <1>1, <5>1, RankingCounts
        <5> QED
          BY <5>1, <5>2
      <4>2. IsFiniteSet(finished) /\ finished \cap Over(last) = Over(last)
        BY <1>1, <3>2, HorsesFinite DEF TypeOK
      <4>3. Cardinality(news) = Cardinality(finished) - Cardinality(Over(last))
        <5>1. Cardinality(finished \ Over(last))
                = Cardinality(finished) - Cardinality(finished \cap Over(last))
          BY <4>2, FS_Difference
        <5> QED
          BY <1>1, <4>2, <5>1
      <4>4. Cardinality(Over(last)) \in Nat
        BY HorsesFinite DEF Over
      <4> QED
        BY <4>1, <4>3, <4>4
    <3>5. {g \in news \cup {turn} : g < turn} = news
      BY <1>2, <2>1 DEF Horse
    <3>6. \A h \in news : {g \in news \cup {turn} : g < h} = {g \in news : g < h}
      BY <1>2, <2>1 DEF Horse, Over
    <3>7. rankings'[turn] = rank /\ \A h \in news : rankings'[h] = rankings[h]
      BY <1>1, <1>2, <1>7, <2>4 DEF TypeOK
    <3>8. \A h \in news \cup {turn} :
             rankings'[h] = Cardinality(Over(last)) + 1
                              + Cardinality({g \in news \cup {turn} : g < h})
      BY <2>1, <3>4, <3>5, <3>6, <3>7 DEF Follows
    <3>9. \A h \in news \cup {turn} : h < turn + 1
      BY <1>2, <2>2 DEF Horse
    <3> HIDE DEF news
    <3>10. Over(last) \subseteq Over(position')
      BY <3>1, <3>2
    <3> QED
      BY <3>3, <3>8, <3>9, <3>10 DEF Follows
  <2> QED
    BY <1>1, <2>3, <2>4, MoveHorseCases
<1>10. \A h \in CRanked : crankings[h] = rankings'[h]
  BY <1>6, <1>7 DEF InStep
<1>11. CRanked = Over(shown)
  BY DEF InStep
<1> QED
  <2>1. n' = n /\ last' = last
    BY <1>2, <1>1, <1>3
  <2>2. \A i \in 0 .. n - 1 : Seen'[i] = Seen[i] /\ Seen'[i + 1] = Seen[i + 1]
    BY <1>1, <1>3
  <2>3. CRanked' = Over(shown')
    BY <1>2, <1>6, <1>11 DEF Over
  <2>4. \A h \in CRanked' : crankings'[h] = rankings'[h]
    BY <1>2, <1>6, <1>10
  <2>5. \A i \in 0 .. Len(snapshots') - 1 : Follows(rankings', Seen'[i], Seen'[i + 1])
    BY <1>8, <2>1, <2>2
  <2>6. /\ Follows(rankings', Seen'[Len(snapshots')], position')
        /\ \A h \in Over(position') \ Over(Seen'[Len(snapshots')]) : h < turn'
    BY <1>2, <1>9, <2>1
  <2>7. \A i \in 0 .. Len(snapshots') :
           Cardinality(Over(Seen'[i])) >= Winners => spc' = "exited" /\ Over(Seen'[i]) = finished'
    BY <1>3, <1>5, <2>1
  <2> QED
    BY <2>3, <2>4, <2>5, <2>6, <2>7 DEF InStep

(* A snapshot sent adds the finishers of the sweep that has just ended.    *)
LEMMA SendPositionsInStep ==
    ASSUME Faults = {}, KeepsUp, Ranked, InStep, SendPositions,
           cpc = "exited" => spc = "exited", cpc # "killed"
    PROVE  InStep'
<1> DEFINE n == Len(snapshots)
<1>1. /\ spc = "race" /\ cpc \in {"press", "race"} /\ turn' = 1
      /\ spc' = (IF finished_count < Winners THEN "race" ELSE "exited")
      /\ UNCHANGED <<position, finished, rankings, rank, finished_count,
                     cpc, shown, crankings, crank, cfinished>>
  BY DEF SendPositions, cvars, Ranked, TypeOK
<1>2. snapshots \in Seq(Positions) /\ n \in Nat /\ n < Capacity /\ position \in Positions
  BY LenProperties DEF SendPositions, Ranked, TypeOK, Positions
<1>3. snapshots' = Append(snapshots, position)
  BY <1>1, <1>2, FaultlessArrivals DEF SendPositions, SendToClient
<1>4. /\ Len(snapshots') = n + 1 /\ snapshots'[n + 1] = position
      /\ \A i \in 1 .. n : snapshots'[i] = snapshots[i]
  BY <1>2, <1>3, AppendProperties
<1>5. /\ \A i \in 0 .. n : Seen'[i] = Seen[i]
      /\ Seen'[n + 1] = position
  BY <1>1, <1>2, <1>4 DEF Seen
<1>6. \A i \in 0 .. n : ~(Cardinality(Over(Seen[i])) >= Winners)
  BY <1>1 DEF InStep
<1>7. Over(position) = finished /\ Cardinality(Over(position)) = finished_count
  <2>1. /\ rankings \in [Horse -> Int] /\ finished \in SUBSET Horse
        /\ finished_count \in Nat
        /\ RankingOf(rankings, finished, finished_count, rank)
    BY DEF Ranked, TypeOK, ServerRanking
  <2>2. Over(position) = finished
    BY DEF Ranked, ServerRanking, Over
  <2> QED
    BY <2>1, <2>2, RankingCounts
<1>8. finished_count >= Winners => spc' = "exited"
  BY <1>1 DEF Ranked, TypeOK, Winners
<1>9. \A i \in 0 .. Len(snapshots') - 1 : Follows(rankings', Seen'[i], Seen'[i + 1])
  <2> TAKE i \in 0 .. Len(snapshots') - 1
  <2>1. CASE i < n
    <3>1. i \in 0 .. n - 1 /\ i \in 0 .. n /\ i + 1 \in 0 .. n
      BY <1>2, <1>4, <2>1
    <3> QED
      BY <1>1, <1>5, <3>1 DEF InStep
  <2>2. CASE i = n
    BY <1>1, <1>2, <1>5, <2>2 DEF InStep
  <2> QED
    BY <1>2, <1>4, <2>1, <2>2
<1>10. Seen'[Len(snapshots')] = position
  BY <1>4, <1>5
<1>11. Follows(rankings, position, position) /\ Over(position) \ Over(position) = {}
  BY DEF Follows
<1>12. \A i \in 0 .. Len(snapshots') :
          Cardinality(Over(Seen'[i])) >= Winners => spc' = "exited" /\ Over(Seen'[i]) = finished'
  <2> TAKE i \in 0 .. Len(snapshots')
  <2>1. CASE i \in 0 .. n
    BY <1>5, <1>6, <2>1
  <2>2. CASE i = n + 1
    BY <1>1, <1>5, <1>7, <1>8, <2>2
  <2> QED
    BY <1>2, <1>4, <2>1, <2>2
<1>13. /\ CRanked' = Over(shown')
       /\ \A h \in CRanked' : crankings'[h] = rankings'[h]
  BY <1>1 DEF InStep, CRanked, Over
<1> QED
  <2>1. /\ Follows(rankings', Seen'[Len(snapshots')], position')
        /\ \A h \in Over(position') \ Over(Seen'[Len(snapshots')]) : h < turn'
    BY <1>1, <1>10, <1>11
  <2> QED
    BY <1>9, <1>12, <1>13, <2>1 DEF InStep

(* The client gives the new horses of a snapshot the ranks the server gave *)
(* them.                                                                   *)
LEMMA ClientReceiveInStep ==
    ASSUME Ranked, InStep, ClientReceive
    PROVE  InStep'
<1> DEFINE n == Len(snapshots)
           t == Head(snapshots)
           new == Over(t) \ Over(shown)
<1>1. /\ snapshots # <<>> /\ shown' = t /\ snapshots' = Tail(snapshots)
      /\ UNCHANGED <<spc, turn, position, finished, rankings, rank, finished_count>>
  BY DEF ClientReceive, svars
<1>2. /\ snapshots \in Seq(Positions) /\ n \in Nat \ {0} /\ t = snapshots[1]
      /\ Len(snapshots') = n - 1 /\ \A i \in 1 .. n - 1 : snapshots'[i] = snapshots[i + 1]
  <2>1. snapshots \in Seq(Positions)
    BY DEF Ranked, TypeOK, Positions
  <2> QED
    BY <1>1, <2>1, HeadTailProperties, LenProperties, EmptySeq
<1>3. \A i \in 0 .. n - 1 : Seen'[i] = Seen[i + 1]
  <2> TAKE i \in 0 .. n - 1
  <2>1. CASE i = 0
    BY <1>1, <1>2, <2>1 DEF Seen
  <2>2. CASE i # 0
    <3>1. i \in 1 .. n - 1 /\ i + 1 # 0
      BY <1>2, <2>2
    <3> QED
      BY <1>2, <3>1 DEF Seen
  <2> QED
    BY <2>1, <2>2
<1>4. Follows(rankings, shown, t)
  <2>1. 0 \in 0 .. n - 1 /\ Seen[0] = shown /\ Seen[0 + 1] = t
    BY <1>2 DEF Seen
  <2> QED
    BY <2>1 DEF InStep
<1>5. PICK news \in SUBSET Horse :
          /\ news = {h \in Horse : t[h] >= TRACK_LENGTH /\ crankings[h] = 0}
          /\ \A h \in Horse : crankings'[h] =
                IF h \in news THEN crank + Cardinality({g \in news : g < h})
                              ELSE crankings[h]
  BY ReceiveCases
<1>6. CRanked = Over(shown) /\ \A h \in CRanked : crankings[h] = rankings[h]
  BY DEF InStep
<1>7. news = new /\ news \subseteq Over(t)
  BY <1>5, <1>6 DEF CRanked, Over
<1>8. crank = Cardinality(Over(shown)) + 1
  <2>1. /\ crankings \in [Horse -> Int] /\ CRanked \in SUBSET Horse /\ cfinished \in Nat
        /\ RankingOf(crankings, CRanked, cfinished, crank)
    BY DEF Ranked, TypeOK, CRanked
  <2>2. cfinished = Cardinality(CRanked) /\ crank = cfinished + 1
    BY <2>1, RankingCounts
  <2> QED
    BY <1>6, <2>2
<1>9. \A h \in news : crankings'[h] = rankings[h]
  BY <1>4, <1>5, <1>7, <1>8 DEF Follows
<1>10. \A h \in Horse \ news : crankings'[h] = crankings[h]
  BY <1>5
<1>11. \A h \in news : rankings[h] # 0
  <2>1. 1 \in 0 .. n /\ Seen[1] = t
    BY <1>2 DEF Seen
  <2>2. Over(t) \subseteq finished
    BY <2>1, SeenFinished
  <2> QED
    BY <1>7, <2>2 DEF Ranked, ServerRanking, RankingOf
<1>12. CRanked' = Over(shown')
  <2>1. CRanked' = CRanked \cup news
    BY <1>9, <1>10, <1>11 DEF CRanked
  <2> QED
    BY <1>1, <1>4, <1>6, <1>7, <2>1 DEF Follows, Over
<1>13. \A h \in CRanked' : crankings'[h] = rankings'[h]
  <2>1. CRanked' \subseteq CRanked \cup news /\ CRanked \subseteq Horse
    BY <1>10 DEF CRanked
  <2> QED
    BY <1>1, <1>6, <1>9, <1>10, <2>1
<1>14. \A i \in 0 .. Len(snapshots') - 1 : Follows(rankings', Seen'[i], Seen'[i + 1])
  <2> TAKE i \in 0 .. Len(snapshots') - 1
  <2>1. i \in 0 .. n - 1 /\ i + 1 \in 0 .. n - 1
    BY <1>2
  <2>2. Seen'[i] = Seen[i + 1] /\ Seen'[i + 1] = Seen[(i + 1) + 1]
    BY <1>3, <2>1
  <2>3. Follows(rankings, Seen[i + 1], Seen[(i + 1) + 1])
    BY <2>1 DEF InStep
  <2> QED
    BY <1>1, <2>2, <2>3
<1>15. Seen'[Len(snapshots')] = Seen[n]
  <2>1. n - 1 \in 0 .. n - 1 /\ (n - 1) + 1 = n
    BY <1>2
  <2> QED
    BY <1>2, <1>3, <2>1
<1>16. \A i \in 0 .. Len(snapshots') :
          Cardinality(Over(Seen'[i])) >= Winners => spc' = "exited" /\ Over(Seen'[i]) = finished'
  <2> TAKE i \in 0 .. Len(snapshots')
  <2>1. i \in 0 .. n - 1 /\ i + 1 \in 0 .. n
    BY <1>2
  <2> QED
    BY <1>1, <1>3, <2>1 DEF InStep
<1>17. /\ Follows(rankings', Seen'[Len(snapshots')], position')
       /\ \A h \in Over(position') \ Over(Seen'[Len(snapshots')]) : h < turn'
  BY <1>1, <1>15 DEF InStep
<1> QED
  BY <1>12, <1>13, <1>14, <1>16, <1>17 DEF InStep

(* A client that prints has seen the last snapshot of a race that is over. *)
LEMMA PrintsTheEnd ==
    ASSUME Ranked, InStep, cpc = "exited"
    PROVE  spc = "exited" /\ Over(shown) = finished
<1>1. /\ crankings \in [Horse -> Int] /\ CRanked \in SUBSET Horse /\ cfinished \in Nat
      /\ RankingOf(crankings, CRanked, cfinished, crank) /\ cfinished >= Winners
  BY DEF Ranked, TypeOK, CRanked
<1>2. Cardinality(Over(shown)) >= Winners
  BY <1>1, RankingCounts DEF InStep
<1>3. 0 \in 0 .. Len(snapshots) /\ Seen[0] = shown
  BY LenProperties DEF Ranked, Seen
<1> QED
  BY <1>2, <1>3 DEF InStep

(* What the client has ranked, even one that was killed since.             *)
Agreed == \A h \in CRanked : crankings[h] = rankings[h]

(* The invariant behind the agreement: only a living client keeps in step. *)
AgreedInStep == Agreed /\ (cpc # "killed" => InStep)

(* Two rankings, made in two programs and never compared, agree: at any    *)
(* time as far as the client has come, and in full when it prints          *)
(* (horse_racing_server.c:103-118, horse_racing_client.c:357-372).         *)
THEOREM HorseRankingsAgree ==
    ASSUME Faults = {}, KeepsUp
    PROVE  Spec => []RankingsAgree
<1>1. Init => AgreedInStep
  <2> SUFFICES ASSUME Init PROVE InStep
    BY DEF AgreedInStep, Agreed, InStep
  <2>1. Len(snapshots) = 0 /\ shown = [h \in Horse |-> 0] /\ position = shown
    BY DEF Init
  <2>2. Over(shown) = {} /\ CRanked = {}
    BY <2>1, RaceAssumption DEF Init, Over, CRanked
  <2>3. Seen[0] = shown /\ Over(position) = {}
    BY <2>1, <2>2 DEF Seen
  <2>4. ~(Cardinality({}) >= Winners)
    BY FS_EmptySet DEF Winners
  <2>5. Follows(rankings, shown, position)
    BY <2>2, <2>3 DEF Follows
  <2>6. \A i \in 0 .. Len(snapshots) : Over(Seen[i]) = {}
    BY <2>1, <2>2, <2>3
  <2>7. \A i \in 0 .. Len(snapshots) - 1 : Follows(rankings, Seen[i], Seen[i + 1])
    BY <2>1
  <2>8. \A i \in 0 .. Len(snapshots) :
           Cardinality(Over(Seen[i])) >= Winners => spc = "exited" /\ Over(Seen[i]) = finished
    BY <2>4, <2>6
  <2>9. /\ Follows(rankings, Seen[Len(snapshots)], position)
        /\ \A h \in Over(position) \ Over(Seen[Len(snapshots)]) : h < turn
    BY <2>1, <2>3, <2>5
  <2> QED
    BY <2>2, <2>7, <2>8, <2>9 DEF InStep
<1>2. Ranked /\ AgreedInStep /\ [Next]_vars => AgreedInStep'
  <2> SUFFICES ASSUME Ranked, Agreed, cpc # "killed" => InStep, [Next]_vars
               PROVE  Agreed' /\ (cpc' # "killed" => InStep')
    BY DEF AgreedInStep
  <2>0. CASE cpc' = "killed"
    <3>1. UNCHANGED crankings
      BY <2>0 DEF Next, Server, ServerBoot, ServerSignal, MoveHorse, SendPositions, ClientStart,
                  ClientReceive, ClientDies, vars, cvars
    <3>2. \A h \in CRanked : h \in Horse /\ rankings[h] # 0 /\ rankings'[h] = rankings[h]
      BY StepStands DEF Agreed, CRanked
    <3> QED
      BY <2>0, <3>1, <3>2 DEF Agreed, CRanked
  <2> SUFFICES ASSUME InStep, cpc # "killed", cpc' # "killed" PROVE InStep'
    <3>1. cpc' # "killed" => cpc # "killed"
      BY DEF Next, Server, ServerBoot, ServerSignal, MoveHorse, SendPositions, ClientStart,
             ClientReceive, ClientDies, vars, cvars
    <3> QED
      BY <2>0, <3>1 DEF InStep, Agreed
  <2>1. CASE MoveHorse
    BY <2>1, MoveHorseInStep
  <2>2. CASE SendPositions
    BY <2>2, SendPositionsInStep, PrintsTheEnd
  <2>3. CASE ClientReceive
    BY <2>3, ClientReceiveInStep
  <2>4. CASE ServerBoot \/ ServerSignal \/ ClientStart \/ UNCHANGED vars
    <3>1. /\ UNCHANGED <<turn, position, finished, rankings, shown, crankings, snapshots>>
          /\ spc = "exited" => spc' = "exited"
      BY <2>4 DEF ServerBoot, ServerSignal, ClientStart, vars, svars, cvars
    <3> QED
      BY <3>1 DEF InStep, CRanked, Over, Seen
  <2> QED
    BY <2>1, <2>2, <2>3, <2>4 DEF Next, Server, ClientDies
<1>3. Ranked /\ AgreedInStep => RankingsAgree
  <2> SUFFICES ASSUME Ranked, Agreed, cpc # "killed" => InStep PROVE RankingsAgree
    BY DEF AgreedInStep
  <2>1. \A h \in Horse : crankings[h] # 0 => crankings[h] = rankings[h]
    BY DEF Agreed, CRanked
  <2>2. CASE cpc = "exited"
    <3>1. CRanked = finished
      BY <2>2, PrintsTheEnd DEF InStep
    <3>2. \A h \in Horse : crankings[h] = 0 => rankings[h] = 0
      BY <3>1 DEF CRanked, Ranked, ServerRanking, RankingOf
    <3>3. \A h \in Horse : crankings[h] = rankings[h]
      BY <2>1, <3>2
    <3>4. crankings \in [Horse -> 0 .. HORSES] /\ rankings \in [Horse -> 0 .. HORSES]
      BY DEF Ranked, TypeOK
    <3> QED
      BY <2>1, <3>3, <3>4 DEF RankingsAgree
  <2> QED
    BY <2>1, <2>2 DEF RankingsAgree
<1> QED
  BY <1>1, <1>2, <1>3, RankedAlways, PTL DEF Spec
=============================================================================
