------------------------- MODULE SlotScreenProofs ---------------------------
(***************************************************************************)
(* Theorems about the reels, the button and the frames for every           *)
(* STOP_DELAY, every set of outcomes and every number of presses: where    *)
(* the reels are and how long they took, that one press is seen once, that *)
(* the client with its frames takes no step that SlotMachine does not      *)
(* allow, and, on a network that may lose and reorder datagrams but does   *)
(* not double them, that the player is paid for the digits in the windows.  *)
(***************************************************************************)
EXTENDS SlotScreen, SlotMachineProofs

-----------------------------------------------------------------------------
(* The button: every press that can still be seen has been counted.        *)
PressesCount == seen \in Nat /\ seen <= presses /\ (Pressed => seen < presses)

HandTypes ==
    /\ held \in BOOLEAN /\ prev_state \in {0, 1} /\ presses \in 0 .. MaxPresses

(* The types of the hand and the contact.                                  *)
LEMMA ButtonTypes == ScreenSpec => []HandTypes
<1>1. ScreenInit => HandTypes
  <2>1. ScreenInit => presses \in 0 .. MaxPresses /\ prev_state \in {0, 1}
    BY ScreenAssumption DEF ScreenInit, InitPrev
  <2>2. ScreenInit => held \in BOOLEAN
    BY DEF ScreenInit
  <2> QED
    BY <2>1, <2>2 DEF HandTypes
<1>2. HandTypes /\ [ScreenNext]_screen => HandTypes'
  <2> SUFFICES ASSUME HandTypes, [ScreenNext]_screen PROVE HandTypes'
    OBVIOUS
  <2> USE ScreenAssumption DEF HandTypes, hand, button
  <2>1. CASE UserPresses
    BY <2>1 DEF UserPresses
  <2>2. CASE UserReleases
    BY <2>2 DEF UserReleases
  <2>3. CASE Blink \/ GameOver \/ Frame
    <3>1. UNCHANGED <<held, presses>> /\ prev_state' \in {0, 1}
      BY <2>3 DEF Blink, GameOver, Frame, read_key
    <3> QED
      BY <3>1
  <2>4. CASE RoundBegins \/ Prompt \/ HaltFrame \/ ReportReels \/ OtherSteps \/ UNCHANGED screen
    <3>1. UNCHANGED <<held, presses, prev_state>>
      BY <2>4 DEF RoundBegins, Prompt, HaltFrame, ReportReels, OtherSteps, screen
    <3> QED
      BY <3>1
  <2> QED
    BY <2>1, <2>2, <2>3, <2>4 DEF ScreenNext
<1> QED
  BY <1>1, <1>2, PTL DEF ScreenSpec

(* However long the button is held and wherever it is read, one press is   *)
(* acted upon once (slot_machine_client.c:382-397).                        *)
LEMMA PressesCounted == ScreenSpec => []PressesCount
<1>1. ScreenInit => PressesCount
  BY DEF ScreenInit, PressesCount, Pressed
<1>2. HandTypes /\ PressesCount /\ [ScreenNext]_screen => PressesCount'
  <2> SUFFICES ASSUME HandTypes, PressesCount, [ScreenNext]_screen PROVE PressesCount'
    OBVIOUS
  <2> USE ScreenAssumption DEF HandTypes, PressesCount, Pressed, hand, button
  <2>1. CASE UserPresses
    BY <2>1 DEF UserPresses
  <2>2. CASE UserReleases
    BY <2>2 DEF UserReleases
  <2>3. CASE Blink \/ GameOver \/ Frame
    <3>1. UNCHANGED <<held, presses>> /\ read_key
      BY <2>3 DEF Blink, GameOver, Frame
    <3> QED
      BY <3>1 DEF read_key
  <2>4. CASE RoundBegins \/ Prompt \/ HaltFrame \/ ReportReels \/ OtherSteps \/ UNCHANGED screen
    <3>1. UNCHANGED <<held, presses, prev_state, seen>>
      BY <2>4 DEF RoundBegins, Prompt, HaltFrame, ReportReels, OtherSteps, screen
    <3> QED
      BY <3>1
  <2> QED
    BY <2>1, <2>2, <2>3, <2>4 DEF ScreenNext
<1> QED
  BY <1>1, <1>2, ButtonTypes, PTL DEF ScreenSpec

(* read_key returns 1 no more often than the button was pressed, whatever  *)
(* the network does.                                                       *)
THEOREM ScreenPressSeenOnce == ScreenSpec => []PressSeenOnce
<1>1. PressesCount => PressSeenOnce
  BY DEF PressesCount, PressSeenOnce
<1> QED
  BY <1>1, PressesCounted, PTL

-----------------------------------------------------------------------------
(* The reels: n of them are at rest, at one slot's height, after STOP_DELAY *)
(* frames each; the others scroll together.                                *)
Resting(n) ==
    /\ stop_flags = [i \in 1 .. 3 |-> i <= n]
    /\ stop_counter \in 0 .. STOP_DELAY - 1 /\ (n = 3 => stop_counter = 0)
    /\ frames = STOP_DELAY * n + stop_counter
    /\ \E o \in {0, SLOT_SPEED} : offsets = [i \in 1 .. 3 |-> IF i <= n THEN SLOT_HEIGHT ELSE o]
ReelsMove ==
    /\ slots \in Outcomes
    /\ \E n \in 0 .. 3 : Resting(n)
    /\ cpc = "spin" => Resting(0) /\ frames = 0
    /\ cpc = "awaitReward" => Resting(3)

(* Fresh reels.                                                            *)
LEMMA FreshReels ==
    ASSUME ReelsMove, FreshIfSpinning, cpc' # "awaitReward"
    PROVE  ReelsMove'
<1>1. CASE cpc' = "spin"
  <2>1. /\ slots' = Zeros /\ offsets' = Zeros /\ stop_counter' = 0 /\ frames' = 0
        /\ stop_flags' = [i \in 1 .. 3 |-> FALSE]
    BY <1>1 DEF FreshIfSpinning
  <2>2. slots' \in Outcomes
    BY <2>1, ScreenAssumption DEF Zeros
  <2>3. /\ stop_flags' = [i \in 1 .. 3 |-> i <= 0]
        /\ offsets' = [i \in 1 .. 3 |-> IF i <= 0 THEN SLOT_HEIGHT ELSE 0]
    <3>1. \A i \in 1 .. 3 : (i <= 0) = FALSE
      OBVIOUS
    <3>2. [i \in 1 .. 3 |-> FALSE] = [i \in 1 .. 3 |-> i <= 0]
      BY <3>1, Zenon
    <3>3. [i \in 1 .. 3 |-> 0] = [i \in 1 .. 3 |-> IF i <= 0 THEN SLOT_HEIGHT ELSE 0]
      BY <3>1
    <3> QED
      BY <2>1, <3>2, <3>3 DEF Zeros
  <2>4. stop_counter' \in 0 .. STOP_DELAY - 1 /\ frames' = STOP_DELAY * 0 + stop_counter'
    BY <2>1, ScreenAssumption
  <2>5. Resting(0)'
    BY <2>1, <2>3, <2>4 DEF Resting
  <2> QED
    BY <1>1, <2>1, <2>2, <2>5 DEF ReelsMove
<1>2. CASE cpc' # "spin"
  BY <1>2 DEF FreshIfSpinning, ReelsMove, Resting, reels
<1> QED
  BY <1>1, <1>2

(* The reels scroll on, all three or none of them with a new digit.        *)
LEMMA ReelsTurn ==
    ASSUME ReelsMove, cpc = "spin", cpc' # "awaitReward", SpinTurning
    PROVE  ReelsMove'
<1>1. /\ Resting(0) /\ frames = 0 /\ slots \in Outcomes
      /\ UNCHANGED <<stop_flags, stop_counter, frames>>
  BY DEF ReelsMove, SpinTurning
<1>2. PICK o \in {0, SLOT_SPEED} : offsets = [i \in 1 .. 3 |-> IF i <= 0 THEN SLOT_HEIGHT ELSE o]
  BY <1>1 DEF Resting
<1>3. \A i \in 1 .. 3 : offsets[i] = o /\ Turned[i] = o + 40
  BY <1>2 DEF Turned, SLOT_SPEED
<1>4. CASE o = 0
  <2>1. Wraps = {}
    BY <1>3, <1>4 DEF Wraps, SLOT_HEIGHT
  <2>2. slots' = [i \in 1 .. 3 |-> slots[i]]
    BY <2>1 DEF SpinTurning, NewDigits
  <2>3. slots' = slots
    BY <1>1, <2>2, SlotAssumption
  <2>4. offsets' = [i \in 1 .. 3 |-> IF i <= 0 THEN SLOT_HEIGHT ELSE SLOT_SPEED]
    BY <1>3, <1>4, <2>1 DEF SpinTurning, SLOT_SPEED
  <2>5. Resting(0)'
    BY <1>1, <2>4 DEF Resting
  <2> QED
    BY <1>1, <2>3, <2>5 DEF ReelsMove
<1>5. CASE o = SLOT_SPEED
  <2>1. Wraps = 1 .. 3
    BY <1>3, <1>5 DEF Wraps, SLOT_HEIGHT, SLOT_SPEED
  <2>2. PICK r \in Outcomes : slots' = [i \in 1 .. 3 |-> r[i]]
    BY <2>1 DEF SpinTurning, NewDigits
  <2>3. slots' = r
    BY <2>2, SlotAssumption
  <2>4. offsets' = [i \in 1 .. 3 |-> IF i <= 0 THEN SLOT_HEIGHT ELSE 0]
    BY <1>3, <1>5, <2>1 DEF SpinTurning, SLOT_SPEED, SLOT_HEIGHT
  <2>5. Resting(0)'
    BY <1>1, <2>4 DEF Resting
  <2> QED
    BY <1>1, <2>3, <2>5 DEF ReelsMove
<1> QED
  BY <1>4, <1>5

(* The leftmost reel that still turns waits for its frame or comes to      *)
(* rest.                                                                   *)
LEMMA ReelsHalt ==
    ASSUME ReelsMove, cpc = "report", cpc' = cpc, ~AtRest, SpinStopping
    PROVE  ReelsMove'
<1>1. PICK n \in 0 .. 3 : Resting(n)
  BY DEF ReelsMove
<1>2. n # 3
  <2>1. \A i \in 1 .. 3 : i <= 3
    OBVIOUS
  <2>2. Resting(3) => \A i \in 1 .. 3 : stop_flags[i]
    BY <2>1, Zenon DEF Resting
  <2> QED
    BY <1>1, <2>2 DEF AtRest
<1>3. FirstTurning = n + 1
  <2>1. \A i \in 1 .. 3 : stop_flags[i] <=> i <= n
    BY <1>1 DEF Resting
  <2>2. /\ n + 1 \in 1 .. 3 /\ ~stop_flags[n + 1]
        /\ \A j \in 1 .. (n + 1) - 1 : stop_flags[j]
    BY <1>2, <2>1
  <2>3. ASSUME NEW i \in 1 .. 3, ~stop_flags[i], \A j \in 1 .. i - 1 : stop_flags[j]
        PROVE  i = n + 1
    <3>1. i > n /\ (i # n + 1 => n + 1 \in 1 .. i - 1)
      BY <2>1, <2>3
    <3> QED
      BY <2>2, <2>3, <3>1
  <2> QED
    BY <2>2, <2>3 DEF FirstTurning
<1>4. /\ stop_counter \in 0 .. STOP_DELAY - 1 /\ frames = STOP_DELAY * n + stop_counter
      /\ stop_flags = [i \in 1 .. 3 |-> i <= n] /\ STOP_DELAY \in Nat \ {0}
      /\ frames' = frames + 1 /\ slots' = slots
  BY <1>1, ScreenAssumption DEF Resting, SpinStopping
<1>5. PICK o \in {0, SLOT_SPEED} : offsets = [i \in 1 .. 3 |-> IF i <= n THEN SLOT_HEIGHT ELSE o]
  BY <1>1 DEF Resting
<1>6. CASE Waited
  <2>1. stop_counter + 1 = STOP_DELAY /\ stop_counter' = 0
    BY <1>4, <1>6 DEF Waited, SpinStopping, Counts
  <2>2. frames' = STOP_DELAY * (n + 1) + stop_counter'
    BY <1>4, <2>1
  <2>3. stop_flags' = [i \in 1 .. 3 |-> i <= n + 1]
    <3>1. stop_flags' = [i \in 1 .. 3 |-> IF i = n + 1 THEN TRUE ELSE i <= n]
      BY <1>3, <1>4, <1>6, Zenon DEF SpinStopping, Snaps
    <3>2. ASSUME NEW i \in 1 .. 3
          PROVE  (IF i = n + 1 THEN TRUE ELSE i <= n) = (i <= n + 1)
      <4>1. CASE i = n + 1
        <5>1. (i <= n + 1) = TRUE
          BY <4>1
        <5> QED
          BY <4>1, <5>1
      <4>2. CASE i # n + 1
        <5>1. (i <= n) = (i <= n + 1)
          BY <4>2
        <5> QED
          BY <4>2, <5>1
      <4> QED
        BY <4>1, <4>2
    <3> QED
      BY <3>1, <3>2, Zenon
  <2>4. offsets' = [i \in 1 .. 3 |-> IF i <= n + 1 THEN SLOT_HEIGHT ELSE o]
    BY <1>2, <1>3, <1>5, <1>6 DEF SpinStopping, Snaps
  <2>5. stop_counter' \in 0 .. STOP_DELAY - 1 /\ n + 1 \in 0 .. 3
    BY <1>2, <1>4, <2>1
  <2>6. Resting(n + 1)'
    BY <2>1, <2>2, <2>3, <2>4, <2>5 DEF Resting
  <2> QED
    BY <1>4, <2>5, <2>6 DEF ReelsMove
<1>7. CASE ~Waited
  <2>1. stop_counter' = stop_counter + 1 /\ stop_counter' \in 0 .. STOP_DELAY - 1
    BY <1>4, <1>7 DEF Waited, SpinStopping, Counts
  <2>2. frames' = STOP_DELAY * n + stop_counter'
    BY <1>4, <2>1
  <2>3. UNCHANGED <<offsets, stop_flags>>
    BY <1>7 DEF SpinStopping, Snaps
  <2>4. Resting(n)'
    BY <1>1, <1>2, <2>1, <2>2, <2>3 DEF Resting
  <2> QED
    BY <1>4, <2>4 DEF ReelsMove
<1> QED
  BY <1>6, <1>7

(* Every other step leaves the reels alone, and enters neither the reel    *)
(* loop nor the wait for the reward.                                       *)
LEMMA ReelsUntouched ==
    ASSUME UserPresses \/ UserReleases \/ Blink \/ OtherSteps \/ UNCHANGED screen
    PROVE  UNCHANGED reels /\ (cpc' = cpc \/ cpc' \notin {"spin", "awaitReward"})
<1>1. CASE UserPresses \/ UserReleases \/ UNCHANGED screen
  BY <1>1 DEF UserPresses, UserReleases, screen, vars, cvars
<1>2. CASE Blink
  BY <1>2 DEF Blink, ClientHome, vars, cvars
<1>3. CASE OtherSteps
  <2>1. UNCHANGED reels
    BY <1>3 DEF OtherSteps
  <2>2. ServerBoot \/ Server \/ UserTypes => cpc' = cpc
    BY DEF ServerBoot, Server, ServerFirst, ServerTopPlay, ServerTopTimeout, ServerTopRestart,
           ServerStop, ServerQuit, ServerIgnore, ServerResult, UserTypes, cvars
  <2>3. \/ ClientStart \/ ClientDies
        \/ ClientGetsRestart \/ ClientGetsCoin \/ ClientGetsEnd \/ ClientGetsReward
        \/ ClientWakes
        => cpc' \notin {"spin", "awaitReward"}
    BY DEF ClientStart, ClientDies, ClientGetsRestart, ClientGetsCoin, ClientGetsEnd,
           ClientGetsReward, ClientWakes
  <2> QED
    BY <1>3, <2>1, <2>2, <2>3 DEF OtherSteps
<1> QED
  BY <1>1, <1>2, <1>3

(* A key in the reel loop does not lead to the wait for the reward.        *)
LEMMA KeyInReelLoop ==
    ASSUME ClientKey
    PROVE  cpc = "spin" /\ cpc' \in {"spin", "awaitCoin", "awaitEnd"}
<1>1. CASE NextChar = "s"
  BY <1>1 DEF ClientKey
<1>2. CASE NextChar = "q"
  BY <1>2 DEF ClientKey
<1>3. CASE NextChar # "s" /\ NextChar # "q"
  BY <1>3 DEF ClientKey
<1> QED
  BY <1>1, <1>2, <1>3

(* The reels are always where their counters say.                          *)
LEMMA ReelsAlways == ScreenSpec => []ReelsMove
<1>1. ScreenInit => ReelsMove
  <2> SUFFICES ASSUME ScreenInit PROVE ReelsMove
    OBVIOUS
  <2>1. \A i \in 1 .. 3 : (i <= 0) = FALSE
    OBVIOUS
  <2>2. [i \in 1 .. 3 |-> FALSE] = [i \in 1 .. 3 |-> i <= 0]
    BY <2>1, Zenon
  <2>3. [i \in 1 .. 3 |-> 0] = [i \in 1 .. 3 |-> IF i <= 0 THEN SLOT_HEIGHT ELSE 0]
    BY <2>1
  <2>4. stop_counter \in 0 .. STOP_DELAY - 1 /\ frames = STOP_DELAY * 0 + stop_counter
    BY ScreenAssumption DEF ScreenInit
  <2>5. Resting(0)
    BY <2>2, <2>3, <2>4 DEF ScreenInit, Resting, Zeros
  <2>6. cpc = "press" /\ slots \in Outcomes
    BY ScreenAssumption DEF ScreenInit, Init, Zeros
  <2> QED
    BY <2>5, <2>6 DEF ReelsMove
<1>2. ReelsMove /\ [ScreenNext]_screen => ReelsMove'
  <2> SUFFICES ASSUME ReelsMove, [ScreenNext]_screen PROVE ReelsMove'
    OBVIOUS
  <2>1. CASE UserPresses \/ UserReleases \/ Blink \/ OtherSteps \/ UNCHANGED screen
    BY <2>1, ReelsUntouched DEF ReelsMove, Resting, reels
  <2>2. CASE RoundBegins \/ GameOver \/ Prompt
    <3>1. cpc' # "awaitReward" /\ FreshIfSpinning
      BY <2>2 DEF RoundBegins, GameOver, Prompt, ClientTopSpin, ClientTopGameOver, ClientPrompt
    <3> QED
      BY <3>1, FreshReels
  <2>3. CASE Frame
    <3>1. cpc' # "awaitReward"
      <4>1. CASE Pressed
        BY <2>3, <4>1 DEF Frame, ClientButton
      <4>2. CASE ~Pressed /\ tty # <<>>
        BY <2>3, <4>2, KeyInReelLoop DEF Frame
      <4>3. CASE ~Pressed /\ tty = <<>>
        BY <2>3, <4>3 DEF Frame, vars, cvars
      <4> QED
        BY <4>1, <4>2, <4>3
    <3> QED
      BY <2>3, <3>1, ReelsTurn DEF Frame
  <2>4. CASE HaltFrame
    BY <2>4, ReelsHalt DEF HaltFrame, vars, cvars
  <2>5. CASE ReportReels
    <3>1. PICK n \in 0 .. 3 : Resting(n)
      BY DEF ReelsMove
    <3>2. n = 3
      <4>1. n # 3 => n + 1 \in 1 .. 3 /\ ~(n + 1 <= n)
        OBVIOUS
      <4>2. \A i \in 1 .. 3 : stop_flags[i] /\ (stop_flags[i] <=> i <= n)
        BY <2>5, <3>1 DEF ReportReels, AtRest, Resting
      <4> QED
        BY <4>1, <4>2
    <3>3. UNCHANGED reels /\ cpc' = "awaitReward"
      BY <2>5 DEF ReportReels
    <3> QED
      BY <3>1, <3>2, <3>3 DEF ReelsMove, Resting, reels
  <2> QED
    BY <2>1, <2>2, <2>3, <2>4, <2>5 DEF ScreenNext
<1> QED
  BY <1>1, <1>2, PTL DEF ScreenSpec

(* The reels come to rest from left to right, one every STOP_DELAY frames: *)
(* no reel rests while one on its left turns (slot_machine_client.c:279).  *)
THEOREM ScreenStopsSpaced == ScreenSpec => []StopsSpaced
<1>1. ReelsMove => StopsSpaced
  <2> SUFFICES ASSUME ReelsMove PROVE StopsSpaced
    OBVIOUS
  <2>1. PICK n \in 0 .. 3 : Resting(n)
    BY DEF ReelsMove
  <2>2. \A i \in 1 .. 3 : stop_flags[i] <=> i <= n
    BY <2>1 DEF Resting
  <2>3. {i \in 1 .. 3 : stop_flags[i]} = 1 .. n
    <3>1. \A i \in 1 .. n : i \in 1 .. 3 /\ i <= n
      BY <2>1
    <3>2. \A i \in 1 .. 3 : i <= n => i \in 1 .. n
      BY <2>1
    <3> QED
      BY <2>2, <3>1, <3>2
  <2> QED
    BY <2>1, <2>3 DEF StopsSpaced, Resting
<1> QED
  BY <1>1, ReelsAlways, PTL

(* The digits are digits, and no reel ever has an offset other than the    *)
(* three its frames divide a slot into (slot_machine_client.c:270-310).    *)
THEOREM ScreenTypes == ScreenSpec => []ScreenTypeOK
<1>1. HandTypes /\ PressesCount /\ ReelsMove => ScreenTypeOK
  <2> SUFFICES ASSUME HandTypes, PressesCount, ReelsMove PROVE ScreenTypeOK
    OBVIOUS
  <2>1. PICK n \in 0 .. 3 : Resting(n)
    BY DEF ReelsMove
  <2>2. slots \in [1 .. 3 -> 0 .. 9]
    BY SlotAssumption DEF ReelsMove
  <2>3. offsets \in [1 .. 3 -> {0, SLOT_SPEED, SLOT_HEIGHT}]
    BY <2>1 DEF Resting
  <2>4. stop_flags \in [1 .. 3 -> BOOLEAN]
    BY <2>1 DEF Resting
  <2>5. stop_counter \in 0 .. STOP_DELAY - 1 /\ frames \in 0 .. 3 * STOP_DELAY
    <3>1. /\ stop_counter \in 0 .. STOP_DELAY - 1 /\ (n = 3 => stop_counter = 0)
          /\ frames = STOP_DELAY * n + stop_counter /\ STOP_DELAY \in Nat \ {0}
      BY <2>1, ScreenAssumption DEF Resting
    <3>2. CASE n = 0
      BY <3>1, <3>2
    <3>3. CASE n = 1
      BY <3>1, <3>3
    <3>4. CASE n = 2
      BY <3>1, <3>4
    <3>5. CASE n = 3
      BY <3>1, <3>5
    <3> QED
      BY <3>2, <3>3, <3>4, <3>5
  <2> QED
    BY <2>2, <2>3, <2>4, <2>5 DEF ScreenTypeOK, HandTypes, PressesCount
<1> QED
  BY <1>1, ButtonTypes, PressesCounted, ReelsAlways, PTL

-----------------------------------------------------------------------------
(* The conversation.                                                       *)

(* A frame of the screen is a step of SlotMachine's client or no step of   *)
(* it at all.                                                              *)
LEMMA ScreenStep ==
    ASSUME ReelsMove, [ScreenNext]_screen
    PROVE  [Next]_vars
<1>1. CASE UserPresses \/ UserReleases \/ HaltFrame \/ UNCHANGED screen
  BY <1>1 DEF UserPresses, UserReleases, HaltFrame, screen
<1>2. CASE Blink
  BY <1>2 DEF Blink, Next
<1>3. CASE RoundBegins \/ GameOver \/ Prompt
  BY <1>3 DEF RoundBegins, GameOver, Prompt, Next, Client
<1>4. CASE Frame
  BY <1>4 DEF Frame, Next, Client
<1>5. CASE ReportReels
  <2>1. ClientReport
    BY <1>5 DEF ReportReels, ClientReport, ReelsMove
  <2> QED
    BY <2>1 DEF Next, Client
<1>6. CASE OtherSteps
  BY <1>6 DEF OtherSteps, Next, Client
<1> QED
  BY <1>1, <1>2, <1>3, <1>4, <1>5, <1>6 DEF ScreenNext

(* The client with its frames and its button behaves as SlotMachine says,  *)
(* whatever the network does: what is proved of SlotMachine's steps holds  *)
(* of it (slot_machine_client.c:502-700).                                  *)
THEOREM ScreenImplementsSlot == ScreenSpec => Spec
<1>1. ScreenInit => Init
  BY DEF ScreenInit
<1> QED
  BY <1>1, ScreenStep, ReelsAlways, PTL DEF ScreenSpec, Spec

(* The player is paid for the three digits that were sent, and those are   *)
(* the ones at rest.                                                       *)
PaysShown ==
    ~stray /\ cpc = "awaitReward" =>
        /\ \A i \in 1 .. Len(inbox) : inbox[i] = Reels(slots)
        /\ \A i \in 1 .. Len(replies) : replies[i].num = Reward(slots)

(* The server computes the reward of the reels it was sent, and the client *)
(* is told nothing else.                                                   *)
LEMMA ServerPays ==
    ASSUME "duplicate" \notin Faults, TypeOK, Conversation, PaysShown,
           Server, ~stray', cpc' = "awaitReward", UNCHANGED slots
    PROVE  PaysShown'
<1>1. /\ cpc = "awaitReward" /\ ~stray /\ slots' = slots
      /\ inbox \in Seq(Datagrams) /\ replies \in Seq(Replies)
  BY DEF Server, ServerFirst, ServerTopPlay, ServerTopTimeout, ServerTopRestart,
         ServerStop, ServerQuit, ServerIgnore, ServerResult, cvars, TypeOK
<1>2. inbox # <<>> => spc = "result" /\ replies = <<>>
  BY <1>1 DEF Conversation, Answered
<1>3. CASE UNCHANGED <<inbox, replies>>
  BY <1>1, <1>3 DEF PaysShown
<1>4. CASE ~UNCHANGED <<inbox, replies>>
  <2>1. ServerResult
    BY <1>2, <1>4 DEF Server, ServerFirst, ServerTopPlay, ServerTopTimeout, ServerTopRestart,
                      ServerStop, ServerQuit, ServerIgnore
  <2>2. inbox # <<>> /\ inbox' = Tail(inbox) /\ replies = <<>>
    BY <1>2, <2>1 DEF ServerResult
  <2>3. /\ Len(inbox) \in Nat \ {0} /\ Head(inbox) = inbox[1] /\ 1 \in 1 .. Len(inbox)
        /\ Len(Tail(inbox)) = Len(inbox) - 1
        /\ \A i \in 1 .. Len(Tail(inbox)) : Tail(inbox)[i] = inbox[i + 1] /\ i + 1 \in 1 .. Len(inbox)
    BY <1>1, <2>2, HeadTailProperties, EmptySeq, LenProperties
  <2>4. Head(inbox) = Reels(slots)
    BY <1>1, <2>3 DEF PaysShown
  <2>5. Rewards(Head(inbox)) = {Reward(slots)}
    BY <2>4 DEF Rewards, Reels
  <2>6. PICK reward \in Rewards(Head(inbox)) : ToClient(Reply("reward", reward))
    BY <2>1 DEF ServerResult
  <2>7. /\ reward = Reward(slots) /\ Reply("reward", reward).num = reward
        /\ Reply("reward", reward) \in Replies
    <3>1. reward = Reward(slots) /\ reward \in Int
      BY <2>5, <2>6, RewardsType
    <3> QED
      BY <3>1, DatagramTypes
  <2>8. Len(replies') <= 1 /\ (Len(replies') = 1 => replies'[1] = Reply("reward", reward))
    BY <2>2, <2>6, <2>7, ReplySent
  <2>9. Len(replies') \in Nat
    BY <1>1, <2>6, <2>7, ToClientType, LenProperties
  <2>10. ASSUME NEW i \in 1 .. Len(replies') PROVE i = 1 /\ Len(replies') = 1
    <3> DEFINE n == Len(replies')
    <3>1. n \in Nat /\ n <= 1 /\ i \in 1 .. n
      BY <2>8, <2>9, <2>10
    <3> HIDE DEF n
    <3>2. n = 1 /\ i = 1
      BY <3>1
    <3> QED
      BY <3>2 DEF n
  <2>11. \A i \in 1 .. Len(replies') : replies'[i].num = Reward(slots)
    BY <2>7, <2>8, <2>10
  <2>12. \A i \in 1 .. Len(inbox') : inbox'[i] = Reels(slots)
    BY <1>1, <2>2, <2>3 DEF PaysShown
  <2> QED
    BY <1>1, <2>11, <2>12 DEF PaysShown
<1> QED
  BY <1>3, <1>4

(* The reels that are sent are the ones at rest.                           *)
LEMMA ReportShown ==
    ASSUME "duplicate" \notin Faults, ReelsMove, Conversation, ReportReels
    PROVE  PaysShown'
<1>1. /\ inbox = <<>> /\ replies = <<>> /\ replies' = replies /\ slots' = slots
      /\ ToServer(Reels(slots))
  BY DEF ReportReels, Conversation, reels
<1>2. inbox' = <<>> \/ inbox' = Append(<<>>, Reels(slots))
  <2>1. CASE inbox' = inbox
    BY <1>1, <2>1
  <2>2. CASE inbox' \in Arrivals(<<>>, Reels(slots))
    <3>1. inbox' = <<>> \/ inbox' = <<Reels(slots)>>
      <4> DEFINE S == {Reels(slots)}
      <4>1. Reels(slots) \in S
        OBVIOUS
      <4> QED
        BY <2>2, <4>1, FirstArrival
    <3>2. Append(<<>>, Reels(slots)) = <<Reels(slots)>>
      OBVIOUS
    <3> QED
      BY <3>1, <3>2
  <2> QED
    BY <1>1, <2>1, <2>2 DEF ToServer
<1>3. \A i \in 1 .. Len(inbox') : inbox'[i] = Reels(slots)
  <2>1. CASE inbox' = <<>>
    <3>1. Len(inbox') = 0
      BY <2>1
    <3> QED
      BY <3>1
  <2>2. CASE inbox' = Append(<<>>, Reels(slots))
    <3>1. Len(inbox') = 1 /\ inbox'[1] = Reels(slots)
      BY <2>2
    <3> QED
      BY <3>1
  <2> QED
    BY <1>2, <2>1, <2>2
<1>4. Len(replies') = 0
  BY <1>1
<1> QED
  BY <1>1, <1>3, <1>4 DEF PaysShown

(* A client that waits for its reward is paid for what it shows.           *)
LEMMA PaysShownAlways ==
    ASSUME "duplicate" \notin Faults, "reorder" \in Faults => InitCoin > 0
    PROVE  ScreenSpec => []PaysShown
<1>1. ScreenInit => PaysShown
  BY DEF ScreenInit, Init, PaysShown
<1>2. TypeOK /\ InConversation /\ ReelsMove /\ PaysShown /\ [ScreenNext]_screen => PaysShown'
  <2> SUFFICES ASSUME TypeOK, InConversation, ReelsMove, PaysShown, [ScreenNext]_screen,
                      ~stray', cpc' = "awaitReward"
               PROVE  PaysShown'
    BY DEF PaysShown
  <2>1. CASE UNCHANGED <<inbox, replies, slots, stray, cpc>>
    BY <2>1 DEF PaysShown
  <2>2. CASE UserPresses \/ UserReleases \/ HaltFrame \/ UNCHANGED screen
    <3>1. UNCHANGED <<inbox, replies, stray, cpc, slots>>
      BY <2>2 DEF UserPresses, UserReleases, HaltFrame, SpinStopping, screen, vars, cvars, reels
    <3> QED
      BY <2>1, <3>1
  <2>3. CASE Blink \/ RoundBegins \/ GameOver \/ Prompt \/ Frame
    <3>1. UNCHANGED reels /\ UNCHANGED vars
      <4>1. ~(RoundBegins \/ GameOver \/ Prompt)
        BY DEF RoundBegins, GameOver, Prompt, ClientTopSpin, ClientTopGameOver, ClientPrompt
      <4>2. ~Frame
        <5> SUFFICES ASSUME Frame PROVE FALSE
          OBVIOUS
        <5>1. CASE Pressed
          BY <5>1 DEF Frame, ClientButton
        <5>2. CASE ~Pressed /\ tty # <<>>
          BY <5>2, KeyInReelLoop DEF Frame
        <5>3. CASE ~Pressed /\ tty = <<>>
          BY <5>3 DEF Frame, vars, cvars
        <5> QED
          BY <5>1, <5>2, <5>3
      <4>3. Blink => UNCHANGED reels /\ UNCHANGED vars
        BY DEF Blink, ClientHome
      <4> QED
        BY <2>3, <4>1, <4>2, <4>3
    <3> QED
      BY <2>1, <3>1 DEF vars, cvars, reels
  <2>4. CASE ReportReels
    <3>1. Conversation
      BY <2>4 DEF InConversation, Overtaken, ReportReels
    <3> QED
      BY <2>4, <3>1, ReportShown
  <2>5. CASE OtherSteps
    <3>1. UNCHANGED slots
      BY <2>5 DEF OtherSteps, reels
    <3>2. CASE Server
      <4>1. ~stray
        BY <3>2 DEF Server, ServerFirst, ServerTopPlay, ServerTopTimeout, ServerTopRestart,
                    ServerStop, ServerQuit, ServerIgnore, ServerResult
      <4>2. cpc = "awaitReward"
        BY <3>2 DEF Server, ServerFirst, ServerTopPlay, ServerTopTimeout, ServerTopRestart,
                    ServerStop, ServerQuit, ServerIgnore, ServerResult, cvars
      <4> QED
        BY <3>1, <3>2, <4>1, <4>2, ServerPays DEF InConversation, Overtaken
    <3>3. CASE ServerBoot \/ UserTypes
      BY <2>1, <3>1, <3>3 DEF ServerBoot, UserTypes, cvars
    <3>4. CASE \/ ClientStart \/ ClientDies
               \/ ClientGetsRestart \/ ClientGetsCoin \/ ClientGetsEnd \/ ClientGetsReward
               \/ ClientWakes
      BY <3>4 DEF ClientStart, ClientDies, ClientGetsRestart, ClientGetsCoin, ClientGetsEnd,
                  ClientGetsReward, ClientWakes
    <3> QED
      BY <2>5, <3>2, <3>3, <3>4 DEF OtherSteps
  <2> QED
    BY <2>2, <2>3, <2>4, <2>5 DEF ScreenNext
<1> QED
  BY <1>1, <1>2, ScreenImplementsSlot, SlotTypes, SlotConversation, ReelsAlways, PTL DEF ScreenSpec

(* On a network that may lose and reorder datagrams but does not double    *)
(* them, a player who obeyed the game-over prompts is paid for the three   *)
(* digits in the windows (slot_machine_client.c:280-303, 676-686).          *)
THEOREM ScreenPaidAsShown ==
    ASSUME "duplicate" \notin Faults, "reorder" \in Faults => InitCoin > 0
    PROVE  ScreenSpec => []PaidAsShown
<1>1. TypeOK /\ ReelsMove /\ PaysShown => PaidAsShown
  <2> SUFFICES ASSUME TypeOK, ReelsMove, PaysShown, ~stray, cpc = "awaitReward", replies # <<>>
               PROVE  /\ slots \in Outcomes
                      /\ \A i \in 1 .. 3 : Shown(i) = {slots[i]}
                      /\ Head(replies).num = Reward(slots)
    BY DEF PaidAsShown
  <2>1. slots \in Outcomes /\ Resting(3)
    BY DEF ReelsMove
  <2>2. ASSUME NEW i \in 1 .. 3 PROVE Shown(i) = {slots[i]}
    <3>1. offsets[i] = 80
      BY <2>1 DEF Resting, SLOT_HEIGHT
    <3>2. InWindow(80 - 80) /\ ~InWindow(80)
      BY DEF InWindow
    <3> QED
      BY <3>1, <3>2 DEF Shown
  <2>3. Head(replies).num = Reward(slots)
    <3>1. Len(replies) \in Nat \ {0} /\ Head(replies) = replies[1]
      BY EmptySeq, HeadTailProperties DEF TypeOK
    <3> QED
      BY <3>1 DEF PaysShown
  <2> QED
    BY <2>1, <2>2, <2>3
<1> QED
  BY <1>1, ScreenImplementsSlot, SlotTypes, ReelsAlways, PaysShownAlways, PTL
=============================================================================
