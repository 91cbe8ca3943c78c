----------------------------- MODULE SlotScreen -----------------------------
(***************************************************************************)
(* What slot_machine_client.c adds to the conversation of SlotMachine: the *)
(* turning reels, the button read through read_key, and the frames they    *)
(* share.  SlotMachine lets the reels stop on anything and the button be   *)
(* seen at any time; here both are computed, frame by frame, from the      *)
(* contact of the button and from the offsets on the screen.               *)
(*                                                                         *)
(* Frames are drawn in four loops: at home (Blink), while the reels turn   *)
(* (Frame), while they are brought to rest (Halt), and at the head of the  *)
(* game loop (the first reel frame of a round starts from zeros).          *)
(***************************************************************************)
EXTENDS SlotMachine

CONSTANTS
    STOP_DELAY,    \* frames from one reel's rest to the next
    MaxPresses     \* bound: how often the user presses the button

ASSUME ScreenAssumption ==
    /\ STOP_DELAY \in Nat \ {0}
    /\ MaxPresses \in Nat
    /\ [i \in 1 .. 3 |-> 0] \in Outcomes

VARIABLES
    slots,         \* the digits of the three reels
    offsets,       \* how far each has scrolled
    stop_flags,    \* which reels have come to rest
    stop_counter,  \* frames since the last one did (final_stop_counter of main)
    held,          \* the contact of the button is closed
    prev_state,    \* the static variable of read_key: the last level it saw
    presses,       \* history: how often the contact was closed
    seen,          \* history: how often read_key returned 1
    frames         \* history: frames since the reels were told to stop

reels == <<slots, offsets, stop_flags, stop_counter, frames>>
hand == <<held, presses>>
button == <<prev_state, seen>>
screen == <<vars, reels, hand, button>>

SLOT_SPEED == 40
SLOT_HEIGHT == 80

Zeros == [i \in 1 .. 3 |-> 0]

InitPrevDown == prev_state = 0   \* mutant: read_key believes the button is down
InitPrev == prev_state = 1

ScreenInit ==
    /\ Init
    /\ slots = Zeros /\ offsets = Zeros
    /\ stop_flags = [i \in 1 .. 3 |-> FALSE] /\ stop_counter = 0 /\ frames = 0
    /\ held = FALSE /\ presses = 0 /\ seen = 0
    /\ InitPrev

-----------------------------------------------------------------------------
(* The button.  Two calls of read_key are at least a frame of 50 ms apart, *)
(* longer than a contact bounces, so a call sees it open or closed.        *)

UserPresses ==
    /\ ~held /\ presses < MaxPresses
    /\ held' = TRUE /\ presses' = presses + 1
    /\ UNCHANGED <<vars, reels, button>>

UserReleases ==
    /\ held
    /\ held' = FALSE
    /\ UNCHANGED <<vars, reels, presses, button>>

(* read_key returns 1 on the first closed level after an open one.         *)
Pressed == held /\ prev_state = 1

read_keyLevel ==         \* mutant: a closed contact counts at every call
    /\ prev_state' = 1
    /\ seen' = IF Pressed THEN seen + 1 ELSE seen

read_key ==
    /\ prev_state' = IF held THEN 0 ELSE 1
    /\ seen' = IF Pressed THEN seen + 1 ELSE seen

-----------------------------------------------------------------------------
(* spin_slots.  While the reels turn, a reel that has scrolled by a whole  *)
(* slot starts over with a new digit; the three move together.             *)
Turned == [i \in 1 .. 3 |-> offsets[i] + SLOT_SPEED]
Wraps == {i \in 1 .. 3 : Turned[i] >= SLOT_HEIGHT}
NewDigits ==
    \E r \in IF Wraps = {} THEN {slots} ELSE Outcomes :
        slots' = [i \in 1 .. 3 |-> IF i \in Wraps THEN r[i] ELSE slots[i]]

SpinTurningOn ==         \* mutant: a reel that wraps is not moved back
    /\ offsets' = Turned
    /\ NewDigits
    /\ UNCHANGED <<stop_flags, stop_counter, frames>>

SpinTurning ==
    /\ offsets' = [i \in 1 .. 3 |-> Turned[i] - (IF i \in Wraps THEN SLOT_HEIGHT ELSE 0)]
    /\ NewDigits
    /\ UNCHANGED <<stop_flags, stop_counter, frames>>

(* When they are told to stop, the leftmost one still turning waits for    *)
(* STOP_DELAY frames, snaps to one slot's height and hands over.           *)
LastTurning ==           \* mutant: the branches ask for the flags from the right
    CHOOSE i \in 1 .. 3 : ~stop_flags[i] /\ \A j \in i + 1 .. 3 : stop_flags[j]

FirstTurning == CHOOSE i \in 1 .. 3 : ~stop_flags[i] /\ \A j \in 1 .. i - 1 : stop_flags[j]

Waited == stop_counter + 1 >= STOP_DELAY
Snaps ==
    IF Waited
    THEN /\ offsets' = [offsets EXCEPT ![FirstTurning] = SLOT_HEIGHT]
         /\ stop_flags' = [stop_flags EXCEPT ![FirstTurning] = TRUE]
    ELSE UNCHANGED <<offsets, stop_flags>>
Counts == stop_counter' = IF Waited THEN 0 ELSE stop_counter + 1

SpinStoppingKeepsCount ==   \* mutant: the counter is not reset
    /\ Snaps
    /\ stop_counter' = stop_counter + 1 /\ frames' = frames + 1
    /\ UNCHANGED slots

SpinStoppingNoSnap ==       \* mutant: a reel rests where it happens to be
    /\ stop_flags' = [stop_flags EXCEPT ![FirstTurning] = Waited]
    /\ Counts /\ frames' = frames + 1
    /\ UNCHANGED <<offsets, slots>>

SpinStoppingTwoReels ==     \* mutant: the branch of the third reel is missing
    /\ FirstTurning # 3
    /\ Snaps /\ Counts /\ frames' = frames + 1
    /\ UNCHANGED slots

SpinStopping ==
    /\ Snaps /\ Counts /\ frames' = frames + 1
    /\ UNCHANGED slots

(* A round begins with fresh reels.                                        *)
FreshIfSpinning ==
    IF cpc' = "spin"
    THEN /\ slots' = Zeros /\ offsets' = Zeros
         /\ stop_flags' = [i \in 1 .. 3 |-> FALSE] /\ stop_counter' = 0 /\ frames' = 0
    ELSE UNCHANGED reels

-----------------------------------------------------------------------------
(* The loops of main().                                                    *)

(* The blink loop leaves when read_key has seen the button.                *)
Blink ==
    /\ cpc = "home"
    /\ read_key
    /\ IF Pressed THEN ClientHome ELSE UNCHANGED vars
    /\ UNCHANGED <<reels, hand>>

(* Head of the game loop: only a game over looks at the button.            *)
RoundBegins ==
    /\ ClientTopSpin
    /\ FreshIfSpinning
    /\ UNCHANGED <<hand, button>>

GameOver ==
    /\ ClientTopGameOver
    /\ read_key
    /\ Pressed <=> cpc' = "prompt"
    /\ FreshIfSpinning
    /\ UNCHANGED hand

Prompt ==
    /\ ClientPrompt
    /\ FreshIfSpinning
    /\ UNCHANGED <<hand, button>>

(* One turn of the reel loop: the reels move, the button is read, and only *)
(* if it was not pressed the keyboard is.                                  *)
Frame ==
    /\ cpc = "spin"
    /\ SpinTurning
    /\ read_key
    /\ IF Pressed THEN ClientButton
       ELSE IF tty # <<>> THEN ClientKey
       ELSE UNCHANGED vars
    /\ UNCHANGED hand

(* One turn of the loop that brings the reels to rest.                     *)
AtRest == \A i \in 1 .. 3 : stop_flags[i]

HaltFrame ==
    /\ cpc = "report" /\ ~AtRest
    /\ SpinStopping
    /\ UNCHANGED <<vars, hand, button>>

(* The digits at rest are sent.                                            *)
ReportReels ==
    /\ cpc = "report" /\ AtRest
    /\ ToServer(Reels(slots))
    /\ cpc' = "awaitReward"
    /\ UNCHANGED <<svars, ccoin, replies, kvars, stray, reels, hand, button>>

OtherSteps ==
    /\ \/ ServerBoot \/ Server
       \/ UserTypes \/ ClientStart \/ ClientDies
       \/ ClientGetsRestart \/ ClientGetsCoin \/ ClientGetsEnd \/ ClientGetsReward
       \/ ClientWakes
    /\ UNCHANGED <<reels, hand, button>>

ScreenNext ==
    \/ UserPresses \/ UserReleases
    \/ Blink \/ RoundBegins \/ GameOver \/ Prompt \/ Frame \/ HaltFrame \/ ReportReels
    \/ OtherSteps

ScreenSpec == ScreenInit /\ [][ScreenNext]_screen

(* The server and the client's one thread run whenever they can.           *)
ClientRuns ==
    \/ Blink \/ RoundBegins \/ GameOver \/ Prompt \/ Frame \/ HaltFrame \/ ReportReels
    \/ /\ \/ ClientGetsRestart \/ ClientGetsCoin \/ ClientGetsEnd \/ ClientGetsReward
          \/ ClientWakes
       /\ UNCHANGED <<reels, hand, button>>
ServerRuns == Server /\ UNCHANGED <<reels, hand, button>>
FairScreenSpec == ScreenSpec /\ WF_screen(ClientRuns) /\ WF_screen(ServerRuns)

-----------------------------------------------------------------------------
(* Properties.                                                             *)

(* The offset of a reel never passes the height of its slot, and is always *)
(* one of the multiples of SLOT_SPEED that fit into it.                    *)
ScreenTypeOK ==
    /\ slots \in [1 .. 3 -> 0 .. 9]
    /\ offsets \in [1 .. 3 -> {0, SLOT_SPEED, SLOT_HEIGHT}]
    /\ stop_flags \in [1 .. 3 -> BOOLEAN] /\ stop_counter \in 0 .. STOP_DELAY - 1
    /\ held \in BOOLEAN /\ prev_state \in {0, 1}
    /\ presses \in 0 .. MaxPresses /\ seen \in Nat /\ frames \in 0 .. 3 * STOP_DELAY

(* The client with its frames and its button is a client of SlotMachine,   *)
(* fairness included: halting the reels always ends in a report, and every *)
(* button the conversation reacts to is one read_key saw.                  *)
ImplementsMachine == FairSpec

(* What the player sees in the windows.  Rows are counted from the middle  *)
(* of the screen: draw_ui paints a window on [-20, 60), draw_to_buffer     *)
(* puts the current digit at offset - 80 and the next one at offset, 32    *)
(* rows high.  It clips neither: a digit outside its window is drawn on    *)
(* the background, where a resting reel shows its next digit; Shown has    *)
(* the digits that are whole in the window.                                *)
InWindow(y) == -20 <= y /\ y + 32 <= 60
Shown(i) ==
    {slots[i] : o \in {o \in {offsets[i]} : InWindow(o - 80)}}
      \cup {(slots[i] + 1) % 10 : o \in {o \in {offsets[i]} : InWindow(o)}}

(* The player is paid for the three digits in the windows: each window     *)
(* shows one digit, and the reward that arrives is the reward of these     *)
(* three (slot_machine_client.c:280-303, 676-686).                         *)
PaidAsShown ==
    ~stray /\ cpc = "awaitReward" /\ replies # <<>> =>
        \E r \in Outcomes : /\ \A i \in 1 .. 3 : Shown(i) = {r[i]}
                            /\ Head(replies).num = Reward(r)

(* The reels come to rest from left to right, one every STOP_DELAY frames: *)
(* those at rest are always the first n, and n of them took n delays       *)
(* (slot_machine_client.c:279-303, final_stop_counter at 653).             *)
StopsSpaced ==
    \E n \in 0 .. 3 :
        /\ {i \in 1 .. 3 : stop_flags[i]} = 1 .. n
        /\ frames = STOP_DELAY * n + stop_counter

(* However long the button is held, and in whichever of the three loops it *)
(* is read, one press is acted upon once: the press that leaves the home   *)
(* screen does not stop the reels as well, nor the one that stopped them   *)
(* answer a game over (slot_machine_client.c:382-397).                     *)
PressSeenOnce == seen <= presses

(* A player who presses the button at the home screen and holds it gets    *)
(* into the game (slot_machine_client.c:513).                              *)
HomePressStarts == (cpc = "home" /\ held) ~> (cpc # "home" \/ ~held)

-----------------------------------------------------------------------------
(* What comments of the client say, and the client does not do.            *)

(* slot_machine_client.c:271 and 652 "the offset is fixed to 64": a reel   *)
(* at rest has the offset 64.                                              *)
RestsAt64 == \A i \in 1 .. 3 : stop_flags[i] => offsets[i] = 64
=============================================================================
