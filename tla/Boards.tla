-------------------------------- MODULE Boards --------------------------------
(***************************************************************************)
(* The boards of the games decided by one request: dice, limbo, coinflip,  *)
(* roulette, plinko and keno (app/(dashboard)/games/*/page.tsx with their  *)
(* canvases), Avia Masters and the slot machine.  The server decides in    *)
(* milliseconds; the board plays the result out, and the controls stay     *)
(* locked from the bet to the end of the playing (hooks/useGameRound.ts).  *)
(*                                                                         *)
(* One board is on screen; the socket under it is the whole dashboard's,   *)
(* and its ERROR frames name no game.  Two answers of a player may         *)
(* overtake each other: each bet is an awaited handler of its own.  What   *)
(* the player bets on (a target, a side, picks) is a value of Picks.       *)
(***************************************************************************)
EXTENDS Integers, Sequences

CONSTANTS
  Games,       \* the boards looked at
  Picks,       \* what a bet may be placed on
  MaxBets,     \* bound: bets placed
  MaxErrors,   \* bound: ERROR frames of another page's action
  MaxDrops     \* bound: connections lost

Socketed == {"DICE", "LIMBO", "COINFLIP", "ROULETTE", "PLINKO", "KENO", "AVIA"}

BoardsAssumption ==
  /\ Games \subseteq Socketed \cup {"SLOTS"} /\ Games # {} /\ Picks # {}
  /\ {MaxBets, MaxErrors, MaxDrops} \subseteq Nat

VARIABLES
  game,       \* the board on screen
  controls,   \* what its controls say
  busy,       \* a bet is in flight, or its result still being revealed
  phase,      \* roulette, avia, slots: the phase the page keeps of its own
  playing,    \* results being played out: falling balls, a spinning wheel, ...
  shown,      \* the result announced, or Nothing
  held,       \* the balance shown is the one from before the bet
  sent,       \* bets on their way to the server
  answers,    \* frames on their way back
  decided,    \* the server: the bets it settled, in order
  placed, errors, drops,
  crossed     \* history: an ERROR of another page's action was taken for an answer

view == <<controls, busy, phase, playing, shown, held>>
vars == <<game, view, sent, answers, decided, placed, errors, drops, crossed>>

Nothing == [n |-> 0]

Init ==
  /\ game \in Games /\ controls \in Picks
  /\ busy = FALSE /\ phase = "IDLE" /\ playing = <<>> /\ shown = Nothing /\ held = FALSE
  /\ sent = <<>> /\ answers = <<>> /\ decided = <<>>
  /\ placed = 0 /\ errors = 0 /\ drops = 0 /\ crossed = FALSE

Without(s, i) == SubSeq(s, 1, i - 1) \o SubSeq(s, i + 1, Len(s))

-----------------------------------------------------------------------------
(* Placing a bet *)

\* The form submits only when nothing is busy (the stake's own checks are not modelled).
Submits == ~busy

\* useGameRound.bet: lock the controls, send the frame.
Bet ==
  /\ Submits /\ placed < MaxBets
  /\ busy' = TRUE
  /\ placed' = placed + 1
  /\ sent' = Append(sent, controls)
  /\ UNCHANGED <<game, controls, answers, decided, errors, drops, crossed>>

\* Dice, limbo and coinflip forget the last round, and with it what their canvas plays.
DiceBet ==
  /\ game = "DICE" /\ Bet
  /\ playing' = <<>> /\ shown' = Nothing /\ UNCHANGED <<phase, held>>

LimboBet ==
  /\ game = "LIMBO" /\ Bet
  /\ playing' = <<>> /\ shown' = Nothing /\ UNCHANGED <<phase, held>>

CoinflipBet ==
  /\ game = "COINFLIP" /\ Bet
  /\ playing' = <<>> /\ shown' = Nothing /\ UNCHANGED <<phase, held>>

RouletteSpin ==
  /\ game = "ROULETTE" /\ Bet
  /\ phase' = "SPINNING" /\ playing' = <<>> /\ shown' = Nothing /\ held' = TRUE

\* Plinko leaves the balls where they are.
PlinkoDrop ==
  /\ game = "PLINKO" /\ Bet
  /\ UNCHANGED <<playing, shown, phase, held>>

\* Keno clears what is drawn, and leaves the timers of a reveal under way alone.
KenoBet ==
  /\ game = "KENO" /\ Bet
  /\ shown' = Nothing /\ UNCHANGED <<playing, phase, held>>

Grounded == phase \in {"IDLE", "LANDED"}

AviaLaunch ==
  /\ game = "AVIA" /\ Grounded /\ Bet
  /\ phase' = "WAITING" /\ playing' = <<>> /\ shown' = Nothing /\ held' = TRUE

SlotsSpin ==
  /\ game = "SLOTS" /\ Bet
  /\ phase' = "SPINNING" /\ playing' = <<>> /\ shown' = Nothing /\ UNCHANGED held

\* What the panel of a page lets the player change between two bets.
Choose ==
  /\ ~busy
  /\ \E c \in Picks : c # controls /\ controls' = c
  /\ UNCHANGED <<game, busy, phase, shown, held, sent, answers, decided, placed, errors, drops, crossed>>

DiceChoose == game = "DICE" /\ Choose /\ UNCHANGED playing
LimboChoose == game = "LIMBO" /\ Choose /\ UNCHANGED playing
CoinflipChoose == game = "COINFLIP" /\ Choose /\ UNCHANGED playing
RouletteChoose == game = "ROULETTE" /\ Choose /\ UNCHANGED playing
KenoChoose == game = "KENO" /\ Choose /\ UNCHANGED playing
SlotsChoose == game = "SLOTS" /\ Choose /\ UNCHANGED playing
AviaChoose == game = "AVIA" /\ Grounded /\ Choose /\ UNCHANGED playing

\* A plinko board drawn anew loses its balls.
PlinkoChoose == game = "PLINKO" /\ Choose /\ playing' = <<>>

-----------------------------------------------------------------------------
(* The result comes back *)

\* useGameRound takes a GAME_RESULT of its own game; autoSettle is off on these boards.
Result(i) ==
  /\ answers[i].type = "GAME_RESULT"
  /\ answers' = Without(answers, i)
  /\ UNCHANGED <<game, controls, busy, sent, decided, placed, errors, drops, crossed>>

Played(i) == answers[i].bet

\* The choice a result is announced with: dice and coinflip read their controls as the
\* frame comes in, limbo the target the frame carries.
DiceResult(i) ==
  /\ game = "DICE" /\ Result(i)
  /\ playing' = <<[Played(i) EXCEPT !.choice = controls]>> /\ shown' = Nothing
  /\ UNCHANGED <<phase, held>>

LimboResult(i) ==
  /\ game = "LIMBO" /\ Result(i)
  /\ playing' = <<Played(i)>> /\ shown' = Nothing /\ UNCHANGED <<phase, held>>

CoinflipResult(i) ==
  /\ game = "COINFLIP" /\ Result(i)
  /\ playing' = <<[Played(i) EXCEPT !.choice = controls]>> /\ shown' = Nothing
  /\ UNCHANGED <<phase, held>>

\* The canvas aims the ball unless the page is back to IDLE.
RouletteResult(i) ==
  /\ game = "ROULETTE" /\ Result(i)
  /\ playing' = IF phase = "IDLE" THEN <<>> ELSE <<Played(i)>>
  /\ UNCHANGED <<phase, shown, held>>

PlinkoResult(i) ==
  /\ game = "PLINKO" /\ Result(i)
  /\ playing' = Append(playing, Played(i)) /\ UNCHANGED <<phase, shown, held>>

\* The timers of an earlier reveal are cleared, and one per drawn number set.
KenoResult(i) ==
  /\ game = "KENO" /\ Result(i)
  /\ playing' = <<Played(i)>> /\ shown' = Nothing /\ UNCHANGED <<phase, held>>

\* A result that finds the page not waiting is dropped.
AviaResult(i) ==
  /\ game = "AVIA" /\ Result(i)
  /\ IF phase = "WAITING"
     THEN playing' = <<Played(i)>> /\ phase' = "FLYING"
     ELSE UNCHANGED <<playing, phase>>
  /\ UNCHANGED <<shown, held>>

\* The response is written into the reels, which stop one after the other.
SlotsResult(i) ==
  /\ game = "SLOTS" /\ Result(i)
  /\ playing' = <<Played(i)>> /\ UNCHANGED <<phase, shown, held>>

-----------------------------------------------------------------------------
(* The playing ends *)

\* A canvas calls back once per result, when its animation has run.
Ends ==
  /\ playing # <<>>
  /\ playing' = Tail(playing)
  /\ UNCHANGED <<game, controls, sent, answers, decided, placed, errors, drops, crossed>>

Settle == busy' = FALSE

DiceLands ==
  game = "DICE" /\ Ends /\ Settle /\ shown' = Head(playing) /\ UNCHANGED <<phase, held>>

LimboLands ==
  game = "LIMBO" /\ Ends /\ Settle /\ shown' = Head(playing) /\ UNCHANGED <<phase, held>>

CoinLands ==
  game = "COINFLIP" /\ Ends /\ Settle /\ shown' = Head(playing) /\ UNCHANGED <<phase, held>>

BallSettles ==
  game = "ROULETTE" /\ Ends /\ Settle /\ shown' = Head(playing) /\ phase' = "RESULT" /\ held' = FALSE

DropCompletes ==
  game = "PLINKO" /\ Ends /\ Settle /\ shown' = Head(playing) /\ UNCHANGED <<phase, held>>

LastTileTurns ==
  game = "KENO" /\ Ends /\ Settle /\ shown' = Head(playing) /\ UNCHANGED <<phase, held>>

\* At the end of the flight the plane rolls out on the deck, or is down in the sea.
PlaneTouchesDown ==
  /\ game = "AVIA" /\ phase = "FLYING" /\ phase' = "LANDING"
  /\ UNCHANGED <<game, controls, busy, playing, shown, held, sent, answers, decided,
                 placed, errors, drops, crossed>>

PlaneIsDown ==
  /\ game = "AVIA" /\ phase \in {"FLYING", "LANDING"} /\ Ends /\ Settle
  /\ shown' = Head(playing) /\ phase' = "LANDED" /\ held' = FALSE

ReelsStop ==
  game = "SLOTS" /\ Ends /\ Settle /\ shown' = Head(playing) /\ phase' = "RESULT" /\ UNCHANGED held

-----------------------------------------------------------------------------
(* ERROR *)

\* useGameRound unlocks on any ERROR, then the page undoes what it set up.
ErrorComes(i) ==
  /\ answers[i].type = "ERROR"
  /\ answers' = Without(answers, i)
  /\ busy' = FALSE
  /\ crossed' = (crossed \/ answers[i].foreign)
  /\ CASE game = "ROULETTE" -> phase' = "IDLE" /\ playing' = <<>> /\ held' = FALSE
       [] game = "AVIA" ->
            /\ phase' = IF phase = "WAITING" THEN "IDLE" ELSE phase
            /\ held' = FALSE /\ UNCHANGED playing
       [] game = "SLOTS" -> phase' = "IDLE" /\ UNCHANGED <<playing, held>>
       [] OTHER -> UNCHANGED <<phase, playing, held>>
  /\ UNCHANGED <<game, controls, shown, sent, decided, placed, errors, drops>>

-----------------------------------------------------------------------------
(* The server and the connection *)

\* A bet is settled, or refused with nothing taken.
Decide(i) ==
  LET bet == [n |-> Len(decided) + 1, choice |-> sent[i]] IN
  /\ sent' = Without(sent, i)
  /\ \/ /\ decided' = Append(decided, bet)
        /\ answers' = Append(answers, [type |-> "GAME_RESULT", bet |-> bet])
     \/ /\ answers' = Append(answers, [type |-> "ERROR", foreign |-> FALSE])
        /\ UNCHANGED decided
  /\ UNCHANGED <<game, view, placed, errors, drops, crossed>>

\* Some other page's action is refused; a slot machine speaks HTTP and does not hear it.
OtherFails ==
  /\ errors < MaxErrors /\ game # "SLOTS"
  /\ errors' = errors + 1
  /\ answers' = Append(answers, [type |-> "ERROR", foreign |-> TRUE])
  /\ UNCHANGED <<game, view, sent, decided, placed, drops, crossed>>

\* The frames under way are lost, the answer of a settled bet among them.  The page of a
\* request that fails says so; the socket's pages are told nothing.
Drop ==
  /\ drops < MaxDrops /\ sent \o answers # <<>>
  /\ drops' = drops + 1
  /\ sent' = <<>>
  /\ answers' = IF game = "SLOTS" THEN <<[type |-> "ERROR", foreign |-> FALSE]>> ELSE <<>>
  /\ UNCHANGED <<game, view, decided, placed, errors, crossed>>

Places == DiceBet \/ LimboBet \/ CoinflipBet \/ RouletteSpin \/ PlinkoDrop \/ KenoBet
          \/ AviaLaunch \/ SlotsSpin

Chooses == DiceChoose \/ LimboChoose \/ CoinflipChoose \/ RouletteChoose \/ PlinkoChoose \/ KenoChoose
           \/ AviaChoose \/ SlotsChoose

Comes(i) == DiceResult(i) \/ LimboResult(i) \/ CoinflipResult(i) \/ RouletteResult(i) \/ PlinkoResult(i)
            \/ KenoResult(i) \/ AviaResult(i) \/ SlotsResult(i) \/ ErrorComes(i)

Lands == DiceLands \/ LimboLands \/ CoinLands \/ BallSettles \/ DropCompletes \/ LastTileTurns
         \/ PlaneTouchesDown \/ PlaneIsDown \/ ReelsStop

Next ==
  \/ Places \/ Chooses \/ Lands \/ OtherFails \/ Drop
  \/ \E i \in 1..Len(answers) : Comes(i)
  \/ \E i \in 1..Len(sent) : Decide(i)

Spec == Init /\ [][Next]_vars

-----------------------------------------------------------------------------
(* Properties *)

TypeOK ==
  /\ game \in Games /\ controls \in Picks
  /\ phase \in {"IDLE", "SPINNING", "RESULT", "WAITING", "FLYING", "LANDING", "LANDED"}
  /\ shown = Nothing \/ shown \in [n : 1..Len(decided), choice : Picks]
  /\ Len(decided) <= placed

\* What is announced is the last round decided, on the choice it was decided on (dice:
\* "the line and side the roll was settled against, not the current controls",
\* dice/page.tsx:19), as long as no other page's ERROR unlocked the controls meanwhile.
AnnouncesTheRound ==
  shown # Nothing /\ ~crossed =>
    /\ shown.choice = decided[shown.n].choice
    /\ game # "PLINKO" /\ drops = 0 => shown.n = Len(decided)

\* "The controls must stay locked across that gap or a second bet lands mid-round"
\* (useGameRound.ts:17-21), and what was decided is not given away by the balance.
LockedUntilShown ==
  ~crossed /\ drops = 0 =>
    /\ playing # <<>> => busy
    /\ game \in {"ROULETTE", "AVIA"} /\ (playing # <<>> \/ \E i \in 1..Len(answers) : answers[i].type = "GAME_RESULT")
         => held

\* A locked board has something under way that unlocks it: no page waits for an answer
\* that was given, or an animation that never runs.
NeverLockedUp ==
  busy /\ drops = 0 => sent # <<>> \/ answers # <<>> \/ playing # <<>>
=============================================================================
