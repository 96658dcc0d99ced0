----------------------------- MODULE CrashRound -----------------------------
(***************************************************************************)
(* Crash for one player: the handlers of websocket/socket.server.ts, the   *)
(* timer of websocket/crashRound.manager.ts and the bets of                *)
(* websocket/gameState.store.ts.                                           *)
(*                                                                         *)
(* Three things run here: frames of the player's sockets, the interval     *)
(* timer of the round, and what a bust leaves behind.  Each action is the  *)
(* code between two awaits.  The curve is a clock that only Elapse moves;  *)
(* the manager stores the value its last tick saw.                         *)
(*                                                                         *)
(* A bet is the number of its BET row.  Multipliers are points 1..Top of   *)
(* the curve, 1 where it starts.  RESUME only reads and is left out.       *)
(***************************************************************************)
EXTENDS Naturals, FiniteSets

CONSTANTS
  Calls,        \* handler invocations that may be under way at once
  MaxBets,      \* bound: bets placed
  MaxRestarts,  \* bound: deaths of the process
  Top           \* the highest crash point of the model

ASSUME CrashBoundsAssumption == MaxBets \in Nat /\ MaxRestarts \in Nat
ASSUME TopAssumption == Top \in Nat \ {0}

Bets == 1..MaxBets
Points == 1..Top
NoBet == 0
NoRound == [bet |-> NoBet, elapsed |-> 1, current |-> 1]

VARIABLES
  placed,        \* BET rows committed: the bets are 1..placed
  crashPoint,    \* crashPoint[b]: where the seed of b ends the curve
  cashedOutAt,   \* CrashBet.cashedOutAt, 0 when the bet was not taken
  settled,       \* CrashBet.settled
  won,           \* won[b]: the point the WIN row of b paid for, 0 without one
  lost,          \* bets the bust handler settled
  sessions,      \* sessions[b]: GameSession rows written for b
  crashBet,      \* gameState.crashBets of the player: a bet, or NoBet
  round,         \* the manager's round of the player, or NoRound
  betsInFlight,  \* the player is in crashBetsInFlight
  handling,      \* handling[c]: where handler call c stands
  busting,       \* bets whose bust handler waits for the database
  restarts       \* counts deaths of the process, for the bound

bets == <<placed, crashPoint>>
memory == <<cashedOutAt, settled, crashBet, round, betsInFlight>>
history == <<won, lost, sessions>>
crashVars == <<bets, memory, history, handling, busting, restarts>>

Round == [bet: Bets, elapsed: Points, current: Points] \cup {NoRound}
Call == [pc: {"idle", "debit", "seed", "credit", "record"}, bet: 0..MaxBets]

NoFrame == [pc |-> "idle", bet |-> NoBet]

At(c, pc) == handling[c].pc = pc

Goto(c, pc, b) == handling' = [handling EXCEPT ![c] = [pc |-> pc, bet |-> b]]

Return(c) == handling' = [handling EXCEPT ![c] = NoFrame]

CrashInit ==
  /\ placed = 0
  /\ crashPoint = [b \in Bets |-> 1]
  /\ cashedOutAt = [b \in Bets |-> 0]
  /\ settled = [b \in Bets |-> FALSE]
  /\ won = [b \in Bets |-> 0]
  /\ lost = {}
  /\ sessions = [b \in Bets |-> 0]
  /\ crashBet = NoBet
  /\ round = NoRound
  /\ betsInFlight = FALSE
  /\ handling = [c \in Calls |-> NoFrame]
  /\ busting = {}
  /\ restarts = 0

Running == round # NoRound
OnTheTable == crashBet # NoBet /\ ~settled[crashBet]

-----------------------------------------------------------------------------
(* BET *)

MayBet == ~betsInFlight /\ ~Running /\ ~OnTheTable

Bet(c) ==
  /\ At(c, "idle") /\ MayBet
  /\ betsInFlight' = TRUE
  /\ Goto(c, "debit", NoBet)
  /\ UNCHANGED <<bets, history, cashedOutAt, settled, crashBet, round, busting, restarts>>

Debited_Twice(n) == n + 2

\* The BET rows after processBet committed one more.
Debited(n) == n + 1

Debit(c) ==
  /\ At(c, "debit") /\ placed < MaxBets
  /\ placed' = Debited(placed)
  /\ Goto(c, "seed", placed')
  /\ UNCHANGED <<crashPoint, memory, history, busting, restarts>>

\* The seed is there: the bet is on the table, the clock starts, the finally runs.
Launch(c) ==
  LET b == handling[c].bet IN
  /\ At(c, "seed")
  /\ \E p \in Points : crashPoint' = [crashPoint EXCEPT ![b] = p]
  /\ crashBet' = b
  /\ round' = [bet |-> b, elapsed |-> 1, current |-> 1]
  /\ betsInFlight' = FALSE
  /\ Return(c)
  /\ UNCHANGED <<placed, cashedOutAt, settled, history, busting, restarts>>

\* processBet refuses the stake, or the seed lookup throws after it was taken.
BetFails(c) ==
  /\ At(c, "debit") \/ At(c, "seed")
  /\ betsInFlight' = FALSE
  /\ Return(c)
  /\ UNCHANGED <<bets, history, cashedOutAt, settled, crashBet, round, busting, restarts>>

-----------------------------------------------------------------------------
(* The clock and the interval timer *)

Elapse ==
  /\ Running /\ round.elapsed < Top
  /\ round' = [round EXCEPT !.elapsed = @ + 1]
  /\ UNCHANGED <<bets, cashedOutAt, settled, crashBet, betsInFlight, history, handling, busting, restarts>>

End_TimerOnly == round

\* CrashRoundManager.end: the timer is cleared and the round is gone.
End == NoRound

Crashed_Past(m, b) == m > crashPoint[b]

Crashed(m, b) == m >= crashPoint[b]

Tick ==
  /\ Running /\ ~Crashed(round.elapsed, round.bet)
  /\ round' = [round EXCEPT !.current = round.elapsed]
  /\ UNCHANGED <<bets, cashedOutAt, settled, crashBet, betsInFlight, history, handling, busting, restarts>>

\* The tick that reaches the crash point ends the round and runs the bust
\* handler up to its first await: it settles the bet it finds, if there is one.
Bust ==
  /\ Running /\ Crashed(round.elapsed, round.bet)
  /\ round' = End
  /\ IF OnTheTable
     THEN /\ settled' = [settled EXCEPT ![crashBet] = TRUE]
          /\ lost' = lost \cup {crashBet}
          /\ busting' = busting \cup {crashBet}
          /\ crashBet' = NoBet
     ELSE UNCHANGED <<settled, lost, busting, crashBet>>
  /\ UNCHANGED <<bets, cashedOutAt, won, sessions, betsInFlight, handling, restarts>>

RecordBust(b) ==
  /\ b \in busting
  /\ busting' = busting \ {b}
  /\ sessions' = [sessions EXCEPT ![b] = @ + 1]
  /\ UNCHANGED <<bets, memory, won, lost, handling, restarts>>

-----------------------------------------------------------------------------
(* CASHOUT *)

Cashout_Unsettled(c) ==
  /\ At(c, "idle") /\ OnTheTable /\ Running
  /\ ~Crashed(round.elapsed, round.bet)
  /\ cashedOutAt' = [cashedOutAt EXCEPT ![crashBet] = round.elapsed]
  /\ Goto(c, "credit", crashBet)
  /\ UNCHANGED <<bets, settled, crashBet, round, betsInFlight, history, busting, restarts>>

\* Priced at this instant, the curve stopped and the bet settled in one breath.
Cashout(c) ==
  /\ At(c, "idle") /\ OnTheTable /\ Running
  /\ ~Crashed(round.elapsed, round.bet)
  /\ round' = End
  /\ cashedOutAt' = [cashedOutAt EXCEPT ![crashBet] = round.elapsed]
  /\ settled' = [settled EXCEPT ![crashBet] = TRUE]
  /\ Goto(c, "credit", crashBet)
  /\ UNCHANGED <<bets, crashBet, betsInFlight, history, busting, restarts>>

\* processWin commits; then clearCrashBet drops whatever bet the store holds.
CreditCashout(c) ==
  LET b == handling[c].bet IN
  /\ At(c, "credit")
  /\ won' = [won EXCEPT ![b] = IF @ = 0 THEN cashedOutAt[b] ELSE @]
  /\ crashBet' = NoBet
  /\ Goto(c, "record", b)
  /\ UNCHANGED <<bets, cashedOutAt, settled, round, betsInFlight, lost, sessions, busting, restarts>>

\* payoutOf or processWin throws: the round is over and the bet stays settled.
CreditFails(c) ==
  /\ At(c, "credit")
  /\ Return(c)
  /\ UNCHANGED <<bets, memory, history, busting, restarts>>

\* recordCrashSession, which may fail without undoing anything.
RecordCashout(c) ==
  /\ At(c, "record")
  /\ \/ sessions' = [sessions EXCEPT ![handling[c].bet] = @ + 1]
     \/ UNCHANGED sessions
  /\ Return(c)
  /\ UNCHANGED <<bets, memory, won, lost, busting, restarts>>

-----------------------------------------------------------------------------
\* The process dies (stopAll on shutdown, a deployment, or the unhandled
\* rejection of a bust whose database calls fail): what was only in memory goes.
Restart ==
  /\ restarts < MaxRestarts
  /\ restarts' = restarts + 1
  /\ crashBet' = NoBet
  /\ round' = NoRound
  /\ betsInFlight' = FALSE
  /\ handling' = [c \in Calls |-> NoFrame]
  /\ busting' = {}
  /\ UNCHANGED <<bets, cashedOutAt, settled, history>>

Frame(c) == Bet(c) \/ Cashout(c)

Continue(c) ==
  \/ Debit(c) \/ Launch(c) \/ BetFails(c)
  \/ CreditCashout(c) \/ CreditFails(c) \/ RecordCashout(c)

CrashNext ==
  \/ \E c \in Calls : Frame(c) \/ Continue(c)
  \/ Elapse \/ Tick \/ Bust
  \/ \E b \in Bets : RecordBust(b)
  \/ Restart

\* Time passes and the interval of a live round keeps firing; whether a player
\* ever cashes out is the player's business.
CrashFairness == WF_crashVars(Elapse) /\ WF_crashVars(Bust)

CrashSpec == CrashInit /\ [][CrashNext]_crashVars
FairCrashSpec == CrashSpec /\ CrashFairness

-----------------------------------------------------------------------------
(* Properties *)

CrashTypeOK ==
  /\ placed \in 0..MaxBets
  /\ crashPoint \in [Bets -> Points]
  /\ cashedOutAt \in [Bets -> 0..Top]
  /\ settled \in [Bets -> BOOLEAN]
  /\ won \in [Bets -> 0..Top]
  /\ lost \subseteq Bets
  /\ sessions \in [Bets -> Nat]
  /\ crashBet \in 0..MaxBets
  /\ round \in Round
  /\ betsInFlight \in BOOLEAN
  /\ handling \in [Calls -> Call]
  /\ busting \subseteq Bets
  /\ restarts \in 0..MaxRestarts

\* "Two BET frames sent back to back would each pass the check during that gap
\* and debit the player twice for one round" (socket.server.ts:937-942): from
\* the check until the round runs, one bet is being placed and no curve is up.
Placing(c) == At(c, "debit") \/ At(c, "seed")
OneBetInFlight ==
  \A c \in Calls : Placing(c) => ~Running /\ \A d \in Calls : Placing(d) => c = d

\* A WIN is the price of the instant the player took it, and that instant was
\* before the crash point: no tick or second frame moves it past.
PaidBelowCrashPoint ==
  \A b \in Bets : won[b] # 0 => won[b] = cashedOutAt[b] /\ won[b] < crashPoint[b]

\* A decided bet leaves at most one row in the history, an undecided one none.
OneSession ==
  \A b \in Bets : sessions[b] <= IF won[b] # 0 \/ b \in lost THEN 1 ELSE 0

\* "The round is over at the instant the player takes it, so nothing ticks past
\* the multiplier they were paid" (socket.server.ts:1081-1084): a live curve is
\* never that of a bet already taken, and never shows more than the clock.
NothingTicksPast ==
  Running => /\ cashedOutAt[round.bet] = 0 /\ round.bet \notin lost
             /\ round.current <= round.elapsed
             /\ round.current = 1 \/ round.current < crashPoint[round.bet]

\* The question of crash.race.test.ts: "can a single round both pay a cash-out
\* and settle as a loss".  Each bet is taken once and decided at most once.
Outcome(b) ==
  IF b > placed THEN "unplaced"
  ELSE IF won[b] # 0 THEN "won"
  ELSE IF b \in lost THEN "lost" ELSE "open"

AbstractWager == INSTANCE Wager WITH outcome <- [b \in Bets |-> Outcome(b)]
ImplementsWager == AbstractWager!WagerSpec

\* A curve that runs ends: by a cash out, at its crash point, or with the process.
RoundEnds == \A b \in Bets : round.bet = b ~> round.bet # b
=============================================================================
