----------------------------- MODULE MinesRound -----------------------------
(***************************************************************************)
(* Mines for one player: the handlers of websocket/socket.server.ts over   *)
(* the in-memory store of websocket/gameState.store.ts.                    *)
(*                                                                         *)
(* The game with the widest windows: BET has no in-flight flag, and a cash *)
(* out leaves the round open while it is priced and credited, and until    *)
(* the credit has returned.  So a stake may be stranded behind a second    *)
(* BET, a tile may be turned, or a round lost, that is paid or about to    *)
(* be, and two cash outs write two history rows.  The properties below say *)
(* what holds all the same.                                                *)
(*                                                                         *)
(* A bet is the number of its BET row; a multiplier is the number of tiles *)
(* it is the price of.                                                     *)
(***************************************************************************)
EXTENDS Naturals, FiniteSets

CONSTANTS
  Calls,        \* handler invocations that may be under way at once
  MaxBets,      \* bound: bets placed
  MaxRestarts,  \* bound: restarts of the process
  Tiles,        \* the tiles of the grid
  MinesCount,   \* how many of them are mines
  Layouts       \* the boards a seed may shuffle to; one stands for all, tiles being alike

MinesBoundsAssumption == MaxBets \in Nat /\ MaxRestarts \in Nat
GridAssumption ==
  /\ IsFiniteSet(Tiles) /\ MinesCount \in 1..(Cardinality(Tiles) - 1)
  /\ Layouts \subseteq {tiles \in SUBSET Tiles : Cardinality(tiles) = MinesCount}
MinesAssumption == MinesBoundsAssumption /\ GridAssumption

Bets == 1..MaxBets
NoBet == 0
Prices == 0..(Cardinality(Tiles) - MinesCount)

VARIABLES
  placed,    \* BET rows committed: the bets are 1..placed
  paid,      \* paid[b]: the tiles the WIN row of b paid for, 0 without one
  sessions,  \* sessions[b]: GameSession rows of b, won and lost ones
  busted,    \* bets whose round hit a mine
  mines,     \* gameState.mines of the player: a bet, or NoBet
  state,     \* state[b]: the MinesState object of bet b
  call,      \* call[c]: where handler call c stands
  restarts   \* counts restarts, for the bound

vars == <<placed, paid, sessions, busted, mines, state, call, restarts>>

Round == [layout: SUBSET Tiles, revealed: SUBSET Tiles, active: BOOLEAN]
Call == [pc: {"idle", "debit", "seed", "credit", "clear", "won", "lost"},
         bet: 0..MaxBets, multiplier: Prices]

Idle == [pc |-> "idle", bet |-> NoBet, multiplier |-> 0]

At(c, pc) == call[c].pc = pc

Goto(c, pc, b, m) == call' = [call EXCEPT ![c] = [pc |-> pc, bet |-> b, multiplier |-> m]]

Return(c) == call' = [call EXCEPT ![c] = Idle]

Init ==
  /\ placed = 0
  /\ paid = [b \in Bets |-> 0]
  /\ sessions = [b \in Bets |-> [won |-> 0, lost |-> 0]]
  /\ busted = {}
  /\ mines = NoBet
  /\ state = [b \in Bets |-> [layout |-> {}, revealed |-> {}, active |-> FALSE]]
  /\ call = [c \in Calls |-> Idle]
  /\ restarts = 0

\* The round a frame finds: gameState.getMines(userId)?.active
Live == mines # NoBet /\ state[mines].active

-----------------------------------------------------------------------------
(* BET *)

Start(c) ==
  /\ At(c, "idle") /\ ~Live
  /\ Goto(c, "debit", NoBet, 0)
  /\ UNCHANGED <<placed, paid, sessions, busted, mines, state, restarts>>

\* processBet commits.
Debit(c) ==
  /\ At(c, "debit") /\ placed < MaxBets
  /\ placed' = placed + 1
  /\ Goto(c, "seed", placed + 1, 0)
  /\ UNCHANGED <<paid, sessions, busted, mines, state, restarts>>

\* The seed is there: its layout replaces whatever round the store holds by now.
Open(c) ==
  LET b == call[c].bet IN
  /\ At(c, "seed")
  /\ \E layout \in Layouts :
       state' = [state EXCEPT ![b] = [layout |-> layout, revealed |-> {}, active |-> TRUE]]
  /\ mines' = b
  /\ Return(c)
  /\ UNCHANGED <<placed, paid, sessions, busted, restarts>>

\* processBet refuses the stake, or the seed lookup throws after it was taken.
StartFails(c) ==
  /\ At(c, "debit") \/ At(c, "seed")
  /\ Return(c)
  /\ UNCHANGED <<placed, paid, sessions, busted, mines, state, restarts>>

-----------------------------------------------------------------------------
(* REVEAL_TILE and CASHOUT *)

IsMine_Late(s, tile) == tile \in s.layout /\ tile \in s.revealed

IsMine(s, tile) == tile \in s.layout

Reveal(c) ==
  /\ At(c, "idle") /\ Live
  /\ \E tile \in Tiles \ state[mines].revealed :
       \/ /\ ~IsMine(state[mines], tile)
          /\ state' = [state EXCEPT ![mines].revealed = @ \cup {tile}]
          /\ UNCHANGED <<busted, mines, call>>
       \/ /\ IsMine(state[mines], tile)
          /\ state' = [state EXCEPT ![mines].active = FALSE]
          /\ busted' = busted \cup {mines}
          /\ mines' = NoBet
          /\ Goto(c, "lost", mines, 0)
  /\ UNCHANGED <<placed, paid, sessions, restarts>>

\* The tiles a cash out pays for: multiplierAfter(minesCount, revealed.length).
Price(s) == Cardinality(s.revealed)

\* Priced here; the round stays open.
Cashout(c) ==
  /\ At(c, "idle") /\ Live /\ state[mines].revealed # {}
  /\ Goto(c, "credit", mines, Price(state[mines]))
  /\ UNCHANGED <<placed, paid, sessions, busted, mines, state, restarts>>

\* processWin commits, or finds the WIN row of this bet and commits nothing new.
\* Its answer is still awaited: the round stays open meanwhile.
Credit(c) ==
  LET b == call[c].bet IN
  /\ At(c, "credit")
  /\ paid' = [paid EXCEPT ![b] = IF @ = 0 THEN call[c].multiplier ELSE @]
  /\ Goto(c, "clear", b, 0)
  /\ UNCHANGED <<placed, sessions, busted, mines, state, restarts>>

Clear_KeepsRound(c) ==
  /\ At(c, "clear")
  /\ Goto(c, "won", call[c].bet, 0)
  /\ UNCHANGED <<placed, paid, sessions, busted, mines, state, restarts>>

\* The answer is there: the round is closed, and clearMines drops whatever the
\* store holds by now.
Clear(c) ==
  LET b == call[c].bet IN
  /\ At(c, "clear")
  /\ state' = [state EXCEPT ![b].active = FALSE]
  /\ mines' = NoBet
  /\ Goto(c, "won", b, 0)
  /\ UNCHANGED <<placed, paid, sessions, busted, restarts>>

CreditFails_Recorded(c) ==
  /\ At(c, "credit")
  /\ Goto(c, "won", call[c].bet, 0)
  /\ UNCHANGED <<placed, paid, sessions, busted, mines, state, restarts>>

\* payoutOf or processWin throws: the round is as it was.
CreditFails(c) ==
  /\ At(c, "credit")
  /\ Return(c)
  /\ UNCHANGED <<placed, paid, sessions, busted, mines, state, restarts>>

\* gameSession.create, which may fail without undoing anything.
RecordSession(c) ==
  LET b == call[c].bet IN
  /\ At(c, "won") \/ At(c, "lost")
  /\ \/ At(c, "won")  /\ sessions' = [sessions EXCEPT ![b].won = @ + 1]
     \/ At(c, "lost") /\ sessions' = [sessions EXCEPT ![b].lost = @ + 1]
     \/ UNCHANGED sessions
  /\ Return(c)
  /\ UNCHANGED <<placed, paid, busted, mines, state, restarts>>

-----------------------------------------------------------------------------
\* The process dies: what was only in memory is gone.
Restart ==
  /\ restarts < MaxRestarts
  /\ restarts' = restarts + 1
  /\ mines' = NoBet
  /\ state' = [b \in Bets |-> [state[b] EXCEPT !.active = FALSE]]
  /\ call' = [c \in Calls |-> Idle]
  /\ UNCHANGED <<placed, paid, sessions, busted>>

Frame(c) == Start(c) \/ Reveal(c) \/ Cashout(c)

Continue(c) ==
  \/ Debit(c) \/ Open(c) \/ StartFails(c)
  \/ Credit(c) \/ CreditFails(c) \/ Clear(c) \/ RecordSession(c)

Next == (\E c \in Calls : Frame(c) \/ Continue(c)) \/ Restart

Spec == Init /\ [][Next]_vars

-----------------------------------------------------------------------------
(* Properties *)

TypeOK ==
  /\ placed \in 0..MaxBets
  /\ paid \in [Bets -> Prices]
  /\ sessions \in [Bets -> [won: Nat, lost: Nat]]
  /\ busted \subseteq Bets
  /\ mines \in 0..MaxBets
  /\ state \in [Bets -> Round]
  /\ call \in [Calls -> Call]
  /\ restarts \in 0..MaxRestarts

\* However cash outs, reveals and a bust interleave, a WIN pays for at least one
\* tile and for no more than were safely revealed, none of them a mine.
PaidForSafeTiles ==
  \A b \in Bets :
    /\ state[b].revealed \cap state[b].layout = {}
    /\ paid[b] # 0 => paid[b] <= Cardinality(state[b].revealed)

\* A decided round is over: no tile of it is turned any more, it is not lost a
\* second time or after it was won, and no new frame takes it up.  A bust closes it
\* at once.  A credit does not: until the cash out that made it has its answer, the
\* round that is paid may still be turned, lost or cashed out, and not a step longer,
\* whatever other cash outs, bets and clears come in between.
Closing(b) == \E c \in Calls : At(c, "clear") /\ call[c].bet = b
Decided(b) == b \in busted \/ (paid[b] # 0 /\ ~Closing(b))
Takes(c, b) == At(c, "idle") /\ call'[c].bet = b
DecidedIsOver ==
  [][\A b \in Bets : Decided(b) =>
       /\ state'[b].revealed = state[b].revealed
       /\ b \notin busted => b \notin busted'
       /\ \A c \in Calls : ~Takes(c, b)]_vars

\* The history never invents an outcome: a won row stands for a WIN that was
\* credited, a lost one for a bust, and a bust is recorded at most once.  How often a
\* win is recorded it does not say: two cash outs of one round write two rows.
HistoryIsTrue ==
  \A b \in Bets :
    /\ sessions[b].won > 0 => paid[b] # 0
    /\ sessions[b].lost <= IF b \in busted THEN 1 ELSE 0
=============================================================================
