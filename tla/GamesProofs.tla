----------------------------- MODULE GamesProofs -----------------------------
(***************************************************************************)
(* Theorems about what decides a bet: the rounds of Mines, the seeds, and  *)
(* the limits a bet decided at once is judged by.                          *)
(*                                                                         *)
(* Mines, for any number of calls, bets, restarts and any grid: what is    *)
(* paid was safely revealed, the history invents nothing, and a round that *)
(* is lost, or paid and closed, takes no frame.  Unlike Chicken Road a     *)
(* round here may have several owners at once: two cash outs, a bust and   *)
(* the start of another round; and a round that is paid stays open until   *)
(* the answer of its credit.  What carries the proof is that only tiles    *)
(* are ever added to a round, that a bet is opened by the one call that    *)
(* placed it, that a bust is hit while the round is active, hence once,    *)
(* and that the call which paid a round stands at closing it till then.    *)
(*                                                                         *)
(* The seeds, for any number of calls, bets and pairs: no two bets share a *)
(* draw, and a revealed pair is never in use again.  The first rests on    *)
(* the increment alone: every draw of a pair is below the nonce stored for *)
(* it, and the nonce only grows.  The second needs no lock either: the     *)
(* pair a rotation found is one its updateMany retires, or one that was    *)
(* retired before, and a pair once retired stays so.                       *)
(*                                                                         *)
(* Bets decided at once, for any number of them and of changes of the      *)
(* limits: the cache may hold a flag, or limits, that were replaced while  *)
(* it was loaded, and may be filled with them after it was emptied.  The   *)
(* invariant bounds how long ago: the version after the one held was       *)
(* committed at most one load before the cache was filled.                 *)
(***************************************************************************)
EXTENDS MinesRound, Seeds, InstantBets, FiniteSetTheorems, TLAPS

(* The inductive invariant of Mines *)

\* A bet whose round was never opened.
Blank(b) == state[b].revealed = {} /\ ~state[b].active /\ paid[b] = 0 /\ b \notin busted

\* Calls are about bets that were placed.
CallsOK ==
  \A c \in Calls : call[c].bet \in IF call[c].pc \in {"idle", "debit"} THEN {NoBet} ELSE 1..placed

\* What is not placed has left no trace; a round is opened once, by one call.
FreshOK == mines <= placed /\ \A b \in Bets : b > placed => Blank(b)
SeedOK ==
  \A c \in Calls : At(c, "seed") =>
    /\ Blank(call[c].bet)
    /\ \A d \in Calls : At(d, "seed") /\ call[d].bet = call[c].bet => c = d

\* A round that was opened lies on a board, and no mine of it was revealed safely.
GridOK ==
  \A b \in Bets :
    /\ state[b].revealed \cap state[b].layout = {}
    /\ state[b].active \/ state[b].revealed # {} => state[b].layout \in Layouts

\* A cash out under way was priced for tiles its round has revealed.
CreditOK ==
  \A c \in Calls : At(c, "credit") =>
    /\ state[call[c].bet].revealed # {}
    /\ call[c].multiplier # 0
    /\ call[c].multiplier <= Cardinality(state[call[c].bet].revealed)

\* A decided round is closed; one that is paid may be open while its call closes it.
OverOK == \A b \in Bets : Decided(b) => ~state[b].active

\* A history row is owed for what happened; that of a bust by one call.
OwedOK ==
  \A c \in Calls :
    /\ At(c, "clear") \/ At(c, "won") => paid[call[c].bet] # 0
    /\ At(c, "lost") =>
         /\ call[c].bet \in busted /\ sessions[call[c].bet].lost = 0
         /\ \A d \in Calls : At(d, "lost") /\ call[d].bet = call[c].bet => c = d

Kept == CallsOK /\ FreshOK /\ SeedOK /\ GridOK /\ CreditOK /\ OverOK /\ OwedOK
        /\ PaidForSafeTiles /\ HistoryIsTrue
Inv == TypeOK /\ Kept

-----------------------------------------------------------------------------
(* Tiles *)

\* What a round reveals beside its mines is a price of the table, whatever is revealed next.
LEMMA Fits ==
  ASSUME MinesAssumption, NEW safe \in SUBSET Tiles
  PROVE  /\ IsFiniteSet(safe) /\ Cardinality(safe) \in Nat
         /\ safe # {} => Cardinality(safe) # 0
         /\ \A layout \in Layouts : safe \cap layout = {} => Cardinality(safe) \in Prices
         /\ \A tile \in Tiles : tile \notin safe =>
              Cardinality(safe \cup {tile}) = Cardinality(safe) + 1
<1>1. IsFiniteSet(Tiles) /\ Cardinality(Tiles) \in Nat /\ MinesCount \in Nat
  BY FS_CardinalityType DEF MinesAssumption, GridAssumption
<1>2. IsFiniteSet(safe) /\ Cardinality(safe) \in Nat
  BY <1>1, FS_Subset, FS_CardinalityType
<1>3. safe # {} => Cardinality(safe) # 0
  BY <1>2, FS_EmptySet
<1>4. ASSUME NEW layout \in Layouts, safe \cap layout = {} PROVE Cardinality(safe) \in Prices
  <2>1. layout \subseteq Tiles /\ IsFiniteSet(layout) /\ Cardinality(layout) = MinesCount
    BY <1>1, FS_Subset DEF MinesAssumption, GridAssumption
  <2>2. Cardinality(safe \cup layout) = Cardinality(safe) + MinesCount
    <3>1. Cardinality(safe \cup layout) = Cardinality(safe) + Cardinality(layout) - Cardinality(safe \cap layout)
      BY <1>2, <2>1, FS_Union
    <3>2. Cardinality(safe \cap layout) = 0
      BY <1>4, FS_EmptySet
    <3> QED BY <1>1, <1>2, <2>1, <3>1, <3>2
  <2>3. Cardinality(safe \cup layout) <= Cardinality(Tiles)
    BY <1>1, <2>1, FS_Subset
  <2> QED BY <1>1, <1>2, <2>2, <2>3 DEF Prices
<1>5. ASSUME NEW tile \in Tiles, tile \notin safe
      PROVE  Cardinality(safe \cup {tile}) = Cardinality(safe) + 1
  BY <1>2, <1>5, FS_AddElement
<1> QED BY <1>2, <1>3, <1>4, <1>5

-----------------------------------------------------------------------------
(* It holds at the start *)

LEMMA InvInit == ASSUME MinesAssumption, Init PROVE Inv
<1>1. MaxBets \in Nat /\ MaxRestarts \in Nat /\ 0 \in Prices
  <2>1. Cardinality(Tiles) \in Nat /\ MinesCount \in 1..(Cardinality(Tiles) - 1)
    BY FS_CardinalityType DEF MinesAssumption, GridAssumption
  <2> QED BY <2>1 DEF MinesAssumption, MinesBoundsAssumption, Prices
<1>2. TypeOK
  <2>1. Idle \in Call /\ [layout |-> {}, revealed |-> {}, active |-> FALSE] \in Round
        /\ [won |-> 0, lost |-> 0] \in [won: Nat, lost: Nat]
    BY <1>1 DEF Round, Call, Idle, NoBet
  <2> QED BY <1>1, <2>1 DEF Init, TypeOK, NoBet
<1>3. CallsOK /\ FreshOK /\ SeedOK /\ GridOK /\ CreditOK /\ OverOK /\ OwedOK
  BY <1>1 DEF Init, CallsOK, FreshOK, SeedOK, GridOK, CreditOK, OverOK, OwedOK, Blank, Decided, At, Idle,
              NoBet, Bets
<1>4. PaidForSafeTiles /\ HistoryIsTrue
  BY DEF Init, PaidForSafeTiles, HistoryIsTrue
<1> QED BY <1>2, <1>3, <1>4 DEF Inv, Kept

-----------------------------------------------------------------------------
(* Every step keeps it *)

\* What the types say of the bounds, of one call and of one round.
Ranges ==
  /\ MaxBets \in Nat /\ Prices \subseteq Nat /\ 0 \in Prices /\ Idle \in Call
  /\ placed \in Nat /\ placed <= MaxBets /\ mines \in Nat /\ mines <= MaxBets
  /\ \A c \in Calls : call[c].bet \in Nat /\ call[c].bet <= MaxBets /\ call[c].multiplier \in Prices
  /\ \A b \in Bets : /\ state[b] \in Round /\ state[b].revealed \in SUBSET Tiles
                      /\ state[b].active \in BOOLEAN /\ paid[b] \in Nat /\ sessions[b].lost \in Nat
                      /\ sessions[b].won \in Nat
  /\ Live => mines \in Bets /\ state[mines].active

LEMMA RangesOK == ASSUME MinesAssumption, TypeOK PROVE Ranges
<1>1. MaxBets \in Nat /\ Prices \subseteq Nat /\ 0 \in Prices
  <2>1. Cardinality(Tiles) \in Nat /\ MinesCount \in 1..(Cardinality(Tiles) - 1)
    BY FS_CardinalityType DEF MinesAssumption, GridAssumption
  <2> QED BY <2>1 DEF MinesAssumption, MinesBoundsAssumption, Prices
<1>2. Idle \in Call
  BY <1>1 DEF Idle, Call, NoBet
<1>3. /\ placed \in Nat /\ placed <= MaxBets /\ mines \in Nat /\ mines <= MaxBets
      /\ Live => mines \in Bets /\ state[mines].active
  BY <1>1 DEF TypeOK, Live, NoBet, Bets
<1>4. \A c \in Calls : call[c].bet \in Nat /\ call[c].bet <= MaxBets /\ call[c].multiplier \in Prices
  BY <1>1 DEF TypeOK, Call
<1>5. \A b \in Bets : /\ state[b] \in Round /\ state[b].revealed \in SUBSET Tiles
                      /\ state[b].active \in BOOLEAN
  BY DEF TypeOK, Round
<1>6. \A b \in Bets : paid[b] \in Nat /\ sessions[b].lost \in Nat /\ sessions[b].won \in Nat
  BY <1>1 DEF TypeOK
<1> QED BY <1>1, <1>2, <1>3, <1>4, <1>5, <1>6 DEF Ranges

\* What a call that goes on is at; the others stay where they are.
LEMMA Moves ==
  ASSUME TypeOK, NEW c \in Calls, NEW pc, NEW b, NEW m,
         Goto(c, pc, b, m) \/ (Return(c) /\ pc = "idle" /\ b = NoBet /\ m = 0)
  PROVE  /\ call'[c].pc = pc /\ call'[c].bet = b /\ call'[c].multiplier = m
         /\ \A d \in Calls : d # c => call'[d] = call[d]
  BY DEF TypeOK, Goto, Return, Idle

\* A round is being closed until the call that is at it goes on.
LEMMA StillClosing ==
  ASSUME NEW c \in Calls, ~At(c, "clear"), \A d \in Calls : d # c => call'[d] = call[d]
  PROVE  \A b \in Bets : Closing(b) => Closing(b)'
  BY DEF Closing, At

\* The types of a call after it went on, or returned.
LEMMA Went ==
  ASSUME TypeOK, NEW c \in Calls, NEW pc \in {"idle", "debit", "seed", "credit", "clear", "won", "lost"},
         NEW b \in 0..MaxBets, NEW m \in Prices
  PROVE  [call EXCEPT ![c] = [pc |-> pc, bet |-> b, multiplier |-> m]] \in [Calls -> Call]
  BY DEF TypeOK, Call

LEMMA Returned ==
  ASSUME MinesAssumption, TypeOK, NEW c \in Calls, Return(c)
  PROVE  call' \in [Calls -> Call]
  BY RangesOK DEF TypeOK, Return, Ranges

\* Every step keeps the types.
LEMMA TypeStep == ASSUME MinesAssumption, Inv, [Next]_vars PROVE TypeOK'
<1> USE DEF Inv
<1>a. \A c \in Calls : call[c].pc \in {"seed", "credit", "clear", "won", "lost"} => call[c].bet \in Bets
  BY RangesOK DEF Ranges, Kept, CallsOK, Bets
<1>b. /\ 0 \in Prices /\ 0 \in 0..MaxBets /\ Bets \subseteq 0..MaxBets
      /\ \A c \in Calls : call[c].bet \in 0..MaxBets /\ call[c].multiplier \in Prices
      /\ Live => mines \in Bets /\ state[mines].active
  BY RangesOK DEF Ranges, Bets
<1>c. \A c \in Calls, pc \in {"idle", "debit", "seed", "credit", "clear", "won", "lost"},
         b \in 0..MaxBets, m \in Prices :
        [call EXCEPT ![c] = [pc |-> pc, bet |-> b, multiplier |-> m]] \in [Calls -> Call]
  BY Went
<1>1. ASSUME NEW c \in Calls, Start(c) PROVE TypeOK'
  BY <1>1, <1>b, <1>c DEF Goto, Start, TypeOK, NoBet
<1>2. ASSUME NEW c \in Calls, Debit(c) PROVE TypeOK'
  <2>1. placed + 1 \in 0..MaxBets
    BY <1>2, RangesOK DEF Debit, Ranges
  <2> QED BY <1>2, <2>1, <1>b, <1>c DEF Goto, Debit, TypeOK
<1>3. ASSUME NEW c \in Calls, Open(c) PROVE TypeOK'
  <2>1. call[c].bet \in Bets
    BY <1>3, <1>a DEF Open, At
  <2>2. \A layout \in Layouts : [layout |-> layout, revealed |-> {}, active |-> TRUE] \in Round
    BY DEF MinesAssumption, GridAssumption, Round
  <2>3. state' \in [Bets -> Round]
    BY <1>3, <2>1, <2>2 DEF Open, TypeOK
  <2> QED BY <1>3, <1>b, <2>1, <2>3, Returned DEF Open, TypeOK
<1>4. ASSUME NEW c \in Calls, StartFails(c) PROVE TypeOK'
  BY <1>4, Returned DEF StartFails, TypeOK
<1>5. ASSUME NEW c \in Calls, Reveal(c) PROVE TypeOK'
  <2>1. mines \in Bets /\ UNCHANGED <<placed, paid, sessions, restarts>>
    BY <1>5, <1>b DEF Reveal
  <2>2. PICK tile \in Tiles :
          \/ /\ state' = [state EXCEPT ![mines].revealed = @ \cup {tile}]
             /\ UNCHANGED <<busted, mines, call>>
          \/ /\ state' = [state EXCEPT ![mines].active = FALSE]
             /\ busted' = busted \cup {mines} /\ mines' = NoBet
             /\ Goto(c, "lost", mines, 0)
    BY <1>5 DEF Reveal
  <2>3. CASE state' = [state EXCEPT ![mines].revealed = @ \cup {tile}] /\ UNCHANGED <<busted, mines, call>>
    <3>1. state' \in [Bets -> Round]
      BY <2>1, <2>3 DEF TypeOK, Round
    <3> QED BY <2>1, <2>3, <3>1 DEF TypeOK
  <2>4. CASE /\ state' = [state EXCEPT ![mines].active = FALSE]
             /\ busted' = busted \cup {mines} /\ mines' = NoBet /\ Goto(c, "lost", mines, 0)
    <3>1. state' \in [Bets -> Round]
      BY <2>1, <2>4 DEF TypeOK, Round
    <3>2. call' \in [Calls -> Call]
      BY <2>1, <2>4, <1>b, <1>c DEF Goto
    <3> QED BY <2>1, <2>4, <3>1, <3>2, <1>b DEF TypeOK, NoBet
  <2> QED BY <2>2, <2>3, <2>4
<1>6. ASSUME NEW c \in Calls, Cashout(c) PROVE TypeOK'
  <2>1. mines \in Bets /\ state[mines].active /\ state[mines].revealed \in SUBSET Tiles
    BY <1>6, RangesOK DEF Cashout, Ranges
  <2>2. Price(state[mines]) \in Prices
    BY <2>1, Fits DEF Price, Kept, GridOK
  <2>3. call' \in [Calls -> Call]
    BY <1>6, <2>1, <2>2, <1>b, <1>c DEF Goto, Cashout
  <2> QED BY <1>6, <2>3 DEF Cashout, TypeOK
<1>7. ASSUME NEW c \in Calls, Credit(c) PROVE TypeOK'
  <2>1. call[c].bet \in Bets /\ call[c].bet \in 0..MaxBets
    BY <1>7, <1>a, <1>b DEF Credit, At
  <2>2. paid' \in [Bets -> Prices]
    BY <1>7, <1>b, <2>1 DEF Credit, TypeOK
  <2>3. call' \in [Calls -> Call]
    BY <1>7, <1>b, <1>c, <2>1 DEF Goto, Credit
  <2> QED BY <1>7, <2>2, <2>3 DEF Credit, TypeOK
<1>12. ASSUME NEW c \in Calls, Clear(c) PROVE TypeOK'
  <2>1. call[c].bet \in Bets /\ call[c].bet \in 0..MaxBets
    BY <1>12, <1>a, <1>b DEF Clear, At
  <2>2. state' \in [Bets -> Round]
    BY <1>12, <2>1 DEF Clear, TypeOK, Round
  <2>3. call' \in [Calls -> Call]
    BY <1>12, <1>b, <1>c, <2>1 DEF Goto, Clear
  <2> QED BY <1>12, <1>b, <2>2, <2>3 DEF Clear, TypeOK, NoBet
<1>8. ASSUME NEW c \in Calls, CreditFails(c) PROVE TypeOK'
  BY <1>8, Returned DEF CreditFails, TypeOK
<1>9. ASSUME NEW c \in Calls, RecordSession(c) PROVE TypeOK'
  <2>1. sessions' \in [Bets -> [won: Nat, lost: Nat]]
    BY <1>9 DEF RecordSession, TypeOK
  <2> QED BY <1>9, <2>1, Returned DEF RecordSession, TypeOK
<1>10. CASE Restart
  <2>1. state' \in [Bets -> Round]
    BY <1>10 DEF Restart, TypeOK, Round
  <2>2. restarts' \in 0..MaxRestarts /\ mines' \in 0..MaxBets /\ call' \in [Calls -> Call]
    BY <1>10, RangesOK DEF Restart, TypeOK, NoBet, Ranges, MinesAssumption, MinesBoundsAssumption
  <2> QED BY <1>10, <2>1, <2>2 DEF Restart, TypeOK
<1>11. CASE UNCHANGED vars
  BY <1>11 DEF vars, TypeOK
<1> QED BY <1>1, <1>2, <1>3, <1>4, <1>5, <1>6, <1>7, <1>8, <1>9, <1>10, <1>11, <1>12
        DEF Next, Frame, Continue

-----------------------------------------------------------------------------
(* BET *)

LEMMA StartKeeps == ASSUME MinesAssumption, Inv, NEW c \in Calls, Start(c) PROVE Kept'
<1> USE DEF Inv, Kept
<1>1. /\ call'[c].pc = "debit" /\ call'[c].bet = NoBet
      /\ \A d \in Calls : d # c => call'[d] = call[d]
      /\ UNCHANGED <<placed, paid, sessions, busted, mines, state>>
  BY Moves DEF Start
<1>2. CallsOK' /\ SeedOK' /\ CreditOK' /\ OwedOK'
  BY <1>1 DEF CallsOK, SeedOK, CreditOK, OwedOK, Blank, At
<1>3. FreshOK' /\ GridOK' /\ OverOK' /\ PaidForSafeTiles' /\ HistoryIsTrue'
  <2>1. \A b \in Bets : Closing(b) => Closing(b)'
    BY <1>1, StillClosing DEF Start, At
  <2> QED BY <1>1, <2>1 DEF FreshOK, GridOK, OverOK, PaidForSafeTiles, HistoryIsTrue, Blank, Decided
<1> QED BY <1>2, <1>3

LEMMA DebitKeeps == ASSUME MinesAssumption, Inv, NEW c \in Calls, Debit(c) PROVE Kept'
<1> USE DEF Inv, Kept
<1>1. /\ call'[c].pc = "seed" /\ call'[c].bet = placed + 1 /\ placed' = placed + 1
      /\ placed \in Nat /\ mines \in Nat /\ placed + 1 \in Bets
      /\ \A d \in Calls : d # c => call'[d] = call[d]
      /\ UNCHANGED <<paid, sessions, busted, mines, state>>
  BY Moves, RangesOK DEF Debit, Ranges, Bets
<1>2. CallsOK' /\ FreshOK'
  BY <1>1 DEF CallsOK, FreshOK, Blank, Bets
<1>3. SeedOK'
  <2>1. Blank(placed + 1)
    BY <1>1 DEF FreshOK
  <2>2. \A d \in Calls : d # c /\ At(d, "seed") => call[d].bet <= placed
    BY <1>1 DEF CallsOK, At
  <2> QED BY <1>1, <2>1, <2>2 DEF SeedOK, Blank, At
<1>4. CreditOK' /\ OwedOK'
  BY <1>1 DEF CreditOK, OwedOK, At
<1>5. GridOK' /\ OverOK' /\ PaidForSafeTiles' /\ HistoryIsTrue'
  <2>1. \A b \in Bets : Closing(b) => Closing(b)'
    BY <1>1, StillClosing DEF Debit, At
  <2> QED BY <1>1, <2>1 DEF GridOK, OverOK, PaidForSafeTiles, HistoryIsTrue, Decided
<1> QED BY <1>2, <1>3, <1>4, <1>5

LEMMA OpenKeeps == ASSUME MinesAssumption, Inv, NEW c \in Calls, Open(c) PROVE Kept'
<1> USE DEF Inv, Kept
<1> DEFINE b == call[c].bet
<1>1. /\ call[c].pc = "seed" /\ b \in Bets /\ b <= placed /\ Blank(b) /\ placed \in Nat
      /\ \A d \in Calls : At(d, "seed") /\ call[d].bet = b => c = d
  BY RangesOK DEF Open, At, CallsOK, SeedOK, Ranges, Bets
<1>2. PICK layout \in Layouts :
        state' = [state EXCEPT ![b] = [layout |-> layout, revealed |-> {}, active |-> TRUE]]
  BY DEF Open
<1>3. /\ state'[b].revealed = {} /\ state'[b].layout = layout /\ state'[b].active = TRUE
      /\ \A e \in Bets : e # b => state'[e] = state[e]
      /\ mines' = b /\ UNCHANGED <<placed, paid, sessions, busted>>
  BY <1>1, <1>2 DEF Open, TypeOK
<1>4. /\ call'[c].pc = "idle" /\ call'[c].bet = NoBet
      /\ \A d \in Calls : d # c => call'[d] = call[d]
  BY Moves DEF Open
<1>5. CallsOK' /\ OwedOK'
  BY <1>1, <1>3, <1>4 DEF CallsOK, OwedOK, At
<1>6. FreshOK'
  <2>1. \A e \in Bets : e > placed => e # b
    BY <1>1 DEF Bets
  <2> QED BY <1>1, <1>3, <2>1 DEF FreshOK, Blank
<1>7. SeedOK'
  <2>1. \A d \in Calls : At(d, "seed")' => d # c /\ At(d, "seed") /\ call'[d].bet = call[d].bet
                                            /\ call[d].bet # b /\ call[d].bet \in Bets
    BY <1>1, <1>4, RangesOK DEF At, CallsOK, Ranges, Bets
  <2> QED BY <1>3, <2>1 DEF SeedOK, Blank
<1>8. GridOK'
  BY <1>2, <1>3 DEF GridOK
<1>9. CreditOK'
  <2>1. \A d \in Calls : At(d, "credit")' => At(d, "credit") /\ call'[d] = call[d]
                                              /\ call[d].bet # b /\ call[d].bet \in Bets
    BY <1>1, <1>4, RangesOK DEF At, CallsOK, CreditOK, Blank, Ranges, Bets
  <2> QED BY <1>3, <2>1 DEF CreditOK
<1>10. OverOK' /\ PaidForSafeTiles' /\ HistoryIsTrue'
  <2>1. \A e \in Bets : Closing(e) => Closing(e)'
    BY <1>1, <1>4, StillClosing DEF At
  <2> QED BY <1>1, <1>3, <2>1 DEF OverOK, PaidForSafeTiles, HistoryIsTrue, Decided, Blank
<1> QED BY <1>5, <1>6, <1>7, <1>8, <1>9, <1>10

LEMMA StartFailsKeeps == ASSUME MinesAssumption, Inv, NEW c \in Calls, StartFails(c) PROVE Kept'
<1> USE DEF Inv, Kept
<1>1. /\ call'[c].pc = "idle" /\ call'[c].bet = NoBet
      /\ \A d \in Calls : d # c => call'[d] = call[d]
      /\ UNCHANGED <<placed, paid, sessions, busted, mines, state>>
  BY Moves DEF StartFails
<1>2. CallsOK' /\ SeedOK' /\ CreditOK' /\ OwedOK'
  BY <1>1 DEF CallsOK, SeedOK, CreditOK, OwedOK, Blank, At
<1>3. FreshOK' /\ GridOK' /\ OverOK' /\ PaidForSafeTiles' /\ HistoryIsTrue'
  <2>1. \A b \in Bets : Closing(b) => Closing(b)'
    BY <1>1, StillClosing DEF StartFails, At
  <2> QED BY <1>1, <2>1 DEF FreshOK, GridOK, OverOK, PaidForSafeTiles, HistoryIsTrue, Blank, Decided
<1> QED BY <1>2, <1>3

-----------------------------------------------------------------------------
(* REVEAL_TILE and CASHOUT *)

\* A safe tile raises what the round, and every cash out of it under way, may be paid for.
LEMMA SafeKeeps ==
  ASSUME MinesAssumption, Inv, Live, NEW tile \in Tiles, tile \notin state[mines].revealed,
         ~IsMine(state[mines], tile),
         state' = [state EXCEPT ![mines].revealed = @ \cup {tile}],
         UNCHANGED <<placed, paid, sessions, busted, mines, call>>
  PROVE  Kept'
<1> USE DEF Inv, Kept
<1> DEFINE b == mines
<1>1. /\ b \in Bets /\ state[b].active /\ state[b].revealed \in SUBSET Tiles
      /\ state[b].layout \in Layouts /\ ~Blank(b) /\ paid[b] \in Nat
      /\ \A c \in Calls : call[c].pc \in {"seed", "credit", "clear", "won", "lost"} => call[c].bet \in Bets
      /\ \A c \in Calls : At(c, "seed") => call[c].bet # b
  <2>1. b \in Bets /\ state[b].active /\ state[b].revealed \in SUBSET Tiles /\ paid[b] \in Nat
    BY RangesOK DEF Ranges
  <2>2. \A c \in Calls : call[c].pc \in {"seed", "credit", "clear", "won", "lost"} => call[c].bet \in Bets
    BY RangesOK DEF Ranges, CallsOK, Bets
  <2> QED BY <2>1, <2>2 DEF GridOK, Blank, SeedOK
<1>2. /\ state'[b].revealed = state[b].revealed \cup {tile} /\ state'[b].layout = state[b].layout
      /\ state'[b].active = state[b].active
      /\ \A e \in Bets : e # b => state'[e] = state[e]
  BY <1>1 DEF TypeOK, Round
<1>3. /\ Cardinality(state[b].revealed) \in Nat
      /\ Cardinality(state'[b].revealed) = Cardinality(state[b].revealed) + 1
  BY <1>1, <1>2, Fits
<1>4. CallsOK' /\ SeedOK' /\ FreshOK' /\ OwedOK'
  BY <1>1, <1>2 DEF CallsOK, SeedOK, FreshOK, OwedOK, Blank, At
<1>5. GridOK'
  BY <1>1, <1>2 DEF GridOK, IsMine
<1>6. CreditOK'
  <2>1. \A c \in Calls : call[c].multiplier \in Nat
    BY RangesOK DEF Ranges
  <2>2. ASSUME NEW c \in Calls, At(c, "credit")
        PROVE  /\ state'[call[c].bet].revealed # {}
               /\ call[c].multiplier <= Cardinality(state'[call[c].bet].revealed)
    <3>1. /\ state[call[c].bet].revealed # {} /\ call[c].multiplier \in Nat
          /\ call[c].multiplier <= Cardinality(state[call[c].bet].revealed) /\ call[c].bet \in Bets
      BY <1>1, <2>1, <2>2 DEF CreditOK, At
    <3>2. CASE call[c].bet = b
      BY <1>2, <1>3, <3>1, <3>2
    <3>3. CASE call[c].bet # b
      BY <1>2, <3>1, <3>3
    <3> QED BY <3>2, <3>3
  <2> QED BY <2>2 DEF CreditOK, At
<1>7. OverOK' /\ HistoryIsTrue'
  <2>1. \A e \in Bets : Closing(e)' = Closing(e)
    BY DEF Closing, At
  <2>2. \A e \in Bets : state'[e].active = state[e].active
    BY <1>2
  <2> QED BY <2>1, <2>2 DEF OverOK, HistoryIsTrue, Decided
<1>8. PaidForSafeTiles'
  <2>1. paid[b] # 0 => paid[b] <= Cardinality(state'[b].revealed)
    BY <1>1, <1>3 DEF PaidForSafeTiles
  <2>2. \A e \in Bets : e # b /\ paid[e] # 0 => paid[e] <= Cardinality(state'[e].revealed)
    BY <1>2 DEF PaidForSafeTiles
  <2>3. \A e \in Bets : state'[e].revealed \cap state'[e].layout = {}
    BY <1>5 DEF GridOK
  <2> QED BY <2>1, <2>2, <2>3 DEF PaidForSafeTiles
<1> QED BY <1>4, <1>5, <1>6, <1>7, <1>8

\* A mine closes the round; its history row is owed by this call.
LEMMA BustKeeps ==
  ASSUME MinesAssumption, Inv, Live, NEW c \in Calls,
         state' = [state EXCEPT ![mines].active = FALSE],
         busted' = busted \cup {mines}, mines' = NoBet, Goto(c, "lost", mines, 0), At(c, "idle"),
         UNCHANGED <<placed, paid, sessions>>
  PROVE  Kept'
<1> USE DEF Inv, Kept
<1> DEFINE b == mines
<1>1. /\ b \in Bets /\ state[b].active /\ b <= placed /\ b \notin busted /\ placed \in Nat
      /\ sessions[b].lost = 0 /\ ~Blank(b)
      /\ \A d \in Calls : call[d].pc \in {"seed", "credit", "clear", "won", "lost"} => call[d].bet \in Bets
      /\ \A d \in Calls : At(d, "seed") \/ At(d, "lost") => call[d].bet # b
  <2>1. b \in Bets /\ state[b].active /\ placed \in Nat /\ b <= placed /\ sessions[b].lost \in Nat
    BY RangesOK DEF Ranges, FreshOK, Blank, Bets
  <2>2. b \notin busted /\ ~Blank(b)
    BY <2>1 DEF OverOK, Decided, Blank
  <2>3. \A d \in Calls : call[d].pc \in {"seed", "credit", "clear", "won", "lost"} => call[d].bet \in Bets
    BY RangesOK DEF Ranges, CallsOK, Bets
  <2> QED BY <2>1, <2>2, <2>3 DEF HistoryIsTrue, SeedOK, OwedOK
<1>2. /\ call'[c].pc = "lost" /\ call'[c].bet = b
      /\ \A d \in Calls : d # c => call'[d] = call[d]
  BY Moves
<1>3. /\ state'[b].revealed = state[b].revealed /\ state'[b].layout = state[b].layout /\ ~state'[b].active
      /\ \A e \in Bets : e # b => state'[e] = state[e]
  BY <1>1 DEF TypeOK, Round
<1>4. CallsOK'
  BY <1>1, <1>2 DEF CallsOK, Bets
<1>5. FreshOK' /\ SeedOK'
  <2>1. \A e \in Bets : e > placed => e # b
    BY <1>1 DEF Bets
  <2>2. FreshOK'
    BY <1>1, <1>3, <2>1 DEF FreshOK, Blank, NoBet
  <2>3. \A d \in Calls : At(d, "seed")' => d # c /\ At(d, "seed") /\ call'[d] = call[d]
                                            /\ call[d].bet # b /\ call[d].bet \in Bets
    BY <1>1, <1>2 DEF At
  <2> QED BY <1>3, <2>2, <2>3 DEF SeedOK, Blank
<1>6. GridOK' /\ OverOK'
  <2>1. \A e \in Bets : Closing(e) => Closing(e)'
    BY <1>2, StillClosing DEF At
  <2> QED BY <1>1, <1>3, <2>1 DEF GridOK, OverOK, Decided
<1>7. CreditOK'
  BY <1>1, <1>2, <1>3 DEF CreditOK, At
<1>8. OwedOK'
  BY <1>1, <1>2 DEF OwedOK, At
<1>9. PaidForSafeTiles' /\ HistoryIsTrue'
  BY <1>1, <1>3 DEF PaidForSafeTiles, HistoryIsTrue
<1> QED BY <1>4, <1>5, <1>6, <1>7, <1>8, <1>9

LEMMA RevealKeeps == ASSUME MinesAssumption, Inv, NEW c \in Calls, Reveal(c) PROVE Kept'
<1>1. PICK tile \in Tiles \ state[mines].revealed :
        \/ /\ ~IsMine(state[mines], tile)
           /\ state' = [state EXCEPT ![mines].revealed = @ \cup {tile}]
           /\ UNCHANGED <<busted, mines, call>>
        \/ /\ IsMine(state[mines], tile)
           /\ state' = [state EXCEPT ![mines].active = FALSE]
           /\ busted' = busted \cup {mines} /\ mines' = NoBet
           /\ Goto(c, "lost", mines, 0)
  BY DEF Reveal
<1>2. Live /\ At(c, "idle") /\ UNCHANGED <<placed, paid, sessions>>
  BY DEF Reveal
<1> QED BY <1>1, <1>2, SafeKeeps, BustKeeps

LEMMA CashoutKeeps == ASSUME MinesAssumption, Inv, NEW c \in Calls, Cashout(c) PROVE Kept'
<1> USE DEF Inv, Kept
<1> DEFINE b == mines
<1>1. /\ b \in Bets /\ b <= placed /\ placed \in Nat /\ state[b].revealed # {}
      /\ Cardinality(state[b].revealed) \in Nat /\ Cardinality(state[b].revealed) # 0
  <2>1. b \in Bets /\ state[b].active /\ state[b].revealed \in SUBSET Tiles /\ placed \in Nat
    BY RangesOK DEF Cashout, Ranges
  <2>2. state[b].revealed # {} /\ b <= placed
    BY <2>1 DEF Cashout, FreshOK, Blank, Bets
  <2> QED BY <2>1, <2>2, Fits
<1>2. /\ call'[c].pc = "credit" /\ call'[c].bet = b
      /\ call'[c].multiplier = Cardinality(state[b].revealed)
      /\ \A d \in Calls : d # c => call'[d] = call[d]
      /\ UNCHANGED <<placed, paid, sessions, busted, mines, state>>
  BY Moves DEF Cashout, Price
<1>3. CallsOK' /\ SeedOK' /\ CreditOK' /\ OwedOK'
  <2>1. CallsOK'
    BY <1>1, <1>2 DEF CallsOK, Bets
  <2>2. SeedOK' /\ OwedOK'
    BY <1>2 DEF SeedOK, OwedOK, Blank, At
  <2>3. CreditOK'
    BY <1>1, <1>2 DEF CreditOK, At
  <2> QED BY <2>1, <2>2, <2>3
<1>4. FreshOK' /\ GridOK' /\ OverOK' /\ PaidForSafeTiles' /\ HistoryIsTrue'
  <2>1. \A e \in Bets : Closing(e) => Closing(e)'
    BY <1>2, StillClosing DEF Cashout, At
  <2> QED BY <1>2, <2>1 DEF FreshOK, GridOK, OverOK, PaidForSafeTiles, HistoryIsTrue, Blank, Decided
<1> QED BY <1>3, <1>4

\* The credit leaves the round open, and its call is at closing it.
LEMMA CreditKeeps == ASSUME MinesAssumption, Inv, NEW c \in Calls, Credit(c) PROVE Kept'
<1> USE DEF Inv, Kept
<1> DEFINE b == call[c].bet
<1>1. /\ call[c].pc = "credit" /\ b \in Bets /\ b <= placed /\ placed \in Nat
      /\ call[c].multiplier # 0 /\ call[c].multiplier <= Cardinality(state[b].revealed)
      /\ state[b].revealed # {} /\ paid[b] \in Nat
      /\ \A d \in Calls : call[d].pc \in {"seed", "credit", "clear", "won", "lost"} => call[d].bet \in Bets
      /\ \A d \in Calls : At(d, "seed") => call[d].bet # b
  <2>1. call[c].pc = "credit" /\ b \in Bets /\ b <= placed /\ placed \in Nat /\ paid[b] \in Nat
    BY RangesOK DEF Credit, At, CallsOK, Ranges, Bets
  <2>2. \A d \in Calls : call[d].pc \in {"seed", "credit", "clear", "won", "lost"} => call[d].bet \in Bets
    BY RangesOK DEF Ranges, CallsOK, Bets
  <2> QED BY <2>1, <2>2 DEF CreditOK, At, SeedOK, Blank
<1>2. /\ call'[c].pc = "clear" /\ call'[c].bet = b
      /\ \A d \in Calls : d # c => call'[d] = call[d]
      /\ UNCHANGED <<placed, sessions, busted, mines, state>>
  BY Moves DEF Credit
<1>3. /\ paid'[b] # 0 /\ paid'[b] \in {paid[b], call[c].multiplier}
      /\ paid[b] # 0 => paid'[b] = paid[b]
      /\ \A e \in Bets : e # b => paid'[e] = paid[e]
  BY <1>1 DEF Credit, TypeOK
<1>4. CallsOK'
  BY <1>1, <1>2 DEF CallsOK, Bets
<1>5. FreshOK' /\ SeedOK'
  BY SMTT(30), <1>1, <1>2, <1>3 DEF FreshOK, SeedOK, Blank, At
<1>6. GridOK' /\ CreditOK'
  BY <1>1, <1>2 DEF GridOK, CreditOK, At
<1>7. OverOK'
  <2>1. Closing(b)' /\ \A e \in Bets : Closing(e) => Closing(e)'
    BY <1>1, <1>2, StillClosing DEF Closing, At
  <2> QED BY <1>1, <1>2, <1>3, <2>1 DEF OverOK, Decided
<1>8. OwedOK'
  BY <1>1, <1>2, <1>3 DEF OwedOK, At
<1>9. PaidForSafeTiles' /\ HistoryIsTrue'
  BY <1>1, <1>2, <1>3 DEF PaidForSafeTiles, HistoryIsTrue
<1> QED BY <1>4, <1>5, <1>6, <1>7, <1>8, <1>9

\* Then it is closed, and stays so.
LEMMA ClearKeeps == ASSUME MinesAssumption, Inv, NEW c \in Calls, Clear(c) PROVE Kept'
<1> USE DEF Inv, Kept
<1> DEFINE b == call[c].bet
<1>1. /\ call[c].pc = "clear" /\ b \in Bets /\ b <= placed /\ placed \in Nat /\ paid[b] # 0
      /\ \A d \in Calls : call[d].pc \in {"seed", "credit", "clear", "won", "lost"} => call[d].bet \in Bets
      /\ \A d \in Calls : At(d, "seed") => call[d].bet # b
  <2>1. call[c].pc = "clear" /\ b \in Bets /\ b <= placed /\ placed \in Nat
    BY RangesOK DEF Clear, At, CallsOK, Ranges, Bets
  <2>2. \A d \in Calls : call[d].pc \in {"seed", "credit", "clear", "won", "lost"} => call[d].bet \in Bets
    BY RangesOK DEF Ranges, CallsOK, Bets
  <2> QED BY <2>1, <2>2 DEF OwedOK, At, SeedOK, Blank
<1>2. /\ call'[c].pc = "won" /\ call'[c].bet = b
      /\ \A d \in Calls : d # c => call'[d] = call[d]
      /\ UNCHANGED <<placed, paid, sessions, busted>> /\ mines' = NoBet
  BY Moves DEF Clear
<1>3. /\ state'[b].revealed = state[b].revealed /\ state'[b].layout = state[b].layout /\ ~state'[b].active
      /\ \A e \in Bets : e # b => state'[e] = state[e]
  BY <1>1 DEF Clear, TypeOK, Round
<1>4. CallsOK'
  BY <1>1, <1>2 DEF CallsOK, Bets
<1>5. FreshOK' /\ SeedOK'
  BY SMTT(30), <1>1, <1>2, <1>3 DEF FreshOK, SeedOK, Blank, At, NoBet
<1>6. GridOK' /\ CreditOK'
  BY <1>1, <1>2, <1>3 DEF GridOK, CreditOK, At
<1>7. OverOK'
  <2>1. ASSUME NEW e \in Bets, e # b, Closing(e) PROVE Closing(e)'
    BY <1>2, <2>1 DEF Closing, At
  <2> QED BY <1>2, <1>3, <2>1 DEF OverOK, Decided
<1>8. OwedOK'
  BY <1>1, <1>2 DEF OwedOK, At
<1>9. PaidForSafeTiles' /\ HistoryIsTrue'
  BY <1>1, <1>2, <1>3 DEF PaidForSafeTiles, HistoryIsTrue
<1> QED BY <1>4, <1>5, <1>6, <1>7, <1>8, <1>9

LEMMA CreditFailsKeeps == ASSUME MinesAssumption, Inv, NEW c \in Calls, CreditFails(c) PROVE Kept'
<1> USE DEF Inv, Kept
<1>1. /\ call'[c].pc = "idle" /\ call'[c].bet = NoBet
      /\ \A d \in Calls : d # c => call'[d] = call[d]
      /\ UNCHANGED <<placed, paid, sessions, busted, mines, state>>
  BY Moves DEF CreditFails
<1>2. CallsOK' /\ SeedOK' /\ CreditOK' /\ OwedOK'
  BY <1>1 DEF CallsOK, SeedOK, CreditOK, OwedOK, Blank, At
<1>3. FreshOK' /\ GridOK' /\ OverOK' /\ PaidForSafeTiles' /\ HistoryIsTrue'
  <2>1. \A b \in Bets : Closing(b) => Closing(b)'
    BY <1>1, StillClosing DEF CreditFails, At
  <2> QED BY <1>1, <2>1 DEF FreshOK, GridOK, OverOK, PaidForSafeTiles, HistoryIsTrue, Blank, Decided
<1> QED BY <1>2, <1>3

LEMMA RecordKeeps == ASSUME MinesAssumption, Inv, NEW c \in Calls, RecordSession(c) PROVE Kept'
<1> USE DEF Inv, Kept
<1> DEFINE b == call[c].bet
<1>1. /\ b \in Bets /\ sessions[b].lost \in Nat /\ sessions[b].won \in Nat
      /\ At(c, "won") \/ At(c, "lost")
      /\ At(c, "won") => paid[b] # 0
      /\ At(c, "lost") => /\ b \in busted /\ sessions[b].lost = 0
                          /\ \A d \in Calls : At(d, "lost") /\ call[d].bet = b => c = d
  <2>1. b \in Bets
    BY RangesOK DEF RecordSession, At, CallsOK, Ranges, Bets
  <2> QED BY <2>1, RangesOK DEF RecordSession, OwedOK, Ranges
<1>2. /\ call'[c].pc = "idle" /\ call'[c].bet = NoBet
      /\ \A d \in Calls : d # c => call'[d] = call[d]
      /\ UNCHANGED <<placed, paid, busted, mines, state>>
  BY Moves DEF RecordSession
<1>3. /\ \A e \in Bets : e # b => sessions'[e] = sessions[e]
      /\ \/ sessions'[b] = sessions[b]
         \/ At(c, "won") /\ sessions'[b].won = sessions[b].won + 1 /\ sessions'[b].lost = sessions[b].lost
         \/ At(c, "lost") /\ sessions'[b].won = sessions[b].won /\ sessions'[b].lost = sessions[b].lost + 1
  BY <1>1 DEF RecordSession, TypeOK
<1>4. CallsOK' /\ SeedOK' /\ CreditOK'
  BY <1>2 DEF CallsOK, SeedOK, CreditOK, Blank, At
<1>5. FreshOK' /\ GridOK' /\ OverOK' /\ PaidForSafeTiles'
  <2>1. \A e \in Bets : Closing(e) => Closing(e)'
    BY <1>1, <1>2, StillClosing DEF At
  <2> QED BY <1>2, <2>1 DEF FreshOK, GridOK, OverOK, PaidForSafeTiles, Blank, Decided
<1>6. HistoryIsTrue'
  BY <1>1, <1>2, <1>3 DEF HistoryIsTrue
<1>7. OwedOK'
  <2>1. \A d \in Calls : call'[d].pc \in {"clear", "won", "lost"} => d # c /\ call'[d] = call[d] /\ call[d].bet \in Bets
    BY <1>2, RangesOK DEF CallsOK, Ranges, Bets
  <2>2. \A d \in Calls : d # c /\ At(d, "lost") => sessions'[call[d].bet].lost = 0
    <3> TAKE d \in Calls
    <3> HAVE d # c /\ At(d, "lost")
    <3>1. sessions[call[d].bet].lost = 0 /\ call[d].bet \in Bets
      BY RangesOK DEF OwedOK, CallsOK, Ranges, Bets, At
    <3>2. ~(call[d].bet = b /\ At(c, "lost"))
      BY <1>1
    <3> QED BY <1>1, <1>3, <3>1, <3>2
  <2> QED BY <1>2, <2>1, <2>2 DEF OwedOK, At
<1> QED BY <1>4, <1>5, <1>6, <1>7

\* A restart leaves no call and no open round.
LEMMA RestartKeeps == ASSUME MinesAssumption, Inv, Restart PROVE Kept'
<1> USE DEF Inv, Kept
<1>1. /\ \A d \in Calls : call'[d].pc = "idle" /\ call'[d].bet = NoBet
      /\ \A b \in Bets : /\ ~state'[b].active /\ state'[b].revealed = state[b].revealed
                          /\ state'[b].layout = state[b].layout
      /\ mines' = 0 /\ placed \in Nat /\ UNCHANGED <<placed, paid, sessions, busted>>
  BY RangesOK DEF Restart, Idle, NoBet, Ranges, Round
<1>2. CallsOK' /\ FreshOK' /\ SeedOK' /\ GridOK' /\ CreditOK' /\ OverOK' /\ OwedOK'
  BY <1>1 DEF CallsOK, FreshOK, SeedOK, GridOK, CreditOK, OverOK, OwedOK, Blank, Decided, At
<1>3. PaidForSafeTiles' /\ HistoryIsTrue'
  BY <1>1 DEF PaidForSafeTiles, HistoryIsTrue
<1> QED BY <1>2, <1>3

LEMMA InvStep == ASSUME MinesAssumption, Inv, [Next]_vars PROVE Inv'
<1>1. TypeOK'
  BY TypeStep
<1>2. Kept'
  <2>1. CASE UNCHANGED vars
    BY <2>1 DEF vars, Inv, Kept, CallsOK, FreshOK, SeedOK, GridOK, CreditOK, OverOK, OwedOK,
                PaidForSafeTiles, HistoryIsTrue, Blank, Decided, Closing, At
  <2>2. CASE Restart
    BY <2>2, RestartKeeps
  <2>3. ASSUME NEW c \in Calls, Frame(c) \/ Continue(c) PROVE Kept'
    BY <2>3, StartKeeps, RevealKeeps, CashoutKeeps, DebitKeeps, OpenKeeps, StartFailsKeeps, CreditKeeps,
       CreditFailsKeeps, ClearKeeps, RecordKeeps DEF Frame, Continue
  <2> QED BY <2>1, <2>2, <2>3 DEF Next
<1> QED BY <1>1, <1>2 DEF Inv

-----------------------------------------------------------------------------
(* The theorems *)

\* The invariant that carries the others.
LEMMA Invariant == ASSUME MinesAssumption PROVE Spec => []Inv
<1>1. Init => Inv
  BY InvInit
<1>2. Inv /\ [Next]_vars => Inv'
  BY InvStep
<1> QED BY <1>1, <1>2, PTL DEF Spec

\* Every variable of the handlers and of the store keeps its type; in particular a
\* cash out is priced within the table of the grid it is played on.
THEOREM MinesTypeCorrect == ASSUME MinesAssumption PROVE Spec => []TypeOK
<1>1. Inv => TypeOK
  BY DEF Inv
<1> QED BY Invariant, <1>1, PTL

\* A Mines WIN pays for at least one tile and for no more than were safely revealed,
\* however cash outs, reveals, a bust, second bets and restarts interleave.
THEOREM MinesPaysSafeTiles == ASSUME MinesAssumption PROVE Spec => []PaidForSafeTiles
<1>1. Inv => PaidForSafeTiles
  BY DEF Inv, Kept
<1> QED BY Invariant, <1>1, PTL

\* A won row of the Mines history stands for a WIN that was credited, a lost one for
\* a bust, and a bust is recorded at most once.
THEOREM MinesHistoryIsTrue == ASSUME MinesAssumption PROVE Spec => []HistoryIsTrue
<1>1. Inv => HistoryIsTrue
  BY DEF Inv, Kept
<1> QED BY Invariant, <1>1, PTL

\* A step leaves a decided round alone.
LEMMA OverStep ==
  ASSUME MinesAssumption, Inv, Next, NEW b \in Bets, Decided(b)
  PROVE  /\ state'[b].revealed = state[b].revealed
         /\ b \notin busted => b \notin busted'
         /\ \A d \in Calls : ~Takes(d, b)
<1> USE DEF Inv, Kept
<1>1. /\ ~(Live /\ mines = b) /\ ~Blank(b) /\ b # NoBet
      /\ \A d \in Calls : At(d, "seed") => call[d].bet # b
  BY DEF OverOK, Live, Blank, Decided, SeedOK, NoBet, Bets
<1>2. CASE Restart
  <2>1. state'[b].revealed = state[b].revealed /\ UNCHANGED busted
    BY <1>2 DEF Restart, Round, TypeOK
  <2>2. \A d \in Calls : call'[d].bet = NoBet
    BY <1>2 DEF Restart, Idle
  <2> QED BY <1>1, <2>1, <2>2 DEF Takes
<1>3. ASSUME NEW c \in Calls, Frame(c) PROVE /\ state'[b].revealed = state[b].revealed
                                             /\ b \notin busted => b \notin busted'
                                             /\ \A d \in Calls : ~Takes(d, b)
  <2>1. /\ call'[c].bet # b /\ \A d \in Calls : d # c => call'[d] = call[d]
        /\ busted' = busted \/ (mines # b /\ busted' = busted \cup {mines})
    <3>1. CASE Start(c)
      BY <1>1, <3>1, Moves DEF Start
    <3>2. CASE Reveal(c)
      <4>1. CASE UNCHANGED <<busted, call>>
        BY <1>1, <3>2, <4>1 DEF Reveal, CallsOK, At
      <4>2. CASE Goto(c, "lost", mines, 0) /\ busted' = busted \cup {mines}
        BY <1>1, <3>2, <4>2, Moves DEF Reveal
      <4> QED BY <3>2, <4>1, <4>2 DEF Reveal
    <3>3. CASE Cashout(c)
      BY <1>1, <3>3, Moves DEF Cashout
    <3> QED BY <1>3, <3>1, <3>2, <3>3 DEF Frame
  <2>2. state'[b].revealed = state[b].revealed
    BY <1>1, <1>3 DEF Frame, Start, Reveal, Cashout, TypeOK, Round
  <2>3. \A d \in Calls : At(d, "idle") => call[d].bet # b
    BY <1>1 DEF CallsOK, At
  <2> QED BY <2>1, <2>2, <2>3 DEF Takes
<1>4. ASSUME NEW c \in Calls, Continue(c) PROVE /\ state'[b].revealed = state[b].revealed
                                                /\ b \notin busted => b \notin busted'
                                                /\ \A d \in Calls : ~Takes(d, b)
  <2>1. UNCHANGED busted /\ state'[b].revealed = state[b].revealed
    <3>1. CASE Open(c)
      BY <1>1, <3>1 DEF Open, TypeOK
    <3>2. CASE Clear(c)
      BY <3>2 DEF Clear, TypeOK, Round
    <3> QED BY <1>4, <3>1, <3>2 DEF Continue, Debit, StartFails, Credit, CreditFails, RecordSession
  <2>2. ~At(c, "idle") /\ \A d \in Calls : d # c => call'[d] = call[d]
    <3>1. \A d \in Calls : d # c => call'[d] = call[d]
      BY <1>4 DEF Continue, Debit, Open, StartFails, Credit, CreditFails, Clear, RecordSession, Goto, Return, TypeOK
    <3> QED BY <1>4, <3>1
        DEF Continue, Debit, Open, StartFails, Credit, CreditFails, Clear, RecordSession, At
  <2>3. \A d \in Calls : At(d, "idle") => call[d].bet # b
    BY <1>1 DEF CallsOK, At
  <2> QED BY <2>1, <2>2, <2>3 DEF Takes
<1> QED BY <1>2, <1>3, <1>4 DEF Next

\* Once a round is lost, or paid and its cash out has its answer, no tile of it is
\* turned, it is not lost (again), and no frame takes it up.
THEOREM MinesDecidedIsOver == ASSUME MinesAssumption PROVE Spec => DecidedIsOver
<1> DEFINE Over == \A b \in Bets : Decided(b) =>
                     /\ state'[b].revealed = state[b].revealed
                     /\ b \notin busted => b \notin busted'
                     /\ \A c \in Calls : ~Takes(c, b)
<1>1. Inv /\ [Next]_vars => [Over]_vars
  BY OverStep
<1> QED BY Invariant, <1>1, PTL DEF Spec, DecidedIsOver

-----------------------------------------------------------------------------
(* The inductive invariant of the seeds *)

\* Draws come from pairs that exist, below the nonce stored for the pair.
DrawsOK ==
  /\ \A p \in Pairs : nonce[p] <= bets
  /\ \A b \in 1..bets :
       context[b].pair \in 1..created /\ context[b].nonce < nonce[context[b].pair]

\* A call speaks of a pair that exists, if of any.
PairsOK == \A c \in SeedCalls : seedCall[c].seed.pair <= created

\* What a rotation is about to reveal it will retire, if it is not retired yet.
RotationsOK ==
  \A c \in SeedCalls : Stands(c, "commit") =>
    seedCall[c].seed.pair \in seedCall[c].seen \/ seedCall[c].seed.pair \notin active

SeedsInv == SeedsTypeOK /\ DrawsOK /\ PairsOK /\ RotationsOK /\ DrawsAreSpentOnce

-----------------------------------------------------------------------------
(* It holds at the start *)

LEMMA SeedsInvInit == ASSUME SeedsAssumption, SeedsInit PROVE SeedsInv
<1>1. 0 \in 0..MaxPairs /\ 0 \in 0..MaxDraws
  BY DEF SeedsAssumption, SeedBoundsAssumption
<1>2. SeedsTypeOK
  <2>1. Resting \in SeedCall /\ NoContext \in Context /\ Resting.pc = "idle"
    BY <1>1 DEF SeedCall, Resting, Context, NoContext, AllGames, NoPair, NoDraw
  <2> QED BY <1>1, <2>1 DEF SeedsInit, SeedsTypeOK, Stands, NoDraw
<1>3. DrawsOK /\ PairsOK /\ RotationsOK /\ DrawsAreSpentOnce
  BY DEF SeedsInit, DrawsOK, PairsOK, RotationsOK, DrawsAreSpentOnce, NonceUnique, RevealedIsRetired, Stands,
         Resting, NoContext, NoPair
<1> QED BY <1>2, <1>3 DEF SeedsInv

-----------------------------------------------------------------------------
(* Every step keeps it *)

\* What the types say of the bounds and of one call.
SeedRanges ==
  /\ MaxDraws \in Nat /\ MaxPairs \in Nat /\ bets \in Nat /\ bets <= MaxDraws
  /\ created \in Nat /\ created <= MaxPairs
  /\ Resting \in SeedCall /\ Resting.pc = "idle" /\ Resting.seed.pair = 0
  /\ \A p \in Pairs : nonce[p] \in 0..MaxDraws
  /\ \A c \in SeedCalls :
       /\ seedCall[c] \in SeedCall /\ seedCall[c].seed \in Context /\ seedCall[c].seed.pair \in 0..MaxPairs
       /\ seedCall[c].bet \in 0..MaxDraws /\ seedCall[c].seen \in SUBSET Pairs /\ seedCall[c].game \in AllGames

LEMMA SeedRangesOK == ASSUME SeedsAssumption, SeedsTypeOK PROVE SeedRanges
<1>1. MaxDraws \in Nat /\ MaxPairs \in Nat
  BY DEF SeedsAssumption, SeedBoundsAssumption
<1>2. bets \in Nat /\ bets <= MaxDraws /\ created \in Nat /\ created <= MaxPairs
  BY <1>1 DEF SeedsTypeOK
<1>3. Resting \in SeedCall /\ Resting.pc = "idle" /\ Resting.seed.pair = 0
  BY <1>1 DEF SeedCall, Resting, Context, NoContext, AllGames, NoPair, NoDraw
<1>4. \A p \in Pairs : nonce[p] \in 0..MaxDraws
  BY DEF SeedsTypeOK
<1>5. \A c \in SeedCalls :
       /\ seedCall[c] \in SeedCall /\ seedCall[c].seed \in Context /\ seedCall[c].seed.pair \in 0..MaxPairs
       /\ seedCall[c].bet \in 0..MaxDraws /\ seedCall[c].seen \in SUBSET Pairs /\ seedCall[c].game \in AllGames
  BY DEF SeedsTypeOK, SeedCall, Context
<1> QED BY <1>1, <1>2, <1>3, <1>4, <1>5 DEF SeedRanges

\* A step that changes one call alone keeps the invariant, if that call stays well formed.
LEMMA CallOnly ==
  ASSUME SeedsAssumption, SeedsInv, NEW c \in SeedCalls, NEW r \in SeedCall,
         seedCall' = [seedCall EXCEPT ![c] = r],
         r.seed.pair <= created,
         r.pc = "update" => r.seed.pair \in 1..created,
         r.pc = "commit" => r.seed.pair \in r.seen \/ r.seed.pair \notin active,
         UNCHANGED <<created, active, nonce, revealed, bets, context>>,
         slot' \in [AllGames -> 0..MaxDraws]
  PROVE  SeedsInv'
<1>1. seedCall'[c] = r /\ \A d \in SeedCalls : d # c => seedCall'[d] = seedCall[d]
  BY DEF SeedsInv, SeedsTypeOK
<1>2. seedCall' \in [SeedCalls -> SeedCall]
  BY DEF SeedsInv, SeedsTypeOK
<1>3. SeedsTypeOK'
  BY <1>1, <1>2 DEF SeedsInv, SeedsTypeOK, Stands
<1>4. PairsOK' /\ RotationsOK'
  BY <1>1 DEF SeedsInv, PairsOK, RotationsOK, Stands
<1>5. DrawsOK' /\ DrawsAreSpentOnce'
  BY DEF SeedsInv, DrawsOK, DrawsAreSpentOnce, NonceUnique, RevealedIsRetired
<1> QED BY <1>3, <1>4, <1>5 DEF SeedsInv

LEMMA ReturnKeeps ==
  ASSUME SeedsAssumption, SeedsInv, NEW c \in SeedCalls, Ends(c),
         UNCHANGED <<created, active, nonce, revealed, bets, context>>,
         slot' \in [AllGames -> 0..MaxDraws]
  PROVE  SeedsInv'
<1>1. Resting \in SeedCall /\ Resting.pc = "idle" /\ Resting.seed.pair <= created
  BY SeedRangesOK DEF SeedsInv, SeedRanges
<1> QED BY <1>1, CallOnly DEF Ends

LEMMA BetKeeps == ASSUME SeedsAssumption, SeedsInv, NEW c \in SeedCalls, Bet(c) PROVE SeedsInv'
<1>1. PICK g \in Games : seedCall' = [seedCall EXCEPT ![c] = [Resting EXCEPT !.pc = "find", !.game = g]]
  BY DEF Bet
<1> DEFINE r == [Resting EXCEPT !.pc = "find", !.game = g]
<1>2. r \in SeedCall /\ r.pc = "find" /\ r.seed.pair = 0
  BY <1>1, SeedRangesOK DEF Resting, NoContext, NoPair, SeedCall, SeedRanges, SeedsInv, SeedsAssumption, GamesAssumption
<1>3. 0 <= created
  BY SeedRangesOK DEF SeedRanges, SeedsInv
<1>4. slot' \in [AllGames -> 0..MaxDraws]
  BY DEF Bet, SeedsInv, SeedsTypeOK
<1> HIDE DEF r
<1>5. seedCall' = [seedCall EXCEPT ![c] = r]
  BY <1>1 DEF r
<1> QED BY <1>2, <1>3, <1>4, <1>5, CallOnly DEF Bet

LEMMA FindKeeps == ASSUME SeedsAssumption, SeedsInv, NEW c \in SeedCalls, Find(c) PROVE SeedsInv'
<1>1. slot' \in [AllGames -> 0..MaxDraws] /\ seedCall[c] \in SeedCall /\ seedCall[c].seed.pair <= created
  BY SeedRangesOK DEF Find, SeedsInv, SeedsTypeOK, SeedRanges, PairsOK
<1>2. CASE seedCall' = [seedCall EXCEPT ![c].pc = "create"]
  <2> DEFINE r == [seedCall[c] EXCEPT !.pc = "create"]
  <2>1. r \in SeedCall /\ r.pc = "create" /\ r.seed = seedCall[c].seed /\ seedCall' = [seedCall EXCEPT ![c] = r]
    BY <1>1, <1>2 DEF SeedCall
  <2> HIDE DEF r
  <2> QED BY <1>1, <2>1, CallOnly DEF Find
<1>3. CASE \E p \in active : seedCall' = [seedCall EXCEPT ![c].pc = "update",
                                                   ![c].seed = [pair |-> p, nonce |-> nonce[p]]]
  <2>1. PICK p \in active : seedCall' = [seedCall EXCEPT ![c].pc = "update",
                                                 ![c].seed = [pair |-> p, nonce |-> nonce[p]]]
    BY <1>3
  <2>2. p \in 1..created /\ p <= created /\ [pair |-> p, nonce |-> nonce[p]] \in Context
    BY SeedRangesOK DEF SeedsInv, SeedsTypeOK, SeedRanges, Context, Pairs
  <2> DEFINE r == [seedCall[c] EXCEPT !.pc = "update", !.seed = [pair |-> p, nonce |-> nonce[p]]]
  <2>3. r \in SeedCall /\ r.pc = "update" /\ r.seed.pair = p /\ seedCall' = [seedCall EXCEPT ![c] = r]
    BY <1>1, <2>1, <2>2 DEF SeedCall, SeedsInv, SeedsTypeOK
  <2> HIDE DEF r
  <2> QED BY <1>1, <2>2, <2>3, CallOnly DEF Find
<1> QED BY <1>2, <1>3 DEF Find

\* A new pair is above all the others, so it is neither revealed nor about to be.
LEMMA CreateKeeps == ASSUME SeedsAssumption, SeedsInv, NEW c \in SeedCalls, Create(c) PROVE SeedsInv'
<1>1. created \in Nat /\ created + 1 \in 1..MaxPairs /\ created' = created + 1
      /\ UNCHANGED <<nonce, revealed, bets, context, slot>>
  BY SeedRangesOK DEF Create, SeedsInv, SeedRanges
<1> DEFINE r == [seedCall[c] EXCEPT !.pc = "update", !.seed = [pair |-> created + 1, nonce |-> 0]]
<1>2. r \in SeedCall /\ r.pc = "update" /\ r.seed.pair = created + 1 /\ seedCall' = [seedCall EXCEPT ![c] = r]
  <2>1. [pair |-> created + 1, nonce |-> 0] \in Context /\ seedCall[c] \in SeedCall
    BY <1>1, SeedRangesOK DEF Context, SeedsInv, SeedRanges
  <2> QED BY <2>1 DEF Create, Made, SeedCall, SeedsInv, SeedsTypeOK
<1> HIDE DEF r
<1>3. seedCall'[c] = r /\ (\A d \in SeedCalls : d # c => seedCall'[d] = seedCall[d]) /\ seedCall' \in [SeedCalls -> SeedCall]
  BY <1>2 DEF SeedsInv, SeedsTypeOK
<1>4. active' = active \cup {created + 1} /\ active \subseteq 1..created /\ revealed \subseteq 1..created
  BY DEF Create, SeedsInv, SeedsTypeOK
<1>5. SeedsTypeOK'
  <2>1. \A d \in SeedCalls : Stands(d, "update")' => seedCall'[d].seed.pair \in 1..created'
    BY <1>1, <1>2, <1>3 DEF SeedsInv, SeedsTypeOK, Stands
  <2>2. active' \subseteq 1..created' /\ revealed' \subseteq 1..created' /\ created' \in 0..MaxPairs
    BY <1>1, <1>4
  <2> QED BY <1>1, <1>3, <2>1, <2>2 DEF SeedsInv, SeedsTypeOK
<1>6. DrawsOK'
  BY <1>1 DEF SeedsInv, DrawsOK
<1>7. PairsOK'
  BY <1>1, <1>2, <1>3, SeedRangesOK DEF SeedsInv, PairsOK, SeedRanges
<1>8. RotationsOK'
  BY <1>1, <1>2, <1>3, <1>4, SeedRangesOK DEF SeedsInv, RotationsOK, PairsOK, SeedRanges, Stands
<1>9. DrawsAreSpentOnce'
  BY <1>1, <1>4 DEF SeedsInv, DrawsAreSpentOnce, NonceUnique, RevealedIsRetired
<1> QED BY <1>5, <1>6, <1>7, <1>8, <1>9 DEF SeedsInv

\* The draw is the stored nonce, which every earlier draw of the pair is below.
LEMMA UpdateKeeps == ASSUME SeedsAssumption, SeedsInv, NEW c \in SeedCalls, Update(c) PROVE SeedsInv'
<1> DEFINE p == seedCall[c].seed.pair
           b == bets + 1
<1>1. /\ p \in Pairs /\ p \in 1..created /\ bets \in Nat /\ b \in Draws /\ nonce[p] \in Nat
      /\ nonce[p] <= bets /\ bets < MaxDraws /\ MaxDraws \in Nat
  <2>1. p \in 1..created /\ bets \in Nat /\ bets < MaxDraws /\ MaxDraws \in Nat
    BY SeedRangesOK DEF Update, SeedsInv, SeedsTypeOK, Stands, SeedRanges
  <2>2. p \in Pairs
    BY <2>1, SeedRangesOK DEF SeedsInv, SeedRanges, Pairs
  <2> QED BY <2>1, <2>2, SeedRangesOK DEF SeedsInv, SeedRanges, DrawsOK, Draws
<1>2. /\ nonce' = [nonce EXCEPT ![p] = nonce[p] + 1] /\ bets' = b
      /\ context' = [context EXCEPT ![b] = [pair |-> p, nonce |-> nonce[p]]]
      /\ UNCHANGED <<created, active, revealed, slot>>
  BY DEF Update, Consumed
<1> DEFINE r == [seedCall[c] EXCEPT !.pc = "open", !.bet = b]
<1>3. r \in SeedCall /\ r.pc = "open" /\ r.seed = seedCall[c].seed /\ seedCall' = [seedCall EXCEPT ![c] = r]
  <2>1. b \in 0..MaxDraws /\ seedCall[c] \in SeedCall
    BY <1>1, SeedRangesOK DEF SeedsInv, SeedRanges
  <2> QED BY <2>1 DEF Update, SeedCall, SeedsInv, SeedsTypeOK
<1> HIDE DEF r
<1>4. seedCall'[c] = r /\ (\A d \in SeedCalls : d # c => seedCall'[d] = seedCall[d]) /\ seedCall' \in [SeedCalls -> SeedCall]
  BY <1>3 DEF SeedsInv, SeedsTypeOK
<1>5. /\ nonce'[p] = nonce[p] + 1 /\ \A q \in Pairs : q # p => nonce'[q] = nonce[q]
      /\ context'[b].pair = p /\ context'[b].nonce = nonce[p]
      /\ \A a \in Draws : a # b => context'[a] = context[a]
  BY <1>1, <1>2 DEF SeedsInv, SeedsTypeOK
<1>6. SeedsTypeOK'
  <2>1. nonce' \in [Pairs -> 0..MaxDraws]
    BY <1>1, <1>2 DEF SeedsInv, SeedsTypeOK
  <2>2. context' \in [Draws -> Context]
    BY <1>1, <1>2, SeedRangesOK DEF SeedsInv, SeedsTypeOK, Context, SeedRanges
  <2>3. bets' \in 0..MaxDraws
    BY <1>1, <1>2
  <2>4. \A d \in SeedCalls : Stands(d, "update")' => seedCall'[d].seed.pair \in 1..created
    BY <1>3, <1>4 DEF SeedsInv, SeedsTypeOK, Stands
  <2> QED BY <1>2, <1>4, <2>1, <2>2, <2>3, <2>4 DEF SeedsInv, SeedsTypeOK
<1>7. \A a \in 1..bets : /\ a \in Draws /\ a # b /\ context'[a] = context[a]
                         /\ context[a].pair \in Pairs /\ context[a].pair \in 1..created
                         /\ context[a].nonce < nonce[context[a].pair]
  BY <1>1, <1>5, SeedRangesOK DEF SeedsInv, DrawsOK, Draws, Pairs, SeedRanges
<1>8. DrawsOK'
  <2>1. \A q \in Pairs : nonce'[q] <= bets'
    BY <1>1, <1>2, <1>5, SeedRangesOK DEF SeedsInv, DrawsOK, SeedRanges
  <2>2. \A a \in 1..bets : context'[a].nonce < nonce'[context'[a].pair]
    <3> TAKE a \in 1..bets
    <3>1. context[a].nonce \in Nat
      BY <1>7 DEF SeedsInv, SeedsTypeOK, Context
    <3>2. CASE context[a].pair = p
      BY <1>1, <1>5, <1>7, <3>1, <3>2
    <3>3. CASE context[a].pair # p
      BY <1>5, <1>7, <3>3
    <3> QED BY <3>2, <3>3
  <2>3. \A a \in 1..bets' : a = b \/ a \in 1..bets
    BY <1>1, <1>2
  <2> QED BY SMTT(30), <1>1, <1>2, <1>5, <1>7, <2>1, <2>2, <2>3 DEF DrawsOK
<1>9. PairsOK' /\ RotationsOK'
  BY <1>2, <1>3, <1>4 DEF SeedsInv, PairsOK, RotationsOK, Stands
<1>10. NonceUnique'
  <2>1. \A a \in 1..bets : context'[a] # context'[b]
    <3> TAKE a \in 1..bets
    <3>1. ~(context[a].pair = p /\ context[a].nonce = nonce[p])
      BY <1>1, <1>7
    <3> QED BY <1>5, <1>7, <3>1
  <2>2. \A a \in 1..bets' : a = b \/ a \in 1..bets
    BY <1>1, <1>2
  <2> QED BY <1>7, <2>1, <2>2 DEF SeedsInv, DrawsAreSpentOnce, NonceUnique
<1>11. RevealedIsRetired'
  BY <1>2 DEF SeedsInv, DrawsAreSpentOnce, RevealedIsRetired
<1> QED BY <1>6, <1>8, <1>9, <1>10, <1>11 DEF SeedsInv, DrawsAreSpentOnce

LEMMA ResolveKeeps == ASSUME SeedsAssumption, SeedsInv, NEW c \in SeedCalls, Resolve(c) PROVE SeedsInv'
<1>1. slot' \in [AllGames -> 0..MaxDraws]
  BY SeedRangesOK DEF Resolve, SeedsInv, SeedsTypeOK, SeedRanges
<1> QED BY <1>1, ReturnKeeps DEF Resolve

LEMMA SettleKeeps == ASSUME SeedsAssumption, SeedsInv, NEW g \in Games, Settle(g) PROVE SeedsInv'
<1>1. slot' \in [AllGames -> 0..MaxDraws]
  <2>1. NoDraw \in 0..MaxDraws
    BY SeedRangesOK DEF SeedsInv, NoDraw, SeedRanges
  <2> QED BY <2>1 DEF Settle, SeedsInv, SeedsTypeOK
<1>2. SeedsTypeOK'
  BY <1>1 DEF Settle, SeedsInv, SeedsTypeOK, Stands
<1> QED BY <1>2 DEF Settle, SeedsInv, DrawsOK, PairsOK, RotationsOK, DrawsAreSpentOnce, NonceUnique,
                    RevealedIsRetired, Stands

-----------------------------------------------------------------------------
(* rotateSeed *)

LEMMA RotateKeeps == ASSUME SeedsAssumption, SeedsInv, NEW c \in SeedCalls, Rotate(c) PROVE SeedsInv'
<1> DEFINE r == [Resting EXCEPT !.pc = "select"]
<1>1. r \in SeedCall /\ r.pc = "select" /\ r.seed.pair = 0 /\ 0 <= created
  BY SeedRangesOK DEF Resting, NoContext, NoPair, SeedCall, SeedRanges, SeedsInv
<1>2. slot' \in [AllGames -> 0..MaxDraws] /\ seedCall' = [seedCall EXCEPT ![c] = r]
  BY DEF Rotate, SeedsInv, SeedsTypeOK
<1> HIDE DEF r
<1> QED BY <1>1, <1>2, CallOnly DEF Rotate

LEMMA SelectKeeps == ASSUME SeedsAssumption, SeedsInv, NEW c \in SeedCalls, Select(c) PROVE SeedsInv'
<1>1. PICK p \in IF active = {} THEN {NoPair} ELSE active :
        seedCall' = [seedCall EXCEPT ![c].pc = "retire", ![c].seed.pair = p]
  BY DEF Select
<1>2. p \in 0..MaxPairs /\ p <= created /\ seedCall[c] \in SeedCall /\ seedCall[c].seed \in Context
  BY SeedRangesOK DEF SeedsInv, SeedsTypeOK, SeedRanges, NoPair
<1> DEFINE r == [seedCall[c] EXCEPT !.pc = "retire", !.seed.pair = p]
<1>3. r \in SeedCall /\ r.pc = "retire" /\ r.seed.pair = p /\ seedCall' = [seedCall EXCEPT ![c] = r]
  <2>1. [seedCall[c].seed EXCEPT !.pair = p] \in Context /\ [seedCall[c].seed EXCEPT !.pair = p].pair = p
    BY <1>2 DEF Context
  <2> QED BY <1>1, <1>2, <2>1 DEF SeedCall, SeedsInv, SeedsTypeOK
<1>4. slot' \in [AllGames -> 0..MaxDraws]
  BY DEF Select, SeedsInv, SeedsTypeOK
<1> HIDE DEF r
<1> QED BY <1>2, <1>3, <1>4, CallOnly DEF Select

\* Whatever pair was found: updateMany takes it along, or it is not active any more.
LEMMA RetireKeeps == ASSUME SeedsAssumption, SeedsInv, NEW c \in SeedCalls, Retire(c) PROVE SeedsInv'
<1> DEFINE r == [seedCall[c] EXCEPT !.pc = "commit", !.seen = active]
<1>1. r \in SeedCall /\ r.pc = "commit" /\ r.seen = active /\ r.seed = seedCall[c].seed
      /\ seedCall' = [seedCall EXCEPT ![c] = r]
  <2>1. active \subseteq Pairs /\ seedCall[c] \in SeedCall
    BY SeedRangesOK DEF SeedsInv, SeedsTypeOK, SeedRanges, Pairs
  <2> QED BY <2>1 DEF Retire, SeedCall, SeedsInv, SeedsTypeOK
<1>2. slot' \in [AllGames -> 0..MaxDraws] /\ seedCall[c].seed.pair <= created
  BY DEF Retire, SeedsInv, SeedsTypeOK, PairsOK
<1> HIDE DEF r
<1> QED BY <1>1, <1>2, CallOnly DEF Retire

LEMMA CommitKeeps == ASSUME SeedsAssumption, SeedsInv, NEW c \in SeedCalls, Commit(c) PROVE SeedsInv'
<1> DEFINE p == seedCall[c].seed.pair
<1>1. /\ created \in Nat /\ created + 1 \in 1..MaxPairs /\ created' = created + 1
      /\ active' = (active \ seedCall[c].seen) \cup {created + 1}
      /\ revealed' = revealed \cup ({p} \ {NoPair})
      /\ UNCHANGED <<nonce, bets, context, slot>>
  BY SeedRangesOK DEF Commit, Retired, SeedsInv, SeedRanges
<1>2. seedCall'[c] = Resting /\ (\A d \in SeedCalls : d # c => seedCall'[d] = seedCall[d]) /\ seedCall' \in [SeedCalls -> SeedCall]
  BY SeedRangesOK DEF Commit, Ends, SeedsInv, SeedsTypeOK, SeedRanges
<1>3. /\ p \in Nat /\ p # created + 1 /\ p \notin active \ seedCall[c].seen
      /\ {p} \ {NoPair} \subseteq 1..created
  <2>1. p \in 0..MaxPairs /\ p <= created /\ p \notin active \ seedCall[c].seen
    BY SeedRangesOK DEF Commit, SeedsInv, PairsOK, RotationsOK, SeedRanges
  <2> QED BY <1>1, <2>1 DEF NoPair
<1>4. active \subseteq 1..created /\ revealed \subseteq 1..created /\ Resting.pc = "idle" /\ Resting.seed.pair = 0
  BY SeedRangesOK DEF SeedsInv, SeedsTypeOK, SeedRanges
<1>5. SeedsTypeOK'
  <2>1. \A d \in SeedCalls : Stands(d, "update")' => seedCall'[d].seed.pair \in 1..created'
    BY <1>1, <1>2, <1>4 DEF SeedsInv, SeedsTypeOK, Stands
  <2>2. active' \subseteq 1..created' /\ revealed' \subseteq 1..created' /\ created' \in 0..MaxPairs
    <3>1. created' \in 0..MaxPairs /\ 1..created \subseteq 1..created' /\ created + 1 \in 1..created'
      BY <1>1, SeedRangesOK DEF SeedsInv, SeedRanges
    <3> QED BY <1>1, <1>3, <1>4, <3>1
  <2> QED BY <1>1, <1>2, <2>1, <2>2 DEF SeedsInv, SeedsTypeOK
<1>6. DrawsOK'
  BY <1>1 DEF SeedsInv, DrawsOK
<1>7. PairsOK'
  BY <1>1, <1>2, <1>4, SeedRangesOK DEF SeedsInv, PairsOK, SeedRanges
<1>8. RotationsOK'
  BY <1>1, <1>2, <1>4, SeedRangesOK DEF SeedsInv, RotationsOK, PairsOK, SeedRanges, Stands
<1>9. NonceUnique' /\ RevealedIsRetired'
  <2>1. revealed \cap active = {} /\ created + 1 \notin revealed
    BY <1>1, <1>4 DEF SeedsInv, DrawsAreSpentOnce, RevealedIsRetired
  <2>2. revealed' \cap active' = {}
    BY <1>1, <1>3, <2>1
  <2> QED BY <1>1, <2>2 DEF SeedsInv, DrawsAreSpentOnce, NonceUnique, RevealedIsRetired
<1> QED BY <1>5, <1>6, <1>7, <1>8, <1>9 DEF SeedsInv, DrawsAreSpentOnce

LEMMA AbortKeeps == ASSUME SeedsAssumption, SeedsInv, NEW c \in SeedCalls, Abort(c) PROVE SeedsInv'
<1>1. slot' \in [AllGames -> 0..MaxDraws]
  BY DEF Abort, SeedsInv, SeedsTypeOK
<1> QED BY <1>1, ReturnKeeps DEF Abort

LEMMA SeedsInvStep == ASSUME SeedsAssumption, SeedsInv, [SeedsNext]_seedVars PROVE SeedsInv'
<1>1. CASE UNCHANGED seedVars
  BY <1>1 DEF seedVars, SeedsInv, SeedsTypeOK, DrawsOK, PairsOK, RotationsOK, DrawsAreSpentOnce, NonceUnique,
              RevealedIsRetired, Stands
<1>2. CASE SeedsNext
  BY <1>2, BetKeeps, FindKeeps, CreateKeeps, UpdateKeeps, ResolveKeeps, RotateKeeps, SelectKeeps,
     RetireKeeps, CommitKeeps, AbortKeeps, SettleKeeps DEF SeedsNext
<1> QED BY <1>1, <1>2

-----------------------------------------------------------------------------
(* The theorems *)

\* The invariant that carries the other theorem.
LEMMA SeedsInvariant == ASSUME SeedsAssumption PROVE SeedsSpec => []SeedsInv
<1>1. SeedsInit => SeedsInv
  BY SeedsInvInit
<1>2. SeedsInv /\ [SeedsNext]_seedVars => SeedsInv'
  BY SeedsInvStep
<1> QED BY <1>1, <1>2, PTL DEF SeedsSpec

\* The seeds, the nonces and the calls keep their types, and a bet goes on with a
\* pair that exists.
THEOREM SeedsTypeCorrect == ASSUME SeedsAssumption PROVE SeedsSpec => []SeedsTypeOK
<1>1. SeedsInv => SeedsTypeOK
  BY DEF SeedsInv
<1> QED BY SeedsInvariant, <1>1, PTL

\* However many bets look up, create and increment at once and whatever rotations run
\* between them, no draw decides two bets; and a pair whose server seed a rotation has
\* answered with is never active again.
THEOREM SeedsSpentOnce == ASSUME SeedsAssumption PROVE SeedsSpec => []DrawsAreSpentOnce
<1>1. SeedsInv => DrawsAreSpentOnce
  BY DEF SeedsInv
<1> QED BY SeedsInvariant, <1>1, PTL

-----------------------------------------------------------------------------
(* Bets decided at once: the inductive invariant *)

Stages ==
  {"idle", "assert", "load1", "load2", "judge", "debited", "payoutOf", "cap", "record", "over"}

Request ==
  [pc: Stages, amount: Nat, flag: Nat, limits: Nat, at: Nat, m: Nat, payout: Nat]

Cached == [full: BOOLEAN, flag: Nat, limits: Nat, at: Nat]

ConfigOK ==
  /\ clock \in 0..MaxClock /\ Now \in Versions /\ emptying \in BOOLEAN
  /\ config \in [0..Now -> Config] /\ since \in [0..Now -> 0..clock]

\* Every version after v was committed at time t or later.
Since(v, t) == \A w \in 0..Now : w > v => t <= since[w]

\* The cache was filled by a load that had begun at most Slow before: what came after its
\* versions came after that.
CacheOK ==
  /\ cache \in Cached /\ cache.flag <= Now /\ cache.limits <= Now /\ cache.at <= clock
  /\ cache.full => \A w \in 0..Now : w > cache.flag \/ w > cache.limits => cache.at <= since[w] + Slow

\* A load is not older than Slow, and no time passes between an answer and its use.
LoadsOK(q) ==
  /\ q.pc \in {"load1", "load2"} =>
       /\ q.at <= clock /\ clock <= q.at + Slow /\ q.flag <= Now /\ q.limits <= Now
       /\ Since(q.flag, q.at) /\ Since(q.limits, q.at)
  /\ q.pc = "judge" => q.flag <= Now /\ q.limits <= Now /\ Recent(q.flag) /\ Recent(q.limits)
  /\ q.pc = "cap" => q.limits <= Now /\ Recent(q.limits)

Unpaid == {"idle", "assert", "load1", "judge", "debited", "payoutOf", "load2", "cap"}

\* The credit of bet b is the amount a, or there is none.
CreditIs(b, a) ==
  IF a = 0 THEN \A c \in credited : c.b # b ELSE \E c \in credited : c.b = b /\ c.amount = a

\* How far bet b has come, and what it has left behind.
Behind(b, q) ==
  /\ q.pc # "idle" => q.amount > 0
  /\ q.pc \in {"debited", "payoutOf", "load2", "cap", "record"} => b \in debited
  /\ q.pc \in {"payoutOf", "load2", "cap", "record"} => b \in drawn
  /\ q.pc \in {"payoutOf", "load2", "cap"} => q.m > 0
  /\ q.pc \in Unpaid => q.payout = 0 /\ \A c \in credited : c.b # b
  /\ q.pc \in Unpaid \cup {"record"} => \A s \in recorded : s.b # b
  /\ q.pc = "record" => CreditIs(b, q.payout)

RequestsOK ==
  /\ request \in [Requests -> Request]
  /\ \A b \in Requests : LoadsOK(request[b]) /\ Behind(b, request[b])

EffectsOK ==
  /\ drawn \subseteq debited /\ debited \subseteq Requests
  /\ \A c, d \in credited : c.b = d.b => c = d
  /\ \A c \in credited :
       /\ c.b \in drawn /\ request[c.b].m > 0 /\ c.limits \in 0..Now
       /\ config[c.limits].win > 0 => c.amount <= config[c.limits].win
  /\ \A s \in recorded : CreditIs(s.b, s.payout)

InstantInv == ConfigOK /\ CacheOK /\ RequestsOK /\ EffectsOK

-----------------------------------------------------------------------------
(* The steps of bets decided at once *)

LEMMA InstantInvInit ==
  ASSUME InstantAssumption, InstantInit
  PROVE  InstantInv
<1>1. DOMAIN config = {0} /\ config[0] \in Config
  BY DEF InstantInit, Config
<1>2. Now = 0 /\ {0} = 0..0
  <2>1. Cardinality({0}) = 1
    BY FS_Singleton
  <2> QED BY <1>1, <2>1 DEF Now
<1>3. ConfigOK
  <2>1. Now \in Versions
    BY <1>2 DEF Versions, InstantAssumption
  <2>2. config \in [0..Now -> Config] /\ since \in [0..Now -> 0..clock]
    BY <1>1, <1>2 DEF InstantInit
  <2>3. clock \in 0..MaxClock
    BY DEF InstantInit, InstantAssumption
  <2> QED BY <2>1, <2>2, <2>3 DEF ConfigOK, InstantInit
<1>4. CacheOK
  BY <1>2 DEF CacheOK, Cached, InstantInit, NoCache
<1>5. RequestsOK
  BY DEF RequestsOK, Request, Stages, LoadsOK, Behind, Unpaid, InstantInit, Fresh0
<1>6. EffectsOK
  BY DEF EffectsOK, InstantInit
<1> QED BY <1>3, <1>4, <1>5, <1>6 DEF InstantInv

\* The limits as they stand: their version, and the load a bet needs.
LEMMA Standing ==
  ASSUME InstantAssumption, InstantInv
  PROVE  /\ {Now, clock, Slow, Ttl, MaxVersion, MaxClock} \subseteq Nat
         /\ \A v \in 0..Now : since[v] \in Nat /\ since[v] <= clock
         /\ \A v \in 0..Now : config[v] \in Config
         /\ \A b \in Requests : request[b] \in Request
  BY DEF InstantAssumption, InstantInv, ConfigOK, RequestsOK, Versions

LEMMA RequestMoves ==
  ASSUME InstantInv, NEW b \in Requests, NEW n \in Request, request' = [request EXCEPT ![b] = n]
  PROVE  /\ request' \in [Requests -> Request] /\ request'[b] = n
         /\ \A d \in Requests : d # b => request'[d] = request[d]
  BY DEF InstantInv, RequestsOK

\* A step of one bet that neither takes, draws, pays nor records anything.
LEMMA BetWalks ==
  ASSUME InstantInv, NEW b \in Requests, NEW n \in Request, request' = [request EXCEPT ![b] = n],
         n.m = request[b].m, UNCHANGED <<clock, admin, effects>>, LoadsOK(n), Behind(b, n)
  PROVE  ConfigOK' /\ RequestsOK' /\ EffectsOK'
<1>1. /\ request' \in [Requests -> Request] /\ request'[b] = n
      /\ \A d \in Requests : d # b => request'[d] = request[d]
  BY RequestMoves
<1>2. UNCHANGED <<clock, config, since, emptying, debited, drawn, credited, recorded>> /\ Now' = Now
  BY DEF admin, effects, Now
<1>3. ConfigOK'
  BY <1>2 DEF InstantInv, ConfigOK, Versions
<1>4. RequestsOK'
  <2>1. ASSUME NEW d \in Requests PROVE LoadsOK(request'[d]) /\ Behind(d, request'[d])
    BY <1>1 DEF InstantInv, RequestsOK
  <2>2. ASSUME NEW d \in Requests PROVE LoadsOK(request[d])' /\ Behind(d, request[d])'
    BY <1>2, <2>1 DEF LoadsOK, Behind, Since, Recent, CreditIs
  <2> QED BY <1>1, <2>2 DEF RequestsOK
<1>5. EffectsOK'
  <2>1. \A c \in credited : c.b \in Requests
    BY DEF InstantInv, EffectsOK
  <2>2. \A c \in credited : request'[c.b].m = request[c.b].m
    BY <1>1, <2>1
  <2> QED BY <1>2, <2>2 DEF InstantInv, EffectsOK, CreditIs
<1> QED BY <1>3, <1>4, <1>5

LEMMA CacheStays ==
  ASSUME InstantInv, UNCHANGED <<clock, admin, cache>>
  PROVE  CacheOK'
<1>1. Now' = Now
  BY DEF admin, Now
<1> QED BY <1>1 DEF InstantInv, CacheOK, admin

\* What the cache holds when it is fresh enough to be used.
LEMMA FreshIsRecent ==
  ASSUME InstantAssumption, InstantInv, IsFresh, NEW v \in {cache.flag, cache.limits}
  PROVE  v \in Nat /\ v <= Now /\ Recent(v)
<1>1. /\ v \in Nat /\ v <= Now /\ cache.at \in Nat /\ clock - cache.at < Ttl
      /\ \A w \in 0..Now : w > v => cache.at <= since[w] + Slow
  BY DEF IsFresh, InstantInv, CacheOK, Cached
<1>2. CASE v < Now
  <2>1. v + 1 \in 0..Now /\ v + 1 > v
    BY <1>1, <1>2, Standing
  <2>2. cache.at <= since[v + 1] + Slow /\ since[v + 1] \in Nat
    BY <1>1, <2>1, Standing
  <2> QED BY <1>1, <1>2, <2>2, Standing DEF Recent
<1> QED BY <1>1, <1>2, Standing DEF Recent

\* load(): the bet goes on with what the cache holds, or its first query has answered.
LEMMA Loaded ==
  ASSUME InstantAssumption, InstantInv, NEW b \in Requests, NEW next \in {"judge", "cap"},
         Load(b, next)
  PROVE  \E n \in Request :
           /\ request' = [request EXCEPT ![b] = n] /\ LoadsOK(n)
           /\ n.pc \in (IF next = "judge" THEN {"judge", "load1"} ELSE {"cap", "load2"})
           /\ n.amount = request[b].amount /\ n.m = request[b].m /\ n.payout = request[b].payout
<1>1. request[b] \in Request /\ Now \in Nat /\ clock \in Nat /\ Slow \in Nat
  BY Standing
<1>2. CASE IsFresh
  <2>1. PICK n : n = [request[b] EXCEPT !.pc = next, !.flag = cache.flag, !.limits = cache.limits]
    OBVIOUS
  <2>2. n \in Request
    BY <1>1, <1>2, <2>1, FreshIsRecent DEF Request, Stages
  <2>3. /\ n.pc = next /\ n.flag = cache.flag /\ n.limits = cache.limits /\ n.amount = request[b].amount
        /\ n.m = request[b].m /\ n.payout = request[b].payout
    BY <1>1, <2>1 DEF Request
  <2>4. LoadsOK(n)
    BY <1>2, <2>3, FreshIsRecent DEF LoadsOK
  <2>5. request' = [request EXCEPT ![b] = n]
    BY <1>2, <2>1 DEF Load
  <2> QED BY <2>2, <2>3, <2>4, <2>5
<1>3. CASE ~IsFresh
  <2>1. PICK n : n = [request[b] EXCEPT !.pc = IF next = "judge" THEN "load1" ELSE "load2",
                        !.flag = Now, !.limits = Now, !.at = clock]
    OBVIOUS
  <2>2. n \in Request
    BY <1>1, <2>1 DEF Request, Stages
  <2>3. /\ n.pc = (IF next = "judge" THEN "load1" ELSE "load2") /\ n.flag = Now /\ n.limits = Now /\ n.at = clock
        /\ n.amount = request[b].amount /\ n.m = request[b].m /\ n.payout = request[b].payout
    BY <1>1, <2>1 DEF Request
  <2>4. LoadsOK(n)
    BY <1>1, <2>3 DEF LoadsOK, Since
  <2>5. request' = [request EXCEPT ![b] = n]
    BY <1>3, <2>1 DEF Load
  <2> QED BY <2>2, <2>3, <2>4, <2>5
<1> QED BY <1>2, <1>3

LEMMA ArriveWalks ==
  ASSUME InstantAssumption, InstantInv, NEW b \in Requests, Arrive(b)
  PROVE  InstantInv'
<1>1. PICK a \in Amounts : request' = [request EXCEPT ![b].amount = a, ![b].pc = "assert"]
  BY DEF Arrive
<1>2. request[b] \in Request /\ request[b].pc = "idle" /\ a \in Nat /\ a > 0
  BY Standing DEF Arrive, Reached, InstantAssumption
<1>3. PICK n : n = [request[b] EXCEPT !.amount = a, !.pc = "assert"]
  OBVIOUS
<1>4. /\ n \in Request /\ n.pc = "assert" /\ n.amount = a /\ n.m = request[b].m
      /\ n.payout = request[b].payout
  BY <1>2, <1>3 DEF Request, Stages
<1>5. request' = [request EXCEPT ![b] = n]
  BY <1>1, <1>2, <1>3 DEF Request
<1>6. LoadsOK(n) /\ Behind(b, n)
  BY <1>2, <1>4 DEF LoadsOK, Behind, Unpaid, InstantInv, RequestsOK
<1>7. UNCHANGED <<clock, admin, cache, effects>>
  BY DEF Arrive
<1> QED BY <1>4, <1>5, <1>6, <1>7, BetWalks, CacheStays DEF InstantInv

LEMMA AssertWalks ==
  ASSUME InstantAssumption, InstantInv, NEW b \in Requests, AssertWagerAllowed(b)
  PROVE  InstantInv'
<1>1. request[b].pc = "assert" /\ UNCHANGED <<clock, admin, cache, effects>>
  BY DEF AssertWagerAllowed, Reached
<1>2. PICK n \in Request :
        /\ request' = [request EXCEPT ![b] = n] /\ LoadsOK(n)
        /\ n.pc \in {"judge", "load1"}
        /\ n.amount = request[b].amount /\ n.m = request[b].m /\ n.payout = request[b].payout
  BY Loaded DEF AssertWagerAllowed
<1>3. Behind(b, n)
  BY <1>1, <1>2 DEF Behind, Unpaid, InstantInv, RequestsOK
<1> QED BY <1>1, <1>2, <1>3, BetWalks, CacheStays DEF InstantInv

LEMMA PayoutOfWalks ==
  ASSUME InstantAssumption, InstantInv, NEW b \in Requests, PayoutOf(b)
  PROVE  InstantInv'
<1>1. request[b].pc = "payoutOf" /\ UNCHANGED <<clock, admin, cache, effects>>
  BY DEF PayoutOf, Reached
<1>2. PICK n \in Request :
        /\ request' = [request EXCEPT ![b] = n] /\ LoadsOK(n)
        /\ n.pc \in {"cap", "load2"}
        /\ n.amount = request[b].amount /\ n.m = request[b].m /\ n.payout = request[b].payout
  BY Loaded DEF PayoutOf
<1>3. Behind(b, n)
  BY <1>1, <1>2 DEF Behind, Unpaid, InstantInv, RequestsOK
<1> QED BY <1>1, <1>2, <1>3, BetWalks, CacheStays DEF InstantInv

\* A version seen by a load still under way was in force no longer ago than that load.
LEMMA SeenIsRecent ==
  ASSUME InstantAssumption, InstantInv, NEW b \in Requests, request[b].pc \in {"load1", "load2"},
         NEW v, v \in request[b].flag..Now \/ v \in request[b].limits..Now
  PROVE  /\ v \in Nat /\ v <= Now /\ Recent(v)
         /\ \A w \in 0..Now : w > v => clock <= since[w] + Slow
<1>1. /\ request[b].flag \in Nat /\ request[b].limits \in Nat /\ request[b].at \in Nat
      /\ clock <= request[b].at + Slow
      /\ \A w \in 0..Now : w > request[b].flag \/ w > request[b].limits => request[b].at <= since[w]
  BY DEF InstantInv, RequestsOK, LoadsOK, Request, Since
<1>2. v \in Nat /\ v <= Now /\ (v >= request[b].flag \/ v >= request[b].limits)
  BY <1>1, Standing
<1>3. \A w \in 0..Now : w > v => request[b].at <= since[w]
  BY <1>1, <1>2, Standing
<1>4. \A w \in 0..Now : w > v => clock <= since[w] + Slow
  BY <1>1, <1>3, Standing
<1>5. CASE v < Now
  <2>1. v + 1 \in 0..Now /\ v + 1 > v
    BY <1>2, <1>5, Standing
  <2>2. clock <= since[v + 1] + Slow /\ since[v + 1] \in Nat
    BY <1>4, <2>1, Standing
  <2> QED BY <1>2, <1>4, <1>5, <2>2, Standing DEF Recent
<1> QED BY <1>2, <1>4, <1>5, Standing DEF Recent

\* The queries fill the cache, with a flag and limits that may be as old as the load.
LEMMA FilledWalks ==
  ASSUME InstantAssumption, InstantInv, NEW b \in Requests, Filled(b)
  PROVE  InstantInv'
<1>1. PICK flag \in request[b].flag..Now, limits \in request[b].limits..Now :
        /\ cache' = [full |-> TRUE, flag |-> flag, limits |-> limits, at |-> clock]
        /\ request' = [request EXCEPT ![b].pc = IF @ = "load1" THEN "judge" ELSE "cap",
                                      ![b].flag = flag, ![b].limits = limits]
  BY DEF Filled
<1>2. /\ request[b].pc \in {"load1", "load2"} /\ request[b] \in Request
      /\ UNCHANGED <<clock, admin, effects>>
  BY Standing DEF Filled
<1>3. /\ flag \in Nat /\ flag <= Now /\ Recent(flag)
      /\ \A w \in 0..Now : w > flag => clock <= since[w] + Slow
  BY <1>2, SeenIsRecent
<1>4. /\ limits \in Nat /\ limits <= Now /\ Recent(limits)
      /\ \A w \in 0..Now : w > limits => clock <= since[w] + Slow
  BY <1>2, SeenIsRecent
<1>5. PICK n : n = [request[b] EXCEPT !.pc = IF @ = "load1" THEN "judge" ELSE "cap",
                                      !.flag = flag, !.limits = limits]
  OBVIOUS
<1>6. /\ n \in Request /\ n.pc = (IF request[b].pc = "load1" THEN "judge" ELSE "cap")
      /\ n.flag = flag /\ n.limits = limits /\ n.amount = request[b].amount
      /\ n.m = request[b].m /\ n.payout = request[b].payout
  BY <1>2, <1>3, <1>4, <1>5 DEF Request, Stages
<1>7. request' = [request EXCEPT ![b] = n]
  BY <1>1, <1>2, <1>5 DEF Request
<1>8. LoadsOK(n)
  BY <1>2, <1>3, <1>4, <1>6 DEF LoadsOK
<1>9. Behind(b, n)
  BY <1>2, <1>6 DEF Behind, Unpaid, InstantInv, RequestsOK
<1>10. CacheOK'
  <2>1. Now' = Now /\ UNCHANGED <<clock, since>>
    BY <1>2 DEF admin, Now
  <2>2. /\ cache' \in Cached /\ cache'.full = TRUE /\ cache'.flag = flag
        /\ cache'.limits = limits /\ cache'.at = clock
    BY <1>1, <1>3, <1>4, Standing DEF Cached
  <2> QED BY <1>3, <1>4, <2>1, <2>2, Standing DEF CacheOK
<1> QED BY <1>2, <1>6, <1>7, <1>8, <1>9, <1>10, BetWalks DEF InstantInv

\* A step that leaves something behind, of its own bet only, is nothing to the others.
LEMMA OthersStay ==
  ASSUME InstantInv, NEW b \in Requests, NEW n \in Request, request' = [request EXCEPT ![b] = n],
         UNCHANGED <<clock, admin>>, LoadsOK(n), Behind(b, n)',
         debited \subseteq debited', drawn \subseteq drawn',
         credited \subseteq credited', \A c \in credited' : c \in credited \/ c.b = b,
         \A s \in recorded' : s \in recorded \/ s.b = b
  PROVE  ConfigOK' /\ RequestsOK'
<1>1. /\ request' \in [Requests -> Request] /\ request'[b] = n
      /\ \A d \in Requests : d # b => request'[d] = request[d]
  BY RequestMoves
<1>2. UNCHANGED <<clock, config, since, emptying>> /\ Now' = Now
  BY DEF admin, Now
<1>3. ConfigOK'
  BY <1>2 DEF InstantInv, ConfigOK, Versions
<1>4. ASSUME NEW d \in Requests PROVE LoadsOK(request[d])'
  <2>1. LoadsOK(request'[d])
    BY <1>1 DEF InstantInv, RequestsOK
  <2> QED BY <1>2, <2>1 DEF LoadsOK, Since, Recent
<1>5. ASSUME NEW d \in Requests, d # b PROVE Behind(d, request[d])'
  <2>1. request'[d] = request[d] /\ Behind(d, request[d])
    BY <1>1, <1>5 DEF InstantInv, RequestsOK
  <2>2. (\A c \in credited : c.b # d) => (\A c \in credited' : c.b # d)
    BY <1>5
  <2>3. (\A s \in recorded : s.b # d) => (\A s \in recorded' : s.b # d)
    BY <1>5
  <2>4. ASSUME NEW a, CreditIs(d, a) PROVE CreditIs(d, a)'
    BY <2>2, <2>4 DEF CreditIs
  <2> QED BY <2>1, <2>2, <2>3, <2>4 DEF Behind
<1>6. Behind(b, request[b])'
  BY <1>1
<1> QED BY <1>1, <1>3, <1>4, <1>5, <1>6 DEF RequestsOK

\* A step to the end of a request.
LEMMA BetEnds ==
  ASSUME InstantAssumption, InstantInv, NEW b \in Requests, request[b].pc # "idle", Advance(b, "over"),
         UNCHANGED <<clock, admin, cache, effects>>
  PROVE  InstantInv'
<1>1. PICK n : n = [request[b] EXCEPT !.pc = "over"]
  OBVIOUS
<1>2. n \in Request /\ n.pc = "over" /\ n.m = request[b].m /\ n.amount = request[b].amount
  BY <1>1, Standing DEF Request, Stages
<1>3. request' = [request EXCEPT ![b] = n]
  BY <1>1 DEF Advance
<1>4. LoadsOK(n) /\ Behind(b, n)
  BY <1>2 DEF LoadsOK, Behind, Unpaid, InstantInv, RequestsOK
<1> QED BY <1>2, <1>3, <1>4, BetWalks, CacheStays DEF InstantInv

LEMMA JudgeWalks ==
  ASSUME InstantAssumption, InstantInv, NEW b \in Requests, Judge(b)
  PROVE  InstantInv'
<1>1. request[b].pc = "judge" /\ UNCHANGED <<clock, admin, cache, drawn, credited, recorded>>
  BY DEF Judge, Reached
<1>2. CASE Advance(b, "over") /\ UNCHANGED debited
  BY <1>1, <1>2, BetEnds DEF effects
<1>3. CASE debited' = debited \cup {b} /\ Advance(b, "debited")
  <2>1. PICK n : n = [request[b] EXCEPT !.pc = "debited"]
    OBVIOUS
  <2>2. /\ n \in Request /\ n.pc = "debited" /\ n.m = request[b].m /\ n.amount = request[b].amount
        /\ n.payout = request[b].payout
    BY <2>1, Standing DEF Request, Stages
  <2>3. request' = [request EXCEPT ![b] = n]
    BY <1>3, <2>1 DEF Advance
  <2>4. LoadsOK(n)
    BY <2>2 DEF LoadsOK
  <2>5. Behind(b, n)'
    BY <1>1, <1>3, <2>2 DEF Behind, Unpaid, InstantInv, RequestsOK
  <2>6. ConfigOK' /\ RequestsOK'
    BY <1>1, <1>3, <2>2, <2>3, <2>4, <2>5, OthersStay
  <2>7. EffectsOK'
    <3>1. /\ request'[b].m = request[b].m
          /\ \A d \in Requests : d # b => request'[d] = request[d]
      BY <2>2, <2>3, RequestMoves
    <3>2. \A c \in credited : c.b \in Requests
      BY DEF InstantInv, EffectsOK
    <3>3. \A c \in credited : request'[c.b].m = request[c.b].m
      BY <3>1, <3>2
    <3>4. Now' = Now /\ config' = config
      BY <1>1 DEF admin, Now
    <3> QED BY <1>1, <1>3, <3>3, <3>4 DEF InstantInv, EffectsOK, CreditIs
  <2> QED BY <1>1, <2>6, <2>7, CacheStays DEF InstantInv
<1> QED BY <1>2, <1>3 DEF Judge

LEMMA DrawWalks ==
  ASSUME InstantAssumption, InstantInv, NEW b \in Requests, Draw(b)
  PROVE  InstantInv'
<1>1. /\ request[b].pc = "debited" /\ drawn' = drawn \cup {b}
      /\ UNCHANGED <<clock, admin, cache, debited, credited, recorded>>
  BY DEF Draw, DrawsFrom, Reached
<1>2. b \in debited /\ (\A c \in credited : c.b # b) /\ (\A s \in recorded : s.b # b) /\ request[b].payout = 0
  BY <1>1 DEF InstantInv, RequestsOK, Behind, Unpaid
<1>3. PICK n \in Request :
        /\ request' = [request EXCEPT ![b] = n] /\ n.pc \in {"payoutOf", "record", "over"}
        /\ n.pc = "payoutOf" => n.m > 0
        /\ n.amount = request[b].amount /\ n.payout = request[b].payout
  <2>1. request[b] \in Request
    BY Standing
  <2>2. CASE Advance(b, "over")
    <3>1. PICK n : n = [request[b] EXCEPT !.pc = "over"]
      OBVIOUS
    <3>2. /\ n \in Request /\ n.pc = "over" /\ n.amount = request[b].amount
          /\ n.payout = request[b].payout
      BY <2>1, <3>1 DEF Request, Stages
    <3> QED BY <2>2, <3>1, <3>2 DEF Advance
  <2>3. ASSUME NEW m \in Multipliers,
               request' = [request EXCEPT ![b].m = m, ![b].pc = IF m > 0 THEN "payoutOf" ELSE "record"]
        PROVE  \E n \in Request :
                 /\ request' = [request EXCEPT ![b] = n] /\ n.pc \in {"payoutOf", "record", "over"}
                 /\ n.pc = "payoutOf" => n.m > 0
                 /\ n.amount = request[b].amount /\ n.payout = request[b].payout
    <3>1. m \in Nat
      BY DEF InstantAssumption
    <3>2. PICK n : n = [request[b] EXCEPT !.m = m, !.pc = IF m > 0 THEN "payoutOf" ELSE "record"]
      OBVIOUS
    <3>3. /\ n \in Request /\ n.pc = (IF m > 0 THEN "payoutOf" ELSE "record") /\ n.m = m
          /\ n.amount = request[b].amount /\ n.payout = request[b].payout
      BY <2>1, <3>1, <3>2 DEF Request, Stages
    <3>4. request' = [request EXCEPT ![b] = n]
      BY <2>1, <2>3, <3>2 DEF Request
    <3> QED BY <3>3, <3>4
  <2> QED BY <2>2, <2>3 DEF Draw
<1>4. LoadsOK(n)
  BY <1>3 DEF LoadsOK
<1>5. Behind(b, n)'
  BY <1>1, <1>2, <1>3 DEF Behind, Unpaid, CreditIs, InstantInv, RequestsOK
<1>6. ConfigOK' /\ RequestsOK'
  BY <1>1, <1>3, <1>4, <1>5, OthersStay
<1>7. EffectsOK'
  <2>1. \A d \in Requests : d # b => request'[d] = request[d]
    BY <1>3, RequestMoves
  <2>2. \A c \in credited : c.b \in Requests /\ c.b # b
    BY <1>2 DEF InstantInv, EffectsOK
  <2>3. \A c \in credited : request'[c.b].m = request[c.b].m
    BY <2>1, <2>2
  <2>4. Now' = Now /\ config' = config
    BY <1>1 DEF admin, Now
  <2> QED BY <1>1, <1>2, <2>3, <2>4 DEF InstantInv, EffectsOK, CreditIs
<1> QED BY <1>1, <1>6, <1>7, CacheStays DEF InstantInv

\* A stake that won is worth something, and no more than the cap.
LEMMA CappedWin ==
  ASSUME InstantAssumption, InstantInv, NEW b \in Requests, request[b].pc = "cap"
  PROVE  /\ Capped(b) \in Nat /\ Capped(b) # 0
         /\ config[request[b].limits].win > 0 => Capped(b) <= config[request[b].limits].win
<1>1. request[b].amount \in Nat \ {0} /\ request[b].m \in Nat \ {0} /\ request[b].limits \in 0..Now
  BY Standing DEF InstantInv, RequestsOK, Behind, LoadsOK, Request
<1>2. \A x, y \in Nat \ {0} : x * y \in Nat \ {0}
  OBVIOUS
<1>3. request[b].amount * request[b].m \in Nat \ {0}
  BY <1>1, <1>2
<1>4. config[request[b].limits].win \in Nat
  BY <1>1, Standing DEF Config, InstantAssumption
<1> QED BY <1>3, <1>4 DEF Capped

LEMMA CreditWalks ==
  ASSUME InstantAssumption, InstantInv, NEW b \in Requests, CreditWin(b)
  PROVE  InstantInv'
<1>1. request[b].pc = "cap" /\ UNCHANGED <<clock, admin, cache, debited, drawn, recorded>>
  BY DEF CreditWin, Reached
<1>2. CASE Advance(b, "over") /\ UNCHANGED credited
  BY <1>1, <1>2, BetEnds DEF effects
<1>3. CASE /\ credited' = credited \cup {[b |-> b, amount |-> Capped(b), limits |-> request[b].limits]}
           /\ request' = [request EXCEPT ![b].payout = Capped(b), ![b].pc = "record"]
  <2>1. /\ request[b] \in Request /\ b \in debited /\ b \in drawn /\ request[b].m > 0
        /\ request[b].amount > 0 /\ request[b].limits \in 0..Now
        /\ (\A c \in credited : c.b # b) /\ (\A s \in recorded : s.b # b)
    BY <1>1, Standing DEF InstantInv, RequestsOK, Behind, LoadsOK, Unpaid, Request
  <2>2. PICK won : won = Capped(b)
    OBVIOUS
  <2>3. won \in Nat /\ won # 0 /\ (config[request[b].limits].win > 0 => won <= config[request[b].limits].win)
    BY <1>1, <2>2, CappedWin
  <2>4. PICK x : x = [b |-> b, amount |-> won, limits |-> request[b].limits]
    OBVIOUS
  <2>5. x.b = b /\ x.amount = won /\ x.limits = request[b].limits
    BY <2>4
  <2>6. credited' = credited \cup {x}
    BY <1>3, <2>2, <2>4
  <2>7. PICK n : n = [request[b] EXCEPT !.payout = won, !.pc = "record"]
    OBVIOUS
  <2>8. /\ n \in Request /\ n.pc = "record" /\ n.m = request[b].m /\ n.amount = request[b].amount
        /\ n.payout = won
    BY <2>1, <2>3, <2>7 DEF Request, Stages
  <2>9. request' = [request EXCEPT ![b] = n]
    BY <1>3, <2>1, <2>2, <2>7 DEF Request
  <2>10. LoadsOK(n)
    BY <2>8 DEF LoadsOK
  <2>11. CreditIs(b, won)'
    BY <2>3, <2>5, <2>6 DEF CreditIs
  <2>12. Behind(b, n)'
    BY <1>1, <2>1, <2>8, <2>11 DEF Behind, Unpaid
  <2>13. \A c \in credited' : c \in credited \/ c.b = b
    BY <2>5, <2>6
  <2>14. ConfigOK' /\ RequestsOK'
    BY <1>1, <2>6, <2>8, <2>9, <2>10, <2>12, <2>13, OthersStay
  <2>15. EffectsOK'
    <3>1. request'[b] = n /\ \A d \in Requests : d # b => request'[d] = request[d]
      BY <2>8, <2>9, RequestMoves
    <3>2. \A c \in credited : c.b \in Requests /\ c.b # b
      BY <2>1 DEF InstantInv, EffectsOK
    <3>3. \A c \in credited : request'[c.b].m = request[c.b].m
      BY <3>1, <3>2
    <3>4. Now' = Now /\ config' = config
      BY <1>1 DEF admin, Now
    <3>5. \A c, d \in credited' : c.b = d.b => c = d
      BY <2>5, <2>6, <3>2 DEF InstantInv, EffectsOK
    <3>6. ASSUME NEW c \in credited'
          PROVE  /\ c.b \in drawn /\ request'[c.b].m > 0 /\ c.limits \in 0..Now
                 /\ config[c.limits].win > 0 => c.amount <= config[c.limits].win
      <4>1. CASE c = x
        BY <2>1, <2>3, <2>5, <2>8, <3>1, <4>1
      <4>2. CASE c \in credited
        BY <3>3, <4>2 DEF InstantInv, EffectsOK
      <4> QED BY <2>6, <4>1, <4>2
    <3>7. ASSUME NEW s \in recorded PROVE CreditIs(s.b, s.payout)'
      <4>1. CreditIs(s.b, s.payout) /\ s.b # b
        BY <2>1 DEF InstantInv, EffectsOK
      <4> QED BY <2>5, <2>6, <4>1 DEF CreditIs
    <3> QED BY <1>1, <3>4, <3>5, <3>6, <3>7 DEF InstantInv, EffectsOK
  <2> QED BY <1>1, <2>14, <2>15, CacheStays DEF InstantInv
<1> QED BY <1>2, <1>3 DEF CreditWin

LEMMA RecordWalks ==
  ASSUME InstantAssumption, InstantInv, NEW b \in Requests, Record(b)
  PROVE  InstantInv'
<1>1. /\ request[b].pc = "record" /\ Advance(b, "over")
      /\ UNCHANGED <<clock, admin, cache, debited, drawn, credited>>
  BY DEF Record, Reached
<1>2. CASE UNCHANGED recorded
  BY <1>1, <1>2, BetEnds DEF effects
<1>3. CASE recorded' = recorded \cup {[b |-> b, payout |-> Written(b)]}
  <2>1. CreditIs(b, request[b].payout) /\ request[b].amount > 0
    BY <1>1 DEF InstantInv, RequestsOK, Behind
  <2>2. PICK x : x = [b |-> b, payout |-> request[b].payout]
    OBVIOUS
  <2>3. x.b = b /\ x.payout = request[b].payout /\ recorded' = recorded \cup {x}
    BY <1>3, <2>2 DEF Written
  <2>4. PICK n : n = [request[b] EXCEPT !.pc = "over"]
    OBVIOUS
  <2>5. n \in Request /\ n.pc = "over" /\ n.m = request[b].m /\ n.amount = request[b].amount
    BY <2>4, Standing DEF Request, Stages
  <2>6. request' = [request EXCEPT ![b] = n]
    BY <1>1, <2>4 DEF Advance
  <2>7. LoadsOK(n) /\ Behind(b, n)'
    BY <2>1, <2>5 DEF LoadsOK, Behind, Unpaid
  <2>8. \A s \in recorded' : s \in recorded \/ s.b = b
    BY <2>3
  <2>9. ConfigOK' /\ RequestsOK'
    BY <1>1, <2>5, <2>6, <2>7, <2>8, OthersStay
  <2>10. EffectsOK'
    <3>1. request'[b].m = request[b].m /\ \A d \in Requests : d # b => request'[d] = request[d]
      BY <2>5, <2>6, RequestMoves
    <3>2. \A c \in credited : c.b \in Requests
      BY DEF InstantInv, EffectsOK
    <3>3. \A c \in credited : request'[c.b].m = request[c.b].m
      BY <3>1, <3>2
    <3>4. Now' = Now /\ config' = config
      BY <1>1 DEF admin, Now
    <3>5. ASSUME NEW s \in recorded' PROVE CreditIs(s.b, s.payout)'
      <4>1. CreditIs(s.b, s.payout)
        BY <2>1, <2>3 DEF InstantInv, EffectsOK
      <4> QED BY <1>1, <4>1 DEF CreditIs
    <3> QED BY <1>1, <3>3, <3>4, <3>5 DEF InstantInv, EffectsOK
  <2> QED BY <1>1, <2>9, <2>10, CacheStays DEF InstantInv
<1> QED BY <1>2, <1>3 DEF Record

-----------------------------------------------------------------------------
(* The limits change, and time passes *)

\* A version that is recent stays recent when another is committed.
LEMMA WriteKeeps ==
  ASSUME InstantAssumption, InstantInv, WriteConfig
  PROVE  InstantInv'
<1>1. /\ Now < MaxVersion /\ emptying' = TRUE /\ UNCHANGED <<clock, cache, request, effects>>
      /\ since' = [v \in DOMAIN since \cup {Now + 1} |-> IF v = Now + 1 THEN clock ELSE since[v]]
  BY DEF WriteConfig
<1>2. PICK new \in Config :
        config' = [v \in DOMAIN config \cup {Now + 1} |-> IF v = Now + 1 THEN new ELSE config[v]]
  BY DEF WriteConfig
<1>3. /\ Now \in Nat /\ Now + 1 \in Nat /\ Now \in 0..Now /\ 0..Now \cup {Now + 1} = 0..(Now + 1)
      /\ DOMAIN config = 0..Now /\ DOMAIN since = 0..Now /\ Now + 1 \notin 0..Now
  BY Standing DEF InstantInv, ConfigOK
<1>4. Now' = Now + 1
  <2>1. Cardinality(0..(Now + 1)) = Now + 2
    BY <1>3, FS_Interval
  <2>2. DOMAIN config' = 0..(Now + 1)
    BY <1>2, <1>3
  <2> QED BY <1>3, <2>1, <2>2 DEF Now
<1>5. /\ config' \in [0..(Now + 1) -> Config]
      /\ \A v \in 0..Now : config'[v] = config[v]
  BY <1>2, <1>3, Standing
<1>6. /\ since' \in [0..(Now + 1) -> 0..clock] /\ since'[Now + 1] = clock
      /\ \A v \in 0..Now : since'[v] = since[v]
  BY <1>1, <1>3, Standing
<1>7. ConfigOK'
  <2>1. Now + 1 \in Versions
    BY <1>1, <1>3, Standing DEF Versions
  <2>2. clock \in 0..MaxClock
    BY DEF InstantInv, ConfigOK
  <2> QED BY <1>1, <1>4, <1>5, <1>6, <2>1, <2>2 DEF ConfigOK, Versions
<1>8. ASSUME NEW v \in Nat, NEW t \in Nat, v <= Now, t <= clock, Since(v, t)
      PROVE  Since(v, t)'
  <2> SUFFICES ASSUME NEW w \in 0..(Now + 1), w > v PROVE t <= since'[w]
    BY <1>4 DEF Since
  <2>1. CASE w \in 0..Now
    BY <1>6, <1>8, <2>1 DEF Since
  <2>2. CASE w = Now + 1
    BY <1>6, <1>8, <2>2
  <2> QED BY <1>3, <2>1, <2>2
<1>9. ASSUME NEW v \in Nat, v <= Now, Recent(v) PROVE Recent(v)'
  <2>1. CASE v = Now
    BY <1>1, <1>3, <1>4, <1>6, <2>1, Standing DEF Recent
  <2>2. CASE v < Now
    <3>1. v + 1 \in 0..Now
      BY <1>3, <2>2
    <3> QED BY <1>1, <1>3, <1>4, <1>6, <1>9, <2>2, <3>1, Standing DEF Recent
  <2> QED BY <1>3, <1>9, <2>1, <2>2
<1>10. CacheOK'
  <2>1. /\ cache \in Cached /\ cache.flag \in Nat /\ cache.limits \in Nat /\ cache.at \in Nat
        /\ cache.flag <= Now /\ cache.limits <= Now /\ cache.at <= clock
    BY DEF InstantInv, CacheOK, Cached
  <2>2. ASSUME cache.full, NEW w \in 0..(Now + 1), w > cache.flag \/ w > cache.limits
        PROVE  cache.at <= since'[w] + Slow
    <3>1. CASE w \in 0..Now
      BY <1>6, <2>2, <3>1 DEF InstantInv, CacheOK
    <3>2. CASE w = Now + 1
      BY <1>6, <2>1, <3>2, Standing
    <3> QED BY <1>3, <3>1, <3>2
  <2>3. cache.flag <= Now + 1 /\ cache.limits <= Now + 1
    BY <1>3, <2>1
  <2> QED BY <1>1, <1>4, <2>1, <2>2, <2>3 DEF CacheOK
<1>11. RequestsOK'
  <2>1. ASSUME NEW b \in Requests PROVE LoadsOK(request[b])' /\ Behind(b, request[b])'
    <3>1. /\ request[b] \in Request /\ request[b].flag \in Nat /\ request[b].limits \in Nat
          /\ request[b].at \in Nat /\ LoadsOK(request[b]) /\ Behind(b, request[b])
      BY Standing DEF InstantInv, RequestsOK, Request
    <3>2. Behind(b, request[b])'
      BY <1>1, <3>1 DEF Behind, CreditIs, effects
    <3>3. CASE request[b].pc \in {"load1", "load2"}
      <4>1. request[b].flag <= Now + 1 /\ request[b].limits <= Now + 1
        BY <1>3, <3>1, <3>3 DEF LoadsOK
      <4>2. Since(request[b].flag, request[b].at)' /\ Since(request[b].limits, request[b].at)'
        BY <1>1, <1>8, <3>1, <3>3 DEF LoadsOK
      <4> QED BY <1>1, <1>4, <3>1, <3>2, <3>3, <4>1, <4>2 DEF LoadsOK
    <3>4. CASE request[b].pc = "judge"
      BY <1>1, <1>3, <1>4, <1>9, <3>1, <3>2, <3>4 DEF LoadsOK
    <3>5. CASE request[b].pc = "cap"
      BY <1>1, <1>3, <1>4, <1>9, <3>1, <3>2, <3>5 DEF LoadsOK
    <3> QED BY <1>1, <3>2, <3>3, <3>4, <3>5 DEF LoadsOK
  <2> QED BY <1>1, <2>1 DEF InstantInv, RequestsOK
<1>12. EffectsOK'
  <2>1. \A c \in credited : c.limits \in 0..Now /\ c.limits \in 0..(Now + 1)
    BY <1>3 DEF InstantInv, EffectsOK
  <2>2. \A c \in credited : config'[c.limits] = config[c.limits]
    BY <1>5, <2>1
  <2> QED BY <1>1, <1>4, <2>1, <2>2 DEF InstantInv, EffectsOK, CreditIs, effects
<1> QED BY <1>7, <1>10, <1>11, <1>12 DEF InstantInv

LEMMA InvalidateKeeps ==
  ASSUME InstantAssumption, InstantInv, Invalidate
  PROVE  InstantInv'
<1>1. /\ emptying' = FALSE /\ cache' = NoCache
      /\ UNCHANGED <<clock, config, since, request, debited, drawn, credited, recorded>> /\ Now' = Now
  BY DEF Invalidate, effects, Now
<1>2. ConfigOK'
  BY <1>1 DEF InstantInv, ConfigOK, Versions
<1>3. CacheOK'
  BY <1>1, Standing DEF CacheOK, NoCache, Cached
<1>4. RequestsOK' /\ EffectsOK'
  BY <1>1 DEF InstantInv, RequestsOK, EffectsOK, LoadsOK, Behind, Since, Recent, CreditIs
<1> QED BY <1>2, <1>3, <1>4 DEF InstantInv

LEMMA TickKeeps ==
  ASSUME InstantAssumption, InstantInv, Tick
  PROVE  InstantInv'
<1>1. /\ clock' = clock + 1 /\ Now' = Now
      /\ UNCHANGED <<config, since, emptying, cache, request, debited, drawn, credited, recorded>>
      /\ \A b \in Requests : request[b].pc \notin {"judge", "cap"}
      /\ \A b \in Requests : request[b].pc \in {"load1", "load2"} => clock - request[b].at < Slow
  BY DEF Tick, admin, effects, Now
<1>2. ConfigOK'
  <2>1. since \in [0..Now -> 0..(clock + 1)]
    BY Standing DEF InstantInv, ConfigOK
  <2>2. clock + 1 \in 0..MaxClock
    BY Standing DEF Tick
  <2> QED BY <1>1, <2>1, <2>2 DEF InstantInv, ConfigOK, Versions
<1>3. CacheOK'
  <2>1. cache.at <= clock + 1
    BY Standing DEF InstantInv, CacheOK, Cached
  <2> QED BY <1>1, <2>1 DEF InstantInv, CacheOK, Since
<1>4. ASSUME NEW b \in Requests PROVE LoadsOK(request[b])' /\ Behind(b, request[b])'
  <2>1. LoadsOK(request[b]) /\ Behind(b, request[b]) /\ request[b].at \in Nat
    BY Standing DEF InstantInv, RequestsOK, Request
  <2>2. Behind(b, request[b])'
    BY <1>1, <2>1 DEF Behind, CreditIs
  <2>3. request[b].pc \in {"load1", "load2"} =>
          request[b].at <= clock + 1 /\ clock + 1 <= request[b].at + Slow
    BY <1>1, <2>1, Standing DEF LoadsOK
  <2> QED BY <1>1, <2>1, <2>2, <2>3 DEF LoadsOK, Since
<1>5. RequestsOK'
  BY <1>1, <1>4 DEF InstantInv, RequestsOK
<1>6. EffectsOK'
  BY <1>1 DEF InstantInv, EffectsOK, CreditIs
<1> QED BY <1>2, <1>3, <1>5, <1>6 DEF InstantInv

LEMMA InstantInvStep ==
  ASSUME InstantAssumption, InstantInv, [InstantNext]_instantVars
  PROVE  InstantInv'
<1>1. ASSUME NEW b \in Requests, Handle(b) PROVE InstantInv'
  BY <1>1, ArriveWalks, AssertWalks, FilledWalks, JudgeWalks, DrawWalks, PayoutOfWalks, CreditWalks,
     RecordWalks DEF Handle
<1>2. CASE WriteConfig
  BY <1>2, WriteKeeps
<1>3. CASE Invalidate
  BY <1>3, InvalidateKeeps
<1>4. CASE Tick
  BY <1>4, TickKeeps
<1>5. CASE UNCHANGED instantVars
  <2>1. UNCHANGED <<clock, config, since, emptying, cache, request, debited, drawn, credited, recorded>>
        /\ Now' = Now
    BY <1>5 DEF instantVars, Now
  <2>2. ConfigOK' /\ CacheOK'
    BY <2>1 DEF InstantInv, ConfigOK, CacheOK, Since, Versions
  <2>3. RequestsOK'
    BY <2>1 DEF InstantInv, RequestsOK, LoadsOK, Behind, Since, Recent, CreditIs
  <2>4. EffectsOK'
    BY <2>1 DEF InstantInv, EffectsOK, CreditIs
  <2> QED BY <2>2, <2>3, <2>4 DEF InstantInv
<1> QED BY <1>1, <1>2, <1>3, <1>4, <1>5 DEF InstantNext

LEMMA InstantInvariant ==
  ASSUME InstantAssumption
  PROVE  InstantSpec => []InstantInv
<1>1. InstantInit => InstantInv
  BY InstantInvInit
<1>2. InstantInv /\ [InstantNext]_instantVars => InstantInv'
  BY InstantInvStep
<1> QED BY <1>1, <1>2, PTL DEF InstantSpec

\* The variables of bets decided at once keep their types, whatever fails and however often
\* the limits change.
THEOREM InstantTypeCorrect ==
  ASSUME InstantAssumption
  PROVE  InstantSpec => []InstantTypeOK
<1>1. ASSUME InstantInv PROVE InstantTypeOK
  <2>1. /\ clock \in 0..MaxClock /\ DOMAIN config = 0..Now /\ Now \in Versions
        /\ DOMAIN since = DOMAIN config /\ \A v \in DOMAIN config : config[v] \in Config
    BY <1>1 DEF InstantInv, ConfigOK
  <2>2. cache.flag \in DOMAIN config /\ cache.limits \in DOMAIN config /\ cache.at <= clock
    BY <1>1, <2>1, Standing DEF InstantInv, CacheOK, Cached
  <2>3. \A b \in Requests : request[b].pc \in Stages
    BY <1>1, Standing DEF Request
  <2>4. drawn \subseteq Requests /\ debited \subseteq Requests
    BY <1>1 DEF InstantInv, EffectsOK
  <2> QED BY <2>1, <2>2, <2>3, <2>4 DEF InstantTypeOK, Stages
<1>2. InstantInv => InstantTypeOK
  BY <1>1
<1> QED BY <1>2, InstantInvariant, PTL

\* A bet decided at once is judged, and its win capped, by limits no staler than the cache's
\* lifetime and one load, though a load may fill the cache after it was emptied; nothing is
\* drawn for a stake that was not taken, a win is credited once and within its cap, and the
\* history row tells the credit, whichever call of the handler fails.
THEOREM InstantBetsHold ==
  ASSUME InstantAssumption
  PROVE  InstantSpec => []InstantBetsAddUp
<1>1. ASSUME InstantInv PROVE JudgedByRecentLimits
  BY <1>1 DEF JudgedByRecentLimits, Reached, InstantInv, RequestsOK, LoadsOK
<1>2. ASSUME InstantInv PROVE BetsAddUp
  <2>1. ASSUME NEW s \in recorded
        PROVE  IF s.payout = 0 THEN ~\E c \in credited : c.b = s.b
               ELSE \E c \in credited : c.b = s.b /\ c.amount = s.payout
    BY <1>2 DEF InstantInv, EffectsOK, CreditIs
  <2> QED BY <1>2, <2>1 DEF BetsAddUp, InstantInv, EffectsOK
<1>3. InstantInv => InstantBetsAddUp
  BY <1>1, <1>2 DEF InstantBetsAddUp
<1> QED BY <1>3, InstantInvariant, PTL
=============================================================================
