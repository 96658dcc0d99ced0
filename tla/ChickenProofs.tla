---------------------------- MODULE ChickenProofs ----------------------------
(***************************************************************************)
(* Theorems about Chicken Road, for any number of calls, bets, restarts    *)
(* and lanes: a win is the price of the lanes its round crossed, starts    *)
(* and history rows come one at a time, and no bet is decided twice.       *)
(*                                                                         *)
(* What carries them is that a round belongs to somebody: an open round to *)
(* the player's next frame, and a round that is being opened or settled to *)
(* one call alone.  Closing a round before the first await is what keeps   *)
(* the second from having two owners.                                      *)
(*                                                                         *)
(* And a theorem about the pages the rounds are shown on: what they show   *)
(* is what was decided, for any number of frames on their way, lost with   *)
(* their connection, or of another page.  What carries it is, for each     *)
(* page, what the frames between the server and the page make of what is   *)
(* shown: played in their order, they lead from the one to the other.      *)
(***************************************************************************)
EXTENDS MCRounds, SequenceTheorems, FiniteSetTheorems, TLAPS

(* The inductive invariant *)

\* The calls that own a bet: the one that opens its round, or settles it.
Owns(c) == At(c, "seed") \/ At(c, "credit") \/ At(c, "clear") \/ At(c, "record")

\* A bet that is owned was placed, and has one owner.
OwnersOK ==
  \A c \in Calls : Owns(c) =>
    /\ call[c].bet \in 1..placed
    /\ \A d \in Calls : Owns(d) /\ call[d].bet = call[c].bet => c = d

\* A start runs under the flag, and alone.
FlagOK == (\E c \in Calls : Starting(c)) => startsInFlight

\* What is not placed has left no trace.
FreshOK ==
  /\ chicken <= placed
  /\ \A b \in Bets : b > placed => ~state[b].active /\ paid[b] = 0 /\ b \notin busted

\* An open round is undecided, and nobody is opening or settling it.
ActiveOK ==
  \A b \in Bets : state[b].active =>
    /\ paid[b] = 0 /\ b \notin busted
    /\ \A c \in Calls : Owns(c) => call[c].bet # b

\* A round that is being opened or paid is undecided; the price is that of its lane.
Undecided(b) == paid[b] = 0 /\ b \notin busted
SeedOK == \A c \in Calls : At(c, "seed") => Undecided(call[c].bet)
CreditOK ==
  \A c \in Calls : At(c, "credit") =>
    /\ Undecided(call[c].bet)
    /\ call[c].multiplier = state[call[c].bet].lane
    /\ call[c].multiplier >= MinCashoutLane

\* A round whose history row is still to be written is decided, and has none.
RecordOK ==
  \A c \in Calls : At(c, "clear") \/ At(c, "record") =>
    sessions[call[c].bet] = 0 /\ ~Undecided(call[c].bet)

\* The lanes a round has crossed were safe.
SafeOK == \A b \in Bets : state[b].bustLane \notin 1..state[b].lane

\* A bet that was paid was not lost, and what it was paid is the price of its lane.
PaidOK ==
  \A b \in Bets : paid[b] # 0 =>
    b \notin busted /\ paid[b] = state[b].lane /\ paid[b] >= MinCashoutLane

Calm == OwnersOK /\ FlagOK /\ OneStart /\ FreshOK /\ ActiveOK
Money == SeedOK /\ CreditOK /\ RecordOK /\ SafeOK /\ PaidOK /\ OneSession
Inv == TypeOK /\ Calm /\ Money

-----------------------------------------------------------------------------
(* It holds at the start *)

LEMMA InvInit == ASSUME ChickenAssumption, Init PROVE Inv
<1> USE DEF ChickenAssumption, BoundsAssumption, LanesAssumption, NoBet, NoLane
<1>1. TypeOK
  <2>1. 0 \in Lanes /\ 0 \in 0..MaxLanes /\ 0 \in 0..MaxBets /\ 0 \in 0..MaxRestarts
    BY DEF Lanes
  <2>2. Idle \in Call /\ [lane |-> 0, bustLane |-> 0, active |-> FALSE] \in Round
    BY <2>1 DEF Round, Call, Idle
  <2> QED BY <2>1, <2>2 DEF Init, TypeOK
<1>2. Calm
  BY DEF Init, Calm, OwnersOK, FlagOK, OneStart, FreshOK, ActiveOK, Owns, Starting, At, Idle
<1>3. Money
  BY DEF Init, Money, SeedOK, CreditOK, RecordOK, SafeOK, PaidOK, OneSession, At, Idle
<1> QED BY <1>1, <1>2, <1>3 DEF Inv

-----------------------------------------------------------------------------
(* Every step keeps it *)

\* What the types say of the bounds, of one call and of one round.
Ranges ==
  /\ MaxBets \in Nat /\ MaxRestarts \in Nat /\ MaxLanes \in Nat /\ MaxLanes > 0
  /\ MinCashoutLane \in Nat /\ MinCashoutLane > 0 /\ MinCashoutLane <= MaxLanes
  /\ Lanes \subseteq Nat /\ 0 \in Lanes /\ Idle \in Call
  /\ placed \in Nat /\ placed <= MaxBets /\ chicken \in Nat /\ chicken <= MaxBets
  /\ \A c \in Calls : /\ call[c] \in Call /\ call[c].bet \in 0..MaxBets
                       /\ call[c].multiplier \in Lanes
  /\ \A b \in Bets : /\ state[b] \in Round /\ state[b].lane \in Lanes
                      /\ state[b].bustLane \in 0..MaxLanes /\ state[b].active \in BOOLEAN
  /\ Live => chicken \in Bets /\ state[chicken].active

LEMMA RangesOK == ASSUME ChickenAssumption, TypeOK PROVE Ranges
<1>1. /\ MaxBets \in Nat /\ MaxRestarts \in Nat /\ MaxLanes \in Nat /\ MaxLanes > 0
      /\ MinCashoutLane \in Nat /\ MinCashoutLane > 0 /\ MinCashoutLane <= MaxLanes
      /\ MaxOverrun \in Nat
  BY DEF ChickenAssumption, BoundsAssumption, LanesAssumption
<1>2. Lanes \subseteq Nat /\ 0 \in Lanes
  BY <1>1 DEF Lanes
<1>3. Idle \in Call
  BY <1>1, <1>2 DEF Idle, Call, NoBet
<1>4. /\ placed \in Nat /\ placed <= MaxBets /\ chicken \in Nat /\ chicken <= MaxBets
      /\ Live => chicken \in Bets /\ state[chicken].active
  BY <1>1 DEF TypeOK, Live, NoBet, Bets
<1>5. \A c \in Calls : /\ call[c] \in Call /\ call[c].bet \in 0..MaxBets
                       /\ call[c].multiplier \in Lanes
  BY DEF TypeOK, Call
<1>6. \A b \in Bets : /\ state[b] \in Round /\ state[b].lane \in Lanes
                      /\ state[b].bustLane \in 0..MaxLanes /\ state[b].active \in BOOLEAN
  BY DEF TypeOK, Round
<1> QED BY <1>1, <1>2, <1>3, <1>4, <1>5, <1>6 DEF Ranges

\* Where a call stands after it went on, or returned.
LEMMA Went ==
  ASSUME ChickenAssumption, TypeOK, NEW c \in Calls,
         NEW pc \in {"idle", "debit", "seed", "credit", "clear", "record"},
         NEW b \in 0..MaxBets, NEW m \in Lanes
  PROVE  [call EXCEPT ![c] = [pc |-> pc, bet |-> b, multiplier |-> m]] \in [Calls -> Call]
  BY DEF TypeOK, Call

LEMMA Returned ==
  ASSUME ChickenAssumption, TypeOK, NEW c \in Calls, Return(c)
  PROVE  /\ call' \in [Calls -> Call]
         /\ \A d \in Calls : d # c => call'[d] = call[d]
         /\ call'[c] = Idle /\ Idle.pc = "idle"
  BY RangesOK DEF TypeOK, Return, Idle, Ranges

\* Every step keeps the types.
LEMMA TypeStep ==
  ASSUME ChickenAssumption, TypeOK, OwnersOK, [Next]_vars
  PROVE  TypeOK'
<1>a. \A c \in Calls : Owns(c) => call[c].bet \in Bets
  BY RangesOK DEF Ranges, OwnersOK, Bets
<1>b. /\ 0 \in Lanes /\ 0 \in 0..MaxBets /\ Bets \subseteq 0..MaxBets
      /\ \A c \in Calls : call[c].bet \in 0..MaxBets /\ call[c].multiplier \in Lanes
      /\ \A b \in Bets : state[b].lane \in Lanes
      /\ Live => chicken \in Bets /\ state[chicken].active
  BY RangesOK DEF Ranges, Bets
<1>c. \A c \in Calls, pc \in {"idle", "debit", "seed", "credit", "clear", "record"},
         b \in 0..MaxBets, m \in Lanes :
        [call EXCEPT ![c] = [pc |-> pc, bet |-> b, multiplier |-> m]] \in [Calls -> Call]
  BY Went
<1>1. ASSUME NEW c \in Calls, Start(c) PROVE TypeOK'
  BY <1>1, <1>b, <1>c DEF Goto, Start, TypeOK, NoBet
<1>2. ASSUME NEW c \in Calls, Debit(c) PROVE TypeOK'
  <2>1. placed + 1 \in 0..MaxBets
    BY <1>2, RangesOK DEF Debit, Ranges
  <2> QED BY <1>2, <2>1, <1>b, <1>c DEF Goto, Debit, TypeOK
<1>3. ASSUME NEW c \in Calls, Open(c) PROVE TypeOK'
  <2>1. call[c].bet \in Bets
    BY <1>3, <1>a DEF Open, Owns
  <2>2. state' \in [Bets -> Round]
    BY <1>3, <1>b, <2>1 DEF Open, TypeOK, Round
  <2> QED BY <1>3, <1>b, <2>1, <2>2, Returned DEF Open, TypeOK
<1>4. ASSUME NEW c \in Calls, StartFails(c) PROVE TypeOK'
  BY <1>4, Returned DEF StartFails, TypeOK
<1>5. ASSUME NEW c \in Calls, StepInto(c) PROVE TypeOK'
  <2> DEFINE lane == state[chicken].lane + 1
  <2>1. chicken \in Bets /\ lane \in Lanes
    BY <1>5, <1>b DEF StepInto
  <2>2. CASE /\ state' = [state EXCEPT ![chicken].active = FALSE]
             /\ busted' = busted \cup {chicken} /\ chicken' = NoBet
             /\ Goto(c, "record", chicken, 0)
    <3>1. state' \in [Bets -> Round]
      BY <2>1, <2>2 DEF TypeOK, Round
    <3>2. call' \in [Calls -> Call]
      BY <1>b, <1>c, <2>1, <2>2 DEF Goto
    <3> QED BY <1>5, <1>b, <2>1, <2>2, <3>1, <3>2 DEF StepInto, TypeOK, NoBet
  <2>3. CASE state' = [state EXCEPT ![chicken].lane = lane] /\ UNCHANGED <<busted, chicken, call>>
    <3>1. state' \in [Bets -> Round]
      BY <2>1, <2>3 DEF TypeOK, Round
    <3> QED BY <1>5, <2>3, <3>1 DEF StepInto, TypeOK
  <2>4. CASE /\ state' = [state EXCEPT ![chicken] = Close([@ EXCEPT !.lane = lane])]
             /\ Goto(c, "credit", chicken, Price(state'[chicken])) /\ UNCHANGED <<busted, chicken>>
    <3>1. state' \in [Bets -> Round] /\ state'[chicken].lane = lane
      BY <2>1, <2>4 DEF TypeOK, Round, Close
    <3>2. call' \in [Calls -> Call]
      BY <2>1, <2>4, <3>1, <1>b, <1>c DEF Goto, Price
    <3> QED BY <1>5, <2>4, <3>1, <3>2 DEF StepInto, TypeOK
  <2> QED BY <1>5, <2>2, <2>3, <2>4 DEF StepInto
<1>6. ASSUME NEW c \in Calls, Cashout(c) PROVE TypeOK'
  <2>1. chicken \in Bets
    BY <1>6, <1>b DEF Cashout
  <2>2. state' \in [Bets -> Round]
    BY <1>6, <2>1 DEF Cashout, TypeOK, Round, Close
  <2>3. call' \in [Calls -> Call]
    BY <1>6, <2>1, <1>b, <1>c DEF Goto, Cashout, Price
  <2> QED BY <1>6, <2>2, <2>3 DEF Cashout, TypeOK
<1>7. ASSUME NEW c \in Calls, Credit(c) PROVE TypeOK'
  <2>1. call[c].bet \in Bets
    BY <1>7, <1>a DEF Credit, Owns
  <2>2. paid' \in [Bets -> Lanes]
    BY <1>7, <1>b, <2>1 DEF Credit, TypeOK
  <2>3. call' \in [Calls -> Call]
    BY <1>7, <1>b, <1>c DEF Goto, Credit
  <2> QED BY <1>7, <2>2, <2>3 DEF Credit, TypeOK
<1>8. ASSUME NEW c \in Calls, CreditFails(c) PROVE TypeOK'
  <2>1. call[c].bet \in Bets
    BY <1>8, <1>a DEF CreditFails, Owns
  <2>2. state' \in [Bets -> Round]
    BY <1>8, <2>1 DEF CreditFails, TypeOK, Round, Reopen
  <2> QED BY <1>8, <2>2, Returned DEF CreditFails, TypeOK
<1>9. ASSUME NEW c \in Calls, Clear(c) PROVE TypeOK'
  BY <1>9, <1>b, <1>c DEF Goto, Clear, TypeOK, NoBet
<1>10. ASSUME NEW c \in Calls, RecordSession(c) PROVE TypeOK'
  <2>1. call[c].bet \in Bets
    BY <1>10, <1>a DEF RecordSession, Owns
  <2>2. sessions' \in [Bets -> Nat]
    BY <1>10, <2>1 DEF RecordSession, TypeOK
  <2> QED BY <1>10, <2>2, Returned DEF RecordSession, TypeOK
<1>11. CASE Restart
  <2>1. state' \in [Bets -> Round]
    BY <1>11 DEF Restart, TypeOK, Round
  <2>2. restarts' \in 0..MaxRestarts /\ chicken' \in 0..MaxBets /\ call' \in [Calls -> Call]
    BY <1>11, <1>b, RangesOK DEF Restart, TypeOK, NoBet, Ranges
  <2> QED BY <1>11, <2>1, <2>2 DEF Restart, TypeOK
<1>12. CASE UNCHANGED vars
  BY <1>12 DEF vars, TypeOK
<1> QED BY <1>1, <1>2, <1>3, <1>4, <1>5, <1>6, <1>7, <1>8, <1>9, <1>10, <1>11, <1>12
        DEF Next, Frame, Continue

\* What a call that goes on is at; the others stay where they are.
LEMMA Moves ==
  ASSUME TypeOK, NEW c \in Calls, NEW pc, NEW b, NEW m,
         Goto(c, pc, b, m) \/ (Return(c) /\ pc = "idle" /\ b = NoBet /\ m = 0)
  PROVE  /\ call'[c].pc = pc /\ call'[c].bet = b /\ call'[c].multiplier = m
         /\ \A d \in Calls : d # c => call'[d] = call[d]
  BY DEF TypeOK, Goto, Return, Idle

-----------------------------------------------------------------------------
(* BET *)

LEMMA StartKeeps == ASSUME ChickenAssumption, Inv, NEW c \in Calls, Start(c) PROVE (Calm /\ Money)'
<1> USE DEF Inv, Calm, Money
<1>1. /\ call'[c].pc = "debit" /\ ~startsInFlight
      /\ \A d \in Calls : d # c => call'[d] = call[d]
  BY Moves DEF Start, MayStart
<1>2. \A d \in Calls : Owns(d)' => d # c /\ Owns(d) /\ call'[d] = call[d]
  BY <1>1 DEF Owns, At
<1>3. OwnersOK' /\ ActiveOK'
  BY <1>2 DEF Start, OwnersOK, ActiveOK
<1>4. FlagOK' /\ OneStart'
  BY <1>1 DEF Start, FlagOK, OneStart, Starting, At
<1>5. SeedOK' /\ CreditOK' /\ RecordOK'
  BY <1>1 DEF Start, SeedOK, CreditOK, RecordOK, Undecided, At
<1>6. FreshOK' /\ SafeOK' /\ PaidOK' /\ OneSession'
  BY DEF Start, FreshOK, SafeOK, PaidOK, OneSession
<1> QED BY <1>3, <1>4, <1>5, <1>6

LEMMA DebitKeeps == ASSUME ChickenAssumption, Inv, NEW c \in Calls, Debit(c) PROVE (Calm /\ Money)'
<1> USE DEF Inv, Calm, Money
<1>1. /\ call[c].pc = "debit" /\ call'[c].pc = "seed" /\ call'[c].bet = placed + 1
      /\ placed' = placed + 1 /\ placed \in Nat /\ placed + 1 \in Bets
      /\ \A d \in Calls : d # c => call'[d] = call[d]
  BY Moves, RangesOK DEF Debit, At, Ranges, Bets
<1>2. \A d \in Calls : Owns(d)' => d = c \/ (Owns(d) /\ call'[d] = call[d] /\ call[d].bet \in 1..placed)
  BY <1>1 DEF Owns, At, OwnersOK
<1>3. OwnersOK'
  BY <1>1, <1>2 DEF OwnersOK
<1>4. ActiveOK' /\ FreshOK'
  BY <1>1, <1>2, RangesOK DEF Debit, ActiveOK, FreshOK, Ranges, Bets
<1>5. FlagOK' /\ OneStart'
  BY <1>1 DEF Debit, FlagOK, OneStart, Starting, At
<1>6. SeedOK' /\ CreditOK' /\ RecordOK'
  BY <1>1 DEF Debit, SeedOK, CreditOK, RecordOK, FreshOK, Undecided, At
<1>7. SafeOK' /\ PaidOK' /\ OneSession'
  BY DEF Debit, SafeOK, PaidOK, OneSession
<1> QED BY <1>3, <1>4, <1>5, <1>6, <1>7

LEMMA OpenKeeps == ASSUME ChickenAssumption, Inv, NEW c \in Calls, Open(c) PROVE (Calm /\ Money)'
<1> USE DEF Inv, Calm, Money
<1> DEFINE b == call[c].bet
<1>1. /\ Owns(c) /\ call[c].pc = "seed" /\ call'[c].pc = "idle" /\ b \in Bets /\ b <= placed
      /\ Undecided(b) /\ Starting(c)
      /\ \A d \in Calls : d # c => call'[d] = call[d]
  BY SMTT(30), Moves, RangesOK DEF Open, At, Owns, OwnersOK, SeedOK, Starting, Ranges, Bets
<1>2. PICK bust \in 0..MaxLanes :
        state' = [state EXCEPT ![b] = [lane |-> 0, bustLane |-> bust, active |-> TRUE]]
  BY DEF Open
<1>3. /\ state'[b].lane = 0 /\ \A e \in Bets : e # b => state'[e] = state[e]
      /\ chicken' = b
  BY <1>1, <1>2 DEF Open, TypeOK
<1>4. \A d \in Calls : Owns(d)' => d # c /\ Owns(d) /\ call'[d] = call[d] /\ call[d].bet # b
  BY <1>1 DEF Owns, At, OwnersOK
<1>5. OwnersOK'
  BY <1>4 DEF Open, OwnersOK
<1>6. FlagOK' /\ OneStart'
  BY <1>1 DEF Open, FlagOK, OneStart, Starting, At
<1>7. FreshOK' /\ ActiveOK'
  BY <1>1, <1>3, <1>4, RangesOK DEF Open, FreshOK, ActiveOK, Undecided, Ranges
<1>8. SeedOK' /\ CreditOK' /\ RecordOK'
  BY <1>1, <1>3, <1>4, RangesOK DEF Open, SeedOK, CreditOK, RecordOK, Undecided, At, Owns, OwnersOK, Ranges, Bets
<1>9. SafeOK' /\ PaidOK' /\ OneSession'
  BY <1>1, <1>3 DEF Open, SafeOK, PaidOK, OneSession, Undecided
<1> QED BY <1>5, <1>6, <1>7, <1>8, <1>9

LEMMA StartFailsKeeps ==
  ASSUME ChickenAssumption, Inv, NEW c \in Calls, StartFails(c) PROVE (Calm /\ Money)'
<1> USE DEF Inv, Calm, Money
<1>1. /\ Starting(c) /\ call'[c].pc = "idle"
      /\ \A d \in Calls : d # c => call'[d] = call[d]
  BY Moves DEF StartFails, Starting
<1>2. \A d \in Calls : Owns(d)' => d # c /\ Owns(d) /\ call'[d] = call[d]
  BY <1>1 DEF Owns, At
<1>3. OwnersOK' /\ ActiveOK'
  BY <1>2 DEF StartFails, OwnersOK, ActiveOK
<1>4. FlagOK' /\ OneStart'
  BY <1>1 DEF StartFails, FlagOK, OneStart, Starting, At
<1>5. SeedOK' /\ CreditOK' /\ RecordOK'
  BY <1>1 DEF StartFails, SeedOK, CreditOK, RecordOK, Undecided, At
<1>6. FreshOK' /\ SafeOK' /\ PaidOK' /\ OneSession'
  BY DEF StartFails, FreshOK, SafeOK, PaidOK, OneSession
<1> QED BY <1>3, <1>4, <1>5, <1>6

-----------------------------------------------------------------------------
(* STEP and CASHOUT *)

\* A step that loses closes the round; its history row is owed.
LEMMA BustKeeps ==
  ASSUME ChickenAssumption, Inv, NEW c \in Calls, StepInto(c),
         state[chicken].bustLane = state[chicken].lane + 1,
         state' = [state EXCEPT ![chicken].active = FALSE],
         busted' = busted \cup {chicken}, chicken' = NoBet, Goto(c, "record", chicken, 0)
  PROVE  (Calm /\ Money)'
<1> USE DEF Inv, Calm, Money
<1> DEFINE b == chicken
<1>1. /\ b \in Bets /\ state[b].active /\ b <= placed /\ placed \in Nat
      /\ Undecided(b) /\ sessions[b] = 0 /\ \A d \in Calls : Owns(d) => call[d].bet # b
  <2>1. b \in Bets /\ state[b].active /\ placed \in Nat
    BY RangesOK DEF StepInto, Ranges
  <2>2. b <= placed /\ Undecided(b) /\ \A d \in Calls : Owns(d) => call[d].bet # b
    BY <2>1, RangesOK DEF FreshOK, ActiveOK, Undecided, Ranges, Bets
  <2>3. sessions[b] = 0
    BY <2>1, <2>2 DEF OneSession, Undecided, TypeOK
  <2> QED BY <2>1, <2>2, <2>3
<1>2. /\ call'[c].pc = "record" /\ call'[c].bet = b
      /\ \A d \in Calls : d # c => call'[d] = call[d]
  BY Moves
<1>3. /\ state'[b].lane = state[b].lane /\ state'[b].bustLane = state[b].bustLane /\ ~state'[b].active
      /\ \A e \in Bets : e # b => state'[e] = state[e]
      /\ UNCHANGED <<placed, paid, sessions, startsInFlight>>
  BY <1>1 DEF StepInto, TypeOK, Round
<1>4. \A d \in Calls : Owns(d)' => d = c \/ (Owns(d) /\ call'[d] = call[d] /\ call[d].bet # b)
  BY <1>1, <1>2 DEF Owns, At
<1>5. OwnersOK'
  BY <1>1, <1>2, <1>3, <1>4 DEF OwnersOK, Bets
<1>6. FlagOK' /\ OneStart'
  BY <1>2, <1>3 DEF StepInto, FlagOK, OneStart, Starting, At
<1>7. FreshOK' /\ ActiveOK'
  BY <1>1, <1>2, <1>3, <1>4 DEF FreshOK, ActiveOK, NoBet, TypeOK
<1>8. SeedOK' /\ CreditOK' /\ RecordOK'
  BY <1>1, <1>2, <1>3, <1>4, RangesOK DEF SeedOK, CreditOK, RecordOK, Undecided, At, Owns, OwnersOK, Ranges, Bets
<1>9. SafeOK' /\ PaidOK' /\ OneSession'
  BY <1>1, <1>3 DEF SafeOK, PaidOK, OneSession, Undecided, TypeOK
<1> QED BY <1>5, <1>6, <1>7, <1>8, <1>9

\* A step onto a safe lane moves the round, and nothing else.
LEMMA MoveKeeps ==
  ASSUME ChickenAssumption, Inv, NEW c \in Calls, StepInto(c),
         state[chicken].bustLane # state[chicken].lane + 1,
         state' = [state EXCEPT ![chicken].lane = state[chicken].lane + 1],
         UNCHANGED <<busted, chicken, call>>
  PROVE  (Calm /\ Money)'
<1> USE DEF Inv, Calm, Money
<1> DEFINE b == chicken
<1>1. /\ b \in Bets /\ state[b].active /\ Undecided(b)
      /\ \A d \in Calls : Owns(d) => call[d].bet # b
  BY RangesOK DEF StepInto, Ranges, ActiveOK, Undecided
<1>2. state[b].lane \in Nat /\ state[b].bustLane \in Nat
  BY <1>1, RangesOK DEF Ranges
<1>3. /\ state'[b].lane = state[b].lane + 1 /\ state'[b].bustLane = state[b].bustLane
      /\ state'[b].active = state[b].active
      /\ \A e \in Bets : e # b => state'[e] = state[e]
      /\ UNCHANGED <<placed, paid, sessions, startsInFlight, busted, chicken, call>>
  BY <1>1 DEF StepInto, TypeOK, Round
<1>4. OwnersOK' /\ FlagOK' /\ OneStart' /\ FreshOK' /\ ActiveOK'
  BY <1>1, <1>3 DEF OwnersOK, FlagOK, OneStart, FreshOK, ActiveOK, Owns, Starting, At
<1>5. SeedOK' /\ CreditOK' /\ RecordOK'
  BY <1>1, <1>3, RangesOK DEF SeedOK, CreditOK, RecordOK, Undecided, At, Owns, OwnersOK, Ranges, Bets
<1>6. SafeOK'
  BY <1>1, <1>2, <1>3 DEF SafeOK
<1>7. PaidOK' /\ OneSession'
  BY <1>1, <1>3 DEF PaidOK, OneSession, Undecided
<1> QED BY <1>4, <1>5, <1>6, <1>7

\* A round that is closed at a safe lane belongs to the call that credits it.
LEMMA SettleKeeps ==
  ASSUME ChickenAssumption, Inv, NEW c \in Calls, Live, NEW lane \in Nat,
         lane >= MinCashoutLane,
         lane = state[chicken].lane
           \/ (lane = state[chicken].lane + 1 /\ state[chicken].bustLane # lane),
         state' = [state EXCEPT ![chicken] = [@ EXCEPT !.lane = lane, !.active = FALSE]],
         Goto(c, "credit", chicken, lane), At(c, "idle"),
         UNCHANGED <<placed, paid, sessions, busted, chicken, startsInFlight>>
  PROVE  (Calm /\ Money)'
<1> USE DEF Inv, Calm, Money
<1> DEFINE b == chicken
<1>1. /\ b \in Bets /\ state[b].active /\ Undecided(b) /\ b <= placed /\ placed \in Nat
      /\ \A d \in Calls : Owns(d) => call[d].bet # b
  <2>1. b \in Bets /\ state[b].active /\ placed \in Nat
    BY RangesOK DEF Ranges
  <2> QED BY <2>1, RangesOK DEF FreshOK, ActiveOK, Undecided, Ranges, Bets
<1>2. /\ call'[c].pc = "credit" /\ call'[c].bet = b /\ call'[c].multiplier = lane
      /\ \A d \in Calls : d # c => call'[d] = call[d]
  BY Moves
<1>3. state[b].lane \in Nat /\ state[b].bustLane \in Nat
  BY <1>1, RangesOK DEF Ranges
<1>4. /\ state'[b].lane = lane /\ state'[b].bustLane = state[b].bustLane /\ ~state'[b].active
      /\ \A e \in Bets : e # b => state'[e] = state[e]
  BY <1>1 DEF TypeOK, Round
<1>5. \A d \in Calls : Owns(d)' => d = c \/ (Owns(d) /\ call'[d] = call[d] /\ call[d].bet # b)
  BY <1>1, <1>2 DEF Owns, At
<1>6. OwnersOK'
  BY <1>1, <1>2, <1>5 DEF OwnersOK, Bets
<1>7. FlagOK' /\ OneStart'
  BY <1>2 DEF FlagOK, OneStart, Starting, At
<1>8. FreshOK' /\ ActiveOK'
  BY <1>1, <1>2, <1>4, <1>5 DEF FreshOK, ActiveOK
<1>9. SeedOK' /\ CreditOK' /\ RecordOK'
  BY <1>1, <1>2, <1>4, <1>5, RangesOK
  DEF SeedOK, CreditOK, RecordOK, Undecided, At, Owns, OwnersOK, Ranges, Bets
<1>10. SafeOK'
  BY <1>1, <1>3, <1>4 DEF SafeOK
<1>11. PaidOK' /\ OneSession'
  BY <1>1, <1>4 DEF PaidOK, OneSession, Undecided
<1> QED BY <1>6, <1>7, <1>8, <1>9, <1>10, <1>11

LEMMA StepKeeps == ASSUME ChickenAssumption, Inv, NEW c \in Calls, StepInto(c) PROVE (Calm /\ Money)'
<1> DEFINE lane == state[chicken].lane + 1
<1>1. /\ chicken \in Bets /\ lane \in Nat /\ Live /\ At(c, "idle")
      /\ MinCashoutLane \in Nat /\ MaxLanes \in Nat /\ MinCashoutLane <= MaxLanes
  BY RangesOK DEF StepInto, Ranges, Inv
<1>2. CASE state[chicken].bustLane # lane /\ lane >= MaxLanes
  <2>1. /\ state' = [state EXCEPT ![chicken] = [@ EXCEPT !.lane = lane, !.active = FALSE]]
        /\ Goto(c, "credit", chicken, state'[chicken].lane)
        /\ UNCHANGED <<placed, paid, sessions, busted, chicken, startsInFlight>>
    BY <1>2, RangesOK DEF StepInto, Close, Price, Inv, Ranges
  <2>2. state'[chicken].lane = lane
    BY <1>1, <2>1 DEF Inv, TypeOK, Round
  <2>3. lane >= MinCashoutLane
    BY <1>1, <1>2
  <2> HIDE DEF lane
  <2> QED BY <1>1, <1>2, <2>1, <2>2, <2>3, SettleKeeps DEF lane
<1>3. CASE state[chicken].bustLane = lane
  BY <1>3, BustKeeps DEF StepInto
<1>4. CASE state[chicken].bustLane # lane /\ ~(lane >= MaxLanes)
  BY <1>4, MoveKeeps DEF StepInto
<1> QED BY <1>2, <1>3, <1>4

LEMMA CashoutKeeps == ASSUME ChickenAssumption, Inv, NEW c \in Calls, Cashout(c) PROVE (Calm /\ Money)'
<1> DEFINE lane == state[chicken].lane
<1>1. chicken \in Bets /\ lane \in Nat /\ state[chicken] \in Round
  BY RangesOK DEF Cashout, Ranges, Inv
<1>2. state' = [state EXCEPT ![chicken] = [@ EXCEPT !.lane = lane, !.active = FALSE]]
  <2>1. [state[chicken] EXCEPT !.active = FALSE] = [state[chicken] EXCEPT !.lane = lane, !.active = FALSE]
    BY <1>1 DEF Round
  <2> QED BY <2>1 DEF Cashout, Close
<1>3. lane >= MinCashoutLane /\ Goto(c, "credit", chicken, lane)
  BY DEF Cashout, Unlocked, Price
<1> QED BY <1>1, <1>2, <1>3, SettleKeeps DEF Cashout

\* The credit commits: the bet is paid the price of its lane.
LEMMA CreditKeeps == ASSUME ChickenAssumption, Inv, NEW c \in Calls, Credit(c) PROVE (Calm /\ Money)'
<1> USE DEF Inv, Calm, Money
<1> DEFINE b == call[c].bet
<1>1. /\ Owns(c) /\ call[c].pc = "credit" /\ b \in Bets /\ Undecided(b) /\ sessions[b] = 0
      /\ ~state[b].active
  <2>1. Owns(c) /\ call[c].pc = "credit" /\ b \in Bets /\ Undecided(b)
    BY RangesOK DEF Credit, At, Owns, OwnersOK, CreditOK, Ranges, Bets
  <2> QED BY <2>1 DEF OneSession, Undecided, ActiveOK, TypeOK
<1>2. /\ call'[c].pc = "clear" /\ call'[c].bet = b
      /\ \A d \in Calls : d # c => call'[d] = call[d]
  BY Moves DEF Credit
<1>3. /\ paid'[b] = state[b].lane /\ paid'[b] >= MinCashoutLane /\ paid'[b] # 0
      /\ \A e \in Bets : e # b => paid'[e] = paid[e]
      /\ UNCHANGED <<placed, sessions, busted, chicken, state, startsInFlight>>
  <2>1. call[c].multiplier = state[b].lane /\ call[c].multiplier >= MinCashoutLane
        /\ call[c].multiplier # 0
    BY <1>1, RangesOK DEF CreditOK, At, Ranges
  <2> QED BY <1>1, <2>1 DEF Credit, Undecided, TypeOK
<1>4. \A d \in Calls : Owns(d)' => d = c \/ (Owns(d) /\ call'[d] = call[d] /\ call[d].bet # b)
  BY <1>1, <1>2 DEF Owns, At, OwnersOK
<1>5. OwnersOK'
  BY <1>1, <1>2, <1>3, <1>4 DEF OwnersOK
<1>6. FlagOK' /\ OneStart'
  BY <1>1, <1>2, <1>3 DEF FlagOK, OneStart, Starting, At
<1>7. FreshOK' /\ ActiveOK'
  BY <1>1, <1>2, <1>3, <1>4, RangesOK DEF FreshOK, ActiveOK, OwnersOK, Ranges, Bets
<1>8. SeedOK' /\ CreditOK' /\ RecordOK'
  BY <1>1, <1>2, <1>3, <1>4, RangesOK
  DEF SeedOK, CreditOK, RecordOK, Undecided, At, Owns, OwnersOK, Ranges, Bets
<1>9. SafeOK' /\ PaidOK' /\ OneSession'
  BY <1>1, <1>3 DEF SafeOK, PaidOK, OneSession, Undecided
<1> QED BY <1>5, <1>6, <1>7, <1>8, <1>9

\* The credit fails: the round is the player's again, as it was.
LEMMA CreditFailsKeeps ==
  ASSUME ChickenAssumption, Inv, NEW c \in Calls, CreditFails(c) PROVE (Calm /\ Money)'
<1> USE DEF Inv, Calm, Money
<1> DEFINE b == call[c].bet
<1>1. /\ Owns(c) /\ call[c].pc = "credit" /\ b \in Bets /\ Undecided(b) /\ b <= placed
  BY RangesOK DEF CreditFails, At, Owns, OwnersOK, CreditOK, Ranges, Bets
<1>2. /\ call'[c].pc = "idle"
      /\ \A d \in Calls : d # c => call'[d] = call[d]
  BY Moves DEF CreditFails
<1>3. /\ state'[b].lane = state[b].lane /\ state'[b].bustLane = state[b].bustLane
      /\ \A e \in Bets : e # b => state'[e] = state[e]
      /\ UNCHANGED <<placed, paid, sessions, busted, chicken, startsInFlight>>
  BY <1>1 DEF CreditFails, Reopen, TypeOK, Round
<1>4. \A d \in Calls : Owns(d)' => d # c /\ Owns(d) /\ call'[d] = call[d] /\ call[d].bet # b
  BY <1>1, <1>2 DEF Owns, At, OwnersOK
<1>5. OwnersOK'
  BY <1>3, <1>4 DEF OwnersOK
<1>6. FlagOK' /\ OneStart'
  BY <1>1, <1>2, <1>3 DEF FlagOK, OneStart, Starting, At
<1>7. FreshOK' /\ ActiveOK'
  BY <1>1, <1>3, <1>4, RangesOK DEF FreshOK, ActiveOK, Undecided, Ranges
<1>8. SeedOK' /\ CreditOK' /\ RecordOK'
  BY <1>1, <1>2, <1>3, <1>4, RangesOK
  DEF SeedOK, CreditOK, RecordOK, Undecided, At, Owns, OwnersOK, Ranges, Bets
<1>9. SafeOK' /\ PaidOK' /\ OneSession'
  BY <1>1, <1>3 DEF SafeOK, PaidOK, OneSession
<1> QED BY <1>5, <1>6, <1>7, <1>8, <1>9

LEMMA ClearKeeps == ASSUME ChickenAssumption, Inv, NEW c \in Calls, Clear(c) PROVE (Calm /\ Money)'
<1> USE DEF Inv, Calm, Money
<1>1. /\ call[c].pc = "clear" /\ call'[c].pc = "record" /\ call'[c].bet = call[c].bet
      /\ \A d \in Calls : d # c => call'[d] = call[d]
      /\ chicken' = 0 /\ placed \in Nat
      /\ UNCHANGED <<placed, paid, sessions, busted, state, startsInFlight>>
  BY Moves, RangesOK DEF Clear, At, NoBet, Ranges
<1>2. \A d \in Calls : (Owns(d)' <=> Owns(d)) /\ call'[d].bet = call[d].bet
  BY <1>1 DEF Owns, At
<1>3. OwnersOK' /\ ActiveOK' /\ FreshOK'
  BY <1>1, <1>2 DEF OwnersOK, ActiveOK, FreshOK
<1>4. FlagOK' /\ OneStart'
  BY <1>1 DEF FlagOK, OneStart, Starting, At
<1>5. SeedOK' /\ CreditOK' /\ RecordOK'
  BY <1>1 DEF SeedOK, CreditOK, RecordOK, Undecided, At
<1>6. SafeOK' /\ PaidOK' /\ OneSession'
  BY <1>1 DEF SafeOK, PaidOK, OneSession
<1> QED BY <1>3, <1>4, <1>5, <1>6

LEMMA RecordKeeps == ASSUME ChickenAssumption, Inv, NEW c \in Calls, RecordSession(c) PROVE (Calm /\ Money)'
<1> USE DEF Inv, Calm, Money
<1> DEFINE b == call[c].bet
<1>1. /\ Owns(c) /\ call[c].pc = "record" /\ b \in Bets /\ ~Undecided(b) /\ sessions[b] = 0
      /\ call'[c].pc = "idle"
      /\ \A d \in Calls : d # c => call'[d] = call[d]
  BY Moves, RangesOK DEF RecordSession, At, Owns, OwnersOK, RecordOK, Ranges, Bets
<1>2. /\ sessions'[b] <= 1 /\ \A e \in Bets : e # b => sessions'[e] = sessions[e]
      /\ UNCHANGED <<placed, paid, busted, chicken, state, startsInFlight>>
  BY <1>1 DEF RecordSession, TypeOK
<1>3. \A d \in Calls : Owns(d)' => d # c /\ Owns(d) /\ call'[d] = call[d] /\ call[d].bet # b
  BY <1>1 DEF Owns, At, OwnersOK
<1>4. OwnersOK' /\ ActiveOK' /\ FreshOK'
  BY <1>2, <1>3 DEF OwnersOK, ActiveOK, FreshOK
<1>5. FlagOK' /\ OneStart'
  BY <1>1, <1>2 DEF FlagOK, OneStart, Starting, At
<1>6. SeedOK' /\ CreditOK' /\ RecordOK'
  BY <1>1, <1>2, <1>3, RangesOK
  DEF SeedOK, CreditOK, RecordOK, Undecided, At, Owns, OwnersOK, Ranges, Bets
<1>7. SafeOK' /\ PaidOK' /\ OneSession'
  BY <1>1, <1>2 DEF SafeOK, PaidOK, OneSession, Undecided
<1> QED BY <1>4, <1>5, <1>6, <1>7

\* A restart leaves no owner and no open round.
LEMMA RestartKeeps == ASSUME ChickenAssumption, Inv, Restart PROVE (Calm /\ Money)'
<1> USE DEF Inv, Calm, Money
<1>1. /\ \A d \in Calls : call'[d].pc = "idle"
      /\ \A b \in Bets : /\ ~state'[b].active /\ state'[b].lane = state[b].lane
                          /\ state'[b].bustLane = state[b].bustLane
      /\ chicken' = 0 /\ placed \in Nat /\ UNCHANGED <<placed, paid, sessions, busted>>
  BY RangesOK DEF Restart, Idle, NoBet, Ranges, Round
<1>2. OwnersOK' /\ FlagOK' /\ OneStart' /\ FreshOK' /\ ActiveOK'
  BY <1>1 DEF OwnersOK, FlagOK, OneStart, FreshOK, ActiveOK, Owns, Starting, At
<1>3. SeedOK' /\ CreditOK' /\ RecordOK' /\ SafeOK' /\ PaidOK' /\ OneSession'
  BY <1>1 DEF SeedOK, CreditOK, RecordOK, SafeOK, PaidOK, OneSession, At
<1> QED BY <1>2, <1>3

LEMMA InvStep == ASSUME ChickenAssumption, Inv, [Next]_vars PROVE Inv'
<1>1. TypeOK'
  BY TypeStep DEF Inv, Calm
<1>2. (Calm /\ Money)'
  <2>1. CASE UNCHANGED vars
    BY <2>1 DEF vars, Inv, Calm, Money, OwnersOK, FlagOK, OneStart, FreshOK, ActiveOK, SeedOK, CreditOK,
                RecordOK, SafeOK, PaidOK, OneSession, Undecided, Owns, Starting, At
  <2>2. CASE Restart
    BY <2>2, RestartKeeps
  <2>3. ASSUME NEW c \in Calls, Frame(c) \/ Continue(c)
        PROVE  (Calm /\ Money)'
    BY <2>3, StartKeeps, StepKeeps, CashoutKeeps, DebitKeeps, OpenKeeps, StartFailsKeeps, CreditKeeps,
       CreditFailsKeeps, ClearKeeps, RecordKeeps DEF Frame, Continue
  <2> QED BY <2>1, <2>2, <2>3 DEF Next
<1> QED BY <1>1, <1>2 DEF Inv

-----------------------------------------------------------------------------
(* The theorems *)

\* The invariant that carries the others.
LEMMA Invariant == ASSUME ChickenAssumption PROVE Spec => []Inv
<1>1. Init => Inv
  BY InvInit
<1>2. Inv /\ [Next]_vars => Inv'
  BY InvStep
<1> QED BY <1>1, <1>2, PTL DEF Spec

\* Every variable of the handlers and of the store keeps its type.
THEOREM ChickenTypeCorrect == ASSUME ChickenAssumption PROVE Spec => []TypeOK
<1>1. Inv => TypeOK
  BY DEF Inv
<1> QED BY Invariant, <1>1, PTL

\* A WIN of Chicken Road pays for exactly the lanes its round has crossed, all of
\* them safe and past the unlock lane, whatever frames, failed credits and restarts
\* come between the pricing and the credit.
THEOREM ChickenPaysItsLane == ASSUME ChickenAssumption PROVE Spec => []PaidForItsLane
<1>1. Inv => PaidForItsLane
  BY DEF Inv, Money, SafeOK, PaidOK, PaidForItsLane
<1> QED BY Invariant, <1>1, PTL

\* Between the check of a BET and its round no other BET gets in, and a decided round
\* writes at most one history row, an undecided one none.
THEOREM ChickenOneAtATime == ASSUME ChickenAssumption PROVE Spec => []OneAtATime
<1>1. Inv => OneAtATime
  BY DEF Inv, Calm, Money, OneAtATime
<1> QED BY Invariant, <1>1, PTL

-----------------------------------------------------------------------------
(* Chicken Road is a wager *)

LEMMA StepIsWager ==
  ASSUME ChickenAssumption, Inv, [Next]_vars
  PROVE  Abstract!WagerNext \/ UNCHANGED [b \in Bets |-> Outcome(b)]
<1> DEFINE outcome == [b \in Bets |-> Outcome(b)]
<1>1. ASSUME UNCHANGED <<placed, paid, busted>> PROVE UNCHANGED outcome
  BY <1>1 DEF Outcome
<1>2. ASSUME NEW c \in Calls, Debit(c) PROVE Abstract!WagerNext
  <2>1. /\ placed \in Nat /\ placed + 1 \in Bets /\ placed' = placed + 1
        /\ UNCHANGED <<paid, busted>>
    BY <1>2, RangesOK DEF Debit, Inv, Ranges, Bets
  <2>2. paid[placed + 1] = 0 /\ placed + 1 \notin busted
    BY <2>1 DEF Inv, Calm, FreshOK
  <2>3. outcome[placed + 1] = "unplaced"
    BY <2>1 DEF Outcome
  <2>4. outcome' = [outcome EXCEPT ![placed + 1] = "open"]
    <3>1. \A a \in Bets : a # placed + 1 => (a > placed <=> a > placed')
      BY <2>1 DEF Bets
    <3>2. ~(placed + 1 > placed') /\ paid'[placed + 1] = 0 /\ placed + 1 \notin busted'
      BY <2>1, <2>2
    <3> QED BY <2>1, <3>1, <3>2, Zenon DEF Outcome
  <2> QED BY <2>1, <2>3, <2>4 DEF Abstract!WagerNext, Abstract!Stake, Abstract!Move
<1>3. ASSUME NEW c \in Calls, StepInto(c) PROVE Abstract!WagerNext \/ UNCHANGED outcome
  <2>1. CASE busted' = busted \cup {chicken}
    <3>1. /\ chicken \in Bets /\ ~(chicken > placed) /\ Undecided(chicken)
          /\ UNCHANGED <<placed, paid>>
      BY <1>3, RangesOK
      DEF StepInto, Inv, Calm, FreshOK, ActiveOK, Undecided, Ranges, Bets
    <3>2. outcome[chicken] = "open"
      BY <3>1 DEF Outcome, Undecided
    <3>3. outcome' = [outcome EXCEPT ![chicken] = "lost"]
      BY <2>1, <3>1 DEF Outcome, Undecided
    <3> QED BY <3>1, <3>2, <3>3 DEF Abstract!WagerNext, Abstract!Lose, Abstract!Move
  <2>2. CASE UNCHANGED busted
    BY <1>1, <1>3, <2>2 DEF StepInto
  <2> QED BY <1>3, <2>1, <2>2 DEF StepInto
<1>4. ASSUME NEW c \in Calls, Credit(c) PROVE Abstract!WagerNext
  <2> DEFINE b == call[c].bet
  <2>1. /\ b \in Bets /\ ~(b > placed) /\ Undecided(b) /\ call[c].multiplier # 0
        /\ UNCHANGED <<placed, busted>>
    BY <1>4, RangesOK
    DEF Credit, At, Owns, Inv, Calm, OwnersOK, Money, CreditOK, Undecided, Ranges, Bets
  <2>2. paid'[b] # 0 /\ \A a \in Bets : a # b => paid'[a] = paid[a]
    BY <1>4, <2>1 DEF Credit, Undecided, Inv, TypeOK
  <2>3. outcome[b] = "open"
    BY <2>1 DEF Outcome, Undecided
  <2>4. outcome' = [outcome EXCEPT ![b] = "won"]
    BY <2>1, <2>2 DEF Outcome
  <2> QED BY <2>1, <2>3, <2>4 DEF Abstract!WagerNext, Abstract!Win, Abstract!Move
<1>5. ASSUME NEW c \in Calls,
             \/ Start(c) \/ Open(c) \/ StartFails(c) \/ Cashout(c)
             \/ CreditFails(c) \/ Clear(c) \/ RecordSession(c)
      PROVE  UNCHANGED outcome
  BY <1>1, <1>5 DEF Start, Open, StartFails, Cashout, CreditFails, Clear, RecordSession
<1>6. CASE Restart \/ UNCHANGED vars
  BY <1>1, <1>6 DEF Restart, vars
<1> QED BY <1>2, <1>3, <1>4, <1>5, <1>6 DEF Next, Frame, Continue

\* A stake of Chicken Road is taken once and decided at most once: every step of the
\* handlers is a step of the abstract wager, or none.
THEOREM ChickenImplementsWager == ASSUME ChickenAssumption PROVE Spec => ImplementsWager
<1> DEFINE outcome == [b \in Bets |-> Outcome(b)]
<1>1. Init => Abstract!WagerInit
  BY DEF Init, Abstract!WagerInit, Outcome, Bets, ChickenAssumption, BoundsAssumption
<1>2. Inv /\ [Next]_vars => [Abstract!WagerNext]_outcome
  BY StepIsWager
<1> QED BY Invariant, <1>1, <1>2, PTL DEF Spec, ImplementsWager, Abstract!WagerSpec

-----------------------------------------------------------------------------
(* Sequences of the pages *)

\* A sequence without one of its elements.
LEMMA Removal ==
  ASSUME NEW X, NEW s \in Seq(X), NEW i \in 1..Len(s)
  PROVE  LET r == SubSeq(s, 1, i - 1) \o SubSeq(s, i + 1, Len(s)) IN
         /\ r \in Seq(X) /\ Len(r) = Len(s) - 1
         /\ \A j \in 1..Len(r) : r[j] = IF j < i THEN s[j] ELSE s[j + 1]
<1>1. Len(s) \in Nat /\ i \in Nat /\ 1 <= i /\ i <= Len(s)
  OBVIOUS
<1> DEFINE p == SubSeq(s, 1, i - 1)
           q == SubSeq(s, i + 1, Len(s))
<1>2. p \in Seq(X) /\ Len(p) = i - 1 /\ \A j \in 1..(i - 1) : p[j] = s[j]
  BY <1>1
<1>3. q \in Seq(X) /\ Len(q) = Len(s) - i /\ \A j \in 1..(Len(s) - i) : q[j] = s[i + j]
  BY <1>1
<1> HIDE DEF p, q
<1> DEFINE r == p \o q
<1>4. r \in Seq(X) /\ Len(r) = Len(p) + Len(q)
  BY <1>2, <1>3, ConcatProperties
<1>5. \A j \in 1..(Len(p) + Len(q)) : r[j] = IF j <= Len(p) THEN p[j] ELSE q[j - Len(p)]
  BY <1>2, <1>3, ConcatProperties
<1>6. Len(r) = Len(s) - 1
  BY <1>1, <1>2, <1>3, <1>4
<1> HIDE DEF r
<1>7. ASSUME NEW j \in 1..Len(r) PROVE r[j] = IF j < i THEN s[j] ELSE s[j + 1]
  <2>1. j \in Nat /\ 1 <= j /\ j <= Len(p) + Len(q) /\ j - Len(p) \in Int
    BY <1>1, <1>2, <1>4, <1>6
  <2>2. CASE j < i
    BY <1>1, <1>2, <1>5, <2>1, <2>2
  <2>3. CASE ~ (j < i)
    <3>1. j - (i - 1) \in 1..(Len(s) - i) /\ i + (j - (i - 1)) = j + 1
      BY <1>1, <1>2, <1>3, <2>1, <2>3
    <3> QED BY <1>1, <1>2, <1>3, <1>5, <2>1, <2>3, <3>1
  <2> QED BY <2>2, <2>3
<1> QED BY <1>4, <1>6, <1>7 DEF r, p, q

-----------------------------------------------------------------------------
(* The Chicken Road page *)

Downs ==
  [type : {"BET_ACCEPTED", "STATE_UPDATE"}, n : 0..MaxBets, lane : Nat]
  \cup [type : {"ERROR"}, answer : BOOLEAN]
  \cup [type : {"GAME_RESULT"}, bust : BOOLEAN, auto : BOOLEAN, payout : Nat \X Nat]
Ups == {"BET", "STEP", "CASHOUT", "RESUME"}
Timers == [to : Nat, win : Nat \X Nat]
Acts(f) == f \in {"STEP", "CASHOUT"}
RoundSettling == walk.status \in {"auto", "cashout"}

RoadTypes ==
  /\ road \in [phase : {"IDLE", "PLAYING", "WON", "LOST"}, lane : Nat, hop : Nat, hopping : BOOLEAN,
                doomed : BOOLEAN, shown : 0..MaxBets]
  /\ timers \in Seq(Timers) /\ held \in BOOLEAN /\ roadCrossed \in BOOLEAN
  /\ walk \in [n : 0..MaxBets, lane : Nat, status : {"none", "starting", "open", "auto", "cashout"}, here : BOOLEAN]
  /\ DOMAIN crossing = Road!Rounds
  /\ roadUp \in Seq(Ups) /\ roadDown \in Seq(Downs)

\* The round the page is about is the last one the server opened.
RoundInv ==
  /\ walk.status # "none" => walk.n > 0
  /\ road.shown <= walk.n /\ (Road!Playing => road.shown = walk.n)
  /\ road.phase # "IDLE" => road.shown > 0
  /\ road.phase \in {"WON", "LOST"} /\ walk.status # "none" => road.shown < walk.n
  /\ walk.status = "auto" => walk.lane >= LastLane

\* A bet is asked for by a page that does not play, a step and a cash out by one that does.
UpInv ==
  /\ \A b \in 1..Len(roadUp) : roadUp[b] = "BET" =>
       /\ walk.status = "none" \/ RoundSettling =>
            ~Road!Playing /\ \A i \in 1..Len(roadUp) : i > b => ~Acts(roadUp[i])
       /\ walk.status # "none" => \A i \in 1..Len(roadUp) : i < b => ~Acts(roadUp[i])
  /\ walk.status = "starting" => ~Road!Playing
  /\ walk.status # "none" /\ (\E i \in 1..Len(roadUp) : Acts(roadUp[i])) => Road!Playing
  /\ RoundSettling /\ walk.here => Road!Playing

NoWins == \A k \in 1..Len(timers) : timers[k].win = Road!NoWin
OnlyErrors == \A i \in 1..Len(roadDown) : roadDown[i].type = "ERROR"
FrameFits(f) ==
  /\ f.type = "BET_ACCEPTED" => f.n = walk.n /\ (Road!Playing \/ (walk.status = "open" /\ f.lane = walk.lane))
  /\ f.type = "STATE_UPDATE" => Road!Playing
  /\ f.type = "GAME_RESULT" =>
       /\ Road!Playing /\ walk.status = "none" /\ ~road.doomed /\ NoWins
       /\ IF f.bust THEN crossing[walk.n] = Road!Busted
          ELSE f.payout # Road!NoWin /\ crossing[walk.n] = f.payout /\ f.payout[1] = walk.n
FramesInv ==
  /\ \A i \in 1..Len(roadDown) : FrameFits(roadDown[i])
  /\ \A i, j \in 1..Len(roadDown) : i < j /\ roadDown[i].type = "GAME_RESULT" => roadDown[j].type = "ERROR"

\* What has been shown of a round that is over, or is about to be.
Final == Road!Playing /\ walk.status = "none" /\ OnlyErrors
ShowInv ==
  /\ road.doomed => Final /\ NoWins /\ crossing[road.shown] = Road!Busted
  /\ \A k \in 1..Len(timers) : timers[k].win # Road!NoWin =>
       Final /\ crossing[road.shown] = timers[k].win /\ timers[k].win[1] = road.shown /\ k = Len(timers)

TimersInv == ~roadCrossed =>
  /\ Len(timers) <= 2
  /\ Len(timers) = 2 => timers[2].win # Road!NoWin
  /\ Len(timers) = 1 /\ timers[1].win = Road!NoWin => held

Resuming == \E i \in 1..Len(roadUp) : roadUp[i] = "RESUME"
ResumeInv ==
  /\ \A i \in 1..Len(roadUp) : roadUp[i] = "RESUME" => i = 1
  /\ Resuming => OnlyErrors /\ (~walk.here \/ walk.status = "none")

\* The lane the frames on their way lead the board to, from the one it lands on.
Raises(f) == f.type = "STATE_UPDATE" \/ (f.type = "GAME_RESULT" /\ f.auto)
Link(f, a, b) == b = IF f.type = "BET_ACCEPTED" THEN f.lane ELSE IF Raises(f) THEN a + 1 ELSE a
Tower(s, at) ==
  /\ \A i \in 1..Len(s) : Link(s[i], at[i - 1], at[i])
  /\ \A i, j \in 0..Len(s) : i <= j => at[i] <= at[j]
Rises(s, lo, hi) == \E at \in [Nat -> Nat] : Tower(s, at) /\ at[0] = lo /\ at[Len(s)] = hi
RoadBase(m) ==
  /\ road.lane <= m /\ \A k \in 1..Len(timers) : timers[k].to <= m
  /\ walk.status # "none" =>
       /\ timers = <<>> => road.lane = m
       /\ timers # <<>> => Len(timers) = 1 /\ timers[1].to = m
Top(m) ==
  /\ m <= walk.lane /\ (walk.status = "auto" => m < walk.lane)
  /\ walk.status \in {"open", "cashout"} /\ walk.lane < LastLane =>
       m = walk.lane \/ Resuming \/ (walk.status = "cashout" /\ ~walk.here)
LaneInv == Road!Playing /\ ~roadCrossed => \E lo, hi \in Nat : Rises(roadDown, lo, hi) /\ RoadBase(lo) /\ Top(hi)

RoadInv == /\ RoadTypes /\ RoundInv /\ UpInv /\ FramesInv /\ ShowInv /\ Road!ShownIsDecided
           /\ TimersInv /\ ResumeInv /\ LaneInv

-----------------------------------------------------------------------------
\* A sequence one element longer.
LEMMA Appended ==
  ASSUME NEW X, NEW s \in Seq(X), NEW e \in X
  PROVE  /\ Append(s, e) \in Seq(X) /\ Len(Append(s, e)) = Len(s) + 1 /\ Len(s) \in Nat
         /\ \A i \in 1..Len(s) : Append(s, e)[i] = s[i]
         /\ Append(s, e)[Len(s) + 1] = e
BY AppendProperties

\* The same, of a sequence that was appended to.
LEMMA AppendedOne ==
  ASSUME NEW X, NEW s \in Seq(X), NEW e \in X, NEW t, t = Append(s, e)
  PROVE  /\ t \in Seq(X) /\ Len(t) = Len(s) + 1 /\ Len(s) \in Nat /\ t # <<>> /\ (Len(s) = 0 <=> s = <<>>)
         /\ \A k \in 1..Len(t) : (k \in 1..Len(s) /\ t[k] = s[k]) \/ (k = Len(s) + 1 /\ t[k] = e)
<1>1. /\ t \in Seq(X) /\ Len(t) = Len(s) + 1 /\ Len(s) \in Nat
      /\ (\A i \in 1..Len(s) : t[i] = s[i]) /\ t[Len(s) + 1] = e
  BY Appended
<1>2. \A k \in 1..(Len(s) + 1) : k \in 1..Len(s) \/ k = Len(s) + 1
  BY <1>1
<1>3. t # <<>> /\ (Len(s) = 0 <=> s = <<>>)
  BY <1>1, EmptySeq
<1> QED BY <1>1, <1>2, <1>3

\* A sequence without its first element.
LEMMA Shortened ==
  ASSUME NEW X, NEW s \in Seq(X), s # <<>>
  PROVE  /\ Tail(s) \in Seq(X) /\ Len(Tail(s)) = Len(s) - 1 /\ Len(s) \in Nat /\ Len(s) >= 1
         /\ Head(s) = s[1] /\ Head(s) \in X
         /\ \A i \in 1..Len(Tail(s)) : Tail(s)[i] = s[i + 1] /\ i + 1 \in 1..Len(s)
BY HeadTailProperties, EmptySeq

\* With no frame on its way the lane stays where it is.
LEMMA RisesEmpty == ASSUME NEW m \in Nat PROVE Rises(<<>>, m, m)
<1>1. Tower(<<>>, [i \in Nat |-> m])
  BY DEF Tower
<1>2. [i \in Nat |-> m] \in [Nat -> Nat] /\ [i \in Nat |-> m][0] = m /\ Len(<<>>) = 0
  OBVIOUS
<1> QED BY <1>1, <1>2 DEF Rises

\* Frames that move no lane keep it.
LEMMA RisesFlat ==
  ASSUME NEW s \in Seq(Downs), NEW m \in Nat,
         \A i \in 1..Len(s) : ~Raises(s[i]) /\ (s[i].type = "BET_ACCEPTED" => s[i].lane = m)
  PROVE  Rises(s, m, m)
<1> DEFINE at == [i \in Nat |-> m]
<1>1. Len(s) \in Nat
  OBVIOUS
<1>2. at \in [Nat -> Nat] /\ \A i \in Nat : at[i] = m
  OBVIOUS
<1> HIDE DEF at
<1>3. Tower(s, at)
  <2>1. ASSUME NEW i \in 1..Len(s) PROVE Link(s[i], at[i - 1], at[i])
    <3>1. i \in Nat /\ i - 1 \in Nat
      BY <1>1
    <3> QED BY <1>2, <3>1 DEF Link
  <2> QED BY <1>1, <1>2, <2>1 DEF Tower
<1> QED BY <1>1, <1>2, <1>3 DEF Rises

\* A frame sent last continues from where the others end.
LEMMA RisesAppend ==
  ASSUME NEW s \in Seq(Downs), NEW g \in Downs, NEW lo \in Nat, NEW hi \in Nat, NEW b \in Nat,
         Rises(s, lo, hi), Link(g, hi, b), hi <= b
  PROVE  Rises(Append(s, g), lo, b)
<1>1. PICK at \in [Nat -> Nat] : Tower(s, at) /\ at[0] = lo /\ at[Len(s)] = hi
  BY DEF Rises
<1> DEFINE up == [i \in Nat |-> IF i <= Len(s) THEN at[i] ELSE b]
           t == Append(s, g)
<1>2. Len(s) \in Nat /\ Len(t) = Len(s) + 1 /\ (\A i \in 1..Len(s) : t[i] = s[i]) /\ t[Len(s) + 1] = g
  BY Appended
<1>3. up \in [Nat -> Nat] /\ \A i \in Nat : up[i] = IF i <= Len(s) THEN at[i] ELSE b
  BY <1>1, <1>2
<1> HIDE DEF up, t
<1>4. ASSUME NEW i \in 1..Len(t) PROVE Link(t[i], up[i - 1], up[i])
  <2>1. i \in Nat /\ i >= 1 /\ i - 1 \in Nat /\ i <= Len(s) + 1 /\ i - 1 <= Len(s)
    BY <1>2
  <2>2. CASE i <= Len(s)
    <3>1. i \in 1..Len(s)
      BY <1>2, <2>1, <2>2
    <3> QED BY <1>1, <1>2, <1>3, <2>1, <2>2, <3>1 DEF Tower
  <2>3. CASE ~(i <= Len(s))
    <3> DEFINE l == Len(s)
    <3>3. l \in Nat /\ i \in Nat /\ i <= l + 1 /\ ~(i <= l)
      BY <1>2, <2>1, <2>3
    <3> HIDE DEF l
    <3>4. i = l + 1 /\ i - 1 = l
      BY <3>3
    <3>1. i = Len(s) + 1 /\ i - 1 = Len(s)
      BY <3>4 DEF l
    <3>2. t[i] = g /\ up[i - 1] = hi /\ up[i] = b
      BY <1>1, <1>2, <1>3, <2>1, <2>3, <3>1
    <3> QED BY <3>2
  <2> QED BY <2>2, <2>3
<1>5. ASSUME NEW i \in 0..Len(t), NEW j \in 0..Len(t), i <= j PROVE up[i] <= up[j]
  <2>1. i \in Nat /\ j \in Nat /\ at[i] \in Nat /\ at[j] \in Nat
    BY <1>1, <1>2
  <2>2. CASE j <= Len(s)
    <3>1. i \in 0..Len(s) /\ j \in 0..Len(s)
      BY <1>2, <1>5, <2>1, <2>2
    <3>2. at[i] <= at[j]
      BY <1>1, <1>5, <3>1 DEF Tower
    <3>3. up[i] = at[i] /\ up[j] = at[j]
      BY <1>2, <1>3, <2>1, <3>1
    <3> QED BY <3>2, <3>3
  <2>3. CASE ~(j <= Len(s)) /\ i <= Len(s)
    <3>1. at[i] <= at[Len(s)]
      BY <1>1, <1>2, <2>1, <2>3 DEF Tower
    <3> QED BY <1>1, <1>3, <2>1, <2>3, <3>1
  <2>4. CASE ~(j <= Len(s)) /\ ~(i <= Len(s))
    BY <1>3, <2>1, <2>4
  <2> QED BY <2>2, <2>3, <2>4
<1>6. up[0] = lo /\ up[Len(t)] = b
  BY <1>1, <1>2, <1>3
<1> QED BY <1>3, <1>4, <1>5, <1>6 DEF Rises, Tower, t

\* The first frame read leaves the rest to start from where it leads.
LEMMA RisesTail ==
  ASSUME NEW s \in Seq(Downs), s # <<>>, NEW lo \in Nat, NEW hi \in Nat, Rises(s, lo, hi)
  PROVE  \E m \in Nat : Link(Head(s), lo, m) /\ lo <= m /\ Rises(Tail(s), m, hi)
<1>1. PICK at \in [Nat -> Nat] : Tower(s, at) /\ at[0] = lo /\ at[Len(s)] = hi
  BY DEF Rises
<1> DEFINE down == [i \in Nat |-> at[i + 1]]
           t == Tail(s)
<1>2. /\ Len(t) = Len(s) - 1 /\ Len(s) \in Nat /\ Len(s) >= 1 /\ Head(s) = s[1]
      /\ \A i \in 1..Len(t) : t[i] = s[i + 1] /\ i + 1 \in 1..Len(s)
  BY Shortened
<1>3. down \in [Nat -> Nat] /\ \A i \in Nat : down[i] = at[i + 1]
  BY <1>1
<1> HIDE DEF down, t
<1>4. ASSUME NEW i \in 1..Len(t) PROVE Link(t[i], down[i - 1], down[i])
  <2>1. i \in Nat /\ i - 1 \in Nat /\ (i - 1) + 1 = i /\ i + 1 \in 1..Len(s) /\ (i + 1) - 1 = i
    BY <1>2
  <2>2. Link(s[i + 1], at[i], at[i + 1])
    BY <1>1, <2>1 DEF Tower
  <2> QED BY <1>2, <1>3, <2>1, <2>2
<1>5. ASSUME NEW i \in 0..Len(t), NEW j \in 0..Len(t), i <= j PROVE down[i] <= down[j]
  <2>1. i \in Nat /\ j \in Nat /\ i + 1 \in 0..Len(s) /\ j + 1 \in 0..Len(s) /\ i + 1 <= j + 1
    BY <1>2, <1>5
  <2> QED BY <1>1, <1>3, <2>1 DEF Tower
<1>6. down[0] = at[1] /\ down[Len(t)] = at[Len(s)] /\ at[1] \in Nat
  BY <1>1, <1>2, <1>3
<1>7. Link(Head(s), lo, at[1]) /\ lo <= at[1]
  <2>1. 1 \in 1..Len(s) /\ 0 \in 0..Len(s) /\ 1 \in 0..Len(s) /\ 1 - 1 = 0
    BY <1>2
  <2> QED BY <1>1, <1>2, <2>1 DEF Tower
<1>8. Rises(t, at[1], hi)
  BY <1>1, <1>3, <1>4, <1>5, <1>6 DEF Rises, Tower
<1> QED BY <1>6, <1>7, <1>8 DEF t

\* The lanes the frames lead through never fall.
LEMMA RisesWithin ==
  ASSUME NEW s \in Seq(Downs), NEW lo \in Nat, NEW hi \in Nat, Rises(s, lo, hi)
  PROVE  lo <= hi /\ (s = <<>> => lo = hi)
<1>1. Len(s) \in Nat /\ (s = <<>> => Len(s) = 0)
  OBVIOUS
<1> QED BY <1>1 DEF Rises, Tower
-----------------------------------------------------------------------------
\* The bounds are numbers.
LEMMA RoadConstants ==
  ASSUME Road!ChickenPageAssumption
  PROVE  LastLane \in Nat /\ LastLane > 0 /\ UnlockLane \in Nat /\ MaxBets \in Nat /\ MaxOverrun \in Nat
BY DEF Road!ChickenPageAssumption

\* What a frame of each type carries.
LEMMA RoadFields ==
  ASSUME NEW f \in Downs
  PROVE  /\ f.type \in {"BET_ACCEPTED", "STATE_UPDATE", "ERROR", "GAME_RESULT"}
         /\ f.type \in {"BET_ACCEPTED", "STATE_UPDATE"} => f.n \in 0..MaxBets /\ f.lane \in Nat
         /\ f.type = "GAME_RESULT" => f.bust \in BOOLEAN /\ f.auto \in BOOLEAN /\ f.payout \in Nat \X Nat
         /\ f.type = "ERROR" => f.answer \in BOOLEAN
BY DEF Downs

\* What the server sends are frames.
LEMMA RoadFrames ==
  /\ \A n \in 0..MaxBets, l \in Nat : [type |-> "BET_ACCEPTED", n |-> n, lane |-> l] \in Downs
  /\ \A n \in 0..MaxBets, l \in Nat : [type |-> "STATE_UPDATE", n |-> n, lane |-> l] \in Downs
  /\ \A a \in BOOLEAN : Road!Refused(a) \in Downs /\ Road!Refused(a).type = "ERROR"
  /\ \A b, a \in BOOLEAN, p \in Nat \X Nat :
       Road!Result(b, a, p) \in Downs /\ Road!Result(b, a, p).type = "GAME_RESULT" /\ Road!Result(b, a, p).bust = b
       /\ Road!Result(b, a, p).auto = a /\ Road!Result(b, a, p).payout = p
BY DEF Downs, Road!Refused, Road!Result

\* The frames the page has not read stay fit, and one more may follow them.
LEMMA FramesKept ==
  ASSUME roadDown \in Seq(Downs), FramesInv,
         \A i \in 1..Len(roadDown), f \in Downs : f = roadDown[i] /\ FrameFits(f) => FrameFits(f)',
         \/ roadDown' = roadDown
         \/ \E g \in Downs : /\ roadDown' = Append(roadDown, g) /\ FrameFits(g)'
                            /\ (g.type = "ERROR" \/ \A i \in 1..Len(roadDown) : roadDown[i].type # "GAME_RESULT")
  PROVE  FramesInv' /\ roadDown' \in Seq(Downs)
<1>1. \A i \in 1..Len(roadDown) : roadDown[i] \in Downs /\ FrameFits(roadDown[i])
  BY DEF FramesInv
<1>2. \A i, j \in 1..Len(roadDown) : i < j /\ roadDown[i].type = "GAME_RESULT" => roadDown[j].type = "ERROR"
  BY DEF FramesInv
<1>3. CASE roadDown' = roadDown
  <2>1. ASSUME NEW i \in 1..Len(roadDown), NEW f \in Downs, f = roadDown[i] PROVE FrameFits(f)'
    BY <1>1, <2>1
  <2>2. \A i \in 1..Len(roadDown'), f \in Downs : f = roadDown'[i] => FrameFits(f)'
    BY <1>3, <2>1
  <2>3. ASSUME NEW i \in 1..Len(roadDown') PROVE FrameFits(roadDown[i])'
    <3>1. PICK f \in Downs : f = roadDown'[i]
      BY <1>1, <1>3
    <3>2. FrameFits(f)'
      BY <2>2, <3>1
    <3> QED BY <3>1, <3>2 DEF FrameFits
  <2> QED BY <1>2, <1>3, <2>3 DEF FramesInv
<1>4. CASE \E g \in Downs : /\ roadDown' = Append(roadDown, g) /\ FrameFits(g)'
                            /\ (g.type = "ERROR" \/ \A i \in 1..Len(roadDown) : roadDown[i].type # "GAME_RESULT")
  <2>1. PICK g \in Downs : /\ roadDown' = Append(roadDown, g) /\ FrameFits(g)'
                            /\ (g.type = "ERROR" \/ \A i \in 1..Len(roadDown) : roadDown[i].type # "GAME_RESULT")
    BY <1>4
  <2>2. /\ roadDown' \in Seq(Downs) /\ Len(roadDown') = Len(roadDown) + 1 /\ Len(roadDown) \in Nat
        /\ (\A i \in 1..Len(roadDown) : roadDown'[i] = roadDown[i]) /\ roadDown'[Len(roadDown) + 1] = g
    BY <2>1, Appended
  <2>3. ASSUME NEW i \in 1..Len(roadDown') PROVE FrameFits(roadDown[i])'
    <3>1. PICK f \in Downs : f = roadDown'[i] /\ (f = g \/ (i \in 1..Len(roadDown) /\ f = roadDown[i]))
      BY <1>1, <2>2
    <3>2. FrameFits(f)'
      BY <1>1, <2>1, <3>1
    <3> QED BY <3>1, <3>2 DEF FrameFits
  <2>4. ASSUME NEW i \in 1..Len(roadDown'), NEW j \in 1..Len(roadDown'), i < j, roadDown'[i].type = "GAME_RESULT"
        PROVE  roadDown'[j].type = "ERROR"
    <3>1. i \in 1..Len(roadDown) /\ roadDown[i].type = "GAME_RESULT"
      BY <2>2, <2>4
    <3>2. CASE j \in 1..Len(roadDown)
      BY <1>2, <2>2, <2>4, <3>1, <3>2
    <3>3. CASE j \notin 1..Len(roadDown)
      <4>1. j = Len(roadDown) + 1
        BY <2>2, <3>3
      <4> QED BY <2>1, <2>2, <3>1, <4>1
    <3> QED BY <3>2, <3>3
  <2> QED BY <2>2, <2>3, <2>4 DEF FramesInv
<1> QED BY <1>3, <1>4

\* A frame is read.
LEMMA FramesRead ==
  ASSUME roadDown \in Seq(Downs), FramesInv, roadDown # <<>>, roadDown' = Tail(roadDown),
         \A i \in 2..Len(roadDown), f \in Downs : f = roadDown[i] /\ FrameFits(f) => FrameFits(f)'
  PROVE  FramesInv' /\ roadDown' \in Seq(Downs)
<1>1. \A i \in 1..Len(roadDown) : roadDown[i] \in Downs /\ FrameFits(roadDown[i])
  BY DEF FramesInv
<1>2. \A i, j \in 1..Len(roadDown) : i < j /\ roadDown[i].type = "GAME_RESULT" => roadDown[j].type = "ERROR"
  BY DEF FramesInv
<1>3. /\ roadDown' \in Seq(Downs) /\ Len(roadDown') = Len(roadDown) - 1 /\ Len(roadDown) \in Nat
           /\ Len(roadDown) >= 1
      /\ \A i \in 1..Len(roadDown') : roadDown'[i] = roadDown[i + 1] /\ i + 1 \in 1..Len(roadDown)
  BY Shortened
<1>4. ASSUME NEW i \in 1..Len(roadDown') PROVE FrameFits(roadDown[i])'
  <2>1. i + 1 \in 2..Len(roadDown) /\ i + 1 \in 1..Len(roadDown)
    BY <1>3
  <2>2. PICK f \in Downs : f = roadDown'[i] /\ f = roadDown[i + 1]
    BY <1>1, <1>3, <2>1
  <2>3. FrameFits(f)'
    BY <1>1, <2>1, <2>2
  <2> QED BY <2>2, <2>3 DEF FrameFits
<1>5. ASSUME NEW i \in 1..Len(roadDown'), NEW j \in 1..Len(roadDown'), i < j, roadDown'[i].type = "GAME_RESULT"
      PROVE  roadDown'[j].type = "ERROR"
  <2>1. i + 1 < j + 1
    BY <1>3, <1>5
  <2> QED BY <1>2, <1>3, <1>5, <2>1
<1> QED BY <1>3, <1>4, <1>5 DEF FramesInv

\* A page that mounts asks for its round, and shows none.
LEMMA RoadInit == ASSUME Road!ChickenPageAssumption, Road!Init PROVE RoadInv
<1> USE RoadConstants DEF Road!Init, Road!Fresh, Road!NoWin, Road!NoHop
<1>1. roadUp = <<"RESUME">> /\ Len(roadUp) = 1 /\ roadUp[1] = "RESUME" /\ roadDown = <<>> /\ timers = <<>>
  OBVIOUS
<1>2. RoadTypes
  <2>1. <<"RESUME">> \in Seq(Ups) /\ <<>> \in Seq(Downs) /\ <<>> \in Seq(Timers)
    BY EmptySeq DEF Ups
  <2>2. DOMAIN crossing = Road!Rounds /\ held \in BOOLEAN /\ roadCrossed \in BOOLEAN
    OBVIOUS
  <2> QED BY <1>1, <2>1, <2>2 DEF RoadTypes
<1>3. RoundInv
  BY DEF RoundInv, Road!Playing
<1>4. UpInv
  BY <1>1 DEF UpInv, RoundSettling, Acts
<1>5. FramesInv /\ ShowInv /\ Road!ShownIsDecided
  BY <1>1 DEF FramesInv, ShowInv, Road!ShownIsDecided
<1>6. TimersInv /\ ResumeInv
  BY <1>1 DEF TimersInv, ResumeInv, OnlyErrors
<1>7. LaneInv
  BY DEF LaneInv, Road!Playing
<1> QED BY <1>2, <1>3, <1>4, <1>5, <1>6, <1>7 DEF RoadInv
-----------------------------------------------------------------------------
(* What the server does *)

\* What the frames up say of each other outlives every turn of the round.
LEMMA UpKept ==
  ASSUME RoadTypes, UpInv, road' = road, roadUp' = roadUp \/ (roadUp # <<>> /\ roadUp' = Tail(roadUp)),
         \/ walk'.status = walk.status /\ (walk'.here => walk.here)
         \/ RoundSettling /\ walk'.status \in {"none", "open"}
         \/ walk.status = "none" /\ roadUp # <<>> /\ Head(roadUp) = "BET" /\ walk'.status = "starting"
         \/ walk.status = "starting" /\ walk'.status = "open"
         \/ /\ walk.status = "open" /\ roadUp # <<>> /\ Acts(Head(roadUp))
            /\ walk'.status \in {"none", "auto", "cashout"}
  PROVE  UpInv' /\ roadUp' \in Seq(Ups)
<1> USE DEF Road!Playing
<1>1. roadUp \in Seq(Ups) /\ walk.status \in {"none", "starting", "open", "auto", "cashout"} /\ Len(roadUp) \in Nat
  BY DEF RoadTypes
<1>2. PICK d \in {0, 1} :
        /\ roadUp' \in Seq(Ups) /\ Len(roadUp') = Len(roadUp) - d
        /\ \A i \in 1..Len(roadUp') : roadUp'[i] = roadUp[i + d] /\ i + d \in 1..Len(roadUp)
  <2>1. CASE roadUp' = roadUp
    <3>1. \A i \in 1..Len(roadUp) : roadUp'[i] = roadUp[i + 0] /\ i + 0 \in 1..Len(roadUp)
      BY <1>1, <2>1
    <3> QED BY <1>1, <2>1, <3>1
  <2>2. CASE roadUp # <<>> /\ roadUp' = Tail(roadUp)
    BY <1>1, <2>2, Shortened
  <2> QED BY <2>1, <2>2
<1>3. \A b \in 1..Len(roadUp) : roadUp[b] = "BET" =>
        /\ walk.status = "none" \/ RoundSettling => ~Road!Playing /\ \A i \in 1..Len(roadUp) : i > b =>
             ~Acts(roadUp[i])
        /\ walk.status # "none" => \A i \in 1..Len(roadUp) : i < b => ~Acts(roadUp[i])
  BY DEF UpInv
<1>4. /\ walk.status = "starting" => ~Road!Playing
      /\ walk.status # "none" /\ (\E i \in 1..Len(roadUp) : Acts(roadUp[i])) => Road!Playing
      /\ RoundSettling /\ walk.here => Road!Playing
  BY DEF UpInv
\* What a suffix keeps.
<1>5. ASSUME NEW b \in 1..Len(roadUp'), roadUp'[b] = "BET", walk.status = "none" \/ RoundSettling
      PROVE  ~Road!Playing /\ \A i \in 1..Len(roadUp') : i > b => ~Acts(roadUp'[i])
  <2>1. b + d \in 1..Len(roadUp) /\ roadUp[b + d] = "BET"
    BY <1>2, <1>5
  <2>2. \A i \in 1..Len(roadUp') : i > b => i + d > b + d
    BY <1>1, <1>2
  <2> QED BY <1>2, <1>3, <1>5, <2>1, <2>2
<1>6. ASSUME NEW b \in 1..Len(roadUp'), roadUp'[b] = "BET", walk.status # "none"
      PROVE  \A i \in 1..Len(roadUp') : i < b => ~Acts(roadUp'[i])
  <2>1. b + d \in 1..Len(roadUp) /\ roadUp[b + d] = "BET"
    BY <1>2, <1>6
  <2>2. \A i \in 1..Len(roadUp') : i < b => i + d < b + d
    BY <1>1, <1>2
  <2> QED BY <1>2, <1>3, <1>6, <2>1, <2>2
<1>7. (\E i \in 1..Len(roadUp') : Acts(roadUp'[i])) => \E i \in 1..Len(roadUp) : Acts(roadUp[i])
  BY <1>2
<1> DEFINE After(b) == \A i \in 1..Len(roadUp') : i > b => ~Acts(roadUp'[i])
           Before(b) == \A i \in 1..Len(roadUp') : i < b => ~Acts(roadUp'[i])
           Acting == \E i \in 1..Len(roadUp') : Acts(roadUp'[i])
           Fine(st, hr) ==
             /\ \A b \in 1..Len(roadUp') : roadUp'[b] = "BET" =>
                  /\ st \in {"none", "auto", "cashout"} => ~Road!Playing /\ After(b)
                  /\ st # "none" => Before(b)
             /\ st = "starting" => ~Road!Playing
             /\ st # "none" /\ Acting => Road!Playing
             /\ st \in {"auto", "cashout"} /\ hr => Road!Playing
<1>8. \A b \in 1..Len(roadUp') : roadUp'[b] = "BET" /\ walk.status \in {"none", "auto", "cashout"} =>
        ~Road!Playing /\ After(b)
  BY <1>5 DEF RoundSettling
<1>9. \A b \in 1..Len(roadUp') : roadUp'[b] = "BET" /\ walk.status # "none" => Before(b)
  BY <1>6
<1>10. /\ walk.status = "starting" => ~Road!Playing
       /\ walk.status # "none" /\ Acting => Road!Playing
       /\ walk.status \in {"auto", "cashout"} /\ walk.here => Road!Playing
  BY <1>4, <1>7 DEF RoundSettling
<1>11. Fine(walk'.status, walk'.here) => UpInv'
  BY DEF UpInv, RoundSettling, Acts
<1> HIDE DEF After, Before, Acting
<1>12. CASE walk'.status = walk.status /\ (walk'.here => walk.here)
  <2>1. Fine(walk'.status, walk'.here)
    BY <1>8, <1>9, <1>10, <1>12
  <2> QED BY <1>2, <1>11, <2>1
<1>13. CASE RoundSettling /\ walk'.status \in {"none", "open"}
  <2>1. walk.status \in {"auto", "cashout"}
    BY <1>13 DEF RoundSettling
  <2>2. Fine(walk'.status, walk'.here)
    BY <1>8, <1>9, <1>10, <1>13, <2>1
  <2> QED BY <1>2, <1>11, <2>2
<1>14. CASE walk.status = "none" /\ roadUp # <<>> /\ Head(roadUp) = "BET" /\ walk'.status = "starting"
  <2>1. Len(roadUp) >= 1 /\ roadUp[1] = "BET" /\ 1 \in 1..Len(roadUp)
    BY <1>1, <1>14, Shortened
  <2>2. ~Road!Playing /\ \A i \in 1..Len(roadUp) : ~Acts(roadUp[i])
    <3>1. ~Road!Playing /\ \A i \in 1..Len(roadUp) : i > 1 => ~Acts(roadUp[i])
      BY <1>3, <1>14, <2>1
    <3>2. ~Acts(roadUp[1])
      BY <2>1 DEF Acts
    <3>3. \A i \in 1..Len(roadUp) : i = 1 \/ i > 1
      BY <1>1
    <3> QED BY <3>1, <3>2, <3>3
  <2>3. ~Acting /\ \A b \in 1..Len(roadUp') : Before(b)
    BY <1>2, <2>2 DEF Acting, Before
  <2>4. Fine(walk'.status, walk'.here)
    BY <1>14, <2>2, <2>3
  <2> QED BY <1>2, <1>11, <2>4
<1>15. CASE walk.status = "starting" /\ walk'.status = "open"
  <2>1. Fine(walk'.status, walk'.here)
    BY <1>9, <1>10, <1>15
  <2> QED BY <1>2, <1>11, <2>1
<1>16. CASE /\ walk.status = "open" /\ roadUp # <<>> /\ Acts(Head(roadUp))
            /\ walk'.status \in {"none", "auto", "cashout"}
  <2>1. Len(roadUp) >= 1 /\ Acts(roadUp[1]) /\ 1 \in 1..Len(roadUp)
    BY <1>1, <1>16, Shortened
  <2>2. Road!Playing
    BY <1>4, <1>16, <2>1
  <2>3. \A b \in 1..Len(roadUp) : roadUp[b] # "BET"
    <3>1. \A b \in 1..Len(roadUp) : b = 1 \/ 1 < b
      BY <1>1
    <3>2. roadUp[1] # "BET"
      BY <2>1 DEF Acts
    <3> QED BY <1>3, <1>16, <2>1, <3>1, <3>2
  <2>4. \A b \in 1..Len(roadUp') : roadUp'[b] # "BET"
    BY <1>2, <2>3
  <2>5. Fine(walk'.status, walk'.here)
    BY <1>16, <2>2, <2>4
  <2> QED BY <1>2, <1>11, <2>5
<1> QED BY <1>12, <1>13, <1>14, <1>15, <1>16

\* A frame is taken: none of those left asks for the round.
LEMMA ResumeTaken ==
  ASSUME RoadTypes, ResumeInv, roadUp # <<>>, roadUp' = Tail(roadUp)
  PROVE  ResumeInv' /\ ~Resuming' /\ (Head(roadUp) # "RESUME" => ~Resuming) /\ (Head(roadUp) = "RESUME" => Resuming)
<1>1. roadUp \in Seq(Ups) /\ \A i \in 1..Len(roadUp) : roadUp[i] = "RESUME" => i = 1
  BY DEF RoadTypes, ResumeInv
<1>2. /\ Len(roadUp) \in Nat /\ Len(roadUp) >= 1 /\ Head(roadUp) = roadUp[1] /\ Len(roadUp') = Len(roadUp) - 1
      /\ \A i \in 1..Len(roadUp') : roadUp'[i] = roadUp[i + 1] /\ i + 1 \in 1..Len(roadUp)
  BY <1>1, Shortened
<1>3. \A i \in 1..Len(roadUp') : i + 1 # 1
  BY <1>2
<1>4. \A i \in 1..Len(roadUp') : roadUp'[i] # "RESUME"
  BY <1>1, <1>2, <1>3
<1>5. 1 \in 1..Len(roadUp)
  BY <1>2
<1> QED BY <1>1, <1>2, <1>4, <1>5 DEF ResumeInv, Resuming

\* What the board shows is not disturbed by a round it has not been told the end of.
LEMMA ShownKept ==
  ASSUME Road!ChickenPageAssumption, RoadInv, UNCHANGED <<road, lastWin, timers>>, DOMAIN crossing' = Road!Rounds,
         walk'.n >= walk.n,
         walk'.n \in 0..MaxBets,
         \/ /\ UNCHANGED <<walk, crossing>>
            /\ roadDown' = roadDown \/ \E g \in Downs : g.type = "ERROR" /\ roadDown' = Append(roadDown, g)
         \/ /\ ~(Road!Playing /\ walk.status = "none")
            /\ \A k \in Road!Rounds : k # walk.n \/ walk.status = "none" => crossing'[k] = crossing[k]
  PROVE  ShowInv' /\ Road!ShownIsDecided'
<1> USE DEF Road!Playing
<1>1. RoadTypes /\ RoundInv /\ ShowInv /\ Road!ShownIsDecided
  BY DEF RoadInv
<1>2. CASE /\ UNCHANGED <<walk, crossing>>
           /\ roadDown' = roadDown \/ \E g \in Downs : g.type = "ERROR" /\ roadDown' = Append(roadDown, g)
  <2>1. OnlyErrors => OnlyErrors'
    <3>1. CASE roadDown' = roadDown
      BY <3>1 DEF OnlyErrors
    <3>2. CASE \E g \in Downs : g.type = "ERROR" /\ roadDown' = Append(roadDown, g)
      <4>1. PICK g \in Downs : g.type = "ERROR" /\ roadDown' = Append(roadDown, g)
        BY <3>2
      <4>2. /\ Len(roadDown') = Len(roadDown) + 1 /\ Len(roadDown) \in Nat
            /\ (\A i \in 1..Len(roadDown) : roadDown'[i] = roadDown[i]) /\ roadDown'[Len(roadDown) + 1] = g
        BY <1>1, <4>1, Appended DEF RoadTypes
      <4>3. \A i \in 1..Len(roadDown') : i \in 1..Len(roadDown) \/ i = Len(roadDown) + 1
        BY <4>2
      <4> QED BY <4>1, <4>2, <4>3 DEF OnlyErrors
    <3> QED BY <1>2, <3>1, <3>2
  <2>2. Final => Final'
    BY <1>2, <2>1 DEF Final
  <2>3. ShowInv'
    BY <1>1, <1>2, <2>2 DEF ShowInv, NoWins
  <2> QED BY <1>1, <1>2, <2>3 DEF Road!ShownIsDecided
<1>3. CASE /\ ~(Road!Playing /\ walk.status = "none")
           /\ \A k \in Road!Rounds : k # walk.n \/ walk.status = "none" => crossing'[k] = crossing[k]
  <2>1. ~road.doomed /\ \A k \in 1..Len(timers) : ~(timers[k].win # Road!NoWin)
    BY <1>1, <1>3 DEF ShowInv, Final
  <2>2. ShowInv'
    BY <2>1 DEF ShowInv
  <2>3. road.phase \in {"WON", "LOST"} => crossing'[road.shown] = crossing[road.shown]
    <3>1. SUFFICES ASSUME road.phase \in {"WON", "LOST"} PROVE crossing'[road.shown] = crossing[road.shown]
      OBVIOUS
    <3>2. road.shown \in 0..MaxBets /\ road.shown > 0 /\ walk.n \in 0..MaxBets /\ MaxBets \in Int
      <4>1. road.shown \in 0..MaxBets /\ road.shown > 0 /\ walk.n \in 0..MaxBets
        BY <1>1, <3>1 DEF RoadTypes, RoundInv
      <4> QED BY <4>1, RoadConstants
    <3>3. road.shown \in Road!Rounds
      BY <3>2 DEF Road!Rounds
    <3>4. walk.status # "none" => road.shown # walk.n
      BY <1>1, <3>1, <3>2 DEF RoundInv
    <3> QED BY <1>3, <3>3, <3>4
  <2>4. Road!ShownIsDecided'
    BY <1>1, <2>3 DEF Road!ShownIsDecided
  <2> QED BY <2>2, <2>4
<1> QED BY <1>2, <1>3
\* A frame the server refuses, or answers with nothing: the round stays as it is.
LEMMA RefusalStep ==
  ASSUME Road!ChickenPageAssumption, RoadInv, UNCHANGED <<road, lastWin, timers, held, walk, crossing, roadCrossed>>,
         \/ roadUp' = roadUp
         \/ roadUp # <<>> /\ roadUp' = Tail(roadUp) /\ (Head(roadUp) = "RESUME" => walk.status # "open"),
         roadDown' = roadDown \/ \E a \in BOOLEAN : roadDown' = Append(roadDown, Road!Refused(a))
  PROVE  RoadInv'
<1> USE DEF Road!Playing
<1>1. /\ RoadTypes /\ RoundInv /\ UpInv /\ FramesInv /\ TimersInv /\ ResumeInv /\ LaneInv
      /\ roadDown \in Seq(Downs) /\ Len(roadDown) \in Nat
  BY DEF RoadInv, RoadTypes
<1>2. roadDown' = roadDown \/ \E g \in Downs : g.type = "ERROR" /\ roadDown' = Append(roadDown, g)
  BY RoadFrames
<1>3. UpInv' /\ roadUp' \in Seq(Ups)
  BY <1>1, UpKept
<1>4. FramesInv' /\ roadDown' \in Seq(Downs)
  <2>1. \A f \in Downs : FrameFits(f) => FrameFits(f)'
    BY DEF FrameFits, NoWins
  <2>2. \A g \in Downs : g.type = "ERROR" => FrameFits(g)'
    BY DEF FrameFits
  <2> QED BY <1>1, <1>2, <2>1, <2>2, FramesKept
<1>5. RoadTypes'
  BY <1>1, <1>3, <1>4 DEF RoadTypes
<1>6. RoundInv'
  BY <1>1 DEF RoundInv
<1>7. ShowInv' /\ Road!ShownIsDecided'
  <2>1. walk'.n >= walk.n /\ walk'.n \in 0..MaxBets /\ DOMAIN crossing' = Road!Rounds
    BY <1>1, RoadConstants DEF RoadTypes
  <2> QED BY <1>2, <2>1, ShownKept
<1>8. TimersInv'
  BY <1>1 DEF TimersInv
<1>9. OnlyErrors => OnlyErrors'
  <2>1. CASE roadDown' = roadDown
    BY <2>1 DEF OnlyErrors
  <2>2. CASE \E g \in Downs : g.type = "ERROR" /\ roadDown' = Append(roadDown, g)
    <3>1. PICK g \in Downs : g.type = "ERROR" /\ roadDown' = Append(roadDown, g)
      BY <2>2
    <3>2. /\ Len(roadDown') = Len(roadDown) + 1
          /\ (\A i \in 1..Len(roadDown) : roadDown'[i] = roadDown[i]) /\ roadDown'[Len(roadDown) + 1] = g
      BY <1>1, <3>1, Appended
    <3>3. \A i \in 1..Len(roadDown') : i \in 1..Len(roadDown) \/ i = Len(roadDown) + 1
      BY <1>1, <3>2
    <3> QED BY <3>1, <3>2, <3>3 DEF OnlyErrors
  <2> QED BY <1>2, <2>1, <2>2
<1>10. ResumeInv' /\ (Resuming' \/ ~Resuming \/ ~walk.here \/ walk.status = "none")
         /\ (walk.status = "open" => (Resuming => Resuming'))
  <2>1. CASE roadUp' = roadUp
    BY <1>1, <1>9, <2>1 DEF ResumeInv, Resuming
  <2>2. CASE roadUp # <<>> /\ roadUp' = Tail(roadUp) /\ (Head(roadUp) = "RESUME" => walk.status # "open")
    <3>1. ResumeInv' /\ ~Resuming' /\ (Head(roadUp) # "RESUME" => ~Resuming)
      BY <1>1, <2>2, ResumeTaken
    <3>2. Resuming => ~walk.here \/ walk.status = "none"
      BY <1>1 DEF ResumeInv
    <3> QED BY <2>2, <3>1, <3>2
  <2> QED BY <2>1, <2>2
<1>11. ASSUME Road!Playing', ~roadCrossed' PROVE \E lo, hi \in Nat : Rises(roadDown', lo, hi) /\ RoadBase(lo)'
                /\ Top(hi)'
  <2>1. PICK lo \in Nat, hi \in Nat : Rises(roadDown, lo, hi) /\ RoadBase(lo) /\ Top(hi)
    BY <1>1, <1>11 DEF LaneInv
  <2>2. Rises(roadDown', lo, hi)
    <3>1. ASSUME NEW g \in Downs, g.type = "ERROR" PROVE Link(g, hi, hi) /\ hi <= hi
      BY <3>1 DEF Link, Raises
    <3> QED BY <1>1, <1>2, <2>1, <3>1, RisesAppend
  <2>3. RoadBase(lo)'
    BY <2>1 DEF RoadBase
  <2>4. Top(hi)'
    BY <1>10, <2>1 DEF Top
  <2> QED BY <2>2, <2>3, <2>4
<1>12. LaneInv'
  BY <1>11 DEF LaneInv
<1> QED BY <1>3, <1>4, <1>5, <1>6, <1>7, <1>8, <1>10, <1>12 DEF RoadInv

\* A bet is taken: the page that asked for it plays no round.
LEMMA BetStep ==
  ASSUME Road!ChickenPageAssumption, RoadInv, UNCHANGED <<road, lastWin, timers, held, crossing, roadCrossed, roadDown>>,
         Road!Take("BET"), walk.status = "none", walk.n # MaxBets,
         walk' = [n |-> walk.n + 1, lane |-> 0, status |-> "starting", here |-> TRUE]
  PROVE  RoadInv'
<1> USE DEF Road!Playing
<1>1. /\ RoadTypes /\ RoundInv /\ UpInv /\ FramesInv /\ ShowInv /\ TimersInv /\ ResumeInv /\ LaneInv
      /\ roadDown \in Seq(Downs) /\ roadUp \in Seq(Ups) /\ walk.n \in 0..MaxBets /\ MaxBets \in Nat
  BY RoadConstants DEF RoadInv, RoadTypes
<1>2. roadUp # <<>> /\ Head(roadUp) = "BET" /\ roadUp' = Tail(roadUp)
  BY DEF Road!Take
<1>3. UpInv' /\ roadUp' \in Seq(Ups)
  BY <1>1, <1>2, UpKept
<1>4. ~Road!Playing
  BY <1>3 DEF UpInv
<1>5. /\ walk'.n = walk.n + 1 /\ walk'.n \in 0..MaxBets /\ walk'.n > 0 /\ walk'.status = "starting"
      /\ walk' \in [n : 0..MaxBets, lane : Nat, status : {"none", "starting", "open", "auto", "cashout"}, here : BOOLEAN]
  BY <1>1
<1>6. FramesInv'
  <2>1. \A i \in 1..Len(roadDown), f \in Downs : f = roadDown[i] /\ FrameFits(f) => f.type = "ERROR"
    <3>1. \A f \in Downs : FrameFits(f) => f.type = "ERROR"
      BY <1>4, RoadFields DEF FrameFits
    <3> QED BY <3>1
  <2>2. \A f \in Downs : f.type = "ERROR" => FrameFits(f)'
    BY DEF FrameFits
  <2> QED BY <1>1, <2>1, <2>2, FramesKept
<1>7. RoadTypes'
  BY <1>1, <1>3, <1>5 DEF RoadTypes
<1>8. RoundInv'
  <2>1. road.shown \in 0..MaxBets
    BY <1>1 DEF RoadTypes
  <2> QED BY <1>1, <1>4, <1>5, <2>1 DEF RoundInv
<1>9. ShowInv' /\ Road!ShownIsDecided'
  <2>1. ~(Road!Playing /\ walk.status = "none") /\ DOMAIN crossing' = Road!Rounds /\ walk'.n >= walk.n
    BY <1>1, <1>4, <1>5 DEF RoadTypes
  <2> QED BY <1>5, <2>1, ShownKept
<1>10. TimersInv'
  BY <1>1 DEF TimersInv
<1>11. ResumeInv'
  BY <1>1, <1>2, ResumeTaken
<1>12. LaneInv'
  BY <1>4 DEF LaneInv
<1> QED BY <1>3, <1>6, <1>7, <1>8, <1>9, <1>10, <1>11, <1>12 DEF RoadInv

\* The round exists, and its caller is told of it if it is there.
LEMMA OpenedStep == ASSUME Road!ChickenPageAssumption, RoadInv, Road!Opened PROVE RoadInv'
<1> USE DEF Road!Playing
<1>1. /\ RoadTypes /\ RoundInv /\ UpInv /\ FramesInv /\ ShowInv /\ TimersInv /\ ResumeInv
      /\ roadDown \in Seq(Downs) /\ walk.n \in 0..MaxBets /\ walk.lane \in Nat
  BY DEF RoadInv, RoadTypes
<1>0. PICK g \in Downs : /\ g = [type |-> "BET_ACCEPTED", n |-> walk.n, lane |-> walk.lane]
                         /\ g.type = "BET_ACCEPTED" /\ g.n = walk.n /\ g.lane = walk.lane
  <2> DEFINE new == [type |-> "BET_ACCEPTED", n |-> walk.n, lane |-> walk.lane]
  <2>1. new \in Downs /\ new.type = "BET_ACCEPTED" /\ new.n = walk.n /\ new.lane = walk.lane
    BY <1>1, RoadFrames
  <2> QED BY <2>1
<1>2. /\ walk.status = "starting" /\ walk' = [walk EXCEPT !.status = "open"]
      /\ roadDown' = IF walk.here THEN Append(roadDown, g) ELSE roadDown
      /\ UNCHANGED <<road, lastWin, timers, held, crossing, roadCrossed, roadUp>>
  BY <1>0 DEF Road!Opened, Road!Answer, Road!SendDown, Road!Frame, Road!Quiet, Road!pageVars
<1>3. ~Road!Playing
  BY <1>1, <1>2 DEF UpInv
<1>4. /\ walk'.n = walk.n /\ walk'.lane = walk.lane /\ walk'.status = "open" /\ walk'.here = walk.here
      /\ walk' \in [n : 0..MaxBets, lane : Nat, status : {"none", "starting", "open", "auto", "cashout"}, here : BOOLEAN]
  BY <1>1, <1>2 DEF RoadTypes
<1>5. UpInv' /\ roadUp' \in Seq(Ups)
  BY <1>1, <1>2, <1>4, UpKept
<1>7. FramesInv' /\ roadDown' \in Seq(Downs)
  <2>1. \A f \in Downs : FrameFits(f) => f.type = "ERROR"
    BY <1>2, <1>3, RoadFields DEF FrameFits
  <2>2. \A f \in Downs : f.type = "ERROR" => FrameFits(f)'
    BY DEF FrameFits
  <2>3. FrameFits(g)'
    BY <1>4, <1>0 DEF FrameFits
  <2>4. \A i \in 1..Len(roadDown) : roadDown[i] \in Downs /\ roadDown[i].type # "GAME_RESULT"
    BY <1>1, <2>1 DEF FramesInv
  <2> QED BY <1>1, <1>2, <1>0, <2>1, <2>2, <2>3, <2>4, FramesKept
<1>8. RoadTypes'
  BY <1>1, <1>2, <1>4, <1>5, <1>7 DEF RoadTypes
<1>9. RoundInv'
  BY <1>1, <1>2, <1>3, <1>4 DEF RoundInv
<1>10. ShowInv' /\ Road!ShownIsDecided'
  <2>1. ~(Road!Playing /\ walk.status = "none") /\ DOMAIN crossing' = Road!Rounds /\ walk'.n >= walk.n
          /\ walk'.n \in 0..MaxBets
    BY <1>1, <1>2, <1>3, <1>4 DEF RoadTypes
  <2> QED BY <1>2, <2>1, ShownKept
<1>11. TimersInv'
  BY <1>1, <1>2 DEF TimersInv
<1>12. ResumeInv'
  BY <1>1, <1>2, <1>4 DEF ResumeInv, Resuming, OnlyErrors
<1>13. LaneInv'
  BY <1>2, <1>3 DEF LaneInv
<1> QED BY <1>5, <1>7, <1>8, <1>9, <1>10, <1>11, <1>12, <1>13 DEF RoadInv
\* A page that steps or cashes out plays, and has been answered its own question.
LEMMA ActTaken ==
  ASSUME RoadInv, walk.status # "none", NEW x \in {"STEP", "CASHOUT"}, Road!Take(x)
  PROVE  /\ Road!Playing /\ ~Resuming /\ ResumeInv' /\ ~Resuming'
         /\ roadUp # <<>> /\ roadUp' = Tail(roadUp) /\ Acts(Head(roadUp))
<1>1. roadUp # <<>> /\ roadUp' = Tail(roadUp) /\ Head(roadUp) = x /\ roadUp \in Seq(Ups)
  BY DEF Road!Take, RoadInv, RoadTypes
<1>2. ResumeInv' /\ ~Resuming' /\ ~Resuming
  BY <1>1, ResumeTaken DEF RoadInv
<1>3. roadUp[1] = x /\ 1 \in 1..Len(roadUp)
  BY <1>1, Shortened
<1> QED BY <1>1, <1>2, <1>3 DEF RoadInv, UpInv, Acts

\* The lane turns out lost: the loss stands, whatever is answered.
LEMMA BustStep ==
  ASSUME Road!ChickenPageAssumption, RoadInv, UNCHANGED <<road, lastWin, timers, held, roadCrossed>>,
         Road!Take("STEP"), walk.status = "open", walk' = [walk EXCEPT !.status = "none"],
         crossing' = [crossing EXCEPT ![walk.n] = Road!Busted],
         roadDown' = Append(roadDown, Road!Result(TRUE, FALSE, Road!NoWin))
           \/ roadDown' = Append(roadDown, Road!Refused(TRUE))
  PROVE  RoadInv'
<1> USE DEF Road!Playing
<1>1. /\ RoadTypes /\ RoundInv /\ UpInv /\ FramesInv /\ ShowInv /\ TimersInv /\ ResumeInv /\ LaneInv
      /\ roadDown \in Seq(Downs) /\ roadUp \in Seq(Ups) /\ walk.n \in 0..MaxBets /\ walk.lane \in Nat
      /\ LastLane \in Nat /\ MaxBets \in Nat
  BY RoadConstants DEF RoadInv, RoadTypes
<1>2. /\ walk'.n = walk.n /\ walk'.lane = walk.lane /\ walk'.status = "none" /\ walk'.here = walk.here
      /\ walk' \in [n : 0..MaxBets, lane : Nat, status : {"none", "starting", "open", "auto", "cashout"}, here : BOOLEAN]
  BY <1>1 DEF RoadTypes
<1>3. /\ Road!Playing /\ ~Resuming /\ ResumeInv' /\ roadUp # <<>> /\ roadUp' = Tail(roadUp) /\ Acts(Head(roadUp))
      /\ walk.n > 0 /\ crossing'[walk.n] = Road!Busted
  <2>1. walk.n \in Road!Rounds /\ walk.n > 0
    BY <1>1 DEF RoundInv, Road!Rounds
  <2>2. crossing'[walk.n] = Road!Busted
    BY <1>1, <2>1 DEF RoadTypes
  <2> QED BY <2>1, <2>2, ActTaken
<1>4. UpInv' /\ roadUp' \in Seq(Ups)
  BY <1>1, <1>2, <1>3, UpKept
<1>5. PICK g \in Downs : roadDown' = Append(roadDown, g) /\ ~Raises(g) /\ g.type \in {"ERROR", "GAME_RESULT"}
        /\ (g.type = "GAME_RESULT" => g.bust)
  <2>1. Road!NoWin \in Nat \X Nat
    BY DEF Road!NoWin
  <2>2. CASE roadDown' = Append(roadDown, Road!Result(TRUE, FALSE, Road!NoWin))
    <3>1. ~Raises(Road!Result(TRUE, FALSE, Road!NoWin))
      BY <2>1, RoadFrames DEF Raises
    <3> QED BY <2>1, <2>2, <3>1, RoadFrames
  <2>3. CASE roadDown' = Append(roadDown, Road!Refused(TRUE))
    <3>1. ~Raises(Road!Refused(TRUE)) /\ Road!Refused(TRUE) \in Downs /\ Road!Refused(TRUE).type = "ERROR"
      BY RoadFrames DEF Raises
    <3> QED BY <2>3, <3>1
  <2> QED BY <2>2, <2>3
<1>6. ~road.doomed /\ NoWins /\ road.doomed' = road.doomed
  BY <1>1 DEF ShowInv, Final, NoWins
<1>7. FramesInv' /\ roadDown' \in Seq(Downs)
  <2>1. \A f \in Downs : FrameFits(f) => FrameFits(f)' /\ f.type # "GAME_RESULT"
    BY <1>2, <1>3 DEF FrameFits
  <2>2. FrameFits(g)'
    BY <1>2, <1>3, <1>5, <1>6 DEF FrameFits, NoWins
  <2>3. \A i \in 1..Len(roadDown) : roadDown[i] \in Downs /\ roadDown[i].type # "GAME_RESULT"
    BY <1>1, <2>1 DEF FramesInv
  <2> QED BY <1>1, <1>5, <2>1, <2>2, <2>3, FramesKept
<1>8. RoadTypes'
  BY <1>1, <1>2, <1>4, <1>7 DEF RoadTypes
<1>9. RoundInv'
  BY <1>1, <1>2 DEF RoundInv
<1>10. ShowInv' /\ Road!ShownIsDecided'
  <2>1. ~(Road!Playing /\ walk.status = "none") /\ DOMAIN crossing' = Road!Rounds /\ walk'.n >= walk.n
          /\ walk'.n \in 0..MaxBets
    BY <1>1, <1>2, <1>3 DEF RoadTypes
  <2>2. \A k \in Road!Rounds : k # walk.n \/ walk.status = "none" => crossing'[k] = crossing[k]
    BY <1>1, <1>2 DEF RoadTypes
  <2> QED BY <1>2, <2>1, <2>2, ShownKept
<1>11. TimersInv'
  BY <1>1 DEF TimersInv
<1>12. ASSUME ~roadCrossed' PROVE \E lo, hi \in Nat : Rises(roadDown', lo, hi) /\ RoadBase(lo)' /\ Top(hi)'
  <2>1. PICK lo \in Nat, hi \in Nat : Rises(roadDown, lo, hi) /\ RoadBase(lo) /\ Top(hi)
    BY <1>1, <1>3, <1>12 DEF LaneInv
  <2>2. Link(g, hi, hi) /\ hi <= hi
    BY <1>5 DEF Link
  <2>3. Rises(roadDown', lo, hi)
    BY <1>1, <1>5, <2>1, <2>2, RisesAppend
  <2>4. RoadBase(lo)' /\ Top(hi)'
    BY <1>2, <2>1 DEF RoadBase, Top
  <2> QED BY <2>3, <2>4
<1>13. LaneInv'
  BY <1>12 DEF LaneInv
<1> QED BY <1>3, <1>4, <1>7, <1>8, <1>9, <1>10, <1>11, <1>13 DEF RoadInv

\* The lane is crossed, and the page is told of it.
LEMMA LaneStep ==
  ASSUME Road!ChickenPageAssumption, RoadInv, UNCHANGED <<road, lastWin, timers, held, roadCrossed, crossing>>,
         Road!Take("STEP"), walk.status = "open", walk' = [walk EXCEPT !.lane = @ + 1],
         roadDown' = Append(roadDown, [type |-> "STATE_UPDATE", n |-> walk.n, lane |-> walk.lane])
  PROVE  RoadInv'
<1> USE DEF Road!Playing
<1>1. /\ RoadTypes /\ RoundInv /\ UpInv /\ FramesInv /\ ShowInv /\ TimersInv /\ ResumeInv /\ LaneInv
      /\ roadDown \in Seq(Downs) /\ roadUp \in Seq(Ups) /\ walk.n \in 0..MaxBets /\ walk.lane \in Nat
      /\ LastLane \in Nat /\ MaxBets \in Nat
  BY RoadConstants DEF RoadInv, RoadTypes
<1>2. /\ walk'.n = walk.n /\ walk'.lane = walk.lane + 1 /\ walk'.status = "open" /\ walk'.here = walk.here
      /\ walk' \in [n : 0..MaxBets, lane : Nat, status : {"none", "starting", "open", "auto", "cashout"}, here : BOOLEAN]
  <2>1. walk \in [n : 0..MaxBets, lane : Nat, status : {"none", "starting", "open", "auto", "cashout"}, here : BOOLEAN]
          /\ walk.lane + 1 \in Nat
    BY <1>1 DEF RoadTypes
  <2>2. walk'.n = walk.n /\ walk'.lane = walk.lane + 1 /\ walk'.status = "open" /\ walk'.here = walk.here
    BY <2>1
  <2>3. walk' \in [n : 0..MaxBets, lane : Nat, status : {"none", "starting", "open", "auto", "cashout"}, here : BOOLEAN]
    BY <2>1
  <2> QED BY <2>2, <2>3
<1>3. Road!Playing /\ ~Resuming /\ ResumeInv' /\ roadUp # <<>> /\ roadUp' = Tail(roadUp) /\ Acts(Head(roadUp))
  BY ActTaken
<1>4. UpInv' /\ roadUp' \in Seq(Ups)
  BY <1>1, <1>2, <1>3, UpKept
<1>5. PICK g \in Downs : roadDown' = Append(roadDown, g) /\ g.type = "STATE_UPDATE"
  <2> DEFINE new == [type |-> "STATE_UPDATE", n |-> walk.n, lane |-> walk.lane]
  <2>1. new \in Downs /\ new.type = "STATE_UPDATE" /\ roadDown' = Append(roadDown, new)
    BY <1>1, RoadFrames
  <2> QED BY <2>1
<1>6. FramesInv' /\ roadDown' \in Seq(Downs)
  <2>1. \A f \in Downs : FrameFits(f) => FrameFits(f)' /\ f.type # "GAME_RESULT"
    BY <1>2, <1>3 DEF FrameFits
  <2>2. FrameFits(g)'
    BY <1>3, <1>5 DEF FrameFits
  <2>3. \A i \in 1..Len(roadDown) : roadDown[i] \in Downs /\ roadDown[i].type # "GAME_RESULT"
    BY <1>1, <2>1 DEF FramesInv
  <2> QED BY <1>1, <1>5, <2>1, <2>2, <2>3, FramesKept
<1>7. RoadTypes'
  BY <1>1, <1>2, <1>4, <1>6 DEF RoadTypes
<1>8. RoundInv'
  BY <1>1, <1>2 DEF RoundInv
<1>9. ShowInv' /\ Road!ShownIsDecided'
  <2>1. ~(Road!Playing /\ walk.status = "none") /\ DOMAIN crossing' = Road!Rounds /\ walk'.n >= walk.n
          /\ walk'.n \in 0..MaxBets
    BY <1>1, <1>2, <1>3 DEF RoadTypes
  <2>2. \A k \in Road!Rounds : k # walk.n \/ walk.status = "none" => crossing'[k] = crossing[k]
    BY <1>1, <1>2 DEF RoadTypes
  <2> QED BY <1>2, <2>1, <2>2, ShownKept
<1>10. TimersInv'
  BY <1>1 DEF TimersInv
<1>11. ASSUME ~roadCrossed' PROVE \E lo, hi \in Nat : Rises(roadDown', lo, hi) /\ RoadBase(lo)' /\ Top(hi)'
  <2>1. PICK lo \in Nat, hi \in Nat : Rises(roadDown, lo, hi) /\ RoadBase(lo) /\ Top(hi)
    BY <1>1, <1>3, <1>11 DEF LaneInv
  <2>2. Link(g, hi, hi + 1) /\ hi <= hi + 1 /\ hi + 1 \in Nat
    BY <1>5 DEF Link, Raises
  <2>3. Rises(roadDown', lo, hi + 1)
    BY <1>1, <1>5, <2>1, <2>2, RisesAppend
  <2>4. RoadBase(lo)' /\ Top(hi + 1)'
    BY <1>1, <1>2, <1>3, <2>1 DEF RoadBase, Top
  <2> QED BY <2>2, <2>3, <2>4
<1>12. LaneInv'
  BY <1>11 DEF LaneInv
<1> QED BY <1>3, <1>4, <1>6, <1>7, <1>8, <1>9, <1>10, <1>12 DEF RoadInv

\* The round is about to be paid: the last lane is crossed, or the player cashes out.
LEMMA ClosingStep ==
  ASSUME Road!ChickenPageAssumption, RoadInv, UNCHANGED <<road, lastWin, timers, held, roadCrossed, crossing, roadDown>>,
         NEW x \in {"STEP", "CASHOUT"}, Road!Take(x), walk.status = "open",
         \/ /\ walk' = [walk EXCEPT !.lane = @ + 1, !.status = "auto", !.here = TRUE]
            /\ walk.lane + 1 >= LastLane
         \/ walk' = [walk EXCEPT !.status = "cashout", !.here = TRUE]
  PROVE  RoadInv'
<1> USE DEF Road!Playing
<1>1. /\ RoadTypes /\ RoundInv /\ UpInv /\ FramesInv /\ ShowInv /\ TimersInv /\ ResumeInv /\ LaneInv
      /\ roadDown \in Seq(Downs) /\ roadUp \in Seq(Ups) /\ walk.n \in 0..MaxBets /\ walk.lane \in Nat
      /\ LastLane \in Nat /\ MaxBets \in Nat
  BY RoadConstants DEF RoadInv, RoadTypes
<1>2. /\ walk'.n = walk.n /\ walk'.status \in {"auto", "cashout"} /\ walk'.here = TRUE /\ walk.status # "none"
      /\ walk'.status = "auto" => walk'.lane = walk.lane + 1 /\ walk'.lane >= LastLane
      /\ walk'.status = "cashout" => walk'.lane = walk.lane
      /\ walk' \in [n : 0..MaxBets, lane : Nat, status : {"none", "starting", "open", "auto", "cashout"}, here : BOOLEAN]
  <2>1. CASE /\ walk' = [walk EXCEPT !.lane = @ + 1, !.status = "auto", !.here = TRUE]
             /\ walk.lane + 1 >= LastLane
    <3>1. walk \in [n : 0..MaxBets, lane : Nat, status : {"none", "starting", "open", "auto", "cashout"}, here : BOOLEAN]
            /\ walk.lane + 1 \in Nat
      BY <1>1 DEF RoadTypes
    <3>2. walk'.n = walk.n /\ walk'.lane = walk.lane + 1 /\ walk'.status = "auto" /\ walk'.here = TRUE
      BY <2>1, <3>1
    <3>3. walk' \in [n : 0..MaxBets, lane : Nat, status : {"none", "starting", "open", "auto", "cashout"}, here : BOOLEAN]
      BY <2>1, <3>1
    <3> QED BY <2>1, <3>2, <3>3
  <2>2. CASE walk' = [walk EXCEPT !.status = "cashout", !.here = TRUE]
    BY <1>1, <2>2 DEF RoadTypes
  <2> QED BY <2>1, <2>2
<1>3. Road!Playing /\ ~Resuming /\ ResumeInv' /\ roadUp # <<>> /\ roadUp' = Tail(roadUp) /\ Acts(Head(roadUp))
  BY <1>2, ActTaken
<1>4. UpInv' /\ roadUp' \in Seq(Ups)
  BY <1>1, <1>2, <1>3, UpKept
<1>6. FramesInv' /\ roadDown' \in Seq(Downs)
  <2>1. \A f \in Downs : FrameFits(f) => FrameFits(f)'
    BY <1>2, <1>3 DEF FrameFits
  <2> QED BY <1>1, <2>1, FramesKept
<1>7. RoadTypes'
  BY <1>1, <1>2, <1>4, <1>6 DEF RoadTypes
<1>8. RoundInv'
  BY <1>1, <1>2 DEF RoundInv
<1>9. ShowInv' /\ Road!ShownIsDecided'
  <2>1. ~(Road!Playing /\ walk.status = "none") /\ DOMAIN crossing' = Road!Rounds /\ walk'.n >= walk.n
          /\ walk'.n \in 0..MaxBets
    BY <1>1, <1>2, <1>3 DEF RoadTypes
  <2>2. \A k \in Road!Rounds : k # walk.n \/ walk.status = "none" => crossing'[k] = crossing[k]
    BY <1>1, <1>2 DEF RoadTypes
  <2> QED BY <1>2, <2>1, <2>2, ShownKept
<1>10. TimersInv'
  BY <1>1 DEF TimersInv
<1>11. ASSUME ~roadCrossed' PROVE \E lo, hi \in Nat : Rises(roadDown', lo, hi) /\ RoadBase(lo)' /\ Top(hi)'
  <2>1. PICK lo \in Nat, hi \in Nat : Rises(roadDown, lo, hi) /\ RoadBase(lo) /\ Top(hi)
    BY <1>1, <1>3, <1>11 DEF LaneInv
  <2>2. Rises(roadDown', lo, hi)
    BY <2>1
  <2>3. RoadBase(lo)'
    BY <1>2, <2>1 DEF RoadBase
  <2>4. Top(hi)'
    <3>1. hi <= walk.lane /\ (walk.lane < LastLane => hi = walk.lane)
      BY <1>3, <2>1 DEF Top
    <3> QED BY <1>1, <1>2, <3>1 DEF Top
  <2> QED BY <2>2, <2>3, <2>4
<1>12. LaneInv'
  BY <1>11 DEF LaneInv
<1> QED BY <1>3, <1>4, <1>6, <1>7, <1>8, <1>9, <1>10, <1>12 DEF RoadInv
\* The round is paid, and its caller is told of it if it is there.
LEMMA PaidStep ==
  ASSUME Road!ChickenPageAssumption, RoadInv, UNCHANGED <<road, lastWin, timers, held, roadCrossed, roadUp>>,
         RoundSettling, walk' = [walk EXCEPT !.status = "none"],
         crossing' = [crossing EXCEPT ![walk.n] = <<walk.n, walk.lane>>],
         \/ Road!Answer(Road!Result(FALSE, walk.status = "auto", <<walk.n, walk.lane>>))
         \/ Road!Answer(Road!Refused(TRUE))
  PROVE  RoadInv'
<1> USE DEF Road!Playing
<1>1. /\ RoadTypes /\ RoundInv /\ UpInv /\ FramesInv /\ ShowInv /\ TimersInv /\ ResumeInv /\ LaneInv
      /\ roadDown \in Seq(Downs) /\ roadUp \in Seq(Ups) /\ walk.n \in 0..MaxBets /\ walk.lane \in Nat
      /\ LastLane \in Nat /\ MaxBets \in Nat
  BY RoadConstants DEF RoadInv, RoadTypes
<1>2. /\ walk'.n = walk.n /\ walk'.lane = walk.lane /\ walk'.status = "none" /\ walk'.here = walk.here
      /\ walk' \in [n : 0..MaxBets, lane : Nat, status : {"none", "starting", "open", "auto", "cashout"}, here : BOOLEAN]
  BY <1>1 DEF RoadTypes
<1>3. /\ walk.status \in {"auto", "cashout"} /\ walk.n \in Road!Rounds /\ walk.n > 0 /\ (walk.here => Road!Playing)
      /\ (Resuming => ~walk.here)
  BY <1>1 DEF RoundInv, RoundSettling, UpInv, ResumeInv, Road!Rounds
<1> DEFINE payout == <<walk.n, walk.lane>>
<1>4. payout \in Nat \X Nat /\ payout # Road!NoWin /\ payout[1] = walk.n /\ crossing'[walk.n] = payout
  BY <1>1, <1>3 DEF Road!NoWin, RoadTypes
<1>5. /\ walk.here => \E g \in Downs :
           /\ roadDown' = Append(roadDown, g) /\ g.type \in {"ERROR", "GAME_RESULT"}
           /\ g.type = "GAME_RESULT" => ~g.bust /\ g.payout = payout /\ (g.auto => walk.status = "auto")
      /\ ~walk.here => roadDown' = roadDown
  <2>1. CASE Road!Answer(Road!Result(FALSE, walk.status = "auto", payout))
    <3> DEFINE new == Road!Result(FALSE, walk.status = "auto", payout)
    <3>1. (walk.status = "auto") \in BOOLEAN
      OBVIOUS
    <3>2. new \in Downs /\ new.type = "GAME_RESULT" /\ new.bust = FALSE /\ new.payout = payout
            /\ new.auto = (walk.status = "auto")
      BY <1>4, <3>1, RoadFrames
    <3>3. (walk.here => roadDown' = Append(roadDown, new)) /\ (~walk.here => roadDown' = roadDown)
      BY <2>1 DEF Road!Answer, Road!SendDown
    <3> HIDE DEF new
    <3> QED BY <3>2, <3>3
  <2>2. CASE Road!Answer(Road!Refused(TRUE))
    <3>1. Road!Refused(TRUE) \in Downs /\ Road!Refused(TRUE).type = "ERROR"
      BY RoadFrames
    <3>2. (walk.here => roadDown' = Append(roadDown, Road!Refused(TRUE))) /\ (~walk.here => roadDown' = roadDown)
      BY <2>2 DEF Road!Answer, Road!SendDown
    <3> QED BY <3>1, <3>2
  <2> QED BY <2>1, <2>2
<1>6. UpInv' /\ roadUp' \in Seq(Ups)
  BY <1>1, <1>2, UpKept
<1>7. ~road.doomed /\ NoWins /\ road.doomed' = road.doomed
  BY <1>1, <1>3 DEF ShowInv, Final, NoWins
<1>8. \A f \in Downs : FrameFits(f) => FrameFits(f)' /\ f.type # "GAME_RESULT"
  BY <1>2, <1>3 DEF FrameFits
<1>9. \A i \in 1..Len(roadDown) : roadDown[i] \in Downs /\ roadDown[i].type # "GAME_RESULT"
  BY <1>1, <1>8 DEF FramesInv
<1>10. FramesInv' /\ roadDown' \in Seq(Downs)
  <2>1. CASE walk.here
    <3>1. PICK g \in Downs :
           /\ roadDown' = Append(roadDown, g) /\ g.type \in {"ERROR", "GAME_RESULT"}
           /\ g.type = "GAME_RESULT" => ~g.bust /\ g.payout = <<walk.n, walk.lane>>
      BY <1>5, <2>1
    <3>2. PICK p \in Nat \X Nat : p = <<walk.n, walk.lane>> /\ p # Road!NoWin /\ p[1] = walk.n
            /\ crossing'[walk.n] = p
      BY <1>4
    <3>3. FrameFits(g)'
      BY <1>2, <1>3, <1>7, <2>1, <3>1, <3>2 DEF FrameFits, NoWins
    <3> QED BY <1>1, <1>8, <1>9, <3>1, <3>3, FramesKept
  <2>2. CASE ~walk.here
    BY <1>1, <1>5, <1>8, <2>2, FramesKept
  <2> QED BY <2>1, <2>2
<1>11. RoadTypes'
  BY <1>1, <1>2, <1>6, <1>10 DEF RoadTypes
<1>12. RoundInv'
  BY <1>1, <1>2 DEF RoundInv
<1>13. ShowInv' /\ Road!ShownIsDecided'
  <2>1. ~(Road!Playing /\ walk.status = "none") /\ DOMAIN crossing' = Road!Rounds /\ walk'.n >= walk.n
          /\ walk'.n \in 0..MaxBets
    BY <1>1, <1>2, <1>3 DEF RoadTypes
  <2>2. \A k \in Road!Rounds : k # walk.n \/ walk.status = "none" => crossing'[k] = crossing[k]
    BY <1>1, <1>2, <1>3 DEF RoadTypes
  <2> QED BY <1>2, <2>1, <2>2, ShownKept
<1>14. TimersInv'
  BY <1>1 DEF TimersInv
<1>15. ResumeInv'
  BY <1>1, <1>2, <1>3, <1>5 DEF ResumeInv, Resuming, OnlyErrors
<1>16. ASSUME Road!Playing, ~roadCrossed' PROVE \E lo, hi \in Nat : Rises(roadDown', lo, hi) /\ RoadBase(lo)'
                /\ Top(hi)'
  <2>1. PICK lo \in Nat, hi \in Nat : Rises(roadDown, lo, hi) /\ RoadBase(lo) /\ Top(hi)
    BY <1>1, <1>16 DEF LaneInv
  <2>2. RoadBase(lo)'
    BY <1>2, <2>1 DEF RoadBase
  <2>3. \A m \in Nat : m <= walk.lane => Top(m)'
    BY <1>2 DEF Top
  <2>4. hi <= walk.lane /\ (walk.status = "auto" => hi < walk.lane)
    BY <2>1 DEF Top
  <2>5. CASE ~walk.here
    BY <1>5, <2>1, <2>2, <2>3, <2>4, <2>5
  <2>6. CASE walk.here
    <3>1. PICK g \in Downs :
           /\ roadDown' = Append(roadDown, g) /\ g.type \in {"ERROR", "GAME_RESULT"}
           /\ g.type = "GAME_RESULT" => (g.auto => walk.status = "auto")
      BY <1>5, <2>6
    <3>2. CASE Raises(g)
      <4>1. Link(g, hi, hi + 1) /\ hi + 1 \in Nat /\ hi <= hi + 1 /\ walk.status = "auto"
        BY <3>1, <3>2 DEF Link, Raises
      <4>2. Rises(roadDown', lo, hi + 1)
        BY <1>1, <2>1, <3>1, <4>1, RisesAppend
      <4>3. hi + 1 <= walk.lane
        BY <1>1, <2>4, <4>1
      <4> QED BY <2>2, <2>3, <4>1, <4>2, <4>3
    <3>3. CASE ~Raises(g)
      <4>1. Link(g, hi, hi) /\ hi <= hi
        BY <3>1, <3>3 DEF Link
      <4>2. Rises(roadDown', lo, hi)
        BY <1>1, <2>1, <3>1, <4>1, RisesAppend
      <4> QED BY <2>2, <2>3, <2>4, <4>2
    <3> QED BY <3>2, <3>3
  <2> QED BY <2>5, <2>6
<1>17. LaneInv'
  BY <1>16 DEF LaneInv
<1> QED BY <1>6, <1>10, <1>11, <1>12, <1>13, <1>14, <1>15, <1>17 DEF RoadInv

\* The credit fails: the round is handed back, and its caller is told if it is there.
LEMMA UnpaidStep ==
  ASSUME Road!ChickenPageAssumption, RoadInv, UNCHANGED <<road, lastWin, timers, held, roadUp, crossing>>,
         RoundSettling, walk' = [walk EXCEPT !.status = "open"], roadCrossed' = (roadCrossed
           \/ ~walk.here), Road!Answer(Road!Refused(TRUE))
  PROVE  RoadInv'
<1> USE DEF Road!Playing
<1>1. /\ RoadTypes /\ RoundInv /\ UpInv /\ FramesInv /\ ShowInv /\ TimersInv /\ ResumeInv /\ LaneInv
      /\ roadDown \in Seq(Downs) /\ roadUp \in Seq(Ups) /\ walk.n \in 0..MaxBets /\ walk.lane \in Nat
      /\ LastLane \in Nat /\ MaxBets \in Nat
  BY RoadConstants DEF RoadInv, RoadTypes
<1>2. /\ walk'.n = walk.n /\ walk'.lane = walk.lane /\ walk'.status = "open" /\ walk'.here = walk.here
      /\ walk' \in [n : 0..MaxBets, lane : Nat, status : {"none", "starting", "open", "auto", "cashout"}, here : BOOLEAN]
              /\ roadCrossed' \in BOOLEAN
  BY <1>1 DEF RoadTypes
<1>3. walk.status \in {"auto", "cashout"} /\ (Resuming => ~walk.here) /\ (Resuming' <=> Resuming)
  BY <1>1 DEF RoundSettling, ResumeInv, Resuming
<1>4. /\ walk.here => \E g \in Downs : roadDown' = Append(roadDown, g) /\ g.type = "ERROR"
      /\ ~walk.here => roadDown' = roadDown
  BY RoadFrames DEF Road!Answer, Road!SendDown
<1>6. UpInv' /\ roadUp' \in Seq(Ups)
  BY <1>1, <1>2, UpKept
<1>10. FramesInv' /\ roadDown' \in Seq(Downs)
  <2>1. \A f \in Downs : FrameFits(f) => FrameFits(f)'
    BY <1>2, <1>3 DEF FrameFits
  <2>2. \A g \in Downs : g.type = "ERROR" => FrameFits(g)'
    BY DEF FrameFits
  <2> QED BY <1>1, <1>4, <2>1, <2>2, FramesKept
<1>11. RoadTypes'
  BY <1>1, <1>2, <1>6, <1>10 DEF RoadTypes
<1>12. RoundInv'
  BY <1>1, <1>2, <1>3 DEF RoundInv
<1>13. ShowInv' /\ Road!ShownIsDecided'
  <2>1. ~(Road!Playing /\ walk.status = "none") /\ DOMAIN crossing' = Road!Rounds /\ walk'.n >= walk.n
          /\ walk'.n \in 0..MaxBets
    BY <1>1, <1>2, <1>3 DEF RoadTypes
  <2>2. \A k \in Road!Rounds : k # walk.n \/ walk.status = "none" => crossing'[k] = crossing[k]
    BY <1>1, <1>2 DEF RoadTypes
  <2> QED BY <1>2, <2>1, <2>2, ShownKept
<1>14. TimersInv'
  BY <1>1 DEF TimersInv
<1>15. ResumeInv'
  BY <1>1, <1>2, <1>3, <1>4 DEF ResumeInv, Resuming, OnlyErrors
<1>16. ASSUME Road!Playing, ~roadCrossed' PROVE \E lo, hi \in Nat : Rises(roadDown', lo, hi) /\ RoadBase(lo)'
                /\ Top(hi)'
  <2>1. ~roadCrossed /\ walk.here
    BY <1>16
  <2>2. PICK lo \in Nat, hi \in Nat : Rises(roadDown, lo, hi) /\ RoadBase(lo) /\ Top(hi)
    BY <1>1, <1>16, <2>1 DEF LaneInv
  <2>3. PICK g \in Downs : roadDown' = Append(roadDown, g) /\ g.type = "ERROR"
    BY <1>4, <2>1
  <2>4. Link(g, hi, hi) /\ hi <= hi
    BY <2>3 DEF Link, Raises
  <2>5. Rises(roadDown', lo, hi)
    BY <1>1, <2>2, <2>3, <2>4, RisesAppend
  <2>6. RoadBase(lo)'
    BY <1>2, <1>3, <2>2 DEF RoadBase
  <2>7. walk.status = "auto" => walk.lane >= LastLane
    BY <1>1 DEF RoundInv
  <2>8. Top(hi)'
    BY <1>1, <1>2, <1>3, <2>1, <2>2, <2>7 DEF Top
  <2> QED BY <2>5, <2>6, <2>8
<1>17. LaneInv'
  BY <1>16 DEF LaneInv
<1> QED BY <1>6, <1>10, <1>11, <1>12, <1>13, <1>14, <1>15, <1>17 DEF RoadInv

\* A page that asks for its round is shown the lane it stands on.
LEMMA RoadResumeStep ==
  ASSUME Road!ChickenPageAssumption, RoadInv, UNCHANGED <<road, lastWin, timers, held, roadCrossed, crossing, walk>>,
         Road!Take("RESUME"), walk.status = "open",
         roadDown' = Append(roadDown, [type |-> "BET_ACCEPTED", n |-> walk.n, lane |-> walk.lane])
  PROVE  RoadInv'
<1> USE DEF Road!Playing
<1>1. /\ RoadTypes /\ RoundInv /\ UpInv /\ FramesInv /\ ShowInv /\ TimersInv /\ ResumeInv /\ LaneInv
      /\ roadDown \in Seq(Downs) /\ roadUp \in Seq(Ups) /\ walk.n \in 0..MaxBets /\ walk.lane \in Nat
      /\ LastLane \in Nat /\ MaxBets \in Nat
  BY RoadConstants DEF RoadInv, RoadTypes
<1>2. roadUp # <<>> /\ roadUp' = Tail(roadUp) /\ Head(roadUp) = "RESUME"
  BY DEF Road!Take
<1>3. Resuming /\ OnlyErrors /\ ResumeInv' /\ ~Resuming'
  BY <1>1, <1>2, ResumeTaken DEF ResumeInv
<1>4. UpInv' /\ roadUp' \in Seq(Ups)
  BY <1>1, <1>2, UpKept
<1>5. PICK g \in Downs : /\ roadDown' = Append(roadDown, g) /\ g.type = "BET_ACCEPTED"
                         /\ g.n = walk.n /\ g.lane = walk.lane
  <2> DEFINE new == [type |-> "BET_ACCEPTED", n |-> walk.n, lane |-> walk.lane]
  <2>1. new \in Downs /\ new.type = "BET_ACCEPTED" /\ roadDown' = Append(roadDown, new) /\ new.n = walk.n
          /\ new.lane = walk.lane
    BY <1>1, RoadFrames
  <2> QED BY <2>1
<1>6. FramesInv' /\ roadDown' \in Seq(Downs)
  <2>1. \A f \in Downs : FrameFits(f) => FrameFits(f)'
    BY DEF FrameFits, NoWins
  <2>2. FrameFits(g)'
    BY <1>5 DEF FrameFits
  <2>3. \A i \in 1..Len(roadDown) : roadDown[i].type # "GAME_RESULT"
    BY <1>3 DEF OnlyErrors
  <2> QED BY <1>1, <1>5, <2>1, <2>2, <2>3, FramesKept
<1>7. RoadTypes'
  BY <1>1, <1>4, <1>6 DEF RoadTypes
<1>8. RoundInv'
  BY <1>1 DEF RoundInv
<1>9. ShowInv' /\ Road!ShownIsDecided'
  <2>1. ~(Road!Playing /\ walk.status = "none") /\ DOMAIN crossing' = Road!Rounds /\ walk'.n >= walk.n
          /\ walk'.n \in 0..MaxBets
    BY <1>1, <1>2, <1>3 DEF RoadTypes
  <2>2. \A k \in Road!Rounds : k # walk.n \/ walk.status = "none" => crossing'[k] = crossing[k]
    BY <1>1, <1>2 DEF RoadTypes
  <2> QED BY <1>2, <2>1, <2>2, ShownKept
<1>10. TimersInv'
  BY <1>1 DEF TimersInv
<1>11. ASSUME Road!Playing, ~roadCrossed' PROVE \E lo, hi \in Nat : Rises(roadDown', lo, hi) /\ RoadBase(lo)'
                /\ Top(hi)'
  <2>1. PICK lo \in Nat, hi \in Nat : Rises(roadDown, lo, hi) /\ RoadBase(lo) /\ Top(hi)
    BY <1>1, <1>11 DEF LaneInv
  <2>2. PICK b \in Nat : b = walk.lane
    BY <1>1
  <2>3. Link(g, hi, b) /\ hi <= b
    BY <1>5, <2>1, <2>2 DEF Link, Top
  <2>4. Rises(roadDown', lo, b)
    BY <1>1, <1>5, <2>1, <2>3, RisesAppend
  <2>5. RoadBase(lo)'
    BY <2>1 DEF RoadBase
  <2>6. Top(b)'
    BY <1>1, <2>2 DEF Top
  <2> QED BY <2>4, <2>5, <2>6
<1>12. LaneInv'
  BY <1>11 DEF LaneInv
<1> QED BY <1>3, <1>4, <1>6, <1>7, <1>8, <1>9, <1>10, <1>12 DEF RoadInv
-----------------------------------------------------------------------------
(* What the page does *)

\* The page may ask while its round runs, and start one while it plays none.
LEMMA RoadAskStep ==
  ASSUME RoadTypes, UpInv, ResumeInv, NEW x \in {"BET", "STEP", "CASHOUT"}, roadUp' = Append(roadUp, x),
         UNCHANGED <<walk, roadDown>>, road'.phase = road.phase, x = "BET" <=> ~Road!Playing
  PROVE  UpInv' /\ ResumeInv' /\ roadUp' \in Seq(Ups) /\ (Resuming' <=> Resuming)
<1> USE DEF Road!Playing
<1> DEFINE l == Len(roadUp)
<1>1. /\ roadUp' \in Seq(Ups) /\ Len(roadUp') = l + 1 /\ l \in Nat
      /\ (\A i \in 1..l : roadUp'[i] = roadUp[i]) /\ roadUp'[l + 1] = x
  BY Appended DEF RoadTypes, Ups
<1>2. \A b \in 1..l : roadUp[b] = "BET" =>
        /\ walk.status = "none" \/ RoundSettling => ~Road!Playing /\ \A i \in 1..l : i > b => ~Acts(roadUp[i])
        /\ walk.status # "none" => \A i \in 1..l : i < b => ~Acts(roadUp[i])
  BY DEF UpInv
<1>3. /\ walk.status = "starting" => ~Road!Playing
      /\ walk.status # "none" /\ (\E i \in 1..l : Acts(roadUp[i])) => Road!Playing
      /\ RoundSettling /\ walk.here => Road!Playing
  BY DEF UpInv
<1> HIDE DEF l
<1>4. \A i \in 1..(l + 1) : (i \in 1..l /\ roadUp'[i] = roadUp[i]) \/ (i = l + 1 /\ roadUp'[i] = x)
  BY <1>1
<1>5. Acts(x) <=> x # "BET"
  BY DEF Acts
<1>6. ASSUME NEW b \in 1..(l + 1), roadUp'[b] = "BET"
      PROVE  /\ walk.status = "none" \/ RoundSettling => ~Road!Playing /\ \A i \in 1..(l + 1) : i > b =>
                  ~Acts(roadUp'[i])
             /\ walk.status # "none" => \A i \in 1..(l + 1) : i < b => ~Acts(roadUp'[i])
  <2>1. CASE b \in 1..l /\ roadUp'[b] = roadUp[b]
    <3>1. ASSUME walk.status = "none" \/ RoundSettling, NEW i \in 1..(l + 1), i > b PROVE ~Road!Playing
                   /\ ~Acts(roadUp'[i])
      BY <1>2, <1>4, <1>5, <1>6, <2>1, <3>1
    <3>2. ASSUME walk.status # "none", NEW i \in 1..(l + 1), i < b PROVE ~Acts(roadUp'[i])
      <4>1. i \in 1..l
        BY <1>1, <2>1, <3>2
      <4> QED BY <1>1, <1>2, <1>6, <2>1, <3>2, <4>1
    <3>3. walk.status = "none" \/ RoundSettling => ~Road!Playing
      BY <1>2, <1>6, <2>1
    <3> QED BY <3>1, <3>2, <3>3
  <2>2. CASE b = l + 1 /\ roadUp'[b] = x
    <3>1. x = "BET" /\ ~Road!Playing
      BY <1>6, <2>2
    <3>2. \A i \in 1..(l + 1) : ~(i > b)
      BY <1>1, <2>2
    <3>3. walk.status # "none" => \A i \in 1..l : ~Acts(roadUp[i])
      BY <1>3, <3>1
    <3>4. \A i \in 1..(l + 1) : i < b => i \in 1..l
      BY <1>1, <2>2
    <3> QED BY <1>1, <3>1, <3>2, <3>3, <3>4
  <2> QED BY <1>4, <2>1, <2>2
<1>7. walk.status # "none" /\ (\E i \in 1..(l + 1) : Acts(roadUp'[i])) => Road!Playing
  BY <1>3, <1>4, <1>5
<1>8. UpInv'
  <2>1. RoundSettling' <=> RoundSettling
    BY DEF RoundSettling
  <2> QED BY <1>1, <1>3, <1>6, <1>7, <2>1 DEF UpInv, Acts, RoundSettling
<1>9. Resuming' <=> Resuming
  <2>1. \A i \in 1..l : i \in 1..(l + 1)
    BY <1>1
  <2> QED BY <1>1, <1>4, <2>1 DEF Resuming, l
<1>10. ResumeInv'
  <2>1. \A i \in 1..l : roadUp[i] = "RESUME" => i = 1
    BY DEF ResumeInv, l
  <2>2. OnlyErrors' <=> OnlyErrors
    BY DEF OnlyErrors
  <2> QED BY <1>1, <1>4, <1>9, <2>1, <2>2 DEF ResumeInv
<1> QED BY <1>1, <1>8, <1>9, <1>10

\* A page that does not play has no win on its way.
LEMMA RoadIdle ==
  ASSUME RoadInv
  PROVE  /\ ~Road!Playing \/ ~OnlyErrors \/ walk.status # "none" => NoWins /\ ~road.doomed
         /\ ~Road!Playing => \A i \in 1..Len(roadDown) : roadDown[i].type \in {"BET_ACCEPTED", "ERROR"}
<1>1. ~Road!Playing \/ ~OnlyErrors \/ walk.status # "none" => NoWins /\ ~road.doomed
  BY DEF RoadInv, ShowInv, Final, NoWins
<1>2. \A i \in 1..Len(roadDown) : roadDown[i] \in Downs /\ FrameFits(roadDown[i])
  BY DEF RoadInv, RoadTypes, FramesInv
<1>3. ~Road!Playing => \A i \in 1..Len(roadDown) : roadDown[i].type \in {"BET_ACCEPTED", "ERROR"}
  BY <1>2, RoadFields DEF FrameFits
<1> QED BY <1>1, <1>3

\* A sequence without its last element.
LEMMA Fronted ==
  ASSUME NEW X, NEW s \in Seq(X), Len(s) >= 1
  PROVE  /\ SubSeq(s, 1, Len(s) - 1) \in Seq(X) /\ Len(SubSeq(s, 1, Len(s) - 1)) = Len(s) - 1
         /\ \A k \in 1..(Len(s) - 1) : SubSeq(s, 1, Len(s) - 1)[k] = s[k]
<1> DEFINE r == SubSeq(s, 1, Len(s) - 1)
<1>1. Len(s) \in Nat /\ Len(s) - 1 \in Nat
  OBVIOUS
<1>2. r = [k \in 1..(Len(s) - 1) |-> s[k]]
  BY <1>1
<1>3. r \in Seq(X)
  BY <1>1
<1>4. Len(r) = Len(s) - 1
  <2>1. Len(r) = IF 1 <= Len(s) - 1 THEN (Len(s) - 1) - 1 + 1 ELSE 0
    <3>1. \A i \in 1..(Len(s) - 1) : s[i] \in X
      BY <1>1
    <3>2. 1 \in Int /\ Len(s) - 1 \in Int
      BY <1>1
    <3> QED BY <3>1, <3>2, SubSeqProperties
  <2> QED BY <1>1, <2>1
<1>5. \A k \in 1..(Len(s) - 1) : r[k] = s[k]
  BY <1>2
<1> QED BY <1>3, <1>4, <1>5

\* Clearing the timer the ref holds leaves none, as long as nothing was crossed.
LEMMA ClearedTimers ==
  ASSUME RoadTypes, TimersInv
  PROVE  /\ Road!Cleared \in Seq(Timers) /\ Len(Road!Cleared) \in Nat
         /\ \A k \in 1..Len(Road!Cleared) : k \in 1..Len(timers) /\ Road!Cleared[k] = timers[k]
         /\ NoWins => \A k \in 1..Len(Road!Cleared) : Road!Cleared[k].win = Road!NoWin
         /\ NoWins /\ ~roadCrossed => Road!Cleared = <<>>
<1>1. timers \in Seq(Timers) /\ held \in BOOLEAN /\ Len(timers) \in Nat
  BY DEF RoadTypes
<1>2. /\ Road!Cleared \in Seq(Timers) /\ Len(Road!Cleared) \in Nat /\ Len(Road!Cleared) <= Len(timers)
      /\ held /\ Len(timers) <= 1 => Len(Road!Cleared) = 0
      /\ ~held => Road!Cleared = timers
      /\ \A k \in 1..Len(Road!Cleared) : Road!Cleared[k] = timers[k]
  <2>1. CASE ~held
    BY <1>1, <2>1 DEF Road!Cleared
  <2>2. CASE held /\ timers = <<>>
    <3>1. Road!Cleared = SubSeq(<<>>, 1, 0 - 1)
      BY <2>2 DEF Road!Cleared
    <3>2. SubSeq(<<>>, 1, 0 - 1) = <<>>
      BY EmptySeq
    <3> QED BY <1>1, <2>2, <3>1, <3>2
  <2>3. CASE held /\ timers # <<>>
    <3>1. Len(timers) >= 1
      BY <1>1, <2>3
    <3>2. Road!Cleared = SubSeq(timers, 1, Len(timers) - 1)
      BY <2>3 DEF Road!Cleared
    <3>3. /\ Road!Cleared \in Seq(Timers) /\ Len(Road!Cleared) = Len(timers) - 1
          /\ \A k \in 1..(Len(timers) - 1) : Road!Cleared[k] = timers[k]
      BY <1>1, <3>1, <3>2, Fronted
    <3> QED BY <1>1, <2>3, <3>1, <3>3
  <2> QED BY <1>1, <2>1, <2>2, <2>3
<1>3. \A k \in 1..Len(Road!Cleared) : k \in 1..Len(timers)
  BY <1>1, <1>2
<1>4. ASSUME NoWins, ~roadCrossed PROVE Road!Cleared = <<>>
  <2>1. Len(timers) <= 2 /\ Len(timers) # 2 /\ (Len(timers) = 1 => held)
    BY <1>1, <1>4 DEF TimersInv, NoWins
  <2> DEFINE l == Len(timers)
  <2>2. l \in Nat /\ l <= 2 /\ l # 2 /\ (l = 1 => held)
    BY <1>1, <2>1
  <2>3. held /\ l <= 1 => Len(Road!Cleared) = 0
    BY <1>2
  <2>4. l = 0 => Len(Road!Cleared) = 0
    <3>1. Len(Road!Cleared) \in Nat /\ Len(Road!Cleared) <= l
      BY <1>2
    <3> HIDE DEF l
    <3> QED BY <3>1
  <2> HIDE DEF l
  <2>5. l = 0 \/ (l = 1 /\ held)
    BY <2>2
  <2>6. Len(Road!Cleared) = 0
    BY <2>2, <2>3, <2>4, <2>5
  <2> QED BY <1>2, <2>6
<1> QED BY <1>2, <1>3, <1>4 DEF NoWins

\* startRound: the board is cleared, and the bet asked for.
LEMMA StartStep == ASSUME Road!ChickenPageAssumption, RoadInv, Road!StartRound PROVE RoadInv'
<1> USE DEF Road!Playing
<1>1. /\ RoadTypes /\ RoundInv /\ UpInv /\ FramesInv /\ Road!ShownIsDecided /\ TimersInv /\ ResumeInv
      /\ roadDown \in Seq(Downs)
  BY DEF RoadInv, RoadTypes
<1>2. /\ ~Road!Playing /\ road' = Road!Reset(road) /\ timers' = Road!Cleared /\ held' = FALSE
           /\ lastWin' = Road!NoWin
      /\ roadUp' = Append(roadUp, "BET") /\ UNCHANGED <<walk, crossing, roadDown, roadCrossed>>
  BY DEF Road!StartRound, Road!Offered, Road!SendUp, Road!serverVars
<1>3. /\ road'.phase = road.phase /\ road'.shown = road.shown /\ road'.doomed = FALSE
      /\ road' \in [phase : {"IDLE", "PLAYING", "WON", "LOST"}, lane : Nat, hop : Nat, hopping : BOOLEAN,
                     doomed : BOOLEAN, shown : 0..MaxBets]
  BY <1>1, <1>2 DEF RoadTypes, Road!Reset, Road!NoHop
<1>4. NoWins /\ ~Road!Playing'
  BY <1>2, <1>3, RoadIdle
<1>5. UpInv' /\ ResumeInv' /\ roadUp' \in Seq(Ups)
  BY <1>1, <1>2, <1>3, RoadAskStep
<1>6. /\ timers' \in Seq(Timers) /\ NoWins' /\ (~roadCrossed => timers' = <<>>)
  BY <1>1, <1>2, <1>4, ClearedTimers DEF NoWins
<1>7. FramesInv'
  <2>1. \A f \in Downs : FrameFits(f) => FrameFits(f)'
    BY <1>2, <1>4 DEF FrameFits
  <2> QED BY <1>1, <1>2, <2>1, FramesKept
<1>8. RoadTypes'
  BY <1>1, <1>2, <1>3, <1>5, <1>6 DEF RoadTypes
<1>9. RoundInv'
  BY <1>1, <1>2, <1>3 DEF RoundInv
<1>10. ShowInv'
  BY <1>3, <1>6 DEF ShowInv, NoWins
<1>11. Road!ShownIsDecided'
  BY <1>1, <1>2, <1>3 DEF Road!ShownIsDecided
<1>12. TimersInv'
  BY <1>2, <1>6 DEF TimersInv
<1>13. LaneInv'
  BY <1>4 DEF LaneInv
<1> QED BY <1>5, <1>7, <1>8, <1>9, <1>10, <1>11, <1>12, <1>13 DEF RoadInv

\* The player steps, or cashes out.
LEMMA ActStep == ASSUME Road!ChickenPageAssumption, RoadInv, Road!Advance \/ Road!CashOut PROVE RoadInv'
<1> USE DEF Road!Playing
<1>1. /\ RoadTypes /\ RoundInv /\ UpInv /\ FramesInv /\ ShowInv /\ Road!ShownIsDecided /\ TimersInv /\ ResumeInv
      /\ LaneInv /\ roadDown \in Seq(Downs)
  BY DEF RoadInv, RoadTypes
<1>2. PICK x \in {"STEP", "CASHOUT"} :
        /\ Road!Playing /\ roadUp' = Append(roadUp, x)
        /\ UNCHANGED <<road, lastWin, timers, held, walk, crossing, roadDown, roadCrossed>>
  <2>1. CASE Road!Advance
    BY <2>1 DEF Road!Advance, Road!SendUp, Road!serverVars
  <2>2. CASE Road!CashOut
    <3>1. Road!Playing
      BY <2>2 DEF Road!CashOut, Road!Offered
    <3> QED BY <2>2, <3>1 DEF Road!CashOut, Road!SendUp, Road!serverVars
  <2> QED BY <2>1, <2>2
<1>3. UpInv' /\ ResumeInv' /\ roadUp' \in Seq(Ups) /\ (Resuming' <=> Resuming)
  <2>1. x \in {"BET", "STEP", "CASHOUT"} /\ (x = "BET" <=> ~Road!Playing) /\ road'.phase = road.phase
    BY <1>2
  <2> QED BY <1>1, <1>2, <2>1, RoadAskStep
<1>4. FramesInv'
  <2>1. \A f \in Downs : FrameFits(f) => FrameFits(f)'
    BY <1>2 DEF FrameFits, NoWins
  <2> QED BY <1>1, <1>2, <2>1, FramesKept
<1>5. RoadTypes'
  BY <1>1, <1>2, <1>3 DEF RoadTypes
<1>6. RoundInv' /\ Road!ShownIsDecided' /\ TimersInv'
  BY <1>1, <1>2 DEF RoundInv, Road!ShownIsDecided, TimersInv
<1>7. ShowInv'
  BY <1>1, <1>2 DEF ShowInv, Final, OnlyErrors, NoWins
<1>8. LaneInv'
  BY <1>1, <1>2, <1>3 DEF LaneInv, RoadBase, Top
<1> QED BY <1>3, <1>4, <1>5, <1>6, <1>7, <1>8 DEF RoadInv
\* A round that ends on the page is over at the server; one that begins there is open.
LEMMA UpSeen ==
  ASSUME RoadTypes, UpInv, UNCHANGED <<walk, roadUp>>,
         \/ Road!Playing' <=> Road!Playing
         \/ Road!Playing /\ walk.status = "none"
         \/ walk.status = "open" /\ Road!Playing'
  PROVE  UpInv'
<1>1. walk.status \in {"none", "starting", "open", "auto", "cashout"}
  BY DEF RoadTypes
<1>2. \A b \in 1..Len(roadUp) : roadUp[b] = "BET" =>
        /\ walk.status = "none" \/ RoundSettling => ~Road!Playing /\ \A i \in 1..Len(roadUp) : i > b =>
             ~Acts(roadUp[i])
        /\ walk.status # "none" => \A i \in 1..Len(roadUp) : i < b => ~Acts(roadUp[i])
  BY DEF UpInv
<1>3. CASE Road!Playing' <=> Road!Playing
  BY <1>3 DEF UpInv, RoundSettling, Acts
<1>4. CASE Road!Playing /\ walk.status = "none"
  <2>1. \A b \in 1..Len(roadUp) : roadUp[b] # "BET"
    BY <1>2, <1>4
  <2> QED BY <1>4, <2>1 DEF UpInv, RoundSettling
<1>5. CASE walk.status = "open" /\ Road!Playing'
  BY <1>2, <1>5 DEF UpInv, RoundSettling, Acts
<1> QED BY <1>3, <1>4, <1>5

\* A landing timer fires.
LEMMA RoadLandStep == ASSUME Road!ChickenPageAssumption, RoadInv, Road!Land PROVE RoadInv'
<1> USE DEF Road!Playing
<1>1. /\ RoadTypes /\ RoundInv /\ UpInv /\ FramesInv /\ ShowInv /\ Road!ShownIsDecided /\ TimersInv /\ ResumeInv
      /\ LaneInv /\ roadDown \in Seq(Downs) /\ timers \in Seq(Timers) /\ Len(timers) \in Nat
      /\ road.lane \in Nat /\ walk.n \in 0..MaxBets /\ MaxBets \in Nat
  BY RoadConstants DEF RoadInv, RoadTypes
<1> DEFINE t == timers[1]
<1>2. /\ timers # <<>> /\ timers' = Tail(timers) /\ held' = FALSE /\ Head(timers) = t
      /\ UNCHANGED <<walk, crossing, roadUp, roadDown, roadCrossed>>
  BY <1>1, Shortened DEF Road!Land, Road!serverVars
<1>3. /\ timers' \in Seq(Timers) /\ Len(timers') = Len(timers) - 1 /\ Len(timers) >= 1
      /\ t \in Timers /\ 1 \in 1..Len(timers)
      /\ \A k \in 1..Len(timers') : timers'[k] = timers[k + 1] /\ k + 1 \in 1..Len(timers)
  <2>1. timers \in Seq(Timers) /\ timers # <<>> /\ timers' = Tail(timers)
    BY <1>1, <1>2
  <2>2. /\ timers' \in Seq(Timers) /\ Len(timers') = Len(timers) - 1 /\ Len(timers) \in Nat /\ Len(timers) >= 1
        /\ t \in Timers
        /\ \A k \in 1..Len(timers') : timers'[k] = timers[k + 1] /\ k + 1 \in 1..Len(timers)
    BY <2>1, Shortened
  <2>3. 1 \in 1..Len(timers)
    BY <2>2
  <2> QED BY <2>2, <2>3
<1>4. /\ ~Road!Playing => UNCHANGED <<road, lastWin>>
      /\ Road!Playing /\ t.win = Road!NoWin =>
           road' = [road EXCEPT !.hop = Road!NoHop, !.hopping = FALSE, !.lane = t.to] /\ UNCHANGED lastWin
      /\ Road!Playing /\ t.win # Road!NoWin =>
           /\ road' = [road EXCEPT !.hop = Road!NoHop, !.hopping = FALSE, !.lane = t.to, !.phase = "WON"]
           /\ lastWin' = t.win
  <2>1. LET landing == t
            landed == [road EXCEPT !.hop = Road!NoHop, !.hopping = FALSE, !.lane = landing.to] IN
        IF ~Road!Playing THEN UNCHANGED <<road, lastWin>>
        ELSE IF landing.win = Road!NoWin THEN road' = landed /\ UNCHANGED lastWin
        ELSE road' = [landed EXCEPT !.phase = "WON"] /\ lastWin' = landing.win
    BY <1>2 DEF Road!Land
  <2>2. [[road EXCEPT !.hop = Road!NoHop, !.hopping = FALSE, !.lane = t.to] EXCEPT !.phase = "WON"]
          = [road EXCEPT !.hop = Road!NoHop, !.hopping = FALSE, !.lane = t.to, !.phase = "WON"]
    OBVIOUS
  <2> HIDE DEF t
  <2> QED BY <2>1, <2>2
<1> HIDE DEF t
<1>5. /\ road' \in [phase : {"IDLE", "PLAYING", "WON", "LOST"}, lane : Nat, hop : Nat, hopping : BOOLEAN,
                     doomed : BOOLEAN, shown : 0..MaxBets]
      /\ road'.shown = road.shown /\ road'.doomed = road.doomed
      /\ ~Road!Playing => road' = road /\ lastWin' = lastWin
      /\ Road!Playing => road'.lane = t.to
      /\ Road!Playing /\ t.win = Road!NoWin => road'.phase = "PLAYING" /\ lastWin' = lastWin
      /\ Road!Playing /\ t.win # Road!NoWin => road'.phase = "WON" /\ lastWin' = t.win
  <2>1. road \in [phase : {"IDLE", "PLAYING", "WON", "LOST"}, lane : Nat, hop : Nat, hopping : BOOLEAN,
                     doomed : BOOLEAN, shown : 0..MaxBets] /\ Road!NoHop \in Nat /\ t.to \in Nat
    BY <1>1, <1>3 DEF RoadTypes, Road!NoHop, Timers
  <2>2. CASE ~Road!Playing
    BY <1>4, <2>1, <2>2
  <2>3. CASE Road!Playing /\ t.win = Road!NoWin
    BY <1>4, <2>1, <2>3
  <2>4. CASE Road!Playing /\ t.win # Road!NoWin
    BY <1>4, <2>1, <2>4
  <2> QED BY <2>2, <2>3, <2>4
<1>6. t.win # Road!NoWin => /\ Final /\ crossing[road.shown] = t.win /\ t.win[1] = road.shown /\ Len(timers) = 1
                       /\ ~road.doomed
  <2>1. t = timers[1]
    BY DEF t
  <2> QED BY <1>1, <1>3, <2>1 DEF ShowInv, NoWins
<1>7. UpInv'
  BY <1>1, <1>2, <1>5, <1>6, UpSeen DEF Final
<1>8. NoWins => NoWins'
  BY <1>3 DEF NoWins
<1>9. FramesInv'
  <2>1. CASE t.win = Road!NoWin
    <3>1. Road!Playing' <=> Road!Playing
      BY <1>5, <2>1
    <3>2. \A f \in Downs : FrameFits(f) => FrameFits(f)'
      BY <1>2, <1>5, <1>8, <3>1 DEF FrameFits
    <3> QED BY <1>1, <1>2, <3>2, FramesKept
  <2>2. CASE t.win # Road!NoWin
    <3>1. \A i \in 1..Len(roadDown), f \in Downs : f = roadDown[i] => f.type = "ERROR"
      BY <1>6, <2>2 DEF Final, OnlyErrors
    <3>2. \A f \in Downs : f.type = "ERROR" => FrameFits(f)'
      BY DEF FrameFits
    <3> QED BY <1>1, <1>2, <3>1, <3>2, FramesKept
  <2> QED BY <2>1, <2>2
<1>10. RoadTypes'
  BY <1>1, <1>2, <1>3, <1>5 DEF RoadTypes
<1>11. RoundInv'
  BY <1>1, <1>2, <1>5, <1>6 DEF RoundInv, Final
<1>12. ShowInv'
  <2>1. CASE t.win = Road!NoWin
    <3>1. Road!Playing' <=> Road!Playing
      BY <1>5, <2>1
    <3>2. Final => Final'
      BY <1>2, <3>1 DEF Final, OnlyErrors
    <3>3. ASSUME road'.doomed PROVE Final' /\ NoWins' /\ crossing'[road'.shown] = Road!Busted
      BY <1>1, <1>2, <1>5, <1>8, <3>2, <3>3 DEF ShowInv
    <3>4. ASSUME NEW k \in 1..Len(timers'), timers'[k].win # Road!NoWin
          PROVE  Final' /\ crossing'[road'.shown] = timers'[k].win /\ timers'[k].win[1] = road'.shown
                   /\ k = Len(timers')
      <4>1. k + 1 \in 1..Len(timers) /\ timers'[k] = timers[k + 1]
        BY <1>3
      <4>2. Final /\ crossing[road.shown] = timers[k + 1].win /\ timers[k + 1].win[1] = road.shown
              /\ k + 1 = Len(timers)
        BY <1>1, <3>4, <4>1 DEF ShowInv
      <4>3. k = Len(timers')
        BY <1>1, <1>3, <4>2
      <4> QED BY <1>2, <1>5, <3>2, <4>1, <4>2, <4>3
    <3> QED BY <3>3, <3>4 DEF ShowInv
  <2>2. CASE t.win # Road!NoWin
    <3>1. Len(timers') = 0 /\ ~road'.doomed
      BY <1>3, <1>5, <1>6, <2>2
    <3>2. \A k \in 1..Len(timers') : FALSE
      BY <3>1
    <3> QED BY <3>1, <3>2 DEF ShowInv
  <2> QED BY <2>1, <2>2
<1>13. Road!ShownIsDecided'
  <2>1. CASE t.win # Road!NoWin
    BY <1>2, <1>5, <1>6, <2>1 DEF Road!ShownIsDecided, Final
  <2>2. CASE t.win = Road!NoWin
    BY <1>1, <1>2, <1>5, <2>2 DEF Road!ShownIsDecided
  <2> QED BY <2>1, <2>2
<1>14. TimersInv'
  <2>1. SUFFICES ASSUME ~roadCrossed PROVE Len(timers') <= 2 /\ Len(timers') # 2
          /\ (Len(timers') = 1 => timers'[1].win # Road!NoWin)
    BY <1>2 DEF TimersInv
  <2>2. Len(timers) <= 2 /\ (Len(timers) = 2 => timers[2].win # Road!NoWin)
    BY <1>1, <2>1 DEF TimersInv
  <2>3. Len(timers') = 1 => timers'[1] = timers[2]
    <3>1. Len(timers') = 1 => 1 \in 1..Len(timers') /\ 1 + 1 = 2
      OBVIOUS
    <3> QED BY <1>3, <3>1
  <2> DEFINE l == Len(timers)
             m == Len(timers')
  <2>4. l \in Nat /\ m = l - 1 /\ l <= 2 /\ l >= 1
    BY <1>1, <1>3, <2>2
  <2>5. (l = 2 => timers[2].win # Road!NoWin) /\ (m = 1 => timers'[1] = timers[2])
    BY <2>2, <2>3
  <2> HIDE DEF l, m
  <2>6. m <= 2 /\ m # 2 /\ (m = 1 => l = 2)
    BY <2>4
  <2>7. m = 1 => timers'[1].win # Road!NoWin
    BY <2>5, <2>6
  <2> QED BY <2>6, <2>7 DEF l, m
<1>15. ResumeInv'
  BY <1>1, <1>2 DEF ResumeInv, Resuming, OnlyErrors
<1>16. ASSUME Road!Playing', ~roadCrossed PROVE \E lo, hi \in Nat : Rises(roadDown', lo, hi) /\ RoadBase(lo)'
                /\ Top(hi)'
  <2>1. Road!Playing
    BY <1>5, <1>16
  <2>2. PICK lo \in Nat, hi \in Nat : Rises(roadDown, lo, hi) /\ RoadBase(lo) /\ Top(hi)
    BY <1>1, <1>16, <2>1 DEF LaneInv
  <2>3. RoadBase(lo)'
    <3>1. road'.lane = t.to /\ t.to <= lo /\ \A k \in 1..Len(timers') : timers'[k].to <= lo
      BY <1>3, <1>5, <2>1, <2>2 DEF RoadBase, t
    <3>2. walk.status # "none" => Len(timers) = 1 /\ t.to = lo
      BY <1>2, <2>2 DEF RoadBase, t
    <3>3. Len(timers) = 1 => timers' = <<>>
      BY <1>3
    <3> QED BY <1>2, <3>1, <3>2, <3>3 DEF RoadBase
  <2>4. Top(hi)'
    BY <1>2, <2>2 DEF Top, Resuming
  <2> QED BY <1>2, <2>2, <2>3, <2>4
<1>17. LaneInv'
  BY <1>2, <1>16 DEF LaneInv
<1> QED BY <1>7, <1>9, <1>10, <1>11, <1>12, <1>13, <1>14, <1>15, <1>17 DEF RoadInv

\* The frame loop ends a hop's drawing, which its landing timer still outlives.
LEMMA DrawnStep == ASSUME Road!ChickenPageAssumption, RoadInv, Road!HopDrawn PROVE RoadInv'
<1> USE DEF Road!Playing
<1>1. /\ RoadTypes /\ RoundInv /\ UpInv /\ FramesInv /\ ShowInv /\ Road!ShownIsDecided /\ TimersInv /\ ResumeInv
      /\ LaneInv /\ roadDown \in Seq(Downs) /\ timers \in Seq(Timers) /\ Len(timers) \in Nat
      /\ road.lane \in Nat /\ walk.n \in 0..MaxBets /\ MaxBets \in Nat
  BY RoadConstants DEF RoadInv, RoadTypes
<1>2. /\ road' = [road EXCEPT !.hop = Road!NoHop]
      /\ UNCHANGED <<lastWin, timers, held, walk, crossing, roadUp, roadDown, roadCrossed>>
  BY DEF Road!HopDrawn, Road!serverVars
<1>3. /\ road' \in [phase : {"IDLE", "PLAYING", "WON", "LOST"}, lane : Nat, hop : Nat, hopping : BOOLEAN,
                     doomed : BOOLEAN, shown : 0..MaxBets]
      /\ road'.shown = road.shown /\ road'.doomed = road.doomed /\ road'.phase = road.phase
      /\ road'.lane = road.lane
  BY <1>1, <1>2 DEF RoadTypes, Road!NoHop
<1>4. UpInv'
  BY <1>1, <1>2, <1>3, UpSeen
<1>5. FramesInv'
  <2>1. \A f \in Downs : FrameFits(f) => FrameFits(f)'
    BY <1>2, <1>3 DEF FrameFits, NoWins
  <2> QED BY <1>1, <1>2, <2>1, FramesKept
<1>6. RoadTypes'
  BY <1>1, <1>2, <1>3 DEF RoadTypes
<1>7. RoundInv' /\ Road!ShownIsDecided' /\ TimersInv'
  BY <1>1, <1>2, <1>3 DEF RoundInv, Road!ShownIsDecided, TimersInv
<1>8. ShowInv'
  BY <1>1, <1>2, <1>3 DEF ShowInv, Final, OnlyErrors, NoWins
<1>9. ResumeInv'
  BY <1>1, <1>2 DEF ResumeInv, Resuming, OnlyErrors
<1>10. LaneInv'
  BY <1>1, <1>2, <1>3 DEF LaneInv, RoadBase, Top, Resuming
<1> QED BY <1>4, <1>5, <1>6, <1>7, <1>8, <1>9, <1>10 DEF RoadInv

\* The doomed hop ends: the round was lost.
LEMMA CrashStep == ASSUME Road!ChickenPageAssumption, RoadInv, Road!Crash PROVE RoadInv'
<1> USE DEF Road!Playing
<1>1. /\ RoadTypes /\ RoundInv /\ UpInv /\ FramesInv /\ ShowInv /\ Road!ShownIsDecided /\ TimersInv /\ ResumeInv
      /\ LaneInv /\ roadDown \in Seq(Downs) /\ timers \in Seq(Timers) /\ Len(timers) \in Nat
      /\ road.lane \in Nat /\ walk.n \in 0..MaxBets /\ MaxBets \in Nat
  BY RoadConstants DEF RoadInv, RoadTypes
<1>2. /\ Road!Playing /\ road.doomed /\ road' = [Road!Reset(road) EXCEPT !.phase = "LOST"]
           /\ timers' = Road!Cleared /\ held' = FALSE
      /\ UNCHANGED <<lastWin, walk, crossing, roadUp, roadDown, roadCrossed>>
  BY DEF Road!Crash, Road!serverVars
<1>3. /\ road' \in [phase : {"IDLE", "PLAYING", "WON", "LOST"}, lane : Nat, hop : Nat, hopping : BOOLEAN,
                     doomed : BOOLEAN, shown : 0..MaxBets]
      /\ road'.shown = road.shown /\ road'.doomed = FALSE /\ road'.phase = "LOST" /\ ~Road!Playing'
  BY <1>1, <1>2 DEF RoadTypes, Road!Reset, Road!NoHop
<1>4. Final /\ NoWins /\ crossing[road.shown] = Road!Busted
  BY <1>1, <1>2 DEF ShowInv
<1>5. timers' \in Seq(Timers) /\ NoWins' /\ (~roadCrossed => timers' = <<>>)
  BY <1>1, <1>2, <1>4, ClearedTimers DEF NoWins
<1>6. UpInv'
  BY <1>1, <1>2, <1>4, UpSeen DEF Final
<1>7. FramesInv'
  <2>1. \A i \in 1..Len(roadDown), f \in Downs : f = roadDown[i] => f.type = "ERROR"
    BY <1>4 DEF Final, OnlyErrors
  <2>2. \A f \in Downs : f.type = "ERROR" => FrameFits(f)'
    BY DEF FrameFits
  <2> QED BY <1>1, <1>2, <2>1, <2>2, FramesKept
<1>8. RoadTypes'
  BY <1>1, <1>2, <1>3, <1>5 DEF RoadTypes
<1>9. RoundInv'
  BY <1>1, <1>2, <1>3, <1>4 DEF RoundInv, Final
<1>10. ShowInv'
  BY <1>3, <1>5 DEF ShowInv, NoWins
<1>11. Road!ShownIsDecided'
  BY <1>2, <1>3, <1>4 DEF Road!ShownIsDecided
<1>12. TimersInv'
  BY <1>2, <1>5 DEF TimersInv
<1>13. ResumeInv'
  BY <1>1, <1>2 DEF ResumeInv, Resuming, OnlyErrors
<1>14. LaneInv'
  BY <1>3 DEF LaneInv
<1> QED BY <1>6, <1>7, <1>8, <1>9, <1>10, <1>11, <1>12, <1>13, <1>14 DEF RoadInv
\* The next frame fits; what a round ends with is followed by refusals alone.
LEMMA Read ==
  ASSUME RoadInv, roadDown # <<>>, roadDown' = Tail(roadDown)
  PROVE  \E f \in Downs :
           /\ f = Head(roadDown) /\ FrameFits(f)
           /\ OnlyErrors => OnlyErrors'
           /\ f.type = "GAME_RESULT" => OnlyErrors'
           /\ f.type # "ERROR" => ~OnlyErrors /\ ~Resuming
<1>1. FramesInv /\ ResumeInv /\ roadDown \in Seq(Downs)
  BY DEF RoadInv, RoadTypes
<1>2. /\ Len(roadDown') = Len(roadDown) - 1 /\ Len(roadDown) \in Nat /\ Len(roadDown) >= 1
      /\ Head(roadDown) = roadDown[1] /\ Head(roadDown) \in Downs /\ 1 \in 1..Len(roadDown)
      /\ \A i \in 1..Len(roadDown') : roadDown'[i] = roadDown[i + 1] /\ i + 1 \in 1..Len(roadDown) /\ 1 < i + 1
  <2>1. /\ Len(roadDown') = Len(roadDown) - 1 /\ Len(roadDown) \in Nat /\ Len(roadDown) >= 1
        /\ Head(roadDown) = roadDown[1] /\ Head(roadDown) \in Downs
        /\ \A i \in 1..Len(roadDown') : roadDown'[i] = roadDown[i + 1] /\ i + 1 \in 1..Len(roadDown)
    BY <1>1, Shortened
  <2>2. 1 \in 1..Len(roadDown) /\ \A i \in 1..Len(roadDown') : 1 < i + 1
    BY <2>1
  <2> QED BY <2>1, <2>2
<1>3. PICK f \in Downs : f = roadDown[1] /\ f = Head(roadDown)
  BY <1>2
<1>4. FrameFits(f)
  BY <1>1, <1>2, <1>3 DEF FramesInv
<1>5. OnlyErrors => OnlyErrors'
  BY <1>2 DEF OnlyErrors
<1>6. f.type = "GAME_RESULT" => OnlyErrors'
  BY <1>1, <1>2, <1>3 DEF FramesInv, OnlyErrors
<1>7. f.type # "ERROR" => ~OnlyErrors /\ ~Resuming
  BY <1>1, <1>2, <1>3 DEF OnlyErrors, ResumeInv
<1> QED BY <1>3, <1>4, <1>5, <1>6, <1>7

\* BET_ACCEPTED: the board stands where the round does.
LEMMA RoundAcceptedStep == ASSUME Road!ChickenPageAssumption, RoadInv, Road!OnAccepted PROVE RoadInv'
<1> USE DEF Road!Playing
<1>1. /\ RoadTypes /\ RoundInv /\ UpInv /\ FramesInv /\ ShowInv /\ Road!ShownIsDecided /\ TimersInv /\ ResumeInv
      /\ LaneInv /\ roadDown \in Seq(Downs) /\ timers \in Seq(Timers) /\ Len(timers) \in Nat
      /\ road.lane \in Nat /\ walk.n \in 0..MaxBets /\ MaxBets \in Nat
  BY RoadConstants DEF RoadInv, RoadTypes
<1>2. PICK f \in Downs :
        /\ f = Head(roadDown) /\ FrameFits(f)
             /\ roadDown # <<>> /\ roadDown' = Tail(roadDown) /\ f.type = "BET_ACCEPTED"
        /\ OnlyErrors => OnlyErrors'
        /\ f.type = "GAME_RESULT" => OnlyErrors'
        /\ f.type # "ERROR" => ~OnlyErrors /\ ~Resuming
  BY Read DEF Road!OnAccepted, Road!Deliver
<1>3. /\ road' = [Road!Reset(road) EXCEPT !.phase = "PLAYING", !.lane = f.lane, !.shown = f.n]
      /\ timers' = Road!Cleared /\ held' = FALSE /\ lastWin' = Road!NoWin
           /\ UNCHANGED <<walk, crossing, roadUp, roadCrossed>>
  BY <1>2 DEF Road!OnAccepted, Road!Restored, Road!serverVars
<1>4. f.n = walk.n /\ (Road!Playing \/ (walk.status = "open" /\ f.lane = walk.lane)) /\ f.lane \in Nat
        /\ f.n \in 0..MaxBets
  BY <1>2, RoadFields DEF FrameFits
<1>5. /\ road' \in [phase : {"IDLE", "PLAYING", "WON", "LOST"}, lane : Nat, hop : Nat, hopping : BOOLEAN,
                     doomed : BOOLEAN, shown : 0..MaxBets]
      /\ road'.shown = walk.n /\ road'.doomed = FALSE /\ road'.phase = "PLAYING" /\ road'.lane = f.lane
           /\ Road!Playing'
  BY <1>1, <1>3, <1>4 DEF RoadTypes, Road!Reset, Road!NoHop
<1>6. NoWins /\ ~road.doomed
  BY <1>2, RoadIdle
<1>7. timers' \in Seq(Timers) /\ NoWins' /\ (~roadCrossed => timers' = <<>>)
  BY <1>1, <1>3, <1>6, ClearedTimers DEF NoWins
<1>8. UpInv'
  BY <1>1, <1>3, <1>4, <1>5, UpSeen
<1>9. FramesInv' /\ roadDown' \in Seq(Downs)
  <2>1. \A g \in Downs : FrameFits(g) => FrameFits(g)'
    BY <1>3, <1>5, <1>7 DEF FrameFits
  <2> QED BY <1>1, <1>2, <2>1, FramesRead
<1>10. RoadTypes'
  BY <1>1, <1>3, <1>5, <1>7, <1>9 DEF RoadTypes
<1>11. RoundInv'
  <2>1. walk.n > 0
    BY <1>1, <1>4 DEF RoundInv, RoadTypes
  <2> QED BY <1>1, <1>3, <1>5, <2>1 DEF RoundInv
<1>12. ShowInv'
  BY <1>5, <1>7 DEF ShowInv, NoWins
<1>13. Road!ShownIsDecided'
  BY <1>5 DEF Road!ShownIsDecided
<1>14. TimersInv'
  BY <1>3, <1>7 DEF TimersInv
<1>15. ResumeInv'
  BY <1>1, <1>2, <1>3 DEF ResumeInv, Resuming
<1>16. ASSUME ~roadCrossed PROVE \E lo, hi \in Nat : Rises(roadDown', lo, hi) /\ RoadBase(lo)' /\ Top(hi)'
  <2>1. timers' = <<>> /\ \A k \in 1..Len(timers') : FALSE
    BY <1>7, <1>16
  <2>2. ASSUME NEW m \in Nat, m = f.lane PROVE RoadBase(m)'
    BY <1>4, <1>5, <2>1, <2>2 DEF RoadBase
  <2>3. CASE Road!Playing
    <3>1. PICK lo \in Nat, hi \in Nat : Rises(roadDown, lo, hi) /\ RoadBase(lo) /\ Top(hi)
      BY <1>1, <1>16, <2>3 DEF LaneInv
    <3>2. PICK m \in Nat : Link(Head(roadDown), lo, m) /\ lo <= m /\ Rises(Tail(roadDown), m, hi)
      BY <1>1, <1>2, <3>1, RisesTail
    <3>3. m = f.lane
      BY <1>2, <3>2 DEF Link
    <3>4. Top(hi)'
      BY <1>3, <3>1 DEF Top, Resuming
    <3> QED BY <1>2, <2>2, <3>2, <3>3, <3>4
  <2>4. CASE ~Road!Playing
    <3>1. walk.status = "open" /\ f.lane = walk.lane
      BY <1>4, <2>4
    <3>2. PICK m \in Nat : m = f.lane
      BY <1>4
    <3>3. \A i \in 1..Len(roadDown) : ~Raises(roadDown[i])
            /\ (roadDown[i].type = "BET_ACCEPTED" => roadDown[i].lane = m)
      <4>1. \A i \in 1..Len(roadDown) : roadDown[i].type \in {"BET_ACCEPTED", "ERROR"} /\ FrameFits(roadDown[i])
        BY <1>1, <2>4, RoadIdle DEF FramesInv
      <4> QED BY <2>4, <3>1, <3>2, <4>1 DEF FrameFits, Raises
    <3>4. roadDown' \in Seq(Downs) /\ \A i \in 1..Len(roadDown') : roadDown'[i] = roadDown[i + 1]
            /\ i + 1 \in 1..Len(roadDown)
      BY <1>1, <1>2, Shortened
    <3>5. \A i \in 1..Len(roadDown') : ~Raises(roadDown'[i])
            /\ (roadDown'[i].type = "BET_ACCEPTED" => roadDown'[i].lane = m)
      BY <3>3, <3>4
    <3>6. Rises(roadDown', m, m)
      BY <3>4, <3>5, RisesFlat
    <3>7. Top(m)'
      BY <1>3, <3>1, <3>2 DEF Top
    <3> QED BY <2>2, <3>2, <3>6, <3>7
  <2> QED BY <2>3, <2>4
<1>17. LaneInv'
  BY <1>3, <1>16 DEF LaneInv
<1> QED BY <1>8, <1>9, <1>10, <1>11, <1>12, <1>13, <1>14, <1>15, <1>17 DEF RoadInv

\* STATE_UPDATE: a hop begins, and lands by a timer.
LEMMA UpdateStep == ASSUME Road!ChickenPageAssumption, RoadInv, Road!OnUpdate PROVE RoadInv'
<1> USE DEF Road!Playing
<1>1. /\ RoadTypes /\ RoundInv /\ UpInv /\ FramesInv /\ ShowInv /\ Road!ShownIsDecided /\ TimersInv /\ ResumeInv
      /\ LaneInv /\ roadDown \in Seq(Downs) /\ timers \in Seq(Timers) /\ Len(timers) \in Nat
      /\ road.lane \in Nat /\ walk.n \in 0..MaxBets /\ MaxBets \in Nat
  BY RoadConstants DEF RoadInv, RoadTypes
<1>2. PICK f \in Downs :
        /\ f = Head(roadDown) /\ FrameFits(f)
             /\ roadDown # <<>> /\ roadDown' = Tail(roadDown) /\ f.type = "STATE_UPDATE"
        /\ OnlyErrors => OnlyErrors'
        /\ f.type = "GAME_RESULT" => OnlyErrors'
        /\ f.type # "ERROR" => ~OnlyErrors /\ ~Resuming
  BY Read DEF Road!OnUpdate, Road!Deliver
<1>3. Road!Playing /\ NoWins /\ ~road.doomed
  BY <1>2, RoadIdle DEF FrameFits
<1>4. PICK t \in Timers : t.to = road.lane + 1 /\ t.win = Road!NoWin /\ timers' = Append(timers, t)
  <2> DEFINE new == [to |-> road.lane + 1, win |-> Road!NoWin]
  <2>1. road.lane + 1 \in Nat /\ Road!NoWin \in Nat \X Nat
    BY <1>1 DEF Road!NoWin
  <2>2. new \in Timers /\ new.to = road.lane + 1 /\ new.win = Road!NoWin
    BY <2>1 DEF Timers
  <2>3. timers' = Append(timers, new)
    BY <1>3 DEF Road!OnUpdate, Road!PlayHop
  <2> HIDE DEF new
  <2> QED BY <2>2, <2>3
<1>5. /\ road' = [road EXCEPT !.hop = road.lane + 1, !.hopping = TRUE, !.doomed = ~TRUE]
      /\ held' = TRUE
           /\ roadCrossed' = (roadCrossed \/ (Road!Playing /\ timers # <<>>)) /\ UNCHANGED <<lastWin, walk, crossing, roadUp>>
  BY <1>3 DEF Road!OnUpdate, Road!PlayHop, Road!serverVars
<1>6. /\ road' \in [phase : {"IDLE", "PLAYING", "WON", "LOST"}, lane : Nat, hop : Nat, hopping : BOOLEAN,
                     doomed : BOOLEAN, shown : 0..MaxBets]
      /\ road'.shown = road.shown /\ road'.doomed = FALSE /\ road'.phase = road.phase /\ road'.lane = road.lane
  <2>1. road \in [phase : {"IDLE", "PLAYING", "WON", "LOST"}, lane : Nat, hop : Nat, hopping : BOOLEAN,
                     doomed : BOOLEAN, shown : 0..MaxBets] /\ road.lane + 1 \in Nat
    BY <1>1 DEF RoadTypes
  <2> QED BY <1>5, <2>1
<1>7. /\ timers' \in Seq(Timers) /\ Len(timers') = Len(timers) + 1 /\ timers' # <<>>
      /\ Len(timers) = 0 <=> timers = <<>>
      /\ \A k \in 1..Len(timers') : (k \in 1..Len(timers) /\ timers'[k] = timers[k])
           \/ (k = Len(timers) + 1 /\ timers'[k] = t)
  BY <1>1, <1>4, AppendedOne
<1>8. \A k \in 1..Len(timers') : (k \in 1..Len(timers) /\ timers'[k] = timers[k]) \/ timers'[k] = t
  BY <1>7
<1>9. NoWins'
  BY <1>3, <1>4, <1>8 DEF NoWins
<1>10. UpInv'
  BY <1>1, <1>5, <1>6, UpSeen
<1>11. FramesInv' /\ roadDown' \in Seq(Downs)
  <2>1. \A g \in Downs : FrameFits(g) => FrameFits(g)'
    BY <1>5, <1>6, <1>9 DEF FrameFits
  <2> QED BY <1>1, <1>2, <2>1, FramesRead
<1>12. RoadTypes'
  <2>1. roadCrossed' \in BOOLEAN
    BY <1>1, <1>5 DEF RoadTypes
  <2> QED BY <1>1, <1>5, <1>6, <1>7, <1>11, <2>1 DEF RoadTypes
<1>13. RoundInv' /\ Road!ShownIsDecided'
  BY <1>1, <1>5, <1>6 DEF RoundInv, Road!ShownIsDecided
<1>14. ShowInv'
  BY <1>6, <1>9 DEF ShowInv, NoWins
<1>15. TimersInv'
  <2>1. ~roadCrossed' => Len(timers) = 0
    BY <1>3, <1>5, <1>7
  <2>2. ~roadCrossed' => Len(timers') = 1
    BY <1>7, <2>1
  <2>3. ~roadCrossed' => Len(timers') <= 2 /\ Len(timers') # 2
    BY <2>2
  <2>4. held'
    BY <1>5
  <2> QED BY <2>3, <2>4 DEF TimersInv
<1>16. ResumeInv'
  BY <1>1, <1>2, <1>5 DEF ResumeInv, Resuming
<1>17. ASSUME ~roadCrossed' PROVE \E lo, hi \in Nat : Rises(roadDown', lo, hi) /\ RoadBase(lo)' /\ Top(hi)'
  <2>1. ~roadCrossed /\ timers = <<>> /\ Len(timers) = 0
    BY <1>3, <1>5, <1>17
  <2>2. PICK lo \in Nat, hi \in Nat : Rises(roadDown, lo, hi) /\ RoadBase(lo) /\ Top(hi)
    BY <1>1, <1>3, <2>1 DEF LaneInv
  <2>3. PICK m \in Nat : Link(Head(roadDown), lo, m) /\ lo <= m /\ Rises(Tail(roadDown), m, hi)
    BY <1>1, <1>2, <2>2, RisesTail
  <2>4. m = lo + 1
    BY <1>2, <2>3 DEF Link, Raises
  <2>5. RoadBase(m)'
    <3>1. road.lane <= lo /\ (walk.status # "none" => road.lane = lo)
      BY <2>1, <2>2 DEF RoadBase
    <3>2. Len(timers') = 1 /\ timers'[1] = t /\ \A k \in 1..Len(timers') : timers'[k] = t
      <4>1. Len(timers') = 1 /\ \A k \in 1..Len(timers) : FALSE
        BY <1>7, <2>1
      <4>2. \A k \in 1..Len(timers') : timers'[k] = t
        BY <1>8, <4>1
      <4>3. 1 \in 1..Len(timers')
        BY <4>1
      <4> QED BY <4>1, <4>2, <4>3
    <3>3. t.to <= m /\ road.lane <= m /\ (walk.status # "none" => t.to = m)
      BY <1>1, <1>4, <2>4, <3>1
    <3>4. timers' # <<>>
      BY <1>7
    <3> QED BY <1>5, <1>6, <3>2, <3>3, <3>4 DEF RoadBase
  <2>6. Top(hi)'
    BY <1>5, <2>2 DEF Top, Resuming
  <2> QED BY <1>2, <2>3, <2>5, <2>6
<1>18. LaneInv'
  BY <1>17 DEF LaneInv
<1> QED BY <1>10, <1>11, <1>12, <1>13, <1>14, <1>15, <1>16, <1>18 DEF RoadInv

\* GAME_RESULT: the loss is played, the last lane lands with its payout, a cash out shows at once.
LEMMA ResultStep == ASSUME Road!ChickenPageAssumption, RoadInv, Road!OnResult PROVE RoadInv'
<1> USE DEF Road!Playing
<1>1. /\ RoadTypes /\ RoundInv /\ UpInv /\ FramesInv /\ ShowInv /\ Road!ShownIsDecided /\ TimersInv /\ ResumeInv
      /\ LaneInv /\ roadDown \in Seq(Downs) /\ timers \in Seq(Timers) /\ Len(timers) \in Nat
      /\ road.lane \in Nat /\ walk.n \in 0..MaxBets /\ MaxBets \in Nat
  BY RoadConstants DEF RoadInv, RoadTypes
<1>2. PICK f \in Downs :
        /\ f = Head(roadDown) /\ FrameFits(f)
             /\ roadDown # <<>> /\ roadDown' = Tail(roadDown) /\ f.type = "GAME_RESULT"
        /\ OnlyErrors => OnlyErrors'
        /\ f.type = "GAME_RESULT" => OnlyErrors'
        /\ f.type # "ERROR" => ~OnlyErrors /\ ~Resuming
  BY Read DEF Road!OnResult, Road!Deliver
<1>3. /\ Road!Playing /\ walk.status = "none" /\ ~road.doomed /\ NoWins
      /\ IF f.bust THEN crossing[walk.n] = Road!Busted
         ELSE f.payout # Road!NoWin /\ crossing[walk.n] = f.payout /\ f.payout[1] = walk.n
      /\ f.bust \in BOOLEAN /\ f.auto \in BOOLEAN /\ f.payout \in Nat \X Nat
      /\ OnlyErrors' /\ ~Resuming /\ road.shown = walk.n
  BY <1>1, <1>2, RoadFields DEF FrameFits, RoundInv
<1>4. /\ UNCHANGED <<walk, crossing, roadUp, roadCrossed>>
      /\ CASE f.bust -> Road!PlayHop(FALSE, Road!NoWin) /\ UNCHANGED lastWin
           [] ~f.bust /\ f.auto -> Road!PlayHop(TRUE, f.payout) /\ UNCHANGED lastWin
           [] OTHER -> Road!Won(f.payout) /\ UNCHANGED <<timers, held>>
  BY <1>2 DEF Road!OnResult, Road!serverVars
<1>5. \/ /\ f.bust
         /\ road' = [road EXCEPT !.hop = road.lane + 1, !.hopping = TRUE, !.doomed = ~FALSE]
              /\ UNCHANGED <<timers, held, lastWin>>
      \/ /\ ~f.bust /\ f.auto
         /\ road' = [road EXCEPT !.hop = road.lane + 1, !.hopping = TRUE, !.doomed = ~TRUE]
         /\ timers' = Append(timers, [to |-> road.lane + 1, win |-> f.payout]) /\ held' = TRUE /\ UNCHANGED lastWin
      \/ /\ ~f.bust /\ ~f.auto
         /\ road' = [road EXCEPT !.phase = "WON"] /\ lastWin' = f.payout /\ UNCHANGED <<timers, held>>
  BY <1>3, <1>4 DEF Road!PlayHop, Road!Won
<1>6. /\ road' \in [phase : {"IDLE", "PLAYING", "WON", "LOST"}, lane : Nat, hop : Nat, hopping : BOOLEAN,
                     doomed : BOOLEAN, shown : 0..MaxBets]
      /\ road'.shown = road.shown /\ road'.lane = road.lane /\ (road'.doomed <=> f.bust)
      /\ road'.phase = IF f.bust \/ f.auto THEN "PLAYING" ELSE "WON"
  <2>1. road \in [phase : {"IDLE", "PLAYING", "WON", "LOST"}, lane : Nat, hop : Nat, hopping : BOOLEAN,
                     doomed : BOOLEAN, shown : 0..MaxBets] /\ road.lane + 1 \in Nat
    BY <1>1 DEF RoadTypes
  <2>2. CASE f.bust
    BY <1>3, <1>5, <2>1, <2>2
  <2>3. CASE ~f.bust /\ f.auto
    BY <1>3, <1>5, <2>1, <2>3
  <2>4. CASE ~f.bust /\ ~f.auto
    BY <1>3, <1>5, <2>1, <2>4
  <2> QED BY <1>3, <2>2, <2>3, <2>4
\* The timers, with the one that lands on a payout.
<1>7. \/ (f.bust \/ ~f.auto) /\ UNCHANGED <<timers, held>>
      \/ /\ ~f.bust /\ f.auto /\ held' = TRUE
         /\ \E t \in Timers : t.to = road.lane + 1 /\ t.win = f.payout /\ timers' = Append(timers, t)
  <2>1. CASE ~f.bust /\ f.auto
    <3> DEFINE new == [to |-> road.lane + 1, win |-> f.payout]
    <3>1. road.lane + 1 \in Nat
      BY <1>1
    <3>2. new \in Timers /\ new.to = road.lane + 1 /\ new.win = f.payout
      BY <1>3, <3>1 DEF Timers
    <3>3. timers' = Append(timers, new) /\ held' = TRUE
      BY <1>5, <2>1
    <3> HIDE DEF new
    <3> QED BY <2>1, <3>2, <3>3
  <2>2. CASE f.bust \/ ~f.auto
    BY <1>5, <2>2
  <2> QED BY <1>3, <2>1, <2>2
<1>8. UpInv'
  BY <1>1, <1>3, <1>4, UpSeen
<1>9. FramesInv' /\ roadDown' \in Seq(Downs)
  <2>1. roadDown' \in Seq(Downs) /\ Len(roadDown') = Len(roadDown) - 1 /\ Len(roadDown) \in Nat
        /\ \A i \in 1..Len(roadDown') : roadDown'[i] = roadDown[i + 1] /\ i + 1 \in 1..Len(roadDown)
    BY <1>1, <1>2, Shortened
  <2>2. \A i \in 2..Len(roadDown) : i - 1 \in 1..Len(roadDown') /\ (i - 1) + 1 = i
    BY <2>1
  <2>3. \A i \in 2..Len(roadDown), g \in Downs : g = roadDown[i] => g.type = "ERROR"
    BY <1>3, <2>1, <2>2 DEF OnlyErrors
  <2>4. \A g \in Downs : g.type = "ERROR" => FrameFits(g)'
    BY DEF FrameFits
  <2> QED BY <1>1, <1>2, <2>3, <2>4, FramesRead
<1>10. timers' \in Seq(Timers) /\ held' \in BOOLEAN
  <2>1. CASE (f.bust \/ ~f.auto) /\ UNCHANGED <<timers, held>>
    BY <1>1, <2>1 DEF RoadTypes
  <2>2. CASE /\ ~f.bust /\ f.auto /\ held' = TRUE
             /\ \E t \in Timers : t.to = road.lane + 1 /\ t.win = f.payout /\ timers' = Append(timers, t)
    <3>1. PICK t \in Timers : timers' = Append(timers, t)
      BY <2>2
    <3> QED BY <1>1, <2>2, <3>1, Appended
  <2> QED BY <1>7, <2>1, <2>2
<1>11. RoadTypes'
  BY <1>1, <1>4, <1>6, <1>9, <1>10 DEF RoadTypes
<1>12. RoundInv'
  BY <1>1, <1>3, <1>4, <1>6 DEF RoundInv
<1>13. ResumeInv'
  BY <1>1, <1>3, <1>4 DEF ResumeInv, Resuming
<1>14. Road!ShownIsDecided'
  <2>1. road'.phase = "WON" => lastWin' = f.payout /\ ~f.bust
    BY <1>5, <1>6
  <2> QED BY <1>3, <1>4, <1>6, <2>1 DEF Road!ShownIsDecided
<1>15. (f.bust \/ f.auto) => Final'
  BY <1>3, <1>4, <1>6 DEF Final
<1>16. ShowInv' /\ TimersInv'
  <2>1. CASE (f.bust \/ ~f.auto) /\ UNCHANGED <<timers, held>>
    <3>1. NoWins' /\ TimersInv'
      BY <1>1, <1>3, <1>4, <2>1 DEF NoWins, TimersInv
    <3>2. f.bust => crossing'[road'.shown] = Road!Busted
      BY <1>3, <1>4, <1>6
    <3> QED BY <1>6, <1>15, <3>1, <3>2 DEF ShowInv, NoWins
  <2>2. CASE /\ ~f.bust /\ f.auto /\ held' = TRUE
             /\ \E t \in Timers : t.to = road.lane + 1 /\ t.win = f.payout /\ timers' = Append(timers, t)
    <3>1. PICK t \in Timers : t.win = f.payout /\ timers' = Append(timers, t)
      BY <2>2
    <3>8. /\ Len(timers') = Len(timers) + 1 /\ timers'[Len(timers) + 1] = t
          /\ \A k \in 1..Len(timers') : (k \in 1..Len(timers) /\ timers'[k] = timers[k])
               \/ (k = Len(timers) + 1 /\ timers'[k] = t)
      BY <1>1, <3>1, AppendedOne, Appended
    <3>2. Len(timers') = Len(timers) + 1 /\ timers'[Len(timers) + 1] = t
      BY <3>8
    <3>3. \A k \in 1..Len(timers') : (k \in 1..Len(timers) /\ timers'[k].win = Road!NoWin)
            \/ (k = Len(timers') /\ timers'[k] = t)
      BY <1>3, <3>8 DEF NoWins
    <3>4. t.win # Road!NoWin /\ crossing'[road'.shown] = t.win /\ t.win[1] = road'.shown /\ ~road'.doomed
      BY <1>3, <1>4, <1>6, <2>2, <3>1
    <3>5. ShowInv'
      BY <1>15, <2>2, <3>3, <3>4 DEF ShowInv
    <3>6. ~roadCrossed => Len(timers) <= 1
      <4>1. Len(timers) = 2 => timers[2].win = Road!NoWin
        BY <1>3 DEF NoWins
      <4>2. ~roadCrossed => Len(timers) <= 2 /\ Len(timers) # 2
        BY <1>1, <4>1 DEF TimersInv
      <4> DEFINE l == Len(timers)
      <4>3. l \in Nat /\ (~roadCrossed => l <= 2 /\ l # 2)
        BY <1>1, <4>2
      <4> HIDE DEF l
      <4>4. ~roadCrossed => l <= 1
        BY <4>3
      <4> QED BY <4>4 DEF l
    <3>7. TimersInv'
      <4>1. timers'[Len(timers')].win # Road!NoWin
        BY <3>2, <3>4
      <4>2. ~roadCrossed => Len(timers') <= 2
        BY <1>1, <3>2, <3>6
      <4>3. (Len(timers') = 2 => timers'[2].win # Road!NoWin) /\ (Len(timers') = 1 => timers'[1].win # Road!NoWin)
        BY <4>1
      <4> QED BY <1>4, <4>2, <4>3 DEF TimersInv
    <3> QED BY <3>5, <3>7
  <2> QED BY <1>7, <2>1, <2>2
<1>17. ASSUME Road!Playing', ~roadCrossed PROVE \E lo, hi \in Nat : Rises(roadDown', lo, hi) /\ RoadBase(lo)'
                /\ Top(hi)'
  <2>1. PICK lo \in Nat, hi \in Nat : Rises(roadDown, lo, hi) /\ RoadBase(lo) /\ Top(hi)
    BY <1>1, <1>3, <1>17 DEF LaneInv
  <2>2. PICK m \in Nat : Link(Head(roadDown), lo, m) /\ lo <= m /\ Rises(Tail(roadDown), m, hi)
    BY <1>1, <1>2, <2>1, RisesTail
  <2>3. road.lane <= m /\ \A k \in 1..Len(timers) : timers[k].to <= m
    <3>1. road.lane <= lo /\ \A k \in 1..Len(timers) : timers[k].to <= lo
      BY <2>1 DEF RoadBase
    <3>2. \A k \in 1..Len(timers) : timers[k].to \in Nat
      <4>1. \A k \in 1..Len(timers) : timers[k] \in Timers
        BY <1>1, ElementOfSeq
      <4>2. \A t \in Timers : t.to \in Nat
        BY DEF Timers
      <4> QED BY <4>1, <4>2
    <3> DEFINE l == road.lane
    <3>3. l \in Nat /\ l <= lo
      BY <1>1, <3>1
    <3> HIDE DEF l
    <3>4. l <= m
      BY <2>2, <3>3
    <3>5. \A n \in Nat : n <= lo => n <= m
      BY <2>2
    <3> QED BY <3>1, <3>2, <3>4, <3>5 DEF l
  <2>4. \A k \in 1..Len(timers') : timers'[k].to <= m
    <3>1. CASE (f.bust \/ ~f.auto) /\ UNCHANGED <<timers, held>>
      BY <2>3, <3>1
    <3>2. CASE /\ ~f.bust /\ f.auto /\ held' = TRUE
               /\ \E t \in Timers : t.to = road.lane + 1 /\ t.win = f.payout /\ timers' = Append(timers, t)
      <4>1. PICK t \in Timers : t.to = road.lane + 1 /\ timers' = Append(timers, t)
        BY <3>2
      <4>3. \A k \in 1..Len(timers') : (k \in 1..Len(timers) /\ timers'[k] = timers[k]) \/ timers'[k] = t
        BY <1>1, <4>1, AppendedOne
      <4>4. m = lo + 1 /\ road.lane <= lo
        BY <1>2, <2>1, <2>2, <3>2 DEF Link, Raises, RoadBase
      <4>5. t.to <= m
        BY <1>1, <4>1, <4>4
      <4> QED BY <2>3, <4>3, <4>5
    <3> QED BY <1>7, <3>1, <3>2
  <2>5. RoadBase(m)'
    BY <1>3, <1>4, <1>6, <2>3, <2>4 DEF RoadBase
  <2>6. Top(hi)'
    BY <1>4, <2>1 DEF Top, Resuming
  <2> QED BY <1>2, <2>2, <2>5, <2>6
<1>18. LaneInv'
  BY <1>4, <1>17 DEF LaneInv
<1> QED BY <1>8, <1>9, <1>11, <1>12, <1>13, <1>14, <1>16, <1>18 DEF RoadInv

\* ERROR: the flags are cleared, whoever it was meant for.
LEMMA ErrorStep == ASSUME Road!ChickenPageAssumption, RoadInv, Road!OnError PROVE RoadInv'
<1> USE DEF Road!Playing
<1>1. /\ RoadTypes /\ RoundInv /\ UpInv /\ FramesInv /\ ShowInv /\ Road!ShownIsDecided /\ TimersInv /\ ResumeInv
      /\ LaneInv /\ roadDown \in Seq(Downs) /\ timers \in Seq(Timers) /\ Len(timers) \in Nat
      /\ road.lane \in Nat /\ walk.n \in 0..MaxBets /\ MaxBets \in Nat
  BY RoadConstants DEF RoadInv, RoadTypes
<1>2. PICK f \in Downs :
        /\ f = Head(roadDown) /\ FrameFits(f) /\ roadDown # <<>> /\ roadDown' = Tail(roadDown) /\ f.type = "ERROR"
        /\ OnlyErrors => OnlyErrors'
        /\ f.type = "GAME_RESULT" => OnlyErrors'
        /\ f.type # "ERROR" => ~OnlyErrors /\ ~Resuming
  BY Read DEF Road!OnError, Road!Deliver
<1>3. UNCHANGED <<road, lastWin, timers, held, walk, crossing, roadUp>> /\ roadCrossed' = (roadCrossed \/ ~f.answer)
  BY <1>2 DEF Road!OnError, Road!serverVars
<1>4. roadCrossed' \in BOOLEAN
  BY <1>3, <1>1 DEF RoadTypes
<1>5. UpInv'
  BY <1>1, <1>3, UpSeen
<1>6. FramesInv' /\ roadDown' \in Seq(Downs)
  <2>1. \A g \in Downs : FrameFits(g) => FrameFits(g)'
    BY <1>3 DEF FrameFits, NoWins
  <2> QED BY <1>1, <1>2, <2>1, FramesRead
<1>7. RoadTypes'
  BY <1>1, <1>3, <1>4, <1>6 DEF RoadTypes
<1>8. RoundInv' /\ Road!ShownIsDecided' /\ TimersInv'
  BY <1>1, <1>3 DEF RoundInv, Road!ShownIsDecided, TimersInv
<1>9. ShowInv'
  BY <1>1, <1>2, <1>3 DEF ShowInv, Final, NoWins
<1>10. ResumeInv'
  BY <1>1, <1>2, <1>3 DEF ResumeInv, Resuming
<1>11. ASSUME Road!Playing, ~roadCrossed' PROVE \E lo, hi \in Nat : Rises(roadDown', lo, hi) /\ RoadBase(lo)'
                /\ Top(hi)'
  <2>1. PICK lo \in Nat, hi \in Nat : Rises(roadDown, lo, hi) /\ RoadBase(lo) /\ Top(hi)
    BY <1>1, <1>3, <1>11 DEF LaneInv
  <2>2. PICK m \in Nat : Link(Head(roadDown), lo, m) /\ lo <= m /\ Rises(Tail(roadDown), m, hi)
    BY <1>1, <1>2, <2>1, RisesTail
  <2>3. m = lo
    BY <1>2, <2>2 DEF Link, Raises
  <2>4. RoadBase(lo)' /\ Top(hi)'
    BY <1>3, <2>1 DEF RoadBase, Top, Resuming
  <2> QED BY <1>2, <2>2, <2>3, <2>4
<1>12. LaneInv'
  BY <1>3, <1>11 DEF LaneInv
<1> QED BY <1>5, <1>6, <1>7, <1>8, <1>9, <1>10, <1>12 DEF RoadInv
\* The connection is lost, with every frame on its way, and the page asks for its round.
LEMMA ReconnectStep == ASSUME Road!ChickenPageAssumption, RoadInv, Road!Reconnect PROVE RoadInv'
<1> USE DEF Road!Playing
<1>1. /\ RoadTypes /\ RoundInv /\ UpInv /\ FramesInv /\ ShowInv /\ Road!ShownIsDecided /\ TimersInv /\ ResumeInv
      /\ LaneInv /\ roadDown \in Seq(Downs) /\ MaxBets \in Nat
  BY RoadConstants DEF RoadInv, RoadTypes
<1>2. /\ roadUp' = <<"RESUME">> /\ roadDown' = <<>> /\ walk' = [walk EXCEPT !.here = FALSE]
           /\ UNCHANGED <<crossing, roadCrossed>>
      /\ \/ UNCHANGED <<road, lastWin, timers, held>>
         \/ road' = Road!Fresh /\ lastWin' = Road!NoWin /\ timers' = <<>> /\ held' = FALSE
  BY DEF Road!Reconnect, Road!pageVars
<1>3. /\ walk'.n = walk.n /\ walk'.lane = walk.lane /\ walk'.status = walk.status /\ walk'.here = FALSE
      /\ walk' \in [n : 0..MaxBets, lane : Nat, status : {"none", "starting", "open", "auto", "cashout"}, here : BOOLEAN]
  BY <1>1, <1>2 DEF RoadTypes
<1>4. Len(roadUp') = 1 /\ roadUp'[1] = "RESUME" /\ Len(roadDown') = 0 /\ roadUp' \in Seq(Ups)
        /\ roadDown' \in Seq(Downs)
  <2>1. <<"RESUME">> \in Seq(Ups) /\ <<>> \in Seq(Downs)
    BY EmptySeq DEF Ups
  <2> QED BY <1>2, <2>1
<1>5. /\ \A i \in 1..Len(roadUp') : i = 1 /\ roadUp'[i] = "RESUME"
      /\ \A i \in 1..Len(roadDown') : FALSE
  BY <1>4
<1>6. road' = Road!Fresh => /\ road'.phase = "IDLE" /\ road'.shown = 0 /\ ~road'.doomed
                        /\ road' \in [phase : {"IDLE", "PLAYING", "WON", "LOST"}, lane : Nat, hop : Nat, hopping : BOOLEAN,
                                      doomed : BOOLEAN, shown : 0..MaxBets]
  BY <1>1 DEF Road!Fresh, Road!NoHop
<1>7. Road!Playing' => Road!Playing /\ UNCHANGED <<road, lastWin, timers, held>>
  BY <1>2, <1>6
<1>8. UpInv'
  <2>1. walk.status = "starting" => ~Road!Playing
    BY <1>1 DEF UpInv
  <2> QED BY <1>3, <1>5, <1>7, <2>1 DEF UpInv, Acts, RoundSettling
<1>9. FramesInv'
  BY <1>5 DEF FramesInv
<1>10. timers' \in Seq(Timers) /\ held' \in BOOLEAN
  BY <1>1, <1>2, EmptySeq DEF RoadTypes
<1>11. RoadTypes'
  <2>1. road' \in [phase : {"IDLE", "PLAYING", "WON", "LOST"}, lane : Nat, hop : Nat, hopping : BOOLEAN,
                   doomed : BOOLEAN, shown : 0..MaxBets]
    BY <1>1, <1>2, <1>6 DEF RoadTypes
  <2> QED BY <1>1, <1>2, <1>3, <1>4, <1>10, <2>1 DEF RoadTypes
<1>12. RoundInv'
  <2>1. CASE UNCHANGED <<road, lastWin, timers, held>>
    BY <1>1, <1>3, <2>1 DEF RoundInv
  <2>2. CASE road' = Road!Fresh
    <3>1. walk.n \in 0..MaxBets
      BY <1>1 DEF RoadTypes
    <3> QED BY <1>1, <1>3, <1>6, <2>2, <3>1 DEF RoundInv
  <2> QED BY <1>2, <2>1, <2>2
<1>13. OnlyErrors'
  BY <1>5 DEF OnlyErrors
<1>14. ShowInv' /\ Road!ShownIsDecided' /\ TimersInv'
  <2>1. CASE UNCHANGED <<road, lastWin, timers, held>>
    <3>1. Final => Final'
      BY <1>3, <1>13, <2>1 DEF Final
    <3> QED BY <1>1, <1>2, <2>1, <3>1 DEF ShowInv, Road!ShownIsDecided, TimersInv, NoWins
  <2>2. CASE road' = Road!Fresh /\ timers' = <<>>
    <3>1. Len(timers') = 0 /\ \A k \in 1..Len(timers') : FALSE
      BY <2>2
    <3> QED BY <1>6, <2>2, <3>1 DEF ShowInv, Road!ShownIsDecided, TimersInv
  <2> QED BY <1>2, <2>1, <2>2
<1>15. ResumeInv' /\ Resuming'
  <2>1. 1 \in 1..Len(roadUp')
    BY <1>4
  <2> QED BY <1>3, <1>4, <1>5, <1>13, <2>1 DEF ResumeInv, Resuming
<1>16. ASSUME Road!Playing', ~roadCrossed PROVE \E lo, hi \in Nat : Rises(roadDown', lo, hi) /\ RoadBase(lo)'
                /\ Top(hi)'
  <2>1. Road!Playing /\ UNCHANGED <<road, lastWin, timers, held>>
    BY <1>7, <1>16
  <2>2. PICK lo \in Nat, hi \in Nat : Rises(roadDown, lo, hi) /\ RoadBase(lo) /\ Top(hi)
    BY <1>1, <1>16, <2>1 DEF LaneInv
  <2>3. lo <= hi
    BY <1>1, <2>2, RisesWithin
  <2>4. Rises(roadDown', lo, lo)
    BY <1>2, RisesEmpty
  <2>5. RoadBase(lo)'
    BY <1>3, <2>1, <2>2 DEF RoadBase
  <2>6. Top(lo)'
    <3>1. walk.lane \in Nat
      BY <1>1 DEF RoadTypes
    <3> QED BY <1>3, <1>15, <2>2, <2>3, <3>1 DEF Top
  <2> QED BY <2>4, <2>5, <2>6
<1>17. LaneInv'
  BY <1>2, <1>16 DEF LaneInv
<1> QED BY <1>8, <1>9, <1>11, <1>12, <1>14, <1>15, <1>17 DEF RoadInv

\* Every step of the page, of the server or of the connection keeps the invariant.
LEMMA RoadStep == ASSUME Road!ChickenPageAssumption, RoadInv, Road!Next PROVE RoadInv'
<1>1. CASE Road!Player
  BY <1>1, StartStep, ActStep DEF Road!Player
<1>2. CASE Road!Shows
  BY <1>2, RoadLandStep, DrawnStep, CrashStep, RoundAcceptedStep, UpdateStep, ResultStep, ErrorStep DEF Road!Shows
<1>3. CASE Road!HandleBet
  <2>1. UNCHANGED <<road, lastWin, timers, held, crossing, roadCrossed>> /\ roadUp # <<>>
          /\ roadUp' = Tail(roadUp) /\ Head(roadUp) = "BET"
    BY <1>3 DEF Road!HandleBet, Road!Take, Road!Quiet, Road!pageVars
  <2>2. CASE Road!SendDown(Road!Refused(TRUE)) /\ UNCHANGED walk
    BY <2>1, <2>2, RefusalStep DEF Road!SendDown
  <2>3. CASE /\ ~(walk.status # "none" \/ walk.n = MaxBets) /\ UNCHANGED roadDown
             /\ walk' = [n |-> walk.n + 1, lane |-> 0, status |-> "starting", here |-> TRUE]
    BY <1>3, <2>1, <2>3, BetStep DEF Road!HandleBet
  <2> QED BY <1>3, <2>2, <2>3 DEF Road!HandleBet
<1>4. CASE Road!Opened
  BY <1>4, OpenedStep
<1>5. CASE Road!HandleStep
  <2>1. UNCHANGED <<road, lastWin, timers, held, roadCrossed>> /\ Road!Take("STEP") /\ roadUp # <<>>
          /\ roadUp' = Tail(roadUp) /\ Head(roadUp) = "STEP"
    BY <1>5 DEF Road!HandleStep, Road!Take, Road!Quiet, Road!pageVars
  <2>2. CASE Road!SendDown(Road!Refused(TRUE)) /\ UNCHANGED Road!serverVars
    BY <2>1, <2>2, RefusalStep DEF Road!SendDown, Road!serverVars
  <2>3. CASE /\ walk.status = "open" /\ walk' = [walk EXCEPT !.status = "none"]
             /\ crossing' = [crossing EXCEPT ![walk.n] = Road!Busted]
             /\ Road!SendDown(Road!Result(TRUE, FALSE, Road!NoWin)) \/ Road!SendDown(Road!Refused(TRUE))
    BY <2>1, <2>3, BustStep DEF Road!SendDown
  <2>4. CASE /\ walk.status = "open" /\ walk' = [walk EXCEPT !.lane = @ + 1]
             /\ Road!SendDown(Road!Frame("STATE_UPDATE")) /\ UNCHANGED crossing
    BY <2>1, <2>4, LaneStep DEF Road!SendDown, Road!Frame
  <2>5. CASE /\ walk.status = "open" /\ walk.lane + 1 \in LastLane..LastLane + MaxOverrun
             /\ walk' = [walk EXCEPT !.lane = @ + 1, !.status = "auto", !.here = TRUE]
                  /\ UNCHANGED <<roadDown, crossing>>
    <3>1. walk.lane + 1 >= LastLane
      BY <2>5, RoadConstants
    <3> QED BY <2>1, <2>5, <3>1, ClosingStep
  <2> QED BY <1>5, <2>2, <2>3, <2>4, <2>5 DEF Road!HandleStep
<1>6. CASE Road!HandleCashout
  <2>1. UNCHANGED <<road, lastWin, timers, held, crossing, roadCrossed>> /\ Road!Take("CASHOUT") /\ roadUp # <<>>
        /\ roadUp' = Tail(roadUp) /\ Head(roadUp) = "CASHOUT"
    BY <1>6 DEF Road!HandleCashout, Road!Take, Road!Quiet, Road!pageVars
  <2>2. CASE Road!SendDown(Road!Refused(TRUE)) /\ UNCHANGED walk
    BY <2>1, <2>2, RefusalStep DEF Road!SendDown
  <2>3. CASE /\ ~(walk.status # "open" \/ walk.lane < UnlockLane) /\ UNCHANGED roadDown
             /\ walk' = [walk EXCEPT !.status = "cashout", !.here = TRUE]
    BY <2>1, <2>3, ClosingStep
  <2> QED BY <1>6, <2>2, <2>3 DEF Road!HandleCashout
<1>7. CASE Road!Settled
  <2>1. UNCHANGED <<road, lastWin, timers, held, roadUp>> /\ RoundSettling
    BY <1>7 DEF Road!Settled, RoundSettling, Road!pageVars
  <2>2. CASE /\ walk' = [walk EXCEPT !.status = "none"]
          /\ crossing' = [crossing EXCEPT ![walk.n] = <<walk.n, walk.lane>>]
             /\ \/ Road!Answer(Road!Result(FALSE, walk.status = "auto", <<walk.n, walk.lane>>))
                \/ Road!Answer(Road!Refused(TRUE))
             /\ UNCHANGED roadCrossed
    BY <2>1, <2>2, PaidStep
  <2>3. CASE /\ walk' = [walk EXCEPT !.status = "open"] /\ roadCrossed' = (roadCrossed \/ ~walk.here)
             /\ Road!Answer(Road!Refused(TRUE)) /\ UNCHANGED crossing
    BY <2>1, <2>3, UnpaidStep
  <2> QED BY <1>7, <2>2, <2>3 DEF Road!Settled
<1>8. CASE Road!HandleResume
  <2>1. UNCHANGED <<road, lastWin, timers, held, walk, crossing, roadCrossed>> /\ Road!Take("RESUME")
          /\ roadUp # <<>>
        /\ roadUp' = Tail(roadUp) /\ Head(roadUp) = "RESUME"
    BY <1>8 DEF Road!HandleResume, Road!Take, Road!Quiet, Road!pageVars, Road!serverVars
  <2>2. CASE walk.status = "open"
    BY <1>8, <2>1, <2>2, RoadResumeStep DEF Road!HandleResume, Road!SendDown, Road!Frame
  <2>3. CASE walk.status # "open"
    BY <1>8, <2>1, <2>3, RefusalStep DEF Road!HandleResume
  <2> QED BY <2>2, <2>3
<1>9. CASE Road!OtherFails
  <2>1. /\ UNCHANGED <<road, lastWin, timers, held, walk, crossing, roadCrossed, roadUp>>
        /\ roadDown' = Append(roadDown, Road!Refused(FALSE))
    BY <1>9 DEF Road!OtherFails, Road!SendDown, Road!pageVars, Road!serverVars
  <2> QED BY <2>1, RefusalStep
<1>10. CASE Road!Reconnect
  BY <1>10, ReconnectStep
<1> QED BY <1>1, <1>2, <1>3, <1>4, <1>5, <1>6, <1>7, <1>8, <1>9, <1>10 DEF Road!Next, Road!Server

\* What the board shows was decided, and its lane is never ahead of the round's.
LEMMA RoadHolds == ASSUME Road!ChickenPageAssumption, RoadInv PROVE Road!ShownIsDecided /\ Road!BoardNeverAhead
<1>1. RoadTypes /\ LaneInv /\ Road!ShownIsDecided /\ roadDown \in Seq(Downs) /\ road.lane \in Nat
        /\ walk.lane \in Nat
  BY DEF RoadInv, RoadTypes
<1>2. ASSUME Road!Playing, ~roadCrossed
      PROVE  road.lane <= walk.lane
               /\ (Road!AllPlayed /\ walk.status = "open" /\ walk.lane < LastLane => road.lane = walk.lane)
  <2>1. PICK lo \in Nat, hi \in Nat : Rises(roadDown, lo, hi) /\ RoadBase(lo) /\ Top(hi)
    BY <1>1, <1>2 DEF LaneInv
  <2>2. lo <= hi /\ (roadDown = <<>> => lo = hi)
    BY <1>1, <2>1, RisesWithin
  <2>3. road.lane <= walk.lane
    BY <1>1, <2>1, <2>2 DEF RoadBase, Top
  <2>4. ASSUME Road!AllPlayed, walk.status = "open", walk.lane < LastLane PROVE road.lane = walk.lane
    <3>1. roadUp = <<>> /\ roadDown = <<>> /\ timers = <<>>
      BY <2>4 DEF Road!AllPlayed
    <3>2. ~Resuming
      BY <3>1 DEF Resuming
    <3> QED BY <2>1, <2>2, <2>4, <3>1, <3>2 DEF RoadBase, Top
  <2> QED BY <2>3, <2>4
<1> QED BY <1>1, <1>2 DEF Road!BoardNeverAhead

-----------------------------------------------------------------------------
(* The Mines page *)

\* The instances count as this module does.
LEMMA FieldCount == \A S : Field!Cardinality(S) = Cardinality(S)
BY DEF Field!Cardinality, Cardinality

\* So do those of the wallet's dialogs.
LEMMA DialogCount == \A S : Dialogs!Cardinality(S) = Cardinality(S)
BY DEF Dialogs!Cardinality, Cardinality

Foreign(f) == f.type = "ERROR" /\ f.foreign
TileAskSet == [type : {"BET", "CASHOUT"}] \cup [type : {"REVEAL_TILE"}, tile : Grid]
AnswerSet ==
  [type : {"BET_ACCEPTED"}] \cup [type : {"ERROR"}, foreign : BOOLEAN]
  \cup [type : {"STATE_UPDATE"}, tile : Grid, multiplier : Nat]
  \cup [type : {"GAME_RESULT"}, bust : {TRUE}, tile : Grid, n : Nat]
  \cup [type : {"GAME_RESULT"}, bust : {FALSE}, n : Nat, multiplier : Nat, revealed : SUBSET Grid]

\* Of all frames, only those of tiles without a mine turn one up.
Turns(f) ==
  /\ f.type = "STATE_UPDATE" => f.tile \notin Mined
  /\ f.type = "GAME_RESULT" => (f.bust \/ f.revealed \cap Mined = {})
MinesTypes ==
  /\ DOMAIN field = {"active", "revealed", "multiplier", "mines", "hit", "outcome", "busy"}
  /\ field.active \in BOOLEAN /\ field.busy \in BOOLEAN /\ field.revealed \in SUBSET Grid
       /\ field.multiplier \in Nat
  /\ dig \in [n : 0..MaxBets, revealed : SUBSET Grid, active : BOOLEAN]
  /\ dig.active => dig.n > 0
  /\ DOMAIN dug = 1..MaxBets
  /\ digUp \in Seq(TileAskSet) /\ digging \in Seq(AnswerSet) /\ digDown \in Seq(AnswerSet)
  /\ digDrops \in Nat /\ digCrossed \in BOOLEAN
TilesSafe ==
  /\ field.revealed \cap Mined = {} /\ dig.revealed \cap Mined = {}
  /\ \A i \in 1..Len(digging) : Turns(digging[i])
  /\ \A i \in 1..Len(digDown) : Turns(digDown[i])

\* The board lags behind the round, no further.
Within ==
  /\ field.revealed \subseteq dig.revealed
  /\ Field!Cardinality(field.revealed) <= field.multiplier /\ field.multiplier <= Field!Cardinality(dig.revealed)
Agree ==
  /\ dig.active => field.active
  /\ field.active /\ dig.active => Within
  /\ field.active => field.outcome = "none"
  /\ field.outcome # "none" => field.outcome = dug[dig.n]
AskFits(f) == Agree /\ (field.active <=> f.type # "BET")
Fits(f) ==
  CASE f.type = "BET_ACCEPTED" -> ~field.active /\ dig.active /\ dig.revealed = {}
    [] f.type = "ERROR" -> ~f.foreign /\ Agree
    [] f.type = "STATE_UPDATE" ->
         field.active /\ Agree /\ f.tile \in dig.revealed /\ f.multiplier = Field!Cardinality(dig.revealed)
    [] f.type = "GAME_RESULT" ->
         /\ field.active /\ ~dig.active /\ field.outcome = "none"
         /\ dug[dig.n] = IF f.bust THEN "bust" ELSE "cashout"
Others(s, k) == \A i \in 1..Len(s) : i # k => Foreign(s[i])
TileComing ==
  \/ digUp = <<>> /\ Len(digging) = 1 /\ Fits(digging[1]) /\ Others(digDown, 0)
  \/ digUp = <<>> /\ digging = <<>> /\ \E k \in 1..Len(digDown) : Fits(digDown[k]) /\ Others(digDown, k)
OneAskAtATime ==
  digDrops = 0 /\ ~digCrossed =>
    \/ ~field.busy /\ digUp = <<>> /\ digging = <<>> /\ Others(digDown, 0) /\ Agree
    \/ field.busy /\ Len(digUp) = 1 /\ digging = <<>> /\ Others(digDown, 0) /\ AskFits(digUp[1])
    \/ field.busy /\ TileComing
MinesInv == MinesTypes /\ TilesSafe /\ OneAskAtATime

\* A board starts empty, and no round is open.
LEMMA MinesInit == ASSUME Field!MinesPageAssumption, Field!Init PROVE MinesInv
<1> USE DEF Field!Init, Field!Fresh
<1>1. MinesTypes
  <2>1. <<>> \in Seq(TileAskSet) /\ <<>> \in Seq(AnswerSet) /\ MaxBets \in Nat
    BY EmptySeq DEF Field!MinesPageAssumption
  <2>2. DOMAIN field = {"active", "revealed", "multiplier", "mines", "hit", "outcome", "busy"}
    OBVIOUS
  <2>3. dig \in [n : 0..MaxBets, revealed : SUBSET Grid, active : BOOLEAN] /\ (dig.active => dig.n > 0)
    BY <2>1
  <2> QED BY <2>1, <2>2, <2>3 DEF MinesTypes
<1>2. TilesSafe
  BY DEF TilesSafe
<1>3. Agree
  BY DEF Agree
<1>4. OneAskAtATime
  BY <1>3 DEF OneAskAtATime, Others
<1> QED BY <1>1, <1>2, <1>4 DEF MinesInv

\* What the page and the server send are frames.
LEMMA MinesFrames == 
  /\ \A t \in {"BET", "CASHOUT"} : [type |-> t] \in TileAskSet
  /\ \A tile \in Grid : [type |-> "REVEAL_TILE", tile |-> tile] \in TileAskSet
  /\ Field!Refused \in AnswerSet /\ [type |-> "ERROR", foreign |-> TRUE] \in AnswerSet
  /\ [type |-> "BET_ACCEPTED"] \in AnswerSet
  /\ \A tile \in Grid, m \in Nat : [type |-> "STATE_UPDATE", tile |-> tile, multiplier |-> m] \in AnswerSet
  /\ \A tile \in Grid, n \in Nat : [type |-> "GAME_RESULT", bust |-> TRUE, tile |-> tile, n |-> n] \in AnswerSet
  /\ \A n \in Nat, m \in Nat, R \in SUBSET Grid :
       [type |-> "GAME_RESULT", bust |-> FALSE, n |-> n, multiplier |-> m, revealed |-> R] \in AnswerSet
BY DEF TileAskSet, AnswerSet, Field!Refused

\* What a frame of each type carries.
LEMMA MinesFields ==
  /\ \A f \in TileAskSet : f.type \in {"BET", "CASHOUT", "REVEAL_TILE"}
       /\ (f.type = "REVEAL_TILE" => f.tile \in Grid)
  /\ \A f \in AnswerSet :
       /\ f.type \in {"BET_ACCEPTED", "ERROR", "STATE_UPDATE", "GAME_RESULT"}
       /\ f.type = "ERROR" => f.foreign \in BOOLEAN
       /\ f.type = "STATE_UPDATE" => f.tile \in Grid /\ f.multiplier \in Nat
       /\ f.type = "GAME_RESULT" =>
            f.bust \in BOOLEAN /\ (f.bust => f.tile \in Grid)
              /\ (~f.bust => f.multiplier \in Nat /\ f.revealed \in SUBSET Grid)
BY DEF TileAskSet, AnswerSet

\* The player asks for something.
LEMMA TileAskStep ==
  ASSUME MinesInv, NEW f \in TileAskSet, Field!Ask(f), ~field.busy, field.active <=> f.type # "BET"
  PROVE  MinesInv'
<1>1. /\ field' = [field EXCEPT !.busy = TRUE] /\ digUp' = Append(digUp, f)
      /\ UNCHANGED <<dig, dug, digging, digDown, digErrors, digDrops, digCrossed>>
  BY DEF Field!Ask, Field!serverVars
<1>2. field' = [field EXCEPT !.busy = TRUE] /\ field'.busy = TRUE /\ field'.active = field.active
        /\ field'.revealed = field.revealed
      /\ field'.multiplier = field.multiplier /\ field'.outcome = field.outcome
  BY <1>1 DEF MinesInv, MinesTypes
<1>3. MinesTypes'
  <2>1. digUp' \in Seq(TileAskSet)
    BY <1>1, AppendProperties DEF MinesInv, MinesTypes
  <2> QED BY <1>1, <1>2, <2>1 DEF MinesInv, MinesTypes
<1>4. TilesSafe'
  BY <1>1, <1>2 DEF MinesInv, TilesSafe, Turns
<1>5. ASSUME digDrops' = 0 /\ ~digCrossed' PROVE OneAskAtATime'
  <2>1. ~field.busy /\ digUp = <<>> /\ digging = <<>> /\ Others(digDown, 0) /\ Agree
    BY <1>1, <1>5 DEF MinesInv, OneAskAtATime
  <2>2. digUp' = <<f>> /\ Len(digUp') = 1 /\ digUp'[1] = f
    BY <1>1, <2>1
  <2>3. Agree'
    BY <1>1, <1>2, <2>1 DEF Agree, Within
  <2> QED BY <1>1, <1>2, <2>1, <2>2, <2>3 DEF OneAskAtATime, Others, Foreign, AskFits
<1> QED BY <1>3, <1>4, <1>5 DEF MinesInv, OneAskAtATime

\* The tiles on the board, and their number.
LEMMA TilesCount ==
  ASSUME Field!MinesPageAssumption
  PROVE  /\ Field!Cardinality({}) = 0
         /\ \A R \in SUBSET Grid : IsFiniteSet(R) /\ Field!Cardinality(R) \in Nat
         /\ \A R, S \in SUBSET Grid : R \subseteq S => Field!Cardinality(R) <= Field!Cardinality(S)
         /\ \A R \in SUBSET Grid, t \in Grid : t \notin R =>
              Field!Cardinality(R \cup {t}) = Field!Cardinality(R) + 1
<1>1. \A R \in SUBSET Grid : IsFiniteSet(R) /\ Field!Cardinality(R) \in Nat
  BY FieldCount, FS_Subset, FS_CardinalityType DEF Field!IsFiniteSet, IsFiniteSet, Field!MinesPageAssumption
<1>2. \A R, S \in SUBSET Grid : R \subseteq S => Field!Cardinality(R) <= Field!Cardinality(S)
  BY <1>1, FieldCount, FS_Subset
<1>3. \A R \in SUBSET Grid, t \in Grid : t \notin R => Field!Cardinality(R \cup {t}) = Field!Cardinality(R) + 1
  BY <1>1, FieldCount, FS_AddElement
<1> QED BY <1>1, <1>2, <1>3, FieldCount, FS_EmptySet

\* A frame is played.
LEMMA FramesStep == ASSUME Field!MinesPageAssumption, MinesInv, Field!Frames PROVE MinesInv'
<1> DEFINE f == Head(digDown)
<1>1. /\ digDown # <<>> /\ digDown \in Seq(AnswerSet) /\ digDown' = Tail(digDown) /\ f \in AnswerSet
           /\ f = digDown[1]
      /\ digDown' \in Seq(AnswerSet) /\ Len(digDown') = Len(digDown) - 1 /\ Len(digDown) \in Nat \ {0}
      /\ \A j \in 1..Len(digDown') : digDown'[j] = digDown[j + 1]
  BY HeadTailProperties, EmptySeq DEF MinesInv, MinesTypes, Field!Frames
<1>2. UNCHANGED <<dig, dug, digging, digUp, digErrors, digDrops>>
  BY DEF Field!Frames, Field!serverVars
<1>3. digCrossed' = (digCrossed \/ (f.type = "ERROR" /\ f.foreign))
  BY DEF Field!Frames
<1>4. /\ f.type = "BET_ACCEPTED" => field' = Field!OnAccepted(field)
      /\ f.type = "STATE_UPDATE" => field' = Field!OnUpdate(field, f)
      /\ f.type = "GAME_RESULT" => field' = Field!OnResult(field, f)
      /\ f.type = "ERROR" => field' = [field EXCEPT !.busy = FALSE]
  BY DEF Field!Frames
<1> HIDE DEF f
<1>5. f.type \in {"BET_ACCEPTED", "ERROR", "STATE_UPDATE", "GAME_RESULT"}
  BY <1>1, MinesFields
<1>6. Turns(f) /\ (f.type = "ERROR" => f.foreign \in BOOLEAN)
  BY <1>1, MinesFields DEF MinesInv, TilesSafe
<1>7. /\ f.type = "BET_ACCEPTED" =>
           field'.active = TRUE /\ field'.revealed = {} /\ field'.multiplier = 0 /\ field'.outcome = "none"
             /\ field'.busy = FALSE
      /\ f.type = "STATE_UPDATE" =>
           /\ field'.active = field.active /\ field'.revealed = field.revealed \cup {f.tile}
                /\ field'.multiplier = f.multiplier
           /\ field'.outcome = field.outcome /\ field'.busy = FALSE
      /\ f.type = "GAME_RESULT" =>
           /\ field'.active = FALSE /\ field'.busy = FALSE
           /\ f.bust => field'.outcome = "bust" /\ field'.revealed = field.revealed
                /\ field'.multiplier = field.multiplier
           /\ ~f.bust => field'.outcome = "cashout" /\ field'.revealed = f.revealed
                /\ field'.multiplier = f.multiplier
      /\ f.type = "ERROR" =>
           /\ field'.active = field.active /\ field'.revealed = field.revealed
                /\ field'.multiplier = field.multiplier
           /\ field'.outcome = field.outcome /\ field'.busy = FALSE
  <2>1. DOMAIN field = {"active", "revealed", "multiplier", "mines", "hit", "outcome", "busy"}
    BY DEF MinesInv, MinesTypes
  <2>2. CASE f.type = "BET_ACCEPTED"
    BY <1>4, <2>2 DEF Field!OnAccepted, Field!Fresh
  <2>3. CASE f.type = "STATE_UPDATE"
    BY <1>4, <2>1, <2>3 DEF Field!OnUpdate
  <2>4. CASE f.type = "GAME_RESULT" /\ f.bust
    BY <1>4, <2>1, <2>4 DEF Field!OnResult
  <2>5. CASE f.type = "GAME_RESULT" /\ ~f.bust
    BY <1>4, <2>1, <2>5 DEF Field!OnResult
  <2>6. CASE f.type = "ERROR"
    BY <1>4, <2>1, <2>6
  <2> QED BY <1>5, <2>2, <2>3, <2>4, <2>5, <2>6
<1>8. DOMAIN field' = {"active", "revealed", "multiplier", "mines", "hit", "outcome", "busy"}
  BY <1>4, <1>5 DEF MinesInv, MinesTypes, Field!OnAccepted, Field!OnUpdate, Field!OnResult, Field!Fresh
<1>9. field'.active \in BOOLEAN /\ field'.busy \in BOOLEAN /\ field'.revealed \in SUBSET Grid
        /\ field'.multiplier \in Nat
  <2>1. field.active \in BOOLEAN /\ field.revealed \in SUBSET Grid /\ field.multiplier \in Nat
    BY DEF MinesInv, MinesTypes
  <2>2. CASE f.type = "BET_ACCEPTED"
    <3>1. field'.active = TRUE /\ field'.revealed = {} /\ field'.multiplier = 0 /\ field'.busy = FALSE
      BY <1>7, <2>2
    <3>2. {} \in SUBSET Grid /\ 0 \in Nat
      OBVIOUS
    <3> QED BY <3>1, <3>2
  <2>3. CASE f.type = "ERROR"
    BY <1>7, <2>1, <2>3
  <2>4. CASE f.type = "STATE_UPDATE"
    BY <1>1, <1>7, <2>1, <2>4, MinesFields
  <2>5. CASE f.type = "GAME_RESULT"
    <3>1. f.bust \in BOOLEAN /\ (~f.bust => f.multiplier \in Nat /\ f.revealed \in SUBSET Grid)
      BY <1>1, <2>5, MinesFields
    <3> QED BY <1>7, <2>1, <2>5, <3>1
  <2> QED BY <1>5, <2>2, <2>3, <2>4, <2>5
<1>10. MinesTypes'
  BY <1>1, <1>2, <1>3, <1>6, <1>8, <1>9 DEF MinesInv, MinesTypes
<1>11. field'.revealed \cap Mined = {}
  BY <1>5, <1>6, <1>7 DEF MinesInv, TilesSafe, Turns
<1>12. TilesSafe'
  BY <1>1, <1>2, <1>11 DEF MinesInv, TilesSafe, Turns
<1>13. ASSUME digDrops' = 0 /\ ~digCrossed' PROVE OneAskAtATime'
  <2>1. digDrops = 0 /\ ~digCrossed /\ ~Foreign(f)
    BY <1>2, <1>3, <1>6, <1>13 DEF Foreign
  <2>2. ~Others(digDown, 0)
    BY <1>1, <2>1 DEF Others
  <2>3. field.busy /\ TileComing
    BY <2>1, <2>2 DEF MinesInv, OneAskAtATime
  <2>4. digUp = <<>> /\ digging = <<>> /\ \E k \in 1..Len(digDown) : Fits(digDown[k]) /\ Others(digDown, k)
    BY <2>2, <2>3 DEF TileComing
  <2>5. PICK k \in 1..Len(digDown) : Fits(digDown[k]) /\ Others(digDown, k)
    BY <2>4
  <2>6. k = 1
    BY <1>1, <2>1, <2>5 DEF Others
  <2>7. Fits(f) /\ Others(digDown, 1)
    BY <1>1, <2>5, <2>6
  <2>8. Others(digDown', 0)
    <3>1. \A j \in 1..Len(digDown') : j + 1 \in 1..Len(digDown) /\ j + 1 # 1
      BY <1>1
    <3> QED BY <1>1, <2>7, <3>1 DEF Others
  <2>9. Agree'
    <3>1. CASE f.type = "BET_ACCEPTED"
      BY <1>2, <1>7, <2>7, <3>1, TilesCount DEF Fits, Agree, Within
    <3>2. CASE f.type = "ERROR"
      BY <1>2, <1>7, <2>7, <3>2 DEF Fits, Agree, Within
    <3>3. CASE f.type = "STATE_UPDATE"
      <4>1. field.active /\ Agree /\ f.tile \in dig.revealed /\ f.multiplier = Field!Cardinality(dig.revealed)
        BY <2>7, <3>3 DEF Fits
      <4>2. ASSUME dig.active PROVE Within'
        <5>1. field'.revealed \subseteq dig.revealed
          BY <1>7, <3>3, <4>1, <4>2 DEF Agree, Within
        <5>2. field'.revealed \in SUBSET Grid /\ dig.revealed \in SUBSET Grid
          BY <1>9 DEF MinesInv, MinesTypes
        <5>3. Field!Cardinality(field'.revealed) <= Field!Cardinality(dig.revealed)
                /\ Field!Cardinality(dig.revealed) \in Nat
          BY <5>1, <5>2, TilesCount
        <5> QED BY <1>2, <1>7, <3>3, <4>1, <5>1, <5>3 DEF Within
      <4> QED BY <1>2, <1>7, <3>3, <4>1, <4>2 DEF Agree
    <3>4. CASE f.type = "GAME_RESULT"
      BY <1>1, <1>2, <1>7, <2>7, <3>4, MinesFields DEF Fits, Agree
    <3> QED BY <1>5, <3>1, <3>2, <3>3, <3>4
  <2>10. field'.busy = FALSE
    BY <1>5, <1>7
  <2> QED BY <1>2, <2>4, <2>8, <2>9, <2>10 DEF OneAskAtATime
<1> QED BY <1>10, <1>12, <1>13 DEF MinesInv, OneAskAtATime

\* A handler answers.
LEMMA HandlesStep ==
  ASSUME Field!MinesPageAssumption, MinesInv, Field!Handle
  PROVE  MinesInv'
<1> DEFINE f == Head(digUp)
<1>1. /\ digUp # <<>> /\ digUp \in Seq(TileAskSet) /\ digUp' = Tail(digUp) /\ f \in TileAskSet /\ f = digUp[1]
      /\ digUp' \in Seq(TileAskSet) /\ Len(digUp') = Len(digUp) - 1 /\ Len(digUp) \in Nat \ {0}
  BY HeadTailProperties, EmptySeq DEF MinesInv, MinesTypes, Field!Handle
<1>2. UNCHANGED <<field, digDown, digErrors, digDrops, digCrossed>>
  BY DEF Field!Handle
<1>3. /\ f.type = "BET" => Field!HandleBet
      /\ f.type = "REVEAL_TILE" => Field!HandleReveal(f.tile)
      /\ f.type = "CASHOUT" => Field!HandleCashout
  BY DEF Field!Handle
<1> HIDE DEF f
<1>4. f.type \in {"BET", "CASHOUT", "REVEAL_TILE"} /\ (f.type = "REVEAL_TILE" => f.tile \in Grid)
  BY <1>1, MinesFields
\* What an answer is, and what became of the round.
<1> DEFINE Tells(a) ==
      /\ a \in AnswerSet /\ Turns(a) /\ digging' = Append(digging, a)
      /\ dig' \in [n : 0..MaxBets, revealed : SUBSET Grid, active : BOOLEAN]
      /\ dig'.active => dig'.n > 0
      /\ DOMAIN dug' = 1..MaxBets /\ dig'.revealed \cap Mined = {}
      /\ \/ a = Field!Refused /\ UNCHANGED <<dig, dug>>
         \/ /\ f.type = "BET" /\ a = [type |-> "BET_ACCEPTED"]
            /\ dig'.active /\ dig'.revealed = {}
         \/ /\ f.type = "REVEAL_TILE" /\ a.type = "STATE_UPDATE" /\ dug' = dug
            /\ dig' = [dig EXCEPT !.revealed = @ \cup {f.tile}] /\ f.tile \notin dig.revealed /\ a.tile = f.tile
            /\ a.multiplier = Field!Cardinality(dig.revealed) + 1
         \/ /\ f.type # "BET" /\ a.type = "GAME_RESULT" /\ ~dig'.active
            /\ dug'[dig'.n] = IF a.bust THEN "bust" ELSE "cashout"
<1>5. \E a : Tells(a)
  <2> USE DEF MinesInv, MinesTypes, TilesSafe
  <2>1. Turns(Field!Refused) /\ Field!Refused \in AnswerSet
    BY MinesFrames DEF Turns, Field!Refused
  <2>2. ASSUME digging' = Append(digging, Field!Refused), UNCHANGED <<dig, dug>> PROVE Tells(Field!Refused)
    BY <2>1, <2>2
  <2>3. CASE f.type = "BET"
    <3>1. CASE Field!Answers(Field!Refused) /\ UNCHANGED <<dig, dug>>
      BY <2>2, <3>1 DEF Field!Answers
    <3>2. CASE /\ ~dig.active /\ dig.n < MaxBets
               /\ dig' = [n |-> dig.n + 1, revealed |-> {}, active |-> TRUE]
               /\ Field!Answers([type |-> "BET_ACCEPTED"]) /\ UNCHANGED dug
      <4>1. Tells([type |-> "BET_ACCEPTED"])
        BY <2>3, <3>2, MinesFrames DEF Field!Answers, Turns, Field!MinesPageAssumption
      <4> QED BY <4>1
    <3> QED BY <1>3, <2>3, <3>1, <3>2 DEF Field!HandleBet
  <2>4. CASE f.type = "REVEAL_TILE"
    <3>1. CASE ~dig.active \/ f.tile \in dig.revealed
      BY <1>3, <2>2, <2>4, <3>1 DEF Field!HandleReveal, Field!Answers
    <3>2. CASE ~(~dig.active \/ f.tile \in dig.revealed) /\ f.tile \in Mined
      <4> DEFINE a == [type |-> "GAME_RESULT", bust |-> TRUE, tile |-> f.tile, n |-> dig.n]
      <4>1. dig' = [dig EXCEPT !.active = FALSE] /\ dug' = [dug EXCEPT ![dig.n] = "bust"]
              /\ digging' = Append(digging, a)
        BY <1>3, <2>4, <3>2 DEF Field!HandleReveal, Field!IsMine, Field!Answers
      <4>2. a \in AnswerSet /\ Turns(a)
        BY <1>4, <2>4, MinesFrames DEF Turns
      <4>3. dig.n \in 1..MaxBets
        BY <3>2
      <4>4. dug'[dig'.n] = "bust" /\ DOMAIN dug' = 1..MaxBets
        BY <4>1, <4>3
      <4>5. Tells(a)
        BY <2>4, <4>1, <4>2, <4>4
      <4> QED BY <4>5
    <3>3. CASE ~(~dig.active \/ f.tile \in dig.revealed) /\ f.tile \notin Mined
      <4> DEFINE a == [type |-> "STATE_UPDATE", tile |-> f.tile, multiplier |-> Field!Cardinality(dig.revealed) + 1]
      <4>1. dig' = [dig EXCEPT !.revealed = @ \cup {f.tile}] /\ dug' = dug /\ digging' = Append(digging, a)
        BY <1>3, <2>4, <3>3 DEF Field!HandleReveal, Field!IsMine, Field!Answers
      <4>2. Field!Cardinality(dig.revealed) \in Nat
        BY TilesCount
      <4>3. a \in AnswerSet /\ Turns(a)
        <5>1. Field!Cardinality(dig.revealed) + 1 \in Nat /\ f.tile \in Grid
          BY <1>4, <2>4, <4>2
        <5>2. a \in AnswerSet
          BY <5>1, MinesFrames
        <5>3. Turns(a)
          BY <3>3 DEF Turns
        <5> QED BY <5>2, <5>3
      <4>4. Tells(a)
        BY <1>4, <2>4, <3>3, <4>1, <4>3
      <4> QED BY <4>4
    <3> QED BY <3>1, <3>2, <3>3
  <2>5. CASE f.type = "CASHOUT"
    <3>1. CASE ~dig.active \/ dig.revealed = {}
      BY <1>3, <2>2, <2>5, <3>1 DEF Field!HandleCashout, Field!Answers
    <3>2. CASE ~(~dig.active \/ dig.revealed = {})
      <4> DEFINE a == [type |-> "GAME_RESULT", bust |-> FALSE, n |-> dig.n,
                       multiplier |-> Field!Cardinality(dig.revealed), revealed |-> dig.revealed]
      <4>1. dig' = [dig EXCEPT !.active = FALSE] /\ dug' = [dug EXCEPT ![dig.n] = "cashout"]
              /\ digging' = Append(digging, a)
        BY <1>3, <2>5, <3>2 DEF Field!HandleCashout, Field!Answers
      <4>2. a \in AnswerSet /\ Turns(a)
        <5>1. dig.n \in Nat /\ dig.revealed \in SUBSET Grid /\ Field!Cardinality(dig.revealed) \in Nat
          BY TilesCount
        <5>2. a \in AnswerSet
          BY <5>1, MinesFrames
        <5>3. Turns(a)
          BY DEF Turns
        <5> QED BY <5>2, <5>3
      <4>3. dig.n \in 1..MaxBets
        BY <3>2
      <4>4. dug'[dig'.n] = "cashout" /\ DOMAIN dug' = 1..MaxBets
        BY <4>1, <4>3
      <4>5. Tells(a)
        BY <2>5, <4>1, <4>2, <4>4
      <4> QED BY <4>5
    <3> QED BY <3>1, <3>2
  <2> QED BY <1>4, <2>3, <2>4, <2>5
<1>6. PICK a : Tells(a)
  BY <1>5
<1>7. /\ digging' \in Seq(AnswerSet) /\ Len(digging') = Len(digging) + 1 /\ digging'[Len(digging) + 1] = a
      /\ \A j \in 1..Len(digging) : digging'[j] = digging[j]
  BY <1>6, AppendProperties DEF MinesInv, MinesTypes
<1>8. MinesTypes'
  BY <1>1, <1>2, <1>6, <1>7 DEF MinesInv, MinesTypes
<1>9. TilesSafe'
  <2>1. \A j \in 1..Len(digging') : Turns(digging'[j])
    <3>1. Len(digging) \in Nat
      BY DEF MinesInv, MinesTypes
    <3>2. \A j \in 1..Len(digging') : j \in 1..Len(digging) \/ j = Len(digging) + 1
      BY <1>7, <3>1
    <3> QED BY <1>6, <1>7, <3>2 DEF MinesInv, TilesSafe
  <2> QED BY <1>2, <1>6, <2>1 DEF MinesInv, TilesSafe, Turns
<1>10. ASSUME digDrops' = 0 /\ ~digCrossed' PROVE OneAskAtATime'
  <2>1. field.busy /\ Len(digUp) = 1 /\ digging = <<>> /\ Others(digDown, 0) /\ AskFits(f)
    BY <1>1, <1>2, <1>10 DEF MinesInv, OneAskAtATime, TileComing
  <2>2. digUp' = <<>> /\ digging' = <<a>> /\ Len(digging') = 1 /\ digging'[1] = a
    BY <1>1, <1>6, <2>1
  <2>3. Fits(a)'
    <3>1. CASE a = Field!Refused /\ UNCHANGED <<dig, dug>>
      BY <1>2, <2>1, <3>1 DEF Fits, AskFits, Agree, Within, Field!Refused
    <3>2. CASE f.type = "BET" /\ a = [type |-> "BET_ACCEPTED"] /\ dig'.active /\ dig'.revealed = {}
      BY <1>2, <2>1, <3>2 DEF Fits, AskFits
    <3>3. CASE /\ f.type = "REVEAL_TILE" /\ a.type = "STATE_UPDATE" /\ dug' = dug
               /\ dig' = [dig EXCEPT !.revealed = @ \cup {f.tile}] /\ f.tile \notin dig.revealed /\ a.tile = f.tile
               /\ a.multiplier = Field!Cardinality(dig.revealed) + 1
      <4>1. /\ dig'.n = dig.n /\ dig'.active = dig.active /\ dig'.revealed = dig.revealed \cup {f.tile}
            /\ dig.revealed \in SUBSET Grid
        BY <3>3 DEF MinesInv, MinesTypes
      <4>2. Field!Cardinality(dig'.revealed) = Field!Cardinality(dig.revealed) + 1
              /\ Field!Cardinality(dig.revealed) \in Nat
        BY <1>4, <3>3, <4>1, TilesCount
      <4>3. field.active /\ Agree
        BY <2>1, <3>3 DEF AskFits
      <4>4. field.multiplier \in Nat
        BY DEF MinesInv, MinesTypes
      <4>5. Agree'
        BY <1>2, <3>3, <4>1, <4>2, <4>3, <4>4 DEF Agree, Within
      <4> QED BY <1>2, <3>3, <4>1, <4>2, <4>3, <4>5 DEF Fits
    <3>4. CASE /\ f.type # "BET" /\ a.type = "GAME_RESULT" /\ ~dig'.active
               /\ dug'[dig'.n] = IF a.bust THEN "bust" ELSE "cashout"
      BY <1>2, <2>1, <3>4 DEF Fits, AskFits, Agree
    <3> QED BY <1>6, <3>1, <3>2, <3>3, <3>4
  <2>4. TileComing'
    BY <1>2, <2>1, <2>2, <2>3 DEF TileComing, Others, Foreign
  <2> QED BY <1>2, <2>1, <2>4 DEF OneAskAtATime
<1> QED BY <1>8, <1>9, <1>10 DEF MinesInv, OneAskAtATime

\* A frame more on its way to the page.
LEMMA Sent ==
  ASSUME MinesTypes, NEW f \in AnswerSet, digDown' = Append(digDown, f)
  PROVE  /\ digDown' \in Seq(AnswerSet) /\ Len(digDown') = Len(digDown) + 1 /\ Len(digDown) \in Nat
         /\ digDown'[Len(digDown) + 1] = f /\ \A j \in 1..Len(digDown) : digDown'[j] = digDown[j]
         /\ \A j \in 1..Len(digDown') : j \in 1..Len(digDown) \/ j = Len(digDown) + 1
BY AppendProperties, LenProperties DEF MinesTypes

\* The server's answer reaches the socket.
LEMMA ReplyStep ==
  ASSUME Field!MinesPageAssumption, MinesInv, Field!Reply
  PROVE  MinesInv'
<1>1. PICK i \in 1..Len(digging) :
        /\ \/ digDown' = Append(digDown, digging[i])
           \/ digging[i].type # "BET_ACCEPTED" /\ digDown' = Append(digDown, Field!Refused)
        /\ digging' = SubSeq(digging, 1, i - 1) \o SubSeq(digging, i + 1, Len(digging))
        /\ UNCHANGED <<field, dig, dug, digUp, digErrors, digDrops, digCrossed>>
  BY DEF Field!Reply
<1>2. PICK f : digDown' = Append(digDown, f)
        /\ (f = digging[i] \/ (digging[i].type # "BET_ACCEPTED" /\ f = Field!Refused))
  BY <1>1
<1>3. digging \in Seq(AnswerSet) /\ digging[i] \in AnswerSet /\ Len(digging) \in Nat
  BY <1>1, ElementOfSeq DEF MinesInv, MinesTypes
<1>4. f \in AnswerSet /\ Turns(f)
  BY <1>1, <1>2, <1>3, MinesFrames DEF MinesInv, TilesSafe, Turns, Field!Refused
<1>5. /\ digging' \in Seq(AnswerSet) /\ Len(digging') = Len(digging) - 1
      /\ \A j \in 1..Len(digging') : digging'[j] = IF j < i THEN digging[j] ELSE digging[j + 1]
  BY <1>1, <1>3, Removal
<1>6. /\ digDown' \in Seq(AnswerSet) /\ Len(digDown') = Len(digDown) + 1 /\ Len(digDown) \in Nat
      /\ digDown'[Len(digDown) + 1] = f /\ \A j \in 1..Len(digDown) : digDown'[j] = digDown[j]
      /\ \A j \in 1..Len(digDown') : j \in 1..Len(digDown) \/ j = Len(digDown) + 1
  BY <1>2, <1>4, Sent DEF MinesInv
<1>7. MinesTypes'
  BY <1>1, <1>5, <1>6 DEF MinesInv, MinesTypes
<1>8. TilesSafe'
  <2>1. \A j \in 1..Len(digDown') : Turns(digDown'[j])
    BY <1>4, <1>6 DEF MinesInv, TilesSafe
  <2>2. \A j \in 1..Len(digging') : j \in 1..Len(digging) /\ j + 1 \in 1..Len(digging)
    BY <1>3, <1>5
  <2>3. \A j \in 1..Len(digging') : Turns(digging'[j])
    BY <1>5, <2>2 DEF MinesInv, TilesSafe
  <2> QED BY <1>1, <2>1, <2>3 DEF MinesInv, TilesSafe, Turns
<1>9. ASSUME digDrops' = 0 /\ ~digCrossed' PROVE OneAskAtATime'
  <2>1. field.busy /\ digUp = <<>> /\ Len(digging) = 1 /\ Fits(digging[1]) /\ Others(digDown, 0)
    BY <1>1, <1>9, EmptySeq DEF MinesInv, OneAskAtATime, TileComing
  <2>2. i = 1 /\ digging' = <<>>
    BY <1>1, <1>5, <2>1, EmptySeq
  <2>3. Fits(f)
    <3>1. CASE f = digging[1]
      BY <2>1, <3>1
    <3>2. CASE digging[1].type # "BET_ACCEPTED" /\ f = Field!Refused
      <4>1. digging[1].type \in {"BET_ACCEPTED", "ERROR", "STATE_UPDATE", "GAME_RESULT"}
        BY <1>3, <2>2, MinesFields
      <4>2. Agree
        BY <2>1, <3>2, <4>1 DEF Fits, Agree
      <4> QED BY <3>2, <4>2 DEF Fits, Field!Refused
    <3> QED BY <1>2, <2>2, <3>1, <3>2
  <2>4. Fits(f)'
    BY <1>1, <2>3 DEF Fits, Agree, Within
  <2>5. Others(digDown', Len(digDown) + 1)
    BY <1>6, <2>1 DEF Others
  <2>6. Len(digDown) + 1 \in 1..Len(digDown')
    BY <1>6
  <2> QED BY <1>1, <1>6, <2>1, <2>2, <2>4, <2>5, <2>6 DEF OneAskAtATime, TileComing, Others, Foreign
<1> QED BY <1>7, <1>8, <1>9 DEF MinesInv, OneAskAtATime

\* An action of another page fails.
LEMMA ForeignStep ==
  ASSUME Field!MinesPageAssumption, MinesInv, Field!OtherFails
  PROVE  MinesInv'
<1> DEFINE f == [type |-> "ERROR", foreign |-> TRUE]
<1>1. digDown' = Append(digDown, f) /\ UNCHANGED <<field, dig, dug, digging, digUp, digDrops, digCrossed>>
  BY DEF Field!OtherFails, Field!serverVars
<1>2. f \in AnswerSet /\ Turns(f) /\ Foreign(f)
  BY MinesFrames DEF Turns, Foreign
<1> HIDE DEF f
<1>3. /\ digDown' \in Seq(AnswerSet) /\ Len(digDown') = Len(digDown) + 1 /\ Len(digDown) \in Nat
      /\ digDown'[Len(digDown) + 1] = f /\ \A j \in 1..Len(digDown) : digDown'[j] = digDown[j]
      /\ \A j \in 1..Len(digDown') : j \in 1..Len(digDown) \/ j = Len(digDown) + 1
  BY <1>1, <1>2, Sent DEF MinesInv
<1>4. MinesTypes'
  BY <1>1, <1>3 DEF MinesInv, MinesTypes
<1>5. TilesSafe'
  BY <1>1, <1>2, <1>3 DEF MinesInv, TilesSafe, Turns
<1>6. \A k \in 0..Len(digDown) : Others(digDown, k) => Others(digDown', k)
  BY <1>2, <1>3 DEF Others
<1>7. ASSUME digDrops' = 0 /\ ~digCrossed' PROVE OneAskAtATime'
  <2>1. OneAskAtATime /\ digDrops = 0 /\ ~digCrossed
    BY <1>1, <1>7 DEF MinesInv
  <2>2. Agree' = Agree /\ (\A a : Fits(a)' = Fits(a)) /\ (\A a : AskFits(a)' = AskFits(a))
    BY <1>1 DEF Agree, Fits, AskFits, Within
  <2>3. Others(digDown, 0) => Others(digDown', 0)
    BY <1>3, <1>6
  <2>4. CASE ~field.busy /\ digUp = <<>> /\ digging = <<>> /\ Others(digDown, 0) /\ Agree
    BY <1>1, <2>2, <2>3, <2>4 DEF OneAskAtATime, Others, Foreign
  <2>5. CASE field.busy /\ Len(digUp) = 1 /\ digging = <<>> /\ Others(digDown, 0) /\ AskFits(digUp[1])
    BY <1>1, <2>2, <2>3, <2>5 DEF OneAskAtATime, Others, Foreign
  <2>6. CASE field.busy /\ digUp = <<>> /\ Len(digging) = 1 /\ Fits(digging[1]) /\ Others(digDown, 0)
    BY <1>1, <2>2, <2>3, <2>6 DEF OneAskAtATime, TileComing, Others, Foreign
  <2>7. ASSUME field.busy, digUp = <<>>, digging = <<>>, NEW k \in 1..Len(digDown), Fits(digDown[k]), Others(digDown, k)
        PROVE OneAskAtATime'
    <3>1. k \in 1..Len(digDown') /\ k \in 0..Len(digDown) /\ digDown'[k] = digDown[k]
      BY <1>3
    <3>2. Others(digDown', k) /\ Fits(digDown[k])'
      BY <1>6, <2>2, <2>7, <3>1
    <3> QED BY <1>1, <2>7, <3>1, <3>2 DEF OneAskAtATime, TileComing, Others, Foreign
  <2> QED BY <2>1, <2>4, <2>5, <2>6, <2>7 DEF OneAskAtATime, TileComing
<1> QED BY <1>4, <1>5, <1>7 DEF MinesInv, OneAskAtATime

\* A connection is lost with its frames; the round stays.
LEMMA LostStep ==
  ASSUME Field!MinesPageAssumption, MinesInv, Field!Lost
  PROVE  MinesInv'
<1>1. /\ digDrops' = digDrops + 1 /\ field' \in {field, Field!Fresh}
           /\ digUp' = <<>> /\ digDown' = <<>> /\ digging' = <<>>
      /\ UNCHANGED <<dig, dug, digErrors, digCrossed>>
  BY DEF Field!Lost
<1>2. MinesTypes'
  <2>1. <<>> \in Seq(TileAskSet) /\ <<>> \in Seq(AnswerSet)
    BY EmptySeq
  <2>2. CASE field' = field
    BY <1>1, <2>1, <2>2 DEF MinesInv, MinesTypes
  <2>3. CASE field' = Field!Fresh
    BY <1>1, <2>1, <2>3 DEF MinesInv, MinesTypes, Field!Fresh
  <2> QED BY <1>1, <2>2, <2>3
<1>3. TilesSafe'
  BY <1>1 DEF MinesInv, TilesSafe, Turns, Field!Fresh
<1>4. digDrops' # 0
  BY <1>1 DEF MinesInv, MinesTypes
<1> QED BY <1>2, <1>3, <1>4 DEF MinesInv, OneAskAtATime

\* Every step keeps the invariant.
LEMMA MinesStep ==
  ASSUME Field!MinesPageAssumption, MinesInv, Field!Next
  PROVE  MinesInv'
<1>1. CASE Field!StartRound
  BY <1>1, TileAskStep, MinesFrames DEF Field!StartRound, Field!CanStart
<1>2. CASE Field!Cashout
  BY <1>2, TileAskStep, MinesFrames DEF Field!Cashout, Field!CanCashout
<1>3. ASSUME NEW tile \in Grid, Field!Reveal(tile) PROVE MinesInv'
  BY <1>3, TileAskStep, MinesFrames DEF Field!Reveal, Field!CanReveal, Field!Interactive
<1> QED BY <1>1, <1>2, <1>3, FramesStep, HandlesStep, ReplyStep, ForeignStep, LostStep DEF Field!Next

\* No tile shown hides a mine, and the outcome shown is that of the round.
LEMMA MinesHolds == ASSUME MinesInv PROVE Field!ShownTilesAreSafe /\ Field!OutcomeIsDecided
<1>1. digDrops = 0 /\ ~digCrossed /\ field.active /\ dig.active => Within
  <2> SUFFICES ASSUME digDrops = 0, ~digCrossed, field.active, dig.active PROVE Within
    OBVIOUS
  <2>1. Agree => Within
    BY DEF Agree
  <2>2. ASSUME NEW f \in AnswerSet, Fits(f) PROVE Within
    BY <2>1, <2>2, MinesFields DEF Fits
  <2>3. CASE digging # <<>> /\ TileComing
    <3>1. digging[1] \in AnswerSet
      BY <2>3, ElementOfSeq DEF TileComing, MinesInv, MinesTypes
    <3> QED BY <2>2, <2>3, <3>1 DEF TileComing
  <2>4. CASE digging = <<>> /\ TileComing
    <3>1. PICK k \in 1..Len(digDown) : Fits(digDown[k])
      BY <2>4, EmptySeq DEF TileComing
    <3>2. digDown[k] \in AnswerSet
      BY <3>1, ElementOfSeq DEF MinesInv, MinesTypes
    <3> QED BY <2>2, <3>1, <3>2
  <2> QED BY <2>1, <2>3, <2>4 DEF MinesInv, OneAskAtATime, AskFits
<1>2. digDrops = 0 /\ ~digCrossed /\ digging = <<>> /\ digUp = <<>> /\ digDown = <<>> => Agree
  BY EmptySeq DEF MinesInv, MinesTypes, OneAskAtATime, TileComing
<1> QED BY <1>1, <1>2 DEF MinesInv, TilesSafe, Field!ShownTilesAreSafe, Field!OutcomeIsDecided, Within, Agree

-----------------------------------------------------------------------------
(* The boards of the instant games *)

BetRow == [n : Nat, choice : Picks]
BoardFrame == [type : {"GAME_RESULT"}, bet : BetRow] \cup [type : {"ERROR"}, foreign : BOOLEAN]

BoardTypes ==
  /\ controls \in Picks /\ busy \in BOOLEAN /\ crossed \in BOOLEAN /\ game \in OnScreen
  /\ sent \in Seq(Picks) /\ playing \in Seq(BetRow) /\ answers \in Seq(BoardFrame)
  /\ settled \in Seq(BetRow) /\ \A k \in 1..Len(settled) : settled[k].n = k
  /\ game = "SLOTS" => \A k \in 1..Len(answers) : answers[k].type = "ERROR" => ~answers[k].foreign

\* The answers are another page's, but for the one at k.
Strange(s, k) == \A i \in 1..Len(s) : i # k => s[i].type = "ERROR" /\ s[i].foreign

\* The bet decided last, on what the controls say.
IsLast(chosen) == Len(settled) # 0 /\ chosen = settled[Len(settled)] /\ chosen.choice = controls
AnswerFits(f) == IF f.type = "ERROR" THEN ~f.foreign ELSE IsLast(f.bet)

\* At most one bet is under way: on its way, decided, or played out.
OneUnderWay ==
  ~crossed =>
    \/ sent = <<>> /\ playing = <<>> /\ Strange(answers, 0)
    \/ busy /\ Len(sent) = 1 /\ sent[1] = controls /\ playing = <<>> /\ Strange(answers, 0)
    \/ /\ busy /\ sent = <<>> /\ playing = <<>>
       /\ \E k \in 1..Len(answers) : Strange(answers, k) /\ AnswerFits(answers[k])
    \/ busy /\ sent = <<>> /\ Strange(answers, 0) /\ Len(playing) = 1 /\ IsLast(playing[1])
AnnouncedOK ==
  ~crossed =>
    /\ game # "PLINKO" /\ busy => shown = Board!Nothing
    /\ shown # Board!Nothing =>
         /\ shown.n \in 1..Len(settled) /\ shown.choice = settled[shown.n].choice
         /\ game # "PLINKO" => shown.n = Len(settled)
BoardInv == BoardTypes /\ OneUnderWay /\ AnnouncedOK

\* A board starts idle.
LEMMA BoardInit == ASSUME Board!BoardsAssumption, Board!Init PROVE BoardInv
<1>1. <<>> \in Seq(Picks) /\ <<>> \in Seq(BetRow) /\ <<>> \in Seq(BoardFrame) /\ Len(<<>>) = 0
  BY EmptySeq
<1> USE DEF Board!Init
<1>2. BoardTypes
  <2>1. controls \in Picks /\ busy \in BOOLEAN /\ crossed \in BOOLEAN /\ game \in OnScreen
    OBVIOUS
  <2>2. \A k \in 1..Len(settled) : settled[k].n = k
    BY <1>1
  <2>3. \A k \in 1..Len(answers) : answers[k].type = "ERROR" => ~answers[k].foreign
    BY <1>1
  <2>4. sent \in Seq(Picks) /\ playing \in Seq(BetRow) /\ answers \in Seq(BoardFrame) /\ settled \in Seq(BetRow)
    BY <1>1
  <2> QED BY <2>1, <2>2, <2>3, <2>4 DEF BoardTypes
<1>3. OneUnderWay
  BY <1>1 DEF OneUnderWay, Strange
<1>4. AnnouncedOK
  BY DEF AnnouncedOK
<1> QED BY <1>2, <1>3, <1>4 DEF BoardInv

\* A bet is placed.
LEMMA PlaceStep == ASSUME BoardInv, Board!Places PROVE BoardInv'
<1> USE DEF BoardInv
<1>1. /\ ~busy /\ busy' = TRUE /\ sent' = Append(sent, controls)
           /\ UNCHANGED <<game, controls, answers, settled, drops, crossed>>
      /\ playing' \in {playing, <<>>} /\ (game # "PLINKO" => shown' = Board!Nothing) /\ (game = "PLINKO" =>
           shown' = shown)
  BY DEF Board!Places, Board!DiceBet, Board!LimboBet, Board!CoinflipBet, Board!RouletteSpin, Board!PlinkoDrop,
     Board!KenoBet, Board!AviaLaunch, Board!SlotsSpin, Board!Bet, Board!Submits
<1>2. sent' \in Seq(Picks) /\ <<>> \in Seq(BetRow)
  BY <1>1, AppendProperties, EmptySeq DEF BoardTypes
<1>3. BoardTypes'
  BY <1>1, <1>2 DEF BoardTypes
<1>4. ASSUME ~crossed PROVE sent = <<>> /\ playing = <<>> /\ Strange(answers, 0)
  BY <1>1, <1>4 DEF OneUnderWay
<1>5. ASSUME ~crossed PROVE Len(sent') = 1 /\ sent'[1] = controls /\ playing' = <<>> /\ Strange(answers', 0)
  BY <1>1, <1>4, <1>5 DEF Strange
<1>6. OneUnderWay'
  BY <1>1, <1>5 DEF OneUnderWay
<1>7. AnnouncedOK'
  BY <1>1 DEF AnnouncedOK
<1> QED BY <1>3, <1>6, <1>7

\* The controls change.
LEMMA ChooseStep == ASSUME BoardInv, Board!Chooses PROVE BoardInv'
<1> USE DEF BoardInv
<1>1. /\ ~busy /\ controls' \in Picks /\ UNCHANGED <<game, busy, shown, sent, answers, settled, drops, crossed>>
      /\ playing' \in {playing, <<>>}
  BY DEF Board!Chooses, Board!DiceChoose, Board!LimboChoose, Board!CoinflipChoose, Board!RouletteChoose,
     Board!PlinkoChoose, Board!KenoChoose, Board!AviaChoose, Board!SlotsChoose, Board!Choose
<1>2. <<>> \in Seq(BetRow)
  BY EmptySeq
<1>3. BoardTypes'
  BY <1>1, <1>2 DEF BoardTypes
<1>4. ASSUME ~crossed PROVE sent = <<>> /\ playing = <<>> /\ Strange(answers, 0)
  BY <1>1, <1>4 DEF OneUnderWay
<1>5. OneUnderWay'
  BY <1>1, <1>4 DEF OneUnderWay, Strange
<1>6. AnnouncedOK'
  BY <1>1 DEF AnnouncedOK
<1> QED BY <1>3, <1>5, <1>6

\* The playing ends.
LEMMA BoardLandStep == ASSUME BoardInv, Board!Lands PROVE BoardInv'
<1> USE DEF BoardInv
<1>1. CASE Board!PlaneTouchesDown
  BY <1>1 DEF Board!PlaneTouchesDown, BoardTypes, OneUnderWay, AnnouncedOK, Strange, AnswerFits, IsLast
<1>2. CASE ~Board!PlaneTouchesDown
  <2>1. /\ playing # <<>> /\ playing' = Tail(playing) /\ shown' = Head(playing) /\ busy' = FALSE
        /\ UNCHANGED <<game, controls, sent, answers, settled, drops, crossed>>
    BY <1>2 DEF Board!Lands, Board!DiceLands, Board!LimboLands, Board!CoinLands, Board!BallSettles,
       Board!DropCompletes, Board!LastTileTurns, Board!PlaneIsDown, Board!ReelsStop, Board!Ends, Board!Settle
  <2>2. playing' \in Seq(BetRow) /\ Len(playing') = Len(playing) - 1 /\ Len(playing) \in Nat /\ shown' = playing[1]
    BY <2>1, HeadTailProperties, LenProperties DEF BoardTypes
  <2>3. BoardTypes'
    BY <2>1, <2>2 DEF BoardTypes
  <2>4. ASSUME ~crossed PROVE sent = <<>> /\ Strange(answers, 0) /\ Len(playing) = 1 /\ IsLast(playing[1])
    BY <2>1, <2>4 DEF OneUnderWay
  <2>5. ASSUME ~crossed PROVE playing' = <<>>
    <3>2. Len(playing) = 1
      BY <2>4, <2>5
    <3>1. Len(playing') = 0
      BY <2>2, <3>2
    <3> QED BY <2>2, <3>1, EmptySeq
  <2>6. OneUnderWay'
    BY <2>1, <2>4, <2>5 DEF OneUnderWay, Strange
  <2>7. Len(settled) \in Nat
    BY LenProperties DEF BoardTypes
  <2>8. AnnouncedOK'
    BY <2>1, <2>2, <2>4, <2>7 DEF AnnouncedOK, IsLast, BoardTypes
  <2> QED BY <2>3, <2>6, <2>8
<1> QED BY <1>1, <1>2

\* An answer is taken in.
LEMMA AnswerGone ==
  ASSUME BoardTypes, NEW i \in 1..Len(answers), answers' = Board!Without(answers, i)
  PROVE  /\ answers[i] \in BoardFrame
         /\ answers' \in Seq(BoardFrame)
         /\ \A j \in 1..Len(answers') : \E k \in 1..Len(answers) : k # i /\ answers'[j] = answers[k]
<1>1. answers \in Seq(BoardFrame) /\ Len(answers) \in Nat
  BY LenProperties DEF BoardTypes
<1>2. /\ answers' \in Seq(BoardFrame) /\ Len(answers') = Len(answers) - 1
      /\ \A j \in 1..Len(answers') : answers'[j] = IF j < i THEN answers[j] ELSE answers[j + 1]
  BY <1>1, Removal DEF Board!Without
<1>3. ASSUME NEW j \in 1..Len(answers') PROVE \E k \in 1..Len(answers) : k # i /\ answers'[j] = answers[k]
  <2>1. CASE j < i
    <3>1. j \in 1..Len(answers) /\ j # i
      BY <1>1, <1>2, <2>1
    <3> QED BY <1>2, <2>1, <3>1
  <2>2. CASE ~(j < i)
    <3>1. j + 1 \in 1..Len(answers) /\ j + 1 # i
      BY <1>1, <1>2, <2>2
    <3> QED BY <1>2, <2>2, <3>1
  <2> QED BY <2>1, <2>2
<1> QED BY <1>1, <1>2, <1>3, ElementOfSeq

\* A frame comes in: the result of the bet, its refusal, or another page's.
LEMMA ComeStep == ASSUME BoardInv, NEW i \in 1..Len(answers), Board!Comes(i) PROVE BoardInv'
<1> USE DEF BoardInv
<1>1. answers' = Board!Without(answers, i) /\ UNCHANGED <<game, controls, sent, settled, drops>>
  BY DEF Board!Comes, Board!DiceResult, Board!LimboResult, Board!CoinflipResult, Board!RouletteResult,
     Board!PlinkoResult, Board!KenoResult, Board!AviaResult, Board!SlotsResult,
         Board!ErrorComes, Board!Result
<1>2. /\ answers[i] \in BoardFrame /\ answers' \in Seq(BoardFrame)
      /\ \A j \in 1..Len(answers') : \E k \in 1..Len(answers) : k # i /\ answers'[j] = answers[k]
  BY <1>1, AnswerGone
<1>3. game = "SLOTS" => \A k \in 1..Len(answers') : answers'[k].type = "ERROR" => ~answers'[k].foreign
  BY <1>2 DEF BoardTypes
\* Before the answer, if it is the player's.
<1>4. ASSUME ~crossed, ~(answers[i].type = "ERROR" /\ answers[i].foreign)
      PROVE  busy /\ sent = <<>> /\ playing = <<>> /\ AnswerFits(answers[i]) /\ Strange(answers', 0)
  <2>1. \A k \in 0..Len(answers) : Strange(answers, k) => k = i
    BY <1>4 DEF Strange
  <2>2. Len(answers) \in Nat
    BY LenProperties DEF BoardTypes
  <2>3. ~Strange(answers, 0)
    BY <2>1, <2>2
  <2>4. busy
          /\ sent = <<>> /\ playing = <<>> /\ \E k \in 1..Len(answers) : Strange(answers, k) /\ AnswerFits(answers[k])
    BY <1>4, <2>3 DEF OneUnderWay
  <2>5. Strange(answers, i) /\ AnswerFits(answers[i])
    BY <2>1, <2>2, <2>4
  <2>6. Strange(answers', 0)
    BY <1>2, <2>5 DEF Strange
  <2> QED BY <2>4, <2>5, <2>6
<1>5. CASE Board!ErrorComes(i)
  <2>1. answers[i].type = "ERROR" /\ busy' = FALSE /\ crossed' = (crossed \/ answers[i].foreign)
        /\ playing' \in {playing, <<>>} /\ shown' = shown
    BY <1>5 DEF Board!ErrorComes
  <2>2. crossed' \in BOOLEAN /\ playing' \in Seq(BetRow)
    <3>1. answers[i].foreign \in BOOLEAN
      BY <1>2, <2>1 DEF BoardFrame
    <3> QED BY <2>1, <3>1, EmptySeq DEF BoardTypes
  <2>3. BoardTypes'
    BY <1>1, <1>2, <1>3, <2>1, <2>2 DEF BoardTypes
  <2>4. ASSUME ~crossed' PROVE ~crossed /\ busy /\ sent = <<>> /\ playing = <<>> /\ Strange(answers', 0)
    BY <1>4, <2>1, <2>4
  <2>5. OneUnderWay'
    BY <1>1, <2>1, <2>4 DEF OneUnderWay, Strange
  <2>6. AnnouncedOK'
    BY <1>1, <2>1, <2>4 DEF AnnouncedOK
  <2> QED BY <2>3, <2>5, <2>6
<1>6. CASE ~Board!ErrorComes(i)
  <2> DEFINE b == answers[i].bet
             c == [b EXCEPT !.choice = controls]
  <2>1. /\ answers[i].type = "GAME_RESULT" /\ UNCHANGED <<busy, crossed>> /\ shown' \in {shown, Board!Nothing}
        /\ playing' \in {playing, <<>>, <<b>>, <<c>>, Append(playing, b)}
    BY <1>6 DEF Board!Comes, Board!DiceResult, Board!LimboResult, Board!CoinflipResult, Board!RouletteResult,
       Board!PlinkoResult, Board!KenoResult, Board!AviaResult, Board!SlotsResult,
         Board!Result, Board!Played
  <2>2. b \in BetRow /\ c \in BetRow
    BY <1>2, <2>1 DEF BoardFrame, BetRow, BoardTypes
  <2>3. b.choice = controls => c = b
    BY <2>2 DEF BetRow
  <2> HIDE DEF b, c
  <2>4. playing' \in Seq(BetRow)
    <3>1. <<b>> \in Seq(BetRow) /\ <<c>> \in Seq(BetRow) /\ <<>> \in Seq(BetRow)
            /\ Append(playing, b) \in Seq(BetRow)
      BY <2>2, AppendProperties, EmptySeq DEF BoardTypes
    <3> QED BY <2>1, <3>1 DEF BoardTypes
  <2>5. BoardTypes'
    BY <1>1, <1>2, <1>3, <2>1, <2>4 DEF BoardTypes
  <2>6. ASSUME ~crossed PROVE busy /\ sent = <<>> /\ playing = <<>> /\ IsLast(b) /\ c = b /\ Strange(answers', 0)
    BY <1>4, <2>1, <2>3, <2>6 DEF AnswerFits, IsLast, b
  <2>7. ~crossed => playing' = <<>> \/ (Len(playing') = 1 /\ playing'[1] = b)
    BY <2>1, <2>6
  <2>8. OneUnderWay'
    BY <1>1, <2>1, <2>6, <2>7 DEF OneUnderWay, Strange, IsLast
  <2>9. AnnouncedOK'
    BY <1>1, <2>1 DEF AnnouncedOK
  <2> QED BY <2>5, <2>8, <2>9
<1> QED BY <1>5, <1>6

\* A frame more on its way back.
LEMMA AnswerSent ==
  ASSUME BoardTypes, NEW f \in BoardFrame, answers' = Append(answers, f)
  PROVE  /\ answers' \in Seq(BoardFrame) /\ Len(answers) \in Nat /\ Len(answers') = Len(answers) + 1
         /\ answers'[Len(answers) + 1] = f /\ \A j \in 1..Len(answers) : answers'[j] = answers[j]
         /\ \A j \in 1..Len(answers') : j \in 1..Len(answers) \/ j = Len(answers) + 1
BY AppendProperties, LenProperties DEF BoardTypes

\* The server decides a bet, or refuses it.
LEMMA DecideStep == ASSUME BoardInv, NEW i \in 1..Len(sent), Board!Decide(i) PROVE BoardInv'
<1> USE DEF BoardInv
<1> DEFINE chosen == [n |-> Len(settled) + 1, choice |-> sent[i]]
<1>1. /\ sent' = Board!Without(sent, i) /\ UNCHANGED <<game, controls, busy, playing, shown, drops, crossed>>
      /\ \/ settled' = Append(settled, chosen)
              /\ answers' = Append(answers, [type |-> "GAME_RESULT", bet |-> chosen])
         \/ settled' = settled /\ answers' = Append(answers, [type |-> "ERROR", foreign |-> FALSE])
  BY DEF Board!Decide, Board!view
<1>2. sent \in Seq(Picks) /\ Len(sent) \in Nat /\ sent[i] \in Picks /\ Len(settled) \in Nat
        /\ settled \in Seq(BetRow)
  BY LenProperties, ElementOfSeq DEF BoardTypes
<1>3. sent' \in Seq(Picks) /\ Len(sent') = Len(sent) - 1
  BY <1>1, <1>2, Removal DEF Board!Without
<1>4. chosen \in BetRow /\ chosen.n = Len(settled) + 1 /\ chosen.choice = sent[i]
  BY <1>2 DEF BetRow
<1> HIDE DEF chosen
<1>5. PICK f \in BoardFrame :
        /\ answers' = Append(answers, f)
        /\ \/ f.type = "GAME_RESULT" /\ f.bet = chosen /\ settled' = Append(settled, chosen)
           \/ f.type = "ERROR" /\ ~f.foreign /\ settled' = settled
  <2>1. [type |-> "GAME_RESULT", bet |-> chosen] \in BoardFrame
          /\ [type |-> "ERROR", foreign |-> FALSE] \in BoardFrame
    BY <1>4 DEF BoardFrame
  <2> QED BY <1>1, <2>1
<1>6. /\ answers' \in Seq(BoardFrame) /\ Len(answers) \in Nat /\ Len(answers') = Len(answers) + 1
      /\ answers'[Len(answers) + 1] = f /\ \A j \in 1..Len(answers) : answers'[j] = answers[j]
      /\ \A j \in 1..Len(answers') : j \in 1..Len(answers) \/ j = Len(answers) + 1
  BY <1>5, AnswerSent
<1>7. /\ settled' \in Seq(BetRow) /\ \A k \in 1..Len(settled') : settled'[k].n = k
      /\ settled' = settled \/ (Len(settled') = Len(settled) + 1 /\ settled'[Len(settled) + 1] = chosen)
  <2>1. CASE settled' = settled
    BY <2>1 DEF BoardTypes
  <2>2. CASE settled' = Append(settled, chosen)
    <3>1. /\ settled' \in Seq(BetRow) /\ Len(settled') = Len(settled) + 1 /\ settled'[Len(settled) + 1] = chosen
          /\ \A k \in 1..Len(settled) : settled'[k] = settled[k]
      BY <1>2, <1>4, <2>2, AppendProperties
    <3>2. \A k \in 1..Len(settled') : k \in 1..Len(settled) \/ k = Len(settled) + 1
      BY <1>2, <3>1
    <3> QED BY <1>4, <3>1, <3>2 DEF BoardTypes
  <2> QED BY <1>5, <2>1, <2>2
<1>8. BoardTypes'
  <2>1. game = "SLOTS" => \A k \in 1..Len(answers') : answers'[k].type = "ERROR" => ~answers'[k].foreign
    BY <1>5, <1>6 DEF BoardTypes
  <2> QED BY <1>1, <1>3, <1>6, <1>7, <2>1 DEF BoardTypes
<1>9. ASSUME ~crossed PROVE busy /\ Len(sent) = 1 /\ sent[1] = controls /\ playing = <<>> /\ Strange(answers, 0)
  BY <1>2, <1>9, EmptySeq DEF OneUnderWay
<1>10. ASSUME ~crossed PROVE OneUnderWay'
  <2>1. sent' = <<>> /\ i = 1
    BY <1>2, <1>3, <1>9, <1>10, EmptySeq
  <2>2. PICK m \in Nat : m = Len(answers) + 1
    BY <1>6
  <2>3. AnswerFits(f)'
    BY <1>1, <1>2, <1>4, <1>5, <1>7, <1>9, <1>10, <2>1 DEF AnswerFits, IsLast
  <2>4. m \in 1..Len(answers') /\ answers'[m] = f /\ Strange(answers', m)
    BY <1>6, <1>9, <1>10, <2>2 DEF Strange
  <2>5. AnswerFits(answers[m])'
    BY <2>3, <2>4 DEF AnswerFits, IsLast
  <2>6. busy' /\ sent' = <<>> /\ playing' = <<>>
    BY <1>1, <1>9, <1>10, <2>1
  <2>7. \E k \in 1..Len(answers') : Strange(answers', k) /\ AnswerFits(answers[k])'
    BY <2>4, <2>5
  <2> QED BY <2>6, <2>7 DEF OneUnderWay
<1>11. AnnouncedOK'
  <2>1. \A k \in 1..Len(settled) : k \in 1..Len(settled') /\ settled'[k] = settled[k]
    <3>1. CASE settled' = settled
      BY <3>1
    <3>2. CASE settled' = Append(settled, chosen)
      BY <1>2, <1>4, <3>2, AppendProperties
    <3> QED BY <1>5, <3>1, <3>2
  <2> QED BY <1>1, <1>9, <2>1 DEF AnnouncedOK
<1>12. OneUnderWay'
  BY <1>1, <1>10 DEF OneUnderWay
<1> QED BY <1>8, <1>11, <1>12

\* An action of another page fails.
LEMMA StrangeStep == ASSUME BoardInv, Board!OtherFails PROVE BoardInv'
<1> USE DEF BoardInv
<1> DEFINE f == [type |-> "ERROR", foreign |-> TRUE]
<1>1. game # "SLOTS" /\ answers' = Append(answers, f)
        /\ UNCHANGED <<game, controls, busy, playing, shown, sent, settled, drops, crossed>>
  BY DEF Board!OtherFails, Board!view
<1>2. f \in BoardFrame /\ f.type = "ERROR" /\ f.foreign
  BY DEF BoardFrame
<1> HIDE DEF f
<1>3. /\ answers' \in Seq(BoardFrame) /\ Len(answers) \in Nat /\ Len(answers') = Len(answers) + 1
      /\ answers'[Len(answers) + 1] = f /\ \A j \in 1..Len(answers) : answers'[j] = answers[j]
      /\ \A j \in 1..Len(answers') : j \in 1..Len(answers) \/ j = Len(answers) + 1
  BY <1>1, <1>2, AnswerSent
<1>4. BoardTypes'
  BY <1>1, <1>3 DEF BoardTypes
<1>5. \A k \in 0..Len(answers) : Strange(answers, k) => Strange(answers', k)
  BY <1>2, <1>3 DEF Strange
<1>6. Strange(answers, 0) => Strange(answers', 0)
  BY <1>3, <1>5
<1>7. ASSUME NEW k \in 1..Len(answers), Strange(answers, k), AnswerFits(answers[k])
      PROVE  k \in 1..Len(answers') /\ Strange(answers', k) /\ AnswerFits(answers[k])'
  <2>1. k \in 1..Len(answers') /\ k \in 0..Len(answers) /\ answers'[k] = answers[k]
    BY <1>3
  <2> QED BY <1>1, <1>5, <1>7, <2>1 DEF AnswerFits, IsLast
<1>8. OneUnderWay'
  <2> SUFFICES ASSUME ~crossed PROVE OneUnderWay'
    BY <1>1 DEF OneUnderWay
  <2>1. CASE sent = <<>> /\ playing = <<>> /\ Strange(answers, 0)
    BY <1>1, <1>6, <2>1 DEF OneUnderWay
  <2>2. CASE busy /\ Len(sent) = 1 /\ sent[1] = controls /\ playing = <<>> /\ Strange(answers, 0)
    BY <1>1, <1>6, <2>2 DEF OneUnderWay
  <2>3. CASE /\ busy /\ sent = <<>> /\ playing = <<>>
             /\ \E k \in 1..Len(answers) : Strange(answers, k) /\ AnswerFits(answers[k])
    BY <1>1, <1>7, <2>3 DEF OneUnderWay
  <2>4. CASE busy /\ sent = <<>> /\ Strange(answers, 0) /\ Len(playing) = 1 /\ IsLast(playing[1])
    BY <1>1, <1>6, <2>4 DEF OneUnderWay, IsLast
  <2> QED BY <2>1, <2>2, <2>3, <2>4 DEF OneUnderWay
<1>9. AnnouncedOK'
  BY <1>1 DEF AnnouncedOK
<1> QED BY <1>4, <1>8, <1>9

\* A connection is lost with what was on its way.
LEMMA DropStep == ASSUME BoardInv, Board!Drop PROVE BoardInv'
<1> USE DEF BoardInv
<1>1. /\ sent \o answers # <<>> /\ sent' = <<>>
           /\ UNCHANGED <<game, controls, busy, playing, shown, settled, crossed>>
      /\ answers' = IF game = "SLOTS" THEN <<[type |-> "ERROR", foreign |-> FALSE]>> ELSE <<>>
  BY DEF Board!Drop, Board!view
<1>2. <<>> \in Seq(Picks) /\ <<>> \in Seq(BoardFrame)
        /\ <<[type |-> "ERROR", foreign |-> FALSE]>> \in Seq(BoardFrame)
  BY EmptySeq DEF BoardFrame
<1>3. BoardTypes'
  BY <1>1, <1>2 DEF BoardTypes
<1>4. ASSUME ~crossed PROVE OneUnderWay'
  <2>1. CASE game # "SLOTS"
    BY <1>1, <1>4, <2>1 DEF OneUnderWay, Strange, IsLast
  <2>2. CASE game = "SLOTS"
    <3>1. Strange(answers, 0) => answers = <<>>
      <4>1. answers \in Seq(BoardFrame) /\ Len(answers) \in Nat
        BY LenProperties DEF BoardTypes
      <4>2. Strange(answers, 0) => Len(answers) = 0
        BY <2>2, <4>1 DEF Strange, BoardTypes
      <4> QED BY <4>1, <4>2, EmptySeq
    <3>2. busy /\ playing = <<>>
      <4>1. CASE sent = <<>>
        <5>1. answers # <<>>
          BY <1>1, <4>1, <1>2
        <5> QED BY <1>4, <3>1, <4>1, <5>1, EmptySeq DEF OneUnderWay
      <4>2. CASE sent # <<>>
        BY <1>4, <4>2 DEF OneUnderWay
      <4> QED BY <4>1, <4>2
    <3>3. Len(answers') = 1 /\ answers'[1].type = "ERROR" /\ ~answers'[1].foreign /\ Strange(answers', 1)
      BY <1>1, <2>2 DEF Strange
    <3>4. 1 \in 1..Len(answers')
      BY <3>3
    <3> QED BY <1>1, <3>2, <3>3, <3>4 DEF OneUnderWay, AnswerFits
  <2> QED BY <2>1, <2>2
<1>5. OneUnderWay'
  BY <1>1, <1>4 DEF OneUnderWay
<1>6. AnnouncedOK'
  BY <1>1 DEF AnnouncedOK
<1> QED BY <1>3, <1>5, <1>6

\* Every step keeps the invariant.
LEMMA BoardStep == ASSUME Board!BoardsAssumption, BoardInv, Board!Next PROVE BoardInv'
BY PlaceStep, ChooseStep, BoardLandStep, ComeStep, DecideStep, StrangeStep, DropStep DEF Board!Next

\* What a board announces is the round it played.
LEMMA BoardHolds == ASSUME BoardInv PROVE Board!AnnouncesTheRound
BY DEF BoardInv, AnnouncedOK, Board!AnnouncesTheRound

-----------------------------------------------------------------------------
(* The fairness dialog *)

SeedSet == [player : Holders, pair : 1..MaxPairs, nonce : Nat]
ReadSet == [n : Nat, player : Holders, overtaken : BOOLEAN, step : {"asked", "answered"}, seed : SeedSet \cup {Fair!NoSeed}]
RotationSet == [step : {"idle", "asked"}, player : Holders \cup {Fair!Nobody}, old : Nat, new : Nat]
               \cup [step : {"answered"}, player : Holders, old : 1..MaxPairs, new : 1..MaxPairs]

FairTypes ==
  /\ pair \in [Holders -> 1..MaxPairs] /\ nonce \in [Holders -> [1..MaxPairs -> Nat]]
  /\ token \in Holders \cup {Fair!Nobody} /\ excused \in BOOLEAN
  /\ seed \in SeedSet \cup {Fair!NoSeed} /\ seedFrames \in Seq(SeedSet)
  /\ reads \subseteq ReadSet /\ reading \in Nat
  /\ \A r \in reads : r.step = "answered" => r.seed \in SeedSet
  /\ rotation \in RotationSet
  /\ openRound = Fair!NoRound \/ openRound \in [game : {"MINES", "CRASH", "CHICKEN"}, seed : SeedSet]

\* A seed the server has reached, and one whose bet it has seen.
Reached(s) == s.nonce <= nonce[s.player][s.pair]
Played(s) == s.nonce + 1 <= nonce[s.player][s.pair]
SeedsReached ==
  /\ seed # Fair!NoSeed => Reached(seed)
  /\ \A i \in 1..Len(seedFrames) : Played(seedFrames[i])
  /\ openRound # Fair!NoRound => Played(openRound.seed)
  /\ \A r \in reads : r.step = "answered" => Reached(r.seed)
  /\ \A p \in Holders, k \in 1..MaxPairs : k > pair[p] => nonce[p][k] = 0

After(s) == [s EXCEPT !.nonce = @ + 1]

\* What says the active pair: the last frame, the rotation's answer, or the seed shown or a read.
Told ==
  /\ token = Fair!Nobody => seed = Fair!NoSeed /\ seedFrames = <<>> /\ \A r \in reads : r.overtaken
  /\ rotation # Fair!NotRotating => rotation.player = token
  /\ \A r \in reads : ~r.overtaken => r.player = token
  /\ seedFrames # <<>> => After(seedFrames[Len(seedFrames)]) = Fair!Active(token) /\ rotation.step # "answered"
  /\ rotation.step = "answered" => Fair!Active(token) = [player |-> token, pair |-> rotation.new, nonce |-> 0]
  /\ token # Fair!Nobody /\ seedFrames = <<>> /\ rotation.step # "answered" =>
       /\ \A r \in reads : ~r.overtaken /\ r.step = "answered" => r.seed = Fair!Active(token)
       /\ seed = Fair!Active(token) \/ \E r \in reads : ~r.overtaken
FairInv == FairTypes /\ SeedsReached /\ Fair!RevealIsHonoured /\ (~excused => Told)

\* Every player starts on a first pair, and nothing is on screen.
LEMMA FairInit == ASSUME Fair!FairnessDialogAssumption, Fair!Init PROVE FairInv
<1> USE DEF Fair!Init
<1>1. 1 \in 1..MaxPairs /\ <<>> \in Seq(SeedSet)
  BY EmptySeq DEF Fair!FairnessDialogAssumption
<1>2. rotation \in RotationSet
  BY DEF RotationSet, Fair!NotRotating, Fair!NoPair
<1>3. FairTypes
  <2>1. nonce \in [Holders -> [1..MaxPairs -> Nat]] /\ pair \in [Holders -> 1..MaxPairs]
    BY <1>1
  <2>2. rotation.step # "answered" /\ reads = {} /\ openRound = Fair!NoRound
    BY DEF Fair!NotRotating
  <2> QED BY <1>1, <1>2, <2>1, <2>2 DEF FairTypes
<1>4. SeedsReached
  BY <1>1 DEF SeedsReached
<1>5. Fair!RevealIsHonoured
  BY DEF Fair!RevealIsHonoured
<1>6. Told
  BY DEF Told, Fair!NotRotating
<1> QED BY <1>3, <1>4, <1>5, <1>6 DEF FairInv

\* The active pair of a player is a seed.
LEMMA ActiveSeed ==
  ASSUME FairTypes, NEW p \in Holders
  PROVE  /\ Fair!Active(p) \in SeedSet /\ Fair!Active(p).player = p /\ Fair!Active(p).pair = pair[p]
              /\ pair[p] \in 1..MaxPairs
         /\ Fair!Active(p).nonce = nonce[p][pair[p]] /\ nonce[p][pair[p]] \in Nat /\ Reached(Fair!Active(p))
<1>1. pair[p] \in 1..MaxPairs /\ nonce[p][pair[p]] \in Nat
  BY DEF FairTypes
<1> QED BY <1>1 DEF Fair!Active, SeedSet, Reached

\* What a seed is made of, and the one after it.
LEMMA SeedFields ==
  ASSUME FairTypes, NEW s \in SeedSet
  PROVE  /\ s.player \in Holders /\ s.pair \in 1..MaxPairs /\ s.nonce \in Nat /\ nonce[s.player][s.pair] \in Nat
         /\ After(s) \in SeedSet /\ After(s).player = s.player /\ After(s).pair = s.pair
              /\ After(s).nonce = s.nonce + 1
         /\ Played(s) => Reached(After(s))
<1>1. s.player \in Holders /\ s.pair \in 1..MaxPairs /\ s.nonce \in Nat
  BY DEF SeedSet
<1>2. nonce[s.player][s.pair] \in Nat
  BY <1>1 DEF FairTypes
<1>3. After(s) \in SeedSet /\ After(s).player = s.player /\ After(s).pair = s.pair /\ After(s).nonce = s.nonce + 1
  BY <1>1 DEF After, SeedSet
<1> QED BY <1>1, <1>2, <1>3 DEF Played, Reached

\* A read that is overtaken keeps what it was answered.
LEMMA OvertakeOf ==
  ASSUME FairTypes, SeedsReached, NEW rest \in SUBSET reads
  PROVE  /\ Fair!Overtake(rest) \subseteq ReadSet
         /\ \A r \in Fair!Overtake(rest) : r.overtaken
              /\ (r.step = "answered" => r.seed \in SeedSet /\ Reached(r.seed))
<1> SUFFICES ASSUME NEW q \in rest, NEW r, r = [q EXCEPT !.overtaken = TRUE]
             PROVE  r \in ReadSet /\ r.overtaken /\ (r.step = "answered" => r.seed \in SeedSet /\ Reached(r.seed))
  BY DEF Fair!Overtake
<1>1. q \in ReadSet /\ (q.step = "answered" => q.seed \in SeedSet /\ Reached(q.seed))
  BY DEF FairTypes, SeedsReached
<1>2. r \in ReadSet /\ r.overtaken /\ r.step = q.step /\ r.seed = q.seed
  BY <1>1 DEF ReadSet
<1> QED BY <1>1, <1>2

\* A verdict given before.
LEMMA VerdictStays == ASSUME Fair!RevealIsHonoured, verifier' \in {Fair!Blank, verifier} PROVE Fair!RevealIsHonoured'
BY DEF Fair!RevealIsHonoured

\* The last of the frames, after one more.
LEMMA FrameSent ==
  ASSUME FairTypes, NEW s \in SeedSet, seedFrames' = Append(seedFrames, s)
  PROVE  /\ seedFrames' \in Seq(SeedSet) /\ seedFrames' # <<>> /\ seedFrames'[Len(seedFrames')] = s
         /\ \A i \in 1..Len(seedFrames') : seedFrames'[i] = s
              \/ \E j \in 1..Len(seedFrames) : seedFrames'[i] = seedFrames[j]
<1>1. Len(seedFrames) \in Nat
  BY LenProperties DEF FairTypes
<1>2. /\ seedFrames' \in Seq(SeedSet)
           /\ seedFrames' # <<>> /\ Len(seedFrames') = Len(seedFrames) + 1 /\ seedFrames'[Len(seedFrames) + 1] = s
      /\ \A i \in 1..Len(seedFrames) : seedFrames'[i] = seedFrames[i]
  BY AppendProperties DEF FairTypes
<1>3. \A i \in 1..Len(seedFrames') : i \in 1..Len(seedFrames) \/ i = Len(seedFrames) + 1
  BY <1>1, <1>2
<1> QED BY <1>2, <1>3

\* A bet consumes a nonce, and no seed is less reached for it.
LEMMA ConsumeOf ==
  ASSUME FairInv, Fair!Consume
  PROVE  /\ token \in Holders /\ pair' = pair /\ nonce' \in [Holders -> [1..MaxPairs -> Nat]]
         /\ \A s \in SeedSet : (Reached(s) => Reached(s)') /\ (Played(s) => Played(s)')
         /\ \A p \in Holders, k \in 1..MaxPairs : k > pair[p] => nonce'[p][k] = nonce[p][k]
         /\ token' = token => \A s \in SeedSet : s = Fair!Active(token) => After(s) = Fair!Active(token)'
              /\ Played(s)'
<1> USE DEF FairInv
<1>1. token \in Holders /\ pair' = pair /\ nonce' = [nonce EXCEPT ![token][pair[token]] = @ + 1]
  BY DEF Fair!Consume, FairTypes
<1>2. pair[token] \in 1..MaxPairs /\ nonce[token] \in [1..MaxPairs -> Nat]
        /\ nonce \in [Holders -> [1..MaxPairs -> Nat]]
  BY <1>1 DEF FairTypes
<1>3. nonce' = [nonce EXCEPT ![token] = [nonce[token] EXCEPT ![pair[token]] = nonce[token][pair[token]] + 1]]
  BY <1>1
<1>4. nonce' \in [Holders -> [1..MaxPairs -> Nat]]
  BY <1>1, <1>2, <1>3
<1>5. \A p \in Holders, k \in 1..MaxPairs :
        nonce'[p][k] = IF p = token /\ k = pair[token] THEN nonce[p][k] + 1 ELSE nonce[p][k]
  BY <1>1, <1>2, <1>3
<1>6. ASSUME NEW s \in SeedSet PROVE (Reached(s) => Reached(s)') /\ (Played(s) => Played(s)')
  <2>1. s.player \in Holders /\ s.pair \in 1..MaxPairs /\ s.nonce \in Nat /\ nonce[s.player][s.pair] \in Nat
    BY SeedFields
  <2>2. nonce'[s.player][s.pair] \in Nat /\ nonce'[s.player][s.pair] >= nonce[s.player][s.pair]
    BY <1>5, <2>1
  <2> QED BY <2>1, <2>2 DEF Reached, Played
<1>7. \A p \in Holders, k \in 1..MaxPairs : k > pair[p] => nonce'[p][k] = nonce[p][k]
  BY <1>1, <1>2, <1>5 DEF FairTypes
<1>8. nonce[token][pair[token]] \in Nat /\ nonce'[token][pair[token]] = nonce[token][pair[token]] + 1
  BY <1>1, <1>2, <1>5
<1>9. ASSUME token' = token, NEW s \in SeedSet, s = Fair!Active(token) PROVE After(s) = Fair!Active(token)'
               /\ Played(s)'
  <2>1. s = [player |-> token, pair |-> pair[token], nonce |-> nonce[token][pair[token]]]
    BY <1>9 DEF Fair!Active
  <2>2. Fair!Active(token)' = [player |-> token, pair |-> pair[token], nonce |-> nonce[token][pair[token]] + 1]
    BY <1>1, <1>8, <1>9 DEF Fair!Active
  <2>3. After(s) = [player |-> token, pair |-> pair[token], nonce |-> nonce[token][pair[token]] + 1]
    BY <2>1 DEF After
  <2>4. Played(s)'
    BY <1>1, <1>8, <2>1 DEF Played
  <2> QED BY <2>2, <2>3, <2>4
<1> QED BY <1>1, <1>4, <1>6, <1>7, <1>9

\* A bet whose frame tells of it.
LEMMA TellStep ==
  ASSUME FairInv, Fair!Consume, Fair!Tell, UNCHANGED <<token, rotation, seed, verifier, reads, reading>>,
         openRound' = openRound
           \/ (openRound'.game \in {"MINES", "CRASH", "CHICKEN"}
                 /\ openRound' = [game |-> openRound'.game, seed |-> Fair!Active(token)])
  PROVE  FairInv'
<1> USE DEF FairInv
<1>1. PICK s \in SeedSet : s = Fair!Active(token)
  BY ConsumeOf, ActiveSeed
<1>2. /\ token \in Holders /\ pair' = pair /\ nonce' \in [Holders -> [1..MaxPairs -> Nat]]
      /\ \A x \in SeedSet : (Reached(x) => Reached(x)') /\ (Played(x) => Played(x)')
      /\ \A p \in Holders, k \in 1..MaxPairs : k > pair[p] => nonce'[p][k] = nonce[p][k]
      /\ After(s) = Fair!Active(token)' /\ Played(s)'
  BY <1>1, ConsumeOf
<1>3. seedFrames' = Append(seedFrames, s) /\ excused' = (excused \/ rotation.step = "answered")
  BY <1>1 DEF Fair!Tell
<1>4. /\ seedFrames' \in Seq(SeedSet) /\ seedFrames' # <<>> /\ seedFrames'[Len(seedFrames')] = s
      /\ \A i \in 1..Len(seedFrames') : seedFrames'[i] = s
           \/ \E j \in 1..Len(seedFrames) : seedFrames'[i] = seedFrames[j]
  BY <1>3, FrameSent
<1>5. openRound' = Fair!NoRound \/ openRound' \in [game : {"MINES", "CRASH", "CHICKEN"}, seed : SeedSet]
  BY <1>1 DEF FairTypes
<1>6. FairTypes'
  BY <1>2, <1>3, <1>4, <1>5 DEF FairTypes
<1>7. SeedsReached'
  <2>1. ASSUME NEW i \in 1..Len(seedFrames') PROVE Played(seedFrames[i])'
    <3>1. \A j \in 1..Len(seedFrames) : seedFrames[j] \in SeedSet /\ Played(seedFrames[j])
      BY ElementOfSeq DEF FairTypes, SeedsReached
    <3>2. PICK x \in SeedSet : x = seedFrames'[i] /\ Played(x)'
      BY <1>2, <1>4, <3>1
    <3> QED BY <3>2 DEF Played
  <2>2. openRound' # Fair!NoRound => Played(openRound.seed)'
    <3>1. CASE openRound' = openRound
      <4>1. openRound # Fair!NoRound => openRound.seed \in SeedSet /\ Played(openRound.seed)
        BY DEF FairTypes, SeedsReached
      <4> QED BY <1>2, <3>1, <4>1 DEF Played
    <3>2. CASE openRound' = [game |-> openRound'.game, seed |-> Fair!Active(token)]
      <4>1. openRound'.seed = s
        BY <1>1, <3>2
      <4> QED BY <1>2, <4>1 DEF Played
    <3> QED BY <3>1, <3>2
  <2>3. \A r \in reads' : r.step = "answered" => Reached(r.seed)'
    BY <1>2 DEF FairTypes, SeedsReached
  <2>4. seed' # Fair!NoSeed => Reached(seed)'
    BY <1>2 DEF FairTypes, SeedsReached, Reached
  <2> QED BY <1>2, <2>1, <2>2, <2>3, <2>4 DEF SeedsReached
<1>8. Fair!RevealIsHonoured'
  BY VerdictStays
<1>9. ASSUME ~excused' PROVE Told'
  <2>1. Told /\ rotation.step # "answered"
    BY <1>3, <1>9
  <2>2. token # Fair!Nobody \/ token' = token
    OBVIOUS
  <2>3. token = Fair!Nobody => FALSE
    BY <1>2, <2>1, <1>1 DEF Told, Fair!Consume
  <2>4. After(seedFrames'[Len(seedFrames')]) = Fair!Active(token)'
    BY <1>2, <1>4
  <2> QED BY <1>4, <2>1, <2>3, <2>4 DEF Told
<1> QED BY <1>6, <1>7, <1>8, <1>9

\* A bet of another tab, or of the slots.
LEMMA ElsewhereStep == ASSUME FairInv, Fair!Elsewhere PROVE FairInv'
<1> USE DEF FairInv
<1>1. Fair!Consume /\ excused' = TRUE
        /\ UNCHANGED <<openRound, seedFrames, token, rotation, seed, verifier, reads, reading>>
  BY DEF Fair!Elsewhere, Fair!page, Fair!shown, Fair!requests, Fair!counts
<1>2. /\ token \in Holders /\ pair' = pair /\ nonce' \in [Holders -> [1..MaxPairs -> Nat]]
      /\ \A x \in SeedSet : (Reached(x) => Reached(x)') /\ (Played(x) => Played(x)')
      /\ \A p \in Holders, k \in 1..MaxPairs : k > pair[p] => nonce'[p][k] = nonce[p][k]
  BY <1>1, ConsumeOf
<1>3. FairTypes'
  BY <1>1, <1>2 DEF FairTypes
<1>4. SeedsReached'
  <2>1. \A j \in 1..Len(seedFrames) : seedFrames[j] \in SeedSet /\ Played(seedFrames[j])
    BY ElementOfSeq DEF FairTypes, SeedsReached
  <2>2. \A j \in 1..Len(seedFrames) : Played(seedFrames[j])'
    BY <1>1, <1>2, <2>1 DEF Played
  <2>3. openRound' # Fair!NoRound => Played(openRound.seed)'
    BY <1>1, <1>2 DEF FairTypes, SeedsReached, Played
  <2>4. \A r \in reads' : r.step = "answered" => Reached(r.seed)'
    BY <1>1, <1>2 DEF FairTypes, SeedsReached
  <2>5. seed' # Fair!NoSeed => Reached(seed)'
    BY <1>1, <1>2 DEF FairTypes, SeedsReached, Reached
  <2> QED BY <1>1, <1>2, <2>2, <2>3, <2>4, <2>5 DEF SeedsReached
<1> QED BY <1>1, <1>3, <1>4, VerdictStays

\* Nothing the seeds are reached for changes but the frames.
LEMMA FairResumeStep == ASSUME Fair!FairnessDialogAssumption, FairInv, Fair!Resume PROVE FairInv'
<1> USE DEF FairInv
<1>1. /\ openRound.game \in {"CRASH", "CHICKEN"} /\ token = openRound.seed.player
           /\ seedFrames' = Append(seedFrames, openRound.seed)
      /\ excused' = (excused \/ [openRound.seed EXCEPT !.nonce = @ + 1] # Fair!Active(token))
      /\ UNCHANGED <<pair, nonce, openRound, token, rotation, seed, verifier, reads, reading>>
  BY DEF Fair!Resume, Fair!server, Fair!page, Fair!shown, Fair!requests, Fair!counts
<1>2. PICK s \in SeedSet : s = openRound.seed
  BY <1>1 DEF FairTypes, Fair!NoRound
<1>3. Played(s) /\ token \in Holders /\ excused' = (excused \/ After(s) # Fair!Active(token))
  BY <1>1, <1>2 DEF SeedsReached, SeedSet, Fair!NoRound, After
<1>4. /\ seedFrames' \in Seq(SeedSet) /\ seedFrames' # <<>> /\ seedFrames'[Len(seedFrames')] = s
      /\ \A i \in 1..Len(seedFrames') : seedFrames'[i] = s
           \/ \E j \in 1..Len(seedFrames) : seedFrames'[i] = seedFrames[j]
  BY <1>1, <1>2, FrameSent
<1>5. FairTypes'
  BY <1>1, <1>3, <1>4 DEF FairTypes
<1>6. \A x : (Played(x)' <=> Played(x)) /\ (Reached(x)' <=> Reached(x)) /\ Fair!Active(x)' = Fair!Active(x)
  BY <1>1 DEF Played, Reached, Fair!Active
<1>7. SeedsReached'
  <2>1. \A i \in 1..Len(seedFrames') : Played(seedFrames'[i])
    BY <1>3, <1>4 DEF SeedsReached
  <2> QED BY <1>1, <2>1 DEF SeedsReached, Played, Reached
<1>8. ASSUME ~excused' PROVE Told'
  <2>1. Told /\ After(s) = Fair!Active(token)
    BY <1>3, <1>8
  <2>2. rotation.step # "answered"
    <3>1. s.nonce \in Nat /\ After(s).nonce = s.nonce + 1
      BY SeedFields
    <3>2. Fair!Active(token).nonce # 0
      BY <2>1, <3>1
    <3> QED BY <2>1, <3>2 DEF Told
  <2>3. token # Fair!Nobody
    BY <1>3 DEF Fair!FairnessDialogAssumption
  <2>4. After(seedFrames'[Len(seedFrames')]) = Fair!Active(token)'
    BY <1>1, <1>4, <2>1, <1>6
  <2> QED BY <1>1, <1>4, <2>1, <2>2, <2>3, <2>4 DEF Told
<1> QED BY <1>1, <1>5, <1>7, <1>8, VerdictStays

\* The seed shown is written: what was read before is overtaken.
LEMMA ApplyOf ==
  ASSUME FairInv, NEW next, NEW rest \in SUBSET reads, Fair!ApplySeed(next, rest)
  PROVE  /\ seed' = next /\ Fair!RevealIsHonoured' /\ reads' \subseteq ReadSet
         /\ \A r \in reads' : r.overtaken /\ (r.step = "answered" => r.seed \in SeedSet /\ Reached(r.seed))
<1>1. verifier' \in {Fair!Blank, verifier}
  BY DEF Fair!ApplySeed, Fair!Reset
<1> QED BY <1>1, VerdictStays, OvertakeOf DEF Fair!ApplySeed, FairInv

\* The frame of a bet sets the seed of the dialog.
LEMMA CaptureStep == ASSUME FairInv, Fair!Capture PROVE FairInv'
<1> USE DEF FairInv
<1>1. /\ seedFrames # <<>> /\ seedFrames' = Tail(seedFrames) /\ Fair!ApplySeed(After(Head(seedFrames)), reads)
      /\ UNCHANGED <<pair, nonce, openRound, token, rotation, reading, excused>>
  BY DEF Fair!Capture, After, Fair!server, Fair!page, Fair!counts
<1> DEFINE h == Head(seedFrames)
<1>2. /\ h \in SeedSet /\ h = seedFrames[1] /\ seedFrames' \in Seq(SeedSet)
           /\ Len(seedFrames') = Len(seedFrames) - 1
      /\ Len(seedFrames) \in Nat \ {0} /\ \A i \in 1..Len(seedFrames') : seedFrames'[i] = seedFrames[i + 1]
  BY <1>1, HeadTailProperties, EmptySeq DEF FairTypes
<1>3. Played(h)
  BY <1>2 DEF SeedsReached
<1> HIDE DEF h
<1>4. After(h) \in SeedSet /\ Reached(After(h))
  BY <1>2, <1>3, SeedFields
<1>5. /\ seed' = After(h) /\ Fair!RevealIsHonoured' /\ reads' \subseteq ReadSet
      /\ \A r \in reads' : r.overtaken /\ (r.step = "answered" => r.seed \in SeedSet /\ Reached(r.seed))
  BY <1>1, ApplyOf DEF h
<1>6. FairTypes'
  BY <1>1, <1>2, <1>4, <1>5 DEF FairTypes
<1>7. SeedsReached'
  <2>1. \A i \in 1..Len(seedFrames') : Played(seedFrames'[i])
    <3>1. \A i \in 1..Len(seedFrames') : i + 1 \in 1..Len(seedFrames)
      BY <1>2
    <3> QED BY <1>2, <3>1 DEF SeedsReached
  <2> QED BY <1>1, <1>4, <1>5, <2>1 DEF SeedsReached, Played, Reached
<1>8. ASSUME ~excused' PROVE Told'
  <2>1. Told /\ Fair!Active(token)' = Fair!Active(token)
    BY <1>1, <1>8 DEF Fair!Active
  <2>2. token # Fair!Nobody
    BY <1>1, <2>1 DEF Told
  <2>3. CASE seedFrames' = <<>>
    <3>1. Len(seedFrames) = 1
      BY <1>2, <2>3, EmptySeq
    <3>2. After(h) = Fair!Active(token) /\ rotation.step # "answered"
      BY <1>1, <1>2, <2>1, <3>1 DEF Told
    <3> QED BY <1>1, <1>5, <2>1, <2>2, <2>3, <3>2 DEF Told
  <2>4. CASE seedFrames' # <<>>
    <3>1. Len(seedFrames') \in Nat \ {0}
      BY <1>2, <2>4, EmptySeq
    <3>2. seedFrames'[Len(seedFrames')] = seedFrames[Len(seedFrames)]
      BY <1>2, <3>1
    <3> QED BY <1>1, <1>5, <2>1, <2>2, <2>4, <3>2 DEF Told
  <2> QED BY <2>3, <2>4
<1> QED BY <1>5, <1>6, <1>7, <1>8

\* Steps about the reads alone.
LEMMA ServeReadStep == ASSUME FairInv, NEW r \in reads, Fair!ServeRead(r) PROVE FairInv'
<1> USE DEF FairInv
<1> DEFINE q == [r EXCEPT !.step = "answered", !.seed = Fair!Active(r.player)]
<1>1. /\ r.step = "asked" /\ reads' = (reads \ {r}) \cup {q}
      /\ UNCHANGED <<pair, nonce, openRound, seedFrames, token, rotation, seed, verifier, reading, excused>>
  BY DEF Fair!ServeRead, Fair!server, Fair!page, Fair!shown
<1>2. r \in ReadSet /\ r.player \in Holders
  BY DEF FairTypes, ReadSet
<1>3. Fair!Active(r.player) \in SeedSet /\ Reached(Fair!Active(r.player))
  BY <1>2, ActiveSeed
<1>4. /\ q \in ReadSet /\ q.step = "answered" /\ q.seed = Fair!Active(r.player) /\ q.player = r.player
      /\ q.overtaken = r.overtaken
  BY <1>2, <1>3 DEF ReadSet
<1> HIDE DEF q
<1>5. FairTypes'
  BY <1>1, <1>3, <1>4 DEF FairTypes
<1>6. SeedsReached'
  <2>1. \A x \in reads' : x.step = "answered" => Reached(x.seed)
    BY <1>1, <1>3, <1>4 DEF SeedsReached
  <2> QED BY <1>1, <2>1 DEF SeedsReached, Played, Reached
<1>7. ASSUME ~excused' PROVE Told'
  <2>1. Told /\ Fair!Active(token)' = Fair!Active(token)
    BY <1>1, <1>7 DEF Fair!Active
  <2>2. ~q.overtaken => q.player = token /\ q.seed = Fair!Active(token)
    BY <1>4, <2>1 DEF Told
  <2>3. (\E x \in reads : ~x.overtaken) => \E x \in reads' : ~x.overtaken
    BY <1>1, <1>4
  <2>4. \A x \in reads' : x \in reads \/ x = q
    BY <1>1
  <2>5. token = Fair!Nobody => q.overtaken
    BY <1>4, <2>1 DEF Told
  <2> QED BY <1>1, <2>1, <2>2, <2>3, <2>4, <2>5 DEF Told
<1> QED BY <1>1, <1>5, <1>6, <1>7, VerdictStays

\* A read of the seed fails.
LEMMA ReadFailsStep == ASSUME FairInv, NEW r \in reads, Fair!ReadFails(r) PROVE FairInv'
<1> USE DEF FairInv
<1>1. /\ reads' = reads \ {r} /\ excused' = TRUE
      /\ UNCHANGED <<pair, nonce, openRound, seedFrames, token, rotation, seed, verifier, reading>>
  BY DEF Fair!ReadFails, Fair!server, Fair!page, Fair!shown
<1>2. FairTypes'
  BY <1>1 DEF FairTypes
<1>3. SeedsReached'
  BY <1>1 DEF SeedsReached, Played, Reached
<1> QED BY <1>1, <1>2, <1>3, VerdictStays

\* The answer of a read is taken, unless something newer came in between.
LEMMA TakeReadStep == ASSUME FairInv, NEW r \in reads, Fair!TakeRead(r) PROVE FairInv'
<1> USE DEF FairInv
<1>1. r.step = "answered" /\ UNCHANGED <<pair, nonce, openRound, seedFrames, token, rotation, reading, excused>>
  BY DEF Fair!TakeRead, Fair!server, Fair!page
<1>2. CASE r.overtaken
  <2>1. reads' = reads \ {r} /\ UNCHANGED <<seed, verifier>>
    BY <1>2 DEF Fair!TakeRead, Fair!shown
  <2>2. FairTypes'
    BY <1>1, <2>1 DEF FairTypes
  <2>3. SeedsReached'
    BY <1>1, <2>1 DEF SeedsReached, Played, Reached
  <2>4. ASSUME ~excused' PROVE Told'
    <3>1. Told /\ Fair!Active(token)' = Fair!Active(token)
      BY <1>1, <2>4 DEF Fair!Active
    <3>2. (\E x \in reads : ~x.overtaken) => \E x \in reads' : ~x.overtaken
      BY <1>2, <2>1
    <3> QED BY <1>1, <2>1, <3>1, <3>2 DEF Told
  <2> QED BY <2>1, <2>2, <2>3, <2>4, VerdictStays
<1>3. CASE ~r.overtaken
  <2>1. Fair!ApplySeed(r.seed, reads \ {r})
    BY <1>3 DEF Fair!TakeRead
  <2>2. r.seed \in SeedSet /\ Reached(r.seed)
    BY <1>1 DEF FairTypes, SeedsReached
  <2>3. /\ seed' = r.seed /\ Fair!RevealIsHonoured' /\ reads' \subseteq ReadSet
        /\ \A x \in reads' : x.overtaken /\ (x.step = "answered" => x.seed \in SeedSet /\ Reached(x.seed))
    BY <2>1, ApplyOf
  <2>4. FairTypes'
    BY <1>1, <2>2, <2>3 DEF FairTypes
  <2>5. SeedsReached'
    BY <1>1, <2>2, <2>3 DEF SeedsReached, Played, Reached
  <2>6. ASSUME ~excused' PROVE Told'
    <3>1. Told /\ Fair!Active(token)' = Fair!Active(token)
      BY <1>1, <2>6 DEF Fair!Active
    <3>2. token # Fair!Nobody
      BY <1>3, <3>1 DEF Told
    <3> QED BY <1>1, <1>3, <2>3, <3>1, <3>2 DEF Told
  <2> QED BY <2>3, <2>4, <2>5, <2>6
<1> QED BY <1>2, <1>3

\* Some reads more.
LEMMA ReadsAsked ==
  ASSUME FairInv, NEW who \in Holders, NEW times \in 1..2, Fair!RefreshSeed(who, times)
  PROVE  /\ reads' \subseteq ReadSet /\ reading' \in Nat /\ reads \subseteq reads'
         /\ \A r \in reads' : r \in reads \/ (r.step = "asked" /\ ~r.overtaken /\ r.player = who)
         /\ \E r \in reads' : r.step = "asked" /\ ~r.overtaken /\ r.player = who
<1> DEFINE q(i) == [n |-> reading + i, player |-> who, overtaken |-> FALSE, step |-> "asked", seed |-> Fair!NoSeed]
<1>1. reads' = reads \cup {q(i) : i \in 1..times} /\ reading' = reading + times /\ reading \in Nat
  BY DEF Fair!RefreshSeed, FairInv, FairTypes
<1>2. \A i \in 1..times : q(i) \in ReadSet /\ q(i).step = "asked" /\ ~q(i).overtaken /\ q(i).player = who
  BY <1>1 DEF ReadSet
<1>3. reads \subseteq ReadSet /\ 1 \in 1..times
  BY DEF FairInv, FairTypes
<1> HIDE DEF q
<1> QED BY <1>1, <1>2, <1>3

\* A player logs in or out: what was shown and asked for is the last one's.
LEMMA TokenStep ==
  ASSUME Fair!FairnessDialogAssumption, FairInv, NEW who \in Holders \cup {Fair!Nobody}, Fair!TokenIs(who)
  PROVE  FairInv'
<1> USE DEF FairInv
<1>1. /\ who # token /\ token' = who
           /\ seedFrames' = <<>> /\ openRound' = Fair!NoRound /\ UNCHANGED <<pair, nonce, rotation>>
      /\ excused' = (excused \/ rotation # Fair!NotRotating \/ (who # Fair!Nobody /\ reads # {}
           /\ token # Fair!Nobody))
  BY DEF Fair!TokenIs
<1>2. seedFrames' \in Seq(SeedSet) /\ Len(seedFrames') = 0
  BY <1>1, EmptySeq
<1>3. excused' \in BOOLEAN
  BY <1>1 DEF FairTypes
<1>4. CASE who = Fair!Nobody
  <2>1. Fair!ApplySeed(Fair!NoSeed, reads) /\ reading' = reading
    BY <1>4 DEF Fair!TokenIs, Fair!counts
  <2>2. /\ seed' = Fair!NoSeed /\ Fair!RevealIsHonoured' /\ reads' \subseteq ReadSet
        /\ \A x \in reads' : x.overtaken /\ (x.step = "answered" => x.seed \in SeedSet /\ Reached(x.seed))
    BY <2>1, ApplyOf
  <2>3. FairTypes'
    BY <1>1, <1>2, <1>3, <2>1, <2>2 DEF FairTypes
  <2>4. SeedsReached'
    BY <1>1, <1>2, <2>2 DEF SeedsReached, Played, Reached
  <2>5. ASSUME ~excused' PROVE Told'
    <3>1. rotation = Fair!NotRotating
      BY <1>1, <2>5
    <3>2. rotation' = Fair!NotRotating /\ Fair!NotRotating.step = "idle"
      BY <1>1, <3>1 DEF Fair!NotRotating
    <3> QED BY <1>1, <1>4, <2>2, <3>2 DEF Told
  <2> QED BY <2>2, <2>3, <2>4, <2>5
<1>5. CASE who # Fair!Nobody
  <2>1. Fair!RefreshSeed(who, Fair!Effects)
          /\ UNCHANGED <<seed, verifier>> /\ Fair!Effects \in 1..2 /\ who \in Holders
    BY <1>5 DEF Fair!TokenIs, Fair!shown, Fair!Effects
  <2>2. /\ reads' \subseteq ReadSet /\ reading' \in Nat
        /\ \A r \in reads' : r \in reads \/ (r.step = "asked" /\ ~r.overtaken /\ r.player = who)
        /\ \E r \in reads' : r.step = "asked" /\ ~r.overtaken /\ r.player = who
    BY <2>1, ReadsAsked
  <2>3. FairTypes'
    BY <1>1, <1>2, <1>3, <2>1, <2>2 DEF FairTypes
  <2>4. SeedsReached'
    <3>1. \A r \in reads' : r.step = "answered" => Reached(r.seed)
      BY <2>2 DEF SeedsReached
    <3> QED BY <1>1, <1>2, <2>1, <3>1 DEF SeedsReached, Played, Reached
  <2>5. ASSUME ~excused' PROVE Told'
    <3>1. Told /\ rotation = Fair!NotRotating /\ (reads = {} \/ token = Fair!Nobody)
      BY <1>1, <1>5, <2>5
    <3>2. \A r \in reads : r.overtaken
      BY <3>1 DEF Told
    <3> QED BY <1>1, <1>5, <2>2, <3>1, <3>2 DEF Told, Fair!NotRotating
  <2> QED BY <2>1, <2>3, <2>4, <2>5, VerdictStays
<1> QED BY <1>4, <1>5

\* Steps that leave the seeds, the frames and the reads alone.
LEMMA RestStep ==
  ASSUME FairInv, UNCHANGED <<pair, nonce, seedFrames, token, seed, reads, reading>>, Fair!RevealIsHonoured',
         openRound' \in {Fair!NoRound, openRound}, rotation' \in RotationSet, excused' \in BOOLEAN,
         excused \/ rotation'.step # "answered" \/ rotation' = rotation,
         ~excused' => ~excused /\ (rotation' # Fair!NotRotating => rotation'.player = token)
           /\ (rotation.step = "answered" => rotation' = rotation)
  PROVE  FairInv'
<1> USE DEF FairInv
<1>1. FairTypes'
  BY DEF FairTypes
<1>2. SeedsReached'
  BY DEF SeedsReached, Played, Reached
<1>3. ASSUME ~excused' PROVE Told'
  <2>1. Told /\ Fair!Active(token)' = Fair!Active(token)
    BY <1>3 DEF Fair!Active
  <2>2. (rotation'.step = "answered") = (rotation.step = "answered")
          /\ (rotation.step = "answered" => rotation' = rotation)
    BY <1>3
  <2> QED BY <1>3, <2>1, <2>2 DEF Told
<1> QED BY <1>1, <1>2, <1>3

\* The round on screen ends.
LEMMA CloseRoundStep == ASSUME FairInv, Fair!CloseRound PROVE FairInv'
<1>1. UNCHANGED <<pair, nonce, seedFrames, token, rotation, seed, verifier, reads, reading, excused>>
        /\ openRound' = Fair!NoRound
  BY DEF Fair!CloseRound, Fair!page, Fair!shown, Fair!requests, Fair!counts
<1>2. Fair!RevealIsHonoured' /\ rotation \in RotationSet /\ excused \in BOOLEAN /\ (~excused => Told)
  BY <1>1, VerdictStays DEF FairInv, FairTypes
<1> QED BY <1>1, <1>2, RestStep DEF Told

\* The dialog opens, and reads the seed.
LEMMA OpenStep == ASSUME Fair!FairnessDialogAssumption, FairInv, Fair!OpenDialog PROVE FairInv'
<1> USE DEF FairInv
<1>1. UNCHANGED <<pair, nonce, openRound, seedFrames, token, rotation, seed, excused>> /\ verifier' = Fair!Blank
  BY DEF Fair!OpenDialog, Fair!server
<1>2. Fair!RevealIsHonoured'
  BY <1>1, VerdictStays
<1>3. CASE token = Fair!Nobody
  <2>1. UNCHANGED <<reads, reading>>
    BY <1>3 DEF Fair!OpenDialog, Fair!requests, Fair!counts
  <2>2. rotation \in RotationSet /\ excused \in BOOLEAN /\ (~excused => Told)
    BY DEF FairTypes
  <2> QED BY <1>1, <1>2, <2>1, <2>2, RestStep DEF Told
<1>4. CASE token # Fair!Nobody
  <2>1. Fair!RefreshSeed(token, 1) /\ token \in Holders
    BY <1>4 DEF Fair!OpenDialog, FairTypes
  <2>2. /\ reads' \subseteq ReadSet /\ reading' \in Nat /\ reads \subseteq reads'
        /\ \A r \in reads' : r \in reads \/ (r.step = "asked" /\ ~r.overtaken /\ r.player = token)
    BY <2>1, ReadsAsked
  <2>3. FairTypes'
    BY <1>1, <2>2 DEF FairTypes
  <2>4. SeedsReached'
    <3>1. \A r \in reads' : r.step = "answered" => Reached(r.seed)
      BY <2>2 DEF SeedsReached
    <3> QED BY <1>1, <3>1 DEF SeedsReached, Played, Reached
  <2>5. ASSUME ~excused' PROVE Told'
    <3>1. Told /\ Fair!Active(token)' = Fair!Active(token)
      BY <1>1, <2>5 DEF Fair!Active
    <3>2. (\E x \in reads : ~x.overtaken) => \E x \in reads' : ~x.overtaken
      BY <2>2
    <3> QED BY <1>1, <1>4, <2>2, <3>1, <3>2 DEF Told
  <2> QED BY <1>2, <2>3, <2>4, <2>5
<1> QED BY <1>3, <1>4

\* The dialog closes.
LEMMA FairCloseStep == ASSUME FairInv, Fair!CloseDialog PROVE FairInv'
<1>1. UNCHANGED <<pair, nonce, openRound, seedFrames, token, rotation, seed, verifier, reads, reading, excused>>
  BY DEF Fair!CloseDialog, Fair!server, Fair!shown, Fair!requests, Fair!counts
<1>2. Fair!RevealIsHonoured' /\ rotation \in RotationSet /\ excused \in BOOLEAN /\ (~excused => Told)
  BY <1>1, VerdictStays DEF FairInv, FairTypes
<1> QED BY <1>1, <1>2, RestStep DEF Told

\* The three steps of a rotation.
LEMMA RotateStep == ASSUME FairInv, Fair!Rotate PROVE FairInv'
<1>1. /\ UNCHANGED <<pair, nonce, openRound, seedFrames, token, seed, verifier, reads, reading, excused>>
           /\ rotation = Fair!NotRotating
      /\ rotation' = [Fair!NotRotating EXCEPT !.step = "asked", !.player = token]
  BY DEF Fair!Rotate, Fair!server, Fair!shown, Fair!requests, Fair!counts
<1>2. rotation' = [step |-> "asked", player |-> token, old |-> Fair!NoPair, new |-> Fair!NoPair]
        /\ rotation.step # "answered"
  BY <1>1 DEF Fair!NotRotating
<1>3. token \in Holders \cup {Fair!Nobody} /\ Fair!RevealIsHonoured' /\ excused \in BOOLEAN
  BY <1>1, VerdictStays DEF FairInv, FairTypes
<1>4. rotation' \in RotationSet /\ rotation'.player = token /\ rotation'.step # "answered"
  BY <1>2, <1>3 DEF RotationSet, Fair!NoPair
<1> QED BY <1>1, <1>2, <1>3, <1>4, RestStep

\* A rotation fails, and the pair stays.
LEMMA RotationFailsStep == ASSUME Fair!FairnessDialogAssumption, FairInv, Fair!RotationFails PROVE FairInv'
<1>1. /\ UNCHANGED <<pair, nonce, openRound, seedFrames, token, seed, verifier, reads, reading>>
           /\ rotation' = Fair!NotRotating
      /\ excused' = (excused \/ rotation.step = "answered")
  BY DEF Fair!RotationFails, Fair!server, Fair!shown, Fair!requests, Fair!counts
<1>2. rotation' \in RotationSet /\ rotation'.step # "answered" /\ Fair!RevealIsHonoured' /\ excused' \in BOOLEAN
  BY <1>1, VerdictStays DEF FairInv, FairTypes, Fair!NotRotating, RotationSet, Fair!NoPair
<1> QED BY <1>1, <1>2, RestStep

\* The server reveals the pair and starts the next one.
LEMMA ServeRotationStep == ASSUME Fair!FairnessDialogAssumption, FairInv, Fair!ServeRotation PROVE FairInv'
<1> USE DEF FairInv
<1> DEFINE p == rotation.player
<1>1. /\ rotation.step = "asked" /\ Fair!MayRotate /\ pair[p] < MaxPairs /\ pair' = [pair EXCEPT ![p] = @ + 1]
      /\ rotation' = [rotation EXCEPT !.step = "answered", !.old = pair[p], !.new = pair[p] + 1]
      /\ excused' = (excused \/ seedFrames # <<>>)
           /\ UNCHANGED <<nonce, openRound, seedFrames, token, seed, verifier, reads, reading>>
  BY DEF Fair!ServeRotation, Fair!shown, Fair!requests, Fair!counts
<1>2. p \in Holders
        /\ rotation \in [step : {"idle", "asked"}, player : Holders \cup {Fair!Nobody}, old : Nat, new : Nat]
  BY <1>1 DEF FairTypes, RotationSet, Fair!MayRotate
<1>3. pair[p] \in 1..MaxPairs /\ pair[p] + 1 \in 1..MaxPairs /\ pair'[p] = pair[p] + 1
  BY <1>1, <1>2 DEF FairTypes, Fair!FairnessDialogAssumption
<1>4. rotation' = [step |-> "answered", player |-> p, old |-> pair[p], new |-> pair[p] + 1]
  BY <1>1, <1>2
<1>5. rotation' \in RotationSet /\ rotation'.player = p /\ rotation'.new = pair[p] + 1
        /\ rotation'.step = "answered"
  BY <1>2, <1>3, <1>4 DEF RotationSet
<1>6. nonce[p][pair[p] + 1] = 0
  BY <1>2, <1>3 DEF SeedsReached, FairTypes
<1>7. pair' \in [Holders -> 1..MaxPairs] /\ excused' \in BOOLEAN /\ \A x \in Holders : x # p => pair'[x] = pair[x]
  BY <1>1, <1>2, <1>3 DEF FairTypes
<1> HIDE DEF p
<1>8. FairTypes'
  BY <1>1, <1>5, <1>7 DEF FairTypes
<1>9. SeedsReached'
  <2>1. ASSUME NEW x \in Holders, NEW k \in 1..MaxPairs, k > pair'[x] PROVE nonce[x][k] = 0
    <3>1. pair[x] \in 1..MaxPairs /\ (pair'[x] = pair[x] \/ pair'[x] = pair[x] + 1)
      BY <1>2, <1>3, <1>7 DEF FairTypes
    <3>2. k > pair[x]
      BY <2>1, <3>1
    <3> QED BY <3>2 DEF SeedsReached
  <2> QED BY <1>1, <2>1 DEF SeedsReached, Played, Reached
<1>10. ASSUME ~excused' PROVE Told'
  <2>1. Told /\ seedFrames = <<>>
    BY <1>1, <1>10
  <2>2. p = token
    BY <1>1, <2>1 DEF Told, Fair!NotRotating, p
  <2>3. Fair!Active(token)' = [player |-> token, pair |-> pair[p] + 1, nonce |-> 0]
    BY <1>1, <1>3, <1>6, <2>2 DEF Fair!Active
  <2>4. token # Fair!Nobody
    BY <1>2, <2>2 DEF Fair!FairnessDialogAssumption
  <2> QED BY <1>1, <1>5, <2>1, <2>2, <2>3, <2>4 DEF Told
<1> QED BY <1>1, <1>8, <1>9, <1>10, VerdictStays

\* The page shows the pair a rotation revealed.
LEMMA TakeRotationStep == ASSUME Fair!FairnessDialogAssumption, FairInv, Fair!TakeRotation PROVE FairInv'
<1> USE DEF FairInv
<1> DEFINE next == [player |-> rotation.player, pair |-> rotation.new, nonce |-> 0]
<1>1. /\ rotation.step = "answered" /\ rotation' = Fair!NotRotating /\ Fair!ApplySeed(next, reads)
      /\ UNCHANGED <<pair, nonce, openRound, seedFrames, token, reading, excused>>
  BY DEF Fair!TakeRotation, Fair!server, Fair!counts
<1>2. rotation.player \in Holders /\ rotation.new \in 1..MaxPairs
  BY <1>1 DEF FairTypes, RotationSet
<1>3. next \in SeedSet /\ Reached(next)
  <2>1. nonce[rotation.player][rotation.new] \in Nat
    BY <1>2 DEF FairTypes
  <2> QED BY <1>2, <2>1 DEF SeedSet, Reached
<1> HIDE DEF next
<1>4. /\ seed' = next /\ Fair!RevealIsHonoured' /\ reads' \subseteq ReadSet
      /\ \A r \in reads' : r.overtaken /\ (r.step = "answered" => r.seed \in SeedSet /\ Reached(r.seed))
  BY <1>1, ApplyOf
<1>5. rotation' \in RotationSet /\ rotation'.step # "answered"
  BY <1>1 DEF RotationSet, Fair!NotRotating, Fair!NoPair
<1>6. FairTypes'
  BY <1>1, <1>3, <1>4, <1>5 DEF FairTypes
<1>7. SeedsReached'
  BY <1>1, <1>3, <1>4 DEF SeedsReached, Played, Reached
<1>8. ASSUME ~excused' PROVE Told'
  <2>1. Told /\ Fair!Active(token)' = Fair!Active(token)
    BY <1>1, <1>8 DEF Fair!Active
  <2>2. rotation.player = token /\ seedFrames = <<>> /\ next = Fair!Active(token) /\ token # Fair!Nobody
    BY <1>1, <1>2, <2>1 DEF Told, Fair!NotRotating, next, Fair!FairnessDialogAssumption
  <2> QED BY <1>1, <1>4, <1>5, <2>1, <2>2 DEF Told
<1> QED BY <1>4, <1>6, <1>7, <1>8

\* The seed a rotation revealed is compared with its own hash.
LEMMA VerifyStep == ASSUME Fair!FairnessDialogAssumption, FairInv, NEW k \in 1..MaxPairs, Fair!Verify(k) PROVE FairInv'
<1>1. /\ UNCHANGED <<pair, nonce, openRound, seedFrames, token, rotation, seed, reads, reading, excused>>
           /\ token # Fair!Nobody
      /\ verifier' = [pasted |-> <<token, k>>, beside |-> revealed,
                      verdict |-> IF Fair!Commitment = Fair!NoKey THEN "unknown"
                                  ELSE IF Fair!Commitment = <<token, k>> THEN "valid" ELSE "not valid"]
  BY DEF Fair!Verify, Fair!server, Fair!page, Fair!requests, Fair!counts
<1>2. <<token, k>> # Fair!NoKey
  BY <1>1 DEF Fair!NoKey
<1>3. revealed = <<token, k>> => Fair!Commitment = <<token, k>>
  BY <1>2 DEF Fair!Commitment
<1>4. Fair!RevealIsHonoured'
  <2>1. verifier'.pasted = verifier'.beside => verifier'.verdict = "valid"
    BY <1>1, <1>2, <1>3
  <2> QED BY <2>1 DEF Fair!RevealIsHonoured
<1>5. rotation \in RotationSet /\ excused \in BOOLEAN /\ (~excused => Told)
  BY DEF FairInv, FairTypes
<1> QED BY <1>1, <1>4, <1>5, RestStep DEF Told

\* Every step keeps the invariant.
LEMMA FairStep == ASSUME Fair!FairnessDialogAssumption, FairInv, Fair!Next PROVE FairInv'
<1>1. ASSUME Fair!Instant PROVE FairInv'
  BY <1>1, TellStep DEF Fair!Instant, Fair!page, Fair!shown, Fair!requests, Fair!counts
<1>2. ASSUME NEW kind \in {"MINES", "CRASH", "CHICKEN"}, Fair!OpenRound(kind) PROVE FairInv'
  <2>1. openRound' = [game |-> kind, seed |-> Fair!Active(token)] /\ Fair!Consume /\ Fair!Tell
        /\ UNCHANGED <<token, rotation, seed, verifier, reads, reading>>
    BY <1>2 DEF Fair!OpenRound, Fair!page, Fair!shown, Fair!requests, Fair!counts
  <2>2. openRound'.game = kind
    BY <2>1
  <2> QED BY <2>1, <2>2, TellStep
<1> QED BY <1>1, <1>2, ElsewhereStep, FairResumeStep, CaptureStep, ServeReadStep, ReadFailsStep, TakeReadStep,
           TokenStep,
           CloseRoundStep, OpenStep, FairCloseStep, RotateStep, RotationFailsStep, ServeRotationStep, TakeRotationStep,
           VerifyStep DEF Fair!Next

\* The seed on screen decides the next bet, and a revealed one is verified as what it was.
LEMMA FairHolds == ASSUME FairInv PROVE Fair!StaysCurrent /\ Fair!NeverAhead /\ Fair!RevealIsHonoured
<1> USE DEF FairInv
<1>1. Fair!NeverAhead
  BY DEF Fair!NeverAhead, SeedsReached, Reached
<1>2. Fair!StaysCurrent
  <2>1. Fair!NotRotating.step # "answered"
    BY DEF Fair!NotRotating
  <2> QED BY <2>1 DEF Fair!StaysCurrent, Told
<1> QED BY <1>1, <1>2

-----------------------------------------------------------------------------
(* The bet feed *)

FeedRow == [bet : Nat, live : BOOLEAN]
DetailRead == [n : Nat, bet : Nat, alive : BOOLEAN, step : {"asked", "answered"}, seed : BOOLEAN]

FeedTypes ==
  /\ bets \in Seq(Nat) /\ active \in Nat /\ unsaid \in SUBSET Nat /\ missed \in SUBSET Nat
  /\ betFrames \in Seq(Nat) /\ list \in Seq(FeedRow)
  /\ backfill \in [step : {"asked", "answered", "failed", "done"}, rows : Seq(Nat)]
  /\ fetches \in SUBSET DetailRead /\ fetched \in Nat

\* Every row names a bet there is, decided on a pair there was.
RowsAreBets ==
  /\ \A b \in 1..Len(bets) : bets[b] <= active
  /\ unsaid \subseteq 1..Len(bets) /\ Feed!Range(betFrames) \subseteq 1..Len(bets)
       /\ Feed!Range(backfill.rows) \subseteq 1..Len(bets)
  /\ \A row \in Feed!Range(list) : row.bet \in 1..Len(bets)
  /\ \A f \in fetches : f.bet \in 1..Len(bets)

\* The record asked for is that of the row that is open, and of one row at a time.
AskedForTheRow == \A f \in fetches : f.alive => f.bet = selected.bet

RowsComing == missed \cup unsaid \cup Feed!Range(betFrames) \cup Feed!Range(backfill.rows)
  \cup {row.bet : row \in Feed!Range(list)}
Complete ==
  /\ Len(list) <= MaxRows /\ (Len(list) = MaxRows \/ 1..Len(bets) \subseteq RowsComing)
  /\ backfill.step \in {"asked", "done"} => backfill.rows = <<>>
FeedInv == FeedTypes /\ RowsAreBets /\ AskedForTheRow /\ Feed!RecordIsOfThisBet /\ Feed!SealedWhileActive
  /\ Complete

\* The elements of sequences.
LEMMA ElementsAppended ==
  ASSUME NEW X, NEW s \in Seq(X), NEW e \in X
  PROVE  Append(s, e) \in Seq(X) /\ Len(Append(s, e)) = Len(s) + 1
           /\ Feed!Range(Append(s, e)) = Feed!Range(s) \cup {e}
<1>1. Len(s) \in Nat /\ DOMAIN s = 1..Len(s)
  BY LenProperties
<1>2. /\ Append(s, e) \in Seq(X) /\ Len(Append(s, e)) = Len(s) + 1 /\ Append(s, e)[Len(s) + 1] = e
      /\ \A i \in 1..Len(s) : Append(s, e)[i] = s[i]
  BY AppendProperties
<1>3. DOMAIN Append(s, e) = 1..Len(s) \cup {Len(s) + 1}
  BY <1>1, <1>2, LenProperties
<1> QED BY <1>1, <1>2, <1>3 DEF Feed!Range

\* The elements of a sequence without its first.
LEMMA ElementsOfTail ==
  ASSUME NEW X, NEW s \in Seq(X), s # <<>>
  PROVE  Head(s) \in X /\ Tail(s) \in Seq(X) /\ Feed!Range(s) = {Head(s)} \cup Feed!Range(Tail(s))
<1>1. Len(s) \in Nat \ {0} /\ DOMAIN s = 1..Len(s) /\ Head(s) = s[1]
  BY LenProperties, EmptySeq
<1>2. /\ Head(s) \in X /\ Tail(s) \in Seq(X) /\ Len(Tail(s)) = Len(s) - 1 /\ DOMAIN Tail(s) = 1..(Len(s) - 1)
      /\ \A i \in 1..(Len(s) - 1) : Tail(s)[i] = s[i + 1]
  BY HeadTailProperties, LenProperties
<1>3. \A i \in DOMAIN s : i = 1 \/ (i - 1 \in 1..(Len(s) - 1) /\ s[i] = Tail(s)[i - 1])
  <2> TAKE i \in DOMAIN s
  <2>1. i = 1 \/ (i - 1 \in 1..(Len(s) - 1) /\ (i - 1) + 1 = i)
    BY <1>1
  <2> QED BY <1>2, <2>1
<1>4. \A i \in 1..(Len(s) - 1) : i + 1 \in DOMAIN s
  BY <1>1
<1> DEFINE h == Head(s)
           t == Tail(s)
<1>5. /\ h = s[1] /\ h \in X /\ t \in Seq(X) /\ 1 \in DOMAIN s /\ DOMAIN t = 1..(Len(s) - 1)
      /\ \A i \in DOMAIN t : t[i] = s[i + 1] /\ i + 1 \in DOMAIN s
      /\ \A i \in DOMAIN s : i = 1 \/ (i - 1 \in DOMAIN t /\ s[i] = t[i - 1])
  BY <1>1, <1>2, <1>3, <1>4
<1> HIDE DEF h, t
<1>6. Feed!Range(s) = {h} \cup Feed!Range(t)
  <2>1. ASSUME NEW e \in Feed!Range(s) PROVE e = h \/ e \in Feed!Range(t)
    <3>1. PICK i \in DOMAIN s : e = s[i]
      BY DEF Feed!Range
    <3> QED BY <1>5, <3>1 DEF Feed!Range
  <2>2. ASSUME NEW e \in Feed!Range(t) PROVE e \in Feed!Range(s)
    <3>1. PICK i \in DOMAIN t : e = t[i]
      BY DEF Feed!Range
    <3> QED BY <1>5, <3>1 DEF Feed!Range
  <2>3. h \in Feed!Range(s)
    BY <1>5 DEF Feed!Range
  <2> QED BY <2>1, <2>2, <2>3
<1> QED BY <1>5, <1>6 DEF h, t

\* The elements of two sequences in a row.
LEMMA ElementsJoined ==
  ASSUME NEW X, NEW s \in Seq(X), NEW t \in Seq(X)
  PROVE  s \o t \in Seq(X) /\ Len(s \o t) = Len(s) + Len(t) /\ Feed!Range(s \o t) = Feed!Range(s) \cup Feed!Range(t)
<1>1. /\ Len(s) \in Nat /\ Len(t) \in Nat /\ DOMAIN s = 1..Len(s) /\ DOMAIN t = 1..Len(t)
  BY LenProperties
<1>2. /\ s \o t \in Seq(X) /\ Len(s \o t) = Len(s) + Len(t) /\ DOMAIN (s \o t) = 1..(Len(s) + Len(t))
      /\ \A i \in 1..(Len(s) + Len(t)) : (s \o t)[i] = IF i <= Len(s) THEN s[i] ELSE t[i - Len(s)]
  BY ConcatProperties, LenProperties
<1>3. \A i \in 1..Len(s) : i \in DOMAIN (s \o t) /\ (s \o t)[i] = s[i]
  BY <1>1, <1>2
<1>4. \A i \in 1..Len(t) : Len(s) + i \in DOMAIN (s \o t) /\ (s \o t)[Len(s) + i] = t[i]
  BY <1>1, <1>2
<1>5. \A i \in DOMAIN (s \o t) : i \in 1..Len(s) \/ \E k \in 1..Len(t) : i = Len(s) + k
  <2> TAKE i \in DOMAIN (s \o t)
  <2>1. i \in 1..Len(s) \/ (i - Len(s) \in 1..Len(t) /\ i = Len(s) + (i - Len(s)))
    BY <1>1, <1>2
  <2> QED BY <2>1
<1>6. Feed!Range(s \o t) \subseteq Feed!Range(s) \cup Feed!Range(t)
  <2> SUFFICES ASSUME NEW i \in DOMAIN (s \o t) PROVE (s \o t)[i] \in Feed!Range(s) \cup Feed!Range(t)
    BY DEF Feed!Range
  <2>1. CASE i \in 1..Len(s)
    BY <1>1, <1>3, <2>1 DEF Feed!Range
  <2>2. CASE \E k \in 1..Len(t) : i = Len(s) + k
    BY <1>1, <1>4, <2>2 DEF Feed!Range
  <2> QED BY <1>5, <2>1, <2>2
<1>7. Feed!Range(s) \subseteq Feed!Range(s \o t)
  BY <1>1, <1>3 DEF Feed!Range
<1>8. Feed!Range(t) \subseteq Feed!Range(s \o t)
  BY <1>1, <1>4 DEF Feed!Range
<1> QED BY <1>2, <1>6, <1>7, <1>8

\* The smaller of two numbers.
LEMMA Smaller ==
  ASSUME NEW k \in Nat, NEW m \in Nat
  PROVE  LET n == IF k < m THEN k ELSE m IN (k <= m => n = k) /\ (k >= m => n = m)
OBVIOUS

\* A cropped list is no longer than the feed, and invents nothing.
LEMMA ElementsKept ==
  ASSUME Feed!BetFeedAssumption, NEW X, NEW s \in Seq(X)
  PROVE  /\ Feed!Cropped(s) \in Seq(X) /\ Feed!Range(Feed!Cropped(s)) \subseteq Feed!Range(s)
              /\ Len(Feed!Cropped(s)) <= MaxRows
         /\ Len(s) <= MaxRows => Feed!Cropped(s) = s
         /\ Len(s) >= MaxRows => Len(Feed!Cropped(s)) = MaxRows
<1> DEFINE n == IF Len(s) < MaxRows THEN Len(s) ELSE MaxRows
<1>0. Len(s) \in Nat /\ MaxRows \in Nat /\ DOMAIN s = 1..Len(s)
  BY LenProperties DEF Feed!BetFeedAssumption
<1>1. n \in 0..Len(s) /\ n <= MaxRows
  BY <1>0
<1>2. (Len(s) <= MaxRows => n = Len(s)) /\ (Len(s) >= MaxRows => n = MaxRows)
  BY <1>0, Smaller
<1>3. Feed!Cropped(s) = SubSeq(s, 1, n)
  BY DEF Feed!Cropped
<1> HIDE DEF n
<1>4. \A i \in 1..n : s[i] \in X /\ i \in DOMAIN s
  BY <1>0, <1>1, ElementOfSeq
<1>5. SubSeq(s, 1, n) \in Seq(X) /\ Len(SubSeq(s, 1, n)) = n /\ \A i \in 1..n : SubSeq(s, 1, n)[i] = s[i]
  BY <1>0, <1>1, <1>4, SubSeqProperties
<1>6. Feed!Range(SubSeq(s, 1, n)) \subseteq Feed!Range(s)
  <2>1. DOMAIN SubSeq(s, 1, n) = 1..n
    BY <1>5, LenProperties
  <2> QED BY <1>4, <1>5, <2>1 DEF Feed!Range
<1> QED BY <1>0, <1>1, <1>2, <1>3, <1>5, <1>6, SubSeqFull

\* A feed starts empty, its backfill asked for.
LEMMA FeedInit == ASSUME Feed!BetFeedAssumption, Feed!Init PROVE FeedInv
<1> USE DEF Feed!Init
<1>1. <<>> \in Seq(Nat) /\ <<>> \in Seq(FeedRow) /\ Len(<<>>) = 0 /\ 1..0 = {}
  BY EmptySeq
<1>2. Feed!Range(<<>>) = {}
  BY DEF Feed!Range
<1>3. FeedTypes
  BY <1>1 DEF FeedTypes
<1>4. RowsAreBets
  BY <1>1, <1>2 DEF RowsAreBets
<1>5. Complete
  <2>1. Len(list) <= MaxRows /\ backfill.rows = <<>>
    BY <1>1 DEF Feed!BetFeedAssumption
  <2> QED BY <1>1, <2>1 DEF Complete
<1> QED BY <1>3, <1>4, <1>5 DEF FeedInv, AskedForTheRow, Feed!RecordIsOfThisBet, Feed!SealedWhileActive,
           Feed!NoDetail

\* What the feed shows of the bets there are; the dialog rests.
LEMMA FeedMoves ==
  ASSUME FeedInv, UNCHANGED <<bets, active, Feed!dialog>>, FeedTypes', Complete', unsaid' \subseteq unsaid,
         Feed!Range(betFrames') \subseteq 1..Len(bets), Feed!Range(backfill'.rows) \subseteq 1..Len(bets),
         \A row \in Feed!Range(list') : row.bet \in 1..Len(bets)
  PROVE  FeedInv'
<1> USE DEF FeedInv
<1>1. UNCHANGED <<selected, detail, fetches>>
  BY DEF Feed!dialog
<1>2. RowsAreBets'
  BY <1>1 DEF RowsAreBets
<1>3. AskedForTheRow' /\ Feed!RecordIsOfThisBet' /\ Feed!SealedWhileActive'
  BY <1>1 DEF AskedForTheRow, Feed!RecordIsOfThisBet, Feed!SealedWhileActive
<1> QED BY <1>2, <1>3

\* A row is written, or a pair retired.
LEMMA SettleStep == ASSUME FeedInv, NEW told \in BOOLEAN, Feed!Settle(told) PROVE FeedInv'
<1> USE DEF FeedInv
<1> DEFINE b == Len(bets')
<1>1. /\ bets' = Append(bets, active) /\ (unsaid' = IF told THEN unsaid \cup {b} ELSE unsaid)
      /\ (missed' = IF told THEN missed ELSE missed \cup {b})
      /\ UNCHANGED <<active, linked, cuts, betFrames, backfill, list, loaded, selected, detail, fetches, fetched>>
  BY DEF Feed!Settle, Feed!dialog
<1>2. bets' \in Seq(Nat) /\ b = Len(bets) + 1 /\ bets'[b] = active /\ \A k \in 1..Len(bets) : bets'[k] = bets[k]
  BY <1>1, AppendProperties DEF FeedTypes
<1>3. Len(bets) \in Nat /\ b \in Nat /\ 1..b = 1..Len(bets) \cup {b}
  <2>1. Len(bets) \in Nat
    BY LenProperties DEF FeedTypes
  <2> QED BY <1>2, <2>1
<1> HIDE DEF b
<1>4. unsaid' \in SUBSET Nat /\ missed' \in SUBSET Nat /\ unsaid' \subseteq unsaid \cup {b}
        /\ unsaid \subseteq unsaid'
      /\ missed \subseteq missed' /\ b \in unsaid' \cup missed'
  BY <1>1, <1>3 DEF FeedTypes
<1>5. FeedTypes'
  BY <1>1, <1>2, <1>4 DEF FeedTypes
<1>6. RowsAreBets'
  <2>1. \A k \in 1..b : bets'[k] <= active
    <3>1. bets'[b] <= active
      BY <1>2 DEF FeedTypes
    <3>2. \A k \in 1..Len(bets) : bets'[k] <= active
      BY <1>2 DEF RowsAreBets
    <3> QED BY <1>3, <3>1, <3>2
  <2> QED BY <1>1, <1>3, <1>4, <2>1 DEF RowsAreBets, b
<1>7. Complete'
  <2>1. Len(list) = MaxRows \/ 1..b \subseteq RowsComing'
    BY <1>1, <1>3, <1>4 DEF Complete, RowsComing
  <2> QED BY <1>1, <2>1 DEF Complete, b
<1>8. AskedForTheRow' /\ Feed!RecordIsOfThisBet'
  BY <1>1 DEF AskedForTheRow, Feed!RecordIsOfThisBet
<1>9. Feed!SealedWhileActive'
  BY <1>1, <1>2 DEF Feed!SealedWhileActive, RowsAreBets
<1> QED BY <1>5, <1>6, <1>7, <1>8, <1>9

\* The pair is rotated: its seed may be shown.
LEMMA RetireStep == ASSUME FeedInv, Feed!Rotate PROVE FeedInv'
<1> USE DEF FeedInv
<1>1. active' = active + 1
        /\ UNCHANGED <<bets, unsaid, betFrames, backfill, list, missed, selected, detail, fetches, fetched>>
  BY DEF Feed!Rotate, Feed!feed, Feed!dialog
<1>2. active \in Nat /\ active' \in Nat /\ \A n \in Nat : (n <= active => n <= active')
        /\ (n < active => n < active')
  BY <1>1 DEF FeedTypes
<1>3. \A k \in 1..Len(bets) : bets[k] \in Nat
  BY ElementOfSeq DEF FeedTypes
<1>4. FeedTypes'
  BY <1>1, <1>2 DEF FeedTypes
<1>5. RowsAreBets'
  BY <1>1, <1>2, <1>3 DEF RowsAreBets
<1>6. Feed!SealedWhileActive'
  BY <1>1, <1>2, <1>3 DEF Feed!SealedWhileActive, RowsAreBets
<1>7. AskedForTheRow' /\ Feed!RecordIsOfThisBet' /\ Complete'
  BY <1>1 DEF AskedForTheRow, Feed!RecordIsOfThisBet, Complete, RowsComing
<1> QED BY <1>4, <1>5, <1>6, <1>7

\* Frames are sent, lost and taken.
LEMMA BroadcastStep == ASSUME FeedInv, NEW b \in unsaid, Feed!Broadcast(b) PROVE FeedInv'
<1> USE DEF FeedInv
<1>1. unsaid' = unsaid \ {b} /\ UNCHANGED <<bets, active, Feed!dialog, backfill, list>>
  BY DEF Feed!Broadcast
<1>2. betFrames \in Seq(Nat) /\ b \in Nat /\ b \in 1..Len(bets)
  BY DEF FeedTypes, RowsAreBets
<1>3. UNCHANGED <<fetches, fetched>>
  BY <1>1 DEF Feed!dialog
<1>4. CASE linked
  <2>1. betFrames' = Append(betFrames, b) /\ missed' = missed
    BY <1>4 DEF Feed!Broadcast
  <2>2. betFrames' \in Seq(Nat) /\ Feed!Range(betFrames') = Feed!Range(betFrames) \cup {b}
    BY <1>2, <2>1, ElementsAppended
  <2>3. FeedTypes'
    BY <1>1, <1>3, <2>1, <2>2 DEF FeedTypes
  <2>4. Complete'
    BY <1>1, <2>1, <2>2 DEF Complete, RowsComing
  <2> QED BY <1>1, <1>2, <2>2, <2>3, <2>4, FeedMoves DEF RowsAreBets
<1>5. CASE ~linked
  <2>1. missed' = missed \cup {b} /\ betFrames' = betFrames
    BY <1>5 DEF Feed!Broadcast
  <2>2. FeedTypes'
    BY <1>1, <1>2, <1>3, <2>1 DEF FeedTypes
  <2>3. Complete'
    BY <1>1, <2>1 DEF Complete, RowsComing
  <2> QED BY <1>1, <2>1, <2>2, <2>3, FeedMoves DEF RowsAreBets
<1> QED BY <1>4, <1>5

\* The socket connects.
LEMMA ConnectStep == ASSUME FeedInv, Feed!Connect PROVE FeedInv'
<1> USE DEF FeedInv
<1>1. UNCHANGED <<bets, active, unsaid, betFrames, backfill, list, missed, selected, detail, fetches, fetched>>
  BY DEF Feed!Connect, Feed!server, Feed!dialog
<1>2. FeedTypes'
  BY <1>1 DEF FeedTypes
<1>3. RowsAreBets'
  BY <1>1 DEF RowsAreBets
<1>4. AskedForTheRow' /\ Feed!RecordIsOfThisBet' /\ Feed!SealedWhileActive'
  BY <1>1 DEF AskedForTheRow, Feed!RecordIsOfThisBet, Feed!SealedWhileActive
<1>5. Complete'
  BY <1>1 DEF Complete, RowsComing
<1> QED BY <1>2, <1>3, <1>4, <1>5

\* A connection is lost, and what was on its way is missed.
LEMMA CutStep == ASSUME FeedInv, Feed!Cut PROVE FeedInv'
<1> USE DEF FeedInv
<1>1. betFrames' = <<>> /\ missed' = missed \cup Feed!Range(betFrames)
        /\ UNCHANGED <<bets, active, unsaid, backfill, list, Feed!dialog>>
  BY DEF Feed!Cut, Feed!server
<1>2. Feed!Range(betFrames') = {} /\ betFrames' \in Seq(Nat)
  BY <1>1, EmptySeq DEF Feed!Range
<1>3. Feed!Range(betFrames) \subseteq Nat
  BY DEF RowsAreBets
<1>4. FeedTypes'
  BY <1>1, <1>2, <1>3 DEF FeedTypes, Feed!dialog
<1>5. Complete'
  BY <1>1, <1>2 DEF Complete, RowsComing
<1> QED BY <1>1, <1>2, <1>4, <1>5, FeedMoves DEF RowsAreBets

\* Rows put above, or below, those there are.
LEMMA ListStep ==
  ASSUME Feed!BetFeedAssumption, FeedInv, NEW above \in Seq(FeedRow), NEW below \in Seq(FeedRow),
         list' = Feed!Cropped(above \o below), above = list \/ below = list,
         UNCHANGED <<bets, active, unsaid, missed, Feed!dialog>>, FeedTypes',
         Feed!Range(betFrames') \subseteq Feed!Range(betFrames), Feed!Range(backfill'.rows) \subseteq Feed!Range(backfill.rows),
         Feed!Range(betFrames) \cup Feed!Range(backfill.rows) \subseteq
           Feed!Range(betFrames') \cup Feed!Range(backfill'.rows) \cup {row.bet : row \in Feed!Range(above)
             \cup Feed!Range(below)},
         \A row \in Feed!Range(above) \cup Feed!Range(below) : row.bet \in 1..Len(bets),
         backfill'.step \in {"asked", "done"} => backfill'.rows = <<>>
  PROVE  FeedInv'
<1> USE DEF FeedInv
<1> DEFINE whole == above \o below
<1>1. whole \in Seq(FeedRow) /\ Len(whole) = Len(above) + Len(below)
        /\ Feed!Range(whole) = Feed!Range(above) \cup Feed!Range(below)
  BY ElementsJoined
<1>2. Len(above) \in Nat /\ Len(below) \in Nat /\ MaxRows \in Nat
  BY LenProperties DEF Feed!BetFeedAssumption
<1> HIDE DEF whole
<1>3. /\ Feed!Range(list') \subseteq Feed!Range(whole) /\ Len(list') <= MaxRows
      /\ (Len(whole) <= MaxRows => list' = whole) /\ (Len(whole) >= MaxRows => Len(list') = MaxRows)
  BY <1>1, ElementsKept DEF whole
<1>4. Complete'
  <2>1. CASE Len(whole) >= MaxRows
    BY <1>3, <2>1 DEF Complete
  <2>2. CASE Len(whole) < MaxRows
    <3>1. list' = whole /\ Len(list) # MaxRows
      BY <1>1, <1>2, <1>3, <2>2
    <3>2. 1..Len(bets) \subseteq RowsComing
      BY <3>1 DEF Complete
    <3>3. RowsComing \subseteq RowsComing'
      BY <1>1, <3>1 DEF RowsComing
    <3> QED BY <1>3, <3>2, <3>3 DEF Complete
  <2> QED BY <1>1, <1>2, <2>1, <2>2
<1>5. \A row \in Feed!Range(list') : row.bet \in 1..Len(bets)
  BY <1>1, <1>3
<1> QED BY <1>4, <1>5, FeedMoves DEF RowsAreBets

\* A live bet is put on top of the list.
LEMMA LiveBetStep == ASSUME Feed!BetFeedAssumption, FeedInv, Feed!LiveBet PROVE FeedInv'
<1> USE DEF FeedInv
<1> DEFINE row == [bet |-> Head(betFrames), live |-> TRUE]
<1>1. /\ betFrames # <<>> /\ betFrames' = Tail(betFrames) /\ list' = Feed!Cropped(<<row>> \o list)
      /\ UNCHANGED <<bets, active, unsaid, missed, Feed!dialog, backfill>>
  BY DEF Feed!LiveBet, Feed!server
<1>2. betFrames \in Seq(Nat) /\ list \in Seq(FeedRow)
  BY DEF FeedTypes
<1>3. Head(betFrames) \in Nat /\ betFrames' \in Seq(Nat)
        /\ Feed!Range(betFrames) = {Head(betFrames)} \cup Feed!Range(betFrames')
  BY <1>1, <1>2, ElementsOfTail
<1>4. row \in FeedRow /\ row.bet = Head(betFrames)
  BY <1>3 DEF FeedRow
<1> HIDE DEF row
<1>5. <<row>> \in Seq(FeedRow) /\ Feed!Range(<<row>>) = {row}
  BY <1>4 DEF Feed!Range
<1>6. <<row>> \o list \in Seq(FeedRow)
  BY <1>2, <1>5, ElementsJoined
<1>7. list' \in Seq(FeedRow)
  BY <1>1, <1>6, ElementsKept
<1>8. FeedTypes'
  BY <1>1, <1>3, <1>7 DEF FeedTypes, Feed!dialog
<1>9. \A x \in Feed!Range(<<row>>) \cup Feed!Range(list) : x.bet \in 1..Len(bets)
  BY <1>3, <1>4, <1>5 DEF RowsAreBets
<1>10. Feed!Range(betFrames) \cup Feed!Range(backfill.rows) \subseteq
         Feed!Range(betFrames') \cup Feed!Range(backfill'.rows) \cup {x.bet : x \in Feed!Range(<<row>>) \cup Feed!Range(list)}
  BY <1>1, <1>3, <1>4, <1>5
<1>11. Feed!Range(betFrames') \subseteq Feed!Range(betFrames)
         /\ (backfill'.step \in {"asked", "done"} => backfill'.rows = <<>>)
  BY <1>1, <1>3 DEF Complete
<1> QED BY <1>1, <1>2, <1>5, <1>8, <1>9, <1>10, <1>11, ListStep

\* What the read knew.
LEMMA RecentOf ==
  ASSUME Feed!BetFeedAssumption, FeedInv
  PROVE  Feed!Recent \in Seq(Nat) /\ Feed!Range(Feed!Recent) \subseteq 1..Len(bets)
<1> DEFINE down == [i \in 1..Len(bets) |-> Len(bets) + 1 - i]
<1>1. Len(bets) \in Nat
  BY LenProperties DEF FeedInv, FeedTypes
<1>4. \A i \in 1..Len(bets) : Len(bets) + 1 - i \in 1..Len(bets)
  BY <1>1
<1>5. down \in [1..Len(bets) -> 1..Len(bets)]
  BY <1>4
<1> HIDE DEF down
<1>6. down \in Seq(1..Len(bets)) /\ down \in Seq(Nat)
  BY <1>1, <1>5
<1>7. DOMAIN down = 1..Len(bets) /\ Feed!Range(down) \subseteq 1..Len(bets)
  BY <1>5 DEF Feed!Range
<1>8. Feed!Recent = Feed!Cropped(down)
  BY DEF Feed!Recent, down
<1> QED BY <1>6, <1>7, <1>8, ElementsKept

\* The server reads the newest bets.
LEMMA ServeBackfillStep == ASSUME Feed!BetFeedAssumption, FeedInv, Feed!ServeBackfill PROVE FeedInv'
<1> USE DEF FeedInv
<1>1. UNCHANGED <<bets, active, unsaid, betFrames, list, Feed!dialog, fetches, fetched>>
  BY DEF Feed!ServeBackfill, Feed!server, Feed!dialog
<1>2. \/ backfill' = [step |-> "answered", rows |-> Feed!Recent] /\ missed' = missed \ Feed!Range(Feed!Recent)
      \/ backfill' = [step |-> "failed", rows |-> <<>>] /\ missed' = missed \cup 1..Len(bets)
  BY DEF Feed!ServeBackfill
<1>3. ASSUME NEW rows \in Seq(Nat), Feed!Range(rows) \subseteq 1..Len(bets), NEW step \in {"answered", "failed"},
             backfill' = [step |-> step, rows |-> rows], missed' \in SUBSET Nat,
             Len(list) = MaxRows \/ 1..Len(bets) \subseteq RowsComing'
      PROVE  FeedInv'
  <2>1. backfill'.rows = rows /\ backfill'.step \notin {"asked", "done"}
    BY <1>3
  <2>2. FeedTypes'
    BY <1>1, <1>3 DEF FeedTypes
  <2>3. Complete'
    BY <1>1, <1>3, <2>1 DEF Complete
  <2> QED BY <1>1, <1>3, <2>1, <2>2, <2>3, FeedMoves DEF RowsAreBets
<1>4. CASE backfill' = [step |-> "answered", rows |-> Feed!Recent] /\ missed' = missed \ Feed!Range(Feed!Recent)
  <2>1. backfill.rows = <<>> /\ Feed!Range(<<>>) = {}
    BY DEF Complete, Feed!ServeBackfill, Feed!Range
  <2>2. Len(list) = MaxRows
          \/ 1..Len(bets) \subseteq missed \cup unsaid \cup Feed!Range(betFrames) \cup {row.bet : row \in Feed!Range(list)}
    BY <2>1 DEF Complete, RowsComing
  <2>3. backfill'.rows = Feed!Recent
    BY <1>4
  <2>4. Len(list) = MaxRows \/ 1..Len(bets) \subseteq RowsComing'
    BY <1>1, <1>4, <2>2, <2>3 DEF RowsComing
  <2> QED BY <1>3, <1>4, <2>4, RecentOf DEF FeedTypes
<1>5. CASE backfill' = [step |-> "failed", rows |-> <<>>] /\ missed' = missed \cup 1..Len(bets)
  <2>1. <<>> \in Seq(Nat) /\ Feed!Range(<<>>) \subseteq 1..Len(bets)
    BY EmptySeq DEF Feed!Range
  <2>2. Len(bets) \in Nat /\ missed' \in SUBSET Nat
    <3>1. Len(bets) \in Nat
      BY LenProperties DEF FeedTypes
    <3>2. 1..Len(bets) \subseteq Nat
      BY <3>1
    <3> QED BY <1>5, <3>1, <3>2 DEF FeedTypes
  <2>3. 1..Len(bets) \subseteq RowsComing'
    BY <1>5 DEF RowsComing
  <2> QED BY <1>3, <1>5, <2>1, <2>2, <2>3
<1> QED BY <1>2, <1>4, <1>5

\* The backfill goes below what came in meanwhile.
LEMMA TakeBackfillStep == ASSUME Feed!BetFeedAssumption, FeedInv, Feed!TakeBackfill PROVE FeedInv'
<1> USE DEF FeedInv
<1> DEFINE row(b) == [bet |-> b, live |-> FALSE]
           below == [i \in DOMAIN backfill.rows |-> row(backfill.rows[i])]
<1>1. /\ list' = Feed!Cropped(list \o below) /\ backfill' = [step |-> "done", rows |-> <<>>]
      /\ UNCHANGED <<bets, active, unsaid, missed, betFrames, Feed!dialog, fetches, fetched>>
  BY DEF Feed!TakeBackfill, Feed!Merged, Feed!server, Feed!dialog
<1>2. backfill.rows \in Seq(Nat) /\ list \in Seq(FeedRow)
  BY DEF FeedTypes
<1>3. Len(backfill.rows) \in Nat /\ DOMAIN backfill.rows = 1..Len(backfill.rows)
  BY <1>2, LenProperties
<1>4. \A b \in Nat : row(b) \in FeedRow /\ row(b).bet = b
  BY DEF FeedRow
<1> HIDE DEF row
<1>5. \A i \in DOMAIN backfill.rows : backfill.rows[i] \in Nat /\ below[i] = row(backfill.rows[i])
  BY <1>2, <1>3, ElementOfSeq
<1>6. below \in [1..Len(backfill.rows) -> FeedRow]
  BY <1>3, <1>4, <1>5
<1>7. DOMAIN below = DOMAIN backfill.rows
  OBVIOUS
<1> HIDE DEF below
<1>8. below \in Seq(FeedRow)
  BY <1>3, <1>6
<1>9. Feed!Range(backfill.rows) = {x.bet : x \in Feed!Range(below)}
  BY <1>4, <1>5, <1>7 DEF Feed!Range
<1>10. list \o below \in Seq(FeedRow)
  BY <1>2, <1>8, ElementsJoined
<1>11. list' \in Seq(FeedRow) /\ <<>> \in Seq(Nat) /\ backfill'.rows = <<>> /\ Feed!Range(<<>>) = {}
  <2>1. list' \in Seq(FeedRow)
    BY <1>1, <1>10, ElementsKept
  <2>2. <<>> \in Seq(Nat) /\ Feed!Range(<<>>) = {}
    BY EmptySeq DEF Feed!Range
  <2> QED BY <1>1, <2>1, <2>2
<1>12. FeedTypes'
  BY <1>1, <1>11 DEF FeedTypes
<1>13. \A x \in Feed!Range(list) \cup Feed!Range(below) : x.bet \in 1..Len(bets)
  BY <1>9 DEF RowsAreBets
<1>14. Feed!Range(betFrames) \cup Feed!Range(backfill.rows) \subseteq
         Feed!Range(betFrames') \cup Feed!Range(backfill'.rows) \cup {x.bet : x \in Feed!Range(list) \cup Feed!Range(below)}
  BY <1>1, <1>9
<1> QED BY <1>1, <1>2, <1>8, <1>11, <1>12, <1>13, <1>14, ListStep

\* The dialog alone moves.
LEMMA DialogMoves ==
  ASSUME FeedInv, UNCHANGED <<Feed!server, Feed!feed>>, fetches' \in SUBSET DetailRead, fetched' \in Nat,
         \A f \in fetches' : f.bet \in 1..Len(bets) /\ (f.alive => f.bet = selected'.bet)
           /\ (f.seed => bets[f.bet] < active),
         detail'.bet # Feed!NoBet => detail'.bet = selected'.bet
  PROVE  FeedInv'
<1> USE DEF FeedInv
<1>1. UNCHANGED <<bets, active, unsaid, betFrames, backfill, list, missed>>
  BY DEF Feed!server, Feed!feed
<1>2. FeedTypes'
  BY <1>1 DEF FeedTypes
<1>3. RowsAreBets'
  BY <1>1 DEF RowsAreBets
<1>4. AskedForTheRow' /\ Feed!RecordIsOfThisBet' /\ Feed!SealedWhileActive'
  BY <1>1 DEF AskedForTheRow, Feed!RecordIsOfThisBet, Feed!SealedWhileActive
<1>5. Complete'
  BY <1>1 DEF Complete, RowsComing
<1> QED BY <1>2, <1>3, <1>4, <1>5

\* Of a record that is left behind only the answer is outstanding.
LEMMA LeftOf ==
  ASSUME FeedInv
  PROVE  Feed!Left \subseteq DetailRead /\ \A f \in Feed!Left : ~f.alive /\ f.bet \in 1..Len(bets)
           /\ (f.seed => bets[f.bet] < active)
<1> SUFFICES ASSUME NEW g \in fetches, NEW f, f = [g EXCEPT !.alive = FALSE]
             PROVE  f \in DetailRead /\ ~f.alive /\ f.bet \in 1..Len(bets) /\ (f.seed => bets[f.bet] < active)
  BY DEF Feed!Left
<1>1. g \in DetailRead /\ g.bet \in 1..Len(bets) /\ (g.seed => bets[g.bet] < active)
  BY DEF FeedInv, FeedTypes, RowsAreBets, Feed!SealedWhileActive
<1>2. f \in DetailRead /\ ~f.alive /\ f.bet = g.bet /\ f.seed = g.seed
  BY <1>1 DEF DetailRead
<1> QED BY <1>1, <1>2

\* A row is opened, and its record asked for.
LEMMA ClickStep == ASSUME FeedInv, NEW row \in Feed!Range(list), Feed!Click(row) PROVE FeedInv'
<1> USE DEF FeedInv
<1>1. UNCHANGED <<Feed!server, Feed!feed>> /\ selected' = row /\ detail' = Feed!NoDetail
        /\ row.bet \in 1..Len(bets) /\ detail'.bet = Feed!NoBet
  BY DEF Feed!Click, RowsAreBets, Feed!NoDetail
<1>2. fetched \in Nat
  BY DEF FeedTypes
<1>3. CASE row.live
  <2>1. fetches' = Feed!Left /\ fetched' = fetched
    BY <1>3 DEF Feed!Click
  <2> QED BY <1>1, <1>2, <2>1, LeftOf, DialogMoves
<1>4. CASE ~row.live
  <2> DEFINE f == [n |-> fetched + 1, bet |-> row.bet, alive |-> TRUE, step |-> "asked", seed |-> FALSE]
  <2>1. fetches' = Feed!Left \cup {f} /\ fetched' = fetched + 1
    BY <1>4 DEF Feed!Click
  <2>2. Len(bets) \in Nat
    BY LenProperties DEF FeedTypes
  <2>3. f \in DetailRead /\ f.bet = row.bet /\ ~f.seed
    BY <1>1, <1>2, <2>2 DEF DetailRead
  <2> HIDE DEF f
  <2>4. fetched' \in Nat /\ fetches' \in SUBSET DetailRead
    BY <1>2, <2>1, <2>3, LeftOf
  <2>5. \A g \in fetches' : g.bet \in 1..Len(bets) /\ (g.alive => g.bet = selected'.bet)
          /\ (g.seed => bets[g.bet] < active)
    BY <1>1, <2>1, <2>3, LeftOf
  <2> QED BY <1>1, <2>4, <2>5, DialogMoves
<1> QED BY <1>3, <1>4

\* The record is closed.
LEMMA FeedCloseStep == ASSUME FeedInv, Feed!Close PROVE FeedInv'
<1>1. UNCHANGED <<Feed!server, Feed!feed>> /\ detail'.bet = Feed!NoBet /\ fetches' = Feed!Left /\ fetched' = fetched
  BY DEF Feed!Close, Feed!NoDetail
<1>2. fetched \in Nat
  BY DEF FeedInv, FeedTypes
<1> QED BY <1>1, <1>2, LeftOf, DialogMoves

\* What is so of a record that was asked for.
LEMMA FetchOf ==
  ASSUME FeedInv, NEW f \in fetches
  PROVE  f \in DetailRead /\ f.bet \in 1..Len(bets) /\ (f.alive => f.bet = selected.bet)
           /\ (f.seed => bets[f.bet] < active)
         /\ bets[f.bet] \in Nat /\ active \in Nat /\ bets[f.bet] <= active /\ fetched \in Nat
BY ElementOfSeq DEF FeedInv, FeedTypes, RowsAreBets, AskedForTheRow, Feed!SealedWhileActive

\* The server reads a record, with its seed once the pair is retired.
LEMMA ServeDetailStep == ASSUME FeedInv, NEW f \in fetches, Feed!ServeDetail(f) PROVE FeedInv'
<1> DEFINE g == [f EXCEPT !.step = "answered", !.seed = ~Feed!StillActive(f.bet)]
<1>1. fetches' = (fetches \ {f}) \cup {g} /\ UNCHANGED <<Feed!server, Feed!feed, selected, detail, fetched>>
  BY DEF Feed!ServeDetail
<1>2. Feed!StillActive(f.bet) \in BOOLEAN /\ (~Feed!StillActive(f.bet) => bets[f.bet] < active)
  BY FetchOf DEF Feed!StillActive
<1>3. g \in DetailRead /\ g.bet = f.bet /\ g.alive = f.alive /\ (g.seed => bets[f.bet] < active)
  BY <1>2, FetchOf DEF DetailRead
<1> HIDE DEF g
<1>4. \A x \in fetches' : /\ x \in DetailRead /\ x.bet \in 1..Len(bets) /\ (x.alive => x.bet = selected.bet)
                          /\ (x.seed => bets[x.bet] < active)
  BY <1>1, <1>3, FetchOf
<1>5. detail.bet # Feed!NoBet => detail.bet = selected.bet
  BY DEF FeedInv, Feed!RecordIsOfThisBet
<1> QED BY <1>1, <1>4, <1>5, FetchOf, DialogMoves

\* The answer is taken, or the read fails.
LEMMA DetailGone == ASSUME FeedInv, NEW f \in fetches, Feed!DetailFails(f) \/ Feed!TakeDetail(f) PROVE FeedInv'
<1>1. fetches' = fetches \ {f} /\ UNCHANGED <<Feed!server, Feed!feed, selected, fetched>>
  BY DEF Feed!DetailFails, Feed!TakeDetail
<1>2. detail' = detail \/ (f.alive /\ detail' = [bet |-> f.bet, seed |-> f.seed])
  BY DEF Feed!DetailFails, Feed!TakeDetail, Feed!Wanted
<1>3. detail.bet # Feed!NoBet => detail.bet = selected.bet
  BY DEF FeedInv, Feed!RecordIsOfThisBet
<1>4. detail'.bet # Feed!NoBet => detail'.bet = selected.bet
  BY <1>2, <1>3, FetchOf
<1> QED BY <1>1, <1>4, FetchOf, DialogMoves

\* Every step keeps the invariant.
LEMMA FeedStep == ASSUME Feed!BetFeedAssumption, FeedInv, Feed!Next PROVE FeedInv'
BY SettleStep, RetireStep, BroadcastStep, ConnectStep, CutStep, LiveBetStep, ServeBackfillStep, TakeBackfillStep,
   ClickStep, FeedCloseStep, ServeDetailStep, DetailGone DEF Feed!Next

\* The record open is that of its bet, without its seed as long as the pair is active.
LEMMA FeedHolds == ASSUME FeedInv PROVE Feed!RecordIsOfThisBet /\ Feed!SealedWhileActive /\ Feed!FeedMissesNothing
<1> USE DEF FeedInv
<1>1. Feed!Range(<<>>) = {}
  BY DEF Feed!Range
<1> QED BY <1>1 DEF Feed!FeedMissesNothing, Complete, RowsComing

-----------------------------------------------------------------------------
(* The wallet dialogs *)

CommitSet == [bal : Nat, n : Nat \ {0}]
WalletAskSet ==
  [kind : {"deposit", "withdraw"}, mount : Nat, step : {"sent", "reserved", "answered", "done"}, amount : Nat, base : Int,
   token : Nat, answer : Dialogs!Answers, hold : BOOLEAN, left : CommitSet \cup {Dialogs!NoBalance}, fault : BOOLEAN]
PanelSet == [loading : BOOLEAN, error : Dialogs!Answers, invoice : Nat, base : Int, credited : BOOLEAN]

\* What is so of a withdrawal that was answered.
Truthful(q) ==
  CASE q.answer \in {"submitted", "reviewed"}        -> q.hold
    [] q.answer \in {"unauthorized", "insufficient"} -> ~q.hold
    [] q.answer = "refused"                          -> q.hold => q.fault
    [] OTHER                                         -> TRUE

AskOK(q) ==
  /\ q.step = "sent" => q.answer = "none" /\ ~q.hold
  /\ q.step = "reserved" => q.answer = "none" /\ q.kind = "withdraw" /\ q.hold
  /\ q.kind = "withdraw" /\ q.step \in {"answered", "done"} => Truthful(q)
  /\ q.answer = "unauthorized" => q.token \in dead
AsksOK ==
  /\ asks \in Seq(WalletAskSet) /\ session \in Nat /\ dead \in SUBSET Nat /\ IsFiniteSet(dead)
  /\ \A a \in DOMAIN asks : AskOK(asks[a])

\* No commit is newer than the ledger, and the newest is the ledger.
Known(c) == c.n <= wallet.n /\ (c.n = wallet.n => c = wallet)
LedgerTold ==
  \/ wallet \in unpushed
  \/ pushes # <<>> /\ pushes[Len(pushes)] = wallet
  \/ pushes = <<>> /\ header = wallet
  \/ \E a \in DOMAIN asks : asks[a].step = "reserved" /\ asks[a].left = wallet
CommitsOK ==
  /\ wallet \in CommitSet /\ unpushed \in SUBSET CommitSet /\ pushes \in Seq(CommitSet)
       /\ header \in CommitSet \cup {Dialogs!NoBalance}
  /\ \A c \in unpushed : Known(c)
  /\ \A i \in 1..Len(pushes) : Known(pushes[i])
  /\ Known(header)
  /\ \A a \in DOMAIN asks : asks[a].step = "reserved" => asks[a].left \in CommitSet /\ Known(asks[a].left)
  /\ excuse = "none" => LedgerTold

\* A request was sent by the panel on screen or by an earlier one.
AskedHere(q) == q.mount <= modal.mount /\ (q.mount = modal.mount => q.kind = modal.tab)
ScreenOK ==
  /\ modal \in [open : BOOLEAN, tab : {"deposit", "withdraw"}, mount : Nat] /\ panel \in PanelSet
  /\ redirects \in SUBSET [mount : Nat, late : BOOLEAN]
  /\ \A a \in DOMAIN asks : AskedHere(asks[a])
  /\ panel.invoice # 0 => panel.invoice \in DOMAIN asks
  /\ Dialogs!InvoiceIsOfThisPanel
  /\ \A t \in redirects : t.late \/ (modal.open /\ t.mount = modal.mount)
WalletInv == AsksOK /\ CommitsOK /\ ScreenOK

\* A panel starts with no invoice.
LEMMA FreshPanel == Dialogs!Fresh \in PanelSet /\ Dialogs!Fresh.invoice = 0
BY DEF Dialogs!Fresh, PanelSet, Dialogs!Answers

\* The wallet starts with one commit, unsaid, and no dialog is open.
LEMMA WalletInit == ASSUME Dialogs!WalletAssumption, Dialogs!Init PROVE WalletInv
<1> USE DEF Dialogs!Init
<1>1. <<>> \in Seq(WalletAskSet) /\ <<>> \in Seq(CommitSet) /\ Len(<<>>) = 0 /\ DOMAIN <<>> = {}
  BY EmptySeq
<1>2. AsksOK
  BY <1>1, FS_EmptySet DEF AsksOK
<1>3. CommitsOK
  <2>1. wallet \in CommitSet /\ unpushed = {wallet} /\ wallet.n = 1
    <3>1. PICK a \in Amounts : wallet = [bal |-> a, n |-> 1]
      OBVIOUS
    <3>2. a \in Nat /\ 1 \in Nat \ {0} /\ unpushed = {wallet}
      BY DEF Dialogs!WalletAssumption
    <3> QED BY <3>1, <3>2 DEF CommitSet
  <2>2. Known(header) /\ Known(wallet)
    BY <2>1 DEF Known, Dialogs!NoBalance
  <2> QED BY <1>1, <2>1, <2>2 DEF CommitsOK, LedgerTold
<1>4. ScreenOK
  <2>1. modal \in [open : BOOLEAN, tab : {"deposit", "withdraw"}, mount : Nat]
    OBVIOUS
  <2> QED BY <1>1, <2>1, FreshPanel DEF ScreenOK, Dialogs!InvoiceIsOfThisPanel
<1> QED BY <1>2, <1>3, <1>4 DEF WalletInv

\* A request changes, or one more is sent.
LEMMA AskChanged ==
  ASSUME AsksOK, NEW a \in DOMAIN asks, NEW q \in WalletAskSet, asks' = [asks EXCEPT ![a] = q]
  PROVE  asks' \in Seq(WalletAskSet) /\ DOMAIN asks' = DOMAIN asks /\ asks'[a] = q
           /\ \A b \in DOMAIN asks : b # a => asks'[b] = asks[b]
<1>1. asks \in Seq(WalletAskSet) /\ Len(asks) \in Nat /\ DOMAIN asks = 1..Len(asks)
        /\ asks \in [1..Len(asks) -> WalletAskSet]
  BY LenProperties DEF AsksOK
<1>2. asks' \in [1..Len(asks) -> WalletAskSet]
  BY <1>1
<1>3. asks' \in Seq(WalletAskSet)
  BY <1>1, <1>2
<1> QED BY <1>1, <1>3

\* What is so of a request.
LEMMA AskTyped ==
  ASSUME AsksOK, NEW a \in DOMAIN asks
  PROVE  asks[a] \in WalletAskSet /\ AskOK(asks[a])
BY ElementOfSeq, LenProperties DEF AsksOK

\* The three parts of the invariant, when no commit and no frame is new.
LEMMA CommitsRest ==
  ASSUME CommitsOK, UNCHANGED <<wallet, unpushed, pushes, header, excuse>>,
         \A a \in DOMAIN asks : asks[a].step = "reserved" => a \in DOMAIN asks' /\ asks'[a] = asks[a],
         \A a \in DOMAIN asks' : asks'[a].step = "reserved" => a \in DOMAIN asks /\ asks'[a] = asks[a]
  PROVE  CommitsOK'
<1>1. LedgerTold => LedgerTold'
  BY DEF LedgerTold
<1> QED BY <1>1 DEF CommitsOK, Known

\* The screen, while the same panel is on it.
LEMMA ScreenKept ==
  ASSUME ScreenOK, modal' = modal, panel' \in PanelSet, panel'.invoice \in {0, panel.invoice}, redirects' = redirects,
         \A a \in DOMAIN asks : a \in DOMAIN asks' /\ asks'[a].mount = asks[a].mount,
         \A a \in DOMAIN asks' : (asks'[a].mount = modal.mount /\ asks'[a].kind = modal.tab)
                                 \/ (a \in DOMAIN asks /\ asks'[a].mount = asks[a].mount
                                      /\ asks'[a].kind = asks[a].kind)
  PROVE  ScreenOK'
<1>1. \A a \in DOMAIN asks' : AskedHere(asks[a])'
  BY DEF ScreenOK, AskedHere
<1>2. Dialogs!InvoiceIsOfThisPanel' /\ (panel'.invoice # 0 => panel'.invoice \in DOMAIN asks')
  BY DEF ScreenOK, Dialogs!InvoiceIsOfThisPanel, Dialogs!Showing
<1> QED BY <1>1, <1>2 DEF ScreenOK

\* A panel leaves the screen, with its timers.
LEMMA ScreenLeft ==
  ASSUME ScreenOK, modal' = [modal EXCEPT !.open = FALSE], panel' = Dialogs!Fresh,
         redirects' \subseteq redirects \ Dialogs!PendingOf(modal.mount),
         DOMAIN asks' = DOMAIN asks, \A a \in DOMAIN asks : asks'[a].mount = asks[a].mount
           /\ asks'[a].kind = asks[a].kind
  PROVE  ScreenOK'
<1>1. /\ modal' \in [open : BOOLEAN, tab : {"deposit", "withdraw"}, mount : Nat] /\ modal'.mount = modal.mount
      /\ modal'.tab = modal.tab
  BY DEF ScreenOK
<1>2. \A a \in DOMAIN asks' : AskedHere(asks[a])'
  BY <1>1 DEF ScreenOK, AskedHere
<1>3. \A t \in redirects' : t.late
  BY DEF ScreenOK, Dialogs!PendingOf
<1> QED BY <1>1, <1>2, <1>3, FreshPanel DEF ScreenOK, Dialogs!InvoiceIsOfThisPanel

\* A panel that mounts starts afresh.
LEMMA ScreenMounted ==
  ASSUME AsksOK, ScreenOK, NEW tab \in {"deposit", "withdraw"}, Dialogs!Mount(tab), asks' = asks
  PROVE  ScreenOK'
<1>1. modal' = [open |-> TRUE, tab |-> tab, mount |-> modal.mount + 1] /\ panel' = Dialogs!Fresh
        /\ redirects' = redirects \ Dialogs!PendingOf(modal.mount)
  BY DEF Dialogs!Mount
<1>2. modal.mount \in Nat /\ modal'.mount = modal.mount + 1
  BY <1>1 DEF ScreenOK
<1>3. modal' \in [open : BOOLEAN, tab : {"deposit", "withdraw"}, mount : Nat]
  BY <1>1, <1>2
<1>4. ASSUME NEW a \in DOMAIN asks' PROVE AskedHere(asks[a])'
  <2>1. asks[a].mount \in Nat /\ asks[a].mount <= modal.mount
    BY <1>4, AskTyped DEF ScreenOK, AskedHere, WalletAskSet
  <2> QED BY <1>2, <2>1 DEF AskedHere
<1>5. \A t \in redirects' : t.late
  BY <1>1 DEF ScreenOK, Dialogs!PendingOf
<1> QED BY <1>1, <1>3, <1>4, <1>5, FreshPanel DEF ScreenOK, Dialogs!InvoiceIsOfThisPanel

\* A reply that finds its request: the request changes, the screen does not.
LEMMA Replied ==
  ASSUME WalletInv, NEW a \in DOMAIN asks, NEW q \in WalletAskSet, asks' = [asks EXCEPT ![a] = q],
         q.mount = asks[a].mount, q.kind = asks[a].kind, AskOK(q)', UNCHANGED <<session, Dialogs!screen>>,
         dead' \in SUBSET Nat, IsFiniteSet(dead'), dead \subseteq dead', CommitsOK'
  PROVE  WalletInv'
<1> USE DEF WalletInv
<1>1. asks' \in Seq(WalletAskSet) /\ DOMAIN asks' = DOMAIN asks /\ asks'[a] = q /\ \A b \in DOMAIN asks : b # a =>
        asks'[b] = asks[b]
  BY AskChanged
<1>2. AsksOK'
  <2>1. ASSUME NEW b \in DOMAIN asks' PROVE AskOK(asks[b])'
    <3>1. CASE b = a
      BY <1>1, <3>1 DEF AskOK
    <3>2. CASE b # a
      BY <1>1, <3>2, AskTyped DEF AskOK, Truthful
    <3> QED BY <3>1, <3>2
  <2> QED BY <1>1, <2>1 DEF AsksOK
<1>3. UNCHANGED <<modal, panel, redirects>> /\ panel \in PanelSet
  BY DEF Dialogs!screen, ScreenOK
<1>4. \A b \in DOMAIN asks : asks'[b].mount = asks[b].mount /\ asks'[b].kind = asks[b].kind
  BY <1>1
<1>5. ScreenOK'
  BY <1>1, <1>3, <1>4, ScreenKept
<1> QED BY <1>2, <1>5

\* The commits, when the reply settles no hold.
LEMMA NoHoldSettled ==
  ASSUME AsksOK, CommitsOK, NEW a \in DOMAIN asks, NEW q \in WalletAskSet, asks' = [asks EXCEPT ![a] = q],
         asks[a].step # "reserved", q.step # "reserved", UNCHANGED <<Dialogs!money, header>>
  PROVE  CommitsOK'
<1>1. DOMAIN asks' = DOMAIN asks /\ asks'[a] = q /\ \A b \in DOMAIN asks : b # a => asks'[b] = asks[b]
  BY AskChanged
<1>2. UNCHANGED <<wallet, unpushed, pushes, header, excuse>>
  BY DEF Dialogs!money
<1> QED BY <1>1, <1>2, CommitsRest

\* A request that is answered.
LEMMA AnsweredOf ==
  ASSUME AsksOK, NEW a \in DOMAIN asks, NEW answer \in Dialogs!Answers, Dialogs!Answered(a, answer)
  PROVE  \E q \in WalletAskSet : /\ asks' = [asks EXCEPT ![a] = q] /\ q.step = "answered" /\ q.answer = answer
                           /\ q.mount = asks[a].mount /\ q.kind = asks[a].kind /\ q.token = asks[a].token
                           /\ q.hold = asks[a].hold /\ q.fault = asks[a].fault /\ q.left = asks[a].left
<1> DEFINE q == [asks[a] EXCEPT !.step = "answered", !.answer = answer]
<1>1. asks[a] \in WalletAskSet
  BY AskTyped
<1>2. /\ q \in WalletAskSet /\ q.step = "answered" /\ q.answer = answer
      /\ q.mount = asks[a].mount /\ q.kind = asks[a].kind /\ q.token = asks[a].token
      /\ q.hold = asks[a].hold /\ q.fault = asks[a].fault /\ q.left = asks[a].left
  BY <1>1 DEF WalletAskSet
<1>3. asks \in [DOMAIN asks -> WalletAskSet]
  BY LenProperties DEF AsksOK
<1>4. asks' = [asks EXCEPT ![a] = q]
  BY <1>3 DEF Dialogs!Answered
<1> HIDE DEF q
<1> QED BY <1>2, <1>4

\* What the server answers before it takes a hold.
LEMMA UnauthorizedStep == ASSUME WalletInv, NEW a \in DOMAIN asks, Dialogs!Unauthorized(a) PROVE WalletInv'
<1> USE DEF WalletInv
<1>1. /\ asks[a].step = "sent" /\ dead' = dead \cup {asks[a].token} /\ Dialogs!Answered(a, "unauthorized")
      /\ UNCHANGED <<Dialogs!money, header, Dialogs!screen, session>>
  BY DEF Dialogs!Unauthorized
<1>2. asks[a] \in WalletAskSet /\ AskOK(asks[a]) /\ asks[a].token \in Nat
  BY AskTyped DEF WalletAskSet
<1>3. PICK q \in WalletAskSet : /\ asks' = [asks EXCEPT ![a] = q] /\ q.step = "answered"
        /\ q.answer = "unauthorized"
                          /\ q.mount = asks[a].mount /\ q.kind = asks[a].kind /\ q.token = asks[a].token
                               /\ q.hold = asks[a].hold
  BY <1>1, AnsweredOf DEF Dialogs!Answers
<1>4. AskOK(q)'
  BY <1>1, <1>2, <1>3 DEF AskOK, Truthful
<1>5. dead' \in SUBSET Nat /\ IsFiniteSet(dead') /\ dead \subseteq dead'
  BY <1>1, <1>2, FS_AddElement DEF AsksOK
<1>6. CommitsOK'
  BY <1>1, <1>3, NoHoldSettled
<1> QED BY <1>1, <1>3, <1>4, <1>5, <1>6, Replied

\* A reply that is so, and takes no hold and releases none.
LEMMA SaidSo ==
  ASSUME WalletInv, NEW a \in DOMAIN asks, NEW answer \in Dialogs!Answers, Dialogs!Answered(a, answer),
         asks[a].step # "reserved",
         \A q \in WalletAskSet : q.answer = answer /\ q.hold = asks[a].hold /\ q.kind = "withdraw" =>
           Truthful(q), answer # "unauthorized",
         UNCHANGED <<Dialogs!money, header, Dialogs!screen, Dialogs!login>>
  PROVE  WalletInv'
<1> USE DEF WalletInv
<1>1. PICK q \in WalletAskSet : /\ asks' = [asks EXCEPT ![a] = q] /\ q.step = "answered" /\ q.answer = answer
                          /\ q.mount = asks[a].mount /\ q.kind = asks[a].kind /\ q.hold = asks[a].hold
  BY AnsweredOf
<1>2. AskOK(q)'
  BY <1>1 DEF AskOK, Truthful
<1>3. CommitsOK'
  BY <1>1, NoHoldSettled
<1>4. UNCHANGED <<session, dead>> /\ dead \in SUBSET Nat /\ IsFiniteSet(dead)
  BY DEF Dialogs!login, AsksOK
<1> QED BY <1>1, <1>2, <1>3, <1>4, Replied

\* What a failed hold is answered with.
LEMMA ReplyOf == \A f : Dialogs!ReplyFor(f) \in {"insufficient", "refused"}
BY DEF Dialogs!ReplyFor

\* The server opens an invoice.
LEMMA OpenInvoiceStep == ASSUME WalletInv, NEW a \in DOMAIN asks, Dialogs!OpenInvoice(a) PROVE WalletInv'
<1>1. PICK answer \in {"invoice"} \cup {Dialogs!ReplyFor(f) : f \in Dialogs!Failures} : Dialogs!Answered(a, answer)
  BY DEF Dialogs!OpenInvoice
<1>2. answer \in {"invoice", "insufficient", "refused"} /\ asks[a].step = "sent"
        /\ UNCHANGED <<Dialogs!money, header, Dialogs!screen, Dialogs!login>>
  BY <1>1, ReplyOf DEF Dialogs!OpenInvoice, Dialogs!At
<1>3. ~asks[a].hold /\ asks[a].hold \in BOOLEAN
  BY <1>2, AskTyped DEF WalletInv, AskOK, WalletAskSet
<1>4. \A q \in WalletAskSet : q.answer = answer /\ q.hold = asks[a].hold /\ q.kind = "withdraw" => Truthful(q)
  BY <1>2, <1>3 DEF Truthful
<1>5. answer \in Dialogs!Answers /\ answer # "unauthorized"
  BY <1>2 DEF Dialogs!Answers
<1> QED BY <1>1, <1>2, <1>4, <1>5, SaidSo

\* An answer is lost: nothing else changes.
LEMMA LoseStep == ASSUME WalletInv, NEW a \in DOMAIN asks, Dialogs!Lose(a) PROVE WalletInv'
<1>1. Dialogs!Answered(a, "lost") /\ asks[a].step # "reserved"
        /\ UNCHANGED <<Dialogs!money, header, Dialogs!screen, Dialogs!login>>
  BY DEF Dialogs!Lose
<1>2. \A q \in WalletAskSet : q.answer = "lost" /\ q.hold = asks[a].hold /\ q.kind = "withdraw" => Truthful(q)
  BY DEF Truthful
<1> QED BY <1>1, <1>2, SaidSo DEF Dialogs!Answers

\* The ledger commits: what was known stays known.
LEMMA Committed ==
  ASSUME CommitsOK, NEW bal \in Nat, wallet' = Dialogs!Commit(bal)
  PROVE  /\ wallet' \in CommitSet /\ Known(wallet)' /\ Known(header)
         /\ \A c \in CommitSet \cup {Dialogs!NoBalance} : Known(c) => Known(c)'
<1>1. wallet.n \in Nat \ {0} /\ wallet' = [bal |-> bal, n |-> wallet.n + 1]
  BY DEF CommitsOK, CommitSet, Dialogs!Commit
<1>2. wallet' \in CommitSet /\ wallet'.n = wallet.n + 1
  BY <1>1 DEF CommitSet
<1>3. \A c \in CommitSet \cup {Dialogs!NoBalance} : c.n \in Nat
  BY DEF CommitSet, Dialogs!NoBalance
<1>4. \A c \in CommitSet \cup {Dialogs!NoBalance} : Known(c) => Known(c)'
  BY <1>1, <1>2, <1>3 DEF Known
<1>5. Known(wallet)'
  BY <1>2, <1>3 DEF Known
<1> QED BY <1>2, <1>4, <1>5 DEF CommitsOK

\* A commit is newer than all there were.
LEMMA CommitsAfter ==
  ASSUME CommitsOK, NEW bal \in Nat, wallet' = Dialogs!Commit(bal), UNCHANGED <<pushes, header>>,
         unpushed' \in {unpushed, unpushed \cup {wallet'}},
         \A a \in DOMAIN asks' : asks'[a].step = "reserved" => asks'[a].left = wallet'
           \/ (a \in DOMAIN asks /\ asks'[a] = asks[a]),
         excuse' = "none" => LedgerTold'
  PROVE  CommitsOK'
<1>1. /\ wallet' \in CommitSet /\ Known(wallet)'
      /\ \A c \in CommitSet \cup {Dialogs!NoBalance} : Known(c) => Known(c)'
  BY Committed
<1>2. \A i \in 1..Len(pushes) : pushes[i] \in CommitSet
  BY ElementOfSeq DEF CommitsOK
<1>3. \A i \in 1..Len(pushes') : Known(pushes[i])'
  BY <1>1, <1>2 DEF CommitsOK, Known
<1>4. \A c \in unpushed' : c \in CommitSet /\ Known(c)'
  BY <1>1 DEF CommitsOK, Known
<1>5. Known(header)'
  BY <1>1 DEF CommitsOK, Known
<1>6. \A a \in DOMAIN asks' : asks'[a].step = "reserved" => asks'[a].left \in CommitSet /\ Known(asks[a].left)'
  BY <1>1 DEF CommitsOK, Known
<1> QED BY <1>1, <1>3, <1>4, <1>5, <1>6 DEF CommitsOK

\* Nothing of the requests and of the screen changes.
LEMMA OthersRest ==
  ASSUME WalletInv, CommitsOK', UNCHANGED <<asks, session, dead, modal, redirects>>, panel' \in PanelSet,
         panel'.invoice = panel.invoice
  PROVE  WalletInv'
<1>1. AsksOK'
  BY DEF WalletInv, AsksOK, AskOK, Truthful
<1>2. ScreenOK'
  BY ScreenKept DEF WalletInv
<1> QED BY <1>1, <1>2 DEF WalletInv

\* The wallet moves by something else than a dialog.
LEMMA MoveStep == ASSUME Dialogs!WalletAssumption, WalletInv, Dialogs!Move PROVE WalletInv'
<1>1. PICK c \in Amounts : wallet' \in {Dialogs!Commit(wallet.bal + c)}
        \cup (IF c <= wallet.bal THEN {Dialogs!Commit(wallet.bal - c)} ELSE {})
  BY DEF Dialogs!Move
<1>2. c \in Nat /\ wallet.bal \in Nat
  BY DEF Dialogs!WalletAssumption, WalletInv, CommitsOK, CommitSet
<1>3. PICK bal \in Nat : wallet' = Dialogs!Commit(bal)
  <2>1. CASE wallet' = Dialogs!Commit(wallet.bal + c)
    BY <1>2, <2>1
  <2>2. CASE wallet' = Dialogs!Commit(wallet.bal - c) /\ c <= wallet.bal
    <3>1. wallet.bal - c \in Nat
      BY <1>2, <2>2
    <3> QED BY <2>2, <3>1
  <2> QED BY <1>1, <2>1, <2>2
<1>4. unpushed' = unpushed \cup {wallet'}
        /\ UNCHANGED <<pushes, header, asks, session, dead, modal, panel, redirects>>
  BY DEF Dialogs!Move, Dialogs!screen, Dialogs!login
<1>5. CommitsOK'
  <2>1. LedgerTold'
    BY <1>4 DEF LedgerTold
  <2> QED BY <1>3, <1>4, <2>1, CommitsAfter DEF WalletInv
<1> QED BY <1>4, <1>5, OthersRest DEF WalletInv, ScreenOK

\* A frame is put on the socket: it carries the newest commit, or an older one.
LEMMA PushedOf ==
  ASSUME CommitsOK, NEW commit \in CommitSet, Known(commit), Dialogs!PushFrame(commit), UNCHANGED <<wallet, header>>
  PROVE  /\ pushes' \in Seq(CommitSet) /\ pushes' # <<>> /\ pushes'[Len(pushes')] = commit
         /\ \A i \in 1..Len(pushes') : Known(pushes[i])'
         /\ excuse' = "none" => commit = wallet
              \/ (excuse = "none" /\ ~(pushes # <<>> /\ pushes[Len(pushes)] = wallet)
                                                  /\ ~(pushes = <<>> /\ header = wallet))
<1>1. pushes \in Seq(CommitSet) /\ Len(pushes) \in Nat /\ pushes' = Append(pushes, commit)
  BY LenProperties DEF CommitsOK, Dialogs!PushFrame
<1>2. /\ pushes' \in Seq(CommitSet) /\ pushes' # <<>> /\ Len(pushes') = Len(pushes) + 1
      /\ pushes'[Len(pushes) + 1] = commit /\ \A i \in 1..Len(pushes) : pushes'[i] = pushes[i]
  BY <1>1, AppendProperties
<1>3. \A i \in 1..Len(pushes') : Known(pushes[i])'
  <2>1. \A i \in 1..Len(pushes') : i \in 1..Len(pushes) \/ i = Len(pushes) + 1
    BY <1>1, <1>2
  <2> QED BY <1>2, <2>1 DEF CommitsOK, Known
<1>4. wallet.n \in Nat /\ commit.n \in Nat /\ commit.n <= wallet.n /\ (commit.n = wallet.n => commit = wallet)
  BY DEF CommitsOK, CommitSet, Known
<1>5. Dialogs!Sent \in Nat /\ Dialogs!Sent <= wallet.n
  <2>1. CASE pushes = <<>>
    BY <2>1 DEF Dialogs!Sent, CommitsOK, Known, CommitSet, Dialogs!NoBalance
  <2>2. CASE pushes # <<>>
    <3>1. Len(pushes) \in 1..Len(pushes)
      BY <1>1, <2>2, EmptySeq
    <3>2. pushes[Len(pushes)] \in CommitSet /\ Known(pushes[Len(pushes)])
      BY <1>1, <3>1, ElementOfSeq DEF CommitsOK
    <3> QED BY <2>2, <3>2 DEF Dialogs!Sent, Known, CommitSet
  <2> QED BY <2>1, <2>2
<1>6. /\ pushes # <<>> /\ pushes[Len(pushes)] = wallet => Dialogs!Sent = wallet.n
      /\ pushes = <<>> /\ header = wallet => Dialogs!Sent = wallet.n
  BY DEF Dialogs!Sent
<1>7. excuse' = CASE commit.n < Dialogs!Sent     -> "overtaken"
                  [] commit.n = wallet.n -> "none"
                  [] OTHER                -> excuse
  BY DEF Dialogs!PushFrame
<1>8. ASSUME excuse' = "none", commit # wallet
      PROVE  excuse = "none"
               /\ ~(pushes # <<>> /\ pushes[Len(pushes)] = wallet) /\ ~(pushes = <<>> /\ header = wallet)
  <2>1. commit.n < wallet.n /\ commit.n # wallet.n
    BY <1>4, <1>8
  <2>2. CASE commit.n < Dialogs!Sent
    BY <1>7, <1>8, <2>1, <2>2
  <2>3. CASE ~(commit.n < Dialogs!Sent)
    <3>1. Dialogs!Sent # wallet.n
      BY <1>4, <1>5, <2>1, <2>3
    <3>2. excuse' = excuse
      BY <1>7, <2>1, <2>3
    <3> QED BY <1>6, <1>8, <3>1, <3>2
  <2> QED BY <2>2, <2>3
<1> QED BY <1>2, <1>3, <1>8

\* A balance is put on the socket.
LEMMA PushStep == ASSUME WalletInv, NEW commit \in unpushed, Dialogs!Push(commit) PROVE WalletInv'
<1>1. /\ unpushed' = unpushed \ {commit} /\ Dialogs!PushFrame(commit)
      /\ UNCHANGED <<wallet, header, asks, session, dead, modal, panel, redirects>>
  BY DEF Dialogs!Push, Dialogs!screen, Dialogs!login
<1>2. CommitsOK /\ commit \in CommitSet /\ Known(commit)
  BY DEF WalletInv, CommitsOK
<1>3. /\ pushes' \in Seq(CommitSet) /\ pushes' # <<>> /\ pushes'[Len(pushes')] = commit
      /\ \A i \in 1..Len(pushes') : Known(pushes[i])'
      /\ excuse' = "none" => commit = wallet \/ (excuse = "none" /\ ~(pushes # <<>> /\ pushes[Len(pushes)] = wallet)
                                                  /\ ~(pushes = <<>> /\ header = wallet))
  BY <1>1, <1>2, PushedOf
<1>4. CommitsOK'
  <2>1. excuse' = "none" => LedgerTold'
    <3>1. CASE commit = wallet
      BY <1>1, <1>3, <3>1 DEF LedgerTold
    <3>2. CASE commit # wallet
      <4>1. ASSUME excuse' = "none" PROVE LedgerTold
                     /\ (wallet \in unpushed \/ \E a \in DOMAIN asks : asks[a].step = "reserved" /\ asks[a].left = wallet)
        BY <1>2, <1>3, <3>2, <4>1 DEF CommitsOK, LedgerTold
      <4> QED BY <1>1, <3>2, <4>1 DEF LedgerTold
    <3> QED BY <3>1, <3>2
  <2> QED BY <1>1, <1>2, <1>3, <2>1 DEF CommitsOK, Known
<1> QED BY <1>1, <1>4, OthersRest DEF WalletInv, ScreenOK

\* The page takes a balance.
LEMMA TakeStep == ASSUME WalletInv, Dialogs!Take PROVE WalletInv'
<1>1. /\ pushes # <<>> /\ pushes' = Tail(pushes) /\ header' = Head(pushes)
      /\ panel' = [panel EXCEPT !.credited = Dialogs!Credited(panel, header')]
      /\ UNCHANGED <<wallet, unpushed, excuse, asks, session, dead, modal, redirects>>
  BY DEF Dialogs!Take, Dialogs!login
<1>2. panel' \in PanelSet /\ panel'.invoice = panel.invoice
  <2>1. Dialogs!Credited(panel, header') \in BOOLEAN /\ panel \in PanelSet
    BY DEF Dialogs!Credited, WalletInv, ScreenOK, PanelSet
  <2> QED BY <1>1, <2>1 DEF PanelSet
<1>3. pushes \in Seq(CommitSet) /\ Len(pushes) \in Nat \ {0} /\ Head(pushes) = pushes[1]
  BY <1>1, LenProperties, EmptySeq DEF WalletInv, CommitsOK
<1>4. /\ Head(pushes) \in CommitSet /\ pushes' \in Seq(CommitSet) /\ Len(pushes') = Len(pushes) - 1
      /\ \A i \in 1..(Len(pushes) - 1) : pushes'[i] = pushes[i + 1] /\ i + 1 \in 1..Len(pushes)
  <2>1. /\ Head(pushes) \in CommitSet /\ pushes' \in Seq(CommitSet) /\ Len(pushes') = Len(pushes) - 1
        /\ \A i \in 1..(Len(pushes) - 1) : pushes'[i] = pushes[i + 1]
    BY <1>1, <1>3, HeadTailProperties
  <2> QED BY <1>3, <2>1
<1>5. Known(pushes[1]) /\ \A i \in 1..Len(pushes') : Known(pushes[i])'
  <2>1. \A i \in 1..Len(pushes) : Known(pushes[i])
    BY DEF WalletInv, CommitsOK
  <2> QED BY <1>1, <1>3, <1>4, <2>1 DEF Known
<1>6. LedgerTold => LedgerTold'
  <2>1. CASE Len(pushes) = 1
    <3>1. pushes' = <<>> /\ header' = pushes[Len(pushes)]
      BY <1>1, <1>3, <1>4, <2>1, EmptySeq
    <3> QED BY <1>1, <3>1 DEF LedgerTold
  <2>2. CASE Len(pushes) # 1
    <3>1. Len(pushes') # 0 /\ pushes'[Len(pushes')] = pushes[Len(pushes)]
      BY <1>3, <1>4, <2>2
    <3>2. pushes' # <<>>
      BY <3>1, EmptySeq
    <3> QED BY <1>1, <3>1, <3>2 DEF LedgerTold
  <2> QED BY <2>1, <2>2
<1>7. CommitsOK'
  BY <1>1, <1>3, <1>4, <1>5, <1>6 DEF WalletInv, CommitsOK, Known
<1> QED BY <1>1, <1>2, <1>7, OthersRest

\* A hold is taken, or is not.
HeldAs(a, l) == asks' = [asks EXCEPT ![a].step = "reserved", ![a].hold = TRUE, ![a].left = l]

\* A withdrawal whose amount is held.
LEMMA ReservedOf ==
  ASSUME AsksOK, NEW a \in DOMAIN asks, NEW l \in CommitSet, HeldAs(a, l)
  PROVE  \E q \in WalletAskSet : /\ q.step = "reserved" /\ q.hold /\ q.left = l /\ q.kind = asks[a].kind
           /\ q.mount = asks[a].mount
                           /\ q.answer = asks[a].answer /\ asks' = [asks EXCEPT ![a] = q]
<1> DEFINE q == [asks[a] EXCEPT !.step = "reserved", !.hold = TRUE, !.left = l]
<1>1. asks[a] \in WalletAskSet /\ asks \in [DOMAIN asks -> WalletAskSet]
  BY AskTyped, LenProperties DEF AsksOK
<1>2. /\ q \in WalletAskSet /\ q.step = "reserved" /\ q.hold /\ q.left = l /\ q.kind = asks[a].kind
           /\ q.mount = asks[a].mount
      /\ q.answer = asks[a].answer
  BY <1>1 DEF WalletAskSet
<1>3. asks' = [asks EXCEPT ![a] = q]
  BY <1>1 DEF HeldAs
<1> HIDE DEF q
<1> QED BY <1>2, <1>3

\* The withdrawal takes its hold.
LEMMA ReserveStep == ASSUME WalletInv, NEW a \in DOMAIN asks, Dialogs!Reserve(a) PROVE WalletInv'
<1> USE DEF WalletInv
<1>1. Dialogs!At(a, "withdraw", "sent")
        /\ UNCHANGED <<moves, unpushed, pushes, excuse, header, Dialogs!screen, Dialogs!login>>
  BY DEF Dialogs!Reserve
<1>2. asks[a] \in WalletAskSet /\ AskOK(asks[a]) /\ asks[a].step = "sent" /\ asks[a].kind = "withdraw"
        /\ ~asks[a].hold
  BY <1>1, AskTyped DEF Dialogs!At, AskOK
<1>3. CASE \E f \in {"frozen"} \cup (IF wallet.bal < asks[a].amount THEN {"insufficient"} ELSE {}) :
             Dialogs!Answered(a, Dialogs!ReplyFor(f)) /\ UNCHANGED wallet
  <2>1. PICK answer \in {"insufficient", "refused"} : Dialogs!Answered(a, answer)
    BY <1>3, ReplyOf
  <2>2. \A q \in WalletAskSet : q.answer = answer /\ q.hold = asks[a].hold /\ q.kind = "withdraw" => Truthful(q)
    BY <1>2, <2>1 DEF Truthful
  <2>3. UNCHANGED <<Dialogs!money, header, Dialogs!screen, Dialogs!login>> /\ answer \in Dialogs!Answers
          /\ answer # "unauthorized"
    BY <1>1, <1>3, <2>1 DEF Dialogs!money, Dialogs!Answers
  <2> QED BY <1>2, <2>1, <2>2, <2>3, SaidSo
<1>4. CASE /\ wallet.bal >= asks[a].amount /\ wallet' = Dialogs!Commit(wallet.bal - asks[a].amount)
           /\ asks' = [asks EXCEPT ![a].step = "reserved", ![a].hold = TRUE, ![a].left = wallet']
  <2> DEFINE bal == wallet.bal - asks[a].amount
  <2>1. bal \in Nat
    BY <1>2, <1>4 DEF CommitsOK, CommitSet, WalletAskSet
  <2>2. PICK l \in CommitSet : l = wallet'
    BY <1>4, <2>1, Committed
  <2>4. PICK q \in WalletAskSet : /\ q.step = "reserved" /\ q.hold /\ q.left = l /\ q.kind = asks[a].kind
          /\ q.mount = asks[a].mount
                            /\ q.answer = asks[a].answer /\ asks' = [asks EXCEPT ![a] = q]
    <3>1. HeldAs(a, l)
      BY <1>4, <2>2 DEF HeldAs
    <3> QED BY <2>2, <3>1, ReservedOf
  <2> HIDE DEF bal
  <2>5. DOMAIN asks' = DOMAIN asks /\ asks'[a] = q /\ \A b \in DOMAIN asks : b # a => asks'[b] = asks[b]
    BY <2>4, AskChanged
  <2>6. CommitsOK'
    <3>1. LedgerTold'
      BY <2>2, <2>4, <2>5 DEF LedgerTold
    <3>2. \A b \in DOMAIN asks' : asks'[b].step = "reserved" => asks'[b].left = wallet'
            \/ (b \in DOMAIN asks /\ asks'[b] = asks[b])
      BY <2>2, <2>4, <2>5
    <3>3. wallet' = Dialogs!Commit(bal)
      BY <1>4 DEF bal
    <3> QED BY <1>1, <2>1, <3>1, <3>2, <3>3, CommitsAfter
  <2>7. AskOK(q)'
    BY <1>2, <2>4 DEF AskOK
  <2>8. UNCHANGED <<session, Dialogs!screen>> /\ dead' = dead /\ dead \in SUBSET Nat /\ IsFiniteSet(dead)
    BY <1>1 DEF Dialogs!login, AsksOK
  <2> QED BY <1>2, <2>4, <2>6, <2>7, <2>8, Replied
<1> QED BY <1>3, <1>4 DEF Dialogs!Reserve

\* The commits, when a hold is settled and nothing else is committed.
LEMMA HoldSettled ==
  ASSUME AsksOK, CommitsOK, NEW a \in DOMAIN asks, NEW q \in WalletAskSet, asks' = [asks EXCEPT ![a] = q],
         asks[a].step = "reserved", q.step # "reserved", UNCHANGED <<wallet, unpushed, pushes, header>>,
         excuse' = Dialogs!Silent(asks[a].left.n)
  PROVE  CommitsOK'
<1>1. DOMAIN asks' = DOMAIN asks /\ asks'[a] = q /\ \A b \in DOMAIN asks : b # a => asks'[b] = asks[b]
  BY AskChanged
<1>2. excuse' = "none" => excuse = "none" /\ asks[a].left # wallet
  BY DEF Dialogs!Silent
<1>3. excuse' = "none" => LedgerTold'
  BY <1>1, <1>2 DEF CommitsOK, LedgerTold
<1> QED BY <1>1, <1>3 DEF CommitsOK, Known

\* What a gateway makes of it.
LEMMA WithdrawalAcceptedStep == ASSUME WalletInv, NEW a \in DOMAIN asks, Dialogs!Accepted(a) PROVE WalletInv'
<1> USE DEF WalletInv
<1>1. /\ asks[a].kind = "withdraw" /\ asks[a].step = "reserved" /\ Dialogs!Answered(a, "submitted")
           /\ Dialogs!PushFrame(asks[a].left)
      /\ UNCHANGED <<wallet, unpushed, header, session, Dialogs!screen>> /\ dead' = dead
  BY DEF Dialogs!Accepted, Dialogs!At, Dialogs!login
<1>2. asks[a].left \in CommitSet /\ Known(asks[a].left) /\ asks[a].hold
  BY <1>1, AskTyped DEF CommitsOK, AskOK
<1>3. PICK q \in WalletAskSet : /\ asks' = [asks EXCEPT ![a] = q] /\ q.step = "answered" /\ q.answer = "submitted"
                          /\ q.mount = asks[a].mount /\ q.kind = asks[a].kind /\ q.hold = asks[a].hold
  BY <1>1, AnsweredOf DEF Dialogs!Answers
<1>4. DOMAIN asks' = DOMAIN asks /\ asks'[a] = q /\ \A b \in DOMAIN asks : b # a => asks'[b] = asks[b]
  BY <1>3, AskChanged
<1>5. PICK commit \in CommitSet : commit = asks[a].left
  BY <1>2
<1>6. /\ pushes' \in Seq(CommitSet) /\ pushes' # <<>> /\ pushes'[Len(pushes')] = commit
      /\ \A i \in 1..Len(pushes') : Known(pushes[i])'
      /\ excuse' = "none" => commit = wallet \/ (excuse = "none" /\ ~(pushes # <<>> /\ pushes[Len(pushes)] = wallet)
                                               /\ ~(pushes = <<>> /\ header = wallet))
  BY <1>1, <1>2, <1>5, PushedOf
<1>7. CommitsOK'
  <2>1. excuse' = "none" => LedgerTold'
    <3>1. CASE commit = wallet
      BY <1>1, <1>6, <3>1 DEF LedgerTold
    <3>2. CASE commit # wallet
      <4>1. ASSUME excuse' = "none" PROVE wallet \in unpushed \/ \E b \in DOMAIN asks : asks[b].step = "reserved"
                     /\ asks[b].left = wallet
        BY <1>6, <3>2, <4>1 DEF CommitsOK, LedgerTold
      <4>2. ASSUME NEW b \in DOMAIN asks, asks[b].step = "reserved", asks[b].left = wallet
            PROVE  b \in DOMAIN asks' /\ asks'[b].step = "reserved" /\ asks'[b].left = wallet'
        BY <1>1, <1>4, <1>5, <3>2, <4>2
      <4> QED BY <1>1, <4>1, <4>2 DEF LedgerTold
    <3> QED BY <3>1, <3>2
  <2>2. \A b \in DOMAIN asks' : asks'[b].step = "reserved" => b \in DOMAIN asks /\ asks'[b] = asks[b]
    BY <1>3, <1>4
  <2> QED BY <1>1, <1>6, <2>1, <2>2 DEF CommitsOK, Known
<1>8. AskOK(q)'
  BY <1>2, <1>3 DEF AskOK, Truthful
<1> QED BY <1>1, <1>3, <1>7, <1>8, Replied DEF AsksOK

\* The gateway did not say: the hold stays.
LEMMA UnclearStep == ASSUME WalletInv, NEW a \in DOMAIN asks, Dialogs!Unclear(a) PROVE WalletInv'
<1> USE DEF WalletInv
<1>1. /\ asks[a].kind = "withdraw" /\ asks[a].step = "reserved" /\ excuse' = Dialogs!Silent(asks[a].left.n)
      /\ UNCHANGED <<wallet, unpushed, pushes, header, session, Dialogs!screen>> /\ dead' = dead
  BY DEF Dialogs!Unclear, Dialogs!At, Dialogs!login
<1>2. PICK answer \in {"reviewed", "error"} : Dialogs!Answered(a, answer)
  BY DEF Dialogs!Unclear
<1>3. PICK q \in WalletAskSet : /\ asks' = [asks EXCEPT ![a] = q] /\ q.step = "answered" /\ q.answer = answer
                          /\ q.mount = asks[a].mount /\ q.kind = asks[a].kind /\ q.hold = asks[a].hold
  BY <1>2, AnsweredOf DEF Dialogs!Answers
<1>4. asks[a].hold
  BY <1>1, AskTyped DEF AskOK
<1>5. AskOK(q)'
  BY <1>2, <1>3, <1>4 DEF AskOK, Truthful
<1>6. CommitsOK'
  BY <1>1, <1>3, HoldSettled
<1> QED BY <1>1, <1>3, <1>5, <1>6, Replied DEF AsksOK

\* A withdrawal the gateway refused, its hold given back or stuck.
LEMMA RefusedOf ==
  ASSUME AsksOK, NEW a \in DOMAIN asks,
         \/ asks' = [asks EXCEPT ![a].step = "answered", ![a].answer = "refused", ![a].hold = FALSE]
         \/ asks' = [asks EXCEPT ![a].step = "answered", ![a].answer = "refused", ![a].fault = TRUE]
  PROVE  \E q \in WalletAskSet : /\ asks' = [asks EXCEPT ![a] = q] /\ q.step = "answered" /\ q.answer = "refused"
                           /\ q.mount = asks[a].mount /\ q.kind = asks[a].kind /\ (q.hold => q.fault)
<1>1. asks[a] \in WalletAskSet /\ asks \in [DOMAIN asks -> WalletAskSet]
  BY AskTyped, LenProperties DEF AsksOK
<1>2. CASE asks' = [asks EXCEPT ![a].step = "answered", ![a].answer = "refused", ![a].hold = FALSE]
  <2> DEFINE q == [asks[a] EXCEPT !.step = "answered", !.answer = "refused", !.hold = FALSE]
  <2>1. /\ q \in WalletAskSet /\ q.step = "answered" /\ q.answer = "refused" /\ q.mount = asks[a].mount
             /\ q.kind = asks[a].kind
        /\ ~q.hold
    BY <1>1 DEF WalletAskSet, Dialogs!Answers
  <2>2. asks' = [asks EXCEPT ![a] = q]
    BY <1>1, <1>2
  <2> HIDE DEF q
  <2> QED BY <2>1, <2>2
<1>3. CASE asks' = [asks EXCEPT ![a].step = "answered", ![a].answer = "refused", ![a].fault = TRUE]
  <2> DEFINE q == [asks[a] EXCEPT !.step = "answered", !.answer = "refused", !.fault = TRUE]
  <2>1. /\ q \in WalletAskSet /\ q.step = "answered" /\ q.answer = "refused" /\ q.mount = asks[a].mount
             /\ q.kind = asks[a].kind
        /\ q.fault
    BY <1>1 DEF WalletAskSet, Dialogs!Answers
  <2>2. asks' = [asks EXCEPT ![a] = q]
    BY <1>1, <1>3
  <2> HIDE DEF q
  <2> QED BY <2>1, <2>2
<1> QED BY <1>2, <1>3

\* The gateway refuses: the hold is given back, if it can be.
LEMMA RefusedStep == ASSUME WalletInv, NEW a \in DOMAIN asks, Dialogs!Refused(a) PROVE WalletInv'
<1> USE DEF WalletInv
<1>1. /\ asks[a].kind = "withdraw" /\ asks[a].step = "reserved"
      /\ UNCHANGED <<unpushed, pushes, header, session, Dialogs!screen>> /\ dead' = dead
  BY DEF Dialogs!Refused, Dialogs!At, Dialogs!login
<1>2. PICK q \in WalletAskSet : /\ asks' = [asks EXCEPT ![a] = q] /\ q.step = "answered" /\ q.answer = "refused"
                          /\ q.mount = asks[a].mount /\ q.kind = asks[a].kind /\ (q.hold => q.fault)
  BY RefusedOf DEF Dialogs!Refused
<1>3. AskOK(q)'
  BY <1>2 DEF AskOK, Truthful
<1>4. CommitsOK'
  <2>1. CASE wallet' = Dialogs!Commit(wallet.bal + asks[a].amount) /\ excuse' = "silent"
    <3>1. PICK bal \in Nat : bal = wallet.bal + asks[a].amount
      BY AskTyped DEF CommitsOK, CommitSet, WalletAskSet
    <3>2. DOMAIN asks' = DOMAIN asks /\ asks'[a] = q /\ \A b \in DOMAIN asks : b # a => asks'[b] = asks[b]
      BY <1>2, AskChanged
    <3>3. \A b \in DOMAIN asks' : asks'[b].step = "reserved" => asks'[b].left = wallet'
            \/ (b \in DOMAIN asks /\ asks'[b] = asks[b])
      BY <1>2, <3>2
    <3> QED BY <1>1, <2>1, <3>1, <3>3, CommitsAfter
  <2>2. CASE UNCHANGED wallet /\ excuse' = Dialogs!Silent(asks[a].left.n)
    BY <1>1, <1>2, <2>2, HoldSettled
  <2> QED BY <2>1, <2>2 DEF Dialogs!Refused
<1> QED BY <1>1, <1>2, <1>3, <1>4, Replied DEF AsksOK

\* A request more, sent by the panel on screen.
LEMMA AskSent ==
  ASSUME WalletInv, NEW amount \in Nat, modal.open, Dialogs!Ask(amount), UNCHANGED <<Dialogs!money, header, modal,
         redirects, Dialogs!login>>,
         panel' \in PanelSet, panel'.invoice = panel.invoice
  PROVE  WalletInv'
<1> USE DEF WalletInv
<1> DEFINE q == [kind |-> modal.tab, mount |-> modal.mount, step |-> "sent", amount |-> amount,
                 base |-> header.bal, token |-> session, answer |-> "none", hold |-> FALSE,
                 left |-> Dialogs!NoBalance, fault |-> FALSE]
<1>1. asks' = Append(asks, q)
  BY DEF Dialogs!Ask
<1>2. header.bal \in Int /\ modal.tab \in {"deposit", "withdraw"} /\ modal.mount \in Nat /\ session \in Nat
  BY DEF CommitsOK, CommitSet, Dialogs!NoBalance, ScreenOK, AsksOK
<1>3. q \in WalletAskSet /\ q.kind = modal.tab /\ q.mount = modal.mount /\ q.step = "sent" /\ q.answer = "none"
        /\ ~q.hold
  BY <1>2 DEF WalletAskSet, Dialogs!Answers
<1> HIDE DEF q
<1>4. asks \in Seq(WalletAskSet) /\ Len(asks) \in Nat /\ DOMAIN asks = 1..Len(asks)
  BY LenProperties DEF AsksOK
<1>5. /\ asks' \in Seq(WalletAskSet) /\ DOMAIN asks' = 1..(Len(asks) + 1) /\ asks'[Len(asks) + 1] = q
      /\ \A b \in DOMAIN asks : asks'[b] = asks[b]
  BY <1>1, <1>3, <1>4, AppendProperties, LenProperties
<1>6. \A b \in DOMAIN asks' : (b \in DOMAIN asks /\ asks'[b] = asks[b]) \/ asks'[b] = q
  BY <1>4, <1>5
<1>7. DOMAIN asks \subseteq DOMAIN asks' /\ UNCHANGED <<wallet, unpushed, pushes, header, excuse, session, dead>>
  BY <1>4, <1>5 DEF Dialogs!money, Dialogs!login
<1>8. AsksOK'
  <2>1. ASSUME NEW b \in DOMAIN asks' PROVE AskOK(asks[b])'
    BY <1>3, <1>6, <1>7 DEF AsksOK, AskOK, Truthful
  <2> QED BY <1>5, <1>7, <2>1 DEF AsksOK
<1>9. CommitsOK'
  BY <1>3, <1>5, <1>6, <1>7, CommitsRest
<1>10. ScreenOK'
  <2>1. \A b \in DOMAIN asks' : (asks'[b].mount = modal.mount /\ asks'[b].kind = modal.tab)
                               \/ (b \in DOMAIN asks /\ asks'[b].mount = asks[b].mount
                                    /\ asks'[b].kind = asks[b].kind)
    BY <1>3, <1>6
  <2> QED BY <1>5, <1>7, <2>1, ScreenKept
<1> QED BY <1>8, <1>9, <1>10

\* What an answer makes of the panel.
LEMMA PanelOf ==
  ASSUME ScreenOK
  PROVE  /\ panel \in PanelSet
         /\ \A e \in Dialogs!Answers : /\ [panel EXCEPT !.loading = FALSE, !.error = e] \in PanelSet
                               /\ [panel EXCEPT !.loading = FALSE, !.error = e].invoice = panel.invoice
BY DEF ScreenOK, PanelSet

\* The deposit form asks for an invoice.
LEMMA CreateStep == ASSUME WalletInv, Dialogs!CreateInvoice PROVE WalletInv'
<1>1. /\ Dialogs!Ask(0) /\ panel' = [panel EXCEPT !.loading = TRUE, !.error = "none", !.credited = FALSE]
           /\ modal.open
      /\ UNCHANGED <<Dialogs!money, header, modal, redirects, Dialogs!login>>
  BY DEF Dialogs!CreateInvoice, Dialogs!DepositForm
<1>2. panel' \in PanelSet /\ panel'.invoice = panel.invoice
  BY <1>1 DEF WalletInv, ScreenOK, PanelSet, Dialogs!Answers
<1> QED BY <1>1, <1>2, AskSent

\* The withdrawal form asks for its amount.
LEMMA SubmitStep == ASSUME Dialogs!WalletAssumption, WalletInv, NEW amount \in Amounts, Dialogs!Submit(amount) PROVE WalletInv'
<1>1. /\ Dialogs!Ask(amount) /\ panel' = [panel EXCEPT !.loading = TRUE, !.error = "none"] /\ modal.open
           /\ amount \in Nat
      /\ UNCHANGED <<Dialogs!money, header, modal, redirects, Dialogs!login>>
  BY DEF Dialogs!Submit, Dialogs!WithdrawForm, Dialogs!WalletAssumption
<1>2. panel' \in PanelSet /\ panel'.invoice = panel.invoice
  BY <1>1 DEF WalletInv, ScreenOK, PanelSet, Dialogs!Answers
<1> QED BY <1>1, <1>2, AskSent

\* An answer is taken: what was so is so.
LEMMA Taken ==
  ASSUME WalletInv, NEW a \in DOMAIN asks, asks[a].step = "answered", Dialogs!Done(a), UNCHANGED <<Dialogs!money,
         header, Dialogs!login>>
  PROVE  /\ AsksOK' /\ CommitsOK' /\ DOMAIN asks' = DOMAIN asks
         /\ \A b \in DOMAIN asks : asks'[b].mount = asks[b].mount /\ asks'[b].kind = asks[b].kind
<1> USE DEF WalletInv
<1>1. PICK q \in WalletAskSet : /\ asks' = [asks EXCEPT ![a] = q] /\ q.step = "done" /\ q.answer = asks[a].answer
        /\ q.token = asks[a].token
                          /\ q.mount = asks[a].mount /\ q.kind = asks[a].kind /\ q.hold = asks[a].hold
                               /\ q.fault = asks[a].fault
  <2> DEFINE q == [asks[a] EXCEPT !.step = "done"]
  <2>1. asks[a] \in WalletAskSet /\ asks \in [DOMAIN asks -> WalletAskSet]
    BY AskTyped, LenProperties DEF AsksOK
  <2>2. /\ q \in WalletAskSet /\ q.step = "done" /\ q.answer = asks[a].answer /\ q.token = asks[a].token
        /\ q.mount = asks[a].mount /\ q.kind = asks[a].kind /\ q.hold = asks[a].hold /\ q.fault = asks[a].fault
    BY <2>1 DEF WalletAskSet
  <2>3. asks' = [asks EXCEPT ![a] = q]
    BY <2>1 DEF Dialogs!Done
  <2> HIDE DEF q
  <2> QED BY <2>2, <2>3
<1>2. asks' \in Seq(WalletAskSet) /\ DOMAIN asks' = DOMAIN asks /\ asks'[a] = q /\ \A b \in DOMAIN asks : b # a =>
        asks'[b] = asks[b]
  BY <1>1, AskChanged
<1>3. UNCHANGED <<session, dead>> /\ dead \in SUBSET Nat
  BY DEF Dialogs!login, AsksOK
<1>4. AsksOK'
  <2>1. AskOK(q)'
    BY <1>1, <1>3, AskTyped DEF AskOK, Truthful
  <2>2. ASSUME NEW b \in DOMAIN asks' PROVE AskOK(asks[b])'
    <3>1. CASE b = a
      BY <1>2, <2>1, <3>1 DEF AskOK
    <3>2. CASE b # a
      BY <1>2, <1>3, <3>2, AskTyped DEF AskOK, Truthful
    <3> QED BY <3>1, <3>2
  <2> QED BY <1>2, <1>3, <2>2 DEF AsksOK
<1>5. CommitsOK'
  BY <1>1, NoHoldSettled
<1> QED BY <1>1, <1>2, <1>4, <1>5

\* What the panels do with it.
LEMMA TakeInvoiceStep == ASSUME WalletInv, NEW a \in DOMAIN asks, Dialogs!TakeInvoice(a) PROVE WalletInv'
<1>1. /\ asks[a].kind = "deposit" /\ asks[a].step = "answered" /\ Dialogs!Done(a)
           /\ UNCHANGED <<Dialogs!money, header, modal, redirects, Dialogs!login>>
  BY DEF Dialogs!TakeInvoice, Dialogs!At
<1>2. /\ AsksOK' /\ CommitsOK' /\ DOMAIN asks' = DOMAIN asks
      /\ \A b \in DOMAIN asks : asks'[b].mount = asks[b].mount /\ asks'[b].kind = asks[b].kind
  BY <1>1, Taken
<1>3. CASE ~Dialogs!Showing(a)
  <2>1. panel' = panel
    BY <1>3 DEF Dialogs!TakeInvoice
  <2> QED BY <1>1, <1>2, <2>1, ScreenKept, PanelOf DEF WalletInv
<1>4. CASE Dialogs!Showing(a)
  <2> DEFINE p == [panel EXCEPT !.loading = FALSE, !.invoice = a, !.base = asks[a].base]
  <2>1. panel' = [p EXCEPT !.credited = Dialogs!Credited(p, header)]
    BY <1>4 DEF Dialogs!TakeInvoice
  <2>2. a \in Nat /\ asks[a].base \in Int
    BY AskTyped, LenProperties DEF WalletInv, AsksOK, WalletAskSet
  <2>3. p \in PanelSet /\ p.invoice = a
    BY <2>2, PanelOf DEF WalletInv, PanelSet
  <2>4. Dialogs!Credited(p, header) \in BOOLEAN
    BY <2>3 DEF Dialogs!Credited, PanelSet
  <2> HIDE DEF p
  <2>5. panel' \in PanelSet /\ panel'.invoice = a
    BY <2>1, <2>3, <2>4 DEF PanelSet
  <2>6. modal.open /\ asks[a].mount = modal.mount /\ modal.tab = "deposit"
    BY <1>1, <1>4 DEF Dialogs!Showing, WalletInv, ScreenOK, AskedHere
  <2>7. ScreenOK'
    <3>1. Dialogs!InvoiceIsOfThisPanel'
      BY <1>1, <1>2, <2>5, <2>6 DEF Dialogs!InvoiceIsOfThisPanel, Dialogs!Showing
    <3>2. \A b \in DOMAIN asks' : AskedHere(asks[b])'
      BY <1>1, <1>2 DEF WalletInv, ScreenOK, AskedHere
    <3> QED BY <1>1, <1>2, <2>5, <3>1, <3>2 DEF WalletInv, ScreenOK
  <2> QED BY <1>2, <2>7 DEF WalletInv
<1> QED BY <1>3, <1>4

\* An error is shown in the panel that asked.
LEMMA ErrorShown ==
  ASSUME WalletInv, NEW a \in DOMAIN asks, Dialogs!ShowError(a), UNCHANGED <<Dialogs!money, header, modal, Dialogs!login>>
  PROVE  /\ AsksOK' /\ CommitsOK' /\ DOMAIN asks' = DOMAIN asks /\ panel' \in PanelSet
              /\ panel'.invoice = panel.invoice
         /\ \A b \in DOMAIN asks : asks'[b].mount = asks[b].mount /\ asks'[b].kind = asks[b].kind
<1>1. asks[a].step = "answered" /\ Dialogs!Done(a)
  BY DEF Dialogs!ShowError
<1>2. asks[a].answer \in Dialogs!Answers
  BY AskTyped DEF WalletInv, WalletAskSet
<1>3. panel' = panel \/ panel' = [panel EXCEPT !.loading = FALSE, !.error = asks[a].answer]
  BY DEF Dialogs!ShowError
<1>4. panel' \in PanelSet /\ panel'.invoice = panel.invoice
  <2>1. panel \in PanelSet /\ [panel EXCEPT !.loading = FALSE, !.error = asks[a].answer] \in PanelSet
        /\ [panel EXCEPT !.loading = FALSE, !.error = asks[a].answer].invoice = panel.invoice
    BY <1>2, PanelOf DEF WalletInv
  <2> QED BY <1>3, <2>1
<1> QED BY <1>1, <1>4, Taken

\* A deposit was refused.
LEMMA DepositErrorStep == ASSUME WalletInv, NEW a \in DOMAIN asks, Dialogs!TakeDepositError(a) PROVE WalletInv'
<1>1. /\ Dialogs!ShowError(a) /\ UNCHANGED <<Dialogs!money, header, modal, Dialogs!login>>
      /\ redirects' = redirects
           \/ redirects' = redirects \cup {[mount |-> asks[a].mount, late |-> ~Dialogs!Showing(a)]}
  BY DEF Dialogs!TakeDepositError
<1>2. /\ AsksOK' /\ CommitsOK' /\ DOMAIN asks' = DOMAIN asks /\ panel' \in PanelSet
           /\ panel'.invoice = panel.invoice
      /\ \A b \in DOMAIN asks : asks'[b].mount = asks[b].mount /\ asks'[b].kind = asks[b].kind
  BY <1>1, ErrorShown
<1>3. CASE redirects' = redirects
  BY <1>1, <1>2, <1>3, ScreenKept DEF WalletInv
<1>4. CASE redirects' = redirects \cup {[mount |-> asks[a].mount, late |-> ~Dialogs!Showing(a)]}
  <2> DEFINE t == [mount |-> asks[a].mount, late |-> ~Dialogs!Showing(a)]
  <2>1. asks[a].mount \in Nat
    BY AskTyped DEF WalletInv, WalletAskSet
  <2>2. Dialogs!Showing(a) \in BOOLEAN /\ (Dialogs!Showing(a) => modal.open /\ asks[a].mount = modal.mount)
    BY DEF Dialogs!Showing, WalletInv, ScreenOK
  <2>3. t \in [mount : Nat, late : BOOLEAN] /\ (t.late \/ (modal.open /\ t.mount = modal.mount))
    BY <2>1, <2>2
  <2> HIDE DEF t
  <2>4. redirects' \in SUBSET [mount : Nat, late : BOOLEAN] /\ \A x \in redirects' : x.late
          \/ (modal'.open /\ x.mount = modal'.mount)
    BY <1>1, <1>4, <2>3 DEF t, WalletInv, ScreenOK
  <2>5. Dialogs!InvoiceIsOfThisPanel'
    BY <1>1, <1>2 DEF WalletInv, ScreenOK, Dialogs!InvoiceIsOfThisPanel, Dialogs!Showing
  <2>6. \A b \in DOMAIN asks' : AskedHere(asks[b])'
    BY <1>1, <1>2 DEF WalletInv, ScreenOK, AskedHere
  <2> QED BY <1>1, <1>2, <2>4, <2>5, <2>6 DEF WalletInv, ScreenOK
<1> QED BY <1>1, <1>3, <1>4

\* A withdrawal was refused.
LEMMA WithdrawErrorStep == ASSUME WalletInv, NEW a \in DOMAIN asks, Dialogs!TakeWithdrawError(a) PROVE WalletInv'
<1>1. Dialogs!ShowError(a) /\ UNCHANGED <<Dialogs!money, header, modal, redirects, Dialogs!login>>
  BY DEF Dialogs!TakeWithdrawError
<1>2. /\ AsksOK' /\ CommitsOK' /\ DOMAIN asks' = DOMAIN asks /\ panel' \in PanelSet
           /\ panel'.invoice = panel.invoice
      /\ \A b \in DOMAIN asks : asks'[b].mount = asks[b].mount /\ asks'[b].kind = asks[b].kind
  BY <1>1, ErrorShown
<1> QED BY <1>1, <1>2, ScreenKept DEF WalletInv

\* A panel leaves the screen.
LEMMA UnmountOf == ASSUME Dialogs!Unmount PROVE modal' = [modal EXCEPT !.open = FALSE] /\ panel' = Dialogs!Fresh
  /\ redirects' \subseteq redirects \ Dialogs!PendingOf(modal.mount)
BY DEF Dialogs!Unmount

\* A withdrawal was taken: the dialog that is open by now closes.
LEMMA SubmittedStep == ASSUME WalletInv, NEW a \in DOMAIN asks, Dialogs!TakeSubmitted(a) PROVE WalletInv'
<1>1. asks[a].step = "answered" /\ Dialogs!Done(a) /\ UNCHANGED <<Dialogs!money, header, Dialogs!login>>
  BY DEF Dialogs!TakeSubmitted, Dialogs!At
<1>2. /\ AsksOK' /\ CommitsOK' /\ DOMAIN asks' = DOMAIN asks
      /\ \A b \in DOMAIN asks : asks'[b].mount = asks[b].mount /\ asks'[b].kind = asks[b].kind
  BY <1>1, Taken
<1>3. ScreenOK'
  <2>1. CASE modal.open
    BY <1>2, <2>1, UnmountOf, ScreenLeft DEF Dialogs!TakeSubmitted, WalletInv
  <2>2. CASE ~modal.open
    <3>1. UNCHANGED <<modal, panel, redirects>>
      BY <2>2 DEF Dialogs!TakeSubmitted, Dialogs!screen
    <3> QED BY <1>2, <3>1, ScreenKept, PanelOf DEF WalletInv
  <2> QED BY <2>1, <2>2
<1> QED BY <1>2, <1>3 DEF WalletInv

\* The requests and the commits rest.
LEMMA BothRest ==
  ASSUME WalletInv, UNCHANGED <<Dialogs!money, header, asks, dead>>, session' \in Nat
  PROVE  AsksOK' /\ CommitsOK'
<1>1. UNCHANGED <<wallet, unpushed, pushes, excuse>>
  BY DEF Dialogs!money
<1>2. CommitsOK'
  BY <1>1, CommitsRest DEF WalletInv
<1> QED BY <1>2 DEF WalletInv, AsksOK, AskOK, Truthful

\* A panel is opened, or its tab switched.
LEMMA MountStep == ASSUME WalletInv, NEW tab \in {"deposit", "withdraw"}, Dialogs!Open(tab)
  \/ Dialogs!SwitchTab(tab) PROVE WalletInv'
<1>1. Dialogs!Mount(tab) /\ UNCHANGED <<Dialogs!money, header, asks, session, dead>>
  BY DEF Dialogs!Open, Dialogs!SwitchTab, Dialogs!login
<1>2. session \in Nat
  BY DEF WalletInv, AsksOK
<1> QED BY <1>1, <1>2, BothRest, ScreenMounted DEF WalletInv

\* The dialog is closed: what is asked for goes on without it.
LEMMA WalletCloseStep == ASSUME WalletInv, Dialogs!Close PROVE WalletInv'
<1>1. Dialogs!Unmount /\ UNCHANGED <<Dialogs!money, header, asks, session, dead>>
  BY DEF Dialogs!Close, Dialogs!login
<1>2. session \in Nat
  BY DEF WalletInv, AsksOK
<1> QED BY <1>1, <1>2, BothRest, UnmountOf, ScreenLeft DEF WalletInv

\* Another deposit is started on the same panel.
LEMMA NewDepositStep == ASSUME WalletInv, Dialogs!NewDeposit PROVE WalletInv'
<1>1. panel' = [panel EXCEPT !.invoice = 0, !.credited = FALSE]
        /\ UNCHANGED <<Dialogs!money, header, modal, redirects, asks, session, dead>>
  BY DEF Dialogs!NewDeposit, Dialogs!login
<1>2. panel' \in PanelSet /\ panel'.invoice = 0 /\ session \in Nat
  BY <1>1, PanelOf DEF WalletInv, PanelSet, AsksOK
<1>3. ScreenOK'
  BY <1>1, <1>2, ScreenKept DEF WalletInv
<1> QED BY <1>1, <1>2, <1>3, BothRest DEF WalletInv

\* The session is over, and the player is sent to log in.
LEMMA SignOutStep == ASSUME WalletInv, Dialogs!LogInAgain
  \/ \E t \in redirects : Dialogs!Redirect(t) PROVE WalletInv'
<1>1. /\ session' = 0 /\ modal' = [modal EXCEPT !.open = FALSE] /\ panel' = Dialogs!Fresh
           /\ UNCHANGED <<Dialogs!money, header, asks, dead>>
      /\ redirects' \subseteq redirects \ Dialogs!PendingOf(modal.mount)
  BY DEF Dialogs!LogInAgain, Dialogs!Redirect, Dialogs!SignOut
<1>2. ScreenOK'
  BY <1>1, ScreenLeft DEF WalletInv
<1> QED BY <1>1, <1>2, BothRest DEF WalletInv

\* A player logs in.
LEMMA LogInStep == ASSUME WalletInv, Dialogs!LogIn PROVE WalletInv'
<1>1. session' = Dialogs!Cardinality(dead) + 1
        /\ UNCHANGED <<Dialogs!money, header, asks, dead, modal, panel, redirects>>
  BY DEF Dialogs!LogIn, Dialogs!screen
<1>2. session' \in Nat
  BY <1>1, DialogCount, FS_CardinalityType DEF WalletInv, AsksOK
<1>3. ScreenOK'
  BY <1>1, ScreenKept, PanelOf DEF WalletInv
<1> QED BY <1>1, <1>2, <1>3, BothRest DEF WalletInv

\* Every step keeps the invariant.
LEMMA WalletStep == ASSUME Dialogs!WalletAssumption, WalletInv, Dialogs!Next PROVE WalletInv'
BY MoveStep, TakeStep, WalletCloseStep, CreateStep, NewDepositStep, SignOutStep, LogInStep, PushStep, MountStep,
   SubmitStep,
   UnauthorizedStep, OpenInvoiceStep, ReserveStep, WithdrawalAcceptedStep, UnclearStep, RefusedStep, LoseStep, TakeInvoiceStep,
   DepositErrorStep, WithdrawErrorStep, SubmittedStep DEF Dialogs!Next

\* What the dialogs say is what became of the money.
LEMMA WalletHolds == ASSUME WalletInv PROVE Dialogs!ToldTheTruth /\ Dialogs!ScreenKeepsUp
  /\ Dialogs!InvoiceIsOfThisPanel /\ Dialogs!NoRedirectBehind
<1> USE DEF WalletInv
<1>1. Dialogs!ToldTheTruth
  BY DEF Dialogs!ToldTheTruth, AsksOK, AskOK, Truthful
<1>2. Dialogs!ScreenKeepsUp
  BY DEF Dialogs!ScreenKeepsUp, CommitsOK, LedgerTold
<1>3. Dialogs!InvoiceIsOfThisPanel /\ Dialogs!NoRedirectBehind
  BY DEF ScreenOK, Dialogs!NoRedirectBehind, AsksOK, AskOK
<1> QED BY <1>1, <1>2, <1>3

-----------------------------------------------------------------------------
(* The balance during a flight *)

\* Of a flight of Avia Masters the balance of its start is kept.
FlightInv ==
  control = "avia" =>
    /\ stakePhase \in {"idle", "busy"} /\ heard \in BOOLEAN
    /\ stakePhase = "busy" /\ ~heard => launch = stake.funds

\* No flight has left.
LEMMA FlightInit == ASSUME Stake!Init PROVE FlightInv
BY DEF Stake!Init, FlightInv

\* Every step keeps the invariant.
LEMMA FlightStep == ASSUME FlightInv, Stake!Next PROVE FlightInv'
<1>1. ASSUME UNCHANGED <<control, stakePhase, stake, launch, heard>> PROVE FlightInv'
  BY <1>1 DEF FlightInv
<1>2. ASSUME Stake!Submit PROVE FlightInv'
  <2>1. PICK amount \in Stake!StakesOf : stake' = [stake |-> amount, field |-> stakeText, funds |-> stakeFunds]
    BY <1>2 DEF Stake!Submit
  <2>2. stake'.funds = stakeFunds /\ stakePhase' = "busy" /\ control' = control /\ heard' = heard
        /\ (control = "avia" => launch' = stakeFunds)
    BY <1>2, <2>1 DEF Stake!Submit
  <2> QED BY <2>2 DEF FlightInv
<1>3. ASSUME Stake!Answer PROVE FlightInv'
  <2>1. CASE Stake!Released
    BY <2>1 DEF Stake!Released, FlightInv
  <2>2. CASE stakePhase = "busy" /\ control \in {"bet controls", "chicken"} /\ UNCHANGED control
    BY <2>2 DEF FlightInv
  <2> QED BY <1>3, <2>1, <2>2 DEF Stake!Answer
<1>4. ASSUME Stake!Cashout PROVE FlightInv'
  BY <1>4 DEF Stake!Cashout, FlightInv
<1>5. ASSUME Stake!ErrorDuringFlight PROVE FlightInv'
  BY <1>5 DEF Stake!ErrorDuringFlight, FlightInv
<1>6. ASSUME Stake!Type \/ Stake!Blur \/ Stake!BalanceArrives \/ \E button \in Stake!Buttons : Stake!Press(button)
      PROVE  UNCHANGED <<control, stakePhase, stake, launch, heard>>
  BY <1>6 DEF Stake!Type, Stake!Blur, Stake!BalanceArrives, Stake!Press
<1> QED BY <1>1, <1>2, <1>3, <1>4, <1>5, <1>6 DEF Stake!Next

\* The balance on screen is that of the start.
LEMMA FlightHolds == ASSUME FlightInv PROVE Stake!FlightKeepsItsSecret
BY DEF FlightInv, Stake!FlightKeepsItsSecret, Stake!shownBalance

-----------------------------------------------------------------------------
(* The pages together *)

PagesInv == RoadInv /\ MinesInv /\ BoardInv /\ FairInv /\ FeedInv /\ WalletInv /\ FlightInv

\* Whatever the part, every page starts from its own start.
LEMMA PagesInit == ASSUME RoundsInit PROVE PagesInv
<1>1. Road!Init /\ Field!Init /\ Board!Init /\ Fair!Init /\ Feed!Init /\ Dialogs!Init /\ Stake!Init
  BY DEF RoundsInit
<1> QED
  BY PagesAssumption, <1>1, RoadInit, MinesInit, BoardInit, FairInit, FeedInit, WalletInit, FlightInit
  DEF PagesAssumption, PagesInv

\* A page that is left alone keeps its invariant.
LEMMA RoadRests == ASSUME RoadInv, UNCHANGED roadVars PROVE RoadInv'
BY DEF roadVars, RoadInv, RoadTypes, RoundInv, Road!Playing, UpInv, RoundSettling, FramesInv, FrameFits, NoWins,
   ShowInv,
       Final, OnlyErrors, Road!ShownIsDecided, TimersInv, ResumeInv, Resuming, LaneInv, RoadBase, Top

LEMMA MinesRests == ASSUME MinesInv, UNCHANGED fieldVars PROVE MinesInv'
BY DEF fieldVars, MinesInv, MinesTypes, TilesSafe, OneAskAtATime, Agree, Within, AskFits, TileComing, Fits

LEMMA BoardRests == ASSUME BoardInv, UNCHANGED boardVars PROVE BoardInv'
BY DEF boardVars, BoardInv, BoardTypes, OneUnderWay, AnswerFits, IsLast, AnnouncedOK

LEMMA FairRests == ASSUME FairInv, UNCHANGED seedVars PROVE FairInv'
BY DEF seedVars, FairInv, FairTypes, SeedsReached, Reached, Played, Fair!RevealIsHonoured, Told, After, Fair!Active

LEMMA FeedRests == ASSUME FeedInv, UNCHANGED feedVars PROVE FeedInv'
BY DEF feedVars, FeedInv, FeedTypes, RowsAreBets, AskedForTheRow, Feed!RecordIsOfThisBet, Feed!SealedWhileActive,
       Complete, RowsComing

LEMMA WalletRests == ASSUME WalletInv, UNCHANGED walletVars PROVE WalletInv'
BY DEF walletVars, WalletInv, AsksOK, AskOK, CommitsOK, Known, LedgerTold, ScreenOK, AskedHere,
       Dialogs!InvoiceIsOfThisPanel, Dialogs!Showing

LEMMA FlightRests == ASSUME FlightInv, UNCHANGED stakeVars PROVE FlightInv'
BY DEF stakeVars, FlightInv

\* A step is a step of one page, and the others rest.
LEMMA PagesStep == ASSUME PagesInv, [RoundsNext]_roundsVars PROVE PagesInv'
<1>1. /\ Road!Next \/ UNCHANGED roadVars
      /\ Field!Next \/ UNCHANGED fieldVars
      /\ Board!Next \/ UNCHANGED boardVars
      /\ Fair!Next \/ UNCHANGED seedVars
      /\ Feed!Next \/ UNCHANGED feedVars
      /\ Dialogs!Next \/ UNCHANGED walletVars
      /\ Stake!Next \/ UNCHANGED stakeVars
  BY DEF RoundsNext, roundsVars
<1>2. RoadInv'
  BY PagesAssumption, <1>1, RoadStep, RoadRests DEF PagesInv, PagesAssumption
<1>3. MinesInv'
  BY PagesAssumption, <1>1, MinesStep, MinesRests DEF PagesInv, PagesAssumption
<1>4. BoardInv'
  BY PagesAssumption, <1>1, BoardStep, BoardRests DEF PagesInv, PagesAssumption
<1>5. FairInv'
  BY PagesAssumption, <1>1, FairStep, FairRests DEF PagesInv, PagesAssumption
<1>6. FeedInv'
  BY PagesAssumption, <1>1, FeedStep, FeedRests DEF PagesInv, PagesAssumption
<1>7. WalletInv'
  BY PagesAssumption, <1>1, WalletStep, WalletRests DEF PagesInv, PagesAssumption
<1>8. FlightInv'
  BY <1>1, FlightStep, FlightRests DEF PagesInv
<1> QED BY <1>2, <1>3, <1>4, <1>5, <1>6, <1>7, <1>8 DEF PagesInv

\* An undisturbed page shows what its server decided, whatever the timers and however late
\* its frames.  Each property states what disturbs it: a lost connection, an error meant for
\* another call, an answer overtaken by a newer one.  The loss and the payout of the round on
\* the board, never a lane ahead of the one that is held (ChickenRoad.tsx), tiles without a
\* mine (games/mines/page.tsx), the round a board announces (useGameRound.ts), the seed that
\* decides the next bet (ProvablyFairModal.tsx, GameSocketProvider.tsx), every bet of the feed
\* with its own record (LiveBetsFeed.tsx, BetDetailsModal.tsx), what became of a hold and of an
\* invoice (WithdrawModal.tsx, DepositModal.tsx), and not yet what a flight will win
\* (AviaMasters.tsx).
THEOREM PagesTellTheTruth == RoundsSpec => []PagesShowWhatWasDecided
<1>1. RoundsInit => PagesInv
  BY PagesInit
<1>2. PagesInv /\ [RoundsNext]_roundsVars => PagesInv'
  BY PagesStep
<1>3. PagesInv => PagesShowWhatWasDecided
  <2> SUFFICES ASSUME PagesInv PROVE PagesShowWhatWasDecided
    OBVIOUS
  <2>1. Road!ShownIsDecided /\ Road!BoardNeverAhead
    BY PagesAssumption, RoadHolds DEF PagesInv, PagesAssumption
  <2>2. Field!ShownTilesAreSafe /\ Field!OutcomeIsDecided
    BY MinesHolds DEF PagesInv
  <2>3. Board!AnnouncesTheRound /\ Stake!FlightKeepsItsSecret
    BY BoardHolds, FlightHolds DEF PagesInv
  <2>4. Fair!StaysCurrent /\ Fair!NeverAhead /\ Fair!RevealIsHonoured
    BY FairHolds DEF PagesInv
  <2>5. Feed!RecordIsOfThisBet /\ Feed!SealedWhileActive /\ Feed!FeedMissesNothing
    BY FeedHolds DEF PagesInv
  <2>6. /\ Dialogs!ToldTheTruth /\ Dialogs!ScreenKeepsUp
        /\ Dialogs!InvoiceIsOfThisPanel /\ Dialogs!NoRedirectBehind
    BY WalletHolds DEF PagesInv
  <2> QED BY <2>1, <2>2, <2>3, <2>4, <2>5, <2>6 DEF PagesShowWhatWasDecided
<1> QED BY <1>1, <1>2, <1>3, PTL DEF RoundsSpec
=============================================================================
