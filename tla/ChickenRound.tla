---------------------------- MODULE ChickenRound ----------------------------
(***************************************************************************)
(* Chicken Road for one player: the handlers of websocket/socket.server.ts *)
(* over the in-memory store of websocket/gameState.store.ts.               *)
(*                                                                         *)
(* Node runs one handler at a time and switches at an await, so a call is  *)
(* a program counter: each action here is the code between two awaits.     *)
(* Frames of several sockets of one player interleave without limit.  What *)
(* the ledger has committed survives a restart of the process; the store,  *)
(* the flags and the calls do not.                                         *)
(*                                                                         *)
(* A bet is the number of its BET row, 1, 2, ...; a multiplier is the lane *)
(* it is the price of.  RESUME only reads and is left out.                 *)
(***************************************************************************)
EXTENDS Naturals, FiniteSets

CONSTANTS
  Calls,           \* handler invocations that may be under way at once
  MaxBets,         \* bound: bets placed
  MaxRestarts,     \* bound: restarts of the process
  MaxLanes,        \* the last lane of the road (chicken.maxLanes)
  MaxOverrun,      \* bound: lanes stepped into beyond the last one
  MinCashoutLane   \* the lane that unlocks the cash out (chicken.minCashoutLane)

BoundsAssumption == MaxBets \in Nat /\ MaxRestarts \in Nat /\ MaxOverrun \in Nat
LanesAssumption == MaxLanes \in Nat \ {0} /\ MinCashoutLane \in 1..MaxLanes
ChickenAssumption == BoundsAssumption /\ LanesAssumption

Bets == 1..MaxBets
NoBet == 0
NoLane == 0   \* bustLane = null: this seed survives the road
Lanes == 0..(MaxLanes + MaxOverrun)

VARIABLES
  placed,          \* BET rows committed: the bets are 1..placed
  paid,            \* paid[b]: the lane the WIN row of b paid for, 0 without one
  sessions,        \* sessions[b]: GameSession rows written for b
  busted,          \* bets whose round ran into its bust lane
  chicken,         \* gameState.chicken of the player: a bet, or NoBet
  state,           \* state[b]: the ChickenState object of bet b
  startsInFlight,  \* the player is in chickenStartsInFlight
  call,            \* call[c]: where handler call c stands
  restarts         \* counts restarts, for the bound

vars == <<placed, paid, sessions, busted, chicken, state, startsInFlight, call, restarts>>

Round == [lane: Lanes, bustLane: 0..MaxLanes, active: BOOLEAN]
Call == [pc: {"idle", "debit", "seed", "credit", "clear", "record"},
         bet: 0..MaxBets, multiplier: Lanes]

Idle == [pc |-> "idle", bet |-> NoBet, multiplier |-> 0]

At(c, pc) == call[c].pc = pc

Goto(c, pc, b, m) == call' = [call EXCEPT ![c] = [pc |-> pc, bet |-> b, multiplier |-> m]]

Return(c) == call' = [call EXCEPT ![c] = Idle]

Init ==
  /\ placed = 0
  /\ paid = [b \in Bets |-> 0]
  /\ sessions = [b \in Bets |-> 0]
  /\ busted = {}
  /\ chicken = NoBet
  /\ state = [b \in Bets |-> [lane |-> 0, bustLane |-> NoLane, active |-> FALSE]]
  /\ startsInFlight = FALSE
  /\ call = [c \in Calls |-> Idle]
  /\ restarts = 0

\* The round a frame finds: gameState.getChicken(userId)?.active
Live == chicken # NoBet /\ state[chicken].active

-----------------------------------------------------------------------------
(* BET *)

MayStart == ~Live /\ ~startsInFlight

Start(c) ==
  /\ At(c, "idle") /\ MayStart
  /\ startsInFlight' = TRUE
  /\ Goto(c, "debit", NoBet, 0)
  /\ UNCHANGED <<placed, paid, sessions, busted, chicken, state, restarts>>

\* processBet commits.
Debit(c) ==
  /\ At(c, "debit") /\ placed < MaxBets
  /\ placed' = placed + 1
  /\ Goto(c, "seed", placed + 1, 0)
  /\ UNCHANGED <<paid, sessions, busted, chicken, state, startsInFlight, restarts>>

\* The seed is there: the round is opened on it, and the finally runs.
Open(c) ==
  LET b == call[c].bet IN
  /\ At(c, "seed")
  /\ \E bust \in 0..MaxLanes :
       state' = [state EXCEPT ![b] = [lane |-> 0, bustLane |-> bust, active |-> TRUE]]
  /\ chicken' = b
  /\ startsInFlight' = FALSE
  /\ Return(c)
  /\ UNCHANGED <<placed, paid, sessions, busted, restarts>>

\* processBet refuses the stake, or the seed lookup throws after it was taken.
StartFails(c) ==
  /\ At(c, "debit") \/ At(c, "seed")
  /\ startsInFlight' = FALSE
  /\ Return(c)
  /\ UNCHANGED <<placed, paid, sessions, busted, chicken, state, restarts>>

-----------------------------------------------------------------------------
(* STEP and CASHOUT *)

Close_Later(s) == s

\* Settlement closes the round before its first await.
Close(s) == [s EXCEPT !.active = FALSE]

\* The lane a settlement pays for: multiplierAt(state.mode, state.lane).
Price(s) == s.lane

\* The last lane settles the round.  When that settlement fails the round is
\* open again on it, and nothing stops the next STEP from leaving the road.
StepInto(c) ==
  LET lane == state[chicken].lane + 1 IN
  /\ At(c, "idle") /\ Live /\ lane \in Lanes
  /\ \/ /\ state[chicken].bustLane = lane
        /\ state' = [state EXCEPT ![chicken].active = FALSE]
        /\ busted' = busted \cup {chicken}
        /\ chicken' = NoBet
        /\ Goto(c, "record", chicken, 0)
     \/ /\ state[chicken].bustLane # lane /\ lane < MaxLanes
        /\ state' = [state EXCEPT ![chicken].lane = lane]
        /\ UNCHANGED <<busted, chicken, call>>
     \/ /\ state[chicken].bustLane # lane /\ lane >= MaxLanes
        /\ state' = [state EXCEPT ![chicken] = Close([@ EXCEPT !.lane = lane])]
        /\ Goto(c, "credit", chicken, Price(state'[chicken]))
        /\ UNCHANGED <<busted, chicken>>
  /\ UNCHANGED <<placed, paid, sessions, startsInFlight, restarts>>

Unlocked_AnyLane(lane) == TRUE

Unlocked(lane) == lane >= MinCashoutLane

Cashout(c) ==
  /\ At(c, "idle") /\ Live /\ Unlocked(state[chicken].lane)
  /\ state' = [state EXCEPT ![chicken] = Close(@)]
  /\ Goto(c, "credit", chicken, Price(state[chicken]))
  /\ UNCHANGED <<placed, paid, sessions, busted, chicken, startsInFlight, restarts>>

\* processWin commits, or finds the WIN row of this bet and commits nothing new.
Credit(c) ==
  LET b == call[c].bet IN
  /\ At(c, "credit")
  /\ paid' = [paid EXCEPT ![b] = IF @ = 0 THEN call[c].multiplier ELSE @]
  /\ Goto(c, "clear", b, 0)
  /\ UNCHANGED <<placed, sessions, busted, chicken, state, startsInFlight, restarts>>

CreditFails_Clears(c) ==
  /\ At(c, "credit")
  /\ state' = [state EXCEPT ![call[c].bet] = [@ EXCEPT !.active = TRUE]]
  /\ chicken' = NoBet
  /\ Return(c)
  /\ UNCHANGED <<placed, paid, sessions, busted, startsInFlight, restarts>>

Reopen(s) == [s EXCEPT !.active = TRUE]

\* payoutOf or processWin throws: nothing was credited, the object of the round is
\* open again, whether or not the store still holds it.
CreditFails(c) ==
  /\ At(c, "credit")
  /\ state' = [state EXCEPT ![call[c].bet] = Reopen(@)]
  /\ Return(c)
  /\ UNCHANGED <<placed, paid, sessions, busted, chicken, startsInFlight, restarts>>

\* clearChicken(userId): whatever round the store holds by now.
Clear(c) ==
  /\ At(c, "clear")
  /\ chicken' = NoBet
  /\ Goto(c, "record", call[c].bet, 0)
  /\ UNCHANGED <<placed, paid, sessions, busted, state, startsInFlight, restarts>>

\* gameSession.create, which may fail without undoing anything.
RecordSession(c) ==
  /\ At(c, "record")
  /\ \/ sessions' = [sessions EXCEPT ![call[c].bet] = @ + 1]
     \/ UNCHANGED sessions
  /\ Return(c)
  /\ UNCHANGED <<placed, paid, busted, chicken, state, startsInFlight, restarts>>

-----------------------------------------------------------------------------
\* The process dies: what was only in memory is gone.
Restart ==
  /\ restarts < MaxRestarts
  /\ restarts' = restarts + 1
  /\ chicken' = NoBet
  /\ state' = [b \in Bets |-> [state[b] EXCEPT !.active = FALSE]]
  /\ startsInFlight' = FALSE
  /\ call' = [c \in Calls |-> Idle]
  /\ UNCHANGED <<placed, paid, sessions, busted>>

Frame(c) == Start(c) \/ StepInto(c) \/ Cashout(c)

Continue(c) ==
  \/ Debit(c) \/ Open(c) \/ StartFails(c)
  \/ Credit(c) \/ CreditFails(c) \/ Clear(c) \/ RecordSession(c)

Next == (\E c \in Calls : Frame(c) \/ Continue(c)) \/ Restart

\* What a call awaits settles in the end, one way or the other.
Fairness == \A c \in Calls : WF_vars(Continue(c))

Spec == Init /\ [][Next]_vars
FairSpec == Spec /\ Fairness

-----------------------------------------------------------------------------
(* Properties *)

TypeOK ==
  /\ placed \in 0..MaxBets
  /\ paid \in [Bets -> Lanes]
  /\ sessions \in [Bets -> Nat]
  /\ busted \subseteq Bets
  /\ chicken \in 0..MaxBets
  /\ state \in [Bets -> Round]
  /\ startsInFlight \in BOOLEAN
  /\ call \in [Calls -> Call]
  /\ restarts \in 0..MaxRestarts

\* "Two BET frames sent back to back would each pass the check and debit twice
\* for one round" (socket.server.ts:681-685): the flag lets one start at a time
\* between the check and the moment the round exists.
Starting(c) == At(c, "debit") \/ At(c, "seed")
OneStart == \A c, d \in Calls : Starting(c) /\ Starting(d) => c = d

\* A WIN is the price of exactly the lanes the round has crossed, all of them
\* safe, and never less than the unlock lane: no STEP or bust slips in between
\* the pricing and the credit.
PaidForItsLane ==
  \A b \in Bets :
    paid[b] # 0 =>
      /\ paid[b] = state[b].lane
      /\ paid[b] >= MinCashoutLane
      /\ state[b].bustLane \notin 1..paid[b]

\* Every decided round leaves at most one row in the history, and an undecided
\* one none (GameSession is what the live feed and the fairness page show).
OneSession ==
  \A b \in Bets : sessions[b] <= IF paid[b] # 0 \/ b \in busted THEN 1 ELSE 0

OneAtATime == OneStart /\ OneSession

\* The promise of a wager: taken once, decided at most once, never both ways.
Outcome(b) ==
  IF b > placed THEN "unplaced"
  ELSE IF paid[b] # 0 THEN "won"
  ELSE IF b \in busted THEN "lost" ELSE "open"

Abstract == INSTANCE Wager WITH outcome <- [b \in Bets |-> Outcome(b)]
ImplementsWager == Abstract!WagerSpec

\* A settlement that began ends: the bet is paid, or its round is open and still the
\* one the store holds, "the player's to cash out" (socket.server.ts:877), unless the
\* process died meanwhile.  The store has one place a player and is read again after
\* each await: the round may have been displaced there while its credit was awaited,
\* by a later one opened in its place or by the clear of another that was paid.  With
\* no other round in between there is no such excuse.
Settling(b) == \E c \in Calls : At(c, "credit") /\ call[c].bet = b
Playable(b) == chicken = b /\ state[b].active
Displaced(b) == chicken # b /\ \E e \in 1..placed : e > b \/ (e # b /\ paid[e] # 0)
SettlementEnds ==
  \A b \in Bets : Settling(b) ~> (paid[b] # 0 \/ Playable(b) \/ Displaced(b) \/ restarts > 0)

\* "Every state change a second frame could race is made synchronously, before
\* the first await" (socket.server.ts:677-678): so no frame takes a round away
\* that is still being played.  A BET during the awaited credit does, and so does
\* clearChicken, which runs after it.
RoundKeptUntilDecided ==
  [][\A b \in Bets : chicken = b /\ chicken' # b => paid[b] # 0 \/ b \in busted']_vars
=============================================================================
