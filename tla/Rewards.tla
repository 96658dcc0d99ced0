------------------------------ MODULE Rewards ------------------------------
(***************************************************************************)
(* Money for nothing: the daily wheel and the rakeback of                  *)
(* services/bonus.service.ts, the check-in and the promo codes of          *)
(* services/rewards.service.ts, and the cashback of routes/streak.routes.ts.*)
(*                                                                         *)
(* Every handler reads, then claims with a guarded write, then credits in  *)
(* a transaction of its own.  The rakeback claims under a lock on the      *)
(* player's row while it reads the totals through a second connection of   *)
(* the same pool.  `now` is taken when the handler starts, and midnight    *)
(* may pass at any of its awaits.                                          *)
(***************************************************************************)
EXTENDS RewardClaims, Sequences

CONSTANTS
  Requests,        \* handlers that may run at once
  Mixes,           \* bound: which rewards are asked for in one behaviour, by whom, and
                   \* the size of the connection pool
  Cap,             \* CHECK_IN_STREAK_CAP
  PromoEnds,       \* expiresAt of the promo code
  MaxTick,         \* bound: the clock
  MaxEdge          \* bound: rakeback a player is entitled to

Kinds == {"wheel", "checkin", "promo", "rakeback", "cashback"}

RewardsAssumption ==
  /\ IsFiniteSet(Requests) /\ Mixes \subseteq [kinds : SUBSET Kinds, players : SUBSET Players, pool : Nat]
  /\ TicksPerDay \in Nat \ {0} /\ Cap \in Nat \ {0}
  /\ {PromoUses, PromoEnds, MaxTick, MaxEdge} \subseteq Nat

Never == 0 - 2 * TicksPerDay
Ticks == 0..MaxTick

VARIABLES
  mix,        \* the rewards asked for, the players who ask, the connections
  clock,
  frozen,     \* players whose account is frozen
  lastSpin,   \* lastDailyWheelSpinAt
  lastIn,     \* lastCheckInAt
  rung,       \* checkInStreak
  redeemed,   \* players with a PromoRedemption row; redemptionCount counts them
  edge,       \* what rakeback a player's play entitles it to so far
  req         \* req[r]: the handler's local variables

world == <<mix, clock, frozen, edge, peak>>
rows == <<lastSpin, lastIn, rung, redeemed, swept, days>>
vars == <<world, rows, req, paid>>

Idle == [pc |-> "idle", kind |-> "none", p |-> "none", at |-> 0, rung |-> 0, amount |-> 0]

Init ==
  /\ mix \in Mixes
  /\ clock = 0
  /\ frozen = {}
  /\ lastSpin = [p \in Players |-> Never]
  /\ lastIn = [p \in Players |-> Never]
  /\ rung = [p \in Players |-> 0]
  /\ redeemed = {}
  /\ edge = [p \in Players |-> 0]
  /\ swept = [p \in Players |-> 0]
  /\ req = [r \in Requests |-> Idle]
  /\ paid = << >>
  /\ days = {}
  /\ peak = [p \in Players |-> 0]

\* The connections a transaction of a rakeback claim keeps from the others.
InTx == {r \in Requests : req[r].pc \in {"waiting", "locked", "counted"}}
Free == Cardinality(InTx) < mix.pool
LockedBy(p) == {r \in Requests : req[r].p = p /\ req[r].pc \in {"locked", "counted"}}

At(r, pc) == req[r].pc = pc
Goto(r, pc) == req' = [req EXCEPT ![r].pc = pc]
Done(r) == req' = [req EXCEPT ![r] = Idle]

-----------------------------------------------------------------------------
(* The handlers *)

Ask(r, k, p) ==
  /\ At(r, "idle")
  /\ req' = [req EXCEPT ![r] = [Idle EXCEPT !.pc = IF k = "rakeback" THEN "open" ELSE "asked",
                                            !.kind = k, !.p = p, !.at = clock]]
  /\ UNCHANGED <<world, rows, paid>>

\* nextSpinAt and nextCheckInAt compare with the clock, not with `now`.
SpinPending(p) == lastSpin[p] # Never /\ lastSpin[p] + TicksPerDay > clock
CheckedInToday(p) == lastIn[p] # Never /\ Day(lastIn[p]) >= Day(clock)
PromoOpen(at) == PromoEnds > at /\ Cardinality(redeemed) < PromoUses

NextRung(p) == IF rung[p] < Cap THEN rung[p] + 1 ELSE Cap

\* Consecutive means that the last check-in was yesterday; claims only ask once
\* CheckedInToday is false.
ProjectStreak(p) ==
  IF lastIn[p] # Never /\ Day(clock) - Day(lastIn[p]) = 1 THEN NextRung(p) ELSE 1

\* quoteCashback and hasClaimedToday: a loss of yesterday, no cashback row of today.
CashbackToday(p) ==
  \E i \in DOMAIN paid : paid[i].kind = "cashback" /\ paid[i].p = p /\ paid[i].day = Day(clock)

Ready(r) ==
  LET p == req[r].p IN
  CASE req[r].kind = "wheel"    -> p \notin frozen /\ ~SpinPending(p)
    [] req[r].kind = "checkin"  -> p \notin frozen /\ ~CheckedInToday(p)
    [] req[r].kind = "promo"    -> p \notin frozen /\ PromoOpen(req[r].at) /\ p \notin redeemed
    [] req[r].kind = "cashback" -> Day(clock) > 0 /\ ~CashbackToday(p)

\* The first reads: a refusal the player can act on, or the figures to claim with.
Read(r) ==
  /\ At(r, "asked")
  /\ IF Ready(r)
       THEN req' = [req EXCEPT ![r].pc = IF req[r].kind = "cashback" THEN "won" ELSE "ready",
                               ![r].rung = ProjectStreak(req[r].p)]
       ELSE Done(r)
  /\ UNCHANGED <<world, rows, paid>>

\* A write of the User row waits for a rakeback claim that holds it.
Unlocked(r) == LockedBy(req[r].p) = {}

MaySpin_AsRead(r) == TRUE

MaySpin(r) == lastSpin[req[r].p] <= req[r].at - TicksPerDay

ClaimSpin(r) ==
  /\ At(r, "ready") /\ req[r].kind = "wheel" /\ Unlocked(r)
  /\ IF MaySpin(r)
       THEN lastSpin' = [lastSpin EXCEPT ![req[r].p] = req[r].at] /\ Goto(r, "won")
       ELSE Done(r) /\ UNCHANGED lastSpin
  /\ UNCHANGED <<world, paid, lastIn, rung, redeemed, swept, days>>

MayCheckIn(r) == lastIn[req[r].p] < Day(req[r].at) * TicksPerDay

ClaimCheckIn(r) ==
  /\ At(r, "ready") /\ req[r].kind = "checkin" /\ Unlocked(r)
  /\ IF MayCheckIn(r)
       THEN /\ lastIn' = [lastIn EXCEPT ![req[r].p] = req[r].at]
            /\ rung' = [rung EXCEPT ![req[r].p] = req[r].rung]
            /\ days' = days \cup {<<req[r].p, Day(req[r].at)>>}
            /\ Goto(r, "won")
       ELSE Done(r) /\ UNCHANGED <<lastIn, rung, days>>
  /\ UNCHANGED <<world, paid, lastSpin, redeemed, swept>>

\* The conditional count and the row unique to code and player, in one transaction.
ClaimPromo(r) ==
  /\ At(r, "ready") /\ req[r].kind = "promo"
  /\ IF PromoOpen(req[r].at) /\ req[r].p \notin redeemed
       THEN redeemed' = redeemed \cup {req[r].p} /\ Goto(r, "won")
       ELSE Done(r) /\ UNCHANGED redeemed
  /\ UNCHANGED <<world, paid, lastSpin, lastIn, rung, swept, days>>

\* claimRakeback: a transaction is opened, ...
Open(r) ==
  /\ At(r, "open") /\ Free
  /\ Goto(r, "waiting")
  /\ UNCHANGED <<world, rows, paid>>

MayLock_Always(r) == TRUE

MayLock(r) == LockedBy(req[r].p) = {}

\* ... it waits for the row of the player, ...
Lock(r) ==
  /\ At(r, "waiting") /\ MayLock(r)
  /\ Goto(r, "locked")
  /\ UNCHANGED <<world, rows, paid>>

\* ... reads the totals through another connection, ...
Count(r) ==
  /\ At(r, "locked") /\ Free
  /\ LET claimable == edge[req[r].p] - swept[req[r].p] IN
       IF claimable > 0
         THEN req' = [req EXCEPT ![r].pc = "counted", ![r].amount = claimable]
         ELSE Done(r)
  /\ UNCHANGED <<world, rows, paid>>

\* ... and writes the claim.
ClaimRakeback(r) ==
  /\ At(r, "counted")
  /\ swept' = [swept EXCEPT ![req[r].p] = @ + req[r].amount]
  /\ Goto(r, "won")
  /\ UNCHANGED <<world, paid, lastSpin, lastIn, rung, redeemed, days>>

GivesUp_Never(r) == FALSE

GivesUp(r) == r \in InTx \/ At(r, "open")

\* The time limit of an interactive transaction, or of the wait for a connection.
TimeOut(r) ==
  /\ GivesUp(r)
  /\ Done(r)
  /\ UNCHANGED <<world, rows, paid>>

Credits(r) ==
  [kind |-> req[r].kind, p |-> req[r].p, at |-> req[r].at, day |-> Day(clock),
   rung |-> req[r].rung, amount |-> req[r].amount]

\* awardBonus and creditCashback; the cashback's key is unique to player and day.
Credit(r) ==
  /\ At(r, "won")
  /\ paid' = IF req[r].kind = "cashback" /\ CashbackToday(req[r].p)
               THEN paid ELSE Append(paid, Credits(r))
  /\ Done(r)
  /\ UNCHANGED <<world, rows>>

\* The claim stays; nothing tries again.
CreditFails(r) ==
  /\ At(r, "won")
  /\ Done(r)
  /\ UNCHANGED <<world, rows, paid>>

-----------------------------------------------------------------------------
(* The world *)

Tick ==
  /\ clock < MaxTick
  /\ clock' = clock + 1
  /\ UNCHANGED <<mix, frozen, edge, peak, req, paid, rows>>

\* A settled bet; a win lowers what the house has earned of the player.
Play(p) ==
  /\ "rakeback" \in mix.kinds
  /\ \E e \in 0..MaxEdge : e # edge[p] /\ edge' = [edge EXCEPT ![p] = e]
  /\ peak' = [peak EXCEPT ![p] = IF @ < edge'[p] THEN edge'[p] ELSE @]
  /\ UNCHANGED <<mix, clock, frozen, req, paid, rows>>

Freeze(p) ==
  /\ p \notin frozen
  /\ frozen' = frozen \cup {p}
  /\ UNCHANGED <<mix, clock, edge, peak, req, paid, rows>>

Handle(r) ==
  \/ Read(r) \/ ClaimSpin(r) \/ ClaimCheckIn(r) \/ ClaimPromo(r)
  \/ Open(r) \/ Lock(r) \/ Count(r) \/ ClaimRakeback(r) \/ TimeOut(r)
  \/ Credit(r) \/ CreditFails(r)

Next ==
  \/ \E r \in Requests : Handle(r) \/ \E k \in mix.kinds, p \in mix.players : Ask(r, k, p)
  \/ Tick
  \/ \E p \in mix.players : Play(p) \/ Freeze(p)

Fairness == \A r \in Requests : WF_vars(Handle(r))

Spec == Init /\ [][Next]_vars /\ Fairness

-----------------------------------------------------------------------------
(* Properties *)

TypeOK ==
  /\ mix \in Mixes
  /\ clock \in Ticks /\ frozen \subseteq Players /\ redeemed \subseteq Players
  /\ lastSpin \in [Players -> Ticks \cup {Never}] /\ lastIn \in [Players -> Ticks \cup {Never}]
  /\ rung \in [Players -> 0..Cap]
  /\ edge \in [Players -> 0..MaxEdge] /\ swept \in [Players -> 0..MaxEdge]
  /\ \A r \in Requests : req[r].pc \in {"idle", "asked", "ready", "open", "waiting", "locked", "counted", "won"}
  /\ \A i \in DOMAIN paid : paid[i].kind \in Kinds /\ paid[i].p \in Players /\ paid[i].at \in Ticks

\* A handler always ends, even when the claims hold every connection of the pool and
\* each waits for one more.
ClaimsEnd == \A r \in Requests : ~At(r, "idle") ~> At(r, "idle")
=============================================================================
