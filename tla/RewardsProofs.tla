---------------------------- MODULE RewardsProofs ----------------------------
(***************************************************************************)
(* Theorems about the rewards, for any number of players and of handlers   *)
(* at once: each turn is paid once, the ladder of check-ins is climbed day *)
(* by day, and the rakeback credited is covered by the play behind it.     *)
(*                                                                         *)
(* A claim that was written is paid later, or never.  The invariant speaks *)
(* of both at once: what was paid and what is about to be are apart from   *)
(* each other, and behind the mark the claim left in the player's row.     *)
(***************************************************************************)
EXTENDS Rewards, FiniteSetTheorems, TLAPS

(* The inductive invariant *)

Pcs == {"idle", "asked", "ready", "open", "waiting", "locked", "counted", "won"}

Req ==
  [pc: Pcs, kind: Kinds \cup {"none"}, p: Players \cup {"none"}, at: Ticks, rung: 0..Cap,
   amount: 0..MaxEdge]

Row == [kind: Kinds, p: Players, at: Ticks, day: Nat, rung: 0..Cap, amount: 0..MaxEdge]

\* A handler that runs does so for a player, since a moment that is not to come.
Fits(q) ==
  /\ q.pc # "idle" => q.kind \in Kinds /\ q.p \in Players /\ q.at <= clock
  /\ q.pc \in {"open", "waiting", "locked", "counted"} => q.kind = "rakeback"
  /\ q.pc \in {"asked", "ready"} => q.kind # "rakeback"

TypesOK ==
  /\ req \in [Requests -> Req] /\ \A r \in Requests : Fits(req[r])
  /\ paid \in Seq(Row)
  /\ peak \in [Players -> 0..MaxEdge]
  /\ IsFiniteSet(redeemed) /\ Cardinality(redeemed) <= PromoUses

\* Two claims of one player are of two turns.
Apart(c, d) ==
  c.kind = d.kind /\ c.p = d.p =>
    /\ c.kind = "wheel" => c.at - d.at >= TicksPerDay \/ d.at - c.at >= TicksPerDay
    /\ c.kind = "checkin" => Day(c.at) # Day(d.at)
    /\ c.kind # "promo"

\* What a claim left behind.
Marked(c) ==
  /\ c.kind = "wheel" => c.at <= lastSpin[c.p]
  /\ c.kind = "checkin" =>
       /\ lastIn[c.p] # Never /\ c.at <= lastIn[c.p]
       /\ \A k \in 1..(c.rung - 1) : <<c.p, Day(c.at) - k>> \in days
  /\ c.kind = "promo" => c.p \in redeemed

Won == {r \in Requests : req[r].pc = "won"}

TurnsOK ==
  /\ \A i \in DOMAIN paid : Marked(paid[i])
  /\ \A r \in Won : Marked(req[r])
  /\ \A i, j \in DOMAIN paid : i # j => Apart(paid[i], paid[j])
  /\ \A i \in DOMAIN paid, r \in Won : Apart(paid[i], req[r])
  /\ \A r, s \in Won : r # s => Apart(req[r], req[s])
  /\ \A i, j \in DOMAIN paid :
       i # j /\ paid[i].kind = "cashback" /\ paid[j].kind = "cashback" /\ paid[i].p = paid[j].p =>
         paid[i].day # paid[j].day

\* The rungs below one that a handler is about to claim for day d.
Climbs(q, d) ==
  /\ Day(q.at) <= d
  /\ q.rung > 1 =>
       /\ lastIn[q.p] # Never /\ d - 1 <= Day(lastIn[q.p])
       /\ \A k \in 1..(q.rung - 1) : <<q.p, d - k>> \in days

LadderOK ==
  /\ \A p \in Players : lastIn[p] # Never =>
       \A k \in 0..(rung[p] - 1) : <<p, Day(lastIn[p]) - k>> \in days
  /\ \A r \in Requests : req[r].pc = "ready" /\ req[r].kind = "checkin" =>
       \E d \in Ticks : Climbs(req[r], d)

\* The rakeback claimed by handlers that have not credited it yet, unit by unit.
Pending(p) ==
  UNION {{r} \X (1..req[r].amount) :
           r \in {q \in Requests : req[q].pc = "won" /\ req[q].kind = "rakeback" /\ req[q].p = p}}

Holds(q) == q.pc \in {"locked", "counted"}

MoneyOK ==
  /\ \A p \in Players :
       /\ edge[p] <= peak[p] /\ swept[p] <= peak[p]
       /\ IsFiniteSet(Rakeback(p)) /\ IsFiniteSet(Pending(p))
       /\ Cardinality(Rakeback(p)) + Cardinality(Pending(p)) <= swept[p]
  /\ \A r, s \in Requests : Holds(req[r]) /\ Holds(req[s]) /\ req[r].p = req[s].p => r = s
  /\ \A r \in Requests : req[r].pc = "counted" => swept[req[r].p] + req[r].amount <= peak[req[r].p]

Inv == TypeOK /\ TypesOK /\ TurnsOK /\ LadderOK /\ MoneyOK

-----------------------------------------------------------------------------
(* Numbers and days *)

LEMMA Numbers ==
  ASSUME RewardsAssumption
  PROVE  /\ TicksPerDay \in Nat \ {0} /\ Cap \in Nat \ {0}
         /\ PromoUses \in Nat /\ PromoEnds \in Nat /\ MaxTick \in Nat /\ MaxEdge \in Nat
         /\ IsFiniteSet(Requests)
         /\ Never \in Int /\ Never < 0 /\ Never \notin Ticks
<1>1. TicksPerDay \in Nat \ {0} /\ MaxTick \in Nat
  BY DEF RewardsAssumption
<1>2. Never \in Int /\ Never < 0 /\ Never \notin Ticks
  BY <1>1 DEF Never, Ticks
<1> QED BY <1>1, <1>2 DEF RewardsAssumption

\* The day of a moment starts at or before it, and the next one after it.
LEMMA DayOf ==
  ASSUME RewardsAssumption, NEW t \in Nat
  PROVE  /\ Day(t) \in Nat
         /\ TicksPerDay * Day(t) <= t /\ t < TicksPerDay * (Day(t) + 1)
         /\ Day(t) <= t
<1> DEFINE q == t \div TicksPerDay
           m == t % TicksPerDay
<1>1. TicksPerDay \in Nat \ {0}
  BY Numbers
<1>2. q \in Int /\ m \in 0..(TicksPerDay - 1) /\ t = TicksPerDay * q + m
  BY <1>1
<1>3. q >= 0
  BY <1>1
<1>4. TicksPerDay * q <= t /\ t < TicksPerDay * (q + 1)
  BY <1>1, <1>2
<1>5. q <= TicksPerDay * q
  BY <1>1, <1>2, <1>3
<1>6. q \in Nat /\ q <= t
  BY <1>1, <1>2, <1>3, <1>4, <1>5
<1>7. Day(t) = q
  BY DEF Day
<1> HIDE DEF q
<1> QED BY <1>4, <1>6, <1>7

LEMMA Scaled ==
  ASSUME RewardsAssumption, NEW a \in Int, NEW b \in Int, a <= b
  PROVE  TicksPerDay * a <= TicksPerDay * b
BY Numbers

\* A moment before day d is of an earlier day; later moments are of no earlier days.
LEMMA DayBefore ==
  ASSUME RewardsAssumption, NEW s \in Nat, NEW d \in Int, s < d * TicksPerDay
  PROVE  Day(s) < d
<1>1. Day(s) \in Nat /\ TicksPerDay * Day(s) <= s
  BY DayOf
<1>2. SUFFICES ASSUME d <= Day(s) PROVE FALSE
  BY <1>1
<1>3. TicksPerDay * d <= TicksPerDay * Day(s)
  BY <1>1, <1>2, Scaled
<1> QED BY <1>1, <1>3, Numbers

LEMMA DayMonotone ==
  ASSUME RewardsAssumption, NEW s \in Nat, NEW t \in Nat, s <= t
  PROVE  Day(s) <= Day(t)
<1>1. Day(t) \in Nat /\ t < TicksPerDay * (Day(t) + 1)
  BY DayOf
<1>2. s < (Day(t) + 1) * TicksPerDay
  BY <1>1, Numbers
<1>3. Day(s) < Day(t) + 1 /\ Day(s) \in Nat
  BY <1>1, <1>2, DayBefore, DayOf
<1> QED BY <1>1, <1>3

-----------------------------------------------------------------------------
(* It holds at the start *)

LEMMA IdleReq ==
  ASSUME RewardsAssumption
  PROVE  Idle \in Req /\ Idle.pc = "idle" /\ Fits(Idle) /\ ~Holds(Idle)
BY Numbers DEF Idle, Req, Pcs, Kinds, Ticks, Fits, Holds

LEMMA InvInit == ASSUME RewardsAssumption, Init PROVE Inv
<1> USE Numbers
<1>1. 0 \in Ticks /\ 0 \in 0..Cap /\ 0 \in 0..MaxEdge
  BY DEF Ticks
<1>2. paid = << >> /\ DOMAIN paid = {} /\ paid \in Seq(Row)
  BY DEF Init
<1>3. \A r \in Requests : req[r] = Idle
  BY DEF Init
<1>4. IsFiniteSet({}) /\ Cardinality({}) = 0
  BY FS_EmptySet
<1>5. TypeOK
  <2>1. lastSpin \in [Players -> Ticks \cup {Never}] /\ lastIn \in [Players -> Ticks \cup {Never}]
    BY DEF Init
  <2>2. rung \in [Players -> 0..Cap] /\ edge \in [Players -> 0..MaxEdge] /\ swept \in [Players -> 0..MaxEdge]
    BY <1>1 DEF Init
  <2>3. mix \in Mixes /\ clock = 0 /\ frozen = {} /\ redeemed = {}
    BY DEF Init
  <2> QED BY <1>1, <1>2, <1>3, <2>1, <2>2, <2>3, IdleReq DEF TypeOK
<1>6. TypesOK
  <2>1. req \in [Requests -> Req] /\ \A r \in Requests : Fits(req[r])
    BY <1>3, IdleReq DEF Init
  <2>2. peak \in [Players -> 0..MaxEdge]
    BY <1>1 DEF Init
  <2>3. redeemed = {}
    BY DEF Init
  <2> QED BY <1>2, <1>4, <2>1, <2>2, <2>3 DEF TypesOK
<1>7. TurnsOK
  BY <1>2, <1>3, IdleReq DEF TurnsOK, Won
<1>8. LadderOK
  <2>1. \A p \in Players : lastIn[p] = Never
    BY DEF Init
  <2> QED BY <1>3, <2>1, IdleReq DEF LadderOK
<1>9. MoneyOK
  <2>1. ASSUME NEW p \in Players
        PROVE  edge[p] = 0 /\ peak[p] = 0 /\ swept[p] = 0 /\ Rakeback(p) = {} /\ Pending(p) = {}
    <3>1. edge[p] = 0 /\ peak[p] = 0 /\ swept[p] = 0
      BY DEF Init
    <3>2. {j \in DOMAIN paid : paid[j].kind = "rakeback" /\ paid[j].p = p} = {}
      BY <1>2
    <3>3. {q \in Requests : req[q].pc = "won" /\ req[q].kind = "rakeback" /\ req[q].p = p} = {}
      BY <1>3, IdleReq
    <3> QED BY <3>1, <3>2, <3>3 DEF Rakeback, Pending
  <2>2. \A r \in Requests : ~Holds(req[r]) /\ req[r].pc = "idle"
    BY <1>3, IdleReq
  <2>3. ASSUME NEW p \in Players
        PROVE  /\ edge[p] <= peak[p] /\ swept[p] <= peak[p]
               /\ IsFiniteSet(Rakeback(p)) /\ IsFiniteSet(Pending(p))
               /\ Cardinality(Rakeback(p)) + Cardinality(Pending(p)) <= swept[p]
    BY <1>4, <2>1
  <2>4. \A r \in Requests : ~Holds(req[r]) /\ req[r].pc # "counted"
    BY <2>2
  <2> QED BY <2>3, <2>4 DEF MoneyOK
<1> QED BY <1>5, <1>6, <1>7, <1>8, <1>9 DEF Inv

-----------------------------------------------------------------------------
(* What a step does to one part of the invariant at a time *)

\* What the invariant says of one handler and of one credit.
LEMMA Known ==
  ASSUME RewardsAssumption, Inv
  PROVE  /\ req \in [Requests -> Req]
         /\ \A r \in Requests :
              /\ req[r] \in Req /\ Fits(req[r])
              /\ req[r].pc # "idle" => req[r].kind \in Kinds /\ req[r].p \in Players
              /\ req[r].at \in Nat /\ req[r].rung \in Nat /\ req[r].amount \in Nat
         /\ paid \in Seq(Row) /\ Len(paid) \in Nat /\ DOMAIN paid = 1..Len(paid)
         /\ \A i \in DOMAIN paid : paid[i] \in Row /\ paid[i].at \in Nat /\ paid[i].p \in Players
         /\ clock \in Nat
<1>1. req \in [Requests -> Req] /\ paid \in Seq(Row) /\ clock \in Ticks
  BY DEF Inv, TypesOK, TypeOK
<1>2. Ticks \subseteq Nat /\ 0..Cap \subseteq Nat /\ 0..MaxEdge \subseteq Nat
  BY Numbers DEF Ticks
<1>3. \A r \in Requests :
        /\ req[r] \in Req /\ Fits(req[r])
        /\ req[r].pc # "idle" => req[r].kind \in Kinds /\ req[r].p \in Players
        /\ req[r].at \in Nat /\ req[r].rung \in Nat /\ req[r].amount \in Nat
  BY <1>1, <1>2 DEF Inv, TypesOK, Fits, Req
<1>4. Len(paid) \in Nat /\ DOMAIN paid = 1..Len(paid)
  BY <1>1
<1>5. \A i \in DOMAIN paid : paid[i] \in Row
  BY <1>1, <1>4
<1>6. \A i \in DOMAIN paid : paid[i].at \in Nat /\ paid[i].p \in Players
  BY <1>2, <1>5 DEF Row
<1> QED BY <1>1, <1>2, <1>3, <1>4, <1>5, <1>6

\* One handler moves to q.
Moves(r, q) ==
  /\ req' = [req EXCEPT ![r] = q]
  /\ q \in Req /\ Fits(q)'

LEMMA Moved ==
  ASSUME RewardsAssumption, Inv, NEW r \in Requests, NEW q, Moves(r, q)
  PROVE  /\ req' \in [Requests -> Req] /\ req'[r] = q
         /\ \A s \in Requests : s # r => req'[s] = req[s]
         /\ \A s \in Requests : req'[s].pc \in Pcs
BY Known DEF Moves, Req

LEMMA FitsLater ==
  ASSUME RewardsAssumption, Inv, NEW r \in Requests, NEW q, Moves(r, q), clock' = clock
  PROVE  \A s \in Requests : Fits(req[s])'
<1>1. ASSUME NEW s \in Requests PROVE Fits(req[s])'
  <2>1. CASE s = r
    BY <2>1, Moved DEF Moves, Fits
  <2>2. CASE s # r
    BY <2>2, Moved, Known DEF Fits
  <2> QED BY <2>1, <2>2
<1> QED BY <1>1

\* What was paid, and what the other handlers are about to.
Others(r) == {paid[i] : i \in DOMAIN paid} \cup {req[s] : s \in Won \ {r}}

LEMMA OthersKnown ==
  ASSUME RewardsAssumption, Inv, NEW r \in Requests, NEW c \in Others(r)
  PROVE  Marked(c) /\ c.p \in Players /\ c.at \in Nat
<1>1. CASE \E i \in DOMAIN paid : c = paid[i]
  BY <1>1, Known DEF Inv, TurnsOK
<1>2. CASE \E s \in Won : c = req[s]
  BY <1>2, Known DEF Inv, TurnsOK, Won
<1> QED BY <1>1, <1>2 DEF Others

\* The claims to pay, as long as the marks only move on.
LEMMA TurnsKept ==
  ASSUME RewardsAssumption, Inv, NEW r \in Requests, NEW q, Moves(r, q), UNCHANGED paid,
         \A c \in Others(r) : Marked(c)',
         q.pc = "won" => Marked(q)' /\ \A c \in Others(r) : Apart(c, q)
  PROVE  TurnsOK'
<1>1. Won' \subseteq Requests /\ \A s \in Won' : s # r => s \in Won /\ req'[s] = req[s]
  BY Moved DEF Won
<1>2. r \in Won' => q.pc = "won"
  BY Moved DEF Won
<1>3. \A c, d : Apart(c, d) <=> Apart(d, c)
  BY DEF Apart
<1>4. ASSUME NEW i \in DOMAIN paid' PROVE Marked(paid[i])'
  <2>1. PICK c : c = paid[i]
    OBVIOUS
  <2>2. Marked(c)' /\ paid'[i] = c
    BY <2>1 DEF Others
  <2> QED BY <2>2 DEF Marked, Day
<1>5. ASSUME NEW s \in Won' PROVE Marked(req[s])'
  <2>1. CASE s = r
    BY <1>2, <2>1, Moved DEF Marked, Day
  <2>2. CASE s # r
    <3>1. PICK c : c = req[s]
      OBVIOUS
    <3>2. Marked(c)' /\ req'[s] = c
      BY <1>1, <2>2, <3>1 DEF Others
    <3> QED BY <3>2 DEF Marked, Day
  <2> QED BY <2>1, <2>2
<1>6. \A i, j \in DOMAIN paid : i # j => Apart(paid[i], paid[j])
  BY DEF Inv, TurnsOK
<1>7. ASSUME NEW i \in DOMAIN paid, NEW s \in Won' PROVE Apart(paid[i], req'[s])
  <2>1. CASE s = r
    BY <1>2, <2>1, Moved DEF Others
  <2>2. CASE s # r
    BY <1>1, <2>2 DEF Inv, TurnsOK
  <2> QED BY <2>1, <2>2
<1>8. ASSUME NEW s \in Won', NEW t \in Won', s # t PROVE Apart(req'[s], req'[t])
  <2>1. CASE s = r
    <3>1. t \in Won \ {r} /\ req'[t] = req[t] /\ req'[s] = q
      BY <1>1, <1>8, <2>1, Moved
    <3> QED BY <1>2, <1>3, <2>1, <3>1 DEF Others
  <2>2. CASE t = r
    <3>1. s \in Won \ {r} /\ req'[s] = req[s] /\ req'[t] = q
      BY <1>1, <1>8, <2>2, Moved
    <3> QED BY <1>2, <2>2, <3>1 DEF Others
  <2>3. CASE s # r /\ t # r
    BY <1>1, <1>8, <2>3 DEF Inv, TurnsOK
  <2> QED BY <2>1, <2>2, <2>3
<1>9. \A i, j \in DOMAIN paid :
        i # j /\ paid[i].kind = "cashback" /\ paid[j].kind = "cashback" /\ paid[i].p = paid[j].p =>
          paid[i].day # paid[j].day
  BY DEF Inv, TurnsOK
<1>10. paid' = paid
  OBVIOUS
<1> QED BY <1>4, <1>5, <1>6, <1>7, <1>8, <1>9, <1>10 DEF TurnsOK, Apart, Day

\* The marks do not move.
LEMMA MarksStay ==
  ASSUME RewardsAssumption, Inv, NEW r \in Requests, UNCHANGED <<lastSpin, lastIn, days, redeemed>>
  PROVE  \A c \in Others(r) : Marked(c)'
BY OthersKnown DEF Marked, Day

LEMMA LadderKept ==
  ASSUME RewardsAssumption, Inv, NEW r \in Requests, NEW q, Moves(r, q),
         UNCHANGED <<lastIn, rung, days>>,
         q.pc = "ready" /\ q.kind = "checkin" => \E d \in Ticks : Climbs(q, d)
  PROVE  LadderOK'
<1>1. ASSUME NEW s \in Requests, req'[s].pc = "ready", req'[s].kind = "checkin"
      PROVE  \E d \in Ticks : Climbs(req'[s], d)
  <2>1. CASE s = r
    BY <1>1, <2>1, Moved
  <2>2. CASE s # r
    BY <1>1, <2>2, Moved DEF Inv, LadderOK
  <2> QED BY <2>1, <2>2
<1>2. ASSUME NEW s \in Requests, req'[s].pc = "ready", req'[s].kind = "checkin"
      PROVE  \E d \in Ticks : Climbs(req[s], d)'
  <2>1. PICK d \in Ticks : Climbs(req'[s], d)
    BY <1>1, <1>2
  <2> QED BY <2>1 DEF Climbs, Day
<1>3. (\A p \in Players : lastIn[p] # Never =>
         \A k \in 0..(rung[p] - 1) : <<p, Day(lastIn[p]) - k>> \in days)'
  BY DEF Inv, LadderOK, Day
<1> QED BY <1>2, <1>3 DEF LadderOK

\* A handler that does not come to a claim of rakeback, and lets none be forgotten.
LEMMA MoneyKept ==
  ASSUME RewardsAssumption, Inv, NEW r \in Requests, NEW q, Moves(r, q),
         UNCHANGED <<paid, edge, peak, swept>>,
         q.pc = "won" => q.kind # "rakeback",
         Holds(q) => \A s \in Requests \ {r} : Holds(req[s]) => req[s].p # q.p,
         q.pc = "counted" => swept[q.p] + q.amount <= peak[q.p]
  PROVE  MoneyOK'
<1>1. ASSUME NEW p \in Players
      PROVE  IsFiniteSet(Pending(p)') /\ Cardinality(Pending(p)') <= Cardinality(Pending(p))
             /\ Cardinality(Pending(p)') \in Nat /\ Cardinality(Pending(p)) \in Nat
  <2>1. Pending(p)' \subseteq Pending(p)
    <3>1. ASSUME NEW s \in Requests, req'[s].pc = "won", req'[s].kind = "rakeback", req'[s].p = p
          PROVE  req'[s] = req[s]
      BY <3>1, Moved
    <3> QED BY <3>1 DEF Pending
  <2>2. IsFiniteSet(Pending(p))
    BY DEF Inv, MoneyOK
  <2> QED BY <2>1, <2>2, FS_Subset, FS_CardinalityType
<1>2. ASSUME NEW p \in Players PROVE Rakeback(p)' = Rakeback(p)
  BY DEF Rakeback
<1>3. ASSUME NEW p \in Players
      PROVE  /\ edge'[p] <= peak'[p] /\ swept'[p] <= peak'[p]
             /\ IsFiniteSet(Rakeback(p)') /\ IsFiniteSet(Pending(p)')
             /\ Cardinality(Rakeback(p)') + Cardinality(Pending(p)') <= swept'[p]
  <2>1. /\ edge[p] <= peak[p] /\ swept[p] <= peak[p] /\ IsFiniteSet(Rakeback(p))
        /\ Cardinality(Rakeback(p)) + Cardinality(Pending(p)) <= swept[p]
    BY DEF Inv, MoneyOK
  <2>2. Cardinality(Rakeback(p)) \in Nat /\ swept[p] \in Int
    BY <2>1, FS_CardinalityType DEF Inv, TypeOK
  <2> QED BY <1>1, <1>2, <2>1, <2>2
<1>4. ASSUME NEW s \in Requests, NEW t \in Requests,
             Holds(req'[s]), Holds(req'[t]), req'[s].p = req'[t].p
      PROVE  s = t
  <2>1. \A u \in Requests \ {r} : req'[u] = req[u]
    BY Moved
  <2> QED BY <1>4, <2>1, Moved DEF Inv, MoneyOK
<1>5. ASSUME NEW s \in Requests, req'[s].pc = "counted"
      PROVE  swept[req'[s].p] + req'[s].amount <= peak[req'[s].p]
  BY <1>5, Moved DEF Inv, MoneyOK
<1> QED BY <1>3, <1>4, <1>5 DEF MoneyOK, Holds

-----------------------------------------------------------------------------
(* Every step keeps it *)

\* A step of one handler that writes nothing.
LEMMA ReqOnly ==
  ASSUME RewardsAssumption, Inv, NEW r \in Requests, NEW q, Moves(r, q),
         UNCHANGED <<world, rows, paid>>,
         q.pc = "won" => q.kind = "cashback",
         q.pc = "ready" /\ q.kind = "checkin" => \E d \in Ticks : Climbs(q, d),
         Holds(q) => \A s \in Requests \ {r} : Holds(req[s]) => req[s].p # q.p,
         q.pc = "counted" => swept[q.p] + q.amount <= peak[q.p]
  PROVE  Inv'
<1>1. UNCHANGED <<mix, clock, frozen, edge, peak, lastSpin, lastIn, rung, redeemed, swept, days, paid>>
  BY DEF world, rows
<1>2. TypeOK'
  BY <1>1, Moved DEF Inv, TypeOK, Pcs
<1>3. TypesOK'
  BY <1>1, Moved, FitsLater DEF Inv, TypesOK
<1>4. q.pc = "won" =>
        Marked(q)' /\ \A c : Apart(c, q)
  BY DEF Marked, Apart
<1>5. TurnsOK'
  BY <1>1, <1>4, MarksStay, TurnsKept
<1>6. LadderOK'
  BY <1>1, LadderKept
<1>7. MoneyOK'
  BY <1>1, MoneyKept
<1> QED BY <1>2, <1>3, <1>5, <1>6, <1>7 DEF Inv

\* A handler ends.
LEMMA DoneKeeps ==
  ASSUME RewardsAssumption, Inv, NEW r \in Requests, Done(r), UNCHANGED <<world, rows, paid>>
  PROVE  Inv'
<1>1. Moves(r, Idle) /\ Idle.pc = "idle" /\ ~Holds(Idle)
  BY IdleReq DEF Done, Moves, Fits, Idle
<1> QED BY <1>1, ReqOnly

LEMMA AskKeeps ==
  ASSUME RewardsAssumption, Inv, NEW r \in Requests, NEW k \in mix.kinds, NEW p \in mix.players,
         Ask(r, k, p)
  PROVE  Inv'
<1>0. PICK q : q = [Idle EXCEPT !.pc = IF k = "rakeback" THEN "open" ELSE "asked",
                                !.kind = k, !.p = p, !.at = clock]
  OBVIOUS
<1>1. k \in Kinds /\ p \in Players /\ clock \in Ticks
  <2>1. mix \in [kinds : SUBSET Kinds, players : SUBSET Players, pool : Nat]
    BY DEF Inv, TypeOK, RewardsAssumption
  <2> QED BY <2>1 DEF Inv, TypeOK
<1>2. UNCHANGED <<world, rows, paid>> /\ clock' = clock /\ req' = [req EXCEPT ![r] = q]
  BY <1>0 DEF Ask, world
<1>3. /\ q.pc = (IF k = "rakeback" THEN "open" ELSE "asked")
      /\ q.kind = k /\ q.p = p /\ q.at = clock /\ q.rung = 0 /\ q.amount = 0
  BY <1>0 DEF Idle
<1>4. q \in Req
  <2>1. 0 \in 0..Cap /\ 0 \in 0..MaxEdge
    BY Numbers
  <2> QED BY <1>0, <1>1, <2>1 DEF Idle, Req, Pcs
<1>5. clock \in Nat
  BY Known
<1>6. Moves(r, q)
  BY <1>1, <1>2, <1>3, <1>4, <1>5 DEF Moves, Fits
<1>7. q.pc # "won" /\ q.pc # "ready" /\ ~Holds(q) /\ q.pc # "counted"
  BY <1>3 DEF Holds
<1> QED BY <1>2, <1>6, <1>7, ReqOnly

\* A rung that a handler reads is one above the last, if that was yesterday's.
LEMMA ProjectedRung ==
  ASSUME RewardsAssumption, Inv, NEW p \in Players
  PROVE  /\ ProjectStreak(p) \in 0..Cap
         /\ ProjectStreak(p) > 1 =>
              /\ lastIn[p] # Never /\ Day(lastIn[p]) = Day(clock) - 1
              /\ \A k \in 1..(ProjectStreak(p) - 1) : <<p, Day(clock) - k>> \in days
<1>1. rung[p] \in 0..Cap /\ Cap \in Nat \ {0} /\ lastIn[p] \in Ticks \cup {Never} /\ clock \in Nat
  BY Known, Numbers DEF Inv, TypeOK
<1>2. NextRung(p) \in 1..Cap /\ NextRung(p) <= rung[p] + 1
  BY <1>1 DEF NextRung
<1>3. ProjectStreak(p) \in 0..Cap
  BY <1>1, <1>2 DEF ProjectStreak
<1>4. ASSUME ProjectStreak(p) > 1
      PROVE  /\ lastIn[p] # Never /\ Day(lastIn[p]) = Day(clock) - 1
             /\ \A k \in 1..(ProjectStreak(p) - 1) : <<p, Day(clock) - k>> \in days
  <2>1. lastIn[p] # Never /\ Day(clock) - Day(lastIn[p]) = 1 /\ ProjectStreak(p) = NextRung(p)
    BY <1>4 DEF ProjectStreak
  <2>2. lastIn[p] \in Nat
    BY <1>1, <2>1, Numbers DEF Ticks
  <2>3. Day(lastIn[p]) \in Nat /\ Day(clock) \in Nat
    BY <1>1, <2>2, DayOf
  <2>4. Day(lastIn[p]) = Day(clock) - 1
    BY <2>1, <2>3
  <2>5. ASSUME NEW k \in 1..(ProjectStreak(p) - 1) PROVE <<p, Day(clock) - k>> \in days
    <3>1. k - 1 \in 0..(rung[p] - 1)
      BY <1>1, <1>2, <2>1
    <3>2. <<p, Day(lastIn[p]) - (k - 1)>> \in days
      BY <2>1, <3>1 DEF Inv, LadderOK
    <3>3. Day(lastIn[p]) - (k - 1) = Day(clock) - k
      BY <2>3, <2>4
    <3> QED BY <3>2, <3>3
  <2> QED BY <2>1, <2>4, <2>5
<1> QED BY <1>3, <1>4

LEMMA ReadKeeps ==
  ASSUME RewardsAssumption, Inv, NEW r \in Requests, Read(r) PROVE Inv'
<1>1. UNCHANGED <<world, rows, paid>> /\ clock' = clock /\ req[r].pc = "asked"
  BY DEF Read, At, world
<1>2. CASE Ready(r)
  <2>0. PICK q : q = [req[r] EXCEPT !.pc = IF req[r].kind = "cashback" THEN "won" ELSE "ready",
                                    !.rung = ProjectStreak(req[r].p)]
    OBVIOUS
  <2>1. req[r] \in Req /\ req[r].kind \in Kinds /\ req[r].p \in Players /\ req[r].kind # "rakeback"
        /\ req[r].at <= clock
    BY <1>1, Known DEF Fits
  <2>2. req' = [req EXCEPT ![r] = q]
    BY <1>2, <2>0 DEF Read
  <2>3. ProjectStreak(req[r].p) \in 0..Cap
    BY <2>1, ProjectedRung
  <2>4. q \in Req
    BY <2>0, <2>1, <2>3 DEF Req, Pcs
  <2>5. /\ q.pc = (IF req[r].kind = "cashback" THEN "won" ELSE "ready")
        /\ q.kind = req[r].kind /\ q.p = req[r].p /\ q.at = req[r].at
        /\ q.rung = ProjectStreak(req[r].p)
    BY <2>0, <2>1 DEF Req
  <2>6. Moves(r, q)
    BY <1>1, <2>1, <2>2, <2>4, <2>5 DEF Moves, Fits
  <2>7. \E d \in Ticks : Climbs(q, d)
    <3>1. clock \in Nat /\ q.at \in Nat /\ q.at <= clock /\ clock \in Ticks
      BY <2>1, <2>5, Known DEF Inv, TypeOK
    <3>2. Day(clock) \in Nat /\ Day(clock) <= clock /\ Day(q.at) <= Day(clock)
      BY <3>1, DayOf, DayMonotone
    <3>3. Day(clock) \in Ticks
      BY <3>1, <3>2, Numbers DEF Ticks
    <3>4. q.rung > 1 =>
            /\ lastIn[q.p] # Never /\ Day(clock) - 1 <= Day(lastIn[q.p])
            /\ \A k \in 1..(q.rung - 1) : <<q.p, Day(clock) - k>> \in days
      BY <2>1, <2>5, <3>2, ProjectedRung
    <3>5. Climbs(q, Day(clock))
      BY <3>2, <3>4 DEF Climbs
    <3> QED BY <3>3, <3>5
  <2>8. (q.pc = "won" => q.kind = "cashback") /\ ~Holds(q) /\ q.pc # "counted"
    BY <2>5 DEF Holds
  <2> QED BY <1>1, <2>6, <2>7, <2>8, ReqOnly
<1>3. CASE ~Ready(r)
  BY <1>1, <1>3, DoneKeeps DEF Read
<1> QED BY <1>2, <1>3

\* A handler goes on to another statement with the variables it has.
LEMMA Went ==
  ASSUME RewardsAssumption, Inv, NEW r \in Requests, NEW pc \in Pcs, Goto(r, pc), clock' = clock,
         req[r].pc # "idle",
         pc \in {"open", "waiting", "locked", "counted"} => req[r].kind = "rakeback",
         pc \in {"asked", "ready"} => req[r].kind # "rakeback"
  PROVE  \E q : /\ Moves(r, q)
                /\ q.pc = pc /\ q.kind = req[r].kind /\ q.p = req[r].p /\ q.at = req[r].at
                /\ q.rung = req[r].rung /\ q.amount = req[r].amount
<1>1. PICK q : q = [req[r] EXCEPT !.pc = pc]
  OBVIOUS
<1>2. req[r] \in Req /\ Fits(req[r])
  BY Known
<1>3. /\ q \in Req
      /\ q.pc = pc /\ q.kind = req[r].kind /\ q.p = req[r].p /\ q.at = req[r].at
      /\ q.rung = req[r].rung /\ q.amount = req[r].amount
  BY <1>1, <1>2 DEF Req
<1>4. Moves(r, q)
  BY <1>1, <1>2, <1>3 DEF Moves, Fits, Goto
<1> QED BY <1>3, <1>4

LEMMA RakebackWaits ==
  ASSUME RewardsAssumption, Inv, NEW r \in Requests, Open(r) \/ Lock(r) PROVE Inv'
<1>1. UNCHANGED <<world, rows, paid>> /\ clock' = clock
  BY DEF Open, Lock, world
<1>2. req[r].pc \in {"open", "waiting"} /\ req[r].kind = "rakeback"
  BY Known DEF Open, Lock, At, Fits
<1>3. CASE Open(r)
  <2>1. PICK q : Moves(r, q) /\ q.pc = "waiting"
    BY <1>1, <1>2, <1>3, Went DEF Open, Pcs
  <2> QED BY <1>1, <2>1, ReqOnly DEF Holds
<1>4. CASE Lock(r)
  <2>1. PICK q : Moves(r, q) /\ q.pc = "locked" /\ q.p = req[r].p
    BY <1>1, <1>2, <1>4, Went DEF Lock, Pcs
  <2>2. \A s \in Requests \ {r} : Holds(req[s]) => req[s].p # q.p
    BY <1>4, <2>1 DEF Lock, MayLock, LockedBy, Holds
  <2> QED BY <1>1, <2>1, <2>2, ReqOnly
<1> QED BY <1>3, <1>4

\* What is claimable is what the play is worth now, less what was swept.
LEMMA CountKeeps ==
  ASSUME RewardsAssumption, Inv, NEW r \in Requests, Count(r) PROVE Inv'
<1>1. UNCHANGED <<world, rows, paid>> /\ clock' = clock /\ req[r].pc = "locked"
  BY DEF Count, At, world
<1>2. PICK claimable : claimable = edge[req[r].p] - swept[req[r].p]
  OBVIOUS
<1>3. CASE claimable > 0
  <2>1. PICK q : q = [req[r] EXCEPT !.pc = "counted", !.amount = claimable]
    OBVIOUS
  <2>2. req' = [req EXCEPT ![r] = q]
    BY <1>2, <1>3, <2>1 DEF Count
  <2>3. req[r] \in Req /\ Fits(req[r]) /\ req[r].p \in Players /\ req[r].kind = "rakeback"
    BY <1>1, Known DEF Fits
  <2>4. edge[req[r].p] \in 0..MaxEdge /\ swept[req[r].p] \in 0..MaxEdge /\ peak[req[r].p] \in 0..MaxEdge
        /\ edge[req[r].p] <= peak[req[r].p]
    BY <2>3 DEF Inv, TypeOK, TypesOK, MoneyOK
  <2>5. claimable \in 0..MaxEdge /\ swept[req[r].p] + claimable <= peak[req[r].p]
    BY <1>2, <1>3, <2>4, Numbers
  <2>6. q \in Req /\ q.pc = "counted" /\ q.p = req[r].p /\ q.kind = "rakeback" /\ q.at = req[r].at
        /\ q.amount = claimable
    BY <2>1, <2>3, <2>5 DEF Req, Pcs
  <2>7. Moves(r, q)
    BY <1>1, <2>2, <2>3, <2>6 DEF Moves, Fits
  <2>8. \A s \in Requests \ {r} : Holds(req[s]) => req[s].p # q.p
    BY <1>1, <2>6 DEF Inv, MoneyOK, Holds
  <2> QED BY <1>1, <2>5, <2>6, <2>7, <2>8, ReqOnly
<1>4. CASE ~(claimable > 0)
  BY <1>1, <1>2, <1>4, DoneKeeps DEF Count
<1> QED BY <1>3, <1>4

LEMMA TimeOutKeeps ==
  ASSUME RewardsAssumption, Inv, NEW r \in Requests, TimeOut(r) \/ CreditFails(r) PROVE Inv'
BY DoneKeeps DEF TimeOut, CreditFails

LEMMA SpinKeeps ==
  ASSUME RewardsAssumption, Inv, NEW r \in Requests, ClaimSpin(r) PROVE Inv'
<1>1. req[r].pc = "ready" /\ req[r].kind = "wheel"
  BY DEF ClaimSpin, At
<1>2. UNCHANGED <<mix, clock, frozen, edge, peak, paid, lastIn, rung, redeemed, swept, days>>
  BY DEF ClaimSpin, world
<1>3. CASE MaySpin(r)
  <2>1. PICK q : Moves(r, q) /\ q.pc = "won" /\ q.kind = "wheel" /\ q.p = req[r].p /\ q.at = req[r].at
    BY <1>1, <1>2, <1>3, Went DEF ClaimSpin, Pcs
  <2>2. q.p \in Players /\ q.at \in Ticks /\ q.at \in Nat
    BY <1>1, <2>1, Known DEF Req
  <2>3. lastSpin' = [lastSpin EXCEPT ![q.p] = q.at] /\ lastSpin[q.p] <= q.at - TicksPerDay
    BY <1>3, <2>1 DEF ClaimSpin, MaySpin
  <2>4. lastSpin \in [Players -> Ticks \cup {Never}] /\ \A p \in Players : lastSpin[p] \in Int
    BY Numbers DEF Inv, TypeOK, Ticks
  <2>5. lastSpin[q.p] <= q.at
    BY <2>2, <2>3, <2>4, Numbers
  <2>6. ASSUME NEW c \in Others(r) PROVE Marked(c)' /\ Apart(c, q)
    <3>0. Marked(c) /\ c.p \in Players /\ c.at \in Nat
      BY OthersKnown
    <3>1. CASE c.kind = "wheel" /\ c.p = q.p
      <4>1. c.at <= lastSpin[q.p] /\ lastSpin'[q.p] = q.at
        BY <2>2, <2>3, <2>4, <3>0, <3>1 DEF Marked
      <4>2. c.at <= q.at /\ q.at - c.at >= TicksPerDay
        BY <2>2, <2>3, <2>4, <3>0, <4>1, Numbers
      <4> QED BY <3>1, <4>1, <4>2 DEF Marked, Apart
    <3>2. CASE ~(c.kind = "wheel" /\ c.p = q.p)
      BY <1>2, <2>1, <2>3, <2>4, <3>0, <3>2 DEF Marked, Apart, Day
    <3> QED BY <3>1, <3>2
  <2>7. Marked(q)'
    BY <2>1, <2>2, <2>3, <2>4 DEF Marked
  <2>8. TurnsOK'
    BY <1>2, <2>1, <2>6, <2>7, TurnsKept
  <2>9. TypeOK'
    <3>1. lastSpin' \in [Players -> Ticks \cup {Never}]
      BY <2>2, <2>3, <2>4
    <3> QED BY <1>2, <2>1, <3>1, Moved DEF Inv, TypeOK, Pcs
  <2>10. TypesOK'
    BY <1>2, <2>1, Moved, FitsLater DEF Inv, TypesOK
  <2>11. LadderOK' /\ MoneyOK'
    BY <1>2, <2>1, LadderKept, MoneyKept DEF Holds
  <2> QED BY <2>8, <2>9, <2>10, <2>11 DEF Inv
<1>4. CASE ~MaySpin(r)
  BY <1>2, <1>4, DoneKeeps DEF ClaimSpin, world, rows
<1> QED BY <1>3, <1>4

LEMMA CheckInKeeps ==
  ASSUME RewardsAssumption, Inv, NEW r \in Requests, ClaimCheckIn(r) PROVE Inv'
<1>1. req[r].pc = "ready" /\ req[r].kind = "checkin"
  BY DEF ClaimCheckIn, At
<1>2. UNCHANGED <<mix, clock, frozen, edge, peak, paid, lastSpin, redeemed, swept>>
  BY DEF ClaimCheckIn, world
<1>3. CASE MayCheckIn(r)
  <2>1. PICK q : /\ Moves(r, q) /\ q.pc = "won" /\ q.kind = "checkin"
                 /\ q.p = req[r].p /\ q.at = req[r].at /\ q.rung = req[r].rung
    BY <1>1, <1>2, <1>3, Went DEF ClaimCheckIn, Pcs
  <2>2. q.p \in Players /\ q.at \in Ticks /\ q.at \in Nat /\ q.rung \in 0..Cap /\ q.rung \in Nat
    BY <1>1, <2>1, Known DEF Req
  <2>3. /\ lastIn' = [lastIn EXCEPT ![q.p] = q.at] /\ rung' = [rung EXCEPT ![q.p] = q.rung]
        /\ days' = days \cup {<<q.p, Day(q.at)>>}
        /\ lastIn[q.p] < Day(q.at) * TicksPerDay
    BY <1>3, <2>1 DEF ClaimCheckIn, MayCheckIn
  <2>4. lastIn \in [Players -> Ticks \cup {Never}] /\ rung \in [Players -> 0..Cap]
    BY DEF Inv, TypeOK
  <2>5. Day(q.at) \in Nat /\ Day(q.at) * TicksPerDay <= q.at /\ q.at # Never
    <3>1. Day(q.at) \in Nat /\ TicksPerDay * Day(q.at) <= q.at
      BY <2>2, DayOf
    <3>2. \A n \in Nat : TicksPerDay * n = n * TicksPerDay
      BY Numbers
    <3> QED BY <2>2, <3>1, <3>2, Numbers
  \* The last check-in, if any, was on an earlier day.
  <2>6. lastIn[q.p] # Never =>
          lastIn[q.p] \in Nat /\ lastIn[q.p] <= q.at /\ Day(lastIn[q.p]) \in Nat /\ Day(lastIn[q.p]) < Day(q.at)
    <3>1. SUFFICES ASSUME lastIn[q.p] # Never
                   PROVE  lastIn[q.p] \in Nat /\ lastIn[q.p] <= q.at
                          /\ Day(lastIn[q.p]) \in Nat /\ Day(lastIn[q.p]) < Day(q.at)
      OBVIOUS
    <3>2. lastIn[q.p] \in Nat
      BY <2>2, <2>4, <3>1, Numbers DEF Ticks
    <3>3. lastIn[q.p] <= q.at
      BY <2>2, <2>3, <2>5, <3>2, Numbers
    <3> QED BY <2>3, <2>5, <3>2, <3>3, DayBefore, DayOf
  <2>7. lastIn'[q.p] = q.at /\ rung'[q.p] = q.rung
        /\ \A p \in Players \ {q.p} : lastIn'[p] = lastIn[p] /\ rung'[p] = rung[p]
    BY <2>2, <2>3, <2>4
  \* The rungs below the one claimed were claimed on the days before.
  <2>8. \A k \in 1..(q.rung - 1) : <<q.p, Day(q.at) - k>> \in days
    <3>1. PICK d \in Ticks : Climbs(req[r], d)
      BY <1>1 DEF Inv, LadderOK
    <3>2. SUFFICES ASSUME q.rung > 1 PROVE \A k \in 1..(q.rung - 1) : <<q.p, Day(q.at) - k>> \in days
      BY <2>2
    <3>3. /\ Day(q.at) <= d /\ lastIn[q.p] # Never /\ d - 1 <= Day(lastIn[q.p])
          /\ \A k \in 1..(q.rung - 1) : <<q.p, d - k>> \in days
      BY <2>1, <3>1, <3>2 DEF Climbs
    <3>4. d \in Nat
      BY Numbers DEF Ticks
    <3>5. Day(q.at) = d
      BY <2>5, <2>6, <3>3, <3>4
    <3> QED BY <3>3, <3>5
  <2>9. ASSUME NEW c \in Others(r) PROVE Marked(c)' /\ Apart(c, q)
    <3>1. Marked(c) /\ c.p \in Players /\ c.at \in Nat
      BY OthersKnown
    <3>2. CASE c.kind = "checkin" /\ c.p = q.p
      <4>1. c.at <= lastIn[q.p] /\ lastIn[q.p] # Never
        BY <3>1, <3>2 DEF Marked
      <4>2. Day(c.at) \in Nat /\ Day(c.at) < Day(q.at) /\ c.at <= q.at
        <5>1. Day(c.at) <= Day(lastIn[q.p]) /\ Day(c.at) \in Nat
          BY <2>6, <3>1, <4>1, DayMonotone, DayOf
        <5> QED BY <2>2, <2>5, <2>6, <3>1, <4>1, <5>1
      <4>3. \A k \in 1..(c.rung - 1) : <<c.p, Day(c.at) - k>> \in days'
        BY <2>3, <3>1, <3>2 DEF Marked
      <4>4. lastIn'[c.p] # Never /\ c.at <= lastIn'[c.p]
        BY <2>5, <2>7, <3>2, <4>2
      <4> QED BY <2>5, <3>2, <4>2, <4>3, <4>4 DEF Marked, Apart, Day
    <3>3. CASE ~(c.kind = "checkin" /\ c.p = q.p)
      BY <1>2, <2>1, <2>3, <2>7, <3>1, <3>3 DEF Marked, Apart, Day
    <3> QED BY <3>2, <3>3
  <2>10. Marked(q)'
    BY <2>1, <2>2, <2>3, <2>5, <2>7, <2>8 DEF Marked, Day
  <2>11. TurnsOK'
    BY <1>2, <2>1, <2>9, <2>10, TurnsKept
  <2>12. TypeOK'
    <3>1. lastIn' \in [Players -> Ticks \cup {Never}] /\ rung' \in [Players -> 0..Cap]
      BY <2>2, <2>3, <2>4
    <3> QED BY <1>2, <2>1, <3>1, Moved DEF Inv, TypeOK, Pcs
  <2>13. TypesOK'
    BY <1>2, <2>1, Moved, FitsLater DEF Inv, TypesOK
  <2>14. MoneyOK'
    BY <1>2, <2>1, MoneyKept DEF Holds
  <2>15. LadderOK'
    <3>1. ASSUME NEW p \in Players, lastIn'[p] # Never, NEW k \in 0..(rung'[p] - 1)
          PROVE  <<p, Day(lastIn'[p]) - k>> \in days'
      <4>1. CASE p = q.p /\ k = 0
        BY <2>3, <2>5, <2>7, <4>1
      <4>2. CASE p = q.p /\ k # 0
        <5>1. k \in 1..(q.rung - 1)
          BY <2>2, <2>7, <3>1, <4>2
        <5> QED BY <2>3, <2>7, <2>8, <4>2, <5>1
      <4>3. CASE p # q.p
        BY <2>3, <2>7, <3>1, <4>3 DEF Inv, LadderOK
      <4> QED BY <4>1, <4>2, <4>3
    <3>2. ASSUME NEW s \in Requests, req'[s].pc = "ready", req'[s].kind = "checkin"
          PROVE  \E d \in Ticks : Climbs(req[s], d)'
      <4>1. s # r /\ req'[s] = req[s]
        BY <2>1, <3>2, Moved
      <4>2. PICK d \in Ticks : Climbs(req[s], d)
        BY <3>2, <4>1 DEF Inv, LadderOK
      <4>3. PICK c : c = req[s]
        OBVIOUS
      <4>4. c.p \in Players /\ c.rung \in Nat /\ d \in Nat
        BY <3>2, <4>1, <4>3, Known, Numbers DEF Ticks
      <4>5. Climbs(c, d)'
        <5>1. Climbs(c, d)
          BY <4>2, <4>3
        <5>2. CASE c.p = q.p
          <6>1. c.rung > 1 => lastIn[q.p] # Never /\ d - 1 <= Day(lastIn[q.p])
            BY <5>1, <5>2 DEF Climbs
          <6>2. c.rung > 1 => lastIn'[q.p] # Never /\ d - 1 <= Day(lastIn'[q.p])
            BY <2>5, <2>6, <2>7, <4>4, <6>1
          <6> QED BY <2>3, <5>1, <5>2, <6>2 DEF Climbs, Day
        <5>3. CASE c.p # q.p
          BY <2>3, <2>7, <4>4, <5>1, <5>3 DEF Climbs, Day
        <5> QED BY <5>2, <5>3
      <4> QED BY <4>1, <4>3, <4>5 DEF Climbs, Day
    <3> QED BY <3>1, <3>2 DEF LadderOK, Day
  <2> QED BY <2>11, <2>12, <2>13, <2>14, <2>15 DEF Inv
<1>4. CASE ~MayCheckIn(r)
  BY <1>2, <1>4, DoneKeeps DEF ClaimCheckIn, world, rows
<1> QED BY <1>3, <1>4

LEMMA PromoKeeps ==
  ASSUME RewardsAssumption, Inv, NEW r \in Requests, ClaimPromo(r) PROVE Inv'
<1>1. req[r].pc = "ready" /\ req[r].kind = "promo"
  BY DEF ClaimPromo, At
<1>2. UNCHANGED <<mix, clock, frozen, edge, peak, paid, lastSpin, lastIn, rung, days, swept>>
  BY DEF ClaimPromo, world
<1>3. CASE PromoOpen(req[r].at) /\ req[r].p \notin redeemed
  <2>1. PICK q : Moves(r, q) /\ q.pc = "won" /\ q.kind = "promo" /\ q.p = req[r].p
    BY <1>1, <1>2, <1>3, Went DEF ClaimPromo, Pcs
  <2>2. q.p \in Players
    BY <1>1, <2>1, Known
  <2>3. redeemed' = redeemed \cup {q.p} /\ q.p \notin redeemed /\ Cardinality(redeemed) < PromoUses
    BY <1>3, <2>1 DEF ClaimPromo, PromoOpen
  <2>4. ASSUME NEW c \in Others(r) PROVE Marked(c)' /\ Apart(c, q)
    BY <1>2, <2>1, <2>3, OthersKnown DEF Marked, Apart, Day
  <2>5. Marked(q)'
    BY <2>1, <2>3 DEF Marked
  <2>6. TurnsOK'
    BY <1>2, <2>1, <2>4, <2>5, TurnsKept
  <2>7. TypeOK'
    BY <1>2, <2>1, <2>2, <2>3, Moved DEF Inv, TypeOK, Pcs
  <2>8. TypesOK'
    <3>1. IsFiniteSet(redeemed) /\ Cardinality(redeemed) \in Nat
      BY FS_CardinalityType DEF Inv, TypesOK
    <3>2. IsFiniteSet(redeemed') /\ Cardinality(redeemed') = Cardinality(redeemed) + 1
      BY <2>3, <3>1, FS_AddElement
    <3>3. Cardinality(redeemed') <= PromoUses
      BY <2>3, <3>1, <3>2, Numbers
    <3> QED BY <1>2, <2>1, <3>2, <3>3, Moved, FitsLater DEF Inv, TypesOK
  <2>9. LadderOK' /\ MoneyOK'
    BY <1>2, <2>1, LadderKept, MoneyKept DEF Holds
  <2> QED BY <2>6, <2>7, <2>8, <2>9 DEF Inv
<1>4. CASE ~(PromoOpen(req[r].at) /\ req[r].p \notin redeemed)
  BY <1>2, <1>4, DoneKeeps DEF ClaimPromo, world, rows
<1> QED BY <1>3, <1>4

\* The units of one claim or of one credit.
LEMMA Units ==
  ASSUME NEW x, NEW n \in Nat
  PROVE  IsFiniteSet({x} \X (1..n)) /\ Cardinality({x} \X (1..n)) = n
<1>1. IsFiniteSet({x}) /\ Cardinality({x}) = 1
  BY FS_Singleton
<1>2. IsFiniteSet(1..n) /\ Cardinality(1..n) = n
  BY FS_Interval
<1>3. /\ IsFiniteSet({x} \X (1..n))
      /\ Cardinality({x} \X (1..n)) = Cardinality({x}) * Cardinality(1..n)
  BY <1>1, <1>2, FS_Product
<1>4. 1 * n = n
  OBVIOUS
<1> QED BY <1>1, <1>2, <1>3, <1>4

LEMMA RakebackKeeps ==
  ASSUME RewardsAssumption, Inv, NEW r \in Requests, ClaimRakeback(r) PROVE Inv'
<1>1. req[r].pc = "counted" /\ req[r].kind = "rakeback" /\ req[r].p \in Players /\ req[r].amount \in 0..MaxEdge
  BY Known DEF ClaimRakeback, At, Fits, Req
<1>2. UNCHANGED <<mix, clock, frozen, edge, peak, paid, lastSpin, lastIn, rung, redeemed, days>>
  BY DEF ClaimRakeback, world
<1>3. PICK q : /\ Moves(r, q) /\ q.pc = "won" /\ q.kind = "rakeback"
               /\ q.p = req[r].p /\ q.amount = req[r].amount
  BY <1>1, <1>2, Went DEF ClaimRakeback, Pcs
<1>4. /\ swept \in [Players -> 0..MaxEdge] /\ edge \in [Players -> 0..MaxEdge]
      /\ peak \in [Players -> 0..MaxEdge]
  BY DEF Inv, TypeOK, TypesOK
<1>5. swept[q.p] + q.amount <= peak[q.p]
  BY <1>1, <1>3 DEF Inv, MoneyOK
<1>6. swept' = [swept EXCEPT ![q.p] = @ + q.amount] /\ swept'[q.p] = swept[q.p] + q.amount
  BY <1>1, <1>3, <1>4 DEF ClaimRakeback
<1>7. swept' \in [Players -> 0..MaxEdge]
  <2>1. swept[q.p] + q.amount \in 0..MaxEdge
    BY <1>1, <1>3, <1>4, <1>5, Numbers
  <2> QED BY <1>4, <1>6, <2>1
<1>8. TypeOK'
  BY <1>2, <1>3, <1>7, Moved DEF Inv, TypeOK, Pcs
<1>9. TypesOK'
  BY <1>2, <1>3, Moved, FitsLater DEF Inv, TypesOK
<1>10. TurnsOK'
  <2>1. Marked(q)' /\ \A c : Apart(c, q)
    BY <1>3 DEF Marked, Apart
  <2> QED BY <1>2, <1>3, <2>1, MarksStay, TurnsKept
<1>11. LadderOK'
  BY <1>2, <1>3, LadderKept
<1>12. MoneyOK'
  <2>1. ASSUME NEW p \in Players
        PROVE  /\ edge'[p] <= peak'[p] /\ swept'[p] <= peak'[p]
               /\ IsFiniteSet(Rakeback(p)') /\ IsFiniteSet(Pending(p)')
               /\ Cardinality(Rakeback(p)') + Cardinality(Pending(p)') <= swept'[p]
    <3>1. /\ edge[p] <= peak[p] /\ swept[p] <= peak[p]
          /\ IsFiniteSet(Rakeback(p)) /\ IsFiniteSet(Pending(p))
          /\ Cardinality(Rakeback(p)) + Cardinality(Pending(p)) <= swept[p]
      BY DEF Inv, MoneyOK
    <3>2. Cardinality(Rakeback(p)) \in Nat /\ Cardinality(Pending(p)) \in Nat /\ swept[p] \in Nat
      BY <1>4, <3>1, FS_CardinalityType
    <3>3. Rakeback(p)' = Rakeback(p)
      BY <1>2 DEF Rakeback
    <3>4. \A s \in Requests \ {r} : req'[s] = req[s]
      BY <1>3, Moved
    <3>5. CASE p = q.p
      <4>1. PICK units : units = {r} \X (1..q.amount)
        OBVIOUS
      <4>2. IsFiniteSet(units) /\ Cardinality(units) = q.amount /\ q.amount \in Nat
        <5>1. q.amount \in Nat
          BY <1>1, <1>3
        <5>2. IsFiniteSet({r} \X (1..q.amount)) /\ Cardinality({r} \X (1..q.amount)) = q.amount
          BY <5>1, Units
        <5> QED BY <4>1, <5>1, <5>2
      <4>3. Pending(p)' = Pending(p) \cup units
        <5>1. \A u : u \in Pending(p)' <=> \E s \in Requests :
                 req'[s].pc = "won" /\ req'[s].kind = "rakeback" /\ req'[s].p = p
                 /\ u \in {s} \X (1..req'[s].amount)
          BY DEF Pending
        <5>2. \A u : u \in Pending(p) <=> \E s \in Requests :
                 req[s].pc = "won" /\ req[s].kind = "rakeback" /\ req[s].p = p
                 /\ u \in {s} \X (1..req[s].amount)
          BY DEF Pending
        <5>3. req'[r] = q /\ req[r].pc # "won"
          BY <1>1, <1>3, Moved
        <5>4. ASSUME NEW u PROVE u \in Pending(p)' <=> u \in Pending(p) \/ u \in units
          BY <1>3, <3>4, <3>5, <4>1, <5>1, <5>2, <5>3
        <5> QED BY <5>4
      <4>4. Pending(p) \cap units = {}
        <5>1. \A u \in Pending(p) : \E s \in Requests \ {r} : u \in {s} \X (1..req[s].amount)
          BY <1>1 DEF Pending
        <5>2. ASSUME NEW u \in Pending(p), u \in units PROVE FALSE
          <6>1. PICK s \in Requests \ {r} : u \in {s} \X (1..req[s].amount)
            BY <5>1, <5>2
          <6>2. u[1] = s /\ u[1] = r
            BY <4>1, <5>2, <6>1
          <6> QED BY <6>1, <6>2
        <5> QED BY <5>2
      <4>5. /\ IsFiniteSet(Pending(p) \cup units)
            /\ Cardinality(Pending(p) \cup units) =
                 Cardinality(Pending(p)) + Cardinality(units) - Cardinality(Pending(p) \cap units)
        BY <3>1, <4>2, FS_Union
      <4>6. Cardinality(Pending(p) \cap units) = 0
        BY <4>4, FS_EmptySet
      <4>7. IsFiniteSet(Pending(p)') /\ Cardinality(Pending(p)') = Cardinality(Pending(p)) + q.amount
        BY <3>2, <4>2, <4>3, <4>5, <4>6
      <4>8. swept'[p] = swept[p] + q.amount /\ swept'[p] <= peak'[p] /\ edge'[p] <= peak'[p]
        BY <1>2, <1>5, <1>6, <3>1, <3>5
      <4> QED BY <3>1, <3>2, <3>3, <4>2, <4>7, <4>8
    <3>6. CASE p # q.p
      <4>1. Pending(p)' = Pending(p)
        <5>1. ASSUME NEW s \in Requests
              PROVE  /\ (req'[s].pc = "won" /\ req'[s].kind = "rakeback" /\ req'[s].p = p)
                        <=> (req[s].pc = "won" /\ req[s].kind = "rakeback" /\ req[s].p = p)
                     /\ (req[s].pc = "won" /\ req[s].kind = "rakeback" /\ req[s].p = p)
                        => req'[s] = req[s]
          BY <1>1, <1>3, <3>4, <3>6, Moved
        <5> QED BY <5>1 DEF Pending
      <4>2. swept'[p] = swept[p]
        BY <1>4, <1>6, <3>6
      <4> QED BY <1>2, <3>1, <3>3, <4>1, <4>2
    <3> QED BY <3>5, <3>6
  <2>2. ASSUME NEW s \in Requests, NEW t \in Requests,
               Holds(req'[s]), Holds(req'[t]), req'[s].p = req'[t].p
        PROVE  s = t
    BY <1>3, <2>2, Moved DEF Inv, MoneyOK, Holds
  <2>3. ASSUME NEW s \in Requests, req'[s].pc = "counted"
        PROVE  swept'[req'[s].p] + req'[s].amount <= peak'[req'[s].p]
    <3>1. s # r /\ req'[s] = req[s]
      BY <1>3, <2>3, Moved
    <3>2. req[s].p # q.p /\ req[s].p \in Players
      BY <1>1, <1>3, <2>3, <3>1, Known DEF Inv, MoneyOK, Holds
    <3>3. swept'[req[s].p] = swept[req[s].p]
      BY <1>4, <1>6, <3>2
    <3> QED BY <1>2, <2>3, <3>1, <3>3 DEF Inv, MoneyOK
  <2> QED BY <2>1, <2>2, <2>3 DEF MoneyOK, Holds
<1> QED BY <1>8, <1>9, <1>10, <1>11, <1>12 DEF Inv

\* A claim is paid: it moves from the handlers to the credits.
LEMMA CreditKeeps ==
  ASSUME RewardsAssumption, Inv, NEW r \in Requests, Credit(r) PROVE Inv'
<1>1. req[r].pc = "won" /\ UNCHANGED <<world, rows>> /\ Done(r)
  BY DEF Credit, At
<1>2. UNCHANGED <<mix, clock, frozen, edge, peak, lastSpin, lastIn, rung, redeemed, swept, days>>
  BY <1>1 DEF world, rows
<1>3. Moves(r, Idle) /\ Idle.pc = "idle" /\ ~Holds(Idle)
  BY <1>1, IdleReq DEF Done, Moves, Fits, Idle
<1>4. CASE req[r].kind = "cashback" /\ CashbackToday(req[r].p)
  <2>1. paid' = paid
    BY <1>4 DEF Credit
  <2> QED BY <1>1, <2>1, DoneKeeps
<1>5. CASE ~(req[r].kind = "cashback" /\ CashbackToday(req[r].p))
  <2>1. PICK c : c = Credits(r)
    OBVIOUS
  <2>2. paid' = Append(paid, c)
    BY <1>5, <2>1 DEF Credit
  <2>3. PICK n : n = Len(paid)
    OBVIOUS
  <2>4. req[r] \in Req /\ req[r].kind \in Kinds /\ req[r].p \in Players /\ clock \in Nat
    BY <1>1, Known
  <2>5. /\ c.kind = req[r].kind /\ c.p = req[r].p /\ c.at = req[r].at /\ c.day = Day(clock)
        /\ c.rung = req[r].rung /\ c.amount = req[r].amount
    BY <2>1 DEF Credits
  <2>6. c \in Row
    <3>1. Day(clock) \in Nat
      BY <2>4, DayOf
    <3> QED BY <2>1, <2>4, <3>1 DEF Credits, Row, Req
  <2>7. /\ paid \in Seq(Row) /\ n \in Nat /\ DOMAIN paid = 1..n
        /\ paid' \in Seq(Row) /\ DOMAIN paid' = 1..(n + 1)
        /\ paid'[n + 1] = c /\ \A i \in 1..n : paid'[i] = paid[i]
    BY <2>2, <2>3, <2>6, Known
  <2>8. TypeOK'
    <3>1. ASSUME NEW i \in DOMAIN paid'
          PROVE  paid'[i].kind \in Kinds /\ paid'[i].p \in Players /\ paid'[i].at \in Ticks
      <4>1. paid'[i] \in Row
        BY <2>7
      <4> QED BY <4>1 DEF Row
    <3> QED BY <1>2, <1>3, <3>1, Moved DEF Inv, TypeOK, Pcs
  <2>9. TypesOK'
    BY <1>2, <1>3, <2>7, Moved, FitsLater DEF Inv, TypesOK
  <2>10. LadderOK'
    BY <1>2, <1>3, LadderKept
  <2>11. TurnsOK'
    <3>1. Won' \subseteq Won \ {r} /\ \A s \in Won' : req'[s] = req[s]
      BY <1>3, Moved DEF Won
    <3>2. Marked(c) /\ Marked(c)'
      BY <1>1, <1>2, <2>5 DEF Inv, TurnsOK, Won, Marked, Day
    <3>3. \A i \in 1..n : Apart(paid[i], c) /\ Apart(c, paid[i])
      BY <1>1, <2>5, <2>7 DEF Inv, TurnsOK, Won, Apart
    <3>4. \A s \in Won \ {r} : Apart(c, req[s])
      BY ZenonT(60), <1>1, <2>5 DEF Inv, TurnsOK, Won, Apart
    <3>5. ASSUME NEW i \in DOMAIN paid' PROVE Marked(paid[i])'
      <4>1. PICK d : d = paid'[i]
        OBVIOUS
      <4>2. Marked(d)
        BY <2>7, <3>2, <4>1 DEF Inv, TurnsOK
      <4> QED BY <1>2, <4>1, <4>2 DEF Marked, Day
    <3>6. ASSUME NEW s \in Won' PROVE Marked(req[s])'
      <4>1. Marked(req[s]) /\ req'[s] = req[s]
        BY <3>1 DEF Inv, TurnsOK
      <4> QED BY <1>2, <4>1 DEF Marked, Day
    <3>7. ASSUME NEW i \in DOMAIN paid', NEW j \in DOMAIN paid', i # j
          PROVE  Apart(paid'[i], paid'[j])
      BY <2>7, <3>3, <3>7 DEF Inv, TurnsOK
    <3>8. ASSUME NEW i \in DOMAIN paid', NEW s \in Won' PROVE Apart(paid'[i], req'[s])
      BY <2>7, <3>1, <3>4 DEF Inv, TurnsOK
    <3>9. \A s, t \in Won' : s # t => Apart(req'[s], req'[t])
      BY <3>1 DEF Inv, TurnsOK
    <3>10. ASSUME NEW i \in DOMAIN paid', NEW j \in DOMAIN paid', i # j,
                  paid'[i].kind = "cashback", paid'[j].kind = "cashback", paid'[i].p = paid'[j].p
           PROVE  paid'[i].day # paid'[j].day
      <4>1. c.kind = "cashback" =>
              \A k \in 1..n : paid[k].kind = "cashback" /\ paid[k].p = c.p => paid[k].day # c.day
        BY <1>5, <2>5, <2>7 DEF CashbackToday
      <4>2. CASE i \in 1..n /\ j \in 1..n
        BY <2>7, <3>10, <4>2 DEF Inv, TurnsOK
      <4>3. CASE i = n + 1 /\ j \in 1..n
        BY <2>7, <3>10, <4>1, <4>3
      <4>4. CASE j = n + 1 /\ i \in 1..n
        BY <2>7, <3>10, <4>1, <4>4
      <4>5. CASE i = n + 1 /\ j = n + 1
        BY <3>10, <4>5
      <4> QED BY <2>7, <4>2, <4>3, <4>4, <4>5
    <3> QED BY <3>5, <3>6, <3>7, <3>8, <3>9, <3>10 DEF TurnsOK, Apart, Day
  <2>12. MoneyOK'
    <3>1. ASSUME NEW p \in Players
          PROVE  /\ edge'[p] <= peak'[p] /\ swept'[p] <= peak'[p]
                 /\ IsFiniteSet(Rakeback(p)') /\ IsFiniteSet(Pending(p)')
                 /\ Cardinality(Rakeback(p)') + Cardinality(Pending(p)') <= swept'[p]
      <4>1. /\ edge[p] <= peak[p] /\ swept[p] <= peak[p]
            /\ IsFiniteSet(Rakeback(p)) /\ IsFiniteSet(Pending(p))
            /\ Cardinality(Rakeback(p)) + Cardinality(Pending(p)) <= swept[p]
        BY DEF Inv, MoneyOK
      <4>2. Cardinality(Rakeback(p)) \in Nat /\ Cardinality(Pending(p)) \in Nat /\ swept[p] \in Nat
        <5>1. swept[p] \in 0..MaxEdge
          BY DEF Inv, TypeOK
        <5> QED BY <4>1, <5>1, FS_CardinalityType, Numbers
      <4>3. \A s \in Requests \ {r} : req'[s] = req[s]
        BY <1>3, Moved
      <4>4. \A u : u \in Rakeback(p)' <=>
              \E i \in DOMAIN paid' : paid'[i].kind = "rakeback" /\ paid'[i].p = p
                                      /\ u \in {i} \X (1..paid'[i].amount)
        BY DEF Rakeback
      <4>5. \A u : u \in Rakeback(p) <=>
              \E i \in DOMAIN paid : paid[i].kind = "rakeback" /\ paid[i].p = p
                                     /\ u \in {i} \X (1..paid[i].amount)
        BY DEF Rakeback
      <4>6. \A u : u \in Pending(p)' <=>
              \E s \in Requests : req'[s].pc = "won" /\ req'[s].kind = "rakeback" /\ req'[s].p = p
                                  /\ u \in {s} \X (1..req'[s].amount)
        BY DEF Pending
      <4>7. \A u : u \in Pending(p) <=>
              \E s \in Requests : req[s].pc = "won" /\ req[s].kind = "rakeback" /\ req[s].p = p
                                  /\ u \in {s} \X (1..req[s].amount)
        BY DEF Pending
      <4>8. req'[r].pc # "won"
        BY <1>3, Moved
      <4>9. CASE c.kind = "rakeback" /\ c.p = p
        <5>1. PICK taken : taken = {r} \X (1..c.amount)
          OBVIOUS
        <5>2. PICK units : units = {n + 1} \X (1..c.amount)
          OBVIOUS
        <5>3. c.amount \in Nat
          BY <2>5, Known
        <5>4. /\ IsFiniteSet(taken) /\ Cardinality(taken) = c.amount
              /\ IsFiniteSet(units) /\ Cardinality(units) = c.amount
          BY <5>1, <5>2, <5>3, Units
        <5>5. Rakeback(p)' \subseteq Rakeback(p) \cup units
          BY <2>7, <4>4, <4>5, <5>2
        <5>6. taken \subseteq Pending(p)
          BY <1>1, <2>5, <4>7, <4>9, <5>1
        <5>7. Pending(p)' \subseteq Pending(p) \ taken
          <6>1. ASSUME NEW u \in Pending(p)' PROVE u \in Pending(p) /\ u \notin taken
            <7>1. PICK s \in Requests : /\ req'[s].pc = "won" /\ req'[s].kind = "rakeback" /\ req'[s].p = p
                                        /\ u \in {s} \X (1..req'[s].amount)
              BY <4>6
            <7>2. s # r /\ req'[s] = req[s]
              BY <4>3, <4>8, <7>1
            <7>3. u \in Pending(p)
              BY <4>7, <7>1, <7>2
            <7>4. u[1] = s
              BY <7>1
            <7> QED BY <5>1, <7>2, <7>3, <7>4
          <6> QED BY <6>1
        <5>8. /\ IsFiniteSet(Pending(p) \ taken)
              /\ Cardinality(Pending(p) \ taken) =
                   Cardinality(Pending(p)) - Cardinality(Pending(p) \cap taken)
          BY <4>1, FS_Difference
        <5>9. Pending(p) \cap taken = taken
          BY <5>6
        <5>10. /\ IsFiniteSet(Rakeback(p) \cup units)
               /\ Cardinality(Rakeback(p) \cup units) =
                    Cardinality(Rakeback(p)) + Cardinality(units) - Cardinality(Rakeback(p) \cap units)
          BY <4>1, <5>4, FS_Union
        <5>11. IsFiniteSet(Rakeback(p) \cap units) /\ Cardinality(Rakeback(p) \cap units) \in Nat
          BY <4>1, FS_Subset, FS_CardinalityType
        <5>12. /\ IsFiniteSet(Rakeback(p)') /\ Cardinality(Rakeback(p)') \in Nat
               /\ Cardinality(Rakeback(p)') <= Cardinality(Rakeback(p) \cup units)
          BY <5>5, <5>10, FS_Subset, FS_CardinalityType
        <5>13. /\ IsFiniteSet(Pending(p)') /\ Cardinality(Pending(p)') \in Nat
               /\ Cardinality(Pending(p)') <= Cardinality(Pending(p) \ taken)
          BY <5>7, <5>8, FS_Subset, FS_CardinalityType
        <5>14. Cardinality(Rakeback(p)') <= Cardinality(Rakeback(p)) + c.amount
          BY <4>2, <5>3, <5>4, <5>10, <5>11, <5>12
        <5>15. Cardinality(Pending(p)') <= Cardinality(Pending(p)) - c.amount
          BY <4>2, <5>3, <5>4, <5>8, <5>9, <5>13
        <5> QED BY <1>2, <4>1, <4>2, <5>3, <5>12, <5>13, <5>14, <5>15
      <4>10. CASE ~(c.kind = "rakeback" /\ c.p = p)
        <5>1. Rakeback(p)' = Rakeback(p)
          <6>1. ASSUME NEW u PROVE u \in Rakeback(p)' <=> u \in Rakeback(p)
            BY <2>7, <4>4, <4>5, <4>10
          <6> QED BY <6>1
        <5>2. Pending(p)' \subseteq Pending(p)
          <6>1. ASSUME NEW u \in Pending(p)' PROVE u \in Pending(p)
            BY <4>3, <4>6, <4>7, <4>8
          <6> QED BY <6>1
        <5>3. /\ IsFiniteSet(Pending(p)') /\ Cardinality(Pending(p)') \in Nat
              /\ Cardinality(Pending(p)') <= Cardinality(Pending(p))
          BY <4>1, <5>2, FS_Subset, FS_CardinalityType
        <5> QED BY <1>2, <4>1, <4>2, <5>1, <5>3
      <4> QED BY <4>9, <4>10
    <3>2. ASSUME NEW s \in Requests, NEW t \in Requests,
                 Holds(req'[s]), Holds(req'[t]), req'[s].p = req'[t].p
          PROVE  s = t
      BY <1>3, <3>2, Moved DEF Inv, MoneyOK, Holds
    <3>3. ASSUME NEW s \in Requests, req'[s].pc = "counted"
          PROVE  swept'[req'[s].p] + req'[s].amount <= peak'[req'[s].p]
      BY <1>2, <1>3, <3>3, Moved DEF Inv, MoneyOK
    <3> QED BY <3>1, <3>2, <3>3 DEF MoneyOK, Holds
  <2> QED BY <2>8, <2>9, <2>10, <2>11, <2>12 DEF Inv
<1> QED BY <1>4, <1>5

\* Time passes, a player is frozen: the handlers and the rows stay as they are.
LEMMA WorldKeeps ==
  ASSUME RewardsAssumption, Inv, UNCHANGED <<mix, edge, peak, req, paid, rows>>,
         clock' \in Ticks, clock' >= clock, frozen' \subseteq Players
  PROVE  Inv'
<1>1. UNCHANGED <<mix, edge, peak, req, paid, lastSpin, lastIn, rung, redeemed, swept, days>>
  BY DEF rows
<1>2. TypeOK'
  BY <1>1 DEF Inv, TypeOK
<1>3. TypesOK'
  <2>1. clock \in Nat /\ clock' \in Nat
    BY Known, Numbers DEF Ticks
  <2>2. \A r \in Requests : Fits(req[r])'
    BY <1>1, <2>1, Known DEF Fits
  <2> QED BY <1>1, <2>2 DEF Inv, TypesOK
<1>4. TurnsOK'
  BY <1>1 DEF Inv, TurnsOK, Won, Marked, Apart, Day
<1>5. LadderOK'
  BY <1>1 DEF Inv, LadderOK, Climbs, Day
<1>6. MoneyOK'
  BY <1>1 DEF Inv, MoneyOK, Rakeback, Pending, Holds
<1> QED BY <1>2, <1>3, <1>4, <1>5, <1>6 DEF Inv

LEMMA TickKeeps == ASSUME RewardsAssumption, Inv, Tick PROVE Inv'
<1>1. clock \in Ticks /\ clock < MaxTick /\ clock' = clock + 1
  BY DEF Tick, Inv, TypeOK
<1>2. clock' \in Ticks /\ clock' >= clock
  BY <1>1, Numbers DEF Ticks
<1>3. frozen' \subseteq Players
  BY DEF Tick, Inv, TypeOK
<1> QED BY <1>2, <1>3, WorldKeeps DEF Tick

LEMMA FreezeKeeps ==
  ASSUME RewardsAssumption, Inv, NEW p \in Players, Freeze(p) PROVE Inv'
<1>1. clock' = clock /\ clock \in Ticks /\ clock \in Nat
  BY Known DEF Freeze, Inv, TypeOK
<1>2. frozen' \subseteq Players
  BY DEF Freeze, Inv, TypeOK
<1> QED BY <1>1, <1>2, WorldKeeps DEF Freeze

LEMMA PlayKeeps ==
  ASSUME RewardsAssumption, Inv, NEW p \in Players, Play(p) PROVE Inv'
<1>1. UNCHANGED <<mix, clock, frozen, req, paid, lastSpin, lastIn, rung, redeemed, swept, days>>
  BY DEF Play, rows
<1>2. PICK e \in 0..MaxEdge :
        /\ edge' = [edge EXCEPT ![p] = e]
        /\ peak' = [peak EXCEPT ![p] = IF @ < e THEN e ELSE @]
  <2>1. PICK e \in 0..MaxEdge : edge' = [edge EXCEPT ![p] = e]
    BY DEF Play
  <2>2. edge'[p] = e
    BY <2>1 DEF Inv, TypeOK
  <2> QED BY <2>1, <2>2 DEF Play
<1>3. edge \in [Players -> 0..MaxEdge] /\ peak \in [Players -> 0..MaxEdge]
  BY DEF Inv, TypeOK, TypesOK
<1>4. edge' \in [Players -> 0..MaxEdge] /\ peak' \in [Players -> 0..MaxEdge]
  BY <1>2, <1>3
<1>5. \A s \in Players : peak'[s] >= peak[s] /\ edge'[s] <= peak'[s]
  <2>1. \A s \in Players : edge[s] <= peak[s]
    BY DEF Inv, MoneyOK
  <2> QED BY <1>2, <1>3, <2>1, Numbers
<1>6. TypeOK'
  BY <1>1, <1>4 DEF Inv, TypeOK
<1>7. TypesOK'
  BY <1>1, <1>4 DEF Inv, TypesOK, Fits
<1>8. TurnsOK' /\ LadderOK'
  BY <1>1 DEF Inv, TurnsOK, LadderOK, Climbs, Won, Marked, Apart, Day
<1>9. MoneyOK'
  <2>1. \A s \in Players : swept[s] \in Int /\ peak[s] \in Int /\ peak'[s] \in Int
    BY <1>3, <1>4 DEF Inv, TypeOK
  <2>2. ASSUME NEW s \in Players
        PROVE  /\ edge'[s] <= peak'[s] /\ swept'[s] <= peak'[s]
               /\ IsFiniteSet(Rakeback(s)') /\ IsFiniteSet(Pending(s)')
               /\ Cardinality(Rakeback(s)') + Cardinality(Pending(s)') <= swept'[s]
    <3>1. Rakeback(s)' = Rakeback(s) /\ Pending(s)' = Pending(s)
      BY <1>1 DEF Rakeback, Pending
    <3>2. swept[s] <= peak[s]
      BY DEF Inv, MoneyOK
    <3>3. swept'[s] <= peak'[s]
      BY <1>1, <1>5, <2>1, <3>2
    <3> QED BY <1>1, <1>5, <3>1, <3>3 DEF Inv, MoneyOK
  <2>3. ASSUME NEW s \in Requests, req'[s].pc = "counted"
        PROVE  swept'[req'[s].p] + req'[s].amount <= peak'[req'[s].p]
    <3>1. swept[req[s].p] + req[s].amount <= peak[req[s].p]
      BY <1>1, <2>3 DEF Inv, MoneyOK
    <3>2. req[s].p \in Players /\ req[s].amount \in Int
      BY <1>1, <2>3, Known
    <3> QED BY <1>1, <1>5, <2>1, <3>1, <3>2
  <2> QED BY <1>1, <2>2, <2>3 DEF Inv, MoneyOK, Holds
<1> QED BY <1>6, <1>7, <1>8, <1>9 DEF Inv

LEMMA InvNext == ASSUME RewardsAssumption, Inv, [Next]_vars PROVE Inv'
<1>1. CASE UNCHANGED vars
  <2>1. UNCHANGED <<mix, clock, frozen, edge, peak, req, paid, rows>>
    BY <1>1 DEF vars, world
  <2>2. clock \in Ticks /\ clock \in Nat /\ frozen \subseteq Players
    BY Known DEF Inv, TypeOK
  <2> QED BY <2>1, <2>2, WorldKeeps
<1>2. ASSUME NEW r \in Requests, Handle(r) PROVE Inv'
  BY <1>2, ReadKeeps, SpinKeeps, CheckInKeeps, PromoKeeps, RakebackWaits, CountKeeps,
     RakebackKeeps, TimeOutKeeps, CreditKeeps DEF Handle
<1>3. ASSUME NEW r \in Requests, NEW k \in mix.kinds, NEW p \in mix.players, Ask(r, k, p) PROVE Inv'
  BY <1>3, AskKeeps
<1>4. mix.players \subseteq Players
  <2>1. mix \in [kinds : SUBSET Kinds, players : SUBSET Players, pool : Nat]
    BY DEF Inv, TypeOK, RewardsAssumption
  <2> QED BY <2>1
<1>5. ASSUME NEW p \in mix.players, Play(p) \/ Freeze(p) PROVE Inv'
  BY <1>4, <1>5, PlayKeeps, FreezeKeeps
<1>6. CASE Tick
  BY <1>6, TickKeeps
<1> QED BY <1>1, <1>2, <1>3, <1>5, <1>6 DEF Next

LEMMA Invariant == ASSUME RewardsAssumption PROVE Spec => []Inv
<1>1. Init => Inv
  BY InvInit
<1>2. Inv /\ [Next]_vars => Inv'
  BY InvNext
<1> QED BY <1>1, <1>2, PTL DEF Spec

-----------------------------------------------------------------------------
(* The theorems *)

\* Every variable keeps its type, for any number of players and of handlers.
THEOREM RewardsTypeCorrect == ASSUME RewardsAssumption PROVE Spec => []TypeOK
<1>1. Inv => TypeOK
  BY DEF Inv
<1> QED BY <1>1, Invariant, PTL

\* However many handlers run, wherever midnight falls and whichever credit fails: a
\* player spins once per cooldown, checks in and gets its cashback once per day, and
\* redeems a code once; a code pays no more than its uses; and a rung of the ladder is
\* paid for the days it took.
THEOREM RewardsEarnedOnce == ASSUME RewardsAssumption PROVE Spec => []EarnedOnce
<1>1. ASSUME Inv PROVE LadderIsEarned
  BY <1>1 DEF Inv, TurnsOK, Marked, LadderIsEarned
<1>2. ASSUME Inv PROVE PaidOncePerTurn
  <2>1. ASSUME NEW i \in DOMAIN paid, NEW j \in DOMAIN paid,
               i # j, paid[i].kind = paid[j].kind, paid[i].p = paid[j].p
        PROVE  /\ paid[i].kind = "wheel" =>
                    \/ paid[i].at - paid[j].at >= TicksPerDay
                    \/ paid[j].at - paid[i].at >= TicksPerDay
               /\ paid[i].kind = "checkin" => Day(paid[i].at) # Day(paid[j].at)
               /\ paid[i].kind = "cashback" => paid[i].day # paid[j].day
               /\ paid[i].kind # "promo"
    BY <1>2, <2>1 DEF Inv, TurnsOK, Apart
  \* Each use of a code is by a player of its own, who is among those who redeemed it.
  <2>2. Cardinality({i \in DOMAIN paid : paid[i].kind = "promo"}) <= PromoUses
    <3> DEFINE used == {i \in DOMAIN paid : paid[i].kind = "promo"}
               by == [i \in used |-> paid[i].p]
    <3>1. \A i \in used : by[i] \in redeemed
      BY <1>2 DEF Inv, TurnsOK, Marked
    <3>2. \A i, j \in used : by[i] = by[j] => i = j
      BY <2>1
    <3>3. by \in Injection(used, redeemed)
      BY <3>1, <3>2 DEF Injection, IsInjective
    <3>4. IsFiniteSet(redeemed) /\ Cardinality(redeemed) <= PromoUses
      BY <1>2 DEF Inv, TypesOK
    <3>5. IsFiniteSet(used) /\ Cardinality(used) <= Cardinality(redeemed)
      BY <3>3, <3>4, FS_Injection
    <3>6. Cardinality(used) \in Nat /\ Cardinality(redeemed) \in Nat
      BY <3>4, <3>5, FS_CardinalityType
    <3> HIDE DEF used
    <3> QED BY <3>4, <3>5, <3>6, Numbers DEF used
  <2> QED BY <2>1, <2>2 DEF PaidOncePerTurn
<1>3. ASSUME Inv PROVE EarnedOnce
  BY <1>1, <1>2, <1>3 DEF EarnedOnce
<1> QED BY <1>3, Invariant, PTL

\* The rakeback a player claims never adds up to more than its play was ever worth, and
\* what is credited never to more than the claims, however the claims interleave with
\* bets, with each other, and with transactions that time out.
THEOREM RakebackCovered == ASSUME RewardsAssumption PROVE Spec => []RakebackIsEarned
<1>1. ASSUME Inv PROVE RakebackIsEarned
  <2>1. ASSUME NEW p \in Players PROVE swept[p] <= peak[p] /\ Cardinality(Rakeback(p)) <= swept[p]
    <3>1. /\ swept[p] <= peak[p] /\ IsFiniteSet(Rakeback(p)) /\ IsFiniteSet(Pending(p))
          /\ Cardinality(Rakeback(p)) + Cardinality(Pending(p)) <= swept[p]
      BY <1>1 DEF Inv, MoneyOK
    <3>2. Cardinality(Rakeback(p)) \in Nat /\ Cardinality(Pending(p)) \in Nat /\ swept[p] \in 0..MaxEdge
      BY <1>1, <3>1, FS_CardinalityType DEF Inv, TypeOK
    <3> QED BY <3>1, <3>2
  <2> QED BY <2>1 DEF RakebackIsEarned
<1> QED BY <1>1, Invariant, PTL
=============================================================================
