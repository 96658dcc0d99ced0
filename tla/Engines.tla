------------------------------ MODULE Engines ------------------------------
(***************************************************************************)
(* What a seed decides: the engines of apps/server/src/engines, and the    *)
(* verifier of apps/web/lib/verify.ts that a player runs to check them.    *)
(* The verifier is written a second time because the first needs           *)
(* node:crypto; the two must agree on every stream of draws.               *)
(*                                                                         *)
(* A draw is k/Grain.  Multipliers are hundredths, other reals fractions   *)
(* <<n, d>>; the rounding of doubles is not modelled.                      *)
(***************************************************************************)
EXTENDS Integers, Sequences, FiniteSets, SequencesExt, FiniteSetsExt, Functions

CONSTANTS
  Grain,         \* a draw is one of 0 .. Grain - 1, over Grain
  Tiles,         \* MINES.gridSize
  ChickenModes,  \* CHICKEN.modes: a function from modes to hazards, in percent
  ChickenMax,    \* CHICKEN.maxMultiplier
  AviaEvents,    \* AVIA.events: a sequence of [mul, add, weight], mul and add fractions
  AviaLength,    \* AVIA.flightEvents: [min, max]
  AviaMax,       \* AVIA.maxMultiplier
  LimboMax,      \* LIMBO.maxMultiplier and CRASH.maxMultiplier
  Bets,          \* what a player may ask for
  Streams(_)     \* the streams tried for a bet: sets of functions from cursors to draws

EnginesAssumption ==
  /\ {Grain, Tiles, LimboMax, ChickenMax, AviaMax} \subseteq Nat \ {0}
  /\ AviaLength.min <= AviaLength.max

VARIABLES
  pc, bet, stream,
  result,    \* what the server's engine made of it
  verified   \* what the player's browser makes of it

vars == <<pc, bet, stream, result, verified>>

-----------------------------------------------------------------------------
(* Fractions *)

RECURSIVE Gcd(_, _)
Gcd(a, b) == IF b = 0 THEN a ELSE Gcd(b, a % b)

Reduced(a) == LET g == Gcd(a[1], a[2]) IN <<a[1] \div g, a[2] \div g>>
Times(a, b) == LET c == Reduced(<<a[1], b[2]>>)  d == Reduced(<<b[1], a[2]>>)
               IN <<c[1] * d[1], c[2] * d[2]>>
Plus(a, b) == Reduced(<<a[1] * b[2] + b[1] * a[2], a[2] * b[2]>>)
Over(a, b) == Times(a, <<b[2], b[1]>>)
Hundredths(a) == (100 * a[1]) \div a[2]
Less(a, b) == a[1] * b[2] < b[1] * a[2]

\* 1 - HOUSE_EDGE of the games priced by a formula.
Fair == <<39, 40>>

\* calculateOutcome signs the nonce alone, floatAt the nonce and a cursor: -1 stands for
\* the message without one.
U(s) == s[-1]
FloatAt(s, cursor) == s[cursor]

-----------------------------------------------------------------------------
(* One draw *)

\* The draws of (1 - edge) / (1 - u), in hundredths, no more than the maximum and no
\* less than 1: Limbo's achieved multiplier and the crash point.
Achieved(s) == Min({100 * LimboMax, Max({100, (195 * Grain) \div (2 * (Grain - U(s)))})})
CrashPoint(s) == Max({100, Min({100 * LimboMax, (195 * Grain) \div (2 * (Grain - U(s)))})})

\* `target` in hundredths.
Limbo(target, s) == IF Achieved(s) >= target THEN target ELSE 0

\* The roll, 100 u, is compared unrounded.
Roll(s) == 100 * U(s)
Dice(target, direction, s) ==
  LET win == IF direction = "UNDER" THEN Roll(s) < target * Grain ELSE Roll(s) > target * Grain
      chance == IF direction = "UNDER" THEN target ELSE 100 - target
  IN IF win THEN 9750 \div chance ELSE 0

Landed(s) == IF 2 * U(s) < Grain THEN "HEADS" ELSE "TAILS"
Coinflip(side, s) == IF Landed(s) = side THEN 195 ELSE 0

Pocket(s) == (37 * U(s)) \div Grain
Red == {1, 3, 5, 7, 9, 12, 14, 16, 18, 19, 21, 23, 25, 27, 30, 32, 34, 36}

\* grossMultiplier: what a position covers and pays.
Covers(kind, arg, p) ==
  CASE kind = "straight" -> p = arg
    [] kind = "red"      -> p \in Red
    [] kind = "black"    -> p \notin Red \cup {0}
    [] kind = "odd"      -> p % 2 = 1
    [] kind = "even"     -> p # 0 /\ p % 2 = 0
    [] kind = "low"      -> p \in 1..18
    [] kind = "high"     -> p \in 19..36
    [] kind = "dozen"    -> p \in 12 * (arg - 1) + 1 .. 12 * arg
    [] kind = "column"   -> p # 0 /\ p % 3 = arg % 3
Gross(kind) == CASE kind = "straight" -> 36 [] kind \in {"dozen", "column"} -> 3 [] OTHER -> 2

\* Several positions on one spin return a share of everything staked, floored.
Roulette(chips, s) ==
  LET stake == FoldFunction(+, 0, [i \in DOMAIN chips |-> chips[i].amount])
      back == FoldFunction(+, 0, [i \in DOMAIN chips |->
                IF Covers(chips[i].kind, chips[i].arg, Pocket(s))
                  THEN chips[i].amount * Gross(chips[i].kind) ELSE 0])
  IN (100 * back) \div stake

-----------------------------------------------------------------------------
(* Several draws *)

Swapped(a, i, j) == [a EXCEPT ![i] = a[j], ![j] = a[i]]

\* provableShuffle of 0 .. n - 1: Fisher-Yates from the end, draw n - 1 - i for place i.
Shuffle(n, s) ==
  LET Walk[i \in 0..n - 1] ==     \* the array before the step for place i
        IF i = n - 1 THEN [k \in 0..n - 1 |-> k]
        ELSE Swapped(Walk[i + 1], i + 1, (FloatAt(s, n - 2 - i) * (i + 2)) \div Grain)
  IN Walk[0]

MinePositions(count, s) == {Shuffle(Tiles, s)[i] : i \in 0..count - 1}

\* multiplierAfter: the odds against k safe tiles, less the edge.
MinesMultiplier(count, k) ==
  IF k = 0 THEN 100
  ELSE Hundredths(Times(Fair,
         FoldFunction(Times, <<1, 1>>, [i \in 0..k - 1 |-> Reduced(<<Tiles - i, Tiles - count - i>>)])))

Rights(rows, s) == Cardinality({i \in 0..rows - 1 : 2 * FloatAt(s, i) >= Grain})

PlinkoTable == [
  LOW |-> <<549, 206, 108, 99, 49, 99, 108, 206, 549>>,
  MEDIUM |-> <<1283, 298, 128, 69, 39, 69, 128, 298, 1283>>,
  HIGH |-> <<2852, 395, 148, 29, 20, 29, 148, 395, 2852>>]
Plinko(risk, s) == PlinkoTable[risk][Rights(8, s) + 1]

\* KENO_PAYTABLE[picks][hits + 1]; the hits are counted among the first ten of the shuffle.
KenoTable == <<
  <<0, 390>>, <<0, 101, 1016>>, <<0, 0, 428, 3212>>, <<0, 0, 177, 1059, 7778>>,
  <<0, 0, 0, 687, 3667, 20605>>, <<0, 0, 0, 318, 1590, 8473, 47666>>,
  <<0, 0, 0, 0, 1153, 5768, 28834, 172990>>,
  <<0, 0, 0, 0, 549, 2751, 13739, 68716, 481011>>,
  <<0, 0, 0, 0, 0, 2363, 9455, 39391, 157564, 1102950>>,
  <<0, 0, 0, 0, 0, 1172, 4686, 23437, 105452, 351521, 2343475>> >>

\* CHICKEN.ramp and chickenHazardAt.
HazardAt(mode, lane) == Reduced(<<ChickenModes[mode] * (40 + 15 * Min({4, lane - 1})), 10000>>)

ChickenMultiplier(mode, lane) ==
  LET survival == FoldFunction(Times, <<1, 1>>,
                    [k \in 1..lane |-> Plus(<<1, 1>>, <<-HazardAt(mode, k)[1], HazardAt(mode, k)[2]>>)])
  IN IF lane = 0 THEN 100 ELSE Hundredths(Over(Fair, survival))

RECURSIVE Deepest(_, _), First(_, _)
Deepest(mode, lane) ==
  IF ChickenMultiplier(mode, lane + 1) <= 100 * ChickenMax THEN Deepest(mode, lane + 1) ELSE lane
First(mode, lane) ==
  IF ChickenMultiplier(mode, lane) < 200 THEN First(mode, lane + 1) ELSE lane

\* The deepest lane priced within the maximum, and the first that may be cashed out.
MaxLanes(mode) == Deepest(mode, 1)
MinCashoutLane(mode) == First(mode, 1)

Survives(mode, lane, s) == ~Less(<<FloatAt(s, lane - 1), Grain>>, HazardAt(mode, lane))

\* bustLane, 0 for none.
BustLane(mode, s) ==
  LET fatal == {lane \in 1..MaxLanes(mode) : ~Survives(mode, lane, s)}
  IN IF fatal = {} THEN 0 ELSE Min(fatal)

Weight == FoldFunction(+, 0, [i \in DOMAIN AviaEvents |-> AviaEvents[i].weight])
Mean(field(_)) ==
  Over(FoldFunction(Plus, <<0, 1>>,
         [i \in DOMAIN AviaEvents |-> Times(<<AviaEvents[i].weight, 1>>, field(AviaEvents[i]))]),
       <<Weight, 1>>)

RECURSIVE Expected(_)
Expected(n) == IF n = 0 THEN <<1, 1>>
               ELSE Plus(Times(Mean(LAMBDA e : e.mul), Expected(n - 1)), Mean(LAMBDA e : e.add))

ExpectedMultiplier ==
  Over(FoldFunction(Plus, <<0, 1>>, [n \in AviaLength.min..AviaLength.max |-> Expected(n)]),
       <<AviaLength.max - AviaLength.min + 1, 1>>)
LandingChance == Over(Fair, ExpectedMultiplier)

\* eventAt: the first event whose cumulative weight is above the roll.
Event(k) ==
  LET Upto(i) == FoldFunction(+, 0, [j \in 1..i |-> AviaEvents[j].weight])
  IN AviaEvents[Min({i \in DOMAIN AviaEvents : k * Weight < Upto(i) * Grain})]

AviaLanded(s) == Less(<<FloatAt(s, 0), Grain>>, LandingChance)
Events(s) == AviaLength.min + (FloatAt(s, 1) * (AviaLength.max - AviaLength.min + 1)) \div Grain

RECURSIVE Collected(_, _)
Collected(n, s) ==
  IF n = 0 THEN <<1, 1>>
  ELSE LET e == Event(FloatAt(s, 2 * n)) IN Plus(Times(Collected(n - 1, s), e.mul), e.add)

AviaCapped(m) == IF Less(<<AviaMax, 1>>, m) THEN <<AviaMax, 1>> ELSE m

Flight(s) ==
  [landed |-> AviaLanded(s), multiplier |-> Hundredths(AviaCapped(Collected(Events(s), s)))]

-----------------------------------------------------------------------------
(* Slots *)

Symbols == <<"CHERRY", "LEMON", "ORANGE", "PLUM", "BELL", "BAR", "SEVEN", "WILD">>
Cumulative == <<22, 42, 60, 75, 86, 93, 97, 100>>
Paytable == [
  CHERRY |-> <<5, 25, 100>>, LEMON |-> <<7, 30, 150>>, ORANGE |-> <<10, 40, 175>>,
  PLUM |-> <<12, 55, 225>>, BELL |-> <<18, 70, 275>>, BAR |-> <<30, 150, 550>>,
  SEVEN |-> <<55, 275, 2500>>, WILD |-> <<250, 1000, 10000>>]
Paylines == <<<<0, 0, 0, 0, 0>>, <<1, 1, 1, 1, 1>>, <<2, 2, 2, 2, 2>>, <<0, 1, 2, 1, 0>>, <<2, 1, 0, 1, 2>>>>

SymbolAt(k) == Symbols[Min({i \in 1..8 : 100 * k < Cumulative[i] * Grain})]

\* spinMatrix, column by column.
Cell(s, reel, row) == SymbolAt(FloatAt(s, 3 * reel + row))
LineCells(s, line) == [reel \in 1..5 |-> Cell(s, reel - 1, Paylines[line][reel])]

\* The loop of evaluateLine after `count` cells: whose line it is, and how long.
RECURSIVE Run(_, _, _)
Run(cells, identity, count) ==
  IF count = 5 \/ (cells[count + 1] # "WILD" /\ identity \notin {"WILD", cells[count + 1]})
    THEN [symbol |-> identity, count |-> count]
    ELSE Run(cells, IF identity = "WILD" THEN cells[count + 1] ELSE identity, count + 1)

LineWin(cells) ==
  LET run == Run(cells, cells[1], 1) IN
  IF run.count < 3 THEN 0 ELSE Paytable[run.symbol][run.count - 2]

\* spin: the lines add up, each on a fifth of the stake.
Slots(s) == (100 * FoldFunction(+, 0, [line \in 1..5 |-> LineWin(LineCells(s, line))])) \div 5

-----------------------------------------------------------------------------
(* INSTANT_ENGINES, and the engines of the round games *)

\* What a bet on stream s comes to: what the player is shown, and for a bet decided at
\* once what it pays.
Play(b, s) ==
  CASE b.game = "LIMBO"    -> [shown |-> Achieved(s), pays |-> Limbo(b.target, s)]
    [] b.game = "CRASH"    -> [shown |-> CrashPoint(s), pays |-> 0]
    [] b.game = "DICE"     -> [shown |-> Roll(s), pays |-> Dice(b.target, b.direction, s)]
    [] b.game = "COINFLIP" -> [shown |-> Landed(s), pays |-> Coinflip(b.side, s)]
    [] b.game = "ROULETTE" -> [shown |-> Pocket(s), pays |-> Roulette(b.chips, s)]
    [] b.game = "PLINKO"   -> [shown |-> Rights(8, s), pays |-> Plinko(b.risk, s)]
    [] b.game = "MINES"    -> [shown |-> MinePositions(b.count, s), pays |-> 0]
    [] b.game = "CHICKEN"  -> [shown |-> BustLane(b.mode, s), pays |-> 0]
    [] b.game = "AVIA"     -> [shown |-> Flight(s),
                               pays |-> IF Flight(s).landed THEN Flight(s).multiplier ELSE 0]
    [] b.game = "SLOTS"    -> [shown |-> [line \in 1..5 |-> LineCells(s, line)], pays |-> Slots(s)]

-----------------------------------------------------------------------------
(* lib/verify.ts *)

VerifyFair == <<975, 1000>>

\* verifyLimbo and verifyCrash
VerifyPoint(s) ==
  Max({100, Min({100 * LimboMax, Hundredths(Times(VerifyFair, <<Grain, Grain - U(s)>>))})})

\* provableShuffle, walking a list of the tiles from its end.
VerifyShuffle(n, s) ==
  FoldLeft(LAMBDA a, i : LET j == 1 + (FloatAt(s, n - i) * i) \div Grain
                         IN [a EXCEPT ![i] = a[j], ![j] = a[i]],
           [k \in 1..n |-> k - 1],
           Reverse([i \in 1..n - 1 |-> i + 1]))

VerifyMines_LastTiles(count, s) == {VerifyShuffle(Tiles, s)[i] : i \in Tiles - count + 1..Tiles}
VerifyMines(count, s) == {VerifyShuffle(Tiles, s)[i] : i \in 1..count}

\* verifyChicken on its own ladder: lane by lane, up to its own last lane.
VerifyLadder(mode, lane) ==
  Hundredths(Over(VerifyFair,
    FoldLeft(LAMBDA p, k : Times(p, Reduced(<<HazardAt(mode, k)[2] - HazardAt(mode, k)[1],
                                              HazardAt(mode, k)[2]>>)),
             <<1, 1>>, [k \in 1..lane |-> k])))

RECURSIVE VerifyLastLane(_, _), VerifyHop(_, _, _, _)
VerifyLastLane(mode, lane) ==
  IF VerifyLadder(mode, lane + 1) <= 100 * ChickenMax THEN VerifyLastLane(mode, lane + 1) ELSE lane
VerifyHop(mode, lane, last, s) ==
  IF lane > last THEN 0
  ELSE IF Less(<<FloatAt(s, lane - 1), Grain>>, HazardAt(mode, lane)) THEN lane
  ELSE VerifyHop(mode, lane + 1, last, s)
VerifyChicken(mode, s) == VerifyHop(mode, 1, VerifyLastLane(mode, 1), s)

\* verifyAvia: one pass over the flight.
VerifyAvia(s) ==
  LET Step(m, i) ==
        LET roll(j) == FloatAt(s, 2 + 2 * i) * Weight
                         - Grain * FoldFunction(+, 0, [k \in 1..j |-> AviaEvents[k].weight])
            spec == AviaEvents[CHOOSE j \in DOMAIN AviaEvents :
                                 roll(j) < 0 /\ \A k \in 1..j - 1 : roll(k) >= 0]
        IN Plus(Times(m, spec.mul), spec.add)
      length == AviaLength.min + (FloatAt(s, 1) * (AviaLength.max - AviaLength.min + 1)) \div Grain
  IN [landed |-> Less(<<FloatAt(s, 0), Grain>>, Over(VerifyFair, ExpectedMultiplier)),
      multiplier |-> Min({100 * AviaMax, Hundredths(FoldLeft(Step, <<1, 1>>, [i \in 1..length |-> i - 1]))})]

\* The games a player can check; the others have no verifier.
Verifiable == {"LIMBO", "CRASH", "DICE", "COINFLIP", "ROULETTE", "MINES", "CHICKEN", "AVIA"}

Recompute(b, s) ==
  CASE b.game \in {"LIMBO", "CRASH"} -> VerifyPoint(s)
    [] b.game = "DICE"     -> 100 * U(s)
    [] b.game = "COINFLIP" -> IF 2 * U(s) < Grain THEN "HEADS" ELSE "TAILS"
    [] b.game = "ROULETTE" -> (U(s) * 37) \div Grain
    [] b.game = "MINES"    -> VerifyMines(b.count, s)
    [] b.game = "CHICKEN"  -> VerifyChicken(b.mode, s)
    [] b.game = "AVIA"     -> VerifyAvia(s)

-----------------------------------------------------------------------------
Nothing == [game |-> "NONE"]

Init == pc = "idle" /\ bet = Nothing /\ stream = <<>> /\ result = <<>> /\ verified = <<>>

Place ==
  /\ pc = "idle"
  /\ bet' \in Bets
  /\ pc' = "placed"
  /\ UNCHANGED <<stream, result, verified>>

Decide ==
  /\ pc = "placed"
  /\ stream' \in Streams(bet)
  /\ result' = Play(bet, stream')
  /\ pc' = "decided"
  /\ UNCHANGED <<bet, verified>>

\* After the seed is revealed.
Verify ==
  /\ pc = "decided" /\ bet.game \in Verifiable
  /\ verified' = Recompute(bet, stream)
  /\ pc' = "verified"
  /\ UNCHANGED <<bet, stream, result>>

Next == Place \/ Decide \/ Verify

Spec == Init /\ [][Next]_vars

-----------------------------------------------------------------------------
(* Properties *)

TypeOK ==
  /\ pc \in {"idle", "placed", "decided", "verified"}
  /\ bet \in Bets \cup {Nothing}
  /\ pc \in {"decided", "verified"} => result.pays \in Nat

\* The two implementations agree on every stream: a player who recomputes a round from
\* the revealed seed finds what the server decided.
VerifierAgrees == pc = "verified" => verified = result.shown

Ways(n, k) == FoldFunction(Times, <<1, 1>>, [i \in 1..k |-> Reduced(<<n - k + i, i>>)])[1]

\* a * b in thousands, without leaving 32 bits.
Thousands(a, b) == (a \div 1000) * b + ((a % 1000) * b) \div 1000

Singles == [{-1} -> 0..Grain - 1]
Total(S, pays(_)) ==
  FoldFunction(+, 0, [p \in {pays(s) : s \in S} |-> p * Cardinality({s \in S : pays(s) = p})])

\* The games' published return is their price: over every equally likely draw no bet
\* returns more than 1 - edge of its stake on average, 36/37 at roulette.  The tables of
\* Plinko and Keno are priced by nobody but their author, the Mines ladder by a formula
\* that never sees the shuffle, and Avia's landing chance by an expectation computed
\* without flying.
PricedAtTheEdge ==
  pc = "placed" =>
    CASE bet.game \in {"LIMBO", "DICE", "COINFLIP"} ->
           2 * Total(Singles, LAMBDA s : Play(bet, s).pays) <= 195 * Grain
      [] bet.game = "ROULETTE" ->
           37 * Total(Singles, LAMBDA s : Play(bet, s).pays) <= 3600 * Grain
      [] bet.game = "PLINKO" ->
           (100 * Total(0..8, LAMBDA r : Ways(8, r) * PlinkoTable[bet.risk][r + 1])) \div 256 <= 9750
      [] bet.game = "KENO" ->
           Total(0..bet.picks, LAMBDA h :
             Thousands(Ways(bet.picks, h) * Ways(40 - bet.picks, 10 - h), KenoTable[bet.picks][h + 1]))
               \div (Ways(40, 10) \div 100000) <= 9750
      [] bet.game = "MINES" ->
           \A k \in 1..Tiles - bet.count :
             2 * MinesMultiplier(bet.count, k)
               * Cardinality({s \in Streams(bet) : MinePositions(bet.count, s) \cap 0..k - 1 = {}})
               <= 195 * Cardinality(Streams(bet))
      [] bet.game = "AVIA" ->
           2 * LandingChance[1] * Total(Streams(bet), LAMBDA s : Flight(s).multiplier)
             <= 195 * LandingChance[2] * Cardinality(Streams(bet))
      [] bet.game = "CHICKEN" -> MinCashoutLane(bet.mode) <= MaxLanes(bet.mode)
      [] OTHER -> TRUE

\* A line pays for the longest run from the first reel that one symbol and wilds make:
\* the loop that lets a run of wilds adopt the next symbol never pays another.
LinesPayTheLongestRun ==
  pc = "decided" /\ bet.game = "SLOTS" =>
    \A line \in 1..5 :
      LET cells == result.shown[line]
          runs == {<<i, n>> \in (1..8) \X (3..5) : \A k \in 1..n : cells[k] \in {Symbols[i], "WILD"}}
          longest == {r \in runs : \A q \in runs : q[2] <= r[2]}
      IN LineWin(cells) =
           IF runs = {} THEN 0
           ELSE IF \A k \in 1..5 : cells[k] = "WILD" THEN Paytable["WILD"][3]
           ELSE (CHOOSE p \in {Paytable[Symbols[r[1]]][r[2] - 2] : r \in {r \in longest : r[1] < 8}} : TRUE)
=============================================================================
