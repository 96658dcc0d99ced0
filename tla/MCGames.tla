------------------------------ MODULE MCGames ------------------------------
(***************************************************************************)
(* What a bet is decided by, side by side: the seed pairs and their        *)
(* nonces, bets decided in one request under the limits in force, the      *)
(* rounds of Mines, and the engines with their verifier.  They share no    *)
(* variable, so a behaviour is about one of them: `part` says which, and   *)
(* the others stay at rest.  All but the engines are extended, so that     *)
(* their properties are the modules' own.                                  *)
(***************************************************************************)
EXTENDS MinesRound, Seeds, InstantBets, Integers, TLC

CONSTANTS
  Grain, GridSize, ChickenMax, AviaMax, LimboMax  \* Engines

VARIABLES
  part,
  pc, bet, stream, result, verified

Parts == {"seeds", "instant", "mines", "engines"}

engineVars == <<pc, bet, stream, result, verified>>
gamesVars == <<part, vars, seedVars, instantVars, engineVars>>

-----------------------------------------------------------------------------
(* What the engines are tried on *)

Modes == [high |-> 50, extreme |-> 75]

Events == <<[mul |-> <<1, 1>>, add |-> <<1, 2>>, weight |-> 2],
            [mul |-> <<3, 1>>, add |-> <<0, 1>>, weight |-> 1],
            [mul |-> <<1, 2>>, add |-> <<0, 1>>, weight |-> 1]>>

Chip(kind, arg) == [kind |-> kind, arg |-> arg, amount |-> 1]

Asked ==
  [game : {"LIMBO"}, target : {101, 195, 1000}]
  \cup [game : {"CRASH"}]
  \cup [game : {"DICE"}, target : {25, 50, 98}, direction : {"OVER", "UNDER"}]
  \cup [game : {"COINFLIP"}, side : {"HEADS", "TAILS"}]
  \cup [game : {"ROULETTE"},
        chips : {<<Chip("straight", 0)>>, <<Chip("red", 0), Chip("black", 0)>>,
                 <<Chip("odd", 0), Chip("even", 0)>>, <<Chip("low", 0), Chip("high", 0)>>,
                 <<Chip("dozen", 3), Chip("column", 3)>>}]
  \cup [game : {"PLINKO"}, risk : {"LOW", "MEDIUM", "HIGH"}]
  \cup [game : {"KENO"}, picks : 1..10]
  \cup [game : {"MINES"}, count : {1, 2}]
  \cup [game : {"CHICKEN"}, mode : {"high", "extreme"}]
  \cup [game : {"AVIA"}]
  \cup [game : {"SLOTS"}]

\* Columns of a slot machine: cherries, a seven between wilds, ...
Columns == {<<0, 0, 0>>, <<98, 95, 98>>, <<0, 98, 0>>, <<95, 95, 0>>}

\* Every draw where one decides, a grid of them where several do.
StreamsOf(b) ==
  CASE b.game \in {"LIMBO", "CRASH", "DICE", "COINFLIP", "ROULETTE"} -> [{-1} -> 0..Grain - 1]
    [] b.game = "PLINKO" -> [0..7 -> {0, Grain \div 2}]
    [] b.game = "MINES" -> [0..GridSize - 2 -> {(Grain \div 12) * i : i \in 0..11}]
    [] b.game = "CHICKEN" -> [0..6 -> {Grain \div 4, Grain \div 2 - 1, Grain - 1}]
    [] b.game = "AVIA" ->
         {[c \in 0..5 |-> IF c = 0 THEN a ELSE IF c = 1 THEN n ELSE IF c = 2 THEN e ELSE IF c = 4 THEN f ELSE 0] :
            a \in {0, Grain \div 2, Grain - 1}, n \in {0, Grain \div 2},
            e, f \in {(Grain \div 4) * i : i \in 0..3}}
    [] b.game = "SLOTS" ->
         {[c \in 0..14 |-> (Grain * col[(c \div 3) + 1][(c % 3) + 1]) \div 100] : col \in [1..5 -> Columns]}
    [] OTHER -> {}

-----------------------------------------------------------------------------
Engine == INSTANCE Engines WITH Tiles <- GridSize, Bets <- Asked, Streams <- StreamsOf,
                                ChickenModes <- Modes, AviaEvents <- Events,
                                AviaLength <- [min |-> 1, max |-> 2]

ASSUME SeedsAssumption
ASSUME InstantAssumption
ASSUME Engine!EnginesAssumption
ASSUME MinesAssumption

GamesInit ==
  /\ part \in Parts
  /\ SeedsInit
  /\ InstantInit /\ config[0].max = 3 /\ (part # "instant" => config[0].win = 0)
  /\ Init /\ Engine!Init

GamesNext ==
  \/ /\ part = "seeds" /\ SeedsNext
     /\ UNCHANGED <<part, instantVars, vars, engineVars>>
  \/ /\ part = "instant" /\ InstantNext
     /\ UNCHANGED <<part, seedVars, vars, engineVars>>
  \/ /\ part = "mines" /\ Next
     /\ UNCHANGED <<part, seedVars, instantVars, engineVars>>
  \/ /\ part = "engines" /\ Engine!Next
     /\ UNCHANGED <<part, seedVars, instantVars, vars>>

GamesSpec == GamesInit /\ [][GamesNext]_gamesVars

Symmetry == Permutations(Calls) \cup Permutations(Requests)

-----------------------------------------------------------------------------
\* The type invariants of the four modules.
TypesOK ==
  CASE part = "seeds" -> SeedsTypeOK
    [] part = "instant" -> InstantTypeOK
    [] part = "mines" -> TypeOK
    [] part = "engines" -> Engine!TypeOK

\* The verifier finds what the engine decided, and the tables return what is published.
EnginesKeepTheirWord ==
  part = "engines" => Engine!VerifierAgrees /\ Engine!PricedAtTheEdge /\ Engine!LinesPayTheLongestRun
=============================================================================
