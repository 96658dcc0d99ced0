------------------------------- MODULE Wager -------------------------------
(***************************************************************************)
(* What a stateful game promises of each bet, without frames, awaits or    *)
(* memory: a stake that was taken is decided at most once, won or lost,    *)
(* and what is decided stays decided.                                      *)
(***************************************************************************)
EXTENDS Naturals

CONSTANTS Bets   \* the bets a player may ever place

VARIABLES outcome   \* outcome[b] \in Outcomes

Outcomes == {"unplaced", "open", "won", "lost"}

WagerTypeOK == outcome \in [Bets -> Outcomes]

WagerInit == outcome = [b \in Bets |-> "unplaced"]

Move(b, from, to) ==
  /\ outcome[b] = from
  /\ outcome' = [outcome EXCEPT ![b] = to]

Stake(b) == Move(b, "unplaced", "open")
Win(b)   == Move(b, "open", "won")
Lose(b)  == Move(b, "open", "lost")

WagerNext == \E b \in Bets : Stake(b) \/ Win(b) \/ Lose(b)

WagerSpec == WagerInit /\ [][WagerNext]_outcome
=============================================================================
