--------------------------------- MODULE Stakes ---------------------------------
(***************************************************************************)
(* The stake fields of the game pages: BetControls.tsx, and the fields of  *)
(* SlotMachine.tsx, AviaMasters.tsx and ChickenRoad.tsx, over the decimal  *)
(* strings of lib/decimal.ts.  A field holds whatever was typed; what is   *)
(* compared, shown and sent is made from it by the helpers, which throw on *)
(* a text that is not a decimal.                                           *)
(*                                                                         *)
(* A text is its whole part, whether it has a point, and its digits after  *)
(* it; leading zeros change nothing and no amount here is negative.  Money *)
(* is counted in units of the last of Scale digits.  Where a page goes     *)
(* through a binary float, the side a tie falls to is left open.           *)
(***************************************************************************)
EXTENDS Integers, Sequences, FiniteSetsExt

CONSTANTS
  Fields,       \* of "bet controls", "slots", "avia", "chicken"
  Base,         \* 10 in the code
  Scale,        \* DECIMAL_SCALE, 8
  Cents,        \* digits shown, 2
  Keys,         \* bound: digits that are typed
  MaxKeys,      \* bound: length of a typed or pasted text
  MinBet, MaxBet,   \* limits of the table, in units
  MaxUnits,     \* bound: the greatest amount a button makes
  Funds         \* bound: balances the ledger reports, in units

One == Base^Scale
Cent == Base^(Scale - Cents)

StakesAssumption ==
  /\ Fields \subseteq {"bet controls", "slots", "avia", "chicken"}
  /\ Base > 1 /\ 0 < Cents /\ Cents <= Scale /\ Keys \subseteq 0..Base - 1
  /\ MinBet % Cent = 0 /\ MaxBet % Cent = 0 /\ 0 < MinBet /\ MinBet <= MaxBet
  /\ Funds \subseteq Nat /\ MaxBet <= MaxUnits

VARIABLES
  control,   \* the field this behaviour is about
  field,     \* the text in it
  balance,   \* useBalance: units, or Unknown
  phase,     \* "idle", "busy", or "staked": a stake is in play and can be cashed out
  bet,       \* history: the stake sent, and what field and balance were then
  launch,    \* launchBalance of Avia
  crossed    \* history: an ERROR arrived during the flight

vars == <<control, field, balance, phase, bet, launch, crossed>>

-----------------------------------------------------------------------------
\* lib/decimal.ts.
NoInt == -1
Unknown == -1
Dot == Base
Junk == Base + 1

Empty == [int |-> NoInt, dot |-> FALSE, frac |-> <<>>]

isDecimalString(t) == t.int # NoInt /\ (t.dot <=> t.frac # <<>>)

Value(digits) ==
  LET read[i \in 0..Len(digits)] == IF i = 0 THEN 0 ELSE read[i - 1] * Base + digits[i]
  IN  read[Len(digits)]
Padded(digits, n) == [i \in 1..n |-> IF i \in DOMAIN digits THEN digits[i] ELSE 0]

toUnits(t) == t.int * One + Value(Padded(t.frac, Scale))

Digits(units) == [i \in 1..Scale |-> (units \div Base^(Scale - i)) % Base]
fromUnits(units) ==
  LET frac == SubSeq(Digits(units), 1, Max({0} \cup {i \in 1..Scale : Digits(units)[i] # 0}))
  IN  [int |-> units \div One, dot |-> frac # <<>>, frac |-> frac]

\* "1." is taken as "1" and ".5" as "0.5"; what cannot be read becomes the fallback.
safeDecimal(t, fallback) ==
  IF t.int = NoInt /\ t.frac = <<>> THEN fallback
  ELSE fromUnits(toUnits([t EXCEPT !.int = Max({@, 0})]))

toFixedDecimal(t) ==
  LET units == IF isDecimalString(t) THEN toUnits(t) ELSE 0
  IN  [int |-> units \div One, dot |-> TRUE, frac |-> SubSeq(Digits(units), 1, Cents)]

clampUnits(units, least, most) ==
  IF units < least THEN least ELSE IF units > most THEN most ELSE units

formatDecimalString(t) == IF isDecimalString(t) THEN toFixedDecimal(t) ELSE t

\* Digits and the first point are kept, and no more than Scale digits after it.
sanitizeDecimalInput(raw) ==
  LET kept == SelectSeq(raw, LAMBDA k : k # Junk)
      point == Min({i \in DOMAIN kept : kept[i] = Dot} \cup {Len(kept) + 1})
      whole == SubSeq(kept, 1, point - 1)
      rest == SelectSeq(SubSeq(kept, point + 1, Len(kept)), LAMBDA k : k # Dot)
      dotted == point <= Len(kept)
  IN  [int |-> IF whole = <<>> /\ ~dotted THEN NoInt ELSE Value(whole), dot |-> dotted,
       frac |-> SubSeq(rest, 1, Min({Len(rest), Scale}))]

Typed == {sanitizeDecimalInput(raw) : raw \in UNION {[1..n -> Keys \cup {Dot, Junk}] : n \in 0..MaxKeys}}

\* Number(x).toFixed(2) of x halves of a unit: the nearest cents.
Nearest(halves) ==
  LET down == (halves \div (2 * Cent)) * Cent
      rest == halves - 2 * down
  IN  IF rest < Cent THEN {down} ELSE IF rest > Cent THEN {down + Cent} ELSE {down, down + Cent}

-----------------------------------------------------------------------------
\* The text the limits are checked on; Chicken Road's field is a number.
Checked ==
  IF control \in {"slots", "avia"} THEN safeDecimal(field, fromUnits(MinBet)) ELSE field

\* The stakes a press of the bet button may put on the wire.
StakesOf ==
  CASE control = "bet controls" -> {field}
    [] control \in {"slots", "avia"} -> {toFixedDecimal(Checked)}
    [] control = "chicken" -> {toFixedDecimal(fromUnits(u)) : u \in Nearest(2 * toUnits(field))}

WithinTable(t) == toUnits(t) \in MinBet..MaxBet
Covered(t) == balance = Unknown \/ toUnits(t) <= balance

\* validation and betError; the balance of Chicken Road is compared with the rounded stake.
Playable(stake) ==
  /\ isDecimalString(field) /\ WithinTable(Checked)
  /\ Covered(IF control = "chicken" THEN stake ELSE Checked)

Ceiling == IF balance # Unknown /\ balance < MaxBet THEN balance ELSE MaxBet

Buttons ==
  CASE control = "slots" -> {"min", "half", "double", "max"} [] OTHER -> {"half", "double", "max"}

\* Half of what the field reads as a number: an empty one is 0, and "1." is 1.
Scaled(button, units) == IF button = "half" THEN units \div 2 ELSE units * 2

PressedControls(button) ==
  LET from == IF isDecimalString(field) THEN toUnits(field) ELSE MinBet
      to == IF button = "max" THEN Ceiling ELSE Scaled(button, from)
  IN  {fromUnits(clampUnits(to, MinBet, Ceiling))}

\* adjust: the whole press throws, and leaves the field, on a text that is half typed.
Adjusted(units) == toFixedDecimal(fromUnits(clampUnits(units, MinBet, MaxBet)))
PressedSlots(button) ==
  CASE button = "min" -> {Adjusted(MinBet)}
    [] button = "max" -> {Adjusted(Ceiling)}
    [] OTHER -> IF isDecimalString(field) THEN {Adjusted(Scaled(button, toUnits(field)))} ELSE {field}

Floats(button, units) == Nearest(IF button = "half" THEN units ELSE 4 * units)

PressedAvia(button) ==
  IF button = "max" THEN {toFixedDecimal(fromUnits(Ceiling))}
  ELSE {toFixedDecimal(fromUnits(u)) : u \in Floats(button, toUnits(safeDecimal(field, fromUnits(0))))}

PressedChicken(button) ==
  CASE button = "max" -> {fromUnits(MaxBet)}
    [] button = "half" -> {fromUnits(Max({MinBet, u})) : u \in Floats(button, toUnits(field))}
    [] button = "double" -> {fromUnits(Min({MaxBet, u})) : u \in Floats(button, toUnits(field))}

Pressed(button) ==
  CASE control = "bet controls" -> PressedControls(button)
    [] control = "slots" -> PressedSlots(button)
    [] control = "avia" -> PressedAvia(button)
    [] control = "chicken" -> PressedChicken(button)

-----------------------------------------------------------------------------
NoBet == [stake |-> Empty, field |-> Empty, funds |-> Unknown]

Init ==
  /\ control \in Fields /\ field = fromUnits(MaxBet) /\ balance = Unknown
  /\ phase = "idle" /\ bet = NoBet /\ launch = Unknown /\ crossed = FALSE

\* A number input hands over no text that is not a number: Chicken Road takes 0.
Type ==
  /\ phase = "idle"
  /\ \E t \in Typed :
       field' = IF control # "chicken" THEN t
                ELSE IF isDecimalString(t) THEN fromUnits(toUnits(t)) ELSE fromUnits(0)
  /\ UNCHANGED <<control, balance, phase, bet, launch, crossed>>

\* modifiersDisabled: not while a bet is placed or in play.
Press(button) ==
  /\ phase = "idle" /\ field' \in {t \in Pressed(button) : toUnits(t) <= MaxUnits}
  /\ UNCHANGED <<control, balance, phase, bet, launch, crossed>>

Blur ==
  /\ control = "slots" /\ phase = "idle"
  /\ field' = IF field = Empty THEN Adjusted(MinBet)
              ELSE IF isDecimalString(field) THEN Adjusted(toUnits(field)) ELSE field
  /\ UNCHANGED <<control, balance, phase, bet, launch, crossed>>

\* A frame that carries a balance, whatever it answers.
BalanceArrives ==
  /\ balance' \in Funds
  /\ UNCHANGED <<control, field, phase, bet, launch, crossed>>

\* The bet button, the Enter key in the form, Space on the board.
Submit ==
  /\ phase = "idle" /\ phase' = "busy"
  /\ \E stake \in StakesOf :
       /\ Playable(stake)
       /\ bet' = [stake |-> stake, field |-> field, funds |-> balance]
  /\ launch' = IF control = "avia" THEN balance ELSE launch
  /\ UNCHANGED <<control, field, balance, crossed>>

\* The controls are released by a result or an error; Mines and Crash keep the stake in play.
Released ==
  /\ phase' = "idle" /\ bet' = NoBet /\ launch' = Unknown /\ crossed' = FALSE
  /\ UNCHANGED <<control, field, balance>>

Answer ==
  \/ phase \in {"busy", "staked"} /\ Released
  \/ /\ phase = "busy" /\ control \in {"bet controls", "chicken"}
     /\ phase' = "staked"
     /\ UNCHANGED <<control, field, balance, bet, launch, crossed>>

Cashout ==
  /\ phase = "staked" /\ phase' = "busy"
  /\ UNCHANGED <<control, field, balance, bet, launch, crossed>>

\* ERROR names no game: the flight goes on, the balance of its start is dropped.
ErrorDuringFlight ==
  /\ control = "avia" /\ phase = "busy" /\ launch' = Unknown /\ crossed' = TRUE
  /\ UNCHANGED <<control, field, balance, phase, bet>>

Next ==
  \/ Type \/ Blur \/ BalanceArrives \/ Submit \/ Answer \/ Cashout \/ ErrorDuringFlight
  \/ \E button \in Buttons : Press(button)

Spec == Init /\ [][Next]_vars

shownBalance == IF phase = "busy" /\ launch # Unknown THEN launch ELSE balance

-----------------------------------------------------------------------------
Texts == [int : Nat \cup {NoInt}, dot : BOOLEAN, frac : Seq(0..Base - 1)]

\* Every variable keeps its type, and a field keeps no more digits than a column.
TypeOK ==
  /\ control \in Fields /\ field \in Texts /\ Len(field.frac) <= Scale
  /\ balance \in Funds \cup {Unknown} /\ launch \in Funds \cup {Unknown}
  /\ phase \in {"idle", "busy", "staked"} /\ crossed \in BOOLEAN
  /\ bet \in [stake : Texts, field : Texts, funds : Funds \cup {Unknown}]

\* A stake on the wire is a decimal within the limits of its table and within the balance on
\* screen when it was sent, and what the field read then: to the digit, cut to cents, or at
\* most half a cent away where the field is a number.
SentIsSound ==
  phase # "idle" =>
    LET sent == toUnits(bet.stake)
        read == toUnits(bet.field)
    IN  /\ isDecimalString(bet.stake) /\ sent \in MinBet..MaxBet
        /\ bet.funds # Unknown => sent <= bet.funds
        /\ CASE control = "bet controls" -> sent = read
             [] control \in {"slots", "avia"} -> bet.stake = formatDecimalString(bet.field)
             [] control = "chicken" -> 2 * (sent - read) <= Cent /\ 2 * (read - sent) <= Cent

\* While a bet is placed or in play its field reads what was staked.
FieldIsTheStake == phase # "idle" => field = bet.field

\* The balance on screen does not give a flight away before the plane is down, unless an
\* ERROR came in between or no balance was known when it left.
FlightKeepsItsSecret ==
  control = "avia" /\ phase = "busy" /\ ~crossed /\ bet.funds # Unknown =>
    shownBalance = bet.funds

\* A player who can afford the least bet is never left with an unplayable field by a button
\* of BetControls, nor by Max on the slots and in Avia Masters.
ButtonsLandInside ==
  phase = "idle" /\ (balance = Unknown \/ balance >= MinBet) =>
    \A button \in Buttons : \A t \in Pressed(button) :
      (control = "bet controls" \/ (control \in {"slots", "avia"} /\ button = "max")) =>
        isDecimalString(t) /\ WithinTable(t) /\ Covered(t)

\* No amount is displayed as more than it is, nor as a cent less.
NeverOverstated ==
  \A t \in {field} \cup {fromUnits(f) : f \in {balance} \ {Unknown}} :
    isDecimalString(t) => /\ toUnits(formatDecimalString(t)) <= toUnits(t)
                          /\ toUnits(t) < toUnits(formatDecimalString(t)) + Cent

\* Whatever is half typed, the pages hand their comparisons a decimal, and a decimal as it is.
RendersAnyText ==
  control \in {"slots", "avia"} =>
    isDecimalString(Checked) /\ (isDecimalString(field) => toUnits(Checked) = toUnits(field))
=============================================================================
