------------------------------- MODULE Raffle -------------------------------
(***************************************************************************)
(* Giveaway tickets: services/raffle.service.ts.                           *)
(*                                                                         *)
(* What a player is owed is worked out from three records, each with a     *)
(* watermark on the player's entry: the money wagered and the deposits     *)
(* settled since the giveaway opened, and today's check-in.  A claim reads *)
(* everything, statement by statement, and then moves the watermarks with  *)
(* writes that match only what was read; those lock the entry, so what     *)
(* follows up to the commit is one step.                                   *)
(***************************************************************************)
EXTENDS Integers, FiniteSets, FiniteSetsExt

CONSTANTS
  Players,
  Claims,       \* claims that may run at once
  PerTicket,    \* WAGER_PER_TICKET
  PerDeposit,   \* TICKETS_PER_DEPOSIT
  MaxPerClaim,  \* MAX_TICKETS_PER_CLAIM
  EndDay,       \* endsAt
  Casts         \* bound: who plays in one behaviour, up to which day, with how much
                \* wagering and how many payments each

RaffleAssumption ==
  /\ IsFiniteSet(Players) /\ IsFiniteSet(Claims)
  /\ {PerTicket, PerDeposit, MaxPerClaim} \subseteq Nat \ {0}
  /\ EndDay \in Nat
  /\ Casts \subseteq [players : SUBSET Players, days : Nat, wager : Nat, deposits : Nat]

Never == -1
Sources == {"WAGER", "DEPOSIT", "DAILY_LOGIN"}

VARIABLES
  cast,
  day,
  wagered,   \* wageredSince the giveaway opened
  settled,   \* settledDepositsSince, as the rows say now
  funded,    \* history: payments that were ever settled
  lastIn,    \* lastCheckInAt, as a day
  visits,    \* history: the days of a player's check-ins
  entry,     \* the RaffleEntry rows
  counter,   \* Raffle.ticketCounter
  tickets,   \* the RaffleTicket rows
  claim      \* claim[c]: the player, and what the claim has read

records == <<wagered, settled, funded, lastIn, visits>>
vars == <<cast, day, records, entry, counter, tickets, claim>>

NoEntry == [wager |-> 0, deposits |-> 0, ticketDay |-> Never]
NoClaim == [pc |-> "idle", p |-> "none", entry |-> NoEntry, wager |-> 0, deposit |-> 0,
            uncredited |-> 0, checkIn |-> FALSE, today |-> 0]

Init ==
  /\ cast \in Casts
  /\ day = 0
  /\ wagered = [p \in Players |-> 0]
  /\ settled = [p \in Players |-> 0] /\ funded = [p \in Players |-> 0]
  /\ lastIn = [p \in Players |-> Never] /\ visits = [p \in Players |-> {}]
  /\ entry = [p \in Players |-> NoEntry]
  /\ counter = 0
  /\ tickets = {}
  /\ claim = [c \in Claims |-> NoClaim]

-----------------------------------------------------------------------------
(* What is owed *)

WagerOwed(p, e) ==
  IF wagered[p] <= e.wager THEN 0 ELSE (wagered[p] - e.wager) \div PerTicket

Uncredited(p, e) == Max({0, settled[p] - e.deposits})

CheckInOwed(p, e) == lastIn[p] = day /\ (e.ticketDay = Never \/ e.ticketDay < day)

\* What getActiveRaffle tells the player.
View(p) ==
  [wager |-> WagerOwed(p, entry[p]), deposit |-> Uncredited(p, entry[p]) * PerDeposit,
   checkIn |-> CheckInOwed(p, entry[p])]

-----------------------------------------------------------------------------
(* claimTickets *)

\* The giveaway is looked up and found open, and the entry is ensured.
Begin(c, p) ==
  /\ claim[c].pc = "idle" /\ day < EndDay
  /\ claim' = [claim EXCEPT ![c] = [NoClaim EXCEPT !.pc = "open", !.p = p]]
  /\ UNCHANGED <<cast, day, records, entry, counter, tickets>>

ReadEntry(c) ==
  /\ claim[c].pc = "open"
  /\ claim' = [claim EXCEPT ![c].pc = "entry", ![c].entry = entry[claim[c].p]]
  /\ UNCHANGED <<cast, day, records, entry, counter, tickets>>

\* The totals, and what they are worth; a claim that is owed nothing ends.
ReadRecords(c) ==
  LET p == claim[c].p
      e == claim[c].entry
      owed == [claim[c] EXCEPT !.pc = "owed",
                 !.wager = Min({WagerOwed(p, e), MaxPerClaim}),
                 !.uncredited = Uncredited(p, e),
                 !.deposit = Min({Uncredited(p, e) * PerDeposit, MaxPerClaim}),
                 !.checkIn = CheckInOwed(p, e),
                 !.today = day]
  IN /\ claim[c].pc = "entry"
     /\ claim' = [claim EXCEPT ![c] =
                    IF owed.wager + owed.deposit > 0 \/ owed.checkIn THEN owed ELSE NoClaim]
     /\ UNCHANGED <<cast, day, records, entry, counter, tickets>>

\* The predicates of the guarded writes, each against the entry e as it is now.
Matches(c, e) ==
  /\ claim[c].wager > 0 => e.wager = claim[c].entry.wager
  /\ claim[c].deposit > 0 => e.deposits = claim[c].entry.deposits
  /\ claim[c].checkIn => e.ticketDay = Never \/ e.ticketDay < claim[c].today

Moved(c, e) ==
  [wager     |-> IF claim[c].wager > 0 THEN claim[c].entry.wager + PerTicket * claim[c].wager
                 ELSE e.wager,
   deposits  |-> IF claim[c].deposit > 0 THEN claim[c].entry.deposits + claim[c].uncredited
                 ELSE e.deposits,
   ticketDay |-> IF claim[c].checkIn THEN day ELSE e.ticketDay]

Issued(c) == claim[c].wager + claim[c].deposit + (IF claim[c].checkIn THEN 1 ELSE 0)

\* The increment returns the new counter; the block ends there.
FirstNumber(c) == counter + 1

SourceFor(c, i) ==
  IF i < claim[c].wager THEN "WAGER"
  ELSE IF i < claim[c].wager + claim[c].deposit THEN "DEPOSIT" ELSE "DAILY_LOGIN"

Commit(c) ==
  LET p == claim[c].p IN
  /\ claim[c].pc = "owed"
  /\ IF Matches(c, entry[p])
       THEN /\ entry' = [entry EXCEPT ![p] = Moved(c, @)]
            /\ counter' = counter + Issued(c)
            /\ tickets' = tickets \cup
                 {[p |-> p, number |-> FirstNumber(c) + i, source |-> SourceFor(c, i)] :
                    i \in 0..(Issued(c) - 1)}
       ELSE UNCHANGED <<entry, counter, tickets>>
  /\ claim' = [claim EXCEPT ![c] = NoClaim]
  /\ UNCHANGED <<cast, day, records>>

-----------------------------------------------------------------------------
(* The records *)

Wager(p) ==
  /\ wagered[p] < cast.wager
  /\ wagered' = [wagered EXCEPT ![p] = @ + 1]
  /\ UNCHANGED <<cast, day, settled, funded, lastIn, visits, entry, counter, tickets, claim>>

Deposit(p) ==
  /\ funded[p] < cast.deposits
  /\ settled' = [settled EXCEPT ![p] = @ + 1]
  /\ funded' = [funded EXCEPT ![p] = @ + 1]
  /\ UNCHANGED <<cast, day, wagered, lastIn, visits, entry, counter, tickets, claim>>

\* A late callback writes another status over that of a settled payment.
Unsettle(p) ==
  /\ settled[p] > 0
  /\ settled' = [settled EXCEPT ![p] = @ - 1]
  /\ UNCHANGED <<cast, day, wagered, funded, lastIn, visits, entry, counter, tickets, claim>>

CheckIn(p) ==
  /\ lastIn[p] # day
  /\ lastIn' = [lastIn EXCEPT ![p] = day]
  /\ visits' = [visits EXCEPT ![p] = @ \cup {day}]
  /\ UNCHANGED <<cast, day, wagered, settled, funded, entry, counter, tickets, claim>>

Midnight ==
  /\ day < cast.days
  /\ day' = day + 1
  /\ UNCHANGED <<cast, records, entry, counter, tickets, claim>>

Next ==
  \/ Midnight
  \/ \E p \in cast.players : Wager(p) \/ Deposit(p) \/ Unsettle(p) \/ CheckIn(p)
  \/ \E c \in Claims : ReadEntry(c) \/ ReadRecords(c) \/ Commit(c) \/ \E p \in cast.players : Begin(c, p)

Spec == Init /\ [][Next]_vars

-----------------------------------------------------------------------------
(* Properties *)

TypeOK ==
  /\ cast \in Casts
  /\ day \in 0..cast.days
  /\ wagered \in [Players -> 0..cast.wager]
  /\ settled \in [Players -> 0..cast.deposits] /\ funded \in [Players -> 0..cast.deposits]
  /\ lastIn \in [Players -> 0..cast.days \cup {Never}]
  /\ \A p \in Players :
       /\ entry[p].wager \in 0..cast.wager
       /\ entry[p].deposits \in 0..cast.deposits
       /\ entry[p].ticketDay \in 0..cast.days \cup {Never}
  /\ counter \in Nat
  /\ \A t \in tickets : t.p \in Players /\ t.number \in Nat \ {0} /\ t.source \in Sources
  /\ \A c \in Claims : claim[c].pc \in {"idle", "open", "entry", "owed"}

From(p, source) == Cardinality({t \in tickets : t.p = p /\ t.source = source})

\* Two claims at once, of one player or of two: no number is given twice, none is
\* skipped, and the counter is the number of tickets.
NumbersAreDisjoint ==
  /\ {t.number : t \in tickets} = 1..counter
  /\ Cardinality(tickets) = counter

\* Every ticket was earned: the same wager, deposit or check-in never mints a second
\* one, whatever runs at once and however a status is rewritten; and what the hub
\* shows as pending adds up with what was issued to what the wagering is worth.
TicketsAreEarned ==
  \A p \in Players :
    /\ From(p, "WAGER") + View(p).wager = wagered[p] \div PerTicket
    /\ From(p, "DEPOSIT") <= entry[p].deposits * PerDeposit
    /\ entry[p].deposits <= funded[p]
    /\ From(p, "DAILY_LOGIN") + (IF View(p).checkIn THEN 1 ELSE 0) <= Cardinality(visits[p])
=============================================================================
