------------------------------- MODULE Streak -------------------------------
(***************************************************************************)
(* The daily play streak of one player: recordPlay and getStreak of        *)
(* services/streak.service.ts, and the paid restore of                     *)
(* routes/streak.routes.ts.                                                *)
(*                                                                         *)
(* A play is recorded in the background of a debit: it reads the row and   *)
(* later overwrites all of it, whatever other plays or a restore wrote     *)
(* since.  A restore claims the offer with a guarded write, then charges,  *)
(* then gives the offer back or closes it; midnight may pass anywhere.     *)
(***************************************************************************)
EXTENDS Integers, FiniteSets, FiniteSetsExt

CONSTANTS
  Plays,       \* recordPlay calls that may run at once
  Restores,    \* restore requests that may run at once
  Window,      \* RESTORE_WINDOW_DAYS
  MaxDay       \* bound: the calendar

StreakAssumption ==
  /\ IsFiniteSet(Plays) /\ IsFiniteSet(Restores)
  /\ Window \in Nat /\ MaxDay \in Nat

Never == 0 - 10

VARIABLES
  day,      \* today, UTC
  row,      \* the streak columns of the User row
  play,     \* play[p]: the call's day and the row it has read
  restore,  \* restore[r]: the request and the row it has read
  breaks,   \* history: the last days of the streaks a play found broken
  charged,  \* history: how many restores were charged
  outdated,   \* history: the plays under way whose row was read before the last claim
  overwrites  \* history: how many of those wrote it back

vars == <<day, row, play, restore, breaks, charged, outdated, overwrites>>

\* The restore's cost is restoreCostFor of `restorable`, and written with it.
NewRow == [current |-> 0, longest |-> 0, last |-> Never, restorable |-> 0, broken |-> Never]

NoPlay == [pc |-> "idle", day |-> 0, row |-> NewRow]
NoRestore == [pc |-> "idle", row |-> NewRow]

Init ==
  /\ day = 0
  /\ row = NewRow
  /\ play = [p \in Plays |-> NoPlay]
  /\ restore = [r \in Restores |-> NoRestore]
  /\ breaks = {} /\ charged = 0
  /\ outdated = {} /\ overwrites = 0

-----------------------------------------------------------------------------
(* recordPlay *)

Broke(u, today) == u.last # Never /\ today - u.last > 1 /\ u.current > 0

\* The row a play writes over the row u it has read, on another day than the last.
Advanced(u, today) ==
  LET current == IF u.last # Never /\ today - u.last = 1 THEN u.current + 1 ELSE 1
  IN [current    |-> current,
      longest    |-> Max({u.longest, current}),
      last       |-> today,
      restorable |-> IF Broke(u, today) THEN u.current ELSE u.restorable,
      broken     |-> IF Broke(u, today) THEN today ELSE u.broken]

Write(u, today) ==
  /\ row' = Advanced(u, today)
  /\ breaks' = IF Broke(u, today) THEN breaks \cup {u.last} ELSE breaks

\* The first play of a day; any other returns what it read.
ReadPlay(p) ==
  /\ play[p].pc = "idle" /\ row.last # day
  /\ play' = [play EXCEPT ![p] = [pc |-> "read", day |-> day, row |-> row]]
  /\ UNCHANGED <<day, row, restore, breaks, charged, outdated, overwrites>>

WritePlay(p) ==
  /\ play[p].pc = "read"
  /\ Write(play[p].row, play[p].day)
  /\ play' = [play EXCEPT ![p] = NoPlay]
  /\ outdated' = outdated \ {p}
  /\ overwrites' = overwrites + (IF p \in outdated THEN 1 ELSE 0)
  /\ UNCHANGED <<day, restore, charged>>

-----------------------------------------------------------------------------
(* POST /api/streak/restore *)

RestoreAvailable(u) == u.restorable > 0 /\ u.broken # Never /\ day - u.broken <= Window

\* getStreak; without an offer the request ends here.
ReadStreak(r) ==
  /\ restore[r].pc = "idle" /\ RestoreAvailable(row)
  /\ restore' = [restore EXCEPT ![r] = [pc |-> "read", row |-> row]]
  /\ UNCHANGED <<day, row, play, breaks, charged, outdated, overwrites>>

MayClaim_AsRead(r) == TRUE

MayClaim(r) == row.restorable > 0

\* The offer is claimed before it is charged.
Claim(r) ==
  /\ restore[r].pc = "read"
  /\ IF MayClaim(r)
       THEN LET was == restore[r].row IN
            /\ row' = [row EXCEPT !.current = was.restorable + 1,
                                  !.longest = Max({was.longest, was.restorable + 1}),
                                  !.last = day, !.restorable = 0]
            /\ restore' = [restore EXCEPT ![r].pc = "claimed"]
            /\ outdated' = {p \in Plays : play[p].pc = "read"}
       ELSE restore' = [restore EXCEPT ![r] = NoRestore] /\ UNCHANGED <<row, outdated>>
  /\ UNCHANGED <<day, play, breaks, charged, overwrites>>

\* processBet with the game type STREAK_RESTORE, which records no play.
Charge(r) ==
  /\ restore[r].pc = "claimed"
  /\ charged' = charged + 1
  /\ restore' = [restore EXCEPT ![r].pc = "charged"]
  /\ UNCHANGED <<day, row, play, breaks, outdated, overwrites>>

\* What a failed charge puts back.
GivenBack(r) ==
  [row EXCEPT !.current = restore[r].row.current, !.restorable = restore[r].row.restorable]

\* No balance, or frozen; the write itself may fail too, and nobody hears of it.
ChargeFails(r) ==
  /\ restore[r].pc = "claimed"
  /\ row' = GivenBack(r) \/ row' = row
  /\ restore' = [restore EXCEPT ![r] = NoRestore]
  /\ UNCHANGED <<day, play, breaks, charged, outdated, overwrites>>

CloseOffer(r) ==
  /\ restore[r].pc = "charged"
  /\ row' = [row EXCEPT !.broken = Never]
  /\ restore' = [restore EXCEPT ![r] = NoRestore]
  /\ UNCHANGED <<day, play, breaks, charged, outdated, overwrites>>

Midnight ==
  /\ day < MaxDay
  /\ day' = day + 1
  /\ UNCHANGED <<row, play, restore, breaks, charged, outdated, overwrites>>

Next ==
  \/ Midnight
  \/ \E p \in Plays : ReadPlay(p) \/ WritePlay(p)
  \/ \E r \in Restores : ReadStreak(r) \/ Claim(r) \/ Charge(r) \/ ChargeFails(r) \/ CloseOffer(r)

Spec == Init /\ [][Next]_vars

-----------------------------------------------------------------------------
(* Properties *)

Days == 0..MaxDay
Counts == 0..(2 * MaxDay + 2)

RowOK(u) ==
  /\ {u.current, u.longest, u.restorable} \subseteq Counts
  /\ {u.last, u.broken} \subseteq Days \cup {Never}

TypeOK ==
  /\ day \in Days /\ RowOK(row)
  /\ \A p \in Plays : play[p].pc \in {"idle", "read"} /\ RowOK(play[p].row)
  /\ \A r \in Restores : restore[r].pc \in {"idle", "read", "claimed", "charged"} /\ RowOK(restore[r].row)
  /\ outdated \subseteq {p \in Plays : play[p].pc = "read"} /\ overwrites \in Nat

\* Requests 5 ms apart, double clicks and retries take a player's money once for a streak
\* that broke (streak.routes.ts:89-94), whatever plays, midnights and failed charges fall
\* between.  Only a play whose write undoes a claim, because it read the row before it
\* (streak.service.ts:80-118), can have the same break paid for again, and once more only.
OneChargePerBreak == charged <= Cardinality(breaks) + overwrites
=============================================================================
