-------------------------------- MODULE BetFeed --------------------------------
(***************************************************************************)
(* The feed of recent bets: LiveBetsFeed.tsx, which puts the frames of     *)
(* bets just settled above what GET /api/bets/recent knew, and             *)
(* BetDetailsModal.tsx, which asks GET /api/bets/:id for the fairness      *)
(* record of the row that was clicked.                                     *)
(*                                                                         *)
(* A bet is its GameSession row, in the order of creation, decided on the  *)
(* seed pair that was active; a pair is its number and is retired when a   *)
(* newer one is active.  Rows that a round lost, and the slots, write are  *)
(* not broadcast.                                                          *)
(***************************************************************************)
EXTENDS Integers, Sequences, Functions

CONSTANTS
  MaxRows,     \* rows the feed keeps, and the backfill asks for
  MaxBets,     \* bound: bets settled
  MaxPairs,    \* bound: seed pairs
  MaxFetches,  \* bound: details asked for
  MaxCuts      \* bound: connections lost

BetFeedAssumption == MaxRows \in Nat \ {0} /\ {MaxBets, MaxPairs, MaxFetches, MaxCuts} \subseteq Nat

NoBet == 0
NoRow == [bet |-> NoBet, live |-> FALSE]
NoDetail == [bet |-> NoBet, seed |-> FALSE]

VARIABLES
  bets,      \* bets[b]: the pair bet b was decided on
  active,    \* the active pair
  unsaid,    \* bets settled, whose frame is still to be sent
  linked, cuts,
  frames,    \* bets on their way to this tab
  backfill,  \* [step, rows]
  list,      \* rows on screen, [bet, live]
  loaded,    \* the skeleton is gone
  selected,  \* the row whose dialog is open
  detail,    \* [bet, seed]: the record in the dialog, seed whether it shows the server seed
  fetches,   \* [n, bet, alive, step, seed]
  asked,     \* counts fetches
  missed     \* history: bets whose frame this tab could not get

vars == <<bets, active, unsaid, linked, cuts, frames, backfill, list, loaded, selected, detail, fetches,
          asked, missed>>
server == <<bets, active, unsaid>>
feed == <<linked, cuts, frames, backfill, list, loaded, missed>>
dialog == <<selected, detail, fetches, asked>>

Init ==
  /\ bets = <<>> /\ active = 1 /\ unsaid = {}
  /\ linked = FALSE /\ cuts = 0 /\ frames = <<>>
  /\ backfill = [step |-> "asked", rows |-> <<>>] /\ list = <<>> /\ loaded = FALSE
  /\ selected = NoRow /\ detail = NoDetail /\ fetches = {} /\ asked = 0 /\ missed = {}

-----------------------------------------------------------------------------
(* The server *)

\* A row is written; a lost round is not told to anyone.
Settle(told) ==
  /\ Len(bets) < MaxBets /\ bets' = Append(bets, active)
  /\ unsaid' = IF told THEN unsaid \cup {Len(bets')} ELSE unsaid
  /\ missed' = IF told THEN missed ELSE missed \cup {Len(bets')}
  /\ UNCHANGED <<active, linked, cuts, frames, backfill, list, loaded, dialog>>

Rotate ==
  /\ active < MaxPairs /\ active' = active + 1
  /\ UNCHANGED <<bets, unsaid, feed, dialog>>

\* broadcastLiveBet: to the sockets that are open.
Broadcast(b) ==
  /\ b \in unsaid /\ unsaid' = unsaid \ {b}
  /\ IF linked THEN frames' = Append(frames, b) /\ UNCHANGED missed
     ELSE missed' = missed \cup {b} /\ UNCHANGED frames
  /\ UNCHANGED <<bets, active, linked, cuts, backfill, list, loaded, dialog>>

Connect ==
  /\ ~linked /\ linked' = TRUE
  /\ UNCHANGED <<server, cuts, frames, backfill, list, loaded, missed, dialog>>

Cut ==
  /\ linked /\ cuts < MaxCuts /\ cuts' = cuts + 1 /\ linked' = FALSE
  /\ frames' = <<>> /\ missed' = missed \cup Range(frames)
  /\ UNCHANGED <<server, backfill, list, loaded, dialog>>

-----------------------------------------------------------------------------
(* The feed *)

Cropped(rows) == SubSeq(rows, 1, IF Len(rows) < MaxRows THEN Len(rows) ELSE MaxRows)

LiveBet ==
  /\ frames # <<>> /\ frames' = Tail(frames)
  /\ list' = Cropped(<<[bet |-> Head(frames), live |-> TRUE]>> \o list)
  /\ UNCHANGED <<server, linked, cuts, backfill, loaded, missed, dialog>>

\* The newest rows of all players.
Recent == Cropped([i \in 1..Len(bets) |-> Len(bets) + 1 - i])

\* What the read knew is not missed any more.
ServeBackfill ==
  /\ backfill.step = "asked"
  /\ \/ backfill' = [step |-> "answered", rows |-> Recent] /\ missed' = missed \ Range(Recent)
     \/ backfill' = [step |-> "failed", rows |-> <<>>] /\ missed' = missed \cup 1..Len(bets)
  /\ UNCHANGED <<server, linked, cuts, frames, list, loaded, dialog>>

\* Below what arrived meanwhile.  A live row has an id of its own, so its bet may come twice.
Merged(rows) == Cropped(list \o rows)

TakeBackfill ==
  /\ backfill.step \in {"answered", "failed"}
  /\ list' = Merged([i \in DOMAIN backfill.rows |-> [bet |-> backfill.rows[i], live |-> FALSE]])
  /\ loaded' = TRUE /\ backfill' = [step |-> "done", rows |-> <<>>]
  /\ UNCHANGED <<server, linked, cuts, frames, missed, dialog>>

-----------------------------------------------------------------------------
(* The dialog *)

\* The effect of the row that is open: nothing of the one before stays, and its answer is
\* not wanted any more.  A live row has nothing to ask for yet.
Left == {[f EXCEPT !.alive = FALSE] : f \in fetches}

Click(row) ==
  /\ selected = NoRow /\ loaded /\ row \in Range(list)
  /\ row.live \/ asked < MaxFetches
  /\ selected' = row /\ detail' = NoDetail
  /\ IF row.live THEN fetches' = Left /\ UNCHANGED asked
     ELSE /\ asked' = asked + 1
          /\ fetches' = Left \cup
               {[n |-> asked + 1, bet |-> row.bet, alive |-> TRUE, step |-> "asked", seed |-> FALSE]}
  /\ UNCHANGED <<server, feed>>

Close ==
  /\ selected # NoRow /\ selected' = NoRow /\ detail' = NoDetail /\ fetches' = Left
  /\ UNCHANGED <<server, feed, asked>>

\* The pair this round was decided on, not the newest one.
StillActive(b) == bets[b] = active

ServeDetail(f) ==
  /\ f.step = "asked"
  /\ fetches' = (fetches \ {f}) \cup {[f EXCEPT !.step = "answered", !.seed = ~StillActive(f.bet)]}
  /\ UNCHANGED <<server, feed, selected, detail, asked>>

DetailFails(f) ==
  /\ fetches' = fetches \ {f}
  /\ UNCHANGED <<server, feed, selected, detail, asked>>

Wanted(f) == f.alive

TakeDetail(f) ==
  /\ f.step = "answered" /\ fetches' = fetches \ {f}
  /\ detail' = IF Wanted(f) THEN [bet |-> f.bet, seed |-> f.seed] ELSE detail
  /\ UNCHANGED <<server, feed, selected, asked>>

-----------------------------------------------------------------------------
Next ==
  \/ Rotate \/ Connect \/ Cut \/ LiveBet \/ ServeBackfill \/ TakeBackfill \/ Close
  \/ \E told \in BOOLEAN : Settle(told)
  \/ \E b \in unsaid : Broadcast(b)
  \/ \E row \in Range(list) : Click(row)
  \/ \E f \in fetches : ServeDetail(f) \/ DetailFails(f) \/ TakeDetail(f)

Spec == Init /\ [][Next]_vars

-----------------------------------------------------------------------------
\* The variables have their types.
TypeOK ==
  /\ \A b \in 1..Len(bets) : bets[b] \in 1..active
  /\ active \in 1..MaxPairs /\ unsaid \subseteq 1..Len(bets) /\ missed \subseteq 1..Len(bets)
  /\ Len(list) <= MaxRows /\ \A row \in Range(list) : row.bet \in 1..Len(bets)
  /\ selected.bet \in 0..Len(bets) /\ detail.bet \in 0..Len(bets) /\ asked \in 0..MaxFetches

\* "Showing one round's fairness record under another round's header would be worse than
\* showing none" (BetDetailsModal.tsx).
RecordIsOfThisBet == detail.bet # NoBet => detail.bet = selected.bet

\* The server seed of a pair that can still decide a round is not given out
\* (betDetail.routes.ts).
SealedWhileActive == \A f \in fetches : f.seed => bets[f.bet] < active

\* Every bet this tab was told of, live or by the backfill, is in the list or was pushed out.
FeedMissesNothing ==
  (backfill.step = "done" /\ frames = <<>>) =>
    \/ Len(list) = MaxRows
    \/ \A b \in 1..Len(bets) : b \in missed \cup unsaid \/ \E row \in Range(list) : row.bet = b
=============================================================================
