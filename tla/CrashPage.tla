------------------------------ MODULE CrashPage ------------------------------
(***************************************************************************)
(* The crash page (app/(dashboard)/games/crash/page.tsx) against the round *)
(* and the bet the server holds for the player.  A round has several       *)
(* frames and they do not all leave at once: its end is told before the    *)
(* credit, its GAME_RESULT after the history is written, when the player   *)
(* may be in the next round already.                                       *)
(*                                                                         *)
(* Frames of one connection keep their order.  CRASH_ROUND_START and       *)
(* CRASH_ROUND_END go to whatever connection the player has, answers to    *)
(* the one that asked.  The curve itself is left out.                      *)
(***************************************************************************)
EXTENDS Integers, Sequences

CONSTANTS
  MaxRounds,   \* bound: rounds started
  MaxDrops,    \* bound: connections lost
  MaxWire      \* bound: frames on their way to the page

CrashPageAssumption == {MaxRounds, MaxDrops, MaxWire} \subseteq Nat

VARIABLES
  page,       \* phase, hasBet, exit (the round cashedOutAt is of, 0 for null), busy
  running,    \* crashManager: the round whose curve runs, or NoRound
  bet,        \* gameState: the player's crash bet and whether it is settled
  starting,   \* the player is in crashBetsInFlight
  finishing,  \* rounds whose result is still to be sent, and how they ended
  rounds,     \* rounds started
  toServer, toPage,
  drops,
  overlapped  \* history: a round began before the last one's result was sent

serverVars == <<running, bet, starting, finishing, rounds>>
vars == <<page, serverVars, toServer, toPage, drops, overlapped>>

NoRound == 0
NoBet == [round |-> NoRound, settled |-> TRUE]
Idle == [phase |-> "IDLE", hasBet |-> FALSE, exit |-> NoRound, busy |-> FALSE]

Init ==
  /\ page = Idle
  /\ running = NoRound /\ bet = NoBet /\ starting = FALSE /\ finishing = {} /\ rounds = 0
  /\ toServer = <<"RESUME">> /\ toPage = <<>>
  /\ drops = 0 /\ overlapped = FALSE

Send(frames) == Len(toPage) + Len(frames) <= MaxWire /\ toPage' = toPage \o frames

-----------------------------------------------------------------------------
(* The page *)

Over == page.phase \in {"CRASHED", "CASHED_OUT"}
CanBet == ~page.hasBet /\ (page.phase = "IDLE" \/ Over)
CanCashout == page.phase = "RUNNING" /\ page.hasBet /\ page.exit = NoRound

PlaceBet ==
  /\ CanBet /\ ~page.busy
  /\ page' = [page EXCEPT !.busy = TRUE]
  /\ toServer' = Append(toServer, "BET")
  /\ UNCHANGED <<serverVars, toPage, drops, overlapped>>

Cashout ==
  /\ CanCashout /\ ~page.busy
  /\ page' = [page EXCEPT !.busy = TRUE]
  /\ toServer' = Append(toServer, "CASHOUT")
  /\ UNCHANGED <<serverVars, toPage, drops, overlapped>>

OnRoundStart_KeepsExit(p) == [p EXCEPT !.phase = "RUNNING", !.busy = FALSE]

OnRoundStart(p) == [p EXCEPT !.phase = "RUNNING", !.exit = NoRound, !.busy = FALSE]

OnRoundEnd(p, frame) ==
  LET freed == [p EXCEPT !.hasBet = FALSE, !.busy = FALSE] IN
  IF frame.won
  THEN [freed EXCEPT !.phase = "CASHED_OUT", !.exit = frame.round]
  ELSE [freed EXCEPT !.phase = "CRASHED"]

OnBetAccepted(p) == [p EXCEPT !.hasBet = TRUE, !.busy = FALSE]

\* A win carries the multiplier the player left at, whichever round is on screen.
OnResult(p, frame) == [p EXCEPT !.exit = IF frame.won THEN frame.round ELSE @, !.busy = FALSE]

\* RESUME_NONE is listened to and changes nothing.
Frames ==
  /\ toPage # <<>>
  /\ toPage' = Tail(toPage)
  /\ LET frame == Head(toPage) IN
     page' = CASE frame.type = "CRASH_ROUND_START" -> OnRoundStart(page)
               [] frame.type = "CRASH_ROUND_END" -> OnRoundEnd(page, frame)
               [] frame.type = "BET_ACCEPTED" -> OnBetAccepted(page)
               [] frame.type = "GAME_RESULT" -> OnResult(page, frame)
               [] frame.type = "ERROR" -> [page EXCEPT !.busy = FALSE]
               [] OTHER -> page
  /\ UNCHANGED <<serverVars, toServer, drops, overlapped>>

-----------------------------------------------------------------------------
(* The server *)

Frame(type) == [type |-> type]
About(type, n, won) == [type |-> type, round |-> n, won |-> won]

Take(type) == toServer # <<>> /\ Head(toServer) = type /\ toServer' = Tail(toServer)

\* One bet at a time, and none while a round runs or its bet is unsettled.
MayBet == ~starting /\ running = NoRound /\ bet.settled

HandleBet ==
  /\ Take("BET")
  /\ IF MayBet
     THEN starting' = TRUE /\ UNCHANGED toPage
     ELSE Send(<<Frame("ERROR")>>) /\ UNCHANGED starting
  /\ UNCHANGED <<page, running, bet, finishing, rounds, drops, overlapped>>

\* The stake is taken and the seed drawn: the bet is stored, the curve starts.  Or the
\* ledger refuses.
Opened ==
  /\ starting /\ starting' = FALSE
  /\ \/ /\ rounds < MaxRounds
        /\ rounds' = rounds + 1
        /\ bet' = [round |-> rounds + 1, settled |-> FALSE]
        /\ running' = rounds + 1
        /\ overlapped' = (overlapped \/ finishing # {})
        /\ Send(<<Frame("BET_ACCEPTED"), Frame("CRASH_ROUND_START")>>)
     \/ Send(<<Frame("ERROR")>>) /\ UNCHANGED <<rounds, bet, running, overlapped>>
  /\ UNCHANGED <<page, finishing, toServer, drops>>

\* The curve stops and its end is told before anything is awaited.
HandleCashout ==
  /\ Take("CASHOUT")
  /\ IF bet.settled \/ running = NoRound
     THEN Send(<<Frame("ERROR")>>) /\ UNCHANGED <<running, bet, finishing>>
     ELSE /\ Send(<<About("CRASH_ROUND_END", running, TRUE)>>)
          /\ running' = NoRound
          /\ bet' = [bet EXCEPT !.settled = TRUE]
          /\ finishing' = finishing \cup {[round |-> running, won |-> TRUE, paid |-> FALSE, drop |-> drops]}
  /\ UNCHANGED <<page, starting, rounds, drops, overlapped>>

\* The credit is made, and the player's bet cleared: whichever it is by now.
Credited ==
  \E f \in finishing :
    /\ f.won /\ ~f.paid
    /\ finishing' = (finishing \ {f}) \cup {[f EXCEPT !.paid = TRUE]}
    /\ bet' = NoBet
    /\ UNCHANGED <<page, running, starting, rounds, toServer, toPage, drops, overlapped>>

\* The result goes to the connection that asked; a loss to any the player has.
Reported ==
  \E f \in finishing :
    /\ f.paid
    /\ finishing' = finishing \ {f}
    /\ IF f.won /\ f.drop # drops THEN UNCHANGED toPage
       ELSE Send(<<About("GAME_RESULT", f.round, f.won)>>)
    /\ UNCHANGED <<page, running, bet, starting, rounds, toServer, drops, overlapped>>

\* The credit or the history fails: ERROR instead of the result.
ReportFails ==
  \E f \in finishing :
    /\ f.won
    /\ finishing' = finishing \ {f}
    /\ IF f.drop # drops THEN UNCHANGED toPage ELSE Send(<<Frame("ERROR")>>)
    /\ UNCHANGED <<page, running, bet, starting, rounds, toServer, drops, overlapped>>

\* The curve reaches its point.  A round whose bet is gone ends without a word.
Bust ==
  /\ running # NoRound /\ running' = NoRound
  /\ IF bet.settled THEN UNCHANGED <<bet, finishing, toPage>>
     ELSE /\ bet' = NoBet
          /\ Send(<<About("CRASH_ROUND_END", running, FALSE)>>)
          /\ finishing' = finishing \cup {[round |-> running, won |-> FALSE, paid |-> TRUE, drop |-> drops]}
  /\ UNCHANGED <<page, starting, rounds, toServer, drops, overlapped>>

HandleResume ==
  /\ Take("RESUME")
  /\ Send(IF running = NoRound \/ bet.settled
          THEN <<Frame("RESUME_NONE")>>
          ELSE <<Frame("BET_ACCEPTED"), Frame("CRASH_ROUND_START")>>)
  /\ UNCHANGED <<page, serverVars, drops, overlapped>>

\* The connection is lost, or the page reloaded; RESUME is the first frame sent.
Reconnect ==
  /\ drops < MaxDrops
  /\ drops' = drops + 1
  /\ page' \in {page, Idle}
  /\ toServer' = <<"RESUME">> /\ toPage' = <<>>
  /\ UNCHANGED <<serverVars, overlapped>>

Next ==
  \/ PlaceBet \/ Cashout \/ Frames
  \/ HandleBet \/ Opened \/ HandleCashout \/ Credited \/ Reported \/ ReportFails \/ Bust \/ HandleResume
  \/ Reconnect

Spec == Init /\ [][Next]_vars

-----------------------------------------------------------------------------
(* Properties *)

TypeOK ==
  /\ page \in [phase : {"IDLE", "RUNNING", "CRASHED", "CASHED_OUT"}, hasBet : BOOLEAN,
               exit : 0..MaxRounds, busy : BOOLEAN]
  /\ running \in 0..MaxRounds /\ bet \in [round : 0..MaxRounds, settled : BOOLEAN]

\* Everything sent has arrived and everything begun has ended.
Quiet == toServer = <<>> /\ toPage = <<>> /\ ~starting /\ finishing = {}

\* "Every ending returns to state 1 on the same frame that ends the round"
\* (crash/page.tsx:113-114): once all is said the button is the one the server would
\* honour, unless a round began while the last one's result was still to come or a
\* connection was lost.
ButtonsAgree ==
  Quiet /\ ~overlapped /\ drops = 0 =>
    /\ ~page.busy
    /\ CanBet <=> running = NoRound
    /\ CanCashout <=> running # NoRound

\* "RUNNING + live bet -> green Cashout" (crash/page.tsx:110): a round the server holds
\* with a live stake can be cashed out from the page that was told of it.
CashoutIsOffered ==
  Quiet /\ drops = 0 /\ running # NoRound /\ bet.round = running /\ ~bet.settled => CanCashout
=============================================================================
