----------------------------- MODULE ChickenPage -----------------------------
(***************************************************************************)
(* The Chicken Road page (components/games/ChickenRoad.tsx, over           *)
(* hooks/useGameRound.ts) against the round the server holds for the       *)
(* player: the page decides nothing, it plays what the frames say, with    *)
(* refs, a landing timer and a frame loop of its own.                      *)
(*                                                                         *)
(* The socket keeps the order of its frames; a lost connection loses those *)
(* on their way.  React renders between two events, so a handler sees the  *)
(* state the last one left.  A payout is <<round, lane>>: the round it     *)
(* closes and the lane it is the price of.  Traffic, camera and drawing    *)
(* are left out: "traffic is scenery" (ChickenRoad.tsx:93).                *)
(***************************************************************************)
EXTENDS Integers, Sequences

CONSTANTS
  LastLane,     \* the lane that cashes out by itself
  UnlockLane,   \* the first lane the cash out is open on
  MaxOverrun,   \* bound: lanes stepped into beyond the last one
  MaxRounds,    \* bound: rounds started
  MaxErrors,    \* bound: ERROR frames of some other game's action
  MaxDrops,     \* bound: connections lost
  MaxWire       \* bound: frames on their way in one direction

ChickenPageAssumption ==
  /\ LastLane \in Nat \ {0} /\ UnlockLane \in 1..LastLane
  /\ {MaxOverrun, MaxRounds, MaxErrors, MaxDrops, MaxWire} \subseteq Nat

VARIABLES
  board,      \* the page: phase, lane, hop, hopping, doomed, shown (the round it is about)
  flags,      \* the page: stepPending, busy
  lastWin,    \* the payout of the last GAME_RESULT, or NoWin
  timers,     \* landing timers not fired yet, oldest first
  held,       \* landingTimerRef holds the newest of them
  round,      \* the server: the round it holds, and whether its caller is still there
  decided,    \* decided[n]: Undecided, Busted, or the payout of round n
  toServer, toPage,
  errors, drops,
  crossed     \* history: another action's ERROR was taken for an answer, a hop was answered
              \* before the one before it had landed, or a settlement failed with its caller gone

pageVars == <<board, flags, lastWin, timers, held>>
serverVars == <<round, decided>>
vars == <<pageVars, serverVars, toServer, toPage, errors, drops, crossed>>

NoWin == <<0, 0>>
Undecided == <<>>
Busted == <<0>>
NoHop == 0
Rounds == 1..MaxRounds

Fresh == [phase |-> "IDLE", lane |-> 0, hop |-> NoHop, hopping |-> FALSE,
          doomed |-> FALSE, shown |-> 0]

Init ==
  /\ board = Fresh /\ flags = [stepPending |-> FALSE, busy |-> FALSE]
  /\ lastWin = NoWin /\ timers = <<>> /\ held = FALSE
  /\ round = [n |-> 0, lane |-> 0, status |-> "none", here |-> TRUE]
  /\ decided = [n \in Rounds |-> Undecided]
  /\ toServer = <<"RESUME">> /\ toPage = <<>>
  /\ errors = 0 /\ drops = 0 /\ crossed = FALSE

Playing == board.phase = "PLAYING"

SendUp(frame) == Len(toServer) < MaxWire /\ toServer' = Append(toServer, frame)
SendDown(frame) == Len(toPage) < MaxWire /\ toPage' = Append(toPage, frame)

\* What an awaited call answers goes to the socket that asked, open or not.
Answer(frame) == IF round.here THEN SendDown(frame) ELSE UNCHANGED toPage

-----------------------------------------------------------------------------
(* The page: what the player may do *)

\* clearTimeout reaches the timer the ref still holds, and no other.
Cleared == IF held THEN SubSeq(timers, 1, Len(timers) - 1) ELSE timers

Reset(b) == [b EXCEPT !.lane = 0, !.hop = NoHop, !.hopping = FALSE, !.doomed = FALSE]

\* The controls the page renders enabled.
Offered ==
  IF Playing
  THEN (IF ~board.hopping /\ ~flags.busy THEN {"step"} ELSE {})
       \cup (IF board.lane >= UnlockLane /\ ~board.hopping /\ ~flags.busy THEN {"cashOut"} ELSE {})
  ELSE IF ~flags.busy THEN {"start"} ELSE {}

StartRound ==
  /\ "start" \in Offered
  /\ board' = Reset(board) /\ timers' = Cleared /\ held' = FALSE
  /\ flags' = [stepPending |-> FALSE, busy |-> TRUE]
  /\ lastWin' = NoWin
  /\ SendUp("BET")
  /\ UNCHANGED <<serverVars, toPage, errors, drops, crossed>>

\* The chicken is a button, and the arrow keys do the same without its disabled flag.
Advance ==
  /\ Playing /\ board.hop = NoHop /\ ~board.doomed /\ ~flags.stepPending
  /\ flags' = [stepPending |-> TRUE, busy |-> TRUE]
  /\ SendUp("STEP")
  /\ UNCHANGED <<board, lastWin, timers, held, serverVars, toPage, errors, drops, crossed>>

CashOut ==
  /\ "cashOut" \in Offered
  /\ board.lane # 0 /\ board.hop = NoHop /\ ~board.doomed /\ ~flags.stepPending
  /\ flags' = [flags EXCEPT !.busy = TRUE]
  /\ SendUp("CASHOUT")
  /\ UNCHANGED <<board, lastWin, timers, held, serverVars, toPage, errors, drops, crossed>>

-----------------------------------------------------------------------------
(* The page: what it plays *)

\* A hop begins; a surviving one lands by a timer, with what is to be shown then.
PlayHop(survived, win) ==
  IF ~Playing THEN UNCHANGED <<board, timers, held>>
  ELSE /\ board' = [board EXCEPT !.hop = board.lane + 1, !.hopping = TRUE, !.doomed = ~survived]
       /\ IF survived
          THEN timers' = Append(timers, [to |-> board.lane + 1, win |-> win]) /\ held' = TRUE
          ELSE UNCHANGED <<timers, held>>

Won(win) == board' = [board EXCEPT !.phase = "WON"] /\ lastWin' = win

\* The landing timer: whichever fires, the ref forgets the newest.
Land ==
  /\ timers # <<>>
  /\ LET landing == Head(timers)
         settled == [board EXCEPT !.hop = NoHop, !.hopping = FALSE, !.lane = landing.to] IN
     IF ~Playing THEN UNCHANGED <<board, lastWin>>
     ELSE IF landing.win = NoWin THEN board' = settled /\ UNCHANGED lastWin
     ELSE board' = [settled EXCEPT !.phase = "WON"] /\ lastWin' = landing.win
  /\ timers' = Tail(timers) /\ held' = FALSE
  /\ UNCHANGED <<flags, serverVars, toServer, toPage, errors, drops, crossed>>

\* A frame of the canvas past the end of the hop.
HopDrawn ==
  /\ board.hop # NoHop /\ ~board.doomed
  /\ board' = [board EXCEPT !.hop = NoHop]
  /\ UNCHANGED <<flags, lastWin, timers, held, serverVars, toServer, toPage, errors, drops, crossed>>

\* The doomed car reaches the chicken, or has left the board without.
Crash ==
  /\ Playing /\ board.doomed
  /\ board' = [Reset(board) EXCEPT !.phase = "LOST"]
  /\ timers' = Cleared /\ held' = FALSE
  /\ UNCHANGED <<flags, lastWin, serverVars, toServer, toPage, errors, drops, crossed>>

-----------------------------------------------------------------------------
(* The page: frames from the server *)

Deliver(type) == toPage # <<>> /\ Head(toPage).type = type /\ toPage' = Tail(toPage)

Restored_AtTheVerge(frame) == 0

Restored(frame) == frame.lane

\* BET_ACCEPTED, of a new round or of one the server still holds.
OnAccepted ==
  LET frame == Head(toPage) IN
  /\ Deliver("BET_ACCEPTED")
  /\ board' = [Reset(board) EXCEPT !.phase = "PLAYING", !.lane = Restored(frame), !.shown = frame.n]
  /\ timers' = Cleared /\ held' = FALSE
  /\ flags' = [stepPending |-> FALSE, busy |-> FALSE]
  /\ lastWin' = NoWin
  /\ UNCHANGED <<serverVars, toServer, errors, drops, crossed>>

OnUpdate ==
  /\ Deliver("STATE_UPDATE")
  /\ flags' = [stepPending |-> FALSE, busy |-> FALSE]
  /\ crossed' = (crossed \/ (Playing /\ timers # <<>>))
  /\ PlayHop(TRUE, NoWin)
  /\ UNCHANGED <<lastWin, serverVars, toServer, errors, drops>>

OnResult ==
  LET frame == Head(toPage) IN
  /\ Deliver("GAME_RESULT")
  /\ flags' = [stepPending |-> FALSE, busy |-> FALSE]
  /\ CASE frame.bust -> PlayHop(FALSE, NoWin) /\ UNCHANGED lastWin
       [] ~frame.bust /\ frame.auto -> PlayHop(TRUE, frame.payout) /\ UNCHANGED lastWin
       [] OTHER -> Won(frame.payout) /\ UNCHANGED <<timers, held>>
  /\ UNCHANGED <<serverVars, toServer, errors, drops, crossed>>

\* ERROR names no game: one of another page's action is taken for an answer.
OnError ==
  /\ Deliver("ERROR")
  /\ flags' = [stepPending |-> FALSE, busy |-> FALSE]
  /\ crossed' = (crossed \/ ~Head(toPage).answer)
  /\ UNCHANGED <<board, lastWin, timers, held, serverVars, toServer, errors, drops>>

-----------------------------------------------------------------------------
(* The server's round, as its handlers answer *)

Frame(type) == [type |-> type, n |-> round.n, lane |-> round.lane]
Refused(answer) == [type |-> "ERROR", answer |-> answer]
Result(bust, auto, payout) == [type |-> "GAME_RESULT", bust |-> bust, auto |-> auto, payout |-> payout]

Take(type) == toServer # <<>> /\ Head(toServer) = type /\ toServer' = Tail(toServer)

Quiet == UNCHANGED <<pageVars, errors, drops, crossed>>

\* BET: refused while a round runs or starts; else debited before it exists.
HandleBet ==
  /\ Take("BET")
  /\ IF round.status # "none" \/ round.n = MaxRounds
     THEN SendDown(Refused(TRUE)) /\ UNCHANGED round
     ELSE /\ round' = [n |-> round.n + 1, lane |-> 0, status |-> "starting", here |-> TRUE]
          /\ UNCHANGED toPage
  /\ UNCHANGED decided /\ Quiet

Opened ==
  /\ round.status = "starting"
  /\ round' = [round EXCEPT !.status = "open"]
  /\ Answer(Frame("BET_ACCEPTED"))
  /\ UNCHANGED <<decided, toServer>> /\ Quiet

\* STEP: the lane was rolled when the round began, and is unknown until here.  The row
\* of a lost round may fail to be written: the loss stands, and ERROR is the answer.
HandleStep ==
  /\ Take("STEP")
  /\ \/ /\ round.status # "open"
        /\ SendDown(Refused(TRUE)) /\ UNCHANGED serverVars
     \/ /\ round.status = "open"
        /\ round' = [round EXCEPT !.status = "none"]
        /\ decided' = [decided EXCEPT ![round.n] = Busted]
        /\ SendDown(Result(TRUE, FALSE, NoWin)) \/ SendDown(Refused(TRUE))
     \/ /\ round.status = "open" /\ round.lane + 1 < LastLane
        /\ round' = [round EXCEPT !.lane = @ + 1]
        /\ SendDown(Frame("STATE_UPDATE")) /\ UNCHANGED decided
     \/ /\ round.status = "open" /\ round.lane + 1 \in LastLane..LastLane + MaxOverrun
        /\ round' = [round EXCEPT !.lane = @ + 1, !.status = "auto", !.here = TRUE]
        /\ UNCHANGED <<toPage, decided>>
  /\ Quiet

HandleCashout ==
  /\ Take("CASHOUT")
  /\ IF round.status # "open" \/ round.lane < UnlockLane
     THEN SendDown(Refused(TRUE)) /\ UNCHANGED round
     ELSE round' = [round EXCEPT !.status = "cashout", !.here = TRUE] /\ UNCHANGED toPage
  /\ UNCHANGED decided /\ Quiet

\* The credit is made or fails, and the history with it: a failed credit hands the round
\* back, at its last lane with the road still open.
Settled ==
  LET payout == <<round.n, round.lane>> IN
  /\ round.status \in {"auto", "cashout"}
  /\ \/ /\ round' = [round EXCEPT !.status = "none"]
        /\ decided' = [decided EXCEPT ![round.n] = payout]
        /\ Answer(Result(FALSE, round.status = "auto", payout)) \/ Answer(Refused(TRUE))
        /\ UNCHANGED crossed
     \/ /\ round' = [round EXCEPT !.status = "open"]
        /\ crossed' = (crossed \/ ~round.here)
        /\ Answer(Refused(TRUE)) /\ UNCHANGED decided
  /\ UNCHANGED <<pageVars, toServer, errors, drops>>

\* RESUME: the round's frame again, or RESUME_NONE, which the page does not listen to.
HandleResume ==
  /\ Take("RESUME")
  /\ IF round.status = "open"
     THEN SendDown(Frame("BET_ACCEPTED"))
     ELSE UNCHANGED toPage
  /\ UNCHANGED serverVars /\ Quiet

-----------------------------------------------------------------------------
\* An action of another page fails: the socket is the whole dashboard's.
OtherFails ==
  /\ errors < MaxErrors
  /\ errors' = errors + 1
  /\ SendDown(Refused(FALSE))
  /\ UNCHANGED <<pageVars, serverVars, toServer, drops, crossed>>

\* The connection is lost and opens again: the page asks for its round.
Reconnect ==
  /\ drops < MaxDrops
  /\ drops' = drops + 1
  /\ toServer' = <<"RESUME">> /\ toPage' = <<>>
  /\ \/ UNCHANGED pageVars
     \/ /\ board' = Fresh /\ flags' = [stepPending |-> FALSE, busy |-> FALSE]
        /\ lastWin' = NoWin /\ timers' = <<>> /\ held' = FALSE
  /\ round' = [round EXCEPT !.here = FALSE]
  /\ UNCHANGED <<decided, errors, crossed>>

Player == StartRound \/ Advance \/ CashOut
Shows == Land \/ HopDrawn \/ Crash \/ OnAccepted \/ OnUpdate \/ OnResult \/ OnError
Server == HandleBet \/ Opened \/ HandleStep \/ HandleCashout \/ Settled \/ HandleResume

Next == Player \/ Shows \/ Server \/ OtherFails \/ Reconnect

Spec == Init /\ [][Next]_vars

-----------------------------------------------------------------------------
(* Properties *)

TypeOK ==
  /\ board \in [phase : {"IDLE", "PLAYING", "WON", "LOST"}, lane : 0..LastLane + MaxOverrun, hop : 0..LastLane + MaxOverrun + 1,
                hopping : BOOLEAN, doomed : BOOLEAN, shown : 0..MaxRounds]
  /\ flags \in [stepPending : BOOLEAN, busy : BOOLEAN]
  /\ round.status \in {"none", "starting", "open", "auto", "cashout"}
  /\ held => timers # <<>>

\* "The board never decides anything" (ChickenRoad.tsx:85): a board that shows a loss
\* shows one the server rolled, and a win is the payout of that round and of no other.
ShownIsDecided ==
  /\ board.phase = "LOST" => decided[board.shown] = Busted
  /\ board.phase = "WON" /\ lastWin # NoWin =>
       decided[board.shown] = lastWin /\ lastWin[1] = board.shown

\* The lane a player weighs is never beyond the one the server pays for, and once
\* everything sent has been played it is that lane, a reconnection included ("re-attaches a
\* page to a round the server is still holding", socket.server.ts:815).  Only a settlement of
\* the last lane that failed is not told.  Three things undo it: another page's ERROR lets the
\* board ask twice for one hop; a frame past the end of a hop clears hopRef, all the arrow
\* keys look at (ChickenRoad.tsx:677), so that a landing timer later than the next answer
\* makes two hops of one lane, and leaves a timer no reset clears; and a step into the last
\* lane whose connection is lost, whose round is resumed while it settles (RESUME_NONE,
\* socket.server.ts:823) and whose settlement then fails is a step nobody is told of.
AllPlayed == toServer = <<>> /\ toPage = <<>> /\ timers = <<>>
BoardNeverAhead ==
  (Playing /\ ~crossed /\ board.shown = round.n) =>
    /\ board.lane <= round.lane
    /\ AllPlayed /\ round.status = "open" /\ round.lane < LastLane => board.lane = round.lane
=============================================================================
