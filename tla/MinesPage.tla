------------------------------ MODULE MinesPage ------------------------------
(***************************************************************************)
(* The Mines page (app/(dashboard)/games/mines/page.tsx with MinesCanvas)  *)
(* against the round the server holds for the player.  The page never asks *)
(* for its round: a reload or a lost frame leaves the two apart, and the   *)
(* properties say what still agrees.                                       *)
(*                                                                         *)
(* Every frame is an awaited handler of its own: the answers of two may    *)
(* overtake each other, and only the page's `busy` keeps them apart.       *)
(***************************************************************************)
EXTENDS Integers, Sequences, FiniteSets

CONSTANTS
  Tiles,       \* the grid
  Mined,       \* the tiles a seed mines; one layout stands for all
  MaxRounds,   \* bound: rounds started
  MaxErrors,   \* bound: ERROR frames of some other game's action
  MaxDrops,    \* bound: connections lost
  MaxWire      \* bound: frames on their way to the server

MinesPageAssumption ==
  /\ IsFiniteSet(Tiles) /\ Mined \subseteq Tiles /\ Mined # {} /\ Mined # Tiles
  /\ {MaxRounds, MaxErrors, MaxDrops, MaxWire} \subseteq Nat

VARIABLES
  page,      \* active, revealed, multiplier (of so many tiles), mines, hit, outcome, busy
  round,     \* the server: n, revealed, active
  decided,   \* decided[n]: "open", "bust" or the tiles round n was paid for
  pending,   \* handlers past their state change, their answers not sent yet
  toServer, toPage,
  errors, drops,
  crossed    \* history: an ERROR of another page's action was taken for an answer

serverVars == <<round, decided, pending>>
vars == <<page, serverVars, toServer, toPage, errors, drops, crossed>>

NoTile == "none"
NoPrice == 0
Fresh == [active |-> FALSE, revealed |-> {}, multiplier |-> 0, mines |-> {}, hit |-> NoTile,
          outcome |-> "none", busy |-> FALSE]

Init ==
  /\ page = Fresh
  /\ round = [n |-> 0, revealed |-> {}, active |-> FALSE]
  /\ decided = [n \in 1..MaxRounds |-> "open"]
  /\ pending = <<>> /\ toServer = <<>> /\ toPage = <<>>
  /\ errors = 0 /\ drops = 0 /\ crossed = FALSE

-----------------------------------------------------------------------------
(* The page *)

TileState(tile) ==
  IF page.hit = tile THEN "hit"
  ELSE IF tile \in page.mines THEN "mine"
  ELSE IF tile \in page.revealed THEN "safe" ELSE "idle"

\* What the canvas and the controls let the player do.
Interactive == page.active /\ ~page.busy
CanReveal(tile) == Interactive /\ TileState(tile) = "idle"
CanCashout == page.active /\ page.revealed # {} /\ ~page.busy
CanStart == ~page.active /\ ~page.busy

Ask(frame) ==
  /\ Len(toServer) < MaxWire
  /\ page' = [page EXCEPT !.busy = TRUE]
  /\ toServer' = Append(toServer, frame)
  /\ UNCHANGED <<serverVars, toPage, errors, drops, crossed>>

StartRound == CanStart /\ Ask([type |-> "BET"])
Reveal(tile) == CanReveal(tile) /\ tile \notin page.revealed /\ Ask([type |-> "REVEAL_TILE", tile |-> tile])
Cashout == CanCashout /\ Ask([type |-> "CASHOUT"])

OnAccepted(p) == [Fresh EXCEPT !.active = TRUE]

OnUpdate(p, frame) ==
  [p EXCEPT !.revealed = @ \cup {frame.tile}, !.multiplier = frame.multiplier, !.busy = FALSE]

\* A bust keeps the tiles shown so far, a cash out shows those the server counted.
OnResult(p, frame) ==
  LET over == [p EXCEPT !.active = FALSE, !.mines = Mined, !.busy = FALSE] IN
  IF frame.bust
  THEN [over EXCEPT !.outcome = "bust", !.hit = frame.tile]
  ELSE [over EXCEPT !.outcome = "cashout", !.multiplier = frame.multiplier, !.revealed = frame.revealed]

Frames ==
  /\ toPage # <<>> /\ toPage' = Tail(toPage)
  /\ LET frame == Head(toPage) IN
     /\ page' = CASE frame.type = "BET_ACCEPTED" -> OnAccepted(page)
                  [] frame.type = "STATE_UPDATE" -> OnUpdate(page, frame)
                  [] frame.type = "GAME_RESULT" -> OnResult(page, frame)
                  [] frame.type = "ERROR" -> [page EXCEPT !.busy = FALSE]
     /\ crossed' = (crossed \/ (frame.type = "ERROR" /\ frame.foreign))
  /\ UNCHANGED <<serverVars, toServer, errors, drops>>

-----------------------------------------------------------------------------
(* The server *)

Refused == [type |-> "ERROR", foreign |-> FALSE]

\* A handler answers with one frame, now or once what it awaits is done; what it awaits
\* may fail, and the answer is ERROR then.  Two frames of the player that overlap inside
\* one handler are MinesRound's: here a state change is one step.
Answers(frame) == pending' = Append(pending, frame)

\* Refused while a round runs, or by the ledger.
HandleBet ==
  \/ Answers(Refused) /\ UNCHANGED <<round, decided>>
  \/ /\ ~round.active /\ round.n < MaxRounds
     /\ round' = [n |-> round.n + 1, revealed |-> {}, active |-> TRUE]
     /\ Answers([type |-> "BET_ACCEPTED"]) /\ UNCHANGED decided

IsMine_Never(tile) == FALSE

IsMine(tile) == tile \in Mined

HandleReveal(tile) ==
  IF ~round.active \/ tile \in round.revealed
  THEN Answers(Refused) /\ UNCHANGED <<round, decided>>
  ELSE IF IsMine(tile)
  THEN /\ round' = [round EXCEPT !.active = FALSE]
       /\ decided' = [decided EXCEPT ![round.n] = "bust"]
       /\ Answers([type |-> "GAME_RESULT", bust |-> TRUE, tile |-> tile, n |-> round.n])
  ELSE /\ round' = [round EXCEPT !.revealed = @ \cup {tile}]
       /\ Answers([type |-> "STATE_UPDATE", tile |-> tile, multiplier |-> Cardinality(round.revealed) + 1])
       /\ UNCHANGED decided

HandleCashout ==
  IF ~round.active \/ round.revealed = {}
  THEN Answers(Refused) /\ UNCHANGED <<round, decided>>
  ELSE /\ round' = [round EXCEPT !.active = FALSE]
       /\ decided' = [decided EXCEPT ![round.n] = "cashout"]
       /\ Answers([type |-> "GAME_RESULT", bust |-> FALSE, n |-> round.n,
                   multiplier |-> Cardinality(round.revealed), revealed |-> round.revealed])

Handle ==
  /\ toServer # <<>> /\ toServer' = Tail(toServer)
  /\ LET frame == Head(toServer) IN
     CASE frame.type = "BET" -> HandleBet
       [] frame.type = "REVEAL_TILE" -> HandleReveal(frame.tile)
       [] frame.type = "CASHOUT" -> HandleCashout
  /\ UNCHANGED <<page, toPage, errors, drops, crossed>>

Reply ==
  \E i \in 1..Len(pending) :
    /\ \/ toPage' = Append(toPage, pending[i])
       \/ pending[i].type # "BET_ACCEPTED" /\ toPage' = Append(toPage, Refused)
    /\ pending' = SubSeq(pending, 1, i - 1) \o SubSeq(pending, i + 1, Len(pending))
    /\ UNCHANGED <<page, round, decided, toServer, errors, drops, crossed>>

OtherFails ==
  /\ errors < MaxErrors /\ errors' = errors + 1
  /\ toPage' = Append(toPage, [type |-> "ERROR", foreign |-> TRUE])
  /\ UNCHANGED <<page, serverVars, toServer, drops, crossed>>

\* The connection is lost with what was on its way, or the page is loaded again.  It asks
\* for nothing: a page loaded again cannot reach the round the server still holds.
Lost ==
  /\ drops < MaxDrops /\ drops' = drops + 1
  /\ page' \in {page, Fresh}
  /\ toServer' = <<>> /\ toPage' = <<>> /\ pending' = <<>>
  /\ UNCHANGED <<round, decided, errors, crossed>>

Next ==
  \/ StartRound \/ Cashout \/ Frames \/ Handle \/ Reply \/ OtherFails \/ Lost
  \/ \E tile \in Tiles : Reveal(tile)

Spec == Init /\ [][Next]_vars

-----------------------------------------------------------------------------
(* Properties *)

TypeOK ==
  /\ page \in [active : BOOLEAN, revealed : SUBSET Tiles, multiplier : 0..Cardinality(Tiles),
               mines : {{}, Mined}, hit : Tiles \cup {NoTile},
               outcome : {"none", "bust", "cashout"}, busy : BOOLEAN]
  /\ round.revealed \subseteq Tiles \ Mined

\* "Tiles the server has confirmed safe" (MinesCanvas.tsx:38): the board never shows a tile
\* the server did not turn, nor a price beyond the tiles it counts, whatever is refused.
\* It may lag: a tile is turned before its price is read, and the read may fail.  Another
\* page's ERROR breaks it: two frames of the player overtake each other then, and an update
\* of one round may reach the next.
ShownTilesAreSafe ==
  /\ page.revealed \cap Mined = {}
  /\ (page.active /\ round.active /\ drops = 0 /\ ~crossed) =>
       /\ page.revealed \subseteq round.revealed
       /\ Cardinality(page.revealed) <= page.multiplier
       /\ page.multiplier <= Cardinality(round.revealed)

\* A round is shown as lost or cashed out only as the server decided it.
OutcomeIsDecided ==
  (page.outcome # "none" /\ drops = 0 /\ ~crossed /\ pending = <<>> /\ toServer = <<>> /\ toPage = <<>>) =>
    page.outcome = decided[round.n]
=============================================================================
