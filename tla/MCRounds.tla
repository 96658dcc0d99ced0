------------------------------ MODULE MCRounds ------------------------------
(***************************************************************************)
(* The rounds of Chicken Road with the handlers that interleave over them, *)
(* the pages the games are played on, each against the round its server    *)
(* holds, the dialogs and the feed that show the seeds of a bet, and the   *)
(* dialogs over the wallet.  They share no variable, so a behaviour is     *)
(* about one of them: `part` says which, and the others stay at rest.  The *)
(* rounds are extended, so that their properties are those of ChickenRound *)
(* itself; the rest is instantiated.                                       *)
(***************************************************************************)
EXTENDS ChickenRound, Integers, TLC

CONSTANTS
  LastLane, UnlockLane, MaxErrors, MaxDrops, MaxWire,                  \* the pages
  Grid, Mined,                                                         \* MinesPage
  OnScreen, Picks, MaxPlaced,                                          \* Boards
  MaxFrames,                                                           \* CrashPage
  Holders, MaxNonce, MaxPairs, MaxReads, MaxSwitches,                  \* FairnessDialog
  MaxRows, MaxFetches, MaxCuts,                                        \* BetFeed
  Amounts, MaxAsks, MaxMoves, MaxMounts, MaxLogins,                    \* Wallet
  Fields, Base, Scale, Cents, Keys, MaxKeys, MinBet, MaxBet, MaxUnits, Funds,   \* Stakes
  CarHalf, FollowGap, Gate, Row, Exit, Speeds, Gaps, HopTime, Reach, Grace, Longest, MaxCars   \* Traffic

VARIABLES
  part,
  road, flags, lastWin, timers, held, walk, crossing, roadUp, roadDown, roadErrors, roadDrops, roadCrossed,
  curve, running, bet, starting, finishing, rounds, curveUp, curveDown, curveDrops, overlapped,
  field, dig, dug, digging, digUp, digDown, digErrors, digDrops, digCrossed,
  game, controls, busy, phase, playing, shown, before, sent, answers, settled, asked, errors, drops, crossed,
  pair, nonce, openRound, seedFrames, token, seed, loading, reads, reading, dialog, rotation, revealed, verifier, switches, excused,
  bets, active, unsaid, linked, cuts, betFrames, backfill, list, loaded, selected, detail, fetches, fetched, missed,
  wallet, moves, unpushed, pushes, header, excuse, modal, panel, asks, session, dead, redirects,
  control, stakeText, stakeFunds, stakePhase, stake, launch, heard,
  cars, inView, spawnIn, ride, bird, survived, since, made, hitAt, resumed

Parts == {"chicken", "chicken page", "crash page", "mines page", "boards", "fairness dialog", "bet feed",
          "wallet", "stakes", "traffic"}

roadVars == <<road, flags, lastWin, timers, held, walk, crossing, roadUp, roadDown, roadErrors,
              roadDrops, roadCrossed>>
curveVars == <<curve, running, bet, starting, finishing, rounds, curveUp, curveDown, curveDrops, overlapped>>
fieldVars == <<field, dig, dug, digging, digUp, digDown, digErrors, digDrops, digCrossed>>
boardVars == <<game, controls, busy, phase, playing, shown, before, sent, answers, settled, asked,
               errors, drops, crossed>>
seedVars ==
  <<pair, nonce, openRound, seedFrames, token, seed, loading, reads, reading, dialog, rotation, revealed, verifier, switches, excused>>
feedVars ==
  <<bets, active, unsaid, linked, cuts, betFrames, backfill, list, loaded, selected, detail, fetches, fetched, missed>>
walletVars ==
  <<wallet, moves, unpushed, pushes, header, excuse, modal, panel, asks, session, dead, redirects>>
stakeVars == <<control, stakeText, stakeFunds, stakePhase, stake, launch, heard>>
trafficVars == <<cars, inView, spawnIn, ride, bird, survived, since, made, hitAt, resumed>>
roundsVars == <<part, vars, roadVars, curveVars, fieldVars, boardVars, seedVars, feedVars,
          walletVars, stakeVars, trafficVars>>

-----------------------------------------------------------------------------
Road == INSTANCE ChickenPage WITH
  MaxRounds <- MaxBets, board <- road, round <- walk, decided <- crossing, toServer <- roadUp,
  toPage <- roadDown, errors <- roadErrors, drops <- roadDrops, crossed <- roadCrossed
Curve == INSTANCE CrashPage WITH
  MaxRounds <- MaxBets, MaxWire <- MaxFrames, page <- curve, toServer <- curveUp, toPage <- curveDown,
  drops <- curveDrops
Field == INSTANCE MinesPage WITH
  Tiles <- Grid, MaxRounds <- MaxBets, page <- field, round <- dig, decided <- dug, pending <- digging,
  toServer <- digUp, toPage <- digDown, errors <- digErrors, drops <- digDrops, crossed <- digCrossed
Board == INSTANCE Boards WITH Games <- OnScreen, MaxBets <- MaxPlaced, held <- before, decided <- settled,
  placed <- asked
Fair == INSTANCE FairnessDialog WITH Players <- Holders, round <- openRound, frames <- seedFrames,
  asked <- reading, open <- dialog
Feed == INSTANCE BetFeed WITH frames <- betFrames, asked <- fetched
Dialogs == INSTANCE Wallet WITH ledger <- wallet, frames <- pushes, shown <- header, dialog <- modal,
  timers <- redirects
Stake == INSTANCE Stakes WITH field <- stakeText, balance <- stakeFunds, phase <- stakePhase, bet <- stake,
  crossed <- heard
Lane == INSTANCE Traffic WITH shown <- inView, phase <- ride

ASSUME ChickenAssumption
ASSUME PagesAssumption ==
  /\ Road!ChickenPageAssumption /\ Field!MinesPageAssumption /\ Board!BoardsAssumption
  /\ Fair!FairnessDialogAssumption /\ Feed!BetFeedAssumption /\ Dialogs!WalletAssumption
ASSUME Curve!CrashPageAssumption /\ Stake!StakesAssumption
ASSUME Lane!TrafficAssumption

\* A behaviour of another part starts on one board with one pick.
RoundsInit ==
  /\ part \in Parts
  /\ Init /\ Road!Init /\ Curve!Init /\ Field!Init
  /\ Board!Init
  /\ (part # "boards" => game = CHOOSE g \in OnScreen : TRUE)
  /\ (part # "boards" => controls = CHOOSE p \in Picks : TRUE)
  /\ Fair!Init /\ Feed!Init /\ Dialogs!Init
  /\ Stake!Init
  /\ (part # "stakes" => control = CHOOSE f \in Fields : TRUE)
  /\ Lane!Init

RoundsNext ==
  \/ /\ part = "chicken" /\ Next
     /\ UNCHANGED <<part, roadVars, curveVars, fieldVars, boardVars, seedVars, feedVars, walletVars, stakeVars, trafficVars>>
  \/ /\ part = "chicken page" /\ Road!Next
     /\ UNCHANGED <<part, vars, curveVars, fieldVars, boardVars, seedVars, feedVars, walletVars, stakeVars, trafficVars>>
  \/ /\ part = "crash page" /\ Curve!Next
     /\ UNCHANGED <<part, vars, roadVars, fieldVars, boardVars, seedVars, feedVars, walletVars, stakeVars, trafficVars>>
  \/ /\ part = "mines page" /\ Field!Next
     /\ UNCHANGED <<part, vars, roadVars, curveVars, boardVars, seedVars, feedVars, walletVars, stakeVars, trafficVars>>
  \/ /\ part = "boards" /\ Board!Next
     /\ UNCHANGED <<part, vars, roadVars, curveVars, fieldVars, seedVars, feedVars, walletVars, stakeVars, trafficVars>>
  \/ /\ part = "fairness dialog" /\ Fair!Next
     /\ UNCHANGED <<part, vars, roadVars, curveVars, fieldVars, boardVars, feedVars, walletVars, stakeVars, trafficVars>>
  \/ /\ part = "bet feed" /\ Feed!Next
     /\ UNCHANGED <<part, vars, roadVars, curveVars, fieldVars, boardVars, seedVars, walletVars, stakeVars, trafficVars>>
  \/ /\ part = "wallet" /\ Dialogs!Next
     /\ UNCHANGED <<part, vars, roadVars, curveVars, fieldVars, boardVars, seedVars, feedVars, stakeVars, trafficVars>>
  \/ /\ part = "stakes" /\ Stake!Next
     /\ UNCHANGED <<part, vars, roadVars, curveVars, fieldVars, boardVars, seedVars, feedVars, walletVars, trafficVars>>
  \/ /\ part = "traffic" /\ Lane!Next
     /\ UNCHANGED <<part, vars, roadVars, curveVars, fieldVars, boardVars, seedVars, feedVars, walletVars, stakeVars>>

\* What a call awaits settles in the end: nothing that is fair is enabled in another part.
RoundsSpec == RoundsInit /\ [][RoundsNext]_roundsVars /\ Fairness

-----------------------------------------------------------------------------
\* The type invariants of the modules.
TypesOK ==
  CASE part = "chicken" -> TypeOK
    [] part = "chicken page" -> Road!TypeOK
    [] part = "crash page" -> Curve!TypeOK
    [] part = "mines page" -> Field!TypeOK
    [] part = "boards" -> Board!TypeOK
    [] part = "fairness dialog" -> Fair!TypeOK
    [] part = "bet feed" -> Feed!TypeOK
    [] part = "wallet" -> Dialogs!TypeOK
    [] part = "stakes" -> Stake!TypeOK
    [] part = "traffic" -> Lane!TypeOK

\* A page shows what its server decided, unless it lost its connection, took another call's
\* error for its own or had an answer overtaken, as each property states: a loss it rolled,
\* the payout of that round, the
\* lane it is on, the tiles it turned, the choice a bet was settled on, the seeds that decide
\* the next one and those that decided another; what became of a hold, what the wallet holds,
\* and no other dialog's invoice or redirect; and not yet what a flight will win.
PagesShowWhatWasDecided ==
  CASE part = "chicken page" -> Road!ShownIsDecided /\ Road!BoardNeverAhead
    [] part = "mines page" -> Field!ShownTilesAreSafe /\ Field!OutcomeIsDecided
    [] part = "boards" -> Board!AnnouncesTheRound
    [] part = "fairness dialog" -> Fair!StaysCurrent /\ Fair!NeverAhead /\ Fair!RevealIsHonoured
    [] part = "bet feed" -> Feed!RecordIsOfThisBet /\ Feed!SealedWhileActive /\ Feed!FeedMissesNothing
    [] part = "wallet" -> /\ Dialogs!ToldTheTruth /\ Dialogs!ScreenKeepsUp
                          /\ Dialogs!InvoiceIsOfThisPanel /\ Dialogs!NoRedirectBehind
    [] part = "stakes" -> Stake!FlightKeepsItsSecret
    [] OTHER -> TRUE

\* Its controls say what the server would do: locked until a result is shown and no
\* longer, never a button the server would refuse once all is said, and never an amount for
\* more than it is.  And the traffic contradicts no hop: no car drives into another or over
\* a lane the bird has claimed, and a crash looks like one.
ControlsAgree ==
  CASE part = "crash page" -> Curve!ButtonsAgree
    [] part = "boards" -> Board!LockedUntilShown /\ Board!NeverLockedUp
    [] part = "stakes" -> /\ Stake!SentIsSound /\ Stake!FieldIsTheStake /\ Stake!NeverOverstated
                          /\ Stake!ButtonsLandInside /\ Stake!RendersAnyText
    [] part = "traffic" -> Lane!CarsKeepApart /\ Lane!GateKeepsLanesClear /\ Lane!CrashLooksLikeOne
    [] OTHER -> TRUE
=============================================================================
