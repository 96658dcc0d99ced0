----------------------------- MODULE MCPlatform -----------------------------
(***************************************************************************)
(* What surrounds the bets and the gateways, side by side: accounts and    *)
(* codes, the connections at both ends, the rewards, live support, the     *)
(* pages that sign a player in, the console of the administrators.  They   *)
(* share no variable, so a behaviour is about one of them: `part` says     *)
(* which, and the others stay at rest.  Accounts, the claims and the tab   *)
(* are extended, so that their properties are the modules' own.            *)
(***************************************************************************)
EXTENDS Accounts, RewardClaims, ClientLink, TLC

CONSTANTS
  Cap, PromoEnds, MaxTick, MaxEdge,                                    \* Rewards
  RestoreWindow, MaxDay,                                               \* Streak
  PerTicket, PerDeposit, MaxPerClaim, EndDay,                          \* Raffle
  MaxMessages, MaxTickets, MaxLoads, MaxOpens, MaxCloses, MaxCuts,     \* Support
  Pages, MaxPosts, MaxSolved, MaxBeat,                                 \* SignIn
  Slices, MaxDue, MaxReads, MaxClaims,                                 \* RewardsPage
  MaxOrders, MaxForms, MaxEdits,                                       \* AccountDesk
  MaxSaves, MaxTyped,                                                  \* RiskForm
  Holds, MaxActs                                                       \* PayoutQueue

VARIABLES
  part,
  user, tcp, peer, sockets, meta, lookup, room,
  mix, tick, frozen, lastSpin, lastIn, rung, redeemed, edge, req,
  today, streak, play, restore, breaks, charged, outdated, overwrites,
  cast, day, wagered, settled, funded, lastVisit, visits, entry, counter, tickets, claim,
  end, cases, recent, messages, asking, chat, desk, loads, toChat, toDesk, opens, closes, cuts, raced,
  page, setting, role, gate, profile, form, widget, solved, spent, replayed, posted, posts, beat,
  code, lost, session, next, at,
  tried, due, got, known, fetches, fetched, view, offered, held, ask, asks, busy, told, wheel, landed, missed, gone,
  accounts, credits, keys, trail, orders, ordered, drawer, forms, edits, confirmed, crossed,
  limits, audit, fields, puts, sent, waiting, said, typed, apart,
  decided, log, acts, acted, rows, rejecting, reason, waits, message

Parts == {"accounts", "presence", "link", "rewards", "streak", "raffle", "support", "signin", "hub", "accounts desk", "risk form", "payout queue"}

presenceVars == <<user, tcp, peer, sockets, meta, lookup, room>>
rewardVars ==
  <<mix, tick, frozen, lastSpin, lastIn, rung, redeemed, edge, swept, req, paid, days, peak>>
streakVars == <<today, streak, play, restore, breaks, charged, outdated, overwrites>>
raffleVars ==
  <<cast, day, wagered, settled, funded, lastVisit, visits, entry, counter, tickets, claim>>
supportVars ==
  <<end, cases, recent, messages, asking, chat, desk, loads, toChat, toDesk, opens, closes, cuts, raced>>
signInVars ==
  <<page, setting, role, gate, profile, form, widget, solved, spent, replayed, posted, posts, beat,
    code, lost, session, next, at>>
hubVars ==
  <<tried, due, got, known, fetches, fetched, view, offered, held, ask, asks, busy, told, wheel, landed, missed, gone>>
deskVars ==
  <<accounts, credits, keys, trail, orders, ordered, drawer, forms, edits, confirmed, crossed>>
riskVars ==
  <<limits, audit, fields, puts, sent, waiting, said, typed, apart>>
queueVars ==
  <<decided, log, acts, acted, rows, rejecting, reason, waits, message>>
platformVars == <<part, vars, presenceVars, linkVars, rewardVars, streakVars, raffleVars, supportVars, signInVars, hubVars, deskVars, riskVars, queueVars>>

-----------------------------------------------------------------------------
\* One reward at a time; the rakeback has a run of its own.
OneKindAtATime ==
  [kinds : {{"wheel"}, {"checkin"}, {"cashback"}}, players : {{"p1"}}, pool : {2}]
  \cup [kinds : {{"promo"}}, players : {Players}, pool : {2}]

\* One player over a midnight, or two on one day.
OneOrTwo ==
  {[players |-> {"p1"}, days |-> 1, wager |-> 1, deposits |-> 2],
   [players |-> Players, days |-> 0, wager |-> 1, deposits |-> 0]}

\* The wheel and the check-in share a view; the rest of the rewards hub is claimed alone.
TogetherOrAlone == {{"wheel", "checkin"}, {"tickets"}, {"promo"}, {"restore"}}

\* As deployed, and on a developer's machine.
Deployed == [site |-> TRUE, secret |-> TRUE, disabled |-> FALSE, dev |-> FALSE]
Deployments ==
  {Deployed, [site |-> FALSE, secret |-> FALSE, disabled |-> FALSE, dev |-> TRUE]}

Online == INSTANCE Presence WITH Sockets <- Calls
Reward == INSTANCE Rewards WITH Mixes <- OneKindAtATime, Requests <- Calls,
                                clock <- tick
Streaks == INSTANCE Streak WITH Plays <- Calls, Restores <- Calls, Window <- RestoreWindow,
                             day <- today, row <- streak
Giveaway == INSTANCE Raffle WITH Casts <- OneOrTwo, Claims <- Calls,
                                 lastIn <- lastVisit
Help == INSTANCE Support WITH tickets <- cases, call <- asking
Entrance == INSTANCE SignIn WITH Settings <- Deployments, Ttl <- 2, MaxRequests <- MaxPosts,
                                 MaxClock <- MaxBeat, call <- posted, requests <- posts,
                                 clock <- beat, redeemed <- spent
Hub == INSTANCE RewardsPage WITH Tries <- TogetherOrAlone, MaxLoads <- MaxReads, paid <- got,
                                 token <- known, loads <- fetches, loaded <- fetched, call <- ask,
                                 claims <- asks, lost <- missed
Desk == INSTANCE AccountDesk WITH Admins <- Calls, Cuts <- {"low", "high"}, FirstCut <- "low",
                                  MaxCalls <- MaxOrders, account <- accounts, calls <- orders,
                                  asked <- ordered
Risk == INSTANCE RiskForm WITH Staff <- Calls, Bets <- {1, 2}, Defaults <- [min |-> 1, max |-> 2],
                               stored <- limits
Queue == INSTANCE PayoutQueue WITH Staff <- Calls, status <- decided, asked <- acted, busy <- waits

ASSUME PlatformAssumption ==
  /\ LimitsAssumption /\ ClientLinkAssumption
  /\ Online!SocketsAssumption /\ Reward!RewardsAssumption /\ Streaks!StreakAssumption
  /\ Giveaway!RaffleAssumption /\ Help!SupportAssumption /\ Entrance!SignInAssumption
  /\ Hub!RewardsPageAssumption /\ Desk!AccountDeskAssumption /\ Risk!RiskFormAssumption
  /\ Queue!PayoutQueueAssumption

PlatformInit ==
  /\ part \in Parts
  /\ Init /\ (part # "accounts" => ~account.exists)
  /\ Online!Init
  /\ LinkInit /\ (part # "link" => stored = NoToken)
  /\ Reward!Init /\ (part # "rewards" => mix.kinds = {"promo"})
  /\ Streaks!Init
  /\ Giveaway!Init /\ (part # "raffle" => cast.days = 0)
  /\ Help!Init /\ (part # "support" => end = "panel")
  /\ Entrance!Init
  /\ (part # "signin" => page = "forgot" /\ setting = Deployed /\ role = "USER")
  /\ Hub!Init /\ (part # "hub" => tried = {"promo"} /\ due["promo"] = 0)
  /\ Desk!Init
  /\ Risk!Init /\ (part # "risk form" => limits = Risk!Unset)
  /\ Queue!Init

PlatformNext ==
  \/ /\ part = "accounts" /\ Next
     /\ UNCHANGED <<part, presenceVars, linkVars, rewardVars, streakVars, raffleVars, supportVars, signInVars, hubVars, deskVars, riskVars, queueVars>>
  \/ /\ part = "presence" /\ Online!Next
     /\ UNCHANGED <<part, vars, linkVars, rewardVars, streakVars, raffleVars, supportVars, signInVars, hubVars, deskVars, riskVars, queueVars>>
  \/ /\ part = "link" /\ LinkNext
     /\ UNCHANGED <<part, vars, presenceVars, rewardVars, streakVars, raffleVars, supportVars, signInVars, hubVars, deskVars, riskVars, queueVars>>
  \/ /\ part = "rewards" /\ Reward!Next
     /\ UNCHANGED <<part, vars, presenceVars, linkVars, streakVars, raffleVars, supportVars, signInVars, hubVars, deskVars, riskVars, queueVars>>
  \/ /\ part = "streak" /\ Streaks!Next
     /\ UNCHANGED <<part, vars, presenceVars, linkVars, rewardVars, raffleVars, supportVars, signInVars, hubVars, deskVars, riskVars, queueVars>>
  \/ /\ part = "raffle" /\ Giveaway!Next
     /\ UNCHANGED <<part, vars, presenceVars, linkVars, rewardVars, streakVars, supportVars, signInVars, hubVars, deskVars, riskVars, queueVars>>
  \/ /\ part = "support" /\ Help!Next
     /\ UNCHANGED <<part, vars, presenceVars, linkVars, rewardVars, streakVars, raffleVars, signInVars, hubVars, deskVars, riskVars, queueVars>>
  \/ /\ part = "signin" /\ Entrance!Next
     /\ UNCHANGED <<part, vars, presenceVars, linkVars, rewardVars, streakVars, raffleVars, supportVars, hubVars, deskVars, riskVars, queueVars>>
  \/ /\ part = "hub" /\ Hub!Next
     /\ UNCHANGED <<part, vars, presenceVars, linkVars, rewardVars, streakVars, raffleVars, supportVars, signInVars, deskVars, riskVars, queueVars>>
  \/ /\ part = "accounts desk" /\ Desk!Next
     /\ UNCHANGED <<part, vars, presenceVars, linkVars, rewardVars, streakVars, raffleVars, supportVars, signInVars, hubVars, riskVars, queueVars>>
  \/ /\ part = "risk form" /\ Risk!Next
     /\ UNCHANGED <<part, vars, presenceVars, linkVars, rewardVars, streakVars, raffleVars, supportVars, signInVars, hubVars, deskVars, queueVars>>
  \/ /\ part = "payout queue" /\ Queue!Next
     /\ UNCHANGED <<part, vars, presenceVars, linkVars, rewardVars, streakVars, raffleVars, supportVars, signInVars, hubVars, deskVars, riskVars>>

PlatformSpec == PlatformInit /\ [][PlatformNext]_platformVars

Symmetry == Permutations(Calls)

-----------------------------------------------------------------------------
\* The type invariants of the modules.
TypesOK ==
  CASE part = "accounts" -> TypeOK
    [] part = "presence" -> Online!TypeOK
    [] part = "link"     -> LinkTypeOK
    [] part = "rewards"  -> Reward!TypeOK
    [] part = "streak"   -> Streaks!TypeOK
    [] part = "raffle"   -> Giveaway!TypeOK
    [] part = "support"  -> Help!TypeOK
    [] part = "signin"   -> Entrance!TypeOK
    [] part = "hub" -> Hub!TypeOK
    [] part = "accounts desk" -> Desk!TypeOK
    [] part = "risk form" -> Risk!TypeOK
    [] part = "payout queue" -> Queue!TypeOK

\* The server's tables agree on who is connected, who may act was confirmed, no one who signs
\* in is sent where they are turned away, and an administrator remains as long as no one who
\* acts loses the role before the change is made (two who demote each other at once are not
\* told apart from that).  What the
\* administrators ask for is done once, and recorded and announced as it was done: a drawer's
\* change of an account, the limits of the bets, the decision on a payout.
SessionsAndConsoleHold ==
  /\ [](part = "presence" => Online!NothingLeftBehind)
  /\ Online!ConfirmedByRow
  /\ Entrance!NoBounce
  /\ [](part = "accounts desk" =>
          /\ Desk!SomeoneIsAdmin /\ Desk!MovedOncePerForm /\ Desk!TrailIsTrue
          /\ Desk!SaidIsDone /\ Desk!CutIsCurrent)
  /\ [](part = "risk form" => Risk!RecordedAsApplied /\ Risk!SavedIsEnforced)
  /\ [](part = "payout queue" => Queue!DecidedOnceForItsReason /\ Queue!QueueSaysWhatWasDecided)

\* What is asked for once is done once, and said as it was done.  A solved challenge is sent
\* once, with the code it was for; a streak that broke is charged for once, and once more only
\* for a play that wrote over a claim; the tickets of the giveaway were earned and are numbered
\* apart; a message of support is on screen once and in its thread; the hub shows what was paid.
DoneOnce ==
  /\ part = "signin" =>
       Entrance!NeverReplayed /\ Entrance!ResendIsWelcome /\ Entrance!CodeHasItsChallenge
  /\ part = "streak" => Streaks!OneChargePerBreak
  /\ part = "raffle" => Giveaway!NumbersAreDisjoint /\ Giveaway!TicketsAreEarned
  /\ part = "support" => Help!ShownOnce /\ Help!NothingBuried /\ Help!PanelIsCurrent
  /\ part = "hub" =>
       /\ Hub!TicketsAreShown /\ Hub!ButtonsComeBack
       /\ Hub!SaidIsPaid /\ Hub!WheelStopsOnPrize
=============================================================================
