------------------------------ MODULE RewardsPage ------------------------------
(***************************************************************************)
(* The rewards hub, app/(dashboard)/freemoney/page.tsx, and the dialog     *)
(* that offers a broken streak back, RestoreStreakModal.tsx: five things   *)
(* to claim, each with a button, a request and a message, over three       *)
(* views that are loaded apart and again after some of the claims.         *)
(*                                                                         *)
(* What a claim is worth and that it is paid once is in Rewards, Streak    *)
(* and Raffle: here the server owes and pays.  Answers come in any order,  *)
(* or not at all.  The wheel turns to the segment the server drew, and     *)
(* says so when it has stopped.                                            *)
(***************************************************************************)
EXTENDS Integers, FiniteSets, FiniteSetsExt

CONSTANTS
  Tries,      \* which offers are claimed together
  Slices,     \* segments of the wheel
  MaxDue,     \* bound: tickets owed at once
  MaxLoads,   \* bound: reads of each view
  MaxClaims   \* bound: claims sent

Offers == {"wheel", "checkin", "tickets", "promo", "restore"}

RewardsPageAssumption ==
  /\ Tries \subseteq SUBSET Offers
  /\ Slices \in Nat \ {0} /\ Slices % 2 = 0
  /\ {MaxDue, MaxLoads, MaxClaims} \subseteq Nat

Views == {"overview", "raffle", "streak"}

VARIABLES
  tried,   \* the offers of this behaviour
  due,     \* due[o]: what the server would pay now
  paid,    \* paid[o]: what it has paid
  token,   \* the page knows the player is signed in
  loads,   \* reads under way: [n, view, step, due, held]
  loaded,  \* loaded[v]: how many reads of it were started
  view,    \* view[v]: the number of the read on screen, 0 for none
  offered, \* what the views say is owed: the check-in, tickets, a restore
  held,    \* tickets on screen
  call,    \* call[o]: [step, answer, n, load] of the claim under way, load the read it waits for
  claims,  \* counts claims, for the bound
  busy,    \* busy[o]: the button is waiting
  told,    \* told[o]: what the page said was paid
  wheel,   \* [to, turning, cooling]: where it turns to, in half slices
  landed,  \* [drawn, under]: what the server drew, what the pointer stopped on
  lost,    \* lost[o]: paid, with an answer that never came
  gone     \* the session was over: sent to sign in

vars == <<tried, due, paid, token, loads, loaded, view, offered, held, call, claims, busy, told, wheel, landed,
          lost, gone>>
server == <<tried, due, paid>>
reads == <<loads, loaded, view, offered, held>>
spinner == <<wheel, landed>>

Idle == [step |-> "idle", answer |-> "none", n |-> 0, load |-> 0]
Unread(n, v) == [n |-> n, view |-> v, step |-> "asked", due |-> 0, held |-> 0]

\* What a view says is owed, and the views that bear on what is tried.
OfferOf(v) == CASE v = "overview" -> "checkin" [] v = "raffle" -> "tickets" [] v = "streak" -> "restore"
Bears(v) == v = "overview" \/ OfferOf(v) \in tried

Init ==
  /\ tried \in Tries
  /\ due \in {d \in [Offers -> 0..1] : \A o \in Offers \ tried : d[o] = 0} /\ paid = [o \in Offers |-> 0]
  /\ token = FALSE
  /\ loads = {Unread(1, v) : v \in {"raffle", "streak"} \cap {w \in Views : Bears(w)}}
  /\ loaded = [v \in Views |-> IF \E l \in loads : l.view = v THEN 1 ELSE 0]
  /\ view = [v \in Views |-> 0] /\ offered = [o \in Offers |-> 0] /\ held = 0
  /\ call = [o \in Offers |-> Idle] /\ claims = 0 /\ busy = [o \in Offers |-> FALSE]
  /\ told = [o \in Offers |-> 0] /\ lost = [o \in Offers |-> 0]
  /\ wheel = [to |-> 0, turning |-> FALSE, cooling |-> FALSE] /\ landed = [drawn |-> 0, under |-> 0]
  /\ gone = FALSE

-----------------------------------------------------------------------------
(* Views *)

ReloadOf(o) == IF o = "checkin" THEN "overview" ELSE "raffle"

Ask(views) ==
  /\ \A v \in views : loaded[v] < MaxLoads
  /\ loaded' = [v \in Views |-> IF v \in views THEN loaded[v] + 1 ELSE loaded[v]]
  /\ loads' = loads \cup {Unread(loaded[v] + 1, v) : v \in views}

\* The stored token is known after the first render: load and loadRaffle run again.
TokenArrives ==
  /\ ~gone /\ ~token /\ token' = TRUE
  /\ Ask({v \in {"overview", "raffle"} : Bears(v)})
  /\ UNCHANGED <<server, view, offered, held, call, claims, busy, told, spinner, lost, gone>>

\* What each view is told: today's check-in, the tickets earned and held, a broken streak.
CheckInStatus == [due |-> due["checkin"], held |-> 0]
ActiveRaffle == [due |-> due["tickets"], held |-> paid["tickets"]]
StreakState == [due |-> due["restore"], held |-> 0]

ReadOf(v) ==
  CASE v = "overview" -> CheckInStatus [] v = "raffle" -> ActiveRaffle [] v = "streak" -> StreakState

\* The server reads, or the read fails.
Serve(l) ==
  /\ l.step = "asked"
  /\ \E step \in {"read", "failed"} :
       loads' = (loads \ {l}) \cup {[l EXCEPT !.step = step, !.due = ReadOf(l.view).due, !.held = ReadOf(l.view).held]}
  /\ UNCHANGED <<server, token, loaded, view, offered, held, call, claims, busy, told, spinner, lost, gone>>

\* What a claim that reloads was waiting for: its button comes back.
Waiting(l) == {o \in {"checkin", "tickets"} :
                 ReloadOf(o) = l.view /\ call[o].step = "reloading" /\ call[o].load = l.n}
Finish(l) ==
  /\ call' = [o \in Offers |-> IF o \in Waiting(l) THEN Idle ELSE call[o]]
  /\ busy' = [o \in Offers |-> busy[o] /\ o \notin Waiting(l)]

Arrives(l) ==
  /\ ~gone /\ l.step \in {"read", "failed"}
  /\ loads' = loads \ {l}
  /\ Finish(l)
  /\ UNCHANGED <<server, token, loaded, claims, told, spinner, lost, gone>>

\* load: a failure leaves what is on screen.
TakeOverview(l) ==
  /\ l.view = "overview" /\ Arrives(l)
  /\ IF l.step = "read"
       THEN view' = [view EXCEPT !["overview"] = l.n] /\ offered' = [offered EXCEPT !["checkin"] = l.due]
       ELSE UNCHANGED <<view, offered>>
  /\ UNCHANGED held

\* loadRaffle: a failure hides the section.
TakeRaffle(l) ==
  /\ l.view = "raffle" /\ Arrives(l)
  /\ view' = [view EXCEPT !["raffle"] = IF l.step = "read" THEN l.n ELSE 0]
  /\ offered' = [offered EXCEPT !["tickets"] = IF l.step = "read" THEN l.due ELSE @]
  /\ held' = IF l.step = "read" THEN l.held ELSE held

\* The dialog opens by itself, when there is a streak to restore.
TakeStreak(l) ==
  /\ l.view = "streak" /\ Arrives(l)
  /\ view' = [view EXCEPT !["streak"] = l.n]
  /\ offered' = [offered EXCEPT !["restore"] = IF l.step = "read" THEN l.due ELSE 0]
  /\ UNCHANGED held

\* Escape and a click beside the dialog close it, also while it waits.
Dismiss ==
  /\ ~gone /\ offered["restore"] = 1
  /\ offered' = [offered EXCEPT !["restore"] = 0]
  /\ UNCHANGED <<server, token, loads, loaded, view, held, call, claims, busy, told, spinner, lost, gone>>

-----------------------------------------------------------------------------
(* Buttons *)

CanSpin == token /\ view["overview"] # 0 /\ ~wheel.cooling
CanCheckIn == token /\ view["overview"] # 0 /\ offered["checkin"] = 1
CanClaimTickets == token /\ view["raffle"] # 0
CanRedeem == token
CanRestore == offered["restore"] = 1

Offered(o) ==
  CASE o = "wheel"   -> CanSpin
    [] o = "checkin" -> CanCheckIn
    [] o = "tickets" -> CanClaimTickets
    [] o = "promo"   -> CanRedeem
    [] o = "restore" -> CanRestore

Claim(o) ==
  /\ ~gone /\ o \in tried /\ Offered(o) /\ ~busy[o] /\ claims < MaxClaims
  /\ claims' = claims + 1
  /\ busy' = [busy EXCEPT ![o] = TRUE]
  /\ call' = [call EXCEPT ![o] = [Idle EXCEPT !.step = "asked"]]
  /\ UNCHANGED <<server, token, reads, told, spinner, lost, gone>>

\* The server pays what it owes by now; the wheel also draws.  It may refuse for reasons of
\* its own, and not know the session any more.
Pay(o) ==
  /\ call[o].step = "asked" /\ due[o] > 0
  /\ UNCHANGED tried /\ due' = [due EXCEPT ![o] = 0] /\ paid' = [paid EXCEPT ![o] = @ + due[o]]
  /\ \E n \in (IF o = "wheel" THEN 0..(Slices - 1) ELSE {due[o]}) :
       call' = [call EXCEPT ![o].step = "answered", ![o].answer = "paid", ![o].n = n]
  /\ UNCHANGED <<token, reads, claims, busy, told, spinner, lost, gone>>

Refuse(o) ==
  /\ call[o].step = "asked"
  /\ \E answer \in {"refused", "unauthorized"} :
       call' = [call EXCEPT ![o].step = "answered", ![o].answer = answer]
  /\ UNCHANGED <<server, token, reads, claims, busy, told, spinner, lost, gone>>

Worth(o) == IF o = "wheel" THEN 1 ELSE call[o].n
Lose(o) ==
  /\ call[o].step \in {"asked", "answered"} /\ call[o].answer # "lost"
  /\ call' = [call EXCEPT ![o].step = "answered", ![o].answer = "lost"]
  /\ lost' = [lost EXCEPT ![o] = @ + (IF call[o].answer = "paid" THEN Worth(o) ELSE 0)]
  /\ UNCHANGED <<server, token, reads, claims, busy, told, spinner, gone>>

-----------------------------------------------------------------------------
(* What the page does with an answer *)

Has(o, answers) == ~gone /\ call[o].step = "answered" /\ call[o].answer \in answers
Free(o) == call' = [call EXCEPT ![o] = Idle] /\ busy' = [busy EXCEPT ![o] = FALSE]
Say(o) == told' = [told EXCEPT ![o] = @ + Worth(o)]

Circle == 2 * Slices
Pointer == 0 - Slices \div 2       \* straight up, a quarter of the circle before the first slice

\* Slice i covers [2i, 2i + 2) of the wheel, wherever the wheel is.
UnderPointer(at) == ((Pointer - at) % Circle) \div 2

\* The middle of the slice, brought under the pointer; whole turns do not count.
Target(i) == (Pointer - (2 * i + 1)) % Circle

Spun ==
  /\ Has("wheel", {"paid"})
  /\ call' = [call EXCEPT !["wheel"].step = "landing"]
  /\ wheel' = [wheel EXCEPT !.to = Target(call["wheel"].n), !.turning = TRUE, !.cooling = TRUE]
  /\ UNCHANGED <<server, token, reads, claims, busy, told, landed, lost, gone>>

\* The timer of the message and the end of the turn.
Land ==
  /\ ~gone /\ wheel.turning
  /\ wheel' = [wheel EXCEPT !.turning = FALSE]
  /\ landed' = [drawn |-> call["wheel"].n, under |-> UnderPointer(wheel.to)]
  /\ Say("wheel") /\ Free("wheel")
  /\ UNCHANGED <<server, token, reads, claims, lost, gone>>

\* Not ready: the overview is loaded again, and not waited for.
NotSpun ==
  /\ Has("wheel", {"refused", "lost"})
  /\ IF call["wheel"].answer = "refused" THEN Ask({"overview"}) ELSE UNCHANGED <<loads, loaded>>
  /\ Free("wheel")
  /\ UNCHANGED <<server, token, view, offered, held, claims, told, spinner, lost, gone>>

\* A check-in or tickets: said at once, and the button waits for the view.
Claimed(o) ==
  /\ o \in {"checkin", "tickets"} /\ Has(o, {"paid"})
  /\ Say(o)
  /\ Ask({ReloadOf(o)})
  /\ call' = [call EXCEPT ![o] = [Idle EXCEPT !.step = "reloading", !.load = loaded'[ReloadOf(o)]]]
  /\ UNCHANGED <<server, token, view, offered, held, claims, busy, spinner, lost, gone>>

Redeemed ==
  /\ Has("promo", {"paid"})
  /\ Say("promo") /\ Free("promo")
  /\ UNCHANGED <<server, token, reads, claims, spinner, lost, gone>>

Restored ==
  /\ Has("restore", {"paid"})
  /\ Say("restore") /\ Free("restore")
  /\ offered' = [offered EXCEPT !["restore"] = 0]
  /\ UNCHANGED <<server, token, loads, loaded, view, held, claims, spinner, lost, gone>>

\* The dialog keeps its own words for every failure, the page asks about the session first.
NotClaimed(o) ==
  /\ o # "wheel" /\ Has(o, {"refused", "lost"} \cup (IF o = "restore" THEN {"unauthorized"} ELSE {}))
  /\ Free(o)
  /\ UNCHANGED <<server, token, reads, claims, told, spinner, lost, gone>>

\* consumedAsSessionExpiry: the page is left as it is, on its way to the login page.
SessionOver(o) ==
  /\ o # "restore" /\ Has(o, {"unauthorized"})
  /\ gone' = TRUE
  /\ UNCHANGED <<server, token, reads, call, claims, busy, told, spinner, lost>>

-----------------------------------------------------------------------------
\* Play earns tickets.
Accrue ==
  /\ "tickets" \in tried /\ due["tickets"] < MaxDue
  /\ due' = [due EXCEPT !["tickets"] = @ + 1]
  /\ UNCHANGED <<tried, paid, token, reads, call, claims, busy, told, spinner, lost, gone>>

\* A new day owes a turn of the wheel and a check-in, and ends the countdown.
Daily == {"wheel", "checkin"} \cap tried
NewDay ==
  /\ ~gone /\ call["wheel"] = Idle
  /\ \E o \in Daily : due[o] = 0
  /\ due' = [o \in Offers |-> IF o \in Daily THEN 1 ELSE due[o]]
  /\ wheel' = [wheel EXCEPT !.cooling = FALSE]
  /\ UNCHANGED <<tried, paid, token, reads, call, claims, busy, told, landed, lost, gone>>

Next ==
  \/ TokenArrives \/ Dismiss \/ Spun \/ Land \/ NotSpun \/ Redeemed \/ Restored \/ Accrue \/ NewDay
  \/ \E l \in loads : Serve(l) \/ TakeOverview(l) \/ TakeRaffle(l) \/ TakeStreak(l)
  \/ \E o \in Offers :
       Claim(o) \/ Pay(o) \/ Refuse(o) \/ Lose(o) \/ Claimed(o) \/ NotClaimed(o) \/ SessionOver(o)

Spec == Init /\ [][Next]_vars

-----------------------------------------------------------------------------
\* The variables have their types.
TypeOK ==
  /\ tried \in Tries /\ due \in [Offers -> 0..MaxDue] /\ paid \in [Offers -> Nat] /\ told \in [Offers -> Nat]
  /\ token \in BOOLEAN /\ gone \in BOOLEAN /\ busy \in [Offers -> BOOLEAN]
  /\ loaded \in [Views -> 0..MaxLoads] /\ view \in [Views -> 0..MaxLoads]
  /\ \A l \in loads : l.view \in Views /\ l.n \in 1..loaded[l.view]
  /\ \A o \in Offers : call[o].step \in {"idle", "asked", "answered", "reloading", "landing"}
  /\ wheel.to \in 0..(Circle - 1)

\* The page says of every claim that it was paid once, if its answer came: what was said is
\* what was paid, less what was lost or has not been heard of.
SaidIsPaid ==
  \A o \in Offers :
    /\ told[o] <= paid[o]
    /\ call[o].step \in {"idle", "reloading"} => told[o] + lost[o] = paid[o]

\* When nothing is under way no button is left waiting.
ButtonsComeBack ==
  (~gone /\ loads = {} /\ \A o \in Offers : call[o] = Idle) => \A o \in Offers : ~busy[o]

\* A page that took the newest read shows every ticket it has told of.
TicketsAreShown ==
  (call["tickets"] = Idle /\ view["raffle"] = loaded["raffle"]) => held >= told["tickets"]

\* The wheel stops on the segment the server returned (freemoney/page.tsx).
WheelStopsOnPrize == landed.drawn = landed.under
=============================================================================
