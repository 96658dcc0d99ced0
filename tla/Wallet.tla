-------------------------------- MODULE Wallet --------------------------------
(***************************************************************************)
(* The cashier's dialog and the balance in the header: DepositModal.tsx,   *)
(* WithdrawModal.tsx and WalletModal.tsx over lib/api.ts, the answers of   *)
(* routes/payment.routes.ts, and useBalance.ts, which records what the     *)
(* socket says.                                                            *)
(*                                                                         *)
(* The ledger's commits are numbered.  Each pushes the balance it left,    *)
(* when its handler comes to it: frames keep their order on the socket,    *)
(* commits do not keep theirs.  The answer of a request finds the dialog   *)
(* as it is by then: closed, reopened, on its other tab.  What becomes of  *)
(* an invoice or of a hold afterwards is in Deposits and Payouts.          *)
(***************************************************************************)
EXTENDS Integers, Sequences, FiniteSets

CONSTANTS
  Amounts,    \* what is withdrawn, won and lost
  MaxAsks,    \* bound: requests sent
  MaxMoves,   \* bound: commits of bets, wins and credits
  MaxMounts,  \* bound: times a panel is mounted
  MaxLogins   \* bound: sessions

WalletAssumption ==
  Amounts \subseteq Nat \ {0} /\ {MaxAsks, MaxMoves, MaxMounts, MaxLogins} \subseteq Nat

NoBalance == [bal |-> 0 - 1, n |-> 0]

VARIABLES
  ledger,    \* [bal, n]: the wallet, and how many commits made it
  moves,     \* counts the commits of others, for the bound
  unpushed,  \* commits whose frame is still to be sent
  frames,    \* BALANCE frames on the socket
  shown,     \* the balance on screen, NoBalance before the first
  excuse,    \* history: why the newest commit will not be the last frame
  dialog,    \* [open, tab, mount]: a panel is mounted for as long as it is on screen
  panel,     \* its state: [loading, error, invoice, base, credited]
  asks,      \* requests, in the order they were sent
  session,   \* the number of the stored token, 0 for none
  dead,      \* tokens the server does not take any more
  timers     \* redirects pending: [mount, late]

vars == <<ledger, moves, unpushed, frames, shown, excuse, dialog, panel, asks, session, dead, timers>>
money == <<ledger, moves, unpushed, frames, excuse>>
screen == <<dialog, panel, timers>>
login == <<session, dead>>

Fresh ==
  [loading |-> FALSE, error |-> "none", invoice |-> 0, base |-> 0 - 1, credited |-> FALSE]

Init ==
  /\ ledger \in {[bal |-> a, n |-> 1] : a \in Amounts} /\ moves = 0
  /\ unpushed = {ledger} /\ frames = <<>> /\ shown = NoBalance /\ excuse = "none"
  /\ dialog = [open |-> FALSE, tab |-> "deposit", mount |-> 0] /\ panel = Fresh
  /\ asks = <<>> /\ session = 1 /\ dead = {} /\ timers = {}

-----------------------------------------------------------------------------
(* Commits and frames *)

Commit(bal) == [bal |-> bal, n |-> ledger.n + 1]

\* The newest commit that was ever put on the socket.
Sent == IF frames = <<>> THEN shown.n ELSE frames[Len(frames)].n

\* pushBalanceToUser: what is sent is the balance the handler was given, not a new read.
PushFrame(commit) ==
  /\ frames' = Append(frames, commit)
  /\ excuse' = CASE commit.n < Sent     -> "overtaken"
                 [] commit.n = ledger.n -> "none"
                 [] OTHER                -> excuse

\* A bet, a win, a deposit that is credited.
Move ==
  /\ moves < MaxMoves /\ moves' = moves + 1
  /\ \E a \in Amounts : ledger' \in {Commit(ledger.bal + a)} \cup
                                    (IF a <= ledger.bal THEN {Commit(ledger.bal - a)} ELSE {})
  /\ unpushed' = unpushed \cup {ledger'}
  /\ UNCHANGED <<frames, excuse, shown, screen, asks, login>>

Push(commit) ==
  /\ unpushed' = unpushed \ {commit}
  /\ PushFrame(commit)
  /\ UNCHANGED <<ledger, moves, shown, screen, asks, login>>

\* The panel that waits for a payment takes any rise of the balance for it.
Credited(p, balance) ==
  p.credited \/ (p.invoice # 0 /\ p.base >= 0 /\ balance.bal > p.base)

Take ==
  /\ frames # <<>> /\ frames' = Tail(frames)
  /\ shown' = Head(frames)
  /\ panel' = [panel EXCEPT !.credited = Credited(panel, shown')]
  /\ UNCHANGED <<ledger, moves, unpushed, excuse, dialog, timers, asks, login>>

-----------------------------------------------------------------------------
(* The dialog: one panel is mounted at a time, and a new one starts afresh *)

PendingOf(mount) == {t \in timers : t.mount = mount}

Mount(tab) ==
  /\ dialog.mount < MaxMounts
  /\ dialog' = [open |-> TRUE, tab |-> tab, mount |-> dialog.mount + 1]
  /\ panel' = Fresh
  /\ timers' = timers \ PendingOf(dialog.mount)

Open(tab) ==
  /\ ~dialog.open /\ session # 0
  /\ Mount(tab)
  /\ UNCHANGED <<money, shown, asks, login>>

SwitchTab(tab) ==
  /\ dialog.open /\ dialog.tab # tab
  /\ Mount(tab)
  /\ UNCHANGED <<money, shown, asks, login>>

Unmount ==
  /\ dialog' = [dialog EXCEPT !.open = FALSE]
  /\ panel' = Fresh
  /\ timers' = timers \ PendingOf(dialog.mount)

Close ==
  /\ dialog.open
  /\ Unmount
  /\ UNCHANGED <<money, shown, asks, login>>

\* What is on screen decides which buttons there are.
WithdrawForm == dialog.open /\ dialog.tab = "withdraw"
DepositForm == dialog.open /\ dialog.tab = "deposit" /\ panel.invoice = 0
InvoiceView == dialog.open /\ dialog.tab = "deposit" /\ panel.invoice # 0

Showing(a) == dialog.open /\ asks[a].mount = dialog.mount

-----------------------------------------------------------------------------
(* Requests: what the two buttons send, and what the server makes of it *)

Ask(amount) ==
  /\ ~panel.loading /\ Len(asks) < MaxAsks
  /\ asks' = Append(asks, [kind |-> dialog.tab, mount |-> dialog.mount, step |-> "sent", amount |-> amount,
                           base |-> shown.bal, token |-> session, answer |-> "none",
                           hold |-> FALSE, left |-> NoBalance, fault |-> FALSE])

\* What the balance is compared with later is the one on screen at the click.
CreateInvoice ==
  /\ DepositForm /\ Ask(0)
  /\ panel' = [panel EXCEPT !.loading = TRUE, !.error = "none", !.credited = FALSE]
  /\ UNCHANGED <<money, shown, dialog, timers, login>>

\* At most what is on screen, and nothing before a balance is.
Submit(amount) ==
  /\ WithdrawForm /\ shown # NoBalance /\ amount <= shown.bal
  /\ Ask(amount)
  /\ panel' = [panel EXCEPT !.loading = TRUE, !.error = "none"]
  /\ UNCHANGED <<money, shown, dialog, timers, login>>

Answered(a, answer) == asks' = [asks EXCEPT ![a].step = "answered", ![a].answer = answer]
At(a, kind, step) == asks[a].kind = kind /\ asks[a].step = step

\* identityFromRequest: the token ran out, or its password was changed elsewhere.
Unauthorized(a) ==
  /\ asks[a].step = "sent"
  /\ dead' = dead \cup {asks[a].token}
  /\ Answered(a, "unauthorized")
  /\ UNCHANGED <<money, shown, screen, session>>

\* replyForPaymentError: a gateway that rejects the casino's key is answered as unavailable.
ReplyFor(failure) ==
  CASE failure = "insufficient" -> "insufficient"
    [] OTHER                    -> "refused"

\* Why there is no invoice.
Failures == {"frozen", "no wallet", "no key", "wrong key", "provider"}

OpenInvoice(a) ==
  /\ At(a, "deposit", "sent") /\ asks[a].token \notin dead
  /\ \E answer \in {"invoice"} \cup {ReplyFor(f) : f \in Failures} : Answered(a, answer)
  /\ UNCHANGED <<money, shown, screen, login>>

\* createWithdrawal: the hold is taken, or the account is frozen or does not cover it.
Reserve(a) ==
  /\ At(a, "withdraw", "sent") /\ asks[a].token \notin dead
  /\ \/ /\ \E f \in {"frozen"} \cup (IF ledger.bal < asks[a].amount THEN {"insufficient"} ELSE {}) :
             Answered(a, ReplyFor(f))
        /\ UNCHANGED ledger
     \/ /\ ledger.bal >= asks[a].amount
        /\ ledger' = Commit(ledger.bal - asks[a].amount)
        /\ asks' = [asks EXCEPT ![a].step = "reserved", ![a].hold = TRUE, ![a].left = ledger']
  /\ UNCHANGED <<moves, unpushed, frames, excuse, shown, screen, login>>

\* Accepted by a gateway or queued for an operator: the header is told the balance that was
\* left when the hold was taken.
Accepted(a) ==
  /\ At(a, "withdraw", "reserved")
  /\ Answered(a, "submitted")
  /\ PushFrame(asks[a].left) /\ UNCHANGED <<ledger, moves, unpushed>>
  /\ UNCHANGED <<shown, screen, login>>

\* Whether the newest commit has no frame coming.
Silent(n) == IF n = ledger'.n THEN "silent" ELSE excuse

\* The gateway did not say: the hold stays, and the header is not told.  The same is left when
\* the row of the withdrawal cannot be written.
Unclear(a) ==
  /\ At(a, "withdraw", "reserved")
  /\ \E answer \in {"reviewed", "error"} : Answered(a, answer)
  /\ UNCHANGED ledger /\ excuse' = Silent(asks[a].left.n)
  /\ UNCHANGED <<moves, unpushed, frames, shown, screen, login>>

\* The gateway refused: the hold is released, unless the database fails, which is swallowed.
\* Neither is told the header.
Refused(a) ==
  /\ At(a, "withdraw", "reserved")
  /\ \/ /\ ledger' = Commit(ledger.bal + asks[a].amount)
        /\ asks' = [asks EXCEPT ![a].step = "answered", ![a].answer = "refused", ![a].hold = FALSE]
        /\ excuse' = "silent"
     \/ /\ UNCHANGED ledger
        /\ asks' = [asks EXCEPT ![a].step = "answered", ![a].answer = "refused", ![a].fault = TRUE]
        /\ excuse' = Silent(asks[a].left.n)
  /\ UNCHANGED <<moves, unpushed, frames, shown, screen, login>>

\* A request never arrives, or its answer does not.
Lose(a) ==
  /\ asks[a].step \in {"sent", "answered"}
  /\ Answered(a, "lost") /\ asks[a].answer # "lost"
  /\ UNCHANGED <<money, shown, screen, login>>

-----------------------------------------------------------------------------
(* What the panels do with an answer *)

Done(a) == asks' = [asks EXCEPT ![a].step = "done"]

TakeInvoice(a) ==
  /\ At(a, "deposit", "answered") /\ asks[a].answer = "invoice"
  /\ Done(a)
  /\ panel' = IF ~Showing(a) THEN panel
              ELSE LET p == [panel EXCEPT !.loading = FALSE, !.invoice = a, !.base = asks[a].base]
                   IN [p EXCEPT !.credited = Credited(p, shown)]
  /\ UNCHANGED <<money, shown, dialog, timers, login>>

ShowError(a) ==
  /\ asks[a].step = "answered" /\ Done(a)
  /\ panel' = IF Showing(a) THEN [panel EXCEPT !.loading = FALSE, !.error = asks[a].answer] ELSE panel

\* A refused token sets the redirect, whether or not the panel that asked is still there.
TakeDepositError(a) ==
  /\ asks[a].kind = "deposit" /\ asks[a].answer # "invoice"
  /\ ShowError(a)
  /\ timers' = IF asks[a].answer = "unauthorized"
               THEN timers \cup {[mount |-> asks[a].mount, late |-> ~Showing(a)]} ELSE timers
  /\ UNCHANGED <<money, shown, dialog, login>>

TakeWithdrawError(a) ==
  /\ asks[a].kind = "withdraw" /\ asks[a].answer # "submitted"
  /\ ShowError(a)
  /\ UNCHANGED <<money, shown, dialog, timers, login>>

\* The toast, and onClose: it closes the dialog that is open by now.
TakeSubmitted(a) ==
  /\ At(a, "withdraw", "answered") /\ asks[a].answer = "submitted"
  /\ Done(a)
  /\ IF dialog.open THEN Unmount ELSE UNCHANGED screen
  /\ UNCHANGED <<money, shown, login>>

NewDeposit ==
  /\ InvoiceView
  /\ panel' = [panel EXCEPT !.invoice = 0, !.credited = FALSE]
  /\ UNCHANGED <<money, shown, dialog, timers, asks, login>>

-----------------------------------------------------------------------------
(* The session *)

\* signOutToLogin drops whatever token is stored when it fires, and leaves the page.
SignOut ==
  /\ session' = 0
  /\ dialog' = [dialog EXCEPT !.open = FALSE] /\ panel' = Fresh
  /\ UNCHANGED <<money, shown, asks, dead>>

Redirect(t) ==
  /\ timers' = timers \ ({t} \cup PendingOf(dialog.mount))
  /\ SignOut

LogInAgain ==
  /\ DepositForm /\ panel.error = "unauthorized"
  /\ timers' = timers \ PendingOf(dialog.mount)
  /\ SignOut

LogIn ==
  /\ session = 0 /\ Cardinality(dead) < MaxLogins
  /\ session' = Cardinality(dead) + 1
  /\ UNCHANGED <<money, shown, screen, asks, dead>>

Next ==
  \/ Move \/ Take \/ Close \/ CreateInvoice \/ NewDeposit \/ LogInAgain \/ LogIn
  \/ \E commit \in unpushed : Push(commit)
  \/ \E tab \in {"deposit", "withdraw"} : Open(tab) \/ SwitchTab(tab)
  \/ \E amount \in Amounts : Submit(amount)
  \/ \E a \in DOMAIN asks :
       \/ Unauthorized(a) \/ OpenInvoice(a) \/ Reserve(a) \/ Accepted(a) \/ Unclear(a) \/ Refused(a)
       \/ Lose(a) \/ TakeInvoice(a) \/ TakeDepositError(a) \/ TakeWithdrawError(a)
       \/ TakeSubmitted(a)
  \/ \E t \in timers : Redirect(t)

Spec == Init /\ [][Next]_vars

-----------------------------------------------------------------------------
Answers ==
  {"none", "unauthorized", "invoice", "refused", "insufficient", "submitted", "reviewed", "error", "lost"}

\* The variables have their types.
TypeOK ==
  /\ ledger \in [bal : Nat, n : Nat \ {0}] /\ moves \in 0..MaxMoves
  /\ unpushed \subseteq [bal : Nat, n : 1..ledger.n]
  /\ frames \in Seq([bal : Nat, n : 1..ledger.n])
  /\ shown \in [bal : Nat, n : 1..ledger.n] \cup {NoBalance}
  /\ excuse \in {"none", "overtaken", "silent"}
  /\ dialog \in [open : BOOLEAN, tab : {"deposit", "withdraw"}, mount : 0..MaxMounts]
  /\ panel \in [loading : BOOLEAN, error : Answers, invoice : 0..MaxAsks,
                base : Int, credited : BOOLEAN]
  /\ \A a \in DOMAIN asks :
       /\ asks[a].step \in {"sent", "reserved", "answered", "done"} /\ asks[a].answer \in Answers
       /\ asks[a].hold => asks[a].kind = "withdraw"
  /\ session \in 0..MaxLogins /\ dead \subseteq 1..MaxLogins
  /\ timers \subseteq [mount : 1..MaxMounts, late : BOOLEAN]

\* A previous session's address is never shown against a new one (DepositModal.tsx): the
\* invoice on screen was asked for by the panel that shows it.
InvoiceIsOfThisPanel ==
  panel.invoice # 0 => dialog.open /\ dialog.tab = "deposit" /\ Showing(panel.invoice)

\* What the player is told of a withdrawal is so: submitted, or stays reserved, and the hold
\* is there; refused, and it is not, unless releasing it failed.
ToldTheTruth ==
  \A a \in DOMAIN asks :
    (asks[a].kind = "withdraw" /\ asks[a].step = "done") =>
      CASE asks[a].answer \in {"submitted", "reviewed"}        -> asks[a].hold
        [] asks[a].answer \in {"unauthorized", "insufficient"} -> ~asks[a].hold
        [] asks[a].answer = "refused"                          -> asks[a].hold => asks[a].fault
        [] OTHER                                               -> TRUE

\* Once everything has been sent and taken, the header shows what the wallet holds, except
\* when a frame was overtaken by an older balance, or the last commit pushes none.
ScreenKeepsUp ==
  (/\ unpushed = {} /\ frames = <<>> /\ excuse = "none"
   /\ \A a \in DOMAIN asks : asks[a].step # "reserved")
  => shown = ledger

\* Only a dead session signs the player out: a payment gateway rejecting our key must never
\* surface as the player being forbidden (payment.routes.ts).  And a pending redirect does not
\* outlive its dialog (DepositModal.tsx), unless the answer that set it came after the close.
NoRedirectBehind ==
  /\ \A a \in DOMAIN asks : asks[a].answer = "unauthorized" => asks[a].token \in dead
  /\ \A t \in timers : t.late \/ (dialog.open /\ t.mount = dialog.mount)
=============================================================================
