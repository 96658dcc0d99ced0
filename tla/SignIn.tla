-------------------------------- MODULE SignIn --------------------------------
(***************************************************************************)
(* Signing in, as the browser sees it: the pages for login, registration   *)
(* and a forgotten password, the dialogs over the tables (AuthModal.tsx,   *)
(* AccountModal.tsx, where a signed-in player changes the password), their *)
(* requests (authClient.ts), the human check at both ends            *)
(* (Turnstile.tsx, utils/turnstile.ts), the gate in front of the site      *)
(* (CloudflareGuard.tsx) and the one in front of /admin (middleware.ts).   *)
(* The server is what it answers: Accounts has its statements.             *)
(***************************************************************************)
EXTENDS Integers, FiniteSets

CONSTANTS
  Pages,        \* of "login", "register", "forgot", "modal", "account"
  Settings,     \* records [site, secret, disabled, dev]: keys of the human check, environment
  Cooldown,     \* ticks until another code may be asked for
  Ttl,          \* ticks a code lives
  MaxRequests,  \* bound: requests sent
  MaxSolved,    \* bound: challenges solved
  MaxClock      \* bound: ticks

SignInAssumption ==
  /\ Pages \subseteq {"login", "register", "forgot", "modal", "account"}
  /\ Settings \subseteq [site : BOOLEAN, secret : BOOLEAN, disabled : BOOLEAN, dev : BOOLEAN]
  /\ {Cooldown, Ttl, MaxRequests, MaxSolved, MaxClock} \subseteq Nat

VARIABLES
  page, setting, role,  \* which page, how it is deployed, whose account
  gate,      \* the site's gate: "unread", "up", "cleared"
  profile,   \* the account dialog has read whose account it is
  form,      \* [view, typed, challenge, cooldown, busy, open] of the page
  widget,    \* the Turnstile token the page holds
  solved,    \* how many challenges were solved; a token is its number
  redeemed,  \* tokens Cloudflare has been asked about
  replayed,  \* history: one was sent a second time
  call,      \* the request under way: [step, kind, view, token, code, answer]
  requests, clock,
  code,      \* the newest code of the address: [number, purpose, live, sent]
  lost,      \* history: an answer never reached the page
  session,   \* [stored, cookie]: the role each says, "none" or "dead"
  next,      \* ?next= of the login page, or "none"
  at         \* where the browser is: "page", "tables", "admin" or why it was sent back

vars == <<page, setting, role, gate, profile, form, widget, solved, redeemed, replayed, call, requests, clock,
          code, lost, session, next, at>>
fixed == <<page, setting, role>>

NoProof == 0
Wrong == 0 - 1
Nothing == 0
NoCall == [step |-> "none", kind |-> "none", view |-> "none", token |-> NoProof, code |-> Nothing, answer |-> "none"]
Dialog == page \in {"modal", "account"}
FirstView == CASE page = "modal" -> "signin" [] page = "account" -> "overview" [] OTHER -> "form"
Blank(view, open) ==
  [view |-> view, typed |-> Nothing, challenge |-> "none", cooldown |-> 0, busy |-> FALSE, open |-> open]

Init ==
  /\ page \in Pages /\ setting \in Settings /\ role \in {"USER", "ADMIN"}
  /\ gate = "unread"
  /\ form = Blank(FirstView, ~Dialog) /\ profile = FALSE
  /\ widget = NoProof /\ solved = 0 /\ redeemed = {} /\ replayed = FALSE
  /\ call = NoCall /\ requests = 0 /\ clock = 0
  /\ code = [number |-> 0, purpose |-> "none", live |-> FALSE, sent |-> 0 - Cooldown] /\ lost = FALSE
  /\ session = [end \in {"stored", "cookie"} |-> IF page = "account" THEN role ELSE "none"]
  /\ next \in (IF page = "login" THEN {"none", "admin", "tables"} ELSE {"none"})
  /\ at = "page"

-----------------------------------------------------------------------------
(* The gate: once per browser session, cleared by a solved challenge, or by a timer where
   there is nothing to solve.  Nothing can be done behind it. *)

ReadGate ==
  /\ gate = "unread" /\ gate' \in {"up", "cleared"}
  /\ UNCHANGED <<fixed, profile, form, widget, solved, redeemed, replayed, call, requests, clock, code, lost, session, next, at>>

ClearGate ==
  /\ gate = "up" /\ gate' = "cleared"
  /\ IF setting.site THEN solved < MaxSolved /\ solved' = solved + 1 ELSE UNCHANGED solved
  /\ UNCHANGED <<fixed, profile, form, widget, redeemed, replayed, call, requests, clock, code, lost, session, next, at>>

Usable == gate = "cleared" /\ at = "page" /\ form.open

-----------------------------------------------------------------------------
(* The human check *)

\* The dialog mounts no widget; the pages do, one for each step.
Solve ==
  /\ Usable /\ setting.site /\ page # "modal" /\ form.view \notin {"done", "overview"}
  /\ widget = NoProof /\ solved < MaxSolved
  /\ solved' = solved + 1 /\ widget' = solved + 1
  /\ UNCHANGED <<fixed, gate, profile, form, redeemed, replayed, call, requests, clock, code, lost, session, next, at>>

\* A token expires, or the widget meets an error: the form forgets it.
Expire ==
  /\ widget # NoProof /\ widget' = NoProof
  /\ UNCHANGED <<fixed, gate, profile, form, solved, redeemed, replayed, call, requests, clock, code, lost, session, next, at>>

\* What is left of the token when the request it was sent with has been answered.
Spent(token) == NoProof

\* The button of a form that needs the check.
HumanReady == setting.site => widget # NoProof

\* bypassReason and what follows: the check passes, is skipped, or refuses.
Skipped(token) ==
  \/ setting.disabled
  \/ setting.dev /\ (~setting.secret \/ token = NoProof)
AskedOf(token) == ~Skipped(token) /\ setting.secret /\ token # NoProof
Human(token) == Skipped(token) \/ (AskedOf(token) /\ token \notin redeemed)

-----------------------------------------------------------------------------
(* What each page sends *)

LoginAsks == page = "login" /\ form.view = "form" /\ HumanReady
RegisterAsks == page = "register" /\ form.view = "form" /\ HumanReady
ForgotAsks == page = "forgot" /\ form.view = "form" /\ form.cooldown = 0 /\ HumanReady
ModalSignsIn == page = "modal" /\ form.view = "signin"
ModalSendsReset == page = "modal" /\ form.view = "forgot"
AccountSends == page = "account" /\ form.view = "password" /\ form.cooldown = 0 /\ HumanReady

Send(kind, token, typed) ==
  /\ requests < MaxRequests /\ requests' = requests + 1
  /\ call' = [step |-> "asked", kind |-> kind, view |-> form.view, token |-> token, code |-> typed, answer |-> "none"]

\* Step one: the password, the details of a new account, or an address; and the resend.
Submit(kind) ==
  /\ Usable /\ ~form.busy /\ call = NoCall
  /\ \/ kind = "start" /\ (LoginAsks \/ RegisterAsks \/ ForgotAsks \/ ModalSignsIn \/ ModalSendsReset)
     \/ kind = (IF form.challenge = "none" THEN "start" ELSE "resend") /\ AccountSends
     \/ kind = "resend" /\ ~Dialog /\ form.view = "code" /\ form.cooldown = 0 /\ HumanReady
  /\ Send(kind, widget, Nothing)
  /\ form' = [form EXCEPT !.busy = TRUE]
  /\ UNCHANGED <<fixed, gate, profile, widget, solved, redeemed, replayed, clock, code, lost, session, next, at>>

\* The views that take a code, and whether the sixth digit sends it: a new password has to be
\* chosen first.
LoginCode == page = "login" /\ form.view = "code"
RegisterCode == page = "register" /\ form.view = "code"
ForgotCode == page = "forgot" /\ form.view = "code"
ModalCode == page = "modal" /\ form.view = "code"
ModalReset == page = "modal" /\ form.view = "reset"
Completes == LoginCode \/ RegisterCode \/ ModalCode
AccountReset == page = "account" /\ form.view = "password"
Resets == ForgotCode \/ ModalReset \/ AccountReset

TypeCode(typed) ==
  /\ Usable /\ ~form.busy /\ call = NoCall /\ form.challenge # "none" /\ form.typed # typed
  /\ Completes \/ Resets
  /\ IF Completes
     THEN Send("confirm", NoProof, typed) /\ form' = [form EXCEPT !.typed = typed, !.busy = TRUE]
     ELSE form' = [form EXCEPT !.typed = typed] /\ UNCHANGED <<call, requests>>
  /\ UNCHANGED <<fixed, gate, profile, widget, solved, redeemed, replayed, clock, code, lost, session, next, at>>

\* The button under the boxes, or the form of a new password.
SubmitCode ==
  /\ Usable /\ ~form.busy /\ call = NoCall /\ form.challenge # "none" /\ form.typed # Nothing
  /\ Completes \/ Resets
  /\ Send(IF Resets THEN "reset" ELSE "confirm", NoProof, form.typed)
  /\ form' = [form EXCEPT !.busy = TRUE]
  /\ UNCHANGED <<fixed, gate, profile, widget, solved, redeemed, replayed, clock, code, lost, session, next, at>>

\* Back to step one, which a page forbids while it waits and the dialogs do not.
Back ==
  /\ Usable /\ form.view \in {"code", "forgot", "password"}
  /\ ~Dialog => ~form.busy
  /\ form' = IF page = "modal"
             THEN [form EXCEPT !.view = "signin", !.challenge = IF form.view = "code" THEN "none" ELSE @]
             ELSE [Blank(FirstView, TRUE) EXCEPT !.busy = form.busy]
  /\ widget' = IF page = "modal" THEN widget ELSE NoProof
  /\ UNCHANGED <<fixed, gate, profile, solved, redeemed, replayed, call, requests, clock, code, lost, session, next, at>>

ForgotPassword ==
  /\ Usable /\ page = "modal" /\ form.view = "signin"
  /\ form' = [form EXCEPT !.view = "forgot"]
  /\ UNCHANGED <<fixed, gate, profile, widget, solved, redeemed, replayed, call, requests, clock, code, lost, session, next, at>>

\* The account is read when its dialog opens; the password is changed from there.
OpenDialog ==
  /\ Dialog /\ gate = "cleared" /\ at = "page" /\ ~form.open
  /\ form' = [form EXCEPT !.open = TRUE]
  /\ UNCHANGED <<fixed, gate, profile, widget, solved, redeemed, replayed, call, requests, clock, code, lost, session, next, at>>

ReadProfile ==
  /\ page = "account" /\ Usable /\ ~profile /\ session.stored = role
  /\ profile' = TRUE
  /\ UNCHANGED <<fixed, gate, form, widget, solved, redeemed, replayed, call, requests, clock, code, lost, session, next, at>>

ChangePassword ==
  /\ page = "account" /\ Usable /\ form.view = "overview" /\ profile
  /\ form' = [form EXCEPT !.view = "password"]
  /\ UNCHANGED <<fixed, gate, profile, widget, solved, redeemed, replayed, call, requests, clock, code, lost, session, next, at>>

\* Everything of a dialog is reset when it closes, but that a request is under way.
CloseDialog ==
  /\ Dialog /\ Usable
  /\ form' = [Blank(FirstView, FALSE) EXCEPT !.busy = form.busy]
  /\ widget' = NoProof
  /\ UNCHANGED <<fixed, gate, profile, solved, redeemed, replayed, call, requests, clock, code, lost, session, next, at>>

-----------------------------------------------------------------------------
(* What the server answers *)

Cooling == clock - code.sent < Cooldown
Bypassed == role = "ADMIN"
Right(typed, purpose) ==
  typed = code.number /\ purpose = code.purpose /\ code.live /\ clock - code.sent < Ttl

\* A request of the forgotten-password form asks for a code of another kind.
Purpose(kind, view) ==
  IF kind = "reset" \/ page \in {"forgot", "account"} \/ view = "forgot" THEN "reset" ELSE "enter"

Answer(answer) == call' = [call EXCEPT !.step = "answered", !.answer = answer]

\* Throttled, not human, or the password, the address or the details are refused.
Refuse ==
  /\ call.step = "asked" /\ Answer("refused")
  /\ redeemed' = IF AskedOf(call.token) THEN redeemed \cup {call.token} ELSE redeemed
  /\ replayed' = (replayed \/ (AskedOf(call.token) /\ call.token \in redeemed))
  /\ UNCHANGED <<fixed, gate, profile, form, widget, solved, requests, clock, code, lost, session, next, at>>

\* A request for a code that is taken up: a token for an account that needs no code, the
\* cooldown, a mail that is not accepted, or a code.
TakeUp ==
  /\ call.step = "asked" /\ call.kind \in {"start", "resend"} /\ Human(call.token)
  /\ redeemed' = IF AskedOf(call.token) THEN redeemed \cup {call.token} ELSE redeemed
  /\ IF Bypassed /\ page \in {"login", "modal"} /\ call.view # "forgot"
     THEN Answer("session") /\ UNCHANGED code
     ELSE IF Cooling THEN Answer("cooling") /\ UNCHANGED code
     ELSE \/ Answer("refused") /\ code' = [code EXCEPT !.live = FALSE]
          \/ /\ Answer("challenge")
             /\ code' = [number |-> code.number + 1, purpose |-> Purpose(call.kind, call.view),
                         live |-> TRUE, sent |-> clock]
  /\ UNCHANGED <<fixed, gate, profile, form, widget, solved, replayed, requests, clock, lost, session, next, at>>

Dead(ends) == [end \in DOMAIN ends |-> IF ends[end] = "none" THEN "none" ELSE "dead"]

\* A code works once, for a session or for a new password, which ends every session there is.
TakeCode ==
  /\ call.step = "asked" /\ call.kind \in {"confirm", "reset"}
  /\ Right(call.code, Purpose(call.kind, call.view))
  /\ code' = [code EXCEPT !.live = FALSE]
  /\ IF call.kind = "reset" THEN Answer("reset") /\ session' = Dead(session)
     ELSE Answer("session") /\ UNCHANGED session
  /\ UNCHANGED <<fixed, gate, profile, form, widget, solved, redeemed, replayed, requests, clock, lost, next, at>>

\* The server is not reached, or its answer is not.
Lose ==
  /\ call.step \in {"asked", "answered"} /\ call.answer # "unreached" /\ Answer("unreached")
  /\ lost' = TRUE
  /\ UNCHANGED <<fixed, gate, profile, form, widget, solved, redeemed, replayed, requests, clock, code, session, next, at>>

-----------------------------------------------------------------------------
(* What the page does with the answer *)

Answered(answers) == call.step = "answered" /\ call.answer \in answers /\ call' = NoCall

\* resendAfterSeconds, from when the answer arrives; the dialog has no resend.
Countdown == IF page = "modal" THEN 0 ELSE Cooldown

\* A code is on its way: the second step, whatever the dialog shows by then.
Challenged ==
  /\ Answered({"challenge"})
  /\ form' = [form EXCEPT
       !.view = CASE page = "account" -> @ [] call.view = "forgot" -> "reset" [] OTHER -> "code",
       !.challenge = Purpose(call.kind, call.view), !.typed = Nothing, !.busy = FALSE,
       !.cooldown = Countdown]
  /\ widget' = Spent(widget)
  /\ UNCHANGED <<fixed, gate, profile, solved, redeemed, replayed, requests, clock, code, lost, session, next, at>>

\* A refusal: an error, and for a code empty boxes.
Failed ==
  /\ Answered({"refused", "cooling", "unreached"})
  /\ form' = [form EXCEPT !.busy = FALSE, !.typed = IF call.kind \in {"confirm", "reset"} THEN Nothing ELSE @]
  /\ widget' = IF page = "modal" \/ call.kind = "reset" THEN widget ELSE Spent(widget)
  /\ UNCHANGED <<fixed, gate, profile, solved, redeemed, replayed, requests, clock, code, lost, session, next, at>>

\* A new password: no session, the player signs in with it.
PasswordChanged ==
  /\ Answered({"reset"})
  /\ form' = CASE page = "modal" -> [form EXCEPT !.view = "signin", !.typed = Nothing, !.busy = FALSE]
               [] page = "account" -> Blank("overview", form.open)
               [] OTHER -> [form EXCEPT !.view = "done"]
  /\ widget' = IF page = "account" THEN NoProof ELSE widget
  /\ UNCHANGED <<fixed, gate, profile, solved, redeemed, replayed, requests, clock, code, lost, session, next, at>>

ToLogin ==
  /\ form.view = "done" /\ at = "page" /\ page' = "login" /\ UNCHANGED <<setting, role>>
  /\ form' = Blank("form", TRUE) /\ widget' = NoProof
  /\ UNCHANGED <<gate, profile, solved, redeemed, replayed, call, requests, clock, code, lost, session, next, at>>

\* Nobody but an administrator is sent to a page under /admin, whatever the link said.
Destination(who) ==
  IF page = "login" /\ next # "none" /\ (next = "admin" => who = "ADMIN") THEN next
  ELSE IF page = "login" /\ who = "ADMIN" THEN "admin" ELSE "tables"

\* verifySession, and the middleware in front of /admin.
Admitted(cookie) ==
  CASE cookie = "none" -> "required"
    [] cookie = "dead" -> "invalid"
    [] cookie = "USER" -> "forbidden"
    [] OTHER -> "admin"

Lands(dest, cookie) == IF dest = "admin" /\ ~setting.dev THEN Admitted(cookie) ELSE dest

\* establishSession: the token is stored, then mirrored to the cookie, which may fail.
SignedIn ==
  /\ Answered({"session"})
  /\ \E cookie \in {role, session.cookie} :
       /\ session' = [stored |-> role, cookie |-> cookie]
       /\ at' = Lands(Destination(role), cookie)
  /\ form' = [Blank(FirstView, ~Dialog) EXCEPT !.busy = TRUE]
  /\ widget' = NoProof
  /\ UNCHANGED <<fixed, gate, profile, solved, redeemed, replayed, requests, clock, code, lost, next>>

-----------------------------------------------------------------------------
(* Afterwards *)

\* The token expires, or is retired by another sign-in's reset.
Dies ==
  /\ session.stored \in {"USER", "ADMIN"}
  /\ session' = Dead(session)
  /\ UNCHANGED <<fixed, gate, profile, form, widget, solved, redeemed, replayed, call, requests, clock, code, lost, next, at>>

SentBack(reason, to, cookie) ==
  /\ page' = "login" /\ UNCHANGED <<setting, role>>
  /\ form' = Blank("form", TRUE) /\ widget' = NoProof /\ call' = NoCall
  /\ next' = to
  /\ session' = [session EXCEPT !.cookie = cookie, !.stored = IF reason = "expired" THEN "none" ELSE @]
  /\ at' = "page"
  /\ UNCHANGED <<gate, profile, solved, redeemed, replayed, requests, clock, code, lost>>

\* handleSessionExpiry: the first 401 of a page drops the session at both ends and goes to
\* sign in, with the way back.
Unauthorized ==
  /\ at \in {"tables", "admin"} \/ (page = "account" /\ at = "page" /\ form.open /\ ~profile)
  /\ session.stored = "dead"
  /\ \E cookie \in {"none", session.cookie} : SentBack("expired", IF at = "page" THEN "tables" ELSE at, cookie)

\* The middleware sends back: with the way back only where signing in can help, and a
\* rejected cookie is deleted.
Redirected ==
  /\ at \in {"required", "invalid", "forbidden"}
  /\ SentBack(at, IF at = "forbidden" THEN "none" ELSE "admin", IF at = "invalid" THEN "none" ELSE session.cookie)

\* A player follows a link to /admin.
Visit ==
  /\ at = "tables" /\ ~setting.dev /\ at' = Admitted(session.cookie)
  /\ UNCHANGED <<fixed, gate, profile, form, widget, solved, redeemed, replayed, call, requests, clock, code, lost, session, next>>

Left(cooldown) == IF cooldown > 0 THEN cooldown - 1 ELSE 0

\* Time passes: the countdown is anchored to a deadline.
Tick ==
  /\ clock < MaxClock /\ clock' = clock + 1
  /\ form' = [form EXCEPT !.cooldown = Left(@)]
  /\ UNCHANGED <<fixed, gate, profile, widget, solved, redeemed, replayed, call, requests, code, lost, session, next, at>>

Next ==
  \/ ReadGate \/ ClearGate \/ Solve \/ Expire
  \/ \E kind \in {"start", "resend"} : Submit(kind)
  \/ \E typed \in {Wrong} \cup 1..code.number : TypeCode(typed)
  \/ SubmitCode \/ Back \/ ForgotPassword \/ OpenDialog \/ ReadProfile \/ ChangePassword \/ CloseDialog
  \/ Refuse \/ TakeUp \/ TakeCode \/ Lose
  \/ Challenged \/ Failed \/ PasswordChanged \/ ToLogin \/ SignedIn
  \/ Dies \/ Unauthorized \/ Redirected \/ Visit \/ Tick

Spec == Init /\ [][Next]_vars

-----------------------------------------------------------------------------
(* Properties *)

TypeOK ==
  /\ form.view \in {"form", "signin", "code", "forgot", "reset", "done", "overview", "password"}
  /\ form.cooldown \in 0..Cooldown /\ form.typed \in {Wrong} \cup 0..code.number
  /\ widget \in 0..solved /\ redeemed \subseteq 1..solved
  /\ at \in {"page", "tables", "admin", "required", "invalid", "forbidden"}

\* "A Turnstile token is single-use: every rejected submit has to reset the widget"
\* (login/page.tsx:57-58): none is sent to Cloudflare twice.
NeverReplayed == ~replayed

\* A resend that is offered is not answered with the cooldown, unless the answer that would
\* have started the countdown was lost: the page counts from later than the server does
\* (login/page.tsx:82-83, otp.service.ts:138-145).
ResendIsWelcome == call.kind = "resend" /\ ~lost => call.answer # "cooling"

\* A step that takes a code is about the code that was sent for it, whichever answer came
\* last to a dialog that was closed, opened or turned meanwhile (AuthModal.tsx:125-137, 168-171).
CodeHasItsChallenge ==
  /\ page = "account" => form.challenge # "enter"
  /\ form.view = "code" => form.challenge = IF page = "forgot" THEN "reset" ELSE "enter"
  /\ form.view = "reset" => form.challenge = "reset"

\* Signing in never ends where the middleware turns the account away: the two would
\* "trade redirects indefinitely" (login/page.tsx:68-70, middleware.ts:53-57).
NoBounce == [][at = "page" => at' # "forbidden"]_vars
===============================================================================
