------------------------------ MODULE Accounts ------------------------------
(***************************************************************************)
(* Signing up, signing in and resetting a password, for one address: the   *)
(* handlers of routes/auth.routes.ts over services/otp.service.ts and      *)
(* services/rateLimit.service.ts.                                          *)
(*                                                                         *)
(* A handler is a call with a program counter: it stops at every await, so *)
(* two requests for one address interleave between any read and the write  *)
(* that depends on it.  The counters of the limiter are process memory and *)
(* are gone after a restart; codes and the account are in the database.    *)
(*                                                                         *)
(* A code is the number of its OtpCode row, a guess is the row whose       *)
(* digits it repeats (NoCode: of none).  The limit per IP and the human    *)
(* check only refuse: a refused request changes nothing.                   *)
(***************************************************************************)
EXTENDS Integers, FiniteSets, Sequences

CONSTANTS
  Calls,       \* requests that may be under way at once
  Passwords,   \* the passwords in play
  PerCode, PerEmail, PerAccount,   \* wrong answers allowed on each axis
  Cooldown, Ttl, Window,           \* in ticks of the clock
  MaxRequests, MaxCodes, MaxClock, MaxVersion, MaxRestarts   \* bounds

LimitsAssumption ==
  /\ {PerCode, PerEmail, PerAccount, Cooldown, Ttl, Window} \subseteq Nat \ {0}
  /\ {MaxRequests, MaxCodes, MaxClock, MaxVersion, MaxRestarts} \subseteq Nat
  /\ IsFiniteSet(Calls) /\ Calls # {} /\ Passwords # {}

Purposes == {"LOGIN", "REGISTER", "PASSWORD_RESET"}
Scopes == Purposes \cup {"password"}   \* the axes recordAccountFailure counts on
NoCode == 0
NoPassword == "none"

VARIABLES
  clock,     \* time, in ticks
  account,   \* the User row: exists, passwordHash, tokenVersion, role
  codes,     \* the OtpCode rows, in the order they were created
  failures,  \* failures[s]: the limiter's entry of the account axis
  tokens,    \* the tokens signed: version, what they were given for
  uses,      \* uses[k]: how often code k was honoured
  call,      \* call[c]: where request c stands
  requests,  \* counts requests and
  restarts   \* restarts, for their bounds

vars == <<clock, account, codes, failures, tokens, uses, call, requests, restarts>>
quiet == <<clock, requests, restarts>>

Codes == 1..Len(codes)
Unspent(k) == ~codes[k].used /\ ~codes[k].gone

Idle == [pc |-> "idle", purpose |-> "LOGIN", password |-> NoPassword,
         version |-> 0, code |-> NoCode, guess |-> NoCode, seen |-> {}]

Nobody == [exists |-> FALSE, password |-> CHOOSE p \in Passwords : TRUE, version |-> 0,
           admin |-> FALSE]

At(c, pc) == call[c].pc = pc
Goto(c, pc) == call' = [call EXCEPT ![c].pc = pc]
Return(c) == call' = [call EXCEPT ![c] = Idle]

Init ==
  /\ clock = 0
  /\ account \in [exists: BOOLEAN, password: {Nobody.password}, version: {0}, admin: BOOLEAN]
  /\ account.admin => account.exists
  /\ codes = <<>>
  /\ failures = [s \in Scopes |-> [count |-> 0, until |-> 0]]
  /\ tokens = {}
  /\ uses = [k \in 1..MaxCodes |-> 0]
  /\ call = [c \in Calls |-> Idle]
  /\ requests = 0
  /\ restarts = 0

-----------------------------------------------------------------------------
(* The limiter, account axis *)

Locked(s) == clock < failures[s].until /\ failures[s].count > PerAccount

\* bump: a new window starts when the old one ran out.
Bumped(s) ==
  IF failures[s].count = 0 \/ clock >= failures[s].until
    THEN [failures EXCEPT ![s] = [count |-> 1, until |-> clock + Window]]
    ELSE [failures EXCEPT ![s].count = @ + 1]

Cleared(s) == [failures EXCEPT ![s] = [count |-> 0, until |-> 0]]

-----------------------------------------------------------------------------
(* Asking for a code: register, login, forgot-password *)

Arrives(c) == At(c, "idle") /\ requests < MaxRequests /\ requests' = requests + 1

\* register/request-code, up to its look at the account.
AskRegister(c) ==
  /\ Arrives(c) /\ ~account.exists
  /\ call' = [call EXCEPT ![c] = [Idle EXCEPT !.pc = "issue", !.purpose = "REGISTER",
                                               !.password = Nobody.password]]
  /\ UNCHANGED <<clock, restarts, account, codes, failures, tokens, uses>>

\* forgot-password/request issues a code whether or not there is an account.
AskReset(c) ==
  /\ Arrives(c)
  /\ call' = [call EXCEPT ![c] = [Idle EXCEPT !.pc = "issue", !.purpose = "PASSWORD_RESET"]]
  /\ UNCHANGED <<clock, restarts, account, codes, failures, tokens, uses>>

\* login past the limiter, with the password it was given.
AskLogin(c) ==
  /\ Arrives(c) /\ ~Locked("password")
  /\ \E p \in Passwords :
       call' = [call EXCEPT ![c] = [Idle EXCEPT !.pc = "account", !.password = p]]
  /\ UNCHANGED <<clock, restarts, account, codes, failures, tokens, uses>>

\* The one read of the row, before argon2 runs: the hash it will verify against
\* and the version a token will carry.
ReadAccount(c) ==
  /\ At(c, "account")
  /\ call' = [call EXCEPT ![c].pc = IF account.exists /\ account.password = call[c].password
                                      THEN "right" ELSE "wrong",
                          ![c].version = account.version]
  /\ UNCHANGED <<quiet, account, codes, failures, tokens, uses>>

WrongPassword(c) ==
  /\ At(c, "wrong")
  /\ failures' = Bumped("password")
  /\ Return(c)
  /\ UNCHANGED <<quiet, account, codes, tokens, uses>>

Sign(version, password) == tokens \cup {[version |-> version, password |-> password]}

VersionToSign_Current(c) == account.version

\* An administrator's token is signed with the version that was read.
VersionToSign(c) == call[c].version

RightPassword(c) ==
  /\ At(c, "right")
  /\ failures' = Cleared("password")
  /\ IF account.admin
       THEN Return(c) /\ tokens' = Sign(VersionToSign(c), call[c].password)
       ELSE call' = [call EXCEPT ![c] = [Idle EXCEPT !.pc = "issue"]] /\ UNCHANGED tokens
  /\ UNCHANGED <<quiet, account, codes, uses>>

-----------------------------------------------------------------------------
(* issueOtp and deliverCode *)

\* The newest code of the address holds the next one back for Cooldown.
Cooling ==
  \E k \in Codes :
    /\ ~codes[k].gone /\ clock - codes[k].at < Cooldown
    /\ \A j \in Codes : j > k => codes[j].gone

IssueCheck(c) ==
  /\ At(c, "issue")
  /\ IF Cooling THEN Return(c) ELSE Goto(c, "retire")
  /\ UNCHANGED <<quiet, account, codes, failures, tokens, uses>>

\* First statement of the transaction: the rows it retires are those it sees.
Retire(c) ==
  /\ At(c, "retire")
  /\ call' = [call EXCEPT ![c].pc = "create", ![c].seen = {k \in Codes : Unspent(k)}]
  /\ UNCHANGED <<quiet, account, codes, failures, tokens, uses>>

NewCode(c) ==
  [purpose |-> call[c].purpose, used |-> FALSE, gone |-> FALSE, attempts |-> 0, at |-> clock,
   password |-> IF call[c].purpose = "REGISTER" THEN call[c].password ELSE NoPassword]

\* Its second statement and its commit.
Create(c) ==
  /\ At(c, "create") /\ Len(codes) < MaxCodes
  /\ codes' = Append([k \in Codes |-> [codes[k] EXCEPT !.used = @ \/ k \in call[c].seen]],
                     NewCode(c))
  /\ call' = [call EXCEPT ![c] = [Idle EXCEPT !.pc = "mail", !.purpose = call[c].purpose]]
  /\ UNCHANGED <<quiet, account, failures, tokens, uses>>

\* sendMail answers; a reset of an unknown address sends none.
Deliver(c) ==
  /\ At(c, "mail")
  /\ Return(c)
  /\ UNCHANGED <<quiet, account, codes, failures, tokens, uses>>

DeliveryFails(c) ==
  /\ At(c, "mail") /\ (call[c].purpose = "PASSWORD_RESET" => account.exists)
  /\ Goto(c, "discard")
  /\ UNCHANGED <<quiet, account, codes, failures, tokens, uses>>

\* discardOtp deletes every unused code of the address, or fails and is logged.
Discard(c) ==
  /\ At(c, "discard")
  /\ \/ codes' = [k \in Codes |-> [codes[k] EXCEPT !.gone = @ \/ ~codes[k].used]]
     \/ UNCHANGED codes
  /\ Return(c)
  /\ UNCHANGED <<quiet, account, failures, tokens, uses>>

-----------------------------------------------------------------------------
(* Answering with a code: register/confirm, otp/verify, forgot-password/reset *)

\* A reset chooses another password.
Answer(c) ==
  /\ Arrives(c)
  /\ \E purpose \in Purposes, guess \in {NoCode} \cup Codes, p \in Passwords :
       /\ ~Locked(purpose)
       /\ purpose = "PASSWORD_RESET" <=> p # Nobody.password
       /\ call' = [call EXCEPT ![c] = [Idle EXCEPT !.pc = "budget", !.purpose = purpose,
                                                   !.guess = guess, !.password = p]]
  /\ UNCHANGED <<clock, restarts, account, codes, failures, tokens, uses>>

Recent == {k \in Codes : ~codes[k].gone /\ codes[k].at + Window >= clock}

\* Each wrong answer by its code and its place in that code's count: as many as the sum.
WrongAnswers == UNION {{k} \X (1..codes[k].attempts) : k \in Recent}
RecentAttempts == Cardinality(WrongAnswers)

\* The ceiling of the address, across its codes.
WithinBudget == RecentAttempts < PerEmail

Budget(c) ==
  /\ At(c, "budget")
  /\ IF WithinBudget THEN Goto(c, "find") ELSE Return(c)
  /\ UNCHANGED <<quiet, account, codes, failures, tokens, uses>>

Candidates(purpose) == {k \in Codes : Unspent(k) /\ codes[k].purpose = purpose}
Newest(S) == CHOOSE k \in S : \A j \in S : j <= k

\* An expired or exhausted row is burned, anything else is compared.
Fate(k, guess) ==
  IF clock >= codes[k].at + Ttl \/ codes[k].attempts >= PerCode THEN "burn"
  ELSE IF guess # k THEN "miss" ELSE "consume"

Refused(c) ==
  /\ failures' = Bumped(call[c].purpose)
  /\ Return(c)

Find(c) ==
  LET found == Candidates(call[c].purpose) IN
  /\ At(c, "find")
  /\ \/ /\ found = {}
        /\ Refused(c)
     \/ /\ found # {}
        /\ call' = [call EXCEPT ![c].code = Newest(found), ![c].guess = NoCode,
                                ![c].pc = Fate(Newest(found), call[c].guess)]
        /\ UNCHANGED failures
  /\ UNCHANGED <<quiet, account, codes, tokens, uses>>

\* An update by id of a row discarded meanwhile throws.
Thrown(c) ==
  /\ call[c].pc \in {"miss", "burn"} /\ codes[call[c].code].gone
  /\ Return(c)
  /\ UNCHANGED <<quiet, account, codes, failures, tokens, uses>>

\* The increment; the last attempt goes on to burn the code.
Miss(c) ==
  LET k == call[c].code IN
  /\ At(c, "miss") /\ ~codes[k].gone
  /\ codes' = [codes EXCEPT ![k].attempts = @ + 1]
  /\ IF codes[k].attempts + 1 >= PerCode
       THEN Goto(c, "burn") /\ UNCHANGED failures
       ELSE Refused(c)
  /\ UNCHANGED <<quiet, account, tokens, uses>>

Burn(c) ==
  LET k == call[c].code IN
  /\ At(c, "burn") /\ ~codes[k].gone
  /\ codes' = [codes EXCEPT ![k].used = TRUE]
  /\ Refused(c)
  /\ UNCHANGED <<quiet, account, tokens, uses>>

MayConsume_Unchecked(k) == ~codes[k].gone

MayConsume(k) == Unspent(k)

\* updateMany where used is false: the point of no return.
Consume(c) ==
  LET k == call[c].code IN
  /\ At(c, "consume")
  /\ \/ /\ MayConsume(k)
        /\ codes' = [codes EXCEPT ![k].used = TRUE]
        /\ uses' = [uses EXCEPT ![k] = @ + 1]
        /\ Goto(c, "spend")
        /\ UNCHANGED failures
     \/ /\ ~MayConsume(k)
        /\ Refused(c)
        /\ UNCHANGED <<codes, uses>>
  /\ UNCHANGED <<quiet, account, tokens>>

\* User and Wallet in one transaction, or the address was taken meanwhile.
Confirm(c) ==
  /\ At(c, "spend") /\ call[c].purpose = "REGISTER"
  /\ IF account.exists
       THEN UNCHANGED <<account, tokens, failures>>
       ELSE /\ account' = [exists |-> TRUE, password |-> codes[call[c].code].password,
                           version |-> 0, admin |-> FALSE]
            /\ tokens' = Sign(0, codes[call[c].code].password)
            /\ failures' = Cleared("REGISTER")
  /\ Return(c)
  /\ UNCHANGED <<quiet, codes, uses>>

\* otp/verify signs with the version it reads now.
SignIn(c) ==
  /\ At(c, "spend") /\ call[c].purpose = "LOGIN"
  /\ IF account.exists
       THEN /\ tokens' = Sign(account.version, NoPassword)
            /\ failures' = Cleared("LOGIN")
       ELSE UNCHANGED <<tokens, failures>>
  /\ Return(c)
  /\ UNCHANGED <<quiet, account, codes, uses>>

\* The new hash and the next version, in one update.
Reset(c) ==
  /\ At(c, "spend") /\ call[c].purpose = "PASSWORD_RESET"
  /\ IF account.exists
       THEN /\ account.version < MaxVersion
            /\ account' = [account EXCEPT !.password = call[c].password, !.version = @ + 1]
            /\ failures' = Cleared("PASSWORD_RESET")
       ELSE UNCHANGED <<account, failures>>
  /\ Return(c)
  /\ UNCHANGED <<quiet, codes, tokens, uses>>

-----------------------------------------------------------------------------

Tick ==
  /\ clock < MaxClock
  /\ clock' = clock + 1
  /\ UNCHANGED <<account, codes, failures, tokens, uses, call, requests, restarts>>

\* The process dies: requests are lost and the limiter forgets.
Restart ==
  /\ restarts < MaxRestarts
  /\ restarts' = restarts + 1
  /\ failures' = [s \in Scopes |-> [count |-> 0, until |-> 0]]
  /\ call' = [c \in Calls |-> Idle]
  /\ UNCHANGED <<clock, account, codes, tokens, uses, requests>>

Ask(c) == AskRegister(c) \/ AskReset(c) \/ AskLogin(c)

Login(c) == ReadAccount(c) \/ WrongPassword(c) \/ RightPassword(c)

Issue(c) ==
  IssueCheck(c) \/ Retire(c) \/ Create(c) \/ Deliver(c) \/ DeliveryFails(c) \/ Discard(c)

Verify(c) ==
  Budget(c) \/ Find(c) \/ Thrown(c) \/ Miss(c) \/ Burn(c) \/ Consume(c)

Spend(c) == Confirm(c) \/ SignIn(c) \/ Reset(c)

Next ==
  \/ \E c \in Calls : Ask(c) \/ Login(c) \/ Issue(c) \/ Answer(c) \/ Verify(c) \/ Spend(c)
  \/ Tick
  \/ Restart

Spec == Init /\ [][Next]_vars

-----------------------------------------------------------------------------
(* Properties *)

Row == [purpose: Purposes, used: BOOLEAN, gone: BOOLEAN, attempts: Nat, at: 0..MaxClock,
        password: Passwords \cup {NoPassword}]

TypeOK ==
  /\ clock \in 0..MaxClock
  /\ account \in [exists: BOOLEAN, password: Passwords, version: 0..MaxVersion, admin: BOOLEAN]
  /\ \A k \in Codes : codes[k] \in Row
  /\ failures \in [Scopes -> [count: Nat, until: Nat]]
  /\ tokens \subseteq [version: 0..MaxVersion, password: Passwords \cup {NoPassword}]
  /\ uses \in [1..MaxCodes -> Nat]
  /\ requests \in 0..MaxRequests
  /\ restarts \in 0..MaxRestarts

\* However two answers with the same right digits interleave, and whatever a
\* resend, a burn or a discard does between them, a code is honoured once.
CodeHonouredOnce == \A k \in 1..MaxCodes : uses[k] <= 1

\* The budgets hold up to the requests that had already passed their check: each
\* of the other calls under way adds at most one wrong answer to a code, to the
\* address, or to the lockout count of the limiter.
Overshoot == Cardinality(Calls) - 1
CodeBudget == \A k \in Codes : codes[k].attempts <= PerCode + Overshoot
AddressBudget == RecentAttempts <= PerEmail + Overshoot
LockoutBudget == \A s \in Scopes : failures[s].count <= PerAccount + 1 + Overshoot
BudgetsHold == CodeBudget /\ AddressBudget /\ LockoutBudget

\* Both, as the requests of one address need them: a code works once, and guessing it
\* is bounded on every axis.
CodesAreHonouredOnce == CodeHonouredOnce /\ BudgetsHold

\* A token given for a password alone is worth nothing once a reset replaced that
\* password, even when the reset commits between the read of the row and the
\* signature.
PasswordTokensCurrent ==
  \A t \in tokens :
    t.password # NoPassword /\ t.version = account.version => t.password = account.password
=============================================================================
