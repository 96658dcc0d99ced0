---------------------------- MODULE AccountsProofs ----------------------------
(***************************************************************************)
(* Theorems about signing up, signing in and resetting a password, and     *)
(* about the browser's connection.                                         *)
(*                                                                         *)
(* Accounts, for any number of requests under way: a code is honoured      *)
(* once, guessing stays within its budgets, and a reset retires the tokens *)
(* of the password it replaced.  A budget is checked in one statement and  *)
(* spent in another.  What is inductive counts both: the wrong answers     *)
(* recorded, and the calls that passed the check and may still record one, *)
(* together never exceed the limit by more than the calls there are.       *)
(*                                                                         *)
(* The connection, for any tokens and any number of frames, sockets and    *)
(* changes: a tab holds one connection, has none once it has stopped, and  *)
(* has no frame handled twice.  That the server sees a frame once follows  *)
(* from where a frame is: in the outbox, on one socket, or handled.  That  *)
(* one connection is in use follows from what the sockets of the last run  *)
(* are: the current one, or one the hook itself is closing.                *)
(***************************************************************************)
EXTENDS Accounts, ClientLink, SequenceTheorems, FiniteSetTheorems, WellFoundedInduction, TLAPS

(* The inductive invariant of the accounts *)

Pcs ==
  {"idle", "issue", "account", "right", "wrong", "retire", "create", "mail", "discard",
   "budget", "find", "miss", "burn", "consume", "spend"}

\* A call that has chosen the code it is about.
Chosen == {"miss", "burn", "consume", "spend"}

Call ==
  [pc: Pcs, purpose: Purposes, password: Passwords \cup {NoPassword}, version: Nat,
   code: Nat, guess: Nat, seen: SUBSET Nat]

\* The rows are a sequence, and a row of a registration holds the password asked for.
CodesOK ==
  /\ codes \in Seq(Row) /\ Len(codes) <= MaxCodes
  /\ \A k \in Codes : codes[k].purpose = "REGISTER" => codes[k].password \in Passwords

\* What a call knows agrees with the account acc and the rows cds: its code is one of them and
\* was given for its purpose, and a password found right is the current one unless a reset
\* came in between.
Fits(r, acc, cds) ==
  /\ r.pc \in Chosen => r.code \in 1..Len(cds) /\ r.purpose = cds[r.code].purpose
  /\ r.pc \in {"issue", "retire", "create"} /\ r.purpose = "REGISTER" => r.password \in Passwords
  /\ r.pc \in {"account", "right", "wrong", "budget", "find"} \cup Chosen => r.password \in Passwords
  /\ r.pc = "right" =>
       /\ acc.exists /\ r.version <= acc.version
       /\ r.version = acc.version => r.password = acc.password

CallsOK == call \in [Calls -> Call] /\ \A c \in Calls : Fits(call[c], account, codes)

\* A code honoured is a row that is used, so it cannot be consumed again.
UsesOK == \A k \in 1..MaxCodes : uses[k] # 0 => k \in Codes /\ codes[k].used /\ uses[k] = 1

\* Tokens are of an account, and never ahead of its version.
TokensOK ==
  /\ \A t \in tokens : account.exists /\ t.version <= account.version
  /\ PasswordTokensCurrent

\* The calls about to count a wrong answer on code k, the ones that passed the budget of the
\* address, and the ones that passed the limiter of scope s.
Missing(k) == {c \in Calls : call[c].pc = "miss" /\ call[c].code = k}
Guessing == {c \in Calls : call[c].pc \in {"find", "miss"}}
Bumps(r, s) ==
  \/ s = "password" /\ r.pc \in {"account", "wrong"}
  \/ s = r.purpose /\ r.pc \in {"budget", "find", "miss", "burn", "consume"}
Bumping(s) == {c \in Calls : Bumps(call[c], s)}

MissesOK == \A k \in Codes : codes[k].attempts + Cardinality(Missing(k)) <= PerCode + Overshoot

GuessesOK ==
  /\ IsFiniteSet(WrongAnswers)
  /\ RecentAttempts + Cardinality(Guessing) <= PerEmail + Overshoot

LocksOK ==
  \A s \in Scopes :
    /\ failures[s].count <= PerAccount + Cardinality(Calls)
    /\ clock < failures[s].until =>
         failures[s].count + Cardinality(Bumping(s)) <= PerAccount + Cardinality(Calls)

Inv ==
  TypeOK /\ CodesOK /\ CallsOK /\ UsesOK /\ TokensOK /\ MissesOK /\ GuessesOK /\ LocksOK

-----------------------------------------------------------------------------
(* It holds at the start *)

LEMMA Numbers ==
  ASSUME LimitsAssumption
  PROVE  /\ PerCode \in Nat \ {0} /\ PerEmail \in Nat \ {0} /\ PerAccount \in Nat \ {0}
         /\ Cooldown \in Nat /\ Ttl \in Nat /\ Window \in Nat \ {0}
         /\ MaxRequests \in Nat /\ MaxCodes \in Nat /\ MaxClock \in Nat /\ MaxVersion \in Nat
         /\ MaxRestarts \in Nat
         /\ IsFiniteSet(Calls) /\ Cardinality(Calls) \in Nat \ {0}
         /\ Overshoot = Cardinality(Calls) - 1 /\ Overshoot \in Nat
         /\ Nobody.password \in Passwords
<1>1. IsFiniteSet(Calls) /\ Calls # {} /\ Cardinality(Calls) \in Nat
  BY FS_CardinalityType DEF LimitsAssumption
<1>2. Cardinality(Calls) # 0
  BY <1>1, FS_EmptySet
<1>3. Overshoot = Cardinality(Calls) - 1 /\ Overshoot \in Nat
  BY <1>1, <1>2 DEF Overshoot
<1>4. Nobody.password \in Passwords
  BY DEF LimitsAssumption, Nobody
<1> QED BY <1>1, <1>2, <1>3, <1>4 DEF LimitsAssumption

\* Any set of calls is finite and no larger than all of them; without one member it is smaller.
LEMMA Counted ==
  ASSUME LimitsAssumption, NEW S \in SUBSET Calls
  PROVE  /\ IsFiniteSet(S) /\ Cardinality(S) \in Nat /\ Cardinality(S) <= Cardinality(Calls)
         /\ \A c \in S : Cardinality(S \ {c}) = Cardinality(S) - 1
         /\ \A T \in SUBSET S : Cardinality(T) \in Nat /\ Cardinality(T) <= Cardinality(S)
<1>1. IsFiniteSet(S) /\ Cardinality(S) <= Cardinality(Calls)
  BY Numbers, FS_Subset
<1>2. Cardinality(S) \in Nat
  BY <1>1, FS_CardinalityType
<1>3. \A c \in S : Cardinality(S \ {c}) = Cardinality(S) - 1
  BY <1>1, FS_RemoveElement
<1>4. ASSUME NEW T \in SUBSET S PROVE Cardinality(T) \in Nat /\ Cardinality(T) <= Cardinality(S)
  BY <1>1, FS_Subset, FS_CardinalityType
<1> QED BY <1>1, <1>2, <1>3, <1>4

\* A set of rows has a newest one: the order of the naturals, counted from the last row.
LEMMA NewestIsOne ==
  ASSUME NEW n \in Nat, NEW S \in SUBSET (1..n), S # {}
  PROVE  Newest(S) \in S
<1> DEFINE T == {x \in Nat : n - x \in S}
<1>1. T \subseteq Nat /\ T # {}
  <2>1. PICK k \in S : TRUE
    OBVIOUS
  <2>2. k \in 1..n
    OBVIOUS
  <2>3. n - k \in Nat /\ n - (n - k) = k
    BY <2>2
  <2> QED BY <2>1, <2>3
<1>2. PICK x \in T : \A y \in T : <<y, x>> \notin OpToRel(<, Nat)
  BY <1>1, NatLessThanWellFounded, WFMin
<1>3. x \in Nat /\ n - x \in S
  OBVIOUS
<1>4. ASSUME NEW j \in S PROVE j <= n - x
  <2>1. j \in 1..n
    OBVIOUS
  <2>2. n - j \in Nat /\ n - (n - j) = j
    BY <2>1
  <2>3. n - j \in T
    BY <2>2
  <2>4. <<n - j, x>> \notin OpToRel(<, Nat)
    BY <1>2, <2>3
  <2>5. ~(n - j < x)
    BY <1>3, <2>2, <2>4 DEF OpToRel
  <2> QED BY <1>3, <2>1, <2>2, <2>5
<1> HIDE DEF T
<1> QED BY <1>3, <1>4 DEF Newest

LEMMA IdleCall ==
  /\ Idle \in Call /\ Idle.pc = "idle"
  /\ \A acc, cds : Fits(Idle, acc, cds)
  /\ \A s : ~Bumps(Idle, s)
BY DEF Idle, Call, Pcs, Purposes, Fits, Bumps, Chosen, NoCode, NoPassword

LEMMA InvInit == ASSUME LimitsAssumption, Init PROVE Inv
<1> USE Numbers
<1>1. Len(codes) = 0 /\ Codes = {} /\ codes \in Seq(Row)
  <2>1. codes = <<>>
    BY DEF Init
  <2>2. Len(codes) = 0 /\ codes \in Seq(Row)
    BY <2>1
  <2>3. Codes = {}
    BY <2>2 DEF Codes
  <2> QED BY <2>2, <2>3
<1>2. account \in [exists: BOOLEAN, password: Passwords, version: 0..MaxVersion, admin: BOOLEAN]
  <2>1. account \in [exists: BOOLEAN, password: {Nobody.password}, version: {0}, admin: BOOLEAN]
    BY DEF Init
  <2> QED BY <2>1
<1>3. failures \in [Scopes -> [count: Nat, until: Nat]] /\ uses \in [1..MaxCodes -> Nat]
  BY DEF Init
<1>4. TypeOK
  <2>1. clock = 0 /\ requests = 0 /\ restarts = 0
    BY Zenon DEF Init
  <2>2. tokens = {}
    BY DEF Init
  <2> QED BY <1>1, <1>2, <1>3, <2>1, <2>2, Numbers DEF TypeOK
<1>5. CodesOK /\ UsesOK /\ TokensOK
  <2>1. tokens = {} /\ \A k \in 1..MaxCodes : uses[k] = 0
    BY DEF Init
  <2> QED BY <1>1, <2>1 DEF CodesOK, UsesOK, TokensOK, PasswordTokensCurrent
<1>6. CallsOK
  BY IdleCall DEF Init, CallsOK
<1>7. MissesOK
  BY <1>1 DEF MissesOK
<1>8. IsFiniteSet({}) /\ Cardinality({}) = 0
  BY FS_EmptySet
<1>9. GuessesOK
  <2>1. WrongAnswers = {}
    BY <1>1 DEF WrongAnswers, Recent
  <2>2. Guessing = {}
    BY IdleCall DEF Init, Guessing
  <2> QED BY <1>8, <2>1, <2>2 DEF GuessesOK, RecentAttempts
<1>10. LocksOK
  <2>1. \A s \in Scopes : failures[s].count = 0 /\ failures[s].until = 0 /\ clock = 0
    BY DEF Init
  <2> QED BY <2>1 DEF LocksOK
<1> QED BY <1>4, <1>5, <1>6, <1>7, <1>9, <1>10 DEF Inv

-----------------------------------------------------------------------------
(* What a step does to one part of the invariant at a time *)

\* No row is lost, and none forgets that it was used or discarded; new ones are unanswered.
RowsKept ==
  /\ CodesOK' /\ Codes \subseteq Codes'
  /\ \A k \in Codes :
       /\ codes'[k].purpose = codes[k].purpose /\ codes'[k].at = codes[k].at
       /\ codes[k].used => codes'[k].used
       /\ codes[k].gone => codes'[k].gone

\* No wrong answer is recorded by this step.
CountsKept ==
  /\ \A k \in Codes : codes'[k].attempts = codes[k].attempts
  /\ \A k \in Codes' : k \notin Codes => codes'[k].attempts = 0

\* The account stays, appears, or goes on to a higher version.
AccountKept ==
  \/ account' = account
  \/ ~account.exists
  \/ account'.exists /\ account'.version \in Nat /\ account.version < account'.version

\* What the types say of the parts the arithmetic below is about.
Ranges ==
  /\ clock \in Nat /\ account.version \in Nat /\ Len(codes) \in Nat /\ Codes \subseteq Nat
  /\ \A k \in Codes : codes[k] \in Row /\ codes[k].attempts \in Nat /\ codes[k].at \in Nat
  /\ \A s \in Scopes : failures[s].count \in Nat /\ failures[s].until \in Nat
  /\ \A c \in Calls :
       /\ call[c] \in Call /\ call[c].purpose \in Purposes /\ call[c].code \in Nat
       /\ call[c].version \in Nat

LEMMA RangesOK == ASSUME LimitsAssumption, TypeOK, CodesOK, CallsOK PROVE Ranges
<1> USE Numbers
<1>1. clock \in Nat /\ account.version \in Nat /\ Len(codes) \in Nat /\ Codes \subseteq Nat
  BY SMTT(30) DEF TypeOK, CodesOK, Codes
<1>2. ASSUME NEW k \in Codes
      PROVE  codes[k] \in Row /\ codes[k].attempts \in Nat /\ codes[k].at \in Nat
  <2>1. codes[k] \in Row
    BY DEF TypeOK
  <2>2. codes[k].attempts \in Nat /\ codes[k].at \in 0..MaxClock
    BY <2>1 DEF Row
  <2> QED BY <2>1, <2>2
<1>3. \A s \in Scopes : failures[s].count \in Nat /\ failures[s].until \in Nat
  BY DEF TypeOK
<1>4. \A c \in Calls :
       /\ call[c] \in Call /\ call[c].purpose \in Purposes /\ call[c].code \in Nat
       /\ call[c].version \in Nat
  BY DEF CallsOK, Call
<1> QED BY <1>1, <1>2, <1>3, <1>4 DEF Ranges

LEMMA Moves ==
  ASSUME Inv, NEW c \in Calls, NEW r, call' = [call EXCEPT ![c] = r]
  PROVE  call'[c] = r /\ \A d \in Calls : d # c => call'[d] = call[d]
BY DEF Inv, CallsOK

LEMMA CallsKept ==
  ASSUME LimitsAssumption, Inv, NEW c \in Calls, NEW r \in Call, call' = [call EXCEPT ![c] = r],
         Fits(r, account', codes'), RowsKept, AccountKept
  PROVE  CallsOK'
<1>1. call' \in [Calls -> Call]
  BY DEF Inv, CallsOK
<1>2. ASSUME NEW d \in Calls PROVE Fits(call'[d], account', codes')
  <2>1. CASE d = c
    BY <2>1, Moves
  <2>2. CASE d # c
    <3>1. call'[d] = call[d] /\ Fits(call[d], account, codes) /\ Ranges
      BY <2>2, Moves, RangesOK DEF Inv, CallsOK
    <3>2. call[d].pc \in Chosen =>
            call[d].code \in 1..Len(codes') /\ call[d].purpose = codes'[call[d].code].purpose
      BY <3>1 DEF Fits, RowsKept, Codes
    <3>3. call[d].pc = "right" =>
            /\ account'.exists /\ call[d].version <= account'.version
            /\ call[d].version = account'.version => call[d].password = account'.password
      <4>1. call[d].version \in Nat /\ account.version \in Nat
        BY <3>1 DEF Ranges
      <4> QED BY <3>1, <4>1 DEF Fits, AccountKept
    <3> QED BY <3>1, <3>2, <3>3 DEF Fits
  <2> QED BY <2>1, <2>2
<1> QED BY <1>1, <1>2 DEF CallsOK

LEMMA UsesKept ==
  ASSUME Inv, RowsKept, uses' = uses
  PROVE  UsesOK'
BY DEF Inv, UsesOK, RowsKept

LEMMA MissesKept ==
  ASSUME LimitsAssumption, Inv, NEW c \in Calls, NEW r \in Call, call' = [call EXCEPT ![c] = r],
         RowsKept, CountsKept,
         r.pc = "miss" => r.code \in Codes /\ codes[r.code].attempts < PerCode
  PROVE  MissesOK'
<1>1. Ranges /\ MissesOK /\ CallsOK
  BY RangesOK DEF Inv
<1>2. ASSUME NEW k \in Codes'
      PROVE  codes'[k].attempts + Cardinality(Missing(k)') <= PerCode + Overshoot
  <2>1. Missing(k)' \subseteq Calls
    BY DEF Missing
  <2>2. CASE k \notin Codes
    <3>1. \A d \in Calls : call[d].pc = "miss" => call[d].code \in Codes
      BY <1>1 DEF CallsOK, Fits, Chosen, Codes
    <3>2. \A d \in Calls : ~(call'[d].pc = "miss" /\ call'[d].code = k)
      BY <2>2, <3>1, Moves
    <3>3. Missing(k)' = {}
      BY <3>2 DEF Missing
    <3>4. codes'[k].attempts = 0
      BY <2>2 DEF CountsKept
    <3> QED BY <3>3, <3>4, Numbers, FS_EmptySet
  <2>3. CASE k \in Codes /\ r.pc = "miss" /\ r.code = k
    <3>1. codes'[k].attempts = codes[k].attempts /\ codes[k].attempts < PerCode
      BY <2>3 DEF CountsKept
    <3>2. Cardinality(Missing(k)') \in Nat /\ Cardinality(Missing(k)') <= Cardinality(Calls)
      BY <2>1, Counted
    <3>3. codes[k].attempts \in Nat
      BY <1>1, <2>3 DEF Ranges
    <3> QED BY <3>1, <3>2, <3>3, Numbers
  <2>4. CASE k \in Codes /\ ~(r.pc = "miss" /\ r.code = k)
    <3>1. Missing(k)' \subseteq Missing(k)
      BY <2>4, Moves DEF Missing
    <3>2. Missing(k) \subseteq Calls
      BY DEF Missing
    <3>3. /\ Cardinality(Missing(k)') \in Nat /\ Cardinality(Missing(k)) \in Nat
          /\ Cardinality(Missing(k)') <= Cardinality(Missing(k))
      BY <3>1, <3>2, Counted
    <3>4. codes'[k].attempts = codes[k].attempts
      BY <2>4 DEF CountsKept
    <3>5. /\ codes[k].attempts \in Nat
          /\ codes[k].attempts + Cardinality(Missing(k)) <= PerCode + Overshoot
      BY <1>1, <2>4 DEF Ranges, MissesOK
    <3> QED BY <3>3, <3>4, <3>5, Numbers
  <2> QED BY <2>2, <2>3, <2>4
<1> QED BY <1>2 DEF MissesOK, Codes, Overshoot

\* Time, a discard and a new row leave no wrong answer in the sum that was not there.
LEMMA FewerAnswers ==
  ASSUME LimitsAssumption, Inv, RowsKept, CountsKept, clock' \in Nat, clock <= clock'
  PROVE  WrongAnswers' \subseteq WrongAnswers
<1>1. Ranges
  BY RangesOK DEF Inv
<1>2. ASSUME NEW w \in WrongAnswers' PROVE w \in WrongAnswers
  <2>1. PICK k \in Recent' : w \in {k} \X (1..codes'[k].attempts)
    BY DEF WrongAnswers
  <2>2. k \in Codes' /\ ~codes'[k].gone /\ codes'[k].at + Window >= clock'
    BY DEF Recent
  <2>3. k \in Codes
    <3>1. SUFFICES ASSUME k \notin Codes PROVE FALSE
      OBVIOUS
    <3>2. codes'[k].attempts = 0
      BY <2>2, <3>1 DEF CountsKept
    <3> QED BY <2>1, <3>2
  <2>4. codes[k] \in Row /\ codes[k].at \in Nat /\ clock \in Nat
    BY <1>1, <2>3 DEF Ranges
  <2>5. ~codes[k].gone /\ codes[k].at + Window >= clock
    BY <2>2, <2>3, <2>4, Numbers DEF RowsKept
  <2>6. k \in Recent /\ codes'[k].attempts = codes[k].attempts
    BY <2>3, <2>5 DEF Recent, CountsKept
  <2>7. w \in {k} \X (1..codes[k].attempts)
    BY <2>1, <2>6
  <2> QED BY <2>6, <2>7 DEF WrongAnswers
<1> QED BY <1>2

LEMMA GuessesKept ==
  ASSUME LimitsAssumption, Inv, NEW c \in Calls, NEW r \in Call, call' = [call EXCEPT ![c] = r],
         WrongAnswers' \subseteq WrongAnswers,
         r.pc \in {"find", "miss"} => call[c].pc \in {"find", "miss"} \/ WithinBudget
  PROVE  GuessesOK'
<1>1. IsFiniteSet(WrongAnswers) /\ RecentAttempts + Cardinality(Guessing) <= PerEmail + Overshoot
  BY DEF Inv, GuessesOK
<1>2. /\ IsFiniteSet(WrongAnswers')
      /\ RecentAttempts \in Nat /\ RecentAttempts' \in Nat /\ RecentAttempts' <= RecentAttempts
  BY <1>1, FS_Subset, FS_CardinalityType DEF RecentAttempts
<1>3. Guessing \subseteq Calls /\ Guessing' \subseteq Calls
  BY DEF Guessing
<1>4. RecentAttempts' + Cardinality(Guessing') <= PerEmail + Overshoot
  <2>1. CASE WithinBudget
    <3>1. Cardinality(Guessing') \in Nat /\ Cardinality(Guessing') <= Cardinality(Calls)
      BY <1>3, Counted
    <3> QED BY <1>2, <2>1, <3>1, Numbers DEF WithinBudget
  <2>2. CASE ~WithinBudget
    <3>1. Guessing' \subseteq Guessing
      BY <2>2, Moves DEF Guessing
    <3>2. /\ Cardinality(Guessing) \in Nat /\ Cardinality(Guessing') \in Nat
          /\ Cardinality(Guessing') <= Cardinality(Guessing)
      BY <1>3, <3>1, Counted
    <3> QED BY <1>1, <1>2, <3>2, Numbers
  <2> QED BY <2>1, <2>2
<1> QED BY <1>2, <1>4 DEF GuessesOK, Overshoot

\* The step that records a wrong answer takes its call out of those that may still record one.
LEMMA MissesCounted ==
  ASSUME LimitsAssumption, Inv, NEW c \in Calls, NEW r \in Call, call' = [call EXCEPT ![c] = r],
         NEW k \in Codes, k = call[c].code, call[c].pc = "miss", r.pc # "miss",
         codes' = [codes EXCEPT ![k].attempts = @ + 1]
  PROVE  MissesOK'
<1>1. Ranges /\ Codes' = Codes
  BY RangesOK DEF Inv, Codes, CodesOK
<1>2. ASSUME NEW j \in Codes
      PROVE  codes'[j].attempts + Cardinality(Missing(j)') <= PerCode + Overshoot
  <2>1. Missing(j) \subseteq Calls /\ Missing(j)' \subseteq Missing(j)
    BY Moves DEF Missing
  <2>2. /\ Cardinality(Missing(j)) \in Nat /\ Cardinality(Missing(j)') \in Nat
        /\ Cardinality(Missing(j)') <= Cardinality(Missing(j))
    BY <2>1, Counted
  <2>3. /\ codes[j].attempts \in Nat
        /\ codes[j].attempts + Cardinality(Missing(j)) <= PerCode + Overshoot
    BY <1>1 DEF Ranges, Inv, MissesOK
  <2>4. CASE j = k
    <3>1. c \in Missing(j) /\ Missing(j)' \subseteq Missing(j) \ {c}
      BY <2>4, Moves DEF Missing
    <3>2. Cardinality(Missing(j)') <= Cardinality(Missing(j)) - 1
      <4>1. Cardinality(Missing(j) \ {c}) = Cardinality(Missing(j)) - 1
        BY <2>1, <3>1, Counted
      <4>2. Missing(j) \ {c} \subseteq Calls
        BY <2>1
      <4> QED BY <3>1, <4>1, <4>2, Counted
    <3>3. codes'[j].attempts = codes[j].attempts + 1
      BY <1>1, <2>4 DEF Ranges, Row, Codes
    <3> QED BY <2>2, <2>3, <3>2, <3>3, Numbers
  <2>5. CASE j # k
    <3>1. codes'[j].attempts = codes[j].attempts
      BY <2>5 DEF Codes
    <3> QED BY <2>2, <2>3, <3>1, Numbers
  <2> QED BY <2>4, <2>5
<1> QED BY <1>1, <1>2 DEF MissesOK, Overshoot

LEMMA GuessesCounted ==
  ASSUME LimitsAssumption, Inv, NEW c \in Calls, NEW r \in Call, call' = [call EXCEPT ![c] = r],
         NEW k \in Codes, call[c].pc = "miss", r.pc \notin {"find", "miss"},
         codes' = [codes EXCEPT ![k].attempts = @ + 1], clock' = clock
  PROVE  GuessesOK'
<1>1. Ranges /\ Codes' = Codes
  BY RangesOK DEF Inv, Codes, CodesOK
<1>2. IsFiniteSet(WrongAnswers) /\ RecentAttempts + Cardinality(Guessing) <= PerEmail + Overshoot
  BY DEF Inv, GuessesOK
<1> DEFINE latest == <<k, codes[k].attempts + 1>>
<1>3. WrongAnswers' \subseteq WrongAnswers \cup {latest}
  <2>1. SUFFICES ASSUME NEW w \in WrongAnswers' PROVE w \in WrongAnswers \/ w = latest
    OBVIOUS
  <2>2. PICK j \in Recent' : w \in {j} \X (1..codes'[j].attempts)
    BY DEF WrongAnswers
  <2>3. j \in Codes /\ codes'[j].gone = codes[j].gone /\ codes'[j].at = codes[j].at
    BY <1>1, <2>2 DEF Recent, Codes, Ranges, Row
  <2>4. j \in Recent
    BY <2>2, <2>3 DEF Recent
  <2>5. codes[j].attempts \in Nat
    BY <1>1, <2>3 DEF Ranges
  <2>6. codes'[j].attempts = IF j = k THEN codes[j].attempts + 1 ELSE codes[j].attempts
    BY <1>1, <2>3 DEF Codes, Ranges, Row
  <2>7. w \in {j} \X (1..codes[j].attempts) \/ w = latest
    BY <2>2, <2>5, <2>6
  <2> QED BY <2>4, <2>7 DEF WrongAnswers
<1> HIDE DEF latest
<1>4. /\ IsFiniteSet(WrongAnswers \cup {latest}) /\ Cardinality(WrongAnswers) \in Nat
      /\ Cardinality(WrongAnswers \cup {latest}) <= Cardinality(WrongAnswers) + 1
  <2>1. Cardinality(WrongAnswers) \in Nat
    BY <1>2, FS_CardinalityType
  <2>2. /\ IsFiniteSet(WrongAnswers \cup {latest})
        /\ Cardinality(WrongAnswers \cup {latest}) =
             IF latest \in WrongAnswers THEN Cardinality(WrongAnswers) ELSE Cardinality(WrongAnswers) + 1
    BY <1>2, FS_AddElement
  <2> QED BY <2>1, <2>2
<1>5. /\ IsFiniteSet(WrongAnswers')
      /\ Cardinality(WrongAnswers') \in Nat
      /\ Cardinality(WrongAnswers') <= Cardinality(WrongAnswers \cup {latest})
  BY <1>3, <1>4, FS_Subset, FS_CardinalityType
<1>6. Cardinality(WrongAnswers \cup {latest}) \in Nat
  BY <1>4, FS_CardinalityType
<1>7. Guessing \subseteq Calls /\ c \in Guessing /\ Guessing' \subseteq Guessing \ {c}
  BY Moves DEF Guessing
<1>8. /\ Cardinality(Guessing) \in Nat /\ Cardinality(Guessing') \in Nat
      /\ Cardinality(Guessing') <= Cardinality(Guessing) - 1
  <2>1. Guessing \ {c} \subseteq Calls /\ Cardinality(Guessing \ {c}) = Cardinality(Guessing) - 1
    BY <1>7, Counted
  <2> QED BY <1>7, <2>1, Counted
<1>9. RecentAttempts' + Cardinality(Guessing') <= PerEmail + Overshoot
  BY <1>2, <1>4, <1>5, <1>6, <1>8, Numbers DEF RecentAttempts
<1> QED BY <1>5, <1>9 DEF GuessesOK, Overshoot

LEMMA LocksKept ==
  ASSUME LimitsAssumption, Inv, NEW c \in Calls, NEW r \in Call, call' = [call EXCEPT ![c] = r],
         \A s \in Scopes : Bumps(r, s) => Bumps(call[c], s) \/ ~Locked(s),
         failures' = failures, clock' \in Nat, clock <= clock'
  PROVE  LocksOK'
<1>1. Ranges /\ LocksOK
  BY RangesOK DEF Inv
<1>2. ASSUME NEW s \in Scopes, clock' < failures[s].until
      PROVE  failures[s].count + Cardinality(Bumping(s)') <= PerAccount + Cardinality(Calls)
  <2>1. /\ clock < failures[s].until /\ failures[s].count \in Nat
        /\ failures[s].count + Cardinality(Bumping(s)) <= PerAccount + Cardinality(Calls)
    BY <1>1, <1>2 DEF Ranges, LocksOK
  <2>2. Bumping(s) \subseteq Calls /\ Bumping(s)' \subseteq Calls
    BY DEF Bumping
  <2>3. CASE failures[s].count <= PerAccount
    <3>1. Cardinality(Bumping(s)') \in Nat /\ Cardinality(Bumping(s)') <= Cardinality(Calls)
      BY <2>2, Counted
    <3> QED BY <2>1, <2>3, <3>1, Numbers
  <2>4. CASE failures[s].count > PerAccount
    <3>1. Locked(s)
      BY <2>1, <2>4 DEF Locked
    <3>2. Bumping(s)' \subseteq Bumping(s)
      BY <3>1, Moves DEF Bumping
    <3>3. /\ Cardinality(Bumping(s)) \in Nat /\ Cardinality(Bumping(s)') \in Nat
          /\ Cardinality(Bumping(s)') <= Cardinality(Bumping(s))
      BY <2>2, <3>2, Counted
    <3> QED BY <2>1, <3>3, Numbers
  <2> QED BY <2>1, <2>3, <2>4, Numbers
<1> QED BY <1>1, <1>2 DEF LocksOK

\* A wrong answer counted by the limiter, in a new window or in the one under way.
LEMMA LocksBumped ==
  ASSUME LimitsAssumption, Inv, NEW c \in Calls, NEW r \in Call, call' = [call EXCEPT ![c] = r],
         NEW s \in Scopes, Bumps(call[c], s), \A t \in Scopes : ~Bumps(r, t),
         failures' = Bumped(s), clock' = clock
  PROVE  LocksOK' /\ failures' \in [Scopes -> [count: Nat, until: Nat]]
<1>1. Ranges /\ LocksOK /\ failures \in [Scopes -> [count: Nat, until: Nat]]
  BY RangesOK DEF Inv, TypeOK
<1>2. ASSUME NEW t \in Scopes
      PROVE  /\ Cardinality(Bumping(t)) \in Nat /\ Cardinality(Bumping(t)') \in Nat
             /\ Cardinality(Bumping(t)') <= Cardinality(Bumping(t))
             /\ t = s => Cardinality(Bumping(t)') <= Cardinality(Bumping(t)) - 1
             /\ Cardinality(Bumping(t)) <= Cardinality(Calls)
  <2>1. Bumping(t) \subseteq Calls /\ Bumping(t)' \subseteq Bumping(t)
    BY Moves DEF Bumping
  <2>2. t = s => c \in Bumping(t) /\ Bumping(t)' \subseteq Bumping(t) \ {c}
    BY Moves DEF Bumping
  <2>3. t = s => Cardinality(Bumping(t) \ {c}) = Cardinality(Bumping(t)) - 1
    BY <2>1, <2>2, Counted
  <2>4. t = s => Cardinality(Bumping(t)') <= Cardinality(Bumping(t) \ {c})
    <3>1. Bumping(t) \ {c} \subseteq Calls
      BY <2>1
    <3> QED BY <2>2, <3>1, Counted
  <2> QED BY <2>1, <2>3, <2>4, Counted
<1>3. /\ failures' \in [Scopes -> [count: Nat, until: Nat]]
      /\ \A t \in Scopes : t # s => failures'[t] = failures[t]
  <2>1. clock + Window \in Nat /\ failures[s].count \in Nat
    <3>1. clock \in Nat /\ failures[s].count \in Nat
      BY <1>1 DEF Ranges
    <3> QED BY <3>1, Numbers
  <2>2. CASE failures[s].count = 0 \/ clock >= failures[s].until
    <3>1. failures' = [failures EXCEPT ![s] = [count |-> 1, until |-> clock + Window]]
      BY <2>2 DEF Bumped
    <3> QED BY <1>1, <2>1, <3>1
  <2>3. CASE ~(failures[s].count = 0 \/ clock >= failures[s].until)
    <3>1. failures' = [failures EXCEPT ![s].count = failures[s].count + 1]
      BY <2>3 DEF Bumped
    <3> QED BY <1>1, <2>1, <3>1
  <2> QED BY <2>2, <2>3
<1>4. /\ failures'[s].count <= PerAccount + Cardinality(Calls)
      /\ failures'[s].count + Cardinality(Bumping(s)') <= PerAccount + Cardinality(Calls)
  <2>1. failures[s].count \in Nat /\ failures[s].until \in Nat /\ clock \in Nat
    BY <1>1 DEF Ranges
  <2>2. CASE failures[s].count = 0 \/ clock >= failures[s].until
    <3>1. failures'[s].count = 1
      BY <1>1, <2>2 DEF Bumped
    <3> QED BY <1>2, <3>1, Numbers
  <2>3. CASE ~(failures[s].count = 0 \/ clock >= failures[s].until)
    <3>1. failures'[s].count = failures[s].count + 1
      BY <1>1, <2>3 DEF Bumped
    <3>2. failures[s].count + Cardinality(Bumping(s)) <= PerAccount + Cardinality(Calls)
      BY <1>1, <2>1, <2>3 DEF LocksOK
    <3> QED BY <1>2, <2>1, <3>1, <3>2, Numbers
  <2> QED BY <2>2, <2>3
<1>5. ASSUME NEW t \in Scopes, t # s
      PROVE  /\ failures'[t].count <= PerAccount + Cardinality(Calls)
             /\ clock < failures'[t].until =>
                  failures'[t].count + Cardinality(Bumping(t)') <= PerAccount + Cardinality(Calls)
  <2>1. failures'[t] = failures[t] /\ failures[t].count \in Nat
    BY <1>1, <1>3, <1>5 DEF Ranges
  <2> QED BY <1>1, <1>2, <2>1, Numbers DEF LocksOK
<1> QED BY <1>3, <1>4, <1>5 DEF LocksOK

LEMMA LocksCleared ==
  ASSUME LimitsAssumption, Inv, NEW c \in Calls, NEW r \in Call, call' = [call EXCEPT ![c] = r],
         NEW s \in Scopes, \A t \in Scopes : ~Bumps(r, t),
         failures' = Cleared(s), clock' = clock
  PROVE  LocksOK' /\ failures' \in [Scopes -> [count: Nat, until: Nat]]
<1>1. Ranges /\ LocksOK /\ failures \in [Scopes -> [count: Nat, until: Nat]]
  BY RangesOK DEF Inv, TypeOK
<1>2. /\ failures' \in [Scopes -> [count: Nat, until: Nat]]
      /\ failures'[s].count = 0 /\ failures'[s].until = 0
      /\ \A t \in Scopes : t # s => failures'[t] = failures[t]
  BY <1>1 DEF Cleared
<1>3. ASSUME NEW t \in Scopes, t # s
      PROVE  /\ failures'[t].count <= PerAccount + Cardinality(Calls)
             /\ clock < failures'[t].until =>
                  failures'[t].count + Cardinality(Bumping(t)') <= PerAccount + Cardinality(Calls)
  <2>1. Bumping(t) \subseteq Calls /\ Bumping(t)' \subseteq Bumping(t)
    BY Moves DEF Bumping
  <2>2. /\ Cardinality(Bumping(t)) \in Nat /\ Cardinality(Bumping(t)') \in Nat
        /\ Cardinality(Bumping(t)') <= Cardinality(Bumping(t))
    BY <2>1, Counted
  <2>3. failures'[t] = failures[t] /\ failures[t].count \in Nat
    BY <1>1, <1>2, <1>3 DEF Ranges
  <2> QED BY <1>1, <2>2, <2>3, Numbers DEF LocksOK
<1>4. clock \in Nat
  BY <1>1 DEF Ranges
<1> QED BY <1>2, <1>3, <1>4, Numbers DEF LocksOK

-----------------------------------------------------------------------------
(* Steps that change one call and nothing else *)

LEMMA CallOnly ==
  ASSUME LimitsAssumption, Inv, NEW c \in Calls, NEW r \in Call, call' = [call EXCEPT ![c] = r],
         UNCHANGED <<account, codes, failures, tokens, uses>>,
         clock' = clock, restarts' = restarts, requests' \in 0..MaxRequests,
         Fits(r, account, codes),
         r.pc = "miss" => codes[r.code].attempts < PerCode,
         r.pc \in {"find", "miss"} => call[c].pc \in {"find", "miss"} \/ WithinBudget,
         \A s \in Scopes : Bumps(r, s) => Bumps(call[c], s) \/ ~Locked(s)
  PROVE  Inv'
<1>1. Ranges
  BY RangesOK DEF Inv
<1>2. RowsKept /\ CountsKept /\ AccountKept
  BY DEF Inv, CodesOK, RowsKept, CountsKept, AccountKept, Codes
<1>3. TypeOK' /\ CodesOK' /\ UsesOK' /\ TokensOK'
  BY DEF Inv, TypeOK, CodesOK, UsesOK, TokensOK, PasswordTokensCurrent, Codes
<1>4. CallsOK'
  BY <1>2, CallsKept
<1>5. MissesOK'
  <2>1. r.pc = "miss" => r.code \in Codes
    BY DEF Fits, Chosen, Codes
  <2> QED BY <1>2, <2>1, MissesKept
<1>6. clock \in Nat /\ clock <= clock'
  BY <1>1 DEF Ranges
<1>7. GuessesOK'
  BY <1>2, <1>6, FewerAnswers, GuessesKept
<1>8. LocksOK'
  BY <1>6, LocksKept
<1> QED BY <1>3, <1>4, <1>5, <1>7, <1>8 DEF Inv

LEMMA ReturnKeeps ==
  ASSUME LimitsAssumption, Inv, NEW c \in Calls, Return(c),
         UNCHANGED <<quiet, account, codes, failures, tokens, uses>>
  PROVE  Inv'
<1>1. requests' \in 0..MaxRequests
  BY DEF quiet, Inv, TypeOK
<1> QED BY <1>1, IdleCall, CallOnly DEF Return, quiet

\* A call that goes on without asking for anything.
LEMMA GotoKeeps ==
  ASSUME LimitsAssumption, Inv, NEW c \in Calls, NEW pc \in {"retire", "discard", "find"}, Goto(c, pc),
         pc = "retire" => call[c].pc = "issue",
         pc = "find" => call[c].pc = "budget" /\ WithinBudget,
         UNCHANGED <<quiet, account, codes, failures, tokens, uses>>
  PROVE  Inv'
<1> DEFINE r == [call[c] EXCEPT !.pc = pc]
<1>1. requests' \in 0..MaxRequests
  BY DEF quiet, Inv, TypeOK
<1>2. Ranges /\ Fits(call[c], account, codes)
  BY RangesOK DEF Inv, CallsOK
<1>3. /\ r \in Call /\ r.pc = pc /\ r.purpose = call[c].purpose /\ r.password = call[c].password
  BY <1>2 DEF Ranges, Call, Pcs
<1>4. call' = [call EXCEPT ![c] = r]
  BY DEF Goto, Inv, CallsOK
<1> HIDE DEF r
<1>5. Fits(r, account, codes)
  BY <1>2, <1>3 DEF Fits, Chosen
<1>6. \A s \in Scopes : Bumps(r, s) => Bumps(call[c], s)
  BY <1>3 DEF Bumps
<1> QED BY <1>1, <1>3, <1>4, <1>5, <1>6, CallOnly DEF quiet

LEMMA Arriving == ASSUME LimitsAssumption, Inv, NEW c \in Calls, Arrives(c) PROVE requests' \in 0..MaxRequests
<1>1. requests \in 0..MaxRequests /\ requests < MaxRequests /\ requests' = requests + 1
  BY DEF Arrives, Inv, TypeOK
<1> QED BY <1>1, Numbers

LEMMA AskKeeps == ASSUME LimitsAssumption, Inv, NEW c \in Calls, Ask(c) PROVE Inv'
<1>1. requests' \in 0..MaxRequests /\ clock' = clock /\ restarts' = restarts
  BY Arriving DEF Ask, AskRegister, AskReset, AskLogin
<1>2. UNCHANGED <<account, codes, failures, tokens, uses>>
  BY DEF Ask, AskRegister, AskReset, AskLogin
<1>3. CASE AskRegister(c) \/ AskReset(c)
  <2>1. PICK r \in Call :
          /\ call' = [call EXCEPT ![c] = r] /\ r.pc = "issue"
          /\ r.purpose = "REGISTER" => r.password \in Passwords
    <3>1. CASE AskRegister(c)
      <4> DEFINE r == [Idle EXCEPT !.pc = "issue", !.purpose = "REGISTER", !.password = Nobody.password]
      <4>1. r \in Call /\ r.pc = "issue" /\ r.password = Nobody.password
        BY IdleCall, Numbers DEF Call, Pcs, Purposes, Idle
      <4> QED BY <3>1, <4>1, Numbers DEF AskRegister
    <3>2. CASE AskReset(c)
      <4> DEFINE r == [Idle EXCEPT !.pc = "issue", !.purpose = "PASSWORD_RESET"]
      <4>1. r \in Call /\ r.pc = "issue" /\ r.purpose = "PASSWORD_RESET"
        BY IdleCall DEF Call, Pcs, Purposes, Idle
      <4> QED BY <3>2, <4>1 DEF AskReset
    <3> QED BY <1>3, <3>1, <3>2
  <2>2. Fits(r, account, codes) /\ \A s \in Scopes : ~Bumps(r, s)
    BY <2>1 DEF Fits, Bumps, Chosen
  <2> QED BY <1>1, <1>2, <2>1, <2>2, CallOnly
<1>4. CASE AskLogin(c)
  <2>1. PICK p \in Passwords : call' = [call EXCEPT ![c] = [Idle EXCEPT !.pc = "account", !.password = p]]
    BY <1>4 DEF AskLogin
  <2> DEFINE r == [Idle EXCEPT !.pc = "account", !.password = p]
  <2>2. r \in Call /\ r.pc = "account" /\ r.password = p
    BY IdleCall DEF Call, Pcs, Purposes, Idle
  <2>3. call' = [call EXCEPT ![c] = r]
    BY <2>1
  <2> HIDE DEF r
  <2>4. Fits(r, account, codes) /\ \A s \in Scopes : Bumps(r, s) => s = "password"
    BY <2>2 DEF Fits, Bumps, Chosen
  <2>5. ~Locked("password")
    BY <1>4 DEF AskLogin
  <2> QED BY <1>1, <1>2, <2>2, <2>3, <2>4, <2>5, CallOnly
<1> QED BY <1>3, <1>4 DEF Ask

LEMMA AnswerKeeps == ASSUME LimitsAssumption, Inv, NEW c \in Calls, Answer(c) PROVE Inv'
<1>1. requests' \in 0..MaxRequests /\ clock' = clock /\ restarts' = restarts
  BY Arriving DEF Answer
<1>2. UNCHANGED <<account, codes, failures, tokens, uses>>
  BY DEF Answer
<1>3. PICK purpose \in Purposes, guess \in {NoCode} \cup Codes, p \in Passwords :
        /\ ~Locked(purpose)
        /\ call' = [call EXCEPT ![c] = [Idle EXCEPT !.pc = "budget", !.purpose = purpose,
                                                    !.guess = guess, !.password = p]]
  BY DEF Answer
<1> DEFINE r == [Idle EXCEPT !.pc = "budget", !.purpose = purpose, !.guess = guess, !.password = p]
<1>4. guess \in Nat
  BY RangesOK DEF Inv, Ranges, NoCode
<1>5. r \in Call /\ r.pc = "budget" /\ r.purpose = purpose /\ r.password = p
  BY <1>4, IdleCall DEF Call, Pcs, Idle
<1>6. call' = [call EXCEPT ![c] = r]
  BY <1>3
<1> HIDE DEF r
<1>7. Fits(r, account, codes) /\ \A s \in Scopes : Bumps(r, s) => s = purpose
  BY <1>5 DEF Fits, Bumps, Chosen, Purposes
<1> QED BY ZenonT(60), <1>1, <1>2, <1>3, <1>5, <1>6, <1>7, CallOnly

LEMMA ReadAccountKeeps == ASSUME LimitsAssumption, Inv, NEW c \in Calls, ReadAccount(c) PROVE Inv'
<1> DEFINE pc == IF account.exists /\ account.password = call[c].password THEN "right" ELSE "wrong"
           r == [call[c] EXCEPT !.pc = pc, !.version = account.version]
<1>1. Ranges /\ Fits(call[c], account, codes) /\ call[c].pc = "account"
  BY RangesOK DEF Inv, CallsOK, ReadAccount, At
<1>2. pc \in {"right", "wrong"} /\ (pc = "right" => account.exists /\ account.password = call[c].password)
  OBVIOUS
<1>3. call' = [call EXCEPT ![c] = r]
  BY DEF ReadAccount, Inv, CallsOK
<1> HIDE DEF pc
<1>4. r \in Call /\ r.pc = pc /\ r.password = call[c].password /\ r.version = account.version
  BY <1>1, <1>2 DEF Ranges, Call, Pcs
<1> HIDE DEF r
<1>5. Fits(r, account, codes)
  BY <1>1, <1>2, <1>4 DEF Fits, Chosen, Ranges
<1>6. \A s \in Scopes : Bumps(r, s) => Bumps(call[c], s)
  BY <1>1, <1>2, <1>4 DEF Bumps
<1>7. requests' \in 0..MaxRequests
  BY DEF ReadAccount, quiet, Inv, TypeOK
<1> QED BY <1>2, <1>3, <1>4, <1>5, <1>6, <1>7, CallOnly DEF ReadAccount, quiet

LEMMA RetireKeeps == ASSUME LimitsAssumption, Inv, NEW c \in Calls, Retire(c) PROVE Inv'
<1> DEFINE r == [call[c] EXCEPT !.pc = "create", !.seen = {k \in Codes : Unspent(k)}]
<1>1. Ranges /\ Fits(call[c], account, codes) /\ call[c].pc = "retire"
  BY RangesOK DEF Inv, CallsOK, Retire, At
<1>2. {k \in Codes : Unspent(k)} \in SUBSET Nat
  BY <1>1 DEF Ranges
<1>3. call' = [call EXCEPT ![c] = r]
  BY DEF Retire, Inv, CallsOK
<1>4. r \in Call /\ r.pc = "create" /\ r.purpose = call[c].purpose /\ r.password = call[c].password
  BY <1>1, <1>2 DEF Ranges, Call, Pcs
<1> HIDE DEF r
<1>5. Fits(r, account, codes) /\ \A s \in Scopes : ~Bumps(r, s)
  BY <1>1, <1>4 DEF Fits, Chosen, Bumps
<1>6. requests' \in 0..MaxRequests
  BY DEF Retire, quiet, Inv, TypeOK
<1> QED BY <1>3, <1>4, <1>5, <1>6, CallOnly DEF Retire, quiet

\* The newest candidate is a row, and was given for what the call is about.
LEMMA ChooseKeeps ==
  ASSUME LimitsAssumption, Inv, NEW c \in Calls, Find(c), Candidates(call[c].purpose) # {},
         failures' = failures,
         call' = [call EXCEPT ![c].code = Newest(Candidates(call[c].purpose)), ![c].guess = NoCode,
                              ![c].pc = Fate(Newest(Candidates(call[c].purpose)), call[c].guess)]
  PROVE  Inv'
<1> DEFINE k == Newest(Candidates(call[c].purpose))
           pc == Fate(k, call[c].guess)
           r == [call[c] EXCEPT !.code = k, !.guess = NoCode, !.pc = pc]
<1>1. Ranges /\ Fits(call[c], account, codes) /\ call[c].pc = "find"
  BY RangesOK DEF Inv, CallsOK, Find, At
<1>2. k \in Candidates(call[c].purpose)
  <2>1. Candidates(call[c].purpose) \in SUBSET (1..Len(codes)) /\ Len(codes) \in Nat
    BY <1>1 DEF Candidates, Codes, Ranges
  <2> QED BY <2>1, NewestIsOne
<1>3. k \in Codes /\ codes[k].purpose = call[c].purpose
  BY <1>2 DEF Candidates
<1>4. call' = [call EXCEPT ![c] = r]
  BY DEF Inv, CallsOK
<1> HIDE DEF k
<1>5. pc \in {"burn", "miss", "consume"} /\ (pc = "miss" => codes[k].attempts < PerCode)
  <2>1. codes[k].attempts \in Nat
    BY <1>1, <1>3 DEF Ranges
  <2> QED BY <2>1, Numbers DEF Fate
<1> HIDE DEF pc
<1>6. /\ r \in Call /\ r.pc = pc /\ r.code = k /\ r.purpose = call[c].purpose
      /\ r.password = call[c].password
  BY <1>1, <1>3, <1>5 DEF Ranges, Call, Pcs, NoCode
<1> HIDE DEF r
<1>7. Fits(r, account, codes)
  BY <1>1, <1>3, <1>5, <1>6 DEF Fits, Chosen, Codes
<1>8. \A s \in Scopes : Bumps(r, s) => Bumps(call[c], s)
  BY <1>1, <1>5, <1>6 DEF Bumps
<1>9. requests' \in 0..MaxRequests /\ clock' = clock /\ restarts' = restarts
  BY DEF Find, quiet, Inv, TypeOK
<1>10. UNCHANGED <<account, codes, failures, tokens, uses>>
  BY DEF Find
<1> QED BY <1>1, <1>4, <1>5, <1>6, <1>7, <1>8, <1>9, <1>10, CallOnly

-----------------------------------------------------------------------------
(* Steps that change the limiter, the rows, the account or the tokens *)

\* The call of such a step is about to record nothing any more.
LEMMA Retiring ==
  ASSUME LimitsAssumption, Inv, NEW c \in Calls, NEW r \in Call, call' = [call EXCEPT ![c] = r],
         r.pc \notin {"find", "miss"}, RowsKept, CountsKept, clock' = clock
  PROVE  MissesOK' /\ GuessesOK'
<1>1. clock \in Nat /\ clock <= clock'
  BY RangesOK DEF Inv, Ranges
<1> QED BY <1>1, MissesKept, FewerAnswers, GuessesKept

LEMMA CodeBudgetHolds == ASSUME LimitsAssumption, Inv PROVE CodeBudget
<1>1. ASSUME NEW k \in Codes PROVE codes[k].attempts <= PerCode + Overshoot
  <2>1. Missing(k) \subseteq Calls
    BY DEF Missing
  <2>2. Cardinality(Missing(k)) \in Nat
    BY <2>1, Counted
  <2>3. codes[k].attempts \in Nat
    BY RangesOK DEF Inv, Ranges
  <2>4. codes[k].attempts + Cardinality(Missing(k)) <= PerCode + Overshoot
    BY DEF Inv, MissesOK
  <2> QED BY <2>2, <2>3, <2>4, Numbers
<1> QED BY <1>1 DEF CodeBudget

LEMMA SameRows == ASSUME Inv, codes' = codes PROVE RowsKept /\ CountsKept /\ CodesOK'
BY DEF Inv, CodesOK, RowsKept, CountsKept, Codes

\* A wrong answer refused and counted, with nothing of the rows changed.
LEMMA RefusedKeeps ==
  ASSUME LimitsAssumption, Inv, NEW c \in Calls, Return(c),
         NEW s \in Scopes, Bumps(call[c], s), failures' = Bumped(s),
         UNCHANGED <<quiet, account, codes, tokens, uses>>
  PROVE  Inv'
<1> USE IdleCall
<1>1. call' = [call EXCEPT ![c] = Idle] /\ clock' = clock /\ account' = account
  BY DEF Return, quiet
<1>2. RowsKept /\ CountsKept /\ CodesOK' /\ AccountKept
  BY SameRows DEF AccountKept
<1>3. LocksOK' /\ failures' \in [Scopes -> [count: Nat, until: Nat]]
  BY <1>1, LocksBumped
<1>4. TypeOK'
  BY <1>3 DEF quiet, Inv, TypeOK, Codes
<1>5. CallsOK' /\ UsesOK' /\ MissesOK' /\ GuessesOK'
  BY <1>1, <1>2, CallsKept, UsesKept, Retiring
<1>6. TokensOK'
  BY DEF Inv, TokensOK, PasswordTokensCurrent
<1> QED BY <1>2, <1>3, <1>4, <1>5, <1>6 DEF Inv

LEMMA WrongPasswordKeeps == ASSUME LimitsAssumption, Inv, NEW c \in Calls, WrongPassword(c) PROVE Inv'
<1>1. "password" \in Scopes /\ Bumps(call[c], "password")
  BY DEF Scopes, Bumps, WrongPassword, At
<1> QED BY <1>1, RefusedKeeps DEF WrongPassword

\* The counter of the password is cleared, and an administrator has a token: of the version
\* read with the row, so that a reset since has retired it already.
LEMMA RightPasswordKeeps == ASSUME LimitsAssumption, Inv, NEW c \in Calls, RightPassword(c) PROVE Inv'
<1> USE IdleCall
<1>1. /\ clock' = clock /\ account' = account /\ codes' = codes /\ uses' = uses
      /\ failures' = Cleared("password") /\ "password" \in Scopes
  BY DEF RightPassword, quiet, Scopes
<1>2. Ranges /\ Fits(call[c], account, codes) /\ call[c].pc = "right"
  BY RangesOK DEF Inv, CallsOK, RightPassword, At
<1> DEFINE r == [Idle EXCEPT !.pc = "issue"]
<1>3. r \in Call /\ r.pc = "issue" /\ r.purpose = "LOGIN"
  BY DEF Idle, Call, Pcs
<1>4. PICK q \in Call :
        /\ call' = [call EXCEPT ![c] = q] /\ q \in {Idle, r}
        /\ \/ tokens' = tokens
           \/ tokens' = tokens \cup {[version |-> call[c].version, password |-> call[c].password]}
  BY <1>3 DEF RightPassword, Return, Sign, VersionToSign
<1> HIDE DEF r
<1>5. RowsKept /\ CountsKept /\ CodesOK' /\ AccountKept
  BY <1>1, SameRows DEF AccountKept
<1>6. Fits(q, account, codes) /\ (\A s \in Scopes : ~Bumps(q, s)) /\ q.pc \notin {"find", "miss"}
  BY <1>3, <1>4 DEF Fits, Bumps, Chosen
<1>7. LocksOK' /\ failures' \in [Scopes -> [count: Nat, until: Nat]]
  BY <1>1, <1>4, <1>6, LocksCleared
<1>8. CallsOK' /\ UsesOK' /\ MissesOK' /\ GuessesOK'
  BY <1>1, <1>4, <1>5, <1>6, CallsKept, UsesKept, Retiring
<1>9. /\ account.exists /\ call[c].version <= account.version
      /\ call[c].version = account.version => call[c].password = account.password
      /\ call[c].password \in Passwords
  BY <1>2 DEF Fits, Chosen
<1>10. TokensOK'
  BY <1>1, <1>4, <1>9 DEF Inv, TokensOK, PasswordTokensCurrent
<1>11. TypeOK'
  <2>1. call[c].version \in 0..MaxVersion
    <3>1. account.version \in 0..MaxVersion /\ call[c].version \in Nat
      BY <1>2 DEF Inv, TypeOK, Ranges
    <3> QED BY <1>9, <3>1, Numbers
  <2>2. tokens' \subseteq [version: 0..MaxVersion, password: Passwords \cup {NoPassword}]
    BY <1>4, <1>9, <2>1 DEF Inv, TypeOK
  <2> QED BY <1>1, <1>7, <2>2 DEF RightPassword, quiet, Inv, TypeOK, Codes
<1> QED BY <1>5, <1>7, <1>8, <1>10, <1>11 DEF Inv

\* What a step that touches the rows and one call owes: the rest is the same.
LEMMA RowsStep ==
  ASSUME LimitsAssumption, Inv, NEW c \in Calls, NEW r \in Call, call' = [call EXCEPT ![c] = r],
         r.pc \in {"idle", "mail"}, RowsKept, CountsKept,
         UNCHANGED <<quiet, account, failures, tokens, uses>>
  PROVE  Inv'
<1>1. clock' = clock /\ clock \in Nat /\ clock <= clock'
  BY RangesOK DEF quiet, Inv, Ranges
<1>2. Fits(r, account', codes') /\ \A s \in Scopes : ~Bumps(r, s)
  BY DEF Fits, Bumps, Chosen
<1>3. CallsOK'
  BY <1>2, CallsKept DEF AccountKept
<1>4. UsesOK' /\ MissesOK' /\ GuessesOK'
  BY <1>1, UsesKept, Retiring
<1>5. LocksOK'
  BY <1>1, <1>2, LocksKept
<1>6. TokensOK'
  BY DEF Inv, TokensOK, PasswordTokensCurrent
<1>7. CodesOK'
  BY DEF RowsKept
<1>8. \A k \in Codes' : codes'[k] \in Row
  BY <1>7 DEF CodesOK, Codes
<1>9. TypeOK'
  BY <1>8 DEF quiet, Inv, TypeOK
<1> QED BY <1>3, <1>4, <1>5, <1>6, <1>7, <1>9 DEF Inv

\* A new row after the old ones, of which those seen are used from now on.
LEMMA CreateKeeps == ASSUME LimitsAssumption, Inv, NEW c \in Calls, Create(c) PROVE Inv'
<1> DEFINE old == [k \in Codes |-> [codes[k] EXCEPT !.used = @ \/ k \in call[c].seen]]
           new == NewCode(c)
           r == [Idle EXCEPT !.pc = "mail", !.purpose = call[c].purpose]
<1>1. /\ Ranges /\ Fits(call[c], account, codes) /\ call[c].pc = "create"
      /\ Len(codes) < MaxCodes /\ codes \in Seq(Row)
  BY RangesOK DEF Inv, CallsOK, CodesOK, Create, At
<1>2. codes' = Append(old, new) /\ call' = [call EXCEPT ![c] = r]
  BY DEF Create
<1>3. new \in Row /\ (new.purpose = "REGISTER" => new.password \in Passwords) /\ new.attempts = 0
  <2>1. clock \in 0..MaxClock
    BY DEF Inv, TypeOK
  <2>2. call[c].purpose \in Purposes /\ (call[c].purpose = "REGISTER" => call[c].password \in Passwords)
    BY <1>1 DEF Ranges, Fits
  <2>3. (IF call[c].purpose = "REGISTER" THEN call[c].password ELSE NoPassword)
          \in Passwords \cup {NoPassword}
    BY <2>2
  <2> QED BY <2>1, <2>2, <2>3 DEF NewCode, Row
<1>4. ASSUME NEW k \in Codes
      PROVE  /\ old[k] \in Row /\ old[k].purpose = codes[k].purpose /\ old[k].at = codes[k].at
             /\ old[k].attempts = codes[k].attempts /\ old[k].gone = codes[k].gone
             /\ old[k].password = codes[k].password /\ (codes[k].used => old[k].used)
  <2>1. codes[k] \in Row
    BY <1>1 DEF Ranges
  <2>2. (codes[k].used \/ k \in call[c].seen) \in BOOLEAN
    OBVIOUS
  <2> QED BY <2>1, <2>2 DEF Row
<1>5. old \in Seq(Row) /\ Len(old) = Len(codes) /\ DOMAIN old = Codes
  <2>1. Codes = 1..Len(codes) /\ Len(codes) \in Nat
    BY <1>1 DEF Codes, Ranges
  <2>2. old \in [1..Len(codes) -> Row]
    BY <1>4, <2>1
  <2> QED BY <2>1, <2>2
<1> HIDE DEF old, new
<1>6. /\ codes' \in Seq(Row) /\ Len(codes') = Len(codes) + 1 /\ Len(codes') <= MaxCodes
      /\ \A k \in Codes : codes'[k] = old[k]
      /\ codes'[Len(codes) + 1] = new
      /\ Codes' = Codes \cup {Len(codes) + 1} /\ Len(codes) + 1 \notin Codes
  <2>1. Len(codes) \in Nat /\ Codes = 1..Len(codes) /\ Codes' = 1..Len(codes')
    BY <1>1 DEF Ranges, Codes
  <2>2. codes' \in Seq(Row) /\ Len(codes') = Len(codes) + 1 /\ codes'[Len(codes) + 1] = new
    BY <1>2, <1>3, <1>5
  <2>3. \A k \in Codes : codes'[k] = old[k]
    BY <1>2, <1>3, <1>5, <2>1
  <2> QED BY SMTT(30), <1>1, <2>1, <2>2, <2>3, Numbers
<1>7. CodesOK'
  <2>1. \A k \in Codes' : codes'[k].purpose = "REGISTER" => codes'[k].password \in Passwords
    BY <1>3, <1>4, <1>6 DEF Inv, CodesOK
  <2> QED BY <1>6, <2>1 DEF CodesOK
<1>8. RowsKept /\ CountsKept
  BY <1>3, <1>4, <1>6, <1>7 DEF RowsKept, CountsKept
<1>9. r \in Call /\ r.pc = "mail"
  BY <1>1, IdleCall DEF Ranges, Call, Pcs, Idle
<1> HIDE DEF r
<1> QED BY <1>2, <1>8, <1>9, RowsStep DEF Create

LEMMA DiscardKeeps == ASSUME LimitsAssumption, Inv, NEW c \in Calls, Discard(c) PROVE Inv'
<1>1. call' = [call EXCEPT ![c] = Idle] /\ UNCHANGED <<quiet, account, failures, tokens, uses>>
  BY DEF Discard, Return
<1>2. RowsKept /\ CountsKept
  <2>1. CASE codes' = codes
    BY <2>1, SameRows
  <2>2. CASE codes' = [k \in Codes |-> [codes[k] EXCEPT !.gone = @ \/ ~codes[k].used]]
    <3>1. ASSUME NEW k \in Codes
          PROVE  /\ codes'[k] \in Row /\ codes'[k].purpose = codes[k].purpose
                 /\ codes'[k].at = codes[k].at /\ codes'[k].attempts = codes[k].attempts
                 /\ codes'[k].used = codes[k].used /\ codes'[k].password = codes[k].password
                 /\ (codes[k].gone => codes'[k].gone)
      <4>1. codes[k] \in Row
        BY RangesOK DEF Ranges, Inv
      <4>2. codes'[k] = [codes[k] EXCEPT !.gone = codes[k].gone \/ ~codes[k].used]
        BY <2>2
      <4>3. (codes[k].gone \/ ~codes[k].used) \in BOOLEAN
        OBVIOUS
      <4> QED BY <4>1, <4>2, <4>3 DEF Row
    <3>2. Len(codes) \in Nat /\ Codes = 1..Len(codes)
      BY RangesOK DEF Ranges, Inv, Codes
    <3>3. codes' \in [1..Len(codes) -> Row]
      BY <2>2, <3>1, <3>2
    <3>4. codes' \in Seq(Row) /\ Len(codes') = Len(codes) /\ Codes' = Codes
      BY <3>2, <3>3 DEF Codes
    <3>5. CodesOK'
      BY <3>1, <3>4 DEF CodesOK, Inv
    <3> QED BY <3>1, <3>4, <3>5 DEF RowsKept, CountsKept
  <2> QED BY <2>1, <2>2 DEF Discard
<1> QED BY <1>1, <1>2, IdleCall, RowsStep

LEMMA FindKeeps == ASSUME LimitsAssumption, Inv, NEW c \in Calls, Find(c) PROVE Inv'
<1>1. CASE Refused(c)
  <2>1. call[c].purpose \in Scopes /\ Bumps(call[c], call[c].purpose)
    BY RangesOK DEF Inv, Ranges, Scopes, Bumps, Find, At
  <2> QED BY <1>1, <2>1, RefusedKeeps DEF Find, Refused
<1>2. CASE ~Refused(c)
  BY <1>2, ChooseKeeps DEF Find
<1> QED BY <1>1, <1>2

\* A row marked used, or answered wrongly once more, is a row still.
LEMMA Marked ==
  ASSUME LimitsAssumption, Inv, NEW k \in Codes,
         \/ codes' = [codes EXCEPT ![k].used = TRUE]
         \/ codes' = [codes EXCEPT ![k].attempts = @ + 1]
  PROVE  /\ RowsKept /\ CodesOK' /\ Codes' = Codes /\ (\A j \in Codes' : codes'[j] \in Row)
         /\ codes' = [codes EXCEPT ![k].used = TRUE] => CountsKept /\ codes'[k].used
<1>1. codes \in Seq(Row) /\ Len(codes) \in Nat /\ Codes = 1..Len(codes)
  BY RangesOK DEF Inv, CodesOK, Ranges, Codes
<1>2. \A j \in Codes : codes[j] \in Row /\ codes[j].attempts \in Nat
  BY RangesOK DEF Inv, Ranges
<1>3. ASSUME NEW j \in Codes
      PROVE  /\ codes'[j] \in Row /\ codes'[j].purpose = codes[j].purpose
             /\ codes'[j].at = codes[j].at /\ codes'[j].gone = codes[j].gone
             /\ codes'[j].password = codes[j].password /\ (codes[j].used => codes'[j].used)
  <2>1. codes[j] \in Row /\ codes[j].attempts + 1 \in Nat
    BY <1>2
  <2>2. CASE codes' = [codes EXCEPT ![k].used = TRUE]
    <3>1. codes'[j] = IF j = k THEN [codes[j] EXCEPT !.used = TRUE] ELSE codes[j]
      <4>1. codes \in [Codes -> Row] /\ j \in Codes /\ k \in Codes
        BY <1>1
      <4> HIDE <1>1
      <4> QED BY <2>2, <4>1
    <3> QED BY <2>1, <3>1 DEF Row
  <2>3. CASE codes' = [codes EXCEPT ![k].attempts = @ + 1]
    <3>1. codes'[j] = IF j = k THEN [codes[j] EXCEPT !.attempts = codes[j].attempts + 1] ELSE codes[j]
      BY <1>1, <2>3
    <3> QED BY <2>1, <3>1 DEF Row
  <2> QED BY <2>2, <2>3
<1>4. Len(codes') = Len(codes) /\ codes' \in [1..Len(codes) -> Row]
  BY <1>1, <1>3
<1>5. codes' \in Seq(Row) /\ Codes' = Codes
  BY <1>1, <1>4 DEF Codes
<1>6. CodesOK'
  BY <1>3, <1>4, <1>5 DEF Inv, CodesOK
<1>7. RowsKept
  BY <1>3, <1>5, <1>6 DEF RowsKept
<1>8. ASSUME codes' = [codes EXCEPT ![k].used = TRUE] PROVE CountsKept /\ codes'[k].used
  BY <1>1, <1>2, <1>5, <1>8 DEF CountsKept, Row
<1> QED BY <1>3, <1>5, <1>6, <1>7, <1>8

\* Every step that counts a wrong answer with the limiter while it changes a row.
LEMMA RowRefused ==
  ASSUME LimitsAssumption, Inv, NEW c \in Calls, Refused(c), call[c].pc \in {"miss", "burn"},
         RowsKept, MissesOK', GuessesOK', \A k \in Codes' : codes'[k] \in Row,
         UNCHANGED <<quiet, account, tokens, uses>>
  PROVE  Inv'
<1> USE IdleCall
<1>1. /\ call' = [call EXCEPT ![c] = Idle] /\ clock' = clock
      /\ failures' = Bumped(call[c].purpose) /\ account' = account
  BY DEF Refused, Return, quiet
<1>2. call[c].purpose \in Scopes /\ Bumps(call[c], call[c].purpose)
  BY RangesOK DEF Inv, Ranges, Scopes, Bumps
<1>3. LocksOK' /\ failures' \in [Scopes -> [count: Nat, until: Nat]]
  BY <1>1, <1>2, LocksBumped
<1>4. CallsOK' /\ UsesOK'
  BY <1>1, CallsKept, UsesKept DEF AccountKept
<1>5. TypeOK'
  BY <1>3 DEF quiet, Inv, TypeOK
<1>6. TokensOK' /\ CodesOK'
  BY DEF Inv, TokensOK, PasswordTokensCurrent, RowsKept
<1> QED BY <1>3, <1>4, <1>5, <1>6 DEF Inv

\* A call on its way to burn or to consume has a row.
LEMMA ChosenRow ==
  ASSUME Inv, NEW c \in Calls, call[c].pc \in Chosen
  PROVE  call[c].code \in Codes
BY DEF Inv, CallsOK, Fits, Codes

LEMMA MissKeeps == ASSUME LimitsAssumption, Inv, NEW c \in Calls, Miss(c) PROVE Inv'
<1> DEFINE k == call[c].code
<1>1. call[c].pc = "miss" /\ codes' = [codes EXCEPT ![k].attempts = @ + 1]
  BY DEF Miss, At
<1>2. k \in Codes
  BY <1>1, ChosenRow DEF Chosen
<1>3. RowsKept /\ CodesOK' /\ Codes' = Codes /\ \A j \in Codes' : codes'[j] \in Row
  BY <1>1, <1>2, Marked
<1>4. clock' = clock /\ account' = account /\ UNCHANGED <<quiet, tokens, uses>>
  BY DEF Miss, quiet
<1>5. CASE Refused(c)
  <2>1. MissesOK' /\ GuessesOK'
    BY <1>1, <1>2, <1>4, <1>5, IdleCall, MissesCounted, GuessesCounted DEF Refused, Return
  <2> QED BY <1>1, <1>3, <1>4, <1>5, <2>1, RowRefused
<1>6. CASE Goto(c, "burn") /\ failures' = failures
  <2> DEFINE r == [call[c] EXCEPT !.pc = "burn"]
  <2>1. Ranges /\ Fits(call[c], account, codes)
    BY RangesOK DEF Inv, CallsOK
  <2>2. /\ r \in Call /\ r.pc = "burn" /\ r.code = k /\ r.purpose = call[c].purpose
        /\ r.password = call[c].password
    BY <2>1 DEF Ranges, Call, Pcs
  <2>3. call' = [call EXCEPT ![c] = r]
    BY <1>6 DEF Goto, Inv, CallsOK
  <2> HIDE DEF r
  <2>4. MissesOK' /\ GuessesOK'
    BY <1>1, <1>2, <1>4, <2>2, <2>3, MissesCounted, GuessesCounted
  <2>5. Fits(r, account', codes')
    BY <1>1, <1>2, <1>3, <1>4, <2>1, <2>2 DEF Fits, Chosen, RowsKept, Codes
  <2>6. CallsOK' /\ UsesOK'
    BY <1>3, <1>4, <2>2, <2>3, <2>5, CallsKept, UsesKept DEF AccountKept
  <2>7. LocksOK'
    <3>1. \A s \in Scopes : Bumps(r, s) => Bumps(call[c], s)
      BY <1>1, <2>2 DEF Bumps
    <3>2. clock \in Nat /\ clock <= clock'
      BY <1>4, <2>1 DEF Ranges
    <3> QED BY <1>4, <1>6, <2>2, <2>3, <3>1, <3>2, LocksKept
  <2>8. TypeOK' /\ TokensOK'
    BY <1>3, <1>4, <1>6 DEF quiet, Inv, TypeOK, TokensOK, PasswordTokensCurrent
  <2> QED BY <1>3, <2>4, <2>6, <2>7, <2>8 DEF Inv
<1> QED BY <1>5, <1>6 DEF Miss

LEMMA BurnKeeps == ASSUME LimitsAssumption, Inv, NEW c \in Calls, Burn(c) PROVE Inv'
<1> DEFINE k == call[c].code
<1>1. /\ call[c].pc = "burn" /\ codes' = [codes EXCEPT ![k].used = TRUE] /\ Refused(c)
      /\ UNCHANGED <<quiet, account, tokens, uses>> /\ clock' = clock
  BY DEF Burn, At, quiet
<1>2. k \in Codes
  BY <1>1, ChosenRow DEF Chosen
<1>3. RowsKept /\ CountsKept /\ \A j \in Codes' : codes'[j] \in Row
  BY <1>1, <1>2, Marked
<1>4. MissesOK' /\ GuessesOK'
  BY <1>1, <1>3, IdleCall, Retiring DEF Refused, Return
<1> QED BY <1>1, <1>3, <1>4, RowRefused

\* The row was not used, so it was never honoured; from now on it is used.
LEMMA ConsumeKeeps == ASSUME LimitsAssumption, Inv, NEW c \in Calls, Consume(c) PROVE Inv'
<1> DEFINE k == call[c].code
<1>1. call[c].pc = "consume" /\ UNCHANGED <<quiet, account, tokens>> /\ clock' = clock
  BY DEF Consume, At, quiet
<1>2. k \in Codes
  BY <1>1, ChosenRow DEF Chosen
<1>3. CASE ~MayConsume(k)
  <2>1. call[c].purpose \in Scopes /\ Bumps(call[c], call[c].purpose)
    BY <1>1, RangesOK DEF Inv, Ranges, Scopes, Bumps
  <2> QED BY <1>1, <1>3, <2>1, RefusedKeeps DEF Consume, Refused
<1>4. CASE MayConsume(k)
  <2> DEFINE r == [call[c] EXCEPT !.pc = "spend"]
  <2>1. /\ codes' = [codes EXCEPT ![k].used = TRUE] /\ uses' = [uses EXCEPT ![k] = @ + 1]
        /\ Goto(c, "spend") /\ failures' = failures /\ ~codes[k].used
    BY <1>4 DEF Consume, MayConsume, Unspent
  <2>2. Ranges /\ Fits(call[c], account, codes)
    BY RangesOK DEF Inv, CallsOK
  <2>3. /\ r \in Call /\ r.pc = "spend" /\ r.code = k /\ r.purpose = call[c].purpose
        /\ r.password = call[c].password
    BY <2>2 DEF Ranges, Call, Pcs
  <2>4. call' = [call EXCEPT ![c] = r]
    BY <2>1 DEF Goto, Inv, CallsOK
  <2> HIDE DEF r
  <2>5. /\ RowsKept /\ CountsKept /\ CodesOK' /\ Codes' = Codes /\ codes'[k].used
        /\ \A j \in Codes' : codes'[j] \in Row
    BY <1>2, <2>1, Marked
  <2>6. Fits(r, account', codes') /\ \A s \in Scopes : ~Bumps(r, s)
    BY <1>1, <1>2, <2>2, <2>3, <2>5 DEF Fits, Chosen, Bumps, RowsKept, Codes
  <2>7. CallsOK' /\ MissesOK' /\ GuessesOK'
    BY <1>1, <2>3, <2>4, <2>5, <2>6, CallsKept, Retiring DEF AccountKept
  <2>8. LocksOK'
    <3>1. clock \in Nat /\ clock <= clock'
      BY <1>1, <2>2 DEF Ranges
    <3> QED BY <1>1, <2>1, <2>3, <2>4, <2>6, <3>1, LocksKept
  <2>9. UsesOK' /\ uses' \in [1..MaxCodes -> Nat]
    <3>1. uses \in [1..MaxCodes -> Nat] /\ UsesOK
      BY DEF Inv, TypeOK
    <3>2. k \in 1..MaxCodes
      BY SMTT(30), <1>2, <2>2, Numbers DEF Inv, CodesOK, Codes, Ranges
    <3>3. uses[k] = 0
      BY <2>1, <3>1, <3>2 DEF UsesOK
    <3>4. uses'[k] = 1 /\ \A j \in 1..MaxCodes : j # k => uses'[j] = uses[j]
      BY <2>1, <3>1, <3>2, <3>3
    <3> QED BY <1>2, <2>1, <2>5, <3>1, <3>3, <3>4 DEF UsesOK, RowsKept
  <2>10. TypeOK' /\ TokensOK'
    BY <1>1, <2>1, <2>5, <2>9 DEF quiet, Inv, TypeOK, TokensOK, PasswordTokensCurrent
  <2> QED BY <2>5, <2>7, <2>8, <2>9, <2>10 DEF Inv
<1> QED BY <1>3, <1>4

\* What a step owes that spends the code: the rows, the counts of answers and the times stay.
LEMMA SpendStep ==
  ASSUME LimitsAssumption, Inv, NEW c \in Calls, Return(c), AccountKept, TokensOK',
         account' \in [exists: BOOLEAN, password: Passwords, version: 0..MaxVersion, admin: BOOLEAN],
         tokens' \subseteq [version: 0..MaxVersion, password: Passwords \cup {NoPassword}],
         NEW s \in Scopes, failures' \in {failures, Cleared(s)},
         UNCHANGED <<quiet, codes, uses>>
  PROVE  Inv'
<1> USE IdleCall
<1>1. call' = [call EXCEPT ![c] = Idle] /\ clock' = clock
  BY DEF Return, quiet
<1>2. RowsKept /\ CountsKept /\ CodesOK'
  BY SameRows
<1>3. CallsOK' /\ UsesOK' /\ MissesOK' /\ GuessesOK'
  BY <1>1, <1>2, CallsKept, UsesKept, Retiring
<1>4. LocksOK' /\ failures' \in [Scopes -> [count: Nat, until: Nat]]
  <2>1. CASE failures' = failures
    <3>1. clock \in Nat /\ clock <= clock'
      BY <1>1, RangesOK DEF Inv, Ranges
    <3> QED BY <1>1, <2>1, <3>1, LocksKept DEF Inv, TypeOK
  <2>2. CASE failures' = Cleared(s)
    BY <1>1, <2>2, LocksCleared
  <2> QED BY <2>1, <2>2
<1>5. TypeOK'
  BY <1>4 DEF quiet, Inv, TypeOK, Codes
<1> QED BY <1>2, <1>3, <1>4, <1>5 DEF Inv

\* The first account of the address has the first token; there was none before.
LEMMA ConfirmKeeps == ASSUME LimitsAssumption, Inv, NEW c \in Calls, Confirm(c) PROVE Inv'
<1>1. /\ Return(c) /\ UNCHANGED <<quiet, codes, uses>> /\ "REGISTER" \in Scopes
  BY DEF Confirm, Scopes, Purposes
<1>2. /\ account \in [exists: BOOLEAN, password: Passwords, version: 0..MaxVersion, admin: BOOLEAN]
      /\ tokens \subseteq [version: 0..MaxVersion, password: Passwords \cup {NoPassword}]
      /\ TokensOK
  BY DEF Inv, TypeOK
<1>3. CASE account.exists
  <2>1. account' = account /\ tokens' = tokens /\ failures' = failures
    BY <1>3 DEF Confirm
  <2>2. TokensOK' /\ AccountKept
    BY <1>2, <2>1 DEF TokensOK, PasswordTokensCurrent, AccountKept
  <2> QED BY <1>1, <1>2, <2>1, <2>2, SpendStep
<1>4. CASE ~account.exists
  <2> DEFINE p == codes[call[c].code].password
  <2>1. /\ account' = [exists |-> TRUE, password |-> p, version |-> 0, admin |-> FALSE]
        /\ tokens' = tokens \cup {[version |-> 0, password |-> p]} /\ failures' = Cleared("REGISTER")
    BY <1>4 DEF Confirm, Sign
  <2>2. p \in Passwords
    <3>1. call[c].pc = "spend" /\ call[c].purpose = "REGISTER" /\ Fits(call[c], account, codes)
      BY DEF Confirm, At, Inv, CallsOK
    <3>2. call[c].code \in Codes /\ codes[call[c].code].purpose = "REGISTER"
      BY <3>1 DEF Fits, Chosen, Codes
    <3> QED BY <3>2 DEF Inv, CodesOK
  <2>3. tokens = {}
    BY <1>2, <1>4 DEF TokensOK
  <2> HIDE DEF p
  <2>4. account' \in [exists: BOOLEAN, password: Passwords, version: 0..MaxVersion, admin: BOOLEAN]
    BY <2>1, <2>2, Numbers
  <2>5. tokens' \subseteq [version: 0..MaxVersion, password: Passwords \cup {NoPassword}]
    BY <2>1, <2>2, <2>3, Numbers
  <2>6. TokensOK'
    BY <2>1, <2>3 DEF TokensOK, PasswordTokensCurrent
  <2>7. AccountKept
    BY <1>4 DEF AccountKept
  <2> QED BY <1>1, <2>1, <2>4, <2>5, <2>6, <2>7, SpendStep
<1> QED BY <1>3, <1>4

LEMMA SignInKeeps == ASSUME LimitsAssumption, Inv, NEW c \in Calls, SignIn(c) PROVE Inv'
<1>1. /\ Return(c) /\ UNCHANGED <<quiet, codes, uses>> /\ account' = account /\ "LOGIN" \in Scopes
  BY DEF SignIn, Scopes, Purposes
<1>2. /\ account \in [exists: BOOLEAN, password: Passwords, version: 0..MaxVersion, admin: BOOLEAN]
      /\ tokens \subseteq [version: 0..MaxVersion, password: Passwords \cup {NoPassword}]
      /\ TokensOK /\ account.version \in Nat
  BY RangesOK DEF Inv, TypeOK, Ranges
<1>3. failures' \in {failures, Cleared("LOGIN")}
  BY DEF SignIn
<1>4. \/ tokens' = tokens
      \/ account.exists /\ tokens' = tokens \cup {[version |-> account.version, password |-> NoPassword]}
  BY DEF SignIn, Sign
<1>5. tokens' \subseteq [version: 0..MaxVersion, password: Passwords \cup {NoPassword}]
  BY <1>2, <1>4
<1>6. TokensOK'
  BY <1>1, <1>2, <1>4 DEF TokensOK, PasswordTokensCurrent
<1> QED BY <1>1, <1>2, <1>3, <1>5, <1>6, SpendStep DEF AccountKept

\* Every token is of an earlier version from now on.
LEMMA ResetKeeps == ASSUME LimitsAssumption, Inv, NEW c \in Calls, Reset(c) PROVE Inv'
<1>1. /\ Return(c) /\ UNCHANGED <<quiet, codes, uses>> /\ tokens' = tokens
      /\ "PASSWORD_RESET" \in Scopes
  BY DEF Reset, Scopes, Purposes
<1>2. /\ account \in [exists: BOOLEAN, password: Passwords, version: 0..MaxVersion, admin: BOOLEAN]
      /\ tokens \subseteq [version: 0..MaxVersion, password: Passwords \cup {NoPassword}]
      /\ TokensOK /\ account.version \in Nat
  BY RangesOK DEF Inv, TypeOK, Ranges
<1>3. CASE ~account.exists
  <2>1. account' = account /\ failures' = failures
    BY <1>3 DEF Reset
  <2>2. TokensOK'
    BY <1>1, <1>2, <2>1 DEF TokensOK, PasswordTokensCurrent
  <2> QED BY <1>1, <1>2, <2>1, <2>2, SpendStep DEF AccountKept
<1>4. CASE account.exists
  <2> DEFINE v == account.version
  <2>1. /\ account' = [account EXCEPT !.password = call[c].password, !.version = v + 1]
        /\ failures' = Cleared("PASSWORD_RESET") /\ v < MaxVersion
    BY <1>4 DEF Reset
  <2>2. call[c].password \in Passwords
    BY DEF Reset, At, Inv, CallsOK, Fits, Chosen
  <2>3. v + 1 \in 0..MaxVersion
    BY <1>2, <2>1, Numbers
  <2>4. account' \in [exists: BOOLEAN, password: Passwords, version: 0..MaxVersion, admin: BOOLEAN]
    BY <1>2, <2>1, <2>2, <2>3
  <2>5. account'.exists /\ account'.version = v + 1
    BY <1>2, <1>4, <2>1
  <2>6. TokensOK'
    <3>1. \A t \in tokens : t.version \in Nat /\ t.version <= v
      BY <1>2 DEF TokensOK
    <3>2. \A t \in tokens : t.version <= v + 1 /\ t.version # v + 1
      BY <1>2, <3>1
    <3> QED BY <1>1, <2>5, <3>2 DEF TokensOK, PasswordTokensCurrent
  <2>7. AccountKept
    BY <1>2, <2>5 DEF AccountKept
  <2> QED BY <1>1, <1>2, <2>1, <2>4, <2>6, <2>7, SpendStep
<1> QED BY <1>3, <1>4

-----------------------------------------------------------------------------
(* Time, a restart, and all the steps *)

LEMMA TickKeeps == ASSUME LimitsAssumption, Inv, Tick PROVE Inv'
<1>1. /\ clock' = clock + 1 /\ clock < MaxClock /\ call' = call
      /\ UNCHANGED <<account, codes, failures, tokens, uses, requests, restarts>>
  BY DEF Tick
<1>2. PICK c \in Calls : TRUE
  BY DEF LimitsAssumption
<1>3. Ranges /\ call[c] \in Call /\ call' = [call EXCEPT ![c] = call[c]]
  BY <1>1, RangesOK DEF Inv, Ranges, CallsOK
<1>4. clock' \in 0..MaxClock /\ clock <= clock'
  BY SMTT(30), <1>1, <1>3, Numbers DEF Ranges
<1>5. RowsKept /\ CountsKept /\ CodesOK' /\ AccountKept
  BY <1>1, SameRows DEF AccountKept
<1>6. UsesOK' /\ CallsOK' /\ MissesOK' /\ TokensOK'
  BY <1>1 DEF Inv, UsesOK, CallsOK, MissesOK, TokensOK, PasswordTokensCurrent, Codes, Missing
<1>7. WrongAnswers' \subseteq WrongAnswers
  BY <1>4, <1>5, FewerAnswers
<1>8. GuessesOK'
  BY <1>3, <1>7, GuessesKept
<1>9. LocksOK'
  <2>1. \A s \in Scopes : Bumps(call[c], s) => Bumps(call[c], s) \/ ~Locked(s)
    OBVIOUS
  <2>2. clock' \in Nat /\ failures' = failures
    BY <1>1, <1>4, Numbers
  <2> QED BY <1>3, <1>4, <2>1, <2>2, LocksKept
<1>10. TypeOK'
  BY <1>1, <1>4 DEF Inv, TypeOK, Codes
<1> QED BY <1>5, <1>6, <1>8, <1>9, <1>10 DEF Inv

LEMMA RestartKeeps == ASSUME LimitsAssumption, Inv, Restart PROVE Inv'
<1> USE IdleCall
<1>1. /\ restarts < MaxRestarts /\ restarts' = restarts + 1 /\ call' = [d \in Calls |-> Idle]
      /\ failures' = [s \in Scopes |-> [count |-> 0, until |-> 0]]
      /\ UNCHANGED <<clock, account, codes, tokens, uses, requests>>
  BY DEF Restart
<1>2. Ranges
  BY RangesOK DEF Inv
<1>3. restarts' \in 0..MaxRestarts
  BY SMTT(30), <1>1, Numbers DEF Inv, TypeOK
<1>4. TypeOK'
  BY <1>1, <1>3 DEF Inv, TypeOK, Codes
<1>5. CodesOK' /\ UsesOK' /\ TokensOK' /\ CallsOK'
  BY <1>1 DEF Inv, CodesOK, UsesOK, TokensOK, PasswordTokensCurrent, CallsOK, Codes
<1>6. IsFiniteSet({}) /\ Cardinality({}) = 0
  BY FS_EmptySet
<1>7. MissesOK'
  <2>1. \A k \in Codes : codes[k].attempts <= PerCode + Overshoot /\ codes[k].attempts \in Nat
    BY <1>2, CodeBudgetHolds DEF CodeBudget, Ranges
  <2>2. \A k : Missing(k)' = {}
    BY <1>1 DEF Missing
  <2>3. Codes' = Codes /\ codes' = codes
    BY <1>1 DEF Codes
  <2>4. \A k \in Codes' : codes'[k].attempts + Cardinality(Missing(k)') <= PerCode + Overshoot
    BY <1>6, <2>1, <2>2, <2>3, Numbers
  <2> QED BY <2>4 DEF MissesOK, Overshoot
<1>8. GuessesOK'
  <2>1. WrongAnswers' = WrongAnswers
    BY <1>1 DEF WrongAnswers, Recent, Codes
  <2>2. Guessing' = {} /\ Guessing \subseteq Calls
    BY <1>1 DEF Guessing
  <2>3. IsFiniteSet(WrongAnswers) /\ RecentAttempts + Cardinality(Guessing) <= PerEmail + Overshoot
    BY DEF Inv, GuessesOK
  <2>4. RecentAttempts \in Nat /\ Cardinality(Guessing) \in Nat
    BY <2>2, <2>3, Counted, FS_CardinalityType DEF RecentAttempts
  <2>5. RecentAttempts' + Cardinality(Guessing') <= PerEmail + Overshoot
    BY <1>6, <2>1, <2>2, <2>3, <2>4, Numbers DEF RecentAttempts
  <2> QED BY <2>1, <2>3, <2>5 DEF GuessesOK, Overshoot
<1>9. LocksOK'
  <2>1. \A s \in Scopes : failures'[s].count = 0 /\ failures'[s].until = 0
    BY <1>1
  <2> QED BY SMTT(30), <1>1, <1>2, <2>1, Numbers DEF LocksOK, Ranges
<1> QED BY <1>4, <1>5, <1>7, <1>8, <1>9 DEF Inv

LEMMA InvNext == ASSUME LimitsAssumption, Inv, [Next]_vars PROVE Inv'
<1>1. ASSUME NEW c \in Calls, Issue(c) PROVE Inv'
  <2>1. CASE IssueCheck(c)
    BY <2>1, ReturnKeeps, GotoKeeps DEF IssueCheck, At
  <2>2. CASE Deliver(c)
    BY <2>2, ReturnKeeps DEF Deliver
  <2>3. CASE DeliveryFails(c)
    BY <2>3, GotoKeeps DEF DeliveryFails
  <2> QED BY <1>1, <2>1, <2>2, <2>3, RetireKeeps, CreateKeeps, DiscardKeeps DEF Issue
<1>2. ASSUME NEW c \in Calls, Verify(c) PROVE Inv'
  <2>1. CASE Budget(c)
    BY <2>1, ReturnKeeps, GotoKeeps DEF Budget, At
  <2>2. CASE Thrown(c)
    BY <2>2, ReturnKeeps DEF Thrown
  <2> QED BY <1>2, <2>1, <2>2, FindKeeps, MissKeeps, BurnKeeps, ConsumeKeeps DEF Verify
<1>3. ASSUME NEW c \in Calls, Login(c) \/ Spend(c) PROVE Inv'
  BY <1>3, ReadAccountKeeps, WrongPasswordKeeps, RightPasswordKeeps, ConfirmKeeps, SignInKeeps, ResetKeeps
     DEF Login, Spend
<1>4. CASE UNCHANGED vars
  <2>1. UNCHANGED <<clock, account, codes, failures, tokens, uses, call, requests, restarts>>
    BY <1>4 DEF vars
  <2> QED BY ZenonT(60), <2>1 DEF Inv, TypeOK, CodesOK, CallsOK, UsesOK, TokensOK, PasswordTokensCurrent, MissesOK,
             GuessesOK, LocksOK, Codes, Missing, Guessing, Bumping, WrongAnswers, RecentAttempts, Recent
<1> QED BY <1>1, <1>2, <1>3, <1>4, AskKeeps, AnswerKeeps, TickKeeps, RestartKeeps DEF Next

LEMMA Invariant == ASSUME LimitsAssumption PROVE Spec => []Inv
<1>1. Init => Inv
  BY InvInit
<1>2. Inv /\ [Next]_vars => Inv'
  BY InvNext
<1> QED BY <1>1, <1>2, PTL DEF Spec

-----------------------------------------------------------------------------
(* The theorems *)

\* The account, its rows, its tokens and the limiter keep their types.
THEOREM AccountsTypeCorrect == ASSUME LimitsAssumption PROVE Spec => []TypeOK
<1>1. Inv => TypeOK
  BY DEF Inv
<1> QED BY <1>1, Invariant, PTL

\* A code is honoured at most once however the answers to it interleave (otp.service.ts:291-299), and
\* wrong answers stay within the limits per code, per address and per account, but for those
\* of requests that had passed their check (otp.service.ts:246-290, rateLimit.service.ts).
THEOREM CodesOnce == ASSUME LimitsAssumption PROVE Spec => []CodesAreHonouredOnce
<1>1. Inv => CodeHonouredOnce
  <2>1. SUFFICES ASSUME Inv, NEW k \in 1..MaxCodes PROVE uses[k] <= 1
    BY DEF CodeHonouredOnce
  <2>2. uses \in [1..MaxCodes -> Nat] /\ UsesOK
    BY <2>1 DEF Inv, TypeOK
  <2>3. uses[k] = 0 \/ uses[k] = 1
    BY <2>2 DEF UsesOK
  <2> QED BY <2>3
<1>2. Inv => BudgetsHold
  <2> SUFFICES ASSUME Inv PROVE BudgetsHold
    OBVIOUS
  <2>1. Ranges
    BY RangesOK DEF Inv
  <2>2. CodeBudget
    BY CodeBudgetHolds
  <2>3. AddressBudget
    <3>1. IsFiniteSet(WrongAnswers) /\ RecentAttempts + Cardinality(Guessing) <= PerEmail + Overshoot
      BY DEF Inv, GuessesOK
    <3>2. Guessing \subseteq Calls
      BY DEF Guessing
    <3>3. RecentAttempts \in Nat /\ Cardinality(Guessing) \in Nat
      BY <3>1, <3>2, Counted, FS_CardinalityType DEF RecentAttempts
    <3> QED BY <3>1, <3>3, Numbers DEF AddressBudget
  <2>4. LockoutBudget
    BY <2>1, Numbers DEF LockoutBudget, Inv, LocksOK, Ranges
  <2> QED BY <2>2, <2>3, <2>4 DEF BudgetsHold
<1>3. Inv => CodesAreHonouredOnce
  BY <1>1, <1>2 DEF CodesAreHonouredOnce
<1> QED BY <1>3, Invariant, PTL

\* A token given for a password dies with it, even when the reset commits while the token is
\* being signed (auth.routes.ts).
THEOREM TokensDieWithTheirPassword == ASSUME LimitsAssumption PROVE Spec => []PasswordTokensCurrent
<1>1. Inv => PasswordTokensCurrent
  BY DEF Inv, TokensOK
<1> QED BY <1>1, Invariant, PTL

-----------------------------------------------------------------------------
(* The inductive invariant of the connection *)

Held == Tokens \cup {NoToken}
Wires == {"connecting", "open", "closing", "closed"}
Socket ==
  [run: Nat, token: Held, wire: Wires, server: {"none", "checking", "verified", "refused"},
   up: Seq(Nat)]
Statuses == {"idle", "connecting", "open", "reconnecting", "closed", "unauthorized"}
Run == [n: Nat, token: Held, nonce: Nat]
Handling == [m: Nat, routed: BOOLEAN]

HookTypes ==
  /\ stored \in Held /\ token \in Held /\ nonce \in Nat /\ run \in Run
  /\ attempts \in 0..MaxRetries /\ intentional \in BOOLEAN /\ timer \in BOOLEAN
  /\ status \in Statuses

SocketTypes == socks \in Seq(Socket) /\ cur \in 0..Len(socks)

FrameTypes ==
  /\ outbox \in Seq(Nat) /\ Len(outbox) <= OutboxMax
  /\ composed \in Nat /\ handled \in Seq(Handling)

\* Of the last run only the current socket is in use; one closed on purpose is on its way
\* out, and while one is current nothing waits to open another.
OneInUse ==
  /\ \A c \in 1..Len(socks) :
       /\ socks[c].run <= run.n
       /\ socks[c].run = run.n /\ socks[c].wire # "closed" =>
            c = cur \/ (intentional /\ socks[c].wire = "closing")
  /\ cur # 0 => ~intentional /\ socks[cur].run = run.n /\ socks[cur].wire \in {"connecting", "open"}
  /\ timer => cur = 0 /\ ~intentional /\ status = "reconnecting"
  /\ status \in {"idle", "closed", "unauthorized"} => cur = 0
  /\ status = "open" => cur # 0

\* A frame is in one place: the outbox, one socket, or the server's record.
QueueOK ==
  \A i \in 1..Len(outbox) :
    outbox[i] <= composed /\ \A j \in 1..Len(outbox) : outbox[i] = outbox[j] => i = j

WiresOK ==
  \A c \in 1..Len(socks) : \A i \in 1..Len(socks[c].up) :
    /\ socks[c].up[i] <= composed
    /\ \A d \in 1..Len(socks) : \A j \in 1..Len(socks[d].up) :
         socks[c].up[i] = socks[d].up[j] => c = d /\ i = j
    /\ \A j \in 1..Len(outbox) : socks[c].up[i] # outbox[j]

RecordOK ==
  \A i \in 1..Len(handled) :
    /\ handled[i].m <= composed
    /\ \A j \in 1..Len(handled) : handled[i].m = handled[j].m => i = j
    /\ \A j \in 1..Len(outbox) : handled[i].m # outbox[j]
    /\ \A c \in 1..Len(socks) : \A j \in 1..Len(socks[c].up) : handled[i].m # socks[c].up[j]

OnePlace == QueueOK /\ WiresOK /\ RecordOK

LinkInv == HookTypes /\ SocketTypes /\ FrameTypes /\ OneInUse /\ OnePlace

-----------------------------------------------------------------------------
(* Sockets *)

\* A socket as open() makes it, for a run.
Fresh(r) == [run |-> r.n, token |-> r.token, wire |-> "connecting", server |-> "none", up |-> <<>>]

LEMMA FreshSocket ==
  ASSUME NEW r \in Run
  PROVE  /\ Fresh(r) \in Socket /\ Fresh(r).run = r.n /\ Fresh(r).wire = "connecting"
         /\ Fresh(r).up = <<>>
<1>1. <<>> \in Seq(Nat)
  OBVIOUS
<1> QED BY <1>1 DEF Fresh, Run, Socket, Wires

\* Another socket in the place of one of them.
LEMMA Replaced ==
  ASSUME NEW s \in Seq(Socket), NEW c \in 1..Len(s), NEW n \in Socket
  PROVE  /\ [s EXCEPT ![c] = n] \in Seq(Socket)
         /\ Len([s EXCEPT ![c] = n]) = Len(s)
         /\ [s EXCEPT ![c] = n][c] = n
         /\ \A d \in 1..Len(s) : d # c => [s EXCEPT ![c] = n][d] = s[d]
  BY ExceptSeq, LenProperties

LEMMA Appended ==
  ASSUME NEW s \in Seq(Socket), NEW n \in Socket
  PROVE  /\ Append(s, n) \in Seq(Socket)
         /\ Len(Append(s, n)) = Len(s) + 1
         /\ Append(s, n)[Len(s) + 1] = n
         /\ \A d \in 1..Len(s) : Append(s, n)[d] = s[d]
  BY AppendProperties

LEMMA SocketAt ==
  ASSUME SocketTypes, NEW c \in 1..Len(socks)
  PROVE  socks[c] \in Socket /\ socks[c].up \in Seq(Nat)
<1>1. socks[c] \in Socket
  BY ElementOfSeq DEF SocketTypes
<1> QED BY <1>1 DEF Socket

\* What closing leaves of a socket: all but that it was in use.
LEMMA ClosingKeeps ==
  ASSUME SocketTypes, NEW c \in 1..Len(socks)
  PROVE  /\ Closing(c) \in Seq(Socket) /\ Len(Closing(c)) = Len(socks)
         /\ \A d \in 1..Len(socks) : Closing(c)[d].run = socks[d].run /\ Closing(c)[d].up = socks[d].up
         /\ \A d \in 1..Len(socks) : d # c => Closing(c)[d] = socks[d]
         /\ Closing(c)[c].wire \in {"closing", "closed"}
<1>1. socks \in Seq(Socket) /\ socks[c] \in Socket
  BY ElementOfSeq DEF SocketTypes
<1>2. PICK n : n = [socks[c] EXCEPT !.wire = IF @ \in {"connecting", "open"} THEN "closing" ELSE @]
  OBVIOUS
<1>3. /\ n \in Socket /\ n.run = socks[c].run /\ n.up = socks[c].up
      /\ n.wire \in {"closing", "closed"}
  BY <1>1, <1>2 DEF Socket, Wires
<1>4. Closing(c) = [socks EXCEPT ![c] = n]
  BY <1>2 DEF Closing
<1> QED BY <1>1, <1>3, <1>4, Replaced

-----------------------------------------------------------------------------
(* Frames *)

\* Sockets closed, lost and opened lose frames and make none.
LEMMA FewerFrames ==
  ASSUME SocketTypes, FrameTypes, OnePlace, SocketTypes', UNCHANGED <<outbox, composed, handled>>,
         \A c \in 1..Len(socks') :
           socks'[c].up = <<>> \/ (c \in 1..Len(socks) /\ socks'[c].up = socks[c].up)
  PROVE  OnePlace'
<1>1. ASSUME NEW c \in 1..Len(socks'), NEW i \in 1..Len(socks'[c].up)
      PROVE  c \in 1..Len(socks) /\ socks'[c].up = socks[c].up /\ i \in 1..Len(socks[c].up)
  <2>1. socks'[c].up # <<>>
    BY <1>1
  <2> QED BY <1>1, <2>1
<1>2. QueueOK'
  BY DEF OnePlace, QueueOK
<1>3. WiresOK'
  <2> SUFFICES ASSUME NEW c \in 1..Len(socks'), NEW i \in 1..Len(socks'[c].up)
               PROVE  /\ socks'[c].up[i] <= composed'
                      /\ \A d \in 1..Len(socks') : \A j \in 1..Len(socks'[d].up) :
                           socks'[c].up[i] = socks'[d].up[j] => c = d /\ i = j
                      /\ \A j \in 1..Len(outbox') : socks'[c].up[i] # outbox'[j]
    BY DEF WiresOK
  <2>1. c \in 1..Len(socks) /\ socks'[c].up = socks[c].up /\ i \in 1..Len(socks[c].up)
    BY <1>1
  <2>2. ASSUME NEW d \in 1..Len(socks'), NEW j \in 1..Len(socks'[d].up),
               socks'[c].up[i] = socks'[d].up[j]
        PROVE  c = d /\ i = j
    <3>1. d \in 1..Len(socks) /\ socks'[d].up = socks[d].up /\ j \in 1..Len(socks[d].up)
      BY <1>1
    <3> QED BY <2>1, <2>2, <3>1 DEF OnePlace, WiresOK
  <2> QED BY <2>1, <2>2 DEF OnePlace, WiresOK
<1>4. RecordOK'
  BY <1>1 DEF OnePlace, RecordOK
<1> QED BY <1>2, <1>3, <1>4 DEF OnePlace

\* A frame is a number, and one composed in this step is new.
LEMMA FrameNumbers ==
  ASSUME SocketTypes, FrameTypes, OnePlace
  PROVE  /\ composed \in Nat /\ composed + 1 \in Nat
         /\ \A i \in 1..Len(outbox) : outbox[i] \in Nat /\ outbox[i] <= composed
         /\ \A c \in 1..Len(socks) : \A i \in 1..Len(socks[c].up) :
              socks[c].up[i] \in Nat /\ socks[c].up[i] <= composed
         /\ \A i \in 1..Len(handled) : handled[i].m \in Nat /\ handled[i].m <= composed
<1>1. composed \in Nat
  BY DEF FrameTypes
<1>2. ASSUME NEW i \in 1..Len(outbox) PROVE outbox[i] \in Nat /\ outbox[i] <= composed
  BY ElementOfSeq DEF FrameTypes, OnePlace, QueueOK
<1>3. ASSUME NEW c \in 1..Len(socks), NEW i \in 1..Len(socks[c].up)
      PROVE  socks[c].up[i] \in Nat /\ socks[c].up[i] <= composed
  <2>1. socks[c].up \in Seq(Nat)
    BY SocketAt
  <2>2. socks[c].up[i] \in Nat
    BY <2>1, ElementOfSeq
  <2>3. socks[c].up[i] <= composed
    BY DEF OnePlace, WiresOK
  <2> QED BY <2>2, <2>3
<1>4. ASSUME NEW i \in 1..Len(handled) PROVE handled[i].m \in Nat /\ handled[i].m <= composed
  <2>1. handled[i] \in Handling
    BY ElementOfSeq DEF FrameTypes
  <2>2. handled[i].m \in Nat
    BY <2>1 DEF Handling
  <2>3. handled[i].m <= composed
    BY DEF OnePlace, RecordOK
  <2> QED BY <2>2, <2>3
<1> QED BY <1>1, <1>2, <1>3, <1>4

\* The outbox keeps the frames it had, or all but the oldest, in front of the new one.
LEMMA KeptFrames ==
  ASSUME NEW q \in Seq(Nat), NEW m \in Nat, OutboxMax \in Nat, Len(q) <= OutboxMax
  PROVE  /\ Kept(Append(q, m)) \in Seq(Nat) /\ Len(Kept(Append(q, m))) <= OutboxMax
         /\ \E k \in {0, 1} : \A i \in 1..Len(Kept(Append(q, m))) :
              \/ i + k \in 1..Len(q) /\ Kept(Append(q, m))[i] = q[i + k]
              \/ i + k = Len(q) + 1 /\ Kept(Append(q, m))[i] = m
<1> DEFINE a == Append(q, m)
<1>1. /\ a \in Seq(Nat) /\ a # <<>> /\ Len(a) = Len(q) + 1 /\ Len(q) \in Nat
      /\ \A i \in 1..Len(q) : a[i] = q[i]
      /\ a[Len(q) + 1] = m
  BY AppendProperties, LenProperties
<1>2. /\ Tail(a) \in Seq(Nat) /\ Len(Tail(a)) = Len(a) - 1
      /\ \A i \in 1..Len(Tail(a)) : Tail(a)[i] = a[i + 1]
  BY <1>1, HeadTailProperties
<1> HIDE DEF a
<1>3. CASE Len(a) > OutboxMax
  <2>1. Kept(a) = Tail(a)
    BY <1>3 DEF Kept
  <2>2. ASSUME NEW i \in 1..Len(Tail(a))
        PROVE  \/ i + 1 \in 1..Len(q) /\ Tail(a)[i] = q[i + 1]
               \/ i + 1 = Len(q) + 1 /\ Tail(a)[i] = m
    <3>1. Tail(a)[i] = a[i + 1] /\ i \in 1..Len(q)
      BY <1>1, <1>2
    <3> QED BY <1>1, <3>1
  <2>3. Len(Tail(a)) <= OutboxMax
    BY <1>1, <1>2
  <2> QED BY <1>2, <2>1, <2>2, <2>3 DEF a
<1>4. CASE ~(Len(a) > OutboxMax)
  <2>1. Kept(a) = a
    BY <1>4 DEF Kept
  <2>2. \A i \in 1..Len(a) : \/ i + 0 \in 1..Len(q) /\ a[i] = q[i + 0]
                             \/ i + 0 = Len(q) + 1 /\ a[i] = m
    BY <1>1
  <2>3. Len(a) <= OutboxMax
    BY <1>1, <1>4
  <2> QED BY <1>1, <2>1, <2>2, <2>3 DEF a
<1> QED BY <1>3, <1>4

\* A frame that finds no open socket waits in the outbox.
LEMMA BoxedFrame ==
  ASSUME SocketTypes, FrameTypes, OnePlace, NEW k \in {0, 1},
         \A i \in 1..Len(outbox') :
           \/ i + k \in 1..Len(outbox) /\ outbox'[i] = outbox[i + k]
           \/ i + k = Len(outbox) + 1 /\ outbox'[i] = composed + 1,
         composed' = composed + 1, UNCHANGED <<socks, handled>>
  PROVE  OnePlace'
<1>1. /\ composed \in Nat
      /\ \A i \in 1..Len(outbox) : outbox[i] \in Nat /\ outbox[i] <= composed
      /\ \A c \in 1..Len(socks) : \A i \in 1..Len(socks[c].up) :
           socks[c].up[i] \in Nat /\ socks[c].up[i] <= composed
      /\ \A i \in 1..Len(handled) : handled[i].m \in Nat /\ handled[i].m <= composed
  BY FrameNumbers
<1>2. QueueOK'
  <2> SUFFICES ASSUME NEW i \in 1..Len(outbox'), NEW j \in 1..Len(outbox')
               PROVE  /\ outbox'[i] <= composed'
                      /\ outbox'[i] = outbox'[j] => i = j
    BY DEF QueueOK
  <2>1. \/ i + k \in 1..Len(outbox) /\ outbox'[i] = outbox[i + k]
        \/ i + k = Len(outbox) + 1 /\ outbox'[i] = composed + 1
    OBVIOUS
  <2>2. \/ j + k \in 1..Len(outbox) /\ outbox'[j] = outbox[j + k]
        \/ j + k = Len(outbox) + 1 /\ outbox'[j] = composed + 1
    OBVIOUS
  <2>3. outbox'[i] <= composed'
    BY <1>1, <2>1
  <2>4. ASSUME outbox'[i] = outbox'[j] PROVE i + k = j + k
    BY <1>1, <2>1, <2>2, <2>4 DEF OnePlace, QueueOK
  <2> QED BY <2>3, <2>4
<1>3. WiresOK'
  <2> SUFFICES ASSUME NEW c \in 1..Len(socks), NEW i \in 1..Len(socks[c].up)
               PROVE  /\ socks[c].up[i] <= composed'
                      /\ \A d \in 1..Len(socks) : \A j \in 1..Len(socks[d].up) :
                           socks[c].up[i] = socks[d].up[j] => c = d /\ i = j
                      /\ \A j \in 1..Len(outbox') : socks[c].up[i] # outbox'[j]
    BY DEF WiresOK
  <2>1. socks[c].up[i] <= composed' /\ socks[c].up[i] # composed + 1
    BY <1>1
  <2>2. \A j \in 1..Len(outbox) : socks[c].up[i] # outbox[j]
    BY DEF OnePlace, WiresOK
  <2>3. ASSUME NEW j \in 1..Len(outbox') PROVE socks[c].up[i] # outbox'[j]
    BY <2>1, <2>2
  <2> QED BY <2>1, <2>3 DEF OnePlace, WiresOK
<1>4. RecordOK'
  <2> SUFFICES ASSUME NEW i \in 1..Len(handled)
               PROVE  /\ handled[i].m <= composed'
                      /\ \A j \in 1..Len(outbox') : handled[i].m # outbox'[j]
    BY DEF OnePlace, RecordOK
  <2>1. handled[i].m <= composed' /\ handled[i].m # composed + 1
    BY <1>1
  <2>2. \A j \in 1..Len(outbox) : handled[i].m # outbox[j]
    BY DEF OnePlace, RecordOK
  <2> QED BY <2>1, <2>2
<1> QED BY <1>2, <1>3, <1>4 DEF OnePlace

\* A frame that finds one goes out on it.
LEMMA SentFrame ==
  ASSUME SocketTypes, FrameTypes, OnePlace, NEW c \in 1..Len(socks), Len(socks') = Len(socks),
         \A d \in 1..Len(socks) : \A i \in 1..Len(socks'[d].up) :
           \/ i \in 1..Len(socks[d].up) /\ socks'[d].up[i] = socks[d].up[i]
           \/ d = c /\ i = Len(socks[c].up) + 1 /\ socks'[d].up[i] = composed + 1,
         composed' = composed + 1, UNCHANGED <<outbox, handled>>
  PROVE  OnePlace'
<1>1. /\ composed \in Nat
      /\ \A i \in 1..Len(outbox) : outbox[i] \in Nat /\ outbox[i] <= composed
      /\ \A d \in 1..Len(socks) : \A i \in 1..Len(socks[d].up) :
           socks[d].up[i] \in Nat /\ socks[d].up[i] <= composed
      /\ \A i \in 1..Len(handled) : handled[i].m \in Nat /\ handled[i].m <= composed
  BY FrameNumbers
<1>2. QueueOK'
  BY <1>1 DEF OnePlace, QueueOK
<1>3. WiresOK'
  <2> SUFFICES ASSUME NEW d \in 1..Len(socks), NEW i \in 1..Len(socks'[d].up)
               PROVE  /\ socks'[d].up[i] <= composed'
                      /\ \A e \in 1..Len(socks) : \A j \in 1..Len(socks'[e].up) :
                           socks'[d].up[i] = socks'[e].up[j] => d = e /\ i = j
                      /\ \A j \in 1..Len(outbox) : socks'[d].up[i] # outbox[j]
    BY DEF WiresOK
  <2>1. \/ i \in 1..Len(socks[d].up) /\ socks'[d].up[i] = socks[d].up[i]
        \/ d = c /\ i = Len(socks[c].up) + 1 /\ socks'[d].up[i] = composed + 1
    OBVIOUS
  <2>2. socks'[d].up[i] <= composed'
    BY <1>1, <2>1
  <2>3. ASSUME NEW e \in 1..Len(socks), NEW j \in 1..Len(socks'[e].up),
               socks'[d].up[i] = socks'[e].up[j]
        PROVE  d = e /\ i = j
    <3>1. \/ j \in 1..Len(socks[e].up) /\ socks'[e].up[j] = socks[e].up[j]
          \/ e = c /\ j = Len(socks[c].up) + 1 /\ socks'[e].up[j] = composed + 1
      OBVIOUS
    <3> QED BY <1>1, <2>1, <2>3, <3>1 DEF OnePlace, WiresOK
  <2>4. ASSUME NEW j \in 1..Len(outbox) PROVE socks'[d].up[i] # outbox[j]
    BY SMTT(30), <1>1, <2>1 DEF OnePlace, WiresOK
  <2> QED BY <2>2, <2>3, <2>4
<1>4. RecordOK'
  <2> SUFFICES ASSUME NEW i \in 1..Len(handled)
               PROVE  /\ handled[i].m <= composed'
                      /\ \A d \in 1..Len(socks) : \A j \in 1..Len(socks'[d].up) :
                           handled[i].m # socks'[d].up[j]
    BY DEF OnePlace, RecordOK
  <2>1. handled[i].m <= composed' /\ handled[i].m # composed + 1
    BY <1>1
  <2>2. \A d \in 1..Len(socks) : \A j \in 1..Len(socks[d].up) : handled[i].m # socks[d].up[j]
    BY DEF OnePlace, RecordOK
  <2> QED BY <2>1, <2>2
<1> QED BY <1>2, <1>3, <1>4 DEF OnePlace

\* The flush of onopen moves the outbox to a socket.
LEMMA FlushedFrames ==
  ASSUME SocketTypes, FrameTypes, OnePlace, NEW c \in 1..Len(socks), Len(socks') = Len(socks),
         socks'[c].up = outbox,
         \A d \in 1..Len(socks) : d # c => socks'[d].up = socks[d].up,
         Len(outbox') = 0, UNCHANGED <<composed, handled>>
  PROVE  OnePlace'
<1>1. ASSUME NEW d \in 1..Len(socks), NEW i \in 1..Len(socks'[d].up)
      PROVE  \/ d # c /\ i \in 1..Len(socks[d].up) /\ socks'[d].up[i] = socks[d].up[i]
             \/ d = c /\ i \in 1..Len(outbox) /\ socks'[d].up[i] = outbox[i]
  OBVIOUS
<1>2. QueueOK'
  BY DEF QueueOK
<1>3. WiresOK'
  <2> SUFFICES ASSUME NEW d \in 1..Len(socks), NEW i \in 1..Len(socks'[d].up)
               PROVE  /\ socks'[d].up[i] <= composed
                      /\ \A e \in 1..Len(socks) : \A j \in 1..Len(socks'[e].up) :
                           socks'[d].up[i] = socks'[e].up[j] => d = e /\ i = j
    BY DEF WiresOK
  <2>1. socks'[d].up[i] <= composed
    BY <1>1 DEF OnePlace, QueueOK, WiresOK
  <2>2. ASSUME NEW e \in 1..Len(socks), NEW j \in 1..Len(socks'[e].up),
               socks'[d].up[i] = socks'[e].up[j]
        PROVE  d = e /\ i = j
    <3>1. \/ d # c /\ i \in 1..Len(socks[d].up) /\ socks'[d].up[i] = socks[d].up[i]
          \/ d = c /\ i \in 1..Len(outbox) /\ socks'[d].up[i] = outbox[i]
      BY <1>1
    <3>2. \/ e # c /\ j \in 1..Len(socks[e].up) /\ socks'[e].up[j] = socks[e].up[j]
          \/ e = c /\ j \in 1..Len(outbox) /\ socks'[e].up[j] = outbox[j]
      BY <1>1
    <3> QED BY <2>2, <3>1, <3>2 DEF OnePlace, QueueOK, WiresOK
  <2> QED BY <2>1, <2>2
<1>4. RecordOK'
  <2> SUFFICES ASSUME NEW i \in 1..Len(handled)
               PROVE  \A d \in 1..Len(socks) : \A j \in 1..Len(socks'[d].up) :
                        handled[i].m # socks'[d].up[j]
    BY DEF OnePlace, RecordOK
  <2> QED BY <1>1 DEF OnePlace, RecordOK
<1> QED BY <1>2, <1>3, <1>4 DEF OnePlace

\* The server takes the first frame of a socket.
LEMMA HandledFrame ==
  ASSUME SocketTypes, FrameTypes, OnePlace,
         NEW c \in 1..Len(socks), 1 \in 1..Len(socks[c].up), Len(socks') = Len(socks),
         \A d \in 1..Len(socks) : \A i \in 1..Len(socks'[d].up) :
           \/ d # c /\ i \in 1..Len(socks[d].up) /\ socks'[d].up[i] = socks[d].up[i]
           \/ d = c /\ i + 1 \in 1..Len(socks[c].up) /\ socks'[d].up[i] = socks[c].up[i + 1],
         \A k \in 1..Len(handled') :
           \/ k \in 1..Len(handled) /\ handled'[k].m = handled[k].m
           \/ k = Len(handled) + 1 /\ handled'[k].m = socks[c].up[1],
         UNCHANGED <<composed, outbox>>
  PROVE  OnePlace'
<1>1. QueueOK'
  BY DEF OnePlace, QueueOK
<1>2. WiresOK'
  <2> SUFFICES ASSUME NEW d \in 1..Len(socks), NEW i \in 1..Len(socks'[d].up)
               PROVE  /\ socks'[d].up[i] <= composed
                      /\ \A e \in 1..Len(socks) : \A j \in 1..Len(socks'[e].up) :
                           socks'[d].up[i] = socks'[e].up[j] => d = e /\ i = j
                      /\ \A j \in 1..Len(outbox) : socks'[d].up[i] # outbox[j]
    BY DEF WiresOK
  <2>1. PICK x \in 1..Len(socks[d].up) :
          socks'[d].up[i] = socks[d].up[x] /\ x = IF d = c THEN i + 1 ELSE i
    OBVIOUS
  <2>2. /\ socks'[d].up[i] <= composed
        /\ \A j \in 1..Len(outbox) : socks'[d].up[i] # outbox[j]
    BY <2>1 DEF OnePlace, WiresOK
  <2>3. ASSUME NEW e \in 1..Len(socks), NEW j \in 1..Len(socks'[e].up),
               socks'[d].up[i] = socks'[e].up[j]
        PROVE  d = e /\ i = j
    <3>1. PICK y \in 1..Len(socks[e].up) :
            socks'[e].up[j] = socks[e].up[y] /\ y = IF e = c THEN j + 1 ELSE j
      OBVIOUS
    <3>2. d = e /\ x = y
      BY <2>1, <2>3, <3>1 DEF OnePlace, WiresOK
    <3> QED BY <2>1, <3>1, <3>2
  <2> QED BY <2>2, <2>3
<1>3. RecordOK'
  <2> SUFFICES ASSUME NEW i \in 1..Len(handled')
               PROVE  /\ handled'[i].m <= composed
                      /\ \A j \in 1..Len(handled') : handled'[i].m = handled'[j].m => i = j
                      /\ \A j \in 1..Len(outbox) : handled'[i].m # outbox[j]
                      /\ \A d \in 1..Len(socks) : \A j \in 1..Len(socks'[d].up) :
                           handled'[i].m # socks'[d].up[j]
    BY DEF RecordOK
  <2>1. /\ socks[c].up[1] <= composed
        /\ \A j \in 1..Len(outbox) : socks[c].up[1] # outbox[j]
        /\ \A k \in 1..Len(handled) : handled[k].m # socks[c].up[1]
    BY DEF OnePlace, WiresOK, RecordOK
  <2>2. \A d \in 1..Len(socks) : \A j \in 1..Len(socks'[d].up) : socks[c].up[1] # socks'[d].up[j]
    <3> SUFFICES ASSUME NEW d \in 1..Len(socks), NEW j \in 1..Len(socks'[d].up)
                 PROVE  socks[c].up[1] # socks'[d].up[j]
      OBVIOUS
    <3>1. \/ d # c /\ j \in 1..Len(socks[d].up) /\ socks'[d].up[j] = socks[d].up[j]
          \/ d = c /\ j + 1 \in 1..Len(socks[c].up) /\ socks'[d].up[j] = socks[c].up[j + 1]
      OBVIOUS
    <3>2. \A e \in 1..Len(socks) : \A k \in 1..Len(socks[e].up) :
            socks[c].up[1] = socks[e].up[k] => c = e /\ 1 = k
      BY DEF OnePlace, WiresOK
    <3>3. CASE d # c
      BY <3>1, <3>2, <3>3
    <3>4. CASE d = c
      <4>1. j + 1 # 1
        OBVIOUS
      <4> QED BY <3>1, <3>2, <3>4, <4>1
    <3> QED BY <3>3, <3>4
  <2>3. \/ i \in 1..Len(handled) /\ handled'[i].m = handled[i].m
        \/ i = Len(handled) + 1 /\ handled'[i].m = socks[c].up[1]
    OBVIOUS
  <2>4. /\ handled'[i].m <= composed
        /\ \A j \in 1..Len(outbox) : handled'[i].m # outbox[j]
    BY <2>1, <2>3 DEF OnePlace, RecordOK
  <2>5. ASSUME NEW j \in 1..Len(handled'), handled'[i].m = handled'[j].m PROVE i = j
    <3>1. \/ j \in 1..Len(handled) /\ handled'[j].m = handled[j].m
          \/ j = Len(handled) + 1 /\ handled'[j].m = socks[c].up[1]
      OBVIOUS
    <3> QED BY <2>1, <2>3, <2>5, <3>1 DEF OnePlace, RecordOK
  <2>6. ASSUME NEW d \in 1..Len(socks), NEW j \in 1..Len(socks'[d].up)
        PROVE  handled'[i].m # socks'[d].up[j]
    <3>1. CASE i = Len(handled) + 1 /\ handled'[i].m = socks[c].up[1]
      BY <2>2, <3>1
    <3>2. CASE i \in 1..Len(handled) /\ handled'[i].m = handled[i].m
      <4>1. \E x \in 1..Len(socks[d].up) : socks'[d].up[j] = socks[d].up[x]
        OBVIOUS
      <4> QED BY <3>2, <4>1 DEF OnePlace, RecordOK
    <3> QED BY <2>3, <3>1, <3>2
  <2> QED BY <2>4, <2>5, <2>6
<1> QED BY <1>1, <1>2, <1>3 DEF OnePlace

-----------------------------------------------------------------------------
(* The steps *)

LEMMA InitInv ==
  ASSUME ClientLinkAssumption, LinkInit
  PROVE  LinkInv
<1>1. HookTypes
  <2>1. MaxRetries \in Nat
    BY DEF ClientLinkAssumption
  <2>2. run \in Run
    BY DEF LinkInit, Run, Held
  <2>3. attempts \in 0..MaxRetries
    BY <2>1 DEF LinkInit
  <2> QED BY <2>2, <2>3 DEF LinkInit, HookTypes, Held, Statuses
<1>2. Len(socks) = 0 /\ Len(outbox) = 0 /\ Len(handled) = 0
  BY DEF LinkInit
<1>3. SocketTypes /\ FrameTypes
  BY <1>2 DEF ClientLinkAssumption, LinkInit, SocketTypes, FrameTypes
<1>4. OneInUse /\ OnePlace
  BY <1>2 DEF LinkInit, OneInUse, OnePlace, QueueOK, WiresOK, RecordOK
<1> QED BY <1>1, <1>3, <1>4 DEF LinkInv

\* What changes the token or the counter leaves the sockets to the effect.
LEMMA CredentialStep ==
  ASSUME LinkInv, HookTypes',
         UNCHANGED <<run, socks, cur, intentional, timer, status, frames, handled>>
  PROVE  LinkInv'
<1>1. SocketTypes' /\ FrameTypes' /\ OneInUse'
  BY DEF LinkInv, SocketTypes, FrameTypes, OneInUse, frames
<1>2. OnePlace'
  BY DEF LinkInv, OnePlace, QueueOK, WiresOK, RecordOK, frames
<1> QED BY <1>1, <1>2 DEF LinkInv

\* The current socket is one, or none is.
LEMMA Current ==
  ASSUME LinkInv
  PROVE  /\ Len(socks) \in Nat /\ run.n \in Nat /\ run.token \in Held
         /\ \A c \in 1..Len(socks) : socks[c] \in Socket /\ socks[c].run \in Nat
         /\ cur = 0 \/ cur \in 1..Len(socks)
<1>1. socks \in Seq(Socket) /\ Len(socks) \in Nat
  BY LenProperties DEF LinkInv, SocketTypes
<1>2. \A c \in 1..Len(socks) : socks[c] \in Socket
  BY SocketAt DEF LinkInv
<1> QED BY <1>1, <1>2 DEF LinkInv, SocketTypes, HookTypes, Run, Socket

\* The effect's clean-up: whatever was current is on its way out.
LEMMA CleanedUp ==
  ASSUME LinkInv, NEW s, s = IF cur = 0 THEN socks ELSE Closing(cur)
  PROVE  /\ s \in Seq(Socket) /\ Len(s) = Len(socks)
         /\ \A d \in 1..Len(socks) : s[d].run = socks[d].run /\ s[d].up = socks[d].up
         /\ \A d \in 1..Len(socks) : d # cur => s[d] = socks[d]
         /\ cur # 0 => s[cur].wire \in {"closing", "closed"}
<1>1. CASE cur = 0
  BY <1>1 DEF LinkInv, SocketTypes
<1>2. CASE cur # 0
  <2>1. cur \in 1..Len(socks)
    BY <1>2, Current
  <2> QED BY <1>2, <2>1, ClosingKeeps DEF LinkInv
<1> QED BY <1>1, <1>2

LEMMA RerunStep ==
  ASSUME ClientLinkAssumption, LinkInv, Rerun
  PROVE  LinkInv'
<1>1. PICK r : r = [n |-> run.n + 1, token |-> token, nonce |-> nonce]
  OBVIOUS
<1>2. PICK s : s = IF cur = 0 THEN socks ELSE Closing(cur)
  OBVIOUS
<1>3. r \in Run /\ r.n = run.n + 1 /\ r.n \in Nat /\ run.n \in Nat
  BY <1>1, Current DEF LinkInv, HookTypes, Run
<1>4. /\ s \in Seq(Socket) /\ Len(s) = Len(socks) /\ Len(socks) \in Nat
      /\ \A d \in 1..Len(socks) : s[d].run = socks[d].run /\ s[d].up = socks[d].up
  BY <1>2, CleanedUp, Current
<1>5. /\ run' = r /\ timer' = FALSE
      /\ UNCHANGED <<credentials, attempts, frames, handled>>
      /\ \/ socks' = s /\ cur' = 0 /\ status' = "idle" /\ intentional' = TRUE
         \/ /\ socks' = Append(s, Fresh(r)) /\ cur' = Len(socks) + 1
            /\ status' = IF attempts = 0 THEN "connecting" ELSE "reconnecting"
            /\ intentional' = FALSE
  <2>1. Fresh(r) = [run |-> r.n, token |-> token, wire |-> "connecting", server |-> "none", up |-> <<>>]
    BY <1>1 DEF Fresh
  <2> QED BY <1>1, <1>2, <2>1 DEF Rerun, CleanUp
<1>6. \A d \in 1..Len(socks) : socks[d].run \in Nat /\ socks[d].run <= run.n
  BY Current DEF LinkInv, OneInUse
<1>7. HookTypes'
  BY <1>3, <1>5 DEF LinkInv, HookTypes, Statuses, credentials
<1>8. FrameTypes'
  BY <1>5 DEF LinkInv, FrameTypes, frames
<1>9. CASE socks' = s /\ cur' = 0 /\ status' = "idle" /\ intentional' = TRUE
  <2>1. SocketTypes'
    BY <1>4, <1>9 DEF SocketTypes
  <2>2. OneInUse'
    BY <1>3, <1>4, <1>5, <1>6, <1>9 DEF OneInUse
  <2>3. \A d \in 1..Len(socks') : d \in 1..Len(socks) /\ socks'[d].up = socks[d].up
    BY <1>4, <1>9
  <2>4. OnePlace'
    BY <1>5, <2>1, <2>3, FewerFrames DEF LinkInv, frames
  <2> QED BY <1>7, <1>8, <2>1, <2>2, <2>4 DEF LinkInv
<1>10. CASE /\ socks' = Append(s, Fresh(r)) /\ cur' = Len(socks) + 1
            /\ status' = IF attempts = 0 THEN "connecting" ELSE "reconnecting"
            /\ intentional' = FALSE
  <2>1. /\ socks' \in Seq(Socket) /\ Len(socks') = Len(socks) + 1
        /\ socks'[Len(socks) + 1] = Fresh(r)
        /\ \A d \in 1..Len(socks) : socks'[d] = s[d]
    BY <1>3, <1>4, <1>10, FreshSocket, Appended
  <2>2. Fresh(r).run = r.n /\ Fresh(r).wire = "connecting" /\ Fresh(r).up = <<>>
    BY <1>3, FreshSocket
  <2>3. SocketTypes'
    BY <1>4, <1>10, <2>1 DEF SocketTypes
  <2>4. OneInUse'
    <3>1. ASSUME NEW c \in 1..Len(socks')
          PROVE  socks'[c].run <= r.n /\ (socks'[c].run = r.n => c = Len(socks) + 1)
      BY <1>3, <1>4, <1>6, <2>1, <2>2
    <3> QED BY <1>4, <1>5, <1>10, <2>1, <2>2, <3>1 DEF OneInUse
  <2>5. \A d \in 1..Len(socks') : \/ socks'[d].up = <<>>
                                  \/ d \in 1..Len(socks) /\ socks'[d].up = socks[d].up
    BY <1>4, <2>1, <2>2
  <2>6. OnePlace'
    BY <1>5, <2>3, <2>5, FewerFrames DEF LinkInv, frames
  <2> QED BY <1>7, <1>8, <2>3, <2>4, <2>6 DEF LinkInv
<1> QED BY <1>5, <1>9, <1>10

LEMMA RetryStep ==
  ASSUME ClientLinkAssumption, LinkInv, Retry
  PROVE  LinkInv'
<1>1. /\ cur = 0 /\ ~intentional /\ timer' = FALSE
      /\ socks' = Append(socks, Fresh(run)) /\ cur' = Len(socks) + 1
      /\ status' = IF attempts = 0 THEN "connecting" ELSE "reconnecting"
      /\ UNCHANGED <<credentials, run, attempts, intentional, frames, handled>>
  BY DEF Retry, Opened, Fresh, LinkInv, OneInUse
<1>2. /\ Fresh(run) \in Socket /\ Fresh(run).run = run.n /\ Fresh(run).wire = "connecting"
      /\ Fresh(run).up = <<>>
  BY FreshSocket DEF LinkInv, HookTypes
<1>3. /\ socks' \in Seq(Socket) /\ Len(socks') = Len(socks) + 1 /\ Len(socks) \in Nat
      /\ socks'[Len(socks) + 1] = Fresh(run)
      /\ \A d \in 1..Len(socks) : socks'[d] = socks[d]
  BY <1>1, <1>2, Appended, Current DEF LinkInv, SocketTypes
<1>4. HookTypes' /\ FrameTypes' /\ SocketTypes'
  <2>1. HookTypes'
    BY <1>1 DEF LinkInv, HookTypes, Statuses, credentials
  <2>2. FrameTypes'
    BY <1>1 DEF LinkInv, FrameTypes, frames
  <2>3. SocketTypes'
    BY <1>1, <1>3 DEF SocketTypes
  <2> QED BY <2>1, <2>2, <2>3
<1>5. OneInUse'
  <2>1. ASSUME NEW c \in 1..Len(socks')
        PROVE  /\ socks'[c].run <= run.n
               /\ socks'[c].run = run.n /\ socks'[c].wire # "closed" => c = Len(socks) + 1
    <3>1. CASE c \in 1..Len(socks)
      BY <1>1, <1>3, <3>1 DEF LinkInv, OneInUse
    <3>2. CASE c = Len(socks) + 1
      BY <1>2, <1>3, <3>2, Current
    <3> QED BY <1>3, <3>1, <3>2
  <2> QED BY <1>1, <1>2, <1>3, <2>1 DEF OneInUse
<1>6. \A d \in 1..Len(socks') : \/ socks'[d].up = <<>>
                                \/ d \in 1..Len(socks) /\ socks'[d].up = socks[d].up
  BY <1>2, <1>3
<1>7. OnePlace'
  BY <1>1, <1>4, <1>6, FewerFrames DEF LinkInv, frames
<1> QED BY <1>4, <1>5, <1>7 DEF LinkInv

LEMMA DisconnectStep ==
  ASSUME LinkInv, Disconnect
  PROVE  LinkInv'
<1>1. PICK s : s = IF cur = 0 THEN socks ELSE Closing(cur)
  OBVIOUS
<1>2. /\ s \in Seq(Socket) /\ Len(s) = Len(socks) /\ Len(socks) \in Nat
      /\ \A d \in 1..Len(socks) : s[d].run = socks[d].run /\ s[d].up = socks[d].up
      /\ \A d \in 1..Len(socks) : d # cur => s[d] = socks[d]
      /\ cur # 0 => s[cur].wire \in {"closing", "closed"}
  BY <1>1, CleanedUp, Current
<1>3. /\ intentional' = TRUE /\ timer' = FALSE /\ socks' = s /\ cur' = 0 /\ status' = "closed"
      /\ UNCHANGED <<credentials, run, attempts, frames, handled>>
  BY <1>1 DEF Disconnect
<1>4. HookTypes' /\ FrameTypes' /\ SocketTypes'
  <2>1. HookTypes'
    BY <1>3 DEF LinkInv, HookTypes, Statuses, credentials
  <2>2. FrameTypes'
    BY <1>3 DEF LinkInv, FrameTypes, frames
  <2>3. SocketTypes'
    BY <1>2, <1>3 DEF SocketTypes
  <2> QED BY <2>1, <2>2, <2>3
<1>5. OneInUse'
  <2>1. ASSUME NEW c \in 1..Len(socks), s[c].run = run.n, s[c].wire # "closed"
        PROVE  s[c].wire = "closing"
    BY <1>2, <2>1 DEF LinkInv, OneInUse
  <2>2. \A c \in 1..Len(socks) : s[c].run <= run.n
    BY <1>2 DEF LinkInv, OneInUse
  <2> QED BY <1>2, <1>3, <2>1, <2>2 DEF OneInUse
<1>6. OnePlace'
  BY <1>2, <1>3, <1>4, FewerFrames DEF LinkInv, frames
<1> QED BY <1>4, <1>5, <1>6 DEF LinkInv

LEMMA SendStep ==
  ASSUME ClientLinkAssumption, LinkInv, Send
  PROVE  LinkInv'
<1>1. /\ outbox \in Seq(Nat) /\ Len(outbox) <= OutboxMax /\ OutboxMax \in Nat
      /\ composed \in Nat /\ composed + 1 \in Nat /\ handled \in Seq(Handling)
  BY DEF ClientLinkAssumption, LinkInv, FrameTypes
<1>2. composed' = composed + 1 /\ UNCHANGED <<credentials, hook, handled>>
  BY DEF Send
<1>3. HookTypes'
  BY <1>2 DEF LinkInv, HookTypes, credentials, hook
<1>4. CASE cur # 0 /\ socks[cur].wire = "open"
  <2>1. cur \in 1..Len(socks) /\ socks[cur] \in Socket /\ socks[cur].up \in Seq(Nat)
    BY <1>4, Current, SocketAt DEF LinkInv
  <2>2. PICK n : n = [socks[cur] EXCEPT !.up = Append(@, composed + 1)]
    OBVIOUS
  <2>3. Append(socks[cur].up, composed + 1) \in Seq(Nat)
    BY <1>1, <2>1, AppendProperties
  <2>4. /\ n \in Socket /\ n.run = socks[cur].run /\ n.wire = socks[cur].wire
        /\ n.up = Append(socks[cur].up, composed + 1)
    BY <2>1, <2>2, <2>3 DEF Socket
  <2>5. socks' = [socks EXCEPT ![cur] = n] /\ UNCHANGED outbox
    BY <1>4, <2>2 DEF Send
  <2>6. /\ socks' \in Seq(Socket) /\ Len(socks') = Len(socks) /\ socks'[cur] = n
        /\ \A d \in 1..Len(socks) : d # cur => socks'[d] = socks[d]
    BY <2>1, <2>4, <2>5, Replaced DEF LinkInv, SocketTypes
  <2>7. SocketTypes'
    BY <1>2, <2>6 DEF LinkInv, SocketTypes, hook
  <2>8. FrameTypes'
    BY <1>1, <1>2, <2>5 DEF FrameTypes
  <2>9. \A d \in 1..Len(socks) : socks'[d].run = socks[d].run /\ socks'[d].wire = socks[d].wire
    BY <2>4, <2>6
  <2>10. OneInUse'
    BY <1>2, <2>1, <2>6, <2>9 DEF LinkInv, OneInUse, hook
  <2>11. ASSUME NEW d \in 1..Len(socks), NEW i \in 1..Len(socks'[d].up)
         PROVE  \/ i \in 1..Len(socks[d].up) /\ socks'[d].up[i] = socks[d].up[i]
                \/ d = cur /\ i = Len(socks[cur].up) + 1 /\ socks'[d].up[i] = composed + 1
    <3>1. CASE d = cur
      <4>1. PICK q : q = socks[cur].up
        OBVIOUS
      <4>2. /\ q \in Seq(Nat) /\ Len(Append(q, composed + 1)) = Len(q) + 1 /\ Len(q) \in Nat
            /\ \A k \in 1..Len(q) : Append(q, composed + 1)[k] = q[k]
            /\ Append(q, composed + 1)[Len(q) + 1] = composed + 1
        BY SMTT(30), <1>1, <2>1, <4>1, AppendProperties, LenProperties
      <4>3. socks'[d].up = Append(q, composed + 1)
        BY <2>4, <2>6, <3>1, <4>1
      <4> QED BY <3>1, <4>1, <4>2, <4>3
    <3>2. CASE d # cur
      BY <2>6, <3>2
    <3> QED BY <3>1, <3>2
  <2>12. OnePlace'
    BY <1>2, <2>1, <2>5, <2>6, <2>11, SentFrame DEF LinkInv
  <2> QED BY <1>3, <2>7, <2>8, <2>10, <2>12 DEF LinkInv
<1>5. CASE ~(cur # 0 /\ socks[cur].wire = "open")
  <2>1. outbox' = Kept(Append(outbox, composed + 1)) /\ UNCHANGED socks
    BY <1>5 DEF Send
  <2>2. PICK m \in Nat : m = composed + 1
    BY <1>1
  <2>3. /\ outbox' \in Seq(Nat) /\ Len(outbox') <= OutboxMax
        /\ \E k \in {0, 1} : \A i \in 1..Len(outbox') :
             \/ i + k \in 1..Len(outbox) /\ outbox'[i] = outbox[i + k]
             \/ i + k = Len(outbox) + 1 /\ outbox'[i] = composed + 1
    <3>1. outbox' = Kept(Append(outbox, m))
      BY <2>1, <2>2
    <3>2. /\ Kept(Append(outbox, m)) \in Seq(Nat) /\ Len(Kept(Append(outbox, m))) <= OutboxMax
          /\ \E k \in {0, 1} : \A i \in 1..Len(Kept(Append(outbox, m))) :
               \/ i + k \in 1..Len(outbox) /\ Kept(Append(outbox, m))[i] = outbox[i + k]
               \/ i + k = Len(outbox) + 1 /\ Kept(Append(outbox, m))[i] = m
      BY <1>1, KeptFrames
    <3>3. \E k \in {0, 1} : \A i \in 1..Len(outbox') :
             \/ i + k \in 1..Len(outbox) /\ outbox'[i] = outbox[i + k]
             \/ i + k = Len(outbox) + 1 /\ outbox'[i] = m
      BY ZenonT(30), <3>1, <3>2
    <3>4. outbox' \in Seq(Nat) /\ Len(outbox') <= OutboxMax
      BY ZenonT(30), <3>1, <3>2
    <3> QED BY ZenonT(30), <2>2, <3>3, <3>4
  <2>4. SocketTypes' /\ OneInUse'
    BY <1>2, <2>1 DEF LinkInv, SocketTypes, OneInUse, hook
  <2>5. FrameTypes'
    BY <1>1, <1>2, <2>3 DEF FrameTypes
  <2>6. OnePlace'
    <3>1. PICK k \in {0, 1} : \A i \in 1..Len(outbox') :
             \/ i + k \in 1..Len(outbox) /\ outbox'[i] = outbox[i + k]
             \/ i + k = Len(outbox) + 1 /\ outbox'[i] = composed + 1
      BY <2>3
    <3> QED BY <1>2, <2>1, <3>1, BoxedFrame DEF LinkInv
  <2> QED BY <1>3, <2>4, <2>5, <2>6 DEF LinkInv
<1> QED BY <1>4, <1>5

\* onopen: a socket of a run that is over, or the current one, which takes the outbox.
LEMMA OnOpenStep ==
  ASSUME ClientLinkAssumption, LinkInv, NEW c \in DOMAIN socks, OnOpen(c)
  PROVE  LinkInv'
<1>1. /\ socks \in Seq(Socket) /\ c \in 1..Len(socks) /\ socks[c] \in Socket
      /\ socks[c].wire = "connecting" /\ outbox \in Seq(Nat)
  BY Current, LenProperties DEF LinkInv, SocketTypes, FrameTypes, OnOpen
<1>2. UNCHANGED <<credentials, run, cur, intentional, timer, composed, waited, handled>>
  BY DEF OnOpen
<1>3. CASE Disposed(c)
  <2>1. PICK n : n = [socks[c] EXCEPT !.wire = "open", !.server = "checking"]
    OBVIOUS
  <2>2. n \in Socket /\ n.run = socks[c].run /\ n.up = socks[c].up
    BY <1>1, <2>1 DEF Socket, Wires
  <2>3. socks' = [socks EXCEPT ![c] = n] /\ UNCHANGED <<attempts, status, outbox>>
    BY <1>1, <1>3, <2>1 DEF OnOpen
  <2>4. /\ socks' \in Seq(Socket) /\ Len(socks') = Len(socks) /\ socks'[c] = n
        /\ \A d \in 1..Len(socks) : d # c => socks'[d] = socks[d]
    BY <1>1, <2>2, <2>3, Replaced
  <2>5. HookTypes'
    BY <1>2, <2>3 DEF LinkInv, HookTypes, credentials
  <2>6. SocketTypes'
    BY <1>2, <2>4 DEF LinkInv, SocketTypes
  <2>7. FrameTypes'
    BY <1>2, <2>3 DEF LinkInv, FrameTypes
  <2>8. OneInUse'
    <3>1. socks[c].run # run.n
      BY <1>3 DEF Disposed
    <3> QED BY <1>1, <1>2, <2>2, <2>3, <2>4, <3>1 DEF LinkInv, OneInUse
  <2>9. OnePlace'
    <3>1. \A d \in 1..Len(socks') : d \in 1..Len(socks) /\ socks'[d].up = socks[d].up
      BY <2>2, <2>4
    <3> QED BY <1>2, <2>3, <2>6, <3>1, FewerFrames DEF LinkInv
  <2> QED BY <2>5, <2>6, <2>7, <2>8, <2>9 DEF LinkInv
<1>4. CASE ~Disposed(c)
  <2>1. PICK n : n = [socks[c] EXCEPT !.wire = "open", !.server = "checking", !.up = outbox]
    OBVIOUS
  <2>2. n \in Socket /\ n.run = socks[c].run /\ n.up = outbox /\ n.wire = "open"
    BY <1>1, <2>1 DEF Socket, Wires
  <2>3. /\ socks' = [socks EXCEPT ![c] = n]
        /\ attempts' = 0 /\ status' = "open" /\ outbox' = <<>>
    BY <1>1, <1>4, <2>1 DEF OnOpen, Remaining
  <2>4. /\ socks' \in Seq(Socket) /\ Len(socks') = Len(socks) /\ socks'[c] = n
        /\ \A d \in 1..Len(socks) : d # c => socks'[d] = socks[d]
    BY <1>1, <2>2, <2>3, Replaced
  <2>5. c = cur
    BY <1>1, <1>4 DEF LinkInv, OneInUse, Disposed
  <2>6. HookTypes'
    <3>1. MaxRetries \in Nat
      BY DEF ClientLinkAssumption
    <3> QED BY <1>2, <2>3, <3>1 DEF LinkInv, HookTypes, credentials, Statuses
  <2>7. SocketTypes'
    BY <1>2, <2>4 DEF LinkInv, SocketTypes
  <2>8. FrameTypes' /\ Len(outbox') = 0
    <3>1. outbox' \in Seq(Nat) /\ Len(outbox') = 0 /\ 0 <= OutboxMax
      BY <2>3 DEF ClientLinkAssumption
    <3> QED BY <1>2, <3>1 DEF LinkInv, FrameTypes
  <2>9. OneInUse'
    <3>1. cur # 0 /\ ~timer
      BY <1>1, <2>5 DEF LinkInv, OneInUse
    <3>2. ASSUME NEW d \in 1..Len(socks)
          PROVE  /\ socks'[d].run <= run.n
                 /\ socks'[d].run = run.n /\ socks'[d].wire # "closed" =>
                      d = cur \/ (intentional /\ socks'[d].wire = "closing")
      BY <2>2, <2>4, <2>5 DEF LinkInv, OneInUse
    <3>3. ~intentional /\ socks'[cur].run = run.n /\ socks'[cur].wire = "open"
      BY <1>1, <2>2, <2>4, <2>5, <3>1 DEF LinkInv, OneInUse
    <3> QED BY <1>2, <2>3, <2>4, <3>1, <3>2, <3>3 DEF OneInUse
  <2>10. OnePlace'
    <3>1. socks'[c].up = outbox /\ \A d \in 1..Len(socks) : d # c => socks'[d].up = socks[d].up
      BY <2>2, <2>4
    <3> QED BY <1>1, <1>2, <2>4, <2>8, <3>1, FlushedFrames DEF LinkInv
  <2> QED BY <2>6, <2>7, <2>8, <2>9, <2>10 DEF LinkInv
<1> QED BY <1>3, <1>4

LEMMA OnCloseStep ==
  ASSUME ClientLinkAssumption, LinkInv, NEW c \in DOMAIN socks, NEW unauthorized \in BOOLEAN,
         socks[c].wire # "closed", OnClose(c, unauthorized)
  PROVE  LinkInv'
<1>1. socks \in Seq(Socket) /\ c \in 1..Len(socks) /\ socks[c] \in Socket
  BY Current, LenProperties DEF LinkInv, SocketTypes
<1>2. PICK n : n = [socks[c] EXCEPT !.wire = "closed", !.up = <<>>]
  OBVIOUS
<1>3. n \in Socket /\ n.run = socks[c].run /\ n.up = <<>> /\ n.wire = "closed"
  <2>1. <<>> \in Seq(Nat)
    OBVIOUS
  <2> QED BY <1>1, <1>2, <2>1 DEF Socket, Wires
<1>4. socks' = [socks EXCEPT ![c] = n] /\ UNCHANGED <<credentials, frames, handled>>
  BY <1>1, <1>2 DEF OnClose
<1>5. /\ socks' \in Seq(Socket) /\ Len(socks') = Len(socks) /\ socks'[c] = n
      /\ \A d \in 1..Len(socks) : d # c => socks'[d] = socks[d]
  BY <1>1, <1>3, <1>4, Replaced
<1>6. FrameTypes'
  BY <1>4 DEF LinkInv, FrameTypes, frames
<1>7. ASSUME SocketTypes' PROVE OnePlace'
  <2>1. \A d \in 1..Len(socks') : \/ socks'[d].up = <<>>
                                  \/ d \in 1..Len(socks) /\ socks'[d].up = socks[d].up
    BY <1>3, <1>5
  <2> QED BY <1>4, <1>7, <2>1, FewerFrames DEF LinkInv, frames
<1>8. CASE Ignored(c)
  <2>1. UNCHANGED hook
    BY <1>8 DEF OnClose
  <2>2. HookTypes'
    BY <1>4, <2>1 DEF LinkInv, HookTypes, credentials, hook
  <2>3. SocketTypes'
    BY <1>5, <2>1 DEF LinkInv, SocketTypes, hook
  <2>4. c # cur
    <3>1. cur \in 1..Len(socks) => ~intentional /\ socks[cur].run = run.n
      BY DEF LinkInv, OneInUse
    <3> QED BY <1>1, <1>8, <3>1 DEF Ignored, Disposed
  <2>5. OneInUse'
    <3>1. ASSUME NEW d \in 1..Len(socks)
          PROVE  /\ socks'[d].run <= run.n
                 /\ socks'[d].run = run.n /\ socks'[d].wire # "closed" =>
                      d = cur \/ (intentional /\ socks'[d].wire = "closing")
      BY <1>3, <1>5 DEF LinkInv, OneInUse
    <3>2. cur # 0 => ~intentional /\ socks'[cur].run = run.n
                     /\ socks'[cur].wire \in {"connecting", "open"}
      BY <1>5, <2>4, Current DEF LinkInv, OneInUse
    <3> QED BY <1>5, <2>1, <3>1, <3>2 DEF LinkInv, OneInUse, hook
  <2> QED BY <1>6, <1>7, <2>2, <2>3, <2>5 DEF LinkInv
<1>9. CASE ~Ignored(c)
  <2>1. socks[c].run = run.n /\ ~intentional /\ c = cur /\ cur # 0 /\ ~timer
    BY <1>1, <1>9 DEF Ignored, Disposed, LinkInv, OneInUse
  <2>2. cur' = 0 /\ UNCHANGED <<run, intentional>>
    BY <1>9 DEF OnClose
  <2>3. \/ status' = "unauthorized" /\ UNCHANGED <<attempts, timer>>
        \/ status' = "closed" /\ UNCHANGED <<attempts, timer>>
        \/ attempts < MaxRetries /\ attempts' = attempts + 1 /\ status' = "reconnecting" /\ timer' = TRUE
    BY <1>9 DEF OnClose
  <2>4. HookTypes'
    <3>1. attempts \in 0..MaxRetries /\ MaxRetries \in Nat
      BY DEF ClientLinkAssumption, LinkInv, HookTypes
    <3>2. attempts' \in 0..MaxRetries
      BY <2>3, <3>1
    <3>3. timer' \in BOOLEAN /\ status' \in Statuses
      BY <2>3 DEF LinkInv, HookTypes, Statuses
    <3> QED BY <1>4, <2>2, <3>2, <3>3 DEF LinkInv, HookTypes, credentials
  <2>5. SocketTypes'
    BY <1>1, <1>5, <2>2, Current DEF SocketTypes
  <2>6. OneInUse'
    <3>1. ASSUME NEW d \in 1..Len(socks')
          PROVE  socks'[d].run <= run.n /\ (socks'[d].run = run.n => socks'[d].wire = "closed")
      <4>1. CASE d = c
        BY <1>3, <1>5, <4>1 DEF LinkInv, OneInUse
      <4>2. CASE d # c
        BY <1>5, <2>1, <4>2 DEF LinkInv, OneInUse
      <4> QED BY <4>1, <4>2
    <3> QED BY <2>1, <2>2, <2>3, <3>1 DEF OneInUse
  <2> QED BY <1>6, <1>7, <2>4, <2>5, <2>6 DEF LinkInv
<1> QED BY <1>8, <1>9

LEMMA VerifiedStep ==
  ASSUME LinkInv, NEW c \in DOMAIN socks, Verified(c)
  PROVE  LinkInv'
<1>1. socks \in Seq(Socket) /\ c \in 1..Len(socks) /\ socks[c] \in Socket
  BY Current, LenProperties DEF LinkInv, SocketTypes
<1>2. UNCHANGED <<credentials, hook, frames, handled>>
  BY DEF Verified
<1>3. PICK answer \in {"verified", "refused"} : socks' = [socks EXCEPT ![c].server = answer]
  BY DEF Verified
<1>4. PICK n : n = [socks[c] EXCEPT !.server = answer]
  OBVIOUS
<1>5. n \in Socket /\ n.run = socks[c].run /\ n.up = socks[c].up /\ n.wire = socks[c].wire
  BY <1>1, <1>4 DEF Socket
<1>6. /\ socks' \in Seq(Socket) /\ Len(socks') = Len(socks)
      /\ \A d \in 1..Len(socks) : /\ socks'[d].run = socks[d].run /\ socks'[d].up = socks[d].up
                                  /\ socks'[d].wire = socks[d].wire
  <2>1. socks' = [socks EXCEPT ![c] = n]
    BY <1>3, <1>4
  <2> QED BY <1>1, <1>5, <2>1, Replaced
<1>7. HookTypes'
  BY <1>2 DEF LinkInv, HookTypes, credentials, hook
<1>8. SocketTypes' /\ FrameTypes'
  BY <1>2, <1>6 DEF LinkInv, SocketTypes, FrameTypes, frames, hook
<1>9. OneInUse'
  BY <1>2, <1>6, Current DEF LinkInv, OneInUse, hook
<1>10. OnePlace'
  BY <1>2, <1>6, <1>8, FewerFrames DEF LinkInv, frames
<1> QED BY <1>7, <1>8, <1>9, <1>10 DEF LinkInv

LEMMA ReceiveStep ==
  ASSUME LinkInv, NEW c \in DOMAIN socks, Receive(c)
  PROVE  LinkInv'
<1>1. /\ socks \in Seq(Socket) /\ c \in 1..Len(socks) /\ socks[c] \in Socket
      /\ handled \in Seq(Handling) /\ Len(handled) \in Nat
  BY Current, LenProperties DEF LinkInv, SocketTypes, FrameTypes
<1>2. PICK q : q = socks[c].up
  OBVIOUS
<1>3. /\ q \in Seq(Nat) /\ q # <<>> /\ Len(q) \in Nat /\ 1 \in 1..Len(q) /\ Head(q) = q[1]
      /\ Head(q) \in Nat /\ Tail(q) \in Seq(Nat) /\ Len(Tail(q)) = Len(q) - 1
      /\ \A i \in 1..Len(Tail(q)) : Tail(q)[i] = q[i + 1]
  <2>1. q \in Seq(Nat) /\ q # <<>>
    BY <1>1, <1>2, SocketAt DEF LinkInv, Receive
  <2>2. Len(q) \in Nat /\ Len(q) # 0
    BY <2>1, EmptySeq, LenProperties
  <2> QED BY <2>1, <2>2, HeadTailProperties
<1>4. UNCHANGED <<credentials, hook, frames>>
  BY DEF Receive
<1>5. PICK h \in Handling : handled' = Append(handled, h) /\ h.m = q[1]
  <2>1. [m |-> Head(q), routed |-> socks[c].server = "verified"] \in Handling
    BY <1>3 DEF Handling
  <2> QED BY <1>2, <1>3, <2>1 DEF Receive
<1>6. /\ handled' \in Seq(Handling) /\ Len(handled') = Len(handled) + 1
      /\ \A i \in 1..Len(handled) : handled'[i] = handled[i]
      /\ handled'[Len(handled) + 1] = h
  BY <1>1, <1>5, AppendProperties
<1>7. PICK n : n = [socks[c] EXCEPT !.up = Tail(@)]
  OBVIOUS
<1>8. n \in Socket /\ n.run = socks[c].run /\ n.up = Tail(q) /\ n.wire = socks[c].wire
  BY <1>1, <1>2, <1>3, <1>7 DEF Socket
<1>9. /\ socks' \in Seq(Socket) /\ Len(socks') = Len(socks) /\ socks'[c] = n
      /\ \A d \in 1..Len(socks) : d # c => socks'[d] = socks[d]
  <2>1. socks' = [socks EXCEPT ![c] = n]
    BY <1>7 DEF Receive
  <2> QED BY <1>1, <1>8, <2>1, Replaced
<1>10. HookTypes'
  BY <1>4 DEF LinkInv, HookTypes, credentials, hook
<1>11. SocketTypes'
  BY <1>4, <1>9 DEF LinkInv, SocketTypes, hook
<1>12. FrameTypes'
  BY <1>4, <1>6 DEF LinkInv, FrameTypes, frames
<1>13. OneInUse'
  <2>1. \A d \in 1..Len(socks) : socks'[d].run = socks[d].run /\ socks'[d].wire = socks[d].wire
    BY <1>8, <1>9
  <2> QED BY <1>4, <1>9, <2>1, Current DEF LinkInv, OneInUse, hook
<1>14. OnePlace'
  <2>1. ASSUME NEW d \in 1..Len(socks), NEW i \in 1..Len(socks'[d].up)
        PROVE  \/ d # c /\ i \in 1..Len(socks[d].up) /\ socks'[d].up[i] = socks[d].up[i]
               \/ d = c /\ i + 1 \in 1..Len(socks[c].up) /\ socks'[d].up[i] = socks[c].up[i + 1]
    <3>1. CASE d = c
      <4>1. socks'[d].up = Tail(q)
        BY <1>8, <1>9, <3>1
      <4> QED BY <1>2, <1>3, <3>1, <4>1
    <3>2. CASE d # c
      BY <1>9, <3>2
    <3> QED BY <3>1, <3>2
  <2>2. ASSUME NEW k \in 1..Len(handled')
        PROVE  \/ k \in 1..Len(handled) /\ handled'[k].m = handled[k].m
               \/ k = Len(handled) + 1 /\ handled'[k].m = socks[c].up[1]
    BY <1>1, <1>2, <1>5, <1>6
  <2>3. 1 \in 1..Len(socks[c].up)
    BY <1>2, <1>3
  <2>4. UNCHANGED <<composed, outbox>>
    BY <1>4 DEF frames
  <2> QED BY <1>1, <1>9, <2>1, <2>2, <2>3, <2>4, HandledFrame DEF LinkInv
<1> QED BY <1>10, <1>11, <1>12, <1>13, <1>14 DEF LinkInv

LEMMA LinkStep ==
  ASSUME ClientLinkAssumption, LinkInv, [LinkNext]_linkVars
  PROVE  LinkInv'
<1>1. CASE SetToken
  <2>1. HookTypes'
    BY <1>1 DEF SetToken, LinkInv, HookTypes, Held, hook
  <2> QED BY <1>1, <2>1, CredentialStep DEF SetToken, hook
<1>2. CASE OtherTab
  <2>1. HookTypes'
    BY <1>2 DEF OtherTab, LinkInv, HookTypes, Held, hook
  <2> QED BY <1>2, <2>1, CredentialStep DEF OtherTab, hook
<1>3. CASE StorageEvent
  <2>1. HookTypes'
    BY <1>3 DEF StorageEvent, LinkInv, HookTypes, hook
  <2> QED BY <1>3, <2>1, CredentialStep DEF StorageEvent, hook
<1>4. CASE Reconnect
  <2>1. MaxRetries \in Nat
    BY DEF ClientLinkAssumption
  <2>2. HookTypes'
    BY <1>4, <2>1 DEF Reconnect, LinkInv, HookTypes
  <2> QED BY <1>4, <2>2, CredentialStep DEF Reconnect
<1>5. CASE Rerun
  BY <1>5, RerunStep
<1>6. CASE Retry
  BY <1>6, RetryStep
<1>7. CASE Send
  BY <1>7, SendStep
<1>8. CASE Disconnect
  BY <1>8, DisconnectStep
<1>9. ASSUME NEW c \in DOMAIN socks, OnOpen(c)
      PROVE  LinkInv'
  BY <1>9, OnOpenStep
<1>10. ASSUME NEW c \in DOMAIN socks, Drop(c) \/ Refuse(c)
       PROVE  LinkInv'
  <2>1. socks[c].wire # "closed" /\ \E unauthorized \in BOOLEAN : OnClose(c, unauthorized)
    BY <1>10 DEF Drop, Refuse
  <2> QED BY <2>1, OnCloseStep
<1>11. ASSUME NEW c \in DOMAIN socks, Verified(c)
       PROVE  LinkInv'
  BY <1>11, VerifiedStep
<1>12. ASSUME NEW c \in DOMAIN socks, Receive(c)
       PROVE  LinkInv'
  BY <1>12, ReceiveStep
<1>13. CASE UNCHANGED linkVars
  <2>1. HookTypes'
    BY <1>13 DEF linkVars, credentials, hook, LinkInv, HookTypes
  <2> QED BY <1>13, <2>1, CredentialStep DEF linkVars, credentials, hook
<1> QED BY <1>1, <1>2, <1>3, <1>4, <1>5, <1>6, <1>7, <1>8, <1>9, <1>10, <1>11, <1>12, <1>13 DEF LinkNext

LEMMA LinkInvariant ==
  ASSUME ClientLinkAssumption
  PROVE  LinkSpec => []LinkInv
<1>1. LinkInit => LinkInv
  BY InitInv
<1>2. LinkInv /\ [LinkNext]_linkVars => LinkInv'
  BY LinkStep
<1> QED BY <1>1, <1>2, PTL DEF LinkSpec

-----------------------------------------------------------------------------
(* What follows *)

\* The sockets in use are of the last run, and only the current one is.
LEMMA OnlyTheCurrent ==
  ASSUME LinkInv
  PROVE  /\ \A c \in Live : c = cur
         /\ cur # 0 => cur \in Live
<1>1. DOMAIN socks = 1..Len(socks)
  BY LenProperties DEF LinkInv, SocketTypes
<1>2. ASSUME NEW c \in Live PROVE c = cur
  BY <1>1 DEF Live, Disposed, LinkInv, OneInUse
<1>3. ASSUME cur # 0 PROVE cur \in Live
  BY <1>1, <1>3, Current DEF Live, Disposed, LinkInv, OneInUse
<1> QED BY <1>2, <1>3

LEMMA InvConnection ==
  ASSUME LinkInv
  PROVE  OneConnection
<1>1. Cardinality(Live) <= 1
  <2>1. CASE Live = {}
    BY <2>1, FS_EmptySet
  <2>2. CASE Live # {}
    <3>1. Live = {cur}
      BY <2>2, OnlyTheCurrent
    <3>2. Cardinality({cur}) = 1
      BY FS_Singleton
    <3> QED BY <3>1, <3>2
  <2> QED BY <2>1, <2>2
<1>2. Live # {} => cur \in Live
  BY OnlyTheCurrent
<1>3. status = "open" => Live # {}
  BY OnlyTheCurrent DEF LinkInv, OneInUse
<1> QED BY <1>1, <1>2, <1>3 DEF OneConnection

LEMMA InvStopped ==
  ASSUME LinkInv
  PROVE  StoppedStaysStopped
<1>1. ASSUME NEW c \in Live PROVE cur # 0
  BY OnlyTheCurrent, LenProperties DEF Live, LinkInv, SocketTypes
<1>2. status \in {"idle", "closed", "unauthorized"} => cur = 0 /\ ~timer
  BY DEF LinkInv, OneInUse
<1> QED BY <1>1, <1>2 DEF StoppedStaysStopped

LEMMA InvHandled ==
  ASSUME LinkInv
  PROVE  HandledOnce
<1>1. /\ DOMAIN outbox = 1..Len(outbox) /\ DOMAIN handled = 1..Len(handled)
      /\ DOMAIN socks = 1..Len(socks)
  BY LenProperties DEF LinkInv, SocketTypes, FrameTypes
<1>2. \A c \in 1..Len(socks) : DOMAIN socks[c].up = 1..Len(socks[c].up)
  BY SocketAt, LenProperties DEF LinkInv
<1> DEFINE held == {outbox[i] : i \in DOMAIN outbox}
           sent == UNION {{socks[c].up[i] : i \in DOMAIN socks[c].up} : c \in DOMAIN socks}
           done == {handled[i].m : i \in DOMAIN handled}
<1>3. /\ \A m \in held : \E i \in 1..Len(outbox) : m = outbox[i]
      /\ \A m \in sent : \E c \in 1..Len(socks) : \E i \in 1..Len(socks[c].up) : m = socks[c].up[i]
      /\ \A m \in done : \E i \in 1..Len(handled) : m = handled[i].m
  BY <1>1, <1>2
<1>4. \A i, j \in DOMAIN handled : handled[i].m = handled[j].m => i = j
  BY <1>1 DEF LinkInv, OnePlace, RecordOK
<1> HIDE DEF held, sent, done
<1>5. held \cap sent = {}
  BY <1>3 DEF LinkInv, OnePlace, WiresOK
<1>6. done \cap (held \cup sent) = {}
  <2>1. done \cap held = {}
    BY <1>3 DEF LinkInv, OnePlace, RecordOK
  <2>2. done \cap sent = {}
    BY <1>3 DEF LinkInv, OnePlace, RecordOK
  <2> QED BY <2>1, <2>2
<1> USE DEF held, sent, done
<1> QED BY <1>4, <1>5, <1>6 DEF HandledOnce

\* A tab is one player at one table: whatever the token, the timers, the network and the
\* server do, it holds at most one connection, opens none once it has stopped, and no frame
\* it sends is handled twice.
THEOREM LinkIsKept ==
  ASSUME ClientLinkAssumption
  PROVE  LinkSpec => []LinkKeepsItsWord
<1>1. LinkInv => LinkKeepsItsWord
  BY InvConnection, InvStopped, InvHandled DEF LinkKeepsItsWord
<1> QED BY <1>1, LinkInvariant, PTL
=============================================================================
