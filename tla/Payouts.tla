------------------------------ MODULE Payouts ------------------------------
(***************************************************************************)
(* Withdrawals on their way out: createWithdrawal, the payout webhook      *)
(* (services/payment.service.ts) and the operator's decision               *)
(* (routes/admin/risk.routes.ts), over three records of the same money:    *)
(* the ledger row that holds it, the Withdrawal row, and what the gateway  *)
(* did, which this program only learns from answers and callbacks.         *)
(*                                                                         *)
(* The ledger row moves as in Ledger, in guarded transactions; here only   *)
(* its status counts.  Each action is the code between two awaits.         *)
(*                                                                         *)
(* The gateway and the operator are the environment.  A gateway decides a  *)
(* request it received even after the caller gave up on it, and repeats a  *)
(* callback until it is answered 200, in any order.  The operator does     *)
(* what the comments of createWithdrawal ask: looks at the gateway before  *)
(* deciding, and waits while a request is undecided there.                 *)
(***************************************************************************)
EXTENDS Naturals, FiniteSets

CONSTANTS
  Withdrawals,     \* requests a player makes
  Gateways,        \* the configurations the server may run with
  Hooks,           \* callbacks being handled at once
  CleanAnswers,    \* TRUE when an answer that arrives can always be read
  MaxErrors        \* bound: database errors and deaths of the process

AllGateways == {"CRYPTOMUS", "NOWPAYMENTS", "MANUAL"}

GatewaysAssumption == Gateways \subseteq AllGateways
PayoutBoundsAssumption == CleanAnswers \in BOOLEAN /\ MaxErrors \in Nat
PayoutsAssumption == GatewaysAssumption /\ PayoutBoundsAssumption

VARIABLES
  gateway,    \* the payout gateway configured
  ledger,     \* ledger[w]: status of the WITHDRAWAL row; FAILED is refunded
  row,        \* row[w]: status of the Withdrawal row
  known,      \* withdrawals whose paymentId is stored
  payout,     \* payout[w]: what the gateway did
  call,       \* call[w]: where createWithdrawal stands
  callbacks,  \* callbacks the gateway has not seen answered
  hook,       \* hook[h]: where a callback's handler stands
  marking,    \* withdrawals whose decision is still to be mirrored onto the row
  errors      \* counts failures, for the bound

payoutVars == <<gateway, ledger, row, known, payout, call, callbacks, hook, marking, errors>>

LedgerStatuses == {"none", "PENDING", "COMPLETED", "FAILED"}
RowStatuses == {"none", "PENDING", "PENDING_ADMIN_REVIEW", "PAID", "FAILED",
                "CONFIRMED", "CANCELLED"}
Fates == {"none", "undecided", "accepted", "refused", "sent", "failed"}
Words == {"paid", "process", "fail"}   \* what a gateway says of a payout it took
Steps == {"idle", "create", "dispatch", "await", "ambiguous", "refused", "release", "done"} \cup Words
Callback == [withdrawal : Withdrawals, status : Words]
NotHandling == [pc |-> "idle"]
Hook == {NotHandling} \cup [pc : {"update", "reject"}, of : Callback, old : RowStatuses]

Mapped_Raw(word) == word

\* mapStatus: the gateway's word as a status of the row.
Mapped(word) ==
  CASE word = "paid" -> "PAID"
    [] word = "fail" -> "FAILED"
    [] OTHER         -> "PENDING"

IsPayoutFailure(status) == status \in {"FAILED", "CANCELLED", "EXPIRED"}

PayoutsInit ==
  /\ gateway \in Gateways
  /\ ledger = [w \in Withdrawals |-> "none"]
  /\ row = [w \in Withdrawals |-> "none"]
  /\ known = {}
  /\ payout = [w \in Withdrawals |-> "none"]
  /\ call = [w \in Withdrawals |-> "idle"]
  /\ callbacks = {}
  /\ hook = [h \in Hooks |-> NotHandling]
  /\ marking = {}
  /\ errors = 0

-----------------------------------------------------------------------------
(* createWithdrawal *)

Step(w, from, to) ==
  /\ call[w] = from
  /\ call' = [call EXCEPT ![w] = to]

\* requestWithdrawal: the PENDING ledger row is the hold.
Reserve(w) ==
  /\ Step(w, "idle", "create")
  /\ ledger' = [ledger EXCEPT ![w] = "PENDING"]
  /\ UNCHANGED <<gateway, row, known, payout, callbacks, hook, marking, errors>>

CreateRow(w) ==
  /\ Step(w, "create", "dispatch")
  /\ row' = [row EXCEPT ![w] = "PENDING"]
  /\ UNCHANGED <<gateway, ledger, known, payout, callbacks, hook, marking, errors>>

\* No gateway can send this: an operator will.
Queue(w) ==
  /\ gateway = "MANUAL"
  /\ Step(w, "dispatch", "done")
  /\ row' = [row EXCEPT ![w] = "PENDING_ADMIN_REVIEW"]
  /\ UNCHANGED <<gateway, ledger, known, payout, callbacks, hook, marking, errors>>

\* The request goes out and reaches the gateway, or does not.
Send(w) ==
  /\ gateway # "MANUAL"
  /\ Step(w, "dispatch", "await")
  /\ \E fate \in {"undecided", "none"} : payout' = [payout EXCEPT ![w] = fate]
  /\ UNCHANGED <<gateway, ledger, row, known, callbacks, hook, marking, errors>>

\* How an answer is read.  Silence, a timeout or a dropped connection, leaves the
\* outcome open.  A body that is not JSON carries an HTTP status and counts as a
\* refusal; one that is cut off counts as a refusal with Cryptomus alone.
TakenAs(answer) ==
  CASE answer = "silence"  -> "ambiguous"
    [] answer = "not JSON" -> "refused"
    [] answer = "cut off"  -> IF gateway = "CRYPTOMUS" THEN "refused" ELSE "ambiguous"
    [] OTHER               -> answer

\* The answer to a request that was accepted carries the status of the payout, which
\* may have changed since it was written.
Told(w) ==
  CASE payout[w] = "accepted" -> {"process"}
    [] payout[w] = "sent"     -> {"process", "paid"}
    [] payout[w] = "failed"   -> {"process", "fail"}
    [] OTHER                  -> {}

\* NOWPayments authenticates first and may refuse that, with nothing sent.
Answers(w) ==
  {"silence"} \cup Told(w) \cup ({payout[w]} \cap {"refused"})
    \cup (IF gateway = "NOWPAYMENTS" /\ payout[w] = "none" THEN {"refused"} ELSE {})
    \cup (IF CleanAnswers \/ payout[w] = "none" THEN {} ELSE {"not JSON", "cut off"})

Answer(w) ==
  /\ \E answer \in Answers(w) : Step(w, "await", TakenAs(answer))
  /\ UNCHANGED <<gateway, ledger, row, known, payout, callbacks, hook, marking, errors>>

\* The payout id and the status of the answer are stored, a failure like any other:
\* the hold stays.
Save(w) ==
  /\ \E word \in Words :
       /\ Step(w, word, "done")
       /\ row' = [row EXCEPT ![w] = Mapped(word)]
  /\ known' = known \cup {w}
  /\ UNCHANGED <<gateway, ledger, payout, callbacks, hook, marking, errors>>

Review(w) ==
  /\ Step(w, "ambiguous", "done")
  /\ row' = [row EXCEPT ![w] = "PENDING_ADMIN_REVIEW"]
  /\ UNCHANGED <<gateway, ledger, known, payout, callbacks, hook, marking, errors>>

Refuse(w) ==
  /\ Step(w, "refused", "release")
  /\ row' = [row EXCEPT ![w] = "FAILED"]
  /\ UNCHANGED <<gateway, ledger, known, payout, callbacks, hook, marking, errors>>

\* The ledger statuses after rejectWithdrawal: refunded when it was PENDING,
\* otherwise it throws, and both callers swallow that.
Rejected(w) == [ledger EXCEPT ![w] = IF @ = "PENDING" THEN "FAILED" ELSE @]

Release(w) ==
  /\ Step(w, "release", "done")
  /\ ledger' = Rejected(w)
  /\ UNCHANGED <<gateway, row, known, payout, callbacks, hook, marking, errors>>

\* The same when the database fails: swallowed, and nobody tries again.
ReleaseFails(w) ==
  /\ errors < MaxErrors
  /\ errors' = errors + 1
  /\ Step(w, "release", "done")
  /\ UNCHANGED <<gateway, ledger, row, known, payout, callbacks, hook, marking>>

-----------------------------------------------------------------------------
(* The payout webhook *)

\* Acknowledged: the gateway stops repeating it.
Ack(h) ==
  /\ hook' = [hook EXCEPT ![h] = NotHandling]
  /\ callbacks' = callbacks \ {hook[h].of}

\* The row is looked up by payout id.  NOWPayments callbacks are looked up among
\* deposits only, and a callback that matches nothing is answered 200.
Receive(h) ==
  /\ hook[h] = NotHandling
  /\ \E m \in callbacks :
       \/ /\ gateway = "CRYPTOMUS" /\ m.withdrawal \in known
          /\ hook' = [hook EXCEPT ![h] =
                        [pc |-> "update", of |-> m, old |-> row[m.withdrawal]]]
          /\ UNCHANGED callbacks
       \/ /\ gateway # "CRYPTOMUS" \/ m.withdrawal \notin known
          /\ callbacks' = callbacks \ {m}
          /\ UNCHANGED hook
  /\ UNCHANGED <<gateway, ledger, row, known, payout, call, marking, errors>>

NewlyFailed_Stored(old, status) == IsPayoutFailure(status) /\ ~IsPayoutFailure(status)

NewlyFailed(old, status) == IsPayoutFailure(status) /\ ~IsPayoutFailure(old)

UpdateRow(h) ==
  /\ hook[h].pc = "update"
  /\ row' = [row EXCEPT ![hook[h].of.withdrawal] = Mapped(hook[h].of.status)]
  /\ IF NewlyFailed(hook[h].old, Mapped(hook[h].of.status))
     THEN hook' = [hook EXCEPT ![h].pc = "reject"] /\ UNCHANGED callbacks
     ELSE Ack(h)
  /\ UNCHANGED <<gateway, ledger, known, payout, call, marking, errors>>

RejectHold(h) ==
  /\ hook[h].pc = "reject"
  /\ ledger' = Rejected(hook[h].of.withdrawal)
  /\ Ack(h)
  /\ UNCHANGED <<gateway, row, known, payout, call, marking, errors>>

RejectHoldFails(h) ==
  /\ errors < MaxErrors
  /\ errors' = errors + 1
  /\ hook[h].pc = "reject"
  /\ Ack(h)
  /\ UNCHANGED <<gateway, ledger, row, known, payout, call, marking>>

-----------------------------------------------------------------------------
(* The operator's decision: the ledger first, the row in a later statement *)

Decide(w, to) ==
  /\ ledger[w] = "PENDING" /\ call[w] = "done"
  /\ ledger' = [ledger EXCEPT ![w] = to]
  /\ \/ row[w] # "none" /\ marking' = marking \cup {w}
     \/ UNCHANGED marking           \* the combined endpoint leaves the row alone
  /\ UNCHANGED <<gateway, row, known, call, callbacks, hook, errors>>

\* Settled when the gateway has sent it, or by hand when it never had it.
Approve(w) ==
  /\ Decide(w, "COMPLETED")
  /\ \/ payout[w] = "sent" /\ UNCHANGED payout
     \/ gateway = "MANUAL" /\ payout' = [payout EXCEPT ![w] = "sent"]

Reject(w) ==
  /\ Decide(w, "FAILED")
  /\ payout[w] \in {"none", "refused", "failed"}
  /\ UNCHANGED payout

Decision_Swapped(w) == IF ledger[w] = "COMPLETED" THEN "CANCELLED" ELSE "CONFIRMED"

\* markWithdrawal's word for what the ledger decided.
Decision(w) == IF ledger[w] = "COMPLETED" THEN "CONFIRMED" ELSE "CANCELLED"

Mark(w) ==
  /\ w \in marking
  /\ marking' = marking \ {w}
  /\ row' = [row EXCEPT ![w] = Decision(w)]
  /\ UNCHANGED <<gateway, ledger, known, payout, call, callbacks, hook, errors>>

-----------------------------------------------------------------------------
(* The gateway, and the death of the process *)

GatewayDecides(w) ==
  /\ payout[w] = "undecided"
  /\ \/ /\ payout' = [payout EXCEPT ![w] = "accepted"]
        /\ callbacks' = callbacks \cup {[withdrawal |-> w, status |-> "process"]}
     \/ /\ payout' = [payout EXCEPT ![w] = "refused"]
        /\ UNCHANGED callbacks
  /\ UNCHANGED <<gateway, ledger, row, known, call, hook, marking, errors>>

GatewayFinishes(w) ==
  /\ payout[w] = "accepted"
  /\ \/ /\ payout' = [payout EXCEPT ![w] = "sent"]
        /\ callbacks' = callbacks \cup {[withdrawal |-> w, status |-> "paid"]}
     \/ /\ payout' = [payout EXCEPT ![w] = "failed"]
        /\ callbacks' = callbacks \cup {[withdrawal |-> w, status |-> "fail"]}
  /\ UNCHANGED <<gateway, ledger, row, known, call, hook, marking, errors>>

\* Calls and handlers end where they stand; a callback comes again.
Die ==
  /\ errors < MaxErrors
  /\ errors' = errors + 1
  /\ call' = [w \in Withdrawals |-> IF call[w] = "idle" THEN "idle" ELSE "done"]
  /\ hook' = [h \in Hooks |-> NotHandling]
  /\ marking' = {}
  /\ UNCHANGED <<gateway, ledger, row, known, payout, callbacks>>

Dispatch(w) ==
  \/ CreateRow(w) \/ Queue(w) \/ Send(w) \/ Answer(w)
  \/ Save(w) \/ Review(w) \/ Refuse(w) \/ Release(w) \/ ReleaseFails(w)

Handle(h) == Receive(h) \/ UpdateRow(h) \/ RejectHold(h) \/ RejectHoldFails(h)

PayoutsNext ==
  \/ \E w \in Withdrawals :
       Reserve(w) \/ Dispatch(w) \/ Approve(w) \/ Reject(w) \/ Mark(w)
       \/ GatewayDecides(w) \/ GatewayFinishes(w)
  \/ \E h \in Hooks : Handle(h)
  \/ Die

\* What is awaited comes, callbacks are delivered, and gateways make up their
\* mind.  The operator need not act.
Fairness ==
  /\ \A w \in Withdrawals :
       WF_payoutVars(Dispatch(w)) /\ WF_payoutVars(GatewayDecides(w)) /\ WF_payoutVars(GatewayFinishes(w))
  /\ \A h \in Hooks : WF_payoutVars(Handle(h))

PayoutsSpec == PayoutsInit /\ [][PayoutsNext]_payoutVars
FairSpec == PayoutsSpec /\ Fairness

-----------------------------------------------------------------------------
(* Properties *)

PayoutsTypeOK ==
  /\ gateway \in Gateways
  /\ ledger \in [Withdrawals -> LedgerStatuses]
  /\ row \in [Withdrawals -> RowStatuses]
  /\ known \subseteq Withdrawals
  /\ payout \in [Withdrawals -> Fates]
  /\ call \in [Withdrawals -> Steps]
  /\ callbacks \subseteq Callback
  /\ hook \in [Hooks -> Hook]
  /\ marking \subseteq Withdrawals
  /\ errors \in 0..MaxErrors

\* "They kept the balance AND received the transfer" (payment.service.ts:871-882):
\* no hold is released behind a payout the gateway has accepted or sent.
NotPaidTwice ==
  \A w \in Withdrawals : ledger[w] = "FAILED" => payout[w] \notin {"accepted", "sent"}

\* The row may lag behind the gateway, and a late callback may set it back, but
\* it never says the opposite: failed while the money is going out, or paid while it
\* was not sent.  Webhook, dispatch and operator all write it.
RowNeverLies ==
  \A w \in Withdrawals :
    /\ row[w] \in {"FAILED", "CANCELLED"} => payout[w] \notin {"accepted", "sent"}
    /\ row[w] \in {"PAID", "CONFIRMED"} => payout[w] = "sent"

\* A failure the gateway reports on a payout it is known by is refunded, whatever
\* older callbacks come in late, unless the database failed on the way.  The report
\* has to be news, though, to the row and to every handler that has read it: when the
\* answer to the request said so already, the row was stored as failed with the hold
\* kept, and no callback releases it.
Reported(w) ==
  w \in known /\ [withdrawal |-> w, status |-> "fail"] \in callbacks
News(w) ==
  /\ ~IsPayoutFailure(row[w])
  /\ \A h \in Hooks : hook[h] # NotHandling /\ hook[h].of.withdrawal = w => ~IsPayoutFailure(hook[h].old)
ReportedFailureRefunds ==
  \A w \in Withdrawals :
    gateway = "CRYPTOMUS" /\ Reported(w) /\ News(w) ~> ledger[w] = "FAILED" \/ errors > 0

\* "If the gateway refuses the batch outright the hold is released, because money
\* reserved against a payout that will never happen is money quietly taken from
\* the player" (payment.service.ts:706-708).  The release is tried once and its
\* failure swallowed, so this is as much as the code keeps: released, unless the
\* database failed or the process died on the way.
RefusedIsReleased ==
  \A w \in Withdrawals :
    payout[w] = "refused" /\ row[w] = "FAILED" ~> ledger[w] = "FAILED" \/ errors > 0
=============================================================================
