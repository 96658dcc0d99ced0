------------------------------ MODULE Deposits ------------------------------
(***************************************************************************)
(* Invoices and their callbacks: createDeposit, handleWebhook,             *)
(* handleNowPaymentsIpn and settleDeposit of services/payment.service.ts,  *)
(* behind routes/payment.routes.ts.                                        *)
(*                                                                         *)
(* The gateway calls back for every status an invoice takes, repeats a     *)
(* call until it is answered 200, and may deliver it late, twice or after  *)
(* a newer one.  Whether the invoice is credited already is read outside   *)
(* the transaction that credits it.  Handlers run at once, and fail.       *)
(***************************************************************************)
EXTENDS Naturals, FiniteSets

CONSTANTS
  Invoices,
  Handlers,     \* callbacks handled at once
  Hashes,       \* chain transactions; an invoice may be paid without one being told
  SharedHash,   \* whether one chain transaction may pay two invoices
  MaxFailures   \* bound: database errors and deaths of the process

DepositsAssumption ==
  IsFiniteSet(Handlers) /\ SharedHash \in BOOLEAN /\ MaxFailures \in Nat

NoHash == "none"

VARIABLES
  opening,    \* opening[i]: createDeposit, from its checks to the row
  gate,       \* gate[i]: the invoice at the gateway, and its chain hash
  calls,      \* callbacks not answered 200 yet
  past,       \* callbacks that were ever made: the network may still hold a copy
  row,        \* row[i]: the Payment row
  ledger,     \* the DEPOSIT rows: invoice and unique key
  handler,    \* handler[h]
  failures

vars == <<opening, gate, calls, past, row, ledger, handler, failures>>

Raw == {"check", "confirm_check", "paid", "wrong_amount", "expired"}

\* STATUS_MAP; the IPN statuses map to the same ones.
Mapped(raw) ==
  CASE raw = "check"         -> "PENDING"
    [] raw = "confirm_check" -> "CONFIRMING"
    [] raw = "paid"          -> "PAID"
    [] raw = "wrong_amount"  -> "WRONG_AMOUNT"
    [] raw = "expired"       -> "EXPIRED"

IsSettled_AnyAmount(status) == status \in {"PAID", "WRONG_AMOUNT"}

IsSettled(status) == status = "PAID"

NoRow == [exists |-> FALSE, status |-> "PENDING", credited |-> FALSE]
Free == [pc |-> "free", i |-> "none", raw |-> "check", hash |-> NoHash]

Init ==
  /\ opening = [i \in Invoices |-> "no"]
  /\ gate = [i \in Invoices |-> [status |-> "none", hash |-> NoHash]]
  /\ calls = {} /\ past = {}
  /\ row = [i \in Invoices |-> NoRow]
  /\ ledger = {}
  /\ handler = [h \in Handlers |-> Free]
  /\ failures = 0

-----------------------------------------------------------------------------
(* createDeposit *)

\* The account is not frozen, and the gateway is asked for an invoice.
Open(i) ==
  /\ opening[i] = "no"
  /\ opening' = [opening EXCEPT ![i] = "asked"]
  /\ gate' = [gate EXCEPT ![i].status = "check"]
  /\ UNCHANGED <<calls, past, row, ledger, handler, failures>>

\* Only now does the player learn where to pay.
CreateRow(i) ==
  /\ opening[i] = "asked"
  /\ opening' = [opening EXCEPT ![i] = "done"]
  /\ row' = [row EXCEPT ![i].exists = TRUE]
  /\ UNCHANGED <<gate, calls, past, ledger, handler, failures>>

\* The row cannot be written: an invoice nobody was shown.
CreateRowFails(i) ==
  /\ opening[i] = "asked" /\ failures < MaxFailures
  /\ failures' = failures + 1
  /\ opening' = [opening EXCEPT ![i] = "lost"]
  /\ UNCHANGED <<gate, calls, past, row, ledger, handler>>

-----------------------------------------------------------------------------
(* The gateway *)

HashesOf(i) ==
  {NoHash} \cup {x \in Hashes : SharedHash \/ \A j \in Invoices \ {i} : gate[j].hash # x}

Later(raw) ==
  CASE raw = "check"         -> {"confirm_check", "wrong_amount", "expired"}
    [] raw = "confirm_check" -> {"paid"}
    [] raw = "wrong_amount"  -> {"confirm_check", "expired"}
    [] OTHER                 -> {}

\* An invoice is paid only by a player who was shown it; each status is called back.
Moves(i) ==
  \E raw \in Later(gate[i].status), x \in HashesOf(i) :
    LET call == [i |-> i, raw |-> raw, hash |-> IF raw = "paid" THEN x ELSE NoHash] IN
      /\ raw # "expired" => opening[i] = "done"
      /\ gate' = [gate EXCEPT ![i] = [status |-> raw, hash |-> call.hash]]
      /\ calls' = calls \cup {call}
      /\ past' = past \cup {call}
      /\ UNCHANGED <<opening, row, ledger, handler, failures>>

-----------------------------------------------------------------------------
(* settleDeposit *)

\* A callback arrives, new or once more.
Receive(h, call) ==
  /\ handler[h].pc = "free"
  /\ handler' = [handler EXCEPT ![h] =
                   [pc |-> "read", i |-> call.i, raw |-> call.raw, hash |-> call.hash]]
  /\ UNCHANGED <<opening, gate, calls, past, row, ledger, failures>>

Call(h) == [i |-> handler[h].i, raw |-> handler[h].raw, hash |-> handler[h].hash]

Answer200(h) ==
  /\ calls' = calls \ {Call(h)}
  /\ handler' = [handler EXCEPT ![h] = Free]

Answer500_As200(h) == Answer200(h)

\* The gateway keeps the call and makes it again.
Answer500(h) == handler' = [handler EXCEPT ![h] = Free] /\ UNCHANGED calls

\* An unknown invoice is answered 200; else the row decides what the status does.
ReadRow(h) ==
  LET r == row[handler[h].i] IN
  /\ handler[h].pc = "read"
  /\ IF ~r.exists
       THEN Answer200(h)
       ELSE /\ handler' = [handler EXCEPT ![h].pc =
                 IF ~IsSettled(Mapped(handler[h].raw)) \/ r.credited THEN "update" ELSE "settle"]
            /\ UNCHANGED calls
  /\ UNCHANGED <<opening, gate, past, row, ledger, failures>>

UpdateRow(h) ==
  /\ handler[h].pc = "update"
  /\ row' = [row EXCEPT ![handler[h].i].status = Mapped(handler[h].raw)]
  /\ Answer200(h)
  /\ UNCHANGED <<opening, gate, past, ledger, failures>>

Key(h) == IF handler[h].hash # NoHash THEN handler[h].hash ELSE handler[h].i

MayClaim(i) == ~row[i].credited

\* One transaction; a ledger key that is taken takes all of it back.
Settle(h) ==
  LET i == handler[h].i IN
  /\ handler[h].pc = "settle"
  /\ IF ~MayClaim(i)
       THEN Answer200(h) /\ UNCHANGED <<row, ledger>>
     ELSE IF \E c \in ledger : c.key = Key(h)
       THEN Answer500(h) /\ UNCHANGED <<row, ledger>>
     ELSE /\ row' = [row EXCEPT ![i].status = Mapped(handler[h].raw), ![i].credited = TRUE]
          /\ ledger' = ledger \cup {[i |-> i, key |-> Key(h), by |-> handler[h].raw]}
          /\ Answer200(h)
  /\ UNCHANGED <<opening, gate, past, failures>>

\* A database error is answered 500; a process that dies answers nothing.
Fails(h) ==
  /\ handler[h].pc \in {"read", "update", "settle"} /\ failures < MaxFailures
  /\ failures' = failures + 1
  /\ Answer500(h)
  /\ UNCHANGED <<opening, gate, past, row, ledger>>

\* The process dies just after the commit.
DiesAfterCommit(h) ==
  /\ handler[h].pc = "settle" /\ failures < MaxFailures
  /\ MayClaim(handler[h].i) /\ ~\E c \in ledger : c.key = Key(h)
  /\ row' = [row EXCEPT ![handler[h].i].status = Mapped(handler[h].raw),
                        ![handler[h].i].credited = TRUE]
  /\ ledger' = ledger \cup {[i |-> handler[h].i, key |-> Key(h), by |-> handler[h].raw]}
  /\ Answer500(h)
  /\ failures' = failures + 1
  /\ UNCHANGED <<opening, gate, past>>

Handle(h) == ReadRow(h) \/ UpdateRow(h) \/ Settle(h)

Next ==
  \/ \E i \in Invoices : Open(i) \/ CreateRow(i) \/ CreateRowFails(i) \/ Moves(i)
  \/ \E h \in Handlers :
       \/ Handle(h) \/ Fails(h) \/ DiesAfterCommit(h)
       \/ \E call \in past : Receive(h, call)

\* A running handler goes on, and a call that was not answered 200 is made again and
\* finds the server up; SF because a server busy with other calls comes free in between.
Fairness ==
  /\ \A h \in Handlers : WF_vars(Handle(h))
  /\ \A i \in Invoices :
       SF_vars(\E h \in Handlers, call \in calls : call.i = i /\ IsSettled(Mapped(call.raw)) /\ Receive(h, call))

Spec == Init /\ [][Next]_vars /\ Fairness

-----------------------------------------------------------------------------
(* Properties *)

Statuses == {"PENDING", "CONFIRMING", "PAID", "WRONG_AMOUNT", "EXPIRED"}

TypeOK ==
  /\ opening \in [Invoices -> {"no", "asked", "done", "lost"}]
  /\ \A i \in Invoices : gate[i].status \in Raw \cup {"none"} /\ gate[i].hash \in Hashes \cup {NoHash}
  /\ calls \subseteq past
  /\ \A i \in Invoices :
       /\ row[i].exists \in BOOLEAN /\ row[i].credited \in BOOLEAN
       /\ row[i].status \in Statuses
  /\ \A h \in Handlers : handler[h].pc \in {"free", "read", "update", "settle"}
  /\ failures \in 0..MaxFailures

\* However often and in whatever order the callbacks come: an invoice is credited once,
\* by a call that says it was paid in full, and its row knows of the credit.
CreditedOnce ==
  /\ \A c, d \in ledger : c.i = d.i => c = d
  /\ \A c, d \in ledger : c.key = d.key => c = d
  /\ \A i \in Invoices :
       row[i].credited <=> \E c \in ledger : c.i = i /\ c.by = "paid"

\* An invoice the gateway was paid for is credited in the end, through any number of
\* lost answers and database errors.
PaidIsCredited == \A i \in Invoices : gate[i].status = "paid" ~> row[i].credited
=============================================================================
