------------------------------ MODULE PayoutQueue ------------------------------
(***************************************************************************)
(* The queue of withdrawals that wait for an approver: the page            *)
(* (WithdrawalQueue.tsx), the list and the combined decision of            *)
(* admin/risk.routes.ts, and the ledger's approve and reject, which decide *)
(* only a row that is pending and record who decided, and why, in the same *)
(* transaction.  What becomes of the payout is in Payouts.                 *)
(*                                                                         *)
(* A reason is the withdrawal it was typed for.                            *)
(***************************************************************************)
EXTENDS Naturals, Sequences, FiniteSets

CONSTANTS
  Staff,       \* administrators
  Holds,       \* the withdrawals
  MaxActs      \* bound: decisions asked for

PayoutQueueAssumption == MaxActs \in Nat

NoHold == "none"

VARIABLES
  status,      \* status[w]: PENDING, COMPLETED or FAILED, the hold released or refunded
  log,         \* audit entries: [by, hold, action, reason]
  acts,        \* requests: [n, by, hold, action, reason, step]
  asked,       \* counts them
  rows,        \* rows[a]: the withdrawals on the page
  rejecting,   \* rejecting[a]: the row whose reason is asked for
  reason,      \* reason[a]: what the text was typed for, NoHold while it is empty
  busy,        \* busy[a]: the request the page waits for, or 0
  message      \* message[a] = [text, hold]

vars == <<status, log, acts, asked, rows, rejecting, reason, busy, message>>
page == <<rows, rejecting, reason>>

Silent == [text |-> "none", hold |-> NoHold]
Pending == {w \in Holds : status[w] = "PENDING"}

Init ==
  /\ status = [w \in Holds |-> "PENDING"] /\ log = <<>>
  /\ acts = {} /\ asked = 0 /\ rows = [a \in Staff |-> Holds]
  /\ rejecting = [a \in Staff |-> NoHold] /\ reason = [a \in Staff |-> NoHold]
  /\ busy = [a \in Staff |-> 0] /\ message = [a \in Staff |-> Silent]

-----------------------------------------------------------------------------
(* The page *)

\* The text is emptied with every change of the row it belongs to.
Cleared(w) == NoHold

Reject(a, w) ==
  /\ busy[a] = 0 /\ w \in rows[a] /\ rejecting[a] # w
  /\ rejecting' = [rejecting EXCEPT ![a] = w] /\ reason' = [reason EXCEPT ![a] = Cleared(@)]
  /\ UNCHANGED <<status, log, acts, asked, rows, busy, message>>

Cancel(a) ==
  /\ rejecting[a] \in rows[a]
  /\ rejecting' = [rejecting EXCEPT ![a] = NoHold] /\ reason' = [reason EXCEPT ![a] = Cleared(@)]
  /\ UNCHANGED <<status, log, acts, asked, rows, busy, message>>

Type(a) ==
  /\ rejecting[a] \in rows[a] /\ reason[a] = NoHold
  /\ reason' = [reason EXCEPT ![a] = rejecting[a]]
  /\ UNCHANGED <<status, log, acts, asked, rows, rejecting, busy, message>>

Act(a, w, action) ==
  /\ busy[a] = 0 /\ w \in rows[a] /\ asked < MaxActs /\ asked' = asked + 1
  /\ action = "APPROVE" => rejecting[a] # w
  /\ action = "REJECT" => rejecting[a] = w /\ reason[a] # NoHold
  /\ acts' = acts \cup {[n |-> asked', by |-> a, hold |-> w, action |-> action, step |-> "sent",
                         reason |-> IF action = "REJECT" THEN reason[a] ELSE NoHold]}
  /\ busy' = [busy EXCEPT ![a] = asked'] /\ message' = [message EXCEPT ![a] = Silent]
  /\ UNCHANGED <<status, log, page>>

\* The page is read again: the oldest that are pending.
Load(a) ==
  /\ rows[a] # Pending /\ rows' = [rows EXCEPT ![a] = Pending]
  /\ UNCHANGED <<status, log, acts, asked, rejecting, reason, busy, message>>

-----------------------------------------------------------------------------
(* The server *)

Outcome(action) == IF action = "APPROVE" THEN "COMPLETED" ELSE "FAILED"

\* The ledger's update finds the row only while it is pending.
IsPending(c) == status[c.hold] = "PENDING"

Decide(c) ==
  /\ c.step = "sent"
  /\ IF IsPending(c)
     THEN /\ status' = [status EXCEPT ![c.hold] = Outcome(c.action)]
          /\ log' = Append(log, [by |-> c.by, hold |-> c.hold, action |-> c.action, reason |-> c.reason])
          /\ acts' = (acts \ {c}) \cup {[c EXCEPT !.step = "decided"]}
     ELSE acts' = (acts \ {c}) \cup {[c EXCEPT !.step = "not_pending"]} /\ UNCHANGED <<status, log>>
  /\ UNCHANGED <<asked, page, busy, message>>

-----------------------------------------------------------------------------
(* The answer *)

Say(a, text, w) == message' = [message EXCEPT ![a] = [text |-> text, hold |-> w]]

\* "Refunded", "approved", or "no longer pending: it was already handled".
TextOf(c) == IF c.step = "decided" THEN Outcome(c.action) ELSE "handled"

Take(c) ==
  /\ c.step # "sent" /\ acts' = acts \ {c}
  /\ IF busy[c.by] = c.n
     THEN /\ Say(c.by, TextOf(c), c.hold) /\ busy' = [busy EXCEPT ![c.by] = 0]
          /\ rejecting' = [rejecting EXCEPT ![c.by] = NoHold]
          /\ reason' = [reason EXCEPT ![c.by] = NoHold]
     ELSE UNCHANGED <<message, busy, rejecting, reason>>
  /\ UNCHANGED <<status, log, asked, rows>>

\* "Could not reach the admin API": what was being rejected is still being rejected.
Lose(a) ==
  /\ busy[a] # 0 /\ busy' = [busy EXCEPT ![a] = 0] /\ Say(a, "unreachable", NoHold)
  /\ UNCHANGED <<status, log, acts, asked, page>>

Next ==
  \/ \E a \in Staff :
       \/ Cancel(a) \/ Type(a) \/ Load(a) \/ Lose(a)
       \/ \E w \in Holds : Reject(a, w) \/ Act(a, w, "APPROVE") \/ Act(a, w, "REJECT")
  \/ \E c \in acts : Decide(c) \/ Take(c)

Spec == Init /\ [][Next]_vars

-----------------------------------------------------------------------------
\* The variables have their types.
TypeOK ==
  /\ status \in [Holds -> {"PENDING", "COMPLETED", "FAILED"}]
  /\ rows \in [Staff -> SUBSET Holds] /\ asked \in 0..MaxActs
  /\ \A a \in Staff : {rejecting[a], reason[a], message[a].hold} \subseteq Holds \cup {NoHold}
  /\ busy \in [Staff -> 0..MaxActs] /\ Len(log) <= asked

\* Two approvers at the same queue: a withdrawal is decided once, as the audit log says, and a
\* refusal carries the reason typed for that player's withdrawal and no other.
DecidedOnceForItsReason ==
  /\ \A w \in Holds :
       \/ status[w] = "PENDING" /\ \A i \in DOMAIN log : log[i].hold # w
       \/ \E i \in DOMAIN log :
            /\ log[i].hold = w /\ status[w] = Outcome(log[i].action)
            /\ \A j \in DOMAIN log : log[j].hold = w => j = i
  /\ \A i \in DOMAIN log : log[i].action = "REJECT" => log[i].reason = log[i].hold

\* "Refunded to the player", "approved" and "already handled" (WithdrawalQueue.tsx) are true of
\* the withdrawal they were answered for.
QueueSaysWhatWasDecided ==
  \A a \in Staff :
    LET m == message[a] IN
    /\ m.text \in {"COMPLETED", "FAILED"} => status[m.hold] = m.text
    /\ m.text = "handled" => status[m.hold] # "PENDING"
=============================================================================
