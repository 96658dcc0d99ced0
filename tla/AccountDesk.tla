------------------------------ MODULE AccountDesk ------------------------------
(***************************************************************************)
(* Administrators at work on accounts: the table and the drawer of the     *)
(* console (UsersTable.tsx, UserDrawer.tsx) and the routes behind them     *)
(* (admin/users.routes.ts), each of which changes an account and writes    *)
(* the audit entry in one transaction.                                     *)
(*                                                                         *)
(* The accounts are those of the administrators: what one does to another  *)
(* decides who may act next.  An adjustment is a credit of one unit; how   *)
(* it moves the wallet is in Ledger.  Reasons are given where they are     *)
(* asked for.                                                              *)
(***************************************************************************)
EXTENDS Naturals, Sequences, FiniteSets

CONSTANTS
  Admins,      \* the accounts, all of administrators at first
  Cuts,        \* RevShare percentages
  FirstCut,
  MaxCalls,    \* bound: requests
  MaxForms,    \* bound: drawers opened
  MaxEdits     \* bound: edits in them

AccountDeskAssumption ==
  Admins # {} /\ FirstCut \in Cuts /\ {MaxCalls, MaxForms, MaxEdits} \subseteq Nat

VARIABLES
  account,    \* account[a] = [role, status, cut]
  credits,    \* credits[a]: adjustments of a's balance
  keys,       \* idempotency keys of the ledger
  trail,      \* the audit log
  calls,      \* requests: [n, by, form, verb, target, to, key, step]
  asked,      \* counts them
  drawer,     \* drawer[a]
  forms,      \* counts drawers
  edits,      \* counts what is typed or chosen in them
  confirmed,  \* history: adjustments a drawer was told of
  crossed     \* history: an administrator lost the role with a request under way

vars == <<account, credits, keys, trail, calls, asked, drawer, forms, edits, confirmed,
          crossed>>
server == <<account, credits, keys, trail, crossed>>
screen == <<drawer, forms, edits, confirmed>>

Fresh == [role |-> "ADMIN", status |-> "active", cut |-> FirstCut]
NoOne == "no one"
NotSaid == [verb |-> "none", target |-> NoOne, to |-> "none"]
Closed == [form |-> 0, user |-> NoOne, row |-> Fresh, cut |-> FirstCut, typed |-> FALSE,
           switched |-> FALSE, key |-> 0, busy |-> 0, said |-> NotSaid]

Init ==
  /\ account = [a \in Admins |-> Fresh] /\ credits = [a \in Admins |-> 0]
  /\ keys = {} /\ trail = <<>> /\ calls = {} /\ asked = 0
  /\ drawer = [a \in Admins |-> Closed]
  /\ forms = 0 /\ edits = 0 /\ confirmed = [f \in 1..MaxForms |-> 0] /\ crossed = FALSE

-----------------------------------------------------------------------------
(* The drawer *)

IsOpen(a) == drawer[a].form # 0
Set(a, d) == drawer' = [drawer EXCEPT ![a] = d]

\* On the row of the table; a key is generated when the form opens.
Open(a, u) ==
  /\ ~IsOpen(a) /\ forms < MaxForms /\ forms' = forms + 1
  /\ Set(a, [Closed EXCEPT !.form = forms + 1, !.user = u, !.row = account[u],
                           !.cut = account[u].cut])
  /\ UNCHANGED <<server, calls, asked, edits, confirmed>>

Close(a) ==
  /\ IsOpen(a) /\ Set(a, Closed)
  /\ UNCHANGED <<server, calls, asked, forms, edits, confirmed>>

\* The field follows the row when its cut changes.
Synced(d, row) ==
  IF row.cut = d.row.cut THEN [d EXCEPT !.row = row]
  ELSE [d EXCEPT !.row = row, !.cut = row.cut, !.typed = FALSE]

\* Another row is chosen from the keyboard behind the drawer, which goes on with it.
Switch(a, u) ==
  /\ IsOpen(a) /\ u # drawer[a].user /\ edits < MaxEdits /\ edits' = edits + 1
  /\ Set(a, Synced([drawer[a] EXCEPT !.user = u, !.switched = TRUE], account[u]))
  /\ UNCHANGED <<server, calls, asked, forms, confirmed>>

\* The page is read again, after a change of its own or as the administrator browses.
Load(a) ==
  /\ IsOpen(a) /\ drawer[a].row # account[drawer[a].user]
  /\ Set(a, Synced(drawer[a], account[drawer[a].user]))
  /\ UNCHANGED <<server, calls, asked, forms, edits, confirmed>>

TypeCut(a, cut) ==
  /\ IsOpen(a) /\ cut # drawer[a].cut /\ edits < MaxEdits /\ edits' = edits + 1
  /\ Set(a, [drawer[a] EXCEPT !.cut = cut, !.typed = TRUE])
  /\ UNCHANGED <<server, calls, asked, forms, confirmed>>

\* What the buttons ask for, where they are enabled.  A role is chosen as it is saved.
Opposite(status) == IF status = "active" THEN "frozen" ELSE "active"
Orders(a) ==
  LET d == drawer[a] IN
  {<<"balance", "credit">>, <<"status", Opposite(d.row.status)>>}
    \cup {o \in {<<"role", "USER">>, <<"role", "ADMIN">>, <<"cut", d.cut>>} : o[2] # d.row[o[1]]}

KeyFor(a) == <<drawer[a].form, drawer[a].key>>

Submit(a, order) ==
  /\ drawer[a].busy = 0 /\ asked < MaxCalls /\ asked' = asked + 1
  /\ calls' = calls \cup {[n |-> asked + 1, by |-> a, form |-> drawer[a].form, verb |-> order[1],
                           target |-> drawer[a].user, to |-> order[2], key |-> KeyFor(a),
                           step |-> "sent"]}
  /\ Set(a, [drawer[a] EXCEPT !.busy = asked + 1, !.said = NotSaid])
  /\ UNCHANGED <<server, forms, edits, confirmed>>

-----------------------------------------------------------------------------
(* The routes *)

Move(c, step) == calls' = (calls \ {c}) \cup {[c EXCEPT !.step = step]}

\* One's own account may be neither demoted nor frozen.
OnOneself(c) == c.target = c.by /\ c.to \in {"USER", "frozen"}

\* requireAdmin reads the role of this moment.
Authorise(c) ==
  /\ c.step = "sent"
  /\ Move(c, IF account[c.by].role # "ADMIN" \/ OnOneself(c) THEN "refused" ELSE "authorised")
  /\ UNCHANGED <<server, asked, screen>>

\* auditWithin: the entry is written by the transaction that makes the change.
Audited(c) ==
  Append(trail, [by |-> c.by, form |-> c.form, verb |-> c.verb, target |-> c.target, to |-> c.to])

Apply(c) ==
  /\ c.step = "authorised" /\ c.verb # "balance"
  /\ account' = [account EXCEPT ![c.target][c.verb] = c.to]
  /\ trail' = Audited(c) /\ Move(c, "done")
  /\ crossed' = (crossed \/ account[c.by].role # "ADMIN")
  /\ UNCHANGED <<credits, keys, asked, screen>>

\* adjustBalance: a key that was used before moves nothing.
Adjust(c) ==
  /\ c.step = "authorised" /\ c.verb = "balance"
  /\ IF c.key \in keys THEN Move(c, "replayed") /\ UNCHANGED <<credits, keys, trail>>
     ELSE /\ keys' = keys \cup {c.key} /\ credits' = [credits EXCEPT ![c.target] = @ + 1]
          /\ trail' = Audited(c) /\ Move(c, "done")
  /\ UNCHANGED <<account, crossed, asked, screen>>

-----------------------------------------------------------------------------
(* The answer *)

Answered(c) == c.step \in {"done", "replayed", "refused"}
Waits(c) == drawer[c.by].form = c.form /\ drawer[c.by].busy = c.n

\* Not one the drawer still waits for: it was closed, or told that the answer is lost.
Forget(c) ==
  /\ Answered(c) /\ ~Waits(c) /\ calls' = calls \ {c}
  /\ UNCHANGED <<server, asked, screen>>

\* The form starts again under a new key once its adjustment is confirmed.
Succeeds(c) ==
  /\ c.step \in {"done", "replayed"} /\ Waits(c) /\ calls' = calls \ {c}
  /\ LET d == [drawer[c.by] EXCEPT !.busy = 0,
                 !.said = [verb |-> c.verb, target |-> c.target, to |-> c.to]] IN
     IF c.verb = "balance"
     THEN /\ Set(c.by, [d EXCEPT !.key = @ + 1])
          /\ confirmed' = [confirmed EXCEPT ![c.form] = @ + 1]
     ELSE Set(c.by, d) /\ UNCHANGED confirmed
  /\ UNCHANGED <<server, asked, forms, edits>>

Refused(c) ==
  /\ c.step = "refused" /\ Waits(c) /\ calls' = calls \ {c}
  /\ Set(c.by, [drawer[c.by] EXCEPT !.busy = 0])
  /\ UNCHANGED <<server, asked, forms, edits, confirmed>>

\* "Could not reach the admin API": what became of the request is not known.
Lose(c) ==
  /\ Waits(c) /\ Set(c.by, [drawer[c.by] EXCEPT !.busy = 0])
  /\ UNCHANGED <<server, calls, asked, forms, edits, confirmed>>

-----------------------------------------------------------------------------
Next ==
  \/ \E a \in Admins :
       \/ Close(a) \/ Load(a)
       \/ \E u \in Admins : Open(a, u) \/ Switch(a, u)
       \/ \E cut \in Cuts : TypeCut(a, cut)
       \/ IsOpen(a) /\ \E order \in Orders(a) : Submit(a, order)
  \/ \E c \in calls :
       Authorise(c) \/ Apply(c) \/ Adjust(c) \/ Forget(c) \/ Succeeds(c) \/ Refused(c) \/ Lose(c)

Spec == Init /\ [][Next]_vars

-----------------------------------------------------------------------------
Accounts == [role : {"USER", "ADMIN"}, status : {"active", "frozen"}, cut : Cuts]

\* The variables have their types.
TypeOK ==
  /\ account \in [Admins -> Accounts] /\ credits \in [Admins -> 0..MaxCalls]
  /\ asked \in 0..MaxCalls /\ forms \in 0..MaxForms /\ Len(trail) <= asked
  /\ \A c \in calls : c.n \in 1..asked /\ c.form \in 1..forms
  /\ \A a \in Admins : drawer[a].form \in 0..forms /\ drawer[a].row \in Accounts

Entries(u, verb) == {i \in DOMAIN trail : trail[i].target = u /\ trail[i].verb = verb}

\* "Every change is written to the audit log" (admin/users/page.tsx): replayed, it gives
\* every account as it is, however the requests of the administrators interleave.
TrailIsTrue ==
  \A u \in Admins :
    /\ credits[u] = Cardinality(Entries(u, "balance"))
    /\ \A verb \in {"role", "status", "cut"} :
         \/ account[u][verb] = Fresh[verb] /\ Entries(u, verb) = {}
         \/ \E i \in Entries(u, verb) :
              account[u][verb] = trail[i].to /\ \A j \in Entries(u, verb) : j <= i

Moves(f) == {i \in DOMAIN trail : trail[i].verb = "balance" /\ trail[i].form = f}

\* "A retried request cannot move money twice" (UserDrawer.tsx): of one drawer, at most one
\* adjustment was made that the administrator was not told of.
MovedOncePerForm ==
  \A f \in 1..forms : Cardinality(Moves(f)) <= confirmed[f] + 1

\* The refusal to demote oneself keeps an administrator, as long as no one who acts loses the
\* role before the change is made.
SomeoneIsAdmin == crossed \/ \E a \in Admins : account[a].role = "ADMIN"

\* "The field never shows a stale cut" (UserDrawer.tsx): it shows the row's, or what was typed.
CutIsCurrent ==
  \A a \in Admins : IsOpen(a) => drawer[a].typed \/ drawer[a].cut = drawer[a].row.cut

\* What the drawer says was done was done, to the account it shows unless another was chosen
\* since it opened.
SaidIsDone ==
  \A a \in Admins :
    LET d == drawer[a] IN
    d.said # NotSaid =>
      /\ \E i \in DOMAIN trail : trail[i].by = a /\ trail[i].verb = d.said.verb /\ trail[i].to = d.said.to
      /\ d.switched \/ d.said.target = d.user
=============================================================================
