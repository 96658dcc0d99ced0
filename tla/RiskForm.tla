-------------------------------- MODULE RiskForm --------------------------------
(***************************************************************************)
(* The wagering limits and the maintenance mode as administrators set      *)
(* them: RiskForm.tsx, which sends the whole form, and the routes of       *)
(* admin/risk.routes.ts over riskConfig.service.ts, which check it and     *)
(* write it together with its audit entry.  How bets are judged by what is *)
(* stored is in InstantBets.                                               *)
(*                                                                         *)
(* One game stands for all, with the least and the greatest bet; what was  *)
(* never stored reads as the defaults of the platform.                     *)
(***************************************************************************)
EXTENDS Naturals, Sequences, SequencesExt, FiniteSets

CONSTANTS
  Staff,      \* administrators
  Bets,       \* amounts of a limit
  Defaults,   \* the limits of game.config.ts
  MaxSaves,   \* bound: PUT requests
  MaxTyped    \* bound: edits of fields

Limits == [min : Bets, max : Bets]
RiskFormAssumption ==
  /\ Bets \subseteq Nat \ {0} /\ Defaults \in Limits /\ Defaults.min <= Defaults.max
  /\ {MaxSaves, MaxTyped} \subseteq Nat

Settings == [halted : BOOLEAN, limit : Limits]
Unset == [halted |-> FALSE, limit |-> [min |-> 0, max |-> 0]]
ByDefault == [halted |-> FALSE, limit |-> Defaults]

VARIABLES
  stored,     \* the singleton and the row of the game, or Unset
  audit,      \* settings recorded by the audit log, in order
  fields,     \* fields[a]: the form
  puts,       \* [n, by, body, step]: PUT /api/admin/risk
  sent,       \* counts them
  waiting,    \* waiting[a]: the request the button waits for, or 0
  said,       \* said[a]: "saved", "failed" or "nothing"
  typed,      \* counts edits
  apart       \* history: apart[a], the form was edited or another's was stored since the save

vars == <<stored, audit, fields, puts, sent, waiting, said, typed, apart>>

\* readRiskConfig.
Read == IF stored = Unset THEN ByDefault ELSE stored

Init ==
  /\ stored \in {Unset, [halted |-> TRUE, limit |-> Defaults]}
  /\ audit = IF stored = Unset THEN <<>> ELSE <<stored>>
  /\ fields = [a \in Staff |-> Read]
  /\ puts = {} /\ sent = 0 /\ waiting = [a \in Staff |-> 0]
  /\ said = [a \in Staff |-> "nothing"] /\ typed = 0 /\ apart = [a \in Staff |-> FALSE]

-----------------------------------------------------------------------------
\* The fields stay open while a save is under way.
Type(a, next) ==
  /\ typed < MaxTyped /\ typed' = typed + 1
  /\ next # fields[a] /\ fields' = [fields EXCEPT ![a] = next]
  /\ apart' = [apart EXCEPT ![a] = TRUE]
  /\ UNCHANGED <<stored, audit, puts, sent, waiting, said>>

Edit(a) ==
  \/ Type(a, [fields[a] EXCEPT !.halted = ~@])
  \/ \E bet \in Bets : Type(a, [fields[a] EXCEPT !.limit.min = bet])
                       \/ Type(a, [fields[a] EXCEPT !.limit.max = bet])

\* The page is opened again; a refresh alone leaves the fields of a mounted form as they are.
Reopen(a) ==
  /\ fields[a] # Read \/ said[a] # "nothing" \/ waiting[a] # 0
  /\ fields' = [fields EXCEPT ![a] = Read] /\ waiting' = [waiting EXCEPT ![a] = 0]
  /\ said' = [said EXCEPT ![a] = "nothing"]
  /\ UNCHANGED <<stored, audit, puts, sent, typed, apart>>

Valid(s) == s.limit.min <= s.limit.max

Save(a) ==
  /\ waiting[a] = 0 /\ Valid(fields[a]) /\ sent < MaxSaves /\ sent' = sent + 1
  /\ puts' = puts \cup {[n |-> sent', by |-> a, body |-> fields[a], step |-> "sent"]}
  /\ waiting' = [waiting EXCEPT ![a] = sent'] /\ said' = [said EXCEPT ![a] = "nothing"]
  /\ apart' = [apart EXCEPT ![a] = FALSE]
  /\ UNCHANGED <<stored, audit, fields, typed>>

\* A request of an administrator that no form checked.
Direct(a, body) ==
  /\ ~Valid(body) /\ sent < MaxSaves /\ sent' = sent + 1
  /\ puts' = puts \cup {[n |-> sent', by |-> a, body |-> body, step |-> "sent"]}
  /\ UNCHANGED <<stored, audit, fields, waiting, said, typed, apart>>

-----------------------------------------------------------------------------
Move(p, step) == puts' = (puts \ {p}) \cup {[p EXCEPT !.step = step]}

\* Each limit is parsed again: the least bet cannot exceed the greatest.
Checked(p) == Valid(p.body)

Parse(p) ==
  /\ p.step = "sent" /\ Move(p, IF Checked(p) THEN "parsed" ELSE "refused")
  /\ UNCHANGED <<stored, audit, fields, sent, waiting, said, typed, apart>>

\* The singleton and the limits, created or updated.
Upserted(body) == body

\* writeRiskConfig: one transaction, the audit entry in it; the last one wins.
Write(p) ==
  /\ p.step = "parsed" /\ Move(p, "written")
  /\ stored' = Upserted(p.body) /\ audit' = Append(audit, p.body)
  /\ apart' = [a \in Staff |-> apart[a] \/ a # p.by \/ waiting[a] # p.n]
  /\ UNCHANGED <<fields, sent, waiting, said, typed>>

\* The answer: "saved and now enforced", or what was wrong with it.
Take(p) ==
  /\ p.step \in {"written", "refused"} /\ puts' = puts \ {p}
  /\ IF waiting[p.by] = p.n
     THEN /\ waiting' = [waiting EXCEPT ![p.by] = 0]
          /\ said' = [said EXCEPT ![p.by] = IF p.step = "written" THEN "saved" ELSE "failed"]
     ELSE UNCHANGED <<waiting, said>>
  /\ UNCHANGED <<stored, audit, fields, sent, typed, apart>>

\* "Could not reach the admin API": the request may still be served.
Lose(p) ==
  /\ waiting[p.by] = p.n /\ waiting' = [waiting EXCEPT ![p.by] = 0]
  /\ said' = [said EXCEPT ![p.by] = "failed"]
  /\ UNCHANGED <<stored, audit, fields, puts, sent, typed, apart>>

Next ==
  \/ \E a \in Staff : Edit(a) \/ Reopen(a) \/ Save(a) \/ (\E body \in Settings : Direct(a, body))
  \/ \E p \in puts : Parse(p) \/ Write(p) \/ Take(p) \/ Lose(p)

Spec == Init /\ [][Next]_vars

-----------------------------------------------------------------------------
\* The variables have their types.
TypeOK ==
  /\ stored \in {Unset} \cup Settings /\ fields \in [Staff -> Settings]
  /\ sent \in 0..MaxSaves /\ typed \in 0..MaxTyped
  /\ said \in [Staff -> {"nothing", "saved", "failed"}]
  /\ \A p \in puts : p.body \in Settings /\ p.n \in 1..sent

\* "A settings change is never recorded half-applied" (riskConfig.service.ts): what is stored
\* is what the last audit entry records, and a bet is possible under it.
RecordedAsApplied ==
  IF stored = Unset THEN audit = <<>> ELSE stored = Last(audit) /\ stored.limit.min <= stored.limit.max

\* "Risk configuration saved and now enforced" (RiskForm.tsx): what the form then shows is
\* stored, unless it was edited since or another save was.
SavedIsEnforced == \A a \in Staff : (said[a] = "saved" /\ ~apart[a]) => fields[a] = stored
=============================================================================
