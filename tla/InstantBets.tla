---------------------------- MODULE InstantBets ----------------------------
(***************************************************************************)
(* Bets decided in one request: handleInstantBet of                        *)
(* websocket/socket.server.ts and POST /api/games/slots/spin, under the    *)
(* limits of services/riskConfig.service.ts.                               *)
(*                                                                         *)
(* The limits are cached for a few seconds and asked twice, before the     *)
(* debit and before the credit.  A load reads two tables in two queries    *)
(* and fills the cache when both have answered; an administrator's change  *)
(* commits, and only then empties the cache.  So a load that read either   *)
(* table before a change may fill the cache with it after it was emptied.  *)
(* Any statement after the debit may fail; nothing undoes the ones before. *)
(***************************************************************************)
EXTENDS Naturals, FiniteSets

CONSTANTS
  Requests,      \* requests under way at once, each one bet
  Amounts,       \* stakes
  Multipliers,   \* what an engine may return; 0 loses
  Limits,        \* values of maxBet and maxWin; a maxWin of 0 caps nothing
  Ttl,           \* CACHE_TTL_MS
  Slow,          \* the longest a query of the limits takes
  MaxClock,      \* bound: the clock
  MaxVersion     \* bound: changes of the configuration

InstantAssumption ==
  /\ IsFiniteSet(Requests) /\ Amounts \subseteq Nat \ {0} /\ Multipliers \subseteq Nat
  /\ Limits \subseteq Nat /\ {Ttl, Slow, MaxClock, MaxVersion} \subseteq Nat

VARIABLES
  clock,
  config,    \* config[v]: the configuration after the v-th change
  since,     \* since[v]: when it was committed
  emptying,  \* writeRiskConfig between its commit and invalidateRiskCache
  cache,     \* the versions the cached maintenance flag and limits come from
  request,   \* request[b]: its local variables
  debited, drawn, credited, recorded   \* what bets did: the stake and nonce taken, the
                                        \* credit, and the GameSession row

instantVars == <<clock, config, since, emptying, cache, request, debited, drawn, credited, recorded>>
admin == <<config, since, emptying>>
effects == <<debited, drawn, credited, recorded>>

Versions == 0..MaxVersion
Config == [maintenance : BOOLEAN, max : Limits, win : Limits]
Now == Cardinality(DOMAIN config) - 1

NoCache == [full |-> FALSE, flag |-> 0, limits |-> 0, at |-> 0]
Fresh0 == [pc |-> "idle", amount |-> 0, flag |-> 0, limits |-> 0, at |-> 0, m |-> 0, payout |-> 0]

InstantInit ==
  /\ clock = 0
  /\ config \in [{0} -> [maintenance : {FALSE}, max : Limits, win : Limits]]
  /\ since = [v \in {0} |-> 0]
  /\ emptying = FALSE
  /\ cache = NoCache
  /\ request = [b \in Requests |-> Fresh0]
  /\ debited = {} /\ drawn = {} /\ credited = {} /\ recorded = {}

Reached(b, pc) == request[b].pc = pc
Advance(b, pc) == request' = [request EXCEPT ![b].pc = pc]

-----------------------------------------------------------------------------
(* riskConfig *)

IsFresh_Always == cache.full

IsFresh == cache.full /\ clock - cache.at < Ttl

\* load(), asked for by a bet that goes on at `next` when it has the limits: the cache,
\* or the two queries, each of which may see what stands by now or any later version.
Load(b, next) ==
  request' = [request EXCEPT ![b] =
    IF IsFresh
      THEN [@ EXCEPT !.pc = next, !.flag = cache.flag, !.limits = cache.limits]
      ELSE [@ EXCEPT !.pc = IF next = "judge" THEN "load1" ELSE "load2",
                     !.flag = Now, !.limits = Now, !.at = clock]]

\* Both have answered, each with what it saw at its own moment since they were asked;
\* the cache is filled with that, whatever happened meanwhile.
Filled(b) ==
  /\ request[b].pc \in {"load1", "load2"}
  /\ \E flag \in request[b].flag..Now, limits \in request[b].limits..Now :
       /\ cache' = [full |-> TRUE, flag |-> flag, limits |-> limits, at |-> clock]
       /\ request' = [request EXCEPT ![b].pc = IF @ = "load1" THEN "judge" ELSE "cap",
                                     ![b].flag = flag, ![b].limits = limits]
  /\ UNCHANGED <<clock, admin, effects>>

\* writeRiskConfig: one transaction with its audit entry, ...
WriteConfig ==
  /\ Now < MaxVersion /\ ~emptying
  /\ \E c \in Config :
       config' = [v \in DOMAIN config \cup {Now + 1} |-> IF v = Now + 1 THEN c ELSE config[v]]
  /\ since' = [v \in DOMAIN since \cup {Now + 1} |-> IF v = Now + 1 THEN clock ELSE since[v]]
  /\ emptying' = TRUE
  /\ UNCHANGED <<clock, cache, request, effects>>

\* ... then invalidateRiskCache.
Invalidate ==
  /\ emptying
  /\ emptying' = FALSE
  /\ cache' = NoCache
  /\ UNCHANGED <<clock, config, since, request, effects>>

-----------------------------------------------------------------------------
(* A bet *)

Arrive(b) ==
  /\ Reached(b, "idle")
  /\ \E a \in Amounts : request' = [request EXCEPT ![b].amount = a, ![b].pc = "assert"]
  /\ UNCHANGED <<clock, admin, cache, effects>>

AssertWagerAllowed(b) ==
  /\ Reached(b, "assert")
  /\ Load(b, "judge")
  /\ UNCHANGED <<clock, admin, cache, effects>>

\* Maintenance and the limit of the game, as loaded; the debit may be refused too.
Judge(b) ==
  /\ Reached(b, "judge")
  /\ \/ /\ ~config[request[b].flag].maintenance /\ request[b].amount <= config[request[b].limits].max
        /\ debited' = debited \cup {b}
        /\ Advance(b, "debited")
     \/ Advance(b, "over") /\ UNCHANGED debited
  /\ UNCHANGED <<clock, admin, cache, drawn, credited, recorded>>

\* The stake is taken before the seed's nonce is consumed.
DrawsFrom(b) == Reached(b, "debited")

\* nextSeedContext and the engine, which may refuse its parameters.
Draw(b) ==
  /\ DrawsFrom(b)
  /\ drawn' = drawn \cup {b}
  /\ \/ \E m \in Multipliers :
          request' = [request EXCEPT ![b].m = m, ![b].pc = IF m > 0 THEN "payoutOf" ELSE "record"]
     \/ Advance(b, "over")
  /\ UNCHANGED <<clock, admin, cache, debited, credited, recorded>>

PayoutOf(b) ==
  /\ Reached(b, "payoutOf")
  /\ Load(b, "cap")
  /\ UNCHANGED <<clock, admin, cache, effects>>

Capped_Never(b) == request[b].amount * request[b].m

\* capPayout
Capped(b) ==
  LET win == config[request[b].limits].win IN
  IF win > 0 /\ request[b].amount * request[b].m > win THEN win ELSE request[b].amount * request[b].m

\* processWin under the key of the bet; a credit that fails ends the request.
CreditWin(b) ==
  /\ Reached(b, "cap")
  /\ \/ /\ credited' = credited \cup {[b |-> b, amount |-> Capped(b), limits |-> request[b].limits]}
        /\ request' = [request EXCEPT ![b].payout = Capped(b), ![b].pc = "record"]
     \/ Advance(b, "over") /\ UNCHANGED credited
  /\ UNCHANGED <<clock, admin, cache, debited, drawn, recorded>>

\* The payout of the history row.
Written(b) == request[b].payout

\* The GameSession row, and the answer to the one who asked; or the row fails.
Record(b) ==
  /\ Reached(b, "record")
  /\ \/ recorded' = recorded \cup {[b |-> b, payout |-> Written(b)]}
     \/ UNCHANGED recorded
  /\ Advance(b, "over")
  /\ UNCHANGED <<clock, admin, cache, debited, drawn, credited>>

\* Queries take at most Slow, and the steps between awaits no time.
Tick ==
  /\ clock < MaxClock /\ ~emptying
  /\ \A b \in Requests : request[b].pc \notin {"judge", "cap"}
  /\ \A b \in Requests : request[b].pc \in {"load1", "load2"} => clock - request[b].at < Slow
  /\ clock' = clock + 1
  /\ UNCHANGED <<admin, cache, request, effects>>

Handle(b) ==
  \/ Arrive(b) \/ AssertWagerAllowed(b) \/ Filled(b) \/ Judge(b) \/ Draw(b)
  \/ PayoutOf(b) \/ CreditWin(b) \/ Record(b)

InstantNext == (\E b \in Requests : Handle(b)) \/ WriteConfig \/ Invalidate \/ Tick

InstantSpec == InstantInit /\ [][InstantNext]_instantVars

-----------------------------------------------------------------------------
(* Properties *)

InstantTypeOK ==
  /\ clock \in 0..MaxClock
  /\ DOMAIN config = 0..Now /\ Now \in Versions /\ \A v \in DOMAIN config : config[v] \in Config
  /\ DOMAIN since = DOMAIN config
  /\ cache.flag \in DOMAIN config /\ cache.limits \in DOMAIN config /\ cache.at <= clock
  /\ \A b \in Requests : request[b].pc \in {"idle", "assert", "load1", "load2", "judge", "debited",
                                   "payoutOf", "cap", "record", "over"}
  /\ drawn \subseteq Requests /\ debited \subseteq Requests

\* Whether v was in force less than a cache's lifetime and one load ago.
Recent(v) == v = Now \/ (v < Now /\ clock - since[v + 1] <= Ttl + Slow)

\* A change of the limits takes hold: a bet is judged, and a win is capped, by values
\* that were in force no longer ago than the cache and one load allow, even when a
\* load that began before the change fills the cache after it was emptied.
JudgedByRecentLimits ==
  \A b \in Requests :
    /\ Reached(b, "judge") => Recent(request[b].flag) /\ Recent(request[b].limits)
    /\ Reached(b, "cap") => Recent(request[b].limits)

\* Debit, draw, credit and history, with a failure after any of them: nothing is drawn
\* for a stake that was not taken, a win is paid once, only for a draw that won and
\* within the cap in force, and the history never says another payout than was paid.
BetsAddUp ==
  /\ drawn \subseteq debited
  /\ \A c, d \in credited : c.b = d.b => c = d
  /\ \A c \in credited :
       /\ c.b \in drawn /\ request[c.b].m > 0
       /\ config[c.limits].win > 0 => c.amount <= config[c.limits].win
  /\ \A s \in recorded :
       IF s.payout = 0 THEN ~\E c \in credited : c.b = s.b
       ELSE \E c \in credited : c.b = s.b /\ c.amount = s.payout

\* A bet decided at once is judged by limits that are not stale, and its debit, draw,
\* credit and history agree.
InstantBetsAddUp == JudgedByRecentLimits /\ BetsAddUp
=============================================================================
