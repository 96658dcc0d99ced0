# TLA+ models of an online casino

Frigat is an online casino: a Fastify server (`src/apps/server`), a Next.js client
(`src/apps/web`), a PostgreSQL schema (`src/prisma`) and a package of shared game
rules (`src/packages/shared`). What matters most is in the server: money that is
debited, credited and paid out while requests, webhooks and administrators race each
other, and rounds that live in the memory of one process while their money lives in
the database. Around it, pages in a browser show what was decided, sometimes late, twice
or not at all, and must not invite a player or an administrator to act on what is no
longer so. This directory models both in TLA+, checks the models with TLC on small
instances, and proves the central theorems with TLAPS for every value of the constants.

## 1. The system

| Part | Where | State it keeps | Talks to |
|---|---|---|---|
| Ledger | `services/ledger.service.ts` | `Wallet.balance`, `Wallet.affiliateBalance`, the `Transaction` table | everything that moves money calls it; it writes through `audit.service.ts` |
| Payments | `services/payment.service.ts`, `nowpayments.service.ts`, `routes/payment.routes.ts` | `Payment` and `Withdrawal` rows | two payment providers (API calls out, webhooks in), the ledger |
| Administration | `routes/admin/*.ts` | role, freeze flag, RevShare, the audit log | ledger, withdrawals, risk configuration |
| Game rounds | `websocket/socket.server.ts`, `gameState.store.ts`, `crashRound.manager.ts` | one in-memory round per player and game | ledger (stake, win), seeds (what decides the round), the socket |
| Instant games and slots | `handleInstantBet`, `routes/games/slots.routes.ts` | none of their own | ledger, seeds, engines |
| Seeds | `services/provableFair.service.ts` | one active seed pair per user, its nonce | every game |
| Engines | `engines/*`, `packages/shared` | none: pure functions of seeds and choices | seeds, payout tables |
| Risk limits | `services/riskConfig.service.ts` | a 3-second cache of the limits in the database | every stake |
| Rewards | `bonus`, `rewards`, `raffle`, `streak` services | cooldowns, redemptions, raffle tickets, rakeback watermarks, streaks | ledger (bonus, rakeback, cashback) |
| Accounts | `routes/auth.routes.ts`, `otp.service.ts`, `rateLimit.service.ts` | codes with attempt counters, lock-out counters, sessions | mailer |
| Support | `support.routes.ts` | tickets and messages | the panel and the console |
| Presence | `socket.server.ts`, `auth.middleware.ts` | sockets, who they belong to, who is confirmed | every game, chat |
| Web client | `apps/web` | one connection, the token, the board of the game on screen, dialogs, feeds | REST and the socket |
| Metrics, statistics, lists | `metrics.routes.ts`, admin reads | none | - |

How they meet. A bet is a chain that crosses four of these parts: a frame or a request
reaches a handler, which checks the limits, debits the stake (`processBet`), draws
(`nextSeedContext` and an engine), and either credits at once (instant games, slots) or
keeps a round in memory until a later frame credits it (`processWin`). Each step is an
`await`, so any other frame, request, timer or webhook runs in between, and a restart of
the process can come at any of them. A withdrawal is a chain too: the hold in the ledger,
the `Withdrawal` row, the request to a gateway, its answer, its callbacks, and an
operator who may decide in the meantime.

### Operations, what is hard, and what makes it correct

**Ledger.** Operations: `processBet`, `processWin`, `transferBetweenUsers`, `awardBonus`,
`creditCashback`, `settleAffiliateReward`, `claimAffiliateEarnings`, `adjustBalance`,
`requestWithdrawal`, `approveWithdrawal`, `rejectWithdrawal`, and `settleDeposit`, which
credits by itself. Hard: transactions at Read Committed interleave; guards are
`updateMany ... WHERE`, reads are not locked; retries rely on unique `txHash` keys; the
same withdrawal is approved, rejected and failed by different actors. Correct when:
nothing is overdrawn, the rows add up to the balances, each entitlement is credited once,
a hold ends once, administrators leave a trace, a freeze takes hold.

**Game rounds.** Operations: BET, STEP / REVEAL_TILE, CASHOUT, RESUME, the crash timer and
its bust. Hard: several sockets of one player; a store keyed by player that is cleared
after an `await`; a failing credit; restarts; a tick that races a cash out. Correct when:
a stake is decided at most once and never both ways, what is paid is the price of what was
achieved, one stake buys one round, and a settlement that starts ends.

**Seeds.** Operations: `getActiveSeed`, `nextSeedContext`, `rotateSeed`. Hard: look-up and
increment are separate statements; rotations overlap with bets and with each other.
Correct when: no draw is used twice, no seed decides anything after it is public.

**Payments.** Operations: `createDeposit`, `settleDeposit`, `createWithdrawal`,
`dispatchNowPaymentsPayout`, `handlePayoutWebhook`, `handleWebhook`, and the approve,
reject and mark verbs. Hard: a lost or unreadable answer, late, repeated and reordered
callbacks, an operator beside the webhook, a failing refund. Correct when: a hold is never
released behind a payout, a refused payout is refunded, the row does not contradict the
gateway, a deposit is credited once.

**Rewards.** Operations: wheel, check-in, promo code, rakeback, cashback, raffle tickets,
streak. Hard: the claim is recorded in one transaction and credited in another; watermarks
move past what was capped; plays around midnight. Correct when: no claim is paid twice,
and none is consumed without being paid.

**Risk limits, one-time codes, rate limits.** Hard: a load that began before an
invalidation; attempts counted while a code is consumed; counters that live in one
process. Correct when: a limit that was changed is soon the limit applied; a code is
accepted once and only within its attempts.

**Presence.** Sockets join and leave, the database confirms their sessions late, a
heartbeat drops the dead. Correct when a role is only ever the row's, and nothing of a
closed connection is left in a table.

**Web client.** One hook keeps one connection, an outbox and retries; each game page
keeps a state of its own beside the server's round; dialogs outlive the request they
made. Hard: frames that are lost, late or another page's; timers and animations of a
round that is over; an answer that finds its dialog closed, reopened or on another user;
text that is half typed. Correct when what is shown was decided, what is said was done,
the controls say what the server would do, and no button stays locked for ever.

**Console.** Two administrators on one list: accounts, risk limits, payouts, tickets.
Correct when the trail tells what was done, a retried form moves money once, a decision
is made once, and someone can still administer.

`PROJECT.json` lists every component with its status, and each hazard of the code at the
line where it bites, with the properties that would catch it or the reason none does.

## 2. Modules

| Module | Models | Composes |
|---|---|---|
| **Money** | | |
| `Bank` | what the ledger promises: funds, earnings, holds | - |
| `Ledger` | `ledger.service.ts`, the deposit credit, the administrator's verbs | implements `Bank` |
| `MCLedger` | who referred whom, for the runs | `Ledger` |
| `Payouts` | a withdrawal from request to settlement, with the gateway as environment | - |
| `Deposits` | an invoice, its callbacks from both gateways, its credit | - |
| **Rounds and what decides them** | | |
| `Wager` | what a round promises of each bet | - |
| `ChickenRound`, `CrashRound` | one player's rounds of the game | implement `Wager` |
| `MinesRound` | the same for Mines, which does not implement `Wager` (section 6) | - |
| `Seeds` | the seed pairs of one player, under bets of every game and rotations | - |
| `InstantBets` | a bet decided in one request, under the cached risk limits | - |
| `Engines` | every engine as a function of its draws, and the player's verifier | - |
| **Rewards** | | |
| `RewardClaims` | what was given away and what the rewards promise of it | - |
| `Rewards` | wheel, check-in, promo code, cashback, rakeback | extends `RewardClaims` |
| `Streak`, `Raffle` | the play streak with its paid restore; the tickets of a giveaway | - |
| **Accounts and connections** | | |
| `Accounts` | registration, login, second factor, password reset, one-time codes, the limiter | - |
| `Presence` | the server's end of the sockets | - |
| `ClientLink` | the browser's end: one connection, outbox, retries | - |
| `Support` | tickets and messages, the panel, the console | - |
| **Pages** | | |
| `ChickenPage`, `CrashPage`, `MinesPage` | the page of the game against the server's round | - |
| `Boards` | the pages of dice, limbo, coinflip, roulette, plinko, keno, Avia Masters, slots | - |
| `Stakes` | the stake fields of all of them, from the key to the wire | - |
| `Traffic` | one lane of the animated road | - |
| `Wallet` | deposit and withdrawal dialogs, the balance in the header | - |
| `FairnessDialog`, `BetFeed` | the seeds a tab shows; the list of recent bets and its fairness record | - |
| `RewardsPage` | the rewards hub | - |
| `SignIn` | pages and dialogs of signing in, the human check, the gates | - |
| `AccountDesk`, `RiskForm`, `PayoutQueue` | the administrators' console with its routes | - |
| **Composites** | | |
| `MCRounds`, `MCGames`, `MCCashier`, `MCPlatform` | what the runs `rounds`, `games`, `cashier`, `platform` check | the modules of section 3 |
| **Proofs** | | |
| `MoneyProofs` | theorems about the ledger, the gateways and Crash | `Ledger`, `MCCashier`, `CrashRound` |
| `ChickenProofs` | theorems about Chicken Road, and about the pages of `RoundsSpec` | `MCRounds` |
| `GamesProofs`, `AccountsProofs`, `RewardsProofs`, `SupportProofs` | theorems about rounds and draws, accounts and the tab, rewards, support | the modules they are about |
| `PlatformProofs`, `DoneProofs` | theorems about the composition `PlatformSpec` | `MCPlatform`, `SupportProofs` |

A composite puts components that share no variable side by side: `part` says which one a
behaviour is about, and the others stay at rest. It is one model-checking job with the
constants, the initial states and the symmetry of each part, and it loses no interleaving,
since there is none between the parts. The components whose theorems are proved are
*extended*, the others instantiated: the property a run checks and the one a theorem states
are then one definition. Where two extended components would share a name, the second says
what it is about (`SeedsSpec`, `InstantInit`, `LinkTypeOK`, `PayoutsNext`, `CrashInit`).

An operator named `Op_Something` is `Op` as a plausible slip would have left it; no
specification uses one. They document what each property is sensitive to: with that slip
in place, TLC refutes the property under the run's own configuration.

### How state and actions correspond to the code

The unit of atomicity differs and is chosen per layer. Where the database decides
(`Ledger`, `Seeds`, `Raffle`, `Streak`, `Accounts`) it is the statement: a transaction is split
where it decides something on a plain read, and only there. On the server's handlers it is
the code between two `await`s, since Node runs one handler at a time; an awaited ledger call
is one step because the ledger's own interleavings are the business of `Ledger`. On a page it
is one event: a frame, an answer, a key, a timer, with the render that follows.

- **`Ledger`**: `balance`, `affiliateBalance`, `revShare`, `frozen` are columns of
  `Wallet` and `User`; `rows` is the `Transaction` table in commit order; a `Key` is a
  `txHash`, derived from what entitles the row; `open[c]` is what the transaction on
  connection `c` has read; `audited` the audit entries about money. `BeginDebit` is the
  check of the frozen flag, `CommitBet`, `CommitTip`, `CommitWithdrawal` the guarded debit
  with everything that commits with it; `BeginClaim`/`CommitClaim` are the two halves of
  the affiliate sweep; `Abort` is every way a transaction rolls back. The other functions
  decide nothing on an unlocked read and are one step each. Amounts are counts of 1e-8
  units; `Reward` rounds down as the Decimal code does.
- **`ChickenRound`**: `chicken` is the entry of the store, `state[b]` the object of bet `b`
  (kept apart, since a handler can hold an object the store has dropped), `startsInFlight`
  the player's membership of `chickenStartsInFlight`, `call[c]` the program counter of a
  handler. BET is `Start`, `Debit`, `Open` or `StartFails`; STEP is `StepInto`; CASHOUT is
  `Cashout`; both settle through `Credit` or `CreditFails`, `Clear` and `RecordSession`.
  `Restart` keeps what was committed and forgets the rest.
- **`CrashRound`**: `crashBet` is the store entry, `round` the manager's round with the
  clock (`elapsed`) and the value its last tick saw (`current`), `busting` the bust
  handlers that await the database, `handling[c]` a frame's handler and `won` the
  credits. `Elapse` is time, `Tick` and `Bust` the two outcomes of the interval
  callback, `Cashout` the synchronous part of the cash out; `Restart` is any death of
  the process, the unhandled rejection of a failed bust included.
- **`MinesRound`**: as above, without an in-flight flag, and with a round that stays open
  after its cash out was credited: `Credit` is the commit of `processWin`, `Clear` the close
  and the clear that follow its `await`, and any frame may run between the two.
- **`Seeds`**: `active`, `nonce`, `created` are the `ProvableSeed` rows, `revealed` the
  pairs whose secret was answered, `slot[g]` the open round of a game, `context[b]` the draw
  of a bet. A rotation is `Rotate`, `Select`, `Retire`, `Commit`, with the row locks its
  `updateMany` holds; an increment waits for them (`Locked`).
- **`InstantBets`**: `config` is every configuration ever written, in order, and `cache` the
  two versions the cached flag and limits come from, since a load reads two tables in two
  queries; `request[b]` are the local variables of a handler, `debited`, `drawn`, `credited`,
  `recorded` what it left behind. `WriteConfig` commits, `Invalidate` empties the cache later;
  `Load` asks, and `Filled` stores what each query saw at some moment since, stale or not.
- **`Engines`**: a draw is `k/Grain`; multipliers are hundredths, other reals fractions.
  `Place`, `Decide`, `Verify` are a bet, the engine's outcome and the verifier's. Avia's cap
  is `AviaMax` in both (`AviaCapped`).
- **`Payouts`**: `ledger` and `row` are the two statuses of a withdrawal, `payout` what the
  gateway did, `callbacks` those not answered yet, `call`, `hook` and `marking` the places
  where `createWithdrawal`, a webhook and an operator's request stand. `TakenAs` is how an
  answer is classified (`ambiguous` or refusal), by both clients; an accepted one carries the
  gateway's own word (`Told`), which `Save` stores as `STATUS_MAP` reads it.
- **`Deposits`**: `gate` is the invoice at the gateway, `row` the `Payment` row, `calls` the
  callbacks not yet answered 200 and `past` all that were ever made, copies of which the
  network may still deliver; `handler[h]` is a callback being handled, with the row it read.
- **`Rewards`**: the columns that mark a claim (`lastSpin`, `lastIn`, `rung`, `redeemed`,
  `swept`) and `req[r]`, a handler with what it read; `paid` is the credits. `edge` is what
  play entitles a player to so far. **`Streak`** has the row, the plays that read it and
  overwrite all of it later, and the restores; `outdated` and `overwrites` remember which plays
  wrote over a claim they had not seen. **`Raffle`** has the records tickets are owed for,
  the watermarks, the shared counter and the ticket rows.
- **`Accounts`**: one address; `codes` are its `OtpCode` rows in order, a guess is the row
  whose digits it repeats; `failures` is the limiter's memory, gone at a `Restart`; `tokens`
  are the tokens signed, with the version they carry; `call[c]` is where a request stands.
- **`Presence`**: `sockets`, `meta` and `room` are the three tables, `lookup[s]` the session
  query between its snapshot and its answer. **`ClientLink`**: `socks` is every socket the tab
  opened, `cur` the ref to the current one, `run` the effect's last run; a frame is its
  number, and `handled` what the server made of those that reached it.
- **Pages**: each keeps the state and refs of its component under their names, two queues
  for the two directions of the connection, the server's round as far as the page can tell,
  and history variables that excuse what the code itself gives up (`crossed`: an ERROR of
  another page was taken for this one's, on Chicken Road also two hops drawn over each other; `overlapped`, `raced`, `lost`, `missed`).
- **Console**: the rows, the audit trail, the requests under way and the drawer, form or
  queue of one administrator, while others act.

`PROJECT.json` maps every definition to the lines it translates.

## 3. Runs

The passing runs explore every state within their bounds. Sizes are distinct states.

| Run | Asks | States |
|---|---|---|
| `ledger_core` | do all verbs of the ledger, interleaved with one transaction held open, keep every property and implement `Bank` | 538,432 |
| `ledger_freeze` | does a freeze stop a transfer that is already running (it does not) | - |
| `rounds` | Chicken Road: are stakes decided once, paid for the lanes crossed, recorded once, and do settlements end; pages: is what they show decided, and do the controls agree with the server | 828,772 |
| `chicken_clear` | is a round kept until it is decided (it is not) | - |
| `crash` | does a cash out beat the tick or lose to it, never both; do curves end | 297,410 |
| `games` | are draws unique, revealed pairs retired, limits current, engines and verifier equal and priced as published; what holds of Mines with its wide windows | 2,488,877 |
| `seeds_open` | can a revealed pair still decide a round (it can) | - |
| `cashier` | withdrawals, deposits, rakeback, connections: does money move once, does a failure give it back, is nothing held for ever | 82,125 |
| `payouts_garbled` | and with unreadable answers (it is paid twice) | - |
| `platform` | codes, tokens, the tab's connection, the server's sockets, rewards, support, sign-in, console: is each thing done once, and said as it was done | 1,687,489 |
| `client_queue` | is a bet queued before the connection opened served (it is refused) | - |
| `crash_page` | is a running round always offered its cash out (it is not) | - |

The longest takes under four minutes on two workers.

### Bounds, and why they are enough

- **Ledger.** Two users are needed for a tip and a referral; alice refers herself and bob,
  which the schema allows and `settleAffiliateReward` must refuse. One connection holds a
  transaction open while every function that takes one step commits; `MaxRows = 4` lets a
  sweep follow a bonus, a bet and its reward. Two transactions open at once have been
  explored apart (2,156,524 states up to a renaming of the connections, no error), and the
  theorems are for any number. One amount (2) makes each second debit an overdraft; 50% of 2
  is a reward of 1. `MaxRows` is in the guards (`RoomFor`), so every state below it is
  explored in full.
- **Rounds.** Three calls: one settling, one starting, one more that interferes. Two bets
  give the round that is dropped and the round that drops it (three in Crash, where an
  older cash out can meet a later bet); one restart is enough, since nothing in memory
  outlives it. A road of three lanes with the unlock at the second has a lane that is
  locked, one that is not, and the last; one lane past the end is where a reopened round
  first leaves the road. Crash points 1 to 3 have a curve that busts at once, one
  with a single winning instant and one with two. A grid of three tiles with one mine, in
  one layout that stands for the others, has every order of two safe tiles and a mine.
- **Seeds.** Three calls, so that two rotations overlap with one bet or one rotation with
  two; three pairs, so that a pair retired by an overlapping rotation is seen. One game that
  keeps a round the rotation does not ask for, and one that keeps none. Calls are symmetric.
- **Instant bets.** Two bets, one change of the limits, a clock of three ticks with a cache
  lifetime and a slow query of one each: a load that began before the change can fill the
  cache after it with the old flag, the old limits or both. Limits with and without a cap.
- **Engines.** `Grain` 444 puts a draw on each boundary of the games with one draw; games
  with many draws are tried on the streams that reach their edges. Outcomes are exact; the
  rounding of doubles is not modelled. Crash and Chicken Road are compared with the
  verifier but not priced by the run; of the slots it checks that a line pays its longest run.
- **Payouts, deposits.** One withdrawal, one invoice: rows of different ones share nothing
  except a chain hash (two invoices, with `SharedHash` either way, were explored apart: 1,095,707
  states, never credited twice). Three hooks let a
  late callback overtake two others; two errors let a release fail and the process die.
- **Rewards.** In `cashier` two requests of rakeback and a pool of two or three connections;
  in `platform` the other kinds one at a time, with two players where a promo code runs out.
- **Streak.** Two plays, two restores, four days and an offer that stands for one: a streak
  breaks, is claimed, charged, written over by a slow play and claimed again.
- **Accounts.** Two calls, one of each budget (`PerCode`, `PerEmail`, `PerAccount` 1), so that
  the request past the limit is seen; one restart. **Presence**: two sockets, one version.
  **Link**: two tokens of which one is good, two frames, three sockets, one change.
- **Pages.** Two rounds, one error, one lost connection, short wires. Stakes use base 4 with
  two digits of which one is shown, and texts of up to four keys, enough for a point, a digit
  too many and a value above every limit. Two cars in the lane (four apart, 47,900 states).
- **Console.** Two administrators, two orders, two forms, one edit; two holds, two decisions
  (three apart, 4.5 million states).

Deadlock is checked in the ledger runs. In the others the system may stop: bets,
pairs, restarts and errors run out, and a settled withdrawal needs nothing more.

### Fairness

- `ChickenRound`: weak fairness of `Continue(c)`. An awaited database call settles, by
  success or by failure; which of the two is left open. Frames are never fair: players owe
  nothing.
- `CrashRound`: weak fairness of `Elapse` and `Bust`: time passes and `setInterval` keeps
  firing while its round lives. No fairness of cash outs, ticks that change nothing, or
  database calls.
- `Payouts`: weak fairness of `Dispatch(w)` (each `fetch` has a timeout, so it settles),
  `Handle(h)` and of the gateway's decisions. The operator and errors are not fair.
- `Deposits`: weak fairness of `Handle(h)`, and strong fairness of receiving a callback that
  says the invoice is settled: gateways repeat it until it is answered 200, so it cannot be
  overtaken for ever.
- `Rewards`: weak fairness of `Handle(r)`: an awaited call answers, by a timeout of the pool
  at the latest. `Presence`: weak fairness of `Heartbeat`, an interval timer, and of the close
  event of a socket that is closing.

## 4. Properties worth a word

- `ImplementsBank` says that each step is one of a handful of moves of the bank, so money
  never appears on a player's own move, a reward is swept into its owner's wallet, and a
  hold ends as a payment or as a full refund to its owner.
- `FreezeHoldsOnceDrained` is what the code does keep of the freeze: the transactions that
  had passed the check may finish; after those, only an administrator's debit takes money.
- `PaidForItsLane` and `PaidBelowCrashPoint` relate the money that was committed to a round
  that other frames could still change while the credit was awaited.
- `SettlementEnds` takes "the round is still the player's to cash out" (`socket.server.ts:877`)
  at its word: after a failed credit the round is open *and the one the store holds*, unless
  another round of the player displaced it there while the credit was awaited.
- `DecidedIsOver` for Mines, where a round stays open during its cash out: between the commit
  of the credit and the close, a tile may be turned or the round lost or cashed out again;
  once the cash out has its answer, or a mine was hit, no frame takes the round up, turns a
  tile of it or loses it.
- `InstantBetsAddUp` bounds how stale flag and limits may be: one lifetime of the cache and one
  load, the load that read either before a change and refilled the emptied cache included. The
  history never says another payout than was paid.
- `AdminVerbsAudited`: adjustments and approvals have their audit entry, and every entry, of
  a rejection too, is true of its row for good. A rejection *without* an entry it does not
  catch: the payout code rejects holds of its own and records none.
- `FailuresRefund` speaks of a failure that is news. When the answer to the payout request
  said it already, the code stores the failure and keeps the hold (section 6).
- Of the streak, `DoneOnce` says that a break is charged for once, plus once for each play
  that wrote over a claim (`OneChargePerBreak`).
- `EnginesKeepTheirWord`: verifier and engine agree on every draw of the eight games the
  verifier knows, and the sum over all draws stays within the published return, 97.5% for
  most games.
- `RowNeverLies` allows a late callback to set the row back (the code overwrites the status
  unconditionally) but never to the opposite of what the gateway did.
- `EarnedOnce` and `RakebackIsEarned` speak of claims, which are written before they are
  paid: at most one credit per turn, the ladder climbed day by day, rakeback within what play
  was worth.
- `CodesAreHonouredOnce` includes the budget of guesses, which is checked in one statement
  and spent in another: it may be exceeded by the requests under way, and by no more.
- `LinkKeepsItsWord`: a tab has one connection in use, none once it has stopped, and no frame
  is handled twice.
- `PagesShowWhatWasDecided` and `ControlsAgree` are, per page, what its comments promise of a
  page that is not disturbed: lost connections (`drops`), errors taken from another call
  (`crossed`), rotations elsewhere (`excused`) and answers overtaken by newer ones are run, and
  each property says which of them it exempts. `DoneOnce` is the same for
  support, sign-in, hub, streak and raffle, `SessionsAndConsoleHold` for the server's
  connections and the console; `SomeoneIsAdmin` holds only *as long as no one who acts loses
  the role before the change is made*.

Hazards no property covers, the last left out of `PROJECT.json`: a NOWPayments payout is never seen to finish
(`payment.service.ts:463`); two invoices paid by one chain transaction share its hash, and
the unique index rolls the second credit back (617); a mine hit while the cash out of the
same round awaits is recorded as lost and paid (`socket.server.ts:530`), which `MinesRound`
shows and nothing in the repository denies; a loop of redirects for a browser that drops
the cookie (`middleware.ts:58`).

## 5. Proofs

TLAPS proves the theorems below for every value of the constants that meets the named
assumptions (`UsersAssumption` and so on; each is a condition the code meets, such as "a
bound is a natural number", and is evaluated by TLC on every run that extends the module).
Each proof module has an inductive invariant, the lemmas that each action keeps it, and the
theorems it carries. The invariants were model-checked on small instances before they were
proved.

**`MoneyProofs`** has three parts.

*The ledger*: `TypeCorrect`, `NeverOverdrawn`, `SettledStays`, `NoDoublePay`,
`RefundedExactly`, `BalancesFollowHistory`, `RewardsEarned`, `AdminIsAudited`, `FreezeHolds`,
`LedgerImplementsBank`. The argument goes through *shapes*: `StepShape` shows that every step
books nothing, one row, a tip of two rows, an approval or a refund, and says what a bookable
row is; the later proofs split on these five instead of on eighteen actions. `TypeOK` is not
inductive alone, since a transaction that commits trusts what it has read: `OpenOK` is proved
with it. `PaidOnce` and `FailedIffRefunded` need `KeysOK(rows)`: keys are unique, and a
refund key points at an earlier withdrawal that failed, of the same owner and amount, and
the other way round. `FreezeHolds` needs `AuditBehind`: no audit entry names a row that
does not exist yet, so an entry that is new names a row that is new. `AdminIsAudited` goes
both ways: a row that calls for an entry has it, and an entry stays true because a decided
row is not decided again (`RecordsStep`).

*The gateways*: `PayoutsTypeCorrect`, `PayoutsNotPaidTwice`, `PayoutRowNeverLies`,
`DepositsTypeCorrect`, `GatewaysMoveOnce`. `Honest` says that a hold is released or refused
only where the payout can no longer go out: the request was never sent, or the gateway refused
or failed it, and each is final once `createWithdrawal` is past its dispatch. It assumes
`CleanAnswers`, which is the case the code handles: without it the run `payouts_garbled` refutes
the claim. An invoice is credited in the transaction that finds it uncredited, by a callback
that said it was paid; the stale reads before it decide nothing.

*Crash*: `CrashTypeCorrect`, `BetsComeOneByOne`, `CashoutsInTime`,
`CrashImplementsWager`. `Control` says where an undecided bet can be: who places a bet holds
the flag, alone, with no curve up; a bet that waits for its seed is unsettled and not in the
store; the bet on the table is the one the curve runs for. `Money` says that an unsettled bet
has left no trace in the history, and that a bet about to be credited, like every bet paid,
is settled, was taken below its crash point, and was missed by the bust. The refinement needs
all of it: `CreditCashout` maps to `Win` only because the bet it credits is not lost.

**`ChickenProofs`**: `ChickenTypeCorrect`, `ChickenPaysItsLane`, `ChickenOneAtATime`,
`ChickenImplementsWager`. What is inductive is ownership: an open round belongs to the
player's next frame, a round that is being opened or settled to one call alone. Closing a
round before the first await is what keeps the second from having two owners; that the round
which `clearChicken` drops may be another one (section 6) breaks none of the four.

`PagesTellTheTruth`, about `RoundsSpec`, says that undisturbed pages show what was decided
(`PagesShowWhatWasDecided`, section 4). It assumes `PagesAssumption`: a road has a lane, a grid has both
mines and safe tiles, bounds are natural numbers, amounts are positive. Each page has an
invariant of its own, a step of one leaves the others at rest, and the queues have any length.
The shape of the argument is the same for all: *the frames on their way, played in order, lead
from what is shown to what the server holds*.

- *Chicken Road* (`RoadInv`): each frame fits the step the page took last (`FramesInv`), timers
  land behind the hop (`TimersInv`), a RESUME that is awaited tells the lane (`ResumeInv`), and
  the lanes the frames tell of rise from the one of the board to the one of the round (`LaneInv`),
  which is `BoardNeverAhead` at the end of the queue.
- *Mines* (`MinesInv`): an untroubled page has one request under way, and where it is says what
  the page will turn (`OneAskAtATime`); without it `ShownTilesAreSafe` is not kept.
- *The boards* (`BoardInv`): a bet is with the server, in an answer, or being played, and only
  one (`OneUnderWay`), but for the balls of Plinko, of which a later one may land first.
- *The fairness dialog* (`FairInv`): the newest frame leads to the active pair, and where there is
  none the newest read does (`Told`), unless the player rotates elsewhere (`excused`).
- *The feed* (`FeedInv`): a bet is listed, on a frame, in the backfill, unsaid or missed, or the
  list is full (`Complete`). *The wallet* (`WalletInv`): an answer says what became of its hold,
  each commit has a number, and the frame of the newest is unsent, on its way or shown. *A flight*
  (`FlightInv`) keeps the balance of its start.

The theorem found what the run's bounds had hidden: two orders in which the board of Chicken
Road leaves its round behind (section 6), now spelled out in the model.

**`GamesProofs`**: `MinesTypeCorrect`, `MinesPaysSafeTiles`, `MinesHistoryIsTrue`,
`MinesDecidedIsOver`; `SeedsTypeCorrect`, `SeedsSpentOnce`; `InstantTypeCorrect`,
`InstantBetsHold`. A round of Mines may have several owners, so the argument is another: tiles
are only ever added to a round, it is opened by the one call that placed it, and a bust is hit
while it is active, hence once. A bet that is paid has a round that is closed, or a call that
is about to close it. For the seeds, every draw of a pair is below the nonce stored
for it, and the nonce only grows; the pair a rotation reveals is one that its `updateMany`
retires or that was retired before, and a pair once retired stays so. Neither rests on the row
locks: the invariant is proved without mentioning who holds one. For the limits, the version
after the one in the cache was committed at most one load before the cache was filled, and no
time passes between an answer of `getRiskConfig` and its use; what is credited is what the bet
on its way was worth under the limits it was capped by.

**`AccountsProofs`**: `AccountsTypeCorrect`, `CodesOnce`, `TokensDieWithTheirPassword`. A budget
is checked in one statement and spent in another, so what is inductive counts both: the wrong
answers recorded and the calls past the check that may still record one. A row that was used
stays used; no token is ahead of the account's version. `LinkIsKept` is about the tab: a frame
is in one place, the outbox, one socket or the record; of the last run's sockets, the one in
use is the current one, and any other is closing because the hook itself closed it.

**`RewardsProofs`**: `RewardsTypeCorrect`, `RewardsEarnedOnce`, `RakebackCovered`. A claim that
was written is paid later, or never: what was paid and what is about to be are apart from each
other, and behind the mark the claim left in the player's row. The ladder of check-ins needs a
witness, the day before. Of one player one claim of rakeback holds the row's lock.

**`PlatformProofs`**: `SessionsAndConsole`, about the composition `PlatformSpec` itself: each
part has an invariant of its own, and a step of one leaves the others at rest.

- *Sockets*: the tables agree after every handler, whatever order a close, an error, a sweep
  and a late answer come in. *Where signing in ends* rests on what the cookie can say: the role
  of the account, nothing, or that the session is dead.
- *The drawer* (`DeskInv`, `TrailInv`). That someone stays administrator rests on the requests
  let through: none of them demotes or freezes the one who sent it. It says nothing of two who
  demote each other at once (`crossed`, section 6). That one form moves money
  at most once more than its administrator was told rests on a count: the adjustments of a form
  in the trail are no more than the keys of that form in the ledger, and those are numbered
  from 0 to the adjustments confirmed. For the count, a form is one administrator's (`Owned`, a
  witness that grows with every form that opens) and the key of an open drawer is the number of
  its confirmations, also after an answer was lost. A repeated key is answered as done because
  the entry of the request it repeats is in the trail.
- *The risk form* (`RiskInv`): requests are numbered apart, and what a form waits for is what
  it shows and, once written, what is stored, unless it was edited or another write came since
  (`apart`). None is written that was not checked, by the form's own request or a direct one.
- *The queue of payouts* (`QueueInv`): a payout is either pending without an entry in the log
  or has exactly one, of its outcome; a typed reason belongs to the row it was asked for.

**`SupportProofs`**: `SupportHolds`, from `HelpStarts`, `HelpGoesOn` and `HelpPromises`. The
invariant `HelpInv` says which request works on which row (`HelpCalls`), that a frame says what
a row says (`HelpFrames`), that a list has each message once and in its thread (`HelpChat`,
`HelpDesk`), and where a message is that the panel does not show yet: on a frame, or with the
request that wrote it and is about to push it (`HelpPanel`). The last is what the promise of
the panel rests on, and it needs that the player has one ticket open at most, which holds until
a close overtakes a message (`raced`). What the routes list in order is the ascending
enumeration of a set of row numbers (`Ascending`, `Kept`); that every finite set of numbers has
one is shown from the least size of a set that would not (`LeastNumber`, `Listable`).

**`DoneProofs`**: `DoneOnlyOnce`, about `PlatformSpec`, with an invariant for each part.

- *The streak* (`StreakInv`). What was taken is what was charged and the claims that stand,
  less the overwrites. It needs a witness, the day of the last claim (`Since`): what was taken
  rests on streaks that broke before it, and the row, and every row a play has read since and
  will write back, tells of days from it on. A play that read before the claim is `outdated`;
  once it wrote over the claim, its write is counted and leaves room for one more (`Spare`).
  Nothing is assumed of how plays and restores interleave.
- *The raffle* (`RaffleInv`): the tickets of a player from a source are no more than the
  watermarks of the entry stand for, and those no more than what happened. A watermark moves
  only from what the claim has read of it, in the transaction that takes the numbers.
- *The sign-in pages* (`SignInInv`): an answer is that of the request under way, a token is
  either on the page or spent, and the countdown of a code is the server's.
- *The hub* (`HubInv`): what was paid is told, missed, or pending; the wheel turns to the slice
  that was drawn; the newest read of the raffle was done after the last claim.
- *Support* is `SupportProofs` instantiated as `MCPlatform` instantiates `Support`.

Theorems about what no run lists any more: `NeverOverdrawn`, `SettledStays` and
`BetsComeOneByOne` state what `ImplementsBank`, `FailedIffRefunded` and `ImplementsWager`
subsume in a run.

### What stays with TLC

- Liveness under fairness and `ENABLED`: `SettlementEnds`, `RoundEnds`, `FailuresRefund`,
  `PaidIsCredited`, `HoldersLetGo`.
- Induction over data with an operator as hypothesis. A well-founded *minimum* can be cited
  (`WFMin`, used for the ladder, the budgets and the lists of support); an induction scheme
  cannot. So
  `EnginesKeepTheirWord`, whose engines are recursive, is checked over bounded draws only.
- `TypesOK` of the composites, whose parts with theorems have a `...TypeCorrect` of their own.
- `ControlsAgree`: that an amount on the wire is no more than the one on screen is an induction
  over the digits of a text, and what a car does in a lane is a fold over the cars ahead. What
  the buttons of Crash and the boards offer needs the next frame to be taken, not only sent.

## 6. Where code and text disagree

Each of the first six has a run whose counterexample shows it.

1. `ledger_freeze`: `ledger.service.ts:337-338` says the frozen flag is "Checked inside the
   transaction so it cannot be raced by a freeze landing mid-transfer". Line 339 is a plain
   read: a freeze that commits before the debit does not stop the tip.
2. `chicken_clear`: `socket.server.ts:677-678` says "Every state change a second frame
   could race is made synchronously, before the first await". `clearChicken` (881) runs
   after one. The round is closed before that `await`, so a BET may open the next round
   while the credit is under way, and the clear drops that one, its stake undecided. The
   shortest trace is already the BET, which replaces the round whose credit is awaited: if
   the credit then fails, the object that is reopened (878) is in no store, and not "still
   the player's to cash out" (877).
3. `seeds_open`: `provableFair.service.ts:105-106` says a seed is revealed "only once
   nothing can still be decided by it". Line 47 asks for Mines and Crash rounds only, so a
   rotation during a Chicken Road round answers with the seed that decides it; so does one
   between a bet's increment and its entry in the store.
4. `payouts_garbled`: `payment.service.ts:881-882` calls its handling of ambiguous answers
   "the only answer that cannot pay twice". An answer that is not JSON (174) is thrown
   without the ambiguous flag and the hold is released.
5. `client_queue`: `useSocket.ts:17-18` says messages sent while connecting are "queued and
   flushed on open, so callers never have to poll `status` before betting". The flush (242)
   comes before the server's session look-up is done, which answers NOT_READY: the bet is gone.
6. `crash_page`: `crash/page.tsx:110` promises "RUNNING + live bet -> green Cashout". A
   GAME_RESULT (86) is taken for the round on screen whichever it is about, so a late one
   hides the button of a running round.

Met while modelling, visible in the models, without a run of their own.

**Rounds and money.**
- A round reopened on the last lane can be stepped past it (750), and is paid for the lane
  it reached; `chicken.engine.ts:46-49` reads as if the road ended. `PaidForItsLane`
  holds all the same: every lane crossed was safe. `MaxOverrun` bounds this.
- `handleCrashCashout` clears the store after its credit (1109): a bet placed meanwhile
  loses its entry and its curve runs with nothing to settle (`gameState.store.ts:32-36`).
- Mines has none of Crash's and Chicken's guards: two BETs strand a stake, a bust during a
  cash out leaves a round both lost and paid, two cash outs write two history rows. This is
  why `MinesRound` does not claim to implement `Wager`.
- Overlapping rotations may retire a pair no one was shown (`provableFair.service.ts:122-130`),
  so the bets drawn from it cannot be verified.
- A payout is accepted with a status of its own, which is stored as the gateway says it
  (`payment.service.ts:768`, `912`). If that is a failure already, the row says FAILED with the
  hold kept, and the callback that reports the failure is not news (658): nothing is refunded
  until an operator rejects the hold.
- After a refusal the release is attempted once and its failure swallowed
  (`payment.service.ts:757`, `904`, against 706-708); `FailuresRefund` says what remains. A
  `Withdrawal` row that cannot be created strands its hold with a 500.
- `payment.service.ts:704-706` says "the row stays PENDING and only moves on when the payout
  callback says so"; the NOWPayments handler (463) looks callbacks up among deposits only.
- `streak.service.ts:118` writes back the whole row a play has read: a restore that claims its
  offer between the two statements of that play has it offered, and can be charged, again,
  although `streak.routes.ts:89-94` says of concurrent requests that exactly one can win. The
  model takes this order, and `OneChargePerBreak` allows it once for each such write.
- `README.md:87-88` describes the streak as of settled plays, `recordPlay` runs on the debit;
  `schema.prisma:255-259` documents `paidAmount` as what arrived, the code falls back to the
  invoiced amount; `ledger.service.ts:4` calls itself the only place that writes balances,
  `settleDeposit` (`payment.service.ts:603-606`) writes one.
- `otp.service.ts:113-124` speaks of one live code: two issued at once are both live.

**Game pages.**
- A frame that is lost leaves a page waiting: `busy` is not reset on the socket pages, and
  Chicken Road stays PLAYING with `stepPending`. RESUME while a BET awaits is answered
  RESUME_NONE, and the stake is out of sight until the next open. Mines has no RESUME.
- An ERROR is taken by whichever page is open: a stale Mines STATE_UPDATE leaks into the next
  round, and Avia Masters drops the balance it holds back in flight (`AviaMasters.tsx:288`) and
  shows the live one, "giving the ending away" (64).
- Chicken Road: the arrow keys look at `hopRef` only, which a frame past the end of a hop clears
  (`ChickenRoad.tsx:677`). If the landing timer is later than the answer to the next STEP,
  `playHop` starts again from the old lane: the board stays one lane behind the round, and the
  first timer, which the ref has forgotten, survives `resetBoard` and may move the chicken of
  the next round ahead of it. `BoardNeverAhead` excuses this order; `LastLane = 3` reaches it.
  A step into the last lane whose connection is lost, whose RESUME is answered RESUME_NONE while
  the round settles (`socket.server.ts:823`), and whose settlement then fails leaves a board that
  no frame moves: the caller of the settlement is gone. It is excused too (`crossed`).
- `SlotMachine.tsx` says "no bet was placed" also where the answer was lost after the debit.
- The slots' quick buttons call `divideDecimal` on half-typed text (547, 555), which throws;
  Avia Masters and Chicken Road take a stake through binary floats and may round up, where
  `decimal.ts` says "Rounding is always toward zero".
- In the animated road a car may drive through a lane the bird stands in after a RESUME, and
  the car that hits may be held behind slower ones and come late.

**Pages around the games.**
- `GameSocketProvider.tsx:15-18`: "so the fairness dialog stays current without polling" is not
  so after RESUME frames, bets over HTTP or in other tabs, or a rotation whose answer is lost or
  overtaken. The verifier says "does NOT match" of a genuine seed that is not the last revealed.
- `betDetail.routes.ts:4-6` says "every field here is already broadcast in the LIVE_BET frame":
  lost Mines, Chicken Road and Crash rounds and slots are not. A bet may be listed twice, and
  what falls between the backfill and the opening of the socket is missed.
- `DepositModal.tsx`: "A pending redirect must not fire after the dialog is gone", but a 401
  that arrives after the close sets one. "Credited" shows for any rise of the balance.
- A withdrawal whose answer is lost says "Please try again" with the funds reserved; its late
  answer closes a dialog that was reopened; a pushed balance may overwrite a newer one.
- `AuthModal.tsx:125-126` ("everything resets on close") and `AccountModal.tsx:375-377` are
  contradicted by an answer that arrives after the close; `AuthModal` sends no Turnstile token.
- `rewards.routes.ts:48-53` lists "wheel readiness", which the overview does not carry; the
  balance frame shows the prize before the wheel stops; "Claimed" stays after midnight.
- `SupportChat.tsx:142-143`, "the thread is current the moment it is reopened", fails for a
  frame taken in while GET /me is under way. Two tabs can open two tickets.

**Console.**
- Two administrators who demote each other at once both pass `requireAdmin`: no one is left.
  This is the exception `crossed` of `SomeoneIsAdmin`.
- The drawer is not keyed by its user: choosing another row behind it keeps amount, reason,
  role and key, announces an answer for one user under another's name, and replays the first
  one's key for the second. After a lost answer, reopening the drawer makes a new key, so a
  repeat moves money twice. "So the field never shows a stale cut" (`UserDrawer.tsx:60`) holds
  of the cut, not of the role beside it. The `from` of an audit entry is read outside the
  transaction and may be stale.
- A stale risk form overwrites what another administrator saved, maintenance included; its
  "Last changed" may show the new time over the old fields.

## 7. Not modelled, and the plan

Not modelled: admin reads and metrics, which change nothing; drawing, icons and legal text;
hashing, signatures and the outside services, which are choices of the environment; the
rounding of doubles in the engines. One currency stands for all: no function of the ledger
relates two. Parts marked *partly* in `PROJECT.json` say there what they leave out.

What is left to prove, in this order:

1. `ControlsAgree` for Crash and the boards, along the lines of `PagesTellTheTruth`; its clauses
   on stakes and cars need induction over data and stay with TLC.
2. A refinement of the withdrawal by the hold of `Bank`, so that `Payouts` and `Ledger` are
   tied by a theorem and not only by the same source.
