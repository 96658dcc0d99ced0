------------------------------- MODULE Seeds -------------------------------
(***************************************************************************)
(* The provably fair seeds of one player: services/provableFair.service.ts *)
(* as its callers use it, bets of every game and POST /api/seeds/rotate.   *)
(*                                                                         *)
(* Each action is one statement of the database, or the synchronous code   *)
(* before the first.  The nonce update is one atomic increment.  A         *)
(* rotation is a transaction of three statements at read committed: it     *)
(* reads the pair it will reveal, its updateMany retires the pairs that    *)
(* were committed when that statement began, waiting for a rotation that   *)
(* holds their locks, and its insert becomes visible when it commits.      *)
(*                                                                         *)
(* A seed pair is its number, in the order of creation.  How rounds are    *)
(* played and settled is left to the modules of the rounds.                *)
(***************************************************************************)
EXTENDS Naturals, FiniteSets

CONSTANTS
  SeedCalls,  \* requests and frames that may be under way at once
  Games,      \* the games played, out of AllGames
  MaxDraws,   \* bound: bets that consume a nonce
  MaxPairs    \* bound: seed pairs created

AllGames == {"MINES", "CRASH", "CHICKEN", "INSTANT"}

SeedBoundsAssumption == MaxDraws \in Nat /\ MaxPairs \in Nat
GamesAssumption == Games \subseteq AllGames
SeedsAssumption == SeedBoundsAssumption /\ GamesAssumption

Draws == 1..MaxDraws
Pairs == 1..MaxPairs
NoPair == 0
NoDraw == 0

VARIABLES
  created,   \* ProvableSeed rows: the pairs are 1..created
  active,    \* pairs whose row has active = true
  nonce,     \* nonce[p]
  revealed,  \* pairs whose server seed a rotation has answered with
  bets,      \* bets that have consumed a nonce: 1..bets
  context,   \* context[b]: the pair and nonce that decide bet b
  slot,      \* slot[g]: the open round the store holds for game g, or NoDraw
  seedCall   \* seedCall[c]: where call c stands

seedVars == <<created, active, nonce, revealed, bets, context, slot, seedCall>>

Context == [pair: 0..MaxPairs, nonce: 0..MaxDraws]
SeedCall == [pc: {"idle", "find", "create", "update", "open", "select", "retire", "commit"},
             game: AllGames, seed: Context, bet: 0..MaxDraws, seen: SUBSET Pairs]

NoContext == [pair |-> NoPair, nonce |-> 0]
Resting == [pc |-> "idle", game |-> "INSTANT", seed |-> NoContext, bet |-> NoDraw, seen |-> {}]

Stands(c, pc) == seedCall[c].pc = pc

Ends(c) == seedCall' = [seedCall EXCEPT ![c] = Resting]

SeedsInit ==
  /\ created = 0
  /\ active = {}
  /\ nonce = [p \in Pairs |-> 0]
  /\ revealed = {}
  /\ bets = 0
  /\ context = [b \in Draws |-> NoContext]
  /\ slot = [g \in AllGames |-> NoDraw]
  /\ seedCall = [c \in SeedCalls |-> Resting]

-----------------------------------------------------------------------------
(* A bet: nextSeedContext inside the handler of its game *)

\* BET is accepted: no round of the game is open, and for the games with an
\* in-flight flag none is being opened.  Mines has no such flag.
Bet(c) ==
  /\ Stands(c, "idle")
  /\ \E g \in Games :
       /\ slot[g] = NoDraw
       /\ g \in {"CRASH", "CHICKEN"} =>
            \A d \in SeedCalls : seedCall[d].game = g => Stands(d, "idle")
       /\ seedCall' = [seedCall EXCEPT ![c] = [Resting EXCEPT !.pc = "find", !.game = g]]
  /\ UNCHANGED <<created, active, nonce, revealed, bets, context, slot>>

\* getActiveSeed: findFirst, no order among several.
Find(c) ==
  /\ Stands(c, "find")
  /\ \/ \E p \in active :
          seedCall' = [seedCall EXCEPT ![c].pc = "update",
                               ![c].seed = [pair |-> p, nonce |-> nonce[p]]]
     \/ active = {} /\ seedCall' = [seedCall EXCEPT ![c].pc = "create"]
  /\ UNCHANGED <<created, active, nonce, revealed, bets, context, slot>>

Made_Previous == created

\* The pair an insert makes.
Made == created + 1

Create(c) ==
  /\ Stands(c, "create") /\ created < MaxPairs
  /\ created' = created + 1
  /\ active' = active \cup {created + 1}
  /\ seedCall' = [seedCall EXCEPT ![c].pc = "update", ![c].seed = [pair |-> Made, nonce |-> 0]]
  /\ UNCHANGED <<nonce, revealed, bets, context, slot>>

\* A rotation that has updated the row and not committed holds its lock.
Locked(p) == \E d \in SeedCalls : Stands(d, "commit") /\ p \in seedCall[d].seen /\ p \in active

Consumed_AsRead(read, stored) == read

\* The nonce the increment starts from: the stored one, not the one read before.
Consumed(read, stored) == stored

\* update { nonce: { increment: 1 } } on the row that was found, active or not.
Update(c) ==
  LET p == seedCall[c].seed.pair
      n == Consumed(seedCall[c].seed.nonce, nonce[p]) IN
  /\ Stands(c, "update") /\ bets < MaxDraws /\ ~Locked(p)
  /\ nonce' = [nonce EXCEPT ![p] = n + 1]
  /\ bets' = bets + 1
  /\ context' = [context EXCEPT ![bets + 1] = [pair |-> p, nonce |-> n]]
  /\ seedCall' = [seedCall EXCEPT ![c].pc = "open", ![c].bet = bets + 1]
  /\ UNCHANGED <<created, active, revealed, slot>>

\* An instant game is resolved on the spot; a round is put into the store.
Resolve(c) ==
  /\ Stands(c, "open")
  /\ slot' = IF seedCall[c].game = "INSTANT" THEN slot
             ELSE [slot EXCEPT ![seedCall[c].game] = seedCall[c].bet]
  /\ Ends(c)
  /\ UNCHANGED <<created, active, nonce, revealed, bets, context>>

\* The round of a game is settled, or gone with the process.
Settle(g) ==
  /\ slot[g] # NoDraw
  /\ slot' = [slot EXCEPT ![g] = NoDraw]
  /\ UNCHANGED <<created, active, nonce, revealed, bets, context, seedCall>>

-----------------------------------------------------------------------------
(* rotateSeed, for a fresh client seed or a random one *)

HasRoundInFlight == slot["MINES"] # NoDraw \/ slot["CRASH"] # NoDraw

Rotate(c) ==
  /\ Stands(c, "idle") /\ ~HasRoundInFlight
  /\ seedCall' = [seedCall EXCEPT ![c] = [Resting EXCEPT !.pc = "select"]]
  /\ UNCHANGED <<created, active, nonce, revealed, bets, context, slot>>

\* findFirst of the pair to reveal.
Select(c) ==
  /\ Stands(c, "select")
  /\ \E p \in IF active = {} THEN {NoPair} ELSE active :
       seedCall' = [seedCall EXCEPT ![c].pc = "retire", ![c].seed.pair = p]
  /\ UNCHANGED <<created, active, nonce, revealed, bets, context, slot>>

\* updateMany begins: these are the rows it will retire.
Retire(c) ==
  /\ Stands(c, "retire")
  /\ seedCall' = [seedCall EXCEPT ![c].pc = "commit", ![c].seen = active]
  /\ UNCHANGED <<created, active, nonce, revealed, bets, context, slot>>

\* The rows the transaction leaves inactive.
Retired(c) == seedCall[c].seen

\* The fresh pair is inserted, the transaction commits, the answer reveals.
Commit(c) ==
  /\ Stands(c, "commit") /\ created < MaxPairs
  /\ created' = created + 1
  /\ active' = (active \ Retired(c)) \cup {created + 1}
  /\ revealed' = revealed \cup ({seedCall[c].seed.pair} \ {NoPair})
  /\ Ends(c)
  /\ UNCHANGED <<nonce, bets, context, slot>>

\* A statement fails, or the process dies: the call, its transaction with it,
\* is gone.
Abort(c) ==
  /\ ~Stands(c, "idle")
  /\ Ends(c)
  /\ UNCHANGED <<created, active, nonce, revealed, bets, context, slot>>

SeedsNext ==
  \/ \E c \in SeedCalls :
       \/ Bet(c) \/ Find(c) \/ Create(c) \/ Update(c) \/ Resolve(c)
       \/ Rotate(c) \/ Select(c) \/ Retire(c) \/ Commit(c)
       \/ Abort(c)
  \/ \E g \in Games : Settle(g)

SeedsSpec == SeedsInit /\ [][SeedsNext]_seedVars

-----------------------------------------------------------------------------
(* Properties *)

\* Types, and what a bet goes on with is a pair that exists.
SeedsTypeOK ==
  /\ created \in 0..MaxPairs
  /\ active \subseteq 1..created
  /\ nonce \in [Pairs -> 0..MaxDraws]
  /\ revealed \subseteq 1..created
  /\ bets \in 0..MaxDraws
  /\ context \in [Draws -> Context]
  /\ slot \in [AllGames -> 0..MaxDraws]
  /\ seedCall \in [SeedCalls -> SeedCall]
  /\ \A c \in SeedCalls : Stands(c, "update") => seedCall[c].seed.pair \in 1..created

\* "The same (serverSeed, clientSeed, nonce) triple is never reused within an
\* active pair" (provableFair.service.ts:4-6): no two bets share a draw, however
\* their lookups, updates and the rotations between them interleave.
NonceUnique ==
  \A a, b \in 1..bets : a # b => context[a] # context[b]

\* "A server seed is revealed only after its pair is retired" (README.md:296).
RevealedIsRetired == revealed \cap active = {}

\* What the two promises of the service come to: a draw decides one bet, and who
\* learns a server seed learns nothing of the draws to come.
DrawsAreSpentOnce == NonceUnique /\ RevealedIsRetired

\* A revealed pair decides nothing any more: "only once nothing can still be
\* decided by it" (provableFair.service.ts:105-106).
NothingDecidedByRevealed ==
  \A g \in AllGames : slot[g] # NoDraw => context[slot[g]].pair \notin revealed
=============================================================================
