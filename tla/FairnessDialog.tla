---------------------------- MODULE FairnessDialog ----------------------------
(***************************************************************************)
(* What a tab knows of the player's seed pair: GameSocketProvider.tsx,     *)
(* which learns it from GET /api/seeds/active, from the frames of its own  *)
(* bets and from rotations, and ProvablyFairModal.tsx, which shows it,     *)
(* rotates it and checks a revealed seed against its hash.                 *)
(*                                                                         *)
(* Frames of the socket keep their order; answers of requests come when    *)
(* they come, or are lost.  A pair is its number, a server seed or its     *)
(* hash the number of its pair.  How the server keeps the pairs is in      *)
(* Seeds: here a bet consumes a nonce and a rotation makes a pair in one   *)
(* step.                                                                   *)
(***************************************************************************)
EXTENDS Naturals, Sequences, FiniteSets

CONSTANTS
  Players,      \* who may be signed in in this browser
  MaxNonce,     \* bound: bets on a pair
  MaxPairs,     \* bound: pairs of a player
  MaxReads,     \* bound: reads of the active pair
  MaxSwitches   \* bound: changes of the stored token

Nobody == "nobody"

FairnessDialogAssumption ==
  /\ Nobody \notin Players
  /\ {MaxNonce, MaxPairs, MaxReads, MaxSwitches} \subseteq Nat /\ MaxPairs # 0

NoPair == 0
NoSeed == [player |-> Nobody, pair |-> NoPair, nonce |-> 0]
NoRound == [game |-> "none", seed |-> NoSeed]

VARIABLES
  pair, nonce,   \* pair[p] is active, nonce[p][k] the next nonce of pair k
  round,         \* the round of the player signed in that is open
  frames,        \* seeds the socket carries to this tab
  token,         \* who is signed in, or Nobody
  seed,          \* the seed shown
  loading,
  reads,         \* [n, player, overtaken, step, seed]: the epoch of the code moved on
  asked,         \* how many reads were started
  open,          \* the dialog
  rotation,      \* [step, player, old, new]
  revealed,      \* the pair whose server seed and hash are shown as the previous ones
  verifier,      \* the pair whose server seed was pasted, the one revealed then, the verdict
  switches,
  excused        \* history: played elsewhere, something lost, or told of an older round

vars == <<pair, nonce, round, frames, token, seed, loading, reads, asked, open, rotation, revealed,
          verifier, switches, excused>>
server == <<pair, nonce, round>>
page == <<token, open, rotation, revealed, switches>>
shown == <<seed, verifier>>
counts == <<asked, loading>>
requests == <<reads, counts>>

NoKey == <<Nobody, NoPair>>
Key(s) == <<s.player, s.pair>>
NotRotating == [step |-> "idle", player |-> Nobody, old |-> NoPair, new |-> NoPair]
Blank == [pasted |-> NoKey, beside |-> NoKey, verdict |-> "none"]

Active(p) == [player |-> p, pair |-> pair[p], nonce |-> nonce[p][pair[p]]]

Init ==
  /\ pair = [p \in Players |-> 1] /\ nonce = [p \in Players |-> [k \in 1..MaxPairs |-> 0]]
  /\ round = NoRound /\ frames = <<>>
  /\ token = Nobody /\ seed = NoSeed /\ loading = FALSE
  /\ reads = {} /\ asked = 0 /\ open = FALSE /\ rotation = NotRotating
  /\ revealed = NoKey /\ verifier = Blank /\ switches = 0 /\ excused = FALSE

-----------------------------------------------------------------------------
(* The server *)

Consume ==
  /\ token # Nobody /\ nonce[token][pair[token]] < MaxNonce
  /\ nonce' = [nonce EXCEPT ![token][pair[token]] = @ + 1]
  /\ UNCHANGED pair

\* The frame of a bet says which nonce it consumed.  It may overtake a rotation's answer.
Tell ==
  /\ frames' = Append(frames, Active(token))
  /\ excused' = (excused \/ rotation.step = "answered")

\* An instant bet: nothing stays open.
Instant ==
  /\ Consume /\ Tell
  /\ UNCHANGED <<round, page, shown, requests>>

\* BET_ACCEPTED of a round that stays open.
OpenRound(game) ==
  /\ round = NoRound /\ Consume
  /\ round' = [game |-> game, seed |-> Active(token)]
  /\ Tell
  /\ UNCHANGED <<page, shown, requests>>

CloseRound ==
  /\ round # NoRound /\ round' = NoRound
  /\ UNCHANGED <<pair, nonce, frames, page, shown, requests, excused>>

\* RESUME: BET_ACCEPTED again, with the seed the round was opened with.
Resume ==
  /\ round.game \in {"CRASH", "CHICKEN"} /\ token = round.seed.player
  /\ Len(frames) < 2
  /\ frames' = Append(frames, round.seed)
  /\ excused' = (excused \/ [round.seed EXCEPT !.nonce = @ + 1] # Active(token))
  /\ UNCHANGED <<server, page, shown, requests>>

\* A bet of another tab, or of the slots, whose result is no frame.
Elsewhere ==
  /\ Consume /\ excused' = TRUE
  /\ UNCHANGED <<round, frames, page, shown, requests>>

-----------------------------------------------------------------------------
(* The seed shown *)

\* Effects of the dialog: its fields start again when it opens and when the seed changes.
Reset(next) == verifier' = IF open /\ next # seed THEN Blank ELSE verifier

\* Every write of the seed bumps the epoch: what was asked for before is stale.
Overtake(rs) == {[r EXCEPT !.overtaken = TRUE] : r \in rs}

ApplySeed(next, rest) == seed' = next /\ Reset(next) /\ reads' = Overtake(rest)

\* The bet consumed this nonce, so the next one is one higher.
Capture ==
  /\ frames # <<>> /\ frames' = Tail(frames)
  /\ ApplySeed([Head(frames) EXCEPT !.nonce = @ + 1], reads)
  /\ UNCHANGED <<server, page, counts, excused>>

\* refreshSeed, `times` effects asking for it.
RefreshSeed(who, times) ==
  /\ asked + times <= MaxReads /\ asked' = asked + times /\ loading' = TRUE
  /\ reads' = reads \cup {[n |-> asked + i, player |-> who, overtaken |-> FALSE, step |-> "asked",
                           seed |-> NoSeed] : i \in 1..times}

ServeRead(r) ==
  /\ r.step = "asked"
  /\ reads' = (reads \ {r}) \cup {[r EXCEPT !.step = "answered", !.seed = Active(r.player)]}
  /\ UNCHANGED <<server, frames, page, shown, asked, loading, excused>>

ReadFails(r) ==
  /\ reads' = reads \ {r} /\ loading' = FALSE /\ excused' = TRUE
  /\ UNCHANGED <<server, frames, page, shown, asked>>

TakeRead(r) ==
  /\ r.step = "answered" /\ loading' = FALSE
  /\ IF r.overtaken THEN reads' = reads \ {r} /\ UNCHANGED shown ELSE ApplySeed(r.seed, reads \ {r})
  /\ UNCHANGED <<server, frames, page, asked, excused>>

\* The stored token changes: another socket, whose frames are another player's.  Signing out
\* forgets the seed, another player's token only asks again.
Effects == IF open THEN 2 ELSE 1
TokenIs(who) ==
  /\ who # token /\ switches < MaxSwitches /\ switches' = switches + 1
  /\ token' = who /\ frames' = <<>> /\ round' = NoRound
  /\ IF who = Nobody THEN ApplySeed(NoSeed, reads) /\ revealed' = NoKey /\ UNCHANGED counts
     ELSE RefreshSeed(who, Effects) /\ UNCHANGED <<shown, revealed>>
  /\ excused' = (excused \/ rotation # NotRotating \/ (who # Nobody /\ reads # {} /\ token # Nobody))
  /\ UNCHANGED <<pair, nonce, open, rotation>>

-----------------------------------------------------------------------------
(* The dialog *)

OpenDialog ==
  /\ ~open /\ open' = TRUE
  /\ verifier' = Blank
  /\ IF token = Nobody THEN UNCHANGED requests ELSE RefreshSeed(token, 1)
  /\ UNCHANGED <<server, frames, token, rotation, revealed, switches, seed, excused>>

CloseDialog ==
  /\ open /\ open' = FALSE
  /\ UNCHANGED <<server, frames, token, rotation, revealed, switches, shown, requests, excused>>

Rotate ==
  /\ open /\ rotation = NotRotating /\ ~loading
  /\ rotation' = [NotRotating EXCEPT !.step = "asked", !.player = token]
  /\ UNCHANGED <<server, frames, token, open, revealed, switches, shown, requests, excused>>

\* hasRoundInFlight: chicken road is not asked about.
MayRotate == rotation.player # Nobody /\ ~(rotation.player = token /\ round.game \in {"MINES", "CRASH"})

ServeRotation ==
  /\ rotation.step = "asked" /\ MayRotate
  /\ LET p == rotation.player IN
     /\ pair[p] < MaxPairs /\ pair' = [pair EXCEPT ![p] = @ + 1]
     /\ rotation' = [rotation EXCEPT !.step = "answered", !.old = pair[p], !.new = pair[p] + 1]
  /\ excused' = (excused \/ frames # <<>>)
  /\ UNCHANGED <<nonce, round, frames, token, open, revealed, switches, shown, requests>>

\* Refused, or the answer is lost: the error is shown and nothing else.
RotationFails ==
  /\ rotation.step = "answered" \/ (rotation.step = "asked" /\ ~MayRotate)
  /\ rotation' = NotRotating
  /\ excused' = (excused \/ rotation.step = "answered")
  /\ UNCHANGED <<server, frames, token, open, revealed, switches, shown, requests>>

TakeRotation ==
  /\ rotation.step = "answered" /\ rotation' = NotRotating
  /\ revealed' = <<rotation.player, rotation.old>>
  /\ ApplySeed([player |-> rotation.player, pair |-> rotation.new, nonce |-> 0], reads)
  /\ UNCHANGED <<server, frames, token, open, switches, counts, excused>>

\* The hash a pasted seed is compared with.
Commitment == IF revealed # NoKey THEN revealed ELSE Key(seed)

\* The server seed of a retired pair is pasted: the one on show, or that of an older bet.
Verify(k) ==
  /\ open /\ verifier = Blank /\ token # Nobody /\ k < pair[token]
  /\ verifier' = [pasted |-> <<token, k>>, beside |-> revealed,
                  verdict |-> IF Commitment = NoKey THEN "unknown"
                              ELSE IF Commitment = <<token, k>> THEN "valid" ELSE "not valid"]
  /\ UNCHANGED <<server, frames, page, seed, requests, excused>>

-----------------------------------------------------------------------------
Next ==
  \/ Instant \/ CloseRound \/ Resume \/ Elsewhere \/ Capture \/ OpenDialog \/ CloseDialog
  \/ Rotate \/ ServeRotation \/ RotationFails \/ TakeRotation
  \/ \E game \in {"MINES", "CRASH", "CHICKEN"} : OpenRound(game)
  \/ \E who \in Players \cup {Nobody} : TokenIs(who)
  \/ \E r \in reads : ServeRead(r) \/ ReadFails(r) \/ TakeRead(r)
  \/ \E k \in 1..MaxPairs : Verify(k)

Spec == Init /\ [][Next]_vars

-----------------------------------------------------------------------------
\* The variables have their types.
TypeOK ==
  /\ pair \in [Players -> 1..MaxPairs] /\ nonce \in [Players -> [1..MaxPairs -> 0..MaxNonce]]
  /\ token \in Players \cup {Nobody} /\ seed.player \in Players \cup {Nobody}
  /\ seed.pair \in 0..MaxPairs /\ seed.nonce \in 0..MaxNonce
  /\ asked \in 0..MaxReads /\ \A r \in reads : r.step \in {"asked", "answered"}
  /\ rotation.step \in {"idle", "asked", "answered"} /\ revealed \in {NoKey} \cup (Players \X (1..MaxPairs))

\* "So the fairness dialog stays current without polling" (GameSocketProvider.tsx): once what
\* is under way has arrived, the seed shown is the player's active pair and its next nonce,
\* unless the player also bets elsewhere, an answer is lost or an older round is resumed.
StaysCurrent ==
  (~excused /\ frames = <<>> /\ reads = {} /\ rotation = NotRotating) =>
    seed = IF token = Nobody THEN NoSeed ELSE Active(token)

\* No nonce is shown that the server has not reached.
NeverAhead == seed # NoSeed => seed.nonce <= nonce[seed.player][seed.pair]

\* The seed a rotation revealed is found to match the hash shown with it.
RevealIsHonoured ==
  (verifier # Blank /\ verifier.pasted = verifier.beside) => verifier.verdict = "valid"
=============================================================================
