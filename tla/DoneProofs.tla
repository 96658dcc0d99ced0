------------------------------ MODULE DoneProofs ------------------------------
(***************************************************************************)
(* Proofs about MCPlatform, continued: what is asked for once is done once *)
(* and said as it was done, for any constants its assumptions admit.  The  *)
(* streak, the raffle, the sign-in pages and the rewards hub each have an  *)
(* invariant here, live support has its own in SupportProofs; the parts    *)
(* share no variable, and a step of one leaves the others at rest.         *)
(***************************************************************************)
EXTENDS MCPlatform, FiniteSetTheorems, TLAPS

\* The instances count as this module does.
LEMMA StreakCount == \A S : Streaks!Cardinality(S) = Cardinality(S)
BY DEF Streaks!Cardinality, Cardinality

LEMMA RaffleCount == \A S : Giveaway!Cardinality(S) = Cardinality(S)
BY DEF Giveaway!Cardinality, Cardinality

-----------------------------------------------------------------------------
(* The play streak *)

StreakRow == [current : Int, longest : Int, last : Int, restorable : Int, broken : Int]

\* The restores whose claim stands and whose charge is under way.
Claimed == {r \in Calls : restore[r].pc = "claimed"}

\* What was charged and what may be, for a claim that stands: those that a play's write over
\* a claim accounts for aside, each with a broken streak of its own, and so may an open offer be.
Taken == charged + Streaks!Cardinality(Claimed) - overwrites
Offers(u) == u.restorable > 0 => Taken + 1 <= Streaks!Cardinality(breaks)

StreakTypes ==
  /\ today \in Nat /\ streak \in StreakRow /\ charged \in Nat /\ overwrites \in Nat
  /\ play \in [Calls -> [pc : {"idle", "read"}, day : Nat, row : StreakRow]]
  /\ restore \in [Calls -> [pc : {"idle", "read", "claimed", "charged"}, row : StreakRow]]
  /\ breaks \subseteq Int /\ IsFiniteSet(breaks)

\* Streaks break, and plays read, on days gone by.
Gone ==
  /\ \A b \in breaks : b < today
  /\ \A p \in Calls : play[p].pc = "read" => play[p].day <= today

\* Since the day `since` of the last claim: what was taken rests on streaks that broke before
\* it, and the row, and every row a play has read since, tell of days from it on.
Since(since) ==
  /\ since \in Int /\ since <= today
  /\ Taken <= Streaks!Cardinality({b \in breaks : b < since})
  /\ since <= streak.last /\ Offers(streak)
  /\ \A p \in Calls : play[p].pc = "read" /\ p \notin outdated =>
       since <= play[p].row.last /\ since <= play[p].day /\ Offers(play[p].row)

\* A play that wrote over a claim leaves room for one more.
Spare == Taken + 1 <= Streaks!Cardinality(breaks)

StreakInv == StreakTypes /\ Gone /\ (Spare \/ \E since \in Int : Since(since))

LEMMA StreakInit == ASSUME Streaks!StreakAssumption, Streaks!Init PROVE StreakInv
<1> USE DEF Streaks!Init
<1>1. StreakTypes
  BY StreakCount, FS_EmptySet DEF StreakTypes, StreakRow, Streaks!NewRow, Streaks!NoPlay, Streaks!NoRestore, Streaks!Never
<1>2. Taken = 0 /\ Gone
  <2>1. Claimed = {}
    BY DEF Claimed, Streaks!NoRestore
  <2> QED BY <2>1, StreakCount, FS_EmptySet DEF Taken, Gone, Streaks!NoPlay
<1>3. Since(Streaks!Never)
  <2>1. {b \in breaks : b < Streaks!Never} = {}
    OBVIOUS
  <2> QED BY <1>2, <2>1, StreakCount, FS_EmptySet DEF Since, Offers, Streaks!NewRow, Streaks!NoPlay, Streaks!Never
<1> QED BY <1>1, <1>2, <1>3 DEF StreakInv, Streaks!Never

\* What is counted is a number.
LEMMA TakenCounts ==
  ASSUME Streaks!StreakAssumption, StreakTypes
  PROVE  /\ IsFiniteSet(Claimed) /\ Streaks!Cardinality(Claimed) \in Nat /\ Taken \in Int
         /\ Streaks!Cardinality(breaks) \in Nat
         /\ \A n : /\ Streaks!Cardinality({b \in breaks : b < n}) \in Nat
                   /\ Streaks!Cardinality({b \in breaks : b < n}) <= Streaks!Cardinality(breaks)
<1>1. IsFiniteSet(Claimed)
  BY StreakCount, FS_Subset DEF Claimed, Streaks!StreakAssumption, Streaks!IsFiniteSet, IsFiniteSet
<1>2. \A n : IsFiniteSet({b \in breaks : b < n}) /\ Streaks!Cardinality({b \in breaks : b < n}) <= Streaks!Cardinality(breaks)
  BY StreakCount, FS_Subset DEF StreakTypes
<1>3. Streaks!Cardinality(Claimed) \in Nat
  BY <1>1, StreakCount, FS_CardinalityType
<1>4. Streaks!Cardinality(breaks) \in Nat
  BY StreakCount, FS_CardinalityType DEF StreakTypes
<1>5. \A n : Streaks!Cardinality({b \in breaks : b < n}) \in Nat
  BY <1>2, StreakCount, FS_CardinalityType
<1>6. Taken \in Int
  BY <1>3 DEF Taken, StreakTypes
<1> QED BY <1>1, <1>2, <1>3, <1>4, <1>5, <1>6

\* Either way no more was taken than there were breaks.
LEMMA TakenWithin ==
  ASSUME Streaks!StreakAssumption, StreakTypes, Spare \/ \E since \in Int : Since(since)
  PROVE  Taken <= Streaks!Cardinality(breaks)
<1>1. Taken \in Int /\ Streaks!Cardinality(breaks) \in Nat
  BY TakenCounts
<1>2. CASE Spare
  BY <1>1, <1>2 DEF Spare
<1>3. ASSUME NEW since \in Int, Since(since) PROVE Taken <= Streaks!Cardinality(breaks)
  <2> DEFINE n == Streaks!Cardinality({b \in breaks : b < since})
  <2>1. n \in Nat /\ n <= Streaks!Cardinality(breaks)
    BY TakenCounts
  <2>2. Taken <= n
    BY <1>3 DEF Since
  <2> HIDE DEF n
  <2> QED BY <1>1, <2>1, <2>2
<1> QED BY <1>2, <1>3

\* The row a play writes.
LEMMA PlayWrites ==
  ASSUME NEW u \in StreakRow, NEW when \in Nat
  PROVE  /\ Streaks!Advanced(u, when) \in StreakRow /\ Streaks!Advanced(u, when).last = when
         /\ Streaks!Advanced(u, when).restorable > 0 => u.restorable > 0 \/ Streaks!Broke(u, when)
<1> DEFINE n == IF u.last # Streaks!Never /\ when - u.last = 1 THEN u.current + 1 ELSE 1
<1>1. n \in Int /\ u.longest \in Int
  BY DEF StreakRow
<1>2. Streaks!Max({u.longest, n}) \in Int
  <2> HIDE DEF n
  <2>1. \E x \in {u.longest, n} : \A y \in {u.longest, n} : x >= y
    BY <1>1
  <2>2. Streaks!Max({u.longest, n}) \in {u.longest, n}
    BY <2>1 DEF Streaks!Max
  <2> QED BY <1>1, <2>2
<1>3. Streaks!Advanced(u, when) =
        [current |-> n, longest |-> Streaks!Max({u.longest, n}), last |-> when,
         restorable |-> IF Streaks!Broke(u, when) THEN u.current ELSE u.restorable,
         broken |-> IF Streaks!Broke(u, when) THEN when ELSE u.broken]
  BY DEF Streaks!Advanced
<1> HIDE DEF n
<1>4. PICK a : a = Streaks!Advanced(u, when)
  OBVIOUS
<1> QED BY <1>1, <1>2, <1>3 DEF StreakRow

\* A step that takes no offer, keeps the breaks, and keeps the day of the last claim.
LEMMA OffersKept ==
  ASSUME Streaks!StreakAssumption, StreakInv, StreakTypes', Gone', Taken' <= Taken,
         Streaks!Cardinality(breaks) <= Streaks!Cardinality(breaks'),
         \A since \in Int : Since(since) => Since(since)'
  PROVE  StreakInv'
<1>1. Taken \in Int /\ Streaks!Cardinality(breaks) \in Nat
  BY TakenCounts DEF StreakInv
<1>2. Taken' \in Int
  <2>1. charged' \in Nat /\ overwrites' \in Nat
    BY DEF StreakTypes
  <2>2. IsFiniteSet(Claimed')
    BY StreakCount, FS_Subset DEF Claimed, Streaks!StreakAssumption, Streaks!IsFiniteSet, IsFiniteSet
  <2>3. Streaks!Cardinality(Claimed') \in Nat
    BY <2>2, StreakCount, FS_CardinalityType
  <2> QED BY <2>1, <2>3 DEF Taken
<1>3. Streaks!Cardinality(breaks') \in Nat
  BY StreakCount, FS_CardinalityType DEF StreakTypes
<1>4. CASE Spare
  BY <1>1, <1>2, <1>3, <1>4 DEF StreakInv, Spare
<1>5. CASE \E since \in Int : Since(since)
  BY <1>5 DEF StreakInv
<1> QED BY <1>4, <1>5 DEF StreakInv

LEMMA StreakStep ==
  ASSUME Streaks!StreakAssumption, StreakInv, Streaks!Next
  PROVE  StreakInv'
<1> USE DEF StreakTypes
<1>1. Gone /\ (Spare \/ \E since \in Int : Since(since))
  BY DEF StreakInv
<1>2. /\ StreakTypes /\ Taken \in Int /\ Streaks!Cardinality(breaks) \in Nat
      /\ IsFiniteSet(Claimed) /\ Streaks!Cardinality(Claimed) \in Nat
      /\ \A n : /\ Streaks!Cardinality({b \in breaks : b < n}) \in Nat
                /\ Streaks!Cardinality({b \in breaks : b < n}) <= Streaks!Cardinality(breaks)
  BY TakenCounts DEF StreakInv
<1>3. CASE Streaks!Midnight
  <2>1. today' = today + 1 /\ UNCHANGED <<streak, play, restore, breaks, charged, outdated, overwrites>>
    BY <1>3 DEF Streaks!Midnight
  <2>2. Taken' = Taken
    BY <2>1 DEF Taken, Claimed
  <2>3. \A u : Offers(u)' = Offers(u)
    BY <2>1, <2>2 DEF Offers
  <2>4. StreakTypes' /\ Gone'
    BY <1>1, <1>2, <2>1 DEF Gone
  <2>5. \A since \in Int : Since(since) => Since(since)'
    BY <1>2, <2>1, <2>2, <2>3 DEF Since
  <2> QED BY <1>2, <2>1, <2>2, <2>4, <2>5, OffersKept
<1>4. ASSUME NEW p \in Calls, Streaks!ReadPlay(p) PROVE StreakInv'
  <2>1. play' = [play EXCEPT ![p] = [pc |-> "read", day |-> today, row |-> streak]]
        /\ UNCHANGED <<today, streak, restore, breaks, charged, outdated, overwrites>>
    BY <1>4 DEF Streaks!ReadPlay
  <2>2. StreakTypes'
    BY <1>2, <2>1
  <2>3. Taken' = Taken
    BY <2>1 DEF Taken, Claimed
  <2>4. \A u : Offers(u)' = Offers(u)
    BY <2>1, <2>3 DEF Offers
  <2>5. \A q \in Calls : play'[q] = play[q] \/ play'[q] = [pc |-> "read", day |-> today, row |-> streak]
    BY <1>2, <2>1
  <2>6. Gone'
    BY <1>1, <1>2, <2>1, <2>5 DEF Gone
  <2>7. \A since \in Int : Since(since) => Since(since)'
    BY <1>2, <2>1, <2>3, <2>4, <2>5 DEF Since
  <2> QED BY <1>2, <2>1, <2>2, <2>3, <2>6, <2>7, OffersKept
<1>5. ASSUME NEW p \in Calls, Streaks!WritePlay(p) PROVE StreakInv'
  <2>1. PICK u \in StreakRow, when \in Nat : u = play[p].row /\ when = play[p].day /\ play[p].pc = "read"
    BY <1>2, <1>5 DEF Streaks!WritePlay
  <2>2. /\ streak' = Streaks!Advanced(u, when) /\ play' = [play EXCEPT ![p] = Streaks!NoPlay]
        /\ breaks' = (IF Streaks!Broke(u, when) THEN breaks \cup {u.last} ELSE breaks)
        /\ outdated' = outdated \ {p}
        /\ overwrites' = overwrites + (IF p \in outdated THEN 1 ELSE 0)
        /\ UNCHANGED <<today, restore, charged>>
    BY <1>5, <2>1 DEF Streaks!WritePlay, Streaks!Write
  <2>3. when <= today
    BY <1>1, <2>1 DEF Gone
  <2>4. Taken' = Taken - (IF p \in outdated THEN 1 ELSE 0)
    BY <1>2, <2>2 DEF Taken, Claimed
  <2>5. streak' \in StreakRow /\ streak'.last = when /\ (streak'.restorable > 0 => u.restorable > 0 \/ Streaks!Broke(u, when))
    BY <2>2, PlayWrites
  <2>6. Streaks!NoPlay \in [pc : {"idle", "read"}, day : Nat, row : StreakRow] /\ Streaks!NoPlay.pc = "idle"
    BY DEF Streaks!NoPlay, Streaks!NewRow, StreakRow, Streaks!Never
  <2>7. /\ IsFiniteSet(breaks') /\ breaks' \subseteq Int /\ breaks \subseteq breaks'
        /\ Streaks!Cardinality(breaks) <= Streaks!Cardinality(breaks') /\ Streaks!Cardinality(breaks') \in Nat
        /\ \A b \in breaks' : b < today
    <3>1. CASE Streaks!Broke(u, when)
      <4>1. breaks' = breaks \cup {u.last} /\ u.last \in Int /\ u.last < today
        BY <1>2, <2>2, <2>3, <3>1 DEF Streaks!Broke, StreakRow
      <4>2. IsFiniteSet(breaks') /\ Streaks!Cardinality(breaks') \in Nat /\ Streaks!Cardinality(breaks) <= Streaks!Cardinality(breaks')
        <5>1. IsFiniteSet(breaks')
          BY <1>2, <4>1, StreakCount, FS_AddElement
        <5>2. breaks \in SUBSET breaks'
          BY <4>1
        <5> QED BY <5>1, <5>2, StreakCount, FS_Subset, FS_CardinalityType
      <4> QED BY <1>1, <1>2, <4>1, <4>2 DEF Gone
    <3>2. CASE ~Streaks!Broke(u, when)
      BY <1>1, <1>2, <2>2, <3>2 DEF Gone
    <3> QED BY <3>1, <3>2
  <2>8. StreakTypes'
    BY <1>2, <2>2, <2>5, <2>6, <2>7
  <2>9. \A q \in Calls : play'[q].pc = "read" => play'[q] = play[q] /\ q # p
    BY <1>2, <2>2, <2>6
  <2>10. Gone'
    BY <1>1, <2>2, <2>7, <2>9 DEF Gone
  <2>11. CASE p \in outdated
    <3>1. Taken <= Streaks!Cardinality(breaks)
      BY <1>1, <1>2, TakenWithin
    <3>2. Taken' + 1 <= Streaks!Cardinality(breaks')
      BY <1>2, <2>4, <2>7, <2>11, <3>1
    <3> QED BY <2>8, <2>10, <3>2 DEF StreakInv, Spare
  <2>12. CASE p \notin outdated
    <3>1. Taken' = Taken
      BY <1>2, <2>4, <2>12
    <3>2. ASSUME NEW since \in Int, Since(since) PROVE Since(since)'
      <4>1. since <= u.last /\ since <= when /\ Offers(u) /\ Taken <= Streaks!Cardinality({b \in breaks : b < since})
        BY <2>1, <2>12, <3>2 DEF Since
      <4>2. Streaks!Broke(u, when) => Taken + 1 <= Streaks!Cardinality(breaks')
        <5> SUFFICES ASSUME Streaks!Broke(u, when) PROVE Taken + 1 <= Streaks!Cardinality(breaks')
          OBVIOUS
        <5> DEFINE L == {b \in breaks : b < since}
        <5>1. L \cup {u.last} \in SUBSET breaks' /\ u.last \notin L /\ IsFiniteSet(L)
          <6>1. IsFiniteSet(L)
            BY <1>2, StreakCount, FS_Subset
          <6> QED BY <1>2, <2>2, <4>1, <6>1 DEF StreakRow
        <5>2. Taken <= Streaks!Cardinality(L) /\ Streaks!Cardinality(L) \in Nat
          BY <1>2, <4>1
        <5> HIDE DEF L
        <5>3. Streaks!Cardinality(L \cup {u.last}) = Streaks!Cardinality(L) + 1
          BY <5>1, StreakCount, FS_AddElement
        <5>4. Streaks!Cardinality(L \cup {u.last}) <= Streaks!Cardinality(breaks')
          BY <2>7, <5>1, StreakCount, FS_Subset
        <5> QED BY <1>2, <2>7, <5>2, <5>3, <5>4
      <4>3. \A v : (v.restorable > 0 => u.restorable > 0 \/ Streaks!Broke(u, when)) \/ Offers(v) => Offers(v)'
        BY <1>2, <2>7, <3>1, <4>1, <4>2 DEF Offers
      <4>4. {b \in breaks' : b < since} = {b \in breaks : b < since}
        BY <1>2, <2>2, <4>1 DEF StreakRow
      <4>5. Offers(streak)'
        BY <2>5, <4>3 DEF Offers
      <4>6. \A q \in Calls : play'[q].pc = "read" /\ q \notin outdated' =>
              since <= play'[q].row.last /\ since <= play'[q].day /\ Offers(play[q].row)'
        BY <2>2, <2>9, <3>2, <4>3 DEF Since, Offers
      <4> QED BY <2>2, <2>5, <3>1, <3>2, <4>1, <4>4, <4>5, <4>6 DEF Since, Offers
    <3> QED BY <1>2, <2>7, <2>8, <2>10, <3>1, <3>2, OffersKept
  <2> QED BY <2>11, <2>12
<1>6. ASSUME NEW r \in Calls, Streaks!ReadStreak(r) PROVE StreakInv'
  <2>1. restore' = [restore EXCEPT ![r] = [pc |-> "read", row |-> streak]] /\ restore[r].pc = "idle"
        /\ UNCHANGED <<today, streak, play, breaks, charged, outdated, overwrites>>
    BY <1>6 DEF Streaks!ReadStreak
  <2>2. StreakTypes'
    BY <1>2, <2>1
  <2>3. Claimed' = Claimed
    BY <1>2, <2>1 DEF Claimed
  <2>4. Taken' = Taken
    BY <2>1, <2>3 DEF Taken
  <2>5. Gone' /\ \A since \in Int : Since(since) => Since(since)'
    BY <1>1, <2>1, <2>4 DEF Since, Offers, Gone
  <2> QED BY <1>2, <2>1, <2>2, <2>4, <2>5, OffersKept
<1>7. ASSUME NEW r \in Calls, Streaks!Claim(r) PROVE StreakInv'
  <2>1. CASE Streaks!MayClaim(r)
    <3>1. PICK was \in StreakRow : was = restore[r].row
      BY <1>2
    <3>2. /\ streak' = [streak EXCEPT !.current = was.restorable + 1,
                               !.longest = Streaks!Max({was.longest, was.restorable + 1}),
                               !.last = today, !.restorable = 0]
          /\ restore' = [restore EXCEPT ![r].pc = "claimed"] /\ restore[r].pc = "read"
          /\ outdated' = {p \in Calls : play[p].pc = "read"}
          /\ UNCHANGED <<today, play, breaks, charged, overwrites>>
      BY <1>7, <2>1, <3>1 DEF Streaks!Claim
    <3>3. Gone'
      BY <1>1, <3>2 DEF Gone
    <3>4. Streaks!Max({was.longest, was.restorable + 1}) \in Int
      <4> DEFINE n == was.restorable + 1
      <4>1. n \in Int /\ was.longest \in Int
        BY <3>1 DEF StreakRow
      <4> HIDE DEF n
      <4>2. \E x \in {was.longest, n} : \A y \in {was.longest, n} : x >= y
        BY <4>1
      <4>3. Streaks!Max({was.longest, n}) \in {was.longest, n}
        BY <4>2 DEF Streaks!Max
      <4>4. Streaks!Max({was.longest, n}) \in Int
        BY <4>1, <4>3
      <4> QED BY <4>4 DEF n
    <3>5. streak' \in StreakRow /\ streak'.last = today /\ streak'.restorable = 0
      <4> DEFINE m == Streaks!Max({was.longest, was.restorable + 1})
      <4>1. m \in Int /\ was.restorable + 1 \in Int
        BY <3>1, <3>4 DEF StreakRow
      <4>2. streak' = [streak EXCEPT !.current = was.restorable + 1, !.longest = m, !.last = today, !.restorable = 0]
        BY <3>2
      <4> HIDE DEF m
      <4>3. streak' = [current |-> was.restorable + 1, longest |-> m, last |-> today, restorable |-> 0, broken |-> streak.broken]
        BY <1>2, <4>2 DEF StreakRow
      <4>4. streak.broken \in Int /\ today \in Int
        BY <1>2 DEF StreakRow
      <4> QED BY <4>1, <4>3, <4>4 DEF StreakRow
    <3>6. StreakTypes'
      <4>1. restore' \in [Calls -> [pc : {"idle", "read", "claimed", "charged"}, row : StreakRow]]
        BY <1>2, <3>2
      <4> QED BY <1>2, <3>2, <3>5, <4>1
    <3>7. Taken' = Taken + 1
      <4>1. Claimed' = Claimed \cup {r} /\ r \notin Claimed
        BY <1>2, <3>2 DEF Claimed
      <4>2. Streaks!Cardinality(Claimed') = Streaks!Cardinality(Claimed) + 1
        BY <1>2, <4>1, StreakCount, FS_AddElement
      <4> QED BY <1>2, <3>2, <4>2 DEF Taken
    <3>8. Taken + 1 <= Streaks!Cardinality(breaks)
      BY <1>1, <2>1 DEF Since, Spare, Offers, Streaks!MayClaim
    <3>9. {b \in breaks' : b < today'} = breaks
      BY <1>1, <3>2 DEF Gone
    <3>10. Since(today)'
      <4>1. today' \in Int /\ today' <= today' /\ streak'.last = today' /\ Offers(streak)'
        BY <1>2, <3>2, <3>5 DEF Offers
      <4>2. Taken' <= Streaks!Cardinality(breaks)
        BY <3>7, <3>8
      <4>3. \A p \in Calls : ~(play'[p].pc = "read" /\ p \notin outdated')
        BY <3>2
      <4> QED BY <3>9, <4>1, <4>2, <4>3 DEF Since
    <3> QED BY <1>2, <3>2, <3>3, <3>6, <3>10 DEF StreakInv
  <2>2. CASE ~Streaks!MayClaim(r)
    <3>1. restore' = [restore EXCEPT ![r] = Streaks!NoRestore] /\ restore[r].pc = "read"
          /\ UNCHANGED <<today, streak, play, breaks, charged, outdated, overwrites>>
      BY <1>7, <2>2 DEF Streaks!Claim
    <3>2. Streaks!NoRestore \in [pc : {"idle", "read", "claimed", "charged"}, row : StreakRow] /\ Streaks!NoRestore.pc = "idle"
      BY DEF Streaks!NoRestore, Streaks!NewRow, StreakRow, Streaks!Never
    <3>3. StreakTypes'
      BY <1>2, <3>1, <3>2
    <3>4. Claimed' = Claimed
      BY <1>2, <3>1, <3>2 DEF Claimed
    <3>5. Taken' = Taken
      BY <3>1, <3>4 DEF Taken
    <3>6. Gone' /\ \A since \in Int : Since(since) => Since(since)'
      BY <1>1, <3>1, <3>5 DEF Since, Offers, Gone
    <3> QED BY <1>2, <3>1, <3>3, <3>5, <3>6, OffersKept
  <2> QED BY <2>1, <2>2
<1>8. ASSUME NEW r \in Calls, Streaks!Charge(r) PROVE StreakInv'
  <2>1. /\ restore[r].pc = "claimed" /\ charged' = charged + 1
        /\ restore' = [restore EXCEPT ![r].pc = "charged"] /\ UNCHANGED <<today, streak, play, breaks, outdated, overwrites>>
    BY <1>8 DEF Streaks!Charge
  <2>2. StreakTypes'
    BY <1>2, <2>1
  <2>3. Taken' = Taken
    <3>1. Claimed' = Claimed \ {r} /\ r \in Claimed
      <4>1. \A q \in Calls : restore'[q].pc = IF q = r THEN "charged" ELSE restore[q].pc
        BY <1>2, <2>1
      <4>2. \A q \in Calls : restore'[q].pc = "claimed" <=> q # r /\ restore[q].pc = "claimed"
        BY <4>1
      <4> QED BY <2>1, <4>2 DEF Claimed
    <3>2. Streaks!Cardinality(Claimed') = Streaks!Cardinality(Claimed) - 1
      BY <1>2, <3>1, StreakCount, FS_RemoveElement
    <3> QED BY <1>2, <2>1, <3>2 DEF Taken
  <2>4. Gone' /\ \A since \in Int : Since(since) => Since(since)'
    BY <1>1, <2>1, <2>3 DEF Since, Offers, Gone
  <2> QED BY <1>2, <2>1, <2>2, <2>3, <2>4, OffersKept
<1>9. ASSUME NEW r \in Calls, Streaks!ChargeFails(r) PROVE StreakInv'
  <2>1. /\ restore[r].pc = "claimed" /\ (streak' = Streaks!GivenBack(r) \/ streak' = streak)
        /\ restore' = [restore EXCEPT ![r] = Streaks!NoRestore] /\ UNCHANGED <<today, play, breaks, charged, outdated, overwrites>>
    BY <1>9 DEF Streaks!ChargeFails
  <2>2. streak' \in StreakRow /\ streak'.last = streak.last
    BY <1>2, <2>1 DEF Streaks!GivenBack, StreakRow
  <2>3. Streaks!NoRestore \in [pc : {"idle", "read", "claimed", "charged"}, row : StreakRow] /\ Streaks!NoRestore.pc = "idle"
    BY DEF Streaks!NoRestore, Streaks!NewRow, StreakRow, Streaks!Never
  <2>4. StreakTypes'
    BY <1>2, <2>1, <2>2, <2>3
  <2>5. Taken' = Taken - 1
    <3>1. Claimed' = Claimed \ {r} /\ r \in Claimed
      BY <1>2, <2>1, <2>3 DEF Claimed
    <3>2. Streaks!Cardinality(Claimed') = Streaks!Cardinality(Claimed) - 1
      BY <1>2, <3>1, StreakCount, FS_RemoveElement
    <3> QED BY <1>2, <2>1, <3>2 DEF Taken
  <2>6. ASSUME NEW since \in Int, Since(since) PROVE Since(since)'
    <3>1. Taken' + 1 <= Streaks!Cardinality(breaks')
      <4>1. Taken <= Streaks!Cardinality(breaks)
        BY <1>1, <1>2, TakenWithin
      <4> QED BY <1>2, <2>1, <2>5, <4>1
    <3>2. Offers(streak)' /\ \A q \in Calls : Offers(play[q].row)'
      BY <3>1 DEF Offers
    <3>3. Taken' <= Streaks!Cardinality({b \in breaks : b < since})
      <4> DEFINE n == Streaks!Cardinality({b \in breaks : b < since})
      <4>1. Taken <= n
        BY <2>6 DEF Since
      <4>2. n \in Nat
        BY <1>2
      <4>3. Taken \in Int
        BY <1>2
      <4> HIDE DEF n, StreakTypes
      <4>4. Taken' <= n
        BY <2>5, <4>1, <4>2, <4>3
      <4> QED BY <4>4 DEF n
    <3>4. breaks' = breaks /\ today' = today /\ streak'.last = streak.last /\ play' = play /\ outdated' = outdated
      BY <2>1, <2>2
    <3>5. /\ since <= today /\ since <= streak.last
          /\ \A p \in Calls : play[p].pc = "read" /\ p \notin outdated =>
               since <= play[p].row.last /\ since <= play[p].day
      BY <2>6 DEF Since
    <3>6. (Taken <= Streaks!Cardinality({b \in breaks : b < since}))'
      BY <3>3, <3>4
    <3>7. Offers(streak)' /\ \A q \in Calls : Offers(play[q].row)'
      BY <3>2
    <3> HIDE DEF StreakTypes
    <3> QED BY <3>4, <3>5, <3>6, <3>7 DEF Since
  <2>7. Gone'
    BY <1>1, <2>1 DEF Gone
  <2> QED BY <1>2, <2>1, <2>4, <2>5, <2>6, <2>7, OffersKept
<1>10. ASSUME NEW r \in Calls, Streaks!CloseOffer(r) PROVE StreakInv'
  <2>1. /\ restore[r].pc = "charged" /\ streak' = [streak EXCEPT !.broken = Streaks!Never]
        /\ restore' = [restore EXCEPT ![r] = Streaks!NoRestore] /\ UNCHANGED <<today, play, breaks, charged, outdated, overwrites>>
    BY <1>10 DEF Streaks!CloseOffer
  <2>2. streak' \in StreakRow /\ streak'.last = streak.last /\ streak'.restorable = streak.restorable
    BY <1>2, <2>1 DEF StreakRow, Streaks!Never
  <2>3. Streaks!NoRestore \in [pc : {"idle", "read", "claimed", "charged"}, row : StreakRow] /\ Streaks!NoRestore.pc = "idle"
    BY DEF Streaks!NoRestore, Streaks!NewRow, StreakRow, Streaks!Never
  <2>4. StreakTypes'
    BY <1>2, <2>1, <2>2, <2>3
  <2>5. Claimed' = Claimed
    BY <1>2, <2>1, <2>3 DEF Claimed
  <2>6. Taken' = Taken
    BY <2>1, <2>5 DEF Taken
  <2>7. Gone' /\ \A since \in Int : Since(since) => Since(since)'
    BY <1>1, <2>1, <2>2, <2>6 DEF Since, Offers, Gone
  <2> QED BY <1>2, <2>1, <2>4, <2>6, <2>7, OffersKept
<1> QED BY <1>3, <1>4, <1>5, <1>6, <1>7, <1>8, <1>9, <1>10 DEF Streaks!Next

LEMMA StreakHolds ==
  ASSUME Streaks!StreakAssumption, StreakInv
  PROVE  Streaks!OneChargePerBreak
<1>1. StreakTypes /\ (Spare \/ \E since \in Int : Since(since))
  BY DEF StreakInv
<1>2. Taken <= Streaks!Cardinality(breaks)
  BY <1>1, TakenWithin
<1>3. charged <= Taken + overwrites
  BY <1>1, TakenCounts DEF Taken, StreakTypes
<1> QED BY <1>1, <1>2, <1>3, TakenCounts DEF Streaks!OneChargePerBreak, StreakTypes

-----------------------------------------------------------------------------
(* Tickets of the giveaway *)

\* The greater and the lesser of two (FiniteSetsExt).
LEMMA RaffleMax ==
  ASSUME NEW a \in Int, NEW b \in Int
  PROVE  /\ Giveaway!Max({a, b}) \in {a, b} /\ Giveaway!Max({a, b}) >= a /\ Giveaway!Max({a, b}) >= b
         /\ Giveaway!Min({a, b}) \in {a, b} /\ Giveaway!Min({a, b}) <= a /\ Giveaway!Min({a, b}) <= b
<1>1. /\ \E x \in {a, b} : \A y \in {a, b} : x >= y
      /\ \E x \in {a, b} : \A y \in {a, b} : x <= y
  OBVIOUS
<1> QED BY <1>1 DEF Giveaway!Max, Giveaway!Min

\* What is left of whole tickets when some are taken off.
LEMMA WholeTickets ==
  ASSUME NEW k \in Nat \ {0}, NEW w \in Nat, NEW e \in Nat, NEW f \in Nat, e = k * f, e <= w
  PROVE  /\ f + (w - e) \div k = w \div k
         /\ (w - e) \div k \in Nat
         /\ e + k * ((w - e) \div k) <= w
<1>1. /\ w = k * (w \div k) + (w % k) /\ w % k \in 0..(k - 1) /\ w \div k \in Nat
  OBVIOUS
<1> DEFINE q == w \div k
           d == (w - e) \div k
<1>2. /\ w - e = k * d + ((w - e) % k) /\ (w - e) % k \in 0..(k - 1) /\ d \in Nat
  <2>1. w - e \in Nat
    OBVIOUS
  <2> QED BY <2>1
<1>3. k * (f + d) = k * f + k * d
  BY <1>2
<1>4. w = k * (f + d) + ((w - e) % k)
  BY <1>2, <1>3
<1>5. f + d = q
  <2> DEFINE a == f + d
             r == w % k
             s == (w - e) % k
  <2>1. a \in Nat /\ q \in Nat /\ r \in 0..(k - 1) /\ s \in 0..(k - 1) /\ k * q + r = k * a + s
    BY <1>1, <1>2, <1>4
  <2> HIDE DEF a, q, r, s
  <2>2. CASE a > q
    <3>1. a >= q + 1
      BY <2>1, <2>2
    <3>2. k * a >= k * (q + 1)
      BY <2>1, <3>1
    <3>3. k * (q + 1) = k * q + k
      BY <2>1
    <3> QED BY <2>1, <3>2, <3>3
  <2>3. CASE q > a
    <3>1. q >= a + 1
      BY <2>1, <2>3
    <3>2. k * q >= k * (a + 1)
      BY <2>1, <3>1
    <3>3. k * (a + 1) = k * a + k
      BY <2>1
    <3> QED BY <2>1, <3>2, <3>3
  <2> QED BY <2>1, <2>2, <2>3 DEF a
<1>6. e + k * d <= w
  BY <1>2
<1> QED BY <1>2, <1>5, <1>6

-----------------------------------------------------------------------------
Entries == [wager : Nat, deposits : Nat, ticketDay : Int]
RaffleClaim ==
  [pc : {"idle", "open", "entry", "owed"}, p : Players \cup {"none"}, entry : Entries, wager : Nat,
   deposit : Nat, uncredited : Nat, checkIn : BOOLEAN, today : Nat]

RaffleTypes ==
  /\ cast.players \subseteq Players /\ day \in Nat
  /\ wagered \in [Players -> Nat] /\ settled \in [Players -> Nat] /\ funded \in [Players -> Nat]
  /\ lastVisit \in [Players -> Int] /\ visits \in [Players -> SUBSET (0..day)]
  /\ entry \in [Players -> Entries]
  /\ claim \in [Calls -> RaffleClaim]
  /\ counter \in Nat
  /\ tickets \subseteq [p : Players, number : Nat, source : Giveaway!Sources]

\* A ticket's number is its own.
NumberedApart ==
  /\ {t.number : t \in tickets} = 1..counter
  /\ \A t, u \in tickets : t.number = u.number => t = u

\* The records say no more than what happened.
RecordsOK ==
  \A p \in Players :
    /\ settled[p] <= funded[p]
    /\ lastVisit[p] = Giveaway!Never \/ lastVisit[p] \in visits[p]

\* What a claim was owed when it read has not become less.
ClaimOK(c) ==
  /\ c.pc # "idle" => c.p \in Players
  /\ c.pc = "owed" =>
       /\ c.today <= day
       /\ c.wager > 0 => c.entry.wager + PerTicket * c.wager <= wagered[c.p]
       /\ c.deposit > 0 =>
            /\ c.entry.deposits + c.uncredited <= funded[c.p]
            /\ c.deposit <= c.uncredited * PerDeposit
       /\ c.checkIn => c.today \in visits[c.p]

\* The check-ins up to the day of the last ticket for one.
Before(p) == {d \in visits[p] : d <= entry[p].ticketDay}

\* What the watermarks of an entry stand for was issued, no more.
EntryOK(p) ==
  /\ entry[p].wager = PerTicket * Giveaway!From(p, "WAGER") /\ entry[p].wager <= wagered[p]
  /\ Giveaway!From(p, "DEPOSIT") <= entry[p].deposits * PerDeposit /\ entry[p].deposits <= funded[p]
  /\ Giveaway!From(p, "DAILY_LOGIN") <= Giveaway!Cardinality(Before(p))
  /\ entry[p].ticketDay <= day

RaffleInv ==
  /\ RaffleTypes /\ NumberedApart /\ RecordsOK
  /\ \A c \in Calls : ClaimOK(claim[c])
  /\ \A p \in Players : EntryOK(p)

\* The tickets are as many as their numbers.
LEMMA TicketCount ==
  ASSUME counter \in Nat, NumberedApart
  PROVE  /\ IsFiniteSet(tickets) /\ Giveaway!Cardinality(tickets) = counter
         /\ \A p, s : Giveaway!From(p, s) \in Nat
<1> DEFINE f == [n \in 1..counter |-> CHOOSE t \in tickets : t.number = n]
<1>1. \A n \in 1..counter : f[n] \in tickets /\ f[n].number = n
  BY DEF NumberedApart
<1>2. \A t \in tickets : t.number \in 1..counter /\ f[t.number] = t
  BY <1>1 DEF NumberedApart
<1>3. f \in Bijection(1..counter, tickets)
  <2>1. f \in [1..counter -> tickets]
    BY <1>1
  <2>2. \A m, n \in 1..counter : f[m] = f[n] => m = n
    BY <1>1
  <2>3. \A t \in tickets : \E n \in 1..counter : f[n] = t
    BY <1>2
  <2> HIDE DEF f
  <2> QED BY <2>1, <2>2, <2>3 DEF Bijection, Injection, Surjection, IsInjective
<1>4. IsFiniteSet(1..counter) /\ Giveaway!Cardinality(1..counter) = counter
  <2>1. 1 \in Int /\ counter \in Int
    OBVIOUS
  <2> QED BY <2>1, RaffleCount, FS_Interval
<1>5. IsFiniteSet(tickets) /\ Giveaway!Cardinality(tickets) = counter
  BY <1>3, <1>4, RaffleCount, FS_Bijection DEF ExistsBijection
<1>6. \A p, s : Giveaway!From(p, s) \in Nat
  BY <1>5, RaffleCount, FS_Subset, FS_CardinalityType DEF Giveaway!From
<1> QED BY <1>5, <1>6

LEMMA RaffleInit == ASSUME Giveaway!RaffleAssumption, Giveaway!Init PROVE RaffleInv
<1> USE DEF Giveaway!Init, Giveaway!RaffleAssumption
<1>1. RaffleTypes
  BY DEF RaffleTypes, RaffleClaim, Entries, Giveaway!NoClaim, Giveaway!NoEntry, Giveaway!Never
<1>2. NumberedApart
  BY DEF NumberedApart
<1>3. RecordsOK
  BY DEF RecordsOK
<1>4. \A c \in Calls : ClaimOK(claim[c])
  BY DEF ClaimOK, Giveaway!NoClaim
<1>5. ASSUME NEW p \in Players PROVE EntryOK(p)
  <2>1. \A s : Giveaway!From(p, s) = 0
    BY RaffleCount, FS_EmptySet DEF Giveaway!From
  <2>2. Before(p) = {}
    BY DEF Before
  <2> QED BY <2>1, <2>2, RaffleCount, FS_EmptySet DEF EntryOK, Giveaway!NoEntry, Giveaway!Never
<1> QED BY <1>1, <1>2, <1>3, <1>4, <1>5 DEF RaffleInv

\* Visits of more days, or more of them, are not fewer.
LEMMA VisitsGrow ==
  ASSUME NEW S \in SUBSET Nat, NEW m \in Nat, S \subseteq 0..m, NEW T \in SUBSET S
  PROVE  /\ IsFiniteSet(S) /\ IsFiniteSet(T) /\ Giveaway!Cardinality(S) \in Nat /\ Giveaway!Cardinality(T) \in Nat
         /\ Giveaway!Cardinality(T) <= Giveaway!Cardinality(S)
<1>1. IsFiniteSet(0..m)
  <2>1. 0 \in Int /\ m \in Int
    OBVIOUS
  <2> QED BY <2>1, RaffleCount, FS_Interval
<1>2. IsFiniteSet(S)
  BY <1>1, RaffleCount, FS_Subset
<1> QED BY <1>2, RaffleCount, FS_Subset, FS_CardinalityType

\* What happens beside the claims changes the records, and only makes them more.
LEMMA RecordsStep ==
  ASSUME Giveaway!RaffleAssumption, RaffleInv,
         \/ Giveaway!Midnight
         \/ \E p \in cast.players : Giveaway!Wager(p) \/ Giveaway!Deposit(p) \/ Giveaway!Unsettle(p) \/ Giveaway!CheckIn(p)
  PROVE  RaffleInv'
<1> USE DEF RaffleInv, RaffleTypes
<1>1. UNCHANGED <<cast, entry, counter, tickets, claim>>
  BY DEF Giveaway!Midnight, Giveaway!Wager, Giveaway!Deposit, Giveaway!Unsettle, Giveaway!CheckIn, Giveaway!records
<1> DEFINE Grow ==
             /\ day' \in Nat /\ day' >= day
             /\ wagered' \in [Players -> Nat] /\ settled' \in [Players -> Nat] /\ funded' \in [Players -> Nat]
             /\ lastVisit' \in [Players -> Int] /\ visits' \in [Players -> SUBSET (0..day')]
             /\ \A p \in Players : /\ wagered'[p] >= wagered[p] /\ funded'[p] >= funded[p]
                                   /\ visits[p] \subseteq visits'[p]
             /\ RecordsOK'
<1>2. Grow
  <2>1. CASE Giveaway!Midnight
    <3>1. day' = day + 1 /\ UNCHANGED Giveaway!records
      BY <2>1 DEF Giveaway!Midnight
    <3>2. visits' \in [Players -> SUBSET (0..day')]
      BY <3>1 DEF Giveaway!records
    <3> QED BY <3>1, <3>2 DEF Giveaway!records, RecordsOK
  <2>2. ASSUME NEW p \in Players, Giveaway!Wager(p) PROVE Grow
    <3>1. UNCHANGED <<day, settled, funded, lastVisit, visits>> /\ wagered' = [wagered EXCEPT ![p] = @ + 1]
      BY <2>2 DEF Giveaway!Wager
    <3> QED BY <3>1 DEF RecordsOK
  <2>3. ASSUME NEW p \in Players, Giveaway!Deposit(p) PROVE Grow
    <3>1. UNCHANGED <<day, wagered, lastVisit, visits>> /\ settled' = [settled EXCEPT ![p] = @ + 1]
          /\ funded' = [funded EXCEPT ![p] = @ + 1]
      BY <2>3 DEF Giveaway!Deposit
    <3> QED BY <3>1 DEF RecordsOK
  <2>4. ASSUME NEW p \in Players, Giveaway!Unsettle(p) PROVE Grow
    <3>1. UNCHANGED <<day, wagered, funded, lastVisit, visits>> /\ settled' = [settled EXCEPT ![p] = @ - 1]
          /\ settled[p] > 0
      BY <2>4 DEF Giveaway!Unsettle
    <3> QED BY <3>1 DEF RecordsOK
  <2>5. ASSUME NEW p \in Players, Giveaway!CheckIn(p) PROVE Grow
    <3>1. UNCHANGED <<day, wagered, funded, settled>> /\ lastVisit' = [lastVisit EXCEPT ![p] = day]
          /\ visits' = [visits EXCEPT ![p] = @ \cup {day}]
      BY <2>5 DEF Giveaway!CheckIn
    <3>2. lastVisit' \in [Players -> Int] /\ visits' \in [Players -> SUBSET (0..day')]
      BY <3>1
    <3> QED BY <3>1, <3>2 DEF RecordsOK
  <2> QED BY <2>1, <2>2, <2>3, <2>4, <2>5
<1>3. RaffleTypes'
  BY <1>1, <1>2
<1>4. NumberedApart'
  BY <1>1 DEF NumberedApart
<1>5. ASSUME NEW c \in Calls PROVE ClaimOK(claim[c])'
  <2>1. PICK d \in RaffleClaim : d = claim[c] /\ ClaimOK(d) /\ claim'[c] = d
    BY <1>1
  <2>2. d.pc # "idle" => d.p \in Players
    BY <2>1 DEF ClaimOK
  <2>3. CASE d.pc = "owed"
    <3>1. /\ d.today \in Nat /\ d.entry.wager + PerTicket * d.wager \in Int /\ d.entry.deposits + d.uncredited \in Int
          /\ wagered[d.p] \in Nat /\ funded[d.p] \in Nat
      BY <2>2, <2>3 DEF RaffleClaim, Entries, Giveaway!RaffleAssumption
    <3>2. wagered'[d.p] \in Nat /\ funded'[d.p] \in Nat /\ wagered'[d.p] >= wagered[d.p] /\ funded'[d.p] >= funded[d.p]
          /\ visits[d.p] \subseteq visits'[d.p] /\ day' >= day /\ day' \in Nat
      BY <1>2, <2>2, <2>3
    <3>3. ClaimOK(d)'
      <4> HIDE DEF RaffleTypes
      <4>1. day \in Nat
        BY DEF RaffleTypes
      <4> QED BY <2>1, <2>2, <2>3, <3>1, <3>2, <4>1 DEF ClaimOK
    <3> QED BY <2>1, <3>3
  <2> QED BY <2>1, <2>2, <2>3 DEF ClaimOK
<1>6. ASSUME NEW p \in Players PROVE EntryOK(p)'
  <2>1. \A s : Giveaway!From(p, s)' = Giveaway!From(p, s) /\ Giveaway!From(p, s) \in Nat
    <3>1. \A s : Giveaway!From(p, s) \in Nat
      BY TicketCount
    <3> QED BY <1>1, <3>1 DEF Giveaway!From
  <2>2. Giveaway!Cardinality(Before(p)) <= Giveaway!Cardinality(Before(p)') /\ Giveaway!Cardinality(Before(p)) \in Nat /\ Giveaway!Cardinality(Before(p)') \in Nat
    <3>1. Before(p)' \subseteq 0..day' /\ Before(p) \subseteq Before(p)' /\ Before(p)' \in SUBSET Nat
      BY <1>1, <1>2 DEF Before
    <3> QED BY <1>2, <3>1, VisitsGrow
  <2>4. entry'[p] = entry[p] /\ entry[p] \in Entries /\ EntryOK(p)
    BY <1>1
  <2> QED BY <1>2, <2>1, <2>2, <2>4 DEF EntryOK, Entries
<1> QED BY <1>2, <1>3, <1>4, <1>5, <1>6

\* A claim that begins, reads, or ends without writing.
LEMMA ReadingStep ==
  ASSUME Giveaway!RaffleAssumption, RaffleInv, NEW c \in Calls,
         Giveaway!ReadEntry(c) \/ Giveaway!ReadRecords(c) \/ \E p \in cast.players : Giveaway!Begin(c, p)
  PROVE  RaffleInv'
<1> USE DEF RaffleInv, RaffleTypes
<1>1. UNCHANGED <<cast, day, wagered, settled, funded, lastVisit, visits, entry, counter, tickets>>
  BY DEF Giveaway!ReadEntry, Giveaway!ReadRecords, Giveaway!Begin, Giveaway!records
<1>2. claim[c] \in RaffleClaim /\ ClaimOK(claim[c])
  OBVIOUS
<1> DEFINE Follows == \E d \in RaffleClaim : claim' = [claim EXCEPT ![c] = d] /\ ClaimOK(d)
<1>3. Follows
  <2>1. ASSUME NEW p \in cast.players, Giveaway!Begin(c, p) PROVE Follows
    <3>1. PICK d : d = [Giveaway!NoClaim EXCEPT !.pc = "open", !.p = p]
      OBVIOUS
    <3>2. Giveaway!NoClaim \in RaffleClaim
      BY DEF RaffleClaim, Entries, Giveaway!NoClaim, Giveaway!NoEntry, Giveaway!Never
    <3>3. d \in RaffleClaim /\ d.pc = "open" /\ d.p = p
      BY <3>1, <3>2 DEF RaffleClaim
    <3> QED BY <2>1, <3>1, <3>3 DEF Giveaway!Begin, ClaimOK
  <2>2. CASE Giveaway!ReadEntry(c)
    <3>1. PICK d : d = [claim[c] EXCEPT !.pc = "entry", !.entry = entry[claim[c].p]]
      OBVIOUS
    <3>2. claim[c].p \in Players /\ claim' = [claim EXCEPT ![c] = d]
      BY <1>2, <2>2, <3>1 DEF Giveaway!ReadEntry, ClaimOK
    <3>3. d \in RaffleClaim /\ d.pc = "entry" /\ d.p = claim[c].p
      BY <1>2, <3>1, <3>2 DEF RaffleClaim
    <3> QED BY <3>2, <3>3 DEF ClaimOK
  <2>3. CASE Giveaway!ReadRecords(c)
    <3> DEFINE p == claim[c].p
               e == claim[c].entry
    <3>1. p \in Players /\ e \in Entries /\ claim[c].pc = "entry"
      BY <1>2, <2>3 DEF Giveaway!ReadRecords, ClaimOK, RaffleClaim
    <3>2. Giveaway!WagerOwed(p, e) \in Nat /\ (Giveaway!WagerOwed(p, e) > 0 => e.wager + PerTicket * Giveaway!WagerOwed(p, e) <= wagered[p])
      <4>1. CASE wagered[p] <= e.wager
        BY <4>1 DEF Giveaway!WagerOwed
      <4>2. CASE wagered[p] > e.wager
        <5> DEFINE r == wagered[p] - e.wager
                   q == r \div PerTicket
        <5>1. r \in Nat /\ PerTicket \in Nat \ {0} /\ wagered[p] \in Nat /\ e.wager \in Nat
          BY <3>1, <4>2 DEF Entries, Giveaway!RaffleAssumption
        <5>2. q \in Nat /\ PerTicket * q <= r
          <6> HIDE DEF r
          <6>1. r = PerTicket * q + (r % PerTicket) /\ r % PerTicket \in Nat /\ q \in Nat
            BY <5>1
          <6> QED BY <5>1, <6>1
        <5>3. Giveaway!WagerOwed(p, e) = q
          BY <4>2, <5>1 DEF Giveaway!WagerOwed
        <5> QED BY <5>1, <5>2, <5>3
      <4> QED BY <3>1, <4>1, <4>2 DEF Entries
    <3>3. /\ Giveaway!Uncredited(p, e) \in Nat
          /\ Giveaway!Uncredited(p, e) > 0 => e.deposits + Giveaway!Uncredited(p, e) = settled[p]
      <4> DEFINE z == settled[p] - e.deposits
      <4>1. 0 \in Int /\ z \in Int /\ e.deposits \in Nat /\ settled[p] \in Nat
        BY <3>1 DEF Entries
      <4>2. Giveaway!Max({0, z}) \in {0, z} /\ Giveaway!Max({0, z}) >= 0
        <5> HIDE DEF z
        <5> QED BY <4>1, RaffleMax
      <4>3. Giveaway!Uncredited(p, e) = Giveaway!Max({0, z})
        BY DEF Giveaway!Uncredited
      <4> QED BY <4>1, <4>2, <4>3
    <3> DEFINE w == Giveaway!Min({Giveaway!WagerOwed(p, e), MaxPerClaim})
               u == Giveaway!Uncredited(p, e)
               m == Giveaway!Min({u * PerDeposit, MaxPerClaim})
    <3>4. /\ w \in Nat /\ (w > 0 => e.wager + PerTicket * w <= wagered[p])
      <4> DEFINE o == Giveaway!WagerOwed(p, e)
      <4>1. w \in {Giveaway!WagerOwed(p, e), MaxPerClaim} /\ w <= Giveaway!WagerOwed(p, e) /\ MaxPerClaim \in Nat
        <5>1. o \in Int /\ MaxPerClaim \in Int /\ MaxPerClaim \in Nat
          BY <3>2 DEF Giveaway!RaffleAssumption
        <5> HIDE DEF o
        <5>2. Giveaway!Min({o, MaxPerClaim}) \in {o, MaxPerClaim} /\ Giveaway!Min({o, MaxPerClaim}) <= o
          BY <5>1, RaffleMax
        <5> QED BY <5>1, <5>2 DEF o
      <4>2. w > 0 => Giveaway!WagerOwed(p, e) > 0
        BY <3>2, <4>1
      <4>3. PerTicket * w <= PerTicket * Giveaway!WagerOwed(p, e)
        BY <3>2, <4>1 DEF Giveaway!RaffleAssumption
      <4>4. e.wager \in Nat /\ PerTicket * w \in Nat /\ PerTicket * Giveaway!WagerOwed(p, e) \in Nat /\ wagered[p] \in Nat /\ w \in Nat
        BY <3>1, <3>2, <4>1 DEF Entries, Giveaway!RaffleAssumption
      <4> HIDE DEF w
      <4> QED BY <3>2, <4>2, <4>3, <4>4
    <3>5. /\ u \in Nat /\ m \in Nat /\ m <= u * PerDeposit
          /\ m > 0 => e.deposits + u <= funded[p]
      <4>1. u \in Nat /\ u * PerDeposit \in Nat /\ MaxPerClaim \in Nat /\ PerDeposit \in Nat
        BY <3>3 DEF Giveaway!RaffleAssumption
      <4> DEFINE o == u * PerDeposit
      <4>2. m \in {u * PerDeposit, MaxPerClaim} /\ m <= u * PerDeposit
        <5>1. o \in Int /\ MaxPerClaim \in Int
          BY <4>1
        <5> HIDE DEF o
        <5>2. Giveaway!Min({o, MaxPerClaim}) \in {o, MaxPerClaim} /\ Giveaway!Min({o, MaxPerClaim}) <= o
          BY <5>1, RaffleMax
        <5> QED BY <5>2 DEF o
      <4>3. m > 0 => u > 0
        BY <4>1, <4>2
      <4> QED BY <3>1, <3>3, <4>1, <4>2, <4>3 DEF RecordsOK
    <3>6. Giveaway!CheckInOwed(p, e) \in BOOLEAN /\ (Giveaway!CheckInOwed(p, e) => day \in visits[p])
      BY <3>1 DEF Giveaway!CheckInOwed, RecordsOK, Giveaway!Never
    <3>7. PICK d : d = [claim[c] EXCEPT !.pc = "owed", !.wager = w, !.uncredited = u, !.deposit = m,
                                        !.checkIn = Giveaway!CheckInOwed(p, e), !.today = day]
      OBVIOUS
    <3>8. d \in RaffleClaim
      BY <1>2, <3>4, <3>5, <3>6, <3>7 DEF RaffleClaim
    <3>9. /\ d.pc = "owed" /\ d.p = p /\ d.entry = e /\ d.wager = w /\ d.uncredited = u /\ d.deposit = m
          /\ d.checkIn = Giveaway!CheckInOwed(p, e) /\ d.today = day
      BY <1>2, <3>7 DEF RaffleClaim
    <3>10. claim' = [claim EXCEPT ![c] = d] \/ claim' = [claim EXCEPT ![c] = Giveaway!NoClaim]
      BY <2>3, <3>7 DEF Giveaway!ReadRecords
    <3>11. Giveaway!NoClaim \in RaffleClaim /\ ClaimOK(Giveaway!NoClaim)
      BY DEF RaffleClaim, Entries, Giveaway!NoClaim, Giveaway!NoEntry, Giveaway!Never, ClaimOK
    <3>12. ClaimOK(d)
      <4> HIDE DEF w, u, m, p, e
      <4> QED BY <3>1, <3>4, <3>5, <3>6, <3>9 DEF ClaimOK
    <3> QED BY <3>8, <3>10, <3>11, <3>12
  <2> QED BY <2>1, <2>2, <2>3
<1>4. PICK d \in RaffleClaim : claim' = [claim EXCEPT ![c] = d] /\ ClaimOK(d)
  BY <1>3
<1>5. RaffleTypes' /\ NumberedApart' /\ RecordsOK'
  BY <1>1, <1>4 DEF NumberedApart, RecordsOK
<1>6. ASSUME NEW x \in Calls PROVE ClaimOK(claim[x])'
  <2>1. ClaimOK(claim'[x])
    BY <1>4
  <2> QED BY <1>1, <2>1 DEF ClaimOK
<1>7. ASSUME NEW p \in Players PROVE EntryOK(p)'
  BY <1>1 DEF EntryOK, Giveaway!From, Before
<1> QED BY <1>5, <1>6, <1>7

\* The numbers of a claim's tickets follow on, and are split among its sources.
LEMMA IssueTickets ==
  ASSUME RaffleInv, NEW c \in Calls, claim[c].pc = "owed", NEW p, p = claim[c].p,
         NEW n, n = Giveaway!Issued(c), counter' = counter + n,
         tickets' = tickets \cup
           {[p |-> p, number |-> Giveaway!FirstNumber(c) + i, source |-> Giveaway!SourceFor(c, i)] : i \in 0..(n - 1)}
  PROVE  /\ n \in Nat /\ NumberedApart' /\ tickets' \subseteq [p : Players, number : Nat, source : Giveaway!Sources]
         /\ \A q \in Players : \A s : q # p => Giveaway!From(q, s)' = Giveaway!From(q, s)
         /\ Giveaway!From(p, "WAGER")' = Giveaway!From(p, "WAGER") + claim[c].wager
         /\ Giveaway!From(p, "DEPOSIT")' = Giveaway!From(p, "DEPOSIT") + claim[c].deposit
         /\ Giveaway!From(p, "DAILY_LOGIN")' = Giveaway!From(p, "DAILY_LOGIN") + (IF claim[c].checkIn THEN 1 ELSE 0)
<1> USE DEF RaffleInv
<1> DEFINE w == claim[c].wager
           d == claim[c].deposit
           k == IF claim[c].checkIn THEN 1 ELSE 0
           m == counter + 1
           Ticket(i) == [p |-> p, number |-> m + i, source |-> Giveaway!SourceFor(c, i)]
<1>1. p \in Players /\ w \in Nat /\ d \in Nat /\ k \in {0, 1} /\ n = w + d + k /\ n \in Nat /\ counter \in Nat
  <2>1. claim[c] \in RaffleClaim /\ ClaimOK(claim[c])
    BY DEF RaffleTypes
  <2> QED BY <2>1 DEF RaffleClaim, ClaimOK, Giveaway!Issued, RaffleTypes
<1>2. tickets' = tickets \cup {Ticket(i) : i \in 0..(n - 1)}
  BY DEF Giveaway!FirstNumber
<1>3. \A i \in 0..(n - 1) :
        /\ Ticket(i).p = p /\ Ticket(i).number = m + i /\ Ticket(i).source = Giveaway!SourceFor(c, i)
        /\ Ticket(i) \in [p : Players, number : Nat, source : Giveaway!Sources] /\ Ticket(i).number > counter
  BY <1>1 DEF Giveaway!SourceFor, Giveaway!Sources
<1>4. \A t \in tickets : t.number \in 1..counter
  BY DEF NumberedApart
<1>5. NumberedApart'
  <2>1. {t.number : t \in tickets'} = 1..(counter + n)
    <3>1. \A t \in tickets' : t.number \in 1..(counter + n)
      BY <1>1, <1>2, <1>3, <1>4
    <3>2. ASSUME NEW x \in 1..(counter + n) PROVE \E t \in tickets' : t.number = x
      <4>1. CASE x <= counter
        <5>1. x \in 1..counter
          BY <1>1, <4>1
        <5>2. x \in {t.number : t \in tickets}
          <6> HIDE DEF w, d, k, m, Ticket
          <6> QED BY <5>1 DEF NumberedApart
        <5> QED BY <1>2, <5>2
      <4>2. CASE x > counter
        <5>1. x - m \in 0..(n - 1) /\ m + (x - m) = x
          BY <1>1, <4>2
        <5>2. Ticket(x - m).number = x /\ Ticket(x - m) \in tickets'
          <6> HIDE DEF m
          <6>1. Ticket(x - m).number = m + (x - m)
            OBVIOUS
          <6> QED BY <1>2, <5>1, <6>1
        <5> QED BY <5>2
      <4> QED BY <1>1, <4>1, <4>2
    <3> QED BY <3>1, <3>2
  <2>2. ASSUME NEW t \in tickets', NEW u \in tickets', t.number = u.number PROVE t = u
    <3>1. CASE t \in tickets /\ u \in tickets
      BY <2>2, <3>1 DEF NumberedApart
    <3>2. CASE t \notin tickets /\ u \notin tickets
      <4>1. PICK i \in 0..(n - 1), j \in 0..(n - 1) : t = Ticket(i) /\ u = Ticket(j)
        BY <1>2, <3>2
      <4>2. i = j
        <5>1. m + i = m + j
          BY <1>3, <2>2, <4>1
        <5> QED BY <1>1, <5>1
      <4> QED BY <4>1, <4>2
    <3>3. CASE t \in tickets /\ u \notin tickets
      BY <1>1, <1>2, <1>3, <1>4, <2>2, <3>3
    <3>4. CASE t \notin tickets /\ u \in tickets
      BY <1>1, <1>2, <1>3, <1>4, <2>2, <3>4
    <3> QED BY <3>1, <3>2, <3>3, <3>4
  <2> QED BY <2>1, <2>2 DEF NumberedApart
<1>6. tickets' \subseteq [p : Players, number : Nat, source : Giveaway!Sources]
  BY <1>2, <1>3 DEF RaffleTypes
<1>7. ASSUME NEW q \in Players, NEW s, q # p PROVE Giveaway!From(q, s)' = Giveaway!From(q, s)
  <2>1. {t \in tickets' : t.p = q /\ t.source = s} = {t \in tickets : t.p = q /\ t.source = s}
    BY <1>2, <1>3, <1>7
  <2> QED BY <2>1 DEF Giveaway!From
<1>8. ASSUME NEW s, NEW a \in Nat, NEW b \in Nat, a <= b, b <= n,
             \A i \in 0..(n - 1) : Giveaway!SourceFor(c, i) = s <=> i \in a..(b - 1)
      PROVE  Giveaway!From(p, s)' = Giveaway!From(p, s) + (b - a)
  <2> DEFINE N == {[p |-> p, number |-> m + i, source |-> s] : i \in a..(b - 1)}
             O == {t \in tickets : t.p = p /\ t.source = s}
  <2>1. {t \in tickets' : t.p = p /\ t.source = s} = O \cup N
    <3>1. ASSUME NEW t \in tickets', t.p = p, t.source = s, t \notin tickets PROVE t \in N
      <4>1. PICK i \in 0..(n - 1) : t = Ticket(i)
        BY <1>2, <3>1
      <4>2. i \in a..(b - 1) /\ t = [p |-> p, number |-> m + i, source |-> s]
        BY <1>3, <1>8, <3>1, <4>1
      <4> QED BY <4>2
    <3>2. ASSUME NEW t \in N PROVE t \in tickets' /\ t.p = p /\ t.source = s
      <4>1. PICK i \in a..(b - 1) : t = [p |-> p, number |-> m + i, source |-> s]
        OBVIOUS
      <4>2. i \in 0..(n - 1) /\ Giveaway!SourceFor(c, i) = s
        BY <1>1, <1>8
      <4>3. t = Ticket(i)
        BY <4>1, <4>2
      <4> HIDE DEF Ticket
      <4> QED BY <1>2, <4>1, <4>2, <4>3
    <3> HIDE DEF N
    <3>3. O \subseteq tickets'
      BY <1>2
    <3> QED BY <3>1, <3>2, <3>3
  <2>2. IsFiniteSet(N) /\ Giveaway!Cardinality(N) = b - a
    <3> DEFINE f == [i \in a..(b - 1) |-> [p |-> p, number |-> m + i, source |-> s]]
    <3>1. f \in Bijection(a..(b - 1), N)
      <4>1. \A i, j \in a..(b - 1) : f[i] = f[j] => i = j
        <5> SUFFICES ASSUME NEW i \in a..(b - 1), NEW j \in a..(b - 1), f[i] = f[j] PROVE i = j
          OBVIOUS
        <5>1. f[i].number = m + i /\ f[j].number = m + j
          OBVIOUS
        <5> QED BY <1>1, <5>1
      <4>2. f \in [a..(b - 1) -> N] /\ \A t \in N : \E i \in a..(b - 1) : f[i] = t
        OBVIOUS
      <4> HIDE DEF f, N
      <4> QED BY <4>1, <4>2 DEF Bijection, Injection, Surjection, IsInjective
    <3>2. IsFiniteSet(a..(b - 1)) /\ Giveaway!Cardinality(a..(b - 1)) = b - a
      <4> DEFINE z == b - 1
      <4>1. a \in Int /\ z \in Int /\ (IF a > z THEN 0 ELSE z - a + 1) = b - a
        BY <1>8
      <4> HIDE DEF z, f, N
      <4>2. IsFiniteSet(a..z) /\ Giveaway!Cardinality(a..z) = IF a > z THEN 0 ELSE z - a + 1
        BY <4>1, RaffleCount, FS_Interval
      <4> QED BY <4>1, <4>2 DEF z
    <3> HIDE DEF f, N
    <3> QED BY <3>1, <3>2, RaffleCount, FS_Bijection DEF ExistsBijection
  <2>3. O \cap N = {}
    BY <1>1, <1>4, <1>8
  <2>4. IsFiniteSet(O) /\ Giveaway!Cardinality(O) = Giveaway!From(p, s) /\ Giveaway!From(p, s) \in Nat
    <3>1. IsFiniteSet(tickets) /\ Giveaway!From(p, s) \in Nat
      BY <1>1, TicketCount
    <3> QED BY <3>1, RaffleCount, FS_Subset DEF Giveaway!From
  <2> HIDE DEF N, O
  <2>5. Giveaway!Cardinality(O \cup N) = Giveaway!From(p, s) + (b - a)
    <3>1. Giveaway!Cardinality(O \cup N) = Giveaway!Cardinality(O) + Giveaway!Cardinality(N) - Giveaway!Cardinality(O \cap N)
      BY <2>2, <2>4, RaffleCount, FS_Union
    <3>2. Giveaway!Cardinality(O \cap N) = 0
      BY <2>3, RaffleCount, FS_EmptySet
    <3> QED BY <1>8, <2>2, <2>4, <3>1, <3>2
  <2>6. Giveaway!From(p, s)' = Giveaway!Cardinality({t \in tickets' : t.p = p /\ t.source = s})
    BY <1>8 DEF Giveaway!From
  <2> QED BY <2>1, <2>5, <2>6
<1> HIDE DEF w, d, k, m
<1>9. Giveaway!From(p, "WAGER")' = Giveaway!From(p, "WAGER") + w
  <2>1. \A i \in 0..(n - 1) : Giveaway!SourceFor(c, i) = "WAGER" <=> i \in 0..(w - 1)
    BY <1>1 DEF Giveaway!SourceFor, w, d
  <2>2. Giveaway!From(p, "WAGER")' = Giveaway!From(p, "WAGER") + (w - 0)
    <3>1. 0 \in Nat /\ w \in Nat /\ 0 <= w /\ w <= n
      BY <1>1
    <3> QED BY <1>8, <2>1, <3>1
  <2> QED BY <1>1, <2>2
<1>10. Giveaway!From(p, "DEPOSIT")' = Giveaway!From(p, "DEPOSIT") + d
  <2>1. \A i \in 0..(n - 1) : Giveaway!SourceFor(c, i) = "DEPOSIT" <=> i \in w..((w + d) - 1)
    BY <1>1 DEF Giveaway!SourceFor, w, d
  <2>2. Giveaway!From(p, "DEPOSIT")' = Giveaway!From(p, "DEPOSIT") + ((w + d) - w)
    <3>1. w + d \in Nat /\ w <= w + d /\ w + d <= n
      BY <1>1
    <3> QED BY <1>1, <1>8, <2>1, <3>1
  <2> QED BY <1>1, <2>2
<1>11. Giveaway!From(p, "DAILY_LOGIN")' = Giveaway!From(p, "DAILY_LOGIN") + k
  <2>1. \A i \in 0..(n - 1) : Giveaway!SourceFor(c, i) = "DAILY_LOGIN" <=> i \in (w + d)..(n - 1)
    BY <1>1 DEF Giveaway!SourceFor, w, d
  <2>2. Giveaway!From(p, "DAILY_LOGIN")' = Giveaway!From(p, "DAILY_LOGIN") + (n - (w + d))
    <3>1. w + d \in Nat /\ w + d <= n /\ n <= n
      BY <1>1
    <3> QED BY <1>1, <1>8, <2>1, <3>1
  <2> QED BY <1>1, <2>2
<1> QED BY <1>1, <1>5, <1>6, <1>7, <1>9, <1>10, <1>11 DEF w, d, k

\* A claim writes only where the entry is as it read it, and ends.
LEMMA CommitStep ==
  ASSUME Giveaway!RaffleAssumption, RaffleInv, NEW c \in Calls, Giveaway!Commit(c)
  PROVE  RaffleInv'
<1> USE DEF RaffleInv
<1>1. PICK d \in RaffleClaim : d = claim[c] /\ ClaimOK(d) /\ d.pc = "owed"
  BY DEF Giveaway!Commit, RaffleTypes
<1>2. PICK p \in Players : p = d.p
  BY <1>1 DEF ClaimOK
<1>3. /\ UNCHANGED <<cast, day, wagered, settled, funded, lastVisit, visits>>
      /\ claim' = [claim EXCEPT ![c] = Giveaway!NoClaim]
  BY DEF Giveaway!Commit, Giveaway!records
<1>4. claim' \in [Calls -> RaffleClaim] /\ \A x \in Calls : ClaimOK(claim[x])'
  <2>1. Giveaway!NoClaim \in RaffleClaim /\ ClaimOK(Giveaway!NoClaim)
    BY DEF RaffleClaim, Entries, Giveaway!NoClaim, Giveaway!NoEntry, Giveaway!Never, ClaimOK
  <2>2. \A x \in Calls : ClaimOK(claim'[x])
    BY <1>3, <2>1 DEF RaffleTypes
  <2>3. \A x \in Calls : ClaimOK(claim[x])'
    BY <1>3, <2>2 DEF ClaimOK
  <2> QED BY <1>3, <2>1, <2>3 DEF RaffleTypes
<1>5. RecordsOK'
  BY <1>3 DEF RecordsOK
<1>6. CASE UNCHANGED <<entry, counter, tickets>>
  <2>1. RaffleTypes' /\ NumberedApart'
    BY <1>3, <1>4, <1>6 DEF RaffleTypes, NumberedApart
  <2>2. \A q \in Players : EntryOK(q)'
    BY <1>3, <1>6 DEF EntryOK, Giveaway!From, Before
  <2> QED BY <1>4, <1>5, <2>1, <2>2
<1>7. CASE Giveaway!Matches(c, entry[p])
  <2> DEFINE n == Giveaway!Issued(c)
  <2>1. /\ entry' = [entry EXCEPT ![p] = Giveaway!Moved(c, entry[p])] /\ counter' = counter + n
        /\ tickets' = tickets \cup
             {[p |-> p, number |-> Giveaway!FirstNumber(c) + i, source |-> Giveaway!SourceFor(c, i)] : i \in 0..(n - 1)}
    BY <1>1, <1>2, <1>7 DEF Giveaway!Commit, RaffleTypes
  <2>2. /\ n \in Nat /\ NumberedApart' /\ tickets' \subseteq [p : Players, number : Nat, source : Giveaway!Sources]
        /\ \A q \in Players : \A s : q # p => Giveaway!From(q, s)' = Giveaway!From(q, s)
        /\ Giveaway!From(p, "WAGER")' = Giveaway!From(p, "WAGER") + d.wager
        /\ Giveaway!From(p, "DEPOSIT")' = Giveaway!From(p, "DEPOSIT") + d.deposit
        /\ Giveaway!From(p, "DAILY_LOGIN")' = Giveaway!From(p, "DAILY_LOGIN") + (IF d.checkIn THEN 1 ELSE 0)
    <3> HIDE DEF n, RaffleInv
    <3>1. n = Giveaway!Issued(c) /\ claim[c].pc = "owed" /\ p = claim[c].p
      BY <1>1, <1>2 DEF n
    <3> QED BY <1>1, <2>1, <3>1, IssueTickets
  <2>3. PICK e \in Entries : e = entry[p] /\ EntryOK(p)
    BY <1>2 DEF RaffleTypes
  <2>4. PICK m : m = Giveaway!Moved(c, entry[p])
    OBVIOUS
  <2>5. /\ m.wager = (IF d.wager > 0 THEN d.entry.wager + PerTicket * d.wager ELSE e.wager)
        /\ m.deposits = (IF d.deposit > 0 THEN d.entry.deposits + d.uncredited ELSE e.deposits)
        /\ m.ticketDay = (IF d.checkIn THEN day ELSE e.ticketDay)
        /\ d.wager > 0 => e.wager = d.entry.wager
        /\ d.deposit > 0 => e.deposits = d.entry.deposits
        /\ d.checkIn => e.ticketDay = Giveaway!Never \/ e.ticketDay < d.today
    BY <1>1, <1>7, <2>3, <2>4 DEF Giveaway!Moved, Giveaway!Matches
  <2>6. /\ d.wager \in Nat /\ d.deposit \in Nat /\ d.uncredited \in Nat /\ d.today \in Nat /\ d.checkIn \in BOOLEAN
        /\ e.wager \in Nat /\ e.deposits \in Nat /\ e.ticketDay \in Int /\ day \in Nat
        /\ PerTicket \in Nat \ {0} /\ PerDeposit \in Nat \ {0}
        /\ \A s : Giveaway!From(p, s) \in Nat
        /\ wagered[p] \in Nat /\ funded[p] \in Nat /\ visits[p] \subseteq 0..day
    <3>1. \A s : Giveaway!From(p, s) \in Nat
      BY TicketCount DEF RaffleTypes
    <3> QED BY <2>3, <3>1 DEF RaffleClaim, Entries, Giveaway!RaffleAssumption, RaffleTypes
  <2>7. /\ m.wager = PerTicket * Giveaway!From(p, "WAGER")' /\ m.wager <= wagered[p] /\ m.wager \in Nat
    <3>1. e.wager = PerTicket * Giveaway!From(p, "WAGER") /\ e.wager <= wagered[p]
      BY <2>3 DEF EntryOK
    <3>2. d.wager > 0 => d.entry.wager + PerTicket * d.wager <= wagered[p]
      BY <1>1, <1>2 DEF ClaimOK
    <3>3. PerTicket * (Giveaway!From(p, "WAGER") + d.wager) = PerTicket * Giveaway!From(p, "WAGER") + PerTicket * d.wager
          /\ PerTicket * d.wager \in Nat
      BY <2>6
    <3> QED BY <2>2, <2>5, <2>6, <3>1, <3>2, <3>3
  <2>8. Giveaway!From(p, "DEPOSIT")' <= m.deposits * PerDeposit /\ m.deposits <= funded[p] /\ m.deposits \in Nat
    <3>1. Giveaway!From(p, "DEPOSIT") <= e.deposits * PerDeposit /\ e.deposits <= funded[p]
      BY <2>3 DEF EntryOK
    <3>2. d.deposit > 0 => d.entry.deposits + d.uncredited <= funded[p] /\ d.deposit <= d.uncredited * PerDeposit
      BY <1>1, <1>2 DEF ClaimOK
    <3>3. (e.deposits + d.uncredited) * PerDeposit = e.deposits * PerDeposit + d.uncredited * PerDeposit
          /\ e.deposits * PerDeposit \in Nat /\ d.uncredited * PerDeposit \in Nat
      BY <2>6
    <3> QED BY <2>2, <2>5, <2>6, <3>1, <3>2, <3>3
  <2>9. /\ Giveaway!From(p, "DAILY_LOGIN")' <= Giveaway!Cardinality({x \in visits[p] : x <= m.ticketDay})
        /\ m.ticketDay <= day /\ m.ticketDay \in Int
    <3> DEFINE Old == {x \in visits[p] : x <= e.ticketDay}
               New == {x \in visits[p] : x <= m.ticketDay}
    <3>1. Giveaway!From(p, "DAILY_LOGIN") <= Giveaway!Cardinality(Old) /\ e.ticketDay <= day
      BY <2>3 DEF EntryOK, Before
    <3>2. d.checkIn => d.today \in visits[p] /\ d.today <= day
      BY <1>1, <1>2 DEF ClaimOK
    <3>3. /\ IsFiniteSet(Old) /\ IsFiniteSet(New) /\ Giveaway!Cardinality(Old) \in Nat /\ Giveaway!Cardinality(New) \in Nat
      <4>1. Old \subseteq 0..day /\ New \subseteq 0..day /\ Old \in SUBSET Nat /\ New \in SUBSET Nat
        BY <2>6
      <4> HIDE DEF Old, New
      <4> QED BY <2>6, <4>1, VisitsGrow
    <3>4. CASE d.checkIn
      <4>1. d.today \notin Old /\ Old \cup {d.today} \subseteq New
        BY <2>5, <2>6, <3>1, <3>2, <3>4 DEF Giveaway!Never
      <4> HIDE DEF Old, New
      <4>2. Giveaway!Cardinality(Old \cup {d.today}) = Giveaway!Cardinality(Old) + 1
        BY <3>3, <4>1, RaffleCount, FS_AddElement
      <4>3. Giveaway!Cardinality(Old \cup {d.today}) <= Giveaway!Cardinality(New)
        BY <3>3, <4>1, RaffleCount, FS_Subset
      <4> QED BY <2>2, <2>5, <2>6, <3>1, <3>3, <3>4, <4>2, <4>3 DEF New
    <3>5. CASE ~d.checkIn
      <4>1. New = Old
        BY <2>5, <3>5
      <4> QED BY <2>2, <2>5, <2>6, <3>1, <3>3, <3>5, <4>1
    <3> QED BY <2>6, <3>4, <3>5
  <2>10. m \in Entries
    <3>1. m = [wager |-> m.wager, deposits |-> m.deposits, ticketDay |-> m.ticketDay]
      BY <2>4 DEF Giveaway!Moved
    <3> QED BY <2>7, <2>8, <2>9, <3>1 DEF Entries
  <2>11. entry' \in [Players -> Entries] /\ entry'[p] = m /\ \A q \in Players : q # p => entry'[q] = entry[q]
    BY <2>1, <2>4, <2>10 DEF RaffleTypes
  <2>12. RaffleTypes'
    BY <1>3, <1>4, <2>1, <2>2, <2>11 DEF RaffleTypes
  <2>13. ASSUME NEW q \in Players PROVE EntryOK(q)'
    <3>1. CASE q = p
      BY <1>3, <2>7, <2>8, <2>9, <2>11, <3>1 DEF EntryOK, Before
    <3>2. CASE q # p
      <4>1. entry'[q] = entry[q] /\ Giveaway!From(q, "WAGER")' = Giveaway!From(q, "WAGER") /\ Giveaway!From(q, "DEPOSIT")' = Giveaway!From(q, "DEPOSIT")
            /\ Giveaway!From(q, "DAILY_LOGIN")' = Giveaway!From(q, "DAILY_LOGIN") /\ EntryOK(q)
        BY <2>2, <2>11, <3>2
      <4> QED BY <1>3, <4>1 DEF EntryOK, Before
    <3> QED BY <3>1, <3>2
  <2> QED BY <1>4, <1>5, <2>2, <2>12, <2>13
<1> QED BY <1>1, <1>2, <1>6, <1>7 DEF Giveaway!Commit

LEMMA RaffleStep == ASSUME Giveaway!RaffleAssumption, RaffleInv, Giveaway!Next PROVE RaffleInv'
BY RecordsStep, ReadingStep, CommitStep DEF Giveaway!Next

\* The invariant says what the claims promise.
LEMMA RaffleHolds == ASSUME Giveaway!RaffleAssumption, RaffleInv PROVE Giveaway!NumbersAreDisjoint /\ Giveaway!TicketsAreEarned
<1>1. Giveaway!NumbersAreDisjoint
  BY TicketCount DEF Giveaway!NumbersAreDisjoint, RaffleInv, RaffleTypes, NumberedApart
<1>2. ASSUME NEW p \in Players
      PROVE  /\ Giveaway!From(p, "WAGER") + Giveaway!View(p).wager = wagered[p] \div PerTicket
             /\ Giveaway!From(p, "DEPOSIT") <= entry[p].deposits * PerDeposit
             /\ entry[p].deposits <= funded[p]
             /\ Giveaway!From(p, "DAILY_LOGIN") + (IF Giveaway!View(p).checkIn THEN 1 ELSE 0) <= Giveaway!Cardinality(visits[p])
  <2>1. PICK e \in Entries : e = entry[p] /\ EntryOK(p)
    BY DEF RaffleInv, RaffleTypes
  <2>2. /\ e.wager \in Nat /\ wagered[p] \in Nat /\ PerTicket \in Nat \ {0} /\ day \in Nat
        /\ \A s : Giveaway!From(p, s) \in Nat
        /\ visits[p] \subseteq 0..day /\ e.ticketDay \in Int
    <3>1. \A s : Giveaway!From(p, s) \in Nat
      BY TicketCount DEF RaffleInv, RaffleTypes
    <3> QED BY <3>1 DEF RaffleInv, RaffleTypes, Entries, Giveaway!RaffleAssumption
  <2>3. Giveaway!From(p, "WAGER") + Giveaway!View(p).wager = wagered[p] \div PerTicket
    <3> DEFINE f == Giveaway!From(p, "WAGER")
               w == wagered[p]
               b == e.wager
    <3>1. f \in Nat /\ w \in Nat /\ b \in Nat /\ b = PerTicket * f /\ b <= w
      BY <2>1, <2>2 DEF EntryOK
    <3>2. Giveaway!View(p).wager = IF w <= b THEN 0 ELSE (w - b) \div PerTicket
      BY <2>1 DEF Giveaway!View, Giveaway!WagerOwed
    <3>3. f + ((w - b) \div PerTicket) = w \div PerTicket
      <4> HIDE DEF f, w, b
      <4> QED BY <2>2, <3>1, WholeTickets
    <3>4. w <= b => (w - b) \div PerTicket = 0
      <4> HIDE DEF f, w, b
      <4>1. w <= b => w - b = 0
        BY <3>1
      <4>2. 0 \div PerTicket = 0
        BY <2>2
      <4> QED BY <4>1, <4>2
    <3> QED BY <3>2, <3>3, <3>4
  <2>4. Giveaway!From(p, "DAILY_LOGIN") + (IF Giveaway!View(p).checkIn THEN 1 ELSE 0) <= Giveaway!Cardinality(visits[p])
    <3> DEFINE V == visits[p]
               B == Before(p)
    <3>1. B \subseteq V /\ V \subseteq 0..day /\ V \in SUBSET Nat
      BY <2>2 DEF Before
    <3>2. IsFiniteSet(V) /\ IsFiniteSet(B) /\ Giveaway!Cardinality(V) \in Nat /\ Giveaway!Cardinality(B) \in Nat /\ Giveaway!Cardinality(B) <= Giveaway!Cardinality(V)
      <4> HIDE DEF V, B
      <4> QED BY <2>2, <3>1, VisitsGrow
    <3>3. Giveaway!From(p, "DAILY_LOGIN") <= Giveaway!Cardinality(B)
      BY <2>1 DEF EntryOK
    <3>4. ASSUME Giveaway!View(p).checkIn PROVE Giveaway!Cardinality(B) + 1 <= Giveaway!Cardinality(V)
      <4>1. day \in V /\ day \notin B
        <5>1. lastVisit[p] = day /\ (e.ticketDay = Giveaway!Never \/ e.ticketDay < day)
          BY <2>1, <3>4 DEF Giveaway!View, Giveaway!CheckInOwed
        <5> QED BY <2>1, <2>2, <5>1 DEF RaffleInv, RecordsOK, Giveaway!Never, Before
      <4> HIDE DEF V, B
      <4>2. Giveaway!Cardinality(B \cup {day}) = Giveaway!Cardinality(B) + 1
        BY <3>2, <4>1, RaffleCount, FS_AddElement
      <4>3. B \cup {day} \subseteq V
        BY <3>1, <4>1
      <4> QED BY <3>2, <4>2, <4>3, RaffleCount, FS_Subset
    <3> HIDE DEF V, B
    <3> QED BY <2>2, <3>2, <3>3, <3>4 DEF V
  <2> QED BY <2>1, <2>3, <2>4 DEF EntryOK
<1> QED BY <1>1, <1>2 DEF Giveaway!TicketsAreEarned

-----------------------------------------------------------------------------
(* The pages that sign a player in *)

PageViews == {"none", "form", "signin", "code", "forgot", "reset", "done", "overview", "password"}
PageForm ==
  [view : PageViews, typed : Int, challenge : {"none", "enter", "reset"}, cooldown : Nat,
   busy : BOOLEAN, open : BOOLEAN]
PageCall ==
  [step : {"none", "asked", "answered"}, kind : {"none", "start", "resend", "confirm", "reset"},
   view : PageViews, token : Nat, code : Int,
   answer : {"none", "refused", "session", "cooling", "challenge", "reset", "unreached"}]
MailedCode == [number : Nat, purpose : {"none", "enter", "reset"}, live : BOOLEAN, sent : Int]

PageTypes ==
  /\ form \in PageForm /\ posted \in PageCall /\ code \in MailedCode
  /\ solved \in Nat /\ widget \in 0..solved /\ spent \subseteq 1..solved /\ posted.token <= solved
  /\ beat \in Nat /\ code.sent <= beat /\ lost \in BOOLEAN

\* An answer is one its request can have.
AnswerOK ==
  /\ posted.step # "answered" => posted.answer = "none"
  /\ posted.answer \in {"challenge", "cooling"} => posted.kind \in {"start", "resend"}
  /\ posted.answer = "reset" => posted.kind = "reset"
  /\ posted.kind \in {"confirm", "reset"} => posted.token = 0
  /\ posted.step # "none" => posted.kind # "none"

\* A token that was sent to Cloudflare is in the page only until its answer has arrived.
TokenOK ==
  /\ widget \in spent =>
       posted.step = "answered" /\ posted.kind \in {"start", "resend"}
  /\ posted.step = "asked" => posted.token \notin spent
  /\ page = "modal" => widget = 0
  /\ Entrance!NeverReplayed

\* A countdown ends no earlier than the server's, and a resend was sent when it had.
CountdownOK ==
  /\ page # "modal" /\ form.challenge # "none" /\ ~lost /\ posted.answer # "challenge" =>
       form.cooldown + (beat - code.sent) >= Cooldown
  /\ posted.step = "asked" /\ posted.kind = "resend" /\ ~lost => beat - code.sent >= Cooldown
  /\ Entrance!ResendIsWelcome

\* The account's dialog takes its code beside the new password.
ViewOK ==
  /\ page = "account" => form.view \notin {"code", "reset", "forgot"} /\ posted.view # "forgot"
  /\ Entrance!CodeHasItsChallenge

SignInInv == PageTypes /\ AnswerOK /\ TokenOK /\ CountdownOK /\ ViewOK

LEMMA NothingShown ==
  ASSUME NEW open \in BOOLEAN
  PROVE  /\ Entrance!Blank(Entrance!FirstView, open) \in PageForm /\ Entrance!Blank(Entrance!FirstView, open).challenge = "none"
         /\ Entrance!Blank(Entrance!FirstView, open).view \notin {"code", "reset", "forgot"}
<1>1. Entrance!FirstView \in {"signin", "overview", "form"}
  <2>1. CASE page = "modal"
    BY <2>1 DEF Entrance!FirstView
  <2>2. CASE page = "account"
    BY <2>2 DEF Entrance!FirstView
  <2>3. CASE page \notin {"modal", "account"}
    BY <2>3 DEF Entrance!FirstView
  <2> QED BY <2>1, <2>2, <2>3
<1>2. PICK v : v = Entrance!FirstView
  OBVIOUS
<1>3. Entrance!Blank(v, open) \in PageForm /\ Entrance!Blank(v, open).challenge = "none" /\ Entrance!Blank(v, open).view = v
  BY <1>1, <1>2 DEF Entrance!Blank, PageForm, PageViews, Entrance!Nothing
<1> QED BY <1>1, <1>2, <1>3

LEMMA NoCallYet == /\ Entrance!NoCall \in PageCall /\ Entrance!NoCall.step = "none" /\ Entrance!NoCall.answer = "none" /\ Entrance!NoCall.kind = "none"
                   /\ Entrance!NoCall.token = 0 /\ Entrance!NoCall.view = "none"
BY DEF Entrance!NoCall, PageCall, PageViews, Entrance!NoProof, Entrance!Nothing

LEMMA SignInInit == ASSUME Entrance!SignInAssumption, Entrance!Init PROVE SignInInv
<1>1. form \in PageForm /\ form.challenge = "none" /\ form.view \notin {"code", "reset", "forgot"}
  BY NothingShown DEF Entrance!Init, Entrance!Dialog
<1>2. posted \in PageCall /\ posted.step = "none" /\ posted.answer = "none" /\ posted.kind = "none" /\ posted.token = 0
      /\ posted.view = "none"
  BY NoCallYet DEF Entrance!Init
<1>3. PageTypes
  <2>1. /\ code = [number |-> 0, purpose |-> "none", live |-> FALSE, sent |-> 0 - Cooldown] /\ Cooldown \in Nat
        /\ widget = 0 /\ solved = 0 /\ spent = {} /\ beat = 0 /\ lost = FALSE
    BY DEF Entrance!Init, Entrance!NoProof, Entrance!SignInAssumption
  <2>2. code \in MailedCode /\ code.sent = 0 - Cooldown
    BY <2>1 DEF MailedCode
  <2>3. widget \in 0..solved /\ spent \subseteq 1..solved /\ solved \in Nat /\ beat \in Nat /\ lost \in BOOLEAN
    <3>1. widget \in 0..solved /\ solved \in Nat /\ beat \in Nat
      BY <2>1
    <3>2. spent \subseteq 1..solved
      BY <2>1
    <3>3. lost \in BOOLEAN
      BY <2>1
    <3> QED BY <3>1, <3>2, <3>3
  <2>4. posted.token <= solved /\ code.sent <= beat
    BY <1>2, <2>1, <2>2
  <2> QED BY <1>1, <1>2, <2>2, <2>3, <2>4 DEF PageTypes
<1>4. AnswerOK /\ TokenOK
  BY <1>2 DEF Entrance!Init, AnswerOK, TokenOK, Entrance!NoProof, Entrance!NeverReplayed
<1>5. CountdownOK /\ ViewOK
  BY <1>1, <1>2 DEF CountdownOK, ViewOK, Entrance!ResendIsWelcome, Entrance!CodeHasItsChallenge
<1> QED BY <1>3, <1>4, <1>5 DEF SignInInv

\* A request is sent: with what the widget holds, or with no token.
LEMMA SendStep ==
  ASSUME Entrance!SignInAssumption, SignInInv, NEW kind \in {"start", "resend", "confirm", "reset"}, NEW solution \in {widget, 0},
         NEW entered \in Int, Entrance!Send(kind, solution, entered), posted = Entrance!NoCall,
         form' \in PageForm, form'.challenge = form.challenge, form'.view = form.view, form'.cooldown = form.cooldown,
         UNCHANGED <<page, widget, solved, spent, replayed, beat, code, lost>>,
         kind \in {"confirm", "reset"} => solution = 0,
         kind = "resend" => page # "modal" /\ form.challenge # "none" /\ form.cooldown = 0
  PROVE  SignInInv'
<1> USE DEF SignInInv
<1>1. /\ posted' = [step |-> "asked", kind |-> kind, view |-> form.view, token |-> solution, code |-> entered, answer |-> "none"]
      /\ posted.step = "none" /\ posted.answer = "none"
  BY DEF Entrance!Send, Entrance!NoCall
<1>2. PageTypes'
  BY <1>1 DEF PageTypes, PageForm, PageCall
<1>3. AnswerOK'
  BY <1>1 DEF AnswerOK
<1>4. TokenOK'
  BY <1>1 DEF TokenOK, Entrance!NeverReplayed, PageTypes
<1>5. CountdownOK'
  BY <1>1 DEF CountdownOK, Entrance!ResendIsWelcome, PageTypes, PageForm, MailedCode
<1>6. ViewOK'
  BY <1>1 DEF ViewOK, Entrance!CodeHasItsChallenge
<1> QED BY <1>2, <1>3, <1>4, <1>5, <1>6

\* The form alone changes, or is shown anew.
LEMMA FormStep ==
  ASSUME SignInInv, UNCHANGED <<posted, beat, code, lost, spent, replayed>>,
         solved' \in Nat, solved' >= solved, widget' \in 0..solved', widget' \in {widget, 0} \/ widget' > solved,
         page' = "modal" => page = "modal" /\ widget' = widget,
         form' \in PageForm, ViewOK',
         \/ page' = page /\ form'.challenge = form.challenge /\ form'.cooldown = form.cooldown
         \/ form'.challenge = "none" \/ page' = "modal"
  PROVE  SignInInv'
<1> USE DEF SignInInv
<1>1. PageTypes'
  BY DEF PageTypes, PageForm, PageCall
<1>2. AnswerOK'
  BY DEF AnswerOK
<1>3. TokenOK'
  <2>1. widget' \notin spent \/ widget' = widget
    BY DEF PageTypes
  <2> QED BY <2>1 DEF TokenOK, Entrance!NeverReplayed
<1>4. CountdownOK'
  BY DEF CountdownOK, Entrance!ResendIsWelcome
<1> QED BY <1>1, <1>2, <1>3, <1>4

\* The server answers, and asks Cloudflare about the token or does not.
LEMMA AnswerStep ==
  ASSUME Entrance!SignInAssumption, SignInInv, NEW answer \in {"refused", "session", "cooling", "challenge", "reset"},
         posted.step = "asked", Entrance!Answer(answer),
         UNCHANGED <<page, form, widget, solved, beat, lost>>,
         spent' = spent \/ (spent' = spent \cup {posted.token} /\ posted.token # 0),
         replayed' => replayed \/ posted.token \in spent,
         answer \in {"challenge", "cooling"} => posted.kind \in {"start", "resend"},
         answer = "reset" => posted.kind = "reset",
         answer = "cooling" => beat - code.sent < Cooldown,
         code' \in MailedCode, code'.sent = code.sent \/ (code'.sent = beat /\ answer = "challenge")
  PROVE  SignInInv'
<1> USE DEF SignInInv
<1>1. posted' = [posted EXCEPT !.step = "answered", !.answer = answer]
  BY DEF Entrance!Answer
<1>2. /\ posted' \in PageCall /\ posted'.step = "answered" /\ posted'.answer = answer /\ posted'.kind = posted.kind
      /\ posted'.token = posted.token /\ posted'.view = posted.view
  BY <1>1 DEF PageTypes, PageCall
<1>3. PageTypes'
  <2>1. spent' \subseteq 1..solved
    <3>1. posted.token \in 0..solved
      BY DEF PageTypes, PageCall
    <3>2. posted.token # 0 => posted.token \in 1..solved
      BY <3>1 DEF PageTypes
    <3>3. spent \subseteq 1..solved
      BY DEF PageTypes
    <3> QED BY <3>2, <3>3
  <2>2. code'.sent <= beat'
    BY DEF PageTypes, MailedCode
  <2> QED BY <1>2, <2>1, <2>2 DEF PageTypes
<1>4. AnswerOK'
  BY <1>2 DEF AnswerOK
<1>5. TokenOK'
  <2>1. posted.kind \in {"start", "resend"} \/ posted.token = 0
    BY DEF AnswerOK, PageTypes, PageCall
  <2>2. widget \notin spent /\ posted.token \notin spent
    BY DEF TokenOK
  <2>3. ~replayed'
    BY <2>2 DEF TokenOK, Entrance!NeverReplayed
  <2> QED BY <1>2, <2>1, <2>2, <2>3 DEF TokenOK, Entrance!NeverReplayed
<1>6. CountdownOK'
  <2>1. posted.answer # "challenge"
    BY DEF AnswerOK
  <2>2. beat \in Int /\ code.sent \in Int /\ Cooldown \in Int
    BY DEF PageTypes, MailedCode, Entrance!SignInAssumption
  <2>3. page' # "modal" /\ form'.challenge # "none" /\ ~lost' /\ posted'.answer # "challenge" =>
          form'.cooldown + (beat' - code'.sent) >= Cooldown
    BY <1>2, <2>1 DEF CountdownOK
  <2>4. Entrance!ResendIsWelcome'
    BY <1>2, <2>2 DEF CountdownOK, Entrance!ResendIsWelcome
  <2> QED BY <1>2, <2>3, <2>4 DEF CountdownOK
<1>7. ViewOK'
  BY <1>2 DEF ViewOK, Entrance!CodeHasItsChallenge
<1> QED BY <1>3, <1>4, <1>5, <1>6, <1>7

\* The page takes an answer in.
LEMMA TakeInStep ==
  ASSUME Entrance!SignInAssumption, SignInInv, posted.step = "answered", posted' = Entrance!NoCall,
         UNCHANGED <<page, solved, spent, replayed, beat, code, lost>>,
         widget' = 0 \/ (widget' = widget /\ (page = "modal" \/ posted.kind = "reset")),
         form' \in PageForm, ViewOK',
         \/ form'.challenge = form.challenge /\ form'.cooldown = form.cooldown /\ posted.answer # "challenge"
         \/ form'.challenge = "none" \/ page = "modal"
         \/ form'.cooldown = Cooldown
  PROVE  SignInInv'
<1> USE DEF SignInInv
<1>1. posted' \in PageCall /\ posted'.step = "none" /\ posted'.answer = "none" /\ posted'.kind = "none" /\ posted'.token = 0
  BY NoCallYet
<1>2. PageTypes'
  BY <1>1 DEF PageTypes
<1>3. AnswerOK'
  BY <1>1 DEF AnswerOK
<1>4. TokenOK'
  BY <1>1 DEF TokenOK, Entrance!NeverReplayed, PageTypes
<1>5. CountdownOK'
  BY <1>1 DEF CountdownOK, Entrance!ResendIsWelcome, PageTypes, PageForm, MailedCode, Entrance!SignInAssumption
<1> QED BY <1>2, <1>3, <1>4, <1>5

LEMMA SignInStep ==
  ASSUME Entrance!SignInAssumption, SignInInv, Entrance!Next
  PROVE  SignInInv'
<1> USE DEF SignInInv
<1>1. PageTypes
  OBVIOUS
\* What concerns the gate, the dialog's profile or the browser alone.
<1>2. CASE Entrance!ReadGate \/ Entrance!ReadProfile \/ Entrance!Visit \/ Entrance!ClearGate \/ Entrance!OpenDialog \/ Entrance!Dies
  <2>1. /\ UNCHANGED <<page, widget, spent, replayed, posted, beat, code, lost>>
        /\ solved' \in {solved, solved + 1}
        /\ form' = form \/ form' = [form EXCEPT !.open = TRUE]
    BY <1>2 DEF Entrance!ReadGate, Entrance!ReadProfile, Entrance!Visit, Entrance!ClearGate, Entrance!OpenDialog, Entrance!Dies, Entrance!fixed
  <2>2. form' \in PageForm /\ form'.view = form.view /\ form'.challenge = form.challenge /\ form'.cooldown = form.cooldown
    BY <1>1, <2>1 DEF PageTypes, PageForm
  <2>3. ViewOK'
    BY <2>1, <2>2 DEF ViewOK, Entrance!CodeHasItsChallenge
  <2>4. solved' \in Nat /\ solved' >= solved /\ widget' \in 0..solved'
    BY <1>1, <2>1 DEF PageTypes
  <2> QED BY <2>1, <2>2, <2>3, <2>4, FormStep
<1>3. CASE Entrance!Solve
  <2>1. /\ UNCHANGED <<page, form, spent, replayed, posted, beat, code, lost>> /\ page # "modal"
        /\ solved' = solved + 1 /\ widget' = solved + 1
    BY <1>3 DEF Entrance!Solve, Entrance!fixed
  <2>2. ViewOK'
    BY <2>1 DEF ViewOK, Entrance!CodeHasItsChallenge
  <2>3. solved' \in Nat /\ solved' >= solved /\ widget' \in 0..solved' /\ widget' > solved
    BY <1>1, <2>1 DEF PageTypes
  <2>4. form' \in PageForm
    BY <1>1, <2>1 DEF PageTypes
  <2> QED BY <2>1, <2>2, <2>3, <2>4, FormStep
<1>4. CASE Entrance!Expire
  <2>1. /\ UNCHANGED <<page, form, solved, spent, replayed, posted, beat, code, lost>> /\ widget # 0 /\ widget' = 0
    BY <1>4 DEF Entrance!Expire, Entrance!fixed, Entrance!NoProof
  <2>2. ViewOK'
    BY <2>1 DEF ViewOK, Entrance!CodeHasItsChallenge
  <2>3. form' \in PageForm /\ page # "modal"
    BY <1>1, <2>1 DEF PageTypes, TokenOK
  <2>4. solved' \in Nat /\ solved' >= solved /\ widget' \in 0..solved'
    BY <1>1, <2>1 DEF PageTypes
  <2> QED BY <2>1, <2>2, <2>3, <2>4, FormStep
<1>5. ASSUME NEW kind \in {"start", "resend"}, Entrance!Submit(kind) PROVE SignInInv'
  <2>1. /\ posted = Entrance!NoCall /\ Entrance!Send(kind, widget, 0) /\ form' = [form EXCEPT !.busy = TRUE]
        /\ UNCHANGED <<page, widget, solved, spent, replayed, beat, code, lost>>
    BY <1>5 DEF Entrance!Submit, Entrance!fixed, Entrance!Nothing
  <2>2. /\ form' \in PageForm /\ form'.challenge = form.challenge /\ form'.view = form.view
        /\ form'.cooldown = form.cooldown
    BY <1>1, <2>1 DEF PageTypes, PageForm
  <2>3. kind = "resend" => page # "modal" /\ form.challenge # "none" /\ form.cooldown = 0
    <3> SUFFICES ASSUME kind = "resend" PROVE page # "modal" /\ form.challenge # "none" /\ form.cooldown = 0
      OBVIOUS
    <3>1. \/ Entrance!AccountSends /\ form.challenge # "none"
          \/ ~Entrance!Dialog /\ form.view = "code" /\ form.cooldown = 0
      BY <1>5 DEF Entrance!Submit
    <3> QED BY <3>1 DEF Entrance!AccountSends, Entrance!Dialog, ViewOK, Entrance!CodeHasItsChallenge
  <2>4. kind \in {"start", "resend", "confirm", "reset"} /\ kind \notin {"confirm", "reset"} /\ 0 \in Int
    OBVIOUS
  <2> QED BY <2>1, <2>2, <2>3, <2>4, SendStep
<1>6. ASSUME NEW entered \in {Entrance!Wrong} \cup 1..code.number, Entrance!TypeCode(entered) PROVE SignInInv'
  <2>1. entered \in Int
    BY <1>1 DEF Entrance!Wrong, PageTypes, MailedCode
  <2>2. CASE Entrance!Completes
    <3>1. /\ posted = Entrance!NoCall /\ Entrance!Send("confirm", 0, entered) /\ form' = [form EXCEPT !.typed = entered, !.busy = TRUE]
          /\ UNCHANGED <<page, widget, solved, spent, replayed, beat, code, lost>>
      BY <1>6, <2>2 DEF Entrance!TypeCode, Entrance!fixed, Entrance!NoProof
    <3>2. /\ form' \in PageForm /\ form'.challenge = form.challenge /\ form'.view = form.view
          /\ form'.cooldown = form.cooldown
      BY <1>1, <2>1, <3>1 DEF PageTypes, PageForm
    <3> QED BY <2>1, <3>1, <3>2, SendStep
  <2>3. CASE ~Entrance!Completes
    <3>1. /\ form' = [form EXCEPT !.typed = entered]
          /\ UNCHANGED <<page, widget, solved, spent, replayed, posted, beat, code, lost>>
      BY <1>6, <2>3 DEF Entrance!TypeCode, Entrance!fixed
    <3>2. /\ form' \in PageForm /\ form'.challenge = form.challenge /\ form'.view = form.view
          /\ form'.cooldown = form.cooldown
      BY <1>1, <2>1, <3>1 DEF PageTypes, PageForm
    <3>3. ViewOK'
      BY <3>1, <3>2 DEF ViewOK, Entrance!CodeHasItsChallenge
    <3>4. solved' \in Nat /\ solved' >= solved /\ widget' \in 0..solved'
      BY <1>1, <3>1 DEF PageTypes
    <3> QED BY <3>1, <3>2, <3>3, <3>4, FormStep
  <2> QED BY <2>2, <2>3
<1>7. CASE Entrance!SubmitCode
  <2>1. PICK kind \in {"confirm", "reset"} : Entrance!Send(kind, 0, form.typed)
    BY <1>7 DEF Entrance!SubmitCode, Entrance!NoProof
  <2>2. /\ posted = Entrance!NoCall /\ form' = [form EXCEPT !.busy = TRUE]
        /\ UNCHANGED <<page, widget, solved, spent, replayed, beat, code, lost>>
    BY <1>7 DEF Entrance!SubmitCode, Entrance!fixed
  <2>3. /\ form' \in PageForm /\ form'.challenge = form.challenge /\ form'.view = form.view
        /\ form'.cooldown = form.cooldown /\ form.typed \in Int
    BY <1>1, <2>2 DEF PageTypes, PageForm
  <2>4. kind \in {"start", "resend", "confirm", "reset"} /\ kind # "resend"
    OBVIOUS
  <2> QED BY <2>1, <2>2, <2>3, <2>4, SendStep
<1>8. CASE Entrance!Back
  <2>1. UNCHANGED <<page, solved, spent, replayed, posted, beat, code, lost>>
    BY <1>8 DEF Entrance!Back, Entrance!fixed
  <2>2. CASE page = "modal"
    <3>1. /\ form' = [form EXCEPT !.view = "signin", !.challenge = IF form.view = "code" THEN "none" ELSE @]
          /\ widget' = widget
      BY <1>8, <2>2 DEF Entrance!Back
    <3>2. form' \in PageForm /\ form'.view = "signin"
      BY <1>1, <3>1 DEF PageTypes, PageForm, PageViews
    <3>3. ViewOK'
      BY <2>1, <2>2, <3>2 DEF ViewOK, Entrance!CodeHasItsChallenge
    <3>4. solved' \in Nat /\ solved' >= solved /\ widget' \in 0..solved'
      BY <1>1, <2>1, <3>1 DEF PageTypes
    <3> QED BY <2>1, <2>2, <3>1, <3>2, <3>3, <3>4, FormStep
  <2>3. CASE page # "modal"
    <3>1. form' = [Entrance!Blank(Entrance!FirstView, TRUE) EXCEPT !.busy = form.busy] /\ widget' = 0
      BY <1>8, <2>3 DEF Entrance!Back, Entrance!NoProof
    <3>2. form' \in PageForm /\ form'.challenge = "none" /\ form'.view \notin {"code", "reset", "forgot"}
      <4>1. form.busy \in BOOLEAN
        BY <1>1 DEF PageTypes, PageForm
      <4> QED BY <3>1, <4>1, NothingShown DEF PageForm
    <3>3. ViewOK'
      BY <2>1, <3>2 DEF ViewOK, Entrance!CodeHasItsChallenge
    <3>4. solved' \in Nat /\ solved' >= solved /\ widget' \in 0..solved'
      BY <1>1, <2>1, <3>1 DEF PageTypes
    <3> QED BY <2>1, <2>3, <3>1, <3>2, <3>3, <3>4, FormStep
  <2> QED BY <2>2, <2>3
<1>9. CASE Entrance!ForgotPassword \/ Entrance!ChangePassword
  <2>1. /\ UNCHANGED <<page, widget, solved, spent, replayed, posted, beat, code, lost>>
        /\ \/ form' = [form EXCEPT !.view = "forgot"] /\ page = "modal"
           \/ form' = [form EXCEPT !.view = "password"]
    BY <1>9 DEF Entrance!ForgotPassword, Entrance!ChangePassword, Entrance!fixed
  <2>2. /\ form' \in PageForm /\ form'.challenge = form.challenge /\ form'.view \in {"forgot", "password"}
        /\ form'.cooldown = form.cooldown /\ (page = "account" => form'.view = "password")
    BY <1>1, <2>1 DEF PageTypes, PageForm, PageViews
  <2>3. ViewOK'
    BY <2>1, <2>2 DEF ViewOK, Entrance!CodeHasItsChallenge
  <2>4. solved' \in Nat /\ solved' >= solved /\ widget' \in 0..solved'
    BY <1>1, <2>1 DEF PageTypes
  <2> QED BY <2>1, <2>2, <2>3, <2>4, FormStep
<1>10. CASE Entrance!CloseDialog
  <2>1. /\ UNCHANGED <<page, solved, spent, replayed, posted, beat, code, lost>> /\ widget' = 0
        /\ form' = [Entrance!Blank(Entrance!FirstView, FALSE) EXCEPT !.busy = form.busy]
    BY <1>10 DEF Entrance!CloseDialog, Entrance!fixed, Entrance!NoProof
  <2>2. form' \in PageForm /\ form'.challenge = "none" /\ form'.view \notin {"code", "reset", "forgot"}
    <3>1. form.busy \in BOOLEAN
      BY <1>1 DEF PageTypes, PageForm
    <3> QED BY <2>1, <3>1, NothingShown DEF PageForm
  <2>3. ViewOK'
    BY <2>1, <2>2 DEF ViewOK, Entrance!CodeHasItsChallenge
  <2>4. page = "modal" => widget' = widget
    BY <2>1 DEF TokenOK
  <2>5. solved' \in Nat /\ solved' >= solved /\ widget' \in 0..solved'
    BY <1>1, <2>1 DEF PageTypes
  <2> QED BY <2>1, <2>2, <2>3, <2>4, <2>5, FormStep
<1>11. CASE Entrance!Refuse
  <2>1. /\ posted.step = "asked" /\ Entrance!Answer("refused")
        /\ spent' = spent \/ (spent' = spent \cup {posted.token} /\ posted.token # 0)
        /\ replayed' => replayed \/ posted.token \in spent
        /\ UNCHANGED <<page, form, widget, solved, beat, code, lost>>
    BY <1>11 DEF Entrance!Refuse, Entrance!AskedOf, Entrance!fixed, Entrance!NoProof
  <2>2. code' \in MailedCode
    BY <1>1, <2>1 DEF PageTypes
  <2> QED BY <2>1, <2>2, AnswerStep
<1>12. CASE Entrance!TakeUp
  <2>1. /\ posted.step = "asked" /\ posted.kind \in {"start", "resend"}
        /\ spent' = spent \/ (spent' = spent \cup {posted.token} /\ posted.token # 0)
        /\ UNCHANGED <<page, form, widget, solved, replayed, beat, lost>>
    BY <1>12 DEF Entrance!TakeUp, Entrance!AskedOf, Entrance!fixed, Entrance!NoProof
  <2>2. \/ Entrance!Answer("session") /\ code' = code
        \/ Entrance!Answer("cooling") /\ code' = code /\ beat - code.sent < Cooldown
        \/ Entrance!Answer("refused") /\ code' = [code EXCEPT !.live = FALSE]
        \/ /\ Entrance!Answer("challenge")
           /\ code' = [number |-> code.number + 1, purpose |-> Entrance!Purpose(posted.kind, posted.view), live |-> TRUE, sent |-> beat]
    BY <1>12 DEF Entrance!TakeUp, Entrance!Cooling
  <2>3. Entrance!Purpose(posted.kind, posted.view) \in {"enter", "reset"}
    BY DEF Entrance!Purpose
  <2>4. code' \in MailedCode /\ (code'.sent = code.sent \/ code'.sent = beat)
    <3>1. CASE code' = code \/ code' = [code EXCEPT !.live = FALSE]
      BY <1>1, <3>1 DEF PageTypes, MailedCode
    <3>2. CASE code' = [number |-> code.number + 1, purpose |-> Entrance!Purpose(posted.kind, posted.view), live |-> TRUE, sent |-> beat]
      <4>1. code.number + 1 \in Nat /\ beat \in Int
        BY <1>1 DEF PageTypes, MailedCode
      <4>2. PICK purpose : purpose = Entrance!Purpose(posted.kind, posted.view)
        OBVIOUS
      <4> QED BY <2>3, <3>2, <4>1, <4>2 DEF MailedCode
    <3> QED BY <2>2, <3>1, <3>2
  <2>5. code' = code \/ code' = [code EXCEPT !.live = FALSE] => code'.sent = code.sent
    BY <1>1 DEF PageTypes, MailedCode
  <2>6. CASE Entrance!Answer("session") /\ code' = code
    BY <2>1, <2>4, <2>5, <2>6, AnswerStep
  <2>7. CASE Entrance!Answer("cooling") /\ code' = code /\ beat - code.sent < Cooldown
    BY <2>1, <2>4, <2>5, <2>7, AnswerStep
  <2>8. CASE Entrance!Answer("refused") /\ code' = [code EXCEPT !.live = FALSE]
    BY <2>1, <2>4, <2>5, <2>8, AnswerStep
  <2>9. CASE Entrance!Answer("challenge")
    BY <2>1, <2>4, <2>9, AnswerStep
  <2> QED BY <2>2, <2>6, <2>7, <2>8, <2>9
<1>13. CASE Entrance!TakeCode
  <2>1. /\ posted.step = "asked" /\ code' = [code EXCEPT !.live = FALSE]
        /\ (Entrance!Answer("reset") /\ posted.kind = "reset") \/ Entrance!Answer("session")
        /\ UNCHANGED <<page, form, widget, solved, spent, replayed, beat, lost>>
    BY <1>13 DEF Entrance!TakeCode, Entrance!fixed
  <2>2. code' \in MailedCode /\ code'.sent = code.sent
    BY <1>1, <2>1 DEF PageTypes, MailedCode
  <2> QED BY <2>1, <2>2, AnswerStep
<1>14. CASE Entrance!Lose
  <2>1. /\ posted.step \in {"asked", "answered"} /\ posted' = [posted EXCEPT !.step = "answered", !.answer = "unreached"]
        /\ lost' = TRUE
        /\ UNCHANGED <<page, form, widget, solved, spent, replayed, beat, code>>
    BY <1>14 DEF Entrance!Lose, Entrance!Answer, Entrance!fixed
  <2>2. /\ posted' \in PageCall /\ posted'.step = "answered" /\ posted'.answer = "unreached" /\ posted'.kind = posted.kind
        /\ posted'.token = posted.token /\ posted'.view = posted.view
    BY <1>1, <2>1 DEF PageTypes, PageCall
  <2>3. PageTypes' /\ AnswerOK' /\ TokenOK' /\ ViewOK'
    BY <1>1, <2>1, <2>2 DEF PageTypes, AnswerOK, TokenOK, Entrance!NeverReplayed, ViewOK, Entrance!CodeHasItsChallenge
  <2>4. CountdownOK'
    BY <2>1, <2>2 DEF CountdownOK, Entrance!ResendIsWelcome
  <2> QED BY <2>3, <2>4
<1>15. CASE Entrance!Challenged
  <2>1. /\ posted.step = "answered" /\ posted.answer = "challenge" /\ posted' = Entrance!NoCall /\ widget' = 0
        /\ UNCHANGED <<page, solved, spent, replayed, beat, code, lost>>
    BY <1>15 DEF Entrance!Challenged, Entrance!Answered, Entrance!Spent, Entrance!NoProof, Entrance!fixed
  <2>2. PICK seen : seen = (CASE page = "account" -> form.view [] posted.view = "forgot" -> "reset" [] OTHER -> "code")
    OBVIOUS
  <2>3. PICK purpose : purpose = Entrance!Purpose(posted.kind, posted.view)
    OBVIOUS
  <2>4. PICK cooldown : cooldown = Entrance!Countdown
    OBVIOUS
  <2>5. form' = [form EXCEPT !.view = seen, !.challenge = purpose, !.typed = 0, !.busy = FALSE, !.cooldown = cooldown]
    BY <1>15, <2>2, <2>3, <2>4 DEF Entrance!Challenged, Entrance!Nothing
  <2>6. cooldown \in Nat /\ (page # "modal" => cooldown = Cooldown)
    BY <2>4 DEF Entrance!Countdown, Entrance!SignInAssumption
  <2>7. posted.kind \in {"start", "resend"}
    BY <2>1 DEF AnswerOK
  <2>8. purpose = IF page \in {"forgot", "account"} \/ posted.view = "forgot" THEN "reset" ELSE "enter"
    BY <2>3, <2>7 DEF Entrance!Purpose
  <2>9. /\ page = "account" => seen = form.view
        /\ page # "account" /\ posted.view = "forgot" => seen = "reset"
        /\ page # "account" /\ posted.view # "forgot" => seen = "code"
    <3>1. CASE page = "account"
      <4>1. posted.view # "forgot"
        BY <3>1 DEF ViewOK
      <4> QED BY <2>2, <3>1, <4>1
    <3>2. CASE page # "account" /\ posted.view = "forgot"
      BY <2>2, <3>2
    <3>3. CASE page # "account" /\ posted.view # "forgot"
      BY <2>2, <3>3
    <3> QED BY <3>1, <3>2, <3>3
  <2>10. seen \in PageViews /\ purpose \in {"none", "enter", "reset"}
    <3>1. form.view \in PageViews /\ "reset" \in PageViews /\ "code" \in PageViews
      BY <1>1 DEF PageTypes, PageForm, PageViews
    <3> QED BY <2>8, <2>9, <3>1
  <2>11. /\ form' \in PageForm /\ form'.view = seen /\ form'.challenge = purpose /\ form'.cooldown = cooldown
    <3>1. form' = [view |-> seen, typed |-> 0, challenge |-> purpose, cooldown |-> cooldown,
                   busy |-> FALSE, open |-> form.open]
      BY <1>1, <2>5 DEF PageTypes, PageForm
    <3>2. form.open \in BOOLEAN
      BY <1>1 DEF PageTypes, PageForm
    <3> QED BY <2>6, <2>10, <3>1, <3>2 DEF PageForm
  <2>12. ViewOK'
    BY <2>1, <2>8, <2>9, <2>11, NoCallYet DEF ViewOK, Entrance!CodeHasItsChallenge
  <2> QED BY <2>1, <2>6, <2>11, <2>12, TakeInStep
<1>16. CASE Entrance!Failed
  <2>1. /\ posted.step = "answered" /\ posted.answer # "challenge" /\ posted' = Entrance!NoCall
        /\ widget' = 0 \/ (widget' = widget /\ (page = "modal" \/ posted.kind = "reset"))
        /\ UNCHANGED <<page, solved, spent, replayed, beat, code, lost>>
        /\ form' = [form EXCEPT !.busy = FALSE, !.typed = IF posted.kind \in {"confirm", "reset"} THEN 0 ELSE form.typed]
    BY <1>16 DEF Entrance!Failed, Entrance!Answered, Entrance!Spent, Entrance!NoProof, Entrance!Nothing, Entrance!fixed
  <2>2. /\ form' \in PageForm /\ form'.challenge = form.challenge /\ form'.view = form.view
        /\ form'.cooldown = form.cooldown
    <3>1. PICK entered : entered = IF posted.kind \in {"confirm", "reset"} THEN 0 ELSE form.typed
      OBVIOUS
    <3>2. entered \in Int
      BY <1>1, <3>1 DEF PageTypes, PageForm
    <3>3. form' = [form EXCEPT !.busy = FALSE, !.typed = entered]
      BY <2>1, <3>1
    <3> QED BY <1>1, <3>2, <3>3 DEF PageTypes, PageForm
  <2>3. ViewOK'
    BY <2>1, <2>2, NoCallYet DEF ViewOK, Entrance!CodeHasItsChallenge
  <2> QED BY <2>1, <2>2, <2>3, TakeInStep
<1>17. CASE Entrance!PasswordChanged
  <2>1. /\ posted.step = "answered" /\ posted.answer = "reset" /\ posted' = Entrance!NoCall
        /\ widget' \in {0, widget}
        /\ UNCHANGED <<page, solved, spent, replayed, beat, code, lost>>
    BY <1>17 DEF Entrance!PasswordChanged, Entrance!Answered, Entrance!NoProof, Entrance!fixed
  <2>2. posted.kind = "reset"
    BY <2>1 DEF AnswerOK
  <2>3. CASE page = "modal"
    <3>1. form' = [form EXCEPT !.view = "signin", !.typed = 0, !.busy = FALSE]
      BY <1>17, <2>3 DEF Entrance!PasswordChanged, Entrance!Nothing
    <3>2. form' \in PageForm /\ form'.view = "signin"
      <4>1. "signin" \in PageViews
        BY DEF PageViews
      <4>2. form' = [view |-> "signin", typed |-> 0, challenge |-> form.challenge, cooldown |-> form.cooldown,
                     busy |-> FALSE, open |-> form.open]
        BY <1>1, <3>1 DEF PageTypes, PageForm
      <4>3. form.challenge \in {"none", "enter", "reset"} /\ form.cooldown \in Nat /\ form.open \in BOOLEAN
        BY <1>1 DEF PageTypes, PageForm
      <4> QED BY <4>1, <4>2, <4>3 DEF PageForm
    <3>3. ViewOK'
      BY <2>1, <2>3, <3>2, NoCallYet DEF ViewOK, Entrance!CodeHasItsChallenge
    <3> QED BY <2>1, <2>2, <2>3, <3>2, <3>3, TakeInStep
  <2>4. CASE page = "account"
    <3>1. form' = Entrance!Blank("overview", form.open) /\ "overview" = Entrance!FirstView /\ form.open \in BOOLEAN
      BY <1>1, <1>17, <2>4 DEF Entrance!PasswordChanged, Entrance!FirstView, PageTypes, PageForm
    <3>2. form' \in PageForm /\ form'.challenge = "none" /\ form'.view \notin {"code", "reset", "forgot"}
      BY <3>1, NothingShown
    <3>3. ViewOK'
      BY <2>1, <3>2, NoCallYet DEF ViewOK, Entrance!CodeHasItsChallenge
    <3> QED BY <2>1, <2>2, <3>2, <3>3, TakeInStep
  <2>5. CASE page \notin {"modal", "account"}
    <3>1. form' = [form EXCEPT !.view = "done"]
      BY <1>17, <2>5 DEF Entrance!PasswordChanged
    <3>2. /\ form' \in PageForm /\ form'.view = "done" /\ form'.challenge = form.challenge
          /\ form'.cooldown = form.cooldown
      BY <1>1, <3>1 DEF PageTypes, PageForm, PageViews
    <3>3. ViewOK'
      BY <2>1, <2>5, <3>2, NoCallYet DEF ViewOK, Entrance!CodeHasItsChallenge
    <3> QED BY <2>1, <2>2, <3>2, <3>3, TakeInStep
  <2> QED BY <2>3, <2>4, <2>5
<1>18. CASE Entrance!ToLogin
  <2>1. /\ page' = "login" /\ form' = Entrance!Blank("form", TRUE) /\ widget' = 0
        /\ UNCHANGED <<solved, spent, replayed, posted, beat, code, lost>>
    BY <1>18 DEF Entrance!ToLogin, Entrance!NoProof
  <2>2. form' \in PageForm /\ form'.challenge = "none" /\ form'.view = "form"
    BY <2>1 DEF Entrance!Blank, PageForm, PageViews, Entrance!Nothing
  <2>3. ViewOK'
    BY <2>1, <2>2 DEF ViewOK, Entrance!CodeHasItsChallenge
  <2>4. solved' \in Nat /\ solved' >= solved /\ widget' \in 0..solved'
    BY <1>1, <2>1 DEF PageTypes
  <2> QED BY <2>1, <2>2, <2>3, <2>4, FormStep
<1>19. CASE Entrance!SignedIn
  <2>1. /\ posted.step = "answered" /\ posted' = Entrance!NoCall /\ widget' = 0
        /\ form' = [Entrance!Blank(Entrance!FirstView, ~Entrance!Dialog) EXCEPT !.busy = TRUE]
        /\ UNCHANGED <<page, solved, spent, replayed, beat, code, lost>>
    BY <1>19 DEF Entrance!SignedIn, Entrance!Answered, Entrance!NoProof, Entrance!fixed
  <2>2. form' \in PageForm /\ form'.challenge = "none" /\ form'.view \notin {"code", "reset", "forgot"}
    <3>1. (~Entrance!Dialog) \in BOOLEAN
      BY DEF Entrance!Dialog
    <3> QED BY <2>1, <3>1, NothingShown DEF PageForm
  <2>3. ViewOK'
    BY <2>1, <2>2, NoCallYet DEF ViewOK, Entrance!CodeHasItsChallenge
  <2> QED BY <2>1, <2>2, <2>3, TakeInStep
<1>20. CASE Entrance!Unauthorized \/ Entrance!Redirected
  <2>1. /\ page' = "login" /\ form' = Entrance!Blank("form", TRUE) /\ widget' = 0 /\ posted' = Entrance!NoCall
        /\ UNCHANGED <<solved, spent, replayed, beat, code, lost>>
    BY <1>20 DEF Entrance!Unauthorized, Entrance!Redirected, Entrance!SentBack, Entrance!NoProof
  <2>2. form' \in PageForm /\ form'.challenge = "none" /\ form'.view = "form"
    BY <2>1 DEF Entrance!Blank, PageForm, PageViews, Entrance!Nothing
  <2>3. /\ posted' \in PageCall /\ posted'.step = "none" /\ posted'.answer = "none" /\ posted'.kind = "none" /\ posted'.token = 0
    BY <2>1, NoCallYet
  <2>4. PageTypes'
    <3>1. widget' \in 0..solved' /\ posted'.token <= solved' /\ solved' \in Nat
      BY <1>1, <2>1, <2>3 DEF PageTypes
    <3>2. code' \in MailedCode /\ spent' \subseteq 1..solved' /\ beat' \in Nat /\ code'.sent <= beat' /\ lost' \in BOOLEAN
      BY <1>1, <2>1 DEF PageTypes
    <3> QED BY <2>2, <2>3, <3>1, <3>2 DEF PageTypes
  <2>5. AnswerOK'
    BY <2>3 DEF AnswerOK
  <2>6. TokenOK'
    BY <1>1, <2>1, <2>3 DEF TokenOK, Entrance!NeverReplayed, PageTypes
  <2>7. CountdownOK' /\ ViewOK'
    BY <2>1, <2>2, <2>3, NoCallYet DEF CountdownOK, Entrance!ResendIsWelcome, ViewOK, Entrance!CodeHasItsChallenge
  <2> QED BY <2>4, <2>5, <2>6, <2>7
<1>21. CASE Entrance!Tick
  <2>1. /\ beat' = beat + 1 /\ form' = [form EXCEPT !.cooldown = Entrance!Left(form.cooldown)]
        /\ UNCHANGED <<page, widget, solved, spent, replayed, posted, code, lost>>
    BY <1>21 DEF Entrance!Tick, Entrance!fixed
  <2>2. /\ form' \in PageForm /\ form'.challenge = form.challenge /\ form'.view = form.view
        /\ form'.cooldown = Entrance!Left(form.cooldown) /\ Entrance!Left(form.cooldown) \in Nat /\ form.cooldown \in Nat
        /\ Entrance!Left(form.cooldown) + 1 >= form.cooldown
    BY <1>1, <2>1 DEF PageTypes, PageForm, Entrance!Left
  <2>3. PageTypes'
    BY <1>1, <2>1, <2>2 DEF PageTypes, MailedCode
  <2>4. CountdownOK'
    <3>1. beat \in Int /\ code.sent \in Int /\ Cooldown \in Int
      BY <1>1 DEF PageTypes, MailedCode, Entrance!SignInAssumption
    <3> QED BY <2>1, <2>2, <3>1 DEF CountdownOK, Entrance!ResendIsWelcome
  <2> QED BY <2>1, <2>2, <2>3, <2>4 DEF AnswerOK, TokenOK, Entrance!NeverReplayed, ViewOK, Entrance!CodeHasItsChallenge
<1> QED
  BY <1>2, <1>3, <1>4, <1>5, <1>6, <1>7, <1>8, <1>9, <1>10, <1>11, <1>12, <1>13, <1>14, <1>15, <1>16, <1>17,
     <1>18, <1>19, <1>20, <1>21 DEF Entrance!Next

LEMMA SignInHolds == ASSUME SignInInv PROVE Entrance!NeverReplayed /\ Entrance!ResendIsWelcome /\ Entrance!CodeHasItsChallenge
BY DEF SignInInv, TokenOK, CountdownOK, ViewOK

-----------------------------------------------------------------------------
(* The rewards hub *)

HubCall ==
  [step : {"idle", "asked", "answered", "reloading", "landing"},
   answer : {"none", "paid", "refused", "unauthorized", "lost"}, n : Nat, load : Nat]
HubRead == [n : Nat \ {0}, view : Hub!Views, step : {"asked", "read", "failed"}, due : Nat, held : Nat]

HubTypes ==
  /\ due \in [Hub!Offers -> Nat] /\ got \in [Hub!Offers -> Nat] /\ told \in [Hub!Offers -> Nat] /\ missed \in [Hub!Offers -> Nat]
  /\ ask \in [Hub!Offers -> HubCall] /\ busy \in [Hub!Offers -> BOOLEAN]
  /\ fetches \subseteq HubRead /\ fetched \in [Hub!Views -> Nat] /\ view \in [Hub!Views -> Nat] /\ held \in Nat
  /\ wheel \in [to : Int, turning : BOOLEAN, cooling : BOOLEAN] /\ landed \in [drawn : Nat, under : Int]

\* What was paid and has neither been said nor lost.
Pending(o) ==
  IF ask[o].step = "landing" \/ (ask[o].step = "answered" /\ ask[o].answer = "paid") THEN Hub!Worth(o) ELSE 0

\* A claim under way is a button that waits, and an answer is that of the claim.
ButtonOK(o) ==
  /\ busy[o] <=> ask[o].step # "idle"
  /\ ask[o].step = "idle" => ask[o] = Hub!Idle
  /\ ask[o].step = "asked" => ask[o].answer = "none"
  /\ ask[o].step = "landing" => o = "wheel"
  /\ o # "tickets" => due[o] <= 1
  /\ told[o] + missed[o] + Pending(o) = got[o]

\* The wheel turns to the slice the server drew.
WheelOK ==
  /\ wheel.turning <=> ask["wheel"].step = "landing"
  /\ ask["wheel"].step = "answered" /\ ask["wheel"].answer = "paid" => ask["wheel"].n \in 0..(Slices - 1)
  /\ ask["wheel"].step = "landing" => ask["wheel"].n \in 0..(Slices - 1) /\ wheel.to = Hub!Target(ask["wheel"].n)
  /\ Hub!WheelStopsOnPrize

\* The newest read of the raffle, on its way or on screen, was done after the last claim.
RaffleReads ==
  /\ \A v \in Hub!Views : view[v] <= fetched[v]
  /\ \A l \in fetches : l.n <= fetched[l.view]
  /\ told["tickets"] > 0 => fetched["raffle"] > 0
  /\ view["raffle"] = fetched["raffle"] => held >= told["tickets"]
  /\ \A l \in fetches : l.view = "raffle" /\ l.step = "read" /\ l.n = fetched["raffle"] => l.held >= told["tickets"]

HubInv == HubTypes /\ (\A o \in Hub!Offers : ButtonOK(o)) /\ WheelOK /\ RaffleReads

LEMMA HubInit == ASSUME Hub!RewardsPageAssumption, Hub!Init PROVE HubInv
<1> USE DEF Hub!Init, Hub!Idle
<1>1. HubTypes
  BY DEF HubTypes, HubCall, HubRead, Hub!Unread, Hub!Offers, Hub!Views
<1>2. \A o \in Hub!Offers : ButtonOK(o)
  BY DEF ButtonOK, Pending, Hub!Worth
<1>3. WheelOK
  BY DEF WheelOK, Hub!WheelStopsOnPrize, Hub!Offers
<1>4. RaffleReads
  <2>1. \A v \in Hub!Views : view[v] = 0 /\ fetched[v] \in Nat
    BY DEF Hub!Views
  <2>2. \A l \in fetches : l.n = 1 /\ l.step = "asked" /\ fetched[l.view] = 1
    BY DEF Hub!Unread, Hub!Views
  <2> QED BY <2>1, <2>2 DEF RaffleReads, Hub!Views, Hub!Offers
<1> QED BY <1>1, <1>2, <1>3, <1>4 DEF HubInv

\* What is left of a number by as much more than a multiple.
LEMMA ModOf ==
  ASSUME NEW c \in Nat \ {0}, NEW k \in 0..(c - 1), NEW q \in Int
  PROVE  (k + c * q) % c = k
<1> DEFINE z == c * q
           x == k + z
           p == x \div c
           y == c * p
           s == x % c
           d == p - q
<1>1. z \in Int /\ x \in Int
  OBVIOUS
<1>2. p \in Int /\ s \in 0..(c - 1) /\ x = c * p + s
  <2> HIDE DEF x
  <2> QED BY <1>1
<1>3. y \in Int /\ y = z + (k - s)
  <2>1. y \in Int /\ x = y + s
    <3> HIDE DEF x, p, s
    <3> QED BY <1>2
  <2> HIDE DEF y, z, s
  <2> QED BY <1>1, <1>2, <2>1
<1>4. c * d = k - s
  <2>1. c * d = y - z
    <3> HIDE DEF p
    <3> QED BY <1>2
  <2> HIDE DEF d, y, z, s
  <2> QED BY <1>1, <1>2, <1>3, <2>1
<1>5. d \in Int
  <2> HIDE DEF p
  <2> QED BY <1>2
<1>6. d = 0
  <2> HIDE DEF d, s
  <2>1. d >= 1 => c * d >= c
    BY <1>5
  <2>2. d <= 0 - 1 => c * d <= 0 - c
    BY <1>5
  <2> QED BY <1>2, <1>4, <1>5, <2>1, <2>2
<1>7. k = s
  <2>1. c * 0 = 0
    OBVIOUS
  <2> HIDE DEF s, d
  <2> QED BY <1>2, <1>4, <1>6, <2>1
<1> QED BY <1>7

\* What the pointer stops on is what the wheel was turned to.
LEMMA PointerOnTarget ==
  ASSUME Hub!RewardsPageAssumption, NEW n \in 0..(Slices - 1)
  PROVE  Hub!UnderPointer(Hub!Target(n)) = n /\ Hub!Target(n) \in Int
<1> DEFINE C == Hub!Circle
           P == Hub!Pointer
           k == 2 * n + 1
           m == P - k
           r == m % C
           q == m \div C
           z == C * q
<1>1. C \in Nat \ {0} /\ P \in Int /\ m \in Int /\ k \in 0..(C - 1)
  BY DEF Hub!Circle, Hub!Pointer, Hub!RewardsPageAssumption
<1>2. r \in Int /\ q \in Int /\ m = C * q + r
  <2> HIDE DEF m, C
  <2> QED BY <1>1
<1>3. P - r = k + C * q
  <2>1. z \in Int /\ m = z + r
    <3> HIDE DEF C, q, m, r
    <3> QED BY <1>1, <1>2
  <2>2. P - r = k + z
    <3> HIDE DEF z, r, P, k
    <3> QED BY <1>1, <1>2, <2>1
  <2> QED BY <2>2
<1>4. (P - r) % C = k
  <2> HIDE DEF k, q, C, r, P
  <2> QED BY <1>1, <1>2, <1>3, ModOf
<1>5. k \div 2 = n
  OBVIOUS
<1> QED BY <1>2, <1>4, <1>5 DEF Hub!UnderPointer, Hub!Target

\* A step that is about one offer.
LEMMA ButtonsStep ==
  ASSUME HubTypes, HubTypes', \A o \in Hub!Offers : ButtonOK(o), NEW offer \in Hub!Offers, ButtonOK(offer)',
         \A o \in Hub!Offers \ {offer} : /\ ask'[o] = ask[o] /\ busy'[o] = busy[o] /\ due'[o] = due[o]
                                     /\ told'[o] = told[o] /\ missed'[o] = missed[o] /\ got'[o] = got[o]
  PROVE  \A o \in Hub!Offers : ButtonOK(o)'
<1>1. ASSUME NEW o \in Hub!Offers \ {offer} PROVE ButtonOK(o)'
  BY <1>1 DEF ButtonOK, Pending, Hub!Worth
<1> QED BY <1>1

\* A step that leaves the wheel alone.
LEMMA WheelStill ==
  ASSUME WheelOK, wheel' = wheel, landed' = landed, ask'["wheel"] = ask["wheel"]
  PROVE  WheelOK'
BY DEF WheelOK, Hub!WheelStopsOnPrize, Hub!Target, Hub!Pointer, Hub!Circle

\* A step that reads nothing and tells of no tickets.
LEMMA NothingRead ==
  ASSUME HubTypes, RaffleReads, UNCHANGED <<fetches, fetched, view, held>>, told'["tickets"] = told["tickets"]
  PROVE  RaffleReads'
BY DEF RaffleReads

\* Reads that start: newer than any, and not done yet.
LEMMA ReadsStart ==
  ASSUME HubTypes, RaffleReads, NEW views \in SUBSET Hub!Views, Hub!Ask(views), UNCHANGED <<view, held>>,
         told' \in [Hub!Offers -> Nat],
         told'["tickets"] = told["tickets"] \/ "raffle" \in views
  PROVE  /\ fetches' \subseteq HubRead /\ fetched' \in [Hub!Views -> Nat] /\ RaffleReads'
<1>1. /\ fetched' = [v \in Hub!Views |-> IF v \in views THEN fetched[v] + 1 ELSE fetched[v]]
      /\ fetches' = fetches \cup {Hub!Unread(fetched[v] + 1, v) : v \in views}
  BY DEF Hub!Ask
<1>2. fetched' \in [Hub!Views -> Nat] /\ \A v \in Hub!Views : fetched'[v] = IF v \in views THEN fetched[v] + 1 ELSE fetched[v]
  BY <1>1 DEF HubTypes
<1>3. \A l \in fetches' : l \in fetches \/ \E v \in views : /\ l = Hub!Unread(fetched[v] + 1, v) /\ l.n = fetched[v] + 1
                                                     /\ l.view = v /\ l.step = "asked"
  BY <1>1 DEF Hub!Unread
<1>4. \A v \in views : Hub!Unread(fetched[v] + 1, v) \in HubRead
  BY DEF Hub!Unread, HubRead, HubTypes
<1>5. fetches' \subseteq HubRead
  BY <1>3, <1>4 DEF HubTypes
<1>6. \A l \in fetches' : l.n <= fetched'[l.view]
  BY <1>2, <1>3 DEF RaffleReads, HubTypes, HubRead
<1>7. \A l \in fetches' : l.view = "raffle" /\ l.step = "read" /\ l.n = fetched'["raffle"] =>
        l \in fetches /\ l.n = fetched["raffle"] /\ told'["tickets"] = told["tickets"]
  BY <1>2, <1>3 DEF RaffleReads, HubTypes, HubRead, Hub!Views
<1>8. view["raffle"] = fetched'["raffle"] => view["raffle"] = fetched["raffle"] /\ told'["tickets"] = told["tickets"]
  BY <1>2 DEF RaffleReads, HubTypes, Hub!Views
<1>9. \A v \in Hub!Views : view'[v] <= fetched'[v]
  BY <1>2 DEF RaffleReads, HubTypes
<1>10. told'["tickets"] > 0 => fetched'["raffle"] > 0
  BY <1>2 DEF RaffleReads, HubTypes, Hub!Views
<1> QED BY <1>2, <1>5, <1>6, <1>7, <1>8, <1>9, <1>10 DEF RaffleReads

\* A read that has arrived: the claims that waited for it are over.
LEMMA ReadsEnd ==
  ASSUME HubInv, NEW l \in fetches, Hub!Arrives(l)
  PROVE  /\ ask' \in [Hub!Offers -> HubCall] /\ busy' \in [Hub!Offers -> BOOLEAN] /\ fetches' = fetches \ {l}
         /\ \A o \in Hub!Offers : ButtonOK(o)'
         /\ WheelOK'
         /\ UNCHANGED <<due, got, told, missed, fetched, wheel, landed>>
<1>1. /\ ask' = [o \in Hub!Offers |-> IF o \in Hub!Waiting(l) THEN Hub!Idle ELSE ask[o]]
      /\ busy' = [o \in Hub!Offers |-> busy[o] /\ o \notin Hub!Waiting(l)]
      /\ fetches' = fetches \ {l} /\ UNCHANGED <<due, got, told, missed, fetched, wheel, landed>>
  BY DEF Hub!Arrives, Hub!Finish, Hub!server, Hub!spinner
<1>2. \A o \in Hub!Waiting(l) : o \in Hub!Offers /\ ask[o].step = "reloading" /\ o # "wheel"
  BY DEF Hub!Waiting, Hub!Offers
<1>3. Hub!Idle \in HubCall /\ Hub!Idle.step = "idle"
  BY DEF Hub!Idle, HubCall
<1>4. \A o \in Hub!Offers : /\ o \in Hub!Waiting(l) => ask'[o] = Hub!Idle /\ busy'[o] = FALSE
                        /\ o \notin Hub!Waiting(l) => ask'[o] = ask[o] /\ busy'[o] = busy[o]
  BY <1>1 DEF HubInv, HubTypes
<1>5. ask' \in [Hub!Offers -> HubCall] /\ busy' \in [Hub!Offers -> BOOLEAN]
  BY <1>1, <1>3 DEF HubInv, HubTypes
<1>6. ASSUME NEW o \in Hub!Offers PROVE ButtonOK(o)'
  BY <1>1, <1>2, <1>3, <1>4 DEF HubInv, ButtonOK, Pending, Hub!Worth
<1>7. WheelOK'
  BY <1>1, <1>2, <1>4, WheelStill DEF HubInv, Hub!Offers
<1> QED BY <1>1, <1>5, <1>6, <1>7

LEMMA HubStep ==
  ASSUME Hub!RewardsPageAssumption, HubInv, Hub!Next
  PROVE  HubInv'
<1> USE DEF HubInv, Hub!server, Hub!reads, Hub!spinner
<1>0. Hub!Idle \in HubCall /\ Hub!Idle.step = "idle" /\ Hub!Idle.answer = "none"
  BY DEF Hub!Idle, HubCall
<1>a. {"wheel", "checkin", "tickets", "promo", "restore"} = Hub!Offers /\ {"overview", "raffle", "streak"} = Hub!Views
  BY DEF Hub!Offers, Hub!Views
<1>1. CASE Hub!TokenArrives
  <2>1. /\ Hub!Ask({v \in {"overview", "raffle"} : Hub!Bears(v)})
        /\ UNCHANGED <<due, got, view, offered, held, ask, asks, busy, told, wheel, landed, missed, gone>>
    BY <1>1 DEF Hub!TokenArrives
  <2>2. {v \in {"overview", "raffle"} : Hub!Bears(v)} \in SUBSET Hub!Views
    BY <1>a
  <2>3. fetches' \subseteq HubRead /\ fetched' \in [Hub!Views -> Nat] /\ RaffleReads'
    BY <2>1, <2>2, ReadsStart DEF HubTypes
  <2>4. HubTypes'
    BY <2>1, <2>3 DEF HubTypes
  <2>5. \A o \in Hub!Offers : ButtonOK(o)'
    BY <2>1 DEF ButtonOK, Pending, Hub!Worth
  <2> QED BY <2>1, <2>3, <2>4, <2>5, WheelStill
<1>2. CASE Hub!Dismiss
  <2>1. UNCHANGED <<due, got, fetches, fetched, view, held, ask, asks, busy, told, wheel, landed, missed, gone>>
    BY <1>2 DEF Hub!Dismiss
  <2>2. \A o \in Hub!Offers : ButtonOK(o)'
    BY <2>1 DEF ButtonOK, Pending, Hub!Worth
  <2>3. HubTypes'
    BY <2>1 DEF HubTypes
  <2> QED BY <2>1, <2>2, <2>3, WheelStill, NothingRead
<1>3. CASE Hub!Spun
  <2>1. /\ ask["wheel"].step = "answered" /\ ask["wheel"].answer = "paid"
        /\ ask' = [ask EXCEPT !["wheel"].step = "landing"]
        /\ wheel' = [wheel EXCEPT !.to = Hub!Target(ask["wheel"].n), !.turning = TRUE, !.cooling = TRUE]
        /\ UNCHANGED <<due, got, fetches, fetched, view, held, busy, told, landed, missed>>
    BY <1>3 DEF Hub!Spun, Hub!Has
  <2>2. ask["wheel"].n \in 0..(Slices - 1)
    BY <2>1 DEF WheelOK
  <2>3. Hub!Target(ask["wheel"].n) \in Int
    BY <2>2, PointerOnTarget
  <2>4. HubTypes'
    <3>1. ask' \in [Hub!Offers -> HubCall]
      <4>1. [ask["wheel"] EXCEPT !.step = "landing"] \in HubCall
        BY <1>a DEF HubTypes, HubCall
      <4> QED BY <2>1, <4>1 DEF HubTypes
    <3>2. wheel' \in [to : Int, turning : BOOLEAN, cooling : BOOLEAN]
      BY <2>1, <2>3 DEF HubTypes
    <3> QED BY <2>1, <3>1, <3>2 DEF HubTypes
  <2>5. /\ ask'["wheel"] = [ask["wheel"] EXCEPT !.step = "landing"]
        /\ \A o \in Hub!Offers \ {"wheel"} : ask'[o] = ask[o]
    BY <1>a, <2>1 DEF HubTypes
  <2>6. ButtonOK("wheel")'
    <3>1. ButtonOK("wheel")
      BY <1>a
    <3> QED BY <1>a, <2>1, <2>5, <3>1 DEF HubTypes, HubCall, ButtonOK, Pending, Hub!Worth
  <2>7. \A o \in Hub!Offers : ButtonOK(o)'
    BY <1>a, <2>1, <2>4, <2>5, <2>6, ButtonsStep
  <2>8. WheelOK'
    <3>1. ask'["wheel"].n = ask["wheel"].n /\ ask'["wheel"].step = "landing"
      BY <1>a, <2>5 DEF HubTypes, HubCall
    <3>2. wheel'.to = Hub!Target(ask["wheel"].n) /\ wheel'.turning = TRUE
      BY <2>1 DEF HubTypes
    <3> QED BY <2>1, <2>2, <3>1, <3>2 DEF WheelOK, Hub!WheelStopsOnPrize, Hub!Target, Hub!Pointer, Hub!Circle
  <2> QED BY <2>1, <2>4, <2>7, <2>8, NothingRead
<1>4. CASE Hub!Land
  <2>1. /\ wheel.turning /\ wheel' = [wheel EXCEPT !.turning = FALSE]
        /\ landed' = [drawn |-> ask["wheel"].n, under |-> Hub!UnderPointer(wheel.to)]
        /\ told' = [told EXCEPT !["wheel"] = @ + 1]
        /\ ask' = [ask EXCEPT !["wheel"] = Hub!Idle] /\ busy' = [busy EXCEPT !["wheel"] = FALSE]
        /\ UNCHANGED <<due, got, fetches, fetched, view, held, missed>>
    BY <1>4 DEF Hub!Land, Hub!Say, Hub!Free, Hub!Worth
  <2>2. ask["wheel"].step = "landing" /\ ask["wheel"].n \in 0..(Slices - 1) /\ wheel.to = Hub!Target(ask["wheel"].n)
    BY <2>1 DEF WheelOK
  <2>3. landed' = [drawn |-> ask["wheel"].n, under |-> ask["wheel"].n] /\ ask["wheel"].n \in Nat
    BY <2>1, <2>2, PointerOnTarget
  <2>4. HubTypes'
    <3>1. wheel' \in [to : Int, turning : BOOLEAN, cooling : BOOLEAN]
      BY <2>1 DEF HubTypes
    <3>2. landed' \in [drawn : Nat, under : Int]
      BY <2>3
    <3>3. told' \in [Hub!Offers -> Nat] /\ ask' \in [Hub!Offers -> HubCall] /\ busy' \in [Hub!Offers -> BOOLEAN]
      BY <1>0, <1>a, <2>1 DEF HubTypes
    <3> QED BY <2>1, <3>1, <3>2, <3>3 DEF HubTypes
  <2>5. /\ ask'["wheel"] = Hub!Idle /\ busy'["wheel"] = FALSE /\ told'["wheel"] = told["wheel"] + 1
        /\ \A o \in Hub!Offers \ {"wheel"} : ask'[o] = ask[o] /\ busy'[o] = busy[o] /\ told'[o] = told[o]
    BY <1>a, <2>1 DEF HubTypes
  <2>6. ButtonOK("wheel")'
    <3>1. ButtonOK("wheel")
      BY <1>a
    <3> QED BY <1>0, <1>a, <2>1, <2>2, <2>5, <3>1 DEF HubTypes, HubCall, ButtonOK, Pending, Hub!Worth
  <2>7. \A o \in Hub!Offers : ButtonOK(o)'
    BY <1>a, <2>1, <2>4, <2>5, <2>6, ButtonsStep
  <2>8. WheelOK'
    <3>1. wheel'.turning = FALSE
      BY <2>1 DEF HubTypes
    <3> QED BY <1>0, <2>3, <2>5, <3>1 DEF WheelOK, Hub!WheelStopsOnPrize
  <2>9. told'["tickets"] = told["tickets"]
    BY <1>a, <2>5
  <2> QED BY <2>1, <2>4, <2>7, <2>8, <2>9, NothingRead
<1>5. CASE Hub!NotSpun
  <2>1. /\ ask["wheel"].step = "answered" /\ ask["wheel"].answer # "paid"
        /\ Hub!Ask({"overview"}) \/ UNCHANGED <<fetches, fetched>>
        /\ ask' = [ask EXCEPT !["wheel"] = Hub!Idle] /\ busy' = [busy EXCEPT !["wheel"] = FALSE]
        /\ UNCHANGED <<due, got, view, held, told, missed, wheel, landed>>
    BY <1>5 DEF Hub!NotSpun, Hub!Has, Hub!Free
  <2>2. fetches' \subseteq HubRead /\ fetched' \in [Hub!Views -> Nat] /\ RaffleReads'
    <3>1. CASE Hub!Ask({"overview"})
      <4>1. {"overview"} \in SUBSET Hub!Views
        BY <1>a
      <4> QED BY <2>1, <3>1, <4>1, ReadsStart DEF HubTypes
    <3>2. CASE UNCHANGED <<fetches, fetched>>
      BY <2>1, <3>2, NothingRead DEF HubTypes
    <3> QED BY <2>1, <3>1, <3>2
  <2>3. HubTypes'
    BY <1>0, <1>a, <2>1, <2>2 DEF HubTypes
  <2>4. /\ ask'["wheel"] = Hub!Idle /\ busy'["wheel"] = FALSE
        /\ \A o \in Hub!Offers \ {"wheel"} : ask'[o] = ask[o] /\ busy'[o] = busy[o]
    BY <1>a, <2>1 DEF HubTypes
  <2>5. ButtonOK("wheel")'
    <3>1. ButtonOK("wheel")
      BY <1>a
    <3> QED BY <1>0, <1>a, <2>1, <2>4, <3>1 DEF HubTypes, HubCall, ButtonOK, Pending, Hub!Worth
  <2>6. \A o \in Hub!Offers : ButtonOK(o)'
    BY <1>a, <2>1, <2>3, <2>4, <2>5, ButtonsStep
  <2>7. WheelOK'
    BY <1>0, <2>1, <2>4 DEF WheelOK, Hub!WheelStopsOnPrize
  <2> QED BY <2>2, <2>3, <2>6, <2>7
<1>6. CASE Hub!Redeemed
  <2>1. /\ ask["promo"].step = "answered" /\ ask["promo"].answer = "paid"
        /\ told' = [told EXCEPT !["promo"] = @ + ask["promo"].n]
        /\ ask' = [ask EXCEPT !["promo"] = Hub!Idle] /\ busy' = [busy EXCEPT !["promo"] = FALSE]
        /\ UNCHANGED <<due, got, fetches, fetched, view, held, missed, wheel, landed>>
    BY <1>6 DEF Hub!Redeemed, Hub!Has, Hub!Say, Hub!Free, Hub!Worth
  <2>2. HubTypes'
    BY <1>0, <1>a, <2>1 DEF HubTypes, HubCall
  <2>3. /\ ask'["promo"] = Hub!Idle /\ busy'["promo"] = FALSE /\ told'["promo"] = told["promo"] + ask["promo"].n
        /\ \A o \in Hub!Offers \ {"promo"} : ask'[o] = ask[o] /\ busy'[o] = busy[o] /\ told'[o] = told[o]
    BY <1>a, <2>1 DEF HubTypes
  <2>4. ButtonOK("promo")'
    <3>1. ButtonOK("promo")
      BY <1>a
    <3> QED BY <1>0, <1>a, <2>1, <2>3, <3>1 DEF HubTypes, HubCall, ButtonOK, Pending, Hub!Worth
  <2>5. \A o \in Hub!Offers : ButtonOK(o)'
    BY <1>a, <2>1, <2>2, <2>3, <2>4, ButtonsStep
  <2> QED BY <1>a, <2>1, <2>2, <2>3, <2>5, WheelStill, NothingRead
<1>7. CASE Hub!Restored
  <2>1. /\ ask["restore"].step = "answered" /\ ask["restore"].answer = "paid"
        /\ told' = [told EXCEPT !["restore"] = @ + ask["restore"].n]
        /\ ask' = [ask EXCEPT !["restore"] = Hub!Idle] /\ busy' = [busy EXCEPT !["restore"] = FALSE]
        /\ UNCHANGED <<due, got, fetches, fetched, view, held, missed, wheel, landed>>
    BY <1>7 DEF Hub!Restored, Hub!Has, Hub!Say, Hub!Free, Hub!Worth
  <2>2. HubTypes'
    BY <1>0, <1>a, <2>1 DEF HubTypes, HubCall
  <2>3. /\ ask'["restore"] = Hub!Idle /\ busy'["restore"] = FALSE /\ told'["restore"] = told["restore"] + ask["restore"].n
        /\ \A o \in Hub!Offers \ {"restore"} : ask'[o] = ask[o] /\ busy'[o] = busy[o] /\ told'[o] = told[o]
    BY <1>a, <2>1 DEF HubTypes
  <2>4. ButtonOK("restore")'
    <3>1. ButtonOK("restore")
      BY <1>a
    <3> QED BY <1>0, <1>a, <2>1, <2>3, <3>1 DEF HubTypes, HubCall, ButtonOK, Pending, Hub!Worth
  <2>5. \A o \in Hub!Offers : ButtonOK(o)'
    BY <1>a, <2>1, <2>2, <2>3, <2>4, ButtonsStep
  <2> QED BY <1>a, <2>1, <2>2, <2>3, <2>5, WheelStill, NothingRead
<1>8. CASE Hub!Accrue
  <2>1. /\ due' = [due EXCEPT !["tickets"] = @ + 1]
        /\ UNCHANGED <<got, fetches, fetched, view, held, ask, busy, told, missed, wheel, landed>>
    BY <1>8 DEF Hub!Accrue
  <2>2. HubTypes'
    BY <1>a, <2>1 DEF HubTypes
  <2>3. \A o \in Hub!Offers : ButtonOK(o)'
    BY <2>1 DEF HubTypes, ButtonOK, Pending, Hub!Worth
  <2> QED BY <2>1, <2>2, <2>3, WheelStill, NothingRead
<1>9. CASE Hub!NewDay
  <2>1. /\ due' = [o \in Hub!Offers |-> IF o \in Hub!Daily THEN 1 ELSE due[o]]
        /\ wheel' = [wheel EXCEPT !.cooling = FALSE]
        /\ UNCHANGED <<got, fetches, fetched, view, held, ask, busy, told, missed, landed>>
    BY <1>9 DEF Hub!NewDay
  <2>2. HubTypes'
    BY <2>1 DEF HubTypes
  <2>3. \A o \in Hub!Offers : ButtonOK(o)'
    BY <2>1 DEF HubTypes, ButtonOK, Pending, Hub!Worth
  <2>4. wheel'.turning = wheel.turning /\ wheel'.to = wheel.to
    BY <2>1 DEF HubTypes
  <2>5. WheelOK'
    BY <2>1, <2>4 DEF WheelOK, Hub!WheelStopsOnPrize, Hub!Target, Hub!Pointer, Hub!Circle
  <2> QED BY <2>1, <2>2, <2>3, <2>5, NothingRead
<1>10. ASSUME NEW l \in fetches, Hub!Serve(l) PROVE HubInv'
  <2>1. PICK step \in {"read", "failed"} :
           fetches' = (fetches \ {l}) \cup {[l EXCEPT !.step = step, !.due = Hub!ReadOf(l.view).due, !.held = Hub!ReadOf(l.view).held]}
    BY <1>10 DEF Hub!Serve
  <2>2. UNCHANGED <<due, got, fetched, view, held, ask, busy, told, missed, wheel, landed>>
    BY <1>10 DEF Hub!Serve
  <2>3. Hub!ReadOf(l.view).due \in Nat /\ Hub!ReadOf(l.view).held \in Nat
        /\ (l.view = "raffle" => Hub!ReadOf(l.view).held = got["tickets"])
    BY <1>a DEF HubTypes, HubRead, Hub!ReadOf, Hub!CheckInStatus, Hub!ActiveRaffle, Hub!StreakState
  <2>4. PICK done : done = [l EXCEPT !.step = step, !.due = Hub!ReadOf(l.view).due, !.held = Hub!ReadOf(l.view).held]
    OBVIOUS
  <2>5. /\ done \in HubRead /\ done.n = l.n /\ done.view = l.view
        /\ (l.view = "raffle" => done.held = got["tickets"])
    BY <2>3, <2>4 DEF HubTypes, HubRead
  <2>6. HubTypes'
    BY <2>1, <2>2, <2>4, <2>5 DEF HubTypes
  <2>7. \A o \in Hub!Offers : ButtonOK(o)'
    BY <2>2 DEF ButtonOK, Pending, Hub!Worth
  <2>8. told["tickets"] <= got["tickets"]
    <3>1. ButtonOK("tickets") /\ Pending("tickets") \in Nat
      BY <1>a DEF Pending, Hub!Worth, HubTypes, HubCall
    <3> QED BY <1>a, <3>1 DEF ButtonOK, HubTypes
  <2>9. RaffleReads'
    BY <2>1, <2>2, <2>4, <2>5, <2>8 DEF RaffleReads
  <2> QED BY <2>2, <2>6, <2>7, <2>9, WheelStill
<1>11. ASSUME NEW l \in fetches, Hub!TakeOverview(l) PROVE HubInv'
  <2>1. Hub!Arrives(l) /\ l.view = "overview" /\ held' = held
        /\ (view' = [view EXCEPT !["overview"] = l.n] \/ view' = view)
    BY <1>11 DEF Hub!TakeOverview
  <2>2. /\ ask' \in [Hub!Offers -> HubCall] /\ busy' \in [Hub!Offers -> BOOLEAN] /\ fetches' = fetches \ {l}
        /\ \A o \in Hub!Offers : ButtonOK(o)'
        /\ WheelOK'
        /\ UNCHANGED <<due, got, told, missed, fetched, wheel, landed>>
    BY <2>1, ReadsEnd
  <2>3. HubTypes'
    BY <1>a, <2>1, <2>2 DEF HubTypes, HubRead
  <2>4. view'["raffle"] = view["raffle"] /\ \A v \in Hub!Views : view'[v] <= fetched[v]
    BY <1>a, <2>1 DEF HubTypes, RaffleReads, HubRead
  <2>5. RaffleReads'
    BY <2>1, <2>2, <2>4 DEF RaffleReads
  <2> QED BY <2>2, <2>3, <2>5
<1>12. ASSUME NEW l \in fetches, Hub!TakeRaffle(l) PROVE HubInv'
  <2>1. /\ Hub!Arrives(l) /\ l.view = "raffle"
        /\ view' = [view EXCEPT !["raffle"] = IF l.step = "read" THEN l.n ELSE 0]
        /\ held' = IF l.step = "read" THEN l.held ELSE held
    BY <1>12 DEF Hub!TakeRaffle
  <2>2. /\ ask' \in [Hub!Offers -> HubCall] /\ busy' \in [Hub!Offers -> BOOLEAN] /\ fetches' = fetches \ {l}
        /\ \A o \in Hub!Offers : ButtonOK(o)'
        /\ WheelOK'
        /\ UNCHANGED <<due, got, told, missed, fetched, wheel, landed>>
    BY <2>1, ReadsEnd
  <2>3. HubTypes'
    BY <1>a, <2>1, <2>2 DEF HubTypes, HubRead
  <2>4. /\ l.n \in Nat \ {0} /\ l.n <= fetched["raffle"] /\ fetched["raffle"] \in Nat
        /\ view'["raffle"] = IF l.step = "read" THEN l.n ELSE 0
        /\ \A v \in Hub!Views \ {"raffle"} : view'[v] = view[v]
    BY <1>a, <2>1 DEF HubTypes, RaffleReads, HubRead
  <2>5. \A v \in Hub!Views : view'[v] <= fetched[v]
    BY <2>4 DEF HubTypes, RaffleReads
  <2>6. view'["raffle"] = fetched["raffle"] => held' >= told["tickets"]
    BY <2>1, <2>4 DEF RaffleReads
  <2>7. RaffleReads'
    BY <2>2, <2>5, <2>6 DEF RaffleReads
  <2> QED BY <2>2, <2>3, <2>7
<1>13. ASSUME NEW l \in fetches, Hub!TakeStreak(l) PROVE HubInv'
  <2>1. Hub!Arrives(l) /\ l.view = "streak" /\ held' = held /\ view' = [view EXCEPT !["streak"] = l.n]
    BY <1>13 DEF Hub!TakeStreak
  <2>2. /\ ask' \in [Hub!Offers -> HubCall] /\ busy' \in [Hub!Offers -> BOOLEAN] /\ fetches' = fetches \ {l}
        /\ \A o \in Hub!Offers : ButtonOK(o)'
        /\ WheelOK'
        /\ UNCHANGED <<due, got, told, missed, fetched, wheel, landed>>
    BY <2>1, ReadsEnd
  <2>3. HubTypes'
    BY <1>a, <2>1, <2>2 DEF HubTypes, HubRead
  <2>4. view'["raffle"] = view["raffle"] /\ \A v \in Hub!Views : view'[v] <= fetched[v]
    BY <1>a, <2>1 DEF HubTypes, RaffleReads, HubRead
  <2>5. RaffleReads'
    BY <2>1, <2>2, <2>4 DEF RaffleReads
  <2> QED BY <2>2, <2>3, <2>5
<1>14. ASSUME NEW o \in Hub!Offers, Hub!Claim(o) PROVE HubInv'
  <2>1. /\ ~busy[o] /\ busy' = [busy EXCEPT ![o] = TRUE]
        /\ ask' = [ask EXCEPT ![o] = [Hub!Idle EXCEPT !.step = "asked"]]
        /\ UNCHANGED <<due, got, fetches, fetched, view, held, told, missed, wheel, landed>>
    BY <1>14 DEF Hub!Claim
  <2>2. PICK started : started = [Hub!Idle EXCEPT !.step = "asked"]
    OBVIOUS
  <2>3. started \in HubCall /\ started.step = "asked" /\ started.answer = "none"
    BY <2>2 DEF Hub!Idle, HubCall
  <2>4. HubTypes'
    BY <2>1, <2>2, <2>3 DEF HubTypes
  <2>5. /\ ask'[o] = started /\ busy'[o] = TRUE
        /\ \A p \in Hub!Offers \ {o} : ask'[p] = ask[p] /\ busy'[p] = busy[p]
    BY <2>1, <2>2 DEF HubTypes
  <2>6. ButtonOK(o)'
    BY <2>1, <2>3, <2>5 DEF HubTypes, ButtonOK, Pending, Hub!Worth
  <2>7. \A p \in Hub!Offers : ButtonOK(p)'
    BY <2>1, <2>4, <2>5, <2>6, ButtonsStep
  <2>8. WheelOK'
    <3>1. CASE o = "wheel"
      <4>1. ask["wheel"].step = "idle"
        BY <2>1, <3>1 DEF ButtonOK
      <4> QED BY <2>1, <2>3, <2>5, <3>1, <4>1 DEF WheelOK, Hub!WheelStopsOnPrize
    <3>2. CASE o # "wheel"
      BY <1>a, <2>1, <2>5, <3>2, WheelStill
    <3> QED BY <3>1, <3>2
  <2> QED BY <2>1, <2>4, <2>7, <2>8, NothingRead
<1>15. ASSUME NEW o \in Hub!Offers, Hub!Pay(o) PROVE HubInv'
  <2>1. /\ ask[o].step = "asked" /\ due[o] > 0
        /\ due' = [due EXCEPT ![o] = 0] /\ got' = [got EXCEPT ![o] = @ + due[o]]
        /\ UNCHANGED <<fetches, fetched, view, held, busy, told, missed, wheel, landed>>
    BY <1>15 DEF Hub!Pay
  <2>2. PICK n \in (IF o = "wheel" THEN 0..(Slices - 1) ELSE {due[o]}) :
          ask' = [ask EXCEPT ![o].step = "answered", ![o].answer = "paid", ![o].n = n]
    BY <1>15 DEF Hub!Pay
  <2>3. n \in Nat /\ due[o] \in Nat /\ (o = "wheel" => n \in 0..(Slices - 1)) /\ (o # "wheel" => n = due[o])
    BY <2>2 DEF HubTypes, Hub!RewardsPageAssumption
  <2>4. HubTypes'
    <3>1. [ask[o] EXCEPT !.step = "answered", !.answer = "paid", !.n = n] \in HubCall
      <4>1. PICK c \in HubCall : c = ask[o]
        BY DEF HubTypes
      <4>2. [c EXCEPT !.step = "answered", !.answer = "paid", !.n = n] \in HubCall
        BY <2>3 DEF HubCall
      <4> QED BY <4>1, <4>2
    <3>2. ask' = [ask EXCEPT ![o] = [ask[o] EXCEPT !.step = "answered", !.answer = "paid", !.n = n]]
      BY <2>2 DEF HubTypes
    <3>3. ask' \in [Hub!Offers -> HubCall]
      BY <3>1, <3>2 DEF HubTypes
    <3>4. due' \in [Hub!Offers -> Nat] /\ got' \in [Hub!Offers -> Nat]
      BY <2>1, <2>3 DEF HubTypes
    <3> QED BY <2>1, <3>3, <3>4 DEF HubTypes
  <2>5. /\ ask'[o].step = "answered" /\ ask'[o].answer = "paid" /\ ask'[o].n = n
        /\ due'[o] = 0 /\ got'[o] = got[o] + due[o]
        /\ \A p \in Hub!Offers \ {o} : ask'[p] = ask[p] /\ due'[p] = due[p] /\ got'[p] = got[p]
    BY <2>1, <2>2 DEF HubTypes, HubCall
  <2>6. ButtonOK(o)'
    <3>1. o = "wheel" => due[o] = 1
      BY <2>1, <2>3 DEF ButtonOK
    <3> QED BY <2>1, <2>3, <2>5, <3>1 DEF HubTypes, ButtonOK, Pending, Hub!Worth
  <2>7. \A p \in Hub!Offers : ButtonOK(p)'
    BY <2>1, <2>4, <2>5, <2>6, ButtonsStep
  <2>8. WheelOK'
    <3>1. CASE o = "wheel"
      BY <2>1, <2>3, <2>5, <3>1 DEF WheelOK, Hub!WheelStopsOnPrize
    <3>2. CASE o # "wheel"
      BY <1>a, <2>1, <2>5, <3>2, WheelStill
    <3> QED BY <3>1, <3>2
  <2> QED BY <2>1, <2>4, <2>7, <2>8, NothingRead
<1>16. ASSUME NEW o \in Hub!Offers, Hub!Refuse(o) \/ Hub!Lose(o) PROVE HubInv'
  <2>1. PICK answer \in {"refused", "unauthorized", "lost"} :
          /\ ask' = [ask EXCEPT ![o].step = "answered", ![o].answer = answer]
          /\ ask[o].step \in {"asked", "answered"}
          /\ \/ missed' = missed /\ ask[o].step = "asked"
             \/ missed' = [missed EXCEPT ![o] = @ + (IF ask[o].answer = "paid" THEN Hub!Worth(o) ELSE 0)]
          /\ UNCHANGED <<due, got, fetches, fetched, view, held, busy, told, wheel, landed>>
    <3>1. CASE Hub!Refuse(o)
      BY <3>1 DEF Hub!Refuse
    <3>2. CASE Hub!Lose(o)
      BY <3>2 DEF Hub!Lose
    <3> QED BY <1>16, <3>1, <3>2
  <2>2. /\ ask'[o].step = "answered" /\ ask'[o].answer = answer
        /\ \A p \in Hub!Offers \ {o} : ask'[p] = ask[p]
        /\ ask' \in [Hub!Offers -> HubCall]
    <3>1. PICK given : given = [ask[o] EXCEPT !.step = "answered", !.answer = answer]
      OBVIOUS
    <3>2. given \in HubCall /\ given.step = "answered" /\ given.answer = answer
      BY <3>1 DEF HubTypes, HubCall
    <3>3. ask' = [ask EXCEPT ![o] = given]
      BY <2>1, <3>1 DEF HubTypes
    <3> QED BY <3>2, <3>3 DEF HubTypes
  <2>3. Hub!Worth(o) \in Nat
    BY DEF Hub!Worth, HubTypes, HubCall
  <2>4. /\ missed' \in [Hub!Offers -> Nat] /\ \A p \in Hub!Offers \ {o} : missed'[p] = missed[p]
        /\ missed'[o] = missed[o] + Pending(o)
    <3>1. Pending(o) = IF ask[o].answer = "paid" /\ ask[o].step = "answered" THEN Hub!Worth(o) ELSE 0
      BY <2>1 DEF Pending
    <3>2. ask[o].step = "asked" => ask[o].answer # "paid"
      BY DEF ButtonOK
    <3> QED BY <2>1, <2>3, <3>1, <3>2 DEF HubTypes
  <2>5. HubTypes'
    BY <2>1, <2>2, <2>4 DEF HubTypes
  <2>6. ButtonOK(o)'
    <3>1. Pending(o)' = 0
      BY <2>2 DEF Pending
    <3>2. Pending(o) \in Nat
      BY <2>3 DEF Pending
    <3> QED BY <2>1, <2>2, <2>4, <3>1, <3>2 DEF HubTypes, ButtonOK
  <2>7. \A p \in Hub!Offers : ButtonOK(p)'
    BY <2>1, <2>2, <2>4, <2>5, <2>6, ButtonsStep
  <2>8. WheelOK'
    <3>1. CASE o = "wheel"
      BY <2>1, <2>2, <3>1 DEF WheelOK, Hub!WheelStopsOnPrize
    <3>2. CASE o # "wheel"
      BY <1>a, <2>1, <2>2, <3>2, WheelStill
    <3> QED BY <3>1, <3>2
  <2> QED BY <2>1, <2>5, <2>7, <2>8, NothingRead
<1>17. ASSUME NEW o \in Hub!Offers, Hub!Claimed(o) PROVE HubInv'
  <2>1. /\ o \in {"checkin", "tickets"} /\ ask[o].step = "answered" /\ ask[o].answer = "paid"
        /\ told' = [told EXCEPT ![o] = @ + ask[o].n] /\ Hub!Ask({Hub!ReloadOf(o)})
        /\ ask' = [ask EXCEPT ![o] = [Hub!Idle EXCEPT !.step = "reloading", !.load = fetched'[Hub!ReloadOf(o)]]]
        /\ UNCHANGED <<due, got, view, held, busy, missed, wheel, landed>>
    BY <1>17 DEF Hub!Claimed, Hub!Has, Hub!Say, Hub!Worth
  <2>2. told' \in [Hub!Offers -> Nat] /\ told'[o] = told[o] + ask[o].n
        /\ \A p \in Hub!Offers \ {o} : told'[p] = told[p]
    BY <2>1 DEF HubTypes, HubCall
  <2>3. {Hub!ReloadOf(o)} \in SUBSET Hub!Views /\ (told'["tickets"] = told["tickets"] \/ "raffle" \in {Hub!ReloadOf(o)})
    BY <1>a, <2>1, <2>2 DEF Hub!ReloadOf
  <2>4. fetches' \subseteq HubRead /\ fetched' \in [Hub!Views -> Nat] /\ RaffleReads'
    BY <2>1, <2>2, <2>3, ReadsStart
  <2>5. PICK reloads : reloads = [Hub!Idle EXCEPT !.step = "reloading", !.load = fetched'[Hub!ReloadOf(o)]]
    OBVIOUS
  <2>6. reloads \in HubCall /\ reloads.step = "reloading"
    BY <2>3, <2>4, <2>5 DEF Hub!Idle, HubCall
  <2>7. ask' \in [Hub!Offers -> HubCall] /\ ask'[o] = reloads /\ \A p \in Hub!Offers \ {o} : ask'[p] = ask[p]
    BY <2>1, <2>5, <2>6 DEF HubTypes
  <2>8. HubTypes'
    BY <2>1, <2>2, <2>4, <2>7 DEF HubTypes
  <2>9. ButtonOK(o)'
    BY <2>1, <2>2, <2>6, <2>7 DEF HubTypes, HubCall, ButtonOK, Pending, Hub!Worth
  <2>10. \A p \in Hub!Offers : ButtonOK(p)'
    BY <2>1, <2>2, <2>7, <2>8, <2>9, ButtonsStep
  <2>11. WheelOK'
    BY <1>a, <2>1, <2>7, WheelStill
  <2> QED BY <2>4, <2>8, <2>10, <2>11
<1>18. ASSUME NEW o \in Hub!Offers, Hub!NotClaimed(o) PROVE HubInv'
  <2>1. /\ o # "wheel" /\ ask[o].step = "answered" /\ ask[o].answer # "paid"
        /\ ask' = [ask EXCEPT ![o] = Hub!Idle] /\ busy' = [busy EXCEPT ![o] = FALSE]
        /\ UNCHANGED <<due, got, fetches, fetched, view, held, told, missed, wheel, landed>>
    BY <1>18 DEF Hub!NotClaimed, Hub!Has, Hub!Free
  <2>2. HubTypes'
    BY <1>0, <2>1 DEF HubTypes
  <2>3. /\ ask'[o] = Hub!Idle /\ busy'[o] = FALSE
        /\ \A p \in Hub!Offers \ {o} : ask'[p] = ask[p] /\ busy'[p] = busy[p]
    BY <2>1 DEF HubTypes
  <2>4. ButtonOK(o)'
    BY <1>0, <2>1, <2>3 DEF HubTypes, ButtonOK, Pending, Hub!Worth
  <2>5. \A p \in Hub!Offers : ButtonOK(p)'
    BY <2>1, <2>2, <2>3, <2>4, ButtonsStep
  <2> QED BY <1>a, <2>1, <2>2, <2>3, <2>5, WheelStill, NothingRead
<1>19. ASSUME NEW o \in Hub!Offers, Hub!SessionOver(o) PROVE HubInv'
  <2>1. UNCHANGED <<due, got, fetches, fetched, view, held, ask, busy, told, missed, wheel, landed>>
    BY <1>19 DEF Hub!SessionOver
  <2>2. HubTypes' /\ \A p \in Hub!Offers : ButtonOK(p)'
    BY <2>1 DEF HubTypes, ButtonOK, Pending, Hub!Worth
  <2> QED BY <2>1, <2>2, WheelStill, NothingRead
<1> QED
  BY <1>1, <1>2, <1>3, <1>4, <1>5, <1>6, <1>7, <1>8, <1>9, <1>10, <1>11, <1>12, <1>13, <1>14, <1>15, <1>16,
     <1>17, <1>18, <1>19 DEF Hub!Next

LEMMA HubHolds ==
  ASSUME HubInv
  PROVE  Hub!TicketsAreShown /\ Hub!ButtonsComeBack /\ Hub!SaidIsPaid /\ Hub!WheelStopsOnPrize
<1> USE DEF HubInv
<1>1. Hub!TicketsAreShown
  BY DEF Hub!TicketsAreShown, RaffleReads
<1>2. Hub!ButtonsComeBack
  BY DEF Hub!ButtonsComeBack, ButtonOK, Hub!Idle
<1>3. ASSUME NEW o \in Hub!Offers
      PROVE  told[o] <= got[o] /\ (ask[o].step \in {"idle", "reloading"} => told[o] + missed[o] = got[o])
  <2>1. Pending(o) \in Nat /\ (ask[o].step \in {"idle", "reloading"} => Pending(o) = 0)
    BY DEF Pending, Hub!Worth, HubTypes, HubCall
  <2> QED BY <2>1 DEF ButtonOK, HubTypes
<1> QED BY <1>1, <1>2, <1>3 DEF Hub!SaidIsPaid, WheelOK

-----------------------------------------------------------------------------
(* Live support, whose invariant is kept by its own module's steps *)

HelpLine == INSTANCE SupportProofs WITH tickets <- cases, call <- asking

\* A step of the instance here is one of the instance that was proved about.
LEMMA SameHelp == ASSUME Help!Next PROVE HelpLine!Next
<1> USE DEF Help!Writers, HelpLine!Writers, Help!Writing, HelpLine!Writing,
        Help!rowVars, HelpLine!rowVars, Help!pageVars, HelpLine!pageVars,
        Help!wireVars, HelpLine!wireVars, Help!Nobody, HelpLine!Nobody, Help!Idle, HelpLine!Idle,
        Help!NotAsked, HelpLine!NotAsked, Help!Asked, HelpLine!Asked,
        Help!Answered, HelpLine!Answered, Help!Ascending, HelpLine!Ascending,
        Help!Kept, HelpLine!Kept, Help!Thread, HelpLine!Thread, Help!OpenOf, HelpLine!OpenOf,
        Help!Bumped, HelpLine!Bumped, Help!Owner, HelpLine!Owner, Help!Sender, HelpLine!Sender,
        Help!Step, HelpLine!Step, Help!Listed, HelpLine!Listed, Help!Selected, HelpLine!Selected,
        Help!Reopened, HelpLine!Reopened, Help!Push, HelpLine!Push,
        Help!TicketFrame, HelpLine!TicketFrame, Help!MessageFrame, HelpLine!MessageFrame,
        Help!Answering, HelpLine!Answering, Help!Absorb, HelpLine!Absorb, Help!Row, HelpLine!Row,
        Help!At, HelpLine!At, Help!Load, HelpLine!Load, Help!AbsorbReply, HelpLine!AbsorbReply,
        Help!Contains, HelpLine!Contains, Help!RemoveAt, HelpLine!RemoveAt,
        Help!ToSet, HelpLine!ToSet, Help!Cardinality, HelpLine!Cardinality
<1>1. ASSUME NEW w \in Help!Writers, Help!Ask(w) PROVE HelpLine!Ask(w)
  BY <1>1 DEF Help!Ask, HelpLine!Ask
<1>2. ASSUME NEW w \in Help!Writers, Help!FindTicket(w) PROVE HelpLine!FindTicket(w)
  BY <1>2 DEF Help!FindTicket, HelpLine!FindTicket
<1>3. ASSUME NEW w \in Help!Writers, Help!CreateTicket(w) PROVE HelpLine!CreateTicket(w)
  BY <1>3 DEF Help!CreateTicket, HelpLine!CreateTicket
<1>4. ASSUME NEW w \in Help!Writers, Help!Write(w) PROVE HelpLine!Write(w)
  BY <1>4 DEF Help!Write, HelpLine!Write
<1>5. ASSUME NEW w \in Help!Writers, Help!WriteFails(w) PROVE HelpLine!WriteFails(w)
  BY <1>5 DEF Help!WriteFails, HelpLine!WriteFails
<1>6. ASSUME NEW w \in Help!Writers, Help!Broadcast(w) PROVE HelpLine!Broadcast(w)
  BY <1>6 DEF Help!Broadcast, HelpLine!Broadcast
<1>7. ASSUME Help!Replied PROVE HelpLine!Replied
  BY <1>7 DEF Help!Replied, HelpLine!Replied
<1>8. ASSUME Help!ClosedAnswered PROVE HelpLine!ClosedAnswered
  BY <1>8 DEF Help!ClosedAnswered, HelpLine!ClosedAnswered
<1>9. ASSUME Help!OpenPanel PROVE HelpLine!OpenPanel
  BY <1>9 DEF Help!OpenPanel, HelpLine!OpenPanel
<1>10. ASSUME Help!ClosePanel PROVE HelpLine!ClosePanel
  BY <1>10 DEF Help!ClosePanel, HelpLine!ClosePanel
<1>11. ASSUME Help!ReadMe PROVE HelpLine!ReadMe
  BY <1>11 DEF Help!ReadMe, HelpLine!ReadMe
<1>12. ASSUME Help!Restored PROVE HelpLine!Restored
  BY <1>12 DEF Help!Restored, HelpLine!Restored
<1>13. ASSUME Help!RestoreFails PROVE HelpLine!RestoreFails
  BY <1>13 DEF Help!RestoreFails, HelpLine!RestoreFails
<1>14. ASSUME Help!ChatFrame PROVE HelpLine!ChatFrame
  BY <1>14 DEF Help!ChatFrame, HelpLine!ChatFrame
<1>15. ASSUME Help!SendAnswered PROVE HelpLine!SendAnswered
  BY <1>15 DEF Help!SendAnswered, HelpLine!SendAnswered
<1>16. ASSUME Help!Poll PROVE HelpLine!Poll
  BY <1>16 DEF Help!Poll, HelpLine!Poll
<1>17. ASSUME Help!DeskFrame PROVE HelpLine!DeskFrame
  BY <1>17 DEF Help!DeskFrame, HelpLine!DeskFrame
<1>18. ASSUME Help!Cut PROVE HelpLine!Cut
  BY <1>18 DEF Help!Cut, HelpLine!Cut
<1>19. ASSUME NEW i \in 1..Len(loads), Help!ReadQueue(i) PROVE HelpLine!ReadQueue(i)
  BY <1>19 DEF Help!ReadQueue, HelpLine!ReadQueue
<1>20. ASSUME NEW i \in 1..Len(loads), Help!Loaded(i) PROVE HelpLine!Loaded(i)
  BY <1>20 DEF Help!Loaded, HelpLine!Loaded
<1>21. ASSUME NEW i \in 1..Len(loads), Help!LoadFails(i) PROVE HelpLine!LoadFails(i)
  BY <1>21 DEF Help!LoadFails, HelpLine!LoadFails
<1>22. ASSUME NEW t \in 1..Len(cases), Help!Reply(t) PROVE HelpLine!Reply(t)
  BY <1>22 DEF Help!Reply, HelpLine!Reply
<1>23. ASSUME NEW t \in 1..Len(cases), Help!Close(t) PROVE HelpLine!Close(t)
  BY <1>23 DEF Help!Close, HelpLine!Close
<1>24. ASSUME NEW t \in 1..Len(cases), Help!Select(t) PROVE HelpLine!Select(t)
  BY <1>24 DEF Help!Select, HelpLine!Select
<1> HIDE DEF Help!Writing, HelpLine!Writing, Help!rowVars, HelpLine!rowVars,
        Help!pageVars, HelpLine!pageVars, Help!wireVars, HelpLine!wireVars,
        Help!Nobody, HelpLine!Nobody, Help!Idle, HelpLine!Idle, Help!NotAsked, HelpLine!NotAsked,
        Help!Asked, HelpLine!Asked, Help!Answered, HelpLine!Answered,
        Help!Ascending, HelpLine!Ascending, Help!Kept, HelpLine!Kept, Help!Thread, HelpLine!Thread,
        Help!OpenOf, HelpLine!OpenOf, Help!Bumped, HelpLine!Bumped, Help!Owner, HelpLine!Owner,
        Help!Sender, HelpLine!Sender, Help!Step, HelpLine!Step, Help!Listed, HelpLine!Listed,
        Help!Selected, HelpLine!Selected, Help!Reopened, HelpLine!Reopened,
        Help!Push, HelpLine!Push, Help!TicketFrame, HelpLine!TicketFrame,
        Help!MessageFrame, HelpLine!MessageFrame, Help!Answering, HelpLine!Answering,
        Help!Absorb, HelpLine!Absorb, Help!Row, HelpLine!Row, Help!At, HelpLine!At,
        Help!Load, HelpLine!Load, Help!AbsorbReply, HelpLine!AbsorbReply,
        Help!Contains, HelpLine!Contains, Help!RemoveAt, HelpLine!RemoveAt,
        Help!ToSet, HelpLine!ToSet, Help!Cardinality, HelpLine!Cardinality
<1> QED BY <1>1, <1>2, <1>3, <1>4, <1>5, <1>6, <1>7, <1>8, <1>9, <1>10, <1>11, <1>12, <1>13, <1>14, <1>15, <1>16, <1>17, <1>18, <1>19, <1>20, <1>21, <1>22, <1>23, <1>24 DEF Help!Next, HelpLine!Next

LEMMA HelpInit == ASSUME Help!Init PROVE HelpLine!HelpInv
<1>1. HelpLine!Init
  BY DEF Help!Init, HelpLine!Init, Help!Writers, HelpLine!Writers, Help!Writing, HelpLine!Writing,
         Help!Idle, HelpLine!Idle, Help!Nobody, HelpLine!Nobody, Help!NotAsked, HelpLine!NotAsked
<1> QED BY <1>1, HelpLine!HelpStarts

LEMMA HelpStep == ASSUME HelpLine!HelpInv, Help!Next \/ UNCHANGED supportVars PROVE HelpLine!HelpInv'
<1>1. HelpLine!Next \/ UNCHANGED HelpLine!vars
  BY SameHelp DEF supportVars, HelpLine!vars
<1> QED BY <1>1, HelpLine!HelpGoesOn

LEMMA HelpHolds ==
  ASSUME HelpLine!HelpInv
  PROVE  Help!ShownOnce /\ Help!NothingBuried /\ Help!PanelIsCurrent
<1>1. HelpLine!ShownOnce /\ HelpLine!NothingBuried /\ HelpLine!PanelIsCurrent
  BY HelpLine!HelpPromises
<1>2. Help!ShownOnce
  BY <1>1 DEF Help!ShownOnce, HelpLine!ShownOnce, Help!IsInjective, HelpLine!IsInjective, Help!ToSet,
              HelpLine!ToSet
<1>3. Help!NothingBuried
  BY <1>1 DEF Help!NothingBuried, HelpLine!NothingBuried, Help!ToSet, HelpLine!ToSet
<1>4. Help!PanelIsCurrent
  BY <1>1 DEF Help!PanelIsCurrent, HelpLine!PanelIsCurrent, Help!ToSet, HelpLine!ToSet,
              Help!OpenOf, HelpLine!OpenOf, Help!Thread, HelpLine!Thread, Help!Kept, HelpLine!Kept,
              Help!Ascending, HelpLine!Ascending, Help!Cardinality, HelpLine!Cardinality,
              Help!Writers, HelpLine!Writers, Help!NotAsked, HelpLine!NotAsked
<1> QED BY <1>2, <1>3, <1>4

-----------------------------------------------------------------------------
(* The parts together *)

DoneInv == StreakInv /\ RaffleInv /\ SignInInv /\ HubInv /\ HelpLine!HelpInv

LEMMA DoneInit == ASSUME PlatformInit PROVE DoneInv
<1>1. Streaks!Init /\ Giveaway!Init /\ Entrance!Init /\ Hub!Init /\ Help!Init
  BY DEF PlatformInit
<1> QED BY <1>1, PlatformAssumption, StreakInit, RaffleInit, SignInInit, HubInit, HelpInit
        DEF PlatformAssumption, DoneInv

\* A part that does not move keeps its invariant.
LEMMA StreakRests == ASSUME StreakInv, UNCHANGED streakVars PROVE StreakInv'
BY DEF streakVars, StreakInv, StreakTypes, Gone, Spare, Since, Taken, Claimed, Offers

LEMMA RaffleRests == ASSUME RaffleInv, UNCHANGED raffleVars PROVE RaffleInv'
BY DEF raffleVars, RaffleInv, RaffleTypes, NumberedApart, RecordsOK, ClaimOK, Before, EntryOK, Giveaway!From, Giveaway!View

LEMMA SignInRests == ASSUME SignInInv, UNCHANGED signInVars PROVE SignInInv'
BY DEF signInVars, SignInInv, PageTypes, AnswerOK, TokenOK, CountdownOK, ViewOK, Entrance!NeverReplayed,
       Entrance!ResendIsWelcome, Entrance!CodeHasItsChallenge

LEMMA HubRests == ASSUME HubInv, UNCHANGED hubVars PROVE HubInv'
BY DEF hubVars, HubInv, HubTypes, Pending, ButtonOK, WheelOK, RaffleReads, Hub!Worth, Hub!Target,
       Hub!WheelStopsOnPrize

LEMMA DoneStep == ASSUME DoneInv, [PlatformNext]_platformVars PROVE DoneInv'
<1>1. /\ Streaks!Next \/ UNCHANGED streakVars
      /\ Giveaway!Next \/ UNCHANGED raffleVars
      /\ Entrance!Next \/ UNCHANGED signInVars
      /\ Hub!Next \/ UNCHANGED hubVars
      /\ Help!Next \/ UNCHANGED supportVars
  BY DEF PlatformNext, platformVars
<1>2. StreakInv'
  BY <1>1, PlatformAssumption, StreakStep, StreakRests DEF DoneInv, PlatformAssumption
<1>3. RaffleInv'
  BY <1>1, PlatformAssumption, RaffleStep, RaffleRests DEF DoneInv, PlatformAssumption
<1>4. SignInInv'
  BY <1>1, PlatformAssumption, SignInStep, SignInRests DEF DoneInv, PlatformAssumption
<1>5. HubInv'
  BY <1>1, PlatformAssumption, HubStep, HubRests DEF DoneInv, PlatformAssumption
<1>6. HelpLine!HelpInv'
  BY <1>1, HelpStep DEF DoneInv
<1> QED BY <1>2, <1>3, <1>4, <1>5, <1>6 DEF DoneInv

\* What is asked for once is done once, and said as it was done.  A solved challenge is sent
\* once, with the code it was for (login, HumanCheck.tsx); a streak that broke is charged for
\* once, and once more for each play that wrote over a claim made since it read the row
\* (streak.service.ts, streak.routes.ts); the tickets of the giveaway were earned and are
\* numbered apart (raffle.service.ts); a message of support is on screen once and in its
\* thread (support.routes.ts); the hub shows what was paid (rewards hub).
THEOREM DoneOnlyOnce == PlatformSpec => []DoneOnce
<1>1. PlatformInit => DoneInv
  BY DoneInit
<1>2. DoneInv /\ [PlatformNext]_platformVars => DoneInv'
  BY DoneStep
<1>3. DoneInv => DoneOnce
  BY PlatformAssumption, StreakHolds, RaffleHolds, SignInHolds, HubHolds, HelpHolds
     DEF DoneInv, DoneOnce, PlatformAssumption
<1> QED BY <1>1, <1>2, <1>3, PTL DEF PlatformSpec
=============================================================================
