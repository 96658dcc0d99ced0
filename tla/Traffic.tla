-------------------------------- MODULE Traffic --------------------------------
(***************************************************************************)
(* One lane of the Chicken Road board as ChickenRoad.tsx drives it: cars   *)
(* that spawn, follow and leave, the gate that closes behind the hop, and  *)
(* the car that is launched when the server decided the hop is lost.  The  *)
(* lanes share nothing but the frame clock, so one stands for all.         *)
(*                                                                         *)
(* Distances along the lane are whole numbers; a car covers its speed in a *)
(* unit of time.  A frame moves the cars by no more than one unit, however *)
(* long it took, while hops are timed by the clock.                        *)
(***************************************************************************)
EXTENDS Integers, Sequences, TLC

CONSTANTS
  CarHalf, FollowGap,  \* half a car, and the air kept between two
  Gate, Row, Exit,     \* the gate, the row the chicken walks, the end of the lane
  Speeds, Gaps,        \* what randomBetween draws from
  HopTime, Reach,      \* HOP_MS; how much of it before the bird is over the lane
  Grace,               \* 500 ms after the landing of a lost hop
  Longest,             \* bound: the longest frame
  MaxCars              \* bound: cars made in a behaviour

CarLen == 2 * CarHalf
Entry == -(CarHalf + 1)
StopLine == Gate - CarHalf

TrafficAssumption ==
  /\ {CarHalf, FollowGap, HopTime, Reach, Grace, Longest} \subseteq Nat \ {0}
  /\ 0 < StopLine /\ Gate < Row - CarHalf /\ Row + CarHalf < Exit
  /\ Speeds \subseteq Nat \ {0} /\ Gaps \subseteq Nat \ {0} /\ Reach <= HopTime /\ MaxCars \in Nat
  /\ \A s \in Speeds : s * HopTime + CarHalf <= Row /\ s < CarLen

VARIABLES
  cars,      \* as stepTraffic sorted them: the leading car first
  shown,     \* the lane has come into view
  spawnIn,   \* time to nextSpawnAt
  phase,     \* "IDLE", "PLAYING", "LOST"
  bird,      \* "before", "hopping", "here" or "past" this lane
  survived,  \* what the server decided of the hop under way
  since,     \* time since it began; the hop may come within a frame
  made,      \* counts cars
  hitAt,     \* history: since, when the crash was shown
  resumed    \* history: the round came back with the bird already on its way

vars == <<cars, shown, spawnIn, phase, bird, survived, since, made, hitAt, resumed>>

NoHit == -1
Car(t, speed) == [t |-> t, speed |-> speed, fleeing |-> FALSE, doomed |-> FALSE]

\* laneRef.current >= lane.
Closed == phase = "PLAYING" /\ bird \in {"here", "past"}

Init ==
  /\ cars = <<>> /\ shown = FALSE /\ spawnIn = 0 /\ phase = "IDLE" /\ bird = "before"
  /\ survived = TRUE /\ since = 0 /\ made = 0 /\ hitAt = NoHit /\ resumed = FALSE

-----------------------------------------------------------------------------
\* ensureLane: one car may already be on its way, and the first spawn is staggered.
Revealed(next) ==
  \/ shown /\ UNCHANGED <<shown, spawnIn, made>> /\ next = cars
  \/ /\ ~shown /\ shown' = TRUE /\ spawnIn' \in 0..1
     /\ \/ next = <<>> /\ UNCHANGED made
        \/ /\ made < MaxCars /\ made' = made + 1
           /\ \E t \in CarLen..Exit - CarLen, s \in Speeds : next = <<Car(t, s)>>

Appear ==
  /\ ~shown /\ \E next \in {<<>>} \cup {<<Car(t, s)>> : t \in CarLen..Exit - CarLen, s \in Speeds} :
                 Revealed(next) /\ cars' = next
  /\ UNCHANGED <<phase, bird, survived, since, hitAt, resumed>>

ByPosition(seq) == SortSeq(seq, LAMBDA a, b : a.t > b.t)

\* Nothing enters a closed lane, nor an entry that is still taken.
MayEnter(seq) ==
  made < MaxCars /\ \A i \in DOMAIN seq : seq[i].t > Entry + CarLen + FollowGap

Spawn(seq, elapsed, entering) ==
  \/ /\ Closed /\ spawnIn' \in Gaps /\ entering = <<>> /\ UNCHANGED made
  \/ /\ ~Closed /\ spawnIn > elapsed
     /\ spawnIn' = spawnIn - elapsed /\ entering = <<>> /\ UNCHANGED made
  \/ /\ ~Closed /\ spawnIn <= elapsed /\ ~MayEnter(seq)
     /\ spawnIn' = 1 /\ entering = <<>> /\ UNCHANGED made
  \/ /\ ~Closed /\ spawnIn <= elapsed /\ MayEnter(seq) /\ made' = made + 1
     /\ spawnIn' \in Gaps /\ entering # <<>>

\* Each car is held by the gate and by the tail of the car ahead, never shoved back.
NoLimit == Exit * 10
Least(a, b) == IF a < b THEN a ELSE b
Move(car, limit) ==
  LET free == car.t + car.speed * (IF car.fleeing THEN 3 ELSE 1)
      held == Closed /\ ~car.doomed /\ ~car.fleeing /\ car.t <= StopLine
      bound == IF held THEN Least(StopLine, limit) ELSE limit
  IN  [car EXCEPT !.t = IF free <= bound THEN free ELSE IF bound > @ THEN bound ELSE @]

Follow(seq, car) ==
  Append(seq, Move(car, IF seq = <<>> THEN NoLimit ELSE seq[Len(seq)].t - CarLen - FollowGap))
Moved(seq) ==
  LET moved[i \in 0..Len(seq)] == IF i = 0 THEN <<>> ELSE Follow(moved[i - 1], seq[i])
  IN  moved[Len(seq)]

OnBoard(car) == car.t < Exit + CarHalf

\* Only the doomed car can land a hit; when it is gone, the roll still stands.
Hits(seq, now) ==
  /\ phase = "PLAYING" /\ bird = "hopping" /\ ~survived
  /\ LET doomed == SelectSeq(seq, LAMBDA c : c.doomed)
     IN  IF doomed = <<>> THEN now > HopTime + Grace
         ELSE now >= Reach /\ doomed[1].t - Row < CarHalf /\ Row - doomed[1].t < CarHalf

\* crash: the bird goes back to the verge and its lanes reopen.
Crashed(now) == phase' = "LOST" /\ bird' = "before" /\ hitAt' = now

Clock(elapsed) ==
  IF bird = "hopping" THEN Least(since + elapsed, HopTime + Grace + Longest) ELSE since

\* draw: stepTraffic, then the collision.
Frame(elapsed) ==
  /\ shown /\ since' = Clock(elapsed)
  /\ \E entering \in {<<>>} \cup {<<Car(Entry, s)>> : s \in Speeds} :
       LET sorted == ByPosition(cars)
           next == SelectSeq(Moved(sorted \o entering), OnBoard)
       IN  /\ Spawn(sorted, elapsed, entering) /\ cars' = next
           /\ IF Hits(next, since') THEN Crashed(since') ELSE UNCHANGED <<phase, bird, hitAt>>
  /\ UNCHANGED <<shown, survived, resumed>>

\* startRound clears the board; a RESUME puts the bird where the server has it.
Start ==
  /\ phase # "PLAYING" /\ phase' = "PLAYING" /\ hitAt' = NoHit
  /\ \/ bird' = "before" /\ resumed' = FALSE /\ cars' = <<>> /\ shown' = FALSE /\ since' = 0
     \/ /\ phase = "IDLE" /\ bird' \in {"here", "past"} /\ resumed' = TRUE
        /\ UNCHANGED <<cars, shown, since>>
  /\ UNCHANGED <<spawnIn, survived, made>>

\* playHop, into this lane: the doomed car is placed so that its nose is there at the landing.
Hop ==
  /\ phase = "PLAYING" /\ bird = "before" /\ bird' = "hopping" /\ since' \in {0, -1}
  /\ \E next \in (IF shown THEN {cars}
                  ELSE {<<>>} \cup {<<Car(t, s)>> : t \in CarLen..Exit - CarLen, s \in Speeds}) :
       /\ Revealed(next)
       /\ \/ survived' = TRUE /\ cars' = next
          \/ /\ survived' = FALSE
             /\ \E s \in Speeds :
                  cars' = Append(next, [Car(Row - (s * HopTime + CarHalf), s) EXCEPT !.doomed = TRUE])
  /\ UNCHANGED <<phase, hitAt, resumed>>

\* The landing timer of a hop that survived: the lane is emptied up to the gate.
Land ==
  /\ phase = "PLAYING" /\ bird = "hopping" /\ survived /\ since >= HopTime
  /\ bird' = "here"
  /\ LET escaping == SelectSeq(cars, LAMBDA c : c.t >= Gate)
     IN  cars' = [i \in DOMAIN escaping |-> [escaping[i] EXCEPT !.fleeing = TRUE]]
  /\ UNCHANGED <<shown, spawnIn, phase, survived, since, made, hitAt, resumed>>

\* The bird is off to the next lane, or the round was won: the lane stays claimed until then.
Leave ==
  /\ phase = "PLAYING" /\ bird \in {"here", "past"}
  /\ \/ bird = "here" /\ bird' = "past" /\ UNCHANGED phase
     \/ phase' = "LOST" /\ bird' = "before"
  /\ UNCHANGED <<cars, shown, spawnIn, survived, since, made, hitAt, resumed>>

Next ==
  \/ Appear \/ Start \/ Hop \/ Land \/ Leave
  \/ \E elapsed \in 1..Longest : Frame(elapsed)

Spec == Init /\ [][Next]_vars

-----------------------------------------------------------------------------
\* Every variable keeps its type.
TypeOK ==
  /\ cars \in Seq([t : Entry..Exit + CarHalf, speed : Speeds, fleeing : BOOLEAN, doomed : BOOLEAN])
  /\ shown \in BOOLEAN /\ spawnIn \in Nat /\ phase \in {"IDLE", "PLAYING", "LOST"}
  /\ bird \in {"before", "hopping", "here", "past"} /\ survived \in BOOLEAN /\ since \in Int
  /\ made \in 0..MaxCars /\ hitAt \in Int /\ resumed \in BOOLEAN

\* Cars of one lane never drive into each other, and one that was not launched at the bird
\* keeps its distance, whatever their speeds, the gate and the frame rate.
CarsKeepApart ==
  \A i, j \in DOMAIN cars :
    i # j /\ ~cars[i].doomed /\ ~cars[j].doomed /\ cars[i].t >= cars[j].t =>
      cars[i].t - cars[j].t >= CarLen + FollowGap

\* A lane the bird has claimed holds no car but those that were past its gate and flee; in a
\* round that was resumed, the car a lane is revealed with may be anywhere.
GateKeepsLanesClear ==
  Closed /\ ~resumed => \A i \in DOMAIN cars : cars[i].fleeing /\ cars[i].t >= Gate

\* The car of a lost hop is not seen to hit a bird that is in the air, whatever the frames;
\* and until it hits it is on the board, so that the board never gives up waiting for it.
CrashLooksLikeOne ==
  /\ hitAt # NoHit => hitAt >= HopTime
  /\ phase = "PLAYING" /\ bird = "hopping" /\ ~survived => \E i \in DOMAIN cars : cars[i].doomed
=============================================================================
