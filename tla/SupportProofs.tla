---------------------------- MODULE SupportProofs ----------------------------
(***************************************************************************)
(* Proofs about live support, for any bounds: the tables hold every        *)
(* message once and in its thread, and so do the lists of the console and  *)
(* of the player's panel (support.routes.ts, SupportChat.tsx, SupportConsole.tsx).   *)
(*                                                                         *)
(* The invariant is HelpInv: what the rows are (HelpRows), which request   *)
(* works on which row (HelpCalls), that a frame says what a row says       *)
(* (HelpFrames), what each page shows (HelpChat, HelpDesk), and where a    *)
(* message that the panel does not show is on its way to it (HelpPanel).   *)
(***************************************************************************)
EXTENDS Support, FiniteSetTheorems, SequenceTheorems, WellFoundedInduction, TLAPS

-----------------------------------------------------------------------------
(* Live support *)

\* Some numbers have a least one, and can be listed in their order.
LEMMA LeastNumber == ASSUME NEW T \in SUBSET Nat, T # {} PROVE \E n \in T : \A m \in T : n <= m
<1> DEFINE R == OpToRel(<, Nat)
<1>1. IsWellFoundedOn(R, Nat)
  BY NatLessThanWellFounded
<1>2. \E x \in T : \A y \in T : ~ (<<y, x>> \in R)
  <2> HIDE DEF R
  <2> QED BY <1>1, WFMin
<1>3. \A x, y \in Nat : x < y => <<x, y>> \in R
  BY DEF OpToRel
<1>4. PICK x \in T : \A y \in T : ~ (<<y, x>> \in R)
  BY <1>2
<1> HIDE DEF R
<1>5. ASSUME NEW y \in T PROVE x <= y
  <2>1. x \in Nat /\ y \in Nat /\ ~ (y < x)
    BY <1>3, <1>4
  <2> QED BY <2>1
<1> QED BY <1>5

LEMMA FunctionIsSeq ==
  ASSUME NEW n \in Nat, NEW S, NEW f \in [1..n -> S]
  PROVE  f \in Seq(S) /\ Len(f) = n /\ DOMAIN f = 1..n
<1>1. f \in Seq(S)
  BY SeqDef
<1>2. 1..Len(f) = 1..n /\ Len(f) \in Nat
  BY <1>1, LenProperties
<1>3. Len(f) = n
  BY <1>2
<1> QED BY <1>1, <1>3

Lists(s, S) ==
  s \in [1..Cardinality(S) -> S] /\ ToSet(s) = S /\ \A i, j \in DOMAIN s : i < j => s[i] < s[j]

LEMMA InOrder ==
  ASSUME NEW S \in SUBSET Nat, IsFiniteSet(S)
  PROVE  \E s : Lists(s, S)
<1> DEFINE Bad == {n \in Nat : \E T \in SUBSET Nat : IsFiniteSet(T) /\ Cardinality(T) = n /\ ~\E s : Lists(s, T)}
<1> SUFFICES ASSUME Bad # {} PROVE FALSE
  BY FS_CardinalityType
<1>1. PICK n \in Bad : \A m \in Bad : n <= m
  <2> HIDE DEF Bad
  <2>1. Bad \in SUBSET Nat
    BY DEF Bad
  <2> QED BY <2>1, LeastNumber
<1>2. PICK T \in SUBSET Nat : IsFiniteSet(T) /\ Cardinality(T) = n /\ ~\E s : Lists(s, T)
  BY <1>1
<1>3. CASE T = {}
  <2>1. Cardinality(T) = 0
    BY <1>3, FS_EmptySet
  <2>2. Lists(<<>>, T)
    BY <1>3, <2>1 DEF Lists, ToSet
  <2> QED BY <1>2, <2>2
<1>4. CASE T # {}
  <2>1. PICK m \in T : \A k \in T : m <= k
    BY <1>4, LeastNumber
  <2>2. /\ IsFiniteSet(T \ {m}) /\ Cardinality(T \ {m}) = n - 1 /\ n \in Nat \ {0}
    <3>1. IsFiniteSet(T \ {m}) /\ Cardinality(T \ {m}) = n - 1
      BY <1>2, <2>1, FS_RemoveElement
    <3>2. Cardinality(T \ {m}) \in Nat
      BY <3>1, FS_CardinalityType
    <3> QED BY <1>1, <3>1, <3>2
  <2>3. PICK g : Lists(g, T \ {m})
    <3>1. n - 1 \notin Bad
      BY <1>1, <2>2
    <3> QED BY <2>2, <3>1
  <2>4. /\ g \in [1..(n - 1) -> T \ {m}] /\ ToSet(g) = T \ {m}
        /\ \A i, j \in 1..(n - 1) : i < j => g[i] < g[j]
    BY <2>2, <2>3 DEF Lists
  <2> DEFINE f == [i \in 1..n |-> IF i = 1 THEN m ELSE g[i - 1]]
  <2>5. f \in [1..n -> T]
    BY <2>1, <2>2, <2>4
  <2>6. ToSet(f) = T
    <3>1. ASSUME NEW x \in T PROVE \E i \in 1..n : f[i] = x
      <4>1. CASE x = m
        BY <2>2, <4>1
      <4>2. CASE x # m
        <5>1. PICK i \in 1..(n - 1) : g[i] = x
          BY <2>4, <4>2 DEF ToSet
        <5>2. i + 1 \in 1..n /\ i + 1 # 1 /\ (i + 1) - 1 = i
          BY <2>2
        <5> QED BY <5>1, <5>2
      <4> QED BY <4>1, <4>2
    <3> HIDE DEF f
    <3> QED BY <2>5, <3>1 DEF ToSet
  <2>7. ASSUME NEW i \in 1..n, NEW j \in 1..n, i < j PROVE f[i] < f[j]
    <3>1. f[j] = g[j - 1] /\ j - 1 \in 1..(n - 1) /\ j # 1
      BY <2>2, <2>7
    <3>2. g[j - 1] \in T \ {m} /\ m \in Nat
      BY <2>1, <2>4, <3>1
    <3>3. CASE i = 1
      <4>1. f[i] = m
        BY <3>3
      <4> HIDE DEF f
      <4>2. m <= g[j - 1] /\ g[j - 1] \in Nat /\ g[j - 1] # m
        BY <2>1, <3>2
      <4> QED BY <3>1, <3>2, <4>1, <4>2
    <3>4. CASE i # 1
      <4>1. f[i] = g[i - 1] /\ i - 1 \in 1..(n - 1) /\ i - 1 < j - 1
        BY <2>2, <2>7, <3>4
      <4> HIDE DEF f
      <4> QED BY <2>4, <3>1, <4>1
    <3> QED BY <3>3, <3>4
  <2>8. Lists(f, T)
    <3> HIDE DEF f
    <3> QED BY <1>2, <2>5, <2>6, <2>7 DEF Lists
  <2> QED BY <1>2, <2>8
<1> QED BY <1>3, <1>4

LEMMA Listed0 ==
  ASSUME NEW S \in SUBSET Nat, IsFiniteSet(S)
  PROVE  Lists(Ascending(S), S)
BY InOrder DEF Ascending, Lists

LEMMA AscendingOf ==
  ASSUME NEW S \in SUBSET Nat, IsFiniteSet(S)
  PROVE  /\ Cardinality(S) \in Nat /\ Ascending(S) \in [1..Cardinality(S) -> S] /\ Ascending(S) \in Seq(Nat)
         /\ Len(Ascending(S)) = Cardinality(S)
         /\ ToSet(Ascending(S)) = S /\ IsInjective(Ascending(S))
<1> DEFINE s == Ascending(S)
           n == Cardinality(S)
<1>1. Lists(s, S)
  BY Listed0
<1>2. n \in Nat
  BY FS_CardinalityType
<1> HIDE DEF s, n
<1>3. s \in [1..n -> S] /\ ToSet(s) = S /\ \A i, j \in 1..n : i < j => s[i] < s[j]
  BY <1>1 DEF Lists, n
<1>4. s \in Seq(Nat) /\ Len(s) = n
  <2>1. s \in [1..n -> Nat]
    BY <1>3
  <2> QED BY <1>2, <2>1, FunctionIsSeq
<1>5. IsInjective(s)
  <2> SUFFICES ASSUME NEW i \in 1..n, NEW j \in 1..n, s[i] = s[j] PROVE i = j
    BY <1>3 DEF IsInjective
  <2>1. s[i] \in Nat /\ s[j] \in Nat
    BY <1>3
  <2> QED BY <1>2, <1>3, <2>1
<1> QED BY <1>2, <1>3, <1>4, <1>5 DEF s, n

LEMMA KeptOf ==
  ASSUME NEW X, NEW s \in Seq(X), NEW places \in SUBSET (1..Len(s))
  PROVE  /\ Kept(s, places) \in Seq(X)
         /\ \A x : x \in ToSet(Kept(s, places)) <=> \E i \in places : x = s[i]
         /\ Kept(s, places) = <<>> <=> places = {}
         /\ places # {} => Head(Kept(s, places)) \in ToSet(Kept(s, places))
<1> DEFINE n == Cardinality(places)
           a == Ascending(places)
<1>1. IsFiniteSet(places) /\ places \in SUBSET Nat
  <2>1. Len(s) \in Nat
    OBVIOUS
  <2>2. IsFiniteSet(1..Len(s))
    BY <2>1, FS_Interval
  <2>3. IsFiniteSet(places)
    BY <2>2, FS_Subset
  <2> QED BY <2>3
<1>2. n \in Nat /\ a \in [1..n -> places] /\ ToSet(a) = places
  BY <1>1, AscendingOf
<1>3. Kept(s, places) = [i \in 1..n |-> s[a[i]]]
  BY DEF Kept
<1>4. n = 0 <=> places = {}
  BY <1>1, FS_EmptySet
<1> HIDE DEF n, a
<1> DEFINE k == [i \in 1..n |-> s[a[i]]]
<1>5. k \in Seq(X) /\ Len(k) = n /\ DOMAIN k = 1..n
  <2>1. ASSUME NEW i \in 1..n PROVE s[a[i]] \in X
    <3>1. a[i] \in 1..Len(s)
      BY <1>2
    <3> QED BY <3>1, ElementOfSeq
  <2>2. k \in [1..n -> X]
    BY <2>1
  <2> HIDE DEF k
  <2> QED BY <1>2, <2>2, FunctionIsSeq
<1>6. \A x : x \in ToSet(k) <=> \E i \in places : x = s[i]
  BY <1>2 DEF ToSet
<1>7. k = <<>> <=> places = {}
  BY <1>2, <1>4, <1>5
<1>8. places # {} => Head(k) \in ToSet(k)
  <2> SUFFICES ASSUME places # {} PROVE Head(k) \in ToSet(k)
    OBVIOUS
  <2>1. 1 \in 1..n
    <3>1. n \in Nat /\ n # 0
      BY <1>2, <1>4
    <3> QED BY <3>1
  <2> HIDE DEF k
  <2>2. Head(k) = k[1]
    BY <1>5, <2>1
  <2> QED BY <1>5, <2>1, <2>2 DEF ToSet
<1> QED BY <1>3, <1>5, <1>6, <1>7, <1>8

\* What the helpers of the lists give.
LEMMA AbsorbOf ==
  ASSUME NEW s \in Seq(Nat), IsInjective(s), NEW n \in Nat
  PROVE  Absorb(s, n) \in Seq(Nat) /\ IsInjective(Absorb(s, n)) /\ ToSet(Absorb(s, n)) = ToSet(s) \cup {n}
<1>1. CASE Contains(s, n)
  <2>1. n \in ToSet(s)
    BY <1>1 DEF Contains, ToSet
  <2> QED BY <1>1, <2>1 DEF Absorb
<1>2. CASE ~Contains(s, n)
  <2>1. \A i \in 1..Len(s) : s[i] # n
    BY <1>2 DEF Contains
  <2> DEFINE a == Append(s, n)
  <2>2. /\ Absorb(s, n) = a /\ a \in Seq(Nat) /\ Len(a) = Len(s) + 1 /\ Len(s) \in Nat
        /\ DOMAIN a = 1..(Len(s) + 1) /\ DOMAIN s = 1..Len(s)
        /\ a[Len(s) + 1] = n /\ \A i \in 1..Len(s) : a[i] = s[i]
    BY <1>2 DEF Absorb
  <2> HIDE DEF a
  <2>3. ASSUME NEW i \in DOMAIN a, NEW j \in DOMAIN a, a[i] = a[j] PROVE i = j
    BY <2>1, <2>2, <2>3 DEF IsInjective
  <2>4. ToSet(a) = ToSet(s) \cup {n}
    <3>1. ASSUME NEW x \in ToSet(a) PROVE x \in ToSet(s) \cup {n}
      <4>1. PICK i \in 1..(Len(s) + 1) : a[i] = x
        BY <2>2 DEF ToSet
      <4> QED BY <2>2, <4>1 DEF ToSet
    <3>2. ASSUME NEW x \in ToSet(s) PROVE x \in ToSet(a)
      <4>1. PICK i \in 1..Len(s) : s[i] = x
        BY <2>2 DEF ToSet
      <4>2. i \in 1..(Len(s) + 1) /\ a[i] = x
        BY <2>2, <4>1
      <4> QED BY <2>2, <4>2 DEF ToSet
    <3>3. n \in ToSet(a)
      <4>1. Len(s) + 1 \in 1..(Len(s) + 1)
        BY <2>2
      <4> QED BY <2>2, <4>1 DEF ToSet
    <3> QED BY <3>1, <3>2, <3>3
  <2> QED BY <2>2, <2>3, <2>4 DEF IsInjective
<1> QED BY <1>1, <1>2

LEMMA RemoveAtOf ==
  ASSUME NEW X, NEW s \in Seq(X), NEW i \in 1..Len(s)
  PROVE  /\ RemoveAt(s, i) \in Seq(X) /\ Len(RemoveAt(s, i)) = Len(s) - 1
         /\ \A j \in 1..Len(RemoveAt(s, i)) : \E k \in 1..Len(s) : RemoveAt(s, i)[j] = s[k]
<1>1. Len(s) \in Nat /\ i \in Nat /\ 1 <= i /\ i <= Len(s)
  OBVIOUS
<1> DEFINE p == SubSeq(s, 1, i - 1)
           q == SubSeq(s, i + 1, Len(s))
<1>2. p \in Seq(X) /\ Len(p) = i - 1 /\ \A j \in 1..(i - 1) : p[j] = s[j]
  BY <1>1
<1>3. q \in Seq(X) /\ Len(q) = Len(s) - i /\ \A j \in 1..(Len(s) - i) : q[j] = s[i + j]
  BY <1>1
<1>4. RemoveAt(s, i) = p \o q
  BY DEF RemoveAt
<1> HIDE DEF p, q
<1> DEFINE r == p \o q
<1>5. /\ r \in Seq(X) /\ Len(r) = Len(s) - 1
      /\ \A j \in 1..(Len(s) - 1) : r[j] = IF j <= i - 1 THEN p[j] ELSE q[j - (i - 1)]
  <2>1. r \in Seq(X) /\ Len(r) = Len(p) + Len(q)
    BY <1>2, <1>3, ConcatProperties
  <2>2. \A j \in 1..(Len(p) + Len(q)) : r[j] = IF j <= Len(p) THEN p[j] ELSE q[j - Len(p)]
    BY <1>2, <1>3, ConcatProperties
  <2>3. Len(p) + Len(q) = Len(s) - 1
    BY <1>1, <1>2, <1>3
  <2> HIDE DEF r
  <2> QED BY <1>2, <2>1, <2>2, <2>3
<1> HIDE DEF r
<1>6. ASSUME NEW j \in 1..(Len(s) - 1) PROVE \E k \in 1..Len(s) : r[j] = s[k]
  <2>1. CASE j <= i - 1
    <3>1. j \in 1..(i - 1) /\ j \in 1..Len(s)
      BY <1>1, <2>1
    <3> QED BY <1>2, <1>5, <2>1, <3>1
  <2>2. CASE ~ (j <= i - 1)
    <3>1. j - (i - 1) \in 1..(Len(s) - i) /\ i + (j - (i - 1)) = j + 1 /\ j + 1 \in 1..Len(s)
      BY <1>1, <2>2
    <3>2. r[j] = s[j + 1]
      BY <1>3, <1>5, <2>2, <3>1
    <3> QED BY <3>1, <3>2
  <2> QED BY <2>1, <2>2
<1> QED BY <1>4, <1>5, <1>6 DEF r

-----------------------------------------------------------------------------
(* The invariant of live support *)

FrameSet == [type : {"SUPPORT_TICKET", "SUPPORT_MESSAGE"}, ticket : Nat, id : Nat]
RowSet == [ticket : Nat, shown : Seq(Nat)]

\* The tables, and what is written on a ticket that was closed.
HelpRows ==
  /\ end \in {"panel", "desk", "visit"}
  /\ tickets \in Seq([owner : {"player", "visitor"}, open : BOOLEAN, through : Nat])
  /\ messages \in Seq([ticket : Nat, sender : {"USER", "ADMIN"}])
  /\ \A n \in 1..Len(messages) : messages[n].ticket \in 1..Len(tickets)
  /\ recent \in Seq(Nat) /\ ToSet(recent) = 1..Len(tickets)

\* A request works on a ticket there is, of its writer's kind, and has written to it.
CallSet == [step : {"idle", "asked", "none", "found", "wrote", "answered"}, ticket : Nat, first : BOOLEAN, wrote : Nat]
CallFits(w, c) ==
  /\ c.step # "idle" => w \in Writing[end] \cup {"closer"}
  /\ c.step \in {"found", "wrote", "answered"} => c.ticket \in 1..Len(tickets)
  /\ c.step \in {"found", "wrote", "answered"} /\ w \in {"panel", "tab"} => tickets[c.ticket].owner = "player"
  /\ c.step \in {"found", "wrote", "answered"} /\ w = "visitor" => tickets[c.ticket].owner = "visitor"
  /\ c.step \in {"wrote", "answered"} /\ w # "closer" =>
       c.wrote \in 1..Len(messages) /\ messages[c.wrote].ticket = c.ticket
  /\ w = "staff" => c.step \notin {"asked", "none"}
  /\ w = "closer" => c.step \in {"idle", "answered"}
HelpCalls ==
  /\ call \in [Writers \cup {"closer"} -> CallSet]
  /\ \A w \in Writers \cup {"closer"} : CallFits(w, call[w])

\* A frame says what the tables hold.
ToChatFits(f) == f.id \in 1..Len(messages) /\ tickets[messages[f.id].ticket].owner = "player"
ToDeskFits(f) ==
  f.type = "SUPPORT_MESSAGE" => f.id \in 1..Len(messages) /\ messages[f.id].ticket = f.ticket
HelpFrames ==
  /\ toChat \in Seq(FrameSet) /\ toDesk \in Seq(FrameSet)
  /\ \A n \in 1..Len(toChat) : ToChatFits(toChat[n])
  /\ \A n \in 1..Len(toDesk) : ToDeskFits(toDesk[n])

\* What the panel shows, or was answered, is of the player and on it once.
OfPlayer(s) ==
  /\ s \in Seq(Nat) /\ IsInjective(s)
  /\ \A n \in ToSet(s) : n \in 1..Len(messages) /\ tickets[messages[n].ticket].owner = "player"
HelpChat ==
  /\ DOMAIN chat = {"open", "shown", "restore"}
  /\ chat.open \in BOOLEAN /\ OfPlayer(chat.shown)
  /\ \/ chat.restore = NotAsked
     \/ chat.restore = Asked
     \/ chat.restore = Answered(chat.restore[2]) /\ OfPlayer(chat.restore[2])

\* A list of the console, shown or under way, has each message once in its own thread.
RowFits(row) ==
  /\ IsInjective(row.shown)
  /\ \A id \in ToSet(row.shown) : id \in 1..Len(messages) /\ messages[id].ticket = row.ticket
OfTickets(threads) == threads \in Seq(RowSet) /\ \A n \in 1..Len(threads) : RowFits(threads[n])
LoadSet == {Asked} \cup {Answered(threads) : threads \in Seq(RowSet)}
LoadFits(l) == l = Asked \/ (l = Answered(l[2]) /\ OfTickets(l[2]))
HelpDesk ==
  /\ DOMAIN desk = {"list", "selected", "unread"}
  /\ OfTickets(desk.list)
  /\ loads \in Seq(LoadSet)
  /\ \A n \in 1..Len(loads) : LoadFits(loads[n])

\* While the panel is looked at every ticket is the player's and one at most is open; of the
\* open one, the panel has every message, or a frame brings it, or its request is about to push it.
Had == IF chat.restore = NotAsked THEN chat.shown ELSE chat.restore[2]
OnItsWay(n) ==
  \/ n \in ToSet(Had)
  \/ \E m \in 1..Len(toChat) : toChat[m].id = n
  \/ \E w \in Writers : call[w].step = "wrote" /\ call[w].wrote = n
AllMine == end = "panel" => \A t \in 1..Len(tickets) : tickets[t].owner = "player"
OneOpen ==
  end = "panel" /\ ~raced => \A t, u \in 1..Len(tickets) : tickets[t].open /\ tickets[u].open => t = u
NoneOpen ==
  end = "panel" /\ ~raced /\ call["panel"].step = "none" => \A t \in 1..Len(tickets) : ~tickets[t].open
Whole == chat.open /\ ~raced /\ cuts = 0 /\ chat.restore # Asked
AllThere == Whole => \A n \in 1..Len(messages) : tickets[messages[n].ticket].open => OnItsWay(n)
HelpPanel ==
  /\ cuts \in Nat /\ raced \in BOOLEAN /\ (chat.open => end = "panel")
  /\ AllMine /\ OneOpen /\ NoneOpen /\ AllThere

HelpInv == HelpRows /\ NothingBuried /\ HelpCalls /\ HelpFrames /\ HelpChat /\ HelpDesk /\ HelpPanel

\* Rows are only added: no message moves to another ticket, no ticket to another owner.
Grown ==
  /\ Len(messages) <= Len(messages') /\ Len(tickets) <= Len(tickets') /\ end' = end
  /\ \A n \in 1..Len(messages) : messages'[n].ticket = messages[n].ticket
  /\ \A t \in 1..Len(tickets) : tickets'[t].owner = tickets[t].owner

-----------------------------------------------------------------------------
(* What the tables give *)

LEMMA ThreadOf ==
  ASSUME HelpRows, NEW t
  PROVE  /\ Thread(t) \in Seq(Nat) /\ IsInjective(Thread(t))
         /\ \A n : n \in ToSet(Thread(t)) <=> n \in 1..Len(messages) /\ messages[n].ticket = t
<1> DEFINE S == {id \in 1..Len(messages) : messages[id].ticket = t}
<1>1. IsFiniteSet(S) /\ S \in SUBSET Nat
  <2>1. Len(messages) \in Nat
    BY DEF HelpRows
  <2>2. IsFiniteSet(1..Len(messages))
    BY <2>1, FS_Interval
  <2> QED BY <2>1, <2>2, FS_Subset
<1>2. Thread(t) = Ascending(S)
  BY DEF Thread
<1>3. ToSet(Thread(t)) = S
  <2> HIDE DEF S
  <2> QED BY <1>1, <1>2, AscendingOf
<1>4. Thread(t) \in Seq(Nat) /\ IsInjective(Thread(t))
  <2> HIDE DEF S
  <2> QED BY <1>1, <1>2, AscendingOf
<1> QED BY <1>3, <1>4

LEMMA OpenOfIs ==
  ASSUME HelpRows, NEW o
  PROVE  /\ OpenOf(o) # <<>> =>
              Head(OpenOf(o)) \in 1..Len(tickets) /\ tickets[Head(OpenOf(o))].open /\ tickets[Head(OpenOf(o))].owner = o
         /\ OpenOf(o) = <<>> => \A t \in 1..Len(tickets) : tickets[t].owner = o => ~tickets[t].open
<1> DEFINE P == {i \in 1..Len(recent) : tickets[recent[i]].open /\ tickets[recent[i]].owner = o}
           k == Kept(recent, P)
<1>1. recent \in Seq(Nat) /\ P \in SUBSET (1..Len(recent)) /\ ToSet(recent) = 1..Len(tickets)
  BY DEF HelpRows
<1>2. OpenOf(o) = k
  BY DEF OpenOf
<1>3. /\ \A x : x \in ToSet(k) <=> \E i \in P : x = recent[i]
      /\ k = <<>> <=> P = {}
      /\ P # {} => Head(k) \in ToSet(k)
  <2> HIDE DEF P
  <2> QED BY <1>1, KeptOf
<1>4. ASSUME k # <<>>
      PROVE  Head(k) \in 1..Len(tickets) /\ tickets[Head(k)].open /\ tickets[Head(k)].owner = o
  <2>1. PICK i \in P : Head(k) = recent[i]
    <3> HIDE DEF k, P
    <3> QED BY <1>3, <1>4
  <2>2. recent[i] \in ToSet(recent) /\ tickets[recent[i]].open /\ tickets[recent[i]].owner = o
    BY <1>1 DEF ToSet
  <2> HIDE DEF k, P
  <2> QED BY <1>1, <2>1, <2>2
<1>5. ASSUME k = <<>>, NEW t \in 1..Len(tickets), tickets[t].owner = o PROVE ~tickets[t].open
  <2>1. P = {}
    <3> HIDE DEF k, P
    <3> QED BY <1>3, <1>5
  <2>2. PICK i \in 1..Len(recent) : recent[i] = t
    BY <1>1 DEF ToSet
  <2>3. i \notin P
    BY <2>1
  <2> QED BY <1>5, <2>2, <2>3
<1> HIDE DEF k
<1> QED BY <1>2, <1>4, <1>5

LEMMA BumpedIs ==
  ASSUME HelpRows, NEW t \in 1..Len(tickets)
  PROVE  Bumped(t) \in Seq(Nat) /\ ToSet(Bumped(t)) = 1..Len(tickets)
<1> DEFINE P == {i \in 1..Len(recent) : recent[i] # t}
           k == Kept(recent, P)
<1>1. recent \in Seq(Nat) /\ P \in SUBSET (1..Len(recent)) /\ ToSet(recent) = 1..Len(tickets) /\ t \in Nat
  BY DEF HelpRows
<1>2. Bumped(t) = <<t>> \o k
  BY DEF Bumped
<1>3. k \in Seq(Nat) /\ \A x : x \in ToSet(k) <=> \E i \in P : x = recent[i]
  <2> HIDE DEF P
  <2> QED BY <1>1, KeptOf
<1>4. \A x : x \in ToSet(k) <=> x \in 1..Len(tickets) /\ x # t
  <2>1. \A x : (\E i \in P : x = recent[i]) <=> x \in ToSet(recent) /\ x # t
    BY <1>1 DEF ToSet
  <2> HIDE DEF k, P
  <2> QED BY <1>1, <1>3, <2>1
<1> HIDE DEF k
<1> DEFINE b == <<t>> \o k
<1>5. b \in Seq(Nat) /\ Len(b) = 1 + Len(k) /\ Len(k) \in Nat
  BY <1>1, <1>3
<1>6. \A i \in 1..(1 + Len(k)) : b[i] = IF i = 1 THEN t ELSE k[i - 1]
  BY <1>1, <1>3
<1> HIDE DEF b
<1>7. ToSet(b) = {t} \cup ToSet(k)
  <2>1. ASSUME NEW x \in ToSet(b) PROVE x \in {t} \cup ToSet(k)
    <3>1. PICK i \in 1..(1 + Len(k)) : b[i] = x
      BY <1>5 DEF ToSet
    <3>2. CASE i = 1
      BY <1>6, <3>1, <3>2
    <3>3. CASE i # 1
      <4>1. i - 1 \in 1..Len(k) /\ k[i - 1] = x
        BY <1>5, <1>6, <3>1, <3>3
      <4> QED BY <1>3, <4>1 DEF ToSet
    <3> QED BY <3>2, <3>3
  <2>2. ASSUME NEW x \in ToSet(k) PROVE x \in ToSet(b)
    <3>1. PICK i \in 1..Len(k) : k[i] = x
      BY <1>3 DEF ToSet
    <3>2. i + 1 \in 1..(1 + Len(k)) /\ b[i + 1] = x
      <4>1. i + 1 \in 1..(1 + Len(k)) /\ i + 1 # 1 /\ (i + 1) - 1 = i
        BY <1>5
      <4> QED BY <1>6, <3>1, <4>1
    <3> QED BY <1>5, <3>2 DEF ToSet
  <2>3. t \in ToSet(b)
    <3>1. 1 \in 1..(1 + Len(k))
      BY <1>5
    <3>2. b[1] = t
      BY <1>6, <3>1
    <3> QED BY <1>5, <3>1, <3>2 DEF ToSet
  <2> QED BY <2>1, <2>2, <2>3
<1>8. ToSet(b) = 1..Len(tickets)
  BY <1>4, <1>7
<1> QED BY <1>2, <1>5, <1>8 DEF b

-----------------------------------------------------------------------------
(* The tables keep their word *)

LEMMA AppendIs ==
  ASSUME NEW X, NEW s \in Seq(X), NEW x \in X
  PROVE  /\ Append(s, x) \in Seq(X) /\ Len(Append(s, x)) = Len(s) + 1 /\ Len(s) \in Nat
         /\ \A n \in 1..Len(s) : Append(s, x)[n] = s[n]
         /\ Append(s, x)[Len(s) + 1] = x
         /\ 1..Len(Append(s, x)) = 1..Len(s) \cup {Len(s) + 1}
<1>1. Len(s) \in Nat /\ Len(Append(s, x)) = Len(s) + 1
  OBVIOUS
<1> QED BY <1>1

LEMMA FirstOf ==
  ASSUME NEW n \in Nat, NEW s \in Seq(Nat)
  PROVE  <<n>> \o s \in Seq(Nat) /\ ToSet(<<n>> \o s) = {n} \cup ToSet(s)
<1> DEFINE b == <<n>> \o s
<1>5. b \in Seq(Nat) /\ Len(b) = 1 + Len(s) /\ Len(s) \in Nat
  OBVIOUS
<1>6. \A i \in 1..(1 + Len(s)) : b[i] = IF i = 1 THEN n ELSE s[i - 1]
  OBVIOUS
<1> HIDE DEF b
<1>7. ToSet(b) = {n} \cup ToSet(s)
  <2>1. ASSUME NEW x \in ToSet(b) PROVE x \in {n} \cup ToSet(s)
    <3>1. PICK i \in 1..(1 + Len(s)) : b[i] = x
      BY <1>5 DEF ToSet
    <3>2. CASE i = 1
      BY <1>6, <3>1, <3>2
    <3>3. CASE i # 1
      <4>1. i - 1 \in 1..Len(s) /\ s[i - 1] = x
        BY <1>5, <1>6, <3>1, <3>3
      <4>2. DOMAIN s = 1..Len(s)
        BY LenProperties
      <4> QED BY <4>1, <4>2 DEF ToSet
    <3> QED BY <3>2, <3>3
  <2>2. ASSUME NEW x \in ToSet(s) PROVE x \in ToSet(b)
    <3>1. PICK i \in 1..Len(s) : s[i] = x
      BY DEF ToSet
    <3>2. i + 1 \in 1..(1 + Len(s)) /\ i + 1 # 1 /\ (i + 1) - 1 = i
      BY <1>5
    <3>3. b[i + 1] = x
      BY <1>6, <3>1, <3>2
    <3>4. DOMAIN b = 1..(1 + Len(s))
      BY <1>5, LenProperties
    <3> QED BY <3>2, <3>3, <3>4 DEF ToSet
  <2>3. n \in ToSet(b)
    <3>1. 1 \in 1..(1 + Len(s))
      BY <1>5
    <3>2. b[1] = n
      BY <1>6, <3>1
    <3> QED BY <1>5, <3>1, <3>2 DEF ToSet
  <2> QED BY <2>1, <2>2, <2>3
<1> QED BY <1>5, <1>7 DEF b

LEMMA TicketExcept ==
  ASSUME NEW o, NEW b, NEW h, NEW r, r = [owner |-> o, open |-> b, through |-> h]
  PROVE  /\ \A z : [r EXCEPT !.open = z] = [owner |-> o, open |-> z, through |-> h]
         /\ \A z : [r EXCEPT !.through = z] = [owner |-> o, open |-> b, through |-> z]
<1>1. ASSUME NEW z, NEW q, q = [r EXCEPT !.open = z] PROVE q = [owner |-> o, open |-> z, through |-> h]
  BY <1>1
<1>2. ASSUME NEW z, NEW q, q = [r EXCEPT !.through = z] PROVE q = [owner |-> o, open |-> b, through |-> z]
  BY <1>2
<1>3. ASSUME NEW z PROVE [r EXCEPT !.open = z] = [owner |-> o, open |-> z, through |-> h]
  <2>1. PICK q : q = [r EXCEPT !.open = z]
    OBVIOUS
  <2>2. q = [owner |-> o, open |-> z, through |-> h]
    BY <1>1, <2>1
  <2> QED BY <2>1, <2>2
<1>4. ASSUME NEW z PROVE [r EXCEPT !.through = z] = [owner |-> o, open |-> b, through |-> z]
  <2>1. PICK q : q = [r EXCEPT !.through = z]
    OBVIOUS
  <2>2. q = [owner |-> o, open |-> b, through |-> z]
    BY <1>2, <2>1
  <2> QED BY <2>1, <2>2
<1> QED BY <1>3, <1>4

LEMMA CreateRows ==
  ASSUME HelpInv, NEW w \in Writers, CreateTicket(w)
  PROVE  HelpRows' /\ Grown /\ NothingBuried'
<1> USE HelpInv DEF HelpInv
<1> DEFINE k == Len(tickets) + 1
           row == [owner |-> Owner(w), open |-> TRUE, through |-> 0]
           T == [owner : {"player", "visitor"}, open : BOOLEAN, through : Nat]
<1>1. /\ end \in {"panel", "desk", "visit"} /\ tickets \in Seq(T)
      /\ messages \in Seq([ticket : Nat, sender : {"USER", "ADMIN"}])
      /\ \A n \in 1..Len(messages) : messages[n].ticket \in 1..Len(tickets)
      /\ recent \in Seq(Nat) /\ ToSet(recent) = 1..Len(tickets)
  BY DEF HelpRows
<1>2. /\ tickets' = Append(tickets, row) /\ recent' = <<k>> \o recent
      /\ end' = end /\ messages' = messages
  BY DEF CreateTicket
<1>3. row \in T
  BY DEF Owner
<1>4. Len(tickets) \in Nat /\ Len(messages) \in Nat
  BY <1>1
<1> HIDE DEF row, T
<1>5. /\ tickets' \in Seq(T) /\ Len(tickets') = k
      /\ \A n \in 1..Len(tickets) : tickets'[n] = tickets[n]
      /\ 1..Len(tickets') = 1..Len(tickets) \cup {k}
  BY <1>1, <1>2, <1>3, AppendIs
<1>6. recent' \in Seq(Nat) /\ ToSet(recent') = {k} \cup ToSet(recent)
  BY <1>1, <1>2, <1>4, FirstOf
<1>7. HelpRows'
  BY <1>1, <1>2, <1>5, <1>6 DEF HelpRows, T
<1>8. Grown
  BY <1>1, <1>2, <1>4, <1>5 DEF Grown
<1>9. NothingBuried'
  BY <1>1, <1>2, <1>5 DEF NothingBuried
<1> QED BY <1>7, <1>8, <1>9

LEMMA WriteRows ==
  ASSUME HelpInv, NEW w \in Writers, Write(w)
  PROVE  /\ HelpRows' /\ Grown /\ NothingBuried'
         /\ Len(messages') = Len(messages) + 1 /\ Len(messages) \in Nat
         /\ messages'[Len(messages) + 1].ticket = call[w].ticket
         /\ call[w].ticket \in 1..Len(tickets) /\ Len(tickets') = Len(tickets)
         /\ \A t \in 1..Len(tickets) : t # call[w].ticket => tickets'[t].open = tickets[t].open
         /\ tickets[call[w].ticket].open => tickets'[call[w].ticket].open
<1> USE HelpInv DEF HelpInv
<1> DEFINE t == call[w].ticket
           T == [owner : {"player", "visitor"}, open : BOOLEAN, through : Nat]
           M == [ticket : Nat, sender : {"USER", "ADMIN"}]
           spoken == [ticket |-> t, sender |-> Sender(w)]
<1>1. /\ end \in {"panel", "desk", "visit"} /\ tickets \in Seq(T) /\ messages \in Seq(M)
      /\ \A n \in 1..Len(messages) : messages[n].ticket \in 1..Len(tickets)
      /\ recent \in Seq(Nat) /\ ToSet(recent) = 1..Len(tickets)
  BY DEF HelpRows
<1>2. /\ messages' = Append(messages, spoken) /\ end' = end
      /\ IF w = "visitor" THEN tickets' = tickets /\ recent' = recent
         ELSE tickets' = [tickets EXCEPT ![t] = Reopened(t)] /\ recent' = Bumped(t)
  BY DEF Write
<1>3. t \in 1..Len(tickets) /\ (w = "visitor" => tickets[t].owner = "visitor")
  <2>1. call[w].step = "found" /\ CallFits(w, call[w])
    BY DEF Write, HelpCalls
  <2> QED BY <2>1 DEF CallFits
<1>4. spoken \in M
  BY <1>3 DEF Sender
<1>5. Len(tickets) \in Nat /\ Len(messages) \in Nat
  BY <1>1
<1> HIDE DEF spoken, M
<1>6. /\ messages' \in Seq(M) /\ Len(messages') = Len(messages) + 1
      /\ \A n \in 1..Len(messages) : messages'[n] = messages[n]
      /\ messages'[Len(messages) + 1] = spoken
      /\ 1..Len(messages') = 1..Len(messages) \cup {Len(messages) + 1}
  BY <1>1, <1>2, <1>4, AppendIs
<1>7. spoken.ticket = t
  BY DEF spoken
<1>8. /\ tickets' \in Seq(T) /\ Len(tickets') = Len(tickets)
      /\ \A u \in 1..Len(tickets) : u # t => tickets'[u] = tickets[u]
      /\ tickets'[t].owner = tickets[t].owner
      /\ w # "visitor" => tickets'[t].open
      /\ tickets[t].open => tickets'[t].open
      /\ recent' \in Seq(Nat) /\ ToSet(recent') = 1..Len(tickets)
  <2>1. CASE w = "visitor"
    BY <1>1, <1>2, <2>1
  <2>2. CASE w # "visitor"
    <3>1. PICK o \in {"player", "visitor"}, b \in BOOLEAN, h \in Nat : tickets[t] = [owner |-> o, open |-> b, through |-> h]
      <4>1. tickets[t] \in T
        <5> HIDE DEF t, T
        <5> QED BY <1>1, <1>3, ElementOfSeq
      <4> HIDE DEF t
      <4> QED BY <4>1
    <3>2. Reopened(t) = [owner |-> o, open |-> TRUE, through |-> h]
      <4>1. Reopened(t) = [tickets[t] EXCEPT !.open = TRUE]
        BY DEF Reopened
      <4> HIDE DEF t
      <4>2. \A z : [tickets[t] EXCEPT !.open = z] = [owner |-> o, open |-> z, through |-> h]
        BY <3>1, TicketExcept
      <4> QED BY <4>1, <4>2
    <3>3. Reopened(t) \in T
      BY <3>2
    <3>4. tickets' = [tickets EXCEPT ![t] = Reopened(t)] /\ recent' = Bumped(t)
      BY <1>2, <2>2
    <3> HIDE DEF t, T
    <3>5. tickets' \in Seq(T) /\ Len(tickets') = Len(tickets) /\ tickets'[t] = Reopened(t)
          /\ \A u \in 1..Len(tickets) : u # t => tickets'[u] = tickets[u]
      BY <1>1, <1>3, <3>3, <3>4, ExceptSeq
    <3>6. recent' \in Seq(Nat) /\ ToSet(recent') = 1..Len(tickets)
      BY <1>3, <3>4, BumpedIs
    <3> QED BY <3>1, <3>2, <3>5, <3>6
  <2> QED BY <2>1, <2>2
<1> HIDE DEF T
<1>9. HelpRows'
  <2>1. \A n \in 1..Len(messages') : messages'[n].ticket \in 1..Len(tickets')
    BY <1>1, <1>3, <1>6, <1>7, <1>8
  <2> QED BY <1>1, <1>2, <1>6, <1>8, <2>1 DEF HelpRows, T, M
<1>10. Grown
  <2> HIDE DEF t
  <2>1. \A u \in 1..Len(tickets) : tickets'[u].owner = tickets[u].owner
    BY <1>8
  <2>2. \A n \in 1..Len(messages) : messages'[n].ticket = messages[n].ticket
    BY <1>6
  <2>3. Len(messages) <= Len(messages') /\ Len(tickets) <= Len(tickets') /\ end' = end
    BY <1>2, <1>5, <1>6, <1>8
  <2> QED BY <2>1, <2>2, <2>3 DEF Grown
<1>11. NothingBuried'
  <2> SUFFICES ASSUME NEW n \in 1..Len(messages'),
                      tickets'[messages'[n].ticket].owner = "player", ~tickets'[messages'[n].ticket].open
               PROVE  n <= tickets'[messages'[n].ticket].through
    BY DEF NothingBuried
  <2>1. messages'[n].ticket # t
    BY <1>3, <1>8
  <2>2. n \in 1..Len(messages) /\ messages'[n] = messages[n]
    BY <1>6, <1>7, <2>1
  <2>3. tickets'[messages[n].ticket] = tickets[messages[n].ticket]
    BY <1>1, <1>8, <2>1, <2>2
  <2> QED BY <2>2, <2>3 DEF NothingBuried
<1> HIDE DEF t
<1>12. /\ messages'[Len(messages) + 1].ticket = t
       /\ \A u \in 1..Len(tickets) : u # t => tickets'[u].open = tickets[u].open
  BY <1>6, <1>7, <1>8
<1> QED BY <1>3, <1>5, <1>6, <1>8, <1>9, <1>10, <1>11, <1>12 DEF t

LEMMA CloseRows ==
  ASSUME HelpInv, NEW t \in 1..Len(tickets), Close(t)
  PROVE  /\ HelpRows' /\ Grown /\ NothingBuried' /\ Len(tickets') = Len(tickets)
         /\ ~tickets'[t].open /\ \A u \in 1..Len(tickets) : u # t => tickets'[u] = tickets[u]
<1> USE HelpInv DEF HelpInv
<1> DEFINE T == [owner : {"player", "visitor"}, open : BOOLEAN, through : Nat]
<1>1. /\ end \in {"panel", "desk", "visit"} /\ tickets \in Seq(T)
      /\ messages \in Seq([ticket : Nat, sender : {"USER", "ADMIN"}])
      /\ \A n \in 1..Len(messages) : messages[n].ticket \in 1..Len(tickets)
      /\ recent \in Seq(Nat) /\ ToSet(recent) = 1..Len(tickets)
  BY DEF HelpRows
<1>2. /\ tickets' = [tickets EXCEPT ![t].open = FALSE, ![t].through = Len(messages)]
      /\ recent' = Bumped(t) /\ end' = end /\ messages' = messages
  BY DEF Close
<1>3. PICK o \in {"player", "visitor"}, b \in BOOLEAN, h \in Nat : tickets[t] = [owner |-> o, open |-> b, through |-> h]
  <2>1. tickets[t] \in T
    <3> HIDE DEF T
    <3> QED BY <1>1, ElementOfSeq
  <2> QED BY <2>1
<1> DEFINE shut == [owner |-> o, open |-> FALSE, through |-> Len(messages)]
<1>4. Len(messages) \in Nat /\ Len(tickets) \in Nat
  BY <1>1
<1>5. shut \in T
  BY <1>4
<1>6. tickets' = [tickets EXCEPT ![t] = shut]
  <2>1. tickets' = [tickets EXCEPT ![t] = [[tickets[t] EXCEPT !.open = FALSE] EXCEPT !.through = Len(messages)]]
    <3>1. t \in DOMAIN tickets
      <4> HIDE DEF T
      <4> QED BY <1>1, LenProperties
    <3> QED BY <1>2, <3>1
  <2>2. [[tickets[t] EXCEPT !.open = FALSE] EXCEPT !.through = Len(messages)] = shut
    <3>1. [tickets[t] EXCEPT !.open = FALSE] = [owner |-> o, open |-> FALSE, through |-> h]
      <4>1. \A z : [tickets[t] EXCEPT !.open = z] = [owner |-> o, open |-> z, through |-> h]
        BY <1>3, TicketExcept
      <4> QED BY <4>1
    <3>2. PICK f, r : f = FALSE /\ r = [owner |-> o, open |-> f, through |-> h]
      OBVIOUS
    <3>3. \A z : [r EXCEPT !.through = z] = [owner |-> o, open |-> f, through |-> z]
      BY <3>2, TicketExcept
    <3>4. [tickets[t] EXCEPT !.open = FALSE] = r
      BY <3>1, <3>2
    <3> QED BY <3>2, <3>3, <3>4
  <2> QED BY <2>1, <2>2
<1>7. shut.owner = o /\ ~shut.open /\ shut.through = Len(messages)
  OBVIOUS
<1> HIDE DEF shut, T
<1>8. tickets' \in Seq(T) /\ Len(tickets') = Len(tickets) /\ tickets'[t] = shut
      /\ \A u \in 1..Len(tickets) : u # t => tickets'[u] = tickets[u]
  BY <1>1, <1>5, <1>6, ExceptSeq
<1>9. recent' \in Seq(Nat) /\ ToSet(recent') = 1..Len(tickets)
  BY <1>2, BumpedIs
<1>10. HelpRows'
  BY <1>1, <1>2, <1>8, <1>9 DEF HelpRows, T
<1>11. Grown
  BY <1>1, <1>2, <1>3, <1>4, <1>7, <1>8 DEF Grown
<1>12. NothingBuried'
  BY <1>1, <1>2, <1>4, <1>7, <1>8 DEF NothingBuried
<1> QED BY <1>7, <1>8, <1>10, <1>11, <1>12

-----------------------------------------------------------------------------
(* Requests keep their word *)

LEMMA StepExcept ==
  ASSUME NEW s, NEW t, NEW f, NEW n, NEW r, r = [step |-> s, ticket |-> t, first |-> f, wrote |-> n]
  PROVE  \A x : [r EXCEPT !.step = x] = [step |-> x, ticket |-> t, first |-> f, wrote |-> n]
<1> SUFFICES ASSUME NEW x PROVE [r EXCEPT !.step = x] = [step |-> x, ticket |-> t, first |-> f, wrote |-> n]
  OBVIOUS
<1>1. PICK q : q = [r EXCEPT !.step = x]
  OBVIOUS
<1>2. q = [step |-> x, ticket |-> t, first |-> f, wrote |-> n]
  BY <1>1
<1> QED BY <1>1, <1>2

LEMMA CaseExcept ==
  ASSUME NEW s, NEW t, NEW f, NEW n, NEW r, r = [step |-> s, ticket |-> t, first |-> f, wrote |-> n]
  PROVE  \A x : [r EXCEPT !.ticket = x] = [step |-> s, ticket |-> x, first |-> f, wrote |-> n]
<1> SUFFICES ASSUME NEW x PROVE [r EXCEPT !.ticket = x] = [step |-> s, ticket |-> x, first |-> f, wrote |-> n]
  OBVIOUS
<1>1. PICK q : q = [r EXCEPT !.ticket = x]
  OBVIOUS
<1>2. q = [step |-> s, ticket |-> x, first |-> f, wrote |-> n]
  BY <1>1
<1> QED BY <1>1, <1>2

LEMMA FirstExcept ==
  ASSUME NEW s, NEW t, NEW f, NEW n, NEW r, r = [step |-> s, ticket |-> t, first |-> f, wrote |-> n]
  PROVE  \A x : [r EXCEPT !.first = x] = [step |-> s, ticket |-> t, first |-> x, wrote |-> n]
<1> SUFFICES ASSUME NEW x PROVE [r EXCEPT !.first = x] = [step |-> s, ticket |-> t, first |-> x, wrote |-> n]
  OBVIOUS
<1>1. PICK q : q = [r EXCEPT !.first = x]
  OBVIOUS
<1>2. q = [step |-> s, ticket |-> t, first |-> x, wrote |-> n]
  BY <1>1
<1> QED BY <1>1, <1>2

LEMMA WroteExcept ==
  ASSUME NEW s, NEW t, NEW f, NEW n, NEW r, r = [step |-> s, ticket |-> t, first |-> f, wrote |-> n]
  PROVE  \A x : [r EXCEPT !.wrote = x] = [step |-> s, ticket |-> t, first |-> f, wrote |-> x]
<1> SUFFICES ASSUME NEW x PROVE [r EXCEPT !.wrote = x] = [step |-> s, ticket |-> t, first |-> f, wrote |-> x]
  OBVIOUS
<1>1. PICK q : q = [r EXCEPT !.wrote = x]
  OBVIOUS
<1>2. q = [step |-> s, ticket |-> t, first |-> f, wrote |-> x]
  BY <1>1
<1> QED BY <1>1, <1>2

LEMMA CallFitsStill ==
  ASSUME HelpRows, Grown, NEW w, NEW c, CallFits(w, c)
  PROVE  CallFits(w, c)'
<1>1. /\ Len(tickets) \in Nat /\ Len(tickets') \in Nat /\ Len(messages) \in Nat /\ Len(messages') \in Nat
      /\ Len(tickets) <= Len(tickets') /\ Len(messages) <= Len(messages') /\ end' = end
  BY LenProperties DEF HelpRows, Grown
<1>2. \A t \in 1..Len(tickets) : t \in 1..Len(tickets') /\ tickets'[t].owner = tickets[t].owner
  BY <1>1 DEF Grown
<1>3. \A n \in 1..Len(messages) : n \in 1..Len(messages') /\ messages'[n].ticket = messages[n].ticket
  BY <1>1 DEF Grown
<1> QED BY <1>1, <1>2, <1>3 DEF CallFits

\* A step changes what one request holds.
LEMMA OneCall ==
  ASSUME HelpInv, HelpRows', Grown, NEW w \in Writers \cup {"closer"}, NEW c \in CallSet, CallFits(w, c)',
         call' = [call EXCEPT ![w] = c]
  PROVE  HelpCalls'
<1> USE HelpInv DEF HelpInv
<1>1. call' \in [Writers \cup {"closer"} -> CallSet] /\ call'[w] = c
  BY DEF HelpCalls
<1>2. ASSUME NEW u \in Writers \cup {"closer"} PROVE CallFits(u, call[u])'
  <2>1. CASE u = w
    BY <1>1, <2>1
  <2>2. CASE u # w
    <3>1. PICK d : d = call[u]
      OBVIOUS
    <3>2. call'[u] = d /\ CallFits(u, d)
      BY <2>2, <3>1 DEF HelpCalls
    <3>3. CallFits(u, d)'
      BY <3>2, CallFitsStill
    <3> QED BY <3>2, <3>3
  <2> QED BY <2>1, <2>2
<1> QED BY <1>1, <1>2 DEF HelpCalls

LEMMA CallsStill ==
  ASSUME HelpInv, HelpRows', Grown, call' = call
  PROVE  HelpCalls'
<1> USE HelpInv DEF HelpInv
<1>1. ASSUME NEW u \in Writers \cup {"closer"} PROVE CallFits(u, call[u])'
  <2>1. PICK d : d = call[u]
    OBVIOUS
  <2>2. call'[u] = d /\ CallFits(u, d)
    BY <2>1 DEF HelpCalls
  <2>3. CallFits(u, d)'
    BY <2>2, CallFitsStill
  <2> QED BY <2>2, <2>3
<1> QED BY <1>1 DEF HelpCalls

LEMMA IdleFits ==
  ASSUME NEW w \in Writers \cup {"closer"}
  PROVE  CallFits(w, Idle)' /\ Idle \in CallSet
BY DEF CallFits, Idle, CallSet, Nobody, Writers

LEMMA SameRows ==
  ASSUME HelpRows, NothingBuried, UNCHANGED rowVars
  PROVE  HelpRows' /\ NothingBuried' /\ Grown
BY LenProperties DEF HelpRows, NothingBuried, rowVars, Grown

LEMMA CallShape ==
  ASSUME HelpCalls, NEW w \in Writers \cup {"closer"}
  PROVE  /\ CallFits(w, call[w])
         /\ \E s \in {"idle", "asked", "none", "found", "wrote", "answered"}, t \in Nat, f \in BOOLEAN, n \in Nat :
              call[w] = [step |-> s, ticket |-> t, first |-> f, wrote |-> n]
<1>1. call[w] \in CallSet /\ CallFits(w, call[w])
  BY DEF HelpCalls
<1> QED BY <1>1 DEF CallSet

LEMMA AskCalls ==
  ASSUME HelpInv, HelpRows', Grown, NEW w \in Writers, Ask(w)
  PROVE  HelpCalls'
<1> USE HelpInv DEF HelpInv
<1> DEFINE c == [step |-> "asked", ticket |-> Nobody, first |-> FALSE, wrote |-> Nobody]
<1>1. [call[w] EXCEPT !.step = "asked"] = c
  <2>1. call[w] = [step |-> "idle", ticket |-> Nobody, first |-> FALSE, wrote |-> Nobody]
    BY DEF Ask, Idle
  <2>2. PICK s, n, f : s = "idle" /\ n = Nobody /\ f = FALSE
    OBVIOUS
  <2>3. call[w] = [step |-> s, ticket |-> n, first |-> f, wrote |-> n]
    BY <2>1, <2>2
  <2>4. \A x : [call[w] EXCEPT !.step = x] = [step |-> x, ticket |-> n, first |-> f, wrote |-> n]
    BY <2>3, StepExcept
  <2> QED BY <2>2, <2>4
<1>2. call' = [call EXCEPT ![w] = c]
  <2>1. call' = [call EXCEPT ![w] = [call[w] EXCEPT !.step = "asked"]]
    BY DEF Ask, Step, HelpCalls
  <2> QED BY <1>1, <2>1
<1>3. c \in CallSet
  BY DEF CallSet, Nobody
<1>4. CallFits(w, c)'
  <2>1. w \in Writing[end] /\ w # "staff" /\ w # "closer" /\ end' = end
    BY DEF Ask, Grown, Writers
  <2> QED BY <2>1 DEF CallFits
<1> HIDE DEF c
<1> QED BY <1>2, <1>3, <1>4, OneCall

LEMMA ReplyCalls ==
  ASSUME HelpInv, HelpRows', Grown, NEW t \in 1..Len(tickets), Reply(t)
  PROVE  HelpCalls'
<1> USE HelpInv DEF HelpInv
<1> DEFINE c == [step |-> "found", ticket |-> t, first |-> FALSE, wrote |-> Nobody]
<1>1. [[call["staff"] EXCEPT !.step = "found"] EXCEPT !.ticket = t] = c
  <2>1. call["staff"] = [step |-> "idle", ticket |-> Nobody, first |-> FALSE, wrote |-> Nobody]
    BY DEF Reply, Idle
  <2>2. PICK s, n, f : s = "idle" /\ n = Nobody /\ f = FALSE
    OBVIOUS
  <2>3. call["staff"] = [step |-> s, ticket |-> n, first |-> f, wrote |-> n]
    BY <2>1, <2>2
  <2>4. \A x : [call["staff"] EXCEPT !.step = x] = [step |-> x, ticket |-> n, first |-> f, wrote |-> n]
    BY <2>3, StepExcept
  <2>5. PICK r1 : r1 = [call["staff"] EXCEPT !.step = "found"]
    OBVIOUS
  <2>6. r1 = [step |-> "found", ticket |-> n, first |-> f, wrote |-> n]
    BY <2>4, <2>5
  <2>7. \A x : [r1 EXCEPT !.ticket = x] = [step |-> "found", ticket |-> x, first |-> f, wrote |-> n]
    BY <2>6, CaseExcept
  <2> QED BY <2>2, <2>5, <2>7
<1>2. call' = [call EXCEPT !["staff"] = c]
  <2>1. call' = [call EXCEPT !["staff"] = [[call["staff"] EXCEPT !.step = "found"] EXCEPT !.ticket = t]]
    BY DEF Reply
  <2> QED BY <1>1, <2>1
<1>3. c \in CallSet
  <2>1. t \in Nat
    BY LenProperties DEF HelpRows
  <2> QED BY <2>1 DEF CallSet, Nobody
<1>4. CallFits("staff", c)'
  <2>1. "staff" \in Writing[end]' /\ t \in 1..Len(tickets')
    <3>1. end' \in {"panel", "desk", "visit"}
      BY DEF HelpRows
    <3>2. Len(tickets) \in Nat /\ Len(tickets') \in Nat /\ Len(tickets) <= Len(tickets')
      BY LenProperties DEF HelpRows, Grown
    <3> QED BY <3>1, <3>2 DEF Writing
  <2> QED BY <2>1 DEF CallFits
<1> HIDE DEF c
<1>5. "staff" \in Writers \cup {"closer"}
  BY DEF Writers
<1> QED BY <1>2, <1>3, <1>4, <1>5, OneCall

LEMMA FindCalls ==
  ASSUME HelpInv, HelpRows', Grown, NEW w \in Writers, FindTicket(w)
  PROVE  HelpCalls'
<1> USE HelpInv DEF HelpInv
<1> DEFINE found == IF w = "visitor" THEN <<>> ELSE OpenOf("player")
<1>1. PICK s \in {"idle", "asked", "none", "found", "wrote", "answered"}, t \in Nat, f \in BOOLEAN, n \in Nat :
        call[w] = [step |-> s, ticket |-> t, first |-> f, wrote |-> n]
  BY CallShape
<1>2. CallFits(w, call[w]) /\ call[w].step = "asked"
  BY CallShape DEF FindTicket
<1>3. w \in Writing[end] /\ w # "staff" /\ w # "closer" /\ end' = end
  BY <1>2 DEF CallFits, Grown, Writers
<1>4. CASE found = <<>>
  <2> DEFINE c == [step |-> "none", ticket |-> t, first |-> f, wrote |-> n]
  <2>1. \A x : [call[w] EXCEPT !.step = x] = [step |-> x, ticket |-> t, first |-> f, wrote |-> n]
    BY <1>1, StepExcept
  <2>2. call' = [call EXCEPT ![w] = [call[w] EXCEPT !.step = "none"]]
    BY <1>4 DEF FindTicket, Step, HelpCalls
  <2>3. call' = [call EXCEPT ![w] = c]
    BY <2>1, <2>2
  <2>4. c \in CallSet
    BY DEF CallSet
  <2>5. CallFits(w, c)'
    BY <1>3 DEF CallFits
  <2> HIDE DEF c
  <2> QED BY <2>3, <2>4, <2>5, OneCall
<1>5. CASE found # <<>>
  <2>1. w # "visitor" /\ OpenOf("player") # <<>>
    BY <1>5
  <2> DEFINE k == Head(OpenOf("player"))
             g == Len(Thread(Head(OpenOf("player")))) = 0
             c == [step |-> "found", ticket |-> k, first |-> g, wrote |-> n]
  <2>2. k \in 1..Len(tickets) /\ tickets[k].owner = "player"
    BY <2>1, OpenOfIs
  <2> HIDE DEF g, k
  <2>11. PICK r1, r2 : r1 = [call[w] EXCEPT !.step = "found"] /\ r2 = [r1 EXCEPT !.ticket = k]
    OBVIOUS
  <2>12. r1 = [step |-> "found", ticket |-> t, first |-> f, wrote |-> n]
    <3>1. \A x : [call[w] EXCEPT !.step = x] = [step |-> x, ticket |-> t, first |-> f, wrote |-> n]
      BY <1>1, StepExcept
    <3> QED BY <2>11, <3>1
  <2>13. r2 = [step |-> "found", ticket |-> k, first |-> f, wrote |-> n]
    <3>1. \A x : [r1 EXCEPT !.ticket = x] = [step |-> "found", ticket |-> x, first |-> f, wrote |-> n]
      BY <2>12, CaseExcept
    <3> QED BY <2>11, <3>1
  <2>14. \A x : [r2 EXCEPT !.first = x] = [step |-> "found", ticket |-> k, first |-> x, wrote |-> n]
    BY <2>13, FirstExcept
  <2>4. call' = [call EXCEPT ![w] = [r2 EXCEPT !.first = g]]
    <3>1. call' = [call EXCEPT ![w] = [call[w] EXCEPT !.step = "found", !.ticket = k, !.first = g]]
      BY <2>1 DEF FindTicket, HelpCalls, g, k
    <3> QED BY <2>11, <3>1
  <2>5. call' = [call EXCEPT ![w] = c]
    BY <2>4, <2>14
  <2>6. c \in CallSet
    <3>1. k \in Nat
      BY <2>2
    <3>2. g \in BOOLEAN
      BY DEF g
    <3> QED BY <3>1, <3>2 DEF CallSet
  <2>8. PICK d : d = c
    OBVIOUS
  <2>7. CallFits(w, d)'
    <3>1. k \in 1..Len(tickets') /\ tickets'[k].owner = "player"
      <4>1. Len(tickets) \in Nat /\ Len(tickets') \in Nat /\ Len(tickets) <= Len(tickets')
        BY LenProperties DEF HelpRows, Grown
      <4> QED BY <2>2, <4>1 DEF Grown
    <3>2. d.step = "found" /\ d.ticket = k
      BY <2>8
    <3> HIDE DEF c
    <3> QED BY <1>3, <2>1, <3>1, <3>2 DEF CallFits
  <2> HIDE DEF c
  <2> QED BY <2>5, <2>6, <2>7, <2>8, OneCall
<1> QED BY <1>4, <1>5

LEMMA CreateCalls ==
  ASSUME HelpInv, HelpRows', Grown, NEW w \in Writers, CreateTicket(w)
  PROVE  HelpCalls'
<1> USE HelpInv DEF HelpInv
<1> DEFINE k == Len(tickets) + 1
<1>1. PICK s \in {"idle", "asked", "none", "found", "wrote", "answered"}, t \in Nat, f \in BOOLEAN, n \in Nat :
        call[w] = [step |-> s, ticket |-> t, first |-> f, wrote |-> n]
  BY CallShape
<1>2. CallFits(w, call[w]) /\ call[w].step = "none"
  BY CallShape DEF CreateTicket
<1>3. w \in Writing[end] /\ w # "staff" /\ w # "closer" /\ end' = end
  BY <1>2 DEF CallFits, Grown, Writers
<1> DEFINE c == [step |-> "found", ticket |-> k, first |-> TRUE, wrote |-> n]
<1>11. PICK r1, r2 : r1 = [call[w] EXCEPT !.step = "found"] /\ r2 = [r1 EXCEPT !.ticket = k]
  OBVIOUS
<1>12. r1 = [step |-> "found", ticket |-> t, first |-> f, wrote |-> n]
  <2>1. \A x : [call[w] EXCEPT !.step = x] = [step |-> x, ticket |-> t, first |-> f, wrote |-> n]
    BY <1>1, StepExcept
  <2> QED BY <1>11, <2>1
<1>13. r2 = [step |-> "found", ticket |-> k, first |-> f, wrote |-> n]
  <2>1. \A x : [r1 EXCEPT !.ticket = x] = [step |-> "found", ticket |-> x, first |-> f, wrote |-> n]
    BY <1>12, CaseExcept
  <2> QED BY <1>11, <2>1
<1>14. \A x : [r2 EXCEPT !.first = x] = [step |-> "found", ticket |-> k, first |-> x, wrote |-> n]
  BY <1>13, FirstExcept
<1>4. call' = [call EXCEPT ![w] = [[[call[w] EXCEPT !.step = "found"] EXCEPT !.ticket = k] EXCEPT !.first = TRUE]]
  BY DEF CreateTicket, HelpCalls
<1>5. call' = [call EXCEPT ![w] = [r2 EXCEPT !.first = TRUE]]
  <2> HIDE DEF k
  <2> QED BY <1>4, <1>11
<1>6. k \in Nat /\ k \in 1..Len(tickets') /\ tickets'[k].owner = Owner(w)
  <2> DEFINE row == [owner |-> Owner(w), open |-> TRUE, through |-> 0]
             T == [owner : {"player", "visitor"}, open : BOOLEAN, through : Nat]
  <2>1. tickets' = Append(tickets, row)
    BY DEF CreateTicket
  <2>2. row \in T /\ row.owner = Owner(w)
    BY DEF Owner
  <2>3. tickets \in Seq(T)
    BY DEF HelpRows
  <2> HIDE DEF row, T
  <2> QED BY <2>1, <2>2, <2>3, AppendIs
<1> HIDE DEF k
<1>7. call' = [call EXCEPT ![w] = c]
  BY <1>5, <1>14
<1>8. c \in CallSet
  BY <1>6 DEF CallSet
<1>9. PICK d : d = c
  OBVIOUS
<1>10. CallFits(w, d)'
  <2>1. d.step = "found" /\ d.ticket = k
    BY <1>9
  <2> HIDE DEF c
  <2> QED BY <1>3, <1>6, <2>1 DEF CallFits, Owner
<1> HIDE DEF c
<1> QED BY <1>7, <1>8, <1>9, <1>10, OneCall

LEMMA WriteCalls ==
  ASSUME HelpInv, HelpRows', Grown, NEW w \in Writers, Write(w)
  PROVE  HelpCalls' /\ call[w].step = "found" /\ call'[w].step = "wrote" /\ call'[w].wrote = Len(messages) + 1
         /\ \A u \in Writers : u # w => call'[u] = call[u]
<1> USE HelpInv DEF HelpInv
<1>1. PICK s \in {"idle", "asked", "none", "found", "wrote", "answered"}, t \in Nat, f \in BOOLEAN, n \in Nat :
        call[w] = [step |-> s, ticket |-> t, first |-> f, wrote |-> n]
  BY CallShape
<1>2. CallFits(w, call[w]) /\ call[w].step = "found" /\ call[w].ticket = t
  BY <1>1, CallShape DEF Write
<1> DEFINE k == Len(messages) + 1
           c == [step |-> "wrote", ticket |-> t, first |-> f, wrote |-> k]
<1>3. PICK r1 : r1 = [call[w] EXCEPT !.step = "wrote"]
  OBVIOUS
<1>4. r1 = [step |-> "wrote", ticket |-> t, first |-> f, wrote |-> n]
  <2>1. \A x : [call[w] EXCEPT !.step = x] = [step |-> x, ticket |-> t, first |-> f, wrote |-> n]
    BY <1>1, StepExcept
  <2> QED BY <1>3, <2>1
<1>5. call' = [call EXCEPT ![w] = [r1 EXCEPT !.wrote = k]]
  <2>1. call' = [call EXCEPT ![w].step = "wrote", ![w].wrote = k]
    BY DEF Write
  <2>2. w \in DOMAIN call
    BY DEF HelpCalls
  <2> HIDE DEF k
  <2> QED BY <1>3, <2>1, <2>2
<1>6. k \in Nat /\ k \in 1..Len(messages') /\ messages'[k].ticket = t /\ Len(messages) \in Nat
  BY <1>2, WriteRows
<1> HIDE DEF k
<1>7. call' = [call EXCEPT ![w] = c]
  <2>1. \A x : [r1 EXCEPT !.wrote = x] = [step |-> "wrote", ticket |-> t, first |-> f, wrote |-> x]
    BY <1>4, WroteExcept
  <2> QED BY <1>5, <2>1
<1>8. c \in CallSet
  BY <1>6 DEF CallSet
<1>13. PICK e : e = c
  OBVIOUS
<1>9. CallFits(w, e)'
  <2>1. e.step = "wrote" /\ e.ticket = t /\ e.wrote = k
    BY <1>13
  <2>2. PICK d : d = call[w]
    OBVIOUS
  <2>3. CallFits(w, d)' /\ d.step = "found" /\ d.ticket = t
    BY <1>2, <2>2, CallFitsStill
  <2> HIDE DEF c
  <2> QED BY <1>6, <2>1, <2>3 DEF CallFits
<1>10. call'[w] = c /\ \A u \in Writers : u # w => call'[u] = call[u]
  BY <1>7 DEF HelpCalls
<1>11. c.step = "wrote" /\ c.wrote = k
  OBVIOUS
<1> HIDE DEF c
<1>12. HelpCalls'
  BY <1>7, <1>8, <1>9, <1>13, OneCall
<1> QED BY <1>2, <1>10, <1>11, <1>12 DEF k

LEMMA IdleCalls ==
  ASSUME HelpInv, HelpRows', Grown, NEW w \in Writers \cup {"closer"}, call' = [call EXCEPT ![w] = Idle]
  PROVE  HelpCalls'
<1>1. PICK c : c = Idle
  OBVIOUS
<1>2. CallFits(w, c)' /\ c \in CallSet
  <2>1. c.step = "idle"
    BY <1>1 DEF Idle
  <2>2. c \in CallSet
    BY <1>1, IdleFits
  <2> QED BY <2>1, <2>2 DEF CallFits
<1>3. call' = [call EXCEPT ![w] = c]
  BY <1>1
<1> QED BY <1>2, <1>3, OneCall

LEMMA BroadcastCalls ==
  ASSUME HelpInv, HelpRows', Grown, NEW w \in Writers, Broadcast(w)
  PROVE  HelpCalls' /\ call'[w].step \in {"idle", "answered"} /\ \A u \in Writers : u # w => call'[u] = call[u]
<1> USE HelpInv DEF HelpInv
<1>1. PICK s \in {"idle", "asked", "none", "found", "wrote", "answered"}, t \in Nat, f \in BOOLEAN, n \in Nat :
        call[w] = [step |-> s, ticket |-> t, first |-> f, wrote |-> n]
  BY CallShape
<1>2. CallFits(w, call[w]) /\ call[w].step = "wrote"
  BY CallShape DEF Broadcast
<1>3. call' = [call EXCEPT ![w] = Answering(w, call[w])]
  BY DEF Broadcast
<1>4. call'[w] = Answering(w, call[w]) /\ \A u \in Writers : u # w => call'[u] = call[u]
  BY <1>3 DEF HelpCalls
<1>5. CASE Answering(w, call[w]) = Idle
  <2>1. HelpCalls'
    BY <1>3, <1>5, IdleCalls
  <2>2. call'[w].step = "idle"
    BY <1>4, <1>5 DEF Idle
  <2> QED BY <1>4, <2>1, <2>2
<1>6. CASE Answering(w, call[w]) # Idle
  <2>1. Answering(w, call[w]) = [call[w] EXCEPT !.step = "answered"]
    BY <1>6 DEF Answering
  <2>2. \A x : [call[w] EXCEPT !.step = x] = [step |-> x, ticket |-> t, first |-> f, wrote |-> n]
    BY <1>1, StepExcept
  <2>3. PICK c : c = [step |-> "answered", ticket |-> t, first |-> f, wrote |-> n]
    OBVIOUS
  <2>4. call' = [call EXCEPT ![w] = c] /\ call'[w] = c
    BY <1>3, <1>4, <2>1, <2>2, <2>3
  <2>5. c \in CallSet /\ c.step = "answered" /\ c.ticket = t /\ c.wrote = n
    BY <2>3 DEF CallSet
  <2>6. CallFits(w, c)'
    <3>1. PICK d : d = call[w]
      OBVIOUS
    <3>2. CallFits(w, d)' /\ d.step = "wrote" /\ d.ticket = t /\ d.wrote = n
      BY <1>1, <1>2, <3>1, CallFitsStill
    <3>3. w # "closer"
      BY DEF Writers
    <3> QED BY <2>5, <3>2, <3>3 DEF CallFits
  <2>7. HelpCalls'
    BY <2>4, <2>5, <2>6, OneCall
  <2> QED BY <1>4, <2>4, <2>5, <2>7
<1> QED BY <1>5, <1>6

LEMMA CloseCalls ==
  ASSUME HelpInv, HelpRows', Grown, NEW t \in 1..Len(tickets), Close(t)
  PROVE  HelpCalls' /\ \A u \in Writers : call'[u] = call[u]
<1> USE HelpInv DEF HelpInv
<1> DEFINE a == Answering("closer", [call["closer"] EXCEPT !.ticket = t])
<1>1. call' = [call EXCEPT !["closer"] = a]
  BY DEF Close
<1>2. \A u \in Writers : call'[u] = call[u]
  BY <1>1 DEF HelpCalls, Writers
<1>3. CASE a = Idle
  BY <1>1, <1>2, <1>3, IdleCalls
<1>4. CASE a # Idle
  <2>1. a = [[call["closer"] EXCEPT !.ticket = t] EXCEPT !.step = "answered"]
    BY <1>4 DEF Answering
  <2>2. PICK s, n, f : s = "idle" /\ n = Nobody /\ f = FALSE
    OBVIOUS
  <2>3. call["closer"] = [step |-> s, ticket |-> n, first |-> f, wrote |-> n]
    BY <2>2 DEF Close, Idle
  <2>4. \A x : [call["closer"] EXCEPT !.ticket = x] = [step |-> s, ticket |-> x, first |-> f, wrote |-> n]
    BY <2>3, CaseExcept
  <2>5. PICK r1 : r1 = [call["closer"] EXCEPT !.ticket = t]
    OBVIOUS
  <2>6. r1 = [step |-> s, ticket |-> t, first |-> f, wrote |-> n]
    BY <2>4, <2>5
  <2>7. \A x : [r1 EXCEPT !.step = x] = [step |-> x, ticket |-> t, first |-> f, wrote |-> n]
    BY <2>6, StepExcept
  <2>8. PICK c : c = [step |-> "answered", ticket |-> t, first |-> f, wrote |-> n]
    OBVIOUS
  <2>9. a = c
    BY <2>1, <2>5, <2>7, <2>8
  <2>10. c \in CallSet
    <3>1. t \in Nat
      BY LenProperties DEF HelpRows
    <3> QED BY <2>2, <2>8, <3>1 DEF CallSet, Nobody
  <2>11. CallFits("closer", c)'
    <3>1. c.step = "answered" /\ c.ticket = t
      BY <2>8
    <3>2. t \in 1..Len(tickets')
      <4>1. Len(tickets) \in Nat /\ Len(tickets') \in Nat /\ Len(tickets) <= Len(tickets')
        BY LenProperties DEF HelpRows, Grown
      <4> QED BY <4>1
    <3> QED BY <3>1, <3>2 DEF CallFits
  <2> HIDE DEF a
  <2>12. call' = [call EXCEPT !["closer"] = c]
    BY <1>1, <2>9
  <2> QED BY <1>2, <2>10, <2>11, <2>12, OneCall
<1> QED BY <1>3, <1>4

-----------------------------------------------------------------------------
(* Frames keep their word *)

LEMMA ConcatIs ==
  ASSUME NEW s \in Seq(FrameSet), NEW r \in Seq(FrameSet), NEW q, q = s \o r
  PROVE  /\ q \in Seq(FrameSet)
         /\ \A n \in 1..Len(q) : (\E m \in 1..Len(s) : q[n] = s[m]) \/ (\E m \in 1..Len(r) : q[n] = r[m])
         /\ \A m \in 1..Len(s) : \E n \in 1..Len(q) : q[n] = s[m]
<1>1. /\ q \in Seq(FrameSet) /\ Len(q) = Len(s) + Len(r) /\ Len(s) \in Nat /\ Len(r) \in Nat
  BY ConcatProperties
<1>2. \A n \in 1..(Len(s) + Len(r)) : q[n] = IF n <= Len(s) THEN s[n] ELSE r[n - Len(s)]
  BY ConcatProperties
<1>3. ASSUME NEW n \in 1..Len(q) PROVE (\E m \in 1..Len(s) : q[n] = s[m]) \/ (\E m \in 1..Len(r) : q[n] = r[m])
  <2>1. CASE n <= Len(s)
    <3>1. n \in 1..Len(s) /\ q[n] = s[n]
      BY <1>1, <1>2, <2>1
    <3> QED BY <3>1
  <2>2. CASE ~ (n <= Len(s))
    <3>1. n - Len(s) \in 1..Len(r) /\ q[n] = r[n - Len(s)]
      BY <1>1, <1>2, <2>2
    <3> QED BY <3>1
  <2> QED BY <2>1, <2>2
<1>4. ASSUME NEW m \in 1..Len(s) PROVE \E n \in 1..Len(q) : q[n] = s[m]
  <2>1. m \in 1..Len(q) /\ q[m] = s[m]
    BY <1>1, <1>2
  <2> QED BY <2>1
<1> QED BY <1>1, <1>3, <1>4

LEMMA ConcatHas ==
  ASSUME NEW s \in Seq(FrameSet), NEW r \in Seq(FrameSet), NEW q, q = s \o r, NEW m \in 1..Len(r)
  PROVE  \E n \in 1..Len(q) : q[n] = r[m]
<1>1. /\ q \in Seq(FrameSet) /\ Len(q) = Len(s) + Len(r) /\ Len(s) \in Nat /\ Len(r) \in Nat
  BY ConcatProperties
<1>2. \A n \in 1..(Len(s) + Len(r)) : q[n] = IF n <= Len(s) THEN s[n] ELSE r[n - Len(s)]
  BY ConcatProperties
<1>3. Len(s) + m \in 1..Len(q) /\ ~ (Len(s) + m <= Len(s)) /\ (Len(s) + m) - Len(s) = m
  BY <1>1
<1>4. q[Len(s) + m] = r[m]
  BY <1>1, <1>2, <1>3
<1> QED BY <1>3, <1>4

LEMMA TailIs ==
  ASSUME NEW X, NEW s \in Seq(X), s # <<>>
  PROVE  /\ Tail(s) \in Seq(X) /\ Head(s) \in X /\ Head(s) = s[1] /\ 1 \in 1..Len(s)
         /\ \A n \in 1..Len(Tail(s)) : \E m \in 1..Len(s) : Tail(s)[n] = s[m]
         /\ \A m \in 1..Len(s) : s[m] = Head(s) \/ \E n \in 1..Len(Tail(s)) : Tail(s)[n] = s[m]
<1>1. /\ Tail(s) \in Seq(X) /\ Head(s) \in X /\ Head(s) = s[1] /\ Len(s) \in Nat \ {0}
      /\ Len(Tail(s)) = Len(s) - 1 /\ \A n \in 1..(Len(s) - 1) : Tail(s)[n] = s[n + 1]
  BY HeadTailProperties, EmptySeq, LenProperties
<1>2. ASSUME NEW n \in 1..Len(Tail(s)) PROVE \E m \in 1..Len(s) : Tail(s)[n] = s[m]
  <2>1. n + 1 \in 1..Len(s) /\ Tail(s)[n] = s[n + 1]
    BY <1>1
  <2> QED BY <2>1
<1>3. ASSUME NEW m \in 1..Len(s), m # 1 PROVE \E n \in 1..Len(Tail(s)) : Tail(s)[n] = s[m]
  <2>1. m - 1 \in 1..Len(Tail(s)) /\ (m - 1) + 1 = m
    BY <1>1, <1>3
  <2>2. Tail(s)[m - 1] = s[m]
    BY <1>1, <2>1
  <2> QED BY <2>1, <2>2
<1> QED BY <1>1, <1>2, <1>3

LEMMA FrameFitsStill ==
  ASSUME HelpRows, Grown, NEW f
  PROVE  (ToChatFits(f) => ToChatFits(f)') /\ (ToDeskFits(f) => ToDeskFits(f)')
<1>1. /\ Len(tickets) \in Nat /\ Len(tickets') \in Nat /\ Len(messages) \in Nat /\ Len(messages') \in Nat
      /\ Len(tickets) <= Len(tickets') /\ Len(messages) <= Len(messages')
  BY LenProperties DEF HelpRows, Grown
<1>2. \A t \in 1..Len(tickets) : tickets'[t].owner = tickets[t].owner
  BY <1>1 DEF Grown
<1>3. \A n \in 1..Len(messages) : n \in 1..Len(messages') /\ messages'[n].ticket = messages[n].ticket
                                  /\ messages[n].ticket \in 1..Len(tickets)
  BY <1>1 DEF Grown, HelpRows
<1> QED BY <1>2, <1>3 DEF ToChatFits, ToDeskFits

LEMMA FramesFrom ==
  ASSUME HelpInv, Grown, toChat' \in Seq(FrameSet), toDesk' \in Seq(FrameSet),
         \A n \in 1..Len(toChat') : (\E m \in 1..Len(toChat) : toChat'[n] = toChat[m]) \/ ToChatFits(toChat[n])',
         \A n \in 1..Len(toDesk') : (\E m \in 1..Len(toDesk) : toDesk'[n] = toDesk[m]) \/ ToDeskFits(toDesk[n])'
  PROVE  HelpFrames'
<1> USE HelpInv DEF HelpInv
<1>1. ASSUME NEW n \in 1..Len(toChat') PROVE ToChatFits(toChat[n])'
  <2>1. ASSUME NEW m \in 1..Len(toChat), toChat'[n] = toChat[m] PROVE ToChatFits(toChat[n])'
    <3>1. PICK f : f = toChat[m]
      OBVIOUS
    <3>2. ToChatFits(f)
      BY <3>1 DEF HelpFrames
    <3>3. ToChatFits(f)' /\ toChat'[n] = f
      BY <2>1, <3>1, <3>2, FrameFitsStill
    <3> QED BY <3>3 DEF ToChatFits
  <2> QED BY <2>1
<1>2. ASSUME NEW n \in 1..Len(toDesk') PROVE ToDeskFits(toDesk[n])'
  <2>1. ASSUME NEW m \in 1..Len(toDesk), toDesk'[n] = toDesk[m] PROVE ToDeskFits(toDesk[n])'
    <3>1. PICK f : f = toDesk[m]
      OBVIOUS
    <3>2. ToDeskFits(f)
      BY <3>1 DEF HelpFrames
    <3>3. ToDeskFits(f)' /\ toDesk'[n] = f
      BY <2>1, <3>1, <3>2, FrameFitsStill
    <3> QED BY <3>3 DEF ToDeskFits
  <2> QED BY <2>1
<1> QED BY <1>1, <1>2 DEF HelpFrames

LEMMA FramesStill ==
  ASSUME HelpInv, Grown, toChat' = toChat, toDesk' = toDesk
  PROVE  HelpFrames'
<1>1. toChat' \in Seq(FrameSet) /\ toDesk' \in Seq(FrameSet)
  BY DEF HelpInv, HelpFrames
<1> QED BY <1>1, FramesFrom

LEMMA PushFrames ==
  ASSUME HelpInv, HelpRows', Grown, NEW t \in 1..Len(tickets), NEW fs \in Seq(FrameSet),
         \A n \in 1..Len(fs) : fs[n].type = "SUPPORT_MESSAGE" =>
            fs[n].id \in 1..Len(messages) /\ messages[fs[n].id].ticket = t /\ fs[n].ticket = t,
         Push(t, fs)
  PROVE  /\ HelpFrames'
         /\ \A m \in 1..Len(toChat) : \E n \in 1..Len(toChat') : toChat'[n] = toChat[m]
         /\ end = "panel" /\ tickets[t].owner = "player" =>
              \A m \in 1..Len(fs) : fs[m].type = "SUPPORT_MESSAGE" => \E n \in 1..Len(toChat') : toChat'[n] = fs[m]
<1> USE HelpInv DEF HelpInv
<1> DEFINE P == {i \in 1..Len(fs) : fs[i].type = "SUPPORT_MESSAGE"}
           k == Kept(fs, P)
<1>1. k \in Seq(FrameSet) /\ \A x : x \in ToSet(k) <=> \E i \in P : x = fs[i]
  <2>1. P \in SUBSET (1..Len(fs))
    OBVIOUS
  <2> HIDE DEF P
  <2> QED BY <2>1, KeptOf
<1>2. toChat \in Seq(FrameSet) /\ toDesk \in Seq(FrameSet)
  BY DEF HelpFrames
<1>3. /\ toDesk' = IF end # "panel" THEN toDesk \o fs ELSE toDesk
      /\ toChat' = IF end = "panel" /\ tickets[t].owner = "player" THEN toChat \o k ELSE toChat
  BY DEF Push
<1>4. ASSUME NEW f, f.type = "SUPPORT_MESSAGE" => f.id \in 1..Len(messages) /\ messages[f.id].ticket = t /\ f.ticket = t
      PROVE  ToDeskFits(f)' /\ (f.type = "SUPPORT_MESSAGE" /\ tickets[t].owner = "player" => ToChatFits(f)')
  <2>1. ToDeskFits(f) /\ (f.type = "SUPPORT_MESSAGE" /\ tickets[t].owner = "player" => ToChatFits(f))
    BY <1>4 DEF ToDeskFits, ToChatFits
  <2> QED BY <2>1, FrameFitsStill
<1>5. \A n \in 1..Len(k) : \E i \in P : k[n] = fs[i]
  <2>1. DOMAIN k = 1..Len(k)
    BY <1>1, LenProperties
  <2> HIDE DEF k, P
  <2> QED BY <1>1, <2>1 DEF ToSet
<1>6. ASSUME NEW i \in P PROVE \E n \in 1..Len(k) : k[n] = fs[i]
  <2>1. DOMAIN k = 1..Len(k)
    BY <1>1, LenProperties
  <2> HIDE DEF k, P
  <2>2. fs[i] \in ToSet(k)
    BY <1>1
  <2> QED BY <2>1, <2>2 DEF ToSet
<1> HIDE DEF k
<1>7. /\ toChat' \in Seq(FrameSet)
      /\ \A n \in 1..Len(toChat') : (\E m \in 1..Len(toChat) : toChat'[n] = toChat[m]) \/ ToChatFits(toChat[n])'
      /\ \A m \in 1..Len(toChat) : \E n \in 1..Len(toChat') : toChat'[n] = toChat[m]
      /\ end = "panel" /\ tickets[t].owner = "player" => \A m \in P : \E n \in 1..Len(toChat') : toChat'[n] = fs[m]
  <2>1. CASE end = "panel" /\ tickets[t].owner = "player"
    <3>1. toChat' = toChat \o k
      BY <1>3, <2>1
    <3>5. PICK a, b, c : a = toChat /\ b = k /\ c = toChat'
      OBVIOUS
    <3>6. a \in Seq(FrameSet) /\ b \in Seq(FrameSet) /\ c = a \o b
      BY <1>1, <1>2, <3>1, <3>5
    <3>7. /\ c \in Seq(FrameSet)
          /\ \A n \in 1..Len(c) : (\E m \in 1..Len(a) : c[n] = a[m]) \/ (\E m \in 1..Len(b) : c[n] = b[m])
      BY <3>6, ConcatIs
    <3>8. \A m \in 1..Len(a) : \E n \in 1..Len(c) : c[n] = a[m]
      BY <3>6, ConcatIs
    <3>9. \A m \in 1..Len(b) : \E n \in 1..Len(c) : c[n] = b[m]
      BY <3>6, ConcatHas
    <3>2. /\ toChat' \in Seq(FrameSet)
          /\ \A n \in 1..Len(toChat') : (\E m \in 1..Len(toChat) : toChat'[n] = toChat[m])
                                        \/ (\E m \in 1..Len(k) : toChat'[n] = k[m])
          /\ \A m \in 1..Len(toChat) : \E n \in 1..Len(toChat') : toChat'[n] = toChat[m]
          /\ \A m \in 1..Len(k) : \E n \in 1..Len(toChat') : toChat'[n] = k[m]
      BY <3>5, <3>7, <3>8, <3>9
    <3>3. ASSUME NEW n \in 1..Len(toChat'), NEW m \in 1..Len(k), toChat'[n] = k[m] PROVE ToChatFits(toChat[n])'
      <4>1. PICK i \in P : k[m] = fs[i]
        BY <1>5
      <4>2. PICK f : f = fs[i]
        OBVIOUS
      <4>3. f.type = "SUPPORT_MESSAGE" /\ f.id \in 1..Len(messages) /\ messages[f.id].ticket = t /\ f.ticket = t
        BY <4>2
      <4>4. ToChatFits(f)' /\ toChat'[n] = f
        BY <1>4, <2>1, <3>3, <4>1, <4>2, <4>3
      <4> QED BY <4>4 DEF ToChatFits
    <3>4. ASSUME NEW m \in P PROVE \E n \in 1..Len(toChat') : toChat'[n] = fs[m]
      <4>1. PICK n \in 1..Len(k) : k[n] = fs[m]
        BY <1>6
      <4> QED BY <3>2, <4>1
    <3> QED BY <3>1, <3>2, <3>3, <3>4
  <2>2. CASE ~ (end = "panel" /\ tickets[t].owner = "player")
    BY <1>2, <1>3, <2>2
  <2> QED BY <2>1, <2>2
<1>8. /\ toDesk' \in Seq(FrameSet)
      /\ \A n \in 1..Len(toDesk') : (\E m \in 1..Len(toDesk) : toDesk'[n] = toDesk[m]) \/ ToDeskFits(toDesk[n])'
  <2>1. CASE end # "panel"
    <3>1. toDesk' = toDesk \o fs
      BY <1>3, <2>1
    <3>2. /\ toDesk' \in Seq(FrameSet)
          /\ \A n \in 1..Len(toDesk') : (\E m \in 1..Len(toDesk) : toDesk'[n] = toDesk[m])
                                        \/ (\E m \in 1..Len(fs) : toDesk'[n] = fs[m])
      BY <1>2, <3>1, ConcatIs
    <3>3. ASSUME NEW n \in 1..Len(toDesk'), NEW m \in 1..Len(fs), toDesk'[n] = fs[m] PROVE ToDeskFits(toDesk[n])'
      <4>1. PICK f : f = fs[m]
        OBVIOUS
      <4>2. f.type = "SUPPORT_MESSAGE" => f.id \in 1..Len(messages) /\ messages[f.id].ticket = t /\ f.ticket = t
        BY <4>1
      <4>3. ToDeskFits(f)' /\ toDesk'[n] = f
        BY <1>4, <3>3, <4>1, <4>2
      <4> QED BY <4>3 DEF ToDeskFits
    <3> QED BY <3>1, <3>2, <3>3
  <2>2. CASE end = "panel"
    BY <1>2, <1>3, <2>2
  <2> QED BY <2>1, <2>2
<1>9. HelpFrames'
  BY <1>7, <1>8, FramesFrom
<1> QED BY <1>7, <1>9

LEMMA BroadcastFrames ==
  ASSUME HelpInv, HelpRows', Grown, NEW w \in Writers, Broadcast(w)
  PROVE  /\ HelpFrames'
         /\ \A m \in 1..Len(toChat) : \E n \in 1..Len(toChat') : toChat'[n] = toChat[m]
         /\ end = "panel" /\ tickets[call[w].ticket].owner = "player" =>
              \E n \in 1..Len(toChat') : toChat'[n].id = call[w].wrote
<1> USE HelpInv DEF HelpInv
<1> DEFINE t == call[w].ticket
           k == call[w].wrote
           spoken == MessageFrame(k)
           head == IF call[w].first THEN <<TicketFrame(t)>> ELSE <<>>
           fs == head \o <<spoken>>
<1>1. call[w].step = "wrote" /\ CallFits(w, call[w]) /\ w # "closer" /\ Push(t, fs)
  BY CallShape DEF Broadcast, Writers
<1>2. t \in 1..Len(tickets) /\ k \in 1..Len(messages) /\ messages[k].ticket = t
  BY <1>1 DEF CallFits
<1>3. t \in Nat /\ k \in Nat
  BY <1>2, LenProperties DEF HelpRows
<1>4. /\ spoken \in FrameSet /\ spoken.type = "SUPPORT_MESSAGE" /\ spoken.id = k /\ spoken.ticket = t
      /\ TicketFrame(t) \in FrameSet /\ TicketFrame(t).type # "SUPPORT_MESSAGE"
  BY <1>2, <1>3 DEF MessageFrame, TicketFrame, FrameSet
<1> HIDE DEF t, k, spoken
<1>5. /\ head \in Seq(FrameSet) /\ (\A n \in 1..Len(head) : head[n].type # "SUPPORT_MESSAGE")
  <2>1. CASE call[w].first
    <3>1. head = <<TicketFrame(t)>>
      BY <2>1
    <3>2. head \in Seq(FrameSet) /\ Len(head) = 1 /\ head[1] = TicketFrame(t)
      BY <1>4, <3>1
    <3> HIDE DEF head
    <3> QED BY <1>4, <3>2
  <2>2. CASE ~call[w].first
    BY <2>2
  <2> QED BY <2>1, <2>2
<1> DEFINE one == <<spoken>>
<1>6. one \in Seq(FrameSet) /\ Len(one) = 1 /\ one[1] = spoken
  BY <1>4
<1> HIDE DEF head, one
<1>7. PICK q, a, b : q = head \o one /\ a = head /\ b = one
  OBVIOUS
<1>14. a \in Seq(FrameSet) /\ b \in Seq(FrameSet) /\ q = a \o b
  BY <1>5, <1>6, <1>7
<1>16. 1 \in 1..Len(b)
  <2>1. Len(b) = 1
    BY <1>6, <1>7
  <2> QED BY <2>1
<1>15. /\ q \in Seq(FrameSet)
       /\ \A n \in 1..Len(q) : (\E m \in 1..Len(a) : q[n] = a[m]) \/ (\E m \in 1..Len(b) : q[n] = b[m])
  BY <1>14, ConcatIs
<1>8. /\ q \in Seq(FrameSet)
      /\ \A n \in 1..Len(q) : (\E m \in 1..Len(head) : q[n] = head[m]) \/ (\E m \in 1..Len(one) : q[n] = one[m])
  BY <1>7, <1>15
<1>9. \E n \in 1..Len(q) : q[n] = one[1]
  <2>2. \E n \in 1..Len(q) : q[n] = b[1]
    BY <1>14, <1>16, ConcatHas
  <2> QED BY <1>7, <2>2
<1>10. \A n \in 1..Len(q) : q[n].type = "SUPPORT_MESSAGE" =>
          q[n].id \in 1..Len(messages) /\ messages[q[n].id].ticket = t /\ q[n].ticket = t
  <2> SUFFICES ASSUME NEW n \in 1..Len(q), q[n].type = "SUPPORT_MESSAGE"
               PROVE  q[n].id \in 1..Len(messages) /\ messages[q[n].id].ticket = t /\ q[n].ticket = t
    OBVIOUS
  <2>1. q[n] = spoken
    BY <1>5, <1>6, <1>8
  <2> QED BY <1>2, <1>4, <2>1
<1>11. Push(t, q)
  BY <1>1, <1>7 DEF one
<1>12. /\ HelpFrames'
       /\ \A m \in 1..Len(toChat) : \E n \in 1..Len(toChat') : toChat'[n] = toChat[m]
       /\ end = "panel" /\ tickets[t].owner = "player" =>
            \A m \in 1..Len(q) : q[m].type = "SUPPORT_MESSAGE" => \E n \in 1..Len(toChat') : toChat'[n] = q[m]
  BY <1>2, <1>8, <1>10, <1>11, PushFrames
<1>13. ASSUME end = "panel", tickets[t].owner = "player" PROVE \E n \in 1..Len(toChat') : toChat'[n].id = k
  <2>1. PICK m \in 1..Len(q) : q[m] = spoken
    BY <1>6, <1>9
  <2>2. PICK n \in 1..Len(toChat') : toChat'[n] = spoken
    BY <1>4, <1>12, <1>13, <2>1
  <2> QED BY <1>4, <2>2
<1> QED BY <1>12, <1>13 DEF t, k

LEMMA CloseFrames ==
  ASSUME HelpInv, HelpRows', Grown, NEW t \in 1..Len(tickets), Close(t)
  PROVE  HelpFrames' /\ \A m \in 1..Len(toChat) : \E n \in 1..Len(toChat') : toChat'[n] = toChat[m]
<1> DEFINE fs == <<TicketFrame(t)>>
<1>1. t \in Nat
  BY LenProperties DEF HelpInv, HelpRows
<1>2. TicketFrame(t) \in FrameSet /\ TicketFrame(t).type # "SUPPORT_MESSAGE"
  BY <1>1 DEF TicketFrame, FrameSet
<1>3. fs \in Seq(FrameSet) /\ Len(fs) = 1 /\ fs[1] = TicketFrame(t)
  BY <1>2
<1>4. Push(t, fs)
  BY DEF Close
<1> HIDE DEF fs
<1>5. PICK q : q = fs
  OBVIOUS
<1>6. q \in Seq(FrameSet) /\ Push(t, q) /\ \A n \in 1..Len(q) : q[n].type # "SUPPORT_MESSAGE"
  BY <1>2, <1>3, <1>4, <1>5
<1> QED BY <1>6, PushFrames

LEMMA ReadFrames ==
  ASSUME HelpInv, Grown,
         \/ toChat # <<>> /\ toChat' = Tail(toChat) /\ toDesk' = toDesk
         \/ toDesk # <<>> /\ toDesk' = Tail(toDesk) /\ toChat' = toChat
         \/ toChat' = <<>> /\ toDesk' = toDesk
         \/ toDesk' = <<>> /\ toChat' = toChat
  PROVE  HelpFrames'
<1>1. toChat \in Seq(FrameSet) /\ toDesk \in Seq(FrameSet)
  BY DEF HelpInv, HelpFrames
<1>2. CASE toChat # <<>> /\ toChat' = Tail(toChat) /\ toDesk' = toDesk
  <2>1. toChat' \in Seq(FrameSet) /\ \A n \in 1..Len(toChat') : \E m \in 1..Len(toChat) : toChat'[n] = toChat[m]
    BY <1>1, <1>2, TailIs
  <2> QED BY <1>1, <1>2, <2>1, FramesFrom
<1>3. CASE toDesk # <<>> /\ toDesk' = Tail(toDesk) /\ toChat' = toChat
  <2>1. toDesk' \in Seq(FrameSet) /\ \A n \in 1..Len(toDesk') : \E m \in 1..Len(toDesk) : toDesk'[n] = toDesk[m]
    BY <1>1, <1>3, TailIs
  <2> QED BY <1>1, <1>3, <2>1, FramesFrom
<1>4. CASE toChat' = <<>> /\ toDesk' = toDesk
  <2>1. toChat' \in Seq(FrameSet) /\ 1..Len(toChat') = {}
    BY <1>4
  <2> QED BY <1>1, <1>4, <2>1, FramesFrom
<1>5. CASE toDesk' = <<>> /\ toChat' = toChat
  <2>1. toDesk' \in Seq(FrameSet) /\ 1..Len(toDesk') = {}
    BY <1>5
  <2> QED BY <1>1, <1>5, <2>1, FramesFrom
<1> QED BY <1>2, <1>3, <1>4, <1>5

-----------------------------------------------------------------------------
(* What the pages show keeps its word *)

LEMMA OfPlayerStill ==
  ASSUME HelpRows, Grown, NEW s, OfPlayer(s)
  PROVE  OfPlayer(s)'
<1>1. /\ Len(tickets) \in Nat /\ Len(tickets') \in Nat /\ Len(messages) \in Nat /\ Len(messages') \in Nat
      /\ Len(tickets) <= Len(tickets') /\ Len(messages) <= Len(messages')
  BY LenProperties DEF HelpRows, Grown
<1>2. \A t \in 1..Len(tickets) : tickets'[t].owner = tickets[t].owner
  BY <1>1 DEF Grown
<1>3. \A n \in 1..Len(messages) : n \in 1..Len(messages') /\ messages'[n].ticket = messages[n].ticket
                                  /\ messages[n].ticket \in 1..Len(tickets)
  BY <1>1 DEF Grown, HelpRows
<1> QED BY <1>2, <1>3 DEF OfPlayer

LEMMA OfTicketsStill ==
  ASSUME HelpRows, Grown, NEW r, OfTickets(r)
  PROVE  OfTickets(r)'
<1>1. /\ Len(messages) \in Nat /\ Len(messages') \in Nat /\ Len(messages) <= Len(messages')
  BY LenProperties DEF HelpRows, Grown
<1>2. \A n \in 1..Len(messages) : n \in 1..Len(messages') /\ messages'[n].ticket = messages[n].ticket
  BY <1>1 DEF Grown
<1> QED BY <1>2 DEF OfTickets, RowFits

\* The panel holds some lists: it is well if they are.
LEMMA ChatFrom ==
  ASSUME DOMAIN chat' = {"open", "shown", "restore"}, chat'.open \in BOOLEAN,
         NEW s, s = chat'.shown, OfPlayer(s)',
         NEW r, r = chat'.restore, r = NotAsked \/ r = Asked \/ (r = Answered(r[2]) /\ OfPlayer(r[2])')
  PROVE  HelpChat'
<1>1. OfPlayer(chat.shown)'
  BY DEF OfPlayer
<1>2. \/ chat'.restore = NotAsked
      \/ chat'.restore = Asked
      \/ chat'.restore = Answered(chat'.restore[2]) /\ OfPlayer(chat.restore[2])'
  BY DEF OfPlayer
<1> QED BY <1>1, <1>2 DEF HelpChat, NotAsked, Asked, Answered

LEMMA ChatIs ==
  ASSUME HelpInv, Grown
  PROVE  /\ DOMAIN chat = {"open", "shown", "restore"} /\ chat.open \in BOOLEAN
         /\ \E s, r :
              /\ s = chat.shown /\ r = chat.restore
              /\ OfPlayer(s) /\ OfPlayer(s)'
              /\ \/ r = NotAsked
                 \/ r = Asked
                 \/ r = Answered(r[2]) /\ OfPlayer(r[2])'
<1>1. HelpRows
  BY DEF HelpInv
<1>2. PICK s, r : s = chat.shown /\ r = chat.restore
  OBVIOUS
<1>3. DOMAIN chat = {"open", "shown", "restore"} /\ chat.open \in BOOLEAN /\ OfPlayer(s)
  BY <1>2 DEF HelpInv, HelpChat
<1>4. r = NotAsked \/ r = Asked \/ (r = Answered(r[2]) /\ OfPlayer(r[2]))
  BY <1>2 DEF HelpInv, HelpChat
<1>5. OfPlayer(s)' /\ (OfPlayer(r[2]) => OfPlayer(r[2])')
  BY <1>1, <1>3, OfPlayerStill
<1> QED BY <1>2, <1>3, <1>4, <1>5

LEMMA AbsorbPlayer ==
  ASSUME NEW s, OfPlayer(s), NEW n \in 1..Len(messages), tickets[messages[n].ticket].owner = "player"
  PROVE  OfPlayer(Absorb(s, n)) /\ ToSet(Absorb(s, n)) = ToSet(s) \cup {n}
<1>1. n \in Nat /\ s \in Seq(Nat) /\ IsInjective(s)
  BY DEF OfPlayer
<1>2. PICK q : q = Absorb(s, n)
  OBVIOUS
<1>3. q \in Seq(Nat) /\ IsInjective(q) /\ ToSet(q) = ToSet(s) \cup {n}
  BY <1>1, <1>2, AbsorbOf
<1>4. OfPlayer(q)
  BY <1>3 DEF OfPlayer
<1> QED BY <1>2, <1>3, <1>4

LEMMA ChatStep ==
  ASSUME HelpInv, Grown,
         \/ chat' = chat
         \/ OpenPanel \/ ClosePanel \/ ReadMe \/ Restored \/ RestoreFails \/ ChatFrame \/ SendAnswered
  PROVE  HelpChat'
<1>1. HelpRows /\ HelpCalls /\ HelpFrames
  BY DEF HelpInv
<1>2. DOMAIN chat = {"open", "shown", "restore"} /\ chat.open \in BOOLEAN
  BY ChatIs
<1>3. PICK s, r : /\ s = chat.shown /\ r = chat.restore
                  /\ OfPlayer(s) /\ OfPlayer(s)'
                  /\ r = NotAsked \/ r = Asked \/ (r = Answered(r[2]) /\ OfPlayer(r[2])')
  BY ChatIs
<1>4. CASE chat' = chat
  BY <1>2, <1>3, <1>4, ChatFrom
<1>5. CASE OpenPanel
  <2>1. DOMAIN chat' = {"open", "shown", "restore"} /\ chat'.open \in BOOLEAN /\ s = chat'.shown /\ chat'.restore = Asked
    BY <1>2, <1>3, <1>5 DEF OpenPanel
  <2> QED BY <1>3, <2>1, ChatFrom
<1>6. CASE ClosePanel
  <2>1. DOMAIN chat' = {"open", "shown", "restore"} /\ chat'.open \in BOOLEAN /\ s = chat'.shown /\ chat'.restore = NotAsked
    BY <1>2, <1>3, <1>6 DEF ClosePanel
  <2> QED BY <1>3, <2>1, ChatFrom
<1>7. CASE ReadMe
  <2> DEFINE mine == OpenOf("player")
             l == IF mine = <<>> THEN <<>> ELSE Thread(Head(mine))
  <2>1. chat' = [chat EXCEPT !.restore = Answered(l)]
    BY <1>7 DEF ReadMe
  <2>2. PICK q : q = l
    OBVIOUS
  <2>3. OfPlayer(q)
    <3>1. CASE mine = <<>>
      <4>1. q = <<>>
        BY <2>2, <3>1
      <4> QED BY <4>1 DEF OfPlayer, IsInjective, ToSet
    <3>2. CASE mine # <<>>
      <4>1. PICK t : t = Head(mine)
        OBVIOUS
      <4>2. tickets[t].owner = "player" /\ q = Thread(t)
        BY <1>1, <2>2, <3>2, <4>1, OpenOfIs
      <4>3. Thread(t) \in Seq(Nat) /\ IsInjective(Thread(t))
            /\ \A n : n \in ToSet(Thread(t)) <=> n \in 1..Len(messages) /\ messages[n].ticket = t
        BY <1>1, ThreadOf
      <4> QED BY <4>2, <4>3 DEF OfPlayer
    <3> QED BY <3>1, <3>2
  <2>4. OfPlayer(q)'
    BY <1>1, <2>3, OfPlayerStill
  <2> HIDE DEF l
  <2>5. PICK a : a = Answered(q)
    OBVIOUS
  <2>6. a = Answered(a[2]) /\ a[2] = q
    BY <2>5 DEF Answered
  <2>7. DOMAIN chat' = {"open", "shown", "restore"} /\ chat'.open \in BOOLEAN /\ s = chat'.shown /\ chat'.restore = a
    BY <1>2, <1>3, <2>1, <2>2, <2>5
  <2>8. OfPlayer(a[2])'
    BY <2>4, <2>6
  <2> QED BY <1>3, <2>6, <2>7, <2>8, ChatFrom
<1>8. CASE Restored
  <2>1. r[1] = "answered" /\ chat' = [chat EXCEPT !.shown = r[2], !.restore = NotAsked]
    BY <1>3, <1>8 DEF Restored
  <2>2. r = Answered(r[2]) /\ OfPlayer(r[2])'
    BY <1>3, <2>1 DEF NotAsked, Asked
  <2>3. DOMAIN chat' = {"open", "shown", "restore"} /\ chat'.open \in BOOLEAN /\ r[2] = chat'.shown /\ chat'.restore = NotAsked
    BY <1>2, <2>1
  <2>4. PICK q : q = r[2]
    OBVIOUS
  <2>5. OfPlayer(q)' /\ q = chat'.shown
    BY <2>2, <2>3, <2>4
  <2> QED BY <2>3, <2>5, ChatFrom
<1>9. CASE RestoreFails
  <2>1. DOMAIN chat' = {"open", "shown", "restore"} /\ chat'.open \in BOOLEAN /\ s = chat'.shown /\ chat'.restore = NotAsked
    BY <1>2, <1>3, <1>9 DEF RestoreFails
  <2> QED BY <1>3, <2>1, ChatFrom
<1>10. ASSUME NEW n, n \in 1..Len(messages) /\ tickets[messages[n].ticket].owner = "player",
              chat' = [chat EXCEPT !.shown = Absorb(@, n)]
       PROVE  HelpChat'
  <2>1. PICK q : q = Absorb(s, n)
    OBVIOUS
  <2>2. OfPlayer(q)
    BY <1>3, <1>10, <2>1, AbsorbPlayer
  <2>3. OfPlayer(q)'
    BY <1>1, <2>2, OfPlayerStill
  <2>4. DOMAIN chat' = {"open", "shown", "restore"} /\ chat'.open \in BOOLEAN /\ q = chat'.shown /\ chat'.restore = r
    BY <1>2, <1>3, <1>10, <2>1
  <2> QED BY <1>3, <2>3, <2>4, ChatFrom
<1>11. CASE ChatFrame
  <2>1. PICK f : f = toChat[1]
    OBVIOUS
  <2>2. f = Head(toChat) /\ ToChatFits(f)
    <3>1. toChat # <<>> /\ toChat \in Seq(FrameSet)
      BY <1>1, <1>11 DEF ChatFrame, HelpFrames
    <3>2. 1 \in 1..Len(toChat) /\ Head(toChat) = toChat[1]
      BY <3>1, TailIs
    <3> QED BY <1>1, <2>1, <3>2 DEF HelpFrames
  <2>3. PICK n : n = f.id
    OBVIOUS
  <2>4. n \in 1..Len(messages) /\ tickets[messages[n].ticket].owner = "player"
    BY <2>2, <2>3 DEF ToChatFits
  <2>5. chat' = [chat EXCEPT !.shown = Absorb(@, n)]
    BY <1>11, <2>2, <2>3 DEF ChatFrame
  <2> QED BY <1>10, <2>4, <2>5
<1>12. CASE SendAnswered
  <2>1. PICK n : n = call["panel"].wrote
    OBVIOUS
  <2>2. call["panel"].step = "answered" /\ CallFits("panel", call["panel"])
    BY <1>1, <1>12, CallShape DEF SendAnswered, Writers
  <2>3. n \in 1..Len(messages) /\ tickets[messages[n].ticket].owner = "player"
    BY <2>1, <2>2 DEF CallFits
  <2>4. chat' = [chat EXCEPT !.shown = Absorb(@, n)]
    BY <1>12, <2>1 DEF SendAnswered
  <2> QED BY <1>10, <2>3, <2>4
<1> QED BY <1>4, <1>5, <1>6, <1>7, <1>8, <1>9, <1>11, <1>12

LEMMA LoadFitsStill ==
  ASSUME HelpRows, Grown, NEW l, LoadFits(l)
  PROVE  LoadFits(l)'
<1>1. CASE l = Asked
  BY <1>1 DEF LoadFits, Asked
<1>2. CASE l # Asked
  <2>1. PICK r : r = l[2]
    OBVIOUS
  <2>2. l = Answered(r) /\ OfTickets(r)
    BY <1>2, <2>1 DEF LoadFits
  <2>3. OfTickets(r)'
    BY <2>2, OfTicketsStill
  <2> QED BY <2>1, <2>2, <2>3 DEF LoadFits, Answered
<1> QED BY <1>1, <1>2

LEMMA DeskFrom ==
  ASSUME HelpInv, Grown, DOMAIN desk' = {"list", "selected", "unread"},
         NEW l, l = desk'.list, OfTickets(l), loads' \in Seq(LoadSet),
         \A n \in 1..Len(loads') : (\E m \in 1..Len(loads) : loads'[n] = loads[m]) \/ LoadFits(loads[n])'
  PROVE  HelpDesk'
<1> USE HelpInv DEF HelpInv
<1>1. OfTickets(l)'
  BY OfTicketsStill
<1>2. OfTickets(desk.list)'
  BY <1>1 DEF OfTickets
<1>3. ASSUME NEW n \in 1..Len(loads') PROVE LoadFits(loads[n])'
  <2>1. ASSUME NEW m \in 1..Len(loads), loads'[n] = loads[m] PROVE LoadFits(loads[n])'
    <3>1. PICK x : x = loads[m]
      OBVIOUS
    <3>2. LoadFits(x)
      BY <3>1 DEF HelpDesk
    <3>3. LoadFits(x)' /\ loads'[n] = x
      BY <2>1, <3>1, <3>2, LoadFitsStill
    <3> QED BY <3>3 DEF LoadFits
  <2> QED BY <2>1
<1> QED BY <1>2, <1>3 DEF HelpDesk

LEMMA AbsorbRow ==
  ASSUME NEW row \in RowSet, RowFits(row), NEW n \in 1..Len(messages), messages[n].ticket = row.ticket
  PROVE  LET new == [row EXCEPT !.shown = Absorb(@, n)] IN new \in RowSet /\ RowFits(new)
<1> DEFINE new == [row EXCEPT !.shown = Absorb(@, n)]
<1>1. row.ticket \in Nat /\ row.shown \in Seq(Nat) /\ IsInjective(row.shown) /\ n \in Nat
  BY DEF RowSet, RowFits
<1>2. PICK q, s : s = row.shown /\ q = Absorb(s, n)
  OBVIOUS
<1>3. q \in Seq(Nat) /\ IsInjective(q) /\ ToSet(q) = ToSet(s) \cup {n}
  BY <1>1, <1>2, AbsorbOf
<1>4. new.ticket = row.ticket /\ new.shown = q /\ new = [ticket |-> row.ticket, shown |-> q]
  BY <1>2 DEF RowSet
<1> HIDE DEF new
<1>5. new \in RowSet
  BY <1>1, <1>3, <1>4 DEF RowSet
<1>6. RowFits(new)
  <2>1. \A id \in ToSet(s) : id \in 1..Len(messages) /\ messages[id].ticket = row.ticket
    BY <1>2 DEF RowFits
  <2> QED BY <1>3, <1>4, <2>1 DEF RowFits
<1> QED BY <1>5, <1>6 DEF new

LEMMA RowFirst ==
  ASSUME NEW s \in Seq(RowSet), NEW x \in RowSet, NEW q, q = <<x>> \o s
  PROVE  q \in Seq(RowSet) /\ \A n \in 1..Len(q) : q[n] = x \/ \E m \in 1..Len(s) : q[n] = s[m]
<1>1. q \in Seq(RowSet) /\ Len(q) = 1 + Len(s) /\ Len(s) \in Nat
  OBVIOUS
<1>2. \A i \in 1..(1 + Len(s)) : q[i] = IF i = 1 THEN x ELSE s[i - 1]
  OBVIOUS
<1>3. ASSUME NEW n \in 1..Len(q), n # 1 PROVE \E m \in 1..Len(s) : q[n] = s[m]
  <2>1. n - 1 \in 1..Len(s) /\ q[n] = s[n - 1]
    BY <1>1, <1>2, <1>3
  <2> QED BY <2>1
<1>4. q[1] = x
  <2>1. 1 \in 1..(1 + Len(s))
    BY <1>1
  <2> QED BY <1>2, <2>1
<1> QED BY <1>1, <1>3, <1>4

\* The rows the queue is answered with.
LEMMA QueueIs ==
  ASSUME HelpRows, NEW queue \in Seq(Nat)
  PROVE  OfTickets([n \in 1..Len(queue) |-> Row(queue[n])])
<1> DEFINE threads == [n \in 1..Len(queue) |-> Row(queue[n])]
<1>1. Len(queue) \in Nat /\ \A n \in 1..Len(queue) : queue[n] \in Nat
  BY LenProperties, ElementOfSeq
<1>2. ASSUME NEW t \in Nat PROVE Row(t) \in RowSet /\ RowFits(Row(t))
  <2>1. Thread(t) \in Seq(Nat) /\ IsInjective(Thread(t))
        /\ \A n : n \in ToSet(Thread(t)) <=> n \in 1..Len(messages) /\ messages[n].ticket = t
    BY ThreadOf
  <2>2. Row(t).ticket = t /\ Row(t).shown = Thread(t)
    BY DEF Row
  <2>3. Row(t) \in RowSet
    BY <2>1 DEF Row, RowSet
  <2> QED BY <2>1, <2>2, <2>3 DEF RowFits
<1>3. \A n \in 1..Len(queue) : Row(queue[n]) \in RowSet /\ RowFits(Row(queue[n]))
  BY <1>1, <1>2
<1>4. threads \in [1..Len(queue) -> RowSet] /\ \A n \in 1..Len(queue) : threads[n] = Row(queue[n])
  BY <1>3
<1> HIDE DEF threads
<1>5. threads \in Seq(RowSet) /\ Len(threads) = Len(queue)
  <2>1. PICK q, k : q = threads /\ k = Len(queue)
    OBVIOUS
  <2>2. q \in Seq(RowSet) /\ Len(q) = k
    BY <1>1, <1>4, <2>1, FunctionIsSeq
  <2> QED BY <2>1, <2>2
<1>6. OfTickets(threads)
  BY <1>3, <1>4, <1>5 DEF OfTickets
<1> QED BY <1>6 DEF threads

LEMMA LoadMore ==
  ASSUME HelpDesk, Load
  PROVE  /\ loads' \in Seq(LoadSet)
         /\ \A n \in 1..Len(loads') : (\E m \in 1..Len(loads) : loads'[n] = loads[m]) \/ LoadFits(loads[n])'
<1>1. loads \in Seq(LoadSet) /\ Asked \in LoadSet /\ loads' = Append(loads, Asked)
  BY DEF HelpDesk, Load, LoadSet
<1>2. PICK a, b, c : a = loads /\ b = Asked /\ c = Append(a, b)
  OBVIOUS
<1>3. c \in Seq(LoadSet) /\ (\A n \in 1..Len(a) : c[n] = a[n]) /\ c[Len(a) + 1] = b
      /\ 1..Len(c) = 1..Len(a) \cup {Len(a) + 1}
  BY <1>1, <1>2, AppendIs
<1>4. loads' = c /\ loads = a
  BY <1>1, <1>2
<1>5. ASSUME NEW n \in 1..Len(loads') PROVE (\E m \in 1..Len(loads) : loads'[n] = loads[m]) \/ LoadFits(loads[n])'
  <2>1. CASE n \in 1..Len(a)
    BY <1>3, <1>4, <2>1
  <2>2. CASE n = Len(a) + 1
    <3>1. loads'[n] = Asked
      BY <1>2, <1>3, <1>4, <2>2
    <3> QED BY <3>1 DEF LoadFits, Asked
  <2> QED BY <1>3, <1>4, <2>1, <2>2
<1> QED BY <1>3, <1>4, <1>5

LEMMA LoadLess ==
  ASSUME HelpDesk, NEW i \in 1..Len(loads), loads' = RemoveAt(loads, i)
  PROVE  /\ loads' \in Seq(LoadSet)
         /\ \A n \in 1..Len(loads') : (\E m \in 1..Len(loads) : loads'[n] = loads[m]) \/ LoadFits(loads[n])'
<1>1. PICK a, c : a = loads /\ c = RemoveAt(a, i)
  OBVIOUS
<1>2. a \in Seq(LoadSet) /\ i \in 1..Len(a)
  BY <1>1 DEF HelpDesk
<1>3. RemoveAt(a, i) \in Seq(LoadSet)
      /\ \A j \in 1..Len(RemoveAt(a, i)) : \E k \in 1..Len(a) : RemoveAt(a, i)[j] = a[k]
  BY <1>2, RemoveAtOf
<1>4. loads' = c /\ loads = a
  BY <1>1
<1> QED BY <1>1, <1>3, <1>4

LEMMA DeskStep ==
  ASSUME HelpInv, Grown,
         \/ desk' = desk /\ loads' = loads
         \/ Poll \/ DeskFrame \/ Replied \/ ClosedAnswered
         \/ \E i \in 1..Len(loads) : ReadQueue(i) \/ Loaded(i) \/ LoadFails(i)
         \/ \E t \in 1..Len(tickets) : Select(t)
  PROVE  HelpDesk'
<1>1. HelpRows /\ HelpCalls /\ HelpFrames /\ HelpDesk
  BY DEF HelpInv
<1>2. DOMAIN desk = {"list", "selected", "unread"} /\ OfTickets(desk.list) /\ loads \in Seq(LoadSet)
  BY <1>1 DEF HelpDesk
<1>3. PICK l : l = desk.list
  OBVIOUS
<1>4. OfTickets(l) /\ l \in Seq(RowSet) /\ \A n \in 1..Len(l) : RowFits(l[n]) /\ l[n] \in RowSet
  <2>1. OfTickets(l)
    BY <1>2, <1>3
  <2> QED BY <2>1, ElementOfSeq DEF OfTickets
<1>5. CASE desk' = desk /\ loads' = loads
  BY <1>2, <1>3, <1>4, <1>5, DeskFrom
<1>6. CASE Poll
  <2>1. desk' = desk /\ Load
    BY <1>6 DEF Poll
  <2>2. DOMAIN desk' = {"list", "selected", "unread"} /\ l = desk'.list
    BY <1>2, <1>3, <2>1
  <2> QED BY <1>1, <1>4, <2>1, <2>2, LoadMore, DeskFrom
<1>7. CASE ClosedAnswered
  <2>1. desk' = [desk EXCEPT !.selected = Nobody] /\ Load
    BY <1>7 DEF ClosedAnswered
  <2>2. DOMAIN desk' = {"list", "selected", "unread"} /\ l = desk'.list
    BY <1>2, <1>3, <2>1
  <2> QED BY <1>1, <1>4, <2>1, <2>2, LoadMore, DeskFrom
<1>8. ASSUME NEW t \in 1..Len(tickets), Select(t) PROVE HelpDesk'
  <2>1. desk' = [desk EXCEPT !.selected = t, !.unread[t] = 0] /\ loads' = loads
    BY <1>8 DEF Select
  <2>2. DOMAIN desk' = {"list", "selected", "unread"} /\ l = desk'.list
    BY <1>2, <1>3, <2>1
  <2> QED BY <1>2, <1>4, <2>1, <2>2, DeskFrom
<1>9. ASSUME NEW i \in 1..Len(loads), ReadQueue(i) PROVE HelpDesk'
  <2> DEFINE open == Kept(recent, {n \in 1..Len(recent) : tickets[recent[n]].open})
             threads == [n \in 1..Len(open) |-> Row(open[n])]
  <2>1. desk' = desk /\ loads' = [loads EXCEPT ![i] = Answered(threads)]
    BY <1>9 DEF ReadQueue
  <2>2. open \in Seq(Nat)
    <3>1. recent \in Seq(Nat)
      BY <1>1 DEF HelpRows
    <3> QED BY <3>1, KeptOf
  <2> HIDE DEF open
  <2>3. OfTickets(threads)
    <3>1. PICK q : q = open
      OBVIOUS
    <3>2. OfTickets([n \in 1..Len(q) |-> Row(q[n])])
      BY <1>1, <2>2, <3>1, QueueIs
    <3> QED BY <3>1, <3>2
  <2> HIDE DEF threads
  <2>4. PICK r, x : r = threads /\ x = Answered(r)
    OBVIOUS
  <2>5. x \in LoadSet /\ LoadFits(x) /\ loads' = [loads EXCEPT ![i] = x]
    <3>1. r \in Seq(RowSet) /\ OfTickets(r)
      BY <2>3, <2>4 DEF OfTickets
    <3>2. x[2] = r
      BY <2>4 DEF Answered
    <3> QED BY <2>1, <2>4, <3>1, <3>2 DEF LoadSet, LoadFits
  <2>6. LoadFits(x)'
    BY <1>1, <2>5, LoadFitsStill
  <2>7. loads' \in Seq(LoadSet) /\ Len(loads') = Len(loads)
        /\ \A n \in 1..Len(loads) : loads'[n] = IF n = i THEN x ELSE loads[n]
    BY <1>2, <2>5, ExceptSeq
  <2>8. \A n \in 1..Len(loads') : (\E m \in 1..Len(loads) : loads'[n] = loads[m]) \/ LoadFits(loads[n])'
    <3> SUFFICES ASSUME NEW n \in 1..Len(loads')
                 PROVE  (\E m \in 1..Len(loads) : loads'[n] = loads[m]) \/ LoadFits(loads[n])'
      OBVIOUS
    <3>1. CASE n = i
      <4>1. loads'[n] = x
        BY <2>7, <3>1
      <4> QED BY <2>6, <4>1 DEF LoadFits
    <3>2. CASE n # i
      BY <2>7, <3>2
    <3> QED BY <3>1, <3>2
  <2>9. DOMAIN desk' = {"list", "selected", "unread"} /\ l = desk'.list
    BY <1>2, <1>3, <2>1
  <2> QED BY <1>4, <2>7, <2>8, <2>9, DeskFrom
<1>10. ASSUME NEW i \in 1..Len(loads), LoadFails(i) PROVE HelpDesk'
  <2>1. desk' = desk /\ loads' = RemoveAt(loads, i)
    BY <1>10 DEF LoadFails
  <2>2. DOMAIN desk' = {"list", "selected", "unread"} /\ l = desk'.list
    BY <1>2, <1>3, <2>1
  <2> QED BY <1>1, <1>4, <2>1, <2>2, LoadLess, DeskFrom
<1>11. ASSUME NEW i \in 1..Len(loads), Loaded(i) PROVE HelpDesk'
  <2>1. desk' = [desk EXCEPT !.list = loads[i][2]] /\ loads' = RemoveAt(loads, i) /\ loads[i][1] = "answered"
    BY <1>11 DEF Loaded
  <2>2. PICK q : q = loads[i][2]
    OBVIOUS
  <2>3. OfTickets(q)
    <3>1. LoadFits(loads[i])
      BY <1>1 DEF HelpDesk
    <3>2. loads[i] # Asked
      BY <2>1 DEF Asked
    <3> QED BY <2>2, <3>1, <3>2 DEF LoadFits
  <2>4. DOMAIN desk' = {"list", "selected", "unread"} /\ q = desk'.list
    BY <1>2, <2>1, <2>2
  <2> QED BY <1>1, <2>1, <2>3, <2>4, LoadLess, DeskFrom
<1>12. CASE Replied
  <2>1. PICK t, n : t = call["staff"].ticket /\ n = call["staff"].wrote
    OBVIOUS
  <2>2. n \in 1..Len(messages) /\ messages[n].ticket = t
    <3>1. call["staff"].step = "answered" /\ CallFits("staff", call["staff"])
      BY <1>1, <1>12, CallShape DEF Replied, Writers
    <3> QED BY <2>1, <3>1 DEF CallFits
  <2> DEFINE q == [i \in 1..Len(l) |-> IF l[i].ticket = t THEN [l[i] EXCEPT !.shown = Absorb(@, n)] ELSE l[i]]
  <2>3. desk' = [desk EXCEPT !.list = q] /\ loads' = loads
    <3>1. desk' = [desk EXCEPT !.list = AbsorbReply(l, t, n)] /\ loads' = loads
      BY <1>3, <1>12, <2>1 DEF Replied
    <3>2. AbsorbReply(l, t, n) = q
      BY DEF AbsorbReply
    <3> HIDE DEF q
    <3> QED BY <3>1, <3>2
  <2>4. ASSUME NEW i \in 1..Len(l) PROVE q[i] \in RowSet /\ RowFits(q[i])
    <3>1. CASE l[i].ticket = t
      <4>1. q[i] = [l[i] EXCEPT !.shown = Absorb(@, n)]
        BY <3>1
      <4>2. PICK row : row = l[i]
        OBVIOUS
      <4>3. row \in RowSet /\ RowFits(row) /\ messages[n].ticket = row.ticket
        BY <1>4, <2>2, <3>1, <4>2
      <4>4. [row EXCEPT !.shown = Absorb(@, n)] \in RowSet /\ RowFits([row EXCEPT !.shown = Absorb(@, n)])
        BY <2>2, <4>3, AbsorbRow
      <4> QED BY <4>1, <4>2, <4>4
    <3>2. CASE l[i].ticket # t
      <4>1. q[i] = l[i]
        BY <3>2
      <4> QED BY <1>4, <4>1
    <3> QED BY <3>1, <3>2
  <2>5. q \in [1..Len(l) -> RowSet] /\ Len(l) \in Nat
    <3>1. DOMAIN q = 1..Len(l) /\ q = [i \in 1..Len(l) |-> q[i]]
      OBVIOUS
    <3> HIDE DEF q
    <3> QED BY <1>4, <2>4, <3>1, LenProperties
  <2> HIDE DEF q
  <2>6. PICK p, k : p = q /\ k = Len(l)
    OBVIOUS
  <2>7. p \in Seq(RowSet) /\ Len(p) = k
    BY <2>5, <2>6, FunctionIsSeq
  <2>8. OfTickets(p)
    BY <2>4, <2>6, <2>7 DEF OfTickets
  <2>9. DOMAIN desk' = {"list", "selected", "unread"} /\ p = desk'.list
    BY <1>2, <2>3, <2>6
  <2> QED BY <1>2, <2>3, <2>8, <2>9, DeskFrom
<1>13. CASE DeskFrame
  <2>1. PICK f : f = Head(toDesk)
    OBVIOUS
  <2>2. ToDeskFits(f) /\ f \in FrameSet
    <3>1. toDesk # <<>> /\ toDesk \in Seq(FrameSet)
      BY <1>1, <1>13 DEF DeskFrame, HelpFrames
    <3>2. 1 \in 1..Len(toDesk) /\ Head(toDesk) = toDesk[1] /\ Head(toDesk) \in FrameSet
      BY <3>1, TailIs
    <3> QED BY <1>1, <2>1, <3>2 DEF HelpFrames
  <2>3. CASE f.type = "SUPPORT_TICKET" \/ ~Listed(f.ticket)
    <3>1. Load /\ DOMAIN desk' = {"list", "selected", "unread"} /\ l = desk'.list
      <4>1. PICK u : Load /\ desk' = [desk EXCEPT !.unread = u]
        BY <1>13, <2>1, <2>3 DEF DeskFrame
      <4> QED BY <1>2, <1>3, <4>1
    <3> QED BY <1>1, <1>4, <3>1, LoadMore, DeskFrom
  <2>4. CASE ~ (f.type = "SUPPORT_TICKET" \/ ~Listed(f.ticket))
    <3>1. f.type = "SUPPORT_MESSAGE" /\ Listed(f.ticket)
      BY <2>2, <2>4 DEF FrameSet
    <3>2. PICK i : i = At(f.ticket)
      OBVIOUS
    <3>3. i \in 1..Len(l) /\ l[i].ticket = f.ticket
      BY <1>3, <3>1, <3>2 DEF Listed, At
    <3>4. PICK row : row = [l[i] EXCEPT !.shown = Absorb(@, f.id)]
      OBVIOUS
    <3>5. row \in RowSet /\ RowFits(row)
      <4>1. PICK n, old : n = f.id /\ old = l[i]
        OBVIOUS
      <4>2. n \in 1..Len(messages) /\ messages[n].ticket = old.ticket /\ old \in RowSet /\ RowFits(old)
        BY <1>4, <2>2, <3>1, <3>3, <4>1 DEF ToDeskFits
      <4>3. [old EXCEPT !.shown = Absorb(@, n)] \in RowSet /\ RowFits([old EXCEPT !.shown = Absorb(@, n)])
        BY <4>2, AbsorbRow
      <4> QED BY <3>4, <4>1, <4>3
    <3>6. PICK q : q = IF row = l[i] THEN l ELSE <<row>> \o RemoveAt(l, i)
      OBVIOUS
    <3>7. OfTickets(q)
      <4>1. CASE row = l[i]
        BY <1>4, <3>6, <4>1
      <4>2. CASE row # l[i]
        <5>1. PICK s : s = RemoveAt(l, i)
          OBVIOUS
        <5>2. RemoveAt(l, i) \in Seq(RowSet)
              /\ \A j \in 1..Len(RemoveAt(l, i)) : \E k \in 1..Len(l) : RemoveAt(l, i)[j] = l[k]
          BY <1>4, <3>3, RemoveAtOf
        <5>3. s \in Seq(RowSet) /\ \A j \in 1..Len(s) : \E k \in 1..Len(l) : s[j] = l[k]
          BY <5>1, <5>2
        <5>4. q = <<row>> \o s
          BY <3>6, <4>2, <5>1
        <5>5. q \in Seq(RowSet) /\ \A n \in 1..Len(q) : q[n] = row \/ \E m \in 1..Len(s) : q[n] = s[m]
          BY <3>5, <5>3, <5>4, RowFirst
        <5> QED BY <1>4, <3>5, <5>3, <5>5 DEF OfTickets
      <4> QED BY <4>1, <4>2
    <3>8. loads' = loads /\ DOMAIN desk' = {"list", "selected", "unread"} /\ q = desk'.list
      <4>1. PICK u : loads' = loads /\ desk' = [desk EXCEPT !.list = q, !.unread = u]
        BY <1>3, <1>13, <2>1, <2>4, <3>2, <3>4, <3>6 DEF DeskFrame
      <4> QED BY <1>2, <4>1
    <3> QED BY <1>2, <3>7, <3>8, DeskFrom
  <2> QED BY <2>3, <2>4
<1> QED BY <1>5, <1>6, <1>7, <1>8, <1>9, <1>10, <1>11, <1>12, <1>13

-----------------------------------------------------------------------------
(* The panel stays current *)

LEMMA PanelRowsKept ==
  ASSUME HelpInv, UNCHANGED rowVars, raced' \in BOOLEAN, raced => raced',
         call'["panel"].step = "none" => call["panel"].step = "none"
  PROVE  AllMine' /\ OneOpen' /\ NoneOpen'
<1>1. AllMine /\ OneOpen /\ NoneOpen /\ tickets' = tickets /\ end' = end
  BY DEF HelpInv, HelpPanel, rowVars
<1>2. AllMine' /\ OneOpen'
  BY <1>1 DEF AllMine, OneOpen
<1>3. NoneOpen'
  BY <1>1 DEF NoneOpen
<1> QED BY <1>2, <1>3

LEMMA ThereKept ==
  ASSUME HelpInv, UNCHANGED rowVars, Whole' => Whole /\ \A n \in 1..Len(messages) : OnItsWay(n) => OnItsWay(n)'
  PROVE  AllThere'
<1>1. AllThere /\ tickets' = tickets /\ messages' = messages
  BY DEF HelpInv, HelpPanel, rowVars
<1> SUFFICES ASSUME Whole', NEW n \in 1..Len(messages), tickets[messages[n].ticket].open PROVE OnItsWay(n)'
  BY <1>1 DEF AllThere
<1> QED BY <1>1 DEF AllThere

\* A step that leaves the panel, its frames and what was just written alone.
LEMMA PanelKept ==
  ASSUME HelpInv, UNCHANGED rowVars, chat' = chat, toChat' = toChat, cuts' = cuts, raced' = raced,
         \A u \in Writers : call[u].step = "wrote" => call'[u] = call[u],
         call'["panel"].step = "none" => call["panel"].step = "none"
  PROVE  HelpPanel'
<1>1. HelpPanel /\ raced \in BOOLEAN /\ end' = end
  BY DEF HelpInv, HelpPanel, rowVars
<1>2. AllMine' /\ OneOpen' /\ NoneOpen'
  BY <1>1, PanelRowsKept
<1>3. Whole' => Whole
  BY DEF Whole
<1>4. \A n \in 1..Len(messages) : OnItsWay(n) => OnItsWay(n)'
  BY DEF OnItsWay, Had
<1>5. AllThere'
  BY <1>3, <1>4, ThereKept
<1> QED BY <1>1, <1>2, <1>5 DEF HelpPanel

\* One request's step, which was not at having written.
LEMMA CallPanel ==
  ASSUME HelpInv, UNCHANGED rowVars, chat' = chat, toChat' = toChat, cuts' = cuts, raced' = raced,
         NEW w \in Writers \cup {"closer"}, w \in Writers => call[w].step # "wrote",
         NEW c, call' = [call EXCEPT ![w] = c], c.step # "none"
  PROVE  HelpPanel'
<1>1. DOMAIN call = Writers \cup {"closer"}
  BY DEF HelpInv, HelpCalls
<1>2. \A u \in Writers : call[u].step = "wrote" => call'[u] = call[u]
  BY <1>1
<1>3. call'["panel"].step = "none" => call["panel"].step = "none"
  BY <1>1 DEF Writers
<1> QED BY <1>2, <1>3, PanelKept

LEMMA FindPanel ==
  ASSUME HelpInv, NEW w \in Writers, FindTicket(w)
  PROVE  HelpPanel'
<1> DEFINE found == IF w = "visitor" THEN <<>> ELSE OpenOf("player")
<1>1. /\ call[w].step = "asked" /\ UNCHANGED rowVars /\ UNCHANGED pageVars /\ UNCHANGED wireVars
      /\ IF found = <<>> THEN Step(w, "none")
         ELSE call' = [call EXCEPT ![w] = [@ EXCEPT !.step = "found", !.ticket = Head(found),
                                                    !.first = Len(Thread(Head(found))) = 0]]
  BY DEF FindTicket
<1>2. chat' = chat /\ toChat' = toChat /\ cuts' = cuts /\ raced' = raced /\ end' = end /\ tickets' = tickets
  BY <1>1 DEF rowVars, pageVars, wireVars
<1>3. call \in [Writers \cup {"closer"} -> CallSet]
  BY DEF HelpInv, HelpCalls
<1>4. CASE found # <<>>
  <2>1. PICK y, z : call' = [call EXCEPT ![w] = [@ EXCEPT !.step = "found", !.ticket = y, !.first = z]]
    BY <1>1, <1>4
  <2>2. PICK c : call' = [call EXCEPT ![w] = c] /\ c.step = "found"
    <3>1. call[w] \in CallSet
      BY <1>3
    <3>2. PICK c : c = [call[w] EXCEPT !.step = "found", !.ticket = y, !.first = z]
      OBVIOUS
    <3>3. c.step = "found"
      BY <3>1, <3>2 DEF CallSet
    <3>4. call' = [call EXCEPT ![w] = c]
      BY <1>3, <2>1, <3>2
    <3> QED BY <3>3, <3>4
  <2> QED BY <1>1, <1>2, <2>2, CallPanel
<1>5. CASE found = <<>>
  <2>1. call' = [call EXCEPT ![w].step = "none"]
    BY <1>1, <1>5 DEF Step
  <2>2. \A u \in Writers : u # w => call'[u] = call[u]
    BY <1>3, <2>1
  <2>3. CASE w # "panel"
    <3>1. call'["panel"] = call["panel"]
      BY <2>2, <2>3 DEF Writers
    <3>2. \A u \in Writers : call[u].step = "wrote" => call'[u] = call[u]
      BY <1>1, <2>2
    <3> QED BY <1>1, <1>2, <3>1, <3>2, PanelKept
  <2>4. CASE w = "panel"
    <3>1. OpenOf("player") = <<>>
      BY <1>5, <2>4
    <3>2. \A t \in 1..Len(tickets) : tickets[t].owner = "player" => ~tickets[t].open
      BY <3>1, OpenOfIs DEF HelpInv
    <3>3. HelpPanel /\ AllMine /\ OneOpen /\ AllThere
      BY DEF HelpInv, HelpPanel
    <3>4. AllMine' /\ OneOpen'
      BY <1>2, <3>3 DEF AllMine, OneOpen
    <3>5. NoneOpen'
      BY <1>2, <3>2, <3>3 DEF AllMine, NoneOpen
    <3>6. Whole' => Whole
      BY <1>2 DEF Whole
    <3>7. \A n \in 1..Len(messages) : OnItsWay(n) => OnItsWay(n)'
      BY <1>1, <1>2, <2>2 DEF OnItsWay, Had
    <3>8. AllThere'
      BY <1>1, <3>6, <3>7, ThereKept
    <3> QED BY <1>2, <3>3, <3>4, <3>5, <3>8 DEF HelpPanel
  <2> QED BY <2>3, <2>4
<1> QED BY <1>4, <1>5

LEMMA CreatePanel ==
  ASSUME HelpInv, NEW w \in Writers, CreateTicket(w)
  PROVE  HelpPanel'
<1> DEFINE k == Len(tickets) + 1
           row == [owner |-> Owner(w), open |-> TRUE, through |-> 0]
           T == [owner : {"player", "visitor"}, open : BOOLEAN, through : Nat]
<1>1. /\ tickets' = Append(tickets, row) /\ end' = end /\ messages' = messages
      /\ chat' = chat /\ toChat' = toChat /\ cuts' = cuts /\ raced' = raced
      /\ call[w].step = "none"
  BY DEF CreateTicket, pageVars, wireVars
<1>2. tickets \in Seq(T) /\ row \in T /\ row.owner = Owner(w)
  BY DEF HelpInv, HelpRows, Owner
<1> HIDE DEF row, T
<1>3. /\ \A n \in 1..Len(tickets) : tickets'[n] = tickets[n]
      /\ 1..Len(tickets') = 1..Len(tickets) \cup {k}
      /\ tickets'[k] = row
  BY <1>1, <1>2, AppendIs
<1> HIDE DEF k
<1>4. /\ cuts \in Nat /\ raced \in BOOLEAN /\ (chat.open => end = "panel")
      /\ AllMine /\ OneOpen /\ NoneOpen /\ AllThere
  BY DEF HelpInv, HelpPanel
<1>5. CallFits(w, call[w]) /\ call \in [Writers \cup {"closer"} -> CallSet]
  BY DEF HelpInv, HelpCalls
<1>6. end = "panel" => w = "panel"
  BY <1>1, <1>5 DEF CallFits, Writing, Writers
<1>7. /\ call'[w].step = "found" /\ \A u \in Writers : u # w => call'[u] = call[u]
  <2>1. PICK c : call' = [call EXCEPT ![w] = c] /\ c.step = "found"
    <3>1. call[w] \in CallSet
      BY <1>5
    <3>2. PICK c : c = [call[w] EXCEPT !.step = "found", !.ticket = Len(tickets) + 1, !.first = TRUE]
      OBVIOUS
    <3>3. c.step = "found"
      BY <3>1, <3>2 DEF CallSet
    <3>4. call' = [call EXCEPT ![w] = c]
      BY <1>5, <3>2 DEF CreateTicket
    <3> QED BY <3>3, <3>4
  <2> QED BY <1>5, <2>1
<1>8. AllMine'
  BY <1>1, <1>2, <1>3, <1>4, <1>6 DEF AllMine, Owner
<1>9. OneOpen'
  <2> SUFFICES ASSUME end = "panel", ~raced, NEW t \in 1..Len(tickets'), NEW u \in 1..Len(tickets'),
                      tickets'[t].open, tickets'[u].open
               PROVE  t = u
    BY <1>1 DEF OneOpen
  <2>1. \A v \in 1..Len(tickets) : ~tickets[v].open
    BY <1>1, <1>4, <1>6 DEF NoneOpen
  <2> QED BY <1>3, <2>1
<1>10. NoneOpen'
  BY <1>1, <1>6, <1>7 DEF NoneOpen
<1>11. AllThere'
  <2>1. \A n \in 1..Len(messages) : OnItsWay(n) => OnItsWay(n)'
    BY <1>1, <1>7 DEF OnItsWay, Had
  <2>2. \A n \in 1..Len(messages) : tickets'[messages[n].ticket] = tickets[messages[n].ticket]
    BY <1>3 DEF HelpInv, HelpRows
  <2>3. Whole' => Whole
    BY <1>1 DEF Whole
  <2> QED BY <1>1, <1>4, <2>1, <2>2, <2>3 DEF AllThere
<1> QED BY <1>1, <1>4, <1>8, <1>9, <1>10, <1>11 DEF HelpPanel

LEMMA WritePanel ==
  ASSUME HelpInv, NEW w \in Writers, Write(w)
  PROVE  HelpPanel'
<1> DEFINE t == call[w].ticket
           k == Len(messages) + 1
<1>1. /\ end' = end /\ chat' = chat /\ toChat' = toChat /\ cuts' = cuts /\ raced' = (raced \/ ~tickets[t].open)
  BY DEF Write, wireVars
<1>2. /\ HelpRows' /\ Grown /\ Len(messages') = k /\ Len(messages) \in Nat
      /\ messages'[k].ticket = t /\ t \in 1..Len(tickets) /\ Len(tickets') = Len(tickets)
      /\ \A u \in 1..Len(tickets) : u # t => tickets'[u].open = tickets[u].open
      /\ tickets[t].open => tickets'[t].open
  BY WriteRows
<1>3. /\ call[w].step = "found" /\ call'[w].step = "wrote" /\ call'[w].wrote = k
      /\ \A u \in Writers : u # w => call'[u] = call[u]
  BY <1>2, WriteCalls
<1>4. /\ cuts \in Nat /\ raced \in BOOLEAN /\ (chat.open => end = "panel")
      /\ AllMine /\ OneOpen /\ NoneOpen /\ AllThere
  BY DEF HelpInv, HelpPanel
<1> HIDE DEF t
<1>5. raced' \in BOOLEAN /\ (~raced' => ~raced /\ tickets[t].open)
  BY <1>1, <1>4
<1>6. \A u \in 1..Len(tickets) : ~raced' /\ tickets'[u].open => tickets[u].open
  BY <1>2, <1>5
<1>7. \A n \in 1..Len(messages) : messages'[n].ticket = messages[n].ticket
  BY <1>2 DEF Grown
<1>8. AllMine'
  BY <1>1, <1>2, <1>4 DEF AllMine, Grown
<1>9. OneOpen'
  BY <1>1, <1>2, <1>4, <1>5, <1>6 DEF OneOpen
<1>10. NoneOpen'
  <2>1. call'["panel"].step = "none" => call["panel"].step = "none"
    BY <1>3 DEF Writers
  <2> QED BY <1>1, <1>2, <1>4, <1>5, <1>6, <2>1 DEF NoneOpen
<1>11. AllThere'
  <2> SUFFICES ASSUME Whole', NEW n \in 1..Len(messages'), tickets'[messages'[n].ticket].open PROVE OnItsWay(n)'
    BY DEF AllThere
  <2>1. CASE n = k
    BY <1>3, <2>1 DEF OnItsWay
  <2>2. CASE n # k
    <3>1. n \in 1..Len(messages)
      BY <1>2, <2>2
    <3>2. ~raced' /\ Whole
      BY <1>1, <1>5 DEF Whole
    <3>3. messages[n].ticket \in 1..Len(tickets)
      BY <3>1 DEF HelpInv, HelpRows
    <3>4. tickets[messages[n].ticket].open
      BY <1>6, <1>7, <3>1, <3>2, <3>3
    <3>5. OnItsWay(n)
      BY <1>4, <3>1, <3>2, <3>4 DEF AllThere
    <3> QED BY <1>1, <1>3, <3>5 DEF OnItsWay, Had
  <2> QED BY <2>1, <2>2
<1> QED BY <1>1, <1>4, <1>5, <1>8, <1>9, <1>10, <1>11 DEF HelpPanel

LEMMA BroadcastPanel ==
  ASSUME HelpInv, NEW w \in Writers, Broadcast(w)
  PROVE  HelpPanel'
<1>1. /\ UNCHANGED rowVars /\ chat' = chat /\ cuts' = cuts /\ raced' = raced /\ end' = end
  BY DEF Broadcast, pageVars, rowVars
<1>2. HelpRows' /\ Grown
  BY <1>1, SameRows DEF HelpInv
<1>3. /\ call'[w].step \in {"idle", "answered"} /\ \A u \in Writers : u # w => call'[u] = call[u]
  BY <1>2, BroadcastCalls
<1>4. /\ \A m \in 1..Len(toChat) : \E n \in 1..Len(toChat') : toChat'[n] = toChat[m]
      /\ end = "panel" /\ tickets[call[w].ticket].owner = "player" =>
           \E n \in 1..Len(toChat') : toChat'[n].id = call[w].wrote
  BY <1>2, BroadcastFrames
<1>5. /\ cuts \in Nat /\ raced \in BOOLEAN /\ (chat.open => end = "panel") /\ AllMine
  BY DEF HelpInv, HelpPanel
<1>6. call["panel"].step = "none" \/ call'["panel"].step # "none"
  BY <1>3 DEF Writers
<1>7. AllMine' /\ OneOpen' /\ NoneOpen'
  BY <1>1, <1>5, <1>6, PanelRowsKept
<1>8. Whole' => Whole
  BY <1>1 DEF Whole
<1>9. ASSUME Whole, NEW n \in 1..Len(messages), OnItsWay(n) PROVE OnItsWay(n)'
  <2>1. CASE n \in ToSet(Had)
    BY <1>1, <2>1 DEF OnItsWay, Had
  <2>2. CASE \E m \in 1..Len(toChat) : toChat[m].id = n
    BY <1>4, <2>2 DEF OnItsWay
  <2>3. ASSUME NEW u \in Writers, call[u].step = "wrote", call[u].wrote = n PROVE OnItsWay(n)'
    <3>1. CASE u # w
      BY <1>3, <2>3, <3>1 DEF OnItsWay
    <3>2. CASE u = w
      <4>1. call[w].ticket \in 1..Len(tickets)
        BY <2>3, <3>2 DEF HelpInv, HelpCalls, CallFits
      <4>2. end = "panel" /\ tickets[call[w].ticket].owner = "player"
        BY <1>5, <1>9, <4>1 DEF Whole, AllMine
      <4> QED BY <1>4, <2>3, <3>2, <4>2 DEF OnItsWay
    <3> QED BY <3>1, <3>2
  <2> QED BY <1>9, <2>1, <2>2, <2>3 DEF OnItsWay
<1>10. AllThere'
  BY <1>1, <1>8, <1>9, ThereKept
<1> QED BY <1>1, <1>5, <1>7, <1>10 DEF HelpPanel

LEMMA ClosePanelOf ==
  ASSUME HelpInv, NEW t \in 1..Len(tickets), Close(t)
  PROVE  HelpPanel'
<1>1. /\ end' = end /\ messages' = messages /\ chat' = chat /\ cuts' = cuts /\ raced' = raced
  BY DEF Close, pageVars
<1>2. /\ HelpRows' /\ Grown /\ Len(tickets') = Len(tickets)
      /\ ~tickets'[t].open /\ \A u \in 1..Len(tickets) : u # t => tickets'[u] = tickets[u]
  BY CloseRows
<1>3. \A u \in Writers : call'[u] = call[u]
  BY <1>2, CloseCalls
<1>4. \A m \in 1..Len(toChat) : \E n \in 1..Len(toChat') : toChat'[n] = toChat[m]
  BY <1>2, CloseFrames
<1>5. /\ cuts \in Nat /\ raced \in BOOLEAN /\ (chat.open => end = "panel")
      /\ AllMine /\ OneOpen /\ NoneOpen /\ AllThere
  BY DEF HelpInv, HelpPanel
<1>6. \A u \in 1..Len(tickets) : tickets'[u].open => tickets[u].open
  BY <1>2
<1>7. AllMine'
  BY <1>1, <1>2, <1>5 DEF AllMine, Grown
<1>8. OneOpen'
  BY <1>1, <1>2, <1>5, <1>6 DEF OneOpen
<1>9. NoneOpen'
  BY <1>1, <1>2, <1>3, <1>5, <1>6 DEF NoneOpen, Writers
<1>10. AllThere'
  <2> SUFFICES ASSUME Whole', NEW n \in 1..Len(messages), tickets'[messages[n].ticket].open PROVE OnItsWay(n)'
    BY <1>1 DEF AllThere
  <2>1. messages[n].ticket \in 1..Len(tickets)
    BY DEF HelpInv, HelpRows
  <2>2. Whole /\ tickets[messages[n].ticket].open
    BY <1>1, <1>6, <2>1 DEF Whole
  <2>3. OnItsWay(n)
    BY <1>5, <2>2 DEF AllThere
  <2>4. CASE n \in ToSet(Had)
    BY <1>1, <2>4 DEF OnItsWay, Had
  <2>5. CASE \E m \in 1..Len(toChat) : toChat[m].id = n
    BY <1>4, <2>5 DEF OnItsWay
  <2>6. CASE \E u \in Writers : call[u].step = "wrote" /\ call[u].wrote = n
    BY <1>3, <2>6 DEF OnItsWay
  <2> QED BY <2>3, <2>4, <2>5, <2>6 DEF OnItsWay
<1> QED BY <1>1, <1>5, <1>7, <1>8, <1>9, <1>10 DEF HelpPanel

\* What the panel itself does.
LEMMA ChatPanel ==
  ASSUME HelpInv, OpenPanel \/ ClosePanel \/ ReadMe \/ Restored \/ RestoreFails \/ ChatFrame \/ SendAnswered \/ Cut
  PROVE  HelpPanel'
<1> USE DEF HelpInv
<1>1. /\ UNCHANGED rowVars /\ end' = end
      /\ chat'.open => chat.open \/ end = "panel"
      /\ cuts' = cuts \/ cuts' = cuts + 1
      /\ raced' \in BOOLEAN /\ (raced => raced')
      /\ call'["panel"].step = "none" => call["panel"].step = "none"
  <2>1. DOMAIN chat = {"open", "shown", "restore"} /\ raced \in BOOLEAN /\ call \in [Writers \cup {"closer"} -> CallSet]
    BY DEF HelpChat, HelpPanel, HelpCalls
  <2>2. CASE OpenPanel
    BY <2>1, <2>2 DEF OpenPanel, rowVars, wireVars
  <2>3. CASE ClosePanel
    BY <2>1, <2>3 DEF ClosePanel, rowVars, wireVars
  <2>4. CASE ReadMe
    BY <2>1, <2>4 DEF ReadMe, rowVars, wireVars
  <2>5. CASE Restored
    BY <2>1, <2>5 DEF Restored, rowVars, wireVars
  <2>6. CASE RestoreFails
    BY <2>1, <2>6 DEF RestoreFails, rowVars, wireVars
  <2>7. CASE ChatFrame
    <3>1. UNCHANGED rowVars /\ cuts' = cuts /\ call' = call /\ raced' = (raced \/ chat.restore # NotAsked)
          /\ chat' = [chat EXCEPT !.shown = Absorb(@, Head(toChat).id)]
      BY <2>7 DEF ChatFrame
    <3> QED BY <2>1, <3>1 DEF rowVars
  <2>8. CASE SendAnswered
    <3>1. UNCHANGED rowVars /\ cuts' = cuts /\ call' = [call EXCEPT !["panel"] = Idle] /\ raced' = (raced \/ chat.restore # NotAsked)
          /\ chat' = [chat EXCEPT !.shown = Absorb(@, call["panel"].wrote)]
      BY <2>8 DEF SendAnswered, wireVars
    <3>2. call'["panel"].step = "idle"
      BY <2>1, <3>1 DEF Idle, Writers
    <3> QED BY <2>1, <3>1, <3>2 DEF rowVars
  <2>9. CASE Cut
    BY <2>1, <2>9 DEF Cut, rowVars, pageVars
  <2> QED BY <2>2, <2>3, <2>4, <2>5, <2>6, <2>7, <2>8, <2>9
<1>2. /\ cuts \in Nat /\ raced \in BOOLEAN /\ (chat.open => end = "panel")
      /\ AllMine /\ OneOpen /\ NoneOpen /\ AllThere
  BY DEF HelpPanel
<1>3. AllMine' /\ OneOpen' /\ NoneOpen'
  BY <1>1, PanelRowsKept
<1>4. HelpRows /\ HelpCalls /\ HelpFrames /\ HelpChat
  OBVIOUS
<1>5. DOMAIN chat = {"open", "shown", "restore"} /\ call \in [Writers \cup {"closer"} -> CallSet]
  BY <1>4 DEF HelpChat, HelpCalls
<1>16. cuts' \in Nat /\ (chat'.open => end' = "panel")
  BY <1>1, <1>2
<1> SUFFICES AllThere'
  BY <1>1, <1>3, <1>16 DEF HelpPanel
<1>6. CASE OpenPanel
  <2>1. chat'.restore = Asked
    BY <1>5, <1>6 DEF OpenPanel
  <2> QED BY <1>1, <2>1, ThereKept DEF Whole
<1>7. CASE ClosePanel
  <2>1. ~chat'.open
    BY <1>5, <1>7 DEF ClosePanel
  <2> QED BY <1>1, <2>1, ThereKept DEF Whole
<1>8. CASE RestoreFails
  <2>1. raced'
    BY <1>8 DEF RestoreFails
  <2> QED BY <1>1, <2>1, ThereKept DEF Whole
<1>9. CASE Cut
  <2>1. cuts' = cuts + 1
    BY <1>9 DEF Cut
  <2> QED BY <1>1, <1>2, <2>1, ThereKept DEF Whole
<1>10. CASE Restored
  <2>1. /\ chat.restore[1] = "answered" /\ chat' = [chat EXCEPT !.shown = chat.restore[2], !.restore = NotAsked]
        /\ call' = call /\ toChat' = toChat /\ cuts' = cuts /\ raced' = raced
    BY <1>10 DEF Restored, wireVars
  <2>2. chat.restore # NotAsked /\ chat.restore # Asked
    BY <2>1 DEF NotAsked, Asked
  <2>3. Had' = Had
    BY <1>5, <2>1, <2>2 DEF Had
  <2>4. Whole' => Whole
    BY <1>5, <2>1, <2>2 DEF Whole
  <2>5. \A n \in 1..Len(messages) : OnItsWay(n) => OnItsWay(n)'
    BY <2>1, <2>3 DEF OnItsWay
  <2> QED BY <1>1, <2>4, <2>5, ThereKept
<1>11. CASE ReadMe
  <2> DEFINE mine == OpenOf("player")
             l == IF mine = <<>> THEN <<>> ELSE Thread(Head(mine))
  <2>1. chat' = [chat EXCEPT !.restore = Answered(l)] /\ cuts' = cuts /\ raced' = raced
    BY <1>11 DEF ReadMe, wireVars
  <2>2. PICK q : q = l
    OBVIOUS
  <2>3. Had' = q
    <3> HIDE DEF l
    <3>1. chat'.restore = Answered(q)
      BY <1>5, <2>1, <2>2
    <3>2. chat'.restore # NotAsked
      BY <3>1 DEF Answered, NotAsked
    <3> QED BY <3>1, <3>2 DEF Had, Answered
  <2> SUFFICES ASSUME Whole', NEW n \in 1..Len(messages), tickets[messages[n].ticket].open PROVE OnItsWay(n)'
    BY <1>1 DEF AllThere, rowVars
  <2>4. chat.open /\ ~raced /\ end = "panel"
    BY <1>2, <1>5, <2>1 DEF Whole
  <2>5. PICK t : t = messages[n].ticket
    OBVIOUS
  <2>6. t \in 1..Len(tickets) /\ tickets[t].open /\ tickets[t].owner = "player"
    BY <1>2, <1>4, <2>4, <2>5 DEF HelpRows, AllMine
  <2>7. mine # <<>>
    BY <1>4, <2>6, OpenOfIs
  <2>8. Head(mine) \in 1..Len(tickets) /\ tickets[Head(mine)].open
    BY <1>4, <2>7, OpenOfIs
  <2>9. Head(mine) = t
    BY <1>2, <2>4, <2>6, <2>8 DEF OneOpen
  <2>10. q = Thread(t)
    BY <2>2, <2>7, <2>9
  <2>11. n \in ToSet(q)
    BY <1>4, <2>5, <2>10, ThreadOf
  <2> QED BY <2>3, <2>11 DEF OnItsWay
<1>12. ASSUME NEW m, chat' = [chat EXCEPT !.shown = Absorb(@, m)], m \in Nat,
              raced' = (raced \/ chat.restore # NotAsked), cuts' = cuts, Whole'
       PROVE  Whole /\ ToSet(Had)' = ToSet(Had) \cup {m}
  <2>1. ~raced /\ chat.restore = NotAsked /\ chat'.restore = NotAsked /\ chat'.open = chat.open
    BY <1>5, <1>12 DEF Whole
  <2>2. Whole
    BY <1>12, <2>1 DEF Whole, NotAsked, Asked
  <2>3. PICK s, q : s = chat.shown /\ q = Absorb(s, m)
    OBVIOUS
  <2>4. s \in Seq(Nat) /\ IsInjective(s)
    BY <1>4, <2>3 DEF HelpChat, OfPlayer
  <2>5. ToSet(q) = ToSet(s) \cup {m}
    BY <1>12, <2>3, <2>4, AbsorbOf
  <2>6. Had' = q /\ Had = s
    BY <1>5, <1>12, <2>1, <2>3 DEF Had
  <2> QED BY <2>2, <2>5, <2>6
<1>13. CASE ChatFrame
  <2>1. /\ toChat # <<>> /\ toChat' = Tail(toChat) /\ cuts' = cuts /\ call' = call
        /\ chat' = [chat EXCEPT !.shown = Absorb(@, Head(toChat).id)]
        /\ raced' = (raced \/ chat.restore # NotAsked)
    BY <1>13 DEF ChatFrame
  <2>2. toChat \in Seq(FrameSet)
    BY <1>4 DEF HelpFrames
  <2>3. /\ Head(toChat) \in FrameSet
        /\ \A n \in 1..Len(toChat) : toChat[n] = Head(toChat) \/ \E k \in 1..Len(Tail(toChat)) : Tail(toChat)[k] = toChat[n]
    BY <2>1, <2>2, TailIs
  <2>4. PICK m : m = Head(toChat).id
    OBVIOUS
  <2>5. m \in Nat
    BY <2>3, <2>4 DEF FrameSet
  <2>6. Whole' => Whole /\ ToSet(Had)' = ToSet(Had) \cup {m}
    BY <1>12, <2>1, <2>4, <2>5
  <2>7. ASSUME Whole', NEW n \in 1..Len(messages), OnItsWay(n) PROVE OnItsWay(n)'
    <3>1. CASE n \in ToSet(Had)
      BY <2>6, <2>7, <3>1 DEF OnItsWay
    <3>2. ASSUME NEW j \in 1..Len(toChat), toChat[j].id = n PROVE OnItsWay(n)'
      <4>1. CASE toChat[j] = Head(toChat)
        BY <2>4, <2>6, <2>7, <3>2, <4>1 DEF OnItsWay
      <4>2. CASE toChat[j] # Head(toChat)
        <5>1. PICK k \in 1..Len(toChat') : toChat'[k] = toChat[j]
          BY <2>1, <2>3, <4>2
        <5> QED BY <3>2, <5>1 DEF OnItsWay
      <4> QED BY <4>1, <4>2
    <3>3. CASE \E u \in Writers : call[u].step = "wrote" /\ call[u].wrote = n
      BY <2>1, <3>3 DEF OnItsWay
    <3> QED BY <2>7, <3>1, <3>2, <3>3 DEF OnItsWay
  <2> QED BY <1>1, <2>6, <2>7, ThereKept
<1>14. CASE SendAnswered
  <2>1. /\ call["panel"].step = "answered" /\ toChat' = toChat /\ cuts' = cuts /\ call' = [call EXCEPT !["panel"] = Idle]
        /\ chat' = [chat EXCEPT !.shown = Absorb(@, call["panel"].wrote)]
        /\ raced' = (raced \/ chat.restore # NotAsked)
    BY <1>14 DEF SendAnswered, wireVars
  <2>2. PICK m : m = call["panel"].wrote
    OBVIOUS
  <2>3. m \in Nat
    BY <1>5, <2>2 DEF CallSet, Writers
  <2>4. Whole' => Whole /\ ToSet(Had)' = ToSet(Had) \cup {m}
    BY <1>12, <2>1, <2>2, <2>3
  <2>5. \A u \in Writers : call[u].step = "wrote" => call'[u] = call[u]
    BY <1>5, <2>1 DEF Writers
  <2>6. ASSUME Whole', NEW n \in 1..Len(messages), OnItsWay(n) PROVE OnItsWay(n)'
    <3>1. CASE n \in ToSet(Had)
      BY <2>4, <2>6, <3>1 DEF OnItsWay
    <3>2. CASE \E j \in 1..Len(toChat) : toChat[j].id = n
      BY <2>1, <3>2 DEF OnItsWay
    <3>3. CASE \E u \in Writers : call[u].step = "wrote" /\ call[u].wrote = n
      BY <2>5, <3>3 DEF OnItsWay
    <3> QED BY <2>6, <3>1, <3>2, <3>3 DEF OnItsWay
  <2> QED BY <1>1, <2>4, <2>6, ThereKept
<1> QED BY <1>6, <1>7, <1>8, <1>9, <1>10, <1>11, <1>13, <1>14

-----------------------------------------------------------------------------
(* Every step *)

LEMMA HelpStart ==
  ASSUME Init
  PROVE  HelpInv
<1> USE DEF Init
<1>1. HelpRows
  BY DEF HelpRows, Writing, ToSet
<1>2. NothingBuried
  BY DEF NothingBuried
<1>3. HelpCalls
  <2>1. \A w \in Writers \cup {"closer"} : call[w] = Idle
    OBVIOUS
  <2>2. Idle \in CallSet /\ Idle.step = "idle"
    BY DEF Idle, CallSet, Nobody
  <2>3. \A w \in Writers \cup {"closer"} : CallFits(w, Idle)
    BY <2>2 DEF CallFits
  <2> QED BY <2>1, <2>2, <2>3 DEF HelpCalls
<1>4. HelpFrames
  BY DEF HelpFrames
<1>5. HelpChat
  BY DEF HelpChat, OfPlayer, IsInjective, ToSet
<1>6. HelpDesk
  BY DEF HelpDesk, OfTickets
<1>7. HelpPanel
  <2>1. call["panel"] = Idle /\ Idle.step = "idle"
    BY DEF Writers, Idle
  <2>2. cuts = 0 /\ raced = FALSE /\ ~chat.open /\ tickets = <<>>
    OBVIOUS
  <2>3. AllMine /\ OneOpen
    BY <2>2 DEF AllMine, OneOpen
  <2>4. AllThere
    BY <2>2 DEF AllThere
  <2>5. NoneOpen
    BY <2>2 DEF NoneOpen
  <2>6. cuts \in Nat /\ raced \in BOOLEAN /\ (chat.open => end = "panel")
    <3>1. cuts \in Nat
      BY <2>2
    <3>2. raced = FALSE
      BY Zenon DEF Init
    <3>3. raced \in BOOLEAN
      BY <3>2, Zenon
    <3>4. ~chat.open
      BY <2>2
    <3> QED BY <3>1, <3>3, <3>4, Zenon
  <2> HIDE DEF Init
  <2> QED BY <2>3, <2>4, <2>5, <2>6 DEF HelpPanel
<1> QED BY <1>1, <1>2, <1>3, <1>4, <1>5, <1>6, <1>7 DEF HelpInv

\* A step that leaves the tables alone: the pages and the requests are what it moves.
LEMMA PageStep ==
  ASSUME HelpInv, UNCHANGED rowVars, HelpCalls',
         chat' = chat \/ OpenPanel \/ ClosePanel \/ ReadMe \/ Restored \/ RestoreFails \/ ChatFrame \/ SendAnswered,
         \/ desk' = desk /\ loads' = loads
         \/ Poll \/ DeskFrame \/ Replied \/ ClosedAnswered
         \/ \E i \in 1..Len(loads) : ReadQueue(i) \/ Loaded(i) \/ LoadFails(i)
         \/ \E t \in 1..Len(tickets) : Select(t),
         HelpFrames', HelpPanel'
  PROVE  HelpInv'
<1>1. HelpRows' /\ NothingBuried' /\ Grown
  BY SameRows DEF HelpInv
<1>2. HelpChat'
  BY <1>1, ChatStep
<1>3. HelpDesk'
  BY <1>1, DeskStep
<1> QED BY <1>1, <1>2, <1>3 DEF HelpInv

LEMMA RequestStep ==
  ASSUME HelpInv, NEW w \in Writers,
         Ask(w) \/ FindTicket(w) \/ CreateTicket(w) \/ Write(w) \/ WriteFails(w) \/ Broadcast(w)
  PROVE  HelpInv'
<1>1. CASE Ask(w) \/ FindTicket(w) \/ WriteFails(w)
  <2>1. UNCHANGED rowVars /\ UNCHANGED pageVars /\ UNCHANGED wireVars
    BY <1>1 DEF Ask, FindTicket, WriteFails
  <2>2. /\ chat' = chat /\ desk' = desk /\ loads' = loads /\ raced' = raced
        /\ toChat' = toChat /\ toDesk' = toDesk /\ cuts' = cuts
    BY <2>1 DEF pageVars, wireVars
  <2>3. HelpRows' /\ Grown
    BY <2>1, SameRows DEF HelpInv
  <2>4. HelpFrames'
    BY <2>2, <2>3, FramesStill
  <2>5. call \in [Writers \cup {"closer"} -> CallSet]
    BY DEF HelpInv, HelpCalls
  <2>6. CASE Ask(w)
    <3>1. HelpCalls'
      BY <2>3, <2>6, AskCalls
    <3>2. call[w] = Idle /\ call' = [call EXCEPT ![w].step = "asked"]
      BY <2>6 DEF Ask, Step
    <3>3. PICK c : call' = [call EXCEPT ![w] = c] /\ c.step = "asked"
      <4>1. PICK c : c = [call[w] EXCEPT !.step = "asked"]
        OBVIOUS
      <4>2. c.step = "asked"
        BY <2>5, <4>1 DEF CallSet
      <4> QED BY <2>5, <3>2, <4>1, <4>2
    <3>4. call[w].step # "wrote"
      BY <3>2 DEF Idle
    <3>5. HelpPanel'
      BY <2>1, <2>2, <3>3, <3>4, CallPanel
    <3> QED BY <2>1, <2>2, <2>4, <3>1, <3>5, PageStep
  <2>7. CASE FindTicket(w)
    <3>1. HelpCalls' /\ HelpPanel'
      BY <2>3, <2>7, FindCalls, FindPanel
    <3> QED BY <2>1, <2>2, <2>4, <3>1, PageStep
  <2>8. CASE WriteFails(w)
    <3>1. call[w].step \in {"none", "found"} /\ call' = [call EXCEPT ![w] = Idle]
      BY <2>8 DEF WriteFails
    <3>2. HelpCalls'
      BY <2>3, <3>1, IdleCalls
    <3>3. HelpPanel'
      <4>1. Idle.step # "none"
        BY DEF Idle
      <4> QED BY <2>1, <2>2, <3>1, <4>1, CallPanel
    <3> QED BY <2>1, <2>2, <2>4, <3>2, <3>3, PageStep
  <2> QED BY <1>1, <2>6, <2>7, <2>8
<1>2. CASE CreateTicket(w)
  <2>1. chat' = chat /\ desk' = desk /\ loads' = loads /\ toChat' = toChat /\ toDesk' = toDesk
    BY <1>2 DEF CreateTicket, pageVars, wireVars
  <2>2. HelpRows' /\ Grown /\ NothingBuried'
    BY <1>2, CreateRows
  <2>3. HelpCalls' /\ HelpPanel'
    BY <1>2, <2>2, CreateCalls, CreatePanel
  <2> QED BY <2>1, <2>2, <2>3, FramesStill, ChatStep, DeskStep DEF HelpInv
<1>3. CASE Write(w)
  <2>1. chat' = chat /\ desk' = desk /\ loads' = loads /\ toChat' = toChat /\ toDesk' = toDesk
    BY <1>3 DEF Write, wireVars
  <2>2. HelpRows' /\ Grown /\ NothingBuried'
    BY <1>3, WriteRows
  <2>3. HelpCalls' /\ HelpPanel'
    BY <1>3, <2>2, WriteCalls, WritePanel
  <2> QED BY <2>1, <2>2, <2>3, FramesStill, ChatStep, DeskStep DEF HelpInv
<1>4. CASE Broadcast(w)
  <2>1. UNCHANGED rowVars /\ chat' = chat /\ desk' = desk /\ loads' = loads
    BY <1>4 DEF Broadcast, pageVars
  <2>2. HelpRows' /\ Grown
    BY <2>1, SameRows DEF HelpInv
  <2>3. HelpCalls' /\ HelpFrames' /\ HelpPanel'
    BY <1>4, <2>2, BroadcastCalls, BroadcastFrames, BroadcastPanel
  <2> QED BY <2>1, <2>3, PageStep
<1> QED BY <1>1, <1>2, <1>3, <1>4

LEMMA ConsoleStep ==
  ASSUME HelpInv,
         \/ Replied \/ ClosedAnswered \/ Poll \/ DeskFrame
         \/ \E i \in 1..Len(loads) : ReadQueue(i) \/ Loaded(i) \/ LoadFails(i)
         \/ \E t \in 1..Len(tickets) : Reply(t) \/ Close(t) \/ Select(t)
  PROVE  HelpInv'
<1>0. HelpRows /\ HelpCalls /\ call \in [Writers \cup {"closer"} -> CallSet]
  BY DEF HelpInv, HelpCalls
\* A step of the list alone.
<1>1. ASSUME UNCHANGED rowVars, call' = call, chat' = chat, raced' = raced, toChat' = toChat, cuts' = cuts,
             \/ toDesk' = toDesk
             \/ toDesk # <<>> /\ toDesk' = Tail(toDesk),
             \/ Poll \/ DeskFrame
             \/ \E i \in 1..Len(loads) : ReadQueue(i) \/ Loaded(i) \/ LoadFails(i)
             \/ \E t \in 1..Len(tickets) : Select(t)
      PROVE  HelpInv'
  <2>1. HelpRows' /\ Grown
    BY <1>1, SameRows DEF HelpInv
  <2>2. HelpCalls'
    BY <1>1, <2>1, CallsStill
  <2>3. HelpFrames'
    BY <1>1, <2>1, FramesStill, ReadFrames
  <2>4. HelpPanel'
    BY <1>1, PanelKept
  <2> QED BY <1>1, <2>2, <2>3, <2>4, PageStep
<1>2. CASE Poll
  <2>1. UNCHANGED rowVars /\ call' = call /\ chat' = chat /\ raced' = raced /\ UNCHANGED wireVars
    BY <1>2 DEF Poll
  <2> QED BY <1>1, <1>2, <2>1 DEF wireVars
<1>3. CASE DeskFrame
  <2>1. UNCHANGED rowVars /\ call' = call /\ chat' = chat /\ raced' = raced /\ toChat' = toChat /\ cuts' = cuts
        /\ toDesk # <<>> /\ toDesk' = Tail(toDesk)
    BY <1>3 DEF DeskFrame
  <2> QED BY <1>1, <1>3, <2>1
<1>4. ASSUME NEW i \in 1..Len(loads), ReadQueue(i) \/ Loaded(i) \/ LoadFails(i) PROVE HelpInv'
  <2>1. UNCHANGED rowVars /\ call' = call /\ chat' = chat /\ raced' = raced /\ UNCHANGED wireVars
    BY <1>4 DEF ReadQueue, Loaded, LoadFails
  <2> QED BY <1>1, <1>4, <2>1 DEF wireVars
<1>5. ASSUME NEW t \in 1..Len(tickets), Select(t) PROVE HelpInv'
  <2>1. UNCHANGED rowVars /\ call' = call /\ chat' = chat /\ raced' = raced /\ UNCHANGED wireVars
    BY <1>5 DEF Select
  <2> QED BY <1>1, <1>5, <2>1 DEF wireVars
<1>6. CASE Replied \/ ClosedAnswered
  <2>1. /\ UNCHANGED rowVars /\ chat' = chat /\ raced' = raced /\ UNCHANGED wireVars
        /\ \/ call["staff"].step = "answered" /\ call' = [call EXCEPT !["staff"] = Idle]
           \/ call' = [call EXCEPT !["closer"] = Idle]
    BY <1>6 DEF Replied, ClosedAnswered
  <2>2. toChat' = toChat /\ toDesk' = toDesk /\ cuts' = cuts
    BY <2>1 DEF wireVars
  <2>3. HelpRows' /\ Grown
    BY <2>1, SameRows DEF HelpInv
  <2>4. HelpFrames'
    BY <2>2, <2>3, FramesStill
  <2>5. HelpCalls' /\ HelpPanel'
    <3>1. Idle.step # "none"
      BY DEF Idle
    <3>2. CASE call["staff"].step = "answered" /\ call' = [call EXCEPT !["staff"] = Idle]
      <4>1. "staff" \in Writers \cup {"closer"} /\ call["staff"].step # "wrote"
        BY <3>2 DEF Writers
      <4> QED BY <2>1, <2>2, <2>3, <3>1, <3>2, <4>1, IdleCalls, CallPanel
    <3>3. CASE call' = [call EXCEPT !["closer"] = Idle]
      <4>1. "closer" \in Writers \cup {"closer"} /\ "closer" \notin Writers
        BY DEF Writers
      <4> QED BY <2>1, <2>2, <2>3, <3>1, <3>3, <4>1, IdleCalls, CallPanel
    <3> QED BY <2>1, <3>2, <3>3
  <2> QED BY <1>6, <2>1, <2>4, <2>5, PageStep
<1>7. ASSUME NEW t \in 1..Len(tickets), Reply(t) PROVE HelpInv'
  <2>1. /\ UNCHANGED rowVars /\ UNCHANGED pageVars /\ UNCHANGED wireVars
        /\ call["staff"] = Idle /\ call' = [call EXCEPT !["staff"] = [@ EXCEPT !.step = "found", !.ticket = t]]
    BY <1>7 DEF Reply
  <2>2. /\ chat' = chat /\ desk' = desk /\ loads' = loads /\ raced' = raced
        /\ toChat' = toChat /\ toDesk' = toDesk /\ cuts' = cuts
    BY <2>1 DEF pageVars, wireVars
  <2>3. HelpRows' /\ Grown
    BY <2>1, SameRows DEF HelpInv
  <2>4. HelpFrames' /\ HelpCalls'
    BY <1>7, <2>2, <2>3, FramesStill, ReplyCalls
  <2>5. HelpPanel'
    <3>1. PICK c : call' = [call EXCEPT !["staff"] = c] /\ c.step = "found"
      <4>1. PICK c : c = [call["staff"] EXCEPT !.step = "found", !.ticket = t]
        OBVIOUS
      <4>2. c.step = "found"
        BY <2>1, <4>1 DEF Idle
      <4> QED BY <2>1, <4>1, <4>2
    <3>2. "staff" \in Writers \cup {"closer"} /\ call["staff"].step # "wrote"
      BY <2>1 DEF Writers, Idle
    <3> QED BY <2>1, <2>2, <3>1, <3>2, CallPanel
  <2> QED BY <2>1, <2>2, <2>4, <2>5, PageStep
<1>8. ASSUME NEW t \in 1..Len(tickets), Close(t) PROVE HelpInv'
  <2>1. chat' = chat /\ desk' = desk /\ loads' = loads
    BY <1>8 DEF Close, pageVars
  <2>2. HelpRows' /\ Grown /\ NothingBuried'
    BY <1>8, CloseRows
  <2>3. HelpCalls' /\ HelpFrames' /\ HelpPanel'
    BY <1>8, <2>2, CloseCalls, CloseFrames, ClosePanelOf
  <2> QED BY <2>1, <2>2, <2>3, ChatStep, DeskStep DEF HelpInv
<1> QED BY <1>2, <1>3, <1>4, <1>5, <1>6, <1>7, <1>8

LEMMA PanelSteps ==
  ASSUME HelpInv, OpenPanel \/ ClosePanel \/ ReadMe \/ Restored \/ RestoreFails \/ ChatFrame \/ SendAnswered \/ Cut
  PROVE  HelpInv'
<1>1. HelpPanel'
  BY ChatPanel
<1>2. CASE OpenPanel \/ ClosePanel \/ ReadMe \/ Restored \/ RestoreFails
  <2>1. UNCHANGED rowVars /\ call' = call /\ desk' = desk /\ loads' = loads /\ UNCHANGED wireVars
    BY <1>2 DEF OpenPanel, ClosePanel, ReadMe, Restored, RestoreFails
  <2>2. HelpRows' /\ Grown
    BY <2>1, SameRows DEF HelpInv
  <2>3. HelpCalls' /\ HelpFrames'
    BY <2>1, <2>2, CallsStill, FramesStill DEF wireVars
  <2> QED BY <1>1, <1>2, <2>1, <2>3, PageStep
<1>3. CASE ChatFrame
  <2>1. UNCHANGED rowVars /\ call' = call /\ desk' = desk /\ loads' = loads
        /\ toChat # <<>> /\ toChat' = Tail(toChat) /\ toDesk' = toDesk
    BY <1>3 DEF ChatFrame
  <2>2. HelpRows' /\ Grown
    BY <2>1, SameRows DEF HelpInv
  <2>3. HelpCalls' /\ HelpFrames'
    BY <2>1, <2>2, CallsStill, ReadFrames
  <2> QED BY <1>1, <1>3, <2>1, <2>3, PageStep
<1>4. CASE SendAnswered
  <2>1. UNCHANGED rowVars /\ desk' = desk /\ loads' = loads /\ UNCHANGED wireVars
        /\ call' = [call EXCEPT !["panel"] = Idle]
    BY <1>4 DEF SendAnswered
  <2>2. HelpRows' /\ Grown
    BY <2>1, SameRows DEF HelpInv
  <2>3. "panel" \in Writers \cup {"closer"}
    BY DEF Writers
  <2>4. HelpCalls' /\ HelpFrames'
    BY <2>1, <2>2, <2>3, IdleCalls, FramesStill DEF wireVars
  <2> QED BY <1>1, <1>4, <2>1, <2>4, PageStep
<1>5. CASE Cut
  <2>1. UNCHANGED rowVars /\ call' = call /\ UNCHANGED pageVars
        /\ \/ toChat' = <<>> /\ toDesk' = toDesk
           \/ toDesk' = <<>> /\ toChat' = toChat
    BY <1>5 DEF Cut
  <2>2. HelpRows' /\ Grown
    BY <2>1, SameRows DEF HelpInv
  <2>3. HelpCalls' /\ HelpFrames'
    BY <2>1, <2>2, CallsStill, ReadFrames
  <2>4. chat' = chat /\ desk' = desk /\ loads' = loads
    BY <2>1 DEF pageVars
  <2> QED BY <1>1, <2>1, <2>3, <2>4, PageStep
<1> QED BY <1>2, <1>3, <1>4, <1>5

LEMMA HelpStep ==
  ASSUME HelpInv, [Next]_vars
  PROVE  HelpInv'
<1>1. CASE UNCHANGED vars
  <2>1. /\ UNCHANGED rowVars /\ call' = call /\ chat' = chat /\ desk' = desk /\ loads' = loads
        /\ toChat' = toChat /\ toDesk' = toDesk /\ cuts' = cuts /\ raced' = raced
    BY <1>1 DEF vars, rowVars
  <2>2. HelpRows' /\ Grown
    BY <2>1, SameRows DEF HelpInv
  <2>3. HelpCalls' /\ HelpFrames'
    BY <2>1, <2>2, CallsStill, FramesStill
  <2>4. HelpPanel'
    BY <2>1, PanelKept
  <2> QED BY <2>1, <2>3, <2>4, PageStep
<1>2. CASE Next
  BY <1>2, RequestStep, ConsoleStep, PanelSteps DEF Next
<1> QED BY <1>1, <1>2

LEMMA HelpHolds ==
  ASSUME HelpInv
  PROVE  ShownOnce /\ NothingBuried /\ PanelIsCurrent
<1>1. HelpRows /\ HelpChat /\ HelpDesk /\ HelpPanel /\ HelpFrames
  BY DEF HelpInv
<1>2. NothingBuried
  BY DEF HelpInv
<1>3. ShownOnce
  <2>1. IsInjective(chat.shown) /\ \A id \in ToSet(chat.shown) : tickets[messages[id].ticket].owner = "player"
    BY <1>1 DEF HelpChat, OfPlayer
  <2>2. \A i \in 1..Len(desk.list) :
          /\ IsInjective(desk.list[i].shown)
          /\ \A id \in ToSet(desk.list[i].shown) : messages[id].ticket = desk.list[i].ticket
    BY <1>1 DEF HelpDesk, OfTickets, RowFits
  <2> QED BY <2>1, <2>2 DEF ShownOnce
<1>4. PanelIsCurrent
  <2> SUFFICES ASSUME chat.open, chat.restore = NotAsked, ~raced, cuts = 0, toChat = <<>>, OpenOf("player") # <<>>,
                      \A w \in Writers : call[w].step # "wrote"
               PROVE  ToSet(Thread(Head(OpenOf("player")))) \subseteq ToSet(chat.shown)
    BY DEF PanelIsCurrent
  <2>1. PICK t : t = Head(OpenOf("player"))
    OBVIOUS
  <2>2. tickets[t].open
    BY <1>1, <2>1, OpenOfIs
  <2>3. \A n : n \in ToSet(Thread(t)) <=> n \in 1..Len(messages) /\ messages[n].ticket = t
    BY <1>1, ThreadOf
  <2>4. Whole
    BY DEF Whole, NotAsked, Asked
  <2>5. \A n \in 1..Len(messages) : tickets[messages[n].ticket].open => OnItsWay(n)
    BY <1>1, <2>4 DEF HelpPanel, AllThere
  <2>6. ASSUME NEW n \in ToSet(Thread(t)) PROVE n \in ToSet(chat.shown)
    <3>1. OnItsWay(n)
      BY <2>2, <2>3, <2>5
    <3>2. 1..Len(toChat) = {}
      OBVIOUS
    <3> QED BY <3>1, <3>2 DEF OnItsWay, Had
  <2> QED BY <2>1, <2>6
<1> QED BY <1>2, <1>3, <1>4

-----------------------------------------------------------------------------
(* The theorems *)

\* Before the first message no table, list or panel holds anything.
THEOREM HelpStarts == Init => HelpInv
BY HelpStart

\* Every statement of the routes, frame and answer keeps the tables, the frames under way
\* and the lists of the pages in agreement (support.routes.ts, SupportChat.tsx, SupportConsole.tsx).
THEOREM HelpGoesOn == HelpInv /\ [Next]_vars => HelpInv'
BY HelpStep

\* While they agree, the console and the panel show each message once and in its thread.
THEOREM HelpPromises == HelpInv => ShownOnce /\ NothingBuried /\ PanelIsCurrent
BY HelpHolds

\* A message is on a list once and in the thread it was written to, a thread that got one is
\* on top of the queue, and the panel that stayed connected shows the open thread whole
\* (support.routes.ts, SupportChat.tsx, SupportConsole.tsx).
THEOREM SupportHolds == Spec => [](ShownOnce /\ NothingBuried /\ PanelIsCurrent)
BY HelpStarts, HelpGoesOn, HelpPromises, PTL DEF Spec
=============================================================================
