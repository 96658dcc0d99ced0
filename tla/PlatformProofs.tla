---------------------------- MODULE PlatformProofs ----------------------------
(***************************************************************************)
(* Proofs about the composition of MCPlatform, for any constants its       *)
(* assumptions admit: what the run of the platform checks of the server's  *)
(* connections, of where signing in ends and of the console of the         *)
(* administrators.  Each part has an invariant of its own; the parts share *)
(* no variable, and a step of one leaves the others at rest.               *)
(***************************************************************************)
EXTENDS MCPlatform, FiniteSetTheorems, SequenceTheorems, TLAPS

-----------------------------------------------------------------------------
(* Connections at the server's end *)

\* The set of sockets, the table of what is known of each and the chat room agree
\* (socket.server.ts).

PresenceInv == Online!TypeOK /\ Online!NothingLeftBehind

LEMMA PresenceInit == ASSUME Online!SocketsAssumption, Online!Init PROVE PresenceInv
BY DEF Online!Init, PresenceInv, Online!TypeOK, Online!NothingLeftBehind, Online!SocketsAssumption,
       Online!Unset, Online!User, Online!Roles, Online!Lookup, Online!NoLookup

\* Only the answer of the database confirms an entry.
Confirmed(s) ==
  meta'[s].verified /\ ~(Online!Known(s) /\ meta[s].verified) =>
    /\ lookup[s].pc = "answer" /\ ~lookup[s].row.frozen
    /\ lookup[s].version = lookup[s].row.version
    /\ meta'[s].role = lookup[s].row.role

Neat == PresenceInv' /\ \A s \in DOMAIN meta' : Confirmed(s)

\* releaseSocket leaves nothing of the sockets it releases.
LEMMA Released ==
  ASSUME PresenceInv, NEW S, Online!Release(S), user' = user, lookup' = lookup, peer' = peer,
         tcp' \in [Calls -> {"closed", "open", "closing"}]
  PROVE  Neat
<1> USE DEF PresenceInv, Online!TypeOK, Online!NothingLeftBehind
<1>1. DOMAIN meta' = DOMAIN meta \ S /\ \A s \in DOMAIN meta' : meta'[s] = meta[s]
  BY DEF Online!Release
<1>2. room' = room \ {s \in S : Online!Known(s) /\ meta[s].inRoom} /\ sockets' = sockets \ S
  BY DEF Online!Release
<1>3. PresenceInv'
  BY <1>1, <1>2 DEF Online!Known
<1>4. \A s \in DOMAIN meta' : Confirmed(s)
  BY <1>1 DEF Confirmed, Online!Known
<1> QED BY <1>3, <1>4 DEF Neat

LEMMA PresenceStep ==
  ASSUME Online!SocketsAssumption, PresenceInv, Online!Next
  PROVE  Neat
<1> USE DEF PresenceInv, Online!TypeOK, Online!NothingLeftBehind
<1>1. ASSUME NEW s \in Calls, Online!Connect(s) PROVE Neat
  <2>1. /\ DOMAIN meta' = DOMAIN meta \cup {s} /\ s \notin DOMAIN meta
        /\ \A x \in DOMAIN meta : meta'[x] = meta[x]
        /\ meta'[s] = [Online!NoEntry EXCEPT !.alive = TRUE]
        /\ sockets' = sockets \cup {s} /\ room' = room /\ user' = user
    BY <1>1 DEF Online!Connect, Online!Known
  <2>2. meta'[s] \in Online!Entry /\ ~meta'[s].inRoom /\ ~meta'[s].verified
    BY <2>1 DEF Online!NoEntry, Online!Roles, Online!Entry
  <2>3. PICK v \in 0..user.version :
          lookup' = [lookup EXCEPT ![s] = [pc |-> "query", version |-> v, row |-> Online!Unset]]
    BY <1>1 DEF Online!Connect
  <2>4. [pc |-> "query", version |-> v, row |-> Online!Unset] \in Online!Lookup
    <3>1. v \in 0..MaxVersion
      BY <2>3 DEF Online!User, Online!SocketsAssumption
    <3>2. Online!Unset \in Online!User
      BY DEF Online!Unset, Online!User, Online!Roles, Online!SocketsAssumption
    <3> QED BY <3>1, <3>2 DEF Online!Lookup
  <2>5. lookup' \in [Calls -> Online!Lookup]
    BY <2>3, <2>4
  <2>6. tcp' \in [Calls -> {"closed", "open", "closing"}] /\ peer' \in [Calls -> BOOLEAN]
    BY <1>1 DEF Online!Connect
  <2>7. PresenceInv'
    BY <2>1, <2>2, <2>5, <2>6
  <2>8. \A x \in DOMAIN meta' : Confirmed(x)
    BY <2>1, <2>2 DEF Confirmed, Online!Known
  <2> QED BY <2>7, <2>8 DEF Neat
<1>2. ASSUME NEW s \in Calls, Online!ReadUser(s) PROVE Neat
  <2>1. /\ lookup' = [lookup EXCEPT ![s].pc = "answer", ![s].row = user] /\ user' = user
        /\ meta' = meta /\ sockets' = sockets /\ room' = room /\ tcp' = tcp /\ peer' = peer
    BY <1>2 DEF Online!ReadUser
  <2>2. lookup' \in [Calls -> Online!Lookup]
    BY <2>1 DEF Online!Lookup
  <2> QED BY <2>1, <2>2 DEF Neat, Confirmed, Online!Known
<1>3. ASSUME NEW s \in Calls, Online!Confirm(s) PROVE Neat
  <2>1. /\ DOMAIN meta' = DOMAIN meta /\ sockets' = sockets /\ room' = room
        /\ \A x \in DOMAIN meta : x # s => meta'[x] = meta[x]
        /\ s \in DOMAIN meta =>
             meta'[s] = [meta[s] EXCEPT !.verified = TRUE, !.role = lookup[s].row.role]
        /\ user' = user /\ tcp' = tcp /\ peer' = peer
    BY <1>3 DEF Online!Confirm, Online!Known
  <2>2. /\ lookup[s].pc = "answer" /\ ~lookup[s].row.frozen
        /\ lookup[s].version = lookup[s].row.version
        /\ lookup' = [lookup EXCEPT ![s] = Online!NoLookup]
    BY <1>3 DEF Online!Confirm, Online!Answered, Online!SessionIsLive
  <2>3. lookup[s].row.role \in Online!Roles
    BY DEF Online!Lookup, Online!User
  <2>4. s \in DOMAIN meta =>
          meta'[s] \in Online!Entry /\ meta'[s].inRoom = meta[s].inRoom /\ meta'[s].role = lookup[s].row.role
    BY <2>1, <2>3 DEF Online!Entry
  <2>5. lookup' \in [Calls -> Online!Lookup]
    BY <2>2 DEF Online!Lookup, Online!NoLookup, Online!Unset, Online!User, Online!Roles, Online!SocketsAssumption
  <2>6. PresenceInv'
    BY <2>1, <2>4, <2>5
  <2>7. \A x \in DOMAIN meta' : Confirmed(x)
    BY <2>1, <2>2, <2>4 DEF Confirmed, Online!Known
  <2> QED BY <2>6, <2>7 DEF Neat
<1>4. ASSUME NEW s \in Calls, Online!Reject(s) PROVE Neat
  <2>1. /\ lookup' = [lookup EXCEPT ![s] = Online!NoLookup] /\ user' = user
        /\ tcp' = [tcp EXCEPT ![s] = IF @ = "open" THEN "closing" ELSE @]
        /\ meta' = meta /\ sockets' = sockets /\ room' = room /\ peer' = peer
    BY <1>4 DEF Online!Reject, Online!Answered
  <2>2. lookup' \in [Calls -> Online!Lookup]
    BY <2>1 DEF Online!Lookup, Online!NoLookup, Online!Unset, Online!User, Online!Roles, Online!SocketsAssumption
  <2>3. tcp' \in [Calls -> {"closed", "open", "closing"}]
    BY <2>1
  <2> QED BY <2>1, <2>2, <2>3 DEF Neat, Confirmed, Online!Known
<1>5. ASSUME NEW s \in Calls, Online!Closed(s) \/ Online!Errored(s) PROVE Neat
  <2>1. /\ Online!Release({s}) /\ user' = user /\ peer' = peer /\ lookup' = lookup
        /\ \E w \in {"closed", "closing"} : tcp' = [tcp EXCEPT ![s] = w]
    BY <1>5 DEF Online!Closed, Online!Errored
  <2>2. tcp' \in [Calls -> {"closed", "open", "closing"}]
    BY <2>1
  <2> QED BY <2>1, <2>2, Released
<1>6. ASSUME NEW s \in Calls, Online!Vanish(s) PROVE Neat
  BY <1>6 DEF Online!Vanish, Neat, Confirmed, Online!Known
<1>7. ASSUME NEW s \in Calls, Online!Pong(s) PROVE Neat
  <2>1. /\ DOMAIN meta' = DOMAIN meta /\ s \in DOMAIN meta
        /\ \A x \in DOMAIN meta : x # s => meta'[x] = meta[x]
        /\ meta'[s] = [meta[s] EXCEPT !.alive = TRUE]
        /\ UNCHANGED <<user, tcp, peer, sockets, lookup, room>>
    BY <1>7 DEF Online!Pong, Online!Known
  <2>2. meta'[s] \in Online!Entry /\ meta'[s].inRoom = meta[s].inRoom /\ meta'[s].verified = meta[s].verified
    BY <2>1 DEF Online!Entry
  <2>3. PresenceInv'
    BY <2>1, <2>2
  <2>4. \A x \in DOMAIN meta' : Confirmed(x)
    BY <2>1, <2>2 DEF Confirmed, Online!Known
  <2> QED BY <2>3, <2>4 DEF Neat
<1>8. ASSUME NEW s \in Calls, Online!Chat(s) PROVE Neat
  <2>1. /\ DOMAIN meta' = DOMAIN meta /\ s \in DOMAIN meta
        /\ \A x \in DOMAIN meta : x # s => meta'[x] = meta[x]
        /\ meta'[s] = [meta[s] EXCEPT !.inRoom = TRUE] /\ room' = room \cup {s}
        /\ UNCHANGED <<user, tcp, peer, sockets, lookup>>
    BY <1>8 DEF Online!Chat, Online!MayAct, Online!Known
  <2>2. meta'[s] \in Online!Entry /\ meta'[s].inRoom /\ meta'[s].verified = meta[s].verified
    BY <2>1 DEF Online!Entry
  <2>3. PresenceInv'
    BY <2>1, <2>2
  <2>4. \A x \in DOMAIN meta' : Confirmed(x)
    BY <2>1, <2>2 DEF Confirmed, Online!Known
  <2> QED BY <2>3, <2>4 DEF Neat
<1>9. ASSUME Online!Heartbeat PROVE Neat
  <2> DEFINE away == {s \in sockets : Online!Gone(s)}
  <2>1. /\ sockets' = sockets \ away /\ DOMAIN meta' = DOMAIN meta \ away
        /\ room' = room \ {s \in away : Online!Known(s) /\ meta[s].inRoom}
        /\ UNCHANGED <<user, peer, lookup>>
    BY <1>9 DEF Online!Heartbeat
  <2>2. \A s \in DOMAIN meta' : meta'[s] = [meta[s] EXCEPT !.alive = FALSE]
    BY <1>9, <2>1 DEF Online!Heartbeat, Online!StillThere
  <2>3. \A s \in DOMAIN meta' : meta'[s] \in Online!Entry /\ meta'[s].inRoom = meta[s].inRoom
                                /\ meta'[s].verified = meta[s].verified
    BY <2>1, <2>2 DEF Online!Entry
  <2>4. tcp' \in [Calls -> {"closed", "open", "closing"}]
    BY <1>9 DEF Online!Heartbeat
  <2> HIDE DEF away
  <2>5. PresenceInv'
    BY <2>1, <2>3, <2>4 DEF Online!Known
  <2>6. \A x \in DOMAIN meta' : Confirmed(x)
    BY <2>1, <2>3 DEF Confirmed, Online!Known
  <2> QED BY <2>5, <2>6 DEF Neat
<1>10. ASSUME Online!ResetPassword \/ Online!Administer PROVE Neat
  <2>1. user' \in Online!User
    <3>1. user.version \in 0..MaxVersion /\ MaxVersion \in Nat
      BY DEF Online!User, Online!SocketsAssumption
    <3>2. CASE Online!ResetPassword
      <4>1. user.version + 1 \in 0..MaxVersion /\ user' = [user EXCEPT !.version = @ + 1]
        BY <3>1, <3>2 DEF Online!ResetPassword
      <4> QED BY <4>1 DEF Online!User
    <3>3. CASE Online!Administer
      BY <3>3 DEF Online!Administer, Online!User
    <3> QED BY <1>10, <3>2, <3>3
  <2>2. UNCHANGED <<tcp, peer, sockets, meta, lookup, room>>
    BY <1>10 DEF Online!ResetPassword, Online!Administer
  <2> QED BY <2>1, <2>2 DEF Neat, Confirmed, Online!Known
<1> QED BY <1>1, <1>2, <1>3, <1>4, <1>5, <1>6, <1>7, <1>8, <1>9, <1>10 DEF Online!Next, Online!Socket

-----------------------------------------------------------------------------
(* Where signing in ends *)

\* The cookie says no other role than the account's, and the way back is a page of the site.
CookieInv ==
  /\ role \in {"USER", "ADMIN"} /\ next \in {"none", "admin", "tables"}
  /\ "cookie" \in DOMAIN session /\ session.cookie \in {role, "none", "dead"}

LEMMA CookieInit == ASSUME Entrance!Init PROVE CookieInv
<1>1. role \in {"USER", "ADMIN"} /\ next \in {"none", "admin", "tables"}
  BY DEF Entrance!Init
<1>2. session = [e \in {"stored", "cookie"} |-> IF page = "account" THEN role ELSE "none"]
  BY DEF Entrance!Init
<1>3. DOMAIN session = {"stored", "cookie"} /\ session["cookie"] \in {role, "none"}
  BY <1>2
<1> QED BY <1>1, <1>3 DEF CookieInv

Welcome == CookieInv' /\ (at = "page" => at' # "forbidden")

LEMMA CookieStep == ASSUME CookieInv, Entrance!Next PROVE Welcome
<1> USE DEF CookieInv
<1>1. ASSUME UNCHANGED <<role, next, session, at>> PROVE Welcome
  BY <1>1 DEF Welcome
<1>2. CASE Entrance!TakeCode \/ Entrance!Dies
  <2>1. session' = session \/ session' = Entrance!Dead(session)
    BY <1>2 DEF Entrance!TakeCode, Entrance!Dies
  <2>2. DOMAIN Entrance!Dead(session) = DOMAIN session
        /\ Entrance!Dead(session)["cookie"] \in {"none", "dead"}
    BY DEF Entrance!Dead
  <2>3. UNCHANGED <<role, next, at>>
    BY <1>2 DEF Entrance!TakeCode, Entrance!Dies, Entrance!fixed
  <2> QED BY <2>1, <2>2, <2>3 DEF Welcome
<1>3. CASE Entrance!SignedIn
  <2>1. PICK c \in {role, session.cookie} :
          /\ session' = [stored |-> role, cookie |-> c]
          /\ at' = Entrance!Lands(Entrance!Destination(role), c)
    BY <1>3 DEF Entrance!SignedIn
  <2>2. c \in {role, "none", "dead"} /\ "cookie" \in DOMAIN session' /\ session'.cookie = c
    BY <2>1
  <2>3. UNCHANGED <<role, next>>
    BY <1>3 DEF Entrance!SignedIn, Entrance!fixed
  <2>4. Entrance!Destination(role) \in {"admin", "tables"}
        /\ (Entrance!Destination(role) = "admin" => role = "ADMIN")
    BY DEF Entrance!Destination
  <2>5. role = "ADMIN" => Entrance!Admitted(c) # "forbidden"
    BY <2>2 DEF Entrance!Admitted
  <2>6. at' # "forbidden"
    BY <2>1, <2>4, <2>5 DEF Entrance!Lands
  <2> QED BY <2>2, <2>3, <2>6 DEF Welcome
<1>4. ASSUME NEW why, NEW to \in {"none", "admin", "tables"}, NEW c \in {"none", session.cookie},
             Entrance!SentBack(why, to, c)
      PROVE  Welcome
  <2>1. role' = role /\ next' = to /\ at' = "page"
    BY <1>4 DEF Entrance!SentBack
  <2>2. DOMAIN session' = DOMAIN session /\ session'.cookie = c
    BY <1>4 DEF Entrance!SentBack
  <2> QED BY <2>1, <2>2 DEF Welcome
<1>8. CASE Entrance!Unauthorized \/ Entrance!Redirected
  <2>1. CASE Entrance!Unauthorized
    <3>1. at \in {"page", "tables", "admin"}
      BY <2>1 DEF Entrance!Unauthorized
    <3>2. PICK c \in {"none", session.cookie} :
            Entrance!SentBack("expired", IF at = "page" THEN "tables" ELSE at, c)
      BY <2>1 DEF Entrance!Unauthorized
    <3>3. (IF at = "page" THEN "tables" ELSE at) \in {"none", "admin", "tables"}
      BY <3>1
    <3> QED BY <1>4, <3>2, <3>3
  <2>2. CASE Entrance!Redirected
    <3>1. /\ (IF at = "forbidden" THEN "none" ELSE "admin") \in {"none", "admin", "tables"}
          /\ (IF at = "invalid" THEN "none" ELSE session.cookie) \in {"none", session.cookie}
      OBVIOUS
    <3> QED BY <1>4, <2>2, <3>1 DEF Entrance!Redirected
  <2> QED BY <1>8, <2>1, <2>2
<1>5. CASE Entrance!Visit
  BY <1>5 DEF Entrance!Visit, Entrance!fixed, Welcome
<1>6. CASE \/ Entrance!ReadGate \/ Entrance!ClearGate \/ Entrance!Solve \/ Entrance!Expire
           \/ \E k \in {"start", "resend"} : Entrance!Submit(k)
           \/ \E t \in {Entrance!Wrong} \cup 1..code.number : Entrance!TypeCode(t)
           \/ Entrance!SubmitCode \/ Entrance!Back \/ Entrance!ForgotPassword \/ Entrance!OpenDialog
           \/ Entrance!ReadProfile \/ Entrance!ChangePassword \/ Entrance!CloseDialog
  BY <1>1, <1>6 DEF Entrance!ReadGate, Entrance!ClearGate, Entrance!Solve, Entrance!Expire, Entrance!Submit,
       Entrance!TypeCode, Entrance!SubmitCode, Entrance!Back, Entrance!ForgotPassword, Entrance!OpenDialog,
       Entrance!ReadProfile, Entrance!ChangePassword, Entrance!CloseDialog, Entrance!fixed
<1>7. CASE \/ Entrance!Refuse \/ Entrance!TakeUp \/ Entrance!Lose \/ Entrance!Challenged
           \/ Entrance!Failed \/ Entrance!PasswordChanged \/ Entrance!ToLogin \/ Entrance!Tick
  BY <1>1, <1>7 DEF Entrance!Refuse, Entrance!TakeUp, Entrance!Lose, Entrance!Challenged, Entrance!Failed,
       Entrance!PasswordChanged, Entrance!ToLogin, Entrance!Tick, Entrance!fixed
<1> QED BY <1>2, <1>3, <1>5, <1>6, <1>7, <1>8 DEF Entrance!Next

-----------------------------------------------------------------------------
(* The administrators *)

Card == [role : {"USER", "ADMIN"}, status : {"active", "frozen"}, cut : {"low", "high"}]
Party == Calls \cup {Desk!NoOne}
Verb == {"none", "balance", "role", "status", "cut"}
Value == {"none", "credit", "active", "frozen", "USER", "ADMIN", "low", "high"}
Word == [verb : Verb, target : Party, to : Value]
Drawer ==
  [form : Nat, user : Party, row : Card, cut : {"low", "high"}, typed : BOOLEAN,
   switched : BOOLEAN, key : Nat, busy : Nat, said : Word]
Order ==
  [n : Nat, by : Calls, form : Nat, verb : {"balance", "role", "status", "cut"}, target : Calls, to : Value,
   key : Nat \X Nat, step : {"sent", "authorised", "refused", "done", "replayed"}]

DeskTypes ==
  /\ accounts \in [Calls -> Card] /\ drawer \in [Calls -> Drawer]
  /\ \A a \in Calls : Desk!IsOpen(a) => drawer[a].user \in Calls
  /\ orders \subseteq Order /\ ordered \in Nat /\ forms \in Nat /\ crossed \in BOOLEAN

\* What an order asks for is a value of the field it names.
Sensible(c) ==
  /\ c.verb = "role" => c.to \in {"USER", "ADMIN"}
  /\ c.verb = "status" => c.to \in {"active", "frozen"}
  /\ c.verb = "cut" => c.to \in {"low", "high"}

\* No administrator is let through to demote or freeze the own account.
OrdersOK == \A c \in orders : Sensible(c) /\ (c.step = "authorised" => ~Desk!OnOneself(c))

DeskInv == DeskTypes /\ OrdersOK /\ Desk!SomeoneIsAdmin

LEMMA ClosedDrawer == Desk!Closed \in Drawer /\ Desk!Closed.form = 0 /\ Desk!NotSaid \in Word
<1>1. Desk!NotSaid \in Word
  BY DEF Word, Verb, Value, Party, Desk!NotSaid
<1>2. Desk!Fresh \in Card
  BY DEF Desk!Fresh, Card
<1>3. Desk!Closed \in Drawer
  BY <1>1, <1>2 DEF Desk!Closed, Drawer, Party
<1> QED BY <1>1, <1>3 DEF Desk!Closed

LEMMA DeskInit == ASSUME Desk!AccountDeskAssumption, Desk!Init PROVE DeskInv
<1> USE DEF Desk!AccountDeskAssumption, Desk!Init
<1>1. Desk!Fresh \in Card /\ Desk!Fresh.role = "ADMIN"
  BY DEF Desk!Fresh, Card
<1>2. Desk!Closed \in Drawer /\ Desk!Closed.form = 0
  BY ClosedDrawer
<1>3. DeskTypes
  BY <1>1, <1>2 DEF DeskTypes, Desk!IsOpen
<1>4. OrdersOK /\ Desk!SomeoneIsAdmin
  BY <1>1 DEF OrdersOK, Desk!SomeoneIsAdmin
<1> QED BY <1>3, <1>4 DEF DeskInv

\* A step that only changes drawers, each to a drawer.
LEMMA DrawerSet ==
  ASSUME DeskInv, NEW a \in Calls, NEW d \in Drawer, d.form # 0 => d.user \in Calls,
         Desk!Set(a, d), orders' \subseteq orders, UNCHANGED <<accounts, crossed>>,
         ordered' \in Nat, forms' \in Nat
  PROVE  DeskInv'
<1> USE DEF DeskInv, DeskTypes
<1>1. drawer' \in [Calls -> Drawer] /\ \A b \in Calls : Desk!IsOpen(b)' => drawer'[b].user \in Calls
  BY DEF Desk!Set, Desk!IsOpen
<1>2. OrdersOK' /\ Desk!SomeoneIsAdmin'
  BY DEF OrdersOK, Sensible, Desk!OnOneself, Desk!SomeoneIsAdmin
<1> QED BY <1>1, <1>2

\* A request moves on, and the drawers stay.
LEMMA OrderMoves ==
  ASSUME DeskInv, NEW c \in orders, NEW step \in {"refused", "authorised", "done", "replayed"},
         step = "authorised" => ~Desk!OnOneself(c),
         Desk!Move(c, step), UNCHANGED <<drawer, ordered, forms>>
  PROVE  /\ orders' \subseteq Order /\ OrdersOK'
         /\ \A a \in Calls : Desk!IsOpen(a)' => drawer'[a].user \in Calls
<1> USE DEF DeskInv, DeskTypes
<1>1. PICK n : n = [c EXCEPT !.step = step]
  OBVIOUS
<1>2. n \in Order /\ n.step = step /\ n.verb = c.verb /\ n.to = c.to /\ n.by = c.by /\ n.target = c.target
  BY <1>1 DEF Order
<1>3. orders' = (orders \ {c}) \cup {n}
  BY <1>1 DEF Desk!Move
<1>4. OrdersOK'
  BY <1>2, <1>3 DEF OrdersOK, Sensible, Desk!OnOneself
<1>5. orders' \subseteq Order
  BY <1>2, <1>3
<1> QED BY <1>4, <1>5 DEF Desk!IsOpen

LEMMA DeskStep == ASSUME Desk!AccountDeskAssumption, DeskInv, Desk!Next PROVE DeskInv'
<1> USE DEF DeskInv, DeskTypes
<1>0. Desk!Closed \in Drawer /\ Desk!NotSaid \in Word
  BY ClosedDrawer
<1>1. ASSUME NEW a \in Calls, Desk!Close(a) PROVE DeskInv'
  <2>1. Desk!Closed.form = 0 /\ Desk!Set(a, Desk!Closed)
    BY <1>1 DEF Desk!Close, Desk!Closed
  <2>2. UNCHANGED <<accounts, crossed, orders, ordered, forms>>
    BY <1>1 DEF Desk!Close, Desk!server
  <2> QED BY <1>0, <2>1, <2>2, DrawerSet
<1>2. ASSUME NEW d \in Drawer, NEW row \in Card
      PROVE  Desk!Synced(d, row) \in Drawer /\ Desk!Synced(d, row).form = d.form
             /\ Desk!Synced(d, row).user = d.user
  BY <1>2 DEF Desk!Synced, Drawer, Card
<1>3. ASSUME NEW a \in Calls, Desk!Load(a) PROVE DeskInv'
  <2>1. drawer[a].user \in Calls /\ drawer[a] \in Drawer
    BY <1>3 DEF Desk!Load
  <2>2. PICK d : d = Desk!Synced(drawer[a], accounts[drawer[a].user])
    OBVIOUS
  <2>3. d \in Drawer /\ d.user \in Calls
    BY <1>2, <2>1, <2>2
  <2>4. Desk!Set(a, d) /\ UNCHANGED <<accounts, crossed, orders, ordered, forms>>
    BY <1>3, <2>2 DEF Desk!Load, Desk!server
  <2> QED BY <2>3, <2>4, DrawerSet
<1>4. ASSUME NEW a \in Calls, NEW u \in Calls, Desk!Open(a, u) PROVE DeskInv'
  <2>1. PICK d : d = [Desk!Closed EXCEPT !.form = forms + 1, !.user = u, !.row = accounts[u], !.cut = accounts[u].cut]
    OBVIOUS
  <2>2. d \in Drawer /\ d.user = u
    <3>1. accounts[u] \in Card /\ accounts[u].cut \in {"low", "high"} /\ forms + 1 \in Nat
      BY DEF Card
    <3> QED BY <1>0, <2>1, <3>1 DEF Drawer, Party
  <2>3. Desk!Set(a, d) /\ UNCHANGED <<accounts, crossed, orders, ordered>> /\ forms' \in Nat
    BY <1>4, <2>1 DEF Desk!Open, Desk!server
  <2> QED BY <2>2, <2>3, DrawerSet
<1>5. ASSUME NEW a \in Calls, NEW u \in Calls, Desk!Switch(a, u) PROVE DeskInv'
  <2>1. PICK e : e = [drawer[a] EXCEPT !.user = u, !.switched = TRUE]
    OBVIOUS
  <2>2. e \in Drawer /\ e.user = u
    <3>1. drawer[a] \in Drawer /\ u \in Party
      BY DEF Party
    <3> QED BY <2>1, <3>1 DEF Drawer
  <2>3. PICK d : d = Desk!Synced(e, accounts[u])
    OBVIOUS
  <2>4. d \in Drawer /\ d.user = u
    BY <1>2, <2>2, <2>3
  <2>5. Desk!Set(a, d) /\ UNCHANGED <<accounts, crossed, orders, ordered, forms>>
    BY <1>5, <2>1, <2>3 DEF Desk!Switch, Desk!server
  <2> QED BY <2>4, <2>5, DrawerSet
<1>6. ASSUME NEW a \in Calls, NEW cut \in {"low", "high"}, Desk!TypeCut(a, cut) PROVE DeskInv'
  <2>1. PICK d : d = [drawer[a] EXCEPT !.cut = cut, !.typed = TRUE]
    OBVIOUS
  <2>2. d \in Drawer /\ d.user = drawer[a].user /\ d.form = drawer[a].form
    BY <2>1 DEF Drawer
  <2>3. Desk!Set(a, d) /\ UNCHANGED <<accounts, crossed, orders, ordered, forms>> /\ drawer[a].user \in Calls
    BY <1>6, <2>1 DEF Desk!TypeCut, Desk!server
  <2> QED BY <2>2, <2>3, DrawerSet
<1>7. ASSUME NEW a \in Calls, Desk!IsOpen(a), NEW order \in Desk!Orders(a), Desk!Submit(a, order) PROVE DeskInv'
  <2>1. PICK c : c = [n |-> ordered + 1, by |-> a, form |-> drawer[a].form, verb |-> order[1],
                      target |-> drawer[a].user, to |-> order[2], key |-> Desk!KeyFor(a), step |-> "sent"]
    OBVIOUS
  <2>2. /\ order[1] \in {"balance", "role", "status", "cut"} /\ order[2] \in Value
        /\ order[1] = "role" => order[2] \in {"USER", "ADMIN"}
        /\ order[1] = "status" => order[2] \in {"active", "frozen"}
        /\ order[1] = "cut" => order[2] \in {"low", "high"}
    <3>1. /\ drawer[a].cut \in {"low", "high"}
          /\ \/ order = <<"balance", "credit">>
             \/ order = <<"status", Desk!Opposite(drawer[a].row.status)>>
             \/ order \in {<<"role", "USER">>, <<"role", "ADMIN">>, <<"cut", drawer[a].cut>>}
      BY <1>7 DEF Desk!Orders, Drawer
    <3>2. Desk!Opposite(drawer[a].row.status) \in {"active", "frozen"}
      BY DEF Desk!Opposite
    <3> QED BY <3>1, <3>2 DEF Value
  <2>3. Desk!KeyFor(a) \in Nat \X Nat
    BY DEF Desk!KeyFor, Drawer
  <2>4. c \in Order
    BY <1>7, <2>1, <2>2, <2>3 DEF Order, Drawer
  <2>5. Sensible(c) /\ c.step = "sent"
    BY <2>1, <2>2 DEF Sensible
  <2>6. orders' = orders \cup {c} /\ UNCHANGED <<accounts, crossed, forms>> /\ ordered' \in Nat
    BY <1>7, <2>1 DEF Desk!Submit, Desk!server
  <2>7. PICK d : d = [drawer[a] EXCEPT !.busy = ordered + 1, !.said = Desk!NotSaid]
    OBVIOUS
  <2>8. d \in Drawer /\ d.user = drawer[a].user /\ drawer' = [drawer EXCEPT ![a] = d]
    <3>1. drawer[a] \in Drawer /\ ordered + 1 \in Nat
      BY <1>7
    <3>2. d \in Drawer /\ d.user = drawer[a].user
      BY <1>0, <2>7, <3>1 DEF Drawer
    <3> QED BY <1>7, <2>7, <3>2 DEF Desk!Submit, Desk!Set
  <2>9. drawer' \in [Calls -> Drawer] /\ \A b \in Calls : Desk!IsOpen(b)' => drawer'[b].user \in Calls
    BY <1>7, <2>8 DEF Desk!IsOpen
  <2>10. OrdersOK' /\ Desk!SomeoneIsAdmin'
    BY <2>5, <2>6 DEF OrdersOK, Sensible, Desk!OnOneself, Desk!SomeoneIsAdmin
  <2> QED BY <2>4, <2>6, <2>9, <2>10
<1>8. ASSUME NEW c \in orders, Desk!Authorise(c) PROVE DeskInv'
  <2>1. PICK step \in {"refused", "authorised"} :
          Desk!Move(c, step) /\ (step = "authorised" => ~Desk!OnOneself(c))
    BY <1>8 DEF Desk!Authorise
  <2>2. UNCHANGED <<accounts, crossed, drawer, ordered, forms>>
    BY <1>8 DEF Desk!Authorise, Desk!server, Desk!screen
  <2> QED BY <2>1, <2>2, OrderMoves DEF Desk!SomeoneIsAdmin
<1>9. ASSUME NEW c \in orders, Desk!Adjust(c) PROVE DeskInv'
  <2>1. PICK step \in {"replayed", "done"} : Desk!Move(c, step)
    BY <1>9 DEF Desk!Adjust
  <2>2. UNCHANGED <<accounts, crossed, drawer, ordered, forms>>
    BY <1>9 DEF Desk!Adjust, Desk!screen
  <2> QED BY <2>1, <2>2, OrderMoves DEF Desk!SomeoneIsAdmin
<1>10. ASSUME NEW c \in orders, Desk!Apply(c) PROVE DeskInv'
  <2>1. /\ c \in Order /\ Sensible(c) /\ ~Desk!OnOneself(c)
        /\ c.verb \in {"role", "status", "cut"} /\ Desk!Move(c, "done")
        /\ accounts' = [accounts EXCEPT ![c.target][c.verb] = c.to]
        /\ crossed' = (crossed \/ accounts[c.by].role # "ADMIN")
        /\ UNCHANGED <<drawer, ordered, forms>>
    BY <1>10 DEF Desk!Apply, OrdersOK, Order, Desk!screen
  <2>2. PICK n : n = [accounts[c.target] EXCEPT ![c.verb] = c.to]
    OBVIOUS
  <2>3. c.target \in Calls /\ c.by \in Calls /\ accounts[c.target] \in Card /\ accounts[c.by] \in Card
    BY <2>1 DEF Order
  <2>4. n \in Card /\ n.role = IF c.verb = "role" THEN c.to ELSE accounts[c.target].role
    <3>1. CASE c.verb = "role"
      <4>1. n = [accounts[c.target] EXCEPT !.role = c.to] /\ c.to \in {"USER", "ADMIN"}
        BY <2>1, <2>2, <3>1 DEF Sensible
      <4> QED BY <2>3, <3>1, <4>1 DEF Card
    <3>2. CASE c.verb = "status"
      <4>1. n = [accounts[c.target] EXCEPT !.status = c.to] /\ c.to \in {"active", "frozen"}
        BY <2>1, <2>2, <3>2 DEF Sensible
      <4> QED BY <2>3, <3>2, <4>1 DEF Card
    <3>3. CASE c.verb = "cut"
      <4>1. n = [accounts[c.target] EXCEPT !.cut = c.to] /\ c.to \in {"low", "high"}
        BY <2>1, <2>2, <3>3 DEF Sensible
      <4> QED BY <2>3, <3>3, <4>1 DEF Card
    <3> QED BY <2>1, <3>1, <3>2, <3>3
  <2>5. accounts' = [accounts EXCEPT ![c.target] = n]
    BY <2>1, <2>2
  <2>6. accounts' \in [Calls -> Card]
    BY <2>3, <2>4, <2>5
  <2>7. Desk!SomeoneIsAdmin'
    <3>1. CASE crossed'
      BY <3>1 DEF Desk!SomeoneIsAdmin
    <3>2. CASE ~crossed'
      <4>1. accounts[c.by].role = "ADMIN"
        BY <2>1, <3>2
      <4>2. c.target = c.by /\ c.verb = "role" => c.to = "ADMIN"
        BY <2>1 DEF Desk!OnOneself, Sensible
      <4>3. accounts'[c.by].role = "ADMIN"
        BY <2>3, <2>4, <2>5, <4>1, <4>2
      <4> QED BY <2>3, <4>3 DEF Desk!SomeoneIsAdmin
    <3> QED BY <3>1, <3>2
  <2>8. crossed' \in BOOLEAN
    BY <2>1
  <2>9. /\ orders' \subseteq Order /\ OrdersOK'
        /\ \A a \in Calls : Desk!IsOpen(a)' => drawer'[a].user \in Calls
    BY <2>1, OrderMoves
  <2> QED BY <2>1, <2>6, <2>7, <2>8, <2>9
<1>11. ASSUME NEW c \in orders, Desk!Forget(c) PROVE DeskInv'
  BY <1>11 DEF Desk!Forget, Desk!server, Desk!screen, OrdersOK, Sensible, Desk!OnOneself, Desk!SomeoneIsAdmin,
       Desk!IsOpen
<1>12. ASSUME NEW c \in orders, Desk!Succeeds(c) \/ Desk!Refused(c) \/ Desk!Lose(c) PROVE DeskInv'
  <2>1. c \in Order /\ c.by \in Calls /\ drawer[c.by] \in Drawer
    BY DEF Order
  <2>2. PICK word \in Word, key \in Nat :
          Desk!Set(c.by, [drawer[c.by] EXCEPT !.busy = 0, !.said = word, !.key = key])
    <3>1. CASE Desk!Succeeds(c)
      <4>1. [verb |-> c.verb, target |-> c.target, to |-> c.to] \in Word
        BY <2>1 DEF Order, Word, Verb, Party
      <4>2. drawer[c.by].key \in Nat /\ drawer[c.by].key + 1 \in Nat
        BY <2>1 DEF Drawer
      <4>3. c.verb = "balance" =>
              Desk!Set(c.by, [drawer[c.by] EXCEPT !.busy = 0,
                                !.said = [verb |-> c.verb, target |-> c.target, to |-> c.to],
                                !.key = drawer[c.by].key + 1])
        BY <2>1, <3>1 DEF Desk!Succeeds, Drawer
      <4>4. c.verb # "balance" =>
              Desk!Set(c.by, [drawer[c.by] EXCEPT !.busy = 0,
                                !.said = [verb |-> c.verb, target |-> c.target, to |-> c.to],
                                !.key = drawer[c.by].key])
        BY <2>1, <3>1 DEF Desk!Succeeds, Drawer
      <4> QED BY <4>1, <4>2, <4>3, <4>4
    <3>2. CASE Desk!Refused(c) \/ Desk!Lose(c)
      <4>1. drawer[c.by].key \in Nat /\ drawer[c.by].said \in Word
        BY <2>1 DEF Drawer
      <4>2. Desk!Set(c.by, [drawer[c.by] EXCEPT !.busy = 0, !.said = drawer[c.by].said, !.key = drawer[c.by].key])
        BY <2>1, <3>2 DEF Desk!Refused, Desk!Lose, Drawer
      <4> QED BY <4>1, <4>2
    <3> QED BY <1>12, <3>1, <3>2
  <2> DEFINE d == [drawer[c.by] EXCEPT !.busy = 0, !.said = word, !.key = key]
  <2>3. d \in Drawer /\ d.form = drawer[c.by].form /\ d.user = drawer[c.by].user
    BY <2>1, <2>2 DEF Drawer
  <2>4. d.form # 0 => d.user \in Calls
    BY <2>1, <2>3 DEF Desk!IsOpen
  <2>5. orders' \subseteq orders /\ UNCHANGED <<accounts, crossed, ordered, forms>>
    BY <1>12 DEF Desk!Succeeds, Desk!Refused, Desk!Lose, Desk!server
  <2> HIDE DEF d
  <2>6. Desk!Set(c.by, d)
    BY <2>2 DEF d
  <2> QED BY <1>12, <2>1, <2>3, <2>4, <2>5, <2>6, DrawerSet
<1> QED
  BY <1>1, <1>3, <1>4, <1>5, <1>6, <1>7, <1>8, <1>9, <1>10, <1>11, <1>12 DEF Desk!Next

-----------------------------------------------------------------------------
(* What administrators ask for, and the trail of it *)

Entry == [by : Calls, form : Nat, verb : Verb, target : Calls, to : Value]

TrailTypes ==
  /\ trail \in Seq(Entry) /\ credits \in [Calls -> Nat] /\ keys \subseteq Nat \X Nat
  /\ confirmed \in [1..MaxForms -> Nat] /\ forms <= MaxForms

FormsOK ==
  /\ \A a \in Calls : drawer[a].form <= forms
  /\ \A c \in orders : c.form \in 1..forms
  /\ \A i \in DOMAIN trail : trail[i].form \in 1..forms
  /\ \A f \in 1..MaxForms : f > forms => confirmed[f] = 0

\* A form is one administrator's, who alone sends its requests.
Owned ==
  \E own \in [Nat -> Calls] :
    /\ \A a \in Calls : Desk!IsOpen(a) => own[drawer[a].form] = a
    /\ \A c \in orders : own[c.form] = c.by
    /\ \A i \in DOMAIN trail : own[trail[i].form] = trail[i].by

\* The keys of a form are numbered by the adjustments it was told of.
Used(f) == {x \in 0..confirmed[f] : <<f, x>> \in keys}

Numbered ==
  /\ \A a \in Calls : Desk!IsOpen(a) => drawer[a].key = confirmed[drawer[a].form]
  /\ \A c \in orders : c.key[1] = c.form /\ c.key[2] \in 0..confirmed[c.form]
  /\ \A k \in keys : k[1] \in 1..forms /\ k[2] \in 0..confirmed[k[1]]
  /\ \A f \in 1..forms : Cardinality(Desk!Moves(f)) <= Cardinality(Used(f))

\* An adjustment that is answered is in the trail, its own or the one it repeats.
Told(c) == \E i \in DOMAIN trail : trail[i].by = c.by /\ trail[i].verb = c.verb /\ trail[i].to = c.to

AnswersOK ==
  /\ \A c \in orders : c.verb = "balance" => c.to = "credit"
  /\ \A c \in orders : c.step \in {"done", "replayed"} => Told(c)
  /\ \A k \in keys : \E i \in DOMAIN trail :
       trail[i].form = k[1] /\ trail[i].verb = "balance" /\ trail[i].to = "credit"

TargetsOK ==
  \A c \in orders :
    drawer[c.by].form = c.form => drawer[c.by].switched \/ c.target = drawer[c.by].user

TrailInv ==
  /\ TrailTypes /\ FormsOK /\ Owned /\ Numbered /\ AnswersOK /\ TargetsOK
  /\ Desk!TrailIsTrue /\ Desk!SaidIsDone /\ Desk!CutIsCurrent

LEMMA TrailInit == ASSUME Desk!AccountDeskAssumption, Desk!Init PROVE TrailInv
<1> USE DEF Desk!AccountDeskAssumption, Desk!Init
<1>1. Desk!Closed.form = 0 /\ Desk!Closed.said = Desk!NotSaid
  BY DEF Desk!Closed
<1>2. TrailTypes /\ FormsOK
  BY <1>1 DEF TrailTypes, FormsOK
<1>3. Owned
  <2>1. PICK a : a \in Calls
    OBVIOUS
  <2>2. [n \in Nat |-> a] \in [Nat -> Calls]
    BY <2>1
  <2>3. \A b \in Calls : ~Desk!IsOpen(b)
    BY <1>1 DEF Desk!IsOpen
  <2>4. orders = {} /\ DOMAIN trail = {}
    OBVIOUS
  <2> HIDE DEF Desk!Init
  <2> QED BY <2>2, <2>3, <2>4 DEF Owned
<1>4. Numbered /\ AnswersOK /\ TargetsOK
  <2> QED BY <1>1 DEF Numbered, AnswersOK, TargetsOK, Desk!IsOpen
<1>5. Desk!TrailIsTrue
  <2>1. \A u, v : Desk!Entries(u, v) = {}
    BY DEF Desk!Entries
  <2>2. \A u \in Calls : accounts[u] = Desk!Fresh /\ credits[u] = 0
    OBVIOUS
  <2>3. Cardinality({}) = 0
    BY FS_EmptySet
  <2> HIDE DEF Desk!Init
  <2>4. ASSUME NEW u \in Calls
        PROVE  /\ credits[u] = Cardinality(Desk!Entries(u, "balance"))
               /\ \A verb : accounts[u][verb] = Desk!Fresh[verb] /\ Desk!Entries(u, verb) = {}
    <3>1. credits[u] = 0 /\ Desk!Entries(u, "balance") = {} /\ accounts[u] = Desk!Fresh
      BY <2>1, <2>2
    <3> QED BY <2>1, <2>3, <3>1
  <2> QED BY <2>4, Zenon DEF Desk!TrailIsTrue
<1>6. Desk!SaidIsDone /\ Desk!CutIsCurrent
  BY <1>1 DEF Desk!SaidIsDone, Desk!CutIsCurrent, Desk!IsOpen
<1> QED BY <1>2, <1>3, <1>4, <1>5, <1>6 DEF TrailInv

\* A drawer that stays open on the same form, or is closed.
Redrawn(a, d) ==
  /\ d.form # 0 =>
       /\ d.form = drawer[a].form /\ d.key = drawer[a].key
       /\ d.said \in {drawer[a].said, Desk!NotSaid}
       /\ d.switched \/ (d.user = drawer[a].user /\ ~drawer[a].switched)
       /\ d.typed \/ d.cut = d.row.cut
  /\ d.form = 0 => d.said = Desk!NotSaid

LEMMA RedrawnKeeps ==
  ASSUME DeskInv, TrailInv, NEW a \in Calls, NEW d \in Drawer, Redrawn(a, d), Desk!Set(a, d),
         orders' \subseteq orders, UNCHANGED <<accounts, trail, credits, keys, confirmed, forms>>
  PROVE  TrailInv'
<1> USE DEF TrailInv
<1>0. /\ drawer' = [drawer EXCEPT ![a] = d] /\ drawer \in [Calls -> Drawer]
      /\ \A b \in Calls : b # a => drawer'[b] = drawer[b]
      /\ drawer'[a] = d
  BY DEF Desk!Set, DeskInv, DeskTypes
<1>1. TrailTypes'
  BY DEF TrailTypes
<1>2. FormsOK'
  <2>1. d.form <= forms
    BY DEF Redrawn, FormsOK, DeskInv, DeskTypes
  <2> QED BY <1>0, <2>1 DEF FormsOK
<1>3. Owned'
  <2>1. PICK own \in [Nat -> Calls] :
          /\ \A b \in Calls : Desk!IsOpen(b) => own[drawer[b].form] = b
          /\ \A c \in orders : own[c.form] = c.by
          /\ \A i \in DOMAIN trail : own[trail[i].form] = trail[i].by
    BY DEF Owned
  <2>2. \A b \in Calls : Desk!IsOpen(b)' => own[drawer'[b].form] = b
    BY <1>0, <2>1 DEF Desk!IsOpen, Redrawn
  <2> QED BY <2>1, <2>2 DEF Owned
<1>4. Numbered'
  <2>1. \A b \in Calls : Desk!IsOpen(b)' => drawer'[b].key = confirmed[drawer'[b].form]
    BY <1>0 DEF Desk!IsOpen, Redrawn, Numbered
  <2> QED BY <2>1 DEF Numbered, Used, Desk!Moves
<1>5. AnswersOK'
  BY DEF AnswersOK, Told
<1>6. TargetsOK'
  <2> SUFFICES ASSUME NEW c \in orders, drawer'[c.by].form = c.form
               PROVE  drawer'[c.by].switched \/ c.target = drawer'[c.by].user
    BY DEF TargetsOK
  <2>1. c.by \in Calls /\ c.form # 0
    BY DEF DeskInv, DeskTypes, Order, FormsOK
  <2>2. CASE c.by = a
    BY <1>0, <2>1, <2>2 DEF TargetsOK, Redrawn
  <2>3. CASE c.by # a
    BY <1>0, <2>1, <2>3 DEF TargetsOK
  <2> QED BY <2>2, <2>3
<1>7. Desk!TrailIsTrue'
  <2>1. \A u, v : Desk!Entries(u, v)' = Desk!Entries(u, v)
    BY DEF Desk!Entries
  <2> QED BY <2>1 DEF Desk!TrailIsTrue
<1>8. Desk!SaidIsDone'
  <2>1. \A b \in Calls : b # a => drawer'[b] = drawer[b]
    BY <1>0
  <2>2. d.said # Desk!NotSaid =>
          /\ \E i \in DOMAIN trail : trail[i].by = a /\ trail[i].verb = d.said.verb /\ trail[i].to = d.said.to
          /\ d.switched \/ d.said.target = d.user
    BY DEF Redrawn, Desk!SaidIsDone
  <2> QED BY <1>0, <2>1, <2>2 DEF Desk!SaidIsDone
<1>9. Desk!CutIsCurrent'
  BY <1>0 DEF Desk!CutIsCurrent, Redrawn, Desk!IsOpen
<1> QED BY <1>1, <1>2, <1>3, <1>4, <1>5, <1>6, <1>7, <1>8, <1>9

Grown(c) ==
  /\ DOMAIN trail \subseteq DOMAIN trail' /\ \A i \in DOMAIN trail : trail'[i] = trail[i]
  /\ \A i \in DOMAIN trail' : i \in DOMAIN trail \/ (trail'[i].by = c.by /\ trail'[i].form = c.form)

\* The same request at another step.
Same(n, c) ==
  /\ n \in Order /\ n.by = c.by /\ n.form = c.form /\ n.verb = c.verb /\ n.target = c.target
  /\ n.to = c.to /\ n.key = c.key

LEMMA MovedOn ==
  ASSUME DeskInv, NEW c \in orders, NEW step \in {"refused", "authorised", "done", "replayed"}, Desk!Move(c, step)
  PROVE  \E n \in Order : Same(n, c) /\ n.step = step /\ orders' = (orders \ {c}) \cup {n}
<1>1. PICK n : n = [c EXCEPT !.step = step]
  OBVIOUS
<1>2. c \in Order
  BY DEF DeskInv, DeskTypes
<1>3. n \in Order /\ Same(n, c) /\ n.step = step
  BY <1>1, <1>2 DEF Order, Same
<1>4. orders' = (orders \ {c}) \cup {n}
  BY <1>1 DEF Desk!Move
<1> QED BY <1>3, <1>4

LEMMA ServedKeeps ==
  ASSUME DeskInv, TrailInv, NEW c \in orders, NEW n \in Order, Same(n, c), orders' \subseteq orders \cup {n},
         n.step \in {"done", "replayed"} => Told(n)',
         Grown(c), UNCHANGED <<drawer, forms, confirmed>>
  PROVE  /\ FormsOK' /\ Owned' /\ TargetsOK' /\ Desk!SaidIsDone' /\ Desk!CutIsCurrent'
         /\ \A x \in orders' : x.verb = "balance" => x.to = "credit"
         /\ \A x \in orders' : x.step \in {"done", "replayed"} => Told(x)'
         /\ \A x \in orders' : x.key[1] = x.form /\ x.key[2] \in 0..confirmed[x.form]
<1> USE DEF TrailInv, Same, Grown
<1>1. FormsOK'
  BY DEF FormsOK
<1>2. Owned'
  <2>1. PICK own \in [Nat -> Calls] :
          /\ \A b \in Calls : Desk!IsOpen(b) => own[drawer[b].form] = b
          /\ \A x \in orders : own[x.form] = x.by
          /\ \A i \in DOMAIN trail : own[trail[i].form] = trail[i].by
    BY DEF Owned
  <2>2. /\ \A b \in Calls : Desk!IsOpen(b)' => own[drawer'[b].form] = b
        /\ \A x \in orders' : own[x.form] = x.by
        /\ \A i \in DOMAIN trail' : own[trail'[i].form] = trail'[i].by
    BY <2>1 DEF Desk!IsOpen
  <2> QED BY <2>1, <2>2 DEF Owned
<1>3. TargetsOK'
  BY DEF TargetsOK
<1>4. Desk!SaidIsDone' /\ Desk!CutIsCurrent'
  <2>1. \A a, v, t :
          (\E i \in DOMAIN trail : trail[i].by = a /\ trail[i].verb = v /\ trail[i].to = t)
            => \E i \in DOMAIN trail' : trail'[i].by = a /\ trail'[i].verb = v /\ trail'[i].to = t
    OBVIOUS
  <2> QED BY <2>1 DEF Desk!SaidIsDone, Desk!CutIsCurrent, Desk!IsOpen
<1>5. \A x \in orders : Told(x) => Told(x)'
  BY DEF Told
<1>6. /\ \A x \in orders' : x.verb = "balance" => x.to = "credit"
      /\ \A x \in orders' : x.step \in {"done", "replayed"} => Told(x)'
  BY <1>5 DEF AnswersOK
<1>7. \A x \in orders' : x.key[1] = x.form /\ x.key[2] \in 0..confirmed[x.form]
  BY DEF Numbered
<1> QED BY <1>1, <1>2, <1>3, <1>4, <1>6, <1>7

\* What the trail says is kept where neither it nor the accounts change.
LEMMA QuietTrail ==
  ASSUME TrailInv, UNCHANGED <<accounts, trail, credits, keys, confirmed, forms>>
  PROVE  /\ TrailTypes' /\ Desk!TrailIsTrue'
         /\ \A k \in keys' : \E i \in DOMAIN trail' :
              trail'[i].form = k[1] /\ trail'[i].verb = "balance" /\ trail'[i].to = "credit"
         /\ \A k \in keys' : k[1] \in 1..forms' /\ k[2] \in 0..confirmed'[k[1]]
         /\ \A f \in 1..forms' : Cardinality(Desk!Moves(f)') <= Cardinality(Used(f)')
<1> USE DEF TrailInv
<1>1. \A u, v : Desk!Entries(u, v)' = Desk!Entries(u, v)
  BY DEF Desk!Entries
<1>2. \A f : Desk!Moves(f)' = Desk!Moves(f) /\ Used(f)' = Used(f)
  BY DEF Desk!Moves, Used
<1>3. Desk!TrailIsTrue'
  BY <1>1 DEF Desk!TrailIsTrue
<1> QED BY <1>2, <1>3 DEF TrailTypes, Numbered, AnswersOK

\* The numbers that a form used are finitely many.
LEMMA UsedFinite ==
  ASSUME TrailInv, NEW f \in 1..MaxForms
  PROVE  IsFiniteSet(Used(f)) /\ Cardinality(Used(f)) <= confirmed[f] + 1 /\ Cardinality(Used(f)) \in Nat
<1>1. PICK n : n = confirmed[f]
  OBVIOUS
<1>2. n \in Nat
  BY <1>1 DEF TrailInv, TrailTypes
<1>3. IsFiniteSet(0..n) /\ Cardinality(0..n) = n + 1
  <2>1. 0 \in Int /\ n \in Int /\ 0 <= n
    BY <1>2
  <2>2. IsFiniteSet(0..n) /\ Cardinality(0..n) = IF 0 > n THEN 0 ELSE n - 0 + 1
    BY <2>1, FS_Interval
  <2> QED BY <1>2, <2>2
<1>4. Used(f) \in SUBSET (0..n)
  BY <1>1 DEF Used
<1>5. IsFiniteSet(Used(f)) /\ Cardinality(Used(f)) <= Cardinality(0..n)
  BY <1>3, <1>4, FS_Subset
<1>6. Cardinality(Used(f)) \in Nat
  BY <1>5, FS_CardinalityType
<1> QED BY <1>1, <1>3, <1>5, <1>6

\* The entries of the trail are finitely many.
LEMMA Filed ==
  ASSUME TrailInv
  PROVE  /\ \A u, v : IsFiniteSet(Desk!Entries(u, v)) /\ Cardinality(Desk!Entries(u, v)) \in Nat
         /\ \A f : IsFiniteSet(Desk!Moves(f)) /\ Cardinality(Desk!Moves(f)) \in Nat
<1>1. PICK n : n = Len(trail)
  OBVIOUS
<1>2. n \in Nat /\ DOMAIN trail = 1..n
  BY <1>1 DEF TrailInv, TrailTypes
<1>3. IsFiniteSet(1..n)
  BY <1>2, FS_Interval
<1>4. ASSUME NEW S \in SUBSET (1..n) PROVE IsFiniteSet(S) /\ Cardinality(S) \in Nat
  BY <1>3, FS_Subset, FS_CardinalityType
<1>5. \A u, v : Desk!Entries(u, v) \in SUBSET (1..n)
  BY <1>2 DEF Desk!Entries
<1>6. \A f : Desk!Moves(f) \in SUBSET (1..n)
  BY <1>2 DEF Desk!Moves
<1> QED BY <1>4, <1>5, <1>6

\* What one more entry adds.
LEMMA Written ==
  ASSUME TrailInv, NEW e \in Entry, trail' = Append(trail, e)
  PROVE  /\ trail' \in Seq(Entry) /\ DOMAIN trail' = DOMAIN trail \cup {Len(trail) + 1}
         /\ trail'[Len(trail) + 1] = e /\ Len(trail) + 1 \notin DOMAIN trail
         /\ \A i \in DOMAIN trail : trail'[i] = trail[i] /\ i <= Len(trail) + 1
         /\ \A u, v : Desk!Entries(u, v)' =
              IF e.target = u /\ e.verb = v THEN Desk!Entries(u, v) \cup {Len(trail) + 1} ELSE Desk!Entries(u, v)
         /\ \A f : Desk!Moves(f)' =
              IF e.verb = "balance" /\ e.form = f THEN Desk!Moves(f) \cup {Len(trail) + 1} ELSE Desk!Moves(f)
<1>1. /\ trail' \in Seq(Entry) /\ DOMAIN trail' = DOMAIN trail \cup {Len(trail) + 1}
      /\ trail'[Len(trail) + 1] = e /\ Len(trail) + 1 \notin DOMAIN trail
      /\ \A i \in DOMAIN trail : trail'[i] = trail[i] /\ i <= Len(trail) + 1
  BY DEF TrailInv, TrailTypes
<1>2. ASSUME NEW u, NEW v
      PROVE  Desk!Entries(u, v)' =
               IF e.target = u /\ e.verb = v THEN Desk!Entries(u, v) \cup {Len(trail) + 1} ELSE Desk!Entries(u, v)
  BY <1>1 DEF Desk!Entries
<1>3. ASSUME NEW f
      PROVE  Desk!Moves(f)' =
               IF e.verb = "balance" /\ e.form = f THEN Desk!Moves(f) \cup {Len(trail) + 1} ELSE Desk!Moves(f)
  BY <1>1 DEF Desk!Moves
<1> QED BY <1>1, <1>2, <1>3

LEMMA MovedOnceHolds ==
  ASSUME PlatformAssumption, DeskInv, TrailInv
  PROVE  Desk!MovedOncePerForm
<1>1. ASSUME NEW f \in 1..forms PROVE Cardinality(Desk!Moves(f)) <= confirmed[f] + 1
  <2>1. MaxForms \in Nat /\ forms \in Nat /\ forms <= MaxForms
    BY DEF PlatformAssumption, Desk!AccountDeskAssumption, TrailInv, TrailTypes, DeskInv, DeskTypes
  <2>2. f \in 1..MaxForms
    BY <2>1
  <2>3. Cardinality(Desk!Moves(f)) <= Cardinality(Used(f))
    BY DEF TrailInv, Numbered
  <2>4. Cardinality(Used(f)) <= confirmed[f] + 1 /\ Cardinality(Used(f)) \in Nat
    BY <2>2, UsedFinite
  <2>5. Cardinality(Desk!Moves(f)) \in Nat
    BY Filed
  <2>6. confirmed[f] \in Nat
    BY <2>2 DEF TrailInv, TrailTypes
  <2> QED BY <2>3, <2>4, <2>5, <2>6
<1>2. \A f \in 1..forms : Desk!Cardinality(Desk!Moves(f)) <= confirmed[f] + 1
  BY <1>1 DEF Desk!Cardinality, Cardinality
<1> QED BY <1>2 DEF Desk!MovedOncePerForm

\* The drawer closes, is read again, edited, or told of a failure.
LEMMA DrawerKeeps ==
  ASSUME DeskInv, TrailInv, NEW a \in Calls,
         \/ Desk!Close(a) \/ Desk!Load(a)
         \/ (\E u \in Calls : Desk!Switch(a, u)) \/ \E cut \in {"low", "high"} : Desk!TypeCut(a, cut)
  PROVE  TrailInv'
<1> USE DEF DeskInv, DeskTypes
<1>0. UNCHANGED <<accounts, trail, credits, keys, confirmed, forms, orders>>
  BY DEF Desk!Close, Desk!Load, Desk!Switch, Desk!TypeCut, Desk!server
<1>1. drawer[a] \in Drawer /\ (drawer[a].typed \/ drawer[a].cut = drawer[a].row.cut)
  BY ClosedDrawer DEF TrailInv, Desk!CutIsCurrent, Desk!IsOpen, Desk!Close, Desk!Load, Desk!Switch, Desk!TypeCut
<1>2. CASE Desk!Close(a)
  <2>1. Desk!Closed \in Drawer /\ Desk!Closed.form = 0 /\ Desk!Closed.said = Desk!NotSaid
    BY ClosedDrawer DEF Desk!Closed
  <2>2. Redrawn(a, Desk!Closed) /\ Desk!Set(a, Desk!Closed)
    BY <1>2, <2>1 DEF Redrawn, Desk!Close
  <2> QED BY <1>0, <2>1, <2>2, RedrawnKeeps
<1>3. ASSUME NEW d \in Drawer, NEW row \in Card, d.typed \/ d.cut = d.row.cut
      PROVE  LET s == Desk!Synced(d, row) IN
             /\ s \in Drawer /\ s.form = d.form /\ s.key = d.key /\ s.said = d.said
             /\ s.user = d.user /\ s.switched = d.switched /\ (s.typed \/ s.cut = s.row.cut)
  BY <1>3 DEF Desk!Synced, Drawer, Card
<1>4. CASE Desk!Load(a)
  <2>1. PICK s : s = Desk!Synced(drawer[a], accounts[drawer[a].user])
    OBVIOUS
  <2>2. Desk!Set(a, s) /\ Desk!IsOpen(a) /\ accounts[drawer[a].user] \in Card
    BY <1>4, <2>1 DEF Desk!Load
  <2>3. s \in Drawer /\ Redrawn(a, s)
    BY <1>1, <1>3, <2>1, <2>2 DEF Redrawn, Drawer, Desk!IsOpen
  <2> QED BY <1>0, <2>2, <2>3, RedrawnKeeps
<1>5. ASSUME NEW u \in Calls, Desk!Switch(a, u) PROVE TrailInv'
  <2>1. PICK e : e = [drawer[a] EXCEPT !.user = u, !.switched = TRUE]
    OBVIOUS
  <2>2. /\ e \in Drawer /\ e.form = drawer[a].form /\ e.key = drawer[a].key /\ e.said = drawer[a].said /\ e.switched
        /\ e.typed \/ e.cut = e.row.cut
    <3>1. u \in Party
      BY DEF Party
    <3> QED BY <1>1, <2>1, <3>1 DEF Drawer
  <2>3. PICK s : s = Desk!Synced(e, accounts[u])
    OBVIOUS
  <2>4. Desk!Set(a, s) /\ Desk!IsOpen(a) /\ accounts[u] \in Card
    BY <1>5, <2>1, <2>3 DEF Desk!Switch
  <2>5. s \in Drawer /\ Redrawn(a, s)
    BY <1>3, <2>2, <2>3, <2>4 DEF Redrawn, Desk!IsOpen
  <2> QED BY <1>0, <2>4, <2>5, RedrawnKeeps
<1>6. ASSUME NEW cut \in {"low", "high"}, Desk!TypeCut(a, cut) PROVE TrailInv'
  <2>1. PICK s : s = [drawer[a] EXCEPT !.cut = cut, !.typed = TRUE]
    OBVIOUS
  <2>2. /\ s \in Drawer /\ s.form = drawer[a].form /\ s.key = drawer[a].key /\ s.said = drawer[a].said
        /\ s.switched = drawer[a].switched /\ s.user = drawer[a].user /\ s.typed
    BY <1>1, <2>1 DEF Drawer
  <2>3. Desk!Set(a, s) /\ Desk!IsOpen(a)
    BY <1>6, <2>1 DEF Desk!TypeCut
  <2>4. Redrawn(a, s)
    BY <1>1, <2>2, <2>3 DEF Redrawn, Drawer, Desk!IsOpen
  <2> QED BY <1>0, <2>2, <2>3, <2>4, RedrawnKeeps
<1> QED BY <1>2, <1>4, <1>5, <1>6

\* A form opens under a number of its own.
LEMMA OpenKeeps ==
  ASSUME PlatformAssumption, DeskInv, TrailInv, NEW a \in Calls, NEW u \in Calls, Desk!Open(a, u)
  PROVE  TrailInv'
<1> USE DEF TrailInv, DeskInv, DeskTypes
<1>1. PICK d : d = [Desk!Closed EXCEPT !.form = forms + 1, !.user = u, !.row = accounts[u], !.cut = accounts[u].cut]
  OBVIOUS
<1>2. /\ d.form = forms + 1 /\ d.user = u /\ d.row = accounts[u] /\ d.cut = accounts[u].cut
      /\ d.key = 0 /\ d.said = Desk!NotSaid /\ ~d.switched
  BY <1>1 DEF Desk!Closed
<1>3. /\ drawer' = [drawer EXCEPT ![a] = d] /\ drawer'[a] = d /\ \A b \in Calls : b # a => drawer'[b] = drawer[b]
      /\ forms' = forms + 1 /\ forms \in Nat /\ forms + 1 \in 1..MaxForms
      /\ UNCHANGED <<accounts, trail, credits, keys, confirmed, orders>>
  <2>1. MaxForms \in Nat
    BY DEF PlatformAssumption, Desk!AccountDeskAssumption
  <2> QED BY <1>1, <2>1 DEF Desk!Open, Desk!Set, Desk!server
<1>4. TrailTypes' /\ FormsOK'
  <2>1. forms + 1 <= MaxForms /\ \A f \in 1..MaxForms : f > forms + 1 => f > forms
    BY <1>3
  <2>2. TrailTypes'
    BY <1>3, <2>1 DEF TrailTypes
  <2>3. \A b \in Calls : drawer'[b].form <= forms'
    <3>1. \A b \in Calls : drawer[b].form \in Nat
      BY DEF Drawer
    <3> QED BY <1>2, <1>3, <3>1 DEF FormsOK
  <2>4. 1..forms \subseteq 1..forms'
    BY <1>3
  <2>5. FormsOK'
    BY <1>3, <2>1, <2>3, <2>4 DEF FormsOK
  <2> QED BY <2>2, <2>5
<1>5. Owned'
  <2>1. PICK own \in [Nat -> Calls] :
          /\ \A b \in Calls : Desk!IsOpen(b) => own[drawer[b].form] = b
          /\ \A c \in orders : own[c.form] = c.by
          /\ \A i \in DOMAIN trail : own[trail[i].form] = trail[i].by
    BY DEF Owned
  <2>2. PICK mine : mine = [own EXCEPT ![forms + 1] = a]
    OBVIOUS
  <2>3. mine \in [Nat -> Calls] /\ mine[forms + 1] = a /\ \A f \in Nat : f # forms + 1 => mine[f] = own[f]
    BY <1>3, <2>2
  <2>4. \A b \in Calls : b # a => drawer[b].form \in Nat /\ drawer[b].form # forms + 1
    BY <1>3 DEF FormsOK, Drawer
  <2>5. /\ \A b \in Calls : Desk!IsOpen(b)' => mine[drawer'[b].form] = b
        /\ \A c \in orders' : mine[c.form] = c.by
        /\ \A i \in DOMAIN trail' : mine[trail'[i].form] = trail'[i].by
    <3>1. \A b \in Calls : Desk!IsOpen(b)' => mine[drawer'[b].form] = b
      BY <1>2, <1>3, <2>1, <2>3, <2>4 DEF Desk!IsOpen
    <3>2. \A c \in orders' : mine[c.form] = c.by
      BY <1>3, <2>1, <2>3 DEF FormsOK
    <3>3. \A i \in DOMAIN trail' : mine[trail'[i].form] = trail'[i].by
      BY <1>3, <2>1, <2>3 DEF FormsOK
    <3> QED BY <3>1, <3>2, <3>3
  <2> QED BY <2>3, <2>5 DEF Owned
<1>6. Numbered'
  <2>1. confirmed[forms + 1] = 0 /\ Desk!Moves(forms + 1) = {} /\ Used(forms + 1) = {}
    BY <1>3 DEF FormsOK, Desk!Moves, Numbered, Used
  <2>2. \A f : Desk!Moves(f)' = Desk!Moves(f) /\ Used(f)' = Used(f)
    BY <1>3 DEF Desk!Moves, Used
  <2>3. \A f \in 1..forms' : f = forms + 1 \/ f \in 1..forms
    BY <1>3
  <2>4. \A f \in 1..forms' : Cardinality(Desk!Moves(f)') <= Cardinality(Used(f)')
    <3>1. Cardinality({}) <= Cardinality({})
      BY FS_EmptySet
    <3> QED BY <2>1, <2>2, <2>3, <3>1 DEF Numbered
  <2>5. \A b \in Calls : Desk!IsOpen(b)' => drawer'[b].key = confirmed'[drawer'[b].form]
    BY <1>2, <1>3, <2>1 DEF Numbered, Desk!IsOpen
  <2> QED BY <1>3, <2>4, <2>5 DEF Numbered
<1>7. AnswersOK'
  BY <1>3 DEF AnswersOK, Told
<1>8. TargetsOK'
  BY <1>2, <1>3 DEF TargetsOK, FormsOK, Order
<1>9. Desk!TrailIsTrue'
  <2>1. \A v, w : Desk!Entries(v, w)' = Desk!Entries(v, w)
    BY <1>3 DEF Desk!Entries
  <2> QED BY <1>3, <2>1 DEF Desk!TrailIsTrue
<1>10. Desk!SaidIsDone' /\ Desk!CutIsCurrent'
  BY <1>2, <1>3 DEF Desk!SaidIsDone, Desk!CutIsCurrent, Desk!IsOpen
<1> QED BY <1>4, <1>5, <1>6, <1>7, <1>8, <1>9, <1>10

LEMMA FormsWithin ==
  ASSUME DeskInv, TrailInv
  PROVE  /\ forms \in Nat /\ 1..forms \subseteq 1..MaxForms
         /\ \A f \in 1..forms : confirmed[f] \in Nat
<1>1. MaxForms \in Nat /\ forms \in Nat /\ forms <= MaxForms
  BY PlatformAssumption DEF PlatformAssumption, Desk!AccountDeskAssumption, TrailInv, TrailTypes, DeskInv, DeskTypes
<1>2. 1..forms \subseteq 1..MaxForms
  BY <1>1
<1> QED BY <1>1, <1>2 DEF TrailInv, TrailTypes

LEMMA SubmitKeeps ==
  ASSUME DeskInv, TrailInv, NEW a \in Calls, Desk!IsOpen(a), NEW order \in Desk!Orders(a), Desk!Submit(a, order)
  PROVE  TrailInv'
<1> USE DEF TrailInv, DeskInv, DeskTypes
<1>1. PICK c : c = [n |-> ordered + 1, by |-> a, form |-> drawer[a].form, verb |-> order[1],
                    target |-> drawer[a].user, to |-> order[2], key |-> Desk!KeyFor(a), step |-> "sent"]
  OBVIOUS
<1>2. /\ c.by = a /\ c.form = drawer[a].form /\ c.target = drawer[a].user /\ c.step = "sent"
      /\ c.key[1] = drawer[a].form /\ c.key[2] = drawer[a].key
      /\ c.verb = "balance" => c.to = "credit"
  <2>1. order[1] = "balance" => order[2] = "credit"
    BY DEF Desk!Orders
  <2> QED BY <1>1, <2>1 DEF Desk!KeyFor
<1>3. PICK d : d = [drawer[a] EXCEPT !.busy = ordered + 1, !.said = Desk!NotSaid]
  OBVIOUS
<1>4. /\ d.form = drawer[a].form /\ d.key = drawer[a].key /\ d.said = Desk!NotSaid /\ d.user = drawer[a].user
      /\ d.switched = drawer[a].switched /\ d.typed = drawer[a].typed /\ d.cut = drawer[a].cut /\ d.row = drawer[a].row
  BY <1>3 DEF Drawer
<1>5. /\ drawer' = [drawer EXCEPT ![a] = d] /\ drawer'[a] = d /\ \A b \in Calls : b # a => drawer'[b] = drawer[b]
      /\ orders' = orders \cup {c} /\ UNCHANGED <<accounts, trail, credits, keys, confirmed, forms>>
  BY <1>1, <1>3 DEF Desk!Submit, Desk!Set, Desk!server
<1>6. drawer[a].form \in 1..forms
  BY DEF Desk!IsOpen, FormsOK, Drawer
<1>7. FormsOK'
  BY <1>2, <1>4, <1>5, <1>6 DEF FormsOK
<1>8. Owned'
  <2>1. PICK own \in [Nat -> Calls] :
          /\ \A b \in Calls : Desk!IsOpen(b) => own[drawer[b].form] = b
          /\ \A x \in orders : own[x.form] = x.by
          /\ \A i \in DOMAIN trail : own[trail[i].form] = trail[i].by
    BY DEF Owned
  <2>2. /\ \A b \in Calls : Desk!IsOpen(b)' => own[drawer'[b].form] = b
        /\ \A x \in orders' : own[x.form] = x.by
        /\ \A i \in DOMAIN trail' : own[trail'[i].form] = trail'[i].by
    BY <1>2, <1>4, <1>5, <2>1 DEF Desk!IsOpen
  <2> QED BY <2>1, <2>2 DEF Owned
<1>9. Numbered'
  <2>1. c.key[2] \in 0..confirmed[c.form]
    <3>1. confirmed[drawer[a].form] \in Nat
      BY <1>6, FormsWithin
    <3> QED BY <1>2, <3>1 DEF Numbered
  <2>2. \A b \in Calls : Desk!IsOpen(b)' => drawer'[b].key = confirmed'[drawer'[b].form]
    BY <1>4, <1>5 DEF Numbered, Desk!IsOpen
  <2> QED BY <1>2, <1>5, <2>1, <2>2, QuietTrail DEF Numbered
<1>10. AnswersOK'
  BY <1>2, <1>5 DEF AnswersOK, Told
<1>11. TargetsOK'
  BY <1>2, <1>4, <1>5 DEF TargetsOK, Order
<1>12. TrailTypes' /\ Desk!TrailIsTrue'
  BY <1>5, QuietTrail
<1>13. Desk!SaidIsDone' /\ Desk!CutIsCurrent'
  BY <1>4, <1>5 DEF Desk!SaidIsDone, Desk!CutIsCurrent, Desk!IsOpen
<1> QED BY <1>7, <1>8, <1>9, <1>10, <1>11, <1>12, <1>13

\* What is told was done, and the next adjustment has a new key.
LEMMA SucceedsKeeps ==
  ASSUME DeskInv, TrailInv, NEW c \in orders, Desk!Succeeds(c)
  PROVE  TrailInv'
<1> USE DEF TrailInv, DeskInv, DeskTypes
<1>1. PICK a : a = c.by
  OBVIOUS
<1>2. a \in Calls /\ c \in Order /\ drawer[a] \in Drawer /\ drawer[a].form = c.form /\ c.form \in 1..forms
      /\ c.form \in 1..MaxForms /\ confirmed[c.form] \in Nat /\ Told(c)
      /\ drawer[a].key = confirmed[c.form] /\ forms \in Nat
  <2>1. a \in Calls /\ c \in Order /\ drawer[a] \in Drawer /\ drawer[a].form = c.form /\ c.form \in 1..forms
        /\ Told(c) /\ forms \in Nat
    BY <1>1 DEF Order, Desk!Succeeds, Desk!Waits, FormsOK, AnswersOK
  <2>2. c.form \in 1..MaxForms /\ confirmed[c.form] \in Nat
    BY <2>1, FormsWithin
  <2>3. Desk!IsOpen(a)
    BY <2>1 DEF Desk!IsOpen
  <2> QED BY <2>1, <2>2, <2>3 DEF Numbered
<1>3. PICK m : m = IF c.verb = "balance" THEN confirmed[c.form] + 1 ELSE confirmed[c.form]
  OBVIOUS
<1>4. m \in Nat /\ confirmed[c.form] <= m
  BY <1>2, <1>3
<1>5. PICK w : w = [verb |-> c.verb, target |-> c.target, to |-> c.to]
  OBVIOUS
<1>6. PICK d : d = [drawer[a] EXCEPT !.busy = 0, !.said = w, !.key = m]
  OBVIOUS
<1>7. /\ d.form = c.form /\ d.key = m /\ d.said = w /\ d.user = drawer[a].user
      /\ d.switched = drawer[a].switched /\ d.typed = drawer[a].typed /\ d.cut = drawer[a].cut /\ d.row = drawer[a].row
  BY <1>2, <1>6 DEF Drawer
<1>8. drawer' = [drawer EXCEPT ![a] = d] /\ confirmed' = [confirmed EXCEPT ![c.form] = m]
  <2>1. CASE c.verb = "balance"
    BY <1>1, <1>2, <1>3, <1>5, <1>6, <2>1 DEF Desk!Succeeds, Desk!Set, Drawer, TrailTypes
  <2>2. CASE c.verb # "balance"
    <3>1. m = drawer[a].key /\ m = confirmed[c.form]
      BY <1>2, <1>3, <2>2
    <3>2. d = [drawer[a] EXCEPT !.busy = 0, !.said = w]
      BY <1>2, <1>6, <3>1 DEF Drawer
    <3>3. confirmed' = [confirmed EXCEPT ![c.form] = m]
      <4>1. confirmed' = confirmed
        BY <2>2 DEF Desk!Succeeds
      <4> QED BY <1>2, <3>1, <4>1 DEF TrailTypes
    <3>4. drawer' = [drawer EXCEPT ![a] = d]
      BY <1>1, <1>5, <2>2, <3>2 DEF Desk!Succeeds, Desk!Set
    <3> QED BY <3>3, <3>4
  <2> QED BY <2>1, <2>2, Zenon
<1>9. /\ drawer'[a] = d /\ \A b \in Calls : b # a => drawer'[b] = drawer[b]
      /\ orders' = orders \ {c} /\ UNCHANGED <<accounts, trail, credits, keys, forms>>
  BY <1>2, <1>8 DEF Desk!Succeeds, Desk!server
<1>10. /\ confirmed' \in [1..MaxForms -> Nat] /\ confirmed'[c.form] = m
       /\ \A f \in 1..MaxForms : f # c.form => confirmed'[f] = confirmed[f]
  BY <1>2, <1>4, <1>8 DEF TrailTypes
<1>11. TrailTypes' /\ FormsOK'
  <2>1. TrailTypes'
    BY <1>9, <1>10 DEF TrailTypes
  <2>2. \A b \in Calls : drawer'[b].form <= forms'
    BY <1>2, <1>7, <1>9 DEF FormsOK
  <2>3. \A f \in 1..MaxForms : f > forms' => confirmed'[f] = 0
    BY <1>2, <1>9, <1>10 DEF FormsOK
  <2> QED BY <1>9, <2>1, <2>2, <2>3 DEF FormsOK
<1>12. PICK own \in [Nat -> Calls] :
         /\ \A b \in Calls : Desk!IsOpen(b) => own[drawer[b].form] = b
         /\ \A x \in orders : own[x.form] = x.by
         /\ \A i \in DOMAIN trail : own[trail[i].form] = trail[i].by
  BY DEF Owned
<1>13. Owned'
  <2>1. /\ \A b \in Calls : Desk!IsOpen(b)' => own[drawer'[b].form] = b
        /\ \A x \in orders' : own[x.form] = x.by
        /\ \A i \in DOMAIN trail' : own[trail'[i].form] = trail'[i].by
    BY <1>2, <1>7, <1>9, <1>12 DEF Desk!IsOpen
  <2> QED BY <1>12, <2>1 DEF Owned
<1>14. Numbered'
  <2>1. ASSUME NEW f \in 1..forms PROVE 0..confirmed[f] \subseteq 0..confirmed'[f] /\ confirmed[f] \in Nat
    <3>1. f \in 1..MaxForms /\ confirmed[f] \in Nat
      BY FormsWithin
    <3> QED BY <1>4, <1>10, <3>1
  <2>2. \A b \in Calls : Desk!IsOpen(b)' => drawer'[b].key = confirmed'[drawer'[b].form]
    <3> SUFFICES ASSUME NEW b \in Calls, Desk!IsOpen(b)' PROVE drawer'[b].key = confirmed'[drawer'[b].form]
      OBVIOUS
    <3>1. CASE b = a
      BY <1>7, <1>9, <1>10, <3>1
    <3>2. CASE b # a
      <4>1. drawer'[b] = drawer[b] /\ Desk!IsOpen(b)
        BY <1>9, <3>2 DEF Desk!IsOpen
      <4>2. drawer[b].form # c.form
        BY <1>1, <1>12, <3>2, <4>1
      <4>3. drawer[b].form \in 1..MaxForms
        <5>1. drawer[b].form \in Nat /\ drawer[b].form <= forms /\ drawer[b].form # 0
          BY <4>1 DEF FormsOK, Drawer, Desk!IsOpen
        <5> QED BY <5>1, FormsWithin
      <4> QED BY <1>10, <4>1, <4>2, <4>3 DEF Numbered
    <3> QED BY <3>1, <3>2
  <2>3. \A x \in orders' : x.key[1] = x.form /\ x.key[2] \in 0..confirmed'[x.form]
    BY <1>9, <2>1 DEF Numbered, FormsOK
  <2>4. \A k \in keys' : k[1] \in 1..forms' /\ k[2] \in 0..confirmed'[k[1]]
    BY <1>9, <2>1 DEF Numbered
  <2>5. ASSUME NEW f \in 1..forms PROVE Cardinality(Desk!Moves(f)') <= Cardinality(Used(f)')
    <3>1. Desk!Moves(f)' = Desk!Moves(f)
      BY <1>9 DEF Desk!Moves
    <3>2. Used(f)' = Used(f)
      <4>1. \A x : <<f, x>> \in keys => x \in 0..confirmed[f]
        BY DEF Numbered
      <4>2. \A x : <<f, x>> \in keys => x \in 0..confirmed'[f]
        BY <2>1, <4>1
      <4> QED BY <1>9, <4>1, <4>2 DEF Used
    <3> QED BY <3>1, <3>2 DEF Numbered
  <2>6. forms' = forms
    BY <1>9
  <2> QED BY <2>2, <2>3, <2>4, <2>5, <2>6 DEF Numbered
<1>15. AnswersOK'
  BY <1>9 DEF AnswersOK, Told
<1>16. TargetsOK'
  <2> SUFFICES ASSUME NEW x \in orders, drawer'[x.by].form = x.form
               PROVE  drawer'[x.by].switched \/ x.target = drawer'[x.by].user
    BY <1>9 DEF TargetsOK
  <2>1. x.by \in Calls
    BY DEF Order
  <2>2. CASE x.by = a
    BY <1>2, <1>7, <1>9, <2>2 DEF TargetsOK
  <2>3. CASE x.by # a
    BY <1>9, <2>1, <2>3 DEF TargetsOK
  <2> QED BY <2>2, <2>3
<1>17. Desk!TrailIsTrue'
  <2>1. \A u, v : Desk!Entries(u, v)' = Desk!Entries(u, v)
    BY <1>9 DEF Desk!Entries
  <2> QED BY <1>9, <2>1 DEF Desk!TrailIsTrue
<1>18. Desk!SaidIsDone'
  <2>1. d.switched \/ c.target = d.user
    BY <1>1, <1>2, <1>7 DEF TargetsOK
  <2>2. w.verb = c.verb /\ w.target = c.target /\ w.to = c.to
    BY <1>5
  <2>3. \E i \in DOMAIN trail : trail[i].by = a /\ trail[i].verb = w.verb /\ trail[i].to = w.to
    BY <1>1, <1>2, <2>2 DEF Told
  <2> QED BY <1>7, <1>9, <2>1, <2>2, <2>3 DEF Desk!SaidIsDone
<1>19. Desk!CutIsCurrent'
  BY <1>7, <1>9, <1>2 DEF Desk!CutIsCurrent, Desk!IsOpen
<1> QED BY <1>11, <1>13, <1>14, <1>15, <1>16, <1>17, <1>18, <1>19

\* A request moves on or is answered, and nothing is done.
LEMMA ServedQuietly ==
  ASSUME DeskInv, TrailInv, NEW c \in orders, NEW n \in Order, Same(n, c), orders' \subseteq orders \cup {n},
         n.step \in {"done", "replayed"} => Told(n),
         UNCHANGED <<accounts, trail, credits, keys, drawer, forms, confirmed>>
  PROVE  TrailInv'
<1>1. Grown(c)
  BY DEF Grown
<1>2. n.step \in {"done", "replayed"} => Told(n)'
  BY DEF Told
<1>3. /\ FormsOK' /\ Owned' /\ TargetsOK' /\ Desk!SaidIsDone' /\ Desk!CutIsCurrent'
      /\ \A x \in orders' : x.verb = "balance" => x.to = "credit"
      /\ \A x \in orders' : x.step \in {"done", "replayed"} => Told(x)'
      /\ \A x \in orders' : x.key[1] = x.form /\ x.key[2] \in 0..confirmed[x.form]
  BY <1>1, <1>2, ServedKeeps
<1>4. /\ TrailTypes' /\ Desk!TrailIsTrue'
      /\ \A k \in keys' : \E i \in DOMAIN trail' :
           trail'[i].form = k[1] /\ trail'[i].verb = "balance" /\ trail'[i].to = "credit"
      /\ \A k \in keys' : k[1] \in 1..forms' /\ k[2] \in 0..confirmed'[k[1]]
      /\ \A f \in 1..forms' : Cardinality(Desk!Moves(f)') <= Cardinality(Used(f)')
  BY QuietTrail
<1>5. \A a \in Calls : Desk!IsOpen(a)' => drawer'[a].key = confirmed'[drawer'[a].form]
  BY DEF TrailInv, Numbered, Desk!IsOpen
<1>6. Numbered' /\ AnswersOK'
  BY <1>3, <1>4, <1>5 DEF Numbered, AnswersOK
<1> QED BY <1>3, <1>4, <1>6 DEF TrailInv

\* What is done is entered in the trail by the one who asked, under the form it was asked from.
LEMMA Entered ==
  ASSUME DeskInv, TrailInv, NEW c \in orders, trail' = Desk!Audited(c), Desk!Move(c, "done"),
         UNCHANGED <<drawer, forms, confirmed>>
  PROVE  /\ FormsOK' /\ Owned' /\ TargetsOK' /\ Desk!SaidIsDone' /\ Desk!CutIsCurrent'
         /\ \A x \in orders' : x.verb = "balance" => x.to = "credit"
         /\ \A x \in orders' : x.step \in {"done", "replayed"} => Told(x)'
         /\ \A x \in orders' : x.key[1] = x.form /\ x.key[2] \in 0..confirmed[x.form]
         /\ trail' \in Seq(Entry) /\ Len(trail) + 1 \in DOMAIN trail' /\ DOMAIN trail \subseteq DOMAIN trail'
         /\ trail'[Len(trail) + 1].verb = c.verb /\ trail'[Len(trail) + 1].form = c.form
         /\ trail'[Len(trail) + 1].to = c.to
         /\ Len(trail) + 1 \notin DOMAIN trail
         /\ \A i \in DOMAIN trail : trail'[i] = trail[i] /\ i <= Len(trail) + 1
         /\ \A u, v : Desk!Entries(u, v)' =
              IF c.target = u /\ c.verb = v THEN Desk!Entries(u, v) \cup {Len(trail) + 1} ELSE Desk!Entries(u, v)
         /\ \A f : Desk!Moves(f)' =
              IF c.verb = "balance" /\ c.form = f THEN Desk!Moves(f) \cup {Len(trail) + 1} ELSE Desk!Moves(f)
<1>1. PICK e : e = [by |-> c.by, form |-> c.form, verb |-> c.verb, target |-> c.target, to |-> c.to]
  OBVIOUS
<1>2. c \in Order
  BY DEF DeskInv, DeskTypes
<1>3. e \in Entry /\ e.by = c.by /\ e.form = c.form /\ e.verb = c.verb /\ e.target = c.target /\ e.to = c.to
  BY <1>1, <1>2 DEF Entry, Order, Verb
<1>4. trail' = Append(trail, e)
  BY <1>1 DEF Desk!Audited
<1>5. /\ trail' \in Seq(Entry) /\ DOMAIN trail' = DOMAIN trail \cup {Len(trail) + 1}
      /\ trail'[Len(trail) + 1] = e /\ Len(trail) + 1 \notin DOMAIN trail
      /\ \A i \in DOMAIN trail : trail'[i] = trail[i] /\ i <= Len(trail) + 1
      /\ \A u, v : Desk!Entries(u, v)' =
           IF e.target = u /\ e.verb = v THEN Desk!Entries(u, v) \cup {Len(trail) + 1} ELSE Desk!Entries(u, v)
      /\ \A f : Desk!Moves(f)' =
           IF e.verb = "balance" /\ e.form = f THEN Desk!Moves(f) \cup {Len(trail) + 1} ELSE Desk!Moves(f)
  BY <1>3, <1>4, Written
<1>6. PICK n \in Order : Same(n, c) /\ n.step = "done" /\ orders' = (orders \ {c}) \cup {n}
  BY MovedOn
<1>7. Grown(c) /\ Told(n)'
  BY <1>3, <1>5, <1>6 DEF Grown, Told, Same
<1>8. /\ FormsOK' /\ Owned' /\ TargetsOK' /\ Desk!SaidIsDone' /\ Desk!CutIsCurrent'
      /\ \A x \in orders' : x.verb = "balance" => x.to = "credit"
      /\ \A x \in orders' : x.step \in {"done", "replayed"} => Told(x)'
      /\ \A x \in orders' : x.key[1] = x.form /\ x.key[2] \in 0..confirmed[x.form]
  BY <1>6, <1>7, ServedKeeps
<1> QED BY <1>3, <1>5, <1>8

LEMMA ApplyKeeps ==
  ASSUME DeskInv, TrailInv, NEW c \in orders, Desk!Apply(c)
  PROVE  TrailInv'
<1> DEFINE l == Len(trail) + 1
<1>1. /\ c \in Order /\ c.verb \in {"role", "status", "cut"} /\ c.target \in Calls
      /\ trail' = Desk!Audited(c) /\ Desk!Move(c, "done")
      /\ accounts' = [accounts EXCEPT ![c.target][c.verb] = c.to]
      /\ UNCHANGED <<credits, keys, drawer, forms, confirmed>>
  BY DEF Desk!Apply, Desk!screen, DeskInv, DeskTypes, Order
<1>2. /\ FormsOK' /\ Owned' /\ TargetsOK' /\ Desk!SaidIsDone' /\ Desk!CutIsCurrent'
      /\ \A x \in orders' : x.verb = "balance" => x.to = "credit"
      /\ \A x \in orders' : x.step \in {"done", "replayed"} => Told(x)'
      /\ \A x \in orders' : x.key[1] = x.form /\ x.key[2] \in 0..confirmed[x.form]
      /\ trail' \in Seq(Entry) /\ l \in DOMAIN trail' /\ DOMAIN trail \subseteq DOMAIN trail'
      /\ trail'[l].to = c.to
      /\ \A i \in DOMAIN trail : trail'[i] = trail[i] /\ i <= l
      /\ \A u, v : Desk!Entries(u, v)' =
           IF c.target = u /\ c.verb = v THEN Desk!Entries(u, v) \cup {l} ELSE Desk!Entries(u, v)
      /\ \A f : Desk!Moves(f)' = IF c.verb = "balance" /\ c.form = f THEN Desk!Moves(f) \cup {l} ELSE Desk!Moves(f)
  BY <1>1, Entered
<1> HIDE DEF l
<1>3. TrailTypes'
  BY <1>1, <1>2 DEF TrailInv, TrailTypes
<1>4. Numbered' /\ AnswersOK'
  <2>1. \A f : Desk!Moves(f)' = Desk!Moves(f) /\ Used(f)' = Used(f)
    BY <1>1, <1>2 DEF Used
  <2>2. \A a \in Calls : Desk!IsOpen(a)' => drawer'[a].key = confirmed'[drawer'[a].form]
    BY <1>1 DEF TrailInv, Numbered, Desk!IsOpen
  <2>3. Numbered'
    BY <1>1, <1>2, <2>1, <2>2 DEF TrailInv, Numbered
  <2>4. AnswersOK'
    BY <1>1, <1>2 DEF TrailInv, AnswersOK
  <2> QED BY <2>3, <2>4
<1>5. Desk!TrailIsTrue'
  <2>1. ASSUME NEW u \in Calls
        PROVE  /\ credits'[u] = Desk!Cardinality(Desk!Entries(u, "balance")')
               /\ \A verb \in {"role", "status", "cut"} :
                    \/ accounts'[u][verb] = Desk!Fresh[verb] /\ Desk!Entries(u, verb)' = {}
                    \/ \E i \in Desk!Entries(u, verb)' :
                         accounts'[u][verb] = trail'[i].to /\ \A j \in Desk!Entries(u, verb)' : j <= i
    <3>1. credits[u] = Desk!Cardinality(Desk!Entries(u, "balance"))
      BY DEF TrailInv, Desk!TrailIsTrue
    <3>2. credits'[u] = Desk!Cardinality(Desk!Entries(u, "balance")')
      BY <1>1, <1>2, <3>1
    <3>3. ASSUME NEW verb \in {"role", "status", "cut"}
          PROVE  \/ accounts'[u][verb] = Desk!Fresh[verb] /\ Desk!Entries(u, verb)' = {}
                 \/ \E i \in Desk!Entries(u, verb)' :
                      accounts'[u][verb] = trail'[i].to /\ \A j \in Desk!Entries(u, verb)' : j <= i
      <4>1. CASE c.target = u /\ c.verb = verb
        <5>1. accounts'[u][verb] = c.to
          BY <1>1, <4>1 DEF DeskInv, DeskTypes, Card
        <5>2. Desk!Entries(u, verb)' = Desk!Entries(u, verb) \cup {l}
          BY <1>2, <4>1
        <5>3. \A j \in Desk!Entries(u, verb)' : j <= l
          <6>1. \A j \in Desk!Entries(u, verb) : j \in DOMAIN trail
            BY DEF Desk!Entries
          <6>2. l <= l
            BY DEF l, TrailInv, TrailTypes
          <6> QED BY <1>2, <5>2, <6>1, <6>2
        <5> QED BY <1>2, <5>1, <5>2, <5>3
      <4>2. CASE ~(c.target = u /\ c.verb = verb)
        <5>1. accounts'[u][verb] = accounts[u][verb]
          BY <1>1, <4>2 DEF DeskInv, DeskTypes, Card
        <5>2. Desk!Entries(u, verb)' = Desk!Entries(u, verb)
          BY <1>2, <4>2
        <5>3. \A i \in Desk!Entries(u, verb) : trail'[i] = trail[i]
          BY <1>2 DEF Desk!Entries
        <5>4. \/ accounts[u][verb] = Desk!Fresh[verb] /\ Desk!Entries(u, verb) = {}
              \/ \E i \in Desk!Entries(u, verb) :
                   accounts[u][verb] = trail[i].to /\ \A j \in Desk!Entries(u, verb) : j <= i
          BY DEF TrailInv, Desk!TrailIsTrue
        <5> QED BY <5>1, <5>2, <5>3, <5>4
      <4> QED BY <4>1, <4>2
    <3> QED BY <3>2, <3>3
  <2> QED BY <2>1 DEF Desk!TrailIsTrue
<1> QED BY <1>2, <1>3, <1>4, <1>5 DEF TrailInv

\* One more adjustment takes one more key of its form.
LEMMA AdjustKeeps ==
  ASSUME DeskInv, TrailInv, NEW c \in orders, Desk!Adjust(c), c.key \notin keys
  PROVE  TrailInv'
<1> DEFINE l == Len(trail) + 1
<1>1. /\ c \in Order /\ c.verb = "balance" /\ c.target \in Calls /\ c.to = "credit"
      /\ trail' = Desk!Audited(c) /\ Desk!Move(c, "done")
      /\ keys' = keys \cup {c.key} /\ credits' = [credits EXCEPT ![c.target] = @ + 1]
      /\ UNCHANGED <<accounts, drawer, forms, confirmed>>
  BY DEF Desk!Adjust, Desk!screen, DeskInv, DeskTypes, Order, TrailInv, AnswersOK
<1>2. /\ FormsOK' /\ Owned' /\ TargetsOK' /\ Desk!SaidIsDone' /\ Desk!CutIsCurrent'
      /\ \A x \in orders' : x.verb = "balance" => x.to = "credit"
      /\ \A x \in orders' : x.step \in {"done", "replayed"} => Told(x)'
      /\ \A x \in orders' : x.key[1] = x.form /\ x.key[2] \in 0..confirmed[x.form]
      /\ trail' \in Seq(Entry) /\ l \in DOMAIN trail' /\ DOMAIN trail \subseteq DOMAIN trail'
      /\ trail'[l].to = c.to /\ trail'[l].verb = c.verb /\ trail'[l].form = c.form
      /\ l \notin DOMAIN trail
      /\ \A i \in DOMAIN trail : trail'[i] = trail[i] /\ i <= l
      /\ \A u, v : Desk!Entries(u, v)' =
           IF c.target = u /\ c.verb = v THEN Desk!Entries(u, v) \cup {l} ELSE Desk!Entries(u, v)
      /\ \A f : Desk!Moves(f)' = IF c.verb = "balance" /\ c.form = f THEN Desk!Moves(f) \cup {l} ELSE Desk!Moves(f)
  BY <1>1, Entered
<1> HIDE DEF l
<1>3. c.key \in Nat \X Nat /\ c.key[1] = c.form /\ c.key[2] \in 0..confirmed[c.form] /\ c.form \in 1..forms
      /\ c.key = <<c.form, c.key[2]>>
  BY <1>1 DEF Order, TrailInv, Numbered, FormsOK
<1>4. TrailTypes'
  BY <1>1, <1>2, <1>3 DEF TrailInv, TrailTypes
<1>5. AnswersOK'
  <2>1. ASSUME NEW k \in keys'
        PROVE  \E i \in DOMAIN trail' :
                 trail'[i].form = k[1] /\ trail'[i].verb = "balance" /\ trail'[i].to = "credit"
    <3>1. CASE k = c.key
      BY <1>1, <1>2, <1>3, <3>1
    <3>2. CASE k \in keys
      BY <1>2, <3>2 DEF TrailInv, AnswersOK
    <3> QED BY <1>1, <3>1, <3>2
  <2> QED BY <1>2, <2>1 DEF AnswersOK
<1>6. Numbered'
  <2>1. \A a \in Calls : Desk!IsOpen(a)' => drawer'[a].key = confirmed'[drawer'[a].form]
    BY <1>1 DEF TrailInv, Numbered, Desk!IsOpen
  <2>2. \A k \in keys' : k[1] \in 1..forms' /\ k[2] \in 0..confirmed'[k[1]]
    BY <1>1, <1>3 DEF TrailInv, Numbered
  <2>3. ASSUME NEW f \in 1..forms PROVE Cardinality(Desk!Moves(f)') <= Cardinality(Used(f)')
    <3>1. /\ IsFiniteSet(Desk!Moves(f)) /\ Cardinality(Desk!Moves(f)) \in Nat
          /\ IsFiniteSet(Used(f)) /\ Cardinality(Used(f)) \in Nat
          /\ Cardinality(Desk!Moves(f)) <= Cardinality(Used(f))
      <4>1. f \in 1..MaxForms
        BY FormsWithin
      <4> QED BY <4>1, Filed, UsedFinite DEF TrailInv, Numbered
    <3>2. CASE f = c.form
      <4>1. Desk!Moves(f)' = Desk!Moves(f) \cup {l} /\ l \notin Desk!Moves(f)
        BY <1>1, <1>2, <3>2 DEF Desk!Moves
      <4>2. Used(f)' = Used(f) \cup {c.key[2]} /\ c.key[2] \notin Used(f)
        <5>1. \A x : <<f, x>> = c.key <=> x = c.key[2]
          BY <1>3, <3>2
        <5>2. \A x : <<f, x>> \in keys' <=> <<f, x>> \in keys \/ x = c.key[2]
          BY <1>1, <5>1
        <5> QED BY <1>1, <1>3, <3>2, <5>1, <5>2 DEF Used
      <4>3. Cardinality(Desk!Moves(f)') = Cardinality(Desk!Moves(f)) + 1
        BY <3>1, <4>1, FS_AddElement
      <4>4. Cardinality(Used(f)') = Cardinality(Used(f)) + 1
        BY <3>1, <4>2, FS_AddElement
      <4> QED BY <3>1, <4>3, <4>4
    <3>3. CASE f # c.form
      <4>1. Desk!Moves(f)' = Desk!Moves(f)
        BY <1>2, <3>3
      <4>2. \A x : <<f, x>> \in keys' <=> <<f, x>> \in keys
        BY <1>1, <1>3, <3>3
      <4>3. Used(f)' = Used(f)
        BY <1>1, <4>2 DEF Used
      <4> QED BY <3>1, <4>1, <4>3
    <3> QED BY <3>2, <3>3
  <2> QED BY <1>1, <1>2, <2>1, <2>2, <2>3 DEF Numbered
<1>7. Desk!TrailIsTrue'
  <2>1. ASSUME NEW u \in Calls
        PROVE  /\ credits'[u] = Desk!Cardinality(Desk!Entries(u, "balance")')
               /\ \A verb \in {"role", "status", "cut"} :
                    \/ accounts'[u][verb] = Desk!Fresh[verb] /\ Desk!Entries(u, verb)' = {}
                    \/ \E i \in Desk!Entries(u, verb)' :
                         accounts'[u][verb] = trail'[i].to /\ \A j \in Desk!Entries(u, verb)' : j <= i
    <3>1. credits[u] = Cardinality(Desk!Entries(u, "balance")) /\ credits[u] \in Nat
      BY DEF TrailInv, TrailTypes, Desk!TrailIsTrue, Desk!Cardinality, Cardinality
    <3>2. credits'[u] = Cardinality(Desk!Entries(u, "balance")')
      <4>1. IsFiniteSet(Desk!Entries(u, "balance")) /\ l \notin Desk!Entries(u, "balance")
        <5>1. \A i \in Desk!Entries(u, "balance") : i \in DOMAIN trail
          BY DEF Desk!Entries
        <5>2. IsFiniteSet(Desk!Entries(u, "balance"))
          BY Filed
        <5> QED BY <1>2, <5>1, <5>2
      <4>2. CASE u = c.target
        <5>1. credits'[u] = credits[u] + 1
          BY <1>1, <4>2 DEF TrailInv, TrailTypes
        <5>2. Desk!Entries(u, "balance")' = Desk!Entries(u, "balance") \cup {l}
          BY <1>1, <1>2, <4>2
        <5> QED BY <3>1, <4>1, <5>1, <5>2, FS_AddElement
      <4>3. CASE u # c.target
        <5>1. credits'[u] = credits[u]
          BY <1>1, <4>3 DEF TrailInv, TrailTypes
        <5>2. Desk!Entries(u, "balance")' = Desk!Entries(u, "balance")
          BY <1>1, <1>2, <4>3
        <5> QED BY <3>1, <5>1, <5>2
      <4> QED BY <4>2, <4>3
    <3>3. ASSUME NEW verb \in {"role", "status", "cut"}
          PROVE  \/ accounts'[u][verb] = Desk!Fresh[verb] /\ Desk!Entries(u, verb)' = {}
                 \/ \E i \in Desk!Entries(u, verb)' :
                      accounts'[u][verb] = trail'[i].to /\ \A j \in Desk!Entries(u, verb)' : j <= i
      <4>1. Desk!Entries(u, verb)' = Desk!Entries(u, verb) /\ accounts' = accounts
        BY <1>1, <1>2
      <4>2. \A i \in Desk!Entries(u, verb) : trail'[i] = trail[i]
        BY <1>2 DEF Desk!Entries
      <4>3. \/ accounts[u][verb] = Desk!Fresh[verb] /\ Desk!Entries(u, verb) = {}
            \/ \E i \in Desk!Entries(u, verb) :
                 accounts[u][verb] = trail[i].to /\ \A j \in Desk!Entries(u, verb) : j <= i
        BY DEF TrailInv, Desk!TrailIsTrue
      <4> QED BY <4>1, <4>2, <4>3
    <3>4. credits'[u] = Desk!Cardinality(Desk!Entries(u, "balance")')
      BY <3>2 DEF Desk!Cardinality, Cardinality
    <3> QED BY <3>3, <3>4
  <2> QED BY <2>1 DEF Desk!TrailIsTrue
<1> QED BY <1>2, <1>4, <1>5, <1>6, <1>7 DEF TrailInv

LEMMA TrailStep == ASSUME PlatformAssumption, DeskInv, TrailInv, Desk!Next PROVE TrailInv'
<1>1. ASSUME NEW a \in Calls,
             \/ Desk!Close(a) \/ Desk!Load(a)
             \/ (\E u \in Calls : Desk!Switch(a, u)) \/ \E cut \in {"low", "high"} : Desk!TypeCut(a, cut)
      PROVE  TrailInv'
  BY <1>1, DrawerKeeps
<1>2. ASSUME NEW a \in Calls, NEW u \in Calls, Desk!Open(a, u) PROVE TrailInv'
  BY <1>2, OpenKeeps
<1>3. ASSUME NEW a \in Calls, Desk!IsOpen(a), NEW order \in Desk!Orders(a), Desk!Submit(a, order) PROVE TrailInv'
  BY <1>3, SubmitKeeps
<1>4. ASSUME NEW c \in orders, Desk!Authorise(c) PROVE TrailInv'
  <2>1. PICK step \in {"refused", "authorised"} : Desk!Move(c, step)
    BY <1>4 DEF Desk!Authorise
  <2>2. PICK n \in Order : Same(n, c) /\ n.step = step /\ orders' = (orders \ {c}) \cup {n}
    BY <2>1, MovedOn
  <2>3. UNCHANGED <<accounts, trail, credits, keys, drawer, forms, confirmed>>
    BY <1>4 DEF Desk!Authorise, Desk!server, Desk!screen
  <2> QED BY <2>1, <2>2, <2>3, ServedQuietly
<1>5. ASSUME NEW c \in orders, Desk!Adjust(c), c.key \in keys PROVE TrailInv'
  <2>1. PICK n \in Order : Same(n, c) /\ n.step = "replayed" /\ orders' = (orders \ {c}) \cup {n}
    BY <1>5, MovedOn DEF Desk!Adjust
  <2>2. Told(n)
    <3>1. PICK own \in [Nat -> Calls] :
            /\ \A x \in orders : own[x.form] = x.by
            /\ \A i \in DOMAIN trail : own[trail[i].form] = trail[i].by
      BY DEF TrailInv, Owned
    <3>2. PICK i \in DOMAIN trail : trail[i].form = c.key[1] /\ trail[i].verb = "balance" /\ trail[i].to = "credit"
      BY <1>5 DEF TrailInv, AnswersOK
    <3>3. c.key[1] = c.form /\ c.verb = "balance" /\ c.to = "credit"
      BY <1>5 DEF TrailInv, Numbered, AnswersOK, Desk!Adjust
    <3>4. trail[i].by = c.by
      BY <3>1, <3>2, <3>3
    <3> QED BY <2>1, <3>2, <3>3, <3>4 DEF Told, Same
  <2>3. UNCHANGED <<accounts, trail, credits, keys, drawer, forms, confirmed>>
    BY <1>5 DEF Desk!Adjust, Desk!screen
  <2> QED BY <2>1, <2>2, <2>3, ServedQuietly
<1>6. ASSUME NEW c \in orders, Desk!Forget(c) PROVE TrailInv'
  <2>1. c \in Order /\ Same(c, c) /\ orders' \subseteq orders \cup {c}
    BY <1>6 DEF DeskInv, DeskTypes, Same, Desk!Forget
  <2>2. c.step \in {"done", "replayed"} => Told(c)
    BY DEF TrailInv, AnswersOK
  <2>3. UNCHANGED <<accounts, trail, credits, keys, drawer, forms, confirmed>>
    BY <1>6 DEF Desk!Forget, Desk!server, Desk!screen
  <2> QED BY <2>1, <2>2, <2>3, ServedQuietly
<1>7. ASSUME NEW c \in orders, Desk!Refused(c) \/ Desk!Lose(c) PROVE TrailInv'
  <2>1. PICK a : a = c.by
    OBVIOUS
  <2>2. PICK d : d = [drawer[a] EXCEPT !.busy = 0]
    OBVIOUS
  <2>3. a \in Calls /\ drawer[a] \in Drawer
    BY <2>1 DEF DeskInv, DeskTypes, Order
  <2>4. /\ d \in Drawer /\ d.form = drawer[a].form /\ d.key = drawer[a].key /\ d.said = drawer[a].said
        /\ d.user = drawer[a].user /\ d.switched = drawer[a].switched /\ d.typed = drawer[a].typed
        /\ d.cut = drawer[a].cut /\ d.row = drawer[a].row
    BY <2>2, <2>3 DEF Drawer
  <2>5. Desk!Set(a, d) /\ orders' \subseteq orders /\ UNCHANGED <<accounts, trail, credits, keys, confirmed, forms>>
    BY <1>7, <2>1, <2>2 DEF Desk!Refused, Desk!Lose, Desk!server
  <2>6. drawer[a].form # 0 => drawer[a].typed \/ drawer[a].cut = drawer[a].row.cut
    BY <2>3 DEF TrailInv, Desk!CutIsCurrent, Desk!IsOpen
  <2>7. drawer[a].form = 0 => d.said = Desk!NotSaid
    <3>1. c.form # 0 /\ drawer[a].form = c.form
      BY <1>7, <2>1 DEF Desk!Refused, Desk!Lose, Desk!Waits, TrailInv, FormsOK
    <3> QED BY <3>1
  <2>8. Redrawn(a, d)
    BY <2>3, <2>4, <2>6, <2>7 DEF Redrawn, Drawer
  <2> QED BY <2>3, <2>4, <2>5, <2>8, RedrawnKeeps
<1>8. ASSUME NEW c \in orders, Desk!Apply(c) PROVE TrailInv'
  BY <1>8, ApplyKeeps
<1>9. ASSUME NEW c \in orders, Desk!Adjust(c), c.key \notin keys PROVE TrailInv'
  BY <1>9, AdjustKeeps
<1>10. ASSUME NEW c \in orders, Desk!Succeeds(c) PROVE TrailInv'
  BY <1>10, SucceedsKeeps
<1> QED BY <1>1, <1>2, <1>3, <1>4, <1>5, <1>6, <1>7, <1>8, <1>9, <1>10 DEF Desk!Next

-----------------------------------------------------------------------------
(* The risk form *)

Put == [n : Nat, by : Calls, body : Risk!Settings, step : {"sent", "parsed", "refused", "written"}]

RiskTypes ==
  /\ limits \in {Risk!Unset} \cup Risk!Settings /\ audit \in Seq(Risk!Settings)
  /\ fields \in [Calls -> Risk!Settings] /\ waiting \in [Calls -> Nat] /\ sent \in Nat
  /\ said \in [Calls -> {"nothing", "saved", "failed"}] /\ apart \in [Calls -> BOOLEAN]
  /\ puts \subseteq Put /\ \A p \in puts : p.n \in 1..sent

\* A form waits for a request that was sent, and has said nothing while it does.
WaitsOK ==
  \A a \in Calls : waiting[a] <= sent /\ (waiting[a] # 0 => said[a] = "nothing")

\* Requests are numbered apart, and none is written that was not checked.
PutsOK ==
  /\ \A p, q \in puts : p.n = q.n => p = q
  /\ \A p \in puts : p.step = "parsed" => Risk!Valid(p.body)

\* What is waited for is what the form shows, and stored once written, unless apart.
AsSent(p) ==
  waiting[p.by] = p.n /\ ~apart[p.by] =>
    fields[p.by] = p.body /\ (p.step = "written" => limits = p.body)

RiskInv ==
  /\ RiskTypes /\ WaitsOK /\ PutsOK /\ \A p \in puts : AsSent(p)
  /\ Risk!RecordedAsApplied /\ Risk!SavedIsEnforced

LEMMA RiskInit == ASSUME Risk!Init PROVE RiskInv
<1> USE DEF Risk!Init
<1>1. Risk!ByDefault \in Risk!Settings /\ [halted |-> TRUE, limit |-> [min |-> 1, max |-> 2]] \in Risk!Settings
  BY DEF Risk!ByDefault, Risk!Settings, Risk!Limits
<1>2. limits \in {Risk!Unset} \cup Risk!Settings /\ Risk!Read \in Risk!Settings
  BY <1>1 DEF Risk!Read
<1>3. audit \in Seq(Risk!Settings)
  <2>1. CASE limits = Risk!Unset
    BY <2>1
  <2>2. CASE limits # Risk!Unset
    BY <1>2, <2>2
  <2> QED BY <2>1, <2>2
<1>4. RiskTypes
  BY <1>2, <1>3 DEF RiskTypes
<1>5. Risk!RecordedAsApplied
  <2>1. CASE limits = Risk!Unset
    BY <2>1 DEF Risk!RecordedAsApplied
  <2>2. CASE limits # Risk!Unset
    <3>1. audit = <<limits>> /\ limits = [halted |-> TRUE, limit |-> [min |-> 1, max |-> 2]]
      BY <2>2
    <3>2. limits.limit.min = 1 /\ limits.limit.max = 2
      <4>1. limits.limit = [min |-> 1, max |-> 2]
        BY <3>1
      <4> QED BY <4>1
    <3>3. Len(audit) = 1 /\ audit[1] = limits
      <4> HIDE DEF Risk!Init
      <4> QED BY <3>1
    <3> QED BY <2>2, <3>2, <3>3 DEF Risk!RecordedAsApplied, Risk!Last
  <2> QED BY <2>1, <2>2
<1> QED BY <1>4, <1>5 DEF RiskInv, WaitsOK, PutsOK, Risk!SavedIsEnforced

LEMMA RiskStep == ASSUME RiskInv, Risk!Next PROVE RiskInv'
<1> USE DEF RiskInv, RiskTypes
<1>1. ASSUME NEW a \in Calls, NEW s \in Risk!Settings, Risk!Type(a, s) PROVE RiskInv'
  <2>1. /\ fields' = [fields EXCEPT ![a] = s] /\ apart' = [apart EXCEPT ![a] = TRUE]
        /\ UNCHANGED <<limits, audit, puts, sent, waiting, said>>
    BY <1>1 DEF Risk!Type
  <2>2. RiskTypes' /\ WaitsOK' /\ PutsOK' /\ Risk!RecordedAsApplied'
    BY <2>1 DEF WaitsOK, PutsOK, Risk!Valid, Risk!RecordedAsApplied
  <2>3. (\A p \in puts' : AsSent(p)') /\ Risk!SavedIsEnforced'
    BY <2>1 DEF AsSent, Put, Risk!SavedIsEnforced
  <2> QED BY <2>2, <2>3
<1>2. ASSUME NEW a \in Calls, Risk!Edit(a) PROVE RiskInv'
  <2>1. fields[a] \in Risk!Settings
    OBVIOUS
  <2>2. CASE Risk!Type(a, [fields[a] EXCEPT !.halted = ~@])
    <3>1. [fields[a] EXCEPT !.halted = ~@] \in Risk!Settings
      BY <2>1 DEF Risk!Settings
    <3> QED BY <1>1, <2>2, <3>1
  <2>3. ASSUME NEW bet \in {1, 2},
               Risk!Type(a, [fields[a] EXCEPT !.limit.min = bet]) \/ Risk!Type(a, [fields[a] EXCEPT !.limit.max = bet])
        PROVE  RiskInv'
    <3>1. /\ [fields[a] EXCEPT !.limit.min = bet] \in Risk!Settings
          /\ [fields[a] EXCEPT !.limit.max = bet] \in Risk!Settings
      BY <2>1 DEF Risk!Settings, Risk!Limits
    <3> QED BY <1>1, <2>3, <3>1
  <2> QED BY <1>2, <2>2, <2>3 DEF Risk!Edit
<1>3. ASSUME NEW a \in Calls, Risk!Reopen(a) PROVE RiskInv'
  <2>1. Risk!Read \in Risk!Settings
    BY DEF Risk!Read, Risk!ByDefault, Risk!Settings, Risk!Limits
  <2>2. /\ fields' = [fields EXCEPT ![a] = Risk!Read] /\ waiting' = [waiting EXCEPT ![a] = 0]
        /\ said' = [said EXCEPT ![a] = "nothing"] /\ UNCHANGED <<limits, audit, puts, sent, apart>>
    BY <1>3 DEF Risk!Reopen
  <2>3. RiskTypes' /\ WaitsOK' /\ PutsOK' /\ Risk!RecordedAsApplied'
    BY <2>1, <2>2 DEF WaitsOK, PutsOK, Risk!Valid, Risk!RecordedAsApplied
  <2>4. (\A p \in puts' : AsSent(p)') /\ Risk!SavedIsEnforced'
    BY <2>2 DEF AsSent, Put, Risk!SavedIsEnforced
  <2> QED BY <2>3, <2>4
<1>4. ASSUME NEW a \in Calls, Risk!Save(a) PROVE RiskInv'
  <2>1. PICK p : p = [n |-> sent + 1, by |-> a, body |-> fields[a], step |-> "sent"]
    OBVIOUS
  <2>2. p \in Put /\ p.n = sent + 1 /\ p.by = a /\ p.body = fields[a] /\ p.step = "sent"
    BY <2>1 DEF Put
  <2>3. /\ sent' = sent + 1 /\ puts' = puts \cup {p} /\ waiting' = [waiting EXCEPT ![a] = sent + 1]
        /\ said' = [said EXCEPT ![a] = "nothing"] /\ apart' = [apart EXCEPT ![a] = FALSE]
        /\ UNCHANGED <<limits, audit, fields>>
    BY <1>4, <2>1 DEF Risk!Save
  <2>4. RiskTypes' /\ WaitsOK'
    BY <2>2, <2>3 DEF WaitsOK
  <2>5. PutsOK' /\ Risk!RecordedAsApplied'
    BY <2>2, <2>3 DEF PutsOK, Risk!Valid, Risk!RecordedAsApplied
  <2>6. (\A q \in puts' : AsSent(q)') /\ Risk!SavedIsEnforced'
    BY <2>2, <2>3 DEF AsSent, Put, Risk!SavedIsEnforced
  <2> QED BY <2>4, <2>5, <2>6
<1>5. ASSUME NEW a \in Calls, NEW body \in Risk!Settings, Risk!Direct(a, body) PROVE RiskInv'
  <2>1. PICK p : p = [n |-> sent + 1, by |-> a, body |-> body, step |-> "sent"]
    OBVIOUS
  <2>2. p \in Put /\ p.n = sent + 1 /\ p.by = a /\ p.step = "sent"
    BY <2>1 DEF Put
  <2>3. /\ sent' = sent + 1 /\ puts' = puts \cup {p}
        /\ UNCHANGED <<limits, audit, fields, waiting, said, apart>>
    BY <1>5, <2>1 DEF Risk!Direct
  <2>4. RiskTypes' /\ WaitsOK'
    BY <2>2, <2>3 DEF WaitsOK
  <2>5. PutsOK' /\ Risk!RecordedAsApplied'
    BY <2>2, <2>3 DEF PutsOK, Risk!Valid, Risk!RecordedAsApplied
  <2>6. (\A q \in puts' : AsSent(q)') /\ Risk!SavedIsEnforced'
    BY <2>2, <2>3 DEF AsSent, WaitsOK, Put, Risk!SavedIsEnforced
  <2> QED BY <2>4, <2>5, <2>6
<1>6. ASSUME NEW p \in puts, NEW step \in {"parsed", "refused", "written"}, Risk!Move(p, step)
      PROVE  \E q \in Put :
               /\ puts' = (puts \ {p}) \cup {q} /\ q.n = p.n /\ q.by = p.by /\ q.body = p.body /\ q.step = step
  <2>1. PICK q : q = [p EXCEPT !.step = step]
    OBVIOUS
  <2>2. q \in Put /\ q.n = p.n /\ q.by = p.by /\ q.body = p.body /\ q.step = step
    <3>1. p \in Put
      OBVIOUS
    <3> QED BY <1>6, <2>1, <3>1 DEF Put
  <2>3. puts' = (puts \ {p}) \cup {q}
    BY <1>6, <2>1 DEF Risk!Move
  <2> QED BY <2>2, <2>3
<1>7. ASSUME NEW p \in puts, Risk!Parse(p) PROVE RiskInv'
  <2>1. PICK step \in {"parsed", "refused"} : Risk!Move(p, step) /\ (step = "parsed" => Risk!Valid(p.body))
    BY <1>7 DEF Risk!Parse, Risk!Checked
  <2>2. PICK q \in Put :
          puts' = (puts \ {p}) \cup {q} /\ q.n = p.n /\ q.by = p.by /\ q.body = p.body /\ q.step = step
    BY <1>6, <2>1
  <2>3. UNCHANGED <<limits, audit, fields, sent, waiting, said, apart>>
    BY <1>7 DEF Risk!Parse
  <2>4. RiskTypes' /\ WaitsOK' /\ Risk!RecordedAsApplied' /\ Risk!SavedIsEnforced'
    BY <2>2, <2>3 DEF WaitsOK, Risk!RecordedAsApplied, Risk!SavedIsEnforced
  <2>5. PutsOK'
    BY <2>1, <2>2 DEF PutsOK, Risk!Valid
  <2>6. \A x \in puts' : AsSent(x)'
    BY <2>1, <2>2, <2>3 DEF AsSent
  <2> QED BY <2>4, <2>5, <2>6
<1>8. ASSUME NEW p \in puts, Risk!Write(p) PROVE RiskInv'
  <2>1. PICK q \in Put :
          puts' = (puts \ {p}) \cup {q} /\ q.n = p.n /\ q.by = p.by /\ q.body = p.body /\ q.step = "written"
    BY <1>6, <1>8 DEF Risk!Write
  <2>2. /\ limits' = p.body /\ audit' = Append(audit, p.body) /\ Risk!Valid(p.body)
        /\ apart' = [a \in Calls |-> apart[a] \/ a # p.by \/ waiting[a] # p.n]
        /\ UNCHANGED <<fields, sent, waiting, said>>
    BY <1>8 DEF Risk!Write, Risk!Upserted, PutsOK
  <2>3. p.body \in Risk!Settings /\ p.by \in Calls /\ p.n # 0
    BY DEF Put
  <2>4. RiskTypes' /\ WaitsOK'
    BY <2>1, <2>2, <2>3 DEF WaitsOK
  <2>5. PutsOK'
    BY <2>1 DEF PutsOK, Risk!Valid
  <2>6. Risk!RecordedAsApplied'
    <3>1. Risk!Last(audit') = p.body
      BY <2>2, <2>3 DEF Risk!Last
    <3>2. p.body # Risk!Unset
      BY <2>3 DEF Risk!Settings, Risk!Limits, Risk!Unset
    <3> QED BY <2>2, <3>1, <3>2 DEF Risk!RecordedAsApplied, Risk!Valid
  <2>7. \A x \in puts' : AsSent(x)'
    <3> TAKE x \in puts'
    <3>1. CASE x = q
      BY <2>1, <2>2, <2>3, <3>1 DEF AsSent
    <3>2. CASE x \in puts /\ x # p
      <4>1. x.n # p.n /\ x.by \in Calls
        BY <3>2 DEF PutsOK, Put
      <4>2. waiting'[x.by] = x.n => apart'[x.by]
        BY <2>2, <4>1
      <4> QED BY <4>2 DEF AsSent
    <3> QED BY <2>1, <3>1, <3>2
  <2>8. Risk!SavedIsEnforced'
    <3>1. \A a \in Calls : said[a] = "saved" => apart'[a]
      BY <2>2, <2>3 DEF WaitsOK
    <3> QED BY <2>2, <3>1 DEF Risk!SavedIsEnforced
  <2> QED BY <2>4, <2>5, <2>6, <2>7, <2>8
<1>9. ASSUME NEW p \in puts, Risk!Take(p) PROVE RiskInv'
  <2>1. p \in Put /\ p.by \in Calls /\ puts' = puts \ {p} /\ UNCHANGED <<limits, audit, fields, sent, apart>>
    BY <1>9 DEF Put, Risk!Take
  <2>2. CASE waiting[p.by] = p.n
    <3>1. PICK w \in {"saved", "failed"} :
            /\ waiting' = [waiting EXCEPT ![p.by] = 0] /\ said' = [said EXCEPT ![p.by] = w]
            /\ w = "saved" => p.step = "written"
      BY <1>9, <2>2 DEF Risk!Take
    <3>2. RiskTypes' /\ WaitsOK' /\ PutsOK' /\ Risk!RecordedAsApplied'
      BY <2>1, <3>1 DEF WaitsOK, PutsOK, Risk!Valid, Risk!RecordedAsApplied
    <3>3. \A x \in puts' : AsSent(x)'
      BY <2>1, <3>1 DEF AsSent, Put
    <3>4. w = "saved" /\ ~apart[p.by] => fields[p.by] = limits
      BY <2>2, <3>1 DEF AsSent
    <3>5. Risk!SavedIsEnforced'
      BY <2>1, <3>1, <3>4 DEF Risk!SavedIsEnforced
    <3> QED BY <3>2, <3>3, <3>5
  <2>3. CASE waiting[p.by] # p.n
    <3>1. UNCHANGED <<waiting, said>>
      BY <1>9, <2>3 DEF Risk!Take
    <3> QED
      BY <2>1, <3>1 DEF WaitsOK, PutsOK, Risk!Valid, Risk!RecordedAsApplied, AsSent, Risk!SavedIsEnforced
  <2> QED BY <2>2, <2>3
<1>10. ASSUME NEW p \in puts, Risk!Lose(p) PROVE RiskInv'
  <2>1. /\ p.by \in Calls /\ waiting' = [waiting EXCEPT ![p.by] = 0] /\ said' = [said EXCEPT ![p.by] = "failed"]
        /\ UNCHANGED <<limits, audit, fields, puts, sent, apart>>
    BY <1>10 DEF Risk!Lose, Put
  <2>2. RiskTypes' /\ WaitsOK' /\ PutsOK' /\ Risk!RecordedAsApplied'
    BY <2>1 DEF WaitsOK, PutsOK, Risk!Valid, Risk!RecordedAsApplied
  <2>3. (\A x \in puts' : AsSent(x)') /\ Risk!SavedIsEnforced'
    BY <2>1 DEF AsSent, Put, Risk!SavedIsEnforced
  <2> QED BY <2>2, <2>3
<1> QED BY <1>2, <1>3, <1>4, <1>5, <1>7, <1>8, <1>9, <1>10 DEF Risk!Next

-----------------------------------------------------------------------------
(* The queue of payouts *)

Which == Holds \cup {Queue!NoHold}
Actions == {"APPROVE", "REJECT"}
Ruling == [by : Calls, hold : Holds, action : Actions, reason : Which]
Act ==
  [n : Nat, by : Calls, hold : Holds, action : Actions, reason : Which, step : {"sent", "decided", "not_pending"}]
Message == [text : {"none", "COMPLETED", "FAILED", "handled", "unreachable"}, hold : Which]

QueueTypes ==
  /\ decided \in [Holds -> {"PENDING", "COMPLETED", "FAILED"}] /\ log \in Seq(Ruling)
  /\ acts \subseteq Act /\ acted \in Nat /\ rows \in [Calls -> SUBSET Holds]
  /\ rejecting \in [Calls -> Which] /\ reason \in [Calls -> Which]
  /\ waits \in [Calls -> Nat] /\ message \in [Calls -> Message]
  /\ \A a \in Calls : message[a].text \in {"COMPLETED", "FAILED", "handled"} => message[a].hold \in Holds

\* A text was typed for the row whose reason is asked for.
TextOK == \A a \in Calls : reason[a] # Queue!NoHold => reason[a] = rejecting[a]

\* What a request asks and was answered is so.
ActOK(c) ==
  /\ c.action = "REJECT" => c.reason = c.hold
  /\ c.step = "decided" => decided[c.hold] = Queue!Outcome(c.action)
  /\ c.step = "not_pending" => decided[c.hold] # "PENDING"

QueueInv ==
  /\ QueueTypes /\ TextOK /\ \A c \in acts : ActOK(c)
  /\ Queue!DecidedOnceForItsReason /\ Queue!QueueSaysWhatWasDecided

LEMMA QueueInit == ASSUME Queue!Init PROVE QueueInv
<1> USE DEF Queue!Init
<1>1. Queue!Silent \in Message
  BY DEF Queue!Silent, Message, Which
<1>2. QueueTypes
  BY <1>1 DEF QueueTypes, Which, Queue!Silent
<1>3. TextOK /\ Queue!DecidedOnceForItsReason
  BY DEF TextOK, Queue!DecidedOnceForItsReason
<1>4. Queue!QueueSaysWhatWasDecided
  BY DEF Queue!QueueSaysWhatWasDecided, Queue!Silent
<1> QED BY <1>2, <1>3, <1>4 DEF QueueInv

\* A step of one page that decides nothing.
LEMMA PageStep ==
  ASSUME QueueInv, QueueTypes', TextOK', UNCHANGED <<decided, log>>,
         \A c \in acts' : c \in acts \/ (c.step = "sent" /\ (c.action = "REJECT" => c.reason = c.hold)),
         Queue!QueueSaysWhatWasDecided'
  PROVE  QueueInv'
BY DEF QueueInv, ActOK, Queue!Outcome, Queue!DecidedOnceForItsReason

LEMMA QueueStep == ASSUME QueueInv, Queue!Next PROVE QueueInv'
<1> USE DEF QueueInv, QueueTypes
<1>1. ASSUME NEW a \in Calls, Queue!Cancel(a) \/ (\E w \in Holds : Queue!Reject(a, w)) PROVE QueueInv'
  <2>1. PICK w \in Which :
          /\ rejecting' = [rejecting EXCEPT ![a] = w] /\ reason' = [reason EXCEPT ![a] = Queue!NoHold]
          /\ UNCHANGED <<decided, log, acts, acted, rows, waits, message>>
    BY <1>1 DEF Queue!Cancel, Queue!Reject, Queue!Cleared, Which
  <2>2. QueueTypes' /\ TextOK' /\ Queue!QueueSaysWhatWasDecided'
    BY <2>1 DEF Which, TextOK, Queue!QueueSaysWhatWasDecided
  <2> QED BY <2>1, <2>2, PageStep
<1>2. ASSUME NEW a \in Calls, Queue!Type(a) PROVE QueueInv'
  <2>1. /\ reason' = [reason EXCEPT ![a] = rejecting[a]]
        /\ UNCHANGED <<decided, log, acts, acted, rows, rejecting, waits, message>>
    BY <1>2 DEF Queue!Type
  <2>2. QueueTypes' /\ TextOK' /\ Queue!QueueSaysWhatWasDecided'
    BY <2>1 DEF TextOK, Queue!QueueSaysWhatWasDecided
  <2> QED BY <2>1, <2>2, PageStep
<1>3. ASSUME NEW a \in Calls, Queue!Load(a) PROVE QueueInv'
  <2>1. /\ rows' = [rows EXCEPT ![a] = Queue!Pending]
        /\ UNCHANGED <<decided, log, acts, acted, rejecting, reason, waits, message>>
    BY <1>3 DEF Queue!Load
  <2>2. Queue!Pending \subseteq Holds
    BY DEF Queue!Pending
  <2>3. QueueTypes' /\ TextOK' /\ Queue!QueueSaysWhatWasDecided'
    BY <2>1, <2>2 DEF TextOK, Queue!QueueSaysWhatWasDecided
  <2> QED BY <2>1, <2>3, PageStep
<1>4. ASSUME NEW a \in Calls, Queue!Lose(a) PROVE QueueInv'
  <2>1. PICK m : m = [text |-> "unreachable", hold |-> Queue!NoHold]
    OBVIOUS
  <2>2. m \in Message /\ m.text = "unreachable"
    BY <2>1 DEF Message, Which
  <2>3. /\ waits' = [waits EXCEPT ![a] = 0] /\ message' = [message EXCEPT ![a] = m]
        /\ UNCHANGED <<decided, log, acts, acted, rows, rejecting, reason>>
    BY <1>4, <2>1 DEF Queue!Lose, Queue!Say, Queue!page
  <2>4. QueueTypes' /\ TextOK' /\ Queue!QueueSaysWhatWasDecided'
    BY <2>2, <2>3 DEF TextOK, Queue!QueueSaysWhatWasDecided
  <2> QED BY <2>3, <2>4, PageStep
<1>5. ASSUME NEW a \in Calls, NEW w \in Holds, NEW action \in Actions, Queue!Act(a, w, action) PROVE QueueInv'
  <2>1. PICK c : c = [n |-> acted + 1, by |-> a, hold |-> w, action |-> action, step |-> "sent",
                      reason |-> IF action = "REJECT" THEN reason[a] ELSE Queue!NoHold]
    OBVIOUS
  <2>2. /\ c \in Act /\ c.step = "sent" /\ c.action = action /\ c.hold = w
        /\ c.reason = IF action = "REJECT" THEN reason[a] ELSE Queue!NoHold
    BY <2>1 DEF Act, Which
  <2>3. action = "REJECT" => reason[a] = w
    BY <1>5 DEF Queue!Act, TextOK
  <2>4. /\ acts' = acts \cup {c} /\ acted' = acted + 1 /\ waits' = [waits EXCEPT ![a] = acted + 1]
        /\ message' = [message EXCEPT ![a] = Queue!Silent]
        /\ UNCHANGED <<decided, log, rows, rejecting, reason>>
    BY <1>5, <2>1 DEF Queue!Act, Queue!page
  <2>5. Queue!Silent \in Message /\ Queue!Silent.text = "none"
    BY DEF Queue!Silent, Message, Which
  <2>6. QueueTypes' /\ TextOK' /\ Queue!QueueSaysWhatWasDecided'
    BY <2>2, <2>4, <2>5 DEF TextOK, Queue!QueueSaysWhatWasDecided
  <2> QED BY <2>2, <2>3, <2>4, <2>6, PageStep
<1>6. ASSUME NEW c \in acts, Queue!Decide(c) PROVE QueueInv'
  <2>1. c \in Act /\ c.hold \in Holds /\ c.action \in Actions /\ c.step = "sent" /\ ActOK(c)
    BY <1>6 DEF Queue!Decide, Act
  <2>2. UNCHANGED <<acted, rows, rejecting, reason, waits, message>>
    BY <1>6 DEF Queue!Decide, Queue!page
  <2>3. CASE ~Queue!IsPending(c)
    <3>1. PICK d : d = [c EXCEPT !.step = "not_pending"]
      OBVIOUS
    <3>2. d \in Act /\ d.step = "not_pending" /\ d.hold = c.hold /\ d.action = c.action /\ d.reason = c.reason
      BY <2>1, <3>1 DEF Act
    <3>3. acts' = (acts \ {c}) \cup {d} /\ UNCHANGED <<decided, log>>
      BY <1>6, <2>3, <3>1 DEF Queue!Decide
    <3>4. \A x \in acts' : ActOK(x)'
      BY <2>1, <2>3, <3>2, <3>3 DEF ActOK, Queue!IsPending, Queue!Outcome
    <3> QED
      BY <2>2, <3>2, <3>3, <3>4 DEF TextOK, Queue!DecidedOnceForItsReason, Queue!QueueSaysWhatWasDecided, Queue!Outcome
  <2>4. CASE Queue!IsPending(c)
    <3>1. PICK d : d = [c EXCEPT !.step = "decided"]
      OBVIOUS
    <3>2. d \in Act /\ d.step = "decided" /\ d.hold = c.hold /\ d.action = c.action /\ d.reason = c.reason
      BY <2>1, <3>1 DEF Act
    <3>3. PICK e : e = [by |-> c.by, hold |-> c.hold, action |-> c.action, reason |-> c.reason]
      OBVIOUS
    <3>4. e \in Ruling /\ e.hold = c.hold /\ e.action = c.action /\ e.reason = c.reason
      BY <2>1, <3>3 DEF Ruling, Act
    <3>5. /\ acts' = (acts \ {c}) \cup {d} /\ log' = Append(log, e)
          /\ decided' = [decided EXCEPT ![c.hold] = Queue!Outcome(c.action)]
          /\ decided[c.hold] = "PENDING"
      BY <1>6, <2>4, <3>1, <3>3 DEF Queue!Decide, Queue!IsPending
    <3>6. Queue!Outcome(c.action) \in {"COMPLETED", "FAILED"}
      BY DEF Queue!Outcome
    <3>7. QueueTypes' /\ TextOK'
      BY <2>1, <2>2, <3>2, <3>4, <3>5, <3>6 DEF TextOK
    <3>8. \A x \in acts' : ActOK(x)'
      <4> TAKE x \in acts'
      <4>1. CASE x = d
        BY <2>1, <3>2, <3>5, <3>6, <4>1 DEF ActOK, Queue!Outcome
      <4>2. CASE x \in acts
        <5>1. x.hold \in Holds /\ x.action \in Actions /\ Queue!Outcome(x.action) # "PENDING"
          BY <4>2 DEF Act, Queue!Outcome
        <5> QED BY <2>1, <3>5, <3>6, <4>2, <5>1 DEF ActOK, Queue!Outcome
      <4> QED BY <3>5, <4>1, <4>2
    <3>9. DOMAIN log' = (DOMAIN log) \cup {Len(log) + 1} /\ log'[Len(log) + 1] = e
          /\ (\A i \in DOMAIN log : log'[i] = log[i]) /\ Len(log) + 1 \notin DOMAIN log
      BY <3>4, <3>5
    <3>10. Queue!DecidedOnceForItsReason'
      <4>1. ASSUME NEW w \in Holds
            PROVE  \/ decided'[w] = "PENDING" /\ \A i \in DOMAIN log' : log'[i].hold # w
                   \/ \E i \in DOMAIN log' :
                        /\ log'[i].hold = w /\ decided'[w] = Queue!Outcome(log'[i].action)
                        /\ \A j \in DOMAIN log' : log'[j].hold = w => j = i
        <5>1. CASE w = c.hold
          <6>1. \A i \in DOMAIN log : log[i].hold # w
            <7>1. \A i \in DOMAIN log : Queue!Outcome(log[i].action) # "PENDING"
              BY DEF Queue!Outcome
            <7> QED BY <3>5, <5>1, <7>1 DEF Queue!DecidedOnceForItsReason
          <6>2. decided'[w] = Queue!Outcome(log'[Len(log) + 1].action) /\ log'[Len(log) + 1].hold = w
            BY <2>1, <3>4, <3>5, <3>9, <5>1
          <6>3. \A j \in DOMAIN log' : log'[j].hold = w => j = Len(log) + 1
            BY <3>9, <6>1
          <6> QED BY <3>9, <6>2, <6>3
        <5>2. CASE w # c.hold
          <6>1. decided'[w] = decided[w] /\ log'[Len(log) + 1].hold # w
            BY <3>4, <3>5, <3>9, <5>2
          <6>2. CASE decided[w] = "PENDING" /\ \A i \in DOMAIN log : log[i].hold # w
            BY <3>9, <6>1, <6>2
          <6>3. ASSUME NEW i \in DOMAIN log, log[i].hold = w, decided[w] = Queue!Outcome(log[i].action),
                       \A j \in DOMAIN log : log[j].hold = w => j = i
                PROVE  \E k \in DOMAIN log' :
                         /\ log'[k].hold = w /\ decided'[w] = Queue!Outcome(log'[k].action)
                         /\ \A j \in DOMAIN log' : log'[j].hold = w => j = k
            BY <3>9, <6>1, <6>3
          <6>4. \/ decided[w] = "PENDING" /\ \A i \in DOMAIN log : log[i].hold # w
                \/ \E i \in DOMAIN log :
                     /\ log[i].hold = w /\ decided[w] = Queue!Outcome(log[i].action)
                     /\ \A j \in DOMAIN log : log[j].hold = w => j = i
            BY DEF Queue!DecidedOnceForItsReason
          <6> HIDE DEF QueueInv, QueueTypes
          <6> QED BY <6>2, <6>3, <6>4
        <5> QED BY <5>1, <5>2
      <4>2. \A i \in DOMAIN log' : log'[i].action = "REJECT" => log'[i].reason = log'[i].hold
        BY <2>1, <3>4, <3>9 DEF Queue!DecidedOnceForItsReason, ActOK
      <4> QED BY <4>1, <4>2 DEF Queue!DecidedOnceForItsReason, Queue!Outcome
    <3>11. Queue!QueueSaysWhatWasDecided'
      <4>1. \A w \in Holds : decided[w] # "PENDING" => decided'[w] = decided[w]
        BY <3>5
      <4> QED BY <2>2, <3>5, <4>1 DEF Queue!QueueSaysWhatWasDecided
    <3> QED BY <3>7, <3>8, <3>10, <3>11
  <2> QED BY <2>3, <2>4
<1>7. ASSUME NEW c \in acts, Queue!Take(c) PROVE QueueInv'
  <2>1. c \in Act /\ c.by \in Calls /\ c.hold \in Which /\ ActOK(c) /\ acts' = acts \ {c}
        /\ UNCHANGED <<decided, log, acted, rows>>
    BY <1>7 DEF Act, Which, Queue!Take
  <2>2. CASE waits[c.by] = c.n
    <3>1. PICK m : m = [text |-> Queue!TextOf(c), hold |-> c.hold]
      OBVIOUS
    <3>2. m.text = Queue!TextOf(c) /\ m.hold = c.hold
          /\ Queue!TextOf(c) \in {"COMPLETED", "FAILED", "handled"}
      BY <3>1 DEF Queue!TextOf, Queue!Outcome
    <3>3. m \in Message
      BY <2>1, <3>1, <3>2 DEF Message
    <3>4. /\ m.text \in {"COMPLETED", "FAILED"} => decided[m.hold] = m.text
          /\ m.text = "handled" => decided[m.hold] # "PENDING"
      <4>1. c.step \in {"decided", "not_pending"}
        BY <1>7, <2>1 DEF Queue!Take, Act
      <4> QED BY <2>1, <3>2, <4>1 DEF ActOK, Queue!TextOf, Queue!Outcome
    <3>5. /\ message' = [message EXCEPT ![c.by] = m] /\ waits' = [waits EXCEPT ![c.by] = 0]
          /\ rejecting' = [rejecting EXCEPT ![c.by] = Queue!NoHold]
          /\ reason' = [reason EXCEPT ![c.by] = Queue!NoHold]
      BY <1>7, <2>2, <3>1 DEF Queue!Take, Queue!Say
    <3>6. QueueTypes' /\ TextOK'
      <4>1. c.hold \in Holds /\ Queue!NoHold \in Which /\ acts' \subseteq Act
        BY <2>1 DEF Act, Which
      <4>2. /\ message' \in [Calls -> Message] /\ waits' \in [Calls -> Nat]
            /\ rejecting' \in [Calls -> Which] /\ reason' \in [Calls -> Which]
        BY <3>3, <3>5, <4>1
      <4>3. \A a \in Calls : message'[a].text \in {"COMPLETED", "FAILED", "handled"} => message'[a].hold \in Holds
        BY <3>2, <3>5, <4>1
      <4>4. TextOK'
        BY <2>1, <3>5 DEF TextOK
      <4> QED BY <2>1, <4>1, <4>2, <4>3, <4>4
    <3>7. Queue!QueueSaysWhatWasDecided'
      BY <2>1, <3>4, <3>5 DEF Queue!QueueSaysWhatWasDecided
    <3> QED BY <2>1, <3>6, <3>7, PageStep
  <2>3. CASE waits[c.by] # c.n
    <3>1. UNCHANGED <<message, waits, rejecting, reason>>
      BY <1>7, <2>3 DEF Queue!Take
    <3>2. QueueTypes' /\ TextOK' /\ Queue!QueueSaysWhatWasDecided'
      BY <2>1, <3>1 DEF TextOK, Queue!QueueSaysWhatWasDecided
    <3> QED BY <2>1, <3>2, PageStep
  <2> QED BY <2>2, <2>3
<1> QED
  BY <1>1, <1>2, <1>3, <1>4, <1>5, <1>6, <1>7 DEF Queue!Next, Actions

-----------------------------------------------------------------------------
(* The three beside each other *)

SessionInv == PresenceInv /\ CookieInv /\ DeskInv

LEMMA SessionInit == PlatformInit => SessionInv
BY PlatformAssumption, PresenceInit, CookieInit, DeskInit DEF PlatformInit, SessionInv

LEMMA AtRest ==
  /\ PresenceInv /\ UNCHANGED presenceVars => PresenceInv'
  /\ CookieInv /\ UNCHANGED signInVars => CookieInv'
  /\ DeskInv /\ UNCHANGED deskVars => DeskInv'
<1>1. PresenceInv /\ UNCHANGED presenceVars => PresenceInv'
  BY DEF presenceVars, PresenceInv, Online!TypeOK, Online!NothingLeftBehind
<1>2. CookieInv /\ UNCHANGED signInVars => CookieInv'
  BY DEF signInVars, CookieInv
<1>3. DeskInv /\ UNCHANGED deskVars => DeskInv'
  BY DEF deskVars, DeskInv, DeskTypes, Desk!IsOpen, OrdersOK, Sensible, Desk!OnOneself, Desk!SomeoneIsAdmin
<1> QED BY <1>1, <1>2, <1>3

LEMMA SessionStep ==
  ASSUME SessionInv, [PlatformNext]_platformVars
  PROVE  /\ SessionInv'
         /\ [\A s \in DOMAIN meta' : Confirmed(s)]_(Online!vars)
         /\ [at = "page" => at' # "forbidden"]_(Entrance!vars)
<1> USE DEF SessionInv
<1>1. CASE part = "presence" /\ Online!Next /\ UNCHANGED <<signInVars, deskVars>>
  <2>1. Neat
    BY <1>1, PlatformAssumption, PresenceStep
  <2>2. UNCHANGED Entrance!vars
    BY <1>1 DEF signInVars, Entrance!vars
  <2> QED BY <1>1, <2>1, <2>2, AtRest DEF Neat
<1>2. CASE part = "signin" /\ Entrance!Next /\ UNCHANGED <<presenceVars, deskVars>>
  <2>1. Welcome
    BY <1>2, CookieStep
  <2>2. UNCHANGED Online!vars
    BY <1>2 DEF presenceVars, Online!vars
  <2> QED BY <1>2, <2>1, <2>2, AtRest DEF Welcome
<1>3. CASE UNCHANGED <<presenceVars, signInVars>> /\ (Desk!Next \/ UNCHANGED deskVars)
  <2>1. UNCHANGED Online!vars /\ UNCHANGED Entrance!vars
    BY <1>3 DEF presenceVars, Online!vars, signInVars, Entrance!vars
  <2>2. DeskInv'
    BY <1>3, PlatformAssumption, DeskStep, AtRest
  <2> QED BY <1>3, <2>1, <2>2, AtRest
<1> QED BY <1>1, <1>2, <1>3 DEF PlatformNext, platformVars

-----------------------------------------------------------------------------
(* The console as a whole *)

ConsoleInv == DeskInv /\ TrailInv /\ RiskInv /\ QueueInv

LEMMA ConsoleInit == PlatformInit => ConsoleInv
BY PlatformAssumption, DeskInit, TrailInit, RiskInit, QueueInit DEF PlatformInit, PlatformAssumption, ConsoleInv

LEMMA ConsoleAtRest ==
  /\ DeskInv /\ TrailInv /\ UNCHANGED deskVars => TrailInv'
  /\ RiskInv /\ UNCHANGED riskVars => RiskInv'
  /\ QueueInv /\ UNCHANGED queueVars => QueueInv'
<1>1. ASSUME DeskInv, TrailInv, UNCHANGED deskVars PROVE TrailInv'
  <2>1. UNCHANGED <<accounts, credits, keys, trail, orders, drawer, forms, confirmed>>
    BY <1>1 DEF deskVars
  <2>2. /\ TrailTypes' /\ Desk!TrailIsTrue'
        /\ \A k \in keys' : \E i \in DOMAIN trail' :
             trail'[i].form = k[1] /\ trail'[i].verb = "balance" /\ trail'[i].to = "credit"
        /\ \A k \in keys' : k[1] \in 1..forms' /\ k[2] \in 0..confirmed'[k[1]]
        /\ \A f \in 1..forms' : Cardinality(Desk!Moves(f)') <= Cardinality(Used(f)')
    BY <1>1, <2>1, QuietTrail
  <2>3. FormsOK' /\ Owned' /\ TargetsOK' /\ Desk!SaidIsDone' /\ Desk!CutIsCurrent'
    BY <1>1, <2>1 DEF TrailInv, FormsOK, Owned, TargetsOK, Desk!SaidIsDone, Desk!CutIsCurrent, Desk!IsOpen
  <2>4. Numbered' /\ AnswersOK'
    BY <1>1, <2>1, <2>2 DEF TrailInv, Numbered, AnswersOK, Told, Desk!IsOpen
  <2> QED BY <2>2, <2>3, <2>4 DEF TrailInv
<1>2. RiskInv /\ UNCHANGED riskVars => RiskInv'
  BY DEF riskVars, RiskInv, RiskTypes, WaitsOK, PutsOK, AsSent, Risk!Valid, Risk!RecordedAsApplied,
         Risk!SavedIsEnforced, Risk!Last
<1>3. QueueInv /\ UNCHANGED queueVars => QueueInv'
  BY DEF queueVars, QueueInv, QueueTypes, TextOK, ActOK, Queue!DecidedOnceForItsReason,
         Queue!QueueSaysWhatWasDecided
<1> QED BY <1>1, <1>2, <1>3

LEMMA ConsoleStep == ASSUME ConsoleInv, [PlatformNext]_platformVars PROVE ConsoleInv'
<1>1. /\ Desk!Next \/ UNCHANGED deskVars
      /\ Risk!Next \/ UNCHANGED riskVars
      /\ Queue!Next \/ UNCHANGED queueVars
  BY DEF PlatformNext, platformVars
<1>2. DeskInv' /\ TrailInv'
  BY <1>1, PlatformAssumption, AtRest, ConsoleAtRest, DeskStep, TrailStep DEF ConsoleInv, PlatformAssumption
<1>3. RiskInv' /\ QueueInv'
  BY <1>1, ConsoleAtRest, RiskStep, QueueStep DEF ConsoleInv
<1> QED BY <1>2, <1>3 DEF ConsoleInv

\* Who holds the sockets is what the tables of the server say, only the row of the database
\* confirms an entry, no one who signs in is sent where the gate of /admin turns the account
\* away (socket.server.ts, middleware.ts), and an administrator remains as long as no one who
\* acts loses the role before the change is made.  Replayed, the audit log gives every
\* account as it is, one form moves money at most once more than its
\* administrator was told, and a drawer says what was done (users.routes.ts, UserDrawer.tsx);
\* the limits stored are sound and the last recorded, and a form that says so saved what is
\* enforced (risk.routes.ts, RiskForm.tsx); a payout is decided once, for a reason given for
\* it, and a page says what was decided (payouts.routes.ts, PayoutsTable.tsx).
THEOREM SessionsAndConsole == PlatformSpec => SessionsAndConsoleHold
<1> DEFINE I == SessionInv /\ ConsoleInv
<1>1. PlatformInit => I
  BY SessionInit, ConsoleInit
<1>2. I /\ [PlatformNext]_platformVars => I'
  BY SessionStep, ConsoleStep
<1>3. I /\ [PlatformNext]_platformVars =>
        /\ [\A s \in DOMAIN meta' : Confirmed(s)]_(Online!vars)
        /\ [at = "page" => at' # "forbidden"]_(Entrance!vars)
  BY SessionStep
<1>4. I => (part = "presence" => Online!NothingLeftBehind)
  BY DEF SessionInv, PresenceInv
<1>5. I => (part = "accounts desk" =>
              /\ Desk!SomeoneIsAdmin /\ Desk!MovedOncePerForm /\ Desk!TrailIsTrue
              /\ Desk!SaidIsDone /\ Desk!CutIsCurrent)
  BY PlatformAssumption, MovedOnceHolds DEF ConsoleInv, DeskInv, TrailInv
<1>6. I => (part = "risk form" => Risk!RecordedAsApplied /\ Risk!SavedIsEnforced)
  BY DEF ConsoleInv, RiskInv
<1>7. I => (part = "payout queue" => Queue!DecidedOnceForItsReason /\ Queue!QueueSaysWhatWasDecided)
  BY DEF ConsoleInv, QueueInv
<1>8. PlatformSpec =>
        /\ [](part = "presence" => Online!NothingLeftBehind)
        /\ [](part = "accounts desk" =>
                /\ Desk!SomeoneIsAdmin /\ Desk!MovedOncePerForm /\ Desk!TrailIsTrue
                /\ Desk!SaidIsDone /\ Desk!CutIsCurrent)
        /\ [](part = "risk form" => Risk!RecordedAsApplied /\ Risk!SavedIsEnforced)
        /\ [](part = "payout queue" => Queue!DecidedOnceForItsReason /\ Queue!QueueSaysWhatWasDecided)
        /\ [][\A s \in DOMAIN meta' : Confirmed(s)]_(Online!vars)
        /\ [][at = "page" => at' # "forbidden"]_(Entrance!vars)
  <2> HIDE DEF I
  <2> QED BY <1>1, <1>2, <1>3, <1>4, <1>5, <1>6, <1>7, PTL DEF PlatformSpec
<1> HIDE DEF I
<1> QED BY <1>8, PTL DEF SessionsAndConsoleHold, Online!ConfirmedByRow, Entrance!NoBounce, Confirmed
=============================================================================
