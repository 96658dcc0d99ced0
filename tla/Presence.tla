------------------------------ MODULE Presence ------------------------------
(***************************************************************************)
(* The connections of one player: registerSocketServer of                  *)
(* websocket/socket.server.ts, with the two halves of                      *)
(* websocket/auth.middleware.ts.                                           *)
(*                                                                         *)
(* A connection enters `sockets` and `connectionMeta` at once and may act  *)
(* only when the database has confirmed its session; the lookup answers    *)
(* after the row was read, so a reset, a demotion or a freeze may fall in  *)
(* between.  The session is confirmed once: what changes later reaches the *)
(* next connection, not this one.                                          *)
(*                                                                         *)
(* A peer may vanish without a close (a slept laptop): only the heartbeat  *)
(* can tell.                                                               *)
(***************************************************************************)
EXTENDS Naturals, FiniteSets

CONSTANTS
  Sockets,      \* connections
  MaxVersion    \* bound: resets of the password

SocketsAssumption == IsFiniteSet(Sockets) /\ MaxVersion \in Nat

Roles == {"USER", "ADMIN"}
User == [version: 0..MaxVersion, role: Roles, frozen: BOOLEAN]

VARIABLES
  user,      \* the User row: tokenVersion, role, frozen
  tcp,       \* tcp[s]: the connection under the WebSocket
  peer,      \* peer[s]: whether the other end is still there
  sockets,   \* the set `sockets`
  meta,      \* meta[s]: the entry of connectionMeta, role and flags
  lookup,    \* lookup[s]: verifyConnection, from the query to its answer
  room       \* members of the chat room

vars == <<user, tcp, peer, sockets, meta, lookup, room>>

Entry == [role: Roles, alive: BOOLEAN, verified: BOOLEAN, inRoom: BOOLEAN]
NoEntry == [role |-> "USER", alive |-> FALSE, verified |-> FALSE, inRoom |-> FALSE]
Lookup == [pc: {"none", "query", "answer"}, version: 0..MaxVersion, row: User]

Unset == [version |-> 0, role |-> "USER", frozen |-> FALSE]
NoLookup == [pc |-> "none", version |-> 0, row |-> Unset]

Init ==
  /\ user = Unset
  /\ tcp = [s \in Sockets |-> "closed"]
  /\ peer = [s \in Sockets |-> FALSE]
  /\ sockets = {}
  /\ meta = [s \in {} |-> NoEntry]
  /\ lookup = [s \in Sockets |-> NoLookup]
  /\ room = {}

Known(s) == s \in DOMAIN meta

-----------------------------------------------------------------------------
(* Opening *)

\* A signed token of any version given so far; its role claim is not read.
Connect(s) ==
  /\ tcp[s] = "closed" /\ s \notin sockets /\ ~Known(s) /\ lookup[s].pc = "none"
  /\ tcp' = [tcp EXCEPT ![s] = "open"]
  /\ peer' = [peer EXCEPT ![s] = TRUE]
  /\ sockets' = sockets \cup {s}
  /\ meta' = [x \in DOMAIN meta \cup {s} |->
                IF x = s THEN [NoEntry EXCEPT !.alive = TRUE] ELSE meta[x]]
  /\ \E v \in 0..user.version :
       lookup' = [lookup EXCEPT ![s] = [pc |-> "query", version |-> v, row |-> Unset]]
  /\ UNCHANGED <<user, room>>

ReadUser(s) ==
  /\ lookup[s].pc = "query"
  /\ lookup' = [lookup EXCEPT ![s].pc = "answer", ![s].row = user]
  /\ UNCHANGED <<user, tcp, peer, sockets, meta, room>>

SessionIsLive_SignatureOnly(s) == ~lookup[s].row.frozen

\* verifyConnection throws on another tokenVersion and on a frozen account.
SessionIsLive(s) == lookup[s].version = lookup[s].row.version /\ ~lookup[s].row.frozen

Answered(s) == lookup[s].pc = "answer" /\ lookup' = [lookup EXCEPT ![s] = NoLookup]

\* The entry may be gone by the time the answer comes.
Confirm(s) ==
  /\ SessionIsLive(s) /\ Answered(s)
  /\ IF Known(s)
       THEN meta' = [meta EXCEPT ![s].verified = TRUE, ![s].role = lookup[s].row.role]
       ELSE UNCHANGED meta
  /\ UNCHANGED <<user, tcp, peer, sockets, room>>

\* ws.close: the entry stays until the close event.
Reject(s) ==
  /\ ~SessionIsLive(s) /\ Answered(s)
  /\ tcp' = [tcp EXCEPT ![s] = IF @ = "open" THEN "closing" ELSE @]
  /\ UNCHANGED <<user, peer, sockets, meta, room>>

-----------------------------------------------------------------------------
(* Closing *)

\* releaseSocket, for each of S: idempotent.
Release(S) ==
  /\ sockets' = sockets \ S
  /\ room' = room \ {s \in S : Known(s) /\ meta[s].inRoom}
  /\ meta' = [s \in DOMAIN meta \ S |-> meta[s]]

\* 'close', raised once the connection is down.
Closed(s) ==
  /\ tcp[s] = "closing" \/ (tcp[s] = "open" /\ peer[s])
  /\ tcp' = [tcp EXCEPT ![s] = "closed"]
  /\ Release({s})
  /\ UNCHANGED <<user, peer, lookup>>

\* 'error' releases at once; the connection goes down after it.
Errored(s) ==
  /\ tcp[s] = "open" /\ s \in sockets
  /\ tcp' = [tcp EXCEPT ![s] = "closing"]
  /\ Release({s})
  /\ UNCHANGED <<user, peer, lookup>>

Vanish(s) ==
  /\ tcp[s] = "open" /\ peer[s]
  /\ peer' = [peer EXCEPT ![s] = FALSE]
  /\ UNCHANGED <<user, tcp, sockets, meta, lookup, room>>

\* A pong of a peer that is still there.
Pong(s) ==
  /\ tcp[s] = "open" /\ peer[s] /\ Known(s) /\ ~meta[s].alive
  /\ meta' = [meta EXCEPT ![s].alive = TRUE]
  /\ UNCHANGED <<user, tcp, peer, sockets, lookup, room>>

\* What a sweep leaves of the flag of a socket it pings.
StillThere(s) == FALSE

Gone(s) == ~Known(s) \/ tcp[s] # "open" \/ ~meta[s].alive

\* One sweep of the heartbeat over every socket.
Heartbeat ==
  LET gone == {s \in sockets : Gone(s)} IN
  /\ sockets # {}
  /\ sockets' = sockets \ gone
  /\ room' = room \ {s \in gone : Known(s) /\ meta[s].inRoom}
  /\ meta' = [s \in DOMAIN meta \ gone |->
                IF s \in sockets THEN [meta[s] EXCEPT !.alive = StillThere(s)] ELSE meta[s]]
  /\ tcp' = [s \in Sockets |-> IF s \in gone /\ tcp[s] = "open" THEN "closing" ELSE tcp[s]]
  /\ UNCHANGED <<user, peer, lookup>>

-----------------------------------------------------------------------------
(* Acting *)

\* A frame of a connection that is not confirmed is refused, never queued.
MayAct(s) == tcp[s] = "open" /\ peer[s] /\ Known(s) /\ meta[s].verified

\* handleChat joins the room before it says anything.
Chat(s) ==
  /\ MayAct(s)
  /\ room' = room \cup {s}
  /\ meta' = IF Known(s) THEN [meta EXCEPT ![s].inRoom = TRUE] ELSE meta
  /\ UNCHANGED <<user, tcp, peer, sockets, lookup>>

\* A password reset, and the administrator's verbs.
ResetPassword ==
  /\ user.version < MaxVersion
  /\ user' = [user EXCEPT !.version = @ + 1]
  /\ UNCHANGED <<tcp, peer, sockets, meta, lookup, room>>

Administer ==
  /\ \E r \in Roles, f \in BOOLEAN : user' = [user EXCEPT !.role = r, !.frozen = f]
  /\ UNCHANGED <<tcp, peer, sockets, meta, lookup, room>>

\* What onlinePlayerCount counts: the player, once, while an open entry is left.
Online == \E s \in DOMAIN meta : tcp[s] = "open"

Socket(s) ==
  \/ Connect(s) \/ ReadUser(s) \/ Confirm(s) \/ Reject(s)
  \/ Closed(s) \/ Errored(s) \/ Vanish(s) \/ Pong(s) \/ Chat(s)

Next == (\E s \in Sockets : Socket(s)) \/ Heartbeat \/ ResetPassword \/ Administer

\* The timer of the heartbeat keeps firing, and a connection that is being closed
\* comes down.
Fairness ==
  /\ WF_vars(Heartbeat)
  /\ \A s \in Sockets : WF_vars(tcp[s] = "closing" /\ Closed(s))

Spec == Init /\ [][Next]_vars /\ Fairness

-----------------------------------------------------------------------------
(* Properties *)

TypeOK ==
  /\ user \in User
  /\ tcp \in [Sockets -> {"closed", "open", "closing"}]
  /\ peer \in [Sockets -> BOOLEAN]
  /\ sockets \subseteq Sockets
  /\ DOMAIN meta \subseteq Sockets /\ \A s \in DOMAIN meta : meta[s] \in Entry
  /\ lookup \in [Sockets -> Lookup]
  /\ room \subseteq Sockets

\* Whatever order a close, an error, a sweep and a late database answer come in,
\* nothing is left behind: the set, the table and the room agree on who is there.
NothingLeftBehind ==
  /\ DOMAIN meta = sockets
  /\ room = {s \in DOMAIN meta : meta[s].inRoom}

\* A connection is confirmed, and with which role, only by a row its token matched
\* and that was not frozen when it was read; nothing else ever raises a role.
ConfirmedByRow ==
  [][\A s \in DOMAIN meta' :
       meta'[s].verified /\ ~(Known(s) /\ meta[s].verified) =>
         /\ lookup[s].pc = "answer" /\ ~lookup[s].row.frozen
         /\ lookup[s].version = lookup[s].row.version
         /\ meta'[s].role = lookup[s].row.role]_vars

\* A peer that vanished stops being counted as online.
VanishedIsReleased == \A s \in Sockets : tcp[s] = "open" /\ ~peer[s] ~> ~Known(s) \/ peer[s]
=============================================================================
