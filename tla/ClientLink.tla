----------------------------- MODULE ClientLink -----------------------------
(***************************************************************************)
(* The browser's one connection: hooks/useSocket.ts and the token of       *)
(* lib/token.ts, against the gate of websocket/socket.server.ts, which     *)
(* refuses every frame until the database has confirmed the session.       *)
(*                                                                         *)
(* The hook's effect runs anew when the token or the reconnect counter     *)
(* changes, some time after the change.  A socket belongs to the run that  *)
(* opened it, and is disposed of, as its closure has it, once that run is  *)
(* not the last.                                                           *)
(***************************************************************************)
EXTENDS Naturals, Sequences, FiniteSets

CONSTANTS
  Tokens,       \* session tokens a browser may hold
  NoToken,
  Good,         \* the tokens whose session the database confirms
  MessageCount, \* frames the pages send: 1, 2, ...
  OutboxMax,    \* frames kept while there is no open socket, 64 in the code
  MaxRetries,   \* attempts in a row
  MaxSockets,   \* bound: sockets ever opened
  MaxChanges    \* bound: changes of the token and calls of reconnect

ClientLinkAssumption ==
  /\ NoToken \notin Tokens /\ Good \subseteq Tokens
  /\ {MessageCount, OutboxMax, MaxRetries, MaxSockets, MaxChanges} \subseteq Nat

VARIABLES
  stored,    \* localStorage.token, shared by the tabs
  token,     \* the provider's copy
  nonce,     \* reconnectNonce
  changes,   \* how often the last three changed
  run,       \* the effect's last run: its number, and what it ran for
  socks,     \* every socket ever opened, in order
  cur,       \* socketRef: an index of socks, or 0
  outbox, attempts, intentional, timer, status,
  composed,  \* frames composed so far
  waited,    \* those that went through the outbox
  handled    \* what the server made of them, in order

credentials == <<stored, token, nonce, changes>>
hook == <<run, cur, attempts, intentional, timer, status>>
frames == <<outbox, composed, waited>>
linkVars == <<credentials, hook, socks, frames, handled>>

LinkInit ==
  /\ stored \in Tokens \cup {NoToken} /\ token = NoToken /\ nonce = 0 /\ changes = 0
  /\ run = [n |-> 0, token |-> NoToken, nonce |-> 0]
  /\ socks = <<>> /\ cur = 0
  /\ attempts = 0 /\ intentional = FALSE /\ timer = FALSE /\ status = "idle"
  /\ outbox = <<>> /\ composed = 0 /\ waited = {} /\ handled = <<>>

Disposed(c) == socks[c].run # run.n
Live == {c \in DOMAIN socks : socks[c].wire \in {"connecting", "open"} /\ ~Disposed(c)}

-----------------------------------------------------------------------------
(* The token *)

\* writeStoredToken in this tab tells the provider at once.
SetToken ==
  /\ changes < MaxChanges
  /\ \E t \in Tokens \cup {NoToken} : t # stored /\ stored' = t /\ token' = t
  /\ changes' = changes + 1
  /\ UNCHANGED <<nonce, hook, socks, frames, handled>>

\* Another tab signs in or out; the storage event comes later.
OtherTab ==
  /\ changes < MaxChanges
  /\ \E t \in Tokens \cup {NoToken} : t # stored /\ stored' = t
  /\ changes' = changes + 1
  /\ UNCHANGED <<token, nonce, hook, socks, frames, handled>>

\* The first read after mounting, and subscribeToToken.
StorageEvent ==
  /\ token # stored
  /\ token' = stored
  /\ UNCHANGED <<stored, nonce, changes, hook, socks, frames, handled>>

-----------------------------------------------------------------------------
(* The hook *)

\* open(), for a run.
Opened(r) ==
  /\ Len(socks) < MaxSockets
  /\ socks' = Append(socks, [run |-> r.n, token |-> r.token, wire |-> "connecting",
                             server |-> "none", up |-> <<>>])
  /\ cur' = Len(socks) + 1
  /\ status' = IF attempts = 0 THEN "connecting" ELSE "reconnecting"

\* The client closes a socket: what it has sent still arrives, nothing else happens to it.
Closing(c) == [socks EXCEPT ![c].wire = IF @ \in {"connecting", "open"} THEN "closing" ELSE @]

CleanUp_KeepsTimer == UNCHANGED timer
CleanUp == timer' = FALSE

\* The effect's clean-up and its next run.
Rerun ==
  /\ run.token # token \/ run.nonce # nonce
  /\ CleanUp
  /\ LET r == [n |-> run.n + 1, token |-> token, nonce |-> nonce]
         closed == IF cur = 0 THEN socks ELSE Closing(cur)
     IN /\ run' = r
        /\ IF token = NoToken
             THEN /\ socks' = closed /\ cur' = 0
                  /\ status' = "idle" /\ intentional' = TRUE
             ELSE /\ Len(socks) < MaxSockets
                  /\ socks' = Append(closed, [run |-> r.n, token |-> token, wire |-> "connecting",
                                              server |-> "none", up |-> <<>>])
                  /\ cur' = Len(socks) + 1
                  /\ status' = IF attempts = 0 THEN "connecting" ELSE "reconnecting"
                  /\ intentional' = FALSE
  /\ UNCHANGED <<credentials, attempts, frames, handled>>

Retry ==
  /\ timer
  /\ timer' = FALSE
  /\ Opened(run)
  /\ UNCHANGED <<credentials, run, attempts, intentional, frames, handled>>

Kept_All(queue) == queue

\* The oldest frame makes room.
Kept(queue) == IF Len(queue) > OutboxMax THEN Tail(queue) ELSE queue

\* send()
Send ==
  /\ composed < MessageCount
  /\ composed' = composed + 1
  /\ IF cur # 0 /\ socks[cur].wire = "open"
       THEN /\ socks' = [socks EXCEPT ![cur].up = Append(@, composed + 1)]
            /\ UNCHANGED <<outbox, waited>>
       ELSE /\ outbox' = Kept(Append(outbox, composed + 1))
            /\ waited' = waited \cup {composed + 1}
            /\ UNCHANGED socks
  /\ UNCHANGED <<credentials, hook, handled>>

\* onopen leaves an empty queue behind.
Remaining == <<>>

\* onopen flushes the outbox.  The server has begun to check the session.
OnOpen(c) ==
  /\ socks[c].wire = "connecting"
  /\ IF Disposed(c)
       THEN socks' = [socks EXCEPT ![c].wire = "open", ![c].server = "checking"]
            /\ UNCHANGED <<attempts, status, outbox>>
       ELSE /\ socks' = [socks EXCEPT ![c].wire = "open", ![c].server = "checking", ![c].up = outbox]
            /\ attempts' = 0 /\ status' = "open"
            /\ outbox' = Remaining
  /\ UNCHANGED <<credentials, run, cur, intentional, timer, composed, waited, handled>>

\* onclose says nothing of a socket disposed of, or closed on purpose.
Ignored(c) == Disposed(c) \/ intentional

\* onclose, with the code 1008 or another.
OnClose(c, unauthorized) ==
  /\ socks' = [socks EXCEPT ![c].wire = "closed", ![c].up = <<>>]
  /\ IF Ignored(c) THEN UNCHANGED hook
     ELSE /\ cur' = 0
          /\ \/ /\ unauthorized
                /\ status' = "unauthorized"
                /\ UNCHANGED <<attempts, timer>>
             \/ /\ ~unauthorized /\ attempts >= MaxRetries
                /\ status' = "closed"
                /\ UNCHANGED <<attempts, timer>>
             \/ /\ ~unauthorized /\ attempts < MaxRetries
                /\ attempts' = attempts + 1
                /\ status' = "reconnecting"
                /\ timer' = TRUE
          /\ UNCHANGED <<run, intentional>>
  /\ UNCHANGED <<credentials, frames, handled>>

\* The network, or the server going down, takes the connection and what it carried; a
\* socket the client closed has its close event, too.
Drop(c) == socks[c].wire # "closed" /\ OnClose(c, FALSE)

Disconnect ==
  /\ token # NoToken /\ status # "closed"
  /\ intentional' = TRUE /\ timer' = FALSE
  /\ socks' = IF cur = 0 THEN socks ELSE Closing(cur)
  /\ cur' = 0
  /\ status' = "closed"
  /\ UNCHANGED <<credentials, run, attempts, frames, handled>>

Reconnect ==
  /\ changes < MaxChanges
  /\ nonce' = nonce + 1 /\ changes' = changes + 1
  /\ attempts' = 0
  /\ UNCHANGED <<stored, token, run, socks, cur, intentional, timer, status, frames, handled>>

-----------------------------------------------------------------------------
(* The server *)

\* verifyConnection: a good session, unless the look-up fails, and no other.
Verified(c) ==
  /\ socks[c].server = "checking"
  /\ \/ socks[c].token \in Good /\ socks' = [socks EXCEPT ![c].server = "verified"]
     \/ socks' = [socks EXCEPT ![c].server = "refused"]
  /\ UNCHANGED <<credentials, hook, frames, handled>>

\* ... which closes the connection with 1008; the frames behind it go unread.
Refuse(c) ==
  /\ socks[c].server = "refused" /\ socks[c].wire = "open"
  /\ OnClose(c, TRUE)

\* A frame is routed, or answered NOT_READY.
Receive(c) ==
  /\ socks[c].wire \in {"open", "closing"} /\ socks[c].server # "none" /\ socks[c].up # <<>>
  /\ handled' = Append(handled, [m |-> Head(socks[c].up), routed |-> socks[c].server = "verified"])
  /\ socks' = [socks EXCEPT ![c].up = Tail(@)]
  /\ UNCHANGED <<credentials, hook, frames>>

LinkNext ==
  \/ SetToken \/ OtherTab \/ StorageEvent
  \/ Rerun \/ Retry \/ Send \/ Disconnect \/ Reconnect
  \/ \E c \in DOMAIN socks : OnOpen(c) \/ Drop(c) \/ Verified(c) \/ Refuse(c) \/ Receive(c)

LinkSpec == LinkInit /\ [][LinkNext]_linkVars

-----------------------------------------------------------------------------
(* Properties *)

LinkTypeOK ==
  /\ {stored, token} \subseteq Tokens \cup {NoToken}
  /\ cur \in 0..Len(socks)
  /\ \A c \in DOMAIN socks :
       /\ socks[c].wire \in {"connecting", "open", "closing", "closed"}
       /\ socks[c].server \in {"none", "checking", "verified", "refused"}
  /\ status \in {"idle", "connecting", "open", "reconnecting", "closed", "unauthorized"}
  /\ Len(outbox) <= OutboxMax /\ attempts <= MaxRetries

\* Whatever the token, the timers and the connections do, a tab never holds two
\* connections, and says it is open only when the one it holds is.
OneConnection ==
  /\ Cardinality(Live) <= 1
  /\ Live # {} => cur \in Live
  /\ status = "open" => Live # {} \/ run.token # token \/ run.nonce # nonce

\* A hook that has given up, was told to stop or has no token stays quiet: no timer is
\* left to open a connection behind it.
StoppedStaysStopped ==
  status \in {"idle", "closed", "unauthorized"} => ~timer /\ Live = {}

\* A bet composed once is handled at most once, over every reconnection and flush.
HandledOnce ==
  LET held == {outbox[i] : i \in DOMAIN outbox}
      sent == UNION {{socks[c].up[i] : i \in DOMAIN socks[c].up} : c \in DOMAIN socks}
      done == {handled[i].m : i \in DOMAIN handled}
  IN /\ \A i, j \in DOMAIN handled : handled[i].m = handled[j].m => i = j
     /\ held \cap sent = {} /\ done \cap (held \cup sent) = {}

\* A tab is one player at one table: one connection, none behind its back, and no bet
\* placed twice.
LinkKeepsItsWord == OneConnection /\ StoppedStaysStopped /\ HandledOnce

\* "Messages sent while the socket is still connecting are queued and flushed on open, so
\* callers never have to poll `status` before betting": no frame that went through the
\* outbox is answered NOT_READY.
QueuedIsServed == \A i \in DOMAIN handled : handled[i].m \in waited => handled[i].routed
=============================================================================
