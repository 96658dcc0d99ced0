------------------------------- MODULE Support -------------------------------
(***************************************************************************)
(* Live support: the routes that keep tickets and their messages           *)
(* (routes/support.routes.ts), the frames they push, the player's panel    *)
(* (SupportChat.tsx) and the console of the staff (SupportConsole.tsx).    *)
(* Every request is a chain of awaited statements; frames of one           *)
(* connection keep their order, answers of requests do not.                *)
(***************************************************************************)
EXTENDS Integers, Sequences, SequencesExt, FiniteSets

CONSTANTS
  MaxMessages,  \* bound: messages written
  MaxTickets,   \* bound: tickets created
  MaxLoads,     \* bound: loads of the console under way
  MaxOpens,     \* bound: times the panel is opened
  MaxCloses,    \* bound: tickets closed
  MaxCuts       \* bound: connections lost

SupportAssumption == {MaxMessages, MaxTickets, MaxLoads, MaxOpens, MaxCloses, MaxCuts} \subseteq Nat

\* Who writes: the panel, another tab of the same player, a visitor, the console.
Writers == {"panel", "tab", "visitor", "staff"}

\* One end is looked at a time: the panel, or the console with a player or a visitor.
Writing == [panel |-> {"panel", "staff"}, desk |-> {"tab", "staff"}, visit |-> {"visitor", "staff"}]

VARIABLES
  end,       \* which end is looked at
  tickets,   \* sequence of [owner, open, through]: through = messages there were at the close
  recent,    \* tickets by updatedAt, newest first
  messages,  \* sequence of [ticket, sender]
  call,      \* [writer -> step of its request, the ticket it found and whether it is the first
             \* to write there, the message it wrote]; "closer" is the console's close
  chat,      \* the panel: open, shown, restore
  desk,      \* the console: list of [ticket, shown], selected, unread
  loads,     \* loads of the console: "asked", or the list the server answered
  toChat, toDesk,  \* frames under way
  opens, closes, cuts,
  raced      \* history: the panel took a message in while its thread was being restored, or
             \* could not restore it, or a message opened a closed ticket again

vars == <<end, tickets, recent, messages, call, chat, desk, loads, toChat, toDesk, opens, closes, cuts, raced>>
rowVars == <<end, tickets, recent, messages, closes>>
pageVars == <<chat, desk, loads, opens, raced>>
wireVars == <<toChat, toDesk, cuts>>

Nobody == 0
Idle == [step |-> "idle", ticket |-> Nobody, first |-> FALSE, wrote |-> Nobody]
NotAsked == <<"none">>
Asked == <<"asked">>
Answered(rows) == <<"answered", rows>>

Init ==
  /\ end \in DOMAIN Writing
  /\ tickets = <<>> /\ recent = <<>> /\ messages = <<>>
  /\ call = [w \in Writers \cup {"closer"} |-> Idle]
  /\ chat = [open |-> FALSE, shown |-> <<>>, restore |-> NotAsked]
  /\ desk = [list |-> <<>>, selected |-> Nobody, unread |-> [t \in 1..MaxTickets |-> 0]]
  /\ loads = <<>>
  /\ toChat = <<>> /\ toDesk = <<>> /\ opens = 0 /\ closes = 0 /\ cuts = 0 /\ raced = FALSE

-----------------------------------------------------------------------------
(* Rows *)

\* Some numbers in their order, and what a sequence has at some of its places.
Ascending(places) ==
  CHOOSE s \in [1..Cardinality(places) -> places] :
    ToSet(s) = places /\ \A i, j \in DOMAIN s : i < j => s[i] < s[j]
Kept(s, places) == LET at == Ascending(places) IN [i \in 1..Cardinality(places) |-> s[at[i]]]

Thread(t) == Ascending({id \in 1..Len(messages) : messages[id].ticket = t})
OpenOf(owner) ==
  Kept(recent, {i \in 1..Len(recent) : tickets[recent[i]].open /\ tickets[recent[i]].owner = owner})
Bumped(t) == <<t>> \o Kept(recent, {i \in 1..Len(recent) : recent[i] # t})

Owner(w) == IF w = "visitor" THEN "visitor" ELSE "player"
Sender(w) == IF w = "staff" THEN "ADMIN" ELSE "USER"

Step(w, step) == call' = [call EXCEPT ![w].step = step]

\* A request is sent.  The panel's own send waits for the one before.
Ask(w) ==
  /\ w \in Writing[end] \ {"staff"} /\ call[w] = Idle /\ Len(messages) < MaxMessages
  /\ w = "panel" => chat.open
  /\ Step(w, "asked")
  /\ UNCHANGED <<rowVars, pageVars, wireVars>>

\* The console acts on the ticket it shows.
Listed(t) == \E i \in 1..Len(desk.list) : desk.list[i].ticket = t
Selected(t) == end # "panel" => t = desk.selected /\ Listed(t)

Reply(t) ==
  /\ call["staff"] = Idle /\ Selected(t) /\ Len(messages) < MaxMessages
  /\ call' = [call EXCEPT !["staff"] = [@ EXCEPT !.step = "found", !.ticket = t]]
  /\ UNCHANGED <<rowVars, pageVars, wireVars>>

\* openTicketFor: the newest open ticket of the player, or none yet.  A visitor's is new.
FindTicket(w) ==
  /\ call[w].step = "asked"
  /\ LET found == IF w = "visitor" THEN <<>> ELSE OpenOf("player") IN
     IF found = <<>> THEN Step(w, "none")
     ELSE call' = [call EXCEPT ![w] = [@ EXCEPT !.step = "found", !.ticket = Head(found),
                                                !.first = Len(Thread(Head(found))) = 0]]
  /\ UNCHANGED <<rowVars, pageVars, wireVars>>

CreateTicket(w) ==
  /\ call[w].step = "none" /\ Len(tickets) < MaxTickets
  /\ tickets' = Append(tickets, [owner |-> Owner(w), open |-> TRUE, through |-> 0])
  /\ recent' = <<Len(tickets) + 1>> \o recent
  /\ call' = [call EXCEPT ![w] = [@ EXCEPT !.step = "found", !.ticket = Len(tickets) + 1, !.first = TRUE]]
  /\ UNCHANGED <<end, closes, messages, pageVars, wireVars>>

\* The update beside the message: the ticket is open, whatever was done to it meanwhile.
Reopened(t) == [tickets[t] EXCEPT !.open = TRUE]

\* The message and the update of its ticket are one transaction; a visitor's ticket is left alone.
Write(w) ==
  LET t == call[w].ticket IN
  /\ call[w].step = "found" /\ Len(messages) < MaxMessages
  /\ messages' = Append(messages, [ticket |-> t, sender |-> Sender(w)])
  /\ call' = [call EXCEPT ![w].step = "wrote", ![w].wrote = Len(messages) + 1]
  /\ IF w = "visitor" THEN UNCHANGED <<tickets, recent>>
     ELSE tickets' = [tickets EXCEPT ![t] = Reopened(t)] /\ recent' = Bumped(t)
  /\ raced' = (raced \/ ~tickets[t].open)
  /\ UNCHANGED <<end, closes, chat, desk, loads, opens, wireVars>>

\* The request fails: an error is the answer, and a ticket just created stays without a message.
WriteFails(w) ==
  /\ call[w].step \in {"none", "found"}
  /\ call' = [call EXCEPT ![w] = Idle]
  /\ UNCHANGED <<rowVars, pageVars, wireVars>>

\* The frames: to the owner's sockets and to every administrator's.
Push(t, frames) ==
  /\ toDesk' = IF end # "panel" THEN toDesk \o frames ELSE toDesk
  /\ toChat' = IF end = "panel" /\ tickets[t].owner = "player"
               THEN toChat \o Kept(frames, {i \in 1..Len(frames) : frames[i].type = "SUPPORT_MESSAGE"})
               ELSE toChat

TicketFrame(t) == [type |-> "SUPPORT_TICKET", ticket |-> t, id |-> 0]
MessageFrame(id) == [type |-> "SUPPORT_MESSAGE", ticket |-> messages[id].ticket, id |-> id]

\* The page whose request this is, if it is looked at, waits for the answer.
Answering(w, c) ==
  IF w = "panel" \/ (w \in {"staff", "closer"} /\ end # "panel") THEN [c EXCEPT !.step = "answered"] ELSE Idle

\* Persist first, then broadcast, then answer.
Broadcast(w) ==
  LET c == call[w] IN
  /\ c.step = "wrote"
  /\ Push(c.ticket, (IF c.first THEN <<TicketFrame(c.ticket)>> ELSE <<>>) \o <<MessageFrame(c.wrote)>>)
  /\ call' = [call EXCEPT ![w] = Answering(w, c)]
  /\ UNCHANGED <<rowVars, pageVars, cuts>>

\* The console closes a ticket, a reply under way or not: one statement, then its frame.
Close(t) ==
  /\ call["closer"] = Idle /\ Selected(t) /\ closes < MaxCloses /\ closes' = closes + 1
  /\ tickets' = [tickets EXCEPT ![t].open = FALSE, ![t].through = Len(messages)]
  /\ recent' = Bumped(t)
  /\ Push(t, <<TicketFrame(t)>>)
  /\ call' = [call EXCEPT !["closer"] = Answering("closer", [@ EXCEPT !.ticket = t])]
  /\ UNCHANGED <<end, messages, pageVars, cuts>>

-----------------------------------------------------------------------------
(* The panel *)

\* Adds a message unless its id is already on screen.
Absorb(shown, id) == IF Contains(shown, id) THEN shown ELSE Append(shown, id)

OpenPanel ==
  /\ end = "panel" /\ ~chat.open /\ opens < MaxOpens /\ opens' = opens + 1
  /\ chat' = [chat EXCEPT !.open = TRUE, !.restore = Asked]
  /\ UNCHANGED <<rowVars, call, desk, loads, raced, wireVars>>

\* An answer that comes after the panel was closed is dropped.
ClosePanel ==
  /\ chat.open
  /\ chat' = [chat EXCEPT !.open = FALSE, !.restore = NotAsked]
  /\ UNCHANGED <<rowVars, call, desk, loads, opens, raced, wireVars>>

\* GET /api/support/me: the newest open ticket with its history.
ReadMe ==
  LET mine == OpenOf("player") IN
  /\ chat.restore = Asked
  /\ chat' = [chat EXCEPT !.restore = Answered(IF mine = <<>> THEN <<>> ELSE Thread(Head(mine)))]
  /\ UNCHANGED <<rowVars, call, desk, loads, opens, raced, wireVars>>

Restored ==
  /\ chat.restore[1] = "answered"
  /\ chat' = [chat EXCEPT !.shown = chat.restore[2], !.restore = NotAsked]
  /\ UNCHANGED <<rowVars, call, desk, loads, opens, raced, wireVars>>

\* The thread could not be had: what is shown stays.
RestoreFails ==
  /\ chat.restore = Asked
  /\ chat' = [chat EXCEPT !.restore = NotAsked] /\ raced' = TRUE
  /\ UNCHANGED <<rowVars, call, desk, loads, opens, wireVars>>

\* A frame is taken in whether or not the panel is open.
ChatFrame ==
  /\ toChat # <<>> /\ toChat' = Tail(toChat)
  /\ chat' = [chat EXCEPT !.shown = Absorb(@, Head(toChat).id)]
  /\ raced' = (raced \/ chat.restore # NotAsked)
  /\ UNCHANGED <<rowVars, call, desk, loads, opens, toDesk, cuts>>

\* The answer of a send: the panel takes its own message in, the frame having been lost or not.
SendAnswered ==
  /\ call["panel"].step = "answered"
  /\ chat' = [chat EXCEPT !.shown = Absorb(@, call["panel"].wrote)]
  /\ call' = [call EXCEPT !["panel"] = Idle]
  /\ raced' = (raced \/ chat.restore # NotAsked)
  /\ UNCHANGED <<rowVars, desk, loads, opens, wireVars>>

-----------------------------------------------------------------------------
(* The console *)

Row(t) == [ticket |-> t, shown |-> Thread(t)]
At(t) == CHOOSE i \in 1..Len(desk.list) : desk.list[i].ticket = t

Load == Len(loads) < MaxLoads /\ loads' = Append(loads, Asked)

\* The slow interval, a backstop for a dropped socket.
Poll ==
  /\ end # "panel" /\ Load
  /\ UNCHANGED <<rowVars, call, chat, desk, opens, raced, wireVars>>

\* GET /api/support/tickets: the open ones, newest activity first.
ReadQueue(i) ==
  LET open == Kept(recent, {n \in 1..Len(recent) : tickets[recent[n]].open}) IN
  /\ loads[i] = Asked
  /\ loads' = [loads EXCEPT ![i] = Answered([n \in 1..Len(open) |-> Row(open[n])])]
  /\ UNCHANGED <<rowVars, call, chat, desk, opens, raced, wireVars>>

LoadFails(i) ==
  /\ loads[i] = Asked /\ loads' = RemoveAt(loads, i)
  /\ UNCHANGED <<rowVars, call, chat, desk, opens, raced, wireVars>>

\* Whichever answer comes last is the list.
Loaded(i) ==
  /\ loads[i][1] = "answered"
  /\ desk' = [desk EXCEPT !.list = loads[i][2]]
  /\ loads' = RemoveAt(loads, i)
  /\ UNCHANGED <<rowVars, call, chat, opens, raced, wireVars>>

\* A message goes to the top of the list with its thread; of a thread never seen, or of a
\* ticket, only that it should load is known.
DeskFrame ==
  LET f == Head(toDesk) IN
  /\ toDesk # <<>> /\ toDesk' = Tail(toDesk)
  /\ IF f.type = "SUPPORT_TICKET" \/ ~Listed(f.ticket)
     THEN Load /\ desk' = [desk EXCEPT !.unread = IF f.type = "SUPPORT_TICKET" \/ messages[f.id].sender = "ADMIN"
                                                    \/ desk.selected = f.ticket
                                                  THEN @ ELSE [@ EXCEPT ![f.ticket] = @ + 1]]
     ELSE LET i == At(f.ticket)
              row == [desk.list[i] EXCEPT !.shown = Absorb(@, f.id)] IN
          /\ desk' = [desk EXCEPT
               !.list = IF row = @[i] THEN @ ELSE <<row>> \o RemoveAt(@, i),
               !.unread = IF messages[f.id].sender = "ADMIN" \/ desk.selected = f.ticket
                          THEN @ ELSE [@ EXCEPT ![f.ticket] = @ + 1]]
          /\ UNCHANGED loads
  /\ UNCHANGED <<rowVars, call, chat, opens, raced, toChat, cuts>>

Select(t) ==
  /\ Listed(t)
  /\ desk' = [desk EXCEPT !.selected = t, !.unread[t] = 0]
  /\ UNCHANGED <<rowVars, call, chat, loads, opens, raced, wireVars>>

AbsorbReply(rows, t, id) ==
  [i \in 1..Len(rows) |-> IF rows[i].ticket = t THEN [rows[i] EXCEPT !.shown = Absorb(@, id)] ELSE rows[i]]

\* The answer of a reply goes to the ticket it was written to.
Replied ==
  LET c == call["staff"] IN
  /\ c.step = "answered"
  /\ desk' = [desk EXCEPT !.list = AbsorbReply(@, c.ticket, c.wrote)]
  /\ call' = [call EXCEPT !["staff"] = Idle]
  /\ UNCHANGED <<rowVars, chat, loads, opens, raced, wireVars>>

\* The answer of a close clears the selection, whatever it is by then, and loads.
ClosedAnswered ==
  /\ call["closer"].step = "answered"
  /\ desk' = [desk EXCEPT !.selected = Nobody] /\ Load
  /\ call' = [call EXCEPT !["closer"] = Idle]
  /\ UNCHANGED <<rowVars, chat, opens, raced, wireVars>>

\* A connection is lost with the frames on it: the record is the database.
Cut ==
  /\ cuts < MaxCuts /\ cuts' = cuts + 1
  /\ \/ toChat # <<>> /\ toChat' = <<>> /\ UNCHANGED toDesk
     \/ toDesk # <<>> /\ toDesk' = <<>> /\ UNCHANGED toChat
  /\ UNCHANGED <<rowVars, call, pageVars>>

Next ==
  \/ \E w \in Writers : Ask(w) \/ FindTicket(w) \/ CreateTicket(w) \/ Write(w) \/ WriteFails(w) \/ Broadcast(w)
  \/ Replied \/ ClosedAnswered
  \/ OpenPanel \/ ClosePanel \/ ReadMe \/ Restored \/ RestoreFails \/ ChatFrame \/ SendAnswered
  \/ Poll \/ DeskFrame \/ Cut
  \/ \E i \in 1..Len(loads) : ReadQueue(i) \/ Loaded(i) \/ LoadFails(i)
  \/ \E t \in 1..Len(tickets) : Reply(t) \/ Close(t) \/ Select(t)

Spec == Init /\ [][Next]_vars

-----------------------------------------------------------------------------
(* Properties *)

TypeOK ==
  /\ tickets \in Seq([owner : {"player", "visitor"}, open : BOOLEAN, through : 0..MaxMessages])
  /\ messages \in Seq([ticket : 1..Len(tickets), sender : {"USER", "ADMIN"}])
  /\ ToSet(recent) = 1..Len(tickets) /\ IsInjective(recent)
  /\ desk.selected \in 0..Len(tickets) /\ desk.unread \in [1..MaxTickets -> 0..MaxMessages]

\* "Frames are keyed by message id and ignored if already present" (SupportChat.tsx:20-21): a
\* message is on screen once, in its own thread, whichever of frame, answer and reload brings it.
ShownOnce ==
  /\ IsInjective(chat.shown)
  /\ \A id \in ToSet(chat.shown) : tickets[messages[id].ticket].owner = "player"
  /\ \A i \in 1..Len(desk.list) :
       /\ IsInjective(desk.list[i].shown)
       /\ \A id \in ToSet(desk.list[i].shown) : messages[id].ticket = desk.list[i].ticket

\* A player's or an administrator's message written while its ticket was being closed is not
\* buried: a closed ticket of a player holds nothing newer than its close
\* (support.routes.ts:84-93, 126-134).  A visitor's message does not open its ticket again.
NothingBuried ==
  \A id \in 1..Len(messages) :
    LET t == tickets[messages[id].ticket] IN t.owner = "player" /\ ~t.open => id <= t.through

\* "the thread is current the moment it is reopened" (SupportChat.tsx:142-143), unless a
\* connection was lost, the thread could not be restored, a message was taken in while it
\* was, or one opened a ticket again that was closed when the panel read its thread.
PanelIsCurrent ==
  LET mine == OpenOf("player") IN
  (chat.open /\ chat.restore = NotAsked /\ ~raced /\ cuts = 0 /\ toChat = <<>> /\ mine # <<>>
     /\ \A w \in Writers : call[w].step # "wrote") =>
    ToSet(Thread(Head(mine))) \subseteq ToSet(chat.shown)
=============================================================================
