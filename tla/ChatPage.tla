------------------------------ MODULE ChatPage ------------------------------
(***************************************************************************)
(* The chat page of the web app over the chat of the Nest backend: each    *)
(* socket is one load of the page by the user who owns it.  The module     *)
(* composes the two: what a page's user does and the backend's handlers    *)
(* interleave, joined by the packets between them.                         *)
(***************************************************************************)
EXTENDS Chat

CONSTANT
    NoConv          \* null

ASSUME ChatPageAssumption == NoConv \notin Convs

VARIABLES
    page,           \* the state of each page that packets do not change
    drops,
    requests,
    told,           \* ghost: the messages that were broadcast
    raced           \* ghost: <<s, i>>: message i was on its way while s was joining

bounds == <<drops, requests>>
vars == <<serverVars, page, bounds, told, raced>>

Closed == [loaded |-> FALSE, fetching |-> FALSE, listed |-> {}, active |-> NoConv,
           draft |-> FALSE, isTyping |-> FALSE, timer |-> NoConv, sent |-> 0, acts |-> 0]

PageInit ==
    /\ page = [s \in Sockets |-> Closed]
    /\ drops = 0
    /\ requests = 0
    /\ told = {}
    /\ raced = {}

Open(s) == page[s].loaded /\ ~screen[s].left
\* socket.emit; what is emitted without a connection is sent when there is one.
Emit(s, events) == outbox' = [outbox EXCEPT ![s] = @ \o events]
Typing(c, b) == [ev |-> "typing", conv |-> c, isTyping |-> b]
\* Every user action is counted, and needs the page's controls on the screen.
Act(s, new) == page' = [page EXCEPT ![s] = [new EXCEPT !.acts = @ + 1]]
CanAct(s) == Open(s) /\ ~page[s].fetching /\ page[s].acts < scenario.acts[s]

(***************************************************************************)
(* Loading: the effect creates the socket and fetches the list.            *)
(***************************************************************************)
FetchUserAndConnect(s) ==
    /\ ~page[s].loaded
    /\ page' = [page EXCEPT ![s].loaded = TRUE, ![s].fetching = TRUE]
    /\ UNCHANGED <<serverVars, bounds>>

\* With an application in the URL it asks for its conversation instead.  The
\* answer opens nothing: handleApplicationChat is the closure of the first render,
\* where user and socket are null, so it ends in an error message.
HandleApplicationChat(s) ==
    /\ ~page[s].loaded
    /\ page' = [page EXCEPT ![s].loaded = TRUE]
    /\ \E c \in Convs, t \in Tasks : CreateApplicationConversation(s, c, t)
    /\ requests < scenario.requests
    /\ requests' = requests + 1
    /\ UNCHANGED drops

\* onConnect, and the effect on isConnected that fetches the list again; while
\* it waits the page shows a spinner.
Connect(s) ==
    /\ page[s].loaded
    /\ HandleConnection(s)
    /\ page' = IF Open(s) THEN [page EXCEPT ![s].fetching = TRUE] ELSE page
    /\ UNCHANGED bounds

\* A page that connects with an expired token is connected and cut off again.
ConnectInVain(s) ==
    /\ page[s].loaded
    /\ ConnectionRefused(s)
    /\ page' = IF Open(s) THEN [page EXCEPT ![s].fetching = TRUE] ELSE page
    /\ UNCHANGED bounds

\* A day after the page asked for the socket's token.
TokenExpires(s) ==
    /\ page[s].loaded
    /\ s \in scenario.expiring \ expired
    /\ expired' = expired \cup {s}
    /\ UNCHANGED <<dbVars, userSocketMap, rooms, outbox, screen, task, faults, scenario, refused, page, bounds>>

Disconnect(s) ==
    /\ drops < scenario.drops
    /\ drops' = drops + 1
    /\ HandleDisconnect(s)
    /\ UNCHANGED <<page, requests>>

\* The cleanup of the effect holds the null of the first render: the socket stays.
Unmount(s) ==
    /\ Open(s)
    /\ drops < scenario.drops
    /\ drops' = drops + 1
    /\ page' = [page EXCEPT ![s] = [Closed EXCEPT !.loaded = TRUE, !.timer = page[s].timer]]
    /\ screen' = [screen EXCEPT ![s] = [Blank EXCEPT !.left = TRUE]]
    /\ UNCHANGED <<dbVars, userSocketMap, rooms, outbox, task, faults, requests, scenario, tokenVars>>

\* The answer to fetchConversations; requests that overlap are answered as one.
SetConversations(s) ==
    /\ page[s].fetching
    /\ page' = [page EXCEPT ![s].listed = ConversationsOf(s), ![s].fetching = FALSE]
    /\ UNCHANGED <<serverVars, bounds>>

FetchFails(s) ==
    /\ page[s].fetching
    /\ faults < scenario.faults
    /\ faults' = faults + 1
    /\ page' = [page EXCEPT ![s].fetching = FALSE]
    /\ OnError({s})
    /\ UNCHANGED <<dbVars, userSocketMap, rooms, outbox, task, bounds, scenario, tokenVars>>

(***************************************************************************)
(* What the user does.                                                     *)
(***************************************************************************)
NotServer == UNCHANGED <<dbVars, userSocketMap, rooms, screen, task, faults, bounds, scenario, tokenVars>>

Leave(c) == IF c = NoConv THEN <<>> ELSE <<[ev |-> "leaveConversation", conv |-> c]>>
Join(c) == <<[ev |-> "joinConversation", conv |-> c]>>

\* Mutant of JoinConversation: the room left last.
JoinConversationLeavesLast(s) ==
    \E c \in page[s].listed :
        /\ CanAct(s)
        /\ Emit(s, Join(c) \o Leave(page[s].active))
        /\ Act(s, [page[s] EXCEPT !.active = c, !.isTyping = FALSE, !.timer = NoConv])
        /\ NotServer

\* joinConversation: the room left first, no typing(false) for it.
JoinConversation(s) ==
    \E c \in page[s].listed :
        /\ CanAct(s)
        /\ Emit(s, Leave(page[s].active) \o Join(c))
        /\ Act(s, [page[s] EXCEPT !.active = c, !.isTyping = FALSE, !.timer = NoConv])
        /\ NotServer

\* handleTyping: a new timer, for the conversation of this render.
HandleTypingText(s) ==
    /\ CanAct(s)
    /\ page[s].active # NoConv
    /\ \E text \in BOOLEAN :
          /\ text # page[s].draft \/ text
          /\ Emit(s, IF page[s].isTyping THEN <<>> ELSE <<Typing(page[s].active, TRUE)>>)
          /\ Act(s, [page[s] EXCEPT !.draft = text, !.isTyping = TRUE, !.timer = page[s].active])
    /\ NotServer

SendMessage(s) ==
    /\ CanAct(s)
    /\ page[s].active # NoConv /\ page[s].draft
    /\ Emit(s, <<[ev |-> "sendMessage", conv |-> page[s].active], Typing(page[s].active, FALSE)>>)
    /\ Act(s, [page[s] EXCEPT !.draft = FALSE, !.isTyping = FALSE, !.timer = NoConv, !.sent = @ + 1])
    /\ NotServer

TypingTimeout(s) ==
    /\ page[s].timer # NoConv
    /\ Emit(s, <<Typing(page[s].timer, FALSE)>>)
    /\ page' = [page EXCEPT ![s].isTyping = FALSE, ![s].timer = NoConv]
    /\ NotServer

\* The other requests of the controller; the page makes none of them.
HttpRequest(s) ==
    /\ requests < scenario.requests
    /\ requests' = requests + 1
    /\ \E c \in Convs, t \in Tasks :
          StartConversation(s, c, t) \/ CreateMessage(s, c, t) \/ GetConversation(s, c, t)
    /\ UNCHANGED <<page, drops>>

-------------------------------------------------------------------------------
\* A message between its save and the last emission, and a join between its
\* reading of the history and its answer.
Sending(t) == At(t, "broadcast") \/ At(t, "notify")
Joining(t) == At(t, "join") \/ At(t, "recent")
Races == {p \in Sockets \X Ids :
             \E t, j \in Tasks : /\ Sending(t) /\ task[t].msg = p[2]
                                 /\ Joining(j) /\ task[j].sock = p[1] /\ task[j].conv = task[t].conv}

PageStep(s) ==
    \/ FetchUserAndConnect(s) \/ HandleApplicationChat(s) \/ Connect(s) \/ ConnectInVain(s)
    \/ TokenExpires(s) \/ Disconnect(s) \/ Unmount(s)
    \/ SetConversations(s) \/ FetchFails(s)
    \/ JoinConversation(s) \/ HandleTypingText(s) \/ SendMessage(s) \/ TypingTimeout(s)
    \/ HttpRequest(s)

Init == ServerInit /\ PageInit

Next ==
    /\ \/ \E s \in Sockets : PageStep(s)
       \/ \E s \in Sockets : SocketStep(s) /\ UNCHANGED <<page, bounds>>
       \/ \E t \in Tasks : TaskStep(t) /\ UNCHANGED <<page, bounds>>
    /\ told' = told \cup {task[t].msg : t \in {u \in Tasks : At(u, "broadcast") /\ At(u, "notify")'}}
    /\ raced' = raced \cup Races'

Spec == Init /\ [][Next]_vars

-------------------------------------------------------------------------------
Entry == [msg : Nat, hasId : BOOLEAN]
Page == [loaded : BOOLEAN, fetching : BOOLEAN, listed : SUBSET Convs,
         active : Convs \cup {NoConv}, draft : BOOLEAN,
         isTyping : BOOLEAN, timer : Convs \cup {NoConv}, sent : Nat, acts : Nat]
Screen == [left : BOOLEAN, shown : [Convs -> Seq(Entry)], typingUsers : SUBSET Users, error : BOOLEAN]

TypeOK ==
    /\ convs \subseteq Convs
    /\ messages \in Seq([conv : Convs, senderId : Users, read : BOOLEAN])
    /\ userSocketMap \in [Users -> SUBSET Sockets]
    /\ rooms \in [Sockets -> SUBSET Convs]
    /\ task \in [Tasks -> Task \cup {Idle}]
    /\ faults \in Nat
    /\ expired \subseteq Sockets /\ refused \in [Sockets -> Nat]
    /\ screen \in [Sockets -> Screen]
    /\ page \in [Sockets -> Page]
    /\ told \subseteq Ids
    /\ raced \subseteq Sockets \X Ids

IdsShown(s, c) == {screen[s].shown[c][k].msg : k \in DOMAIN screen[s].shown[c]}

\* Nothing between page and backend is under way for s.
Quiet(s) == outbox[s] = <<>> /\ \A t \in Tasks : task[t] # Idle => task[t].sock # s

\* A message once shown with its id is not shown again, although the room and
\* the notification may both bring it, and the history as well.
ShownOnce ==
    \A s \in Sockets, c \in Convs :
        \A k, l \in DOMAIN screen[s].shown[c] :
            /\ k < l
            /\ screen[s].shown[c][k].msg = screen[s].shown[c][l].msg
            => ~screen[s].shown[c][k].hasId

\* s is in the room of the conversation on its screen, and all is quiet.
InRoomOf(s, c) == Open(s) /\ Online(s) /\ Quiet(s) /\ page[s].active = c /\ c \in rooms[s]

\* A page in the room shows every message that was broadcast, and that the
\* history has room for, except those that were on their way while it joined.
MissesOnlyRaces ==
    \A s \in Sockets, c \in Convs : InRoomOf(s, c) =>
        \A i \in told \cap IdsOf(c) :
            Rank(i) <= HistoryLimit => i \in IdsShown(s, c) \/ <<s, i>> \in raced

\* The conversation on the screen is the one whose room the page is in, as long
\* as its token is good, no connection was lost and no handler failed.
ActiveIsJoined ==
    \A s \in Sockets \ expired :
        (Open(s) /\ Online(s) /\ Quiet(s) /\ page[s].active # NoConv /\ drops = 0 /\ faults = 0)
        => page[s].active \in rooms[s]

\* As long as no connection was lost and the page was told of no error, what it sent
\* is stored, save the messages that came to WsJwtGuard after the token had expired:
\* those, and no others, are dropped in silence.
OnlyPage(s) == \A r \in Sockets : Owner[r] = Owner[s] => r = s
SentIsStoredOrReported ==
    \A s \in Sockets :
        (Open(s) /\ Online(s) /\ Quiet(s) /\ OnlyPage(s) /\ drops = 0 /\ requests = 0)
        => \/ screen[s].error
           \/ page[s].sent = refused[s] + Cardinality({i \in Ids : messages[i].senderId = Owner[s]})

\* "Send the message to everyone in the room", "if the other user is not in the
\* room, send him a notification": one way or the other his page has the message.
OtherUserIsTold ==
    \A s \in Sockets, c \in Convs : InRoomOf(s, c) =>
        \A i \in told \cap IdsOf(c) :
            messages[i].senderId # Owner[s] /\ Rank(i) <= HistoryLimit => i \in IdsShown(s, c)
===============================================================================
