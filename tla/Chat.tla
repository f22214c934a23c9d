-------------------------------- MODULE Chat --------------------------------
(***************************************************************************)
(* The chat of the Nest backend: ChatService over the conversations and    *)
(* messages of MongoDB, ChatController's requests and ChatGateway's        *)
(* Socket.IO handlers.  A handler runs until its next await, so each       *)
(* action is what happens between two awaits; `task' holds the handlers    *)
(* that wait.  Node runs one of them at a time.                            *)
(***************************************************************************)
EXTENDS Naturals, Sequences, FiniteSets

CONSTANTS
    Users,
    Convs,          \* a pair of users has one conversation: the index is unique
    Members,        \* the two participants of each conversation
    Sockets,
    Owner,          \* the user whose token the socket presents
    Tasks,          \* bound: how many handlers may wait at once
    Idle,
    HistoryLimit,   \* how many messages getConversationMessages answers
    Scenarios       \* the bounds TLC explores: see Scenario

\* The conversations stored before, the sockets whose token may expire, and how many
\* things may happen: awaits that are rejected, connections lost or pages left, direct
\* HTTP requests, and, on each page, clicks, keystrokes and sends.
Scenario == [stored : SUBSET Convs, expiring : SUBSET Sockets, faults : Nat, drops : Nat,
             requests : Nat, acts : [Sockets -> Nat]]

ASSUME ChatAssumption ==
    /\ Members \in [Convs -> SUBSET Users]
    /\ Owner \in [Sockets -> Users]
    /\ HistoryLimit \in Nat
    /\ Scenarios \subseteq Scenario

Kinds == {"join", "send", "start", "application", "post", "get"}
Steps == {"find", "join", "recent", "markRead", "check", "save", "broadcast", "notify",
          "findConv", "create"}
Task == [kind : Kinds, sock : Sockets, live : BOOLEAN, conv : Convs, step : Steps,
         history : Seq(Nat), msg : Nat]
ASSUME IdleAssumption == Idle \notin Task

VARIABLES
    convs,          \* the stored conversations
    messages,       \* the stored messages by creation; the index is the id
    userSocketMap,
    rooms,          \* the rooms each socket is in
    outbox,         \* emitted by the client, not handled yet
    screen,         \* what each page shows of what the gateway emits
    task,
    faults,         \* awaits rejected so far
    scenario,
    expired,        \* the sockets whose token is past its day
    refused         \* ghost: how many messages of each socket the guard refused

tokenVars == <<expired, refused>>
serverVars == <<convs, messages, userSocketMap, rooms, outbox, screen, task, faults, scenario, tokenVars>>
dbVars == <<convs, messages>>

Ids == 1 .. Len(messages)
IdsOf(c) == {i \in Ids : messages[i].conv = c}
Free == {t \in Tasks : task[t] = Idle}
Online(s) == s \in userSocketMap[Owner[s]]
Peers(c, u) == Members[c] \ {u}

InRoom(c) == {s \in Sockets : c \in rooms[s]}

(***************************************************************************)
(* The listeners that the page puts on its socket (createChatSocket).      *)
(* They change what the page shows and nothing else, and packets come in   *)
(* the order of their emission, so each is heard as it is emitted; what a  *)
(* page that was left hears is shown nowhere.                              *)
(***************************************************************************)
Blank == [left |-> FALSE, shown |-> [c \in Convs |-> <<>>], typingUsers |-> {}, error |-> FALSE]
HeardBy(S, new) == screen' = [s \in Sockets |-> IF s \in S /\ ~screen[s].left THEN new[s] ELSE screen[s]]

\* Mutant of OnNewMessage: no look for a duplicate.
OnNewMessageAlways(S, c, i) ==
    HeardBy(S, [s \in Sockets |-> [screen[s] EXCEPT !.shown[c] = Append(@, [msg |-> i, hasId |-> TRUE])]])

OnNewMessage(S, c, i) ==
    LET new == [msg |-> i, hasId |-> TRUE]
        With(seq) == IF \E k \in DOMAIN seq : seq[k] = new THEN seq ELSE Append(seq, new)
    IN  HeardBy(S, [s \in Sockets |-> [screen[s] EXCEPT !.shown[c] = With(@)]])

OnRecentMessages(S, c, msgs) == HeardBy(S, [s \in Sockets |-> [screen[s] EXCEPT !.shown[c] = msgs]])

OnUserTyping(S, u, isTyping) ==
    HeardBy({s \in S : Owner[s] # u}, [s \in Sockets |-> [screen[s] EXCEPT !.typingUsers =
        IF isTyping THEN @ \cup {u} ELSE @ \ {u}]])

OnError(S) == HeardBy(S, [s \in Sockets |-> [screen[s] EXCEPT !.error = TRUE]])

\* The messages of a conversation by createdAt ascending, the first HistoryLimit of them.
Rank(i) == Cardinality({j \in IdsOf(messages[i].conv) : j <= i})
History(c) ==
    LET size == Cardinality(IdsOf(c))
    IN  [k \in 1 .. (IF size < HistoryLimit THEN size ELSE HistoryLimit) |->
            CHOOSE i \in IdsOf(c) : Rank(i) = k]

ServerInit ==
    /\ scenario \in Scenarios
    /\ convs = scenario.stored
    /\ messages = <<>>
    /\ userSocketMap = [u \in Users |-> {}]
    /\ rooms = [s \in Sockets |-> {}]
    /\ outbox = [s \in Sockets |-> <<>>]
    /\ screen = [s \in Sockets |-> Blank]
    /\ task = [t \in Tasks |-> Idle]
    /\ faults = 0
    /\ expired = {}
    /\ refused = [s \in Sockets |-> 0]

Begin(t, kind, s, c, step) ==
    task' = [task EXCEPT ![t] = [kind |-> kind, sock |-> s, live |-> TRUE, conv |-> c,
                                 step |-> step, history |-> <<>>, msg |-> 0]]
Resume(t, step) == task' = [task EXCEPT ![t].step = step]
Finish(t) == task' = [task EXCEPT ![t] = Idle]
At(t, step) == task[t] # Idle /\ task[t].step = step
Kind(t) == task[t].kind
Author(t) == Owner[task[t].sock]
\* The client a handler holds: a socket that reconnected is another client.
Client(t) == IF task[t].live THEN {task[t].sock} ELSE {}

(***************************************************************************)
(* Connections.  handleConnection has no await that leaves the microtask   *)
(* queue, so no disconnect comes in between.  It takes the socket into the *)
(* map only while the token is valid.                                      *)
(***************************************************************************)
HandleConnection(s) ==
    /\ ~Online(s) /\ s \notin expired
    /\ userSocketMap' = [userSocketMap EXCEPT ![Owner[s]] = @ \cup {s}]
    /\ UNCHANGED <<dbVars, rooms, outbox, screen, task, faults, scenario, tokenVars>>

\* Socket.IO leaves the rooms; packets under way in either direction are lost.
HandleDisconnect(s) ==
    /\ Online(s)
    /\ userSocketMap' = [userSocketMap EXCEPT ![Owner[s]] = @ \ {s}]
    /\ rooms' = [rooms EXCEPT ![s] = {}]
    /\ outbox' = [outbox EXCEPT ![s] = <<>>]
    /\ task' = [t \in Tasks |-> IF task[t] # Idle /\ task[t].sock = s /\ Kind(t) \in {"join", "send"}
                                THEN [task[t] EXCEPT !.live = FALSE] ELSE task[t]]
    /\ UNCHANGED <<dbVars, screen, faults, scenario, tokenVars>>

\* client.disconnect(): the client does not connect again by itself, and what it
\* had to send is gone.
ConnectionRefused(s) ==
    /\ ~Online(s) /\ s \in expired
    /\ outbox' = [outbox EXCEPT ![s] = <<>>]
    /\ UNCHANGED <<dbVars, userSocketMap, rooms, screen, task, faults, scenario, tokenVars>>

(***************************************************************************)
(* WsJwtGuard verifies the token again before each handler: this one is    *)
(* handed the packets of a socket whose token is still good.               *)
(***************************************************************************)
Receives(s, ev) == Online(s) /\ s \notin expired /\ outbox[s] # <<>> /\ Head(outbox[s]).ev = ev
Received(s) == outbox' = [outbox EXCEPT ![s] = Tail(@)]

\* Else no handler runs: the refusal is an 'exception' event, which the page does
\* not listen to.
RefusePacket(s) ==
    /\ Online(s) /\ s \in expired /\ outbox[s] # <<>>
    /\ Received(s)
    /\ refused' = IF Head(outbox[s]).ev = "sendMessage" THEN [refused EXCEPT ![s] = @ + 1] ELSE refused
    /\ UNCHANGED <<dbVars, userSocketMap, rooms, screen, task, faults, scenario, expired>>

(* handleJoinRoom, and getConversation of the controller *)
HandleJoinRoom(s, t) ==
    /\ Receives(s, "joinConversation")
    /\ t \in Free
    /\ Received(s)
    /\ Begin(t, "join", s, Head(outbox[s]).conv, "find")
    /\ UNCHANGED <<dbVars, userSocketMap, rooms, screen, faults, scenario, tokenVars>>

\* The controller answers only a participant; the gateway asks for none.
GetConversationMessages(t) ==
    /\ At(t, "find")
    /\ \/ /\ task[t].conv \in convs /\ Kind(t) = "join"
          /\ task' = [task EXCEPT ![t].step = "join", ![t].history = History(task[t].conv)]
          /\ UNCHANGED screen
       \/ /\ task[t].conv \in convs /\ Kind(t) = "get"
          /\ IF Author(t) \in Members[task[t].conv] THEN Resume(t, "markRead") ELSE Finish(t)
          /\ UNCHANGED screen
       \/ /\ task[t].conv \notin convs
          /\ OnError(IF Kind(t) = "join" THEN Client(t) ELSE {})
          /\ Finish(t)
    /\ UNCHANGED <<dbVars, userSocketMap, rooms, outbox, faults, scenario, tokenVars>>

\* join() of a client that has disconnected does nothing.
JoinRoom(t) ==
    /\ At(t, "join")
    /\ rooms' = [s \in Sockets |-> IF s \in Client(t) THEN rooms[s] \cup {task[t].conv} ELSE rooms[s]]
    /\ Resume(t, "recent")
    /\ UNCHANGED <<dbVars, userSocketMap, outbox, screen, faults, scenario, tokenVars>>

\* A message whose sender is not found is sent as the document, which has _id and no id.
EmitRecentMessages(t) ==
    /\ At(t, "recent")
    /\ \E raw \in SUBSET {task[t].history[k] : k \in DOMAIN task[t].history} :
          /\ raw # {} => faults < scenario.faults
          /\ faults' = IF raw = {} THEN faults ELSE faults + 1
          /\ OnRecentMessages(Client(t), task[t].conv,
                 [k \in DOMAIN task[t].history |->
                     [msg |-> task[t].history[k], hasId |-> task[t].history[k] \notin raw]])
    /\ Resume(t, "markRead")
    /\ UNCHANGED <<dbVars, userSocketMap, rooms, outbox, scenario, tokenVars>>

MarkMessagesAsRead(t) ==
    /\ At(t, "markRead")
    /\ messages' = [i \in Ids |->
            IF messages[i].conv = task[t].conv /\ messages[i].senderId # Author(t)
            THEN [messages[i] EXCEPT !.read = TRUE] ELSE messages[i]]
    /\ Finish(t)
    /\ UNCHANGED <<convs, userSocketMap, rooms, outbox, screen, faults, scenario, tokenVars>>

(* handleLeaveRoom *)
HandleLeaveRoom(s) ==
    /\ Receives(s, "leaveConversation")
    /\ Received(s)
    /\ rooms' = [rooms EXCEPT ![s] = @ \ {Head(outbox[s]).conv}]
    /\ UNCHANGED <<dbVars, userSocketMap, screen, task, faults, scenario, tokenVars>>

(* handleTyping *)
HandleTyping(s) ==
    /\ Receives(s, "typing")
    /\ Received(s)
    /\ OnUserTyping(InRoom(Head(outbox[s]).conv), Owner[s], Head(outbox[s]).isTyping)
    /\ UNCHANGED <<dbVars, userSocketMap, rooms, task, faults, scenario, tokenVars>>

(* handleSendMessage, and saveMessage for it and for the controller *)
HandleSendMessage(s, t) ==
    /\ Receives(s, "sendMessage")
    /\ t \in Free
    /\ Received(s)
    /\ Begin(t, "send", s, Head(outbox[s]).conv, "check")
    /\ UNCHANGED <<dbVars, userSocketMap, rooms, screen, faults, scenario, tokenVars>>

\* saveMessage refuses an unknown conversation and one the sender is not part of.
CheckConversation(t) ==
    /\ At(t, "check")
    /\ \/ /\ task[t].conv \in convs
          /\ Author(t) \in Members[task[t].conv]
          /\ Resume(t, "save")
          /\ UNCHANGED screen
       \/ /\ task[t].conv \notin convs \/ Author(t) \notin Members[task[t].conv]
          /\ OnError(IF Kind(t) = "send" THEN Client(t) ELSE {})
          /\ Finish(t)
    /\ UNCHANGED <<dbVars, userSocketMap, rooms, outbox, faults, scenario, tokenVars>>

\* Mutant of SaveMessage: the save is not awaited, and fails.
SaveMessageUnawaited(t) ==
    /\ At(t, "save")
    /\ IF Kind(t) = "send"
       THEN task' = [task EXCEPT ![t].step = "broadcast", ![t].msg = Len(messages) + 1]
       ELSE Finish(t)
    /\ UNCHANGED <<dbVars, userSocketMap, rooms, outbox, screen, faults, scenario, tokenVars>>

\* The controller's messages are saved and nobody is told.  lastMessageAt, written
\* just before, only orders the list of conversations.
SaveMessage(t) ==
    /\ At(t, "save")
    /\ messages' = Append(messages, [conv |-> task[t].conv, senderId |-> Author(t), read |-> FALSE])
    /\ IF Kind(t) = "send"
       THEN task' = [task EXCEPT ![t].step = "broadcast", ![t].msg = Len(messages) + 1]
       ELSE Finish(t)
    /\ UNCHANGED <<convs, userSocketMap, rooms, outbox, screen, faults, scenario, tokenVars>>

\* Mutant of BroadcastToRoom: client.to instead of server.to.
BroadcastToOthers(t) ==
    /\ At(t, "broadcast")
    /\ OnNewMessage(InRoom(task[t].conv) \ Client(t), task[t].conv, task[t].msg)
    /\ Resume(t, "notify")
    /\ UNCHANGED <<dbVars, userSocketMap, rooms, outbox, faults, scenario, tokenVars>>

\* After usersService.findOneById.
BroadcastToRoom(t) ==
    /\ At(t, "broadcast")
    /\ OnNewMessage(InRoom(task[t].conv), task[t].conv, task[t].msg)
    /\ Resume(t, "notify")
    /\ UNCHANGED <<dbVars, userSocketMap, rooms, outbox, faults, scenario, tokenVars>>

\* After getConversationById: the other user is told on every socket, unless one
\* of them is in the room by now.
NotifyUser(t) ==
    /\ At(t, "notify")
    /\ LET others == UNION {userSocketMap[u] : u \in Peers(task[t].conv, Author(t))}
       IN  OnNewMessage(IF others \cap InRoom(task[t].conv) # {} THEN {} ELSE others,
                        task[t].conv, task[t].msg)
    /\ Finish(t)
    /\ UNCHANGED <<dbVars, userSocketMap, rooms, outbox, faults, scenario, tokenVars>>

(***************************************************************************)
(* ChatController, for the user of socket s.  startConversation and        *)
(* createApplicationConversation find the conversation or create it; the   *)
(* latter saves the initial message, for a party of the application.       *)
(***************************************************************************)
Request(s, c, t, kind, step) ==
    /\ t \in Free
    /\ Begin(t, kind, s, c, step)
    /\ UNCHANGED <<dbVars, userSocketMap, rooms, outbox, screen, faults, scenario, tokenVars>>

StartConversation(s, c, t) == Owner[s] \in Members[c] /\ Request(s, c, t, "start", "findConv")
CreateApplicationConversation(s, c, t) ==
    Owner[s] \in Members[c] /\ Request(s, c, t, "application", "findConv")
CreateMessage(s, c, t) == Request(s, c, t, "post", "check")
GetConversation(s, c, t) == Request(s, c, t, "get", "find")

FindConversation(t) ==
    /\ At(t, "findConv")
    /\ IF task[t].conv \notin convs THEN Resume(t, "create")
       ELSE IF Kind(t) = "start" THEN Finish(t) ELSE Resume(t, "check")
    /\ UNCHANGED <<dbVars, userSocketMap, rooms, outbox, screen, faults, scenario, tokenVars>>

\* The unique index refuses a second document for the pair: that request fails.
CreateConversation(t) ==
    /\ At(t, "create")
    /\ \/ /\ task[t].conv \notin convs
          /\ convs' = convs \cup {task[t].conv}
          /\ IF Kind(t) = "start" THEN Finish(t) ELSE Resume(t, "check")
       \/ /\ task[t].conv \in convs
          /\ Finish(t)
          /\ UNCHANGED convs
    /\ UNCHANGED <<messages, userSocketMap, rooms, outbox, screen, faults, scenario, tokenVars>>

\* The conversations of the page's user, as getUserConversations finds them.
ConversationsOf(s) == {c \in convs : Owner[s] \in Members[c]}

\* Mutant of HandlerFails: nobody catches the exception.
HandlerFailsSilently(t) ==
    /\ faults < scenario.faults
    /\ task[t] # Idle /\ ~At(t, "recent")
    /\ faults' = faults + 1
    /\ Finish(t)
    /\ UNCHANGED <<dbVars, userSocketMap, rooms, outbox, screen, scenario, tokenVars>>

\* An await is rejected: a handler's catch tells its client, and is done.
HandlerFails(t) ==
    /\ faults < scenario.faults
    /\ task[t] # Idle /\ ~At(t, "recent")
    /\ faults' = faults + 1
    /\ OnError(IF Kind(t) \in {"join", "send"} THEN Client(t) ELSE {})
    /\ Finish(t)
    /\ UNCHANGED <<dbVars, userSocketMap, rooms, outbox, scenario, tokenVars>>

\* The continuations of the handlers that wait, each after its await.
TaskStep(t) ==
    \/ GetConversationMessages(t) \/ JoinRoom(t) \/ EmitRecentMessages(t) \/ MarkMessagesAsRead(t)
    \/ CheckConversation(t) \/ SaveMessage(t)
    \/ BroadcastToRoom(t) \/ NotifyUser(t)
    \/ FindConversation(t) \/ CreateConversation(t)
    \/ HandlerFails(t)

SocketStep(s) ==
    \/ HandleLeaveRoom(s) \/ HandleTyping(s) \/ RefusePacket(s)
    \/ \E t \in Tasks : HandleJoinRoom(s, t) \/ HandleSendMessage(s, t)
=============================================================================
