----------------------------- MODULE ChatProofs -----------------------------
(***************************************************************************)
(* Proofs about the chat page over the chat of the Nest backend, for any   *)
(* users, conversations, pages and waiting handlers, and any bounds.       *)
(***************************************************************************)
EXTENDS ChatPage, FiniteSetTheorems, SequenceTheorems, TLAPS

(***************************************************************************)
(* The inductive invariant, part by part.                                  *)
(***************************************************************************)
Packet == [ev : {"joinConversation", "leaveConversation", "sendMessage"}, conv : Convs]
          \cup [ev : {"typing"}, conv : Convs, isTyping : BOOLEAN]

Message == [conv : Convs, senderId : Users, read : BOOLEAN]

StepsOf(kind) ==
    CASE kind = "join" -> {"find", "join", "recent", "markRead"}
      [] kind = "send" -> {"check", "save", "broadcast", "notify"}
      [] kind = "start" -> {"findConv", "create"}
      [] kind = "application" -> {"findConv", "create", "check", "save"}
      [] kind = "post" -> {"check", "save"}
      [] kind = "get" -> {"find", "markRead"}

\* A handler's step fits its kind; the message it sends is stored, and so is
\* every message of the history it read, each once.
Fits(t) ==
    /\ task[t].step \in StepsOf(Kind(t))
    /\ Sending(t) => task[t].msg \in IdsOf(task[t].conv)
    /\ \A k \in DOMAIN task[t].history : task[t].history[k] \in IdsOf(task[t].conv)
    /\ \A k, l \in DOMAIN task[t].history : task[t].history[k] = task[t].history[l] => k = l

ServerOK ==
    /\ convs \subseteq Convs
    /\ messages \in Seq(Message)
    /\ userSocketMap \in [Users -> SUBSET Sockets]
    /\ rooms \in [Sockets -> SUBSET Convs]
    /\ outbox \in [Sockets -> Seq(Packet)]
    /\ faults \in Nat
TokensOK == expired \subseteq Sockets /\ refused \in [Sockets -> Nat]
TasksOK ==
    /\ task \in [Tasks -> Task \cup {Idle}]
    /\ \A t \in Tasks : task[t] # Idle => Fits(t)
ScreensOK == screen \in [Sockets -> Screen]
PagesOK == page \in [Sockets -> Page] /\ drops \in Nat /\ requests \in Nat
GhostsOK == told \subseteq Ids /\ raced \subseteq Sockets \X Ids
TypeInv == ServerOK /\ TokensOK /\ TasksOK /\ ScreensOK /\ PagesOK /\ GhostsOK

\* What did not happen yet: without a lost connection every handler has its
\* client and no page was left, without a request only gateway handlers wait.
CalmInv ==
    /\ drops = 0 => /\ \A t \in Tasks : task[t] # Idle => task[t].live = TRUE
                    /\ \A s \in Sockets : screen[s].left = FALSE
    /\ requests = 0 => \A t \in Tasks : task[t] # Idle => Kind(t) \in {"join", "send"}

\* The conversation on the screen will be joined by a packet, is being joined
\* by a handler, or is joined, with no packet on its way that leaves it.
Leaves(p, c) == p.ev = "leaveConversation" /\ p.conv = c
NoLeave(q, c) == \A l \in DOMAIN q : ~Leaves(q[l], c)
JoinIn(q, c) ==
    \E k \in DOMAIN q : /\ q[k].ev = "joinConversation" /\ q[k].conv = c
                        /\ \A l \in DOMAIN q : l > k => ~Leaves(q[l], c)
JoinTask(t, s, c) == /\ task[t] # Idle /\ task[t].step \in {"find", "join"}
                     /\ Kind(t) = "join" /\ task[t].sock = s /\ task[t].conv = c
Joined(s, c) ==
    \/ JoinIn(outbox[s], c)
    \/ /\ NoLeave(outbox[s], c)
       /\ c \in rooms[s] \/ \E t \in Tasks : JoinTask(t, s, c)
JoinInv ==
    /\ \A s \in Sockets : page[s].listed \subseteq convs /\ page[s].active \in convs \cup {NoConv}
    /\ drops = 0 /\ faults = 0 =>
          \A s \in Sockets \ expired : page[s].active # NoConv => Joined(s, page[s].active)

\* Every message a page sent was refused, or is in a packet, with a handler or stored,
\* unless the page's connection was refused.
SendsIn(q) == {k \in DOMAIN q : q[k].ev = "sendMessage"}
Posted(s) == SendsIn(outbox[s])
Pending(s) == {t \in Tasks : /\ task[t] # Idle /\ task[t].step \in {"check", "save"}
                             /\ Kind(t) = "send" /\ task[t].sock = s}
Stored(s) == {i \in Ids : messages[i].senderId = Owner[s]}
Counted(s) == /\ IsFiniteSet(Pending(s))
              /\ page[s].sent = refused[s] + Cardinality(Posted(s)) + Cardinality(Pending(s)) + Cardinality(Stored(s))
CutOff(s) == s \in expired /\ ~Online(s)
SentInv == drops = 0 /\ requests = 0 =>
               \A s \in Sockets : OnlyPage(s) => screen[s].error = TRUE \/ CutOff(s) \/ Counted(s)

\* The history a joining handler read lacks only messages that raced it.
InHistory(i, t) == \E k \in DOMAIN task[t].history : task[t].history[k] = i
JoinsAs(t, s, c) == Joining(t) /\ task[t].sock = s /\ task[t].conv = c
HistoryInv ==
    \A t \in Tasks, s \in Sockets, c \in Convs : JoinsAs(t, s, c) =>
        \A i \in told \cap IdsOf(c) :
            Rank(i) <= HistoryLimit => InHistory(i, t) \/ <<s, i>> \in raced

\* A page in a room shows what was broadcast, save what raced its joining, or
\* a handler is about to send it the history.
Answering(t, s, c) == At(t, "recent") /\ task[t].live = TRUE /\ task[t].sock = s /\ task[t].conv = c
RoomInv ==
    \A s \in Sockets, c \in Convs : c \in rooms[s] /\ screen[s].left = FALSE =>
        \/ \E t \in Tasks : Answering(t, s, c)
        \/ \A i \in told \cap IdsOf(c) :
               Rank(i) <= HistoryLimit => i \in IdsShown(s, c) \/ <<s, i>> \in raced

ChatInv == TypeInv /\ CalmInv /\ ShownOnce /\ JoinInv /\ SentInv /\ HistoryInv /\ RoomInv

(***************************************************************************)
(* Messages: what is stored stays, in its conversation and in its place.   *)
(***************************************************************************)
LEMMA SequenceFacts ==
    ASSUME NEW S, NEW n \in Nat, NEW f \in [1 .. n -> S]
    PROVE  f \in Seq(S) /\ Len(f) = n /\ DOMAIN f = 1 .. n
  <1>1. f \in Seq(S)
    BY SeqDef
  <1> QED BY <1>1, LenProperties

\* How the messages change in a step: more of them, or some of them read.
Kept == /\ messages' \in Seq(Message)
        /\ Len(messages) \in Nat /\ Len(messages)' \in Nat /\ Len(messages) <= Len(messages)'
        /\ \A i \in Ids : /\ messages'[i].conv = messages[i].conv
                          /\ messages'[i].senderId = messages[i].senderId

LEMMA NotStoring ==
    ASSUME ServerOK, UNCHANGED messages
    PROVE  Kept
  <1>1. messages \in Seq(Message) /\ Len(messages) \in Nat
    BY DEF ServerOK
  <1> QED BY <1>1 DEF Kept

LEMMA Storing ==
    ASSUME ServerOK, NEW x \in Message, messages' = Append(messages, x)
    PROVE  /\ Kept
           /\ Len(messages)' = Len(messages) + 1
           /\ messages'[Len(messages) + 1] = x
           /\ \A i \in Ids : messages'[i] = messages[i]
  <1>1. messages \in Seq(Message) /\ Len(messages) \in Nat
    BY DEF ServerOK
  <1> QED BY <1>1 DEF Kept, Ids

LEMMA Marking ==
    ASSUME ServerOK, NEW t \in Tasks, MarkMessagesAsRead(t)
    PROVE  Kept /\ Len(messages)' = Len(messages)
  <1>1. messages \in Seq(Message) /\ Len(messages) \in Nat
    BY DEF ServerOK
  <1> DEFINE Read(i) == IF messages[i].conv = task[t].conv /\ messages[i].senderId # Author(t)
                        THEN [messages[i] EXCEPT !.read = TRUE] ELSE messages[i]
  <1>2. ASSUME NEW i \in Ids
        PROVE  /\ Read(i) \in Message /\ Read(i).conv = messages[i].conv
               /\ Read(i).senderId = messages[i].senderId
    <2>1. messages[i] \in Message
      BY <1>1, <1>2 DEF Ids
    <2> QED BY <2>1 DEF Message
  <1> HIDE DEF Read
  <1>3. messages' = [i \in Ids |-> Read(i)]
    BY DEF MarkMessagesAsRead, Read
  <1>4. messages' \in [1 .. Len(messages) -> Message]
    BY <1>2, <1>3 DEF Ids
  <1>5. messages' \in Seq(Message) /\ Len(messages)' = Len(messages)
    BY <1>1, <1>4, SequenceFacts
  <1> QED BY <1>1, <1>2, <1>3, <1>5 DEF Kept

LEMMA Conversations ==
    ASSUME ServerOK, Kept
    PROVE  /\ Ids \subseteq Ids'
           /\ \A c : IdsOf(c) \subseteq IdsOf(c)'
           /\ \A c : \A i \in Ids : i \in IdsOf(c)' => i \in IdsOf(c)
           /\ \A i \in Ids : Rank(i)' = Rank(i)
  <1>1. Ids \subseteq Ids'
    BY DEF Kept, Ids
  <1>2. ASSUME NEW c, NEW i \in Ids PROVE i \in IdsOf(c)' <=> i \in IdsOf(c)
    BY <1>1, <1>2 DEF Kept, IdsOf
  <1>3. ASSUME NEW c PROVE IdsOf(c) \subseteq IdsOf(c)'
    BY <1>2 DEF IdsOf
  <1>4. ASSUME NEW i \in Ids PROVE Rank(i)' = Rank(i)
    <2>1. PICK c : c = messages[i].conv
      OBVIOUS
    <2>2. c = messages'[i].conv
      BY <1>4, <2>1 DEF Kept
    <2>3. \A j \in Ids' : j <= i => j \in Ids
      BY <1>4 DEF Kept, Ids
    <2>4. IdsOf(c) \subseteq Ids /\ IdsOf(c)' \subseteq Ids'
      BY DEF IdsOf
    <2>5. {j \in IdsOf(c)' : j <= i} = {j \in IdsOf(c) : j <= i}
      BY <1>2, <1>3, <2>3, <2>4
    <2>6. Rank(i) = Cardinality({j \in IdsOf(c) : j <= i})
      BY <2>1 DEF Rank
    <2>7. Rank(i)' = Cardinality({j \in IdsOf(c)' : j <= i})
      BY <2>2 DEF Rank
    <2> QED BY <2>5, <2>6, <2>7
  <1> QED BY <1>1, <1>2, <1>3, <1>4

(***************************************************************************)
(* The history of a conversation: its first messages, each once.           *)
(***************************************************************************)
LEMMA RankFacts ==
    ASSUME ServerOK, NEW c
    PROVE  /\ IsFiniteSet(IdsOf(c)) /\ Cardinality(IdsOf(c)) \in Nat
           /\ \A i \in IdsOf(c) : i \in Nat /\ Rank(i) \in 1 .. Cardinality(IdsOf(c))
           /\ \A i, j \in IdsOf(c) : i < j => Rank(i) < Rank(j)
  <1>1. Len(messages) \in Nat
    BY DEF ServerOK
  <1>2. IsFiniteSet(Ids) /\ IdsOf(c) \in SUBSET Ids
    BY <1>1, FS_Interval DEF Ids, IdsOf
  <1>3. IsFiniteSet(IdsOf(c)) /\ Cardinality(IdsOf(c)) \in Nat
    BY <1>2, FS_Subset, FS_CardinalityType
  <1> DEFINE Upto(i) == {j \in IdsOf(c) : j <= i}
  <1>4. ASSUME NEW i PROVE IsFiniteSet(Upto(i)) /\ Cardinality(Upto(i)) \in Nat
                           /\ Cardinality(Upto(i)) <= Cardinality(IdsOf(c))
    <2>1. Upto(i) \in SUBSET IdsOf(c)
      OBVIOUS
    <2> QED BY <1>3, <2>1, FS_Subset, FS_CardinalityType
  <1>5. ASSUME NEW i \in IdsOf(c) PROVE Rank(i) = Cardinality(Upto(i)) /\ i \in Nat /\ i \in Upto(i)
    <2>1. messages[i].conv = c /\ i \in Nat
      BY <1>1 DEF IdsOf, Ids
    <2> QED BY <2>1 DEF Rank
  <1>6. ASSUME NEW i \in IdsOf(c) PROVE Cardinality(Upto(i)) # 0
    <2>1. Upto(i) # {}
      BY <1>5
    <2> QED BY <1>4, <2>1, FS_EmptySet
  <1>7. ASSUME NEW i \in IdsOf(c), NEW j \in IdsOf(c), i < j
        PROVE  Cardinality(Upto(i)) < Cardinality(Upto(j))
    <2>1. \A k \in IdsOf(c) : k \in Nat
      BY <1>5
    <2>2. Upto(i) \in SUBSET Upto(j) /\ j \in Upto(j) /\ j \notin Upto(i)
      BY <1>7, <2>1
    <2>3. Upto(i) # Upto(j)
      BY <2>2
    <2>4. Cardinality(Upto(i)) <= Cardinality(Upto(j)) /\ Cardinality(Upto(i)) # Cardinality(Upto(j))
      BY <1>4, <2>2, <2>3, FS_Subset
    <2> QED BY <1>4, <2>4
  <1> HIDE DEF Upto
  <1>8. \A i \in IdsOf(c) : Rank(i) \in 1 .. Cardinality(IdsOf(c))
    BY <1>3, <1>4, <1>5, <1>6
  <1>9. \A i, j \in IdsOf(c) : i < j => Rank(i) < Rank(j)
    BY <1>5, <1>7
  <1> QED BY <1>3, <1>5, <1>8, <1>9

\* Every place up to the number of messages is taken.
LEMMA RankTaken ==
    ASSUME ServerOK, NEW c, NEW k \in 1 .. Cardinality(IdsOf(c))
    PROVE  \E i \in IdsOf(c) : Rank(i) = k
  <1> DEFINE S == IdsOf(c)
             T == 1 .. Cardinality(S)
             f == [i \in S |-> Rank(i)]
  <1>1. IsFiniteSet(S) /\ Cardinality(S) \in Nat
    BY RankFacts
  <1>2. IsFiniteSet(T) /\ Cardinality(T) = Cardinality(S)
    BY <1>1, FS_Interval
  <1>3. \A i, j \in S : i \in Nat /\ (Rank(i) = Rank(j) => i = j)
    <2>1. \A i \in S : i \in Nat /\ Rank(i) \in Nat
      BY RankFacts
    <2>2. \A i, j \in S : i < j => Rank(i) < Rank(j)
      BY RankFacts
    <2> QED BY <2>1, <2>2
  <1>4. f \in [S -> T]
    BY RankFacts
  <1>5. f \in Injection(S, T)
    BY <1>3, <1>4 DEF Injection, IsInjective
  <1>6. f \in Surjection(S, T)
    BY <1>2, <1>5, FS_Injection
  <1> QED BY <1>6 DEF Surjection

LEMMA HistoryFacts ==
    ASSUME ServerOK, NEW c
    PROVE  /\ History(c) \in Seq(Nat)
           /\ \A k \in DOMAIN History(c) : History(c)[k] \in IdsOf(c)
           /\ \A k, l \in DOMAIN History(c) : History(c)[k] = History(c)[l] => k = l
           /\ \A i \in IdsOf(c) : Rank(i) <= HistoryLimit => \E k \in DOMAIN History(c) : History(c)[k] = i
  <1> DEFINE size == Cardinality(IdsOf(c))
             n == IF size < HistoryLimit THEN size ELSE HistoryLimit
             At_(k) == CHOOSE i \in IdsOf(c) : Rank(i) = k
  <1>1. size \in Nat /\ HistoryLimit \in Nat
    BY RankFacts, ChatAssumption
  <1>2. n \in Nat /\ n <= size /\ (\A k \in Nat : k <= size /\ k <= HistoryLimit => k <= n)
    BY <1>1
  <1>3. History(c) = [k \in 1 .. n |-> At_(k)]
    BY DEF History
  <1>4. ASSUME NEW k \in 1 .. n PROVE At_(k) \in IdsOf(c) /\ Rank(At_(k)) = k
    <2>1. \E i \in IdsOf(c) : Rank(i) = k
      BY <1>1, <1>2, RankTaken
    <2> QED BY <2>1
  <1>5. \A i \in IdsOf(c) : i \in Nat /\ Rank(i) \in 1 .. size
    BY RankFacts
  <1>6. \A i, j \in IdsOf(c) : Rank(i) = Rank(j) => i = j
    <2>1. \A i, j \in IdsOf(c) : i < j => Rank(i) < Rank(j)
      BY RankFacts
    <2> QED BY <1>1, <1>5, <2>1
  <1> HIDE DEF n, At_, size
  <1>7. History(c) \in [1 .. n -> Nat]
    BY <1>3, <1>4, <1>5
  <1>8. History(c) \in Seq(Nat) /\ DOMAIN History(c) = 1 .. n
    BY <1>2, <1>7, SequenceFacts
  <1>9. \A k, l \in 1 .. n : History(c)[k] = History(c)[l] => k = l
    BY <1>3, <1>4
  <1>10. ASSUME NEW i \in IdsOf(c), Rank(i) <= HistoryLimit PROVE \E k \in 1 .. n : History(c)[k] = i
    <2>1. Rank(i) \in 1 .. n
      BY <1>1, <1>2, <1>5, <1>10
    <2>2. History(c)[Rank(i)] = i
      BY <1>3, <1>4, <1>6, <2>1
    <2> QED BY <2>1, <2>2
  <1> QED BY <1>3, <1>4, <1>8, <1>9, <1>10

(***************************************************************************)
(* How a step changes the handlers that wait.                              *)
(***************************************************************************)
Proper(x) ==
    /\ x.step \in StepsOf(x.kind)
    /\ x.step \in {"broadcast", "notify"} => x.msg \in IdsOf(x.conv)
    /\ \A k \in DOMAIN x.history : x.history[k] \in IdsOf(x.conv)
    /\ \A k, l \in DOMAIN x.history : x.history[k] = x.history[l] => k = l

LEMMA FitsIsProper ==
    ASSUME NEW t \in Tasks, task[t] # Idle
    PROVE  Fits(t) <=> Proper(task[t])
  BY DEF Fits, Proper, Sending, At, Kind

LEMMA StaysProper ==
    ASSUME ServerOK, Kept, NEW x, Proper(x)
    PROVE  Proper(x)'
  <1>1. \A c : IdsOf(c) \subseteq IdsOf(c)'
    BY Conversations
  <1> QED BY <1>1 DEF Proper

LEMMA TasksKept ==
    ASSUME ServerOK, TasksOK, Kept, UNCHANGED task
    PROVE  TasksOK'
  <1> SUFFICES ASSUME NEW t \in Tasks, task[t] # Idle PROVE Fits(t)'
    BY DEF TasksOK
  <1>1. PICK x : x = task[t]
    OBVIOUS
  <1>2. Proper(x)
    BY <1>1, FitsIsProper DEF TasksOK
  <1>3. Proper(x)' /\ task'[t] = x
    BY <1>1, <1>2, StaysProper
  <1> QED BY <1>3 DEF Fits, Proper, Sending, At, Kind

\* One handler starts, goes on or is done.
LEMMA TaskChanges ==
    ASSUME ServerOK, TasksOK, Kept, NEW t \in Tasks, NEW x \in Task \cup {Idle},
           x # Idle => Proper(x)', task' = [task EXCEPT ![t] = x]
    PROVE  TasksOK'
  <1>1. task' \in [Tasks -> Task \cup {Idle}] /\ task'[t] = x /\ \A u \in Tasks \ {t} : task'[u] = task[u]
    BY DEF TasksOK
  <1>2. ASSUME NEW u \in Tasks, task'[u] # Idle PROVE Fits(u)'
    <2>1. PICK y : y = task'[u]
      OBVIOUS
    <2>2. Proper(y)'
      <3>1. CASE u = t
        BY <1>1, <1>2, <2>1, <3>1
      <3>2. CASE u # t
        <4>1. y = task[u] /\ y # Idle
          BY <1>1, <1>2, <2>1, <3>2
        <4>2. Proper(y)
          BY <4>1, FitsIsProper DEF TasksOK
        <4> QED BY <4>2, StaysProper
      <3> QED BY <3>1, <3>2
    <2> QED BY <2>1, <2>2 DEF Fits, Proper, Sending, At, Kind
  <1> QED BY <1>1, <1>2 DEF TasksOK

LEMMA TaskBegins ==
    ASSUME ServerOK, TasksOK, Kept, NEW t \in Tasks, NEW kind \in Kinds, NEW s \in Sockets, NEW c \in Convs,
           NEW step \in StepsOf(kind) \cap Steps, step \notin {"broadcast", "notify"}, Begin(t, kind, s, c, step)
    PROVE  TasksOK' /\ task' = [task EXCEPT ![t] = [kind |-> kind, sock |-> s, live |-> TRUE, conv |-> c,
                                                    step |-> step, history |-> <<>>, msg |-> 0]]
  <1> DEFINE x == [kind |-> kind, sock |-> s, live |-> TRUE, conv |-> c,
                   step |-> step, history |-> <<>>, msg |-> 0]
  <1>1. task' = [task EXCEPT ![t] = x]
    BY DEF Begin
  <1>2. x \in Task
    BY DEF Task
  <1>3. x.step = step /\ x.kind = kind /\ DOMAIN x.history = {}
    OBVIOUS
  <1> HIDE DEF x
  <1>4. Proper(x)'
    BY <1>3 DEF Proper
  <1>5. TasksOK'
    BY <1>1, <1>2, <1>4, TaskChanges
  <1> QED BY <1>1, <1>5 DEF x

LEMMA TaskResumes ==
    ASSUME ServerOK, TasksOK, Kept, NEW t \in Tasks, task[t] # Idle, NEW step \in StepsOf(Kind(t)) \cap Steps,
           step \in {"broadcast", "notify"} => Sending(t), Resume(t, step)
    PROVE  /\ TasksOK'
           /\ \E x \in Task : /\ task' = [task EXCEPT ![t] = x]
                              /\ x.step = step /\ x.kind = task[t].kind /\ x.sock = task[t].sock
                              /\ x.live = task[t].live /\ x.conv = task[t].conv
                              /\ x.history = task[t].history /\ x.msg = task[t].msg
  <1>1. PICK y \in Task : y = task[t]
    BY DEF TasksOK
  <1> DEFINE x == [y EXCEPT !.step = step]
  <1>2. x \in Task
    BY DEF Task
  <1>3. /\ x.step = step /\ x.kind = y.kind /\ x.sock = y.sock /\ x.live = y.live /\ x.conv = y.conv
        /\ x.history = y.history /\ x.msg = y.msg
    BY DEF Task
  <1>4. task' = [task EXCEPT ![t] = x]
    BY <1>1 DEF Resume
  <1> HIDE DEF x
  <1>5. Proper(x)
    <2>1. Fits(t)
      BY DEF TasksOK
    <2> QED BY <1>1, <1>3, <2>1 DEF Fits, Proper, Kind
  <1>6. Proper(x)'
    BY <1>5, StaysProper
  <1>7. TasksOK'
    BY <1>2, <1>4, <1>6, TaskChanges
  <1> QED BY <1>1, <1>2, <1>3, <1>4, <1>7

LEMMA TaskFinishes ==
    ASSUME ServerOK, TasksOK, Kept, NEW t \in Tasks, Finish(t)
    PROVE  TasksOK' /\ task' = [task EXCEPT ![t] = Idle]
  BY TaskChanges DEF Finish

LEMMA TaskHasStep ==
    ASSUME TasksOK, NEW t \in Tasks, task[t] # Idle
    PROVE  /\ task[t] \in Task /\ Kind(t) \in Kinds /\ task[t].sock \in Sockets /\ task[t].conv \in Convs
           /\ task[t].live \in BOOLEAN /\ task[t].step \in StepsOf(Kind(t)) /\ Author(t) \in Users
           /\ (Sending(t) => task[t].msg \in IdsOf(task[t].conv))
  BY ChatAssumption DEF TasksOK, Fits, Task, Kind, Author

(***************************************************************************)
(* How a step changes what the pages show.                                 *)
(***************************************************************************)
\* Nothing but errors and who is typing; an error stays.
SameMessages ==
    \A s \in Sockets : /\ screen'[s].left = screen[s].left
                       /\ screen'[s].shown = screen[s].shown
                       /\ screen[s].error = TRUE => screen'[s].error = TRUE

LEMMA ScreenFacts ==
    ASSUME ScreensOK, NEW s \in Sockets
    PROVE  /\ screen[s] \in Screen /\ screen[s].left \in BOOLEAN /\ screen[s].error \in BOOLEAN
           /\ \A c \in Convs : screen[s].shown[c] \in Seq(Entry)
  BY DEF ScreensOK, Screen

LEMMA ScreenKept ==
    ASSUME ScreensOK, UNCHANGED screen
    PROVE  ScreensOK' /\ SameMessages
  BY DEF ScreensOK, SameMessages

LEMMA HearsError ==
    ASSUME ScreensOK, NEW S, OnError(S)
    PROVE  /\ ScreensOK' /\ SameMessages
           /\ \A s \in Sockets : s \in S /\ screen[s].left = FALSE => screen'[s].error = TRUE
  <1> DEFINE new(s) == [screen[s] EXCEPT !.error = TRUE]
  <1>1. ASSUME NEW s \in Sockets
        PROVE  /\ new(s) \in Screen /\ new(s).left = screen[s].left /\ new(s).shown = screen[s].shown
               /\ new(s).error = TRUE /\ screen[s] \in Screen /\ screen[s].left \in BOOLEAN
    BY ScreenFacts DEF Screen
  <1>2. screen' = [s \in Sockets |-> IF s \in S /\ ~screen[s].left THEN new(s) ELSE screen[s]]
    BY DEF OnError, HeardBy
  <1> HIDE DEF new
  <1>3. ScreensOK'
    BY <1>1, <1>2 DEF ScreensOK
  <1>4. SameMessages
    BY <1>1, <1>2 DEF SameMessages
  <1> QED BY <1>1, <1>2, <1>3, <1>4

LEMMA HearsTyping ==
    ASSUME ScreensOK, NEW S, NEW u \in Users, NEW b \in BOOLEAN, OnUserTyping(S, u, b)
    PROVE  ScreensOK' /\ SameMessages
  <1> DEFINE new(s) == [screen[s] EXCEPT !.typingUsers = IF b THEN @ \cup {u} ELSE @ \ {u}]
  <1>1. ASSUME NEW s \in Sockets
        PROVE  /\ new(s) \in Screen /\ new(s).left = screen[s].left /\ new(s).shown = screen[s].shown
               /\ new(s).error = screen[s].error /\ screen[s] \in Screen
    BY ScreenFacts DEF Screen
  <1>2. PICK T : screen' = [s \in Sockets |-> IF s \in T /\ ~screen[s].left THEN new(s) ELSE screen[s]]
    BY DEF OnUserTyping, HeardBy
  <1> HIDE DEF new
  <1>3. ScreensOK'
    BY <1>1, <1>2 DEF ScreensOK
  <1>4. SameMessages
    BY <1>1, <1>2 DEF SameMessages
  <1> QED BY <1>3, <1>4

\* A message is heard: it comes last, unless it is there.
Full(i) == [msg |-> i, hasId |-> TRUE]
Hears(s, c, i) ==
    \A d \in Convs :
        \/ screen'[s].shown[d] = screen[s].shown[d]
        \/ /\ d = c /\ screen'[s].shown[d] = Append(screen[s].shown[d], Full(i))
           /\ \A k \in DOMAIN screen[s].shown[d] : screen[s].shown[d][k] # Full(i)

LEMMA HearsMessage ==
    ASSUME ScreensOK, NEW S, NEW c \in Convs, NEW i \in Nat, OnNewMessage(S, c, i)
    PROVE  /\ ScreensOK'
           /\ \A s \in Sockets :
                 /\ screen'[s].left = screen[s].left /\ screen'[s].error = screen[s].error
                 /\ Hears(s, c, i)
                 /\ s \in S /\ screen[s].left = FALSE => i \in IdsShown(s, c)'
  <1> DEFINE With(seq) == IF \E k \in DOMAIN seq : seq[k] = Full(i) THEN seq ELSE Append(seq, Full(i))
             new(s) == [screen[s] EXCEPT !.shown[c] = With(@)]
  <1>1. Full(i) \in Entry /\ Full(i).msg = i
    BY DEF Full, Entry
  <1>2. ASSUME NEW seq \in Seq(Entry)
        PROVE  /\ With(seq) \in Seq(Entry)
               /\ \E k \in DOMAIN With(seq) : With(seq)[k].msg = i
               /\ \/ With(seq) = seq
                  \/ With(seq) = Append(seq, Full(i)) /\ \A k \in DOMAIN seq : seq[k] # Full(i)
    <2>1. CASE \E k \in DOMAIN seq : seq[k] = Full(i)
      BY <1>1, <2>1
    <2>2. CASE ~ \E k \in DOMAIN seq : seq[k] = Full(i)
      <3>1. Append(seq, Full(i)) \in Seq(Entry) /\ Len(seq) \in Nat
            /\ Len(Append(seq, Full(i))) = Len(seq) + 1 /\ Append(seq, Full(i))[Len(seq) + 1] = Full(i)
        BY <1>1
      <3>2. Len(seq) + 1 \in DOMAIN Append(seq, Full(i))
        BY <3>1, LenProperties
      <3> QED BY <1>1, <2>2, <3>1, <3>2
    <2> QED BY <2>1, <2>2
  <1> HIDE DEF With
  <1>3. ASSUME NEW s \in Sockets
        PROVE  /\ new(s) \in Screen /\ new(s).left = screen[s].left /\ new(s).error = screen[s].error
               /\ new(s).shown[c] = With(screen[s].shown[c])
               /\ \A d \in Convs \ {c} : new(s).shown[d] = screen[s].shown[d]
               /\ screen[s] \in Screen
    <2>1. PICK x \in Screen : x = screen[s]
      BY ScreenFacts
    <2>2. x.shown \in [Convs -> Seq(Entry)] /\ With(x.shown[c]) \in Seq(Entry)
      BY <1>2, <2>1 DEF Screen
    <2>3. PICK f \in [Convs -> Seq(Entry)] : f = [x.shown EXCEPT ![c] = With(@)]
      BY <2>2
    <2>4. new(s) = [x EXCEPT !.shown = f]
      BY <2>1, <2>3
    <2>5. f[c] = With(x.shown[c]) /\ \A d \in Convs \ {c} : f[d] = x.shown[d]
      BY <2>2, <2>3
    <2>6. /\ [x EXCEPT !.shown = f] \in Screen /\ [x EXCEPT !.shown = f].left = x.left
          /\ [x EXCEPT !.shown = f].error = x.error /\ [x EXCEPT !.shown = f].shown = f
      BY <2>3 DEF Screen
    <2> HIDE DEF new
    <2> QED BY <2>1, <2>4, <2>5, <2>6
  <1>4. screen' = [s \in Sockets |-> IF s \in S /\ ~screen[s].left THEN new(s) ELSE screen[s]]
    BY DEF OnNewMessage, HeardBy, Full, With
  <1> HIDE DEF new
  <1>5. ScreensOK'
    BY <1>3, <1>4 DEF ScreensOK
  <1>6. ASSUME NEW s \in Sockets
        PROVE  /\ screen'[s].left = screen[s].left /\ screen'[s].error = screen[s].error
               /\ Hears(s, c, i)
               /\ s \in S /\ screen[s].left = FALSE => i \in IdsShown(s, c)'
    <2>1. CASE s \in S /\ screen[s].left = FALSE
      <3>1. screen'[s] = new(s)
        BY <1>4, <2>1
      <3>2. PICK seq \in Seq(Entry) : seq = screen[s].shown[c]
        BY ScreenFacts
      <3>3. screen'[s].shown[c] = With(seq)
        BY <1>3, <3>1, <3>2
      <3>4. i \in IdsShown(s, c)'
        <4>1. PICK k \in DOMAIN With(seq) : With(seq)[k].msg = i
          BY <1>2
        <4> QED BY <3>3, <4>1 DEF IdsShown
      <3>5. Hears(s, c, i)
        <4>1. \A d \in Convs \ {c} : screen'[s].shown[d] = screen[s].shown[d]
          BY <1>3, <3>1
        <4> QED BY <1>2, <3>2, <3>3, <4>1 DEF Hears
      <3> QED BY <1>3, <3>1, <3>4, <3>5
    <2>2. CASE ~(s \in S /\ screen[s].left = FALSE)
      <3>1. screen'[s] = screen[s]
        BY <1>4, <2>2, ScreenFacts
      <3> QED BY <2>2, <3>1 DEF Hears
    <2> QED BY <2>1, <2>2
  <1> QED BY <1>5, <1>6

\* The history is heard: it takes the place of what was shown.
LEMMA HearsHistory ==
    ASSUME ScreensOK, NEW S, NEW c \in Convs, NEW msgs \in Seq(Entry), OnRecentMessages(S, c, msgs)
    PROVE  /\ ScreensOK'
           /\ \A s \in Sockets :
                  /\ screen'[s].left = screen[s].left /\ screen'[s].error = screen[s].error
                  /\ \A d \in Convs \ {c} : screen'[s].shown[d] = screen[s].shown[d]
                  /\ s \in S /\ screen[s].left = FALSE => screen'[s].shown[c] = msgs
                  /\ ~(s \in S /\ screen[s].left = FALSE) => screen'[s] = screen[s]
  <1> DEFINE new(s) == [screen[s] EXCEPT !.shown[c] = msgs]
  <1>1. ASSUME NEW s \in Sockets
        PROVE  /\ new(s) \in Screen /\ new(s).left = screen[s].left /\ new(s).error = screen[s].error
               /\ new(s).shown[c] = msgs
               /\ \A d \in Convs \ {c} : new(s).shown[d] = screen[s].shown[d]
               /\ screen[s] \in Screen /\ screen[s].left \in BOOLEAN
    <2>1. PICK x \in Screen : x = screen[s]
      BY ScreenFacts
    <2>2. x.shown \in [Convs -> Seq(Entry)]
      BY DEF Screen
    <2>3. PICK f \in [Convs -> Seq(Entry)] : f = [x.shown EXCEPT ![c] = msgs]
      BY <2>2
    <2>4. new(s) = [x EXCEPT !.shown = f]
      BY <2>1, <2>3
    <2>5. f[c] = msgs /\ \A d \in Convs \ {c} : f[d] = x.shown[d]
      BY <2>2, <2>3
    <2>6. /\ [x EXCEPT !.shown = f] \in Screen /\ [x EXCEPT !.shown = f].left = x.left
          /\ [x EXCEPT !.shown = f].error = x.error /\ [x EXCEPT !.shown = f].shown = f
      BY <2>3 DEF Screen
    <2> HIDE DEF new
    <2> QED BY <2>1, <2>4, <2>5, <2>6, ScreenFacts
  <1>2. screen' = [s \in Sockets |-> IF s \in S /\ ~screen[s].left THEN new(s) ELSE screen[s]]
    BY DEF OnRecentMessages, HeardBy
  <1> HIDE DEF new
  <1>3. ScreensOK'
    BY <1>1, <1>2 DEF ScreensOK
  <1> QED BY <1>1, <1>2, <1>3

(***************************************************************************)
(* Packets.                                                                *)
(***************************************************************************)
LEMMA Emits ==
    ASSUME ServerOK, NEW s \in Sockets, NEW events \in Seq(Packet), Emit(s, events)
    PROVE  /\ outbox' \in [Sockets -> Seq(Packet)]
           /\ outbox'[s] = outbox[s] \o events
           /\ \A r \in Sockets \ {s} : outbox'[r] = outbox[r]
  <1>1. outbox \in [Sockets -> Seq(Packet)]
    BY DEF ServerOK
  <1>2. outbox[s] \in Seq(Packet)
    BY <1>1
  <1>3. outbox[s] \o events \in Seq(Packet)
    BY <1>2, ConcatProperties
  <1> QED BY <1>1, <1>3 DEF Emit

LEMMA Receives_ ==
    ASSUME ServerOK, NEW s \in Sockets, outbox[s] # <<>>, Received(s)
    PROVE  /\ outbox' \in [Sockets -> Seq(Packet)]
           /\ outbox'[s] = Tail(outbox[s]) /\ Head(outbox[s]) \in Packet
           /\ Head(outbox[s]) = outbox[s][1] /\ Len(outbox[s]) \in Nat \ {0}
           /\ \A r \in Sockets \ {s} : outbox'[r] = outbox[r]
  <1>1. outbox \in [Sockets -> Seq(Packet)]
    BY DEF ServerOK
  <1>2. outbox[s] \in Seq(Packet)
    BY <1>1
  <1>3. Tail(outbox[s]) \in Seq(Packet) /\ Head(outbox[s]) \in Packet
    BY <1>2, HeadTailProperties
  <1>4. Head(outbox[s]) = outbox[s][1]
    BY <1>2
  <1>5. Len(outbox[s]) \in Nat \ {0}
    BY <1>2, EmptySeq
  <1> QED BY <1>1, <1>3, <1>4, <1>5 DEF Received

LEMMA PacketFacts ==
    ASSUME NEW p \in Packet
    PROVE  p.conv \in Convs /\ (p.ev = "typing" => p.isTyping \in BOOLEAN)
  BY DEF Packet

(***************************************************************************)
(* Types.                                                                  *)
(***************************************************************************)
Sound == ServerOK /\ TasksOK /\ ScreensOK /\ PagesOK

LEMMA SoundFacts ==
    ASSUME Sound
    PROVE  /\ ServerOK /\ TasksOK /\ ScreensOK /\ PagesOK
           /\ messages \in Seq(Message) /\ Len(messages) \in Nat
           /\ \A t \in Tasks : t \in Free <=> task[t] = Idle
           /\ \A s \in Sockets : /\ Owner[s] \in Users /\ outbox[s] \in Seq(Packet)
                                 /\ rooms[s] \subseteq Convs /\ page[s] \in Page
  BY ChatAssumption DEF Sound, ServerOK, Free, PagesOK

LEMMA SocketStepSound ==
    ASSUME Sound, NEW s \in Sockets, SocketStep(s), UNCHANGED <<page, bounds>>
    PROVE  Sound' /\ Kept
  <1>1. UNCHANGED <<convs, messages, userSocketMap, faults, page, drops, requests>> /\ Received(s) /\ outbox[s] # <<>>
    BY DEF SocketStep, HandleLeaveRoom, HandleTyping, RefusePacket, HandleJoinRoom, HandleSendMessage, dbVars, bounds, Receives
  <1>2. Kept /\ ServerOK /\ TasksOK /\ ScreensOK
    BY <1>1, NotStoring, SoundFacts
  <1>3. outbox' \in [Sockets -> Seq(Packet)] /\ Head(outbox[s]) \in Packet
    BY <1>1, <1>2, Receives_
  <1>4. PagesOK'
    BY <1>1 DEF Sound, PagesOK
  <1>5. PICK c \in Convs : c = Head(outbox[s]).conv
    BY <1>3, PacketFacts
  <1>6. CASE HandleLeaveRoom(s)
    <2>1. UNCHANGED <<task, screen>> /\ rooms' \in [Sockets -> SUBSET Convs]
      BY <1>2, <1>6 DEF HandleLeaveRoom, ServerOK
    <2>2. TasksOK' /\ ScreensOK'
      BY <1>2, <2>1, TasksKept, ScreenKept
    <2>3. ServerOK'
      BY <1>1, <1>2, <1>3, <2>1 DEF ServerOK, Kept
    <2> QED BY <1>2, <1>4, <2>2, <2>3 DEF Sound
  <1>7. CASE HandleTyping(s)
    <2>1. UNCHANGED <<task, rooms>>
      BY <1>7 DEF HandleTyping
    <2>2. Head(outbox[s]).isTyping \in BOOLEAN /\ Owner[s] \in Users
      BY <1>3, <1>7, PacketFacts, SoundFacts DEF HandleTyping, Receives
    <2>3. PICK b \in BOOLEAN : b = Head(outbox[s]).isTyping
      BY <2>2
    <2>4. PICK S : S = InRoom(Head(outbox[s]).conv)
      OBVIOUS
    <2>5. OnUserTyping(S, Owner[s], b)
      BY <1>7, <2>3, <2>4 DEF HandleTyping
    <2>6. TasksOK' /\ ScreensOK'
      BY <1>2, <2>1, <2>2, <2>5, TasksKept, HearsTyping
    <2>7. ServerOK'
      BY <1>1, <1>2, <1>3, <2>1 DEF ServerOK, Kept
    <2> QED BY <1>2, <1>4, <2>6, <2>7 DEF Sound
  <1>8. ASSUME NEW t \in Tasks, HandleJoinRoom(s, t) \/ HandleSendMessage(s, t) PROVE Sound' /\ Kept
    <2>1. /\ UNCHANGED <<rooms, screen>>
          /\ Begin(t, "join", s, c, "find") \/ Begin(t, "send", s, c, "check")
      BY <1>5, <1>8 DEF HandleJoinRoom, HandleSendMessage
    <2>2. "join" \in Kinds /\ "send" \in Kinds /\ "find" \in StepsOf("join") \cap Steps /\ "check" \in StepsOf("send") \cap Steps
      BY DEF Kinds, Steps, StepsOf
    <2>3. TasksOK' /\ ScreensOK'
      BY <1>2, <2>1, <2>2, TaskBegins, ScreenKept
    <2>4. ServerOK'
      BY <1>1, <1>2, <1>3, <2>1 DEF ServerOK, Kept
    <2> QED BY <1>2, <1>4, <2>3, <2>4 DEF Sound
  <1>9. CASE RefusePacket(s)
    <2>1. UNCHANGED <<task, screen, rooms>>
      BY <1>9 DEF RefusePacket
    <2>2. TasksOK' /\ ScreensOK'
      BY <1>2, <2>1, TasksKept, ScreenKept
    <2>3. ServerOK'
      BY <1>1, <1>2, <1>3, <2>1 DEF ServerOK, Kept
    <2> QED BY <1>2, <1>4, <2>2, <2>3 DEF Sound
  <1> QED BY <1>6, <1>7, <1>8, <1>9 DEF SocketStep

\* What no step of a handler touches.
LEMMA TaskStepFrame ==
    ASSUME NEW t \in Tasks, TaskStep(t), UNCHANGED <<page, bounds>>
    PROVE  /\ UNCHANGED <<userSocketMap, outbox, page, drops, requests>> /\ task[t] # Idle
           /\ rooms' = rooms \/ JoinRoom(t)
           /\ convs' = convs \/ CreateConversation(t)
           /\ messages' = messages \/ SaveMessage(t) \/ MarkMessagesAsRead(t)
           /\ faults' = faults \/ faults' = faults + 1
  BY DEF TaskStep, GetConversationMessages, JoinRoom, EmitRecentMessages, MarkMessagesAsRead, CheckConversation,
         SaveMessage, BroadcastToRoom, NotifyUser, FindConversation, CreateConversation, HandlerFails,
         At, dbVars, bounds

LEMMA SaveFacts ==
    ASSUME Sound, NEW t \in Tasks, SaveMessage(t)
    PROVE  /\ Kept /\ Len(messages)' = Len(messages) + 1
           /\ messages'[Len(messages) + 1].senderId = Author(t)
           /\ \A c : c = task[t].conv => Len(messages) + 1 \in IdsOf(c)'
           /\ \A i \in Ids : messages'[i] = messages[i]
  <1>1. PICK x \in Message : x = [conv |-> task[t].conv, senderId |-> Author(t), read |-> FALSE]
    BY TaskHasStep, SoundFacts DEF SaveMessage, At, Message
  <1>2. messages' = Append(messages, x) /\ x.conv = task[t].conv /\ x.senderId = Author(t)
    BY <1>1 DEF SaveMessage
  <1>3. /\ Kept /\ Len(messages)' = Len(messages) + 1 /\ messages'[Len(messages) + 1] = x
        /\ \A i \in Ids : messages'[i] = messages[i]
    BY <1>2, Storing, SoundFacts
  <1>4. task[t].conv \in Convs
    BY TaskHasStep, SoundFacts DEF SaveMessage, At
  <1>5. ASSUME NEW c, c = task[t].conv PROVE Len(messages) + 1 \in IdsOf(c)'
    BY <1>2, <1>3, <1>5, SoundFacts DEF IdsOf, Ids
  <1> QED BY <1>2, <1>3, <1>5

LEMMA TaskStepKept ==
    ASSUME Sound, NEW t \in Tasks, TaskStep(t), UNCHANGED <<page, bounds>>
    PROVE  Kept
  BY TaskStepFrame, SoundFacts, SaveFacts, Marking, NotStoring

LEMMA TaskStepTasks ==
    ASSUME Sound, NEW t \in Tasks, TaskStep(t), Kept
    PROVE  TasksOK'
  <1>1. ServerOK /\ TasksOK /\ task[t] # Idle
    BY SoundFacts DEF TaskStep, GetConversationMessages, JoinRoom, EmitRecentMessages, MarkMessagesAsRead,
         CheckConversation, SaveMessage, BroadcastToRoom, NotifyUser, FindConversation, CreateConversation,
         HandlerFails, At
  <1>2. ASSUME Finish(t) PROVE TasksOK'
    BY <1>1, <1>2, TaskFinishes
  <1>3. ASSUME NEW step, Resume(t, step), step \in StepsOf(Kind(t)) \cap Steps,
               step \in {"broadcast", "notify"} => Sending(t)
        PROVE  TasksOK'
    BY <1>1, <1>3, TaskResumes
  <1>4. Kind(t) \in Kinds /\ task[t].step \in StepsOf(Kind(t))
    BY <1>1, TaskHasStep
  <1>5. CASE GetConversationMessages(t)
    <2>1. CASE /\ Kind(t) = "join"
               /\ task' = [task EXCEPT ![t].step = "join", ![t].history = History(task[t].conv)]
      <3>1. PICK y \in Task : y = task[t]
        BY <1>1 DEF TasksOK
      <3>2. PICK h : h = History(y.conv)
        OBVIOUS
      <3>3. /\ h \in Seq(Nat)
            /\ \A k \in DOMAIN h : h[k] \in IdsOf(y.conv)
            /\ \A k, l \in DOMAIN h : h[k] = h[l] => k = l
        BY <1>1, <3>2, HistoryFacts
      <3> DEFINE x == [y EXCEPT !.step = "join", !.history = h]
      <3>4. x \in Task /\ x.step = "join" /\ x.kind = y.kind /\ x.conv = y.conv /\ x.history = h
        BY <3>3 DEF Task, Steps
      <3>5. task' = [task EXCEPT ![t] = x]
        BY <2>1, <3>1, <3>2
      <3> HIDE DEF x
      <3>6. Proper(x)
        BY <2>1, <3>1, <3>3, <3>4 DEF Proper, StepsOf, Kind
      <3>7. Proper(x)'
        BY <1>1, <3>6, StaysProper
      <3> QED BY <1>1, <3>4, <3>5, <3>7, TaskChanges
    <2>2. CASE Kind(t) = "get" /\ Resume(t, "markRead")
      <3>1. "markRead" \in StepsOf(Kind(t)) \cap Steps
        BY <2>2 DEF StepsOf, Steps
      <3> QED BY <1>3, <2>2, <3>1
    <2> QED BY <1>2, <1>5, <2>1, <2>2 DEF GetConversationMessages
  <1>6. CASE JoinRoom(t)
    <2>1. "recent" \in StepsOf(Kind(t)) \cap Steps
      BY <1>4, <1>6 DEF StepsOf, Steps, JoinRoom, At, Kinds
    <2> QED BY <1>3, <1>6, <2>1 DEF JoinRoom
  <1>7. CASE EmitRecentMessages(t)
    <2>1. "markRead" \in StepsOf(Kind(t)) \cap Steps
      BY <1>4, <1>7 DEF StepsOf, Steps, EmitRecentMessages, At, Kinds
    <2> QED BY <1>3, <1>7, <2>1 DEF EmitRecentMessages
  <1>8. CASE CheckConversation(t)
    <2>1. "save" \in StepsOf(Kind(t)) \cap Steps
      BY <1>4, <1>8 DEF StepsOf, Steps, CheckConversation, At, Kinds
    <2> QED BY <1>2, <1>3, <1>8, <2>1 DEF CheckConversation
  <1>9. CASE SaveMessage(t)
    <2>1. CASE Kind(t) = "send"
      <3>1. PICK y \in Task : y = task[t]
        BY <1>1 DEF TasksOK
      <3>2. PICK i \in Nat : i = Len(messages) + 1
        BY SoundFacts
      <3> DEFINE x == [y EXCEPT !.step = "broadcast", !.msg = i]
      <3>3. x \in Task /\ x.step = "broadcast" /\ x.kind = y.kind /\ x.conv = y.conv /\ x.history = y.history /\ x.msg = i
        BY DEF Task, Steps
      <3>4. task' = [task EXCEPT ![t] = x]
        BY <1>9, <2>1, <3>1, <3>2 DEF SaveMessage
      <3> HIDE DEF x
      <3>5. Proper(y)
        BY <1>1, <3>1, FitsIsProper DEF TasksOK
      <3>6. Proper(y)'
        BY <1>1, <3>5, StaysProper
      <3>7. i \in IdsOf(y.conv)'
        BY <1>9, <3>1, <3>2, SaveFacts
      <3>8. y.kind = "send"
        BY <2>1, <3>1 DEF Kind
      <3>9. Proper(x)'
        BY <3>3, <3>6, <3>7, <3>8 DEF Proper, StepsOf
      <3> QED BY <1>1, <3>3, <3>4, <3>9, TaskChanges
    <2> QED BY <1>2, <1>9, <2>1 DEF SaveMessage
  <1>10. CASE BroadcastToRoom(t)
    <2>1. "notify" \in StepsOf(Kind(t)) \cap Steps
      BY <1>4, <1>10 DEF StepsOf, Steps, BroadcastToRoom, At, Kinds
    <2> QED BY <1>3, <1>10, <2>1 DEF BroadcastToRoom, Sending
  <1>11. CASE FindConversation(t)
    <2>1. "create" \in StepsOf(Kind(t)) \cap Steps /\ (Kind(t) # "start" => "check" \in StepsOf(Kind(t)) \cap Steps)
      BY <1>4, <1>11 DEF StepsOf, Steps, FindConversation, At, Kinds
    <2> QED BY <1>2, <1>3, <1>11, <2>1 DEF FindConversation
  <1>12. CASE CreateConversation(t)
    <2>1. Kind(t) # "start" => "check" \in StepsOf(Kind(t)) \cap Steps
      BY <1>4, <1>12 DEF StepsOf, Steps, CreateConversation, At, Kinds
    <2> QED BY <1>2, <1>3, <1>12, <2>1 DEF CreateConversation
  <1>13. CASE MarkMessagesAsRead(t) \/ NotifyUser(t) \/ HandlerFails(t)
    BY <1>2, <1>13 DEF MarkMessagesAsRead, NotifyUser, HandlerFails
  <1> QED BY <1>5, <1>6, <1>7, <1>8, <1>9, <1>10, <1>11, <1>12, <1>13 DEF TaskStep

\* What a handler's step changes of the pages: nothing of the messages shown, a
\* new message, or the history.
Told(t) == /\ Sending(t)
           /\ \A s \in Sockets : /\ screen'[s].left = screen[s].left /\ screen'[s].error = screen[s].error
                                 /\ Hears(s, task[t].conv, task[t].msg)
Answered(t) ==
    \A s \in Sockets :
        /\ screen'[s].left = screen[s].left /\ screen'[s].error = screen[s].error
        /\ \A c \in Convs \ {task[t].conv} : screen'[s].shown[c] = screen[s].shown[c]
        /\ ~(s \in Client(t) /\ screen[s].left = FALSE) => screen'[s] = screen[s]
        /\ s \in Client(t) /\ screen[s].left = FALSE =>
              LET shown == screen'[s].shown[task[t].conv]
              IN  /\ DOMAIN shown = DOMAIN task[t].history
                  /\ \A k \in DOMAIN shown : shown[k].msg = task[t].history[k]

LEMMA AnswerFacts ==
    ASSUME Sound, NEW t \in Tasks, EmitRecentMessages(t)
    PROVE  ScreensOK' /\ Answered(t)
  <1>1. PICK y \in Task : y = task[t]
    BY SoundFacts DEF EmitRecentMessages, At, TasksOK
  <1>2. PICK raw : OnRecentMessages(Client(t), task[t].conv,
                 [k \in DOMAIN task[t].history |->
                     [msg |-> task[t].history[k], hasId |-> task[t].history[k] \notin raw]])
    BY DEF EmitRecentMessages
  <1>3. PICK h \in Seq(Nat) : h = y.history
    BY DEF Task
  <1> DEFINE msgs == [k \in DOMAIN h |-> [msg |-> h[k], hasId |-> h[k] \notin raw]]
  <1>4. DOMAIN h = 1 .. Len(h) /\ Len(h) \in Nat /\ \A k \in DOMAIN h : h[k] \in Nat
    BY LenProperties
  <1>5. msgs \in [1 .. Len(h) -> Entry] /\ DOMAIN msgs = DOMAIN h /\ \A k \in DOMAIN h : msgs[k].msg = h[k]
    BY <1>4 DEF Entry
  <1>6. msgs \in Seq(Entry)
    BY <1>4, <1>5, SequenceFacts
  <1>7. OnRecentMessages(Client(t), y.conv, msgs)
    BY <1>1, <1>2, <1>3
  <1> HIDE DEF msgs
  <1>8. PICK S : S = Client(t)
    OBVIOUS
  <1>9. /\ ScreensOK'
        /\ \A s \in Sockets :
              /\ screen'[s].left = screen[s].left /\ screen'[s].error = screen[s].error
              /\ \A d \in Convs \ {y.conv} : screen'[s].shown[d] = screen[s].shown[d]
              /\ s \in S /\ screen[s].left = FALSE => screen'[s].shown[y.conv] = msgs
              /\ ~(s \in S /\ screen[s].left = FALSE) => screen'[s] = screen[s]
    <2>1. y.conv \in Convs /\ ScreensOK /\ OnRecentMessages(S, y.conv, msgs)
      BY <1>7, <1>8, SoundFacts DEF Task
    <2> QED BY <1>6, <2>1, HearsHistory
  <1> QED BY <1>1, <1>3, <1>5, <1>8, <1>9 DEF Answered

LEMMA BroadcastFacts ==
    ASSUME Sound, NEW t \in Tasks, BroadcastToRoom(t)
    PROVE  /\ ScreensOK' /\ Told(t)
           /\ \A s \in Sockets, c \in Convs, i \in Nat :
                 (c = task[t].conv /\ i = task[t].msg /\ c \in rooms[s] /\ screen[s].left = FALSE)
                 => i \in IdsShown(s, c)'
  <1>1. task[t] # Idle /\ Sending(t)
    BY DEF BroadcastToRoom, At, Sending
  <1>2. PICK c \in Convs : c = task[t].conv
    BY <1>1, TaskHasStep, SoundFacts
  <1>3. PICK i \in Nat : i = task[t].msg
    BY <1>1, TaskHasStep, SoundFacts DEF IdsOf, Ids
  <1>4. PICK S : S = InRoom(c)
    OBVIOUS
  <1>5. OnNewMessage(S, c, i) /\ ScreensOK
    BY <1>2, <1>3, <1>4, SoundFacts DEF BroadcastToRoom
  <1>6. /\ ScreensOK'
        /\ \A s \in Sockets :
              /\ screen'[s].left = screen[s].left /\ screen'[s].error = screen[s].error
              /\ Hears(s, c, i)
              /\ s \in S /\ screen[s].left = FALSE => i \in IdsShown(s, c)'
    BY <1>5, HearsMessage
  <1>7. Told(t)
    BY <1>1, <1>2, <1>3, <1>6 DEF Told, Hears, Full
  <1>8. \A s \in Sockets : c \in rooms[s] => s \in S
    BY <1>4 DEF InRoom
  <1>9. \A s \in Sockets : c \in rooms[s] /\ screen[s].left = FALSE => i \in IdsShown(s, c)'
    BY <1>6, <1>8
  <1>10. \A s \in Sockets, d \in Convs, j \in Nat : d = c /\ j = i /\ d \in rooms[s] /\ screen[s].left = FALSE => j \in IdsShown(s, d)'
    BY <1>9
  <1> QED BY <1>2, <1>3, <1>6, <1>7, <1>10

LEMMA NotifyFacts ==
    ASSUME Sound, NEW t \in Tasks, NotifyUser(t)
    PROVE  ScreensOK' /\ Told(t)
  <1>1. task[t] # Idle /\ Sending(t)
    BY DEF NotifyUser, At, Sending
  <1>2. PICK c \in Convs : c = task[t].conv
    BY <1>1, TaskHasStep, SoundFacts
  <1>3. PICK i \in Nat : i = task[t].msg
    BY <1>1, TaskHasStep, SoundFacts DEF IdsOf, Ids
  <1>4. PICK S : OnNewMessage(S, c, i) /\ ScreensOK
    BY <1>2, <1>3, SoundFacts DEF NotifyUser
  <1>5. /\ ScreensOK'
        /\ \A s \in Sockets :
              /\ screen'[s].left = screen[s].left /\ screen'[s].error = screen[s].error
              /\ Hears(s, c, i)
    BY <1>4, HearsMessage
  <1> QED BY <1>1, <1>2, <1>3, <1>5 DEF Told, Hears, Full

\* Every other step of a handler shows an error at most.
LEMMA OtherTaskScreens ==
    ASSUME Sound, NEW t \in Tasks, TaskStep(t),
           ~EmitRecentMessages(t), ~BroadcastToRoom(t), ~NotifyUser(t)
    PROVE  ScreensOK' /\ SameMessages
  <1>1. ScreensOK
    BY SoundFacts
  <1>2. (UNCHANGED screen) \/ \E S : OnError(S)
    BY DEF TaskStep, GetConversationMessages, JoinRoom, MarkMessagesAsRead, CheckConversation,
         SaveMessage, FindConversation, CreateConversation, HandlerFails
  <1> QED BY <1>1, <1>2, HearsError, ScreenKept

LEMMA TaskStepSound ==
    ASSUME Sound, NEW t \in Tasks, TaskStep(t), UNCHANGED <<page, bounds>>
    PROVE  Sound' /\ Kept
  <1>1. Kept /\ TasksOK'
    BY TaskStepKept, TaskStepTasks
  <1>2. ScreensOK'
    BY AnswerFacts, BroadcastFacts, NotifyFacts, OtherTaskScreens
  <1>3. PagesOK'
    BY TaskStepFrame DEF Sound, PagesOK
  <1>4. convs' \subseteq Convs
    BY TaskStepFrame, TaskHasStep, SoundFacts DEF CreateConversation, ServerOK
  <1>5. rooms' \in [Sockets -> SUBSET Convs]
    <2>1. task[t].conv \in Convs /\ rooms \in [Sockets -> SUBSET Convs]
      BY TaskStepFrame, TaskHasStep, SoundFacts DEF ServerOK
    <2> QED BY <2>1, TaskStepFrame DEF JoinRoom
  <1>6. ServerOK'
    BY <1>1, <1>4, <1>5, TaskStepFrame, SoundFacts DEF ServerOK, Kept
  <1> QED BY <1>1, <1>2, <1>3, <1>6 DEF Sound

(***************************************************************************)
(* The pages.                                                              *)
(***************************************************************************)
\* A page goes on with p; the others do not change.
LEMMA PageChanges ==
    ASSUME Sound, NEW s \in Sockets, NEW p \in Page, page' = [page EXCEPT ![s] = p]
    PROVE  /\ page' \in [Sockets -> Page] /\ page'[s] = p
           /\ \A r \in Sockets \ {s} : page'[r] = page[r]
  BY DEF Sound, PagesOK

\* Pages that show the same conversation and list, and sent as much.
SamePage(r) == /\ page'[r].active = page[r].active /\ page'[r].listed = page[r].listed
               /\ page'[r].sent = page[r].sent

LEMMA PageAlters ==
    ASSUME Sound, NEW s \in Sockets, NEW p \in Page, page' = [page EXCEPT ![s] = p],
           p.active = page[s].active, p.listed = page[s].listed, p.sent = page[s].sent
    PROVE  page' \in [Sockets -> Page] /\ \A r \in Sockets : SamePage(r)
  BY PageChanges DEF SamePage

\* The steps of a page that change neither its conversation, nor its list, nor what it sent.
Minor(s) == \/ FetchUserAndConnect(s) \/ HandleApplicationChat(s) \/ Connect(s) \/ ConnectInVain(s)
            \/ TokenExpires(s) \/ Disconnect(s)
            \/ FetchFails(s) \/ HandleTypingText(s) \/ TypingTimeout(s) \/ HttpRequest(s)

LEMMA MinorPages ==
    ASSUME Sound, NEW s \in Sockets, Minor(s)
    PROVE  page' \in [Sockets -> Page] /\ \A r \in Sockets : SamePage(r)
  <1>1. PICK q \in Page : q = page[s]
    BY SoundFacts
  <1>2. PICK a \in Convs \cup {NoConv} : a = q.active
    BY DEF Page
  <1>3. CASE page' = page
    BY <1>3 DEF Sound, PagesOK, SamePage
  <1>4. CASE FetchUserAndConnect(s)
    <2> DEFINE p == [q EXCEPT !.loaded = TRUE, !.fetching = TRUE]
    <2>1. p \in Page /\ p.active = q.active /\ p.listed = q.listed /\ p.sent = q.sent
      BY DEF Page
    <2>2. page' = [page EXCEPT ![s] = p]
      BY <1>1, <1>4 DEF FetchUserAndConnect
    <2> HIDE DEF p
    <2> QED BY <1>1, <2>1, <2>2, PageAlters
  <1>5. CASE HandleApplicationChat(s)
    <2> DEFINE p == [q EXCEPT !.loaded = TRUE]
    <2>1. p \in Page /\ p.active = q.active /\ p.listed = q.listed /\ p.sent = q.sent
      BY DEF Page
    <2>2. page' = [page EXCEPT ![s] = p]
      BY <1>1, <1>5 DEF HandleApplicationChat
    <2> HIDE DEF p
    <2> QED BY <1>1, <2>1, <2>2, PageAlters
  <1>6. CASE Connect(s) \/ ConnectInVain(s)
    <2> DEFINE p == [q EXCEPT !.fetching = TRUE]
    <2>1. p \in Page /\ p.active = q.active /\ p.listed = q.listed /\ p.sent = q.sent
      BY DEF Page
    <2>2. page' = page \/ page' = [page EXCEPT ![s] = p]
      BY <1>1, <1>6 DEF Connect, ConnectInVain
    <2> HIDE DEF p
    <2> QED BY <1>1, <1>3, <2>1, <2>2, PageAlters
  <1>7. CASE FetchFails(s)
    <2> DEFINE p == [q EXCEPT !.fetching = FALSE]
    <2>1. p \in Page /\ p.active = q.active /\ p.listed = q.listed /\ p.sent = q.sent
      BY DEF Page
    <2>2. page' = [page EXCEPT ![s] = p]
      BY <1>1, <1>7 DEF FetchFails
    <2> HIDE DEF p
    <2> QED BY <1>1, <2>1, <2>2, PageAlters
  <1>8. CASE HandleTypingText(s)
    <2>1. PICK text \in BOOLEAN : Act(s, [page[s] EXCEPT !.draft = text, !.isTyping = TRUE, !.timer = page[s].active])
      BY <1>8 DEF HandleTypingText
    <2> DEFINE y == [q EXCEPT !.draft = text, !.isTyping = TRUE, !.timer = a]
               p == [y EXCEPT !.acts = @ + 1]
    <2>0. y \in Page /\ y.active = q.active /\ y.listed = q.listed /\ y.sent = q.sent
      BY <1>2 DEF Page
    <2>2. p \in Page /\ p.active = q.active /\ p.listed = q.listed /\ p.sent = q.sent
      <3> HIDE DEF y
      <3> QED BY <2>0 DEF Page
    <2>3. page' = [page EXCEPT ![s] = p]
      BY <1>1, <1>2, <2>1 DEF Act
    <2> HIDE DEF p
    <2> QED BY <1>1, <2>2, <2>3, PageAlters
  <1>9. CASE TypingTimeout(s)
    <2> DEFINE p == [q EXCEPT !.isTyping = FALSE, !.timer = NoConv]
    <2>1. p \in Page /\ p.active = q.active /\ p.listed = q.listed /\ p.sent = q.sent
      BY DEF Page
    <2>2. page' = [page EXCEPT ![s] = p]
      BY <1>1, <1>9 DEF TypingTimeout
    <2> HIDE DEF p
    <2> QED BY <1>1, <2>1, <2>2, PageAlters
  <1>10. CASE Disconnect(s) \/ HttpRequest(s) \/ TokenExpires(s)
    BY <1>3, <1>10 DEF Disconnect, HttpRequest, TokenExpires
  <1> QED BY <1>4, <1>5, <1>6, <1>7, <1>8, <1>9, <1>10 DEF Minor

LEMMA UnmountPage ==
    ASSUME Sound, NEW s \in Sockets, Unmount(s)
    PROVE  /\ page' \in [Sockets -> Page] /\ page'[s].active = NoConv /\ page'[s].listed = {}
           /\ \A r \in Sockets \ {s} : page'[r] = page[r]
  <1>1. PICK q \in Page : q = page[s]
    BY SoundFacts
  <1> DEFINE p == [Closed EXCEPT !.loaded = TRUE, !.timer = q.timer]
  <1>2. p \in Page /\ p.active = NoConv /\ p.listed = {}
    BY DEF Page, Closed
  <1>3. page' = [page EXCEPT ![s] = p]
    BY <1>1 DEF Unmount
  <1> HIDE DEF p
  <1> QED BY <1>2, <1>3, PageChanges

LEMMA ListPage ==
    ASSUME Sound, NEW s \in Sockets, SetConversations(s)
    PROVE  /\ page' \in [Sockets -> Page] /\ page'[s].active = page[s].active /\ page'[s].sent = page[s].sent
           /\ page'[s].listed \subseteq convs
           /\ \A r \in Sockets \ {s} : page'[r] = page[r]
  <1>1. PICK q \in Page : q = page[s]
    BY SoundFacts
  <1>2. PICK C \in SUBSET Convs : C = ConversationsOf(s) /\ C \subseteq convs
    BY DEF Sound, ServerOK, ConversationsOf
  <1> DEFINE p == [q EXCEPT !.listed = C, !.fetching = FALSE]
  <1>3. p \in Page /\ p.active = q.active /\ p.listed = C /\ p.sent = q.sent
    BY DEF Page
  <1>4. page' = [page EXCEPT ![s] = p]
    BY <1>1, <1>2 DEF SetConversations
  <1> HIDE DEF p
  <1> QED BY <1>1, <1>2, <1>3, <1>4, PageChanges

LEMMA JoinPage ==
    ASSUME Sound, NEW s \in Sockets, NEW c \in page[s].listed,
           Act(s, [page[s] EXCEPT !.active = c, !.isTyping = FALSE, !.timer = NoConv])
    PROVE  /\ c \in Convs /\ page' \in [Sockets -> Page]
           /\ page'[s].active = c /\ page'[s].listed = page[s].listed /\ page'[s].sent = page[s].sent
           /\ \A r \in Sockets \ {s} : page'[r] = page[r]
  <1>1. PICK q \in Page : q = page[s]
    BY SoundFacts
  <1>2. c \in Convs
    BY <1>1 DEF Page
  <1> DEFINE y == [q EXCEPT !.active = c, !.isTyping = FALSE, !.timer = NoConv]
             p == [y EXCEPT !.acts = @ + 1]
  <1>0. y \in Page /\ y.active = c /\ y.listed = q.listed /\ y.sent = q.sent
    BY <1>2 DEF Page
  <1>3. p \in Page /\ p.active = c /\ p.listed = q.listed /\ p.sent = q.sent
    <2> HIDE DEF y
    <2> QED BY <1>0 DEF Page
  <1>4. page' = [page EXCEPT ![s] = p]
    BY <1>1 DEF Act
  <1> HIDE DEF p
  <1> QED BY <1>1, <1>2, <1>3, <1>4, PageChanges

LEMMA SendPage ==
    ASSUME Sound, NEW s \in Sockets, SendMessage(s)
    PROVE  /\ page' \in [Sockets -> Page] /\ page[s].active \in Convs /\ page[s].sent \in Nat
           /\ page'[s].active = page[s].active /\ page'[s].listed = page[s].listed /\ page'[s].sent = page[s].sent + 1
           /\ \A r \in Sockets \ {s} : page'[r] = page[r]
  <1>1. PICK q \in Page : q = page[s]
    BY SoundFacts
  <1>5. PICK n \in Nat : n = q.sent
    BY DEF Page
  <1>6. n + 1 \in Nat
    OBVIOUS
  <1> DEFINE y == [q EXCEPT !.draft = FALSE, !.isTyping = FALSE, !.timer = NoConv, !.sent = n + 1]
             p == [y EXCEPT !.acts = @ + 1]
  <1>0. y \in Page /\ y.active = q.active /\ y.listed = q.listed /\ y.sent = q.sent + 1 /\ q.sent \in Nat
    BY <1>5, <1>6 DEF Page
  <1>2. p \in Page /\ p.active = q.active /\ p.listed = q.listed /\ p.sent = q.sent + 1 /\ q.sent \in Nat
    <2> HIDE DEF y
    <2> QED BY <1>0 DEF Page
  <1>3. page' = [page EXCEPT ![s] = p]
    BY <1>1, <1>5 DEF SendMessage, Act
  <1>4. q.active \in Convs
    BY <1>1 DEF SendMessage, Page
  <1> HIDE DEF p
  <1> QED BY <1>1, <1>2, <1>3, <1>4, PageChanges

LEMMA JoinPackets ==
    ASSUME NEW a \in Convs \cup {NoConv}, NEW c \in Convs, NEW events, events = Leave(a) \o Join(c)
    PROVE  /\ events \in Seq(Packet) /\ Len(events) \in {1, 2}
           /\ events[Len(events)] = [ev |-> "joinConversation", conv |-> c]
           /\ SendsIn(events) = {}
  <1> DEFINE l == [ev |-> "leaveConversation", conv |-> a]
             j == [ev |-> "joinConversation", conv |-> c]
  <1>1. j \in Packet /\ (a # NoConv => l \in Packet) /\ l.ev = "leaveConversation" /\ j.ev = "joinConversation"
    BY DEF Packet
  <1> HIDE DEF l, j
  <1>2. CASE a = NoConv
    <2>1. events = <<>> \o <<j>>
      BY <1>2 DEF Leave, Join, j
    <2>2. events = <<j>>
      BY <1>1, <2>1
    <2>3. SendsIn(events) = {}
      BY <1>1, <2>2 DEF SendsIn
    <2> QED BY <1>1, <2>2, <2>3 DEF j
  <1>3. CASE a # NoConv
    <2>1. events = <<l>> \o <<j>>
      BY <1>3 DEF Leave, Join, j, l
    <2>2. <<l>> \in Seq(Packet) /\ <<j>> \in Seq(Packet) /\ Len(<<l>>) = 1 /\ Len(<<j>>) = 1
          /\ <<l>>[1] = l /\ <<j>>[1] = j
      BY <1>1, <1>3
    <2>3. events \in Seq(Packet) /\ Len(events) = 2 /\ events[1] = l /\ events[2] = j
      BY <2>1, <2>2, ConcatProperties
    <2>4. SendsIn(events) = {}
      BY <1>1, <2>3 DEF SendsIn
    <2> QED BY <1>1, <2>3, <2>4 DEF j
  <1> QED BY <1>2, <1>3

\* What a page emits when its text changes, is sent, or has not changed for a while.
LEMMA TypingPackets ==
    ASSUME NEW c \in Convs, NEW b \in BOOLEAN
    PROVE  /\ <<>> \in Seq(Packet) /\ Len(<<>>) = 0
           /\ <<Typing(c, b)>> \in Seq(Packet) /\ Len(<<Typing(c, b)>>) = 1
           /\ <<Typing(c, b)>>[1].ev = "typing"
  <1>1. Typing(c, b) \in Packet /\ Typing(c, b).ev = "typing"
    BY DEF Typing, Packet
  <1> QED BY <1>1

LEMMA SendPackets ==
    ASSUME NEW c \in Convs, NEW events,
           events = <<[ev |-> "sendMessage", conv |-> c], Typing(c, FALSE)>>
    PROVE  /\ events \in Seq(Packet) /\ Len(events) = 2
           /\ events[1].ev = "sendMessage" /\ events[2].ev = "typing"
  <1> DEFINE m == [ev |-> "sendMessage", conv |-> c]
  <1>1. Typing(c, FALSE) \in Packet /\ Typing(c, FALSE).ev = "typing" /\ m \in Packet /\ m.ev = "sendMessage"
    BY DEF Typing, Packet
  <1>2. events = <<m, Typing(c, FALSE)>>
    OBVIOUS
  <1> HIDE DEF m
  <1>3. PICK y \in Packet : y = Typing(c, FALSE)
    BY <1>1
  <1>4. events = <<m, y>> /\ y.ev = "typing"
    BY <1>1, <1>2, <1>3
  <1>5. <<m, y>> \in Seq(Packet) /\ Len(<<m, y>>) = 2 /\ <<m, y>>[1] = m /\ <<m, y>>[2] = y
    BY <1>1
  <1> QED BY <1>1, <1>4, <1>5

\* A lost connection: handlers of the socket lose their client, nothing else.
LEMMA DisconnectTasks ==
    ASSUME Sound, NEW s \in Sockets, HandleDisconnect(s)
    PROVE  /\ TasksOK'
           /\ \A t \in Tasks :
                 /\ task'[t] = Idle <=> task[t] = Idle
                 /\ task[t] # Idle =>
                       /\ task'[t].kind = task[t].kind /\ task'[t].step = task[t].step
                       /\ task'[t].sock = task[t].sock /\ task'[t].conv = task[t].conv
                       /\ task'[t].msg = task[t].msg /\ task'[t].history = task[t].history
                       /\ task'[t].live = IF task[t].sock = s /\ Kind(t) \in {"join", "send"} THEN FALSE ELSE task[t].live
  <1> DEFINE dead(x) == [x EXCEPT !.live = FALSE]
  <1>1. ASSUME NEW x \in Task
        PROVE  /\ dead(x) \in Task /\ dead(x).kind = x.kind /\ dead(x).step = x.step /\ dead(x).sock = x.sock
               /\ dead(x).conv = x.conv /\ dead(x).msg = x.msg /\ dead(x).history = x.history /\ dead(x).live = FALSE
    BY DEF Task
  <1>2. task' = [t \in Tasks |-> IF task[t] # Idle /\ task[t].sock = s /\ Kind(t) \in {"join", "send"}
                                 THEN dead(task[t]) ELSE task[t]]
    BY DEF HandleDisconnect
  <1> HIDE DEF dead
  <1>3. \A t \in Tasks : task[t] \in Task \cup {Idle}
    BY DEF Sound, TasksOK
  <1>4. ASSUME NEW t \in Tasks
        PROVE /\ task'[t] \in Task \cup {Idle} /\ (task'[t] = Idle <=> task[t] = Idle)
              /\ task[t] # Idle =>
                    /\ task'[t].kind = task[t].kind /\ task'[t].step = task[t].step
                    /\ task'[t].sock = task[t].sock /\ task'[t].conv = task[t].conv
                    /\ task'[t].msg = task[t].msg /\ task'[t].history = task[t].history
                    /\ task'[t].live = IF task[t].sock = s /\ Kind(t) \in {"join", "send"} THEN FALSE ELSE task[t].live
    <2>1. PICK x \in Task \cup {Idle} : x = task[t]
      BY <1>3
    <2>2. Kind(t) = x.kind
      BY <2>1 DEF Kind
    <2> QED BY <1>1, <1>2, <2>1, <2>2, IdleAssumption
  <1>5. task' \in [Tasks -> Task \cup {Idle}]
    <2>1. DOMAIN task' = Tasks
      BY <1>2
    <2> QED BY <1>2, <1>4, <2>1
  <1>6. ASSUME NEW t \in Tasks, task'[t] # Idle PROVE Fits(t)'
    <2>1. UNCHANGED messages
      BY DEF HandleDisconnect, dbVars
    <2>2. Fits(t) /\ task[t] # Idle
      BY <1>4, <1>6 DEF Sound, TasksOK
    <2> QED BY <1>4, <2>1, <2>2 DEF Fits, Sending, At, Kind, IdsOf, Ids
  <1> QED BY <1>4, <1>5, <1>6 DEF TasksOK

\* A request of the controller starts a handler of its own.
Asks(s, t) == \E c \in Convs : \/ StartConversation(s, c, t) \/ CreateApplicationConversation(s, c, t)
                               \/ CreateMessage(s, c, t) \/ GetConversation(s, c, t)

LEMMA AskFacts ==
    ASSUME Sound, NEW s \in Sockets, NEW t \in Tasks, Asks(s, t)
    PROVE  /\ TasksOK' /\ Kept /\ t \in Free
           /\ UNCHANGED <<dbVars, userSocketMap, rooms, outbox, screen, faults, scenario, tokenVars>>
           /\ \E x \in Task : /\ task' = [task EXCEPT ![t] = x] /\ x.sock = s /\ x.live = TRUE
                              /\ <<x.kind, x.step>> \in {<<"start", "findConv">>, <<"application", "findConv">>,
                                                        <<"post", "check">>, <<"get", "find">>}
  <1>1. PICK c \in Convs, kind \in {"start", "application", "post", "get"}, step \in {"findConv", "check", "find"} :
            /\ Begin(t, kind, s, c, step)
            /\ <<kind, step>> \in {<<"start", "findConv">>, <<"application", "findConv">>,
                                    <<"post", "check">>, <<"get", "find">>}
    BY DEF Asks, StartConversation, CreateApplicationConversation, CreateMessage, GetConversation, Request
  <1>2. t \in Free /\ UNCHANGED <<dbVars, userSocketMap, rooms, outbox, screen, faults, scenario, tokenVars>>
    BY DEF Asks, StartConversation, CreateApplicationConversation, CreateMessage, GetConversation, Request
  <1>3. Kept
    BY <1>2, NotStoring, SoundFacts DEF dbVars
  <1>4. kind \in Kinds /\ step \in StepsOf(kind) \cap Steps /\ step \notin {"broadcast", "notify"}
    BY <1>1 DEF Kinds, Steps, StepsOf
  <1> DEFINE x == [kind |-> kind, sock |-> s, live |-> TRUE, conv |-> c,
                   step |-> step, history |-> <<>>, msg |-> 0]
  <1>5. TasksOK' /\ task' = [task EXCEPT ![t] = x]
    BY <1>1, <1>3, <1>4, TaskBegins, SoundFacts
  <1>6. x \in Task /\ x.sock = s /\ x.live = TRUE /\ x.kind = kind /\ x.step = step
    BY <1>4 DEF Task
  <1> HIDE DEF x
  <1> QED BY <1>1, <1>2, <1>3, <1>5, <1>6

LEMMA ServerKept ==
    ASSUME Sound, Kept, UNCHANGED <<convs, messages, userSocketMap, rooms, outbox>>, faults' \in Nat
    PROVE  ServerOK'
  BY SoundFacts DEF ServerOK, Kept

LEMMA EmitSound ==
    ASSUME Sound, NEW s \in Sockets, NEW events \in Seq(Packet), Emit(s, events), NotServer,
           page' \in [Sockets -> Page]
    PROVE  Sound' /\ Kept
  <1>1. ServerOK /\ TasksOK /\ ScreensOK
    BY SoundFacts
  <1>2. UNCHANGED <<convs, messages, userSocketMap, rooms, screen, task, faults, drops, requests>>
    BY DEF NotServer, dbVars, bounds
  <1>3. Kept /\ outbox' \in [Sockets -> Seq(Packet)]
    BY <1>1, <1>2, NotStoring, Emits
  <1>4. ServerOK'
    BY <1>1, <1>2, <1>3 DEF ServerOK
  <1>5. TasksOK' /\ ScreensOK'
    BY <1>1, <1>2, <1>3, TasksKept, ScreenKept
  <1>6. PagesOK'
    BY <1>2 DEF Sound, PagesOK
  <1> QED BY <1>3, <1>4, <1>5, <1>6 DEF Sound

LEMMA PageStepSound ==
    ASSUME Sound, NEW s \in Sockets, PageStep(s)
    PROVE  Sound' /\ Kept
  <1>1. ServerOK /\ TasksOK /\ ScreensOK /\ PagesOK /\ faults \in Nat /\ drops \in Nat /\ requests \in Nat
    BY SoundFacts DEF ServerOK, PagesOK
  <1>2. UNCHANGED messages
    BY DEF PageStep, FetchUserAndConnect, HandleApplicationChat, Connect, ConnectInVain, TokenExpires, Disconnect, Unmount, SetConversations,
         FetchFails, JoinConversation, HandleTypingText, SendMessage, TypingTimeout, HttpRequest, NotServer,
         StartConversation, CreateApplicationConversation, CreateMessage, GetConversation, Request,
         HandleConnection, ConnectionRefused, HandleDisconnect, serverVars, dbVars
  <1>3. Kept
    BY <1>1, <1>2, NotStoring
  <1>4. drops' \in Nat /\ requests' \in Nat /\ faults' \in Nat
    <2>1. \/ UNCHANGED <<drops, requests>>
          \/ drops' = drops + 1 /\ requests' = requests
          \/ requests' = requests + 1 /\ drops' = drops
      BY DEF PageStep, FetchUserAndConnect, HandleApplicationChat, Connect, ConnectInVain, TokenExpires, Disconnect, Unmount, SetConversations,
           FetchFails, JoinConversation, HandleTypingText, SendMessage, TypingTimeout, HttpRequest, NotServer, bounds
    <2>2. faults' = faults \/ faults' = faults + 1
      BY DEF PageStep, FetchUserAndConnect, HandleApplicationChat, Connect, ConnectInVain, TokenExpires, Disconnect, Unmount, SetConversations,
           FetchFails, JoinConversation, HandleTypingText, SendMessage, TypingTimeout, HttpRequest, NotServer,
           StartConversation, CreateApplicationConversation, CreateMessage, GetConversation, Request,
           HandleConnection, ConnectionRefused, HandleDisconnect, serverVars, bounds
    <2> QED BY <1>1, <2>1, <2>2
  <1>5. page' \in [Sockets -> Page]
    BY MinorPages, UnmountPage, ListPage, JoinPage, SendPage DEF PageStep, Minor, JoinConversation
  <1>6. PagesOK'
    BY <1>4, <1>5 DEF PagesOK
  <1>7. CASE FetchUserAndConnect(s) \/ SetConversations(s)
    <2>1. UNCHANGED <<convs, messages, userSocketMap, rooms, outbox, screen, task>>
      BY <1>7 DEF FetchUserAndConnect, SetConversations, serverVars
    <2> QED BY <1>1, <1>3, <1>4, <1>6, <2>1, ServerKept, TasksKept, ScreenKept DEF Sound
  <1>8. ASSUME NEW t \in Tasks, Asks(s, t) PROVE Sound'
    <2>1. TasksOK' /\ UNCHANGED <<dbVars, userSocketMap, rooms, outbox, screen, faults, scenario, tokenVars>>
      BY <1>8, AskFacts
    <2>2. UNCHANGED <<convs, messages, userSocketMap, rooms, outbox, screen>>
      BY <2>1 DEF dbVars
    <2> QED BY <1>1, <1>3, <1>4, <1>6, <2>1, <2>2, ServerKept, ScreenKept DEF Sound
  <1>9. CASE HandleApplicationChat(s) \/ HttpRequest(s)
    BY <1>3, <1>8, <1>9 DEF HandleApplicationChat, HttpRequest, Asks
  <1>10. CASE Connect(s)
    <2>1. /\ UNCHANGED <<convs, messages, rooms, outbox, screen, task>>
          /\ userSocketMap' = [userSocketMap EXCEPT ![Owner[s]] = @ \cup {s}]
      BY <1>10 DEF Connect, HandleConnection, dbVars
    <2>2. ServerOK'
      BY <1>1, <1>4, <2>1, SoundFacts DEF ServerOK
    <2> QED BY <1>1, <1>3, <1>6, <2>1, <2>2, TasksKept, ScreenKept DEF Sound
  <1>11. CASE Disconnect(s)
    <2>1. /\ UNCHANGED <<convs, messages, screen>>
          /\ userSocketMap' = [userSocketMap EXCEPT ![Owner[s]] = @ \ {s}]
          /\ rooms' = [rooms EXCEPT ![s] = {}]
          /\ outbox' = [outbox EXCEPT ![s] = <<>>]
          /\ HandleDisconnect(s)
      BY <1>11 DEF Disconnect, HandleDisconnect, dbVars
    <2>2. ServerOK'
      <3>1. <<>> \in Seq(Packet)
        OBVIOUS
      <3> QED BY <1>1, <1>4, <2>1, <3>1, SoundFacts DEF ServerOK
    <2> QED BY <1>1, <1>3, <1>6, <2>1, <2>2, DisconnectTasks, ScreenKept DEF Sound
  <1>12. CASE Unmount(s)
    <2>1. /\ UNCHANGED <<convs, messages, userSocketMap, rooms, outbox, task>>
          /\ screen' = [screen EXCEPT ![s] = [Blank EXCEPT !.left = TRUE]]
      BY <1>12 DEF Unmount, dbVars
    <2>2. [Blank EXCEPT !.left = TRUE] \in Screen
      <3>1. Blank \in Screen
        BY DEF Blank, Screen
      <3> QED BY <3>1 DEF Screen
    <2>3. ScreensOK'
      BY <1>1, <2>1, <2>2 DEF ScreensOK
    <2> QED BY <1>1, <1>3, <1>4, <1>6, <2>1, <2>3, ServerKept, TasksKept DEF Sound
  <1>13. CASE FetchFails(s)
    <2>1. UNCHANGED <<convs, messages, userSocketMap, rooms, outbox, task>> /\ OnError({s})
      BY <1>13 DEF FetchFails, dbVars
    <2> QED BY <1>1, <1>3, <1>4, <1>6, <2>1, ServerKept, TasksKept, HearsError DEF Sound
  <1>14. CASE JoinConversation(s)
    <2>1. PICK c \in page[s].listed :
              /\ Emit(s, Leave(page[s].active) \o Join(c)) /\ NotServer
              /\ Act(s, [page[s] EXCEPT !.active = c, !.isTyping = FALSE, !.timer = NoConv])
      BY <1>14 DEF JoinConversation
    <2>2. c \in Convs /\ page[s].active \in Convs \cup {NoConv}
      BY <2>1, JoinPage, SoundFacts DEF Page
    <2>3. PICK events : events = Leave(page[s].active) \o Join(c)
      OBVIOUS
    <2>4. events \in Seq(Packet)
      BY <2>2, <2>3, JoinPackets
    <2> QED BY <1>5, <2>1, <2>3, <2>4, EmitSound
  <1>15. CASE HandleTypingText(s)
    <2>1. page[s].active \in Convs /\ NotServer
      BY <1>15, SoundFacts DEF HandleTypingText, Page
    <2>2. PICK events : /\ Emit(s, events)
                        /\ events = IF page[s].isTyping THEN <<>> ELSE <<Typing(page[s].active, TRUE)>>
      BY <1>15 DEF HandleTypingText
    <2>3. events \in Seq(Packet)
      BY <2>1, <2>2, TypingPackets
    <2> QED BY <1>5, <2>1, <2>2, <2>3, EmitSound
  <1>16. CASE SendMessage(s)
    <2>1. PICK events : /\ Emit(s, events) /\ NotServer
                        /\ events = <<[ev |-> "sendMessage", conv |-> page[s].active], Typing(page[s].active, FALSE)>>
      BY <1>16 DEF SendMessage
    <2>2. events \in Seq(Packet)
      BY <1>16, <2>1, SendPage, SendPackets
    <2> QED BY <1>5, <2>1, <2>2, EmitSound
  <1>17. CASE TypingTimeout(s)
    <2>1. page[s].timer \in Convs /\ NotServer
      BY <1>17, SoundFacts DEF TypingTimeout, Page
    <2>2. PICK events : Emit(s, events) /\ events = <<Typing(page[s].timer, FALSE)>>
      BY <1>17 DEF TypingTimeout
    <2>3. events \in Seq(Packet)
      BY <2>1, <2>2, TypingPackets
    <2> QED BY <1>5, <2>1, <2>2, <2>3, EmitSound
  <1>18. CASE ConnectInVain(s) \/ TokenExpires(s)
    <2>1. /\ UNCHANGED <<convs, messages, userSocketMap, rooms, screen, task>>
          /\ outbox' = outbox \/ outbox' = [outbox EXCEPT ![s] = <<>>]
      BY <1>18 DEF ConnectInVain, ConnectionRefused, TokenExpires, dbVars
    <2>2. <<>> \in Seq(Packet)
      OBVIOUS
    <2>3. ServerOK'
      BY <1>1, <1>4, <2>1, <2>2 DEF ServerOK
    <2> QED BY <1>1, <1>3, <1>6, <2>1, <2>3, TasksKept, ScreenKept DEF Sound
  <1> QED BY <1>3, <1>7, <1>9, <1>10, <1>11, <1>12, <1>13, <1>14, <1>15, <1>16, <1>17, <1>18 DEF PageStep

(***************************************************************************)
(* A step, without the two ghosts.                                         *)
(***************************************************************************)
Core == \/ \E s \in Sockets : PageStep(s)
        \/ \E s \in Sockets : SocketStep(s) /\ UNCHANGED <<page, bounds>>
        \/ \E t \in Tasks : TaskStep(t) /\ UNCHANGED <<page, bounds>>

LEMMA NextIsCore ==
    ASSUME Next
    PROVE  /\ Core
           /\ told' = told \cup {task[t].msg : t \in {u \in Tasks : At(u, "broadcast") /\ At(u, "notify")'}}
           /\ raced' = raced \cup Races'
  BY DEF Next, Core

LEMMA CoreSound ==
    ASSUME Sound, Core
    PROVE  Sound' /\ Kept
  BY PageStepSound, SocketStepSound, TaskStepSound DEF Core

\* A token that has expired stays so, and only the guard's refusals are counted.
LEMMA TokenFacts ==
    ASSUME TokensOK, Core
    PROVE  /\ TokensOK' /\ expired \subseteq expired'
           /\ refused' = refused \/ \E s \in Sockets : RefusePacket(s)
  <1>1. ASSUME NEW s \in Sockets, PageStep(s)
        PROVE  refused' = refused /\ (expired' = expired \/ expired' = expired \cup {s})
    BY <1>1 DEF PageStep, FetchUserAndConnect, HandleApplicationChat, Connect, ConnectInVain, TokenExpires, Disconnect,
         Unmount, SetConversations, FetchFails, JoinConversation, HandleTypingText, SendMessage, TypingTimeout,
         HttpRequest, NotServer, StartConversation, CreateApplicationConversation, CreateMessage, GetConversation,
         Request, HandleConnection, ConnectionRefused, HandleDisconnect, serverVars, tokenVars
  <1>2. ASSUME NEW s \in Sockets, SocketStep(s)
        PROVE  expired' = expired /\ (refused' = refused \/ RefusePacket(s))
    BY <1>2 DEF SocketStep, HandleLeaveRoom, HandleTyping, HandleJoinRoom, HandleSendMessage, RefusePacket, tokenVars
  <1>3. ASSUME NEW t \in Tasks, TaskStep(t)
        PROVE  expired' = expired /\ refused' = refused
    BY <1>3 DEF TaskStep, GetConversationMessages, JoinRoom, EmitRecentMessages, MarkMessagesAsRead,
         CheckConversation, SaveMessage, BroadcastToRoom, NotifyUser, FindConversation, CreateConversation,
         HandlerFails, tokenVars
  <1>4. expired \subseteq expired' /\ expired' \subseteq Sockets
    BY <1>1, <1>2, <1>3 DEF Core, TokensOK
  <1>5. refused' = refused \/ \E s \in Sockets : RefusePacket(s)
    BY <1>1, <1>2, <1>3 DEF Core
  <1>6. refused' \in [Sockets -> Nat]
    BY <1>5 DEF TokensOK, RefusePacket
  <1> QED BY <1>4, <1>5, <1>6 DEF TokensOK

LEMMA TypeInit == Init => TypeInv
  <1> SUFFICES ASSUME Init PROVE TypeInv
    OBVIOUS
  <1> USE DEF Init, ServerInit, PageInit
  <1>1. ServerOK
    <2>1. convs \subseteq Convs
      BY ChatAssumption DEF Scenario
    <2>2. <<>> \in Seq(Message) /\ <<>> \in Seq(Packet)
      OBVIOUS
    <2> QED BY <2>1, <2>2 DEF ServerOK
  <1>2. TasksOK
    BY DEF TasksOK
  <1>3. ScreensOK
    BY DEF ScreensOK, Blank, Screen
  <1>4. PagesOK
    BY DEF PagesOK, Closed, Page
  <1>5. GhostsOK /\ TokensOK
    BY DEF GhostsOK, TokensOK
  <1> QED BY <1>1, <1>2, <1>3, <1>4, <1>5 DEF TypeInv

LEMMA TypeStep == TypeInv /\ [Next]_vars => TypeInv'
  <1> SUFFICES ASSUME TypeInv, [Next]_vars PROVE TypeInv'
    OBVIOUS
  <1>1. Sound
    BY DEF TypeInv, Sound
  <1>2. CASE Next
    <2>1. Sound' /\ Kept
      BY <1>1, <1>2, NextIsCore, CoreSound
    <2>2. Ids \subseteq Ids'
      BY <1>1, <2>1, Conversations, SoundFacts
    <2>3. \A u \in Tasks : At(u, "broadcast") => task[u].msg \in Ids
      BY <1>1 DEF Sound, TasksOK, Fits, Sending, At, IdsOf
    <2>4. told' \subseteq Ids'
      BY <1>2, <2>2, <2>3, NextIsCore DEF TypeInv, GhostsOK
    <2>5. raced' \subseteq Sockets \X Ids'
      <3>1. Races' \subseteq Sockets \X Ids'
        BY DEF Races
      <3>2. raced \subseteq Sockets \X Ids
        BY DEF TypeInv, GhostsOK
      <3> QED BY <1>2, <2>2, <3>1, <3>2, NextIsCore
    <2>6. TokensOK'
      BY <1>2, NextIsCore, TokenFacts DEF TypeInv
    <2> QED BY <2>1, <2>4, <2>5, <2>6 DEF TypeInv, Sound, GhostsOK
  <1>3. CASE UNCHANGED vars
    BY <1>3 DEF vars, serverVars, dbVars, tokenVars, bounds, TypeInv, TokensOK, ServerOK, TasksOK, ScreensOK, PagesOK, GhostsOK,
         Fits, Sending, At, Kind, IdsOf, Ids
  <1> QED BY <1>2, <1>3

LEMMA Typed == TypeInv => TypeOK
  BY DEF TypeInv, TypeOK, TokensOK, ServerOK, TasksOK, ScreensOK, PagesOK, GhostsOK, Message

\* Every reachable state of the chat is well typed: a handler that sends a
\* message sends one that is stored, and only what is stored was broadcast.
THEOREM ChatTypes == Spec => []TypeOK
  BY TypeInit, TypeStep, Typed, PTL DEF Spec

(***************************************************************************)
(* A message is shown once.                                                *)
(***************************************************************************)
LEMMA SocketScreens ==
    ASSUME Sound, NEW s \in Sockets, SocketStep(s)
    PROVE  SameMessages
  <1>1. ScreensOK /\ outbox[s] \in Seq(Packet) /\ Owner[s] \in Users
    BY SoundFacts
  <1>2. CASE UNCHANGED screen
    BY <1>1, <1>2, ScreenKept
  <1>3. CASE HandleTyping(s)
    <2>1. Head(outbox[s]) \in Packet /\ Head(outbox[s]).ev = "typing"
      BY <1>1, <1>3, HeadTailProperties DEF HandleTyping, Receives
    <2>2. PICK b \in BOOLEAN : OnUserTyping(InRoom(Head(outbox[s]).conv), Owner[s], b)
      BY <1>3, <2>1, PacketFacts DEF HandleTyping
    <2>3. PICK S : S = InRoom(Head(outbox[s]).conv)
      OBVIOUS
    <2> QED BY <1>1, <2>2, <2>3, HearsTyping
  <1> QED BY <1>2, <1>3 DEF SocketStep, HandleLeaveRoom, RefusePacket, HandleJoinRoom, HandleSendMessage

LEMMA PageScreens ==
    ASSUME Sound, NEW s \in Sockets, PageStep(s), ~Unmount(s)
    PROVE  SameMessages
  <1>1. ScreensOK
    BY SoundFacts
  <1>2. ASSUME NEW t \in Tasks, Asks(s, t) PROVE UNCHANGED screen
    BY <1>2, AskFacts
  <1>3. UNCHANGED screen \/ OnError({s})
    BY <1>2 DEF PageStep, FetchUserAndConnect, HandleApplicationChat, Connect, ConnectInVain, TokenExpires, Disconnect, SetConversations,
         FetchFails, JoinConversation, HandleTypingText, SendMessage, TypingTimeout, HttpRequest, NotServer,
         HandleConnection, ConnectionRefused, HandleDisconnect, serverVars, Asks
  <1> QED BY <1>1, <1>3, HearsError, ScreenKept

\* All there is to how the pages' messages change.
LEMMA CoreScreens ==
    ASSUME Sound, Core
    PROVE  \/ SameMessages
           \/ \E s \in Sockets : Unmount(s)
           \/ \E t \in Tasks : Told(t) /\ (BroadcastToRoom(t) \/ NotifyUser(t))
           \/ \E t \in Tasks : Answered(t) /\ EmitRecentMessages(t)
  BY SocketScreens, PageScreens, OtherTaskScreens, AnswerFacts, BroadcastFacts, NotifyFacts DEF Core

Once(seq) ==
    \A k, l \in DOMAIN seq : k < l /\ seq[k].msg = seq[l].msg => ~seq[k].hasId

LEMMA ShownIsOnce == ShownOnce <=> \A s \in Sockets, c \in Convs : Once(screen[s].shown[c])
  BY DEF ShownOnce, Once

LEMMA OnceMore ==
    ASSUME NEW seq \in Seq(Entry), Once(seq), NEW i \in Nat, \A k \in DOMAIN seq : seq[k] # Full(i)
    PROVE  Once(Append(seq, Full(i)))
  <1> DEFINE new == Append(seq, Full(i))
  <1>1. Full(i) \in Entry /\ Full(i).msg = i
    BY DEF Full, Entry
  <1>2. Len(seq) \in Nat /\ DOMAIN seq = 1 .. Len(seq) /\ \A k \in DOMAIN seq : seq[k] \in Entry
    BY LenProperties
  <1>3. /\ new \in Seq(Entry) /\ Len(new) = Len(seq) + 1 /\ new[Len(seq) + 1] = Full(i)
        /\ \A k \in 1 .. Len(seq) : new[k] = seq[k]
    BY <1>1, <1>2
  <1>4. DOMAIN new = 1 .. (Len(seq) + 1)
    BY <1>3, LenProperties
  <1> HIDE DEF new
  <1>5. ASSUME NEW k \in DOMAIN seq, seq[k].msg = i PROVE ~seq[k].hasId
    <2>1. seq[k] \in Entry /\ seq[k] # Full(i)
      BY <1>2
    <2> QED BY <1>5, <2>1 DEF Entry, Full
  <1>6. ASSUME NEW k \in DOMAIN new, NEW l \in DOMAIN new, k < l, new[k].msg = new[l].msg
        PROVE  ~new[k].hasId
    <2>1. k \in DOMAIN seq /\ new[k] = seq[k]
      BY <1>2, <1>3, <1>4, <1>6
    <2>2. CASE l \in DOMAIN seq
      <3>1. new[l] = seq[l]
        BY <1>2, <1>3, <2>2
      <3> QED BY <1>6, <2>1, <2>2, <3>1 DEF Once
    <2>3. CASE l \notin DOMAIN seq
      <3>1. new[l] = Full(i)
        BY <1>2, <1>3, <1>4, <2>3
      <3> QED BY <1>1, <1>5, <1>6, <2>1, <3>1
    <2> QED BY <2>2, <2>3
  <1> QED BY <1>6 DEF Once, new

LEMMA OnceInit == Init => ShownOnce
  BY DEF Init, ServerInit, Blank, ShownOnce

LEMMA OnceStep == TypeInv /\ ShownOnce /\ [Next]_vars => ShownOnce'
  <1> SUFFICES ASSUME TypeInv, ShownOnce, [Next]_vars, NEW s \in Sockets, NEW c \in Convs
               PROVE  \A seq : seq = screen'[s].shown[c] => Once(seq)
    BY DEF ShownOnce, Once
  <1>1. Sound /\ ScreensOK
    BY DEF TypeInv, Sound
  <1>2. Once(screen[s].shown[c]) /\ screen[s].shown[c] \in Seq(Entry)
    BY <1>1, ShownIsOnce, ScreenFacts
  <1>3. CASE UNCHANGED vars \/ SameMessages
    BY <1>2, <1>3 DEF vars, serverVars, SameMessages
  <1>4. ASSUME NEW r \in Sockets, Unmount(r) PROVE \A seq : seq = screen'[s].shown[c] => Once(seq)
    <2>1. screen' = [screen EXCEPT ![r] = [Blank EXCEPT !.left = TRUE]]
      BY <1>4 DEF Unmount
    <2>2. CASE r = s
      <3>1. screen'[s].shown[c] = <<>>
        BY <1>1, <2>1, <2>2 DEF Blank, ScreensOK
      <3> QED BY <3>1 DEF Once
    <2>3. CASE r # s
      BY <1>2, <2>1, <2>3
    <2> QED BY <2>2, <2>3
  <1>5. ASSUME NEW t \in Tasks, Told(t) PROVE \A seq : seq = screen'[s].shown[c] => Once(seq)
    <2>1. PICK i \in Nat : i = task[t].msg
      BY <1>1, <1>5, TaskHasStep, SoundFacts DEF Told, Sending, At, IdsOf, Ids
    <2>2. \/ screen'[s].shown[c] = screen[s].shown[c]
          \/ /\ screen'[s].shown[c] = Append(screen[s].shown[c], Full(i))
             /\ \A k \in DOMAIN screen[s].shown[c] : screen[s].shown[c][k] # Full(i)
      BY <1>5, <2>1 DEF Told, Hears, Full
    <2> QED BY <1>2, <2>1, <2>2, OnceMore
  <1>6. ASSUME NEW t \in Tasks, Answered(t), EmitRecentMessages(t)
        PROVE  \A seq : seq = screen'[s].shown[c] => Once(seq)
    <2>1. screen[s].left \in BOOLEAN
      BY <1>1, ScreenFacts
    <2>2. CASE s \in Client(t) /\ screen[s].left = FALSE /\ c = task[t].conv
      <3>1. PICK seq : seq = screen'[s].shown[c]
        OBVIOUS
      <3>2. DOMAIN seq = DOMAIN task[t].history /\ \A k \in DOMAIN seq : seq[k].msg = task[t].history[k]
        BY <1>6, <2>2, <3>1 DEF Answered
      <3>3. task[t] # Idle
        BY <1>6 DEF EmitRecentMessages, At
      <3>4. \A k, l \in DOMAIN task[t].history : task[t].history[k] = task[t].history[l] => k = l
        BY <1>1, <3>3 DEF Sound, TasksOK, Fits
      <3>5. \A k \in DOMAIN seq : k \in Nat
        <4>1. task[t].history \in Seq(Nat)
          BY <1>1, <3>3, TaskHasStep, SoundFacts DEF Task
        <4> QED BY <3>2, <4>1, LenProperties
      <3>6. Once(seq)
        BY <3>2, <3>4, <3>5 DEF Once
      <3> QED BY <3>1, <3>6
    <2>3. CASE ~(s \in Client(t) /\ screen[s].left = FALSE /\ c = task[t].conv)
      BY <1>2, <1>6, <2>3 DEF Answered
    <2> QED BY <2>2, <2>3
  <1> QED BY <1>1, <1>3, <1>4, <1>5, <1>6, NextIsCore, CoreScreens

\* The room, the notification and the history may all bring a message: no page
\* shows it twice once it has its id.
THEOREM MessagesShownOnce == Spec => []ShownOnce
  BY TypeInit, TypeStep, OnceInit, OnceStep, PTL DEF Spec

(***************************************************************************)
(* What becomes of a handler in a step.                                    *)
(***************************************************************************)
Started(t) == /\ task[t] = Idle /\ task'[t] # Idle
              /\ <<task'[t].kind, task'[t].step>> \in
                     {<<"join", "find">>, <<"send", "check">>, <<"start", "findConv">>,
                      <<"application", "findConv">>, <<"post", "check">>, <<"get", "find">>}
              /\ task'[t].live = TRUE
Same(t) == /\ task[t] # Idle /\ task'[t] # Idle
           /\ task'[t].kind = task[t].kind /\ task'[t].sock = task[t].sock /\ task'[t].conv = task[t].conv
Waits(t) == /\ Same(t)
            /\ task'[t].step = task[t].step /\ task'[t].msg = task[t].msg /\ task'[t].history = task[t].history
            /\ task'[t].live = task[t].live \/ task'[t].live = FALSE
Moves(t) == /\ TaskStep(t) /\ Same(t) /\ task'[t].live = task[t].live
            /\ task'[t].history = task[t].history \/ GetConversationMessages(t)
            /\ task'[t].msg = task[t].msg \/ SaveMessage(t)

LEMMA TaskStepMoves ==
    ASSUME Sound, NEW t \in Tasks, TaskStep(t)
    PROVE  /\ Moves(t) \/ task'[t] = Idle
           /\ \A u \in Tasks \ {t} : task'[u] = task[u]
           /\ HandlerFails(t) => task'[t] = Idle
  <1>1. task[t] \in Task /\ task[t] # Idle
    <2>1. task[t] # Idle
      BY DEF TaskStep, GetConversationMessages, JoinRoom, EmitRecentMessages, MarkMessagesAsRead,
             CheckConversation, SaveMessage, BroadcastToRoom, NotifyUser, FindConversation, CreateConversation,
             HandlerFails, At
    <2> QED BY <2>1, TaskHasStep, SoundFacts
  <1>2. PICK y \in Task : y = task[t] /\ y # Idle
    BY <1>1
  <1>3. task \in [Tasks -> Task \cup {Idle}]
    BY DEF Sound, TasksOK
  <1>4. ASSUME Finish(t) PROVE task'[t] = Idle /\ \A u \in Tasks \ {t} : task'[u] = task[u]
    BY <1>3, <1>4 DEF Finish
  <1>5. ASSUME NEW step \in Steps, Resume(t, step)
        PROVE  Moves(t) /\ \A u \in Tasks \ {t} : task'[u] = task[u]
    <2> DEFINE x == [y EXCEPT !.step = step]
    <2>1. /\ x \in Task /\ x.kind = y.kind /\ x.sock = y.sock /\ x.conv = y.conv /\ x.live = y.live
          /\ x.history = y.history /\ x.msg = y.msg
      BY DEF Task
    <2>2. task' = [task EXCEPT ![t] = x]
      BY <1>2, <1>5 DEF Resume
    <2> HIDE DEF x
    <2>3. task'[t] = x /\ (\A u \in Tasks \ {t} : task'[u] = task[u]) /\ x # Idle
      BY <1>3, <2>1, <2>2, IdleAssumption
    <2> QED BY <1>2, <2>1, <2>3 DEF Moves, Same
  <1>6. ASSUME GetConversationMessages(t), task' = [task EXCEPT ![t].step = "join", ![t].history = History(task[t].conv)]
        PROVE  Moves(t) /\ \A u \in Tasks \ {t} : task'[u] = task[u]
    <2>1. PICK h \in Seq(Nat) : h = History(task[t].conv)
      BY HistoryFacts, SoundFacts
    <2> DEFINE x == [y EXCEPT !.step = "join", !.history = h]
    <2>2. /\ x \in Task /\ x.kind = y.kind /\ x.sock = y.sock /\ x.conv = y.conv /\ x.live = y.live
          /\ x.msg = y.msg
      BY DEF Task, Steps
    <2>3. task' = [task EXCEPT ![t] = x]
      BY <1>2, <1>6, <2>1
    <2> HIDE DEF x
    <2>4. task'[t] = x /\ (\A u \in Tasks \ {t} : task'[u] = task[u]) /\ x # Idle
      BY <1>3, <2>2, <2>3, IdleAssumption
    <2> QED BY <1>2, <1>6, <2>2, <2>4 DEF Moves, Same
  <1>7. ASSUME SaveMessage(t), task' = [task EXCEPT ![t].step = "broadcast", ![t].msg = Len(messages) + 1]
        PROVE  Moves(t) /\ \A u \in Tasks \ {t} : task'[u] = task[u]
    <2>1. PICK i \in Nat : i = Len(messages) + 1
      BY SoundFacts
    <2> DEFINE x == [y EXCEPT !.step = "broadcast", !.msg = i]
    <2>2. /\ x \in Task /\ x.kind = y.kind /\ x.sock = y.sock /\ x.conv = y.conv /\ x.live = y.live
          /\ x.history = y.history
      BY DEF Task, Steps
    <2>3. task' = [task EXCEPT ![t] = x]
      BY <1>2, <1>7, <2>1
    <2> HIDE DEF x
    <2>4. task'[t] = x /\ (\A u \in Tasks \ {t} : task'[u] = task[u]) /\ x # Idle
      BY <1>3, <2>2, <2>3, IdleAssumption
    <2> QED BY <1>2, <1>7, <2>2, <2>4 DEF Moves, Same
  <1>8. \/ Finish(t)
        \/ \E step \in Steps : Resume(t, step) /\ ~HandlerFails(t)
        \/ GetConversationMessages(t) /\ task' = [task EXCEPT ![t].step = "join", ![t].history = History(task[t].conv)]
        \/ SaveMessage(t) /\ task' = [task EXCEPT ![t].step = "broadcast", ![t].msg = Len(messages) + 1]
    <2>1. {"join", "recent", "markRead", "check", "save", "broadcast", "notify", "create"} \subseteq Steps
      BY DEF Steps
    <2>2. HandlerFails(t) => Finish(t)
      BY DEF HandlerFails
    <2> QED BY <2>1, <2>2 DEF TaskStep, GetConversationMessages, JoinRoom, EmitRecentMessages, MarkMessagesAsRead,
             CheckConversation, SaveMessage, BroadcastToRoom, NotifyUser, FindConversation, CreateConversation
  <1>9. HandlerFails(t) => Finish(t)
    BY DEF HandlerFails
  <1> QED BY <1>4, <1>5, <1>6, <1>7, <1>8, <1>9

LEMMA SocketTasks ==
    ASSUME Sound, NEW s \in Sockets, SocketStep(s)
    PROVE  \/ UNCHANGED task /\ (HandleLeaveRoom(s) \/ HandleTyping(s) \/ RefusePacket(s))
           \/ \E t \in Tasks : /\ HandleJoinRoom(s, t) \/ HandleSendMessage(s, t)
                               /\ Started(t) /\ task'[t].sock = s /\ task'[t].conv = Head(outbox[s]).conv
                               /\ HandleJoinRoom(s, t) => task'[t].kind = "join" /\ task'[t].step = "find"
                               /\ HandleSendMessage(s, t) => task'[t].kind = "send" /\ task'[t].step = "check"
                               /\ \A u \in Tasks \ {t} : task'[u] = task[u]
  <1>1. outbox[s] \in Seq(Packet) /\ task \in [Tasks -> Task \cup {Idle}]
    BY SoundFacts DEF TasksOK
  <1>2. ASSUME NEW t \in Tasks, NEW kind \in {"join", "send"}, NEW step \in Steps,
               kind = "join" => step = "find", kind = "send" => step = "check",
               outbox[s] # <<>>, Begin(t, kind, s, Head(outbox[s]).conv, step), t \in Free
        PROVE  /\ Started(t) /\ task'[t].sock = s /\ task'[t].conv = Head(outbox[s]).conv
               /\ task'[t].kind = kind /\ task'[t].step = step
               /\ \A u \in Tasks \ {t} : task'[u] = task[u]
    <2>1. PICK c \in Convs : c = Head(outbox[s]).conv
      BY <1>1, <1>2, HeadTailProperties, PacketFacts
    <2> DEFINE x == [kind |-> kind, sock |-> s, live |-> TRUE, conv |-> c,
                     step |-> step, history |-> <<>>, msg |-> 0]
    <2>2. x \in Task
      BY <1>2 DEF Task, Kinds
    <2>3. x.kind = kind /\ x.step = step /\ x.sock = s /\ x.conv = c /\ x.live = TRUE
      OBVIOUS
    <2>4. task' = [task EXCEPT ![t] = x]
      BY <1>2, <2>1 DEF Begin
    <2> HIDE DEF x
    <2>5. task'[t] = x /\ (\A u \in Tasks \ {t} : task'[u] = task[u]) /\ x # Idle
      BY <1>1, <2>2, <2>4, IdleAssumption
    <2>6. task[t] = Idle
      BY <1>2 DEF Free
    <2> QED BY <1>2, <2>1, <2>3, <2>5, <2>6 DEF Started
  <1>3. ASSUME NEW t \in Tasks, HandleJoinRoom(s, t)
        PROVE /\ Started(t) /\ task'[t].sock = s /\ task'[t].conv = Head(outbox[s]).conv
              /\ task'[t].kind = "join" /\ task'[t].step = "find"
              /\ \A u \in Tasks \ {t} : task'[u] = task[u] 
    <2>1. "find" \in Steps
      BY DEF Steps
    <2> QED BY <1>2, <1>3, <2>1 DEF HandleJoinRoom, Receives
  <1>4. ASSUME NEW t \in Tasks, HandleSendMessage(s, t)
        PROVE /\ Started(t) /\ task'[t].sock = s /\ task'[t].conv = Head(outbox[s]).conv
              /\ task'[t].kind = "send" /\ task'[t].step = "check"
              /\ \A u \in Tasks \ {t} : task'[u] = task[u]
    <2>1. "check" \in Steps
      BY DEF Steps
    <2> QED BY <1>2, <1>4, <2>1 DEF HandleSendMessage, Receives
  <1>5. \A t \in Tasks : ~(HandleJoinRoom(s, t) /\ HandleSendMessage(s, t))
    BY DEF HandleJoinRoom, HandleSendMessage, Receives
  <1>6. HandleLeaveRoom(s) \/ HandleTyping(s) \/ RefusePacket(s) => UNCHANGED task
    BY DEF HandleLeaveRoom, HandleTyping, RefusePacket
  <1> QED BY <1>3, <1>4, <1>5, <1>6 DEF SocketStep

LEMMA PageTasks ==
    ASSUME Sound, NEW s \in Sockets, PageStep(s), NEW t \in Tasks
    PROVE  \/ task'[t] = task[t]
           \/ Disconnect(s) /\ Waits(t)
           \/ (HandleApplicationChat(s) \/ HttpRequest(s)) /\ Started(t) /\ task'[t].kind \notin {"join", "send"}
  <1>1. task \in [Tasks -> Task \cup {Idle}]
    BY DEF Sound, TasksOK
  <1>2. ASSUME NEW u \in Tasks, Asks(s, u)
        PROVE  task'[t] = task[t] \/ (Started(t) /\ task'[t].kind \notin {"join", "send"})
    <2>1. PICK x \in Task : /\ task' = [task EXCEPT ![u] = x] /\ x.sock = s /\ x.live = TRUE
                            /\ <<x.kind, x.step>> \in {<<"start", "findConv">>, <<"application", "findConv">>,
                                                       <<"post", "check">>, <<"get", "find">>}
      BY <1>2, AskFacts
    <2>2. u \in Free
      BY <1>2, AskFacts
    <2> QED BY <1>1, <2>1, <2>2, IdleAssumption DEF Started, Free
  <1>3. CASE Disconnect(s)
    <2>1. HandleDisconnect(s)
      BY <1>3 DEF Disconnect
    <2>2. task[t] # Idle => Waits(t)
      BY <2>1, DisconnectTasks DEF Waits, Same
    <2> QED BY <1>3, <2>1, <2>2, DisconnectTasks
  <1>4. CASE HandleApplicationChat(s) \/ HttpRequest(s)
    BY <1>2, <1>4 DEF HandleApplicationChat, HttpRequest, Asks
  <1>5. CASE ~(HandleApplicationChat(s) \/ HttpRequest(s) \/ Disconnect(s))
    BY <1>5 DEF PageStep, FetchUserAndConnect, Connect, HandleConnection, ConnectInVain, ConnectionRefused,
         TokenExpires, Unmount, SetConversations, FetchFails, JoinConversation, HandleTypingText, SendMessage, TypingTimeout, NotServer, serverVars
  <1> QED BY <1>3, <1>4, <1>5

\* A handler that is there after a step just began, waits or went on.
LEMMA TaskFate ==
    ASSUME Sound, Core, NEW t \in Tasks, task'[t] # Idle
    PROVE  Started(t) \/ Waits(t) \/ Moves(t)
  <1>1. CASE task'[t] = task[t]
    BY <1>1 DEF Waits, Same
  <1>2. ASSUME NEW s \in Sockets, PageStep(s) PROVE Started(t) \/ Waits(t) \/ Moves(t)
    BY <1>1, <1>2, PageTasks
  <1>3. ASSUME NEW s \in Sockets, SocketStep(s) PROVE Started(t) \/ Waits(t) \/ Moves(t)
    <2>1. CASE UNCHANGED task
      BY <1>1, <2>1
    <2>2. CASE \E u \in Tasks : Started(u) /\ \A v \in Tasks \ {u} : task'[v] = task[v]
      BY <1>1, <2>2
    <2> QED BY <1>3, <2>1, <2>2, SocketTasks
  <1>4. ASSUME NEW u \in Tasks, TaskStep(u) PROVE Started(t) \/ Waits(t) \/ Moves(t)
    BY <1>1, <1>4, TaskStepMoves
  <1> QED BY <1>2, <1>3, <1>4 DEF Core

\* What led a handler to its step.
LEMMA TaskNextStep ==
    ASSUME Sound, NEW t \in Tasks, TaskStep(t), task'[t] # Idle
    PROVE  /\ task'[t].step = "join" => GetConversationMessages(t) /\ task'[t].history = History(task[t].conv)
           /\ task'[t].step = "recent" => JoinRoom(t)
           /\ task'[t].step = "save" => CheckConversation(t)
           /\ task'[t].step = "broadcast" => SaveMessage(t)
           /\ task'[t].step = "notify" => BroadcastToRoom(t)
           /\ task'[t].step = "check" => Kind(t) = "application"
           /\ task'[t].step # "find"
  <1>1. task[t] # Idle /\ task[t] \in Task /\ task \in [Tasks -> Task \cup {Idle}]
    <2>1. task[t] # Idle
      BY DEF TaskStep, GetConversationMessages, JoinRoom, EmitRecentMessages, MarkMessagesAsRead,
             CheckConversation, SaveMessage, BroadcastToRoom, NotifyUser, FindConversation, CreateConversation,
             HandlerFails, At
    <2> QED BY <2>1, TaskHasStep, SoundFacts DEF TasksOK
  <1>2. ~Finish(t)
    BY <1>1 DEF Finish
  <1>3. ASSUME NEW step, Resume(t, step) PROVE task'[t].step = step
    BY <1>1, <1>3 DEF Resume, Task
  <1>4. Kind(t) \in Kinds /\ task[t].step \in StepsOf(Kind(t))
    BY <1>1, TaskHasStep, SoundFacts
  <1>5. CASE GetConversationMessages(t)
    <2>1. CASE task' = [task EXCEPT ![t].step = "join", ![t].history = History(task[t].conv)]
      <3>1. task'[t].step = "join" /\ task'[t].history = History(task[t].conv)
        BY <1>1, <2>1 DEF Task
      <3> QED BY <1>5, <3>1
    <2>2. CASE Resume(t, "markRead")
      BY <1>3, <2>2
    <2> QED BY <1>2, <1>5, <2>1, <2>2 DEF GetConversationMessages
  <1>6. CASE JoinRoom(t)
    <2>1. task'[t].step = "recent"
      BY <1>3, <1>6 DEF JoinRoom
    <2> QED BY <1>6, <2>1
  <1>7. CASE EmitRecentMessages(t)
    <2>1. task'[t].step = "markRead"
      BY <1>3, <1>7 DEF EmitRecentMessages
    <2> QED BY <2>1
  <1>8. CASE CheckConversation(t)
    <2>1. task'[t].step = "save"
      BY <1>2, <1>3, <1>8 DEF CheckConversation
    <2> QED BY <1>8, <2>1
  <1>9. CASE SaveMessage(t)
    <2>1. task'[t].step = "broadcast"
      BY <1>1, <1>2, <1>9 DEF SaveMessage, Task
    <2> QED BY <1>9, <2>1
  <1>10. CASE BroadcastToRoom(t)
    <2>1. task'[t].step = "notify"
      BY <1>3, <1>10 DEF BroadcastToRoom
    <2> QED BY <1>10, <2>1
  <1>11. CASE FindConversation(t) \/ CreateConversation(t)
    <2>1. task[t].step \in {"findConv", "create"}
      BY <1>11 DEF FindConversation, CreateConversation, At
    <2>2. Kind(t) \in {"start", "application"}
      BY <1>4, <2>1 DEF StepsOf, Kinds
    <2>3. task'[t].step = "create" \/ (task'[t].step = "check" /\ Kind(t) # "start")
      BY <1>2, <1>3, <1>11 DEF FindConversation, CreateConversation
    <2> QED BY <2>2, <2>3
  <1>12. CASE MarkMessagesAsRead(t) \/ NotifyUser(t) \/ HandlerFails(t)
    BY <1>2, <1>12 DEF MarkMessagesAsRead, NotifyUser, HandlerFails
  <1> QED BY <1>5, <1>6, <1>7, <1>8, <1>9, <1>10, <1>11, <1>12 DEF TaskStep

(***************************************************************************)
(* What a joining page misses raced it.                                    *)
(***************************************************************************)
\* A message that was just told is still being sent.
LEMMA JustTold ==
    ASSUME Sound, Next, NEW i, i \in told', i \notin told
    PROVE  \E u \in Tasks : BroadcastToRoom(u) /\ task[u].msg = i /\ Sending(u)' /\ task'[u].msg = i
  <1>1. PICK u \in Tasks : At(u, "broadcast") /\ At(u, "notify")' /\ task[u].msg = i
    BY NextIsCore
  <1>2. Core /\ task[u] # Idle /\ task'[u] # Idle /\ task[u].step = "broadcast" /\ task'[u].step = "notify"
    BY <1>1, NextIsCore DEF At
  <1>3. Moves(u)
    BY <1>2, TaskFate DEF Started, Waits
  <1>4. BroadcastToRoom(u)
    BY <1>2, <1>3, TaskNextStep DEF Moves
  <1>5. ~SaveMessage(u)
    BY <1>2 DEF SaveMessage, At
  <1>6. task'[u].msg = i
    BY <1>1, <1>3, <1>5 DEF Moves
  <1>7. Sending(u)'
    BY <1>1 DEF Sending
  <1> QED BY <1>1, <1>4, <1>6, <1>7

LEMMA Raced ==
    ASSUME Sound', NEW t \in Tasks, NEW s \in Sockets, NEW c \in Convs, JoinsAs(t, s, c)',
           NEW u \in Tasks, Sending(u)', NEW i, i \in IdsOf(c)', task'[u].msg = i
    PROVE  <<s, i>> \in Races'
  <1>1. task'[u] # Idle
    BY DEF Sending, At
  <1>2. PICK d : d = task'[u].conv
    OBVIOUS
  <1>3. i \in IdsOf(d)'
    BY <1>1, <1>2 DEF Sound, TasksOK, Fits
  <1>4. c = d /\ i \in Ids'
    BY <1>3 DEF IdsOf
  <1>5. <<s, i>> \in Sockets \X Ids'
    BY <1>4
  <1>6. Joining(t)' /\ task'[t].sock = s /\ task'[t].conv = task'[u].conv
    BY <1>2, <1>4 DEF JoinsAs
  <1> QED BY <1>5, <1>6 DEF Races

LEMMA HistoryStep ==
    ASSUME TypeInv, HistoryInv, Next
    PROVE  HistoryInv'
  <1> SUFFICES ASSUME NEW t \in Tasks, NEW s \in Sockets, NEW c \in Convs, JoinsAs(t, s, c)',
                      NEW i \in told', i \in IdsOf(c)', Rank(i)' <= HistoryLimit
               PROVE  InHistory(i, t)' \/ <<s, i>> \in raced'
    BY DEF HistoryInv
  <1>1. Sound /\ Core /\ Sound' /\ Kept /\ told \subseteq Ids
    BY NextIsCore, CoreSound DEF TypeInv, Sound, GhostsOK
  <1>2. CASE i \notin told
    <2>1. PICK u \in Tasks : Sending(u)' /\ task'[u].msg = i
      BY <1>1, <1>2, JustTold
    <2> QED BY <1>1, <2>1, Raced, NextIsCore
  <1>3. CASE i \in told
    <2>1. i \in IdsOf(c) /\ Rank(i) <= HistoryLimit
      BY <1>1, <1>3, Conversations, SoundFacts
    <2>2. task'[t] # Idle /\ task'[t].step \in {"join", "recent"} /\ task'[t].sock = s /\ task'[t].conv = c
      BY DEF JoinsAs, Joining, At
    <2>3. ~Started(t)
      BY <2>2 DEF Started
    <2>4. ASSUME JoinsAs(t, s, c), task'[t].history = task[t].history
          PROVE  InHistory(i, t)' \/ <<s, i>> \in raced'
      <3>1. InHistory(i, t) \/ <<s, i>> \in raced
        BY <1>3, <2>1, <2>4 DEF HistoryInv
      <3> QED BY <2>4, <3>1, NextIsCore DEF InHistory
    <2>5. CASE Waits(t)
      BY <2>2, <2>4, <2>5 DEF Waits, Same, JoinsAs, Joining, At
    <2>6. CASE Moves(t)
      <3>1. CASE task'[t].step = "join"
        <4>1. task'[t].history = History(task[t].conv)
          BY <1>1, <2>2, <2>6, <3>1, TaskNextStep DEF Moves
        <4>2. task[t].conv = c
          BY <2>2, <2>6 DEF Moves, Same
        <4>3. \E k \in DOMAIN History(c) : History(c)[k] = i
          BY <1>1, <2>1, HistoryFacts, SoundFacts
        <4> QED BY <4>1, <4>2, <4>3 DEF InHistory
      <3>2. CASE task'[t].step = "recent"
        <4>1. JoinRoom(t)
          BY <1>1, <2>2, <2>6, <3>2, TaskNextStep DEF Moves
        <4>2. At(t, "join") /\ ~GetConversationMessages(t)
          BY <4>1 DEF JoinRoom, GetConversationMessages, At
        <4>3. JoinsAs(t, s, c) /\ task'[t].history = task[t].history
          BY <2>2, <2>6, <4>2 DEF Moves, Same, JoinsAs, Joining
        <4> QED BY <2>4, <4>3
      <3> QED BY <2>2, <3>1, <3>2
    <2> QED BY <1>1, <2>2, <2>3, <2>5, <2>6, TaskFate
  <1> QED BY <1>2, <1>3

(***************************************************************************)
(* What a page in a room misses raced its joining.                         *)
(***************************************************************************)
\* A handler that is about to send the history sends it, or loses its client.
LEMMA AnswerFate ==
    ASSUME Sound, Core, NEW t \in Tasks, At(t, "recent")
    PROVE  EmitRecentMessages(t) \/ HandleDisconnect(task[t].sock) \/ task'[t] = task[t]
  <1>1. task[t] # Idle /\ task[t].step = "recent"
    BY DEF At
  <1>2. \A u \in Tasks : Started(u) => u # t
    BY <1>1 DEF Started
  <1>3. ASSUME NEW s \in Sockets, PageStep(s), task'[t] # task[t] PROVE HandleDisconnect(task[t].sock)
    <2>1. HandleDisconnect(s) /\ Waits(t)
      BY <1>2, <1>3, PageTasks DEF Disconnect
    <2>2. CASE task[t].sock = s
      BY <2>1, <2>2
    <2>3. CASE task[t].sock # s
      <3>1. task'[t] = task[t]
        BY <1>1, <2>1, <2>3 DEF HandleDisconnect
      <3> QED BY <1>3, <3>1
    <2> QED BY <2>2, <2>3
  <1>4. ASSUME NEW s \in Sockets, SocketStep(s) PROVE task'[t] = task[t]
    <2>1. CASE UNCHANGED task
      BY <2>1
    <2>2. CASE \E u \in Tasks : Started(u) /\ \A v \in Tasks \ {u} : task'[v] = task[v]
      BY <1>2, <2>2
    <2> QED BY <1>4, <2>1, <2>2, SocketTasks
  <1>5. ASSUME NEW u \in Tasks, TaskStep(u) PROVE EmitRecentMessages(t) \/ task'[t] = task[t]
    <2>1. CASE u # t
      BY <1>5, <2>1, TaskStepMoves
    <2>2. CASE u = t
      BY <1>1, <1>5, <2>2 DEF TaskStep, GetConversationMessages, JoinRoom, MarkMessagesAsRead,
             CheckConversation, SaveMessage, BroadcastToRoom, NotifyUser, FindConversation, CreateConversation,
             HandlerFails, At
    <2> QED BY <2>1, <2>2
  <1> QED BY <1>3, <1>4, <1>5 DEF Core

\* A socket gets into a room when a handler puts it there.
LEMMA RoomEntered ==
    ASSUME Sound, Core, NEW s \in Sockets, NEW c \in rooms'[s], c \notin rooms[s]
    PROVE  \E t \in Tasks : Answering(t, s, c)'
  <1>1. rooms \in [Sockets -> SUBSET Convs]
    BY DEF Sound, ServerOK
  <1>2. PICK t \in Tasks : JoinRoom(t) /\ TaskStep(t)
    <2>1. ASSUME NEW r \in Sockets, SocketStep(r) PROVE FALSE
      BY <1>1, <2>1 DEF SocketStep, HandleLeaveRoom, HandleTyping, RefusePacket, HandleJoinRoom, HandleSendMessage
    <2>2. ASSUME NEW r \in Sockets, NEW u \in Tasks, Asks(r, u) PROVE FALSE
      BY <2>2, AskFacts
    <2>3. ASSUME NEW r \in Sockets, PageStep(r) PROVE FALSE
      BY <1>1, <2>2, <2>3 DEF PageStep, FetchUserAndConnect, HandleApplicationChat, Connect, ConnectInVain, TokenExpires, Disconnect, Unmount,
           SetConversations, FetchFails, JoinConversation, HandleTypingText, SendMessage, TypingTimeout, HttpRequest,
           NotServer, HandleConnection, ConnectionRefused, HandleDisconnect, serverVars, Asks
    <2>4. ASSUME NEW u \in Tasks, TaskStep(u), UNCHANGED <<page, bounds>> PROVE JoinRoom(u)
      BY <2>4, TaskStepFrame
    <2> QED BY <2>1, <2>3, <2>4 DEF Core
  <1>3. s \in Client(t) /\ c = task[t].conv
    BY <1>1, <1>2 DEF JoinRoom
  <1>4. task[t] # Idle /\ task[t].live = TRUE /\ task[t].sock = s
    BY <1>2, <1>3, TaskHasStep, SoundFacts DEF JoinRoom, At, Client
  <1>5. "recent" \in StepsOf(Kind(t)) \cap Steps
    BY <1>2, <1>4, TaskHasStep, SoundFacts DEF StepsOf, Steps, JoinRoom, At, Kinds
  <1>6. PICK x \in Task : /\ task' = [task EXCEPT ![t] = x] /\ x.step = "recent" /\ x.sock = task[t].sock
                          /\ x.live = task[t].live /\ x.conv = task[t].conv
    <2>1. Resume(t, "recent") /\ Kept
      BY <1>2, NotStoring, SoundFacts DEF JoinRoom, dbVars
    <2> QED BY <1>4, <1>5, <2>1, TaskResumes, SoundFacts
  <1>7. task'[t] = x /\ x # Idle
    BY <1>6, IdleAssumption DEF Sound, TasksOK
  <1>8. At(t, "recent")' /\ task'[t].live = TRUE /\ task'[t].sock = s /\ task'[t].conv = c
    BY <1>3, <1>4, <1>6, <1>7 DEF At
  <1> QED BY <1>8 DEF Answering

LEMMA RoomStep ==
    ASSUME TypeInv, HistoryInv, RoomInv, Next
    PROVE  RoomInv'
  <1> SUFFICES ASSUME NEW s \in Sockets, NEW c \in Convs, c \in rooms'[s], screen'[s].left = FALSE,
                      ~\E t \in Tasks : Answering(t, s, c)',
                      NEW i \in told', i \in IdsOf(c)', Rank(i)' <= HistoryLimit
               PROVE  i \in IdsShown(s, c)' \/ <<s, i>> \in raced'
    BY DEF RoomInv
  <1>1. Sound /\ Core /\ Sound' /\ Kept /\ told \subseteq Ids /\ ScreensOK
    BY NextIsCore, CoreSound DEF TypeInv, Sound, GhostsOK
  <1>2. c \in rooms[s]
    BY <1>1, RoomEntered
  <1>3. screen[s].left = FALSE
    <2>1. ASSUME NEW r \in Sockets, Unmount(r) PROVE screen[s].left = FALSE
      <3>1. screen' = [screen EXCEPT ![r] = [Blank EXCEPT !.left = TRUE]] /\ screen \in [Sockets -> Screen]
        BY <1>1, <2>1 DEF Unmount, ScreensOK
      <3>2. screen'[r].left = TRUE
        BY <3>1 DEF Blank
      <3>3. s # r
        BY <3>2
      <3> QED BY <3>1, <3>3
    <2> QED BY <1>1, <2>1, CoreScreens DEF SameMessages, Told, Answered
  <1>4. CASE i \notin told
    <2>1. PICK u \in Tasks : BroadcastToRoom(u) /\ task[u].msg = i
      BY <1>1, <1>4, JustTold
    <2>2. PICK d \in Convs : d = task[u].conv
      BY <1>1, <2>1, TaskHasStep, SoundFacts DEF BroadcastToRoom, At
    <2>3. i \in IdsOf(d)
      BY <1>1, <2>1, <2>2, TaskHasStep, SoundFacts DEF BroadcastToRoom, At, Sending
    <2>4. i \in IdsOf(d)' /\ i \in Nat
      BY <1>1, <2>3, Conversations, SoundFacts, RankFacts
    <2>5. c = d
      BY <2>4 DEF IdsOf
    <2> QED BY <1>1, <1>2, <1>3, <2>1, <2>2, <2>4, <2>5, BroadcastFacts
  <1>5. CASE i \in told
    <2>1. i \in IdsOf(c) /\ Rank(i) <= HistoryLimit
      BY <1>1, <1>5, Conversations, SoundFacts
    <2>2. raced \subseteq raced'
      BY NextIsCore
    <2>3. ASSUME NEW t \in Tasks, EmitRecentMessages(t), Answered(t), s \in Client(t), c = task[t].conv
          PROVE  i \in IdsShown(s, c)' \/ <<s, i>> \in raced'
      <3>1. task[t] # Idle /\ task[t].sock = s
        BY <1>1, <2>3, TaskHasStep, SoundFacts DEF EmitRecentMessages, At, Client
      <3>2. JoinsAs(t, s, c)
        BY <2>3, <3>1 DEF EmitRecentMessages, JoinsAs, Joining
      <3>3. InHistory(i, t) \/ <<s, i>> \in raced
        BY <1>5, <2>1, <3>2 DEF HistoryInv
      <3>4. PICK shown : shown = screen'[s].shown[c]
        OBVIOUS
      <3>5. DOMAIN shown = DOMAIN task[t].history /\ \A k \in DOMAIN shown : shown[k].msg = task[t].history[k]
        BY <1>3, <2>3, <3>4 DEF Answered
      <3>6. InHistory(i, t) => i \in IdsShown(s, c)'
        BY <3>4, <3>5 DEF InHistory, IdsShown
      <3> QED BY <2>2, <3>3, <3>6
    <2>4. CASE \E t \in Tasks : Answering(t, s, c)
      <3>1. PICK t \in Tasks : Answering(t, s, c)
        BY <2>4
      <3>2. task'[t] # task[t]
        BY <3>1 DEF Answering, At
      <3>3. ~HandleDisconnect(s)
        <4>1. rooms \in [Sockets -> SUBSET Convs]
          BY <1>1 DEF Sound, ServerOK
        <4> QED BY <4>1 DEF HandleDisconnect
      <3>4. EmitRecentMessages(t)
        BY <1>1, <3>1, <3>2, <3>3, AnswerFate DEF Answering
      <3>5. s \in Client(t) /\ c = task[t].conv
        BY <3>1 DEF Answering, Client
      <3> QED BY <1>1, <2>3, <3>4, <3>5, AnswerFacts
    <2>5. CASE i \in IdsShown(s, c) \/ <<s, i>> \in raced
      <3>1. CASE <<s, i>> \in raced
        BY <2>2, <3>1
      <3>2. CASE i \in IdsShown(s, c) /\ screen'[s].shown[c] = screen[s].shown[c]
        BY <3>2 DEF IdsShown
      <3>3. ASSUME NEW r \in Sockets, Unmount(r) PROVE screen'[s].shown[c] = screen[s].shown[c]
        <4>1. screen' = [screen EXCEPT ![r] = [Blank EXCEPT !.left = TRUE]] /\ screen \in [Sockets -> Screen]
          BY <1>1, <3>3 DEF Unmount, ScreensOK
        <4>2. screen'[r].left = TRUE
          BY <4>1 DEF Blank
        <4>3. s # r
          BY <4>2
        <4> QED BY <4>1, <4>3
      <3>4. ASSUME NEW t \in Tasks, Told(t), i \in IdsShown(s, c) PROVE i \in IdsShown(s, c)'
        <4>1. PICK j \in Nat : j = task[t].msg
          BY <1>1, <3>4, TaskHasStep, SoundFacts DEF Told, Sending, At, IdsOf, Ids
        <4>2. PICK seq \in Seq(Entry) : seq = screen[s].shown[c]
          BY <1>1, ScreenFacts
        <4>3. screen'[s].shown[c] = seq \/ screen'[s].shown[c] = Append(seq, Full(j))
          BY <3>4, <4>1, <4>2 DEF Told, Hears, Full
        <4>4. PICK k \in DOMAIN seq : seq[k].msg = i
          BY <3>4, <4>2 DEF IdsShown
        <4>5. Full(j) \in Entry
          BY DEF Full, Entry
        <4>6. k \in DOMAIN Append(seq, Full(j)) /\ Append(seq, Full(j))[k] = seq[k]
          BY <4>5, AppendProperties, LenProperties
        <4> QED BY <4>2, <4>3, <4>4, <4>6 DEF IdsShown
      <3>5. ASSUME NEW t \in Tasks, Answered(t), EmitRecentMessages(t), i \in IdsShown(s, c)
            PROVE  i \in IdsShown(s, c)' \/ <<s, i>> \in raced'
        <4>1. CASE s \in Client(t) /\ c = task[t].conv
          BY <2>3, <3>5, <4>1
        <4>2. CASE ~(s \in Client(t) /\ c = task[t].conv)
          BY <3>2, <3>5, <4>2 DEF Answered
        <4> QED BY <4>1, <4>2
      <3>6. SameMessages => screen'[s].shown[c] = screen[s].shown[c]
        BY DEF SameMessages
      <3> QED BY <1>1, <2>5, <3>1, <3>2, <3>3, <3>4, <3>5, <3>6, CoreScreens
    <2> QED BY <1>2, <1>3, <1>5, <2>1, <2>4, <2>5 DEF RoomInv
  <1> QED BY <1>4, <1>5

LEMMA RoomInit == Init => HistoryInv /\ RoomInv
  BY DEF Init, ServerInit, PageInit, HistoryInv, RoomInv, JoinsAs, Joining, At

LEMMA RoomsKept == HistoryInv /\ RoomInv /\ UNCHANGED vars => HistoryInv' /\ RoomInv'
  BY DEF vars, serverVars, dbVars, HistoryInv, RoomInv, JoinsAs, Joining, At, InHistory, IdsOf, Ids, Rank,
         Answering, IdsShown

LEMMA RoomShows == TypeInv /\ RoomInv => MissesOnlyRaces
  <1> SUFFICES ASSUME TypeInv, RoomInv, NEW s \in Sockets, NEW c \in Convs, InRoomOf(s, c),
                      NEW i \in told \cap IdsOf(c), Rank(i) <= HistoryLimit
               PROVE  i \in IdsShown(s, c) \/ <<s, i>> \in raced
    BY DEF MissesOnlyRaces
  <1>1. c \in rooms[s] /\ screen[s].left = FALSE
    <2>1. screen[s].left \in BOOLEAN
      BY ScreenFacts DEF TypeInv
    <2> QED BY <2>1 DEF InRoomOf, Open
  <1>2. \A t \in Tasks : ~Answering(t, s, c)
    BY DEF InRoomOf, Quiet, Answering, At
  <1> QED BY <1>1, <1>2 DEF RoomInv

\* Whatever a page in a room does not show of what was broadcast, within the
\* history's limit, was on its way while the page was joining.
THEOREM OnlyRacesAreMissed == Spec => []MissesOnlyRaces
  <1> DEFINE Inv == TypeInv /\ HistoryInv /\ RoomInv
  <1>1. Init => Inv
    BY TypeInit, RoomInit
  <1>2. Inv /\ [Next]_vars => Inv'
    BY TypeStep, HistoryStep, RoomStep, RoomsKept
  <1>3. Inv => MissesOnlyRaces
    BY RoomShows
  <1> QED BY <1>1, <1>2, <1>3, PTL DEF Spec

(***************************************************************************)
(* What a page's step emits, and what it keeps of the page.                *)
(***************************************************************************)
Adds(s, events) == /\ outbox'[s] = outbox[s] \o events
                   /\ \A r \in Sockets \ {s} : outbox'[r] = outbox[r]

LEMMA JoinEmits ==
    ASSUME Sound, NEW s \in Sockets, JoinConversation(s)
    PROVE  /\ UNCHANGED <<rooms, messages>>
           /\ \E events \in Seq(Packet) :
                 /\ Adds(s, events) /\ Len(events) \in {1, 2}
                 /\ events[Len(events)] = [ev |-> "joinConversation", conv |-> page'[s].active]
                 /\ SendsIn(events) = {}
  <1>1. PICK c \in page[s].listed :
            /\ Emit(s, Leave(page[s].active) \o Join(c)) /\ NotServer
            /\ Act(s, [page[s] EXCEPT !.active = c, !.isTyping = FALSE, !.timer = NoConv])
    BY DEF JoinConversation
  <1>2. c \in Convs /\ page[s].active \in Convs \cup {NoConv} /\ page'[s].active = c
    BY <1>1, JoinPage, SoundFacts DEF Page
  <1>3. PICK a \in Convs \cup {NoConv} : a = page[s].active
    BY <1>2
  <1>4. PICK events : events = Leave(a) \o Join(c)
    OBVIOUS
  <1>5. /\ events \in Seq(Packet) /\ Len(events) \in {1, 2}
        /\ events[Len(events)] = [ev |-> "joinConversation", conv |-> c]
        /\ SendsIn(events) = {}
    <2>1. events \in Seq(Packet)
      BY <1>2, <1>3, <1>4, JoinPackets
    <2>2. Len(events) \in {1, 2}
      BY <1>2, <1>3, <1>4, JoinPackets
    <2>3. events[Len(events)] = [ev |-> "joinConversation", conv |-> c]
      BY <1>2, <1>3, <1>4, JoinPackets
    <2>4. SendsIn(events) = {}
      BY <1>2, <1>3, <1>4, JoinPackets
    <2> QED BY <2>1, <2>2, <2>3, <2>4
  <1>6. Adds(s, events)
    BY <1>1, <1>3, <1>4, <1>5, Emits, SoundFacts DEF Adds
  <1>7. UNCHANGED <<rooms, messages>>
    BY <1>1 DEF NotServer, dbVars
  <1> QED BY <1>2, <1>5, <1>6, <1>7

LEMMA PagePackets ==
    ASSUME Sound, NEW s \in Sockets, PageStep(s), ~Disconnect(s), ~ConnectInVain(s)
    PROVE  /\ UNCHANGED <<rooms, messages>>
           /\ \/ UNCHANGED outbox
              \/ \E events \in Seq(Packet) :
                    /\ Adds(s, events)
                    /\ \/ /\ JoinConversation(s) /\ Len(events) \in {1, 2}
                          /\ events[Len(events)] = [ev |-> "joinConversation", conv |-> page'[s].active]
                          /\ SendsIn(events) = {}
                       \/ /\ SendMessage(s) /\ Len(events) = 2
                          /\ events[1].ev = "sendMessage" /\ events[2].ev = "typing"
                       \/ /\ HandleTypingText(s) \/ TypingTimeout(s)
                          /\ \A k \in 1 .. Len(events) : events[k].ev = "typing"
  <1>1. ServerOK
    BY SoundFacts
  <1>2. ASSUME NEW t \in Tasks, Asks(s, t) PROVE UNCHANGED <<rooms, messages, outbox>>
    BY <1>2, AskFacts DEF dbVars
  <1>3. CASE HandleApplicationChat(s) \/ HttpRequest(s)
    BY <1>2, <1>3 DEF HandleApplicationChat, HttpRequest, Asks
  <1>4. CASE \/ FetchUserAndConnect(s) \/ Connect(s) \/ TokenExpires(s) \/ Unmount(s)
            \/ SetConversations(s) \/ FetchFails(s)
    BY <1>4 DEF FetchUserAndConnect, Connect, TokenExpires, Unmount, SetConversations, FetchFails, HandleConnection, serverVars, dbVars
  <1>5. CASE JoinConversation(s)
    BY <1>5, JoinEmits
  <1>6. CASE HandleTypingText(s)
    <2>1. page[s].active \in Convs /\ NotServer
      BY <1>6, SoundFacts DEF HandleTypingText, Page
    <2>2. PICK events : /\ Emit(s, events)
                        /\ events = IF page[s].isTyping THEN <<>> ELSE <<Typing(page[s].active, TRUE)>>
      BY <1>6 DEF HandleTypingText
    <2>3. /\ events \in Seq(Packet)
          /\ \A k \in 1 .. Len(events) : events[k].ev = "typing"
      <3>1. CASE page[s].isTyping
        BY <2>1, <2>2, <3>1, TypingPackets
      <3>2. CASE ~page[s].isTyping
        <4>1. events = <<Typing(page[s].active, TRUE)>>
          BY <2>2, <3>2
        <4>2. events \in Seq(Packet) /\ Len(events) = 1 /\ events[1].ev = "typing"
          BY <2>1, <4>1, TypingPackets
        <4> QED BY <4>2
      <3> QED BY <3>1, <3>2
    <2>4. Adds(s, events)
      BY <1>1, <2>2, <2>3, Emits DEF Adds
    <2> QED BY <1>6, <2>1, <2>3, <2>4 DEF NotServer, dbVars
  <1>7. CASE SendMessage(s)
    <2>1. PICK events : /\ Emit(s, events) /\ NotServer
                        /\ events = <<[ev |-> "sendMessage", conv |-> page[s].active], Typing(page[s].active, FALSE)>>
      BY <1>7 DEF SendMessage
    <2>2. events \in Seq(Packet) /\ Len(events) = 2 /\ events[1].ev = "sendMessage" /\ events[2].ev = "typing"
      BY <1>7, <2>1, SendPage, SendPackets
    <2>3. Adds(s, events)
      BY <1>1, <2>1, <2>2, Emits DEF Adds
    <2> QED BY <1>7, <2>1, <2>2, <2>3 DEF NotServer, dbVars
  <1>8. CASE TypingTimeout(s)
    <2>1. page[s].timer \in Convs /\ NotServer
      BY <1>8, SoundFacts DEF TypingTimeout, Page
    <2>2. PICK events : Emit(s, events) /\ events = <<Typing(page[s].timer, FALSE)>>
      BY <1>8 DEF TypingTimeout
    <2>3. events \in Seq(Packet) /\ Len(events) = 1 /\ events[1].ev = "typing"
      BY <2>1, <2>2, TypingPackets
    <2>4. Adds(s, events)
      BY <1>1, <2>2, <2>3, Emits DEF Adds
    <2>5. \A k \in 1 .. Len(events) : events[k].ev = "typing"
      BY <2>3
    <2> QED BY <1>8, <2>1, <2>3, <2>4, <2>5 DEF NotServer, dbVars
  <1> QED BY <1>3, <1>4, <1>5, <1>6, <1>7, <1>8 DEF PageStep

LEMMA PagePages ==
    ASSUME Sound, NEW s \in Sockets, PageStep(s), NEW r \in Sockets, ~SamePage(r)
    PROVE  r = s /\ (Unmount(s) \/ SetConversations(s) \/ JoinConversation(s) \/ SendMessage(s))
  <1>1. ~Minor(s)
    BY MinorPages
  <1>2. Unmount(s) \/ SetConversations(s) \/ JoinConversation(s) \/ SendMessage(s)
    BY <1>1 DEF PageStep, Minor
  <1>3. page'[r] # page[r]
    BY DEF SamePage
  <1>4. \A q \in Sockets \ {s} : page'[q] = page[q]
    BY <1>2, UnmountPage, ListPage, JoinPage, SendPage DEF JoinConversation
  <1> QED BY <1>2, <1>3, <1>4

LEMMA OutsidePage ==
    ASSUME UNCHANGED page, NEW r \in Sockets
    PROVE  SamePage(r)
  BY DEF SamePage

(***************************************************************************)
(* What has not happened yet.                                              *)
(***************************************************************************)
LEMMA CountersGrow ==
    ASSUME Sound, Core
    PROVE  /\ faults' = 0 => faults = 0
           /\ drops' = 0 => drops = 0 /\ \A s \in Sockets : ~Disconnect(s) /\ ~Unmount(s)
           /\ requests' = 0 => requests = 0 /\ \A s \in Sockets : ~HandleApplicationChat(s) /\ ~HttpRequest(s)
  <1>1. faults \in Nat /\ drops \in Nat /\ requests \in Nat
    BY SoundFacts DEF ServerOK, PagesOK
  <1>2. ASSUME NEW s \in Sockets, Disconnect(s) \/ Unmount(s) PROVE drops' # 0
    BY <1>1, <1>2 DEF Disconnect, Unmount
  <1>3. ASSUME NEW s \in Sockets, HandleApplicationChat(s) \/ HttpRequest(s) PROVE requests' # 0
    BY <1>1, <1>3 DEF HandleApplicationChat, HttpRequest
  <1>4. ASSUME NEW s \in Sockets, PageStep(s)
        PROVE  /\ faults' = faults \/ faults' = faults + 1
               /\ drops' = drops \/ drops' = drops + 1
               /\ requests' = requests \/ requests' = requests + 1
    BY <1>4 DEF PageStep, FetchUserAndConnect, HandleApplicationChat, Connect, ConnectInVain, TokenExpires, Disconnect, Unmount, SetConversations,
         FetchFails, JoinConversation, HandleTypingText, SendMessage, TypingTimeout, HttpRequest, NotServer,
         StartConversation, CreateApplicationConversation, CreateMessage, GetConversation, Request,
         HandleConnection, ConnectionRefused, HandleDisconnect, serverVars, bounds
  <1>5. ASSUME NEW s \in Sockets, SocketStep(s), UNCHANGED <<page, bounds>>
        PROVE  UNCHANGED <<faults, drops, requests>>
    BY <1>5 DEF SocketStep, HandleLeaveRoom, HandleTyping, RefusePacket, HandleJoinRoom, HandleSendMessage, bounds
  <1>6. /\ faults' = faults \/ faults' = faults + 1
        /\ drops' = drops \/ drops' = drops + 1
        /\ requests' = requests \/ requests' = requests + 1
    BY <1>4, <1>5, TaskStepFrame DEF Core
  <1> QED BY <1>1, <1>2, <1>3, <1>6

LEMMA CalmStep ==
    ASSUME Sound, CalmInv, Core
    PROVE  CalmInv'
  <1>1. ASSUME drops' = 0, NEW t \in Tasks, task'[t] # Idle PROVE task'[t].live = TRUE
    <2>1. drops = 0 /\ \A s \in Sockets : ~Disconnect(s)
      BY <1>1, CountersGrow
    <2>2. task[t] # Idle => task[t].live = TRUE
      BY <2>1 DEF CalmInv
    <2>3. CASE task'[t] = task[t]
      BY <1>1, <2>2, <2>3
    <2>4. CASE Started(t)
      BY <2>4 DEF Started
    <2>5. CASE Moves(t)
      BY <2>2, <2>5 DEF Moves, Same
    <2>6. ASSUME NEW s \in Sockets, PageStep(s) PROVE task'[t] = task[t] \/ Started(t)
      BY <2>1, <2>6, PageTasks
    <2>7. ASSUME NEW s \in Sockets, SocketStep(s) PROVE task'[t] = task[t] \/ Started(t)
      <3>1. CASE UNCHANGED task
        BY <3>1
      <3>2. CASE \E u \in Tasks : Started(u) /\ \A v \in Tasks \ {u} : task'[v] = task[v]
        BY <3>2
      <3> QED BY <2>7, <3>1, <3>2, SocketTasks
    <2>8. ASSUME NEW u \in Tasks, TaskStep(u) PROVE task'[t] = task[t] \/ Moves(t)
      BY <1>1, <2>8, TaskStepMoves
    <2> QED BY <2>3, <2>4, <2>5, <2>6, <2>7, <2>8 DEF Core
  <1>2. ASSUME drops' = 0, NEW s \in Sockets PROVE screen'[s].left = FALSE
    <2>1. drops = 0 /\ \A r \in Sockets : ~Unmount(r)
      BY <1>2, CountersGrow
    <2>2. screen[s].left = FALSE
      BY <2>1 DEF CalmInv
    <2> QED BY <2>1, <2>2, CoreScreens DEF SameMessages, Told, Answered
  <1>3. ASSUME requests' = 0, NEW t \in Tasks, task'[t] # Idle PROVE task'[t].kind \in {"join", "send"}
    <2>1. requests = 0 /\ \A s \in Sockets : ~HandleApplicationChat(s) /\ ~HttpRequest(s)
      BY <1>3, CountersGrow
    <2>2. task[t] # Idle => task[t].kind \in {"join", "send"}
      BY <2>1 DEF CalmInv, Kind
    <2>3. CASE task'[t] = task[t]
      BY <1>3, <2>2, <2>3
    <2>4. CASE Waits(t) \/ Moves(t)
      BY <2>2, <2>4 DEF Waits, Moves, Same
    <2>5. ASSUME NEW s \in Sockets, PageStep(s) PROVE task'[t] = task[t] \/ Waits(t)
      BY <2>1, <2>5, PageTasks
    <2>6. ASSUME NEW s \in Sockets, SocketStep(s) PROVE task'[t].kind \in {"join", "send"}
      <3>1. CASE UNCHANGED task
        BY <2>3, <3>1
      <3>2. CASE \E u \in Tasks : task'[u].kind \in {"join", "send"} /\ \A v \in Tasks \ {u} : task'[v] = task[v]
        BY <2>3, <3>2
      <3> QED BY <2>6, <3>1, <3>2, SocketTasks
    <2>7. ASSUME NEW u \in Tasks, TaskStep(u) PROVE task'[t] = task[t] \/ Moves(t)
      BY <1>3, <2>7, TaskStepMoves
    <2> QED BY <2>3, <2>4, <2>5, <2>6, <2>7 DEF Core
  <1> QED BY <1>1, <1>2, <1>3 DEF CalmInv, Kind

(***************************************************************************)
(* The conversation on the screen is joined.                               *)
(***************************************************************************)
LEMMA JoinAppended ==
    ASSUME NEW q \in Seq(Packet), NEW events \in Seq(Packet), NEW c, NoLeave(events, c)
    PROVE  /\ JoinIn(q, c) => JoinIn(q \o events, c)
           /\ NoLeave(q, c) => NoLeave(q \o events, c)
  <1> DEFINE r == q \o events
  <1>1. /\ r \in Seq(Packet) /\ Len(r) = Len(q) + Len(events)
        /\ \A k \in 1 .. Len(r) : r[k] = IF k <= Len(q) THEN q[k] ELSE events[k - Len(q)]
    BY ConcatProperties
  <1>2. /\ DOMAIN q = 1 .. Len(q) /\ DOMAIN events = 1 .. Len(events) /\ DOMAIN r = 1 .. Len(r)
        /\ Len(q) \in Nat /\ Len(events) \in Nat /\ Len(r) \in Nat
    BY <1>1, LenProperties
  <1> HIDE DEF r
  <1>3. ASSUME NEW k \in DOMAIN r, k \notin DOMAIN q PROVE ~Leaves(r[k], c)
    <2>1. k - Len(q) \in DOMAIN events /\ r[k] = events[k - Len(q)]
      BY <1>1, <1>2, <1>3
    <2> QED BY <2>1 DEF NoLeave
  <1>4. \A k \in DOMAIN q : k \in DOMAIN r /\ r[k] = q[k]
    BY <1>1, <1>2
  <1>5. NoLeave(q, c) => NoLeave(r, c)
    BY <1>3, <1>4 DEF NoLeave
  <1>6. JoinIn(q, c) => JoinIn(r, c)
    BY <1>3, <1>4 DEF JoinIn
  <1> QED BY <1>5, <1>6 DEF r

LEMMA JoinAdded ==
    ASSUME NEW q \in Seq(Packet), NEW events \in Seq(Packet), NEW c, Len(events) \in {1, 2},
           events[Len(events)] = [ev |-> "joinConversation", conv |-> c]
    PROVE  JoinIn(q \o events, c)
  <1> DEFINE r == q \o events
  <1>1. /\ r \in Seq(Packet) /\ Len(r) = Len(q) + Len(events)
        /\ \A k \in 1 .. Len(r) : r[k] = IF k <= Len(q) THEN q[k] ELSE events[k - Len(q)]
    BY ConcatProperties
  <1>2. DOMAIN r = 1 .. Len(r) /\ Len(q) \in Nat /\ Len(r) \in Nat
    BY <1>1, LenProperties
  <1> HIDE DEF r
  <1>3. Len(r) \in DOMAIN r /\ r[Len(r)] = events[Len(events)]
    <2>0. PICK n \in {1, 2} : n = Len(events)
      OBVIOUS
    <2>1. PICK m \in Nat : m = Len(q)
      BY <1>2
    <2>2. Len(r) = m + n /\ m + n \in 1 .. (m + n) /\ ~(m + n <= m) /\ (m + n) - m = n
      BY <1>1, <2>0, <2>1
    <2>3. r[m + n] = events[n]
      BY <1>1, <2>0, <2>1, <2>2
    <2> QED BY <1>2, <2>0, <2>1, <2>2, <2>3
  <1>4. r[Len(r)].ev = "joinConversation" /\ r[Len(r)].conv = c
    BY <1>3
  <1>5. \A l \in DOMAIN r : ~(l > Len(r))
    BY <1>2
  <1> QED BY <1>3, <1>4, <1>5 DEF JoinIn, r

LEMMA JoinHeard ==
    ASSUME NEW q \in Seq(Packet), q # <<>>, NEW c
    PROVE  /\ JoinIn(q, c) => \/ JoinIn(Tail(q), c)
                              \/ Head(q).ev = "joinConversation" /\ Head(q).conv = c /\ NoLeave(Tail(q), c)
           /\ NoLeave(q, c) => NoLeave(Tail(q), c) /\ ~Leaves(Head(q), c)
  <1> DEFINE r == Tail(q)
  <1>1. /\ r \in Seq(Packet) /\ Len(r) = Len(q) - 1 /\ Head(q) = q[1]
        /\ \A k \in 1 .. Len(r) : r[k] = q[k + 1]
    BY HeadTailProperties
  <1>2. DOMAIN q = 1 .. Len(q) /\ DOMAIN r = 1 .. Len(r) /\ Len(q) \in Nat \ {0} /\ Len(r) \in Nat
    BY <1>1, LenProperties, EmptySeq
  <1> HIDE DEF r
  <1>3. \A k \in DOMAIN r : k + 1 \in DOMAIN q /\ r[k] = q[k + 1]
    BY <1>1, <1>2
  <1>4. NoLeave(q, c) => NoLeave(r, c) /\ ~Leaves(Head(q), c)
    BY <1>1, <1>2, <1>3 DEF NoLeave
  <1>5. ASSUME NEW k \in DOMAIN q, q[k].ev = "joinConversation", q[k].conv = c,
               \A l \in DOMAIN q : l > k => ~Leaves(q[l], c)
        PROVE  JoinIn(r, c) \/ (Head(q).ev = "joinConversation" /\ Head(q).conv = c /\ NoLeave(r, c))
    <2>1. CASE k = 1
      <3>1. \A l \in DOMAIN r : l + 1 > k
        BY <1>2, <2>1
      <3> QED BY <1>1, <1>3, <1>5, <2>1, <3>1 DEF NoLeave
    <2>2. CASE k # 1
      <3>1. PICK j \in DOMAIN r : k = j + 1
        <4>1. k \in 2 .. Len(q)
          BY <1>2, <2>2
        <4>2. k - 1 \in DOMAIN r /\ k = (k - 1) + 1
          BY <1>1, <1>2, <4>1
        <4> QED BY <4>2
      <3>2. \A l \in DOMAIN r : l > j => l + 1 > k
        BY <1>2, <3>1
      <3> QED BY <1>3, <1>5, <3>1, <3>2 DEF JoinIn
    <2> QED BY <2>1, <2>2
  <1> QED BY <1>4, <1>5 DEF JoinIn, r

\* Nothing about the room of c happens to s.
LEMMA JoinedStays ==
    ASSUME Sound, NEW s \in Sockets, NEW c, Joined(s, c), NEW events \in Seq(Packet), NoLeave(events, c),
           outbox'[s] = outbox[s] \o events \/ outbox'[s] = outbox[s],
           c \in rooms[s] => c \in rooms'[s],
           \A t \in Tasks : JoinTask(t, s, c) => JoinTask(t, s, c)' \/ c \in rooms'[s]
    PROVE  Joined(s, c)'
  <1>1. PICK q \in Seq(Packet) : q = outbox[s]
    BY SoundFacts
  <1>2. JoinIn(q, c) => JoinIn(outbox'[s], c)
    BY <1>1, JoinAppended
  <1>3. NoLeave(q, c) => NoLeave(outbox'[s], c)
    BY <1>1, JoinAppended
  <1>4. CASE JoinIn(q, c)
    BY <1>2, <1>4 DEF Joined
  <1>5. CASE NoLeave(q, c) /\ c \in rooms[s]
    BY <1>3, <1>5 DEF Joined
  <1>6. ASSUME NEW t \in Tasks, NoLeave(q, c), JoinTask(t, s, c) PROVE Joined(s, c)'
    BY <1>3, <1>6 DEF Joined
  <1> QED BY <1>1, <1>4, <1>5, <1>6 DEF Joined

\* A joining handler goes on to the room, as long as nothing fails.
LEMMA JoinTaskGoesOn ==
    ASSUME Sound, CalmInv, Core, drops' = 0, faults' = 0, NEW s \in Sockets, NEW c \in convs,
           NEW t \in Tasks, JoinTask(t, s, c)
    PROVE  JoinTask(t, s, c)' \/ c \in rooms'[s]
  <1>1. /\ drops = 0 /\ faults = 0 /\ \A r \in Sockets : ~Disconnect(r)
        /\ task[t] # Idle /\ task[t].step \in {"find", "join"} /\ Kind(t) = "join"
        /\ task[t].sock = s /\ task[t].conv = c /\ task[t].live = TRUE
    BY CountersGrow DEF JoinTask, CalmInv
  <1>2. CASE task'[t] = task[t]
    BY <1>1, <1>2 DEF JoinTask, Kind
  <1>3. ASSUME NEW r \in Sockets, PageStep(r) PROVE task'[t] = task[t]
    BY <1>1, <1>3, PageTasks DEF Started
  <1>4. ASSUME NEW r \in Sockets, SocketStep(r) PROVE task'[t] = task[t]
    <2>1. CASE UNCHANGED task
      BY <2>1
    <2>2. CASE \E u \in Tasks : Started(u) /\ \A v \in Tasks \ {u} : task'[v] = task[v]
      BY <1>1, <2>2 DEF Started
    <2> QED BY <1>4, <2>1, <2>2, SocketTasks
  <1>5. ASSUME TaskStep(t), UNCHANGED <<page, bounds>> PROVE JoinTask(t, s, c)' \/ c \in rooms'[s]
    <2>1. ~HandlerFails(t)
      BY <1>1, SoundFacts DEF HandlerFails, ServerOK
    <2>2. CASE GetConversationMessages(t)
      <3>1. task' = [task EXCEPT ![t].step = "join", ![t].history = History(task[t].conv)]
        BY <1>1, <2>2 DEF GetConversationMessages
      <3>2. task'[t] # Idle
        <4>2. PICK y \in Task : y = task[t]
          BY <1>1, TaskHasStep, SoundFacts
        <4>3. PICK h \in Seq(Nat) : h = History(task[t].conv)
          BY HistoryFacts, SoundFacts
        <4> DEFINE x == [y EXCEPT !.step = "join", !.history = h]
        <4>4. x \in Task
          BY DEF Task, Steps
        <4>5. task' = [task EXCEPT ![t] = x]
          BY <3>1, <4>2, <4>3
        <4> HIDE DEF x
        <4> QED BY <4>4, <4>5, IdleAssumption DEF Sound, TasksOK
      <3>3. task'[t].step = "join"
        BY <1>1, <3>1, TaskHasStep, SoundFacts DEF TasksOK, Task
      <3>4. Same(t)
        BY <1>5, <3>2, TaskStepMoves DEF Moves
      <3> QED BY <1>1, <3>3, <3>4 DEF Same, JoinTask, Kind
    <2>3. CASE JoinRoom(t)
      <3>1. s \in Client(t)
        BY <1>1 DEF Client
      <3> QED BY <1>1, <2>3, <3>1 DEF JoinRoom
    <2> QED BY <1>1, <1>5, <2>1, <2>2, <2>3 DEF TaskStep, EmitRecentMessages, MarkMessagesAsRead, CheckConversation,
         SaveMessage, BroadcastToRoom, NotifyUser, FindConversation, CreateConversation, At
  <1>6. ASSUME NEW u \in Tasks, u # t, TaskStep(u) PROVE task'[t] = task[t]
    BY <1>6, TaskStepMoves
  <1> QED BY <1>2, <1>3, <1>4, <1>5, <1>6 DEF Core

LEMMA ListedStep ==
    ASSUME Sound, JoinInv, Core, NEW r \in Sockets
    PROVE  page'[r].listed \subseteq convs' /\ page'[r].active \in convs' \cup {NoConv}
  <1>1. convs \subseteq convs'
    <2>1. ASSUME NEW s \in Sockets, PageStep(s) PROVE convs' = convs
      BY <2>1 DEF PageStep, FetchUserAndConnect, HandleApplicationChat, Connect, ConnectInVain, TokenExpires, Disconnect, Unmount, SetConversations,
         FetchFails, JoinConversation, HandleTypingText, SendMessage, TypingTimeout, HttpRequest, NotServer,
         StartConversation, CreateApplicationConversation, CreateMessage, GetConversation, Request,
         HandleConnection, ConnectionRefused, HandleDisconnect, serverVars, dbVars
    <2>2. ASSUME NEW s \in Sockets, SocketStep(s) PROVE convs' = convs
      BY <2>2 DEF SocketStep, HandleLeaveRoom, HandleTyping, RefusePacket, HandleJoinRoom, HandleSendMessage, dbVars
    <2>3. ASSUME NEW t \in Tasks, TaskStep(t), UNCHANGED <<page, bounds>> PROVE convs \subseteq convs'
      BY <2>3, TaskStepFrame DEF CreateConversation
    <2> QED BY <2>1, <2>2, <2>3 DEF Core
  <1>2. page[r].listed \subseteq convs /\ page[r].active \in convs \cup {NoConv}
    BY DEF JoinInv
  <1>3. CASE SamePage(r)
    BY <1>1, <1>2, <1>3 DEF SamePage
  <1>4. CASE Unmount(r)
    BY <1>4, UnmountPage
  <1>5. CASE SetConversations(r)
    BY <1>1, <1>2, <1>5, ListPage
  <1>6. CASE JoinConversation(r)
    BY <1>1, <1>2, <1>6, JoinPage DEF JoinConversation
  <1>7. CASE SendMessage(r)
    BY <1>1, <1>2, <1>7, SendPage
  <1> QED BY <1>3, <1>4, <1>5, <1>6, <1>7, PagePages, OutsidePage DEF Core

LEMMA SocketJoined ==
    ASSUME Sound, NEW s \in Sockets \ expired, SocketStep(s), NEW c, Joined(s, c),
           \A t \in Tasks : JoinTask(t, s, c) => JoinTask(t, s, c)' \/ c \in rooms'[s]
    PROVE  Joined(s, c)'
  <1>1. PICK q \in Seq(Packet) : q = outbox[s]
    BY SoundFacts
  <1>2. q # <<>> /\ Received(s) /\ ServerOK /\ rooms \in [Sockets -> SUBSET Convs]
    BY <1>1, SoundFacts DEF SocketStep, HandleLeaveRoom, HandleTyping, RefusePacket, HandleJoinRoom, HandleSendMessage, Receives, ServerOK
  <1>3. outbox'[s] = Tail(q)
    BY <1>1, <1>2, Receives_
  <1>4. /\ JoinIn(q, c) => \/ JoinIn(Tail(q), c)
                           \/ Head(q).ev = "joinConversation" /\ Head(q).conv = c /\ NoLeave(Tail(q), c)
        /\ NoLeave(q, c) => NoLeave(Tail(q), c) /\ ~Leaves(Head(q), c)
    BY <1>2, JoinHeard
  <1>5. CASE JoinIn(Tail(q), c)
    BY <1>3, <1>5 DEF Joined
  <1>6. CASE Head(q).ev = "joinConversation" /\ Head(q).conv = c /\ NoLeave(Tail(q), c)
    <2>1. ~HandleLeaveRoom(s) /\ ~HandleTyping(s) /\ ~RefusePacket(s) /\ \A t \in Tasks : ~HandleSendMessage(s, t)
      BY <1>1, <1>6 DEF HandleLeaveRoom, HandleTyping, RefusePacket, HandleSendMessage, Receives
    <2>2. PICK t \in Tasks : /\ HandleJoinRoom(s, t) /\ Started(t)
                             /\ task'[t].sock = s /\ task'[t].conv = Head(outbox[s]).conv
                             /\ task'[t].kind = "join" /\ task'[t].step = "find"
      BY <2>1, SocketTasks
    <2>3. JoinTask(t, s, c)'
      BY <1>1, <1>6, <2>2 DEF JoinTask, Kind, Started
    <2> QED BY <1>3, <1>6, <2>3 DEF Joined
  <1>7. CASE NoLeave(q, c) /\ c \in rooms[s]
    <2>1. c \in rooms'[s]
      <3>1. CASE HandleLeaveRoom(s)
        <4>1. Head(q).ev = "leaveConversation" /\ rooms' = [rooms EXCEPT ![s] = @ \ {Head(q).conv}]
          BY <1>1, <3>1 DEF HandleLeaveRoom, Receives
        <4>2. Head(q).conv # c
          BY <1>4, <1>7, <4>1 DEF Leaves
        <4> QED BY <1>2, <1>7, <4>1, <4>2
      <3>2. CASE UNCHANGED rooms
        BY <1>7, <3>2
      <3> QED BY <3>1, <3>2 DEF SocketStep, HandleTyping, RefusePacket, HandleJoinRoom, HandleSendMessage
    <2> QED BY <1>3, <1>4, <1>7, <2>1 DEF Joined
  <1>8. ASSUME NEW t \in Tasks, NoLeave(q, c), JoinTask(t, s, c) PROVE Joined(s, c)'
    BY <1>3, <1>4, <1>8 DEF Joined
  <1> QED BY <1>1, <1>4, <1>5, <1>6, <1>7, <1>8 DEF Joined

LEMMA JoinStep ==
    ASSUME Sound, TokensOK, CalmInv, JoinInv, Core
    PROVE  JoinInv'
  <1> SUFFICES ASSUME drops' = 0, faults' = 0, NEW s \in Sockets \ expired', page'[s].active # NoConv
               PROVE  \A c : c = page'[s].active => Joined(s, c)'
    BY ListedStep DEF JoinInv, Joined
  <1>1. PICK c : c = page'[s].active
    OBVIOUS
  <1>2. /\ drops = 0 /\ faults = 0 /\ \A r \in Sockets : ~Disconnect(r) /\ ~Unmount(r)
        /\ s \in Sockets \ expired /\ ~ConnectInVain(s)
    BY CountersGrow, TokenFacts DEF ConnectInVain, ConnectionRefused
  <1>3. PICK q \in Seq(Packet) : q = outbox[s]
    BY SoundFacts
  <1>4. ASSUME JoinConversation(s) PROVE Joined(s, c)'
    <2>1. PICK events \in Seq(Packet) :
              /\ Adds(s, events) /\ Len(events) \in {1, 2}
              /\ events[Len(events)] = [ev |-> "joinConversation", conv |-> c]
      BY <1>1, <1>4, JoinEmits
    <2>2. outbox'[s] = q \o events
      BY <1>3, <2>1 DEF Adds
    <2>3. JoinIn(q \o events, c)
      BY <2>1, JoinAdded
    <2> QED BY <2>2, <2>3 DEF Joined
  <1>5. CASE page'[s].active # page[s].active
    <2>1. ~SamePage(s)
      BY <1>5 DEF SamePage
    <2>2. PageStep(s) /\ (SetConversations(s) \/ JoinConversation(s) \/ SendMessage(s))
      BY <1>2, <2>1, PagePages, OutsidePage DEF Core
    <2>3. JoinConversation(s)
      BY <1>5, <2>2, ListPage, SendPage
    <2> QED BY <1>1, <1>4, <2>3
  <1>6. CASE page'[s].active = page[s].active
    <2>1. Joined(s, c) /\ c \in convs /\ c \in Convs
      BY <1>1, <1>2, <1>6, SoundFacts DEF JoinInv, ServerOK
    <2>2. \A t \in Tasks : JoinTask(t, s, c) => JoinTask(t, s, c)' \/ c \in rooms'[s]
      BY <2>1, JoinTaskGoesOn
    <2>3. <<>> \in Seq(Packet) /\ NoLeave(<<>>, c)
      BY DEF NoLeave
    <2>4. ASSUME outbox'[s] = outbox[s], c \in rooms[s] => c \in rooms'[s] PROVE Joined(s, c)'
      BY <2>1, <2>2, <2>3, <2>4, JoinedStays
    <2>5. ASSUME NEW r \in Sockets, PageStep(r) PROVE Joined(s, c)'
      <3>1. UNCHANGED rooms
        BY <1>2, <2>5, PagePackets DEF ConnectInVain, ConnectionRefused
      <3>2. CASE r # s \/ UNCHANGED outbox
        <4>1. CASE ConnectInVain(r)
          BY <1>2, <2>4, <3>1, <3>2, <4>1 DEF ConnectInVain, ConnectionRefused
        <4> QED BY <1>2, <2>4, <2>5, <3>1, <3>2, <4>1, PagePackets DEF Adds
      <3>3. CASE r = s /\ JoinConversation(s)
        BY <1>4, <3>3
      <3>4. ASSUME NEW events \in Seq(Packet), Adds(s, events), NoLeave(events, c) PROVE Joined(s, c)'
        BY <2>1, <2>2, <3>1, <3>4, JoinedStays DEF Adds
      <3>5. ASSUME NEW events \in Seq(Packet), \A k \in 1 .. Len(events) : events[k].ev = "typing"
            PROVE  NoLeave(events, c)
        BY <3>5, LenProperties DEF NoLeave, Leaves
      <3>6. ASSUME NEW events \in Seq(Packet), Len(events) = 2, events[1].ev = "sendMessage", events[2].ev = "typing"
            PROVE  NoLeave(events, c)
        <4>1. \A k \in DOMAIN events : k = 1 \/ k = 2
          BY <3>6, LenProperties
        <4> QED BY <3>6, <4>1 DEF NoLeave, Leaves
      <3>7. CASE r = s
        BY <1>2, <2>5, <3>2, <3>3, <3>4, <3>5, <3>6, <3>7, PagePackets
      <3> QED BY <3>2, <3>7
    <2>6. ASSUME NEW r \in Sockets, SocketStep(r) PROVE Joined(s, c)'
      <3>1. CASE r = s
        BY <1>2, <2>1, <2>2, <2>6, <3>1, SocketJoined
      <3>2. CASE r # s
        <4>1. outbox[r] # <<>> /\ Received(r)
          BY <2>6 DEF SocketStep, HandleLeaveRoom, HandleTyping, RefusePacket, HandleJoinRoom, HandleSendMessage, Receives
        <4>2. outbox'[s] = outbox[s]
          BY <3>2, <4>1, Receives_, SoundFacts
        <4>3. rooms'[s] = rooms[s]
          <5>1. HandleLeaveRoom(r) \/ UNCHANGED rooms
            BY <2>6 DEF SocketStep, HandleTyping, RefusePacket, HandleJoinRoom, HandleSendMessage
          <5>2. rooms \in [Sockets -> SUBSET Convs]
            BY SoundFacts DEF ServerOK
          <5> QED BY <3>2, <5>1, <5>2 DEF HandleLeaveRoom
        <4> QED BY <2>4, <4>2, <4>3
      <3> QED BY <3>1, <3>2
    <2>7. ASSUME NEW t \in Tasks, TaskStep(t), UNCHANGED <<page, bounds>> PROVE Joined(s, c)'
      <3>1. UNCHANGED outbox /\ (rooms' = rooms \/ JoinRoom(t))
        BY <2>7, TaskStepFrame
      <3>2. c \in rooms[s] => c \in rooms'[s]
        BY <3>1 DEF JoinRoom
      <3> QED BY <2>4, <3>1, <3>2
    <2> QED BY <1>1, <2>5, <2>6, <2>7 DEF Core
  <1> QED BY <1>1, <1>5, <1>6

LEMMA JoinInit == Init => CalmInv /\ JoinInv
  BY DEF Init, ServerInit, PageInit, Closed, Blank, CalmInv, JoinInv

LEMMA JoinKept == CalmInv /\ JoinInv /\ UNCHANGED vars => CalmInv' /\ JoinInv'
  BY DEF vars, serverVars, dbVars, tokenVars, bounds, CalmInv, JoinInv, Joined, JoinIn, NoLeave, JoinTask, Kind

LEMMA JoinShows == TypeInv /\ JoinInv => ActiveIsJoined
  <1> SUFFICES ASSUME TypeInv, JoinInv, NEW s \in Sockets \ expired, Quiet(s), page[s].active # NoConv, drops = 0, faults = 0
               PROVE  page[s].active \in rooms[s]
    BY DEF ActiveIsJoined
  <1>1. PICK c : c = page[s].active
    OBVIOUS
  <1>2. Joined(s, c)
    BY <1>1 DEF JoinInv
  <1>3. ~JoinIn(outbox[s], c) /\ \A t \in Tasks : ~JoinTask(t, s, c)
    BY DEF Quiet, JoinIn, JoinTask
  <1> QED BY <1>1, <1>2, <1>3 DEF Joined

\* Once all is quiet the conversation on the screen is the one whose room the
\* page is in, unless its token has expired, a connection was lost or a handler failed: whatever the
\* order of clicks, the packet that joins it comes after those that leave it.
THEOREM ScreenIsJoined == Spec => []ActiveIsJoined
  <1> DEFINE Inv == TypeInv /\ CalmInv /\ JoinInv
  <1>1. Init => Inv
    BY TypeInit, JoinInit
  <1>2. Inv /\ Next => CalmInv' /\ JoinInv'
    <2>1. TypeInv => Sound /\ TokensOK
      BY DEF TypeInv, Sound
    <2> QED BY <2>1, NextIsCore, CalmStep, JoinStep
  <1>3. Inv /\ [Next]_vars => Inv'
    BY <1>2, TypeStep, JoinKept
  <1>4. Inv => ActiveIsJoined
    BY JoinShows
  <1> QED BY <1>1, <1>3, <1>4, PTL DEF Spec

(***************************************************************************)
(* What a page sends is stored, or it is told of an error.                 *)
(***************************************************************************)
LEMMA SendsFinite ==
    ASSUME NEW q \in Seq(Packet)
    PROVE  IsFiniteSet(SendsIn(q)) /\ Cardinality(SendsIn(q)) \in Nat
  <1>1. DOMAIN q = 1 .. Len(q) /\ Len(q) \in Nat
    BY LenProperties
  <1>2. IsFiniteSet(1 .. Len(q))
    BY <1>1, FS_Interval
  <1>3. SendsIn(q) \in SUBSET (1 .. Len(q))
    BY <1>1 DEF SendsIn
  <1> QED BY <1>2, <1>3, FS_Subset, FS_CardinalityType

LEMMA SendsAppended ==
    ASSUME NEW q \in Seq(Packet), NEW events \in Seq(Packet)
    PROVE  /\ SendsIn(events) = {} => SendsIn(q \o events) = SendsIn(q)
           /\ Len(events) = 2 /\ events[1].ev = "sendMessage" /\ events[2].ev = "typing"
                 => Cardinality(SendsIn(q \o events)) = Cardinality(SendsIn(q)) + 1
  <1> DEFINE r == q \o events
  <1>1. /\ r \in Seq(Packet) /\ Len(r) = Len(q) + Len(events)
        /\ \A k \in 1 .. Len(r) : r[k] = IF k <= Len(q) THEN q[k] ELSE events[k - Len(q)]
    BY ConcatProperties
  <1>2. /\ DOMAIN q = 1 .. Len(q) /\ DOMAIN events = 1 .. Len(events) /\ DOMAIN r = 1 .. Len(r)
        /\ Len(q) \in Nat /\ Len(events) \in Nat /\ Len(r) \in Nat
    BY <1>1, LenProperties
  <1> HIDE DEF r
  <1>3. \A k \in DOMAIN q : k \in DOMAIN r /\ r[k] = q[k]
    BY <1>1, <1>2
  <1>4. ASSUME NEW k \in DOMAIN r, k \notin DOMAIN q
        PROVE  k - Len(q) \in DOMAIN events /\ r[k] = events[k - Len(q)]
    BY <1>1, <1>2, <1>4
  <1>5. ASSUME SendsIn(events) = {} PROVE SendsIn(r) = SendsIn(q)
    <2>1. \A k \in DOMAIN r : k \notin DOMAIN q => r[k].ev # "sendMessage"
      BY <1>4, <1>5 DEF SendsIn
    <2> QED BY <1>3, <2>1 DEF SendsIn
  <1>6. ASSUME Len(events) = 2, events[1].ev = "sendMessage", events[2].ev = "typing"
        PROVE  Cardinality(SendsIn(r)) = Cardinality(SendsIn(q)) + 1
    <2>1. PICK n \in Nat : n = Len(q)
      BY <1>2
    <2>2. n + 1 \in DOMAIN r /\ n + 1 \notin DOMAIN q /\ (n + 1) - Len(q) = 1
      BY <1>1, <1>2, <1>6, <2>1
    <2>3. r[n + 1].ev = "sendMessage"
      BY <1>4, <1>6, <2>2
    <2>4. ASSUME NEW k \in DOMAIN r, k \notin DOMAIN q, k # n + 1 PROVE r[k].ev # "sendMessage"
      <3>1. k - Len(q) \in DOMAIN events /\ r[k] = events[k - Len(q)]
        BY <1>4, <2>4
      <3>2. k - Len(q) = 2
        BY <1>2, <1>6, <2>1, <2>4, <3>1
      <3> QED BY <1>6, <3>1, <3>2
    <2>5. SendsIn(r) = SendsIn(q) \cup {n + 1} /\ n + 1 \notin SendsIn(q)
      BY <1>3, <2>2, <2>3, <2>4 DEF SendsIn
    <2> QED BY <2>5, SendsFinite, FS_AddElement
  <1> QED BY <1>5, <1>6 DEF r

LEMMA SendsHeard ==
    ASSUME NEW q \in Seq(Packet), q # <<>>
    PROVE  /\ Head(q).ev = "sendMessage" => Cardinality(SendsIn(q)) = Cardinality(SendsIn(Tail(q))) + 1
           /\ Head(q).ev # "sendMessage" => Cardinality(SendsIn(q)) = Cardinality(SendsIn(Tail(q)))
  <1> DEFINE r == Tail(q)
             S == SendsIn(r)
             T == SendsIn(q) \ {1}
             f == [k \in S |-> k + 1]
  <1>1. /\ r \in Seq(Packet) /\ Len(r) = Len(q) - 1 /\ Head(q) = q[1]
        /\ \A k \in 1 .. Len(r) : r[k] = q[k + 1]
    BY HeadTailProperties
  <1>2. DOMAIN q = 1 .. Len(q) /\ DOMAIN r = 1 .. Len(r) /\ Len(q) \in Nat \ {0} /\ Len(r) \in Nat
    BY <1>1, LenProperties, EmptySeq
  <1>3. /\ IsFiniteSet(S) /\ Cardinality(S) \in Nat
        /\ IsFiniteSet(SendsIn(q)) /\ Cardinality(SendsIn(q)) \in Nat
    BY <1>1, SendsFinite
  <1>4. IsFiniteSet(T)
    BY <1>3, FS_Subset
  <1> HIDE DEF r
  <1>5. \A k \in S : k \in DOMAIN r /\ k \in Nat /\ k >= 1 /\ k + 1 \in DOMAIN q /\ r[k] = q[k + 1] /\ r[k].ev = "sendMessage"
    BY <1>1, <1>2 DEF SendsIn
  <1>6. f \in [S -> T]
    <2>1. ASSUME NEW k \in S PROVE k + 1 \in T
      BY <1>5 DEF SendsIn
    <2> QED BY <2>1
  <1>7. f \in Injection(S, T)
    <2>1. \A a, b \in S : a + 1 = b + 1 => a = b
      BY <1>5
    <2>2. \A a, b \in S : f[a] = f[b] => a = b
      BY <2>1
    <2> HIDE DEF f, S, T
    <2> QED BY <1>6, <2>2 DEF Injection, IsInjective
  <1>8. ASSUME NEW m \in T PROVE \E k \in S : f[k] = m
    <2>1. m \in DOMAIN q /\ m # 1 /\ q[m].ev = "sendMessage"
      BY <1>8 DEF SendsIn
    <2>2. PICK k \in DOMAIN r : m = k + 1
      <3>1. m \in 2 .. Len(q)
        BY <1>2, <2>1
      <3>2. m - 1 \in DOMAIN r /\ m = (m - 1) + 1
        BY <1>1, <1>2, <3>1
      <3> QED BY <3>2
    <2>3. r[k] = q[m]
      BY <1>1, <1>2, <2>2
    <2>4. k \in S
      BY <2>1, <2>2, <2>3 DEF SendsIn
    <2> QED BY <2>2, <2>4
  <1>9. f \in Bijection(S, T)
    <2> HIDE DEF f, S, T
    <2>1. f \in Surjection(S, T)
      BY <1>6, <1>8 DEF Surjection
    <2> QED BY <1>7, <2>1 DEF Bijection
  <1>10. Cardinality(S) = Cardinality(T)
    <2> HIDE DEF f, S, T
    <2>1. ExistsBijection(S, T)
      BY <1>9 DEF ExistsBijection
    <2> QED BY <1>3, <1>4, <2>1, FS_Bijection
  <1>11. ASSUME Head(q).ev = "sendMessage"
         PROVE  Cardinality(SendsIn(q)) = Cardinality(SendsIn(Tail(q))) + 1
    <2>1. 1 \in SendsIn(q)
      BY <1>1, <1>2, <1>11 DEF SendsIn
    <2>2. Cardinality(T) = Cardinality(SendsIn(q)) - 1
      BY <1>3, <2>1, FS_RemoveElement
    <2>3. PICK a, b \in Nat : a = Cardinality(SendsIn(q)) /\ b = Cardinality(SendsIn(Tail(q)))
      BY <1>3 DEF r
    <2>4. b = a - 1
      BY <1>10, <2>2, <2>3 DEF r
    <2>5. a = b + 1
      BY <2>4
    <2> QED BY <2>3, <2>5
  <1>12. ASSUME Head(q).ev # "sendMessage"
         PROVE  Cardinality(SendsIn(q)) = Cardinality(SendsIn(Tail(q)))
    <2>1. T = SendsIn(q)
      BY <1>1, <1>12 DEF SendsIn
    <2> QED BY <1>10, <2>1 DEF r
  <1> QED BY <1>11, <1>12

LEMMA SendEmits ==
    ASSUME Sound, NEW s \in Sockets, SendMessage(s)
    PROVE  \E events \in Seq(Packet) :
              /\ Adds(s, events) /\ Len(events) = 2
              /\ events[1].ev = "sendMessage" /\ events[2].ev = "typing"
  <1>1. PICK events : /\ Emit(s, events)
                      /\ events = <<[ev |-> "sendMessage", conv |-> page[s].active], Typing(page[s].active, FALSE)>>
    BY DEF SendMessage
  <1>2. events \in Seq(Packet) /\ Len(events) = 2 /\ events[1].ev = "sendMessage" /\ events[2].ev = "typing"
    BY <1>1, SendPage, SendPackets
  <1>3. Adds(s, events)
    BY <1>1, <1>2, Emits, SoundFacts DEF Adds
  <1> QED BY <1>2, <1>3

\* The numbers that Counted adds up.
LEMMA Numbers ==
    ASSUME Sound, TokensOK, NEW s \in Sockets, Counted(s)
    PROVE  /\ refused[s] \in Nat /\ Cardinality(Posted(s)) \in Nat /\ Cardinality(Pending(s)) \in Nat
           /\ IsFiniteSet(Stored(s)) /\ Cardinality(Stored(s)) \in Nat /\ page[s].sent \in Nat
  <1>1. Cardinality(Posted(s)) \in Nat
    BY SendsFinite, SoundFacts DEF Posted
  <1>2. Cardinality(Pending(s)) \in Nat
    BY FS_CardinalityType DEF Counted
  <1>3. IsFiniteSet(Ids)
    BY SoundFacts, FS_Interval DEF Ids
  <1>4. Stored(s) \in SUBSET Ids
    BY DEF Stored
  <1>5. IsFiniteSet(Stored(s)) /\ Cardinality(Stored(s)) \in Nat
    BY <1>3, <1>4, FS_Subset, FS_CardinalityType
  <1> QED BY <1>1, <1>2, <1>5, SoundFacts DEF Page, TokensOK

LEMMA StoredStays ==
    ASSUME Sound, Kept, Len(messages)' = Len(messages), NEW s \in Sockets
    PROVE  Stored(s)' = Stored(s)
  <1>1. Ids' = Ids
    BY DEF Ids
  <1> QED BY <1>1 DEF Stored, Kept

LEMMA PendingStays ==
    ASSUME NEW s \in Sockets,
           \A t \in Tasks : task'[t] = task[t] \/ (t \in Pending(s)' <=> t \in Pending(s))
    PROVE  Pending(s)' = Pending(s)
  <1>1. \A t \in Tasks : task'[t] = task[t] => (t \in Pending(s)' <=> t \in Pending(s))
    BY DEF Pending, Kind
  <1>2. Pending(s) \subseteq Tasks /\ Pending(s)' \subseteq Tasks
    BY DEF Pending
  <1> QED BY <1>1, <1>2

\* A page whose connection was refused does not get one.
LEMMA CutOffStays ==
    ASSUME Sound, TokensOK, Core, NEW s \in Sockets, CutOff(s)
    PROVE  CutOff(s)'
  <1>1. s \in expired /\ ~Online(s) /\ s \in expired'
    BY TokenFacts DEF CutOff
  <1>2. UNCHANGED userSocketMap \/ \E r \in Sockets : HandleConnection(r) \/ HandleDisconnect(r)
    <2>1. ASSUME NEW r \in Sockets, PageStep(r) PROVE UNCHANGED userSocketMap \/ HandleConnection(r) \/ HandleDisconnect(r)
      BY <2>1 DEF PageStep, FetchUserAndConnect, HandleApplicationChat, Connect, ConnectInVain, ConnectionRefused,
         TokenExpires, Disconnect, Unmount, SetConversations, FetchFails, JoinConversation, HandleTypingText,
         SendMessage, TypingTimeout, HttpRequest, NotServer, StartConversation, CreateApplicationConversation,
         CreateMessage, GetConversation, Request, serverVars
    <2>2. ASSUME NEW r \in Sockets, SocketStep(r) PROVE UNCHANGED userSocketMap
      BY <2>2 DEF SocketStep, HandleLeaveRoom, HandleTyping, RefusePacket, HandleJoinRoom, HandleSendMessage
    <2> QED BY <2>1, <2>2, TaskStepFrame DEF Core
  <1>3. userSocketMap \in [Users -> SUBSET Sockets] /\ \A r \in Sockets : Owner[r] \in Users
    BY SoundFacts DEF ServerOK
  <1>4. ~Online(s)'
    BY <1>1, <1>2, <1>3 DEF Online, HandleConnection, HandleDisconnect
  <1> QED BY <1>1, <1>4 DEF CutOff

\* Only a refused packet of s changes what was refused of it.
LEMMA RefusedStays ==
    ASSUME TokensOK, Core, NEW s \in Sockets, ~RefusePacket(s)
    PROVE  refused'[s] = refused[s]
  BY TokenFacts DEF TokensOK, RefusePacket

LEMMA PageCounted ==
    ASSUME Sound, TokensOK, NEW r \in Sockets, PageStep(r), NEW s \in Sockets, ~CutOff(s), Counted(s),
           refused'[s] = refused[s], drops' = 0, requests' = 0
    PROVE  Counted(s)'
  <1>1. /\ ~Disconnect(r) /\ ~Unmount(r) /\ ~HandleApplicationChat(r) /\ ~HttpRequest(r)
        /\ ConnectInVain(r) => r # s /\ UNCHANGED messages /\ outbox'[s] = outbox[s]
    BY CountersGrow, SoundFacts DEF Core, CutOff, ConnectInVain, ConnectionRefused, dbVars, ServerOK
  <1>2. Pending(s)' = Pending(s)
    BY <1>1, PageTasks, PendingStays
  <1>3. UNCHANGED messages
    BY <1>1, PagePackets
  <1>4. Stored(s)' = Stored(s)
    BY <1>3 DEF Stored, Ids
  <1>5. PICK q \in Seq(Packet) : q = outbox[s]
    BY SoundFacts
  <1>6. CASE r = s /\ SendMessage(s)
    <2>1. PICK events \in Seq(Packet) : /\ Adds(s, events) /\ Len(events) = 2
                                        /\ events[1].ev = "sendMessage" /\ events[2].ev = "typing"
      BY <1>6, SendEmits
    <2>2. outbox'[s] = q \o events
      BY <1>5, <2>1 DEF Adds
    <2>3. Cardinality(SendsIn(q \o events)) = Cardinality(SendsIn(q)) + 1
      BY <2>1, SendsAppended
    <2>4. Cardinality(Posted(s))' = Cardinality(Posted(s)) + 1
      BY <1>5, <2>2, <2>3 DEF Posted
    <2>5. page'[s].sent = page[s].sent + 1
      BY <1>6, SendPage
    <2>6. PICK a, b, c, f \in Nat : /\ a = Cardinality(Posted(s)) /\ b = Cardinality(Pending(s))
                                     /\ c = Cardinality(Stored(s)) /\ f = refused[s]
      BY Numbers
    <2>7. page[s].sent = f + a + b + c
      BY <2>6 DEF Counted
    <2>8. page'[s].sent = f + (a + 1) + b + c
      <3>1. (f + a + b + c) + 1 = f + (a + 1) + b + c
        OBVIOUS
      <3>2. page'[s].sent = (f + a + b + c) + 1
        BY <2>5, <2>7
      <3> QED BY <3>1, <3>2
    <2>9. Cardinality(Posted(s))' = a + 1 /\ refused'[s] = f
      BY <2>4, <2>6
    <2>10. IsFiniteSet(Pending(s)') /\ Cardinality(Pending(s)') = b /\ Cardinality(Stored(s)') = c
      BY <1>2, <1>4, <2>6 DEF Counted
    <2> QED BY <2>8, <2>9, <2>10 DEF Counted
  <1>7. CASE ~(r = s /\ SendMessage(s))
    <2>1. page'[s].sent = page[s].sent
      <3>1. CASE SamePage(s)
        BY <3>1 DEF SamePage
      <3>2. CASE ~SamePage(s)
        <4>1. r = s /\ (SetConversations(s) \/ JoinConversation(s))
          BY <1>1, <1>7, <3>2, PagePages
        <4> QED BY <4>1, ListPage, JoinPage DEF JoinConversation
      <3> QED BY <3>1, <3>2
    <2>2. Cardinality(Posted(s))' = Cardinality(Posted(s))
      <3>1. CASE outbox'[s] = outbox[s]
        BY <3>1 DEF Posted
      <3>2. ASSUME NEW events \in Seq(Packet), outbox'[s] = outbox[s] \o events, SendsIn(events) = {}
            PROVE  Cardinality(Posted(s))' = Cardinality(Posted(s))
        BY <1>5, <3>2, SendsAppended DEF Posted
      <3>3. ASSUME NEW events \in Seq(Packet), \A k \in 1 .. Len(events) : events[k].ev = "typing"
            PROVE  SendsIn(events) = {}
        BY <3>3, LenProperties DEF SendsIn
      <3>4. CASE r # s
        BY <1>1, <3>1, <3>4, PagePackets DEF Adds
      <3>5. CASE r = s
        BY <1>1, <1>7, <3>1, <3>2, <3>3, <3>5, PagePackets DEF Adds
      <3> QED BY <3>4, <3>5
    <2> QED BY <1>2, <1>4, <2>1, <2>2 DEF Counted
  <1> QED BY <1>6, <1>7

LEMMA SocketCounted ==
    ASSUME Sound, TokensOK, NEW r \in Sockets, SocketStep(r), UNCHANGED page, NEW s \in Sockets, Counted(s),
           ~RefusePacket(s) => refused'[s] = refused[s]
    PROVE  Counted(s)'
  <1>1. UNCHANGED messages /\ outbox[r] # <<>> /\ Received(r)
    BY DEF SocketStep, HandleLeaveRoom, HandleTyping, RefusePacket, HandleJoinRoom, HandleSendMessage, Receives, dbVars
  <1>2. Stored(s)' = Stored(s)
    BY <1>1 DEF Stored, Ids
  <1>3. PICK q \in Seq(Packet) : q = outbox[s]
    BY SoundFacts
  <1>4. page'[s].sent = page[s].sent
    OBVIOUS
  <1>5. CASE r # s
    <2>1. outbox'[s] = outbox[s]
      BY <1>1, <1>5, Receives_, SoundFacts
    <2>2. ASSUME NEW t \in Tasks, Started(t), task'[t].sock = r, NEW u \in Tasks, u \notin Tasks \ {t}
          PROVE  u \notin Pending(s)' /\ u \notin Pending(s)
      BY <1>5, <2>2 DEF Started, Pending
    <2>3. Pending(s)' = Pending(s)
      BY <2>2, SocketTasks, PendingStays
    <2>4. Posted(s)' = Posted(s)
      BY <2>1 DEF Posted
    <2>5. refused'[s] = refused[s]
      BY <1>5, <2>1 DEF RefusePacket, TokensOK, SocketStep, HandleLeaveRoom, HandleTyping, HandleJoinRoom,
         HandleSendMessage, tokenVars
    <2> QED BY <1>2, <1>4, <2>3, <2>4, <2>5 DEF Counted
  <1>6. CASE r = s
    <2>1. q # <<>> /\ outbox'[s] = Tail(q)
      BY <1>1, <1>3, <1>6, Receives_, SoundFacts
    <2>2. ASSUME NEW t \in Tasks, HandleSendMessage(s, t) PROVE Counted(s)'
      <3>1. Head(q).ev = "sendMessage"
        BY <1>3, <2>2 DEF HandleSendMessage, Receives
      <3>2. Cardinality(Posted(s)) = Cardinality(Posted(s))' + 1
        BY <1>3, <2>1, <3>1, SendsHeard DEF Posted
      <3>3. /\ ~HandleLeaveRoom(s) /\ ~HandleTyping(s) /\ ~RefusePacket(s) /\ \A u \in Tasks : ~HandleJoinRoom(s, u)
        BY <1>3, <2>2, <3>1 DEF HandleLeaveRoom, HandleTyping, HandleJoinRoom, HandleSendMessage, RefusePacket, Receives
      <3>4. PICK u \in Tasks : /\ Started(u) /\ task'[u].sock = s /\ task'[u].kind = "send" /\ task'[u].step = "check"
                               /\ \A v \in Tasks \ {u} : task'[v] = task[v]
        BY <1>6, <3>3, SocketTasks
      <3>5. u \in Pending(s)' /\ u \notin Pending(s)
        BY <3>4 DEF Started, Pending, Kind
      <3>6. Pending(s)' = Pending(s) \cup {u}
        <4>1. \A v \in Tasks \ {u} : v \in Pending(s)' <=> v \in Pending(s)
          BY <3>4 DEF Pending, Kind
        <4>2. Pending(s) \subseteq Tasks /\ Pending(s)' \subseteq Tasks
          BY DEF Pending
        <4> QED BY <3>5, <4>1, <4>2
      <3>7. IsFiniteSet(Pending(s)') /\ Cardinality(Pending(s)') = Cardinality(Pending(s)) + 1
        BY <3>5, <3>6, FS_AddElement DEF Counted
      <3>8. PICK a, b, c, f \in Nat : /\ a = Cardinality(Posted(s)) /\ b = Cardinality(Pending(s))
                                       /\ c = Cardinality(Stored(s)) /\ f = refused[s]
        BY Numbers
      <3>9. page[s].sent = f + a + b + c
        BY <3>8 DEF Counted
      <3>10. Cardinality(Posted(s))' \in Nat
        <4>1. Tail(q) \in Seq(Packet)
          BY <2>1, HeadTailProperties
        <4> QED BY <2>1, <4>1, SendsFinite DEF Posted
      <3>11. PICK d \in Nat : d = Cardinality(Posted(s))'
        BY <3>10
      <3>12. page[s].sent = f + d + (b + 1) + c
        <4>1. f + (d + 1) + b + c = f + d + (b + 1) + c
          OBVIOUS
        <4>2. a = d + 1
          BY <3>2, <3>8, <3>11
        <4> QED BY <3>9, <4>1, <4>2
      <3>13. refused'[s] = f /\ Cardinality(Stored(s)') = c
        BY <1>2, <3>3, <3>8
      <3>14. IsFiniteSet(Pending(s)') /\ Cardinality(Pending(s)') = b + 1
        BY <3>7, <3>8
      <3> QED BY <1>4, <3>11, <3>12, <3>13, <3>14 DEF Counted
    <2>3. ASSUME RefusePacket(s) PROVE Counted(s)'
      <3>1. Pending(s)' = Pending(s)
        BY <2>3, PendingStays DEF RefusePacket
      <3>2. PICK a, b, c, f \in Nat : /\ a = Cardinality(Posted(s)) /\ b = Cardinality(Pending(s))
                                       /\ c = Cardinality(Stored(s)) /\ f = refused[s]
        BY Numbers
      <3>3. page[s].sent = f + a + b + c
        BY <3>2 DEF Counted
      <3>4. Tail(q) \in Seq(Packet)
        BY <2>1, HeadTailProperties
      <3>5. PICK d \in Nat : d = Cardinality(Posted(s))'
        BY <2>1, <3>4, SendsFinite DEF Posted
      <3>6. CASE Head(q).ev = "sendMessage"
        <4>1. a = d + 1
          BY <1>3, <2>1, <3>2, <3>5, <3>6, SendsHeard DEF Posted
        <4>2. refused'[s] = f + 1
          BY <1>3, <2>3, <3>2, <3>6 DEF RefusePacket, TokensOK
        <4>3. page[s].sent = (f + 1) + d + b + c
          BY <3>2, <3>3, <3>5, <4>1
        <4> QED BY <1>2, <1>4, <3>1, <3>2, <3>5, <4>2, <4>3 DEF Counted
      <3>7. CASE Head(q).ev # "sendMessage"
        <4>1. a = d
          BY <1>3, <2>1, <3>2, <3>5, <3>7, SendsHeard DEF Posted
        <4>2. refused'[s] = f
          BY <1>3, <2>3, <3>2, <3>7 DEF RefusePacket, TokensOK
        <4> QED BY <1>2, <1>4, <3>1, <3>2, <3>3, <3>5, <4>1, <4>2 DEF Counted
      <3> QED BY <3>6, <3>7
    <2>4. ASSUME \A t \in Tasks : ~HandleSendMessage(s, t), ~RefusePacket(s) PROVE Counted(s)'
      <3>1. Head(q).ev # "sendMessage"
        BY <1>3, <1>6, <2>4 DEF SocketStep, HandleLeaveRoom, HandleTyping, HandleJoinRoom, Receives
      <3>2. Cardinality(Posted(s)) = Cardinality(Posted(s))'
        BY <1>3, <2>1, <3>1, SendsHeard DEF Posted
      <3>3. ASSUME NEW t \in Tasks, Started(t), task'[t].kind = "join", NEW u \in Tasks, u \notin Tasks \ {t}
            PROVE  u \notin Pending(s)' /\ u \notin Pending(s)
        BY <3>3 DEF Started, Pending, Kind
      <3>4. Pending(s)' = Pending(s)
        BY <1>6, <2>4, <3>3, SocketTasks, PendingStays
      <3> QED BY <1>2, <1>4, <2>4, <3>2, <3>4 DEF Counted
    <2> QED BY <2>2, <2>3, <2>4
  <1> QED BY <1>5, <1>6

\* A handler that gives up tells its page.
LEMMA GivesUp ==
    ASSUME Sound, CalmInv, drops = 0, NEW t \in Tasks, NEW s \in Sockets, task[t] # Idle,
           Kind(t) = "send", task[t].sock = s,
           (CheckConversation(t) /\ task'[t] = Idle) \/ HandlerFails(t)
    PROVE  screen'[s].error = TRUE
  <1>1. task[t].live = TRUE /\ screen[s].left = FALSE
    BY DEF CalmInv
  <1>2. PICK S : OnError(S) /\ s \in S
    <2>1. s \in Client(t)
      BY <1>1 DEF Client
    <2>2. CASE HandlerFails(t)
      BY <2>1, <2>2 DEF HandlerFails
    <2>3. CASE CheckConversation(t) /\ task'[t] = Idle
      <3>1. ~Resume(t, "save")
        <4>1. PICK y \in Task : y = task[t]
          BY TaskHasStep, SoundFacts
        <4> DEFINE x == [y EXCEPT !.step = "save"]
        <4>2. x \in Task
          BY DEF Task, Steps
        <4>3. Resume(t, "save") => task' = [task EXCEPT ![t] = x]
          BY <4>1 DEF Resume
        <4> HIDE DEF x
        <4> QED BY <2>3, <4>2, <4>3, IdleAssumption DEF Sound, TasksOK
      <3> QED BY <2>1, <2>3, <3>1 DEF CheckConversation
    <2> QED BY <2>2, <2>3
  <1> QED BY <1>1, <1>2, HearsError, SoundFacts

LEMMA TaskCounted ==
    ASSUME Sound, CalmInv, drops = 0, requests = 0, NEW u \in Tasks, TaskStep(u), UNCHANGED <<page, bounds>>,
           NEW s \in Sockets, OnlyPage(s), TokensOK, Counted(s), refused'[s] = refused[s], screen'[s].error # TRUE
    PROVE  Counted(s)'
  <1>1. UNCHANGED <<outbox, page>> /\ task[u] # Idle /\ (messages' = messages \/ SaveMessage(u) \/ MarkMessagesAsRead(u))
    BY TaskStepFrame
  <1>2. Posted(s)' = Posted(s) /\ page'[s].sent = page[s].sent /\ Kept
    BY <1>1, TaskStepKept DEF Posted
  <1>3. Kind(u) \in {"join", "send"} /\ task[u].step \in StepsOf(Kind(u))
    BY <1>1, TaskHasStep, SoundFacts DEF CalmInv
  <1>4. \A v \in Tasks \ {u} : task'[v] = task[v]
    BY TaskStepMoves
  <1>5. ASSUME u \in Pending(s)' <=> u \in Pending(s) PROVE Pending(s)' = Pending(s)
    BY <1>4, <1>5, PendingStays
  <1>6. ASSUME ~SaveMessage(u) PROVE Stored(s)' = Stored(s)
    <2>1. Len(messages)' = Len(messages)
      <3>1. CASE messages' = messages
        BY <3>1
      <3>2. CASE MarkMessagesAsRead(u)
        <4>1. messages' \in [Ids -> Message]
          <5>1. DOMAIN messages' = Ids
            BY <3>2 DEF MarkMessagesAsRead
          <5>2. messages' \in Seq(Message)
            BY <1>2 DEF Kept
          <5> QED BY <5>1, <5>2, LenProperties
        <4>2. messages' \in Seq(Message) /\ DOMAIN messages' = 1 .. Len(messages') /\ Len(messages') \in Nat
          BY <1>2, LenProperties DEF Kept
        <4>3. 1 .. Len(messages') = 1 .. Len(messages) /\ Len(messages) \in Nat
          BY <3>2, <4>2, SoundFacts DEF MarkMessagesAsRead, Ids
        <4> QED BY <4>2, <4>3
      <3> QED BY <1>1, <1>6, <3>1, <3>2
    <2> QED BY <1>2, <2>1, StoredStays
  <1>7. CASE task[u].step \notin {"check", "save"}
    <2>1. ~SaveMessage(u) /\ ~CheckConversation(u)
      BY <1>7 DEF SaveMessage, CheckConversation, At
    <2>2. u \notin Pending(s)
      BY <1>7 DEF Pending
    <2>3. u \notin Pending(s)'
      <3>1. ASSUME task'[u] # Idle, task'[u].step \in {"check", "save"} PROVE FALSE
        <4>1. task'[u].step # "save"
          BY <2>1, <3>1, TaskNextStep
        <4>2. task'[u].step # "check"
          BY <1>3, <3>1, TaskNextStep
        <4> QED BY <3>1, <4>1, <4>2
      <3> QED BY <3>1 DEF Pending
    <2> QED BY <1>2, <1>5, <1>6, <2>1, <2>2, <2>3 DEF Counted
  <1>8. CASE task[u].step \in {"check", "save"} /\ ~SaveMessage(u)
    <2>1. Kind(u) = "send"
      BY <1>3, <1>8 DEF StepsOf
    <2>2. CheckConversation(u) \/ HandlerFails(u)
      BY <1>8, <1>1 DEF TaskStep, GetConversationMessages, JoinRoom, EmitRecentMessages, MarkMessagesAsRead,
           BroadcastToRoom, NotifyUser, FindConversation, CreateConversation, At
    <2>3. CASE CheckConversation(u) /\ task'[u] # Idle
      <3>1. Moves(u)
        BY <2>3, TaskStepMoves
      <3>2. task'[u].step = "save" /\ task[u].step = "check"
        <4>1. Resume(u, "save") /\ task[u].step = "check"
          BY <1>1, <2>3 DEF CheckConversation, At, Finish, Sound, TasksOK
        <4>2. task[u] \in Task /\ task \in [Tasks -> Task \cup {Idle}]
          BY <1>1, TaskHasStep, SoundFacts DEF TasksOK
        <4> QED BY <4>1, <4>2 DEF Resume, Task
      <3>3. u \in Pending(s)' <=> u \in Pending(s)
        BY <3>1, <3>2 DEF Moves, Same, Pending, Kind
      <3> QED BY <1>2, <1>5, <1>6, <1>8, <3>3 DEF Counted
    <2>4. CASE (CheckConversation(u) /\ task'[u] = Idle) \/ HandlerFails(u)
      <3>1. task[u].sock # s
        BY <1>1, <2>1, <2>4, GivesUp
      <3>2. task'[u] = Idle
        BY <2>4, TaskStepMoves
      <3>3. u \notin Pending(s)' /\ u \notin Pending(s)
        BY <3>1, <3>2 DEF Pending
      <3> QED BY <1>2, <1>5, <1>6, <1>8, <3>3 DEF Counted
    <2> QED BY <2>2, <2>3, <2>4
  <1>9. CASE SaveMessage(u)
    <2>1. task[u].step = "save" /\ Kind(u) = "send"
      BY <1>3, <1>9 DEF StepsOf, SaveMessage, At
    <2>2. PICK n \in Nat : n = Len(messages)
      BY SoundFacts
    <2>3. /\ Len(messages)' = n + 1 /\ messages'[n + 1].senderId = Author(u)
          /\ \A i \in Ids : messages'[i] = messages[i]
      BY <1>9, <2>2, SaveFacts
    <2>4. Ids' = Ids \cup {n + 1} /\ n + 1 \notin Ids
      BY <2>2, <2>3 DEF Ids
    <2>5. u \notin Pending(s)'
      <3>1. task'[u].step = "broadcast"
        BY <1>1, <1>9, <2>1, TaskHasStep, SoundFacts DEF SaveMessage, TasksOK, Task
      <3> QED BY <3>1 DEF Pending
    <2>6. CASE task[u].sock # s
      <3>1. Owner[task[u].sock] # Owner[s]
        BY <1>1, <2>6, TaskHasStep, SoundFacts DEF OnlyPage
      <3>2. Stored(s)' = Stored(s)
        BY <2>3, <2>4, <3>1 DEF Stored, Author
      <3>3. u \notin Pending(s)
        BY <2>6 DEF Pending
      <3> QED BY <1>2, <1>5, <2>5, <3>2, <3>3 DEF Counted
    <2>7. CASE task[u].sock = s
      <3>1. Stored(s)' = Stored(s) \cup {n + 1} /\ n + 1 \notin Stored(s)
        BY <2>3, <2>4, <2>7 DEF Stored, Author
      <3>2. u \in Pending(s)
        BY <1>1, <2>1, <2>7 DEF Pending
      <3>3. Pending(s)' = Pending(s) \ {u}
        <4>1. \A v \in Tasks \ {u} : v \in Pending(s)' <=> v \in Pending(s)
          BY <1>4 DEF Pending, Kind
        <4>2. Pending(s) \subseteq Tasks /\ Pending(s)' \subseteq Tasks
          BY DEF Pending
        <4> QED BY <2>5, <4>1, <4>2
      <3>4. IsFiniteSet(Pending(s)') /\ Cardinality(Pending(s)') = Cardinality(Pending(s)) - 1
        BY <3>2, <3>3, FS_RemoveElement DEF Counted
      <3>5. Cardinality(Stored(s)') = Cardinality(Stored(s)) + 1
        BY <3>1, Numbers, FS_AddElement
      <3>6. PICK a, b, c, f \in Nat : /\ a = Cardinality(Posted(s)) /\ b = Cardinality(Pending(s))
                                       /\ c = Cardinality(Stored(s)) /\ f = refused[s]
        BY Numbers
      <3>7. page[s].sent = f + a + b + c
        BY <3>6 DEF Counted
      <3>8. page[s].sent = f + a + (b - 1) + (c + 1)
        BY <3>6, <3>7
      <3> QED BY <1>2, <3>4, <3>5, <3>6, <3>8 DEF Counted
    <2> QED BY <2>6, <2>7
  <1> QED BY <1>7, <1>8, <1>9

LEMMA SentStep ==
    ASSUME Sound, TokensOK, CalmInv, SentInv, Core
    PROVE  SentInv'
  <1> SUFFICES ASSUME drops' = 0, requests' = 0, NEW s \in Sockets, OnlyPage(s), screen'[s].error # TRUE,
                      ~CutOff(s)'
               PROVE  Counted(s)'
    BY DEF SentInv, OnlyPage
  <1>1. drops = 0 /\ requests = 0 /\ \A r \in Sockets : ~Unmount(r)
    BY CountersGrow
  <1>2. screen[s].error # TRUE
    BY <1>1, CoreScreens DEF SameMessages, Told, Answered
  <1>3. Counted(s) /\ ~CutOff(s)
    BY <1>1, <1>2, CutOffStays DEF SentInv
  <1>4. ASSUME NEW r \in Sockets, PageStep(r) PROVE Counted(s)'
    <2>1. refused' = refused
      BY <1>4 DEF PageStep, FetchUserAndConnect, HandleApplicationChat, Connect, ConnectInVain, TokenExpires, Disconnect,
         Unmount, SetConversations, FetchFails, JoinConversation, HandleTypingText, SendMessage, TypingTimeout,
         HttpRequest, NotServer, StartConversation, CreateApplicationConversation, CreateMessage, GetConversation,
         Request, HandleConnection, ConnectionRefused, HandleDisconnect, serverVars, tokenVars
    <2> QED BY <1>3, <1>4, <2>1, PageCounted
  <1>5. ASSUME NEW r \in Sockets, SocketStep(r), UNCHANGED page PROVE Counted(s)'
    BY <1>3, <1>5, RefusedStays, SocketCounted
  <1>6. ASSUME NEW u \in Tasks, TaskStep(u), UNCHANGED <<page, bounds>> PROVE Counted(s)'
    <2>1. outbox' = outbox
      BY <1>6, TaskStepFrame
    <2>2. refused' = refused
      BY <1>6 DEF TaskStep, GetConversationMessages, JoinRoom, EmitRecentMessages, MarkMessagesAsRead,
         CheckConversation, SaveMessage, BroadcastToRoom, NotifyUser, FindConversation, CreateConversation,
         HandlerFails, tokenVars
    <2> QED BY <1>1, <1>3, <1>6, <2>2, TaskCounted
  <1> QED BY <1>4, <1>5, <1>6 DEF Core

LEMMA SentInit == Init => SentInv
  <1> SUFFICES ASSUME Init, NEW s \in Sockets PROVE Counted(s)
    BY DEF SentInv
  <1>1. Posted(s) = {} /\ Pending(s) = {} /\ Stored(s) = {} /\ page[s].sent = 0 /\ refused[s] = 0
    BY DEF Init, ServerInit, PageInit, Closed, Posted, SendsIn, Pending, Stored, Ids
  <1>2. IsFiniteSet({}) /\ Cardinality({}) = 0
    BY FS_EmptySet
  <1> QED BY <1>1, <1>2 DEF Counted

LEMMA SentKept == SentInv /\ UNCHANGED vars => SentInv'
  BY DEF vars, serverVars, dbVars, tokenVars, bounds, SentInv, OnlyPage, CutOff, Online, Counted, Posted, Pending, Stored, Ids, Kind

LEMMA SentShows == TypeInv /\ SentInv => SentIsStoredOrReported
  <1> SUFFICES ASSUME TypeInv, SentInv, NEW s \in Sockets, Online(s), Quiet(s), OnlyPage(s), drops = 0, requests = 0,
                      ~screen[s].error
               PROVE  page[s].sent = refused[s] + Cardinality({i \in Ids : messages[i].senderId = Owner[s]})
    BY DEF SentIsStoredOrReported
  <1>1. Counted(s)
    BY DEF SentInv, CutOff
  <1>2. Posted(s) = {} /\ Pending(s) = {}
    BY DEF Quiet, Posted, SendsIn, Pending
  <1>3. Cardinality({}) = 0
    BY FS_EmptySet
  <1>4. Cardinality(Stored(s)) \in Nat /\ refused[s] \in Nat
    BY <1>1, Numbers DEF TypeInv, Sound
  <1>5. page[s].sent = refused[s] + Cardinality(Stored(s))
    BY <1>1, <1>2, <1>3, <1>4 DEF Counted
  <1> QED BY <1>5 DEF Stored

\* Once all is quiet, what a page sent is stored, was refused because its token had
\* expired, or the page was told of an error, unless a connection was lost: no handler
\* drops a message in silence, only the guard before it does.
THEOREM NothingIsDropped == Spec => []SentIsStoredOrReported
  <1> DEFINE Inv == TypeInv /\ CalmInv /\ SentInv
  <1>1. Init => Inv
    BY TypeInit, JoinInit, SentInit
  <1>2. Inv /\ Next => CalmInv' /\ SentInv'
    <2>1. TypeInv => Sound /\ TokensOK
      BY DEF TypeInv, Sound
    <2> QED BY <2>1, NextIsCore, CalmStep, SentStep
  <1>3. CalmInv /\ UNCHANGED vars => CalmInv'
    BY DEF vars, serverVars, dbVars, bounds, CalmInv, Kind
  <1>4. Inv /\ [Next]_vars => Inv'
    BY <1>2, <1>3, TypeStep, SentKept
  <1>5. Inv => SentIsStoredOrReported
    BY SentShows
  <1> QED BY <1>1, <1>4, <1>5, PTL DEF Spec
===============================================================================
