--------------------------- MODULE SearchIndexProofs ---------------------------
(***************************************************************************)
(* Proofs about SearchIndex, for any posts, columns and bounds.  SearchInv *)
(* adds to the types that a message stands for an event of its post's feed *)
(* and that a post that is live has no JobPostDeleted, so that no consumer *)
(* removes the document of a live post whose deadline was not announced.   *)
(***************************************************************************)
EXTENDS SearchIndex, FiniteSetTheorems, TLAPS

Events == [kind : {"Created", "Updated", "Deleted", "DeadlineReached"}, data : SUBSET Columns]

\* Only these facts about a post's own events matter.
FeedsOK ==
    \A id \in Ids :
        /\ Len(feed[id]) <= MaxFeed
        /\ Feed!Live(id) => Feed!Known(id) /\ Positions(id, {"Deleted"}) = {}
        /\ relayed[id] <= Len(feed[id])
MessagesOK == \A m \in queue : m.pos <= relayed[m.id]
RowsOK == \A id \in sync.bulk \cup sync.add : \E c \in Columns : <<id, c>> \in sync.rows
SearchInv == TypeOK /\ FeedsOK /\ MessagesOK /\ RowsOK

-------------------------------------------------------------------------------
(* The feed: what one step of the service may do to a post. *)

LEMMA FeedTypes ==
    ASSUME TypeOK, NEW id \in Ids
    PROVE  feed[id] \in Seq(Events) /\ Len(feed[id]) \in Nat
  <1>1. feed \in [Ids -> Seq(Events)]
    BY DEF TypeOK, Events
  <1>2. feed[id] \in Seq(Events)
    BY <1>1
  <1> QED BY <1>2

LEMMA CarryingEvents ==
    ASSUME NEW c \in Columns
    PROVE  /\ Feed!CreatedEvent(c) \in Events /\ Feed!CreatedEvent(c).kind = "Created"
           /\ Feed!UpdatedEvent(c) \in Events /\ Feed!UpdatedEvent(c).kind = "Updated"
           /\ Feed!CreatedEvent(c).data = {c} /\ Feed!UpdatedEvent(c).data = {c}
  BY DEF Feed!CreatedEvent, Feed!UpdatedEvent, Events

LEMMA PlainEvents ==
    /\ Feed!DeletedEvent \in Events /\ Feed!DeletedEvent.kind = "Deleted"
    /\ Feed!DeadlineReachedEvent \in Events /\ Feed!DeadlineReachedEvent.kind = "DeadlineReached"
  BY DEF Feed!DeletedEvent, Feed!DeadlineReachedEvent, Events

\* A post's row and feed stay, or the feed grows by one event; the row appears
\* only where nothing was known, and goes only with a JobPostDeleted.
Carries(e) == \E c \in Columns : e.data = {c}
EventSuits(id, e) ==
    \/ e.kind = "Created" /\ ~Feed!Known(id) /\ Carries(e)
    \/ e.kind = "Updated" /\ (row'[id] # NoRow => row[id] # NoRow) /\ Carries(e)
    \/ e.kind = "DeadlineReached" /\ row'[id] = row[id]
    \/ e.kind = "Deleted" /\ row'[id] = NoRow
PostStep(id) ==
    \/ /\ feed'[id] = feed[id]
       /\ \/ row'[id] = row[id]
          \/ row[id] # NoRow /\ row'[id] # NoRow
          \/ ~Feed!Known(id) /\ id \in seeded'
    \/ \E e \in Events :
        /\ feed'[id] = Append(feed[id], e)
        /\ EventSuits(id, e)

FeedStep == /\ row' \in [Ids -> Columns \cup {NoRow}]
            /\ feed' \in [Ids -> Seq(Events)]
            /\ seeded' \subseteq Ids /\ seeded \subseteq seeded'
            /\ \A id \in Ids : PostStep(id)

LEMMA OneEvent ==
    ASSUME TypeOK, NEW i \in Ids, NEW e \in Events, Feed!Publish(i, e), UNCHANGED seeded,
           row' \in [Ids -> Columns \cup {NoRow}],
           \A id \in Ids \ {i} : row'[id] = row[id],
           EventSuits(i, e)
    PROVE  FeedStep
  <1>1. feed \in [Ids -> Seq(Events)] /\ seeded \subseteq Ids
    BY DEF TypeOK, Events
  <1>2. feed' = [feed EXCEPT ![i] = Append(@, e)]
    BY DEF Feed!Publish
  <1>3. ASSUME NEW id \in Ids
        PROVE  feed'[id] \in Seq(Events) /\ PostStep(id)
    <2>1. CASE id = i
      <3>1. feed'[id] = Append(feed[id], e) /\ feed[id] \in Seq(Events)
        BY <1>1, <1>2, <2>1
      <3>2. feed'[id] \in Seq(Events)
        BY <3>1
      <3>3. EventSuits(id, e)
        BY <2>1
      <3> QED BY <3>1, <3>2, <3>3 DEF PostStep
    <2>2. CASE id # i
      <3>1. feed'[id] = feed[id] /\ row'[id] = row[id]
        BY <1>1, <1>2, <2>2
      <3> QED BY <1>1, <3>1 DEF PostStep
    <2> QED BY <2>1, <2>2
  <1>4. feed' \in [Ids -> Seq(Events)]
    BY <1>1, <1>2, <1>3
  <1> QED BY <1>1, <1>3, <1>4 DEF FeedStep

LEMMA FeedNextStep ==
    ASSUME TypeOK, Feed!Next
    PROVE  FeedStep
  <1>0. row \in [Ids -> Columns \cup {NoRow}] /\ feed \in [Ids -> Seq(Events)] /\ seeded \subseteq Ids
    BY DEF TypeOK, Events
  <1>1. ASSUME NEW S \in SUBSET Ids, Feed!Seed(S) PROVE FeedStep
    <2>1. PICK c \in Columns : row' = [id \in Ids |-> IF id \in S THEN c ELSE row[id]]
      BY <1>1 DEF Feed!Seed
    <2>2. feed' = feed /\ seeded' = seeded \cup S /\ \A id \in S : ~Feed!Known(id)
      BY <1>1 DEF Feed!Seed
    <2>3. ASSUME NEW id \in Ids PROVE PostStep(id)
      BY <1>0, <1>1, <2>1, <2>2 DEF PostStep
    <2> QED BY <1>0, <2>1, <2>2, <2>3 DEF FeedStep
  <1>2. ASSUME NEW S \in SUBSET Ids, Feed!Announce(S) PROVE FeedStep
    <2>1. PICK e \in Events : e = Feed!DeadlineReachedEvent /\ e.kind = "DeadlineReached"
      BY PlainEvents
    <2>2. feed' = [id \in Ids |-> IF id \in S THEN Append(feed[id], e) ELSE feed[id]] /\ row' = row /\ seeded' = seeded
      BY <1>2, <2>1 DEF Feed!Announce
    <2>3. ASSUME NEW id \in Ids PROVE PostStep(id) /\ feed'[id] \in Seq(Events)
      <3>1. feed[id] \in Seq(Events) /\ feed'[id] \in {feed[id], Append(feed[id], e)}
        BY <1>0, <2>2
      <3>2. feed'[id] \in Seq(Events)
        <4>1. Append(feed[id], e) \in Seq(Events)
          BY <3>1
        <4> QED BY <3>1, <4>1
      <3>3. EventSuits(id, e)
        BY <2>1, <2>2 DEF EventSuits
      <3>4. row'[id] = row[id]
        BY <2>2
      <3> QED BY <3>1, <3>2, <3>3, <3>4 DEF PostStep
    <2> QED BY <1>0, <2>2, <2>3 DEF FeedStep
  <1>3. ASSUME NEW i \in Ids, Feed!Create(i) PROVE FeedStep
    <2>1. PICK c \in Columns : row' = [row EXCEPT ![i] = c] /\ Feed!Publish(i, Feed!CreatedEvent(c))
      BY <1>3 DEF Feed!Create
    <2>2. PICK e \in Events : e = Feed!CreatedEvent(c) /\ e.kind = "Created" /\ Carries(e)
      BY CarryingEvents DEF Carries
    <2>3. Feed!Publish(i, e) /\ EventSuits(i, e) /\ UNCHANGED seeded
      BY <1>3, <2>1, <2>2 DEF Feed!Create, EventSuits
    <2> QED BY <1>0, <2>1, <2>3, OneEvent
  <1>4. ASSUME NEW i \in Ids, Feed!Update(i) \/ Feed!Trail(i) PROVE FeedStep
    <2>1. PICK c \in Columns : Feed!Publish(i, Feed!UpdatedEvent(c))
      BY <1>4 DEF Feed!Update, Feed!Trail
    <2>2. PICK e \in Events : e = Feed!UpdatedEvent(c) /\ e.kind = "Updated" /\ Carries(e)
      BY CarryingEvents DEF Carries
    <2>3. /\ row' \in [Ids -> Columns \cup {NoRow}] /\ UNCHANGED seeded
          /\ row'[i] # NoRow => row[i] # NoRow
          /\ \A id \in Ids \ {i} : row'[id] = row[id]
      BY <1>0, <1>4 DEF Feed!Update, Feed!Trail, Feed!Live
    <2>4. Feed!Publish(i, e) /\ EventSuits(i, e)
      BY <2>1, <2>2, <2>3 DEF EventSuits
    <2> QED BY <2>3, <2>4, OneEvent
  <1>5. ASSUME NEW i \in Ids, Feed!WriteBack(i) PROVE FeedStep
    <2>1. PICK c \in Columns : row' = [row EXCEPT ![i] = c]
      BY <1>5 DEF Feed!WriteBack
    <2>2. feed' = feed /\ seeded' = seeded /\ row[i] # NoRow
      BY <1>5 DEF Feed!WriteBack, Feed!Live
    <2>3. ASSUME NEW id \in Ids PROVE PostStep(id)
      BY <1>0, <2>1, <2>2, NoRowIsNoColumns DEF PostStep
    <2> QED BY <1>0, <2>1, <2>2, <2>3 DEF FeedStep
  <1>6. ASSUME NEW i \in Ids, Feed!Delete(i) PROVE FeedStep
    <2>1. PICK e \in Events : e = Feed!DeletedEvent /\ e.kind = "Deleted"
      BY PlainEvents
    <2>2. Feed!Publish(i, e) /\ UNCHANGED seeded /\ row' = [row EXCEPT ![i] = NoRow]
      BY <1>6, <2>1 DEF Feed!Delete
    <2>3. EventSuits(i, e)
      BY <1>0, <2>1, <2>2 DEF EventSuits
    <2> QED BY <1>0, <2>2, <2>3, OneEvent
  <1> QED BY <1>1, <1>2, <1>3, <1>4, <1>5, <1>6 DEF Feed!Next

\* Appending an event adds its position, and leaves the others.
LEMMA AppendPositions ==
    ASSUME TypeOK, NEW id \in Ids, NEW e \in Events, feed'[id] = Append(feed[id], e)
    PROVE  /\ Len(feed'[id]) = Len(feed[id]) + 1
           /\ \A kinds : Positions(id, kinds)' =
                Positions(id, kinds) \cup (IF e.kind \in kinds THEN {Len(feed[id]) + 1} ELSE {})
  <1>1. feed[id] \in Seq(Events) /\ Len(feed[id]) \in Nat
    BY FeedTypes
  <1>2. Len(feed'[id]) = Len(feed[id]) + 1
    BY <1>1
  <1>3. \A k \in 1 .. Len(feed[id]) + 1 : feed'[id][k] = IF k = Len(feed[id]) + 1 THEN e ELSE feed[id][k]
    BY <1>1
  <1> QED BY <1>1, <1>2, <1>3 DEF Positions

\* One step of the service keeps what is known of each post.
LEMMA ServiceKeepsFeeds ==
    ASSUME TypeOK, FeedsOK, FeedStep, relayed' = relayed,
           \A id \in Ids : Len(feed'[id]) <= MaxFeed
    PROVE  FeedsOK'
  <1>1. ASSUME NEW id \in Ids
        PROVE  /\ Feed!Live(id)' => Feed!Known(id)' /\ Positions(id, {"Deleted"})' = {}
               /\ relayed'[id] <= Len(feed'[id])
    <2>0. /\ Len(feed[id]) \in Nat /\ relayed[id] \in Nat /\ relayed[id] <= Len(feed[id])
          /\ feed[id] \in Seq(Events)
          /\ Feed!Live(id) => Feed!Known(id) /\ Positions(id, {"Deleted"}) = {}
      <3>1. relayed[id] \in Nat
        BY DEF TypeOK
      <3> QED BY <3>1, FeedTypes DEF FeedsOK
    <2>1. CASE feed'[id] = feed[id]
      <3>1. Positions(id, {"Deleted"})' = Positions(id, {"Deleted"})
        BY <2>1 DEF Positions
      <3>2. Feed!Known(id) => Feed!Known(id)'
        BY <2>1 DEF Feed!Known, FeedStep
      <3>3. CASE Feed!Live(id)
        BY <2>0, <2>1, <3>1, <3>2, <3>3
      <3>4. CASE ~Feed!Live(id) /\ Feed!Live(id)'
        <4>1. ~Feed!Known(id) /\ id \in seeded'
          <5>1. ~(\E e \in Events : feed'[id] = Append(feed[id], e) /\ EventSuits(id, e))
            BY <2>0, <2>1
          <5> QED BY <3>4, <5>1 DEF FeedStep, PostStep, Feed!Live
        <4>2. feed[id] = <<>>
          BY <4>1 DEF Feed!Known
        <4> QED BY <2>0, <2>1, <3>1, <4>1, <4>2 DEF Positions, Feed!Known
      <3> QED BY <2>0, <2>1, <3>3, <3>4
    <2>2. ASSUME NEW e \in Events, feed'[id] = Append(feed[id], e), EventSuits(id, e)
          PROVE  /\ Feed!Live(id)' => Feed!Known(id)' /\ Positions(id, {"Deleted"})' = {}
                 /\ relayed'[id] <= Len(feed'[id])
      <3>1. /\ Len(feed'[id]) = Len(feed[id]) + 1
            /\ Positions(id, {"Deleted"})' =
                 Positions(id, {"Deleted"}) \cup (IF e.kind \in {"Deleted"} THEN {Len(feed[id]) + 1} ELSE {})
        BY <2>2, AppendPositions
      <3>2. feed'[id] # <<>> /\ Feed!Known(id)'
        <4>1. feed'[id] # <<>>
          BY <2>0, <3>1
        <4> QED BY <4>1 DEF Feed!Known
      <3>3. ASSUME Feed!Live(id)' PROVE Positions(id, {"Deleted"})' = {}
        <4>1. e.kind # "Deleted" /\ (Feed!Live(id) \/ ~Feed!Known(id))
          BY <2>2, <3>3 DEF EventSuits, Feed!Live
        <4>2. ~Feed!Known(id) => Positions(id, {"Deleted"}) = {}
          BY <2>0 DEF Feed!Known, Positions
        <4> QED BY <2>0, <3>1, <4>1, <4>2
      <3> QED BY <2>0, <3>1, <3>2, <3>3
    <2> QED BY <2>1, <2>2 DEF FeedStep, PostStep
  <1> QED BY <1>1 DEF FeedsOK

-------------------------------------------------------------------------------
(* Types and SearchInv. *)

LEMMA InitInv == Init => SearchInv
  <1> SUFFICES ASSUME Init PROVE SearchInv
    OBVIOUS
  <1>1. \A id \in Ids : row[id] = NoRow /\ feed[id] = <<>> /\ relayed[id] = 0
    BY DEF Init, Feed!Init
  <1>2. feed \in [Ids -> Seq(Events)]
    BY DEF Init, Feed!Init
  <1>3. /\ row \in [Ids -> Columns \cup {NoRow}] /\ seeded \subseteq Ids
        /\ born \in [Ids -> SUBSET Ids] /\ relayed \in [Ids -> 0 .. MaxFeed]
        /\ queue \subseteq Message /\ parked \subseteq Ids \X (1 .. MaxFeed)
        /\ synced \subseteq Ids /\ redelivered \subseteq Ids /\ restarts \in 0 .. MaxRestarts
    BY PipelineBounds DEF Init, Feed!Init
  <1>4. doc \in [Ids -> Doc \cup {NoDoc}]
    BY Zenon DEF Init
  <1>5. sync \in [phase : {"search", "fetch", "write", "over"}, skip : SUBSET Ids,
                  rows : SUBSET (Ids \X Columns), bulk : SUBSET Ids, add : SUBSET Ids]
    BY DEF Init, SyncStart
  <1>6. TypeOK
    BY <1>2, <1>3, <1>4, <1>5, Zenon DEF TypeOK, Events
  <1>7. FeedsOK
    <2>1. ASSUME NEW id \in Ids PROVE Len(feed[id]) <= MaxFeed /\ ~Feed!Live(id) /\ relayed[id] <= Len(feed[id])
      BY <1>1, PipelineBounds DEF Feed!Live
    <2> QED BY <2>1 DEF FeedsOK
  <1>8. MessagesOK /\ RowsOK
    BY DEF Init, MessagesOK, RowsOK, SyncStart
  <1> QED BY <1>6, <1>7, <1>8 DEF SearchInv

LEMMA ServiceStepInv ==
    ASSUME SearchInv, ServiceStep
    PROVE  SearchInv'
  <1>1. TypeOK /\ FeedsOK /\ MessagesOK /\ RowsOK
    BY DEF SearchInv
  <1>2. FeedStep
    BY <1>1, FeedNextStep DEF ServiceStep
  <1>3. UNCHANGED <<relayed, queue, parked, redelivered, sync, synced, restarts>>
    BY DEF ServiceStep, pipe
  <1>4. born' \in [Ids -> SUBSET Ids]
    BY <1>1 DEF ServiceStep, TypeOK
  <1>5. doc' \in [Ids -> Doc \cup {NoDoc}]
    <2>1. PICK new \in SUBSET Ids :
            doc' = [id \in Ids |-> IF doc[id] = NoDoc THEN NoDoc ELSE [doc[id] EXCEPT !.after = @ \cup new]]
      BY DEF ServiceStep
    <2>2. \A d \in Doc : [d EXCEPT !.after = @ \cup new] \in Doc
      BY DEF Doc
    <2> QED BY <1>1, <2>1, <2>2 DEF TypeOK
  <1>6. TypeOK'
    BY <1>1, <1>2, <1>3, <1>4, <1>5 DEF TypeOK, FeedStep, Events
  <1>7. FeedsOK'
    BY <1>1, <1>2, <1>3, ServiceKeepsFeeds DEF ServiceStep
  <1> QED BY <1>1, <1>3, <1>6, <1>7 DEF SearchInv, MessagesOK, RowsOK

\* The other steps leave the service as it is.
LEMMA FeedsKept ==
    ASSUME FeedsOK, UNCHANGED <<service, relayed>>
    PROVE  FeedsOK'
  BY DEF FeedsOK, service, Feed!Live, Feed!Known, Positions

LEMMA RelayInv ==
    ASSUME SearchInv, NEW id \in Ids, Relay(id)
    PROVE  SearchInv'
  <1>1. TypeOK /\ FeedsOK /\ MessagesOK /\ RowsOK
    BY DEF SearchInv
  <1>2. /\ Len(feed[id]) \in Nat /\ Len(feed[id]) <= MaxFeed /\ relayed[id] \in Nat
        /\ relayed[id] + 1 <= Len(feed[id]) /\ relayed[id] + 1 \in 1 .. MaxFeed
    <2>1. relayed[id] \in Nat /\ relayed[id] < Len(feed[id]) /\ Len(feed[id]) <= MaxFeed
      BY <1>1 DEF Relay, TypeOK, FeedsOK
    <2>2. Len(feed[id]) \in Nat
      BY <1>1, FeedTypes
    <2> QED BY <2>1, <2>2, PipelineBounds
  <1>3. relayed' = [relayed EXCEPT ![id] = relayed[id] + 1] /\ relayed' \in [Ids -> 0 .. MaxFeed]
    BY <1>1, <1>2 DEF Relay, TypeOK
  <1>4. [id |-> id, pos |-> relayed[id] + 1, tries |-> 0] \in Message
    BY <1>2, PipelineBounds DEF Message
  <1>5. queue' \subseteq Message
    BY <1>1, <1>4 DEF Relay, TypeOK
  <1>6. UNCHANGED <<row, feed, seeded, born, parked, redelivered, doc, sync, synced, restarts>>
    BY DEF Relay, service
  <1>7. TypeOK'
    BY <1>1, <1>3, <1>5, <1>6 DEF TypeOK
  <1>8. FeedsOK'
    <2>1. ASSUME NEW i \in Ids PROVE relayed'[i] <= Len(feed'[i])
      BY <1>1, <1>2, <1>3, <1>6 DEF FeedsOK, TypeOK
    <2>2. ASSUME NEW i \in Ids
          PROVE  Len(feed'[i]) <= MaxFeed /\ (Feed!Live(i)' => Feed!Known(i)' /\ Positions(i, {"Deleted"})' = {})
      BY <1>1, <1>6 DEF FeedsOK, Feed!Live, Feed!Known, Positions
    <2> QED BY <2>1, <2>2 DEF FeedsOK
  <1>9. MessagesOK'
    <2>1. ASSUME NEW m \in queue' PROVE m.pos <= relayed'[m.id]
      <3>1. CASE m \in queue
        <4>1. m.id \in Ids /\ m.pos \in Nat /\ m.pos <= relayed[m.id] /\ relayed[m.id] \in Nat
          BY <1>1, <3>1 DEF MessagesOK, TypeOK, Message
        <4> QED BY <1>1, <1>3, <4>1 DEF TypeOK
      <3>2. CASE m = [id |-> id, pos |-> relayed[id] + 1, tries |-> 0]
        BY <1>1, <1>2, <1>3, <3>2 DEF TypeOK
      <3> QED BY <3>1, <3>2 DEF Relay
    <2> QED BY <2>1 DEF MessagesOK
  <1> QED BY <1>1, <1>6, <1>7, <1>8, <1>9 DEF SearchInv, RowsOK

\* A message stands for an event of its post.
LEMMA MessageTypes ==
    ASSUME SearchInv, NEW m \in queue
    PROVE  /\ m \in Message /\ m.id \in Ids /\ m.pos \in 1 .. Len(feed[m.id])
           /\ Event(m) \in Events
  <1>1. TypeOK /\ FeedsOK /\ MessagesOK
    BY DEF SearchInv
  <1>2. m \in Message /\ m.id \in Ids /\ m.pos \in 1 .. MaxFeed
    BY <1>1 DEF TypeOK, Message
  <1>3. feed[m.id] \in Seq(Events) /\ Len(feed[m.id]) \in Nat
    BY <1>1, <1>2, FeedTypes
  <1>4. m.pos <= Len(feed[m.id])
    <2>1. m.pos <= relayed[m.id] /\ relayed[m.id] <= Len(feed[m.id]) /\ relayed[m.id] \in Nat
      BY <1>1, <1>2 DEF MessagesOK, FeedsOK, TypeOK
    <2> QED BY <1>2, <1>3, <2>1, PipelineBounds
  <1>5. m.pos \in 1 .. Len(feed[m.id])
    BY <1>2, <1>3, <1>4, PipelineBounds
  <1> QED BY <1>2, <1>3, <1>5 DEF Event

LEMMA ConsumeInv ==
    ASSUME SearchInv, NEW m \in queue, Consume(m)
    PROVE  SearchInv'
  <1>1. TypeOK /\ FeedsOK /\ MessagesOK /\ RowsOK /\ m \in Message /\ m.id \in Ids /\ Event(m) \in Events
    BY MessageTypes DEF SearchInv
  <1>2. CASE ConsumerThrows(m)
    <2>1. UNCHANGED <<row, feed, seeded, born, relayed, redelivered, doc, sync, synced, restarts>>
      BY <1>2 DEF ConsumerThrows, service
    <2>2. queue' \subseteq Message /\ parked' \subseteq Ids \X (1 .. MaxFeed)
      <3>1. m.pos \in 1 .. MaxFeed /\ m.tries \in 0 .. Retries /\ m.id \in Ids
        BY <1>1 DEF Message
      <3>2. m.tries < Retries => [m EXCEPT !.tries = @ + 1] \in Message
        <4>1. \A t \in 0 .. Retries : [m EXCEPT !.tries = t] \in Message
          BY <1>1 DEF Message
        <4>2. m.tries < Retries => m.tries + 1 \in 0 .. Retries
          BY <3>1, PipelineBounds
        <4> QED BY <4>1, <4>2
      <3>3. <<m.id, m.pos>> \in Ids \X (1 .. MaxFeed)
        BY <3>1
      <3>4. queue \subseteq Message /\ parked \subseteq Ids \X (1 .. MaxFeed)
        BY <1>1 DEF TypeOK
      <3>5. CASE m.tries < Retries /\ queue' = (queue \ {m}) \cup {[m EXCEPT !.tries = @ + 1]} /\ parked' = parked
        BY <3>2, <3>4, <3>5
      <3>6. CASE queue' = queue \ {m} /\ parked' = parked \cup {<<m.id, m.pos>>}
        BY <3>3, <3>4, <3>6
      <3> QED BY <1>2, <3>5, <3>6 DEF ConsumerThrows
    <2>3. TypeOK'
      BY <1>1, <2>1, <2>2 DEF TypeOK
    <2>4. MessagesOK'
      <3>1. \A x \in queue' : \E y \in queue : x.id = y.id /\ x.pos = y.pos
        BY <1>1, <1>2 DEF ConsumerThrows, Message
      <3> QED BY <1>1, <2>1, <3>1 DEF MessagesOK
    <2> QED BY <1>1, <2>1, <2>3, <2>4, FeedsKept DEF SearchInv, RowsOK, service
  <1>3. ASSUME NEW d \in Doc \cup {NoDoc}, doc' = [doc EXCEPT ![m.id] = d], Acknowledge(m)
        PROVE  SearchInv'
    <2>1. UNCHANGED <<row, feed, seeded, born, relayed, parked, sync, synced, restarts>>
      BY <1>3 DEF Acknowledge, service
    <2>2. queue' \subseteq queue /\ redelivered' \subseteq Ids
      BY <1>1, <1>3 DEF Acknowledge, TypeOK
    <2>3. doc' \in [Ids -> Doc \cup {NoDoc}]
      BY <1>1, <1>3 DEF TypeOK
    <2>4. TypeOK'
      BY <1>1, <2>1, <2>2, <2>3 DEF TypeOK
    <2> QED BY <1>1, <2>1, <2>2, <2>4, FeedsKept DEF SearchInv, MessagesOK, RowsOK, service
  <1>4. ASSUME NEW c \in Columns PROVE Fresh(c) \in Doc
    BY DEF Fresh, Doc
  <1>5. Event(m).data \subseteq Columns
    BY <1>1 DEF Events
  <1>6. CASE JobPostCreatedConsumer(m) \/ JobPostUpdatedConsumer(m)
    BY <1>3, <1>4, <1>5, <1>6 DEF JobPostCreatedConsumer, JobPostUpdatedConsumer
  <1>7. CASE DeleteConsumer(m)
    BY <1>3, <1>7 DEF DeleteConsumer
  <1> QED BY <1>2, <1>6, <1>7 DEF Consume

\* A row that was fetched becomes a document.
LEMMA FetchedTypes ==
    ASSUME SearchInv, NEW id \in sync.bulk \cup sync.add
    PROVE  id \in Ids /\ FetchedDoc(id) \in Doc
  <1>1. TypeOK /\ RowsOK
    BY DEF SearchInv
  <1>2. id \in Ids /\ born[id] \in SUBSET Ids
    BY <1>1 DEF TypeOK
  <1>3. Fetched(id) \in Columns
    BY <1>1 DEF RowsOK, Fetched
  <1> QED BY <1>2, <1>3 DEF FetchedDoc, Doc

LEMMA InitDbInv ==
    ASSUME SearchInv, InitDb
    PROVE  SearchInv'
  <1>1. TypeOK /\ FeedsOK /\ MessagesOK /\ RowsOK
    BY DEF SearchInv
  <1> DEFINE SyncType == [phase : {"search", "fetch", "write", "over"}, skip : SUBSET Ids,
                          rows : SUBSET (Ids \X Columns), bulk : SUBSET Ids, add : SUBSET Ids]
  <1>2. ASSUME UNCHANGED <<service, pipe, restarts>>, doc' \in [Ids -> Doc \cup {NoDoc}],
               sync' \in SyncType, RowsOK', synced' \subseteq Ids
        PROVE  SearchInv'
    <2>1. UNCHANGED <<row, feed, seeded, born, relayed, queue, parked, redelivered, restarts>>
      BY <1>2 DEF service, pipe
    <2>2. TypeOK'
      BY <1>1, <1>2, <2>1 DEF TypeOK
    <2>3. FeedsOK' /\ MessagesOK'
      BY <1>1, <2>1, FeedsKept DEF MessagesOK, service
    <2> QED BY <1>2, <2>2, <2>3 DEF SearchInv
  <1>3. sync \in SyncType /\ doc \in [Ids -> Doc \cup {NoDoc}] /\ synced \subseteq Ids
    BY <1>1 DEF TypeOK
  <1>4. CASE SyncSearch
    <2>1. PICK skip \in SUBSET Ids : sync' = [sync EXCEPT !.phase = "fetch", !.skip = skip]
      BY <1>4 DEF SyncSearch
    <2>2. sync' \in SyncType /\ RowsOK'
      BY <1>1, <1>3, <2>1 DEF RowsOK
    <2> QED BY <1>2, <1>3, <1>4, <2>2 DEF SyncSearch
  <1>5. CASE SyncFetch
    <2>1. PICK found \in SUBSET Ids : found = {id \in Ids : Feed!Live(id) /\ id \notin sync.skip}
      OBVIOUS
    <2>2. /\ sync' = [sync EXCEPT !.phase = "write", !.rows = {<<id, row[id]>> : id \in found},
                                  !.bulk = found, !.add = found]
          /\ synced' = synced \cup found /\ UNCHANGED <<service, pipe, doc, restarts>>
      BY <1>5, <2>1 DEF SyncFetch
    <2>3. \A id \in found : row[id] \in Columns
      BY <1>1, <2>1 DEF TypeOK, Feed!Live
    <2>4. sync' \in SyncType
      <3>1. PICK rows : rows = {<<id, row[id]>> : id \in found}
        OBVIOUS
      <3>2. rows \in SUBSET (Ids \X Columns)
        BY <2>3, <3>1
      <3>3. sync' = [sync EXCEPT !.phase = "write", !.rows = rows, !.bulk = found, !.add = found]
        BY <2>2, <3>1
      <3> QED BY <1>3, <3>2, <3>3
    <2>5. RowsOK'
      BY <1>3, <2>2, <2>3 DEF RowsOK
    <2> QED BY <1>2, <1>3, <2>2, <2>4, <2>5
  <1>6. CASE SyncBulk
    <2>1. PICK S \in SUBSET sync.bulk : doc' = [id \in Ids |-> IF id \in S THEN FetchedDoc(id) ELSE doc[id]]
      BY <1>6 DEF SyncBulk
    <2>2. doc' \in [Ids -> Doc \cup {NoDoc}]
      BY <1>3, <2>1, FetchedTypes
    <2>3. sync' = [sync EXCEPT !.bulk = {}] /\ UNCHANGED <<service, pipe, synced, restarts>>
      BY <1>6 DEF SyncBulk
    <2>4. sync' \in SyncType /\ RowsOK'
      BY <1>1, <1>3, <2>3 DEF RowsOK
    <2> QED BY <1>2, <1>3, <2>2, <2>3, <2>4
  <1>7. ASSUME NEW id \in Ids, SyncAdd(id) PROVE SearchInv'
    <2>1. doc' \in [Ids -> Doc \cup {NoDoc}]
      BY <1>3, <1>7, FetchedTypes DEF SyncAdd
    <2>2. sync' \in SyncType /\ RowsOK'
      BY <1>1, <1>3, <1>7 DEF SyncAdd, SyncOver, SyncStart, RowsOK
    <2>3. UNCHANGED <<service, pipe, synced, restarts>>
      BY <1>7 DEF SyncAdd
    <2> QED BY <1>2, <1>3, <2>1, <2>2, <2>3
  <1>8. CASE SyncNothing
    BY <1>2, <1>3, <1>8 DEF SyncNothing, SyncOver, SyncStart, RowsOK
  <1> QED BY <1>4, <1>5, <1>6, <1>7, <1>8 DEF InitDb

LEMMA RestartInv ==
    ASSUME SearchInv, Restart
    PROVE  SearchInv'
  <1>1. TypeOK /\ FeedsOK /\ MessagesOK /\ RowsOK
    BY DEF SearchInv
  <1>2. UNCHANGED <<row, feed, seeded, born, relayed, parked, redelivered, doc, synced>>
    BY DEF Restart, service
  <1>3. \A m \in queue : [m EXCEPT !.tries = 0] \in Message /\ [m EXCEPT !.tries = 0].id = m.id /\ [m EXCEPT !.tries = 0].pos = m.pos
    <2>1. \A m \in Message : [m EXCEPT !.tries = 0] \in Message /\ [m EXCEPT !.tries = 0].id = m.id /\ [m EXCEPT !.tries = 0].pos = m.pos
      BY PipelineBounds DEF Message
    <2> QED BY <1>1, <2>1 DEF TypeOK
  <1>4. queue' \subseteq Message /\ MessagesOK'
    BY <1>1, <1>2, <1>3 DEF Restart, MessagesOK
  <1>5. restarts' \in 0 .. MaxRestarts
    BY <1>1, PipelineBounds DEF Restart, TypeOK
  <1>6. sync' = SyncStart
    BY DEF Restart
  <1>7. TypeOK'
    BY <1>1, <1>2, <1>4, <1>5, <1>6 DEF TypeOK, SyncStart
  <1>8. RowsOK'
    BY <1>6 DEF RowsOK, SyncStart
  <1> QED BY <1>1, <1>2, <1>4, <1>7, <1>8, FeedsKept DEF SearchInv, service

LEMMA StepInv == SearchInv /\ [Next]_vars => SearchInv'
  <1> SUFFICES ASSUME SearchInv, [Next]_vars PROVE SearchInv'
    OBVIOUS
  <1>1. CASE UNCHANGED vars
    BY <1>1 DEF vars, service, pipe, SearchInv, TypeOK, FeedsOK, MessagesOK, RowsOK, Feed!Live, Feed!Known, Positions
  <1> QED BY <1>1, ServiceStepInv, RelayInv, ConsumeInv, InitDbInv, RestartInv DEF Next

\* Every reachable state of service, queue, index and resynchronisation is well
\* typed: no message points past its post's feed, no fetched row is missing.
THEOREM SearchTypeCorrect == Spec => []TypeOK
  <1>1. SearchInv => TypeOK
    BY DEF SearchInv
  <1> QED BY <1>1, InitInv, StepInv, PTL DEF Spec

-------------------------------------------------------------------------------
(* A live post is in the index. *)

\* The posts whose documents nobody removes: every event of theirs writes one.
Kept(id) == Feed!Live(id) /\ Positions(id, {"DeadlineReached"}) = {}

\* A post that is kept was so before, or has no event but an unrelayed JobPostCreated.
LEMMA KeptBefore ==
    ASSUME SearchInv, ServiceStep, NEW id \in Ids, Kept(id)',
           NEW k \in Positions(id, {"Created"})', Applied(id, k)'
    PROVE  Kept(id) /\ k \in Positions(id, {"Created"}) /\ Applied(id, k)
  <1>1. TypeOK /\ FeedsOK /\ FeedStep
    BY FeedNextStep DEF SearchInv, ServiceStep
  <1>2. UNCHANGED <<relayed, queue, parked>>
    BY DEF ServiceStep, pipe
  <1>3. /\ feed[id] \in Seq(Events) /\ Len(feed[id]) \in Nat /\ relayed[id] \in Nat
        /\ relayed[id] <= Len(feed[id]) /\ k \in Nat
    <2>1. feed'[id] \in Seq(Events)
      BY <1>1 DEF FeedStep
    <2>2. k \in Nat
      BY <2>1 DEF Positions
    <2>3. relayed[id] \in Nat
      BY <1>1 DEF TypeOK
    <2> QED BY <1>1, <2>2, <2>3, FeedTypes DEF FeedsOK
  <1>4. Applied(id, k) /\ k <= Len(feed[id])
    <2>1. Applied(id, k)
      BY <1>2 DEF Applied, Waiting
    <2> QED BY <1>3, <2>1 DEF Applied
  <1>5. k \in 1 .. Len(feed[id])
    BY <1>3, <1>4 DEF Positions
  <1>6. Feed!Known(id)
    BY <1>3, <1>5 DEF Feed!Known
  <1>7. CASE feed'[id] = feed[id]
    <2>1. ~(\E e \in Events : feed'[id] = Append(feed[id], e) /\ EventSuits(id, e))
      BY <1>3, <1>7
    <2>2. Feed!Live(id)
      BY <1>1, <1>6, <2>1 DEF FeedStep, PostStep, Kept, Feed!Live
    <2> QED BY <1>4, <1>7, <2>2 DEF Kept, Positions
  <1>8. ASSUME NEW e \in Events, feed'[id] = Append(feed[id], e), EventSuits(id, e)
        PROVE  Kept(id) /\ k \in Positions(id, {"Created"}) /\ Applied(id, k)
    <2>1. \A kinds : Positions(id, kinds)' =
            Positions(id, kinds) \cup (IF e.kind \in kinds THEN {Len(feed[id]) + 1} ELSE {})
      BY <1>1, <1>8, AppendPositions
    <2>2. Positions(id, {"DeadlineReached"}) = {}
      BY <2>1 DEF Kept
    <2>3. k \in Positions(id, {"Created"})
      <3>1. k # Len(feed[id]) + 1
        BY <1>3, <1>4
      <3> QED BY <2>1, <3>1
    <2>4. Feed!Live(id)
      <3>1. e.kind # "DeadlineReached"
        <4>1. e.kind = "DeadlineReached" => Len(feed[id]) + 1 \in Positions(id, {"DeadlineReached"})'
          BY <2>1
        <4> QED BY <4>1 DEF Kept
      <3> QED BY <1>6, <1>8, <3>1 DEF EventSuits, Kept, Feed!Live
    <2> QED BY <1>4, <2>2, <2>3, <2>4 DEF Kept
  <1> QED BY <1>1, <1>7, <1>8 DEF FeedStep, PostStep

\* No message of such a post is a removal.
LEMMA KeptEvents ==
    ASSUME SearchInv, NEW m \in queue, Kept(m.id)
    PROVE  Event(m).kind \in {"Created", "Updated"}
  <1>1. m.id \in Ids /\ m.pos \in 1 .. Len(feed[m.id]) /\ Event(m) \in Events
    BY MessageTypes
  <1>2. Positions(m.id, {"Deleted"}) = {} /\ Positions(m.id, {"DeadlineReached"}) = {}
    BY <1>1 DEF Kept, SearchInv, FeedsOK
  <1>3. Event(m).kind # "Deleted" /\ Event(m).kind # "DeadlineReached"
    BY <1>1, <1>2 DEF Positions, Event
  <1> QED BY <1>1, <1>3 DEF Events

LEMMA ConsumeKeeps ==
    ASSUME SearchInv, LivePostIsIndexed, NEW m \in queue, Consume(m)
    PROVE  LivePostIsIndexed'
  <1>0. UNCHANGED <<row, feed, seeded, relayed>>
    BY DEF Consume, JobPostCreatedConsumer, JobPostUpdatedConsumer, DeleteConsumer, ConsumerThrows, Acknowledge, service
  <1>1. SUFFICES ASSUME NEW id \in Ids, Kept(id), NEW k \in Positions(id, {"Created"}), Applied(id, k)'
                 PROVE  doc'[id] # NoDoc
    BY <1>0 DEF LivePostIsIndexed, Kept, Feed!Live, Positions
  <1>2. TypeOK /\ m.id \in Ids /\ m \in Message /\ Event(m) \in Events
    BY MessageTypes DEF SearchInv
  <1>3. Applied(id, k) => doc[id] # NoDoc
    BY <1>1 DEF LivePostIsIndexed, Kept
  <1>4. CASE ConsumerThrows(m)
    <2>1. \A j : Waiting(id, j) => Waiting(id, j)' \/ <<id, j>> \in parked'
      <3> DEFINE retried == [m EXCEPT !.tries = @ + 1]
      <3>1. retried.id = m.id /\ retried.pos = m.pos
        BY <1>2 DEF Message
      <3> HIDE DEF retried
      <3>2. CASE queue' = (queue \ {m}) \cup {retried}
        BY <3>1, <3>2 DEF Waiting
      <3>3. CASE queue' = queue \ {m} /\ parked' = parked \cup {<<m.id, m.pos>>}
        BY <3>3 DEF Waiting
      <3> QED BY <1>4, <3>1, <3>2, <3>3 DEF ConsumerThrows, retried
    <2>2. parked \subseteq parked' /\ doc' = doc
      BY <1>4 DEF ConsumerThrows
    <2> QED BY <1>0, <1>1, <1>3, <2>1, <2>2 DEF Applied
  <1>5. ASSUME NEW c \in Columns, doc' = [doc EXCEPT ![m.id] = Fresh(c)], Acknowledge(m),
               m.id = id \/ doc[id] # NoDoc
        PROVE  doc'[id] # NoDoc
    <2>1. Fresh(c) # NoDoc
      BY NoDocAssumption DEF Fresh, Doc
    <2> QED BY <1>2, <1>5, <2>1 DEF TypeOK
  <1>6. Acknowledge(m) /\ ~(m.id = id /\ m.pos = k) => Applied(id, k)
    BY <1>0, <1>1 DEF Acknowledge, Applied, Waiting
  <1>7. Event(m).data \subseteq Columns
    BY <1>2 DEF Events
  <1>8. CASE JobPostCreatedConsumer(m) \/ JobPostUpdatedConsumer(m)
    <2>1. Acknowledge(m) /\ \E c \in Columns : doc' = [doc EXCEPT ![m.id] = Fresh(c)]
      BY <1>7, <1>8 DEF JobPostCreatedConsumer, JobPostUpdatedConsumer
    <2>2. m.id = id \/ doc[id] # NoDoc
      BY <1>3, <1>6, <2>1
    <2> QED BY <1>5, <2>1, <2>2
  <1>9. CASE DeleteConsumer(m)
    <2>1. m.id # id
      BY <1>1, <1>9, KeptEvents DEF DeleteConsumer
    <2>2. doc[id] # NoDoc
      BY <1>3, <1>6, <1>9, <2>1 DEF DeleteConsumer
    <2> QED BY <1>2, <1>9, <2>1, <2>2 DEF DeleteConsumer, TypeOK
  <1> QED BY <1>4, <1>8, <1>9 DEF Consume

LEMMA OthersKeep ==
    ASSUME SearchInv, LivePostIsIndexed,
           (\E id \in Ids : Relay(id)) \/ InitDb \/ Restart \/ UNCHANGED vars
    PROVE  LivePostIsIndexed'
  <1>1. UNCHANGED <<row, feed, seeded>>
    BY DEF Relay, InitDb, SyncSearch, SyncFetch, SyncBulk, SyncAdd, SyncNothing, Restart, vars, service
  <1>2. SUFFICES ASSUME NEW id \in Ids, Kept(id), NEW k \in Positions(id, {"Created"}), Applied(id, k)'
                 PROVE  doc'[id] # NoDoc
    BY <1>1 DEF LivePostIsIndexed, Kept, Feed!Live, Positions
  <1>3. TypeOK /\ relayed[id] \in Nat /\ k \in Nat
    <2>1. TypeOK
      BY DEF SearchInv
    <2>2. relayed[id] \in Nat
      BY <2>1 DEF TypeOK
    <2>3. k \in Nat
      BY <2>1, FeedTypes DEF Positions
    <2> QED BY <2>1, <2>2, <2>3
  <1>4. Applied(id, k)
    <2>1. CASE \E i \in Ids : Relay(i)
      <3>1. PICK i \in Ids : Relay(i)
        BY <2>1
      <3>2. ~Waiting(id, k) /\ <<id, k>> \notin parked
        BY <1>2, <3>1 DEF Relay, Applied, Waiting
      <3>3. relayed'[id] = IF id = i THEN relayed[id] + 1 ELSE relayed[id]
        BY <1>3, <3>1 DEF Relay, TypeOK
      <3>4. i = id => k # relayed[id] + 1
        <4>1. [id |-> i, pos |-> relayed[i] + 1, tries |-> 0] \in queue'
          BY <3>1 DEF Relay
        <4>2. \A j : j = relayed[i] + 1 => Waiting(i, j)'
          BY <4>1 DEF Waiting
        <4>3. ~Waiting(id, k)'
          BY <1>2 DEF Applied
        <4> QED BY <4>2, <4>3
      <3> QED BY <1>2, <1>3, <3>2, <3>3, <3>4 DEF Applied
    <2>2. CASE Restart
      <3>1. \A j : Waiting(id, j) => Waiting(id, j)'
        <4>1. ASSUME NEW m \in queue
              PROVE  \E x \in queue' : x.id = m.id /\ x.pos = m.pos
          <5>1. [m EXCEPT !.tries = 0] \in queue' /\ m \in Message
            BY <1>3, <2>2 DEF Restart, TypeOK
          <5>2. [m EXCEPT !.tries = 0].id = m.id /\ [m EXCEPT !.tries = 0].pos = m.pos
            BY <5>1 DEF Message
          <5> QED BY <5>1, <5>2
        <4> QED BY <4>1 DEF Waiting
      <3> QED BY <1>2, <2>2, <3>1 DEF Restart, Applied
    <2>3. CASE InitDb \/ UNCHANGED vars
      <3>1. UNCHANGED <<relayed, queue, parked>>
        BY <2>3 DEF InitDb, SyncSearch, SyncFetch, SyncBulk, SyncAdd, SyncNothing, vars, pipe
      <3> QED BY <1>2, <3>1 DEF Applied, Waiting
    <2> QED BY <2>1, <2>2, <2>3
  <1>5. doc[id] # NoDoc
    BY <1>2, <1>4 DEF LivePostIsIndexed, Kept
  <1>6. CASE SyncBulk
    <2>1. PICK S \in SUBSET sync.bulk : doc' = [i \in Ids |-> IF i \in S THEN FetchedDoc(i) ELSE doc[i]]
      BY <1>6 DEF SyncBulk
    <2>2. id \in S => FetchedDoc(id) # NoDoc
      BY FetchedTypes, NoDocAssumption
    <2> QED BY <1>5, <2>1, <2>2
  <1>7. ASSUME NEW i \in Ids, SyncAdd(i) PROVE doc'[id] # NoDoc
    <2>1. FetchedDoc(i) # NoDoc
      BY <1>7, FetchedTypes, NoDocAssumption DEF SyncAdd
    <2> QED BY <1>3, <1>5, <1>7, <2>1 DEF SyncAdd, TypeOK
  <1>8. CASE (\E i \in Ids : Relay(i)) \/ SyncSearch \/ SyncFetch \/ SyncNothing \/ Restart \/ UNCHANGED vars
    BY <1>5, <1>8 DEF Relay, SyncSearch, SyncFetch, SyncNothing, Restart, vars
  <1> QED BY <1>6, <1>7, <1>8 DEF InitDb

LEMMA ServiceKeeps ==
    ASSUME SearchInv, LivePostIsIndexed, ServiceStep
    PROVE  LivePostIsIndexed'
  <1>1. SUFFICES ASSUME NEW id \in Ids, Kept(id)', NEW k \in Positions(id, {"Created"})', Applied(id, k)'
                 PROVE  doc'[id] # NoDoc
    BY DEF LivePostIsIndexed, Kept
  <1>2. doc[id] # NoDoc
    BY <1>1, KeptBefore DEF LivePostIsIndexed, Kept
  <1>3. doc[id] \in Doc
    BY <1>2 DEF SearchInv, TypeOK
  <1>4. PICK new \in SUBSET Ids :
          doc' = [i \in Ids |-> IF doc[i] = NoDoc THEN NoDoc ELSE [doc[i] EXCEPT !.after = @ \cup new]]
    BY DEF ServiceStep
  <1>5. [doc[id] EXCEPT !.after = @ \cup new] \in Doc
    BY <1>3 DEF Doc
  <1> QED BY <1>2, <1>4, <1>5, NoDocAssumption

\* In every order of messages, repetitions, failures and resynchronisations, a
\* post that is live and not announced is in the index once it was put there.
THEOREM LivePostsStayIndexed == Spec => []LivePostIsIndexed
  <1>1. Init => LivePostIsIndexed
    BY DEF Init, Feed!Init, LivePostIsIndexed, Feed!Live
  <1>2. SearchInv /\ LivePostIsIndexed /\ [Next]_vars => LivePostIsIndexed'
    BY ServiceKeeps, ConsumeKeeps, OthersKeep DEF Next
  <1> QED BY <1>1, <1>2, InitInv, StepInv, PTL DEF Spec
-------------------------------------------------------------------------------
(* What an update wrote stays.  UpdateInv: a post has one JobPostCreated, its  *)
(* first event, and one message per event that waits; while no event of the   *)
(* post came twice and no resynchronisation fetched it, its document is there *)
(* only once JobPostCreated is done, so no update is done before that, and    *)
(* nothing writes the document after its last update.                         *)

CreatedDone(id) == \E k \in Positions(id, {"Created"}) : k <= relayed[id] /\ ~Waiting(id, k)
EventsOK ==
    \A id \in Ids :
        /\ \A k \in Positions(id, {"Created"}) : k = 1
        /\ \A k \in Positions(id, {"Created", "Updated"}) : Carries(feed[id][k])
MessagesOnce == \A m, n \in queue : m.id = n.id /\ m.pos = n.pos => m = n
SyncedOK == sync.bulk \cup sync.add \subseteq synced
AfterCreation(id) ==
    \/ CreatedDone(id)
    \/ doc[id] = NoDoc /\ \A k \in Positions(id, {"Updated"}) : ~Applied(id, k)
LastUpdate(id) ==
    \A k \in 1 .. MaxFeed :
        Positions(id, {"Updated"}) = {k} /\ Applied(id, k) /\ doc[id] # NoDoc =>
            feed[id][k].data = {doc[id].data}
UpdateInv == /\ EventsOK /\ MessagesOnce /\ SyncedOK
             /\ \A id \in Ids \ (synced \cup redelivered) : AfterCreation(id) /\ LastUpdate(id)

LEMMA InitUpdateInv == Init => UpdateInv
  <1> SUFFICES ASSUME Init PROVE UpdateInv
    OBVIOUS
  <1>1. \A id \in Ids : feed[id] = <<>> /\ doc[id] = NoDoc
    BY DEF Init, Feed!Init
  <1>2. \A id \in Ids : \A kinds : Positions(id, kinds) = {}
    BY <1>1 DEF Positions
  <1> QED BY <1>1, <1>2 DEF Init, UpdateInv, EventsOK, MessagesOnce, SyncedOK, AfterCreation, LastUpdate, SyncStart

\* The events a post has stay where they are.
LEMMA EarlierEvents ==
    ASSUME TypeOK, FeedStep, NEW id \in Ids
    PROVE  /\ Len(feed[id]) \in Nat /\ Len(feed'[id]) \in Nat /\ Len(feed[id]) <= Len(feed'[id])
           /\ \A k \in 1 .. Len(feed[id]) : feed'[id][k] = feed[id][k]
           /\ \A kinds : \A k \in 1 .. Len(feed[id]) : k \in Positions(id, kinds)' <=> k \in Positions(id, kinds)
  <1>1. feed[id] \in Seq(Events) /\ Len(feed[id]) \in Nat
    BY FeedTypes
  <1>2. /\ Len(feed'[id]) \in Nat /\ Len(feed[id]) <= Len(feed'[id])
        /\ \A k \in 1 .. Len(feed[id]) : feed'[id][k] = feed[id][k]
    <2>1. CASE feed'[id] = feed[id]
      BY <1>1, <2>1
    <2>2. ASSUME NEW e \in Events, feed'[id] = Append(feed[id], e)
          PROVE  /\ Len(feed'[id]) \in Nat /\ Len(feed[id]) <= Len(feed'[id])
                 /\ \A k \in 1 .. Len(feed[id]) : feed'[id][k] = feed[id][k]
      BY <1>1, <2>2
    <2> QED BY <2>1, <2>2 DEF FeedStep, PostStep
  <1> QED BY <1>1, <1>2 DEF Positions

LEMMA ServiceKeepsEvents ==
    ASSUME TypeOK, FeedStep, EventsOK
    PROVE  EventsOK'
  <1>1. SUFFICES ASSUME NEW id \in Ids, NEW k \in Positions(id, {"Created", "Updated"})'
                 PROVE  (k \in Positions(id, {"Created"})' => k = 1) /\ Carries(feed'[id][k])
    BY DEF EventsOK, Positions
  <1>2. /\ feed[id] \in Seq(Events) /\ Len(feed[id]) \in Nat
        /\ \A j \in 1 .. Len(feed[id]) : feed'[id][j] = feed[id][j]
    BY FeedTypes, EarlierEvents
  <1>3. CASE k \in 1 .. Len(feed[id])
    <2>1. k \in Positions(id, {"Created", "Updated"})
      BY <1>1, <1>2, <1>3 DEF Positions
    <2>2. k \in Positions(id, {"Created"})' => k \in Positions(id, {"Created"})
      BY <1>2, <1>3 DEF Positions
    <2> QED BY <1>2, <1>3, <2>1, <2>2 DEF EventsOK
  <1>4. CASE k \notin 1 .. Len(feed[id])
    <2>1. feed'[id] # feed[id]
      BY <1>1, <1>4 DEF Positions
    <2>2. PICK e \in Events : feed'[id] = Append(feed[id], e) /\ EventSuits(id, e)
      BY <2>1 DEF FeedStep, PostStep
    <2>3. k = Len(feed[id]) + 1 /\ feed'[id][k] = e
      <3>1. Len(feed'[id]) = Len(feed[id]) + 1 /\ k \in 1 .. Len(feed'[id])
        BY <1>1, <1>2, <2>2 DEF Positions
      <3> QED BY <1>2, <1>4, <2>2, <3>1
    <2>4. e.kind \in {"Created", "Updated"} /\ (k \in Positions(id, {"Created"})' => e.kind = "Created")
      BY <1>1, <2>3 DEF Positions
    <2>5. Carries(e) /\ (e.kind = "Created" => ~Feed!Known(id))
      BY <2>2, <2>4 DEF EventSuits
    <2>6. ~Feed!Known(id) => Len(feed[id]) = 0
      BY DEF Feed!Known
    <2> QED BY <2>3, <2>4, <2>5, <2>6
  <1> QED BY <1>3, <1>4

LEMMA ServiceKeepsUpdates ==
    ASSUME SearchInv, UpdateInv, ServiceStep
    PROVE  UpdateInv'
  <1>1. TypeOK /\ FeedsOK /\ FeedStep
    BY FeedNextStep DEF SearchInv, ServiceStep
  <1>2. UNCHANGED <<relayed, queue, parked, redelivered, sync, synced>>
    BY DEF ServiceStep, pipe
  <1>3. EventsOK'
    BY <1>1, ServiceKeepsEvents DEF UpdateInv
  <1>4. \A id \in Ids : \A k : Applied(id, k)' <=> Applied(id, k)
    BY <1>2 DEF Applied, Waiting
  <1>5. \A id \in Ids : relayed[id] \in Nat /\ relayed[id] <= Len(feed[id]) /\ Len(feed[id]) \in Nat
    <2>1. \A id \in Ids : relayed[id] \in Nat
      BY <1>1 DEF TypeOK
    <2> QED BY <1>1, <2>1, FeedTypes DEF FeedsOK
  <1>6. PICK new \in SUBSET Ids :
          doc' = [i \in Ids |-> IF doc[i] = NoDoc THEN NoDoc ELSE [doc[i] EXCEPT !.after = @ \cup new]]
    BY DEF ServiceStep
  <1>7. ASSUME NEW id \in Ids
        PROVE  /\ doc[id] = NoDoc => doc'[id] = NoDoc
               /\ doc'[id] # NoDoc => doc[id] # NoDoc /\ doc'[id].data = doc[id].data
    <2>1. doc[id] \in Doc \cup {NoDoc}
      BY <1>1 DEF TypeOK
    <2>2. doc[id] \in Doc => [doc[id] EXCEPT !.after = @ \cup new].data = doc[id].data
      BY DEF Doc
    <2> QED BY <1>6, <2>1, <2>2
  <1>8. ASSUME NEW id \in Ids \ (synced \cup redelivered) PROVE AfterCreation(id)'
    <2>1. SUFFICES ASSUME ~CreatedDone(id)'
                   PROVE  doc'[id] = NoDoc /\ \A k \in Positions(id, {"Updated"})' : ~Applied(id, k)'
      BY DEF AfterCreation
    <2>2. \A k \in Positions(id, {"Created"}) : k \in Positions(id, {"Created"})'
      BY <1>1, <1>5, EarlierEvents DEF Positions
    <2>3. ~CreatedDone(id)
      BY <1>2, <2>1, <2>2 DEF CreatedDone, Waiting
    <2>4. doc[id] = NoDoc /\ \A k \in Positions(id, {"Updated"}) : ~Applied(id, k)
      BY <2>3 DEF UpdateInv, AfterCreation
    <2>5. ASSUME NEW k \in Positions(id, {"Updated"})', Applied(id, k)' PROVE FALSE
      <3>1. Applied(id, k) /\ k \in 1 .. Len(feed'[id])
        BY <1>4, <2>5 DEF Positions
      <3>2. Len(feed'[id]) \in Nat /\ k <= relayed[id]
        BY <1>1, <3>1, EarlierEvents DEF Applied
      <3>3. k \in 1 .. Len(feed[id])
        BY <1>5, <3>1, <3>2
      <3> QED BY <1>1, <2>4, <2>5, <3>1, <3>3, EarlierEvents
    <2> QED BY <1>7, <2>4, <2>5
  <1>9. ASSUME NEW id \in Ids \ (synced \cup redelivered) PROVE LastUpdate(id)'
    <2>1. SUFFICES ASSUME NEW k \in 1 .. MaxFeed,
                          Positions(id, {"Updated"})' = {k}, Applied(id, k)', doc'[id] # NoDoc
                   PROVE  feed'[id][k].data = {doc'[id].data}
      BY DEF LastUpdate
    <2>2. Applied(id, k) /\ k \in 1 .. Len(feed[id])
      <3>1. Applied(id, k) /\ k \in Nat /\ k >= 1
        BY <1>4, <2>1, PipelineBounds
      <3> QED BY <1>5, <3>1 DEF Applied
    <2>3. Positions(id, {"Updated"}) = {k} /\ feed'[id][k] = feed[id][k]
      <3>1. Positions(id, {"Updated"}) \subseteq 1 .. Len(feed[id])
        BY DEF Positions
      <3> QED BY <1>1, <2>1, <2>2, <3>1, EarlierEvents
    <2> QED BY <1>7, <2>1, <2>2, <2>3 DEF UpdateInv, LastUpdate
  <1> QED BY <1>2, <1>3, <1>8, <1>9 DEF UpdateInv, MessagesOnce, SyncedOK

\* A post that no consumer writes, and whose messages only wait, retry or park.
LEMMA QuietPost ==
    ASSUME TypeOK, UpdateInv, NEW id \in Ids \ (synced \cup redelivered),
           feed' = feed, doc'[id] = doc[id],
           \A k \in Nat : Applied(id, k)' => Applied(id, k),
           CreatedDone(id) => CreatedDone(id)'
    PROVE  AfterCreation(id)' /\ LastUpdate(id)'
  <1>1. \A kinds : Positions(id, kinds)' = Positions(id, kinds) /\ Positions(id, kinds) \subseteq Nat
    BY FeedTypes DEF Positions
  <1>2. AfterCreation(id) /\ LastUpdate(id)
    BY DEF UpdateInv
  <1>3. AfterCreation(id)'
    BY <1>1, <1>2 DEF AfterCreation
  <1>4. LastUpdate(id)'
    <2>1. 1 .. MaxFeed \subseteq Nat
      BY PipelineBounds
    <2> QED BY <1>1, <1>2, <2>1 DEF LastUpdate
  <1> QED BY <1>3, <1>4

LEMMA EventsKept ==
    ASSUME EventsOK, feed' = feed
    PROVE  EventsOK'
  BY DEF EventsOK, Positions

LEMMA RelayKeepsUpdates ==
    ASSUME SearchInv, UpdateInv, NEW i \in Ids, Relay(i)
    PROVE  UpdateInv'
  <1>1. TypeOK /\ MessagesOK
    BY DEF SearchInv
  <1>2. UNCHANGED <<feed, parked, redelivered, doc, sync, synced>>
    BY DEF Relay, service
  <1> DEFINE new == [id |-> i, pos |-> relayed[i] + 1, tries |-> 0]
  <1>3. queue' = queue \cup {new} /\ new.id = i /\ new.pos = relayed[i] + 1
    BY DEF Relay
  <1> HIDE DEF new
  <1>4. \A id \in Ids : /\ relayed[id] \in Nat
                        /\ relayed'[id] = IF id = i THEN relayed[id] + 1 ELSE relayed[id]
    BY <1>1 DEF Relay, TypeOK
  <1>5. \A m \in queue : m.id \in Ids /\ m.pos \in Nat /\ m.pos <= relayed[m.id]
    <2>1. \A m \in queue : m.id \in Ids /\ m.pos \in Nat
      BY <1>1 DEF TypeOK, Message
    <2> QED BY <1>1, <2>1 DEF MessagesOK
  <1>6. MessagesOnce'
    <2>1. \A m \in queue : ~(m.id = new.id /\ m.pos = new.pos)
      BY <1>3, <1>4, <1>5
    <2> QED BY <1>3, <2>1 DEF UpdateInv, MessagesOnce
  <1>7. ASSUME NEW id \in Ids \ (synced \cup redelivered) PROVE AfterCreation(id)' /\ LastUpdate(id)'
    <2>1. ASSUME NEW k \in Nat, Applied(id, k)' PROVE Applied(id, k)
      <3>1. ~Waiting(id, k) /\ ~(id = i /\ k = relayed[i] + 1) /\ <<id, k>> \notin parked
        BY <1>2, <1>3, <2>1 DEF Applied, Waiting
      <3> QED BY <1>4, <2>1, <3>1 DEF Applied
    <2>2. ASSUME CreatedDone(id) PROVE CreatedDone(id)'
      <3>1. PICK k \in Positions(id, {"Created"}) : k <= relayed[id] /\ ~Waiting(id, k)
        BY <2>2 DEF CreatedDone
      <3>2. k \in Positions(id, {"Created"})' /\ k \in Nat
        BY <1>1, <1>2, <3>1, FeedTypes DEF Positions
      <3>3. k <= relayed'[id] /\ ~Waiting(id, k)'
        BY <1>3, <1>4, <3>1, <3>2 DEF Waiting
      <3> QED BY <3>2, <3>3 DEF CreatedDone
    <2> QED BY <1>1, <1>2, <2>1, <2>2, QuietPost
  <1> QED BY <1>2, <1>6, <1>7, EventsKept DEF UpdateInv, SyncedOK

\* The messages of a post other than m's, and of m's post but for m.
LEMMA AcknowledgeKeepsUpdates ==
    ASSUME SearchInv, UpdateInv, NEW m \in queue, Acknowledge(m),
           NEW d \in Doc \cup {NoDoc}, doc' = [doc EXCEPT ![m.id] = d],
           \/ d = NoDoc /\ Event(m).kind \notin {"Created", "Updated"}
           \/ /\ Event(m).kind = "Created" \/ (Event(m).kind = "Updated" /\ doc[m.id] # NoDoc)
              /\ d # NoDoc /\ d.data \in Event(m).data
    PROVE  UpdateInv'
  <1>1. TypeOK /\ m \in Message /\ m.id \in Ids /\ m.pos \in 1 .. Len(feed[m.id]) /\ Event(m) \in Events
    BY MessageTypes DEF SearchInv
  <1>2. UNCHANGED <<feed, relayed, parked, sync, synced>>
    BY DEF Acknowledge, service
  <1>3. \/ queue' = queue \ {m} /\ redelivered' = redelivered
        \/ queue' = queue /\ redelivered' = redelivered \cup {m.id}
    BY DEF Acknowledge
  <1>4. MessagesOnce'
    BY <1>3 DEF UpdateInv, MessagesOnce
  <1>5. \A id, k : Waiting(id, k)' => Waiting(id, k)
    BY <1>3 DEF Waiting
  <1>6. ASSUME NEW id \in Ids \ (synced' \cup redelivered'), id # m.id
        PROVE  AfterCreation(id)' /\ LastUpdate(id)'
    <2>1. id \in Ids \ (synced \cup redelivered)
      BY <1>2, <1>3
    <2>2. doc'[id] = doc[id]
      BY <1>1, <1>6 DEF TypeOK
    <2>3. \A k : Waiting(id, k) => Waiting(id, k)'
      BY <1>3, <1>6 DEF Waiting
    <2>4. \A k \in Nat : Applied(id, k)' => Applied(id, k)
      BY <1>2, <2>3 DEF Applied
    <2>5. CreatedDone(id) => CreatedDone(id)'
      BY <1>2, <1>5 DEF CreatedDone, Positions
    <2> QED BY <1>1, <1>2, <2>1, <2>2, <2>4, <2>5, QuietPost
  <1>7. ASSUME NEW id \in Ids \ (synced' \cup redelivered'), id = m.id
        PROVE  AfterCreation(id)' /\ LastUpdate(id)'
    <2>1. id \in Ids \ (synced \cup redelivered) /\ queue' = queue \ {m} /\ doc'[id] = d
      BY <1>1, <1>2, <1>3, <1>7 DEF TypeOK
    <2>2. AfterCreation(id) /\ LastUpdate(id) /\ EventsOK /\ MessagesOnce
      BY <2>1 DEF UpdateInv
    <2>3. Waiting(id, m.pos) /\ ~Waiting(id, m.pos)' /\ \A k : k # m.pos /\ Waiting(id, k) => Waiting(id, k)'
      BY <1>7, <2>1, <2>2 DEF Waiting, MessagesOnce
    <2>4. \A k : k # m.pos /\ Applied(id, k)' => Applied(id, k)
      BY <1>2, <2>3 DEF Applied
    <2>5. \A kinds : Positions(id, kinds)' = Positions(id, kinds)
      BY <1>2 DEF Positions
    <2>6. /\ m.pos \in Positions(id, {"Created"}) <=> Event(m).kind = "Created"
          /\ m.pos \in Positions(id, {"Updated"}) <=> Event(m).kind = "Updated"
      BY <1>1, <1>7 DEF Positions, Event
    <2>7. m.pos <= relayed[id]
      BY <1>7 DEF SearchInv, MessagesOK
    <2>8. CreatedDone(id) => CreatedDone(id)'
      BY <1>2, <1>5, <2>5 DEF CreatedDone
    <2>9. CASE Event(m).kind = "Created"
      <3>1. CreatedDone(id)'
        BY <1>2, <2>3, <2>5, <2>6, <2>7, <2>9 DEF CreatedDone
      <3>2. ~CreatedDone(id)
        <4>1. \A k \in Positions(id, {"Created"}) : k = m.pos
          BY <1>7, <2>1, <2>2, <2>6, <2>9 DEF EventsOK
        <4> QED BY <2>3, <4>1 DEF CreatedDone
      <3>3. ASSUME NEW k \in Positions(id, {"Updated"}) PROVE ~Applied(id, k)'
        <4>1. k # m.pos
          BY <1>7, <2>6, <2>9, <3>3
        <4> QED BY <2>2, <2>4, <3>2, <3>3, <4>1 DEF AfterCreation
      <3>4. LastUpdate(id)'
        BY <2>5, <3>3 DEF LastUpdate
      <3> QED BY <3>1, <3>4 DEF AfterCreation
    <2>10. CASE Event(m).kind = "Updated"
      <3>1. CreatedDone(id)
        BY <1>7, <2>2, <2>10 DEF AfterCreation
      <3>2. ASSUME NEW k \in 1 .. MaxFeed, Positions(id, {"Updated"}) = {k} PROVE feed[id][k].data = {d.data}
        <4>1. k = m.pos
          BY <2>6, <2>10, <3>2
        <4>2. m.pos \in Positions(id, {"Created", "Updated"})
          BY <1>1, <1>7, <2>10 DEF Positions, Event
        <4>3. PICK c \in Columns : feed[id][m.pos].data = {c}
          BY <2>1, <2>2, <4>2 DEF EventsOK, Carries
        <4>4. d.data \in feed[id][m.pos].data
          BY <1>7, <2>10 DEF Event
        <4> QED BY <4>1, <4>3, <4>4
      <3>3. LastUpdate(id)'
        BY <1>2, <2>1, <2>5, <3>2 DEF LastUpdate
      <3> QED BY <2>8, <3>1, <3>3 DEF AfterCreation
    <2>11. CASE Event(m).kind \notin {"Created", "Updated"}
      <3>1. d = NoDoc /\ \A k \in Positions(id, {"Updated"}) : Applied(id, k)' => Applied(id, k)
        BY <2>4, <2>6, <2>11
      <3>2. AfterCreation(id)'
        BY <2>1, <2>2, <2>5, <2>8, <3>1 DEF AfterCreation
      <3> QED BY <2>1, <3>1, <3>2 DEF LastUpdate
    <2> QED BY <2>9, <2>10, <2>11
  <1> QED BY <1>2, <1>4, <1>6, <1>7, EventsKept DEF UpdateInv, SyncedOK

LEMMA ConsumeKeepsUpdates ==
    ASSUME SearchInv, UpdateInv, NEW m \in queue, Consume(m)
    PROVE  UpdateInv'
  <1>1. TypeOK /\ m \in Message /\ m.id \in Ids /\ Event(m) \in Events
    BY MessageTypes DEF SearchInv
  <1>2. CASE JobPostCreatedConsumer(m) \/ JobPostUpdatedConsumer(m)
    <2>1. PICK c \in Event(m).data : doc' = [doc EXCEPT ![m.id] = Fresh(c)]
      BY <1>2 DEF JobPostCreatedConsumer, JobPostUpdatedConsumer
    <2>2. Fresh(c) \in Doc /\ Fresh(c).data = c /\ Fresh(c) # NoDoc
      BY <1>1, NoDocAssumption DEF Fresh, Doc, Events
    <2> QED BY <1>2, <2>1, <2>2, AcknowledgeKeepsUpdates DEF JobPostCreatedConsumer, JobPostUpdatedConsumer
  <1>3. CASE DeleteConsumer(m)
    BY <1>3, AcknowledgeKeepsUpdates DEF DeleteConsumer
  <1>4. CASE ConsumerThrows(m)
    <2>1. UNCHANGED <<feed, relayed, redelivered, doc, sync, synced>> /\ parked \subseteq parked'
      BY <1>4 DEF ConsumerThrows, service
    <2> DEFINE retried == [m EXCEPT !.tries = @ + 1]
    <2>2. retried.id = m.id /\ retried.pos = m.pos
      BY <1>1 DEF Message
    <2>3. \/ queue' = (queue \ {m}) \cup {retried}
          \/ queue' = queue \ {m} /\ parked' = parked \cup {<<m.id, m.pos>>}
      BY <1>4 DEF ConsumerThrows
    <2> HIDE DEF retried
    <2>4. MessagesOnce'
      BY <2>2, <2>3 DEF UpdateInv, MessagesOnce
    <2>5. \A id, k : /\ Waiting(id, k)' => Waiting(id, k)
                     /\ Waiting(id, k) => Waiting(id, k)' \/ <<id, k>> \in parked'
      BY <2>2, <2>3 DEF Waiting
    <2>6. ASSUME NEW id \in Ids \ (synced \cup redelivered) PROVE AfterCreation(id)' /\ LastUpdate(id)'
      <3>1. \A k \in Nat : Applied(id, k)' => Applied(id, k)
        BY <2>1, <2>5 DEF Applied
      <3>2. CreatedDone(id) => CreatedDone(id)'
        BY <2>1, <2>5 DEF CreatedDone, Positions
      <3> QED BY <1>1, <2>1, <3>1, <3>2, QuietPost
    <2> QED BY <2>1, <2>4, <2>6, EventsKept DEF UpdateInv, SyncedOK
  <1> QED BY <1>2, <1>3, <1>4 DEF Consume

LEMMA RestKeepsUpdates ==
    ASSUME SearchInv, UpdateInv, InitDb \/ Restart \/ UNCHANGED vars
    PROVE  UpdateInv'
  <1>1. TypeOK
    BY DEF SearchInv
  <1>2. UNCHANGED <<feed, relayed, parked, redelivered>> /\ synced \subseteq synced'
    BY DEF InitDb, SyncSearch, SyncFetch, SyncBulk, SyncAdd, SyncNothing, Restart, vars, service, pipe
  <1>3. MessagesOnce' /\ \A id, k : Waiting(id, k)' <=> Waiting(id, k)
    <2>1. CASE Restart
      <3> DEFINE Reset(m) == [m EXCEPT !.tries = 0]
      <3>1. queue' = {Reset(m) : m \in queue}
        BY <2>1 DEF Restart
      <3>2. \A m \in queue : Reset(m).id = m.id /\ Reset(m).pos = m.pos
        BY <1>1 DEF TypeOK, Message
      <3> HIDE DEF Reset
      <3>3. MessagesOnce'
        BY <3>1, <3>2 DEF UpdateInv, MessagesOnce
      <3>4. \A id, k : Waiting(id, k)' <=> Waiting(id, k)
        BY <3>1, <3>2 DEF Waiting
      <3> QED BY <3>3, <3>4
    <2>2. CASE InitDb \/ UNCHANGED vars
      <3>1. queue' = queue
        BY <2>2 DEF InitDb, SyncSearch, SyncFetch, SyncBulk, SyncAdd, SyncNothing, vars, pipe
      <3> QED BY <3>1 DEF UpdateInv, MessagesOnce, Waiting
    <2> QED BY <2>1, <2>2
  <1>4. SyncedOK'
    <2>1. SyncedOK
      BY DEF UpdateInv
    <2>2. CASE SyncFetch
      BY <1>1, <2>2 DEF SyncFetch, SyncedOK, TypeOK
    <2>3. CASE SyncSearch \/ SyncBulk
      BY <1>1, <2>1, <2>3 DEF SyncSearch, SyncBulk, SyncedOK, TypeOK
    <2>4. CASE (\E id \in Ids : SyncAdd(id)) \/ SyncNothing \/ Restart
      <3>1. CASE sync' = SyncStart \/ sync' = SyncOver
        BY <3>1 DEF SyncOver, SyncStart, SyncedOK
      <3>2. ASSUME NEW id \in Ids, sync' = [sync EXCEPT !.add = @ \ {id}] PROVE SyncedOK'
        BY <1>1, <1>2, <2>1, <3>2 DEF SyncedOK, TypeOK
      <3> QED BY <2>4, <3>1, <3>2 DEF SyncAdd, SyncNothing, Restart
    <2>5. CASE UNCHANGED vars
      BY <2>1, <2>5 DEF vars, SyncedOK
    <2> QED BY <2>2, <2>3, <2>4, <2>5 DEF InitDb
  <1>5. ASSUME NEW id \in Ids \ (synced' \cup redelivered) PROVE doc'[id] = doc[id]
    <2>1. id \notin sync.bulk \cup sync.add
      BY <1>2, <1>5 DEF UpdateInv, SyncedOK
    <2>2. CASE SyncBulk
      BY <1>5, <2>1, <2>2 DEF SyncBulk
    <2>3. ASSUME NEW i \in Ids, SyncAdd(i) PROVE doc'[id] = doc[id]
      BY <1>1, <1>5, <2>1, <2>3 DEF SyncAdd, TypeOK
    <2>4. CASE SyncSearch \/ SyncFetch \/ SyncNothing \/ Restart \/ UNCHANGED vars
      BY <2>4 DEF SyncSearch, SyncFetch, SyncNothing, Restart, vars
    <2> QED BY <2>2, <2>3, <2>4 DEF InitDb
  <1>6. ASSUME NEW id \in Ids \ (synced' \cup redelivered') PROVE AfterCreation(id)' /\ LastUpdate(id)'
    <2>1. (\A k \in Nat : Applied(id, k)' => Applied(id, k)) /\ (CreatedDone(id) => CreatedDone(id)')
      BY <1>2, <1>3 DEF Applied, CreatedDone, Positions
    <2> QED BY <1>1, <1>2, <1>5, <1>6, <2>1, QuietPost
  <1> QED BY <1>2, <1>3, <1>4, <1>6, EventsKept DEF UpdateInv

LEMMA UpdateStepInv == SearchInv /\ UpdateInv /\ [Next]_vars => UpdateInv'
  BY ServiceKeepsUpdates, RelayKeepsUpdates, ConsumeKeepsUpdates, RestKeepsUpdates DEF Next

\* However the messages of a post are reordered, retried or parked: once its only
\* update was applied, its document, if there is one, has the updated columns.
THEOREM UpdatesSurvive == Spec => []UpdateSurvivesReordering
  <1>1. SearchInv /\ UpdateInv => UpdateSurvivesReordering
    <2> SUFFICES ASSUME SearchInv, UpdateInv, NEW id \in Ids \ (synced \cup redelivered), doc[id] # NoDoc,
                        Cardinality(Positions(id, {"Updated"})) = 1,
                        NEW k \in Positions(id, {"Updated"}), Applied(id, k)
                 PROVE  feed[id][k].data = {doc[id].data}
      BY DEF UpdateSurvivesReordering
    <2>1. Len(feed[id]) \in Nat /\ Len(feed[id]) <= MaxFeed
      BY FeedTypes DEF SearchInv, FeedsOK
    <2>2. IsFiniteSet(Positions(id, {"Updated"}))
      <3>1. IsFiniteSet(1 .. Len(feed[id]))
        BY <2>1, FS_Interval
      <3>2. Positions(id, {"Updated"}) \subseteq 1 .. Len(feed[id])
        BY DEF Positions
      <3> QED BY <3>1, <3>2, FS_Subset
    <2>3. Positions(id, {"Updated"}) = {k}
      <3>1. PICK x : Positions(id, {"Updated"}) = {x}
        BY <2>2, FS_Singleton
      <3> QED BY <3>1
    <2>4. k \in 1 .. MaxFeed
      <3>1. k \in 1 .. Len(feed[id])
        BY DEF Positions
      <3> QED BY <2>1, <3>1, PipelineBounds
    <2> QED BY <2>3, <2>4 DEF UpdateInv, LastUpdate
  <1> QED BY <1>1, InitInv, StepInv, InitUpdateInv, UpdateStepInv, PTL DEF Spec
\* A document comes back where a removal was done only from a JobPostCreated that
\* was still waiting, or from a row that a resynchronisation had fetched.
THEOREM RestoredByLateMessages == Spec => OnlyLateCreateOrResyncRestores
  <1> DEFINE Restored ==
        \A id \in Ids :
            /\ doc[id] = NoDoc /\ doc'[id] # NoDoc
            /\ \E k \in Positions(id, {"Deleted", "DeadlineReached"}) : Applied(id, k)
            => \/ \E k \in Positions(id, {"Created"}) : Waiting(id, k)
               \/ id \in synced
  <1>1. SearchInv /\ UpdateInv /\ [Next]_vars => [Restored]_vars
    <2> SUFFICES ASSUME SearchInv, UpdateInv, Next, NEW id \in Ids, doc[id] = NoDoc, doc'[id] # NoDoc
                 PROVE  \/ \E k \in Positions(id, {"Created"}) : Waiting(id, k)
                        \/ id \in synced
      OBVIOUS
    <2>1. TypeOK /\ SyncedOK
      BY DEF SearchInv, UpdateInv
    <2>2. ASSUME NEW m \in queue, Consume(m)
          PROVE  \E k \in Positions(id, {"Created"}) : Waiting(id, k)
      <3>1. m.id \in Ids /\ m.pos \in 1 .. Len(feed[m.id])
        BY MessageTypes
      <3>2. m.id = id /\ JobPostCreatedConsumer(m)
        BY <2>1, <2>2, <3>1 DEF Consume, JobPostCreatedConsumer, JobPostUpdatedConsumer, DeleteConsumer,
                                ConsumerThrows, TypeOK
      <3>3. m.pos \in Positions(id, {"Created"}) /\ Waiting(id, m.pos)
        BY <3>1, <3>2 DEF JobPostCreatedConsumer, Positions, Waiting, Event
      <3> QED BY <3>3
    <2>3. CASE SyncBulk
      BY <2>1, <2>3 DEF SyncBulk, SyncedOK
    <2>4. ASSUME NEW i \in Ids, SyncAdd(i) PROVE id \in synced
      BY <2>1, <2>4 DEF SyncAdd, SyncedOK, TypeOK
    <2>5. CASE ServiceStep
      BY <2>5 DEF ServiceStep
    <2>6. doc' # doc
      OBVIOUS
    <2> QED BY <2>2, <2>3, <2>4, <2>5, <2>6 DEF Next, InitDb, Relay, SyncSearch, SyncFetch, SyncNothing, Restart
  <1> HIDE DEF Restored
  <1>2. Spec => [][Restored]_vars
    BY <1>1, InitInv, StepInv, InitUpdateInv, UpdateStepInv, PTL DEF Spec
  <1> QED BY <1>2 DEF OnlyLateCreateOrResyncRestores, Restored
===============================================================================
