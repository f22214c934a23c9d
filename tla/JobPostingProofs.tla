--------------------------- MODULE JobPostingProofs ---------------------------
(***************************************************************************)
(* Theorems about JobPosting for every set of posts, users, images and     *)
(* requests and every value of the bounds.                                 *)
(***************************************************************************)
EXTENDS JobPosting, TLAPS

-------------------------------------------------------------------------------
(* Sequences of events. *)

\* Appending an event adds its position to those of its kind and no other.
LEMMA AppendPositions ==
    ASSUME NEW s \in Seq(Event), NEW e \in Event, NEW kind
    PROVE  /\ Append(s, e) \in Seq(Event)
           /\ Append(s, e) # <<>>
           /\ e.kind = kind => Positions(Append(s, e), {kind}) = Positions(s, {kind}) \cup {Len(s) + 1}
           /\ e.kind # kind => Positions(Append(s, e), {kind}) = Positions(s, {kind})
  <1>1. Append(s, e) \in Seq(Event) /\ Append(s, e) # <<>>
    OBVIOUS
  <1>2. Len(Append(s, e)) = Len(s) + 1 /\ Len(s) \in Nat
    OBVIOUS
  <1>3. \A k \in 1 .. Len(s) : Append(s, e)[k] = s[k]
    OBVIOUS
  <1>4. Append(s, e)[Len(s) + 1] = e
    OBVIOUS
  <1> QED BY <1>1, <1>2, <1>3, <1>4 DEF Positions

\* The four ways a transaction may change the row and the feed of a post keep
\* the two in agreement.
LEMMA FeedStep ==
    ASSUME NEW s \in Seq(Event), NEW e \in Event,
           NEW exists \in BOOLEAN, NEW isSeeded \in BOOLEAN,
           FeedOK(s, exists, isSeeded)
    PROVE  /\ e.kind \in {"Updated", "DeadlineReached"} /\ (s # <<>> \/ isSeeded)
                => FeedOK(Append(s, e), exists, isSeeded)
           /\ e.kind = "Deleted" /\ exists => FeedOK(Append(s, e), FALSE, isSeeded)
           /\ e.kind = "Created" /\ s = <<>> /\ ~isSeeded => FeedOK(Append(s, e), TRUE, isSeeded)
           /\ s = <<>> => FeedOK(s, TRUE, TRUE)
  <1> DEFINE a == Append(s, e)
  <1>1. a # <<>> /\ Len(s) \in Nat
    BY AppendPositions
  <1>2. s # <<>> => Len(s) + 1 # 1
    OBVIOUS
  <1>3. s = <<>> => Len(s) + 1 = 1 /\ \A kinds : Positions(s, kinds) = {}
    BY DEF Positions
  <1>4. ASSUME e.kind \in {"Updated", "DeadlineReached"}, s # <<>> \/ isSeeded
        PROVE  FeedOK(a, exists, isSeeded)
    <2>1. Positions(a, {"Created"}) = Positions(s, {"Created"}) /\ Positions(a, {"Deleted"}) = Positions(s, {"Deleted"})
      BY <1>4, AppendPositions
    <2>2. s = <<>> => 1 \notin Positions(s, {"Created"})
      BY <1>3
    <2> QED BY <1>1, <1>4, <2>1, <2>2 DEF FeedOK, AtMostOne
  <1>5. ASSUME e.kind = "Deleted", exists
        PROVE  FeedOK(a, FALSE, isSeeded)
    <2>1. Positions(a, {"Created"}) = Positions(s, {"Created"})
      BY <1>5, AppendPositions
    <2>2. Positions(s, {"Deleted"}) = {}
      BY <1>5 DEF FeedOK
    <2>3. Positions(a, {"Deleted"}) = {Len(s) + 1}
      <3>1. Positions(a, {"Deleted"}) = Positions(s, {"Deleted"}) \cup {Len(s) + 1}
        BY <1>5, AppendPositions
      <3> QED BY <2>2, <3>1, Zenon
    <2>4. s = <<>> => isSeeded /\ 1 \notin Positions(s, {"Created"})
      BY <1>5, <1>3 DEF FeedOK
    <2> QED BY <1>1, <1>5, <2>1, <2>3, <2>4 DEF FeedOK, AtMostOne
  <1>6. ASSUME e.kind = "Created", s = <<>>, ~isSeeded
        PROVE  FeedOK(a, TRUE, isSeeded)
    <2>1. Positions(a, {"Created"}) = {1} /\ Positions(a, {"Deleted"}) = {}
      <3>1. Positions(a, {"Created"}) = Positions(s, {"Created"}) \cup {Len(s) + 1}
        BY <1>6, AppendPositions
      <3>2. Positions(a, {"Deleted"}) = Positions(s, {"Deleted"})
        BY <1>6, AppendPositions
      <3>3. Positions(s, {"Created"}) = {} /\ Positions(s, {"Deleted"}) = {} /\ Len(s) + 1 = 1
        BY <1>3, <1>6
      <3> QED BY <3>1, <3>2, <3>3
    <2> QED BY <1>1, <1>6, <2>1 DEF FeedOK, AtMostOne
  <1>7. s = <<>> => FeedOK(s, TRUE, TRUE)
    BY <1>3 DEF FeedOK, AtMostOne
  <1> QED BY <1>4, <1>5, <1>6, <1>7

-------------------------------------------------------------------------------
(* Types. *)

\* The event constructors build events.
LEMMA EventTypes ==
    /\ \A r \in Row : CreatedEvent(r) \in Event /\ UpdatedEvent(r) \in Event
    /\ DeletedEvent \in Event /\ DeadlineReachedEvent \in Event
    /\ \A r \in Row : CreatedEvent(r).kind = "Created" /\ UpdatedEvent(r).kind = "Updated"
    /\ DeletedEvent.kind = "Deleted" /\ DeadlineReachedEvent.kind = "DeadlineReached"
  BY DEF Row, Columns, PublicColumns, Event, Kinds, CreatedEvent, UpdatedEvent, DeletedEvent, DeadlineReachedEvent

\* What the handler of each operation keeps between its two steps.
LEMMA RequestTypes ==
    ASSUME TypeOK, NEW r \in Requests, req[r] # Idle
    PROVE  /\ req[r] \in Request
           /\ req[r].id \in Ids
           /\ req[r].op = "create" => req[r].new \in Row
           /\ req[r].op \in {"update", "image"} => req[r].old \in Row /\ req[r].new \in Row
           /\ req[r].op = "delete" => req[r].savers \subseteq Users
           /\ req[r].op \in {"save", "unsave"} => req[r].user \in Users
  <1>1. req[r] \in Request
    BY DEF TypeOK
  <1> QED BY <1>1 DEF Request, CreateReq, EditReq, DeleteReq, SaveReq

\* Starting a request keeps the types, whatever the rest of the handler does to S3.
LEMMA BeginTypes ==
    ASSUME TypeOK, NEW r \in Requests, NEW q \in Request, Begin(r, q),
           bucket' \in [Images -> {"unused", "stored", "removed"}], imaged' \subseteq Ids
    PROVE  TypeOK'
  BY DEF TypeOK, Begin

\* Finishing one keeps them if the tables and feeds are well typed.
LEMMA FinishTypes ==
    ASSUME TypeOK, NEW r \in Requests, Finish(r),
           post' \in [Ids -> Row \cup {NoRow}], saved' \subseteq Users \X Ids,
           feed' \in [Ids -> Seq(Event)], mixed' \subseteq Ids
    PROVE  TypeOK'
  BY DEF TypeOK, Finish

LEMMA InitTypes == Init => TypeOK
  <1> SUFFICES ASSUME Init PROVE TypeOK
    OBVIOUS
  <1>1. feed \in [Ids -> Seq(Event)]
    BY DEF Init
  <1>2. checker \in [work : SUBSET Ids, cur : Ids \cup {None}, staged : SUBSET Ids]
    BY DEF Init, NoWork
  <1>3. now \in 0 .. MaxTime /\ starts \in 0 .. MaxStarts
    BY BoundsAssumption DEF Init
  <1>4. post \in [Ids -> Row \cup {NoRow}] /\ req \in [Requests -> Request \cup {Idle}]
    BY Zenon DEF Init
  <1>5. bucket \in [Images -> {"unused", "stored", "removed"}]
    BY DEF Init
  <1>6. saved \subseteq Users \X Ids /\ imaged \subseteq Ids /\ mixed \subseteq Ids /\ seeded \subseteq Ids /\ up \in BOOLEAN
    BY DEF Init
  <1> QED BY <1>1, <1>2, <1>3, <1>4, <1>5, <1>6, Zenon DEF TypeOK

LEMMA ReadTypes ==
    ASSUME TypeOK, NEW r \in Requests, Read(r)
    PROVE  TypeOK'
  <1> USE DEF TypeOK
  <1>1. ASSUME NEW u \in Users, NEW c \in Contents, NEW d \in 1 .. MaxTime + 1, CreateJobPost(r, u, c, d)
        PROVE  TypeOK'
    <2>1. PICK id \in FreshIds : Begin(r, [op |-> "create", id |-> id,
                 new |-> [employer |-> u, status |-> "Open", deadline |-> d, content |-> c, photos |-> {}]])
                 /\ UNCHANGED <<bucket, imaged>>
      BY <1>1 DEF CreateJobPost
    <2>2. [op |-> "create", id |-> id,
           new |-> [employer |-> u, status |-> "Open", deadline |-> d, content |-> c, photos |-> {}]] \in Request
      BY BoundsAssumption DEF Request, CreateReq, FreshIds, Row, Status, Times
    <2> QED BY <2>1, <2>2, BeginTypes
  <1>2. ASSUME NEW u \in Users, NEW id \in Ids, NEW c \in Contents, NEW d \in 1 .. MaxTime + 1,
               UpdateJobPost(r, u, id, c, d)
        PROVE  TypeOK'
    <2>1. post[id] \in Row
      BY <1>2 DEF UpdateJobPost, Exists
    <2>2. [post[id] EXCEPT !.content = c, !.deadline = d] \in Row
      <3>1. d \in Times
        BY BoundsAssumption DEF Times
      <3>2. \A row \in Row : [row EXCEPT !.content = c, !.deadline = d] \in Row
        BY <3>1 DEF Row
      <3> QED BY <2>1, <3>2
    <2>3. [op |-> "update", id |-> id, old |-> post[id],
           new |-> [post[id] EXCEPT !.content = c, !.deadline = d]] \in Request
      BY <2>1, <2>2 DEF Request, EditReq
    <2> QED BY <1>2, <2>3, BeginTypes DEF UpdateJobPost
  <1>3. ASSUME NEW u \in Users, NEW id \in Ids, NEW S \in SUBSET Images, NEW stored \in SUBSET Images,
               UploadImage(r, u, id, S, stored)
        PROVE  TypeOK'
    <2>1. bucket' \in [Images -> {"unused", "stored", "removed"}] /\ imaged' \subseteq Ids
      BY <1>3 DEF UploadImage, Image
    <2>2. post[id] \in Row
      BY <1>3 DEF UploadImage, Image, Exists
    <2>3. [post[id] EXCEPT !.photos = @ \cup S] \in Row
      BY <2>2 DEF Row, FreshImages
    <2>4. [op |-> "image", id |-> id, old |-> post[id], new |-> [post[id] EXCEPT !.photos = @ \cup S]] \in Request
      BY <2>2, <2>3 DEF Request, EditReq
    <2>5. CASE stored = S
      <3>1. Begin(r, [op |-> "image", id |-> id, old |-> post[id], new |-> [post[id] EXCEPT !.photos = @ \cup S]])
        BY <1>3, <2>5 DEF UploadImage, Image
      <3> QED BY <2>1, <2>4, <3>1, BeginTypes
    <2>6. CASE stored # S
      BY <1>3, <2>1, <2>6 DEF UploadImage, Image
    <2> QED BY <2>5, <2>6
  <1>4. ASSUME NEW u \in Users, NEW id \in Ids, NEW i \in Images, DeleteImageFromJobPost(r, u, id, i)
        PROVE  TypeOK'
    <2>1. bucket' \in [Images -> {"unused", "stored", "removed"}] /\ imaged' \subseteq Ids
      BY <1>4 DEF DeleteImageFromJobPost, DeleteImageAcync, Image
    <2>2. post[id] \in Row
      BY <1>4 DEF DeleteImageFromJobPost, DeleteImageAcync, Image, Exists
    <2>3. [post[id] EXCEPT !.photos = @ \ {i}] \in Row
      BY <2>2 DEF Row
    <2>4. [op |-> "image", id |-> id, old |-> post[id], new |-> [post[id] EXCEPT !.photos = @ \ {i}]] \in Request
      BY <2>2, <2>3 DEF Request, EditReq
    <2> QED BY <1>4, <2>1, <2>4, BeginTypes DEF DeleteImageFromJobPost, DeleteImageAcync, Image
  <1>5. ASSUME NEW u \in Users, NEW id \in Ids, DeleteJobPost(r, u, id)
        PROVE  TypeOK'
    <2>1. [op |-> "delete", id |-> id, savers |-> {v \in Users : <<v, id>> \in saved}] \in Request
      BY DEF Request, DeleteReq
    <2> QED BY <1>5, <2>1, BeginTypes DEF DeleteJobPost
  <1>6. ASSUME NEW u \in Users, NEW id \in Ids, SaveJobPost(r, u, id)
        PROVE  TypeOK'
    <2>1. [op |-> IF <<u, id>> \in saved THEN "unsave" ELSE "save", id |-> id, user |-> u] \in Request
      BY DEF Request, SaveReq
    <2> QED BY <1>6, <2>1, BeginTypes DEF SaveJobPost
  <1> QED BY <1>1, <1>2, <1>3, <1>4, <1>5, <1>6 DEF Read

LEMMA CommitTypes ==
    ASSUME TypeOK, NEW r \in Requests, Commit(r)
    PROVE  TypeOK'
  <1> DEFINE q == req[r]
  <1>1. CASE CommitCreate(r)
    <2>1. q \in Request /\ q.id \in Ids /\ q.new \in Row
      BY <1>1, RequestTypes DEF CommitCreate, Serving
    <2>2. post' \in [Ids -> Row \cup {NoRow}]
      BY <1>1, <2>1 DEF CommitCreate, TypeOK
    <2>3. feed' \in [Ids -> Seq(Event)]
      BY <1>1, <2>1, EventTypes, AppendPositions DEF CommitCreate, Publish, TypeOK
    <2> QED BY <1>1, <2>2, <2>3, FinishTypes DEF CommitCreate, TypeOK
  <1>2. CASE CommitUpdate(r)
    <2>1. q.id \in Ids /\ q.old \in Row /\ q.new \in Row
      BY <1>2, RequestTypes DEF CommitUpdate, Serving
    <2>2. \A row \in Row : Merge(row, q.old, q.new) \in Row
      BY <2>1 DEF Merge, Row
    <2>3. post' \in [Ids -> Row \cup {NoRow}]
      BY <1>2, <2>1, <2>2 DEF CommitUpdate, Exists, TypeOK
    <2>4. feed' \in [Ids -> Seq(Event)]
      BY <1>2, <2>1, EventTypes, AppendPositions DEF CommitUpdate, Publish, TypeOK
    <2>5. mixed' \subseteq Ids
      BY <1>2, <2>1 DEF CommitUpdate, TypeOK
    <2> QED BY <1>2, <2>3, <2>4, <2>5, FinishTypes DEF CommitUpdate, TypeOK
  <1>3. CASE CommitImage(r)
    <2>1. q.id \in Ids /\ q.new \in Row
      BY <1>3, RequestTypes DEF CommitImage, Serving
    <2>2. post' \in [Ids -> Row \cup {NoRow}]
      BY <1>3, <2>1 DEF CommitImage, TypeOK
    <2>3. mixed' \subseteq Ids
      BY <1>3, <2>1 DEF CommitImage, TypeOK
    <2> QED BY <1>3, <2>2, <2>3, FinishTypes DEF CommitImage, TypeOK
  <1>4. CASE CommitDelete(r)
    <2>1. q.id \in Ids
      BY <1>4, RequestTypes DEF CommitDelete, Serving
    <2>2. post' \in [Ids -> Row \cup {NoRow}] /\ saved' \subseteq Users \X Ids
      BY <1>4, <2>1 DEF CommitDelete, TypeOK
    <2>3. feed' \in [Ids -> Seq(Event)]
      BY <1>4, <2>1, EventTypes, AppendPositions DEF CommitDelete, Publish, TypeOK
    <2> QED BY <1>4, <2>2, <2>3, FinishTypes DEF CommitDelete, TypeOK
  <1>5. CASE CommitSave(r)
    <2>1. q.id \in Ids /\ q.user \in Users
      BY <1>5, RequestTypes DEF CommitSave, Serving
    <2>2. saved' \subseteq Users \X Ids
      BY <1>5, <2>1 DEF CommitSave, TypeOK
    <2> QED BY <1>5, <2>2, FinishTypes DEF CommitSave, TypeOK
  <1>6. CASE CommitFails(r)
    BY <1>6, FinishTypes DEF CommitFails, TypeOK
  <1> QED BY <1>1, <1>2, <1>3, <1>4, <1>5, <1>6 DEF Commit

LEMMA StepTypes == TypeOK /\ [Next]_vars => TypeOK'
  <1> SUFFICES ASSUME TypeOK, [Next]_vars PROVE TypeOK'
    OBVIOUS
  <1>1. CASE Tick
    BY <1>1, BoundsAssumption DEF Tick, TypeOK
  <1>2. CASE Start
    <2>1. post' \in [Ids -> Row \cup {NoRow}] /\ seeded' \subseteq Ids
      <3>1. CASE UNCHANGED <<post, seeded>>
        BY <3>1 DEF TypeOK
      <3>2. ASSUME NEW S \in SUBSET FreshIds, NEW c \in Contents, NEW d \in now + 1 .. MaxTime + 1,
                   seeded' = seeded \cup S,
                   post' = [id \in Ids |->
                        IF id \in S
                        THEN [employer |-> SeedEmployer, status |-> "Open", deadline |-> d, content |-> c, photos |-> {}]
                        ELSE post[id]]
            PROVE  post' \in [Ids -> Row \cup {NoRow}] /\ seeded' \subseteq Ids
        <4>1. [employer |-> SeedEmployer, status |-> "Open", deadline |-> d, content |-> c, photos |-> {}] \in Row
          BY BoundsAssumption DEF Row, Status, Times, TypeOK
        <4> QED BY <3>2, <4>1 DEF TypeOK, FreshIds
      <3> QED BY <1>2, <3>1, <3>2 DEF Start, SeedData
    <2> QED BY <1>2, <2>1, BoundsAssumption DEF Start, SeedData, TypeOK
  <1>3. CASE Crash
    BY <1>3 DEF Crash, TypeOK, NoWork
  <1>4. ASSUME NEW r \in Requests, Read(r) \/ Commit(r)
        PROVE  TypeOK'
    BY <1>4, ReadTypes, CommitTypes
  <1>5. CASE CheckerQuery
    BY <1>5 DEF CheckerQuery, TypeOK, NoWork, GetFinishedJobPosts
  <1>6. ASSUME NEW id \in Ids, CheckerSave(id)
        PROVE  TypeOK'
    <2>1. post' \in [Ids -> Row \cup {NoRow}]
      <3>1. post[id] \in Row
        BY <1>6 DEF CheckerSave, TypeOK, Exists
      <3>2. [post[id] EXCEPT !.status = "Completed"] \in Row
        BY <3>1 DEF Row, Status
      <3> QED BY <1>6, <3>2 DEF CheckerSave, TypeOK
    <2>2. feed' \in [Ids -> Seq(Event)]
      BY <1>6, EventTypes, AppendPositions DEF CheckerSave, TypeOK
    <2> QED BY <1>6, <2>1, <2>2 DEF CheckerSave, TypeOK
  <1>7. CASE CheckerPublish
    BY <1>7 DEF CheckerPublish, TypeOK
  <1>8. CASE CheckerDispose
    BY <1>8 DEF CheckerDispose, TypeOK, NoWork
  <1>9. ASSUME CheckerThrows
        PROVE  TypeOK'
    BY <1>9 DEF CheckerThrows, TypeOK, NoWork
  <1>10. CASE UNCHANGED vars
    BY <1>10 DEF vars, TypeOK
  <1> QED BY <1>1, <1>2, <1>3, <1>4, <1>5, <1>6, <1>7, <1>8, <1>9, <1>10 DEF Next, CheckJobPosts

\* Every variable keeps its type; in particular no save writes a row that lacks
\* a column, and no request or checker item refers to an id that is not one.
THEOREM TypeCorrect == Spec => []TypeOK
  BY InitTypes, StepTypes, PTL DEF Spec

-------------------------------------------------------------------------------
(* The outbox is transactional. *)

TableStep == /\ FeedMatchesTable'
             /\ \A id \in Ids : Known(id) => Known(id)'
             /\ \A id \in Ids : Known(id)' /\ ~Known(id) => \A r \in Requests : ~Creating(r, id)'

\* Steps that leave the feeds alone, and each row where it was.
LEMMA FrameFeed ==
    ASSUME FeedInv, UNCHANGED <<feed, seeded>>, \A id \in Ids : Exists(id)' <=> Exists(id)
    PROVE  TableStep
  <1>1. ASSUME NEW id \in Ids PROVE FeedOK(feed'[id], Exists(id)', id \in seeded')
    <2>1. FeedOK(feed[id], Exists(id), id \in seeded)
      BY DEF FeedInv, FeedMatchesTable
    <2> QED BY <2>1 DEF FeedOK
  <1>2. FeedMatchesTable'
    BY <1>1 DEF FeedMatchesTable, FeedOK, AtMostOne, Positions, Exists
  <1> QED BY <1>2 DEF TableStep, Known

\* A commit that publishes event e of the post q, whatever it does to its row.
LEMMA PublishStep ==
    ASSUME FeedInv, NEW q \in Ids, NEW e \in Event,
           Publish(q, e), UNCHANGED seeded,
           \A id \in Ids \ {q} : Exists(id)' <=> Exists(id),
           \/ Known(q) /\ e.kind \in {"Updated", "DeadlineReached"} /\ (Exists(q)' <=> Exists(q))
           \/ Exists(q) /\ e.kind = "Deleted" /\ ~Exists(q)'
           \/ ~Known(q) /\ e.kind = "Created" /\ Exists(q)' /\ (\A r \in Requests : ~Creating(r, q)')
    PROVE  TableStep
  <1> DEFINE s == feed[q]
  <1>1. /\ s \in Seq(Event)
        /\ feed'[q] = Append(s, e)
        /\ \A id \in Ids \ {q} : feed'[id] = feed[id]
    BY DEF FeedInv, TypeOK, Publish
  <1>2. \A id \in Ids : FeedOK(feed[id], Exists(id), id \in seeded)
    BY DEF FeedInv, FeedMatchesTable
  <1>3. /\ e.kind \in {"Updated", "DeadlineReached"} /\ (s # <<>> \/ q \in seeded)
                => FeedOK(Append(s, e), Exists(q), q \in seeded)
        /\ e.kind = "Deleted" /\ Exists(q) => FeedOK(Append(s, e), FALSE, q \in seeded)
        /\ e.kind = "Created" /\ s = <<>> /\ ~(q \in seeded) => FeedOK(Append(s, e), TRUE, q \in seeded)
    <2>1. FeedOK(s, Exists(q), q \in seeded) /\ Exists(q) \in BOOLEAN /\ (q \in seeded) \in BOOLEAN
      BY <1>2 DEF Exists
    <2> QED BY <1>1, <2>1, FeedStep
  <1>4. FeedOK(feed'[q], Exists(q)', q \in seeded')
    <2>1. CASE Known(q) /\ e.kind \in {"Updated", "DeadlineReached"} /\ (Exists(q)' <=> Exists(q))
      <3>1. FeedOK(Append(s, e), Exists(q), q \in seeded)
        BY <1>3, <2>1 DEF Known
      <3> QED BY <1>1, <2>1, <3>1 DEF FeedOK
    <2>2. CASE Exists(q) /\ e.kind = "Deleted" /\ ~Exists(q)'
      <3>1. FeedOK(Append(s, e), FALSE, q \in seeded)
        BY <1>3, <2>2
      <3> QED BY <1>1, <2>2, <3>1 DEF FeedOK
    <2>3. CASE ~Known(q) /\ e.kind = "Created" /\ Exists(q)'
      <3>1. FeedOK(Append(s, e), TRUE, q \in seeded)
        BY <1>3, <2>3 DEF Known
      <3> QED BY <1>1, <2>3, <3>1 DEF FeedOK
    <2> QED BY <2>1, <2>2, <2>3
  <1>5. ASSUME NEW id \in Ids \ {q} PROVE FeedOK(feed'[id], Exists(id)', id \in seeded')
    BY <1>1, <1>2 DEF FeedOK
  <1>6. FeedMatchesTable'
    <2>1. \A id \in Ids : FeedOK(feed'[id], Exists(id)', id \in seeded')
      BY <1>4, <1>5
    <2> QED BY <2>1 DEF FeedMatchesTable, FeedOK, AtMostOne, Positions, Exists
  <1>7. feed'[q] # <<>>
    BY <1>1, AppendPositions
  <1>8. \A id \in Ids : Known(id) => Known(id)'
    BY <1>1, <1>7 DEF Known
  <1>9. \A id \in Ids : Known(id)' /\ ~Known(id) => id = q
    BY <1>1 DEF Known
  <1>10. ~Known(q) => \A r \in Requests : ~Creating(r, q)'
    BY <1>2 DEF FeedOK, Known
  <1> QED BY <1>6, <1>8, <1>9, <1>10 DEF TableStep

LEMMA CommitTableStep ==
    ASSUME FeedInv, NEW r \in Requests, Commit(r)
    PROVE  TableStep
  <1> DEFINE q == req[r]
  <1>0. TypeOK /\ RequestsAreKnown /\ CreatesAreFresh /\ NoRow \notin Row
    BY NoRowAssumption DEF FeedInv
  <1>1. CASE CommitCreate(r)
    <2>1. PICK p \in Ids : p = q.id
      BY <1>0, <1>1, RequestTypes DEF CommitCreate, Serving
    <2>2. q # Idle /\ q.op = "create" /\ q.new \in Row
      BY <1>0, <1>1, RequestTypes DEF CommitCreate, Serving
    <2>3. PICK e \in Event : e = CreatedEvent(q.new) /\ e.kind = "Created"
      BY <2>2, EventTypes
    <2>4. Publish(p, e) /\ UNCHANGED seeded
      BY <1>1, <2>1, <2>3 DEF CommitCreate, Finish, Publish
    <2>5. Exists(p)' /\ \A id \in Ids \ {p} : Exists(id)' <=> Exists(id)
      BY <1>0, <1>1, <2>1, <2>2 DEF CommitCreate, Exists, TypeOK
    <2>6. ~Known(p) /\ \A x \in Requests : Creating(x, p) => x = r
      BY <1>0, <2>1, <2>2 DEF CreatesAreFresh, Creating
    <2>7. \A x \in Requests : ~Creating(x, p)'
      BY <1>0, <1>1, <2>6 DEF CommitCreate, Finish, Creating, TypeOK
    <2> QED BY <2>3, <2>4, <2>5, <2>6, <2>7, PublishStep
  <1>2. CASE CommitUpdate(r)
    <2>1. PICK p \in Ids : p = q.id
      BY <1>0, <1>2, RequestTypes DEF CommitUpdate, Serving
    <2>2. q # Idle /\ q.op = "update" /\ q.old \in Row /\ q.new \in Row
      BY <1>0, <1>2, RequestTypes DEF CommitUpdate, Serving
    <2>3. PICK e \in Event : e = UpdatedEvent(q.new) /\ e.kind = "Updated"
      BY <2>2, EventTypes
    <2>4. Publish(p, e) /\ UNCHANGED seeded
      BY <1>2, <2>1, <2>3 DEF CommitUpdate, Finish, Publish
    <2>5. \A row \in Row : Merge(row, q.old, q.new) \in Row
      BY <2>2 DEF Merge, Row
    <2>6. \A id \in Ids : Exists(id)' <=> Exists(id)
      BY <1>0, <1>2, <2>1, <2>5 DEF CommitUpdate, Exists, TypeOK
    <2>7. Known(p)
      BY <1>0, <2>1, <2>2 DEF RequestsAreKnown
    <2> QED BY <2>3, <2>4, <2>6, <2>7, PublishStep
  <1>3. CASE CommitImage(r)
    <2>1. q.id \in Ids /\ q.new \in Row
      BY <1>0, <1>3, RequestTypes DEF CommitImage, Serving
    <2>2. \A id \in Ids : Exists(id)' <=> Exists(id)
      BY <1>0, <1>3, <2>1 DEF CommitImage, Exists, TypeOK
    <2> QED BY <1>3, <2>2, FrameFeed DEF CommitImage, Finish
  <1>4. CASE CommitDelete(r)
    <2>1. PICK p \in Ids : p = q.id
      BY <1>0, <1>4, RequestTypes DEF CommitDelete, Serving
    <2>2. PICK e \in Event : e = DeletedEvent /\ e.kind = "Deleted"
      BY EventTypes
    <2>3. Publish(p, e) /\ UNCHANGED seeded /\ Exists(p)
      BY <1>4, <2>1, <2>2 DEF CommitDelete, Finish, Publish
    <2>4. ~Exists(p)' /\ \A id \in Ids \ {p} : Exists(id)' <=> Exists(id)
      BY <1>0, <1>4, <2>1 DEF CommitDelete, Exists, TypeOK
    <2> QED BY <2>2, <2>3, <2>4, PublishStep
  <1>5. CASE CommitSave(r) \/ CommitFails(r)
    BY <1>5, FrameFeed DEF CommitSave, CommitFails, Finish, Exists
  <1> QED BY <1>1, <1>2, <1>3, <1>4, <1>5 DEF Commit

\* The checker publishes what earlier items of its batch staged.
LEMMA CheckerTableStep ==
    ASSUME FeedInv, CheckJobPosts
    PROVE  TableStep
  <1>1. ASSUME NEW i \in Ids, CheckerSave(i)
        PROVE  TableStep
    <2>1. TypeOK /\ FeedMatchesTable /\ CheckerIsKnown
      BY DEF FeedInv
    <2>2. \A id \in Ids : Exists(id)' <=> Exists(id)
      <3>1. post[i] \in Row
        BY <1>1, <2>1 DEF CheckerSave, Exists, TypeOK
      <3>2. [post[i] EXCEPT !.status = "Completed"] \in Row
        BY <3>1 DEF Row, Status
      <3> QED BY <1>1, <2>1, <3>1, <3>2, NoRowAssumption DEF CheckerSave, Exists, TypeOK
    <2>3. \A id \in Ids :
            \/ feed'[id] = feed[id]
            \/ Known(id) /\ feed'[id] = Append(feed[id], DeadlineReachedEvent)
      BY <1>1, <2>1 DEF CheckerSave, CheckerIsKnown, TypeOK
    <2>4. ASSUME NEW id \in Ids
          PROVE  FeedOK(feed'[id], Exists(id)', id \in seeded') /\ (Known(id)' <=> Known(id))
      <3>1. FeedOK(feed[id], Exists(id), id \in seeded) /\ feed[id] \in Seq(Event)
            /\ Exists(id) \in BOOLEAN /\ (id \in seeded) \in BOOLEAN /\ seeded' = seeded
        BY <1>1, <2>1 DEF FeedMatchesTable, TypeOK, Exists, CheckerSave
      <3>2. CASE feed'[id] = feed[id]
        BY <2>2, <3>1, <3>2 DEF FeedOK, Known
      <3>3. CASE Known(id) /\ feed'[id] = Append(feed[id], DeadlineReachedEvent)
        <4>1. FeedOK(Append(feed[id], DeadlineReachedEvent), Exists(id), id \in seeded)
          BY <3>1, <3>3, EventTypes, FeedStep DEF Known
        <4>2. Append(feed[id], DeadlineReachedEvent) # <<>>
          BY <3>1, EventTypes, AppendPositions
        <4> QED BY <2>2, <3>1, <3>3, <4>1, <4>2 DEF FeedOK, Known
      <3> QED BY <2>3, <3>2, <3>3
    <2>5. FeedMatchesTable'
      <3>1. \A id \in Ids : FeedOK(feed'[id], Exists(id)', id \in seeded')
        BY <2>4
      <3> QED BY <3>1 DEF FeedMatchesTable, FeedOK, AtMostOne, Positions, Exists
    <2> QED BY <2>4, <2>5 DEF TableStep
  <1>2. CASE CheckerQuery \/ CheckerPublish \/ CheckerDispose \/ CheckerThrows
    BY <1>2, FrameFeed DEF CheckerQuery, CheckerPublish, CheckerDispose, CheckerThrows, Exists
  <1> QED BY <1>1, <1>2 DEF CheckJobPosts

\* A start ends every request before it seeds posts with ids none of them has.
LEMMA StartTableStep ==
    ASSUME FeedInv, Start
    PROVE  TableStep
  <1>1. \A r \in Requests, id \in Ids : ~Creating(r, id)'
    BY DEF Start, SeedData, Creating
  <1>2. CASE UNCHANGED <<post, seeded>>
    BY <1>2, FrameFeed DEF Start, SeedData, Exists
  <1>3. ASSUME NEW S \in SUBSET FreshIds, NEW c \in Contents, NEW d \in now + 1 .. MaxTime + 1,
               seeded' = seeded \cup S,
               post' = [id \in Ids |->
                    IF id \in S
                    THEN [employer |-> SeedEmployer, status |-> "Open", deadline |-> d, content |-> c, photos |-> {}]
                    ELSE post[id]]
        PROVE  TableStep
    <2>1. [employer |-> SeedEmployer, status |-> "Open", deadline |-> d, content |-> c, photos |-> {}] # NoRow
      <3>1. [employer |-> SeedEmployer, status |-> "Open", deadline |-> d, content |-> c, photos |-> {}] \in Row
        BY BoundsAssumption DEF Row, Status, Times, FeedInv, TypeOK
      <3> QED BY <3>1, NoRowAssumption
    <2>2. feed' = feed
      BY DEF Start, SeedData
    <2>3. ASSUME NEW id \in Ids
          PROVE  FeedOK(feed'[id], Exists(id)', id \in seeded')
      <3>1. FeedOK(feed[id], Exists(id), id \in seeded) /\ feed[id] \in Seq(Event)
            /\ Exists(id) \in BOOLEAN /\ (id \in seeded) \in BOOLEAN
        BY DEF FeedInv, FeedMatchesTable, TypeOK, Exists
      <3>2. CASE id \in S
        <4>1. feed[id] = <<>>
          BY <3>2 DEF FreshIds, InUse
        <4>2. FeedOK(feed[id], TRUE, TRUE)
          BY <3>1, <4>1, EventTypes, FeedStep
        <4>3. Exists(id)' /\ id \in seeded'
          BY <1>3, <2>1, <3>2 DEF Exists
        <4> QED BY <2>2, <4>2, <4>3 DEF FeedOK
      <3>3. CASE id \notin S
        BY <1>3, <2>2, <3>1, <3>3 DEF Exists, FeedOK
      <3> QED BY <3>2, <3>3
    <2>4. FeedMatchesTable'
      BY <2>3 DEF FeedMatchesTable, FeedOK, AtMostOne, Positions, Exists
    <2> QED BY <1>1, <1>3, <2>2, <2>4 DEF TableStep, Known
  <1> QED BY <1>2, <1>3 DEF Start, SeedData

\* A read changes no table, no feed and not the checker.
LEMMA ReadLeavesTables ==
    ASSUME NEW r \in Requests, Read(r)
    PROVE  UNCHANGED <<post, feed, mixed, seeded, checker>>
  <1>1. ASSUME NEW u \in Users, NEW c, NEW d, CreateJobPost(r, u, c, d)
        PROVE  UNCHANGED <<post, feed, mixed, seeded, checker>>
    BY <1>1 DEF CreateJobPost, Begin
  <1>2. ASSUME NEW u \in Users, NEW id \in Ids,
               \/ \E c \in Contents, d \in 1 .. MaxTime + 1 : UpdateJobPost(r, u, id, c, d)
               \/ \E i \in Images : DeleteImageFromJobPost(r, u, id, i)
               \/ DeleteJobPost(r, u, id)
               \/ SaveJobPost(r, u, id)
        PROVE  UNCHANGED <<post, feed, mixed, seeded, checker>>
    BY <1>2 DEF UpdateJobPost, DeleteImageFromJobPost, DeleteImageAcync, Image, DeleteJobPost, SaveJobPost, Begin
  <1>3. ASSUME NEW u \in Users, NEW id \in Ids, NEW S, NEW stored, UploadImage(r, u, id, S, stored)
        PROVE  UNCHANGED <<post, feed, mixed, seeded, checker>>
    BY <1>3 DEF UploadImage, Image, Begin
  <1> QED BY <1>1, <1>2, <1>3 DEF Read

LEMMA ReadTableStep ==
    ASSUME FeedInv, NEW r \in Requests, Read(r)
    PROVE  TableStep
  BY ReadLeavesTables, FrameFeed DEF Exists

LEMMA NextTableStep ==
    ASSUME FeedInv, [Next]_vars
    PROVE  TableStep
  <1>1. CASE Tick \/ Crash \/ UNCHANGED vars
    BY <1>1, FrameFeed DEF Tick, Crash, vars, Exists
  <1> QED BY <1>1, StartTableStep, ReadTableStep, CommitTableStep, CheckerTableStep DEF Next

\* What a step does to the requests: one begins, with an id that suits it, or
\* some end.
LEMMA RequestStep ==
    ASSUME FeedInv, [Next]_vars
    PROVE  \/ \A r \in Requests : req'[r] \in {Idle, req[r]}
           \/ \E r \in Requests :
                /\ \A x \in Requests \ {r} : req'[x] = req[x]
                /\ IF req'[r].op = "create"
                   THEN req'[r].id \in FreshIds
                   ELSE req'[r].id \in Ids /\ Exists(req'[r].id)
  <1>0. TypeOK
    BY DEF FeedInv
  <1> DEFINE Ends == \A r \in Requests : req'[r] \in {Idle, req[r]}
             Begins(r) == /\ \A x \in Requests \ {r} : req'[x] = req[x]
                          /\ IF req'[r].op = "create"
                             THEN req'[r].id \in FreshIds
                             ELSE req'[r].id \in Ids /\ Exists(req'[r].id)
  <1>1. CASE Start \/ Crash
    BY <1>1 DEF Start, SeedData, Crash
  <1>2. CASE Tick \/ CheckJobPosts \/ UNCHANGED vars
    <2>1. req' = req
      BY <1>2 DEF Tick, CheckJobPosts, CheckerQuery, CheckerSave, CheckerPublish, CheckerDispose, CheckerThrows, vars
    <2> QED BY <2>1
  <1>3. ASSUME NEW r \in Requests, Commit(r)
        PROVE  Ends
    <2>1. Finish(r)
      BY <1>3 DEF Commit, CommitCreate, CommitUpdate, CommitImage, CommitDelete, CommitSave, CommitFails
    <2> QED BY <1>0, <2>1 DEF Finish, TypeOK
  <1>4. ASSUME NEW r \in Requests, Read(r)
        PROVE  Ends \/ Begins(r)
    <2>1. ASSUME NEW q, Begin(r, q),
                 IF q.op = "create" THEN q.id \in FreshIds ELSE q.id \in Ids /\ Exists(q.id)
          PROVE  Begins(r)
      BY <1>0, <2>1 DEF Begin, TypeOK
    <2>2. ASSUME NEW u \in Users, NEW c, NEW d, CreateJobPost(r, u, c, d)
          PROVE  Begins(r)
      BY <2>1, <2>2 DEF CreateJobPost
    <2>3. ASSUME NEW u \in Users, NEW id \in Ids, NEW c, NEW d, UpdateJobPost(r, u, id, c, d)
          PROVE  Begins(r)
      BY <2>1, <2>3 DEF UpdateJobPost
    <2>4. ASSUME NEW u \in Users, NEW id \in Ids, NEW S, NEW stored, UploadImage(r, u, id, S, stored)
          PROVE  Ends \/ Begins(r)
      <3>1. CASE req' = req
        BY <3>1
      <3>2. CASE Begin(r, [op |-> "image", id |-> id, old |-> post[id], new |-> [post[id] EXCEPT !.photos = @ \cup S]])
        BY <2>1, <2>4, <3>2 DEF UploadImage, Image
      <3> QED BY <2>4, <3>1, <3>2 DEF UploadImage, Image
    <2>5. ASSUME NEW u \in Users, NEW id \in Ids, NEW i, DeleteImageFromJobPost(r, u, id, i)
          PROVE  Begins(r)
      BY <2>1, <2>5 DEF DeleteImageFromJobPost, DeleteImageAcync, Image
    <2>6. ASSUME NEW u \in Users, NEW id \in Ids, DeleteJobPost(r, u, id)
          PROVE  Begins(r)
      BY <2>1, <2>6 DEF DeleteJobPost
    <2>7. ASSUME NEW u \in Users, NEW id \in Ids, SaveJobPost(r, u, id)
          PROVE  Begins(r)
      BY <2>1, <2>7 DEF SaveJobPost
    <2> QED BY <1>4, <2>2, <2>3, <2>4, <2>5, <2>6, <2>7 DEF Read
  <1> QED BY <1>1, <1>2, <1>3, <1>4 DEF Next

LEMMA RequestsStep ==
    ASSUME FeedInv, [Next]_vars
    PROVE  CreatesAreFresh' /\ RequestsAreKnown'
  <1>1. TableStep /\ TypeOK /\ TypeOK' /\ CreatesAreFresh /\ RequestsAreKnown /\ FeedMatchesTable
    BY NextTableStep, StepTypes DEF FeedInv
  <1>2. \A id \in Ids : Exists(id) => Known(id)
    BY <1>1 DEF FeedMatchesTable, FeedOK, Known
  <1>3. \A r \in Requests, id \in Ids : Creating(r, id)' /\ ~Known(id) => ~Known(id)'
    BY <1>1 DEF TableStep
  <1>4. \A r \in Requests : req[r] # Idle => req[r].id \in Ids
    BY <1>1, RequestTypes
  <1>5. CASE \A r \in Requests : req'[r] \in {Idle, req[r]}
    <2>1. \A r \in Requests, id \in Ids : Creating(r, id)' => Creating(r, id)
      BY <1>5 DEF Creating
    <2>2. CreatesAreFresh'
      BY <1>1, <1>3, <2>1 DEF CreatesAreFresh
    <2>3. RequestsAreKnown'
      BY <1>1, <1>4, <1>5 DEF RequestsAreKnown, TableStep
    <2> QED BY <2>2, <2>3
  <1>6. ASSUME NEW r \in Requests,
               \A x \in Requests \ {r} : req'[x] = req[x],
               IF req'[r].op = "create"
               THEN req'[r].id \in FreshIds
               ELSE req'[r].id \in Ids /\ Exists(req'[r].id)
        PROVE  CreatesAreFresh' /\ RequestsAreKnown'
    <2>1. \A x \in Requests \ {r}, id \in Ids : Creating(x, id)' <=> Creating(x, id)
      BY <1>6 DEF Creating
    <2>2. \A id \in FreshIds : ~Known(id) /\ \A x \in Requests : ~Creating(x, id)
      BY DEF FreshIds, InUse, Known, Creating
    <2>3. \A id \in Ids : Creating(r, id)' => id \in FreshIds
      BY <1>6 DEF Creating
    <2>4. CreatesAreFresh'
      <3> SUFFICES ASSUME NEW id \in Ids, NEW x \in Requests, Creating(x, id)'
                   PROVE  ~Known(id)' /\ \A q \in Requests : Creating(q, id)' => q = x
        BY DEF CreatesAreFresh
      <3>1. CASE x = r
        BY <1>3, <2>1, <2>2, <2>3, <3>1
      <3>2. CASE x # r
        BY <1>1, <1>3, <2>1, <2>2, <2>3, <3>2 DEF CreatesAreFresh
      <3> QED BY <3>1, <3>2
    <2>5. RequestsAreKnown'
      BY <1>1, <1>2, <1>4, <1>6 DEF RequestsAreKnown, TableStep
    <2> QED BY <2>4, <2>5
  <1> QED BY <1>5, <1>6, RequestStep

LEMMA CheckerStep ==
    ASSUME FeedInv, [Next]_vars
    PROVE  CheckerIsKnown'
  <1>1. TableStep /\ TypeOK /\ FeedMatchesTable /\ CheckerIsKnown
    BY NextTableStep DEF FeedInv
  <1>2. \A id \in Ids : Exists(id) => Known(id)
    BY <1>1 DEF FeedMatchesTable, FeedOK, Known
  <1>3. \A id \in Ids : Known(id) => Known(id)'
    BY <1>1 DEF TableStep
  <1>4. CASE checker' = checker \/ checker' = NoWork
    BY <1>1, <1>3, <1>4, NoneAssumption DEF CheckerIsKnown, NoWork
  <1>5. CASE CheckerQuery
    BY <1>2, <1>3, <1>5, NoneAssumption DEF CheckerQuery, CheckerIsKnown, NoWork, GetFinishedJobPosts, Finished
  <1>6. ASSUME NEW i \in Ids, CheckerSave(i)
        PROVE  CheckerIsKnown'
    BY <1>1, <1>3, <1>6 DEF CheckerSave, CheckerIsKnown
  <1>7. CASE CheckerPublish
    <2>1. checker'.work = checker.work /\ checker'.staged = {checker.cur} /\ checker'.cur = None
      BY <1>1, <1>7 DEF CheckerPublish, TypeOK
    <2> QED BY <1>1, <1>3, <2>1, NoneAssumption DEF CheckerIsKnown
  <1>8. ASSUME NEW r \in Requests, Read(r)
        PROVE  checker' = checker
    BY <1>8, ReadLeavesTables
  <1>9. ASSUME NEW r \in Requests, Commit(r)
        PROVE  checker' = checker
    BY <1>9 DEF Commit, CommitCreate, CommitUpdate, CommitImage, CommitDelete, CommitSave, CommitFails, Finish
  <1>10. CASE Tick \/ Start \/ Crash \/ CheckerDispose \/ CheckerThrows \/ UNCHANGED vars
    BY <1>4, <1>10 DEF Tick, Start, SeedData, Crash, CheckerDispose, CheckerThrows, vars
  <1> QED BY <1>4, <1>5, <1>6, <1>7, <1>8, <1>9, <1>10 DEF Next, CheckJobPosts

LEMMA InitFeed == Init => FeedInv
  <1> SUFFICES ASSUME Init PROVE FeedInv
    OBVIOUS
  <1>1. TypeOK
    BY InitTypes
  <1>2. \A id \in Ids : feed[id] = <<>> /\ ~Exists(id) /\ id \notin seeded
    BY DEF Init, Exists
  <1>3. \A kinds : Positions(<<>>, kinds) = {}
    BY DEF Positions
  <1>4. FeedMatchesTable
    BY <1>2, <1>3 DEF FeedMatchesTable, FeedOK, AtMostOne
  <1>5. CreatesAreFresh /\ RequestsAreKnown /\ CheckerIsKnown
    BY NoneAssumption DEF Init, CreatesAreFresh, RequestsAreKnown, CheckerIsKnown, Creating, NoWork
  <1> QED BY <1>1, <1>4, <1>5 DEF FeedInv

LEMMA StepFeed == FeedInv /\ [Next]_vars => FeedInv'
  <1> SUFFICES ASSUME FeedInv, [Next]_vars PROVE FeedInv'
    OBVIOUS
  <1>1. TypeOK'
    BY StepTypes DEF FeedInv
  <1>2. FeedMatchesTable'
    BY NextTableStep DEF TableStep
  <1> QED BY <1>1, <1>2, RequestsStep, CheckerStep DEF FeedInv

\* Whatever requests, crashes and failed saves do, the events committed for a
\* post tell exactly whether its row was made by a user and whether it is gone.
THEOREM OutboxIsTransactional == Spec => []FeedMatchesTable
  <1>1. FeedInv => FeedMatchesTable
    BY DEF FeedInv
  <1> QED BY <1>1, InitFeed, StepFeed, PTL DEF Spec

-------------------------------------------------------------------------------
(* The service implements PostFeed. *)

LEMMA PublicColumnsType ==
    /\ \A r \in Row : PublicColumns(r) \in Columns /\ PublicColumns(r) # NoRow
    /\ \A r \in Row : CreatedEvent(r) = Feed!CreatedEvent(PublicColumns(r))
                   /\ UpdatedEvent(r) = Feed!UpdatedEvent(PublicColumns(r))
    /\ DeletedEvent = Feed!DeletedEvent /\ DeadlineReachedEvent = Feed!DeadlineReachedEvent
  BY NoRowAssumption DEF Row, Columns, PublicColumns, CreatedEvent, UpdatedEvent, DeletedEvent,
        DeadlineReachedEvent, Feed!CreatedEvent, Feed!UpdatedEvent, Feed!DeletedEvent, Feed!DeadlineReachedEvent

\* Being there and being known mean the same in both specifications.
LEMMA SameRows ==
    ASSUME TypeOK
    PROVE  /\ \A id \in Ids : Feed!Live(id) <=> Exists(id)
           /\ \A id \in Ids : Feed!Known(id) <=> Known(id)
           /\ publicRow \in [Ids -> Columns \cup {NoRow}]
           /\ \A id \in Ids : publicRow[id] = IF Exists(id) THEN PublicColumns(post[id]) ELSE NoRow
  <1>1. \A id \in Ids : Exists(id) => PublicColumns(post[id]) \in Columns /\ PublicColumns(post[id]) # NoRow
    BY PublicColumnsType DEF TypeOK, Exists
  <1> QED BY <1>1 DEF publicRow, Feed!Live, Feed!Known, Known

\* A step that leaves the public columns and the feeds alone is no step of PostFeed.
LEMMA FeedStutters ==
    ASSUME UNCHANGED <<post, feed, seeded>>
    PROVE  UNCHANGED Feed!vars
  BY DEF Feed!vars, publicRow, Exists

\* Setting one row sets the public columns of that row.
LEMMA SetsOneRow ==
    ASSUME TypeOK, NEW p \in Ids, NEW v \in Row \cup {NoRow}, post' = [post EXCEPT ![p] = v]
    PROVE  publicRow' = [publicRow EXCEPT ![p] = IF v = NoRow THEN NoRow ELSE PublicColumns(v)]
  BY DEF publicRow, Exists, TypeOK

LEMMA CommitImplementsFeed ==
    ASSUME FeedInv, NEW r \in Requests, Commit(r)
    PROVE  Feed!Next \/ UNCHANGED Feed!vars
  <1> DEFINE q == req[r]
  <1>0. TypeOK /\ FeedMatchesTable /\ RequestsAreKnown /\ CreatesAreFresh /\ NoRow \notin Row
    BY NoRowAssumption DEF FeedInv
  <1>00. \A id \in Ids : Exists(id) => Known(id)
    BY <1>0 DEF FeedMatchesTable, FeedOK, Known
  <1>1. CASE CommitCreate(r)
    <2>1. PICK p \in Ids : p = q.id
      BY <1>0, <1>1, RequestTypes DEF CommitCreate, Serving
    <2>2. PICK n \in Row : n = q.new
      BY <1>0, <1>1, RequestTypes DEF CommitCreate, Serving
    <2>3. ~Feed!Live(p) /\ ~Feed!Known(p)
      BY <1>0, <1>00, <1>1, <2>1, SameRows DEF CommitCreate, Serving, CreatesAreFresh, Creating
    <2>4. post' = [post EXCEPT ![p] = n] /\ feed' = [feed EXCEPT ![p] = Append(@, CreatedEvent(n))] /\ seeded' = seeded
      BY <1>1, <2>1, <2>2 DEF CommitCreate, Publish, Finish
    <2>5. publicRow' = [publicRow EXCEPT ![p] = PublicColumns(n)]
      BY <1>0, <2>2, <2>4, SetsOneRow
    <2>6. Feed!Create(p)
      BY <2>2, <2>3, <2>4, <2>5, PublicColumnsType DEF Feed!Create, Feed!Publish
    <2> QED BY <2>6 DEF Feed!Next
  <1>2. CASE CommitUpdate(r)
    <2>1. PICK p \in Ids : p = q.id
      BY <1>0, <1>2, RequestTypes DEF CommitUpdate, Serving
    <2>2. PICK n \in Row, o \in Row : n = q.new /\ o = q.old
      BY <1>0, <1>2, RequestTypes DEF CommitUpdate, Serving
    <2>3. feed' = [feed EXCEPT ![p] = Append(@, Feed!UpdatedEvent(PublicColumns(n)))] /\ seeded' = seeded
      BY <1>2, <2>1, <2>2, PublicColumnsType DEF CommitUpdate, Publish, Finish
    <2>4. Known(p)
      BY <1>0, <1>2, <2>1 DEF CommitUpdate, Serving, RequestsAreKnown
    <2>5. CASE Exists(p)
      <3>1. post[p] \in Row
        BY <1>0, <2>5 DEF Exists, TypeOK
      <3>2. PICK m \in Row : post' = [post EXCEPT ![p] = m]
        <4>1. CASE q.new = q.old
          BY <1>0, <1>2, <3>1, <4>1 DEF CommitUpdate, TypeOK
        <4>2. CASE q.new # q.old
          <5>1. Merge(post[p], q.old, q.new) \in Row
            BY <2>2, <3>1 DEF Merge, Row
          <5> QED BY <1>2, <2>1, <4>2, <5>1 DEF CommitUpdate
        <4> QED BY <4>1, <4>2
      <3>3. publicRow' = [publicRow EXCEPT ![p] = PublicColumns(m)]
        BY <1>0, <3>2, SetsOneRow
      <3>4. Feed!Live(p)
        BY <1>0, <2>5, SameRows
      <3>5. Feed!Update(p)
        BY <2>2, <2>3, <3>2, <3>3, <3>4, PublicColumnsType DEF Feed!Update, Feed!Publish
      <3> QED BY <3>5 DEF Feed!Next
    <2>6. CASE ~Exists(p)
      <3>1. post' = post
        BY <1>2, <2>1, <2>6 DEF CommitUpdate
      <3>2. publicRow' = publicRow
        BY <3>1 DEF publicRow, Exists
      <3>3. ~Feed!Live(p) /\ Feed!Known(p)
        BY <1>0, <2>4, <2>6, SameRows
      <3>4. Feed!Trail(p)
        BY <2>2, <2>3, <3>2, <3>3, PublicColumnsType DEF Feed!Trail, Feed!Publish
      <3> QED BY <3>4 DEF Feed!Next
    <2> QED BY <2>5, <2>6
  <1>3. CASE CommitImage(r)
    <2>1. PICK p \in Ids : p = q.id
      BY <1>0, <1>3, RequestTypes DEF CommitImage, Serving
    <2>2. PICK n \in Row : n = q.new
      BY <1>0, <1>3, RequestTypes DEF CommitImage, Serving
    <2>3. post' = [post EXCEPT ![p] = n] /\ feed' = feed /\ seeded' = seeded /\ Exists(p)
      BY <1>3, <2>1, <2>2 DEF CommitImage, Finish
    <2>4. publicRow' = [publicRow EXCEPT ![p] = PublicColumns(n)]
      BY <1>0, <2>2, <2>3, SetsOneRow
    <2>5. Feed!WriteBack(p)
      BY <1>0, <2>2, <2>3, <2>4, SameRows, PublicColumnsType DEF Feed!WriteBack
    <2> QED BY <2>5 DEF Feed!Next
  <1>4. CASE CommitDelete(r)
    <2>1. PICK p \in Ids : p = q.id
      BY <1>0, <1>4, RequestTypes DEF CommitDelete, Serving
    <2>2. /\ post' = [post EXCEPT ![p] = NoRow] /\ seeded' = seeded /\ Exists(p)
          /\ feed' = [feed EXCEPT ![p] = Append(@, Feed!DeletedEvent)]
      BY <1>4, <2>1, PublicColumnsType DEF CommitDelete, Publish, Finish
    <2>3. publicRow' = [publicRow EXCEPT ![p] = NoRow]
      BY <1>0, <2>2, SetsOneRow
    <2>4. Feed!Delete(p)
      BY <1>0, <2>2, <2>3, SameRows DEF Feed!Delete, Feed!Publish
    <2> QED BY <2>4 DEF Feed!Next
  <1>5. CASE CommitSave(r) \/ CommitFails(r)
    BY <1>5, FeedStutters DEF CommitSave, CommitFails, Finish
  <1> QED BY <1>1, <1>2, <1>3, <1>4, <1>5 DEF Commit

LEMMA CheckerImplementsFeed ==
    ASSUME FeedInv, CheckJobPosts
    PROVE  Feed!Next \/ UNCHANGED Feed!vars
  <1>1. ASSUME NEW i \in Ids, CheckerSave(i)
        PROVE  Feed!Next
    <2>1. TypeOK /\ CheckerIsKnown
      BY DEF FeedInv
    <2>2. post[i] \in Row
      BY <1>1, <2>1 DEF CheckerSave, Exists, TypeOK
    <2>3. PICK n \in Row : post' = [post EXCEPT ![i] = n] /\ PublicColumns(n) = PublicColumns(post[i])
      <3>1. [post[i] EXCEPT !.status = "Completed"] \in Row
            /\ PublicColumns([post[i] EXCEPT !.status = "Completed"]) = PublicColumns(post[i])
        BY <2>2 DEF Row, Status, PublicColumns
      <3>2. post' = [post EXCEPT ![i] = [post[i] EXCEPT !.status = "Completed"]]
        BY <1>1 DEF CheckerSave
      <3> QED BY <3>1, <3>2
    <2>4. publicRow' = [publicRow EXCEPT ![i] = PublicColumns(post[i])]
      <3>1. n # NoRow
        BY NoRowAssumption
      <3> QED BY <2>1, <2>3, <3>1, SetsOneRow
    <2>5. publicRow[i] = PublicColumns(post[i]) /\ publicRow \in [Ids -> Columns \cup {NoRow}]
      BY <1>1, <2>1, SameRows DEF CheckerSave
    <2>6. publicRow' = publicRow
      BY <2>4, <2>5
    <2>7. PICK S \in SUBSET Ids : S = checker.staged
      BY <2>1 DEF TypeOK
    <2>8. \A id \in S : Feed!Known(id)
      BY <2>1, <2>7, SameRows DEF CheckerIsKnown
    <2>9. feed' = [id \in Ids |-> IF id \in S THEN Append(feed[id], Feed!DeadlineReachedEvent) ELSE feed[id]]
          /\ seeded' = seeded
      BY <1>1, <2>7, PublicColumnsType DEF CheckerSave
    <2>10. Feed!Announce(S)
      BY <2>6, <2>8, <2>9 DEF Feed!Announce
    <2> QED BY <2>10 DEF Feed!Next
  <1>2. CASE CheckerQuery \/ CheckerPublish \/ CheckerDispose \/ CheckerThrows
    BY <1>2, FeedStutters DEF CheckerQuery, CheckerPublish, CheckerDispose, CheckerThrows
  <1> QED BY <1>1, <1>2 DEF CheckJobPosts

LEMMA StartImplementsFeed ==
    ASSUME FeedInv, Start
    PROVE  Feed!Next \/ UNCHANGED Feed!vars
  <1>1. CASE UNCHANGED <<post, seeded>>
    BY <1>1, FeedStutters DEF Start, SeedData
  <1>2. ASSUME NEW S \in SUBSET FreshIds, NEW c \in Contents, NEW d \in now + 1 .. MaxTime + 1,
               seeded' = seeded \cup S,
               post' = [id \in Ids |->
                    IF id \in S
                    THEN [employer |-> SeedEmployer, status |-> "Open", deadline |-> d, content |-> c, photos |-> {}]
                    ELSE post[id]]
        PROVE  Feed!Next
    <2>1. TypeOK
      BY DEF FeedInv
    <2>2. PICK n \in Row : \A id \in Ids : post'[id] = IF id \in S THEN n ELSE post[id]
      <3>1. [employer |-> SeedEmployer, status |-> "Open", deadline |-> d, content |-> c, photos |-> {}] \in Row
        BY <2>1, BoundsAssumption DEF Row, Status, Times, TypeOK
      <3> QED BY <1>2, <3>1
    <2>3. publicRow' = [id \in Ids |-> IF id \in S THEN PublicColumns(n) ELSE publicRow[id]]
      BY <2>2, NoRowAssumption DEF publicRow, Exists
    <2>4. S \in SUBSET Ids /\ \A id \in S : ~Feed!Live(id) /\ ~Feed!Known(id)
      BY <2>1, SameRows DEF FreshIds, InUse, Known
    <2>5. feed' = feed
      BY DEF Start, SeedData
    <2>6. Feed!Seed(S)
      BY <1>2, <2>2, <2>3, <2>4, <2>5, PublicColumnsType DEF Feed!Seed
    <2> QED BY <2>4, <2>6 DEF Feed!Next
  <1> QED BY <1>1, <1>2 DEF Start, SeedData

\* Every behaviour of the service, with its rows reduced to their public columns,
\* is a behaviour of PostFeed: the consumers may rely on PostFeed alone.
THEOREM ServiceImplementsPostFeed == Spec => ImplementsPostFeed
  <1>1. Init => Feed!Init
    BY DEF Init, Feed!Init, publicRow, Exists
  <1>2. FeedInv /\ [Next]_vars => [Feed!Next]_Feed!vars
    <2> SUFFICES ASSUME FeedInv, [Next]_vars PROVE Feed!Next \/ UNCHANGED Feed!vars
      OBVIOUS
    <2>1. CASE Tick \/ Crash \/ UNCHANGED vars
      BY <2>1, FeedStutters DEF Tick, Crash, vars
    <2>2. ASSUME NEW r \in Requests, Read(r)
          PROVE  UNCHANGED Feed!vars
      BY <2>2, ReadLeavesTables, FeedStutters
    <2> QED BY <2>1, <2>2, StartImplementsFeed, CommitImplementsFeed, CheckerImplementsFeed DEF Next
  <1> QED BY <1>1, <1>2, InitFeed, StepFeed, PTL DEF Spec, ImplementsPostFeed, Feed!Spec

-------------------------------------------------------------------------------
(* No deadline is announced twice, as long as the post's images are left alone. *)

\* A post once imaged stays so.
LEMMA ImagedGrows ==
    ASSUME [Next]_vars
    PROVE  imaged \subseteq imaged'
  <1>1. ASSUME NEW r \in Requests, Read(r)
        PROVE  imaged \subseteq imaged'
    <2>1. ASSUME NEW u, NEW id, NEW S, NEW stored, UploadImage(r, u, id, S, stored)
          PROVE  imaged \subseteq imaged'
      BY <2>1 DEF UploadImage, Image
    <2>2. ASSUME NEW u, NEW id, NEW i, DeleteImageFromJobPost(r, u, id, i)
          PROVE  imaged \subseteq imaged'
      BY <2>2 DEF DeleteImageFromJobPost, DeleteImageAcync, Image
    <2>3. ASSUME NEW u, NEW c, NEW d, CreateJobPost(r, u, c, d)
          PROVE  imaged \subseteq imaged'
      BY <2>3 DEF CreateJobPost
    <2>4. ASSUME NEW u, NEW id,
                 \/ \E c \in Contents, d \in 1 .. MaxTime + 1 : UpdateJobPost(r, u, id, c, d)
                 \/ DeleteJobPost(r, u, id)
                 \/ SaveJobPost(r, u, id)
          PROVE  imaged \subseteq imaged'
      BY <2>4 DEF UpdateJobPost, DeleteJobPost, SaveJobPost
    <2> QED BY <1>1, <2>1, <2>2, <2>3, <2>4 DEF Read
  <1>2. ASSUME NEW r \in Requests, Commit(r)
        PROVE  imaged \subseteq imaged'
    BY <1>2 DEF Commit, CommitCreate, CommitUpdate, CommitImage, CommitDelete, CommitSave, CommitFails, Finish
  <1>3. CASE Tick \/ Start \/ Crash \/ CheckJobPosts \/ UNCHANGED vars
    BY <1>3 DEF Tick, Start, SeedData, Crash, CheckJobPosts, CheckerQuery, CheckerSave, CheckerPublish,
          CheckerDispose, CheckerThrows, vars
  <1> QED BY <1>1, <1>2, <1>3 DEF Next

\* An update keeps the status it read, and a request that may write a snapshot
\* back has marked its post as imaged.
LEMMA SnapshotStep ==
    ASSUME AnnounceInv, [Next]_vars
    PROVE  StatusKept' /\ SnapshotsAreImaged'
  <1>0. TypeOK /\ StatusKept /\ SnapshotsAreImaged /\ imaged \subseteq imaged'
    BY ImagedGrows DEF AnnounceInv, FeedInv
  <1> DEFINE Good == StatusKept' /\ SnapshotsAreImaged'
  <1>1. CASE \A r \in Requests : req'[r] \in {Idle, req[r]}
    BY <1>0, <1>1 DEF StatusKept, SnapshotsAreImaged, Serving
  <1>2. ASSUME NEW r \in Requests, NEW q, Begin(r, q),
               q.op = "update" => q.new.status = q.old.status,
               q.op = "image" => q.id \in imaged'
        PROVE  Good
    <2>1. req'[r] = q /\ \A x \in Requests \ {r} : req'[x] = req[x]
      BY <1>0, <1>2 DEF Begin, TypeOK
    <2> QED BY <1>0, <1>2, <2>1 DEF StatusKept, SnapshotsAreImaged, Serving
  <1>3. ASSUME NEW r \in Requests, NEW u \in Users, NEW c, NEW d, CreateJobPost(r, u, c, d)
        PROVE  Good
    BY <1>2, <1>3 DEF CreateJobPost
  <1>4. ASSUME NEW r \in Requests, NEW u \in Users, NEW id \in Ids, NEW c, NEW d, UpdateJobPost(r, u, id, c, d)
        PROVE  Good
    <2>1. post[id] \in Row
      BY <1>0, <1>4 DEF UpdateJobPost, Exists, TypeOK
    <2>2. [post[id] EXCEPT !.content = c, !.deadline = d].status = post[id].status
      BY <2>1 DEF Row
    <2> QED BY <1>2, <1>4, <2>2 DEF UpdateJobPost
  <1>5. ASSUME NEW r \in Requests, NEW u \in Users, NEW id \in Ids, NEW S \in SUBSET Images,
               NEW stored \in SUBSET Images, UploadImage(r, u, id, S, stored)
        PROVE  Good
    <2>1. CASE stored = S
      BY <1>2, <1>5, <2>1 DEF UploadImage, Image
    <2>2. CASE stored # S
      BY <1>1, <1>5, <2>2 DEF UploadImage, Image
    <2> QED BY <2>1, <2>2
  <1>6. ASSUME NEW r \in Requests, NEW u \in Users, NEW id \in Ids, NEW i \in Images, DeleteImageFromJobPost(r, u, id, i)
        PROVE  Good
    BY <1>2, <1>6 DEF DeleteImageFromJobPost, DeleteImageAcync, Image
  <1>7. ASSUME NEW r \in Requests, NEW u \in Users, NEW id \in Ids, DeleteJobPost(r, u, id)
        PROVE  Good
    BY <1>2, <1>7 DEF DeleteJobPost
  <1>8. ASSUME NEW r \in Requests, NEW u \in Users, NEW id \in Ids, SaveJobPost(r, u, id)
        PROVE  Good
    BY <1>2, <1>8 DEF SaveJobPost
  <1>9. ASSUME NEW r \in Requests, Read(r)
        PROVE  Good
    BY <1>3, <1>4, <1>5, <1>6, <1>7, <1>8, <1>9 DEF Read
  <1>10. ASSUME NEW r \in Requests, Commit(r)
         PROVE  Good
    <2>1. Finish(r)
      BY <1>10 DEF Commit, CommitCreate, CommitUpdate, CommitImage, CommitDelete, CommitSave, CommitFails
    <2> QED BY <1>0, <1>1, <2>1 DEF Finish, TypeOK
  <1>11. CASE Tick \/ Start \/ Crash \/ CheckJobPosts \/ UNCHANGED vars
    <2>1. \A r \in Requests : req'[r] \in {Idle, req[r]}
      BY <1>11 DEF Tick, Start, SeedData, Crash, CheckJobPosts, CheckerQuery, CheckerSave, CheckerPublish,
            CheckerDispose, CheckerThrows, vars
    <2> QED BY <1>1, <2>1
  <1> QED BY <1>9, <1>10, <1>11 DEF Next

\* AppendPositions for the event this section is about.
LEMMA AppendDeadline ==
    ASSUME NEW s \in Seq(Event), NEW e \in Event
    PROVE  /\ e.kind = "DeadlineReached" =>
                Positions(Append(s, e), {"DeadlineReached"}) = Positions(s, {"DeadlineReached"}) \cup {Len(s) + 1}
           /\ e.kind # "DeadlineReached" =>
                Positions(Append(s, e), {"DeadlineReached"}) = Positions(s, {"DeadlineReached"})
  <1> DEFINE kind == "DeadlineReached"
  <1> HIDE DEF kind
  <1>1. /\ e.kind = kind => Positions(Append(s, e), {kind}) = Positions(s, {kind}) \cup {Len(s) + 1}
        /\ e.kind # kind => Positions(Append(s, e), {kind}) = Positions(s, {kind})
    BY AppendPositions
  <1> QED BY <1>1 DEF kind

\* Steps that append nothing but other events, reopen nothing, and leave the
\* checker's debts alone or cancel them.
LEMMA AnnounceFrame ==
    ASSUME TypeOK, NEW id \in Ids, AnnounceOK(id),
           \/ feed'[id] = feed[id]
           \/ \E e \in Event : e.kind # "DeadlineReached" /\ feed'[id] = Append(feed[id], e),
           Exists(id)' => \/ Exists(id) /\ post'[id].status = post[id].status
                          \/ feed[id] = <<>> /\ ~Owed(id) /\ id \notin checker.work /\ post'[id].status = "Open",
           checker' \in {checker, NoWork}
    PROVE  AnnounceOK(id)'
  <1>1. feed[id] \in Seq(Event)
    BY DEF TypeOK
  <1>2. Positions(feed'[id], {"DeadlineReached"}) = Positions(feed[id], {"DeadlineReached"})
    <2>1. CASE feed'[id] = feed[id]
      BY <2>1
    <2>2. ASSUME NEW e \in Event, e.kind # "DeadlineReached", feed'[id] = Append(feed[id], e)
          PROVE  Positions(feed'[id], {"DeadlineReached"}) = Positions(feed[id], {"DeadlineReached"})
      BY <1>1, <2>2, AppendDeadline
    <2> QED BY <2>1, <2>2
  <1>3. AtMostOne(feed'[id], "DeadlineReached") /\ (Announced(id)' <=> Announced(id))
    BY <1>2 DEF AtMostOne, AnnounceOK, Announced
  <1>4. (Owed(id)' => Owed(id)) /\ (id \in checker'.work => id \in checker.work)
        /\ (checker'.cur = id /\ id \in checker'.staged => checker.cur = id /\ id \in checker.staged)
    BY NoneAssumption DEF Owed, NoWork
  <1>5. feed[id] = <<>> => ~Announced(id)
    BY DEF Announced, Positions
  <1>6. Exists(id)' /\ id \in checker'.work => post'[id].status = "Open"
    BY <1>4 DEF AnnounceOK
  <1>7. Exists(id)' /\ (Announced(id)' \/ Owed(id)') => post'[id].status = "Completed"
    BY <1>3, <1>4, <1>5 DEF AnnounceOK
  <1>8. Owed(id)' => ~Announced(id)' /\ ~(checker'.cur = id /\ id \in checker'.staged)
    BY <1>3, <1>4 DEF AnnounceOK
  <1>9. id \in checker'.work => ~Announced(id)' /\ ~Owed(id)'
    BY <1>3, <1>4 DEF AnnounceOK
  <1> QED BY <1>3, <1>6, <1>7, <1>8, <1>9 DEF AnnounceOK

LEMMA CommitAnnounce ==
    ASSUME AnnounceInv, NEW r \in Requests, Commit(r), NEW id \in Ids \ imaged
    PROVE  AnnounceOK(id)'
  <1> DEFINE q == req[r]
  <1>0. /\ TypeOK /\ FeedMatchesTable /\ CreatesAreFresh /\ RequestsAreKnown /\ CheckerIsKnown
        /\ StatusKept /\ SnapshotsAreImaged /\ AnnounceOK(id)
    BY DEF AnnounceInv, FeedInv
  <1>00. checker' = checker
    BY DEF Commit, CommitCreate, CommitUpdate, CommitImage, CommitDelete, CommitSave, CommitFails, Finish
  <1>1. CASE CommitCreate(r)
    <2>1. PICK p \in Ids : p = q.id
      BY <1>0, <1>1, RequestTypes DEF CommitCreate, Serving
    <2>2. PICK n \in Row, e \in Event : n = q.new /\ e = CreatedEvent(n) /\ e.kind = "Created"
      BY <1>0, <1>1, RequestTypes, EventTypes DEF CommitCreate, Serving
    <2>3. post' = [post EXCEPT ![p] = n] /\ feed' = [feed EXCEPT ![p] = Append(@, e)]
      BY <1>1, <2>1, <2>2 DEF CommitCreate, Publish
    <2>4. CASE id # p
      <3>1. post'[id] = post[id] /\ feed'[id] = feed[id]
        BY <1>0, <2>3, <2>4 DEF TypeOK
      <3> QED BY <1>0, <1>00, <3>1, AnnounceFrame DEF Exists
    <2>5. CASE id = p
      <3>1. ~Known(id)
        BY <1>0, <1>1, <2>1, <2>5 DEF CommitCreate, Serving, CreatesAreFresh, Creating
      <3>2. feed[id] = <<>> /\ id \notin checker.work /\ ~Owed(id)
        BY <1>0, <3>1 DEF Known, CheckerIsKnown, Owed
      <3>3. feed'[id] = Append(feed[id], e) /\ feed[id] \in Seq(Event)
        BY <1>0, <2>3, <2>5 DEF TypeOK
      <3>4. Positions(feed'[id], {"DeadlineReached"}) = {}
        <4>1. Positions(feed'[id], {"DeadlineReached"}) = Positions(feed[id], {"DeadlineReached"})
          <5>1. e.kind # "DeadlineReached"
            BY <2>2
          <5> QED BY <3>3, <5>1, AppendDeadline
        <4> QED BY <3>2, <4>1 DEF Positions
      <3> QED BY <1>00, <3>2, <3>4 DEF AnnounceOK, AtMostOne, Announced, Owed
    <2> QED BY <2>4, <2>5
  <1>2. CASE CommitUpdate(r)
    <2>1. PICK p \in Ids : p = q.id
      BY <1>0, <1>2, RequestTypes DEF CommitUpdate, Serving
    <2>2. PICK n \in Row, o \in Row, e \in Event : n = q.new /\ o = q.old /\ e = UpdatedEvent(n) /\ e.kind = "Updated"
      BY <1>0, <1>2, RequestTypes, EventTypes DEF CommitUpdate, Serving
    <2>3. feed' = [feed EXCEPT ![p] = Append(@, e)] /\ n.status = o.status
      BY <1>0, <1>2, <2>1, <2>2 DEF CommitUpdate, Publish, StatusKept
    <2>4. \A row \in Row : Merge(row, o, n) \in Row /\ Merge(row, o, n).status = row.status
      BY <2>2, <2>3 DEF Merge, Row
    <2>5. post'[id] = post[id] \/ (Exists(id) /\ post'[id].status = post[id].status)
      <3>1. CASE n = o \/ id # p
        BY <1>0, <1>2, <2>1, <2>2, <3>1 DEF CommitUpdate, TypeOK
      <3>2. CASE n # o /\ id = p
        <4>1. Exists(id) /\ post[id] \in Row
          BY <1>0, <1>2, <2>1, <2>2, <3>2 DEF CommitUpdate, TypeOK, Exists
        <4>2. post'[id] = Merge(post[id], o, n)
          BY <1>0, <1>2, <2>1, <2>2, <3>2 DEF CommitUpdate, TypeOK
        <4> QED BY <2>4, <4>1, <4>2
      <3> QED BY <3>1, <3>2
    <2>6. feed'[id] = feed[id] \/ feed'[id] = Append(feed[id], e)
      BY <1>0, <2>3 DEF TypeOK
    <2> QED BY <1>0, <1>00, <2>2, <2>5, <2>6, AnnounceFrame DEF Exists
  <1>3. CASE CommitImage(r)
    <2>1. q.id # id
      BY <1>0, <1>3 DEF CommitImage, SnapshotsAreImaged, Serving
    <2>2. post'[id] = post[id] /\ feed' = feed
      BY <1>0, <1>3, <2>1 DEF CommitImage, TypeOK
    <2> QED BY <1>0, <1>00, <2>2, AnnounceFrame DEF Exists
  <1>4. CASE CommitDelete(r)
    <2>1. PICK p \in Ids : p = q.id
      BY <1>0, <1>4, RequestTypes DEF CommitDelete, Serving
    <2>2. PICK e \in Event : e = DeletedEvent /\ e.kind = "Deleted"
      BY EventTypes
    <2>3. post' = [post EXCEPT ![p] = NoRow] /\ feed' = [feed EXCEPT ![p] = Append(@, e)]
      BY <1>4, <2>1, <2>2 DEF CommitDelete, Publish
    <2>4. post'[id] \in {post[id], NoRow} /\ feed'[id] \in {feed[id], Append(feed[id], e)}
      BY <1>0, <2>3 DEF TypeOK
    <2> QED BY <1>0, <1>00, <2>2, <2>4, AnnounceFrame DEF Exists
  <1>5. CASE CommitSave(r) \/ CommitFails(r)
    <2>1. post' = post /\ feed' = feed
      BY <1>5 DEF CommitSave, CommitFails
    <2> QED BY <1>0, <1>00, <2>1, AnnounceFrame DEF Exists
  <1> QED BY <1>1, <1>2, <1>3, <1>4, <1>5 DEF Commit

LEMMA CheckerAnnounce ==
    ASSUME AnnounceInv, CheckJobPosts, NEW id \in Ids \ imaged
    PROVE  AnnounceOK(id)'
  <1>0. TypeOK /\ AnnounceOK(id) /\ feed[id] \in Seq(Event)
    BY DEF AnnounceInv, FeedInv, TypeOK
  <1>1. CASE CheckerQuery
    <2>1. /\ post' = post /\ feed' = feed
          /\ checker'.cur = None /\ checker'.staged = {}
          /\ id \in checker'.work => Finished(id)
      BY <1>0, <1>1 DEF CheckerQuery, NoWork, GetFinishedJobPosts
    <2>2. ~Owed(id)' /\ (Announced(id)' <=> Announced(id)) /\ (Exists(id)' <=> Exists(id))
      BY <2>1, NoneAssumption DEF Owed, Announced, Exists
    <2>3. id \in checker'.work => Exists(id) /\ post[id].status = "Open"
      BY <1>0, <2>1 DEF Finished, TypeOK, Exists, Row, Status
    <2> QED BY <1>0, <2>1, <2>2, <2>3 DEF AnnounceOK, AtMostOne
  <1>2. ASSUME NEW i \in Ids, CheckerSave(i)
        PROVE  AnnounceOK(id)'
    <2>1. /\ i \in checker.work /\ checker.cur = None /\ Exists(i)
          /\ checker'.work = checker.work \ {i} /\ checker'.cur = i /\ checker'.staged = {}
          /\ feed'[id] = IF id \in checker.staged THEN Append(feed[id], DeadlineReachedEvent) ELSE feed[id]
      BY <1>2 DEF CheckerSave
    <2>2. Exists(id)' => Exists(id) /\ (id # i => post'[id].status = post[id].status) /\ (id = i => post'[id].status = "Completed")
      BY <1>0, <1>2 DEF CheckerSave, Exists, TypeOK, Row, Status
    <2>3. id = i => ~Owed(i) /\ ~Announced(i)
      BY <1>0, <2>1 DEF AnnounceOK
    <2>4. CASE id \in checker.staged
      <3>1. Owed(id) /\ id # i /\ ~Announced(id) /\ id \notin checker.work
        BY <1>0, <2>3, <2>4 DEF Owed, AnnounceOK
      <3>2. Positions(feed'[id], {"DeadlineReached"}) = Positions(feed[id], {"DeadlineReached"}) \cup {Len(feed[id]) + 1}
        BY <1>0, <2>1, <2>4, AppendDeadline, EventTypes
      <3>3. Positions(feed'[id], {"DeadlineReached"}) = {Len(feed[id]) + 1}
        BY <3>1, <3>2 DEF Announced
      <3>4. AtMostOne(feed'[id], "DeadlineReached")
        BY <3>3 DEF AtMostOne
      <3>5. ~Owed(id)' /\ id \notin checker'.work
        BY <2>1, <3>1 DEF Owed
      <3>6. Exists(id)' => post'[id].status = "Completed"
        BY <1>0, <2>2, <3>1 DEF AnnounceOK
      <3> QED BY <3>4, <3>5, <3>6 DEF AnnounceOK
    <2>5. CASE id \notin checker.staged
      <3>1. feed'[id] = feed[id]
        BY <2>1, <2>5
      <3>2. AtMostOne(feed'[id], "DeadlineReached") /\ (Announced(id)' <=> Announced(id))
        BY <1>0, <3>1 DEF AtMostOne, AnnounceOK, Announced
      <3>3. CASE id = i
        BY <2>1, <2>2, <2>3, <3>2, <3>3 DEF AnnounceOK, Owed
      <3>4. CASE id # i
        <4>1. ~Owed(id)' /\ (id \in checker'.work <=> id \in checker.work)
          BY <2>1, <3>4 DEF Owed
        <4> QED BY <1>0, <2>2, <3>2, <3>4, <4>1 DEF AnnounceOK
      <3> QED BY <3>3, <3>4
    <2> QED BY <2>4, <2>5
  <1>3. CASE CheckerPublish
    <2>1. /\ post' = post /\ feed' = feed /\ checker.cur # None
          /\ checker'.work = checker.work /\ checker'.cur = None /\ checker'.staged = {checker.cur}
      BY <1>0, <1>3 DEF CheckerPublish, TypeOK
    <2>2. Owed(id)' => checker.cur = id
      BY <2>1, NoneAssumption DEF Owed
    <2>3. (Announced(id)' <=> Announced(id)) /\ (Exists(id)' <=> Exists(id)) /\ checker'.cur # id
      BY <2>1, NoneAssumption DEF Announced, Exists
    <2> QED BY <1>0, <2>1, <2>2, <2>3 DEF AnnounceOK, AtMostOne, Owed
  <1>4. CASE CheckerDispose \/ CheckerThrows
    <2>1. post' = post /\ feed' = feed /\ checker' = NoWork
      BY <1>4 DEF CheckerDispose, CheckerThrows
    <2> QED BY <1>0, <2>1, AnnounceFrame DEF Exists
  <1> QED BY <1>1, <1>2, <1>3, <1>4 DEF CheckJobPosts

LEMMA StepAnnounce == AnnounceInv /\ [Next]_vars => AnnounceInv'
  <1> SUFFICES ASSUME AnnounceInv, [Next]_vars PROVE AnnounceInv'
    OBVIOUS
  <1>0. TypeOK /\ FeedInv /\ FeedInv' /\ CheckerIsKnown
    BY StepFeed DEF AnnounceInv, FeedInv
  <1>1. ASSUME NEW id \in Ids, id \notin imaged' PROVE AnnounceOK(id)'
    <2>0. id \in Ids \ imaged /\ AnnounceOK(id)
      BY <1>1, ImagedGrows DEF AnnounceInv
    <2>1. CASE Tick \/ Crash \/ UNCHANGED vars
      <3>1. post' = post /\ feed' = feed /\ checker' \in {checker, NoWork}
        BY <2>1 DEF Tick, Crash, vars
      <3> QED BY <1>0, <2>0, <3>1, AnnounceFrame DEF Exists
    <2>2. CASE Start
      <3>1. feed' = feed /\ checker' = checker
        BY <2>2 DEF Start, SeedData
      <3>2. post'[id] = post[id] \/ (id \in FreshIds /\ post'[id].status = "Open")
        BY <1>0, <2>2 DEF Start, SeedData, TypeOK
      <3>3. id \in FreshIds => feed[id] = <<>> /\ id \notin checker.work /\ ~Owed(id)
        BY <1>0 DEF FreshIds, InUse, CheckerIsKnown, Known, Owed
      <3> QED BY <1>0, <2>0, <3>1, <3>2, <3>3, AnnounceFrame DEF Exists
    <2>3. ASSUME NEW r \in Requests, Read(r) PROVE AnnounceOK(id)'
      <3>1. post' = post /\ feed' = feed /\ checker' = checker
        BY <2>3, ReadLeavesTables
      <3> QED BY <1>0, <2>0, <3>1, AnnounceFrame DEF Exists
    <2> QED BY <2>0, <2>1, <2>2, <2>3, CommitAnnounce, CheckerAnnounce DEF Next
  <1> QED BY <1>0, <1>1, SnapshotStep DEF AnnounceInv

LEMMA InitAnnounce == Init => AnnounceInv
  <1> SUFFICES ASSUME Init PROVE AnnounceInv
    OBVIOUS
  <1>1. StatusKept /\ SnapshotsAreImaged
    BY DEF Init, StatusKept, SnapshotsAreImaged, Serving
  <1>2. \A id \in Ids : feed[id] = <<>> /\ ~Owed(id) /\ id \notin checker.work
    BY NoneAssumption DEF Init, NoWork, Owed
  <1>3. Positions(<<>>, {"DeadlineReached"}) = {}
    BY DEF Positions
  <1>4. \A id \in Ids : AnnounceOK(id)
    BY <1>2, <1>3 DEF AnnounceOK, AtMostOne, Announced
  <1> QED BY <1>1, <1>4, InitFeed DEF AnnounceInv

\* However requests, restarts and the checker interleave, no post's deadline is
\* announced twice while nobody has called an image endpoint for it.
THEOREM AtMostOneAnnouncement == Spec => []AnnouncedAtMostOnce
  <1>1. AnnounceInv => AnnouncedAtMostOnce
    BY DEF AnnounceInv, AnnouncedAtMostOnce, AnnounceOK
  <1> QED BY <1>1, InitAnnounce, StepAnnounce, PTL DEF Spec

-------------------------------------------------------------------------------
(* The checker loses only the last announcement of a batch. *)

\* An item is saved with what was staged before it, so nothing is staged while an
\* item is the current one.
OneAtATime == checker.cur # None => checker.staged = {}
BatchInv == TypeOK /\ OneAtATime

LEMMA StepBatch == BatchInv /\ [Next]_vars => BatchInv'
  <1> SUFFICES ASSUME BatchInv, [Next]_vars PROVE OneAtATime'
    BY StepTypes DEF BatchInv
  <1>0. TypeOK /\ OneAtATime
    BY DEF BatchInv
  <1>1. CASE checker' \in {checker, NoWork}
    BY <1>0, <1>1 DEF OneAtATime, NoWork
  <1>2. CASE CheckerQuery \/ \E id \in Ids : CheckerSave(id)
    BY <1>2 DEF CheckerQuery, CheckerSave, OneAtATime, NoWork
  <1>3. CASE CheckerPublish
    <2>1. checker'.cur = None
      BY <1>0, <1>3 DEF CheckerPublish, TypeOK
    <2> QED BY <2>1 DEF OneAtATime
  <1>4. ASSUME NEW r \in Requests, Read(r) \/ Commit(r) PROVE checker' = checker
    BY <1>4, ReadLeavesTables DEF Commit, CommitCreate, CommitUpdate, CommitImage, CommitDelete,
          CommitSave, CommitFails, Finish
  <1>5. CASE Tick \/ Start \/ Crash \/ CheckerDispose \/ CheckerThrows \/ UNCHANGED vars
    BY <1>1, <1>5 DEF Tick, Start, SeedData, Crash, CheckerDispose, CheckerThrows, vars
  <1> QED BY <1>1, <1>2, <1>3, <1>4, <1>5 DEF Next, CheckJobPosts

\* An announcement that is owed stays owed until it is committed, but for the
\* end of a batch and of the host.
LEMMA OwedStep ==
    ASSUME BatchInv, [Next]_vars, NEW id \in Ids, Owed(id), ~Owed(id)'
    PROVE  \/ feed'[id] = Append(feed[id], DeadlineReachedEvent)
           \/ checker.work = {}
           \/ ~up'
  <1>0. TypeOK /\ OneAtATime /\ id # None /\ checker' # checker
    BY NoneAssumption DEF BatchInv, Owed
  <1>1. ASSUME NEW i \in Ids, CheckerSave(i)
        PROVE  feed'[id] = Append(feed[id], DeadlineReachedEvent)
    BY <1>0, <1>1 DEF CheckerSave, Owed
  <1>2. ~CheckerPublish
    <2> SUFFICES ASSUME CheckerPublish PROVE FALSE
      OBVIOUS
    <2>1. checker'.staged = {checker.cur}
      BY <1>0 DEF CheckerPublish, TypeOK
    <2>2. checker.cur = id
      BY <1>0 DEF CheckerPublish, OneAtATime, Owed
    <2> QED BY <2>1, <2>2 DEF Owed
  <1>3. ~CheckerQuery
    BY <1>0 DEF CheckerQuery, Owed, NoWork
  <1>4. ASSUME NEW r \in Requests PROVE ~Read(r) /\ ~Commit(r)
    BY <1>0, ReadLeavesTables DEF Commit, CommitCreate, CommitUpdate, CommitImage, CommitDelete,
          CommitSave, CommitFails, Finish
  <1>5. ~Tick /\ ~Start /\ ~UNCHANGED vars
    BY <1>0 DEF Tick, Start, SeedData, vars
  <1>6. CASE CheckerDispose \/ CheckerThrows \/ Crash
    BY <1>6 DEF CheckerDispose, CheckerThrows, Crash
  <1> QED BY <1>1, <1>2, <1>3, <1>4, <1>5, <1>6 DEF Next, CheckJobPosts

\* Whatever requests, failures and restarts do, an announcement the checker owes is
\* dropped only with the host or at the end of a batch (CheckJobPosts saves before it
\* publishes, and the scope ends with the last event only staged).
THEOREM LosesOnlyTheLast == Spec => OnlyLastOfBatchIsLost
  <1> DEFINE Step == \A id \in Ids : Owed(id) /\ ~Owed(id)' =>
                        \/ feed'[id] = Append(feed[id], DeadlineReachedEvent)
                        \/ checker.work = {}
                        \/ ~up'
  <1>1. Init => BatchInv
    BY InitTypes DEF BatchInv, OneAtATime, Init, NoWork
  <1>2. BatchInv /\ [Next]_vars => [Step]_vars
    BY OwedStep
  <1> QED BY <1>1, <1>2, StepBatch, PTL DEF Spec, OnlyLastOfBatchIsLost

-------------------------------------------------------------------------------
(* What a request keeps of its post. *)

\* A read that begins a request: a creation has a fresh id, the others are about a
\* post that is there; an edit keeps the status it read, one of images all that is
\* public.
LEMMA ReadBegins ==
    ASSUME TypeOK, NEW r \in Requests, Read(r)
    PROVE  \/ req' = req
           \/ /\ \A x \in Requests \ {r} : req'[x] = req[x]
              /\ IF req'[r].op = "create"
                 THEN req'[r].id \in FreshIds
                 ELSE req'[r].id \in Ids /\ Exists(req'[r].id)
              /\ req'[r].op \in {"update", "image"} =>
                    /\ req'[r].old = post[req'[r].id]
                    /\ req'[r].new.status = req'[r].old.status
              /\ req'[r].op = "image" => PublicColumns(req'[r].new) = PublicColumns(req'[r].old)
  <1> DEFINE Suits(q) == /\ IF q.op = "create" THEN q.id \in FreshIds ELSE q.id \in Ids /\ Exists(q.id)
                         /\ q.op \in {"update", "image"} =>
                               q.old = post[q.id] /\ q.new.status = q.old.status
                         /\ q.op = "image" => PublicColumns(q.new) = PublicColumns(q.old)
             Begins == (\A x \in Requests \ {r} : req'[x] = req[x]) /\ Suits(req'[r])
  <1>1. ASSUME NEW q, Begin(r, q), Suits(q) PROVE Begins
    <2>1. req'[r] = q /\ \A x \in Requests \ {r} : req'[x] = req[x]
      BY <1>1 DEF Begin, TypeOK
    <2> QED BY <1>1, <2>1
  <1>2. \A id \in Ids : Exists(id) => post[id] \in Row
    BY DEF Exists, TypeOK
  <1>3. ASSUME NEW u \in Users, NEW c, NEW d, CreateJobPost(r, u, c, d) PROVE Begins
    BY <1>1, <1>3 DEF CreateJobPost
  <1>4. ASSUME NEW u \in Users, NEW id \in Ids, NEW c, NEW d, UpdateJobPost(r, u, id, c, d) PROVE Begins
    <2>1. Exists(id) /\ [post[id] EXCEPT !.content = c, !.deadline = d].status = post[id].status
      BY <1>2, <1>4 DEF UpdateJobPost, Row
    <2> QED BY <1>1, <1>4, <2>1 DEF UpdateJobPost
  <1>5. ASSUME NEW u \in Users, NEW id \in Ids, NEW S, NEW stored, UploadImage(r, u, id, S, stored)
        PROVE  Begins \/ req' = req
    <2>1. CASE req' = req
      BY <2>1
    <2>2. CASE Begin(r, [op |-> "image", id |-> id, old |-> post[id], new |-> [post[id] EXCEPT !.photos = @ \cup S]])
      <3>1. /\ Exists(id) /\ [post[id] EXCEPT !.photos = @ \cup S].status = post[id].status
            /\ PublicColumns([post[id] EXCEPT !.photos = @ \cup S]) = PublicColumns(post[id])
        BY <1>2, <1>5 DEF UploadImage, Row, PublicColumns
      <3> QED BY <1>1, <2>2, <3>1
    <2> QED BY <1>5, <2>1, <2>2 DEF UploadImage
  <1>6. ASSUME NEW u \in Users, NEW id \in Ids, NEW i, DeleteImageFromJobPost(r, u, id, i) PROVE Begins
    <2>1. /\ Exists(id) /\ [post[id] EXCEPT !.photos = @ \ {i}].status = post[id].status
          /\ PublicColumns([post[id] EXCEPT !.photos = @ \ {i}]) = PublicColumns(post[id])
      BY <1>2, <1>6 DEF DeleteImageFromJobPost, Row, PublicColumns
    <2> QED BY <1>1, <1>6, <2>1 DEF DeleteImageFromJobPost
  <1>7. ASSUME NEW u \in Users, NEW id \in Ids, DeleteJobPost(r, u, id) PROVE Begins
    BY <1>1, <1>7 DEF DeleteJobPost
  <1>8. ASSUME NEW u \in Users, NEW id \in Ids, SaveJobPost(r, u, id) PROVE Begins
    BY <1>1, <1>8 DEF SaveJobPost
  <1> QED BY <1>3, <1>4, <1>5, <1>6, <1>7, <1>8 DEF Read

\* Every step that is not a read leaves the requests as they are or ends some.
LEMMA OthersEnd ==
    ASSUME TypeOK, [Next]_vars, \A r \in Requests : ~Read(r)
    PROVE  \A r \in Requests : req'[r] \in {Idle, req[r]}
  <1>1. CASE Tick \/ Start \/ Crash \/ CheckJobPosts \/ UNCHANGED vars
    BY <1>1 DEF Tick, Start, SeedData, Crash, CheckJobPosts, CheckerQuery, CheckerSave, CheckerPublish,
          CheckerDispose, CheckerThrows, vars
  <1>2. ASSUME NEW r \in Requests, Commit(r)
        PROVE  \A x \in Requests : req'[x] \in {Idle, req[x]}
    BY <1>2 DEF Commit, CommitCreate, CommitUpdate, CommitImage, CommitDelete, CommitSave, CommitFails, Finish, TypeOK
  <1> QED BY <1>1, <1>2 DEF Next

-------------------------------------------------------------------------------
(* Only a snapshot of the images' handlers reopens a completed post. *)

EditsKeepStatus == \A r \in Requests : Serving(r, {"update", "image"}) => req[r].new.status = req[r].old.status
ReopenInv == FeedInv /\ EditsKeepStatus

LEMMA StepReopen == ReopenInv /\ [Next]_vars => ReopenInv'
  <1> SUFFICES ASSUME ReopenInv, [Next]_vars PROVE EditsKeepStatus'
    BY StepFeed DEF ReopenInv
  <1>0. TypeOK /\ EditsKeepStatus
    BY DEF ReopenInv, FeedInv
  <1>1. CASE \A r \in Requests : req'[r] \in {Idle, req[r]}
    BY <1>0, <1>1 DEF EditsKeepStatus, Serving
  <1>2. ASSUME NEW r \in Requests, Read(r) PROVE EditsKeepStatus'
    <2>1. CASE req' = req
      BY <1>1, <2>1
    <2>2. CASE /\ \A x \in Requests \ {r} : req'[x] = req[x]
               /\ req'[r].op \in {"update", "image"} => req'[r].new.status = req'[r].old.status
      BY <1>0, <2>2 DEF EditsKeepStatus, Serving
    <2> QED BY <1>0, <1>2, <2>1, <2>2, ReadBegins
  <1> QED BY <1>0, <1>1, <1>2, OthersEnd

\* What becomes of a completed row.
LEMMA ReopensBy ==
    ASSUME ReopenInv, [Next]_vars, NEW id \in Ids,
           Exists(id), Exists(id)', post[id].status = "Completed", post'[id].status = "Open"
    PROVE  \E r \in Requests : Serving(r, {"image"}) /\ req[r].id = id /\ req[r].old.status = "Open"
  <1>0. /\ TypeOK /\ FeedMatchesTable /\ CreatesAreFresh /\ EditsKeepStatus
        /\ post'[id] # post[id] /\ post[id] \in Row
    BY DEF ReopenInv, FeedInv, Exists, TypeOK
  <1>1. Known(id)
    BY <1>0 DEF FeedMatchesTable, FeedOK, Known
  <1>2. ASSUME NEW r \in Requests, Commit(r)
        PROVE  Serving(r, {"image"}) /\ req[r].id = id /\ req[r].old.status = "Open"
    <2>1. CASE CommitCreate(r)
      <3>1. req[r].id # id
        BY <1>0, <1>1, <2>1 DEF CommitCreate, Serving, CreatesAreFresh, Creating
      <3> QED BY <1>0, <2>1, <3>1 DEF CommitCreate, TypeOK
    <2>2. CASE CommitUpdate(r)
      <3>1. PICK o \in Row, n \in Row : o = req[r].old /\ n = req[r].new
        BY <1>0, <2>2, RequestTypes DEF CommitUpdate, Serving
      <3>2. o.status = n.status
        BY <1>0, <2>2, <3>1 DEF CommitUpdate, Serving, EditsKeepStatus
      <3>3. Merge(post[id], o, n).status = post[id].status
        BY <1>0, <3>1, <3>2 DEF Merge, Row
      <3>4. post'[id] \in {post[id], Merge(post[id], o, n)}
        BY <1>0, <2>2, <3>1 DEF CommitUpdate, TypeOK
      <3> QED BY <1>0, <3>3, <3>4
    <2>3. CASE CommitImage(r)
      <3>1. Serving(r, {"image"}) /\ req[r].id = id /\ post'[id] = req[r].new
        BY <1>0, <2>3 DEF CommitImage, TypeOK
      <3> QED BY <1>0, <3>1 DEF EditsKeepStatus, Serving
    <2>4. CASE CommitDelete(r)
      BY <1>0, <2>4 DEF CommitDelete, Exists, TypeOK
    <2>5. CASE CommitSave(r) \/ CommitFails(r)
      BY <1>0, <2>5 DEF CommitSave, CommitFails
    <2> QED BY <1>2, <2>1, <2>2, <2>3, <2>4, <2>5 DEF Commit
  <1>3. ASSUME NEW r \in Requests, Read(r) PROVE FALSE
    BY <1>0, <1>3, ReadLeavesTables
  <1>4. ASSUME NEW i \in Ids, CheckerSave(i) PROVE FALSE
    <2>1. i # id => post'[id] = post[id]
      BY <1>0, <1>4 DEF CheckerSave, TypeOK
    <2>2. i = id => post'[id].status = "Completed"
      BY <1>0, <1>4 DEF CheckerSave, TypeOK, Row
    <2> QED BY <1>0, <2>1, <2>2
  <1>5. CASE Start
    BY <1>0, <1>5 DEF Start, SeedData, FreshIds, InUse
  <1>6. CASE Tick \/ Crash \/ CheckerQuery \/ CheckerPublish \/ CheckerDispose \/ CheckerThrows \/ UNCHANGED vars
    BY <1>0, <1>6 DEF Tick, Crash, CheckerQuery, CheckerPublish, CheckerDispose, CheckerThrows, vars
  <1> QED BY <1>2, <1>3, <1>4, <1>5, <1>6 DEF Next, CheckJobPosts

\* Among all writes of a row (updates, images, the checker, seeding), only the handlers
\* of images, which write the whole row they read, take a completed post back to open,
\* and only when they read it before it was completed.
THEOREM OnlySnapshotsReopen == Spec => OnlyStaleImageWriteReopens
  <1> DEFINE Step == \A id \in Ids :
                Exists(id) /\ Exists(id)' /\ post[id].status = "Completed" /\ post'[id].status = "Open" =>
                    \E r \in Requests : Serving(r, {"image"}) /\ req[r].id = id /\ req[r].old.status = "Open"
  <1>1. Init => ReopenInv
    BY InitFeed DEF ReopenInv, EditsKeepStatus, Init, Serving
  <1>2. ReopenInv /\ [Next]_vars => [Step]_vars
    BY ReopensBy
  <1> QED BY <1>1, <1>2, StepReopen, PTL DEF Spec, OnlyStaleImageWriteReopens

-------------------------------------------------------------------------------
(* The last event that carries columns carries those of the row. *)

Carrying(s) == Positions(s, {"Created", "Updated"})
EndsWith(s, columns) ==
    Carrying(s) # {} => \E k \in Carrying(s) : (\A j \in Carrying(s) : j <= k) /\ s[k].data = {columns}

\* An image request has changed no column that the events carry.
ImagesKeepColumns ==
    \A r \in Requests : Serving(r, {"image"}) => PublicColumns(req[r].new) = PublicColumns(req[r].old)
LatestInv == FeedInv /\ LatestEventMatchesRow /\ ImagesKeepColumns

\* An event that carries columns becomes the last of these, any other changes nothing.
LEMMA AppendCarrying ==
    ASSUME NEW s \in Seq(Event), NEW e \in Event, NEW columns
    PROVE  /\ e.kind \in {"Created", "Updated"} /\ e.data = {columns} => EndsWith(Append(s, e), columns)
           /\ e.kind \notin {"Created", "Updated"} /\ EndsWith(s, columns) => EndsWith(Append(s, e), columns)
  <1> DEFINE a == Append(s, e)
             n == Len(s) + 1
  <1>1. Len(a) = n /\ Len(s) \in Nat /\ a[n] = e
    OBVIOUS
  <1>2. \A k \in 1 .. Len(s) : a[k] = s[k]
    OBVIOUS
  <1>3. Carrying(a) \subseteq 1 .. n /\ Carrying(s) \subseteq 1 .. Len(s)
    BY <1>1 DEF Carrying, Positions
  <1>4. ASSUME e.kind \in {"Created", "Updated"}, e.data = {columns}
        PROVE  EndsWith(a, columns)
    <2>1. n \in Carrying(a)
      BY <1>1, <1>4 DEF Carrying, Positions
    <2>2. \A j \in Carrying(a) : j <= n
      BY <1>1, <1>3
    <2> QED BY <1>1, <1>4, <2>1, <2>2 DEF EndsWith
  <1>5. ASSUME e.kind \notin {"Created", "Updated"}, EndsWith(s, columns)
        PROVE  EndsWith(a, columns)
    <2>1. Carrying(a) = Carrying(s)
      BY <1>1, <1>2, <1>5 DEF Carrying, Positions
    <2>2. \A k \in Carrying(s) : a[k] = s[k]
      BY <1>2, <1>3
    <2> QED BY <1>5, <2>1, <2>2 DEF EndsWith
  <1> QED BY <1>4, <1>5

LEMMA LatestMeans == LatestEventMatchesRow <=> \A id \in Ids \ mixed : Exists(id) => EndsWith(feed[id], PublicColumns(post[id]))
  BY DEF LatestEventMatchesRow, EndsWith, Carrying

\* What a step may do to the public columns and the feed of a post that is there and
\* not mixed afterwards: nothing new, one event with the columns it now has, or its first row.
Carried(id) ==
    \/ /\ id \notin mixed /\ Exists(id) /\ PublicColumns(post'[id]) = PublicColumns(post[id])
       /\ \/ feed'[id] = feed[id]
          \/ \E e \in Event : e.kind \notin {"Created", "Updated"} /\ feed'[id] = Append(feed[id], e)
    \/ \E e \in Event : /\ e.kind \in {"Created", "Updated"} /\ e.data = {PublicColumns(post'[id])}
                        /\ feed'[id] = Append(feed[id], e)
    \/ feed'[id] = <<>>

LEMMA CarriedKeeps ==
    ASSUME TypeOK, LatestEventMatchesRow, \A id \in Ids \ mixed' : Exists(id)' => Carried(id)
    PROVE  LatestEventMatchesRow'
  <1>1. ASSUME NEW id \in Ids \ mixed', Exists(id)' PROVE EndsWith(feed'[id], PublicColumns(post'[id]))
    <2>1. feed[id] \in Seq(Event) /\ Carried(id)
      BY <1>1 DEF TypeOK
    <2>2. id \notin mixed /\ Exists(id) => EndsWith(feed[id], PublicColumns(post[id]))
      BY LatestMeans
    <2>3. CASE id \notin mixed /\ Exists(id) /\ PublicColumns(post'[id]) = PublicColumns(post[id]) /\ feed'[id] = feed[id]
      BY <2>2, <2>3
    <2>4. ASSUME NEW e \in Event, id \notin mixed, Exists(id), PublicColumns(post'[id]) = PublicColumns(post[id]),
                 e.kind \notin {"Created", "Updated"}, feed'[id] = Append(feed[id], e)
          PROVE  EndsWith(feed'[id], PublicColumns(post'[id]))
      BY <2>1, <2>2, <2>4, AppendCarrying
    <2>5. ASSUME NEW e \in Event, e.kind \in {"Created", "Updated"}, e.data = {PublicColumns(post'[id])},
                 feed'[id] = Append(feed[id], e)
          PROVE  EndsWith(feed'[id], PublicColumns(post'[id]))
      BY <2>1, <2>5, AppendCarrying
    <2>6. CASE feed'[id] = <<>>
      BY <2>6 DEF EndsWith, Carrying, Positions
    <2> QED BY <2>1, <2>3, <2>4, <2>5, <2>6 DEF Carried
  <1> QED BY <1>1 DEF LatestEventMatchesRow, EndsWith, Carrying, Exists

\* A commit on columns that are still the ones its request has read.
LEMMA CommitCarried ==
    ASSUME LatestInv, NEW r \in Requests, Commit(r), NEW id \in Ids \ mixed', Exists(id)'
    PROVE  Carried(id)
  <1>0. TypeOK /\ ImagesKeepColumns /\ CreatesAreFresh
    BY DEF LatestInv, FeedInv
  <1>1. CASE CommitCreate(r)
    <2>1. PICK p \in Ids, n \in Row : p = req[r].id /\ n = req[r].new
      BY <1>0, <1>1, RequestTypes DEF CommitCreate, Serving
    <2>2. PICK e \in Event : e = CreatedEvent(n) /\ e.kind = "Created"
      BY EventTypes
    <2>3. e.data = {PublicColumns(n)}
      BY <2>2 DEF CreatedEvent
    <2>4. post' = [post EXCEPT ![p] = n] /\ feed' = [feed EXCEPT ![p] = Append(@, e)] /\ mixed' = mixed
      BY <1>1, <2>1, <2>2 DEF CommitCreate, Publish
    <2>5. CASE id = p
      BY <1>0, <2>2, <2>3, <2>4, <2>5 DEF Carried, TypeOK
    <2>6. CASE id # p
      BY <1>0, <2>4, <2>6 DEF Carried, TypeOK, Exists
    <2> QED BY <2>5, <2>6
  <1>2. CASE CommitUpdate(r)
    <2>1. PICK p \in Ids, o \in Row, n \in Row : p = req[r].id /\ o = req[r].old /\ n = req[r].new
      BY <1>0, <1>2, RequestTypes DEF CommitUpdate, Serving
    <2>2. PICK e \in Event : e = UpdatedEvent(n) /\ e.kind = "Updated"
      BY EventTypes
    <2>3. e.data = {PublicColumns(n)}
      BY <2>2 DEF UpdatedEvent
    <2>4. /\ post' = IF n = o THEN post ELSE [post EXCEPT ![p] = Merge(@, o, n)]
          /\ feed' = [feed EXCEPT ![p] = Append(@, e)]
          /\ mixed' = IF ReadsCurrent(req[r]) THEN mixed \ {p} ELSE mixed \cup {p}
      BY <1>2, <2>1, <2>2 DEF CommitUpdate, Publish
    <2>5. CASE id = p
      <3>1. Exists(p) /\ post[p] \in Row /\ PublicColumns(o) = PublicColumns(post[p])
        <4>1. Exists(p)
          BY <1>2, <2>1, <2>4, <2>5 DEF CommitUpdate, Exists
        <4>2. ReadsCurrent(req[r])
          BY <2>4, <2>5
        <4> QED BY <1>0, <2>1, <4>1, <4>2 DEF ReadsCurrent, Exists, TypeOK
      <3>2. PublicColumns(Merge(post[p], o, n)) = PublicColumns(n)
        BY <2>1, <3>1 DEF Merge, PublicColumns, Row
      <3>3. PublicColumns(post'[p]) = PublicColumns(n)
        BY <1>0, <2>4, <3>1, <3>2 DEF TypeOK
      <3>4. feed'[p] = Append(feed[p], e)
        BY <1>0, <2>4 DEF TypeOK
      <3> QED BY <2>2, <2>3, <2>5, <3>3, <3>4 DEF Carried
    <2>6. CASE id # p
      BY <1>0, <2>4, <2>6 DEF Carried, TypeOK, Exists
    <2> QED BY <2>5, <2>6
  <1>3. CASE CommitImage(r)
    <2>1. PICK p \in Ids, n \in Row : p = req[r].id /\ n = req[r].new
      BY <1>0, <1>3, RequestTypes DEF CommitImage, Serving
    <2>2. /\ Exists(p) /\ post' = [post EXCEPT ![p] = n] /\ feed' = feed
          /\ mixed' = IF ReadsCurrent(req[r]) THEN mixed ELSE mixed \cup {p}
      BY <1>3, <2>1 DEF CommitImage
    <2>3. id = p => PublicColumns(n) = PublicColumns(post[p])
      BY <1>0, <1>3, <2>1, <2>2 DEF CommitImage, ImagesKeepColumns, ReadsCurrent, Serving
    <2>4. id \notin mixed /\ Exists(id) /\ PublicColumns(post'[id]) = PublicColumns(post[id])
      BY <1>0, <2>2, <2>3 DEF Exists, TypeOK
    <2> QED BY <2>2, <2>4 DEF Carried
  <1>4. CASE CommitDelete(r)
    <2>1. req[r].id # id
      BY <1>0, <1>4 DEF CommitDelete, Exists, TypeOK
    <2>2. post'[id] = post[id] /\ feed'[id] = feed[id] /\ mixed' = mixed
      BY <1>0, <1>4, <2>1 DEF CommitDelete, Publish, TypeOK
    <2> QED BY <2>2 DEF Carried, Exists
  <1>5. CASE CommitSave(r) \/ CommitFails(r)
    BY <1>5 DEF CommitSave, CommitFails, Carried, Exists
  <1> QED BY <1>1, <1>2, <1>3, <1>4, <1>5 DEF Commit

LEMMA StepCarried ==
    ASSUME LatestInv, [Next]_vars, NEW id \in Ids \ mixed', Exists(id)'
    PROVE  Carried(id)
  <1>0. TypeOK
    BY DEF LatestInv, FeedInv
  <1>1. CASE UNCHANGED <<post, feed, mixed>>
    BY <1>1 DEF Carried, Exists
  <1>2. CASE Start
    <2>1. feed' = feed /\ mixed' = mixed /\ (post'[id] = post[id] \/ id \in FreshIds)
      BY <1>0, <1>2 DEF Start, SeedData, TypeOK
    <2>2. id \in FreshIds => feed[id] = <<>>
      BY DEF FreshIds, InUse
    <2> QED BY <2>1, <2>2 DEF Carried, Exists
  <1>3. ASSUME NEW i \in Ids, CheckerSave(i) PROVE Carried(id)
    <2>1. Exists(i) /\ post[i] \in Row
      BY <1>0, <1>3 DEF CheckerSave, Exists, TypeOK
    <2>2. \A row \in Row : PublicColumns([row EXCEPT !.status = "Completed"]) = PublicColumns(row)
      BY DEF Row, PublicColumns
    <2>3. post' = [post EXCEPT ![i] = [post[i] EXCEPT !.status = "Completed"]] /\ mixed' = mixed
      BY <1>3 DEF CheckerSave
    <2>4. Exists(id) /\ PublicColumns(post'[id]) = PublicColumns(post[id])
      <3>1. CASE id = i
        BY <1>0, <2>1, <2>2, <2>3, <3>1 DEF TypeOK
      <3>2. CASE id # i
        BY <1>0, <2>3, <3>2 DEF TypeOK, Exists
      <3> QED BY <3>1, <3>2
    <2>5. feed'[id] \in {feed[id], Append(feed[id], DeadlineReachedEvent)}
      BY <1>3 DEF CheckerSave
    <2>6. DeadlineReachedEvent \in Event /\ DeadlineReachedEvent.kind \notin {"Created", "Updated"}
      BY EventTypes
    <2> QED BY <2>3, <2>4, <2>5, <2>6 DEF Carried
  <1>4. ASSUME NEW r \in Requests, Read(r) PROVE UNCHANGED <<post, feed, mixed>>
    BY <1>4, ReadLeavesTables
  <1>5. CASE Tick \/ Crash \/ CheckerQuery \/ CheckerPublish \/ CheckerDispose \/ CheckerThrows \/ UNCHANGED vars
    BY <1>1, <1>5 DEF Tick, Crash, CheckerQuery, CheckerPublish, CheckerDispose, CheckerThrows, vars
  <1> QED BY <1>1, <1>2, <1>3, <1>4, <1>5, CommitCarried DEF Next, CheckJobPosts

\* A request that goes on through a step keeps what it read and changed in memory.
LEMMA ImagesKeep ==
    ASSUME TypeOK, ImagesKeepColumns, [Next]_vars
    PROVE  ImagesKeepColumns'
  <1>1. CASE \A r \in Requests : req'[r] \in {Idle, req[r]}
    BY <1>1 DEF ImagesKeepColumns, Serving
  <1>2. ASSUME NEW r \in Requests, Read(r) PROVE ImagesKeepColumns'
    <2>1. CASE req' = req
      BY <1>1, <2>1
    <2>2. CASE /\ \A x \in Requests \ {r} : req'[x] = req[x]
               /\ req'[r].op = "image" => PublicColumns(req'[r].new) = PublicColumns(req'[r].old)
      BY <2>2 DEF ImagesKeepColumns, Serving
    <2> QED BY <1>2, <2>1, <2>2, ReadBegins
  <1> QED BY <1>1, <1>2, OthersEnd

LEMMA StepLatest == LatestInv /\ [Next]_vars => LatestInv'
  <1> SUFFICES ASSUME LatestInv, [Next]_vars PROVE LatestInv'
    OBVIOUS
  <1>1. TypeOK /\ LatestEventMatchesRow /\ ImagesKeepColumns /\ FeedInv'
    BY StepFeed DEF LatestInv, FeedInv
  <1>2. LatestEventMatchesRow'
    BY <1>1, StepCarried, CarriedKeeps
  <1> QED BY <1>1, <1>2, ImagesKeep DEF LatestInv

\* Whatever requests are in flight together, and whatever the checker, failures and
\* restarts do, the last JobPostCreated or JobPostUpdated of a post carries the public
\* columns of its row, so a service that applies the events in order ends with the row;
\* except after an update or image write that committed on columns changed since its
\* handler read them, and then until an update commits on what is there.
THEOREM EventsMatchRows == Spec => []LatestEventMatchesRow
  <1>1. Init => LatestInv
    <2> SUFFICES ASSUME Init PROVE LatestInv
      OBVIOUS
    <2>1. \A id \in Ids : ~Exists(id)
      BY DEF Init, Exists
    <2> QED BY <2>1, InitFeed DEF LatestInv, LatestEventMatchesRow, ImagesKeepColumns, Init, Serving
  <1>2. LatestInv /\ [Next]_vars => LatestInv'
    BY StepLatest
  <1>3. LatestInv => LatestEventMatchesRow
    BY DEF LatestInv
  <1> QED BY <1>1, <1>2, <1>3, PTL DEF Spec
===============================================================================
