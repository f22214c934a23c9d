------------------------------ MODULE JobPosting ------------------------------
(***************************************************************************)
(* The JobPostingService: the JobPosts and SavedPosts tables, the events   *)
(* its transactions commit to the MassTransit outbox, the HTTP handlers of *)
(* JobPostController and the CheckJobPostFinished background service.      *)
(*                                                                         *)
(* A handler is two steps, as its awaits allow: one that reads rows (and   *)
(* talks to S3), and one that is its SaveChangesAsync, a transaction.      *)
(* Between them any other handler, the deadline checker, or a crash of the *)
(* host may act.  Entity Framework writes only the columns that differ     *)
(* from the row it read, except after Update(entity), which writes the     *)
(* whole row, and it throws when a row it updates or deletes is gone.      *)
(***************************************************************************)
EXTENDS Naturals, Sequences, FiniteSets

CONSTANTS
    Ids,           \* Guids of job posts
    Users,         \* user names
    SeedEmployer,  \* the employer of the rows SeedData inserts
    Contents,      \* values of the descriptive columns of a post, as one column
    Images,        \* Guids of S3 objects
    Requests,      \* HTTP requests that may be in flight together
    NoRow,         \* no row with this key
    Idle,          \* a request slot that serves nothing
    None,          \* no current item of the checker
    MaxTime,       \* bound: the clock stops here
    MaxFeed,       \* bound: no update starts on a post with this many events
    SeedCount,     \* rows SeedData inserts into an empty table (7 in the code)
    MaxStarts,     \* bound: starts of the host
    MaxImaged      \* bound: posts whose images requests work on

ASSUME BoundsAssumption == MaxTime \in Nat /\ MaxFeed \in Nat /\ SeedCount \in Nat /\ MaxStarts \in Nat /\ MaxImaged \in Nat
ASSUME NoneAssumption == None \notin Ids

VARIABLES
    now,      \* the clock, DateTime.UtcNow
    post,     \* table JobPosts
    saved,    \* table SavedPosts, a set of <<user, id>>: its composite key
    bucket,   \* S3: Images -> "unused" | "stored" | "removed" (a key no upload will choose again)
    imaged,   \* ghost: the posts an image endpoint has loaded
    feed,     \* per post, the events its committed transactions put in the outbox
    mixed,    \* ghost: the posts written last on an out-of-date reading of their columns
    seeded,   \* ghost: the posts SeedData inserted
    req,      \* the requests in flight and what they read
    checker,  \* CheckJobPosts: items left, item being published, staged events
    up,       \* the host is running
    starts    \* starts of the host so far

vars == <<now, post, saved, bucket, imaged, feed, mixed, seeded, req, checker, up, starts>>

-------------------------------------------------------------------------------
Times == 0 .. MaxTime + 1
Status == {"Open", "Completed"}
Row == [employer : Users \cup {SeedEmployer}, status : Status, deadline : Times, content : Contents, photos : SUBSET Images]
Columns == [employer : Users \cup {SeedEmployer}, deadline : Times, content : Contents]
ASSUME NoRowAssumption == NoRow \notin Row \cup Columns

\* The events of Contracts that this service publishes; only JobPostCreated and
\* JobPostUpdated carry columns of the row.
Kinds == {"Created", "Updated", "Deleted", "DeadlineReached"}
PublicColumns(row)   == [employer |-> row.employer, deadline |-> row.deadline, content |-> row.content]
CreatedEvent(row)    == [kind |-> "Created", data |-> {PublicColumns(row)}]
UpdatedEvent(row)    == [kind |-> "Updated", data |-> {PublicColumns(row)}]
DeletedEvent         == [kind |-> "Deleted", data |-> {}]
DeadlineReachedEvent == [kind |-> "DeadlineReached", data |-> {}]
Event == [kind : Kinds, data : SUBSET Columns]

CreateReq == [op : {"create"}, id : Ids, new : Row]
EditReq   == [op : {"update", "image"}, id : Ids, old : Row, new : Row]
DeleteReq == [op : {"delete"}, id : Ids, savers : SUBSET Users]
SaveReq   == [op : {"save", "unsave"}, id : Ids, user : Users]
Request   == CreateReq \cup EditReq \cup DeleteReq \cup SaveReq
ASSUME IdleAssumption == Idle \notin Request

Exists(id) == post[id] # NoRow
Live == {id \in Ids : Exists(id)}

\* Guid.NewGuid(): an id no row, event or request has used.
InUse(id) == \/ Exists(id)
             \/ feed[id] # <<>>
             \/ id \in seeded
             \/ \E r \in Requests : req[r] # Idle /\ req[r].op = "create" /\ req[r].id = id
FreshIds == {id \in Ids : ~InUse(id)}
FreshImages == {i \in Images : bucket[i] = "unused"}

NoWork == [work |-> {}, cur |-> None, staged |-> {}]

-------------------------------------------------------------------------------
Init ==
    /\ now = 0
    /\ post = [id \in Ids |-> NoRow]
    /\ saved = {}
    /\ bucket = [i \in Images |-> "unused"]
    /\ imaged = {}
    /\ feed = [id \in Ids |-> <<>>]
    /\ mixed = {}
    /\ seeded = {}
    /\ req = [r \in Requests |-> Idle]
    /\ checker = NoWork
    /\ up = FALSE
    /\ starts = 0

Tick == /\ now < MaxTime
        /\ now' = now + 1
        /\ UNCHANGED <<post, saved, bucket, imaged, feed, mixed, seeded, req, checker, up, starts>>

\* InitDb: an empty table gets rows, and nothing is published.
SeedData ==
    /\ Live = {}
    /\ \E S \in SUBSET FreshIds, c \in Contents, d \in now + 1 .. MaxTime + 1 :
          /\ S # {} /\ Cardinality(S) = SeedCount
          /\ seeded' = seeded \cup S
          /\ post' = [id \in Ids |->
                  IF id \in S
                  THEN [employer |-> SeedEmployer, status |-> "Open", deadline |-> d, content |-> c, photos |-> {}]
                  ELSE post[id]]

\* An exception in InitDb is logged and the host starts all the same.
Start ==
    /\ ~up /\ starts < MaxStarts
    /\ up' = TRUE
    /\ starts' = starts + 1
    /\ req' = [r \in Requests |-> Idle]
    /\ SeedData \/ UNCHANGED <<post, seeded>>
    /\ UNCHANGED <<now, saved, bucket, imaged, feed, mixed, checker>>

\* The process is killed: requests and the checker's scope are gone.
Crash ==
    /\ up
    /\ up' = FALSE
    /\ req' = [r \in Requests |-> Idle]
    /\ checker' = NoWork
    /\ UNCHANGED <<now, post, saved, bucket, imaged, feed, mixed, seeded, starts>>

-------------------------------------------------------------------------------
\* First step of each handler: checks, reads, S3 calls.

Begin(r, q) == /\ up
               /\ req[r] = Idle
               /\ req' = [req EXCEPT ![r] = q]
               /\ UNCHANGED <<now, post, saved, feed, mixed, seeded, checker, up, starts>>

CreateJobPost(r, u, c, d) ==
    \E id \in FreshIds :
        /\ d > now
        /\ Begin(r, [op |-> "create", id |-> id,
                     new |-> [employer |-> u, status |-> "Open", deadline |-> d, content |-> c, photos |-> {}]])
        /\ UNCHANGED <<bucket, imaged>>

\* Title, description, payment, category and location are one column here; the
\* DTO's null fields keep the old value, and the deadline may be any date.
UpdateJobPost(r, u, id, c, d) ==
    /\ Exists(id) /\ post[id].employer = u
    /\ Len(feed[id]) < MaxFeed
    /\ Begin(r, [op |-> "update", id |-> id, old |-> post[id],
                 new |-> [post[id] EXCEPT !.content = c, !.deadline = d]])
    /\ UNCHANGED <<bucket, imaged>>

\* An image endpoint loads the post it will write back as a whole.
Image(id) == /\ Cardinality(imaged \cup {id}) <= MaxImaged
             /\ imaged' = imaged \cup {id}

\* Task.WhenAll over the uploads: when one fails the handler throws, and the
\* objects that were stored stay.  A form without files binds to the empty list.
UploadImage(r, u, id, S, stored) ==
    /\ Exists(id) /\ post[id].employer = u
    /\ S \subseteq FreshImages /\ stored \subseteq S
    /\ Image(id)
    /\ bucket' = [i \in Images |-> IF i \in stored THEN "stored" ELSE bucket[i]]
    /\ \/ /\ stored = S
          /\ Begin(r, [op |-> "image", id |-> id, old |-> post[id],
                       new |-> [post[id] EXCEPT !.photos = @ \cup S]])
       \/ /\ stored # S
          /\ up /\ req[r] = Idle
          /\ UNCHANGED <<now, post, saved, feed, mixed, seeded, req, checker, up, starts>>

DeleteImageAcync(i) == bucket' = [bucket EXCEPT ![i] = "removed"]

\* The key comes from the URL of the request and is not checked against the
\* post.  S3 answers NoContent for a key it does not hold; when the call fails,
\* the handler ends with nothing changed.
DeleteImageFromJobPost(r, u, id, i) ==
    /\ Exists(id) /\ post[id].employer = u
    /\ Image(id)
    /\ DeleteImageAcync(i)
    /\ Begin(r, [op |-> "image", id |-> id, old |-> post[id],
                 new |-> [post[id] EXCEPT !.photos = @ \ {i}]])

\* The S3 deletes pass the image's URL where the object's key is expected, so
\* they leave the bucket as it is; S3 answers NoContent.
DeleteJobPost(r, u, id) ==
    /\ Exists(id) /\ post[id].employer = u
    /\ Begin(r, [op |-> "delete", id |-> id, savers |-> {v \in Users : <<v, id>> \in saved}])
    /\ UNCHANGED <<bucket, imaged>>

SaveJobPost(r, u, id) ==
    /\ Exists(id)
    /\ Begin(r, [op |-> IF <<u, id>> \in saved THEN "unsave" ELSE "save", id |-> id, user |-> u])
    /\ UNCHANGED <<bucket, imaged>>

-------------------------------------------------------------------------------
\* Second step of each handler: SaveChangesAsync.

Serving(r, ops) == req[r] # Idle /\ req[r].op \in ops
Finish(r) == /\ req' = [req EXCEPT ![r] = Idle]
             /\ UNCHANGED <<now, bucket, imaged, seeded, checker, up, starts>>
Publish(id, e) == feed' = [feed EXCEPT ![id] = Append(@, e)]

CommitCreate(r) ==
    /\ Serving(r, {"create"})
    /\ post' = [post EXCEPT ![req[r].id] = req[r].new]
    /\ Publish(req[r].id, CreatedEvent(req[r].new))
    /\ Finish(r)
    /\ UNCHANGED <<saved, mixed>>

\* Mutant of Merge: the update writes every column, as Update(entity) would.
MergeWholeRow(row, old, new) == new

\* Columns that were changed in memory overwrite the row, the others keep what
\* the row holds now.
Merge(row, old, new) == [f \in DOMAIN row |-> IF new[f] # old[f] THEN new[f] ELSE row[f]]

\* The columns the events carry are still those an editing request has read.
ReadsCurrent(q) == Exists(q.id) => PublicColumns(post[q.id]) = PublicColumns(q.old)

\* Mutant of CommitUpdate: the event is mapped before the DTO is applied.
CommitUpdatePublishedEarly(r) ==
    LET q == req[r] IN
    /\ Serving(r, {"update"})
    /\ q.new = q.old \/ Exists(q.id)
    /\ post' = IF q.new = q.old THEN post ELSE [post EXCEPT ![q.id] = Merge(@, q.old, q.new)]
    /\ Publish(q.id, UpdatedEvent(q.old))
    /\ mixed' = IF ReadsCurrent(q) THEN mixed \ {q.id} ELSE mixed \cup {q.id}
    /\ Finish(r)
    /\ UNCHANGED saved

\* With no column changed there is no UPDATE to miss the row: only the outbox
\* row is inserted, whether the post still exists or not.
CommitUpdate(r) ==
    LET q == req[r] IN
    /\ Serving(r, {"update"})
    /\ q.new = q.old \/ Exists(q.id)
    /\ post' = IF q.new = q.old THEN post ELSE [post EXCEPT ![q.id] = Merge(@, q.old, q.new)]
    /\ Publish(q.id, UpdatedEvent(q.new))
    /\ mixed' = IF ReadsCurrent(q) THEN mixed \ {q.id} ELSE mixed \cup {q.id}
    /\ Finish(r)
    /\ UNCHANGED saved

\* Update(jobPost) marks every column modified: the snapshot is written back.
CommitImage(r) ==
    /\ Serving(r, {"image"})
    /\ Exists(req[r].id)
    /\ post' = [post EXCEPT ![req[r].id] = req[r].new]
    /\ mixed' = IF ReadsCurrent(req[r]) THEN mixed ELSE mixed \cup {req[r].id}
    /\ Finish(r)
    /\ UNCHANGED <<saved, feed>>

SaversOf(q) == {<<v, q.id>> : v \in q.savers}

\* Mutant of CommitDelete: the DELETE does not check that it met a row.
CommitDeleteUnchecked(r) ==
    LET q == req[r] IN
    /\ Serving(r, {"delete"})
    /\ post' = [post EXCEPT ![q.id] = NoRow]
    /\ saved' = saved \ SaversOf(q)
    /\ Publish(q.id, DeletedEvent)
    /\ Finish(r)
    /\ UNCHANGED mixed

CommitDelete(r) ==
    LET q == req[r] IN
    /\ Serving(r, {"delete"})
    /\ Exists(q.id) /\ SaversOf(q) \subseteq saved
    /\ post' = [post EXCEPT ![q.id] = NoRow]
    /\ saved' = saved \ SaversOf(q)
    /\ Publish(q.id, DeletedEvent)
    /\ Finish(r)
    /\ UNCHANGED mixed

CommitSave(r) ==
    LET key == <<req[r].user, req[r].id>> IN
    /\ Serving(r, {"save", "unsave"})
    /\ (key \in saved) <=> (req[r].op = "unsave")
    /\ saved' = IF req[r].op = "save" THEN saved \cup {key} ELSE saved \ {key}
    /\ Finish(r)
    /\ UNCHANGED <<post, feed, mixed>>

\* Mutant of CommitFails: without the outbox, the event is out when the save fails.
CommitFailsAfterPublish(r) ==
    /\ req[r] # Idle
    /\ IF Serving(r, {"delete"}) THEN Publish(req[r].id, DeletedEvent) ELSE UNCHANGED feed
    /\ Finish(r)
    /\ UNCHANGED <<post, saved, mixed>>

\* SaveChangesAsync throws: a row to update or delete is gone, the key to insert
\* is there, or the database is.  The transaction and its events are rolled back.
CommitFails(r) == /\ req[r] # Idle
                  /\ Finish(r)
                  /\ UNCHANGED <<post, saved, feed, mixed>>

-------------------------------------------------------------------------------
\* CheckJobPostFinished, one scope of CheckJobPosts.

\* Mutant of Finished: the query forgets the status.
FinishedByDeadline(id) == Exists(id) /\ post[id].deadline < now

Finished(id) == Exists(id) /\ post[id].deadline < now /\ post[id].status # "Completed"
GetFinishedJobPosts == {id \in Ids : Finished(id)}

CheckerQuery ==
    /\ up /\ checker = NoWork
    /\ GetFinishedJobPosts # {}
    /\ checker' = [NoWork EXCEPT !.work = GetFinishedJobPosts]
    /\ UNCHANGED <<now, post, saved, bucket, imaged, feed, mixed, seeded, req, up, starts>>

\* Mutant of CheckerSave: the staged event is dropped.
CheckerSaveDropsStaged(id) ==
    /\ up /\ id \in checker.work /\ checker.cur = None
    /\ Exists(id)
    /\ post' = [post EXCEPT ![id].status = "Completed"]
    /\ checker' = [work |-> checker.work \ {id}, cur |-> id, staged |-> {}]
    /\ UNCHANGED <<now, saved, bucket, imaged, feed, mixed, seeded, req, up, starts>>

\* The save of an item also commits the event staged by the item before it.
CheckerSave(id) ==
    /\ up /\ id \in checker.work /\ checker.cur = None
    /\ Exists(id)
    /\ post' = [post EXCEPT ![id].status = "Completed"]
    /\ feed' = [i \in Ids |-> IF i \in checker.staged THEN Append(feed[i], DeadlineReachedEvent) ELSE feed[i]]
    /\ checker' = [work |-> checker.work \ {id}, cur |-> id, staged |-> {}]
    /\ UNCHANGED <<now, saved, bucket, imaged, mixed, seeded, req, up, starts>>

\* The bus outbox only stages the event in the DbContext of the scope.
CheckerPublish ==
    /\ up /\ checker.cur # None
    /\ checker' = [checker EXCEPT !.cur = None, !.staged = {checker.cur}]
    /\ UNCHANGED <<now, post, saved, bucket, imaged, feed, mixed, seeded, req, up, starts>>

\* Mutant of CheckerDispose: one scope for all rounds, waiting for its staged event.
CheckerDisposeKeepsScope ==
    /\ up /\ checker.work = {} /\ checker.cur = None /\ checker.staged # {}
    /\ checker' = [NoWork EXCEPT !.staged = checker.staged]
    /\ UNCHANGED <<now, post, saved, bucket, imaged, feed, mixed, seeded, req, up, starts>>

\* The scope is disposed, with whatever is still staged in its DbContext.
CheckerDispose ==
    /\ up /\ checker.work = {} /\ checker.cur = None /\ checker.staged # {}
    /\ checker' = NoWork
    /\ UNCHANGED <<now, post, saved, bucket, imaged, feed, mixed, seeded, req, up, starts>>

\* The query or the save throws, the database being away or (which no retry
\* helps) the item's row being gone.  The exception leaves ExecuteAsync and stops
\* the host, which lets the requests in flight end.
CheckerThrows ==
    /\ up /\ checker.cur = None
    /\ checker' = NoWork
    /\ up' = FALSE
    /\ UNCHANGED <<now, post, saved, bucket, imaged, feed, mixed, seeded, req, starts>>

-------------------------------------------------------------------------------
Read(r) ==
    \E u \in Users :
        \/ \E c \in Contents, d \in 1 .. MaxTime + 1 : CreateJobPost(r, u, c, d)
        \/ \E id \in Ids :
            \/ \E c \in Contents, d \in 1 .. MaxTime + 1 : UpdateJobPost(r, u, id, c, d)
            \/ \E S, stored \in SUBSET Images : UploadImage(r, u, id, S, stored)
            \/ \E i \in Images : DeleteImageFromJobPost(r, u, id, i)
            \/ DeleteJobPost(r, u, id)
            \/ SaveJobPost(r, u, id)

Commit(r) == \/ CommitCreate(r)
             \/ CommitUpdate(r)
             \/ CommitImage(r)
             \/ CommitDelete(r)
             \/ CommitSave(r)
             \/ CommitFails(r)

CheckJobPosts == \/ CheckerQuery
                 \/ \E id \in Ids : CheckerSave(id)
                 \/ CheckerPublish
                 \/ CheckerDispose
                 \/ CheckerThrows

Next == \/ Tick
        \/ Start
        \/ Crash
        \/ \E r \in Requests : Read(r) \/ Commit(r)
        \/ CheckJobPosts

Spec == Init /\ [][Next]_vars

\* The background service runs for as long as the host does.  That the database
\* is away is not owed to anyone, but an item whose row is gone ends the service.
CheckerRuns == \/ CheckerQuery
               \/ \E id \in Ids : CheckerSave(id)
               \/ CheckerPublish
               \/ CheckerDispose
               \/ CheckerThrows /\ \E id \in checker.work : ~Exists(id)
FairSpec == Spec /\ WF_vars(CheckerRuns)

-------------------------------------------------------------------------------
TypeOK ==
    /\ now \in 0 .. MaxTime
    /\ post \in [Ids -> Row \cup {NoRow}]
    /\ saved \subseteq Users \X Ids
    /\ bucket \in [Images -> {"unused", "stored", "removed"}]
    /\ feed \in [Ids -> Seq(Event)]
    /\ imaged \subseteq Ids
    /\ mixed \subseteq Ids
    /\ seeded \subseteq Ids
    /\ req \in [Requests -> Request \cup {Idle}]
    /\ checker \in [work : SUBSET Ids, cur : Ids \cup {None}, staged : SUBSET Ids]
    /\ up \in BOOLEAN
    /\ starts \in 0 .. MaxStarts

Positions(s, kinds) == {k \in 1 .. Len(s) : s[k].kind \in kinds}
AtMostOne(s, kind) == \A j, k \in Positions(s, {kind}) : j = k
Announced(id) == Positions(feed[id], {"DeadlineReached"}) # {}

\* The outbox is transactional: whatever requests, crashes and failed saves do,
\* a post a user made has exactly one JobPostCreated, ahead of its every other
\* event, and one JobPostDeleted exactly when its row is gone; a seeded post has
\* no JobPostCreated.
FeedOK(s, exists, isSeeded) ==
    /\ Positions(s, {"Created"}) \subseteq {1}
    /\ s # <<>> => (1 \in Positions(s, {"Created"}) <=> ~isSeeded)
    /\ exists => s # <<>> \/ isSeeded
    /\ AtMostOne(s, "Deleted")
    /\ s # <<>> \/ isSeeded => (exists <=> Positions(s, {"Deleted"}) = {})
FeedMatchesTable == \A id \in Ids : FeedOK(feed[id], Exists(id), id \in seeded)

\* What FeedMatchesTable needs to be inductive: a request that creates a post has
\* an id nothing else has, and every other request, and the checker, are about
\* posts that were there.
Known(id) == feed[id] # <<>> \/ id \in seeded
Creating(r, id) == req[r] # Idle /\ req[r].op = "create" /\ req[r].id = id
CreatesAreFresh ==
    \A id \in Ids, r \in Requests : Creating(r, id) =>
        ~Known(id) /\ \A q \in Requests : Creating(q, id) => q = r
RequestsAreKnown == \A r \in Requests : req[r] # Idle /\ req[r].op # "create" => Known(req[r].id)
CheckerIsKnown ==
    \A id \in Ids : id \in checker.work \cup checker.staged \/ id = checker.cur => Known(id)
FeedInv == TypeOK /\ FeedMatchesTable /\ CreatesAreFresh /\ RequestsAreKnown /\ CheckerIsKnown

\* The deadline of a post whose images nobody touched is announced at most once:
\* neither requests that read the post before it was completed, nor a deadline
\* moved back, nor a crash and restart make the checker publish it again.
AnnouncedAtMostOnce == \A id \in Ids \ imaged : AtMostOne(feed[id], "DeadlineReached")

\* The checker owes an announcement from the save that completes a post until the
\* event is committed.
Owed(id) == checker.cur = id \/ id \in checker.staged

\* What AnnouncedAtMostOnce needs to be inductive: the post being announced is
\* neither announced nor waiting, a waiting one is still open, an update keeps
\* the status it read, and nobody holds a snapshot of it to write back.
AnnounceOK(id) ==
    /\ AtMostOne(feed[id], "DeadlineReached")
    /\ Owed(id) => ~Announced(id) /\ ~(checker.cur = id /\ id \in checker.staged)
    /\ id \in checker.work => ~Announced(id) /\ ~Owed(id) /\ (Exists(id) => post[id].status = "Open")
    /\ Announced(id) \/ Owed(id) => (Exists(id) => post[id].status = "Completed")
StatusKept == \A r \in Requests : Serving(r, {"update"}) => req[r].new.status = req[r].old.status
SnapshotsAreImaged == \A r \in Requests : Serving(r, {"image"}) => req[r].id \in imaged
AnnounceInv == FeedInv /\ StatusKept /\ SnapshotsAreImaged /\ \A id \in Ids \ imaged : AnnounceOK(id)

\* The service implements the feed other services rely on: every transaction, of
\* whichever interleaving of requests, checker and crashes, is one step of it.
publicRow == [id \in Ids |-> IF Exists(id) THEN PublicColumns(post[id]) ELSE NoRow]
Feed == INSTANCE PostFeed WITH row <- publicRow
ImplementsPostFeed == Feed!Spec

\* A completed post goes back to open only by an image upload or removal that
\* read it before it was completed: Update(entity) writes its snapshot back.
OnlyStaleImageWriteReopens ==
    [][\A id \in Ids :
        Exists(id) /\ Exists(id)' /\ post[id].status = "Completed" /\ post'[id].status = "Open" =>
            \E r \in Requests : Serving(r, {"image"}) /\ req[r].id = id /\ req[r].old.status = "Open"]_vars

\* The checker drops an announcement it owes only with the host, or at the end of
\* a batch.
OnlyLastOfBatchIsLost ==
    [][\A id \in Ids : Owed(id) /\ ~Owed(id)' =>
            \/ feed'[id] = Append(feed[id], DeadlineReachedEvent)
            \/ checker.work = {}
            \/ ~up']_vars

\* The last event that carries columns carries those of the row, so a consumer
\* that applies the events in order ends with the row, unless an update or an
\* image write committed on a reading of columns that another had changed since.
\* The next update that reads what is there mends it; the checker, deletions,
\* failed saves and restarts never break it.
LatestEventMatchesRow ==
    \A id \in Ids \ mixed :
        LET carrying == Positions(feed[id], {"Created", "Updated"}) IN
        Exists(id) /\ carrying # {} =>
            \E k \in carrying : /\ \A j \in carrying : j <= k
                                /\ feed[id][k].data = {PublicColumns(post[id])}

\* JobPostDeadlineReached is committed for each post the checker completed, once
\* the checker is at rest in a host that never stopped.
CompletedIsAnnounced ==
    up /\ starts = 1 /\ checker = NoWork =>
        \A id \in Live : post[id].status = "Completed" => Announced(id)

\* A post past its deadline is completed, unless it is deleted, its deadline is
\* moved, or the host goes down.
OverdueIsCompleted ==
    \A id \in Ids : (up /\ Finished(id)) ~> (~up \/ ~Finished(id))
===============================================================================
