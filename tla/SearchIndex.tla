------------------------------ MODULE SearchIndex ------------------------------
(***************************************************************************)
(* The SearchService: the Elasticsearch index "jobposts", the four         *)
(* consumers of the queue "job-post-created", and the resynchronisation    *)
(* that each start of the service runs beside them.  The posts and their   *)
(* events are those of PostFeed, which JobPosting implements.              *)
(*                                                                         *)
(* The outbox relays the events of a post in commit order; the consumers   *)
(* take messages from the queue in any order, since several are in process *)
(* at a time and a failed one is retried, and may see one again.           *)
(***************************************************************************)
EXTENDS Naturals, Sequences, FiniteSets

CONSTANTS
    Ids,           \* Guids of job posts
    Columns,       \* values of the public columns of a post
    NoRow,         \* no row with this key
    NoDoc,         \* no document with this key
    Retries,       \* UseMessageRetry: further attempts after the first (5 in the code)
    MaxFeed,       \* bound: events per post
    MaxDuplicates, \* bound: redeliveries of a message that was applied
    MaxRestarts    \* bound: restarts of the SearchService

ASSUME PipelineBounds == Retries \in Nat /\ MaxFeed \in Nat /\ MaxDuplicates \in Nat /\ MaxRestarts \in Nat
ASSUME NoRowIsNoColumns == NoRow \notin Columns

VARIABLES
    row, feed, seeded,  \* PostFeed
    born,      \* per post, the posts whose UpdatedAt is later than its own
    relayed,   \* per post, how many of its events the broker has got
    queue,     \* messages to consume: [id, pos, tries], pos a position in the post's feed
    parked,    \* messages moved to the error queue, <<id, pos>>
    doc,       \* the index; .after is the posts whose UpdatedAt is later than the document's
    sync,      \* InitDb: its phase, the posts its query skips, the rows it fetched, what it has to write
    synced,    \* ghost: posts a resynchronisation has fetched
    redelivered, \* ghost: posts with an event that was delivered again
    restarts

service == <<row, feed, seeded, born>>
pipe    == <<relayed, queue, parked, redelivered>>
vars    == <<service, pipe, doc, sync, synced, restarts>>

Feed == INSTANCE PostFeed

-------------------------------------------------------------------------------
Doc == [data : Columns, after : SUBSET Ids]
ASSUME NoDocAssumption == NoDoc \notin Doc

Message == [id : Ids, pos : 1 .. MaxFeed, tries : 0 .. Retries]
Event(m) == feed[m.id][m.pos]

SyncStart == [phase |-> "search", skip |-> {}, rows |-> {}, bulk |-> {}, add |-> {}]
SyncOver  == [SyncStart EXCEPT !.phase = "over"]

Init == /\ Feed!Init
        /\ born = [id \in Ids |-> {}]
        /\ relayed = [id \in Ids |-> 0]
        /\ queue = {}
        /\ parked = {}
        /\ doc = [id \in Ids |-> NoDoc]
        /\ sync = SyncStart
        /\ synced = {}
        /\ redelivered = {}
        /\ restarts = 0

\* A step of the JobPostingService.  A row's UpdatedAt is the time of its
\* creation for good, so a new post is later than all posts and documents.
ServiceStep ==
    LET new == {id \in Ids : ~Feed!Known(id) /\ Feed!Known(id)'} IN
    /\ Feed!Next
    /\ \A id \in Ids : Len(feed'[id]) <= MaxFeed
    /\ born' = [id \in Ids |-> IF Feed!Known(id) THEN born[id] \cup new ELSE born[id]]
    /\ doc' = [id \in Ids |-> IF doc[id] = NoDoc THEN NoDoc ELSE [doc[id] EXCEPT !.after = @ \cup new]]
    /\ UNCHANGED <<pipe, sync, synced, restarts>>

\* The outbox delivery service publishes the next event of a post.
Relay(id) ==
    /\ relayed[id] < Len(feed[id])
    /\ relayed' = [relayed EXCEPT ![id] = @ + 1]
    /\ queue' = queue \cup {[id |-> id, pos |-> relayed[id] + 1, tries |-> 0]}
    /\ UNCHANGED <<service, parked, redelivered, doc, sync, synced, restarts>>

-------------------------------------------------------------------------------
\* The consumers.  One call to Elasticsearch each, and an acknowledgement that
\* may not reach the broker.

Acknowledge(m) ==
    /\ \/ queue' = queue \ {m} /\ UNCHANGED redelivered
       \/ /\ Cardinality(redelivered) < MaxDuplicates /\ m.id \notin redelivered
          /\ redelivered' = redelivered \cup {m.id}
          /\ UNCHANGED queue
    /\ UNCHANGED <<service, relayed, parked, sync, synced, restarts>>

\* AddAsync and UpdateAsync give the document the time of the call as UpdatedAt.
Fresh(c) == [data |-> c, after |-> {}]

JobPostCreatedConsumer(m) ==
    /\ Event(m).kind = "Created"
    /\ \E c \in Event(m).data : doc' = [doc EXCEPT ![m.id] = Fresh(c)]
    /\ Acknowledge(m)

\* Mutant of JobPostUpdatedConsumer: the update is an upsert.
JobPostUpdatedUpserts(m) ==
    /\ Event(m).kind = "Updated"
    /\ \E c \in Event(m).data : doc' = [doc EXCEPT ![m.id] = Fresh(c)]
    /\ Acknowledge(m)

\* An update of a document that is not there is an error.
JobPostUpdatedConsumer(m) ==
    /\ Event(m).kind = "Updated"
    /\ doc[m.id] # NoDoc
    /\ \E c \in Event(m).data : doc' = [doc EXCEPT ![m.id] = Fresh(c)]
    /\ Acknowledge(m)

\* JobPostDeleted and JobPostDeadlineReached: the client takes "not found" as an
\* answer like any other.
DeleteConsumer(m) ==
    /\ Event(m).kind \in {"Deleted", "DeadlineReached"}
    /\ doc' = [doc EXCEPT ![m.id] = NoDoc]
    /\ Acknowledge(m)

\* Mutant of ConsumerThrows: a failed message never gives up.
ConsumerThrowsForever(m) ==
    /\ queue' = (queue \ {m}) \cup {[m EXCEPT !.tries = 0]}
    /\ UNCHANGED <<service, relayed, parked, redelivered, doc, sync, synced, restarts>>

\* The call fails: the update finds no document, or Elasticsearch is away.
ConsumerThrows(m) ==
    /\ \/ /\ m.tries < Retries
          /\ queue' = (queue \ {m}) \cup {[m EXCEPT !.tries = @ + 1]}
          /\ UNCHANGED parked
       \/ /\ m.tries = Retries
          /\ queue' = queue \ {m}
          /\ parked' = parked \cup {<<m.id, m.pos>>}
    /\ UNCHANGED <<service, relayed, redelivered, doc, sync, synced, restarts>>

Consume(m) == \/ JobPostCreatedConsumer(m)
              \/ JobPostUpdatedConsumer(m)
              \/ DeleteConsumer(m)
              \/ ConsumerThrows(m)

-------------------------------------------------------------------------------
\* DbInitializer.InitDb, one step per call it awaits.

Docs == {id \in Ids : doc[id] # NoDoc}

\* The newest UpdatedAt in the index; the posts that are not later are skipped.  A
\* search that failed looks like an empty index: the answer is not checked.
SyncSearch ==
    /\ sync.phase = "search"
    /\ \E answered \in {Docs, {}} :
          sync' = [sync EXCEPT !.phase = "fetch",
                               !.skip = {id \in Ids : Feed!Known(id) /\ \E d \in answered : id \notin doc[d].after}]
    /\ UNCHANGED <<service, pipe, doc, synced, restarts>>

\* GET api/jobpost?date=...: completed posts are among the answer.
SyncFetch ==
    LET found == {id \in Ids : Feed!Live(id) /\ id \notin sync.skip} IN
    /\ sync.phase = "fetch"
    /\ sync' = [sync EXCEPT !.phase = "write", !.rows = {<<id, row[id]>> : id \in found},
                            !.bulk = found, !.add = found]
    /\ synced' = synced \cup found
    /\ UNCHANGED <<service, pipe, doc, restarts>>

Fetched(id) == CHOOSE c \in Columns : <<id, c>> \in sync.rows
FetchedDoc(id) == [data |-> Fetched(id), after |-> born[id]]

\* Mutant of SyncBulk: the index is built anew from the fetched rows.
SyncBulkRebuilds ==
    /\ sync.phase = "write" /\ sync.bulk # {}
    /\ \E S \in SUBSET sync.bulk : doc' = [id \in Ids |-> IF id \in S THEN FetchedDoc(id) ELSE NoDoc]
    /\ sync' = [sync EXCEPT !.bulk = {}]
    /\ UNCHANGED <<service, pipe, synced, restarts>>

\* The bulk request; the items that fail are only reported.
SyncBulk ==
    /\ sync.phase = "write" /\ sync.bulk # {}
    /\ \E S \in SUBSET sync.bulk : doc' = [id \in Ids |-> IF id \in S THEN FetchedDoc(id) ELSE doc[id]]
    /\ sync' = [sync EXCEPT !.bulk = {}]
    /\ UNCHANGED <<service, pipe, synced, restarts>>

\* Then each post once more, one call at a time; a failure is only reported.
SyncAdd(id) ==
    /\ sync.phase = "write" /\ sync.bulk = {} /\ id \in sync.add
    /\ \/ doc' = [doc EXCEPT ![id] = FetchedDoc(id)]
       \/ UNCHANGED doc
    /\ sync' = IF sync.add = {id} THEN SyncOver ELSE [sync EXCEPT !.add = @ \ {id}]
    /\ UNCHANGED <<service, pipe, synced, restarts>>

SyncNothing ==
    /\ sync.phase = "write" /\ sync.add = {}
    /\ sync' = SyncOver
    /\ UNCHANGED <<service, pipe, doc, synced, restarts>>

\* The service stops, also when InitDb throws; what it had not acknowledged is
\* delivered to its next instance.
Restart ==
    /\ restarts < MaxRestarts
    /\ restarts' = restarts + 1
    /\ sync' = SyncStart
    /\ queue' = {[m EXCEPT !.tries = 0] : m \in queue}
    /\ UNCHANGED <<service, relayed, parked, redelivered, doc, synced>>

InitDb == SyncSearch \/ SyncFetch \/ SyncBulk \/ (\E id \in Ids : SyncAdd(id)) \/ SyncNothing

Next == \/ ServiceStep
        \/ \E id \in Ids : Relay(id)
        \/ \E m \in queue : Consume(m)
        \/ InitDb
        \/ Restart

Spec == Init /\ [][Next]_vars

\* The delivery service polls, and each consumer call returns or throws.
Consumption(id, k) == \E m \in queue : m.id = id /\ m.pos = k /\ Consume(m)
FairSpec == /\ Spec
            /\ \A id \in Ids : WF_vars(Relay(id))
            /\ \A id \in Ids, k \in 1 .. MaxFeed : WF_vars(Consumption(id, k))

-------------------------------------------------------------------------------
TypeOK ==
    /\ row \in [Ids -> Columns \cup {NoRow}]
    /\ feed \in [Ids -> Seq([kind : {"Created", "Updated", "Deleted", "DeadlineReached"}, data : SUBSET Columns])]
    /\ seeded \subseteq Ids
    /\ born \in [Ids -> SUBSET Ids]
    /\ relayed \in [Ids -> 0 .. MaxFeed]
    /\ queue \subseteq Message
    /\ parked \subseteq Ids \X (1 .. MaxFeed)
    /\ doc \in [Ids -> Doc \cup {NoDoc}]
    /\ sync \in [phase : {"search", "fetch", "write", "over"}, skip : SUBSET Ids,
                 rows : SUBSET (Ids \X Columns), bulk : SUBSET Ids, add : SUBSET Ids]
    /\ synced \subseteq Ids /\ redelivered \subseteq Ids
    /\ restarts \in 0 .. MaxRestarts

Waiting(id, k) == \E m \in queue : m.id = id /\ m.pos = k
\* The event was applied, and nothing of it is left to do.
Applied(id, k) == k <= relayed[id] /\ ~Waiting(id, k) /\ <<id, k>> \notin parked
Positions(id, kinds) == {k \in 1 .. Len(feed[id]) : feed[id][k].kind \in kinds}
Settled(id) == relayed[id] = Len(feed[id]) /\ \A m \in queue : m.id # id

\* Whatever order, repetitions, retries and restarts do to the messages and to
\* the resynchronisation, a post that is neither deleted nor announced is in the
\* index from the moment its JobPostCreated was applied.
LivePostIsIndexed ==
    \A id \in Ids :
        /\ Feed!Live(id)
        /\ Positions(id, {"DeadlineReached"}) = {}
        /\ \E k \in Positions(id, {"Created"}) : Applied(id, k)
        => doc[id] # NoDoc

\* JobPostUpdated overtaking JobPostCreated is no harm: it finds no document and
\* is retried or parked.  So the columns of a post updated once are in the index
\* when its events were applied, if none was redelivered and no
\* resynchronisation fetched the post.
UpdateSurvivesReordering ==
    \A id \in Ids \ (synced \cup redelivered) :
        /\ Settled(id)
        /\ doc[id] # NoDoc
        /\ Cardinality(Positions(id, {"Updated"})) = 1
        => \A k \in Positions(id, {"Updated"}) : Applied(id, k) => feed[id][k].data = {doc[id].data}

\* A post that left the index comes back only when its JobPostCreated was still
\* waiting, or a resynchronisation had fetched its row.
OnlyLateCreateOrResyncRestores ==
    [][\A id \in Ids :
        /\ doc[id] = NoDoc /\ doc'[id] # NoDoc
        /\ \E k \in Positions(id, {"Deleted", "DeadlineReached"}) : Applied(id, k)
        => \/ \E k \in Positions(id, {"Created"}) : Waiting(id, k)
           \/ id \in synced]_vars

\* Every message is applied or parked in the end.
QueueDrains == \A id \in Ids, k \in 1 .. MaxFeed : Waiting(id, k) ~> ~Waiting(id, k)
===============================================================================
