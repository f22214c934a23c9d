-------------------------------- MODULE Applying --------------------------------
(***************************************************************************)
(* The ApplyingService: its Mongo collections JobPost (copies of posts, fed *)
(* by events) and JobPostRequest (applications), the handlers of            *)
(* ApplyController that write, and its three consumers.  The posts, their   *)
(* rows (read over gRPC) and their events are those of PostFeed.            *)
(*                                                                          *)
(* Each await of a handler or consumer is a step of its own.  No message is *)
(* retried: one whose consumer throws goes to the error queue.              *)
(***************************************************************************)
EXTENDS Naturals, Sequences, FiniteSets

CONSTANTS
    Ids,           \* Guids of job posts
    Users,         \* user names
    Employer,      \* per post, the user who posts it
    Keys,          \* Mongo ids of applications
    Requests,      \* HTTP requests that may be in flight together
    Idle,          \* a request slot that serves nothing
    NoRow,         \* no row with this key in the JobPostingService
    NoCopy,        \* no copy with this id
    NoApp,         \* no application with this id
    MaxTime,       \* bound: the clock stops here
    MaxFeed,       \* bound: events per post
    MaxRestarts,   \* bound: restarts of the service
    MaxDuplicates  \* bound: redeliveries of a message that was applied

\* Keys is a bound too: SaveApplication takes an id nobody has.
ASSUME ApplyingBounds == MaxTime \in Nat /\ MaxFeed \in Nat /\ MaxRestarts \in Nat /\ MaxDuplicates \in Nat
ASSUME FiniteRequests == IsFiniteSet(Requests)
ASSUME EmployerAssumption == Employer \in [Ids -> Users]

VARIABLES
    now,                \* the clock, DateTime.Now
    row, feed, seeded,  \* PostFeed; of a row's columns only the deadline matters here
    copy,       \* collection JobPost
    app,        \* collection JobPostRequest
    req,        \* the requests in flight and what they read
    placed,     \* applications whose JobPostRequestPlaced was published
    relayed,    \* per post, how many of its events the broker has got
    queue,      \* messages: [id, pos, stage, copy, apps], the last two what the consumer read
    parked,     \* messages in the error queues, <<id, pos>>
    stale,      \* ghost: applications saved while a consumer held an older reading of them
    overtaken,  \* ghost: posts a message of which was taken up while an earlier one waited
    duplicates, restarts

service == <<now, row, feed, seeded>>
vars == <<service, copy, app, req, placed, relayed, queue, parked, stale, overtaken, duplicates, restarts>>

-------------------------------------------------------------------------------
Times  == 0 .. MaxTime   \* a deadline at MaxTime never passes
Status == {"Pending", "Approved", "Rejected"}
Copy   == [deadline : Times, finished : BOOLEAN]
App    == [post : Ids, employee : Users, status : Status]
ASSUME NothingAssumption == NoRow \notin Times /\ NoCopy \notin Copy /\ NoApp \notin App

Asking   == [op : {"ask"}, user : Users, post : Ids]
Applying == [op : {"apply", "save"}, user : Users, post : Ids, deadline : Times]
Placing  == [op : {"publish"}, key : Keys]
Review   == [op : {"review"}, user : Users, post : Ids, status : Status]
Decision == [op : {"decide"}, key : Keys, status : Status]
Request  == Asking \cup Applying \cup Placing \cup Review \cup Decision
ASSUME IdleAssumption == Idle \notin Request

Stages  == {"ready", "found", "saved", "read", "written"}
Message == [id : Ids, pos : 1 .. MaxFeed, stage : Stages, copy : Copy \cup {NoCopy},
            apps : UNION {[S -> Status] : S \in SUBSET Keys}]
NoApps == [k \in {} |-> "Pending"]
Ready(id, k) == [id |-> id, pos |-> k, stage |-> "ready", copy |-> NoCopy, apps |-> NoApps]

Feed == INSTANCE PostFeed WITH Columns <- Times

Init == /\ now = 0
        /\ Feed!Init
        /\ copy = [id \in Ids |-> NoCopy]
        /\ app = [k \in Keys |-> NoApp]
        /\ req = [r \in Requests |-> Idle]
        /\ placed = {}
        /\ relayed = [id \in Ids |-> 0]
        /\ queue = {}
        /\ parked = {}
        /\ stale = {}
        /\ overtaken = {}
        /\ duplicates = 0
        /\ restarts = 0

Tick == /\ now < MaxTime
        /\ now' = now + 1
        /\ UNCHANGED <<row, feed, seeded, copy, app, req, placed, relayed, queue, parked, stale, overtaken, duplicates, restarts>>

\* A step of the JobPostingService.  A post is created with a deadline ahead of
\* the clock, which it may have overtaken when the row is committed; a deadline
\* is announced only when one the post had is past.
CreatedAhead(id) == \A k \in 1 .. Len(feed[id]) : feed[id][k].kind = "Created" => 0 \notin feed[id][k].data
HadDeadlineBefore(id, t) ==
    \/ id \in seeded
    \/ \E k \in 1 .. Len(feed[id]) : \E d \in feed[id][k].data : d < t
ServiceStep ==
    /\ Feed!Next
    /\ \A id \in Ids : Len(feed'[id]) <= MaxFeed /\ CreatedAhead(id)'
    /\ \A id \in Ids : feed'[id] = Append(feed[id], Feed!DeadlineReachedEvent) => HadDeadlineBefore(id, now)
    /\ UNCHANGED <<now, copy, app, req, placed, relayed, queue, parked, stale, overtaken, duplicates, restarts>>

\* The broker delivers an event to this service's queue for it: each kind has a
\* queue of its own, so messages of a post are consumed in any order.  Nobody here
\* consumes JobPostUpdated.
Relay(id) ==
    LET k == relayed[id] + 1 IN
    /\ k <= Len(feed[id])
    /\ relayed' = [relayed EXCEPT ![id] = k]
    /\ queue' = IF feed[id][k].kind = "Updated" THEN queue ELSE queue \cup {Ready(id, k)}
    /\ UNCHANGED <<service, copy, app, req, placed, parked, stale, overtaken, duplicates, restarts>>

-------------------------------------------------------------------------------
\* ApplyController.Apply.

AppsOf(id) == {k \in Keys : app[k] # NoApp /\ app[k].post = id}
AppsBy(u, id) == {k \in AppsOf(id) : app[k].employee = u}
FreeKeys == {k \in Keys : app[k] = NoApp}

Controller(r, q) == /\ req' = [req EXCEPT ![r] = q]
                    /\ UNCHANGED <<service, copy, relayed, queue, parked, overtaken, duplicates, restarts>>
Serving(r, op) == req[r] # Idle /\ req[r].op = op

\* Mutant of GetJobPost: a post the server does not find is one without a deadline.
GetJobPostDefault(id) == {IF Feed!Live(id) THEN row[id] ELSE MaxTime}

\* The gRPC call: the deadline of the row, or nothing when the server has none.
GetJobPost(id) == IF Feed!Live(id) THEN {row[id]} ELSE {}

\* The post is looked for among the copies, then over gRPC; its employer may not apply.
Apply(r, u, id) ==
    /\ req[r] = Idle
    /\ \/ /\ copy[id] # NoCopy /\ u # Employer[id]
          /\ Controller(r, [op |-> "apply", user |-> u, post |-> id, deadline |-> copy[id].deadline])
       \/ /\ copy[id] = NoCopy
          /\ Controller(r, [op |-> "ask", user |-> u, post |-> id])
    /\ UNCHANGED <<app, placed, stale>>

AskForPost(r) ==
    LET q == req[r] IN
    /\ Serving(r, "ask")
    /\ \/ \E d \in GetJobPost(q.post) :
             Controller(r, IF q.user = Employer[q.post] THEN Idle
                           ELSE [op |-> "apply", user |-> q.user, post |-> q.post, deadline |-> d])
       \/ GetJobPost(q.post) = {} /\ Controller(r, Idle)
    /\ UNCHANGED <<app, placed, stale>>

\* Mutant of CheckExisting: the check for an earlier application is dropped.
CheckDeadlineOnly(r) ==
    LET q == req[r] IN
    /\ Serving(r, "apply")
    /\ Controller(r, IF q.deadline < now THEN Idle ELSE [q EXCEPT !.op = "save"])
    /\ UNCHANGED <<app, placed, stale>>

\* "You have already applied to this job post", "Job post has expired".
CheckExisting(r) ==
    LET q == req[r] IN
    /\ Serving(r, "apply")
    /\ Controller(r, IF AppsBy(q.user, q.post) # {} \/ q.deadline < now
                     THEN Idle ELSE [q EXCEPT !.op = "save"])
    /\ UNCHANGED <<app, placed, stale>>

SaveApplication(r) ==
    LET q == req[r] IN
    /\ Serving(r, "save")
    /\ \E k \in FreeKeys :
          /\ app' = [app EXCEPT ![k] = [post |-> q.post, employee |-> q.user, status |-> "Pending"]]
          /\ Controller(r, [op |-> "publish", key |-> k])
    /\ UNCHANGED <<placed, stale>>

\* No outbox: the message goes straight to the broker.
PublishPlaced(r) ==
    /\ Serving(r, "publish")
    /\ placed' = placed \cup {req[r].key}
    /\ Controller(r, Idle)
    /\ UNCHANGED <<app, stale>>

\* Of the applications in K, those that a message of Q is about to write.
HeldBy(Q, K) == {k \in K : \E m \in Q : k \in DOMAIN m.apps}

\* ApplyController.UpdateRequestStatus; Employer[id] calls it, for any status.
UpdateRequestStatus(r, id, u, s) ==
    /\ req[r] = Idle
    /\ copy[id] # NoCopy
    /\ Controller(r, [op |-> "review", user |-> u, post |-> id, status |-> s])
    /\ UNCHANGED <<app, placed, stale>>

FindRequest(r) ==
    LET q == req[r] IN
    /\ Serving(r, "review")
    /\ \/ \E k \in AppsBy(q.user, q.post) : Controller(r, [op |-> "decide", key |-> k, status |-> q.status])
       \/ AppsBy(q.user, q.post) = {} /\ Controller(r, Idle)
    /\ UNCHANGED <<app, placed, stale>>

SaveStatus(r) ==
    /\ Serving(r, "decide")
    /\ app' = [app EXCEPT ![req[r].key].status = req[r].status]
    /\ stale' = stale \cup HeldBy(queue, {req[r].key})
    /\ Controller(r, Idle)
    /\ UNCHANGED placed

\* An await throws: Mongo or the broker is away.
HandlerThrows(r) == /\ req[r] # Idle
                    /\ Controller(r, Idle)
                    /\ UNCHANGED <<app, placed, stale>>

-------------------------------------------------------------------------------
\* The consumers, one step per await.

Kind(m) == feed[m.id][m.pos].kind
Step(m, n) == /\ queue' = (queue \ {m}) \cup {n}
              /\ UNCHANGED <<service, req, placed, relayed, parked, duplicates, restarts>>

\* Acknowledged, or applied and delivered again.
Done(m) == \/ /\ queue' = queue \ {m}
              /\ UNCHANGED <<service, req, placed, relayed, parked, duplicates, restarts>>
           \/ /\ duplicates < MaxDuplicates
              /\ duplicates' = duplicates + 1
              /\ queue' = (queue \ {m}) \cup {Ready(m.id, m.pos)}
              /\ UNCHANGED <<service, req, placed, relayed, parked, restarts>>
Park(m) == /\ queue' = queue \ {m}
           /\ parked' = parked \cup {<<m.id, m.pos>>}
           /\ UNCHANGED <<service, req, placed, relayed, duplicates, restarts>>

JobPostCreatedConsumer(m) ==
    /\ Kind(m) = "Created" /\ m.stage = "ready"
    /\ \E d \in feed[m.id][m.pos].data : copy' = [copy EXCEPT ![m.id] = [deadline |-> d, finished |-> FALSE]]
    /\ Done(m)
    /\ UNCHANGED <<app, stale>>

\* Without a copy the deadline consumer dereferences null; the consumer of
\* JobPostDeleted goes on for now.
FindPost(m) ==
    /\ Kind(m) \in {"DeadlineReached", "Deleted"} /\ m.stage = "ready"
    /\ IF Kind(m) = "DeadlineReached" /\ copy[m.id] = NoCopy
       THEN Park(m)
       ELSE Step(m, [m EXCEPT !.stage = "found", !.copy = copy[m.id]])
    /\ UNCHANGED <<copy, app, stale>>

\* SaveAsync replaces the document, or inserts it when it is gone.
SaveFinished(m) ==
    /\ Kind(m) = "DeadlineReached" /\ m.stage = "found"
    /\ copy' = [copy EXCEPT ![m.id] = [m.copy EXCEPT !.finished = TRUE]]
    /\ Step(m, [m EXCEPT !.stage = "saved"])
    /\ UNCHANGED <<app, stale>>

\* Mutant of Rejecting: approved applications are not spared.
RejectingAll(m) == [k \in AppsOf(m.id) |-> "Rejected"]

\* What the consumer will write; the deadline spares approved applications.
Rejecting(m) ==
    [k \in AppsOf(m.id) |->
        IF Kind(m) = "DeadlineReached" /\ app[k].status = "Approved" THEN "Approved" ELSE "Rejected"]

FindApps(m) ==
    /\ \/ Kind(m) = "DeadlineReached" /\ m.stage = "saved"
       \/ Kind(m) = "Deleted" /\ m.stage = "found"
    /\ Step(m, [m EXCEPT !.stage = "read", !.apps = Rejecting(m)])
    /\ UNCHANGED <<copy, app, stale>>

\* The bulk save writes each document as it was read and changed; it throws when
\* items fail, and may throw when there are none to write.
SaveApps(m) ==
    /\ m.stage = "read"
    /\ \E S \in SUBSET DOMAIN m.apps :
          /\ app' = [k \in Keys |-> IF k \in S THEN [app[k] EXCEPT !.status = m.apps[k]] ELSE app[k]]
          /\ stale' = stale \cup HeldBy(queue \ {m}, S)
          /\ \/ /\ S = DOMAIN m.apps
                /\ IF Kind(m) = "Deleted" THEN Step(m, [m EXCEPT !.stage = "written"]) ELSE Done(m)
             \/ Park(m)
    /\ UNCHANGED copy

\* Mutant of DeleteCopy: the copy is only marked.
DeleteCopyMarks(m) ==
    /\ m.stage = "written"
    /\ IF m.copy = NoCopy
       THEN Park(m) /\ UNCHANGED copy
       ELSE Done(m) /\ copy' = [copy EXCEPT ![m.id] = [m.copy EXCEPT !.finished = TRUE]]
    /\ UNCHANGED <<app, stale>>

\* jobPost.DeleteAsync(): with no copy found at the start, null is dereferenced.
DeleteCopy(m) ==
    /\ m.stage = "written"
    /\ IF m.copy = NoCopy
       THEN Park(m) /\ UNCHANGED copy
       ELSE Done(m) /\ copy' = [copy EXCEPT ![m.id] = NoCopy]
    /\ UNCHANGED <<app, stale>>

ConsumerThrows(m) == Park(m) /\ UNCHANGED <<copy, app, stale>>

\* The service stops; what it had not acknowledged comes again.
Restart ==
    /\ restarts < MaxRestarts
    /\ restarts' = restarts + 1
    /\ req' = [r \in Requests |-> Idle]
    /\ queue' = {Ready(m.id, m.pos) : m \in queue}
    /\ UNCHANGED <<service, copy, app, placed, relayed, parked, stale, overtaken, duplicates>>

-------------------------------------------------------------------------------
Handle(r) == \/ \E u \in Users, id \in Ids : Apply(r, u, id)
             \/ AskForPost(r)
             \/ CheckExisting(r)
             \/ SaveApplication(r)
             \/ PublishPlaced(r)
             \/ \E u \in Users, id \in Ids, s \in Status : UpdateRequestStatus(r, id, u, s)
             \/ FindRequest(r)
             \/ SaveStatus(r)
             \/ HandlerThrows(r)

Earlier(m) == {n \in queue : n.id = m.id /\ n.pos < m.pos}
Consume(m) ==
    /\ \/ JobPostCreatedConsumer(m)
       \/ FindPost(m)
       \/ SaveFinished(m)
       \/ FindApps(m)
       \/ SaveApps(m)
       \/ DeleteCopy(m)
       \/ ConsumerThrows(m)
    /\ overtaken' = IF Earlier(m) = {} THEN overtaken ELSE overtaken \cup {m.id}

Next == \/ Tick
        \/ ServiceStep
        \/ \E id \in Ids : Relay(id)
        \/ \E r \in Requests : Handle(r)
        \/ \E m \in queue : Consume(m)
        \/ Restart

Spec == Init /\ [][Next]_vars

-------------------------------------------------------------------------------
TypeOK ==
    /\ now \in 0 .. MaxTime
    /\ row \in [Ids -> Times \cup {NoRow}]
    /\ feed \in [Ids -> Seq([kind : {"Created", "Updated", "Deleted", "DeadlineReached"}, data : SUBSET Times])]
    /\ seeded \subseteq Ids
    /\ copy \in [Ids -> Copy \cup {NoCopy}]
    /\ app \in [Keys -> App \cup {NoApp}]
    /\ req \in [Requests -> Request \cup {Idle}]
    /\ placed \subseteq Keys
    /\ relayed \in [Ids -> 0 .. MaxFeed]
    /\ queue \subseteq Message
    /\ parked \subseteq Ids \X (1 .. MaxFeed)
    /\ stale \subseteq Keys
    /\ overtaken \subseteq Ids
    /\ duplicates \in 0 .. MaxDuplicates
    /\ restarts \in 0 .. MaxRestarts

Relayed(id, kinds) == {k \in 1 .. relayed[id] : feed[id][k].kind \in kinds}
Parked(id) == \E p \in parked : p[1] = id

\* A user applies twice to a post only through requests that overlap, so never
\* more often than requests are in flight together: whoever finds an application
\* gives up, whatever crashes and failures come in between.
SavingFor(u, id) == {r \in Requests : Serving(r, "save") /\ req[r].user = u /\ req[r].post = id}
OverlapBoundsDuplicates ==
    \A u \in Users, id \in Ids :
        Cardinality(AppsBy(u, id)) + Cardinality(SavingFor(u, id)) <= Cardinality(Requests)

\* Nothing is left that could bring the copy of a deleted post back, or write
\* one of its applications.
ConcernedWith(r, id) ==
    \/ req[r] # Idle /\ req[r].op \in {"apply", "save", "review"} /\ req[r].post = id
    \/ Serving(r, "decide") /\ app[req[r].key].post = id
Dead(m) == Kind(m) = "DeadlineReached" /\ m.stage = "ready"
Sealed(id) ==
    /\ ~Feed!Live(id) /\ copy[id] = NoCopy
    /\ \A m \in queue : m.id = id => Dead(m)
    /\ Relayed(id, {"Deleted"}) # {}
    /\ \A r \in Requests : ~ConcernedWith(r, id)

\* Then it stays so for good, and its applications stay as they are: without a
\* copy and a row no request gets past the first check.
SealedForGood ==
    [][\A id \in Ids : Sealed(id) =>
            /\ Sealed(id)'
            /\ \A k \in AppsOf(id) \cup AppsOf(id)' : app'[k] = app[k]]_vars

\* Consumers respect the employer's decisions: the deadline spares an approved
\* application and no consumer approves a rejected one, unless it was saved
\* while a consumer already held an older reading.
DeletionWaits(id) == \E m \in queue : m.id = id /\ Kind(m) = "Deleted"
ConsumersRespectDecisions ==
    [][\A k \in Keys \ stale : (app[k] # NoApp /\ app'[k] # app[k]) =>
            \/ \E r \in Requests : Serving(r, "decide") /\ req[r].key = k
            \/ app[k].status = "Pending" /\ app'[k].status = "Rejected"
            \/ app'[k].status = "Rejected" /\ DeletionWaits(app[k].post)]_vars

\* Unless a message of a post overtook an earlier one, or was parked, its copy
\* follows the feed: it is there from JobPostCreated to JobPostDeleted, with the
\* deadline it had first, and is finished once the deadline was announced.  The
\* three queues do not keep the order; nothing but overtaking breaks the copy, and
\* neither does a redelivery or a restart in the middle of a consumer.
Waiting(id) == \E m \in queue : m.id = id
CopyFollowsFeed ==
    \A id \in Ids \ overtaken : ~Waiting(id) /\ ~Parked(id) =>
        /\ (copy[id] # NoCopy) <=> (Relayed(id, {"Created"}) # {} /\ Relayed(id, {"Deleted"}) = {})
        /\ copy[id] # NoCopy =>
              copy[id] \in [deadline : feed[id][1].data, finished : {Relayed(id, {"DeadlineReached"}) # {}}]
===============================================================================
