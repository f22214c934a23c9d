-------------------------------- MODULE Board --------------------------------
(***************************************************************************)
(* The job board of the Nest backend: JobPostService, ApplyingService,     *)
(* ReviewsService, CalendarService and ImagesService over the tables of    *)
(* one database, SearchService over the Elasticsearch index, and the       *)
(* images in S3.  A request is a task; what it does between two awaits is  *)
(* one step.  `todo' holds the steps it waits for: one, or the branches of *)
(* a Promise.all, which go on when one of them is rejected.  The requests  *)
(* of one task come from the user the guards of its route let through.     *)
(***************************************************************************)
EXTENDS Naturals, FiniteSets

CONSTANTS
    Posts,
    Applicants,     \* the users with the role employee
    Keys,           \* of images; each upload has keys of its own
    Tasks,          \* bound: how many requests run at once
    MaxRows,        \* bound: the rows of each of applications, events and saved posts
    None,
    Scenarios       \* the bounds TLC explores: see Scenario

Statuses == {"pending", "accepted", "rejected", "completed", "withdrawn", "cancelled"}
Ids == 1 .. MaxRows

\* What a task carries from its reads to its writes.  A column that was never
\* written, and a relation that was not loaded, are FALSE.
Row == [archived : BOOLEAN, rev : Nat, photos : SUBSET Keys, employer : BOOLEAN]
App == [post : Posts, user : Applicants, status : Statuses, archived : BOOLEAN]
Event == [id : Ids, post : Posts, type : {"deadline", "custom"}]
Saved == [id : Ids, post : Posts, user : Applicants]

Kinds == {"create", "archive", "complete", "respond", "withdraw", "markCompleted", "update",
          "delete", "toggleSave", "apply", "review", "addEvent", "addDeadline", "removeEvent",
          "upload", "deleteImage", "reindex"}
Steps == {"findPost", "saveEvent", "reload", "index", "archiveRow", "get", "del", "findEvents",
          "removeEvents", "cancelApps", "saveRow", "saveApp", "write", "updateDoc", "deleteRow",
          "findSaved", "addSaved", "removeSaved", "findExisting", "saveNew", "saveReview",
          "put", "deleteObject", "bulk"}

Task == [kind : Kinds, post : Posts \cup {None}, user : Applicants \cup {"applicant", "employer", None},
         app : Ids \cup {None}, todo : SUBSET Steps, failed : BOOLEAN, row : Row \cup {None},
         copy : App \cup {None}, found : SUBSET (Event \cup Saved), keys : SUBSET Keys,
         revs : [Posts -> Nat]]

\* What is stored at first, how many requests of each kind come, and how many
\* faults: awaits that are rejected, stops of the process.  Clicks and searches
\* are those of the web pages.
Bounds == {"fault", "click", "search"}
Scenario == [posts : [Posts -> Row \cup {None}], index : [Posts -> Nat], events : SUBSET Event,
             saved : SUBSET Saved, apps : [Ids -> App \cup {None}], calls : [Kinds \cup Bounds -> Nat]]

\* No user is stored with two applications to a post, or with a post saved twice.
NoDoubles(s) ==
    /\ \A a, b \in {i \in Ids : s.apps[i] # None} :
          a # b => <<s.apps[a].post, s.apps[a].user>> # <<s.apps[b].post, s.apps[b].user>>
    /\ \A r, q \in s.saved : r # q => <<r.post, r.user>> # <<q.post, q.user>>

\* What requests leave that neither overlap nor fail: a document for each live post
\* and for no other, images of one post each, events of stored posts, deadlines of
\* live ones.
Consistent(s) ==
    LET live == {p \in Posts : s.posts[p] # None /\ ~s.posts[p].archived}
    IN  /\ \A p \in Posts : s.index[p] = IF p \in live THEN s.posts[p].rev ELSE 0
        /\ \A p \in Posts : s.posts[p] # None => s.posts[p].rev # 0
        /\ \A p, q \in Posts : p # q /\ s.posts[p] # None /\ s.posts[q] # None
                => s.posts[p].photos \cap s.posts[q].photos = {}
        /\ \A e \in s.events : s.posts[e.post] # None /\ (e.type = "deadline" => e.post \in live)

ASSUME BoardAssumption ==
    /\ MaxRows \in Nat
    /\ Scenarios \subseteq Scenario
    /\ \A s \in Scenarios : NoDoubles(s) /\ Consistent(s)
    /\ None \notin Row \cup App \cup Ids \cup Keys \cup Applicants \cup Posts \cup Task
    /\ Posts \cap Ids = {}

VARIABLES
    posts,          \* rows of job_posts: None before it is created
    deleted,        \* the ids of deleted posts and applications
    apps,           \* rows of job_applications
    events,         \* rows of calendar_event
    saved,          \* rows of saved_posts
    reviews,        \* how often each side reviewed an application
    index,          \* the revision each document was made from; 0 without a document
    bucket,         \* the objects in S3
    task,
    calls,          \* the requests and faults still to come
    faults,         \* the faults that happened
    met             \* ghost: the kinds of requests for a post that overlapped

tables == <<posts, deleted, apps, events, saved, reviews>>
boardVars == <<tables, index, bucket, task, calls, faults, met>>

Exists(p) == posts[p] # None
IsLive(p) == Exists(p) /\ ~posts[p].archived
HasEmployer(p) == Exists(p) /\ posts[p].employer     \* findOne joins the employer
AppIds == {a \in Ids : apps[a] # None}
AppsOf(p) == {a \in AppIds : apps[a].post = p}
EventsOf(p) == {e \in events : e.post = p}
SavedOf(p, u) == {s \in saved : s.post = p /\ s.user = u}
\* The database gives ids, each once; which is of no matter.
HasRoom(used) == Ids \ used # {}
NewId(used) == CHOOSE i \in Ids \ used : TRUE
\* A request that removes rows still has the ids of those it found.
Found == UNION {task[t].found : t \in {u \in Tasks : task[u] # None}}
IdsOf(rows) == {r.id : r \in rows \cup Found}

BoardInit ==
    \E s \in Scenarios :
        /\ posts = s.posts /\ deleted = {} /\ apps = s.apps /\ events = s.events /\ saved = s.saved
        /\ reviews = [a \in Ids |-> [applicant |-> 0, employer |-> 0]]
        /\ index = s.index
        /\ bucket = UNION {s.posts[p].photos : p \in {q \in Posts : s.posts[q] # None}}
        /\ task = [t \in Tasks |-> None]
        /\ calls = s.calls
        /\ faults = 0
        /\ met = [p \in Posts |-> {}]

(***************************************************************************)
(* Tasks                                                                   *)
(***************************************************************************)
Fresh(kind, p, todo) ==
    [kind |-> kind, post |-> p, user |-> None, app |-> None, todo |-> todo, failed |-> FALSE,
     row |-> None, copy |-> None, found |-> {}, keys |-> {}, revs |-> [q \in Posts |-> 0]]
Running(t) == task[t] # None /\ task[t].todo # {}

\* A request arrives and does its first read.
Begin(t, new) ==
    /\ ~Running(t)
    /\ calls[new.kind] > 0
    /\ calls' = [calls EXCEPT ![new.kind] = @ - 1]
    /\ task' = [task EXCEPT ![t] = new]
    /\ UNCHANGED faults

At(t, step) == task[t] # None /\ step \in task[t].todo
Rest(t, step) == task[t].todo \ {step}
Post(t) == task[t].post
Answered(kind, p, failed) == [Fresh(kind, p, {}) EXCEPT !.failed = failed]
Continue(t, step, new, rec) ==
    LET todo == Rest(t, step) \cup new
    IN  task' = [task EXCEPT ![t] = IF todo = {} THEN Answered(rec.kind, rec.post, rec.failed)
                                    ELSE [rec EXCEPT !.todo = todo]]
Then(t, step, new) == Continue(t, step, new, task[t])
Done(t, step) == Then(t, step, {})
Rejected(t, step) == Continue(t, step, {}, [task[t] EXCEPT !.failed = TRUE])

\* Mutant of AllDone: the update does not wait for its Promise.all.
AllDoneUnawaited(t, step) == Then(t, step, IF step = "saveRow" THEN {"saveApp"} ELSE {})

\* The end of a branch: when all are done, an update saves the application.
AllDone(t, step) ==
    Then(t, step, IF task[t].kind = "complete" /\ Rest(t, step) = {} /\ ~task[t].failed
                  THEN {"saveApp"} ELSE {})

Fault == calls["fault"] > 0 /\ calls' = [calls EXCEPT !["fault"] = @ - 1] /\ faults' = faults + 1
\* An await is rejected: the branches beside it go on.
Reject(t) ==
    /\ Fault
    /\ task[t] # None
    /\ \E step \in task[t].todo \ {"put"} : Rejected(t, step)
    /\ UNCHANGED <<tables, index, bucket>>

\* The process stops with every request it runs.
Crash ==
    /\ Fault
    /\ task' = [t \in Tasks |-> None]
    /\ UNCHANGED <<tables, index, bucket>>

Only(v) == UNCHANGED <<calls, faults>> /\ UNCHANGED v
NotPosts == <<deleted, apps, events, saved, reviews, index, bucket>>
NotApps == <<posts, deleted, events, saved, reviews, index, bucket>>
NotEvents == <<posts, deleted, apps, saved, reviews, index, bucket>>
NotSaved == <<posts, deleted, apps, events, reviews, index, bucket>>
NotReviews == <<posts, deleted, apps, events, saved, index, bucket>>
NotIndex == <<tables, bucket>>
NotBucket == <<tables, index>>
NotData == <<tables, index, bucket>>
NoWrite == UNCHANGED NotData

(***************************************************************************)
(* JobPostService                                                          *)
(***************************************************************************)
NewRow == [archived |-> FALSE, rev |-> 1, photos |-> {}, employer |-> TRUE]

Create(t, p) ==
    /\ ~Exists(p) /\ p \notin deleted
    /\ posts' = [posts EXCEPT ![p] = NewRow]
    /\ Begin(t, Fresh("create", p, {"findPost"}))
    /\ UNCHANGED NotPosts

\* calendarService.create looks the post up, then saves the event.
FindPost(t) ==
    /\ At(t, "findPost")
    /\ IF Exists(Post(t)) THEN Then(t, "findPost", {"saveEvent"}) ELSE Rejected(t, "findPost")
    /\ Only(NotData)

NewEvent(t) == [id |-> NewId(IdsOf(events)), post |-> Post(t),
                type |-> IF task[t].kind \in {"create", "addDeadline"} THEN "deadline" ELSE "custom"]
\* The foreign key refuses the event of a post that is gone.
SaveEvent(t) ==
    /\ At(t, "saveEvent")
    /\ \/ /\ Exists(Post(t)) /\ HasRoom(IdsOf(events))
          /\ events' = events \cup {NewEvent(t)}
          /\ Then(t, "saveEvent", IF task[t].kind = "create" THEN {"reload"} ELSE {})
       \/ ~Exists(Post(t)) /\ Rejected(t, "saveEvent") /\ UNCHANGED events
    /\ Only(NotEvents)

\* create fails without the post, update ends.
Reload(t) ==
    /\ At(t, "reload")
    /\ \/ /\ HasEmployer(Post(t))
          /\ Continue(t, "reload", IF task[t].kind = "create" THEN {"index"} ELSE {"updateDoc"},
                      [task[t] EXCEPT !.row = posts[Post(t)]])
       \/ ~HasEmployer(Post(t)) /\ task[t].kind = "create" /\ Rejected(t, "reload")
       \/ ~HasEmployer(Post(t)) /\ task[t].kind = "update" /\ Done(t, "reload")
    /\ Only(NotData)

\* indexJobPost, after the employer's reviews.
IndexJobPost(t) ==
    /\ At(t, "index")
    /\ index' = [index EXCEPT ![Post(t)] = task[t].row.rev]
    /\ Done(t, "index")
    /\ Only(NotIndex)

Archive(t, p) ==
    /\ HasEmployer(p)
    /\ Begin(t, Fresh("archive", p, {"archiveRow", "get", "findEvents", "cancelApps"}))
    /\ NoWrite

ArchiveRow(t) ==
    /\ At(t, "archiveRow")
    /\ posts' = IF Exists(Post(t)) THEN [posts EXCEPT ![Post(t)].archived = TRUE] ELSE posts
    /\ AllDone(t, "archiveRow")
    /\ Only(NotPosts)

\* Of SearchService.deleteJobPost: Elasticsearch answers 404 without a document.
GetDoc(t) ==
    /\ At(t, "get")
    /\ IF index[Post(t)] # 0 THEN Then(t, "get", {"del"}) ELSE Rejected(t, "get")
    /\ Only(NotData)

DeleteDoc(t) ==
    /\ At(t, "del")
    /\ index' = [index EXCEPT ![Post(t)] = 0]
    /\ IF index[Post(t)] # 0 THEN AllDone(t, "del") ELSE Rejected(t, "del")
    /\ Only(NotIndex)

\* Mutant of FindEvents: the events that users added are found, not the deadline.
FindEventsCustom(t) ==
    /\ At(t, "findEvents")
    /\ Continue(t, "findEvents", {"removeEvents"},
                [task[t] EXCEPT !.found = {e \in EventsOf(Post(t)) : e.type = "custom"}])
    /\ Only(NotData)

\* deleteEventByJobPostId finds the events, then removes those it found.
FindEvents(t) ==
    /\ At(t, "findEvents")
    /\ Continue(t, "findEvents", {"removeEvents"}, [task[t] EXCEPT !.found = EventsOf(Post(t))])
    /\ Only(NotData)

RemoveEvents(t) ==
    /\ At(t, "removeEvents")
    /\ events' = events \ task[t].found
    /\ AllDone(t, "removeEvents")
    /\ Only(NotEvents)

CancelApps(t) ==
    /\ At(t, "cancelApps")
    /\ apps' = [a \in Ids |-> IF a \in AppsOf(Post(t))
                              THEN [apps[a] EXCEPT !.archived = TRUE, !.status = "cancelled"] ELSE apps[a]]
    /\ AllDone(t, "cancelApps")
    /\ Only(NotApps)

\* The controller finds the post and its employer, for update and delete.
Update(t, p) ==
    /\ HasEmployer(p)
    /\ Begin(t, Fresh("update", p, {"write"}))
    /\ NoWrite

\* Mutant of Write: the row is made from an old read.
WriteWholeRow(t) ==
    /\ At(t, "write")
    /\ posts' = IF Exists(Post(t))
                THEN [posts EXCEPT ![Post(t)] = [@ EXCEPT !.rev = @ + 1, !.archived = FALSE]] ELSE posts
    /\ Then(t, "write", {"reload"})
    /\ Only(NotPosts)

\* Repository.update writes the columns of the request.
Write(t) ==
    /\ At(t, "write")
    /\ posts' = IF Exists(Post(t)) THEN [posts EXCEPT ![Post(t)].rev = @ + 1] ELSE posts
    /\ Then(t, "write", {"reload"})
    /\ Only(NotPosts)

UpdateDoc(t) ==
    /\ At(t, "updateDoc")
    /\ index' = IF index[Post(t)] # 0 THEN [index EXCEPT ![Post(t)] = task[t].row.rev] ELSE index
    /\ IF index[Post(t)] # 0 THEN Done(t, "updateDoc") ELSE Rejected(t, "updateDoc")
    /\ Only(NotIndex)

Delete(t, p) ==
    /\ HasEmployer(p)
    /\ Begin(t, Fresh("delete", p, {"deleteRow"}))
    /\ NoWrite

\* Mutant of DeleteRow: the document is left.
DeleteRowOnly(t) ==
    /\ At(t, "deleteRow")
    /\ EventsOf(Post(t)) = {} /\ {s \in saved : s.post = Post(t)} = {}
    /\ posts' = [posts EXCEPT ![Post(t)] = None]
    /\ deleted' = deleted \cup {Post(t)} \cup AppsOf(Post(t))
    /\ apps' = [a \in Ids |-> IF a \in AppsOf(Post(t)) THEN None ELSE apps[a]]
    /\ Done(t, "deleteRow")
    /\ Only(<<events, saved, reviews, index, bucket>>)

\* Events and saved posts refer to it without onDelete, applications cascade.
DeleteRow(t) ==
    /\ At(t, "deleteRow")
    /\ \/ /\ EventsOf(Post(t)) = {} /\ {s \in saved : s.post = Post(t)} = {}
          /\ posts' = [posts EXCEPT ![Post(t)] = None]
          /\ deleted' = deleted \cup {Post(t)} \cup AppsOf(Post(t))
          /\ apps' = [a \in Ids |-> IF a \in AppsOf(Post(t)) THEN None ELSE apps[a]]
          /\ Then(t, "deleteRow", {"get"})
       \/ /\ EventsOf(Post(t)) # {} \/ {s \in saved : s.post = Post(t)} # {}
          /\ Rejected(t, "deleteRow")
          /\ UNCHANGED <<posts, deleted, apps>>
    /\ Only(<<events, saved, reviews, index, bucket>>)

ToggleSave(t, p, u) ==
    /\ HasEmployer(p)
    /\ Begin(t, [Fresh("toggleSave", p, {"findSaved"}) EXCEPT !.user = u])
    /\ NoWrite

\* Mutant of FindSaved: the saved row is not found.
FindSavedNever(t) ==
    /\ At(t, "findSaved")
    /\ Then(t, "findSaved", {"addSaved"})
    /\ Only(NotData)

FindSaved(t) ==
    /\ At(t, "findSaved")
    /\ LET rows == SavedOf(Post(t), task[t].user)
       IN  \/ /\ rows = {} /\ Then(t, "findSaved", {"addSaved"})
           \/ \E s \in rows :
                 Continue(t, "findSaved", {"removeSaved"}, [task[t] EXCEPT !.found = {s}])
    /\ Only(NotData)

AddSaved(t) ==
    /\ At(t, "addSaved")
    /\ \/ /\ Exists(Post(t)) /\ HasRoom(IdsOf(saved))
          /\ saved' = saved \cup {[id |-> NewId(IdsOf(saved)), post |-> Post(t), user |-> task[t].user]}
          /\ Done(t, "addSaved")
       \/ ~Exists(Post(t)) /\ Rejected(t, "addSaved") /\ UNCHANGED saved
    /\ Only(NotSaved)

RemoveSaved(t) ==
    /\ At(t, "removeSaved")
    /\ saved' = saved \ task[t].found
    /\ Done(t, "removeSaved")
    /\ Only(NotSaved)

(***************************************************************************)
(* ApplyingService and ReviewsService.  save() writes every column of the  *)
(* entity it was given that differs from the row, and inserts a row that   *)
(* is not there.                                                           *)
(***************************************************************************)
Apply(t, p, u) ==
    /\ Exists(p)
    /\ Begin(t, [Fresh("apply", p, {"findExisting"}) EXCEPT !.user = u])
    /\ NoWrite

\* Mutant of FindExisting: only an open application counts.
FindExistingOpen(t) ==
    /\ At(t, "findExisting")
    /\ IF \E a \in AppsOf(Post(t)) : apps[a].user = task[t].user /\ apps[a].status = "pending"
       THEN Rejected(t, "findExisting") ELSE Then(t, "findExisting", {"saveNew"})
    /\ Only(NotData)

FindExisting(t) ==
    /\ At(t, "findExisting")
    /\ IF \E a \in AppsOf(Post(t)) : apps[a].user = task[t].user
       THEN Rejected(t, "findExisting") ELSE Then(t, "findExisting", {"saveNew"})
    /\ Only(NotData)

SaveNew(t) ==
    /\ At(t, "saveNew")
    /\ \/ /\ Exists(Post(t)) /\ HasRoom(AppIds \cup deleted)
          /\ apps' = [apps EXCEPT ![NewId(AppIds \cup deleted)] = [post |-> Post(t), user |-> task[t].user,
                                                     status |-> "pending", archived |-> FALSE]]
          /\ Done(t, "saveNew")
       \/ ~Exists(Post(t)) /\ Rejected(t, "saveNew") /\ UNCHANGED apps
    /\ Only(NotApps)

OfApp(kind, a, todo, copy) == [Fresh(kind, apps[a].post, todo) EXCEPT !.app = a, !.copy = copy]

\* update with another status than COMPLETED, the one it has not excepted.
Respond(t, a, status) ==
    /\ HasEmployer(apps[a].post)
    /\ status # "completed"
    /\ Begin(t, OfApp("respond", a, {"saveApp"}, [apps[a] EXCEPT !.status = status]))
    /\ NoWrite

Complete(t, a) ==
    /\ HasEmployer(apps[a].post)
    /\ Begin(t, [OfApp("complete", a, {"saveRow", "get", "findEvents"},
                       [apps[a] EXCEPT !.status = "completed", !.archived = TRUE])
                 EXCEPT !.row = [posts[apps[a].post] EXCEPT !.archived = TRUE]])
    /\ NoWrite

Withdraw(t, a) ==
    /\ apps[a].status # "withdrawn"
    /\ Begin(t, OfApp("withdraw", a, {"saveApp"}, [apps[a] EXCEPT !.status = "withdrawn"]))
    /\ NoWrite

MarkCompleted(t, a) ==
    /\ Begin(t, OfApp("markCompleted", a, {"saveApp"}, [apps[a] EXCEPT !.status = "completed"]))
    /\ NoWrite

SaveApp(t) ==
    /\ At(t, "saveApp")
    /\ \/ /\ Exists(Post(t))
          /\ apps' = [apps EXCEPT ![task[t].app] = task[t].copy]
          /\ Done(t, "saveApp")
       \/ ~Exists(Post(t)) /\ Rejected(t, "saveApp") /\ UNCHANGED apps
    /\ Only(NotApps)

\* The post read before, as complete, upload and deleteImage changed it.  Only a
\* row that is inserted takes the employer of the entity, if it was loaded.
SaveRow(t) ==
    /\ At(t, "saveRow")
    /\ posts' = [posts EXCEPT ![Post(t)] =
           [task[t].row EXCEPT !.employer = IF Exists(Post(t)) THEN posts[Post(t)].employer
                                            ELSE task[t].kind # "upload"]]
    /\ AllDone(t, "saveRow")
    /\ Only(NotPosts)

\* The applicant reviews the employer; anyone else reviews as the employer.
Review(t, a, side) ==
    /\ Begin(t, [Fresh("review", apps[a].post, {"saveReview"}) EXCEPT !.app = a, !.user = side])
    /\ NoWrite

SaveReview(t) ==
    /\ At(t, "saveReview")
    /\ reviews' = [reviews EXCEPT ![task[t].app][task[t].user] = @ + 1]
    /\ Done(t, "saveReview")
    /\ Only(NotReviews)

(***************************************************************************)
(* CalendarController, SearchController and ImagesService                  *)
(***************************************************************************)
\* POST calendar takes post and type of the event from the request, whatever the
\* post is like: a deadline ("addDeadline") or another event.  Without a post,
\* findOne of an undefined id answers any.
AddEvent(t, kind) ==
    /\ \E p \in Posts : Exists(p) /\ Begin(t, Fresh(kind, p, {"saveEvent"}))
    /\ NoWrite

RemoveEvent(t, e) ==
    /\ Begin(t, [Fresh("removeEvent", e.post, {"removeEvents"}) EXCEPT !.found = {e}])
    /\ NoWrite

Reindex(t) ==
    /\ Begin(t, [Fresh("reindex", None, {"bulk"})
                 EXCEPT !.revs = [q \in Posts |-> IF Exists(q) THEN posts[q].rev ELSE 0]])
    /\ NoWrite

\* Archived posts as well.
Bulk(t) ==
    /\ At(t, "bulk")
    /\ index' = [p \in Posts |-> IF task[t].revs[p] # 0 THEN task[t].revs[p] ELSE index[p]]
    /\ Done(t, "bulk")
    /\ Only(NotIndex)

NewKeys == Keys \ (bucket \cup UNION {task[t].keys : t \in {u \in Tasks : task[u] # None}})
Upload(t, p, keys) ==
    /\ Exists(p)
    /\ keys # {} /\ keys \subseteq NewKeys
    /\ Begin(t, [Fresh("upload", p, {"put"}) EXCEPT !.row = posts[p], !.keys = keys])
    /\ NoWrite

\* Each file is put as S3 answers; its URL is added to the entity.
PutObject(t) ==
    /\ At(t, "put")
    /\ \E k \in task[t].keys :
          LET left == task[t].keys \ {k}
          IN  /\ bucket' = bucket \cup {k}
              /\ Continue(t, "put", IF left # {} THEN {"put"} ELSE {"saveRow"},
                          [task[t] EXCEPT !.keys = left, !.row.photos = @ \cup {k}])
    /\ Only(NotBucket)

\* One file fails: the others are put still, the post is not saved.
PutFails(t) ==
    /\ Fault
    /\ At(t, "put")
    /\ \E k \in task[t].keys : \E others \in SUBSET (task[t].keys \ {k}) :
          /\ bucket' = bucket \cup others
          /\ Rejected(t, "put")
    /\ UNCHANGED <<tables, index>>

DeleteImage(t, p, k) ==
    /\ HasEmployer(p)
    /\ Begin(t, [Fresh("deleteImage", p, {"deleteObject"}) EXCEPT !.row = posts[p], !.keys = {k}])
    /\ NoWrite

\* Mutant of DeleteObject: the entity is saved as it was read.
DeleteObjectOnly(t) ==
    /\ At(t, "deleteObject")
    /\ bucket' = bucket \ task[t].keys
    /\ Then(t, "deleteObject", {"saveRow"})
    /\ Only(NotBucket)

DeleteObject(t) ==
    /\ At(t, "deleteObject")
    /\ bucket' = bucket \ task[t].keys
    /\ Continue(t, "deleteObject", {"saveRow"}, [task[t] EXCEPT !.row.photos = @ \ task[t].keys])
    /\ Only(NotBucket)

-------------------------------------------------------------------------------
PostRequest(t, p) ==
    \/ Create(t, p) \/ Archive(t, p) \/ Update(t, p) \/ Delete(t, p)
    \/ \E u \in Applicants : Apply(t, p, u) \/ ToggleSave(t, p, u)
    \/ \E keys \in SUBSET Keys : Upload(t, p, keys)
    \/ \E k \in Keys : DeleteImage(t, p, k)

AppRequest(t, a) ==
    \/ \E status \in Statuses : Respond(t, a, status)
    \/ Complete(t, a) \/ Withdraw(t, a) \/ MarkCompleted(t, a)
    \/ \E side \in {"applicant", "employer"} : Review(t, a, side)

Request(t) ==
    \/ \E p \in Posts : PostRequest(t, p)
    \/ \E a \in AppIds : AppRequest(t, a)
    \/ \E e \in events : RemoveEvent(t, e)
    \/ \E kind \in {"addEvent", "addDeadline"} : AddEvent(t, kind)
    \/ Reindex(t)

Step(t) ==
    \/ FindPost(t) \/ SaveEvent(t) \/ Reload(t) \/ IndexJobPost(t)
    \/ ArchiveRow(t) \/ GetDoc(t) \/ DeleteDoc(t) \/ FindEvents(t) \/ RemoveEvents(t) \/ CancelApps(t)
    \/ Write(t) \/ UpdateDoc(t) \/ DeleteRow(t)
    \/ FindSaved(t) \/ AddSaved(t) \/ RemoveSaved(t)
    \/ FindExisting(t) \/ SaveNew(t) \/ SaveApp(t) \/ SaveRow(t) \/ SaveReview(t)
    \/ PutObject(t) \/ PutFails(t) \/ DeleteObject(t) \/ Bulk(t)
    \/ Reject(t)

\* What does harm by itself: a reindexing takes archived posts in, and the key of
\* an image to remove need not be one of its post.
Images == {"upload", "deleteImage"}
Closing == {"archive", "complete", "delete"}
Strays(t) == At(t, "deleteObject") /\ ~(task[t].keys \subseteq task[t].row.photos)
Overlaps(p) ==
    LET on == {t \in Tasks : Running(t) /\ (task[t].post = p \/ task[t].kind = "reindex")}
        pairs == {x \in on \X on : x[1] # x[2] \/ task[x[1]].kind = "reindex" \/ Strays(x[1])}
        \* a deadline that is added to a closed post, or to one that another request
        \* still holds as closed, counts as added while it closed
        held == \E u \in on : task[u].kind \in Images /\ task[u].row.archived
        late == {t \in on : task[t].kind = "addDeadline" /\ (~IsLive(p) \/ held)}
    IN  {<<task[x[1]].kind, task[x[2]].kind>> : x \in pairs} \cup {<<"addDeadline", "archive">> : t \in late}
Remember == met' = [p \in Posts |-> met[p] \cup Overlaps(p)']

BoardNext ==
    /\ Crash \/ \E t \in Tasks : Request(t) \/ Step(t)
    /\ Remember
BoardSpec == BoardInit /\ [][BoardNext]_boardVars

-------------------------------------------------------------------------------
\* The type invariant.
TypeOK ==
    /\ posts \in [Posts -> Row \cup {None}] /\ deleted \subseteq Posts \cup Ids
    /\ apps \in [Ids -> App \cup {None}] /\ events \subseteq Event /\ saved \subseteq Saved
    /\ reviews \in [Ids -> [applicant : Nat, employer : Nat]]
    /\ index \in [Posts -> Nat] /\ bucket \subseteq Keys
    /\ task \in [Tasks -> Task \cup {None}]
    /\ calls \in [Kinds \cup Bounds -> Nat] /\ faults \in Nat
    /\ met \in [Posts -> SUBSET (Kinds \X Kinds)]

Quiet == \A t \in Tasks : ~Running(t)
Met(p, kinds, others) == \E k \in kinds, o \in others : <<k, o>> \in met[p]

\* Requests that write the same post, row or document, each from what it read
\* before: the last writer wins.
LostUpdate(p) ==
    \/ Met(p, {"create", "update"}, {"create", "update"})
    \/ Met(p, {"create"}, Closing)
    \/ Met(p, Images, Closing \cup {"update"})

\* The search shows a live post as its row is, and no post that is archived or
\* gone, once the requests are through and no await was rejected, unless
\* requests overlapped that write the same post, or the index was rebuilt with
\* the archived posts.
IndexIsCurrent ==
    Quiet /\ faults = 0 =>
        \A p \in Posts :
            \/ LostUpdate(p) \/ Met(p, {"reindex"}, {"reindex"})
            \/ index[p] = IF IsLive(p) THEN posts[p].rev ELSE 0

\* Even when awaits are rejected: an application becomes completed only when its
\* post is archived and out of the search, but for the same overlaps, and but for
\* the route of the reviews that completes an application and looks at no post.
Completed(a) == apps[a] # None /\ apps[a].status = "completed"
ClosedBeforeCompleted ==
    [][\A a \in Ids : ~Completed(a) /\ Completed(a)' =>
          LET p == apps'[a].post
          IN  \/ index[p] = 0 /\ ~IsLive(p)
              \/ LostUpdate(p) \/ Met(p, {"reindex"}, {"reindex"})
              \/ \E t \in Tasks : /\ At(t, "saveApp") /\ ~At(t, "saveApp")'
                                  /\ task[t].kind = "markCompleted" /\ task[t].app = a]_boardVars

IsClosed(p) == ~IsLive(p) /\ (Exists(p) \/ p \in deleted)

\* A post that was archived or deleted is live again only by the image of it
\* that an upload or a deletion of images read before.
StaysClosed ==
    [][\A p \in Posts :
          IsClosed(p) /\ IsLive(p)' => Met(p, Images, Closing)]_boardVars

\* The calendar shows no deadline of an archived post, once the requests are
\* through and no await was rejected, unless the post was archived while a
\* deadline was on its way, of its creation or of a request that adds one: it is
\* saved after the others were looked for; or one was added when it was closed,
\* as the route allows.
DeadlineGoesWithPost ==
    Quiet /\ faults = 0 =>
        \A e \in events : e.type = "deadline" /\ ~IsLive(e.post) =>
            Met(e.post, {"create", "addDeadline"}, Closing)

\* Nothing in the database forbids it, yet a user has two applications to one
\* post only when two requests to apply overlapped, or a deletion of the post
\* overlapped a request that puts the post, and its application, back,
AppliedOnce ==
    \A a, b \in AppIds : a # b /\ apps[a].post = apps[b].post /\ apps[a].user = apps[b].user
        => \/ Met(apps[a].post, {"apply"}, {"apply"})
           \/ Met(apps[a].post, {"delete"}, Images \cup {"complete"})

\* and has saved a post twice only when two toggles overlapped.
SavedOnce ==
    \A r, s \in saved : r # s /\ r.post = s.post /\ r.user = s.user
        => Met(r.post, {"toggleSave"}, {"toggleSave"})

\* A post names the objects that are in S3, and every object is named by a post,
\* once the requests are through and no await was rejected, unless a request
\* that saves the whole row overlapped one that changes its images, or an image
\* was removed by way of a post that does not name it, or the post was deleted:
\* its objects are left.
PhotosAreStored ==
    Quiet /\ faults = 0 =>
        \/ deleted # {}
        \/ \E p \in Posts : Met(p, Images, Images \cup {"complete"})
        \/ bucket = UNION {posts[p].photos : p \in {q \in Posts : Exists(q)}}

\* README.md: employers can delete job postings.  When no await was rejected and
\* nothing else ran, the post is gone when the request is answered.
DeleteRemovesPost ==
    \A t \in Tasks : task[t] # None /\ task[t].kind = "delete" /\ ~Running(t)
            /\ faults = 0 /\ met[Post(t)] = {}
        => ~Exists(Post(t))

===============================================================================
