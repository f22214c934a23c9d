# FindJobWeb: models, checks and proofs

FindJobWeb is a job board written twice over: a set of .NET microservices
(`src/`) that talk over RabbitMQ, gRPC and HTTP, and a NestJS backend
(`backend/src/`) that the Next.js web app (`frontend/web-app`) uses. This
directory holds TLA+ modules translated from that source, the TLC
configurations that check them, and TLAPS proofs. Paths below are relative to
the repository root.

## 1. Inventory

| component | state it keeps | operations | interacts by |
|---|---|---|---|
| JobPostingService | Postgres tables `JobPosts`, `SavedPosts`, outbox; S3 objects | create, update, delete, save/unsave, upload and remove images; deadline checker; seeding | publishes `JobPostCreated/Updated/Deleted/DeadlineReached` through the MassTransit outbox; serves HTTP and gRPC reads |
| SearchService | Elasticsearch index `jobposts` | four consumers; resynchronisation at start; search | consumes the four events; reads posts over HTTP |
| ApplyingService | Mongo collections `JobPost` (copies), `JobPostRequest` | apply, update status; three consumers | consumes Created, Deleted, DeadlineReached; reads a post over gRPC; publishes `JobPostRequestPlaced` without an outbox |
| NotificationService | an in-memory map from user to connections | connect, disconnect; two consumers | consumes Created and RequestPlaced, pushes over SignalR |
| IdentityService, GatewayService | library state, none | Duende template; YARP routes | HTTP |
| Nest job posts, applications, reviews, search, calendar, images | Postgres tables, an Elasticsearch index, S3 objects | create, update, archive, delete, toggle save; apply, respond, complete, withdraw; review; events; upload and delete images; reindex | direct calls between services, with no transaction across them |
| Nest auth, tokens, users, mailer | `users`, `tokens`, mails | register, verify, resend, login, forgot, reset; profile updates | mails links with tokens |
| Nest chat | Mongo conversations and messages, sockets and rooms in memory | open conversation, join, leave, send, mark read, typing | Socket.IO and HTTP |
| web app: job board, accounts, chat | browser state, two stores, `localStorage`, the session | pages, dialogs and server actions | HTTP through `fetchWrapper`, one socket per chat page |

What is hard in them, with the lines, is the list `hazards` of `PROJECT.json`.
In short:

* JobPostingService: handlers overlap between their read and their
  `SaveChangesAsync`; image handlers write a whole stale row back; the checker
  publishes after it saves, so an event waits for the next save of the scope,
  and the host may stop in between.
* SearchService: one endpoint takes all four kinds of event concurrently, with
  retries and redeliveries, while a resynchronisation writes rows it fetched a
  while ago.
* ApplyingService: check-then-save without an index, a copy of each post that
  no update reaches, whole-document saves from a consumer, no outbox, no retry.
* Nest backend: several writes per request with no transaction, `Promise.all`
  over writes that may fail one by one, read-then-write toggles, entities that
  are saved whole as they were read, tokens removed after they were used.
* Web app: pages act on what they read earlier; a refused request is answered
  with `{error}` and throws nothing; answers overtake what the user did next;
  the socket forgets its rooms when it reconnects.

What makes each correct, as properties: the events tell the truth about the
table (`FeedMatchesTable`), an expired post is completed and announced once
(`OverdueIsCompleted`, `AnnouncedAtMostOnce`); a live post is found and a
removed one is not, but for the cases the design accepts (`LivePostIsIndexed`,
`IndexIsCurrent`); a user applies once (`OverlapBoundsDuplicates`,
`AppliedOnce`); a closed post stays closed (`StaysClosed`); an account has one
link that works, which works once (`OneLiveLink`, `LinkIsSpent`); a message
reaches the page in its room once (`ShownOnce`, `MissesOnlyRaces`); a page that
waits goes on (`NothingHangs`, `PagesGoOn`).

## 2. Modules

| module | what it is |
|---|---|
| `PostFeed` | abstract specification: rows other services may read and, per post, the feed of events committed with them |
| `JobPosting` | the JobPostingService in full; implements `PostFeed` |
| `SearchIndex` | the SearchService; composes with the JobPostingService through `PostFeed` |
| `Applying` | the ApplyingService; composes with the JobPostingService through `PostFeed` |
| `Board` | the job board of the Nest backend: posts, applications, reviews, saved posts, calendar, search and images |
| `BoardPages` | the pages of the web app over `Board` |
| `Listings` | the home page with its search, over `BoardPages` |
| `Accounts` | the accounts of the Nest backend: users, tokens, mails, profiles |
| `AccountPages` | the pages of accounts over `Accounts` |
| `Chat` | the chat of the Nest backend: gateway, service and controller |
| `ChatPage` | the chat page over `Chat` |
| `MC...` | instances, scenarios and symmetry sets for TLC |
| `JobPostingProofs`, `SearchIndexProofs`, `ApplyingProofs`, `BoardProofs`, `AccountProofs`, `ChatProofs` | theorems about the modules they are named for |
| `BoardDataProofs` | theorems about what `Board` keeps in the search, the calendar and S3, on `BoardProofs` |
| `PagesProofs` | theorems about `BoardPages` and `Listings`, on both |

### JobPosting

`post` and `saved` are the tables, `bucket` the S3 objects, `feed[id]` the
events that committed transactions put in the outbox for a post, `req` the
requests in flight with what they read, `checker` one scope of
`CheckJobPostFinished.CheckJobPosts` (`work` the items left of the query,
`cur` the item that was saved and not yet published, `staged` the events in the
scope's `DbContext`), `up` whether the host runs. `imaged`, `seeded` and `mixed`
are ghosts: the posts an image endpoint has loaded, the posts `SeedData` inserted,
and the posts whose last update or image write was committed on columns that had
been changed after it read them.

Each handler of `JobPostController` is two actions, as its awaits divide it: the
first reads and checks (`CreateJobPost`, `UpdateJobPost`, `UploadImage`,
`DeleteImageFromJobPost`, `DeleteJobPost`, `SaveJobPost`), the second is its
`SaveChangesAsync`, one transaction (`CommitCreate`, ..., or `CommitFails`).
`Merge` is what Entity Framework's change tracking does with a row that another
request changed meanwhile: only columns this request changed are written. The
image handlers call `Update(entity)`, which writes all of them, so `CommitImage`
writes the whole snapshot. An update or delete that misses its row throws.

The checker is `CheckerQuery`, then per item `CheckerSave` and `CheckerPublish`,
then `CheckerDispose`; `CheckerThrows` is the exception that leaves
`ExecuteAsync` and stops the host. `CheckerSave` also commits the event that the
item before it staged, which is how the bus outbox works.

Title, description, payment, category and location are one column, `content`;
statuses other than `Open` and `Completed` occur nowhere in the code's writes.

### PostFeed

Rows appear with exactly one `Created` event or by seeding, disappear with
exactly one `Deleted` event; `Updated` and `DeadlineReached` may come at any time,
also after the row is gone (`Trail`, `Announce`), and a row may change without an
event (`WriteBack`). That weakness is the code's: a consumer cannot assume more.

### SearchIndex

`doc` is the index, `queue` the messages of the endpoint `job-post-created`,
taken in any order; `parked` the error queue; `sync` the state of
`DbInitializer.InitDb`, one action per call it awaits: the search for the newest
`UpdatedAt` (one that fails counts as an empty index), the HTTP fetch, the bulk
request, and `AddAsync` once more per post.
Timestamps are kept as order: `born[id]` is the posts created after `id`, and
`doc[id].after` the posts created after the document was stamped, which is all
that the comparison `UpdatedAt > date` in `JobPostRepository.GetAllAsync` can
tell, since a row's `UpdatedAt` never changes. `Acknowledge` may leave the message
in the queue: the broker delivers it again. `Restart` forgets the attempts made
and starts `InitDb` anew. `synced` and `redelivered` are ghosts.

### Applying

`copy` is the collection `JobPost`, `app` the collection `JobPostRequest`, `req` the
requests in flight with what they read, `queue` the messages of the service's three
endpoints (no order between them), each with how far its consumer is (`stage`) and
what that consumer read (`copy`, `apps`); `parked` the error queues, where a message
goes at the first exception, since no retry is configured. `stale` and `overtaken`
are ghosts: the applications that were saved while a consumer held an older reading
of them, and the posts a message of which was taken up while an earlier one waited.
Each kind of event has a queue of its own, so a post's events come in any order.

Every await is an action: `Apply` (look for the copy), `AskForPost` (the gRPC call),
`CheckExisting`, `SaveApplication`, `PublishPlaced`; `UpdateRequestStatus`,
`FindRequest`, `SaveStatus`; for the consumers `JobPostCreatedConsumer`, `FindPost`,
`SaveFinished`, `FindApps`, `SaveApps`, `DeleteCopy`. The foreach that changes the
statuses is `Rejecting`, what `SaveApps` will write. `SaveApps` is an unordered
bulk write of which any part may have been done when it throws; whether an empty
one throws depends on the Mongo driver, so both are allowed. A copy's employer is
the constant `Employer[id]`; of a row's columns only the deadline is kept. Deadlines
and the clock are compared as times: the hosts are taken to run in UTC, and what
`ToString` drops of a deadline on its way over gRPC is less than a tick.

### Board

A request is a record in `task`: its kind, what it is about, what it has read
(`row`, `copy`, `found`, `revs`), and in `todo` the awaits it waits for: one, or
the branches of a `Promise.all`, which go on when one of them is rejected
(`archive` has four, the completion of an application three). An action is what
happens between two awaits. The first action of each request (`Create`,
`Archive`, `Update`, ... `Reindex`) does the reads and checks of controller and
service up to the first await that matters; the others are the steps
(`SaveEvent`, `ArchiveRow`, `GetDoc`, `DeleteDoc`, ...). `Reject` is a rejected
await, `PutFails` one of several uploads, `Crash` the end of the process.

TypeORM's two ways to write are kept apart: `Repository.update` writes the
columns of the request (`Write`), `save` writes the entity as it was read and
inserts a row that is gone (`SaveRow`, `SaveApp`). Foreign keys are kept: an
event or a saved post refuses the deletion of its post (`DeleteRow`),
applications cascade, an insert for a missing post is rejected. Titles,
salaries, notes and locations of a post are its revision `rev`; a document is
the revision it was made from.

The ghost `met[p]` is the pairs of kinds of requests for a post that were ever
under way at once. Few things hold here whatever overlaps, since nothing locks;
each property names, with `met`, the overlaps that may break it, and TLC and the
proofs show that nothing else does. `met` also records what does harm without
an overlap: a reindexing, the removal of an image that its post does not name
(`Strays`), and a deadline added to a post that is closed, or that a request holds
as closed (`late`, `held`).

`Begin` lets a request come from anybody the guards of its route let through,
whether or not a page offers it. The application of a post comes from an
employee; the other routes have no check of ownership in the services, so the
employer is one. What a request may ask for is what its DTO admits and not what a
page sends: `Respond` takes every status of an application, and `AddEvent` the type
and the post of the event, so a deadline may be added to any post (`addDeadline`).
The route of the reviews completes an application and looks at no post
(`MarkCompleted`).

### BoardPages and Listings

`tab[t]` is one browser: the page it shows, what that page has read (`apps`,
`posts`, `images`, `events`, `hasApplied`), the dialog, the request it waits for
and the toast. Next.js queues the server actions of a page, so a tab runs one
task of `Board` at a time; that the next one also waits for the request of a page
that was left is a bound. `OpenPage` reads, `Handle...` and `Submit...` are the
buttons, `...Answered` what the page does with the answer. `fetchWrapper`
answers `{error}` when the server refuses, and throws only without a connection
(`Lost`): which pages look at the answer, which refresh their list afterwards
and which fall over a list that is `{error}` differs from page to page, and is
kept.

`reviewed` is the list of reviewed applications in `localStorage`. Opening the
review dialog adds to it; when the applications page is loaded,
`HydrateFromServer` replaces it by what the server answers. The queue of server
actions puts that answer before the list of applications is shown, so both are
one step. A page is opened by the router or by a full load, which does not wait
for the request under way: a review that is not saved yet is not in the answer,
its mark is gone, and the application is recorded in the ghost `left`. An
`{error}` for the list of reviews counts as a fault of opening the page.

`Listings` adds the home page: the parameters of `useParamsStore`, the timer
that debounces their changes, the searches under way in the order of the queue,
and the last answer in `useJobPostStore`. Both stores outlive the page; that a
full load begins them anew is left out, since it leads back to an initial state of
the listing.

### Accounts and AccountPages

`users` and `tokens` are the tables, `mails` the links that were mailed,
`expired` those older than their lifetime. Requests are tasks as in `Board`,
with one step at a time. `SaveUser` writes the account as it was read with the
token, but for its location, a relation that was not loaded; `UpdateUser` writes
columns. `Day` lets all links expire, between requests. `AccountPages` has the forms,
the verification page with its link and its resend button, the session (`me`)
and the profile form, which is filled in once and sends all its fields; a location
chosen earlier stays in its store, and is sent for an account that has none.

### Chat and ChatPage

`convs` and `messages` are the collections, `userSocketMap` and `rooms` the
gateway's memory, `outbox[s]` what a page has emitted and the server not yet
handled, `screen[s]` what the listeners of the page made of what the server
emitted. `task` holds the handlers between their awaits: joining looks the
conversation up, joins the room, reads the history and marks it as read;
sending checks, saves, broadcasts, and then looks at the rooms to notify who is
not in them. `WsJwtGuard` verifies the token again at every packet: once it is
past its day (`expired`), a packet is refused with an `exception`, which the page
does not listen to (`RefusePacket`; the ghost `refused` counts the messages lost
that way), and a connection is not taken in (`ConnectionRefused`). `ChatPage` is the
page: loading, choosing a conversation (leave, then join), typing with its timer,
sending, losing the connection and leaving, the token getting old. `told` and
`raced` are ghosts.

## 3. Runs

| run | instance | what it shows |
|---|---|---|
| `jobposting_interleaved` | 1 post, 2 requests, 1 image, 2 starts | events and table agree; the last event carries the row, unless a commit was made on changed columns; only a stale image write reopens a post; `PostFeed` is implemented |
| `jobposting_batch` | 2 posts expiring together, 1 request, 2 starts, fairness | a deadline is announced at most once; an owed announcement is dropped only at the end of a batch or with the host; an overdue post is completed |
| `jobposting_lost_event` | 1 post | **violated**: a completed post is not announced |
| `search` | 1 post, 2 columns, 2 events, retry, redelivery, 2 restarts, fairness | live posts stay indexed; reordering does not lose an update; what can restore a removed document; every message leaves the queue |
| `applying_overlap` | 1 post, 2 requests, 2 events in any order, 1 restart at any point | a user has at most as many applications as requests overlapped; a deleted post's applications are final |
| `applying_messages` | 1 post, 1 request, 3 events in any order, 1 redelivery | the copy of a post follows its feed unless a message overtook an earlier one; only a stale bulk save undoes a decision |
| `board_requests` | 1 post, 2 applicants, 2 tasks: any 2 of the 17 kinds of requests with a fault, on 5 stores; any 3 of the 7 that write a post, on the 3 of them where a post can be deleted; an archive with an upload, a removed image and an added deadline | search, calendar, applications, saved posts, images and archived posts agree unless the overlaps named by the property happened |
| `board_delete` | create, then delete | **violated**: the post is gone when the request is answered |
| `pages` | an employee's and the employer's tab, 3 or 4 clicks, one request of each kind, up to 4 searches, one fault, fairness | decisions are undone only from stale pages; a review is written once from a browser, unless a full load lost its mark; the success a page tells of is there; deadlines stay in the calendar; the listing shows what was last searched for; no page waits for good |
| `accounts` | 2 emails, 1 name, 2 passwords, 2 tabs, 2 or 3 requests, one fault or one day, fairness | one working link of a kind, mailed and spent once; what is answered is so; nothing is undone, but for the overlaps named; no page waits for good |
| `chat_pages` | 2 pages, 2 conversations, up to 4 acts each, one fault, lost connection, direct request or expired token | messages show once; a page in its room misses only what raced its joining; what is sent is stored, reported or refused by the guard |
| `chat_race` | as above, without upsets | **violated**: one way or the other the other user's page has the message |

`search` and `jobposting_batch` ask their safety and liveness questions at once:
they need the same instance, and fairness does not restrict what is reached.

Bounds, all named constants: `MaxTime` (clock), `MaxFeed` (events per post),
`MaxStarts`/`MaxRestarts`, `MaxImaged`, `MaxDuplicates`, `Retries` (5 in the code)
and `SeedCount` (7 in the code) in the services; `Scenarios`, `Tasks`, `MaxRows`,
`MaxTokens`, `MaxForms` and `HistoryLimit` (50 in the code) in the others. They
are small since the behaviours need little: a lost announcement takes one post
and one tick past its deadline; the interference of two handlers takes two
requests; a batch with an item before the last takes two posts; a late create
takes one created and one deleted event. One retry already has a first and a
last attempt, which is what the code tells apart. `Keys` bounds the applications
of `Applying`: two, as many as its requests may overlap. One applicant is enough
there: applications do not interact, and a bulk save writes each for itself. The
clock of `Applying` has three values, the least that let a post be created with a
deadline ahead, a request compare it and the deadline pass; `applying_messages` has
them, with the third event that the run with two requests has no room for: created,
overdue and deleted, in all orders. `jobposting_batch` has one request slot, as its question
is the two posts of one batch; requests that overlap are in
`jobposting_interleaved`.

A `Scenario` of `Board`, `Accounts` and `Chat` is what is stored at first and
how many requests of each kind, faults and clicks still come. That is a bound
on the length of a run and not on its order: all interleavings of the requests
of a scenario are explored, and `Init` chooses any of them. Two tasks at once
are what every check-then-act of this code takes; the third request of
`board_requests` comes before or after the others and finds what they left, for
what takes three to go wrong (a deletion, a save that puts the post back, an
application to it). One scenario has four: the image of an open post written back
over its archiving, and a deadline added while it is held as closed. One post is
enough for requests that lock nothing and touch only rows of their post, and the
proofs are about any number; an image that the post no longer names stands for
that of another post. Two applicants are needed since completing one application
archives the post of the other. Three stores of `board_requests`
are an open post with applications, with a saved row, and with one accepted
application; one is an archived post, one is empty.

Deadlock is not checked: with the clock, the feed, the requests or the clicks at
their bound, and the host down for the last time, the bounded instance comes to
rest.

Fairness: `FairSpec` of `JobPosting` is weak fairness of the background service
alone, which is one loop on its own thread of control for as long as the host
runs; a database that is away is never owed, an item whose row is gone is;
`OverdueIsCompleted` ends with the host, and no request is assumed to
finish. `FairSpec` of `SearchIndex` is weak fairness of the outbox delivery
(a polling hosted service) and of each message's consumption, since RabbitMQ
hands every message of the queue out and each call returns or throws. In
`BoardPages`, `Listings` and `AccountPages` it is weak fairness, per browser, of
the steps of its request in the server and of what the page does with an answer
or a timer: the event loops of Node.js and of the browser go on. Users are never
obliged to act, and faults never to happen.

### Findings

* The announcement of the last post of every batch is lost
  (`jobposting_lost_event`). `CheckJobPostFinished` calls `SaveChangesAsync` and
  then `Publish`; with the bus outbox the event is only written by a later save of
  the same scope, and the scope ends. The post is `Completed` and is never found
  again, so the search index keeps it and applications stay pending.
* A chat message can reach the other page neither by the room nor by the
  notification (`chat_race`): it is broadcast before the page joins the room,
  the page reads the history before the message is saved, and the look at the
  rooms, after an await, finds the page there.
* A post cannot be deleted while its deadline is in the calendar
  (`board_delete`), and every post gets one when it is created.

### Known behaviours

The properties have to allow these, because the code has them.

.NET services:
* A row of `SavedPosts` may outlive its post: a save may pass the list that a
  deletion loaded, and there is no foreign key.
* A resynchronisation indexes completed posts: the endpoint it reads has no
  status filter. It does not find again the posts whose event was lost.
* Overlapping requests of one user both save an application; one that passed its
  checks before the deadline may be saved after the consumer of
  `JobPostDeadlineReached` rejected the others, and stays pending.
* `JobPostRequestPlaced` is lost when the process stops before it is published.
* A stale image upload reopens a completed post, which is then announced again; a
  late `JobPostCreated` indexes a deleted post; an upload that fails leaves its
  siblings in S3; `DeleteJobPost` removes no image, since it passes URLs as keys.
* Out of order, a `JobPostDeadlineReached` or `JobPostDeleted` that finds no copy is
  parked, and a late `JobPostCreated` makes a copy of a deleted post; an approval
  saved while the deadline consumer holds an older reading is overwritten.

Nest backend:
* Two updates, or an update and the creation, may leave the document of the older
  revision; a reindexing takes archived posts in; a change of images writes the
  whole row and may open an archived or deleted post again (`LostUpdate`,
  `StaysClosed`). An archive that overlaps the creation misses the deadline event.
* `ImagesService.deleteImage` removes any key, whichever post it is asked for: the image
  of another post, which then names an object that is gone.
* Objects stay in S3 when one upload of several fails, when the row cannot be
  saved, and when the post is deleted.
* Completing an application of a post that is archived already is answered with
  an error, since its document is gone (404), with the post saved.
* An event that is added without a post belongs to whichever post `findOne`
  answers for an undefined id, and is refused if there is none.
* The route of the reviews completes an application with its post open and in the
  search (`reviews.service.ts:69-80`). The route of the calendar adds a deadline to
  any post, a closed one included (`calendar.service.ts:20-58`).
* Each change of a location makes a new row; an empty text is not stored; the
  mail that says one hour holds a token of 24; sessions outlive a reset.
* The service answers the oldest messages of a conversation, and the index on
  the participants makes the second of two requests that open it fail.

Web app:
* Archiving is offered for archived posts too, and cancels applications that
  were completed. `"approved"` is not a status, so the button of the details
  page that accepts is always refused; that page then reads a list of all posts'
  applications.
* After a completion that failed, the review is sent all the same
  (`application-response-dialog.tsx:55`). An application is marked as reviewed
  when the dialog opens, whether or not it is sent.
* The marks of reviewed applications are replaced by the server's list when the
  applications page is loaded (`useAlreadyReviewedStore.ts:41-47`): a full load
  while a review is on its way brings its button back, and the application can be
  reviewed again. The marks are those of a browser, so another browser can as well.
* A list that is `{error}` breaks the applications page. A review, an event and
  the removal of an event or an image count as done when they were refused.
* An edited post and a saved post are sent to paths that no route answers, an
  image is removed under a path with two slashes.
* Editing an event creates another; a new one is shown to the employer of the
  post only, though every user is told it was added.
* After an answer that was lost the first listing loads until the parameters
  change; after one that was refused it says that there are no posts.
* A phone number is never sent, though the profile is reported as saved. Nobody
  is led to the verification page by a login (`login-form.tsx:59` waits for an
  error text that never comes). The verification page keeps its spinner after an
  error.
* A socket that reconnects is in no room until a conversation is chosen.
* When the token has expired, messages, joins and typing are dropped and the page
  is not told; a socket that loses its connection then is not taken in again.

## 4. Proofs

`tlapm` checks every leaf; the assumptions are those the modules name
(`BoundsAssumption`, `NoRowAssumption`, `BoardAssumption`, `AccountsAssumption`,
`PagesAssumption`, `ChatAssumption`, `IdleAssumption`, `ChatPageAssumption` and the
like: bounds are naturals, the markers for "nothing" are no values, the stores a run
starts from have their types). Sets of posts, users, requests, handlers and messages
may be infinite unless a theorem or `PagesAssumption` (finitely many tabs) says otherwise. TLC checked each inductive invariant on
an instance of the runs before it was proved. A type invariant that is proved needs
no run; those of `ChatPage` and `Listings` are also checked.

JobPostingService:

* `TypeCorrect`: `Spec => []TypeOK`, action by action; `RequestTypes` gives the
  types of what each handler keeps.
* `OutboxIsTransactional`: `Spec => []FeedMatchesTable`. Alone it is not inductive:
  a creation in flight must have an id that nothing else has, and other requests
  and the checker must be about posts that were there. `FeedInv` adds these
  (`CreatesAreFresh`, `RequestsAreKnown`, `CheckerIsKnown`). `FeedStep` states the
  four ways in which a transaction may change a row and its feed, and shows that
  they keep the two in agreement; each commit is one of them.
* `ServiceImplementsPostFeed`: `Spec => ImplementsPostFeed`, with the rows mapped to
  their public columns, from `FeedInv`.
* `AtMostOneAnnouncement`: `Spec => []AnnouncedAtMostOnce`, through `AnnounceInv`:
  between the save and the commit of its event a post is owed an announcement by
  the checker, is completed, and is in no batch; an update keeps the status it read;
  nobody holds a snapshot to write back.
* `LosesOnlyTheLast`: the action property `OnlyLastOfBatchIsLost`, from `OneAtATime`: while
  an item is saved and not yet published, nothing is staged.
* `OnlySnapshotsReopen`: the action property `OnlyStaleImageWriteReopens`, from `FeedInv`
  (a creation or a seed never meets a row) and `EditsKeepStatus`.
* `EventsMatchRows`: `Spec => []LatestEventMatchesRow`, with any number of requests in
  flight. An update publishes the columns it read and a merge keeps those it did not
  change, so event and row part only when the commit meets columns that another
  request changed: then the post is in `mixed` until the next commit that read the
  row as it is. `LatestInv` adds to `FeedInv` and the property that an image handler
  keeps the columns it read (`ImagesKeepColumns`); `Carried` lists what a step may do to
  a row, its feed and `mixed`.

SearchService:

* `SearchTypeCorrect`: `Spec => []TypeOK` of `SearchIndex`, through `SearchInv`: every
  message points at an event of its post's feed, and every row to write was fetched.
* `LivePostsStayIndexed`: `Spec => []LivePostIsIndexed`. An applied `Created` event
  leaves a document; the only steps that remove it are the consumers of `Deleted` and
  `DeadlineReached`, and `SearchInv` says that a live post has no `Deleted` event.
* `UpdatesSurvive`: `Spec => []UpdateSurvivesReordering`, through `UpdateInv`: a
  creation is the first event of its post and has no second, each event waits at most
  once unless it was redelivered, what a resynchronisation fetched counts as synced,
  and before a creation is applied nothing is written. So the columns of the one
  update are either still on their way or in the document (`LastUpdate`).
* `RestoredByLateMessages`: the action property `OnlyLateCreateOrResyncRestores`.

ApplyingService:

* `ApplyTypeCorrect`: `Spec => []TypeOK` of `Applying`, through `ApplyInv`: a message in
  the queue stands for a relayed event, a deadline message that found its post holds a
  copy, and every application a consumer or a request is about to write exists.
* `OverlapBounds`: `Spec => []OverlapBoundsDuplicates`, for a finite set of request slots
  and nothing else bounded. `Bounded` lists what a step may do to the applications and
  the saving requests of one user and one post: nothing new, a request passing the check
  when there is no application, or a saving request becoming an application. With one
  slot this is that nobody applies twice.
* `DecisionsAreRespected`: the action property `ConsumersRespectDecisions`, through
  `HoldInv`: what a consumer holds of an application that no request saved meanwhile
  is what it decided from the stored one, so a bulk save overwrites only the
  applications in the ghost `stale`.
* `DeletedStaySealed`: the action property `SealedForGood`. `LifeOK` says which events
  a feed may have after which, so a post whose deletion was relayed is not created again
  and no consumer holds an application of it.
* `CopiesFollowTheFeed`: `Spec => []CopyFollowsFeed`, with messages in any order. The
  property is about the posts of which no message overtook an earlier one and none is
  parked; of the others it says nothing, as the code does them harm (see Known
  behaviours). `CopyInv` compares the copy with the events before the earliest message
  that waits (`FirstMessage`, `Copied`): what that consumer has done so far is done, and
  all later messages are still in the queue, untouched (`AllQueued`).

`BoardProofs` is about any posts, users, stores, requests and faults, with any
number of requests at once. Its inductive invariant is `BoardInv`:

* `Sound` says which steps a request of each kind can wait for and what it has
  read by then. Every step of a task is a `Continue`; `ContinueKeeps` proves once
  that going on keeps a sound task sound, and `StepMoves` reduces all steps to
  what the rest needs to know of them (`Moved`): a request that goes on has the
  kind, post, user, application and copy it had. `BoardTypes` (`BoardSpec =>
  []TypeOK`) follows.
* `Meets`: requests for one post that are under way at once are in `met`. With it,
  "something overlapped" is a fact about now and not about the past.
* `SavedInv`: a toggle that waits to add a row although there is one has met
  another toggle. It gives `SavedOnlyOnce`.
* `ReturnedInv`: a deleted post that exists again, or that a request still holds
  a row of, met a deletion together with a request that saves whole rows.
* `AnswersInv`: the application that an answer is about is the one that was read,
  while it exists, and an id is given once; so a save puts back an application
  only of a post that was deleted. With `ReturnedInv`, `AppliedInv` follows, and
  `AppliedOnlyOnce`.
* `ClosedInv`: the image of a post that an upload holds is stale, open or closed,
  only if it met a request that closes the post. It gives
  `ClosedPostsStayClosed`, the action property `StaysClosed`. `PostChange` lists
  what a step may do to a post: nothing, create, archive, remove or put back.

`BoardDataProofs` goes on from `BoardInv` to what is kept twice: a post and its document,
its deadline, its images. The stores a run starts from are assumed to agree
(`Consistent`, which TLC evaluates on every scenario). `TaskMoves` reduces all steps
to one task that does one of its awaits (`Goes`) or begins or ends, and `RowMoves`,
`IndexMoves`, `EventMoves` and `BucketMoves` list what that await may do to the row, the
document, the events and the objects, so the invariants are not proved action by action.

* `CompletedAreClosed`: `BoardSpec => ClosedBeforeCompleted`, with rejected awaits and
  stops. It is an action property: any step that makes an application completed finds
  its post archived and out of the search, but for the overlaps it names and the step of
  the reviews' route (`MarkCompleted`). `ClosingInv` says in which order `archive` and the completion do their awaits
  (`OrderInv`), what a completion knows when it saves the application (`CompleteInv`), and
  that nobody else writes the row or the document of a post that met no other writer
  (`KnownInv`, `BulkInv`, `ImageInv`, `EmployerInv`, `CreateInv`, `RevInv`).
* `SearchIsCurrent`: `BoardSpec => []IndexIsCurrent`. `IndexInv`: the document of a post
  that is gone or archived is gone or a request is about to remove it (`Gone`); a live
  post has the document of its revision, or the one request that is to write it (`Follows`)
  holds what it will write (`Ready`).
* `DeadlinesGo`: `BoardSpec => []DeadlineGoesWithPost`. `DeadlineInv`: a deadline of a closed
  post is among those a closing request found and has still to remove (`Clears`), or it
  was on its way at the closing, of the creation or of a request that adds one, or was
  added to the closed post; `met` has the last two (`Late`, `Barred`).
* `ImagesAreStored`: `BoardSpec => []PhotosAreStored`, for any number of posts. `PhotoInv`
  says what requests for images have read, uploaded and removed so far (`Orderly`,
  `Edits`), and that no two posts name one object; `StrayInv` that a request which removes
  an image its post does not name is recorded in `met`, which the property excuses: such
  a request may take the object of another post.

`PagesProofs` puts the pages and the search around the board, for any tabs and users.

* `BoardHoldsUnderPages`: the properties of the board above, but for the images, hold of
  `ListingsSpec`; `ClosedBeforeCompleted` is among them as an action property.
  A page asks the board for what `Request` asks (`AsksRequest`), which needs that it shows
  what its buttons send (`Fit`, `TabsOK`); or it is refused, which no request under way
  can tell (`Unseen`). So each step is one of the board or leaves its invariants alone.
* `PagesMoveApplications`: the action property `OnlyStalePagesUndo`. `BusyInv` says what a
  tab shows while a request of its own runs and was not lost: what it was sent from. So a
  save that is no intended move (`SavesIntended`) is of a tab that shows another status.
* `PagesKeepDeadlines`: the action property `DeadlineIsKept`. The calendar page asks to
  remove custom events only, and a tab holds the events it was shown.
* `ListingShowsLatest`: `ListingsSpec => []ShownIsLatest`. `ListInv`: of the searches under
  way only those of this visit count, they answer in their order, and the last one sent
  was for the parameters on the screen, or a timer runs (`Latest`).
* `ListingTypes`: the types of pages, browsers and listings.
* `SuccessesAreTrue`: the action property `SuccessIsTrue`. `WaitInv`: a page that waits
  for the answer to an application, a deletion or an upload tells of no success, and while
  its request did not fail the request is the one it sent and has done what its last step
  finds done (`Earns`). What was done stays (`Applied`, `Named`, `deleted`) whatever the
  other requests do, and only an answer of a request that ended turns a page to success
  (`ToldByAnswer`, `ToldOfSuccess`). It needs `None` not to be one of the toasts.
* `ReviewsAreSingle`: `ListingsSpec => []ReviewedOnce`, for any number of browsers of an
  employee: an application has at most as many reviews of its applicant as browsers of
  his have marked it, unless there was a fault or a full load lost the mark (`left`).
  `ReviewingInv`: a review on its way is saved in one step, for a page that waits for it or
  was left. `OnceInv`: an application is untouched, or it is the user's who sees it and
  stays his when it is deleted and put back (`Own`, `Owned`, `Seen`). Then a browser that
  is about to review it (`Due`) has marked it, and there are at most as many reviews as
  browsers that have marked it and are not about to review (`Marked`, `Counted`).
  `DueMoves` says which steps make a browser due, `CountedStep` that a saved review takes
  one out. TLC checked both invariants before they were proved.

`AccountProofs` is about the forms and the backend together, for any emails, names,
passwords, tabs, requests and faults. `Did` reduces the steps to eight by what they
write (`Inserted`, `Deleted`, `Saved`, `Mailed`, `Stored`, `Removed`, `Filled`,
`Rested`), so each invariant is proved over eight cases. `AccountInv` has these parts:

* `TypeInv`, which says as well that a link's account exists and that a session
  belongs to a login that was answered (`AccountTypes`).
* `MetInv`: requests for one account that are under way at once are in `met`.
* `IdsInv` and `FollowInv`: an id is one link, also before it is mailed, and who
  follows a link was mailed it. They make "the link" a fact about its id.
* `SpentInv`: without a fault a used link is gone or its request is about to remove it;
  this is `LinksAreSpent`, but for two requests with one link at once.
* `ResendInv`: who asks for another link comes from the page of an account that is
  signed up, since otherwise a resend could overlap the creation it needs.
* `LiveInv`: who saves a link found none, unless two make one each (`LinksAreSingle`).
* `HopeInv`: without faults an account that is not verified has a link that was mailed
  or a request that will mail one, or waits to save it (`LinksWork`).
* `StaleInv` and `DoneInv`: what a request read is what is stored, and what it wrote is
  still stored, unless it met a request that writes that. They give the action
  properties `OnlyOverlapsUndo` (`UndoneByOverlaps`) and `AnswersAreTrue` (`AnswersHold`).

`ChatProofs` is about the page and the gateway together, for any users, conversations,
sockets, handlers and `HistoryLimit`. `TaskFate` and `TaskNextStep` say what may become of
a handler in a step, `Minor` collects the steps of a page that touch no packet of
interest. The messages of a history are chosen by their rank and not by recursion,
so that the proofs can reason about them (`Rank`, `History`). `ChatInv` has these parts:

* `TypeInv` (`ChatTypes`) and `CalmInv`, which says what cannot have happened while no
  fault, request or lost connection has.
* `ShownOnce` itself is inductive with the types (`MessagesShownOnce`).
* `JoinInv`: for the conversation on the screen the join packet is on its way, with no
  leave packet for it behind, or a handler is about to join, or the socket is in the
  room, or its token has expired (`ScreenIsJoined`).
* `SentInv`: what a page has sent is what it still has to hand over, what handlers are
  about to save, what is stored, and what the guard refused after the token expired,
  unless it shows an error. The four are counted, so a message is neither lost otherwise
  nor stored twice (`NothingIsDropped`). `TokensOK` says that nothing is refused before.
* `HistoryInv`: what the history of a joining handler lacks, of the messages it has
  room for, is not told yet, or raced it.
* `RoomInv`: in a room, what was told is shown, raced, or will be shown when the handler
  that joined sends its history (`OnlyRacesAreMissed`).

Only model-checked: the liveness properties (`OverdueIsCompleted`, `QueueDrains`,
`NothingHangs`, `PagesGoOn`), which are out of the prover's reach.

## 5. Not modelled

* NotificationService: a map of connections in memory and two consumers that send
  to it; the `SignalRProvider` of the web app is used by no page.
* IdentityService and GatewayService (library templates), guards, middleware and
  configuration of the Nest backend (stateless).
* The saved posts page (its requests go to a path of no route), pages that only
  show what they read (profile, map), rendering, wording and layout.
* Of the chat: `deleteConversationForUser`, which nothing calls, the `userStatus`
  broadcast, which nobody listens to, and the order of the list of conversations.
* Reads of the backend that change no state appear as the reads of the actions
  and pages that use them.
