------------------------------ MODULE BoardProofs ------------------------------
(***************************************************************************)
(* Proofs about Board, for any posts, applicants, requests and faults.     *)
(* A request that waits is known by its kind: Sound says which steps each  *)
(* kind takes, and what it has read by then.  Its row and its copy of an   *)
(* application may be stale; the parts of BoardInv say how stale, and      *)
(* which requests must have met for it.                                    *)
(***************************************************************************)
EXTENDS Board, TLAPS

Writers == Images \cup {"complete"}                                   \* of whole rows
Answers == {"respond", "complete", "withdraw", "markCompleted"}       \* to an application

\* A request that is under way takes the steps of its kind, with what it needs.
Sound(r) ==
    /\ r.todo # {} /\ r.kind # "reindex" => r.post \in Posts
    /\ r.kind = "reindex" => r.todo \subseteq {"bulk"}
    /\ r.todo # {} =>
        /\ r.kind \in Writers => r.row \in Row
        /\ r.kind = "complete" => r.row.archived = TRUE
        /\ r.kind \in Answers => r.app \in Ids /\ r.copy \in App /\ r.copy.post = r.post
        /\ r.kind \in {"respond", "withdraw"} => r.copy.status # "completed"
        /\ r.kind = "review" => r.app \in Ids /\ r.user \in {"applicant", "employer"}
        /\ r.kind \in {"toggleSave", "apply"} => r.user \in Applicants
    /\ \A s \in {"index", "updateDoc"} : s \in r.todo => r.row \in Row /\ r.kind \in {"create", "update"}
    /\ "reload" \in r.todo => r.kind \in {"create", "update"}
    /\ \A s \in {"findSaved", "addSaved", "removeSaved"} : s \in r.todo => r.kind = "toggleSave"
    /\ \A s \in {"findExisting", "saveNew"} : s \in r.todo => r.kind = "apply"
    /\ \A s \in {"archiveRow", "cancelApps"} : s \in r.todo => r.kind = "archive"
    /\ "deleteRow" \in r.todo => r.kind = "delete"
    /\ "write" \in r.todo => r.kind = "update"
    /\ "saveReview" \in r.todo => r.kind = "review"
    /\ "saveApp" \in r.todo => r.kind \in Answers
    /\ "saveRow" \in r.todo => r.kind \in Writers
    /\ "put" \in r.todo => r.kind = "upload"
    /\ "deleteObject" \in r.todo => r.kind = "deleteImage"

TasksOK ==
    /\ task \in [Tasks -> Task \cup {None}]
    /\ \A t \in Tasks : task[t] # None => Sound(task[t])

DataOK ==
    /\ posts \in [Posts -> Row \cup {None}] /\ deleted \subseteq Posts \cup Ids
    /\ apps \in [Ids -> App \cup {None}] /\ events \subseteq Event /\ saved \subseteq Saved
    /\ reviews \in [Ids -> [applicant : Nat, employer : Nat]]
    /\ index \in [Posts -> Nat] /\ bucket \subseteq Keys
CallsOK == calls \in [Kinds \cup Bounds -> Nat] /\ faults \in Nat
MetOK == met \in [Posts -> SUBSET (Kinds \X Kinds)]
TypeInv == TasksOK /\ DataOK /\ CallsOK /\ MetOK

LEMMA TypeInvIsTypeOK == TypeInv => TypeOK
  BY DEF TypeInv, TasksOK, DataOK, CallsOK, MetOK, TypeOK

LEMMA NoneIsNone ==
    /\ \A x \in Task : x # None
    /\ \A x \in Row : x # None
    /\ \A x \in App : x # None
    /\ \A x \in Ids : x # None
    /\ \A x \in Posts : x # None /\ x \notin Ids
  BY BoardAssumption

-------------------------------------------------------------------------------
(* A step of a task. *)

\* What a step of task t may do to the tasks: t has done `step' and may go on
\* with `new', the others are as they were.
Onward(t, step, new) ==
    \A u \in Tasks : Running(u)' =>
        /\ Running(u)
        /\ task'[u].kind = task[u].kind /\ task'[u].post = task[u].post
        /\ task'[u].user = task[u].user /\ task'[u].app = task[u].app /\ task'[u].copy = task[u].copy
        /\ task[u].kind \in Writers => task'[u].row.archived = task[u].row.archived
        /\ task'[u].todo \subseteq IF u = t THEN (task[u].todo \ {step}) \cup new ELSE task[u].todo

\* The record a step leaves differs from the one it found in nothing that Sound speaks of.
Like(r, s) == /\ r.kind = s.kind /\ r.post = s.post /\ r.user = s.user /\ r.app = s.app /\ r.copy = s.copy
              /\ r.row = s.row \/ r.row \in Row
              /\ s.kind \in Writers => r.row.archived = s.row.archived

LEMMA AtTask ==
    ASSUME TasksOK, NEW t \in Tasks, NEW step, At(t, step)
    PROVE  task[t] \in Task /\ Sound(task[t]) /\ Running(t) /\ task[t].todo # {}
  BY DEF TasksOK, At, Running

LEMMA ContinueKeeps ==
    ASSUME TasksOK, NEW t \in Tasks, NEW step, NEW new \in SUBSET Steps, NEW rec \in Task,
           At(t, step), Continue(t, step, new, rec), Like(rec, task[t]),
           Sound([rec EXCEPT !.todo = Rest(t, step) \cup new])
    PROVE  TasksOK' /\ Onward(t, step, new)
  <1> DEFINE todo == Rest(t, step) \cup new
             after == [rec EXCEPT !.todo = todo]
             done == Answered(rec.kind, rec.post, rec.failed)
  <1>1. task[t] \in Task
    BY AtTask
  <1>2. todo \subseteq Steps
    BY <1>1 DEF Rest, Task
  <1>3. after \in Task /\ after.todo = todo /\ Like(after, task[t])
    BY <1>2 DEF Task, Like
  <1>4. done \in Task /\ done.todo = {} /\ Sound(done)
    <2>1. done \in Task
      BY DEF Answered, Fresh, Task
    <2>2. /\ done.todo = {}
          /\ \A s : s \notin done.todo
      BY DEF Answered, Fresh
    <2> HIDE DEF done
    <2> QED BY <2>1, <2>2 DEF Sound
  <1>5. task' = [task EXCEPT ![t] = IF todo = {} THEN done ELSE after]
    BY DEF Continue
  <1> HIDE DEF todo, after, done
  <1>6. task'[t] = (IF todo = {} THEN done ELSE after) /\ \A u \in Tasks \ {t} : task'[u] = task[u]
    BY <1>5 DEF TasksOK
  <1>7. TasksOK'
    <2>1. task' \in [Tasks -> Task \cup {None}]
      BY <1>3, <1>4, <1>5 DEF TasksOK
    <2>2. Sound(task'[t])
      BY <1>4, <1>6 DEF after, todo
    <2>3. \A u \in Tasks : task'[u] # None => Sound(task'[u])
      BY <1>6, <2>2 DEF TasksOK
    <2>4. \A u \in Tasks : Sound(task'[u]) <=> Sound(task[u])'
      BY DEF Sound
    <2> QED BY <2>1, <2>3, <2>4 DEF TasksOK
  <1>8. Onward(t, step, new)
    <2> SUFFICES ASSUME NEW u \in Tasks, Running(u)'
                 PROVE  /\ Running(u)
                        /\ task'[u].kind = task[u].kind /\ task'[u].post = task[u].post
                        /\ task'[u].user = task[u].user /\ task'[u].app = task[u].app
                        /\ task'[u].copy = task[u].copy
                        /\ task[u].kind \in Writers => task'[u].row.archived = task[u].row.archived
                        /\ task'[u].todo \subseteq IF u = t THEN (task[u].todo \ {step}) \cup new
                                                  ELSE task[u].todo
      BY DEF Onward
    <2>1. CASE u # t
      BY <1>6, <2>1 DEF Running
    <2>2. CASE u = t
      <3>1. task'[t] = after
        BY <1>4, <1>6, <2>2 DEF Running
      <3> QED BY <1>3, <2>2, <3>1, AtTask DEF Like, todo, Rest
    <2> QED BY <2>1, <2>2
  <1> QED BY <1>7, <1>8

\* Then, Done, Rejected and AllDone leave the record but for `todo' and `failed'.
LEMMA ThenKeeps ==
    ASSUME TasksOK, NEW t \in Tasks, NEW step, NEW new \in SUBSET Steps, At(t, step),
           Then(t, step, new), Sound([task[t] EXCEPT !.todo = Rest(t, step) \cup new])
    PROVE  TasksOK' /\ Onward(t, step, new)
  <1>1. task[t] \in Task /\ Like(task[t], task[t])
    BY AtTask DEF Like, Sound
  <1> QED BY <1>1, ContinueKeeps DEF Then

LEMMA RestIsSound ==
    ASSUME TasksOK, NEW t \in Tasks, NEW step, At(t, step)
    PROVE  Sound([task[t] EXCEPT !.todo = Rest(t, step)])
  <1> DEFINE r == task[t]
             s == [r EXCEPT !.todo = Rest(t, step)]
  <1>1. r \in Task /\ Sound(r) /\ r.todo # {}
    BY AtTask
  <1>2. Rest(t, step) \subseteq r.todo
    BY DEF Rest
  <1> HIDE DEF r
  <1>3. /\ s.kind = r.kind /\ s.post = r.post /\ s.user = r.user /\ s.app = r.app
        /\ s.copy = r.copy /\ s.row = r.row /\ s.todo = Rest(t, step)
    BY <1>1 DEF Task
  <1> HIDE DEF s
  <1>4. Sound(s)
    BY <1>1, <1>2, <1>3 DEF Sound
  <1> QED BY <1>4 DEF s, r

LEMMA DoneKeeps ==
    ASSUME TasksOK, NEW t \in Tasks, NEW step, At(t, step), Done(t, step)
    PROVE  TasksOK' /\ Onward(t, step, {})
  <1>1. Rest(t, step) \cup {} = Rest(t, step)
    OBVIOUS
  <1> QED BY <1>1, RestIsSound, ThenKeeps DEF Done

LEMMA RejectedKeeps ==
    ASSUME TasksOK, NEW t \in Tasks, NEW step, At(t, step), Rejected(t, step)
    PROVE  TasksOK' /\ Onward(t, step, {})
  <1> DEFINE rec == [task[t] EXCEPT !.failed = TRUE]
  <1>1. rec \in Task /\ Like(rec, task[t])
    <2>1. task[t] \in Task
      BY AtTask
    <2>2. rec \in Task
      BY <2>1 DEF Task
    <2>3. /\ rec.kind = task[t].kind /\ rec.post = task[t].post /\ rec.user = task[t].user
          /\ rec.app = task[t].app /\ rec.copy = task[t].copy /\ rec.row = task[t].row
      BY <2>1 DEF Task
    <2> QED BY <2>2, <2>3 DEF Like
  <1>2. Sound([rec EXCEPT !.todo = Rest(t, step) \cup {}])
    <2> DEFINE r == [task[t] EXCEPT !.todo = Rest(t, step)]
               s == [rec EXCEPT !.todo = Rest(t, step) \cup {}]
    <2>1. Sound(r)
      BY RestIsSound
    <2>2. /\ s.kind = r.kind /\ s.post = r.post /\ s.user = r.user /\ s.app = r.app
          /\ s.copy = r.copy /\ s.row = r.row /\ s.todo = r.todo
      BY AtTask DEF Task
    <2> HIDE DEF r, s
    <2>3. Sound(s)
      BY <2>1, <2>2 DEF Sound
    <2> QED BY <2>3 DEF s
  <1>3. Continue(t, step, {}, rec)
    BY DEF Rejected
  <1> HIDE DEF rec
  <1> QED BY <1>1, <1>2, <1>3, ContinueKeeps

LEMMA AllDoneKeeps ==
    ASSUME TasksOK, NEW t \in Tasks, NEW step, At(t, step), AllDone(t, step)
    PROVE  TasksOK' /\ \E new \in {{}, {"saveApp"}} : Onward(t, step, new)
  <1>1. CASE task[t].kind = "complete" /\ Rest(t, step) = {} /\ ~task[t].failed
    <2>1. Then(t, step, {"saveApp"})
      BY <1>1 DEF AllDone
    <2>2. Sound([task[t] EXCEPT !.todo = Rest(t, step) \cup {"saveApp"}])
      BY <1>1, AtTask DEF Sound, Task, Answers
    <2>3. {"saveApp"} \in SUBSET Steps
      BY DEF Steps
    <2> QED BY <2>1, <2>2, <2>3, ThenKeeps
  <1>2. CASE ~(task[t].kind = "complete" /\ Rest(t, step) = {} /\ ~task[t].failed)
    <2>1. Done(t, step)
      BY <1>2 DEF AllDone, Done
    <2> QED BY <2>1, DoneKeeps
  <1> QED BY <1>1, <1>2

\* A step of task t, as far as the other parts of the invariant have to know it.
Moved(t) ==
    /\ TasksOK'
    /\ \E step \in Steps, new \in SUBSET Steps :
          /\ At(t, step) /\ Onward(t, step, new)
          /\ "addSaved" \in new => FindSaved(t)
          /\ "saveNew" \in new => FindExisting(t)

LEMMA DoneMoves ==
    ASSUME TasksOK, NEW t \in Tasks, NEW step \in Steps, At(t, step),
           Done(t, step) \/ Rejected(t, step) \/ AllDone(t, step)
    PROVE  Moved(t)
  <1>1. TasksOK' /\ \E new \in {{}, {"saveApp"}} : Onward(t, step, new)
    BY DoneKeeps, RejectedKeeps, AllDoneKeeps
  <1>2. \A new \in {{}, {"saveApp"}} : new \in SUBSET Steps /\ "addSaved" \notin new /\ "saveNew" \notin new
    BY DEF Steps
  <1> QED BY <1>1, <1>2 DEF Moved

\* A step that goes on with one other, and leaves what was read as it was.
LEMMA ThenMoves ==
    ASSUME TasksOK, NEW t \in Tasks, NEW step \in Steps, NEW next \in Steps, At(t, step),
           Then(t, step, {next}),
           Sound([task[t] EXCEPT !.todo = Rest(t, step) \cup {next}]),
           next = "addSaved" => FindSaved(t), next = "saveNew" => FindExisting(t)
    PROVE  Moved(t)
  <1>1. {next} \in SUBSET Steps
    OBVIOUS
  <1>2. TasksOK' /\ Onward(t, step, {next})
    BY <1>1, ThenKeeps
  <1> QED BY <1>1, <1>2 DEF Moved

LEMMA ContinueMoves ==
    ASSUME TasksOK, NEW t \in Tasks, NEW step \in Steps, NEW next \in Steps, At(t, step),
           NEW rec \in Task, Like(rec, task[t]), Continue(t, step, {next}, rec),
           Sound([rec EXCEPT !.todo = Rest(t, step) \cup {next}]),
           next # "addSaved", next # "saveNew"
    PROVE  Moved(t)
  <1>1. {next} \in SUBSET Steps
    OBVIOUS
  <1>2. TasksOK' /\ Onward(t, step, {next})
    BY <1>1, ContinueKeeps
  <1> QED BY <1>1, <1>2 DEF Moved

\* The steps that are the last of their branch.
LEMMA LastMoves ==
    ASSUME TypeInv, NEW t \in Tasks,
           \/ IndexJobPost(t) \/ ArchiveRow(t) \/ DeleteDoc(t) \/ RemoveEvents(t) \/ CancelApps(t)
           \/ UpdateDoc(t) \/ AddSaved(t) \/ RemoveSaved(t) \/ SaveNew(t) \/ SaveApp(t) \/ SaveRow(t)
           \/ SaveReview(t) \/ PutFails(t) \/ Bulk(t) \/ Reject(t)
    PROVE  Moved(t)
  <1>1. \E step \in Steps : At(t, step) /\ (Done(t, step) \/ Rejected(t, step) \/ AllDone(t, step))
    <2>1. CASE Reject(t)
      <3>1. PICK step \in task[t].todo \ {"put"} : Rejected(t, step)
        BY <2>1 DEF Reject
      <3>2. At(t, step) /\ step \in Steps
        BY <2>1, <3>1, NoneIsNone DEF Reject, At, TypeInv, TasksOK, Task
      <3> QED BY <3>1, <3>2
    <2>2. CASE ~Reject(t)
      BY <2>2 DEF IndexJobPost, ArchiveRow, DeleteDoc, RemoveEvents, CancelApps, UpdateDoc, AddSaved,
                  RemoveSaved, SaveNew, SaveApp, SaveRow, SaveReview, PutFails, Bulk, Steps
    <2> QED BY <2>1, <2>2
  <1> QED BY <1>1, DoneMoves DEF TypeInv

\* What is sound of a task with its rest is sound with one more step, if that is.
LEMMA OneMore ==
    ASSUME TasksOK, NEW t \in Tasks, NEW step, At(t, step), NEW next \in Steps, NEW rec \in Task,
           Like(rec, task[t]),
           task[t].kind # "reindex", Sound([rec EXCEPT !.todo = {next}])
    PROVE  Sound([rec EXCEPT !.todo = Rest(t, step) \cup {next}])
  <1> DEFINE r == task[t]
             one == [rec EXCEPT !.todo = {next}]
             s == [rec EXCEPT !.todo = Rest(t, step) \cup {next}]
  <1>1. r \in Task /\ Sound(r) /\ r.todo # {}
    BY AtTask
  <1>2. Rest(t, step) \subseteq r.todo
    BY DEF Rest
  <1>3. /\ one.kind = rec.kind /\ one.post = rec.post /\ one.user = rec.user /\ one.app = rec.app
        /\ one.copy = rec.copy /\ one.row = rec.row /\ one.todo = {next}
    BY DEF Task
  <1>4. /\ s.kind = rec.kind /\ s.post = rec.post /\ s.user = rec.user /\ s.app = rec.app
        /\ s.copy = rec.copy /\ s.row = rec.row /\ s.todo = Rest(t, step) \cup {next}
    BY DEF Task
  <1> HIDE DEF r, one, s
  <1>5. /\ rec.kind = r.kind /\ rec.post = r.post /\ rec.user = r.user /\ rec.app = r.app
        /\ rec.copy = r.copy /\ r.kind \in Writers => rec.row.archived = r.row.archived
        /\ rec.row = r.row \/ rec.row \in Row
        /\ r.kind # "reindex"
    BY DEF Like, r
  <1>6. Sound(s)
    BY <1>1, <1>2, <1>3, <1>4, <1>5 DEF Sound
  <1> QED BY <1>6 DEF s

\* The steps after which the task goes on as it is.
LEMMA PlainMoves ==
    ASSUME TypeInv, NEW t \in Tasks, NEW step \in Steps, NEW next \in Steps, At(t, step),
           Then(t, step, {next}), task[t].kind # "reindex",
           Sound([task[t] EXCEPT !.todo = {next}]),
           next = "addSaved" => FindSaved(t), next = "saveNew" => FindExisting(t)
    PROVE  Moved(t)
  <1>1. task[t] \in Task /\ Like(task[t], task[t])
    BY AtTask DEF Like, TypeInv
  <1> QED BY <1>1, OneMore, ThenMoves DEF TypeInv

\* A step alone is sound when the request is of a kind that takes it.
LEMMA StepIsSound ==
    ASSUME TasksOK, NEW t \in Tasks, NEW step, At(t, step), NEW next \in Steps,
           \/ next \in {"saveEvent", "removeEvents", "get", "del"}
           \/ next = "reload" /\ task[t].kind \in {"create", "update"}
           \/ next \in {"addSaved", "removeSaved"} /\ task[t].kind = "toggleSave"
           \/ next = "saveNew" /\ task[t].kind = "apply",
           task[t].kind # "reindex"
    PROVE  Sound([task[t] EXCEPT !.todo = {next}])
  <1> DEFINE r == task[t]
             s == [r EXCEPT !.todo = {next}]
  <1>1. r \in Task /\ Sound(r) /\ r.todo # {}
    BY AtTask
  <1>2. /\ s.kind = r.kind /\ s.post = r.post /\ s.user = r.user /\ s.app = r.app
        /\ s.copy = r.copy /\ s.row = r.row /\ s.todo = {next}
    BY <1>1 DEF Task
  <1>3. r.kind = task[t].kind
    OBVIOUS
  <1> HIDE DEF r, s
  <1>4. Sound(s)
    BY <1>1, <1>2, <1>3 DEF Sound
  <1> QED BY <1>4 DEF s, r

\* Only a reindexing does bulk, and it does nothing else.
LEMMA NotReindex ==
    ASSUME TasksOK, NEW t \in Tasks, NEW step \in Steps \ {"bulk"}, At(t, step)
    PROVE  task[t].kind # "reindex" /\ Post(t) \in Posts
  BY AtTask DEF Sound, At, Post

LEMMA ChainMoves ==
    ASSUME TypeInv, NEW t \in Tasks,
           \/ FindPost(t) \/ SaveEvent(t) \/ GetDoc(t) \/ Write(t) \/ DeleteRow(t) \/ FindExisting(t)
    PROVE  Moved(t)
  <1> USE DEF TypeInv
  <1>1. CASE FindPost(t)
    <2>1. At(t, "findPost") /\ "findPost" \in Steps /\ "saveEvent" \in Steps
      BY <1>1 DEF FindPost, Steps
    <2>2. Sound([task[t] EXCEPT !.todo = {"saveEvent"}]) /\ task[t].kind # "reindex"
      BY <2>1, NotReindex, StepIsSound
    <2> QED BY <1>1, <2>1, <2>2, PlainMoves, DoneMoves DEF FindPost
  <1>2. CASE SaveEvent(t)
    <2>1. At(t, "saveEvent") /\ "saveEvent" \in Steps /\ "reload" \in Steps
      BY <1>2 DEF SaveEvent, Steps
    <2>2. task[t].kind = "create" => Sound([task[t] EXCEPT !.todo = {"reload"}]) /\ task[t].kind # "reindex"
      BY <2>1, StepIsSound
    <2>3. CASE Then(t, "saveEvent", {"reload"}) /\ task[t].kind = "create"
      BY <2>1, <2>2, <2>3, PlainMoves
    <2>4. CASE Done(t, "saveEvent") \/ Rejected(t, "saveEvent")
      BY <2>1, <2>4, DoneMoves
    <2> QED BY <1>2, <2>3, <2>4 DEF SaveEvent, Done
  <1>3. CASE GetDoc(t)
    <2>1. At(t, "get") /\ "get" \in Steps /\ "del" \in Steps
      BY <1>3 DEF GetDoc, Steps
    <2>2. Sound([task[t] EXCEPT !.todo = {"del"}]) /\ task[t].kind # "reindex"
      BY <2>1, NotReindex, StepIsSound
    <2> QED BY <1>3, <2>1, <2>2, PlainMoves, DoneMoves DEF GetDoc
  <1>4. CASE Write(t)
    <2>1. At(t, "write") /\ "write" \in Steps /\ "reload" \in Steps
      BY <1>4 DEF Write, Steps
    <2>2. task[t].kind = "update"
      BY <2>1, AtTask DEF Sound, At
    <2>3. Sound([task[t] EXCEPT !.todo = {"reload"}])
      BY <2>1, <2>2, StepIsSound
    <2> QED BY <1>4, <2>1, <2>2, <2>3, PlainMoves DEF Write
  <1>5. CASE DeleteRow(t)
    <2>1. At(t, "deleteRow") /\ "deleteRow" \in Steps /\ "get" \in Steps
      BY <1>5 DEF DeleteRow, Steps
    <2>2. Sound([task[t] EXCEPT !.todo = {"get"}]) /\ task[t].kind # "reindex"
      BY <2>1, NotReindex, StepIsSound
    <2> QED BY <1>5, <2>1, <2>2, PlainMoves, DoneMoves DEF DeleteRow
  <1>6. CASE FindExisting(t)
    <2>1. At(t, "findExisting") /\ "findExisting" \in Steps /\ "saveNew" \in Steps
      BY <1>6 DEF FindExisting, Steps
    <2>2. task[t].kind = "apply"
      BY <2>1, AtTask DEF Sound, At
    <2>3. Sound([task[t] EXCEPT !.todo = {"saveNew"}])
      BY <2>1, <2>2, StepIsSound
    <2> QED BY <1>6, <2>1, <2>2, <2>3, PlainMoves, DoneMoves DEF FindExisting
  <1> QED BY <1>1, <1>2, <1>3, <1>4, <1>5, <1>6

LEMMA ReadIsSound ==
    ASSUME TasksOK, NEW t \in Tasks, NEW rec \in Task, task[t] \in Task, Like(rec, task[t]), NEW next,
           next \notin {"index", "updateDoc"}, Sound([task[t] EXCEPT !.todo = {next}])
    PROVE  Sound([rec EXCEPT !.todo = {next}])
  <1> DEFINE r == [task[t] EXCEPT !.todo = {next}]
             s == [rec EXCEPT !.todo = {next}]
  <1>1. /\ r.kind = task[t].kind /\ r.post = task[t].post /\ r.user = task[t].user /\ r.app = task[t].app
        /\ r.copy = task[t].copy /\ r.row = task[t].row /\ r.todo = {next}
    BY DEF Task
  <1>2. /\ s.kind = rec.kind /\ s.post = rec.post /\ s.user = rec.user /\ s.app = rec.app
        /\ s.copy = rec.copy /\ s.row = rec.row /\ s.todo = {next}
    BY DEF Task
  <1>3. Sound(r)
    OBVIOUS
  <1> HIDE DEF r, s
  <1>4. Sound(s)
    BY <1>1, <1>2, <1>3 DEF Sound, Like, Writers
  <1> QED BY <1>4 DEF s

\* The steps that leave what they read with the task.
LEMMA ReadMoves ==
    ASSUME TypeInv, NEW t \in Tasks,
           Reload(t) \/ FindEvents(t) \/ FindSaved(t) \/ PutObject(t) \/ DeleteObject(t)
    PROVE  Moved(t)
  <1> USE DEF TypeInv
  <1>1. CASE Reload(t)
    <2>1. At(t, "reload") /\ "reload" \in Steps
      BY <1>1 DEF Reload, Steps
    <2>2. task[t] \in Task /\ Sound(task[t]) /\ task[t].kind \in {"create", "update"} /\ Post(t) \in Posts
      <3>1. task[t] \in Task /\ Sound(task[t])
        BY <2>1, AtTask
      <3>2. "reload" \in task[t].todo
        BY <2>1 DEF At
      <3> QED BY <2>1, <3>1, <3>2, NotReindex DEF Sound
    <2>3. CASE Rejected(t, "reload") \/ Done(t, "reload")
      BY <2>1, <2>3, DoneMoves
    <2>4. CASE HasEmployer(Post(t)) /\ \E next \in {"index", "updateDoc"} :
                   Continue(t, "reload", {next}, [task[t] EXCEPT !.row = posts[Post(t)]])
      <3> DEFINE rec == [task[t] EXCEPT !.row = posts[Post(t)]]
      <3>1. posts[Post(t)] \in Row
        BY <2>2, <2>4 DEF HasEmployer, Exists, DataOK
      <3>2. rec \in Task /\ rec.row \in Row /\ rec.kind = task[t].kind
        BY <2>2, <3>1 DEF Task
      <3>3. Like(rec, task[t])
        BY <2>2, <3>1 DEF Like, Task, Writers, Images
      <3> HIDE DEF rec
      <3>4. PICK next \in {"index", "updateDoc"} : Continue(t, "reload", {next}, rec)
        BY <2>4 DEF rec
      <3>5. next \in Steps /\ next # "addSaved" /\ next # "saveNew"
        BY <3>4 DEF Steps
      <3>6. Sound([rec EXCEPT !.todo = {next}])
        <4> DEFINE s == [rec EXCEPT !.todo = {next}]
        <4>1. /\ s.kind = rec.kind /\ s.post = rec.post /\ s.user = rec.user /\ s.app = rec.app
              /\ s.copy = rec.copy /\ s.row = rec.row /\ s.todo = {next}
          BY <3>2 DEF Task
        <4> HIDE DEF s
        <4>2. rec.post \in Posts
          BY <2>2, <3>3 DEF Like, Post
        <4>3. Sound(s)
          BY <2>2, <3>2, <3>4, <4>1, <4>2 DEF Sound, Writers, Images, Answers
        <4> QED BY <4>3 DEF s
      <3>7. Sound([rec EXCEPT !.todo = Rest(t, "reload") \cup {next}])
        BY <2>1, <2>2, <3>2, <3>3, <3>5, <3>6, OneMore
      <3> QED BY <2>1, <3>2, <3>3, <3>4, <3>5, <3>7, ContinueMoves
    <2> QED BY <1>1, <2>3, <2>4 DEF Reload
  <1>2. CASE FindEvents(t)
    <2>1. At(t, "findEvents") /\ "findEvents" \in Steps /\ "removeEvents" \in Steps
      BY <1>2 DEF FindEvents, Steps
    <2>2. task[t] \in Task /\ Sound(task[t]) /\ task[t].kind # "reindex"
      BY <2>1, AtTask, NotReindex
    <2> DEFINE rec == [task[t] EXCEPT !.found = EventsOf(Post(t))]
    <2>3. rec \in Task /\ Like(rec, task[t]) /\ rec.todo = task[t].todo
      BY <2>2 DEF Task, EventsOf, DataOK, Like
    <2>4. Continue(t, "findEvents", {"removeEvents"}, rec)
      BY <1>2 DEF FindEvents
    <2>5. Sound([rec EXCEPT !.todo = {"removeEvents"}])
      BY <2>1, <2>2, <2>3, StepIsSound, ReadIsSound
    <2> HIDE DEF rec
    <2>6. Sound([rec EXCEPT !.todo = Rest(t, "findEvents") \cup {"removeEvents"}])
      BY <2>1, <2>2, <2>3, <2>5, OneMore
    <2> QED BY <2>1, <2>3, <2>4, <2>6, ContinueMoves
  <1>3. CASE FindSaved(t)
    <2>1. At(t, "findSaved") /\ {"findSaved", "addSaved", "removeSaved"} \subseteq Steps
      BY <1>3 DEF FindSaved, Steps
    <2>2. task[t] \in Task /\ Sound(task[t]) /\ "findSaved" \in task[t].todo
      BY <2>1, AtTask DEF At
    <2>3. task[t].kind = "toggleSave" /\ task[t].kind # "reindex"
      BY <2>2 DEF Sound
    <2>4. Sound([task[t] EXCEPT !.todo = {"addSaved"}]) /\ Sound([task[t] EXCEPT !.todo = {"removeSaved"}])
      BY <2>1, <2>3, StepIsSound
    <2>5. CASE Then(t, "findSaved", {"addSaved"})
      BY <1>3, <2>1, <2>3, <2>4, <2>5, PlainMoves
    <2>6. ASSUME NEW s \in saved, Continue(t, "findSaved", {"removeSaved"}, [task[t] EXCEPT !.found = {s}])
          PROVE  Moved(t)
      <3> DEFINE rec == [task[t] EXCEPT !.found = {s}]
      <3>1. rec \in Task /\ Like(rec, task[t])
        BY <2>2 DEF Task, DataOK, Like
      <3>2. Continue(t, "findSaved", {"removeSaved"}, rec)
        BY <2>6
      <3> HIDE DEF rec
      <3>3. Sound([rec EXCEPT !.todo = Rest(t, "findSaved") \cup {"removeSaved"}])
        BY <2>1, <2>2, <2>3, <2>4, <3>1, ReadIsSound, OneMore
      <3> QED BY <2>1, <3>1, <3>2, <3>3, ContinueMoves
    <2> QED BY <1>3, <2>5, <2>6 DEF FindSaved, SavedOf
  <1>4. ASSUME NEW rec \in Task, NEW next \in {"put", "saveRow"}, NEW step \in {"put", "deleteObject"},
               At(t, step), Continue(t, step, {next}, rec), next = "put" => step = "put",
               rec.kind = task[t].kind, rec.post = task[t].post, rec.user = task[t].user,
               rec.app = task[t].app, rec.copy = task[t].copy,
               rec.row \in Row, rec.row.archived = task[t].row.archived
        PROVE  Moved(t)
    <2>1. step \in Steps /\ next \in Steps /\ next # "addSaved" /\ next # "saveNew" /\ step # "bulk"
      BY <1>4 DEF Steps
    <2>2. task[t] \in Task /\ Sound(task[t]) /\ step \in task[t].todo /\ task[t].kind # "reindex"
      BY <1>4, <2>1, AtTask, NotReindex DEF At
    <2>3. task[t].kind \in Writers /\ (step = "put" => task[t].kind = "upload")
      BY <2>2 DEF Sound, Writers, Images
    <2>4. Like(rec, task[t])
      BY <1>4 DEF Like
    <2>5. Sound([rec EXCEPT !.todo = {next}])
      <3> DEFINE s == [rec EXCEPT !.todo = {next}]
                 r == task[t]
      <3>1. /\ s.kind = r.kind /\ s.post = r.post /\ s.user = r.user /\ s.app = r.app
            /\ s.copy = r.copy /\ s.row \in Row /\ s.row.archived = r.row.archived /\ s.todo = {next}
        BY <1>4 DEF Task
      <3>2. Sound(r) /\ r.todo # {} /\ r.kind # "reindex" /\ r.kind \in Writers /\ (next = "put" => r.kind = "upload")
        BY <1>4, <2>2, <2>3
      <3> HIDE DEF s, r
      <3>3. Sound(s)
        BY <3>1, <3>2 DEF Sound
      <3> QED BY <3>3 DEF s
    <2>6. Sound([rec EXCEPT !.todo = Rest(t, step) \cup {next}])
      BY <1>4, <2>1, <2>2, <2>4, <2>5, OneMore
    <2> QED BY <1>4, <2>1, <2>4, <2>6, ContinueMoves
  <1>5. CASE PutObject(t)
    <2>1. PICK k \in task[t].keys :
             Continue(t, "put", IF task[t].keys \ {k} # {} THEN {"put"} ELSE {"saveRow"},
                      [task[t] EXCEPT !.keys = task[t].keys \ {k}, !.row.photos = @ \cup {k}])
      BY <1>5 DEF PutObject
    <2>2. At(t, "put") /\ task[t] \in Task /\ Sound(task[t]) /\ "put" \in task[t].todo
      BY <1>5, AtTask DEF PutObject, At
    <2>3. task[t].row \in Row
      BY <2>2 DEF Sound, Writers, Images
    <2> DEFINE rec == [task[t] EXCEPT !.keys = task[t].keys \ {k}, !.row.photos = @ \cup {k}]
    <2>4. /\ rec \in Task /\ rec.row \in Row /\ rec.row.archived = task[t].row.archived
          /\ rec.kind = task[t].kind /\ rec.post = task[t].post /\ rec.user = task[t].user
          /\ rec.app = task[t].app /\ rec.copy = task[t].copy
      BY <2>2, <2>3 DEF Task, Row
    <2>5. PICK next \in {"put", "saveRow"} : Continue(t, "put", {next}, rec)
      BY <2>1
    <2> HIDE DEF rec
    <2> QED BY <1>4, <2>2, <2>4, <2>5
  <1>6. CASE DeleteObject(t)
    <2> DEFINE rec == [task[t] EXCEPT !.row.photos = @ \ task[t].keys]
    <2>1. At(t, "deleteObject") /\ task[t] \in Task /\ Sound(task[t]) /\ "deleteObject" \in task[t].todo
      BY <1>6, AtTask DEF DeleteObject, At
    <2>2. task[t].row \in Row
      BY <2>1 DEF Sound, Writers, Images
    <2>3. /\ rec \in Task /\ rec.row \in Row /\ rec.row.archived = task[t].row.archived
          /\ rec.kind = task[t].kind /\ rec.post = task[t].post /\ rec.user = task[t].user
          /\ rec.app = task[t].app /\ rec.copy = task[t].copy
      BY <2>1, <2>2 DEF Task, Row
    <2>4. Continue(t, "deleteObject", {"saveRow"}, rec)
      BY <1>6 DEF DeleteObject
    <2> HIDE DEF rec
    <2> QED BY <1>4, <2>1, <2>3, <2>4
  <1> QED BY <1>1, <1>2, <1>3, <1>5, <1>6

LEMMA StepMoves ==
    ASSUME TypeInv, NEW t \in Tasks, Step(t)
    PROVE  Moved(t)
  BY LastMoves, ChainMoves, ReadMoves DEF Step

-------------------------------------------------------------------------------
(* A request that arrives. *)

\* A request comes with what its first read found.
Arrives(new) ==
    /\ new \in Task /\ Sound(new)
    /\ "addSaved" \notin new.todo /\ "saveNew" \notin new.todo
    /\ new.kind \in Writers => Exists(new.post)
    /\ new.kind \in Images => new.row.archived = posts[new.post].archived
    /\ new.kind \in Answers => /\ new.app \in AppIds
                               /\ new.copy.post = apps[new.app].post /\ new.copy.user = apps[new.app].user

\* Requests that take nothing along but a post, a user and an event.
LEMMA PlainArrives ==
    ASSUME NEW new \in Task, new.kind \in Kinds \ (Writers \cup Answers \cup {"review"}),
           new.kind = "reindex" => new.todo \subseteq {"bulk"},
           new.kind # "reindex" => new.post \in Posts,
           new.kind \in {"toggleSave", "apply"} => new.user \in Applicants,
           new.todo \subseteq {"findPost", "get", "findEvents", "removeEvents", "saveEvent", "bulk"}
               \cup (IF new.kind = "archive" THEN {"archiveRow", "cancelApps"} ELSE {})
               \cup (IF new.kind = "update" THEN {"write"} ELSE {})
               \cup (IF new.kind = "delete" THEN {"deleteRow"} ELSE {})
               \cup (IF new.kind = "toggleSave" THEN {"findSaved"} ELSE {})
               \cup (IF new.kind = "apply" THEN {"findExisting"} ELSE {})
    PROVE  Arrives(new)
  <1>1. new.kind \notin Writers /\ new.kind \notin Answers /\ new.kind \notin Images /\ new.kind # "review"
        /\ new.kind \notin {"complete", "respond", "withdraw"}
    BY DEF Writers, Answers, Images
  <1>2. Sound(new)
    BY <1>1 DEF Sound
  <1>3. "addSaved" \notin new.todo /\ "saveNew" \notin new.todo
    OBVIOUS
  <1> QED BY <1>1, <1>2, <1>3 DEF Arrives

LEMMA PostRequestArrives ==
    ASSUME TypeInv, NEW t \in Tasks, NEW p \in Posts, PostRequest(t, p)
    PROVE  \E new : Begin(t, new) /\ Arrives(new)
  <1>1. ASSUME NEW kind \in {"create", "archive", "update", "delete"}, NEW todo \in SUBSET Steps,
               todo = CASE kind = "create" -> {"findPost"}
                        [] kind = "archive" -> {"archiveRow", "get", "findEvents", "cancelApps"}
                        [] kind = "update" -> {"write"}
                        [] kind = "delete" -> {"deleteRow"}
        PROVE  Arrives(Fresh(kind, p, todo))
    <2> DEFINE new == Fresh(kind, p, todo)
    <2>1. /\ new \in Task /\ new.kind = kind /\ new.post = p /\ new.todo = todo
          /\ new.kind \in Kinds \ (Writers \cup Answers \cup {"review"})
      BY DEF Fresh, Task, Kinds, Writers, Answers, Images
    <2> HIDE DEF new
    <2>2. Arrives(new)
      BY <1>1, <2>1, PlainArrives
    <2> QED BY <2>2 DEF new
  <1>2. ASSUME NEW kind \in {"toggleSave", "apply"}, NEW u \in Applicants, NEW todo \in SUBSET Steps,
               todo = IF kind = "apply" THEN {"findExisting"} ELSE {"findSaved"}
        PROVE  Arrives([Fresh(kind, p, todo) EXCEPT !.user = u])
    <2> DEFINE new == [Fresh(kind, p, todo) EXCEPT !.user = u]
    <2>1. /\ new \in Task /\ new.kind = kind /\ new.post = p /\ new.todo = todo /\ new.user = u
          /\ new.kind \in Kinds \ (Writers \cup Answers \cup {"review"})
      BY DEF Fresh, Task, Kinds, Writers, Answers, Images
    <2> HIDE DEF new
    <2>2. Arrives(new)
      BY <1>2, <2>1, PlainArrives
    <2> QED BY <2>2 DEF new
  <1>3. ASSUME NEW kind \in Images, NEW keys \in SUBSET Keys, Exists(p)
        PROVE  Arrives([Fresh(kind, p, IF kind = "upload" THEN {"put"} ELSE {"deleteObject"})
                           EXCEPT !.row = posts[p], !.keys = keys])
    <2> DEFINE todo == IF kind = "upload" THEN {"put"} ELSE {"deleteObject"}
               new == [Fresh(kind, p, todo) EXCEPT !.row = posts[p], !.keys = keys]
    <2>1. posts[p] \in Row /\ todo \subseteq Steps /\ kind \in Kinds
      BY <1>3 DEF Exists, TypeInv, DataOK, Steps, Images, Kinds
    <2>2. /\ new \in Task /\ new.kind = kind /\ new.post = p /\ new.todo = todo /\ new.row = posts[p]
      BY <2>1 DEF Fresh, Task
    <2> HIDE DEF new
    <2>3. kind = "upload" \/ kind = "deleteImage"
      BY DEF Images
    <2>4. Sound(new) /\ new.kind \notin Answers
      BY <2>1, <2>2, <2>3 DEF Sound, Answers, Writers, Images
    <2>5. Arrives(new)
      BY <1>3, <2>2, <2>4 DEF Arrives
    <2> QED BY <2>5 DEF new
  <1>4. CASE Create(t, p) \/ Archive(t, p) \/ Update(t, p) \/ Delete(t, p)
    <2>1. {"findPost"} \in SUBSET Steps /\ {"archiveRow", "get", "findEvents", "cancelApps"} \in SUBSET Steps
          /\ {"write"} \in SUBSET Steps /\ {"deleteRow"} \in SUBSET Steps
      BY DEF Steps
    <2> QED BY <1>1, <1>4, <2>1 DEF Create, Archive, Update, Delete
  <1>5. ASSUME NEW u \in Applicants, Apply(t, p, u) \/ ToggleSave(t, p, u)
        PROVE  \E new : Begin(t, new) /\ Arrives(new)
    <2>1. {"findExisting"} \in SUBSET Steps /\ {"findSaved"} \in SUBSET Steps
      BY DEF Steps
    <2> QED BY <1>2, <1>5, <2>1 DEF Apply, ToggleSave
  <1>6. ASSUME NEW keys \in SUBSET Keys, Upload(t, p, keys)
        PROVE  \E new : Begin(t, new) /\ Arrives(new)
    BY <1>3, <1>6 DEF Upload, Images
  <1>7. ASSUME NEW k \in Keys, DeleteImage(t, p, k)
        PROVE  \E new : Begin(t, new) /\ Arrives(new)
    <2>1. {k} \in SUBSET Keys
      OBVIOUS
    <2> QED BY <1>3, <1>7, <2>1 DEF DeleteImage, Images, HasEmployer
  <1> QED BY <1>4, <1>5, <1>6, <1>7 DEF PostRequest

LEMMA AnswerArrives ==
    ASSUME TypeInv, NEW t \in Tasks, NEW a \in AppIds,
           \/ \E status \in Statuses : Respond(t, a, status)
           \/ Complete(t, a) \/ Withdraw(t, a) \/ MarkCompleted(t, a)
    PROVE  \E new : Begin(t, new) /\ Arrives(new)
  <1>1. apps[a] \in App /\ a \in Ids /\ apps[a].post \in Posts
    BY DEF AppIds, TypeInv, DataOK, App
  <1>2. ASSUME NEW kind \in {"respond", "withdraw", "markCompleted"}, NEW status \in Statuses,
               kind = "markCompleted" \/ status # "completed"
        PROVE  Arrives(OfApp(kind, a, {"saveApp"}, [apps[a] EXCEPT !.status = status]))
    <2> DEFINE copy == [apps[a] EXCEPT !.status = status]
               new == OfApp(kind, a, {"saveApp"}, copy)
    <2>1. copy \in App /\ copy.post = apps[a].post /\ copy.user = apps[a].user /\ copy.status = status
      BY <1>1 DEF App
    <2> HIDE DEF copy
    <2>2. /\ new \in Task /\ new.kind = kind /\ new.post = apps[a].post /\ new.todo = {"saveApp"}
          /\ new.app = a /\ new.copy = copy /\ kind \in Answers /\ kind \notin Writers \cup Images
      BY <1>1, <2>1 DEF OfApp, Fresh, Task, Kinds, Steps, Answers, Writers, Images
    <2> HIDE DEF new
    <2>3. Sound(new)
      BY <1>1, <1>2, <2>1, <2>2 DEF Sound
    <2>4. Arrives(new)
      BY <2>1, <2>2, <2>3 DEF Arrives
    <2> QED BY <2>4 DEF new, copy
  <1>3. CASE Complete(t, a)
    <2> DEFINE copy == [apps[a] EXCEPT !.status = "completed", !.archived = TRUE]
               row == [posts[apps[a].post] EXCEPT !.archived = TRUE]
               todo == {"saveRow", "get", "findEvents"}
               new == [OfApp("complete", a, todo, copy) EXCEPT !.row = row]
    <2>1. copy \in App /\ copy.post = apps[a].post /\ copy.user = apps[a].user
      BY <1>1 DEF App, Statuses
    <2>2. Exists(apps[a].post) /\ posts[apps[a].post] \in Row
      BY <1>1, <1>3 DEF Complete, HasEmployer, Exists, TypeInv, DataOK
    <2>3. row \in Row /\ row.archived = TRUE
      BY <2>2 DEF Row
    <2>4. Begin(t, new)
      BY <1>3 DEF Complete
    <2> HIDE DEF copy, row
    <2>5. /\ new \in Task /\ new.kind = "complete" /\ new.post = apps[a].post /\ new.todo = todo
          /\ new.app = a /\ new.copy = copy /\ new.row = row
      BY <1>1, <2>1, <2>3 DEF OfApp, Fresh, Task, Kinds, Steps
    <2> HIDE DEF new
    <2>6. "complete" \in Answers /\ "complete" \in Writers /\ "complete" \notin Images
      BY DEF Answers, Writers, Images
    <2>7. Sound(new)
      BY <1>1, <2>1, <2>3, <2>5, <2>6 DEF Sound
    <2>8. Arrives(new)
      BY <2>1, <2>2, <2>5, <2>6, <2>7 DEF Arrives
    <2> QED BY <2>4, <2>8
  <1>4. {"pending", "accepted", "rejected", "withdrawn", "completed"} \subseteq Statuses
    BY DEF Statuses
  <1>5. CASE Withdraw(t, a)
    BY <1>2, <1>4, <1>5 DEF Withdraw
  <1>6. CASE MarkCompleted(t, a)
    BY <1>2, <1>4, <1>6 DEF MarkCompleted
  <1>7. ASSUME NEW status \in Statuses, Respond(t, a, status)
        PROVE  \E new : Begin(t, new) /\ Arrives(new)
    BY <1>2, <1>4, <1>7 DEF Respond
  <1> QED BY <1>3, <1>5, <1>6, <1>7

LEMMA ReviewArrives ==
    ASSUME TypeInv, NEW t \in Tasks, NEW a \in AppIds, NEW side \in {"applicant", "employer"}, Review(t, a, side)
    PROVE  \E new : Begin(t, new) /\ Arrives(new)
  <1> DEFINE new == [Fresh("review", apps[a].post, {"saveReview"}) EXCEPT !.app = a, !.user = side]
  <1>1. a \in Ids /\ apps[a].post \in Posts
    BY DEF AppIds, TypeInv, DataOK, App
  <1>2. /\ new \in Task /\ new.kind = "review" /\ new.post = apps[a].post /\ new.todo = {"saveReview"}
        /\ new.app = a /\ new.user = side
    BY <1>1 DEF Fresh, Task, Kinds, Steps
  <1>3. Begin(t, new)
    BY DEF Review
  <1> HIDE DEF new
  <1>4. Sound(new) /\ new.kind \notin Writers \cup Images \cup Answers
    BY <1>1, <1>2 DEF Sound, Writers, Images, Answers
  <1>5. Arrives(new)
    BY <1>2, <1>4 DEF Arrives
  <1> QED BY <1>3, <1>5

LEMMA OtherArrives ==
    ASSUME TypeInv, NEW t \in Tasks,
           \/ \E e \in events : RemoveEvent(t, e)
           \/ \E kind \in {"addEvent", "addDeadline"} : AddEvent(t, kind)
           \/ Reindex(t)
    PROVE  \E new : Begin(t, new) /\ Arrives(new)
  <1>1. ASSUME NEW e \in events, RemoveEvent(t, e)
        PROVE  \E new : Begin(t, new) /\ Arrives(new)
    <2> DEFINE new == [Fresh("removeEvent", e.post, {"removeEvents"}) EXCEPT !.found = {e}]
    <2>1. e \in Event /\ e.post \in Posts
      BY DEF TypeInv, DataOK, Event
    <2>2. /\ new \in Task /\ new.kind = "removeEvent" /\ new.post = e.post /\ new.todo = {"removeEvents"}
          /\ new.kind \in Kinds \ (Writers \cup Answers \cup {"review"})
      BY <2>1 DEF Fresh, Task, Kinds, Steps, Writers, Answers, Images
    <2>3. Begin(t, new)
      BY <1>1 DEF RemoveEvent
    <2> HIDE DEF new
    <2>4. Arrives(new)
      BY <2>1, <2>2, PlainArrives
    <2> QED BY <2>3, <2>4
  <1>2. ASSUME NEW kind \in {"addEvent", "addDeadline"}, AddEvent(t, kind)
        PROVE  \E new : Begin(t, new) /\ Arrives(new)
    <2>1. PICK p \in Posts : Begin(t, Fresh(kind, p, {"saveEvent"}))
      BY <1>2 DEF AddEvent
    <2> DEFINE new == Fresh(kind, p, {"saveEvent"})
    <2>2. /\ new \in Task /\ new.kind = kind /\ new.post = p /\ new.todo = {"saveEvent"}
          /\ new.kind \in Kinds \ (Writers \cup Answers \cup {"review"})
      BY DEF Fresh, Task, Kinds, Steps, Writers, Answers, Images
    <2>3. Begin(t, new)
      BY <2>1
    <2> HIDE DEF new
    <2>4. Arrives(new)
      BY <2>2, PlainArrives
    <2> QED BY <2>3, <2>4
  <1>3. CASE Reindex(t)
    <2> DEFINE revs == [q \in Posts |-> IF Exists(q) THEN posts[q].rev ELSE 0]
               new == [Fresh("reindex", None, {"bulk"}) EXCEPT !.revs = revs]
    <2>1. revs \in [Posts -> Nat]
      BY DEF TypeInv, DataOK, Exists, Row
    <2>2. Begin(t, new)
      BY <1>3 DEF Reindex
    <2> HIDE DEF revs
    <2>3. /\ new \in Task /\ new.kind = "reindex" /\ new.todo = {"bulk"}
          /\ new.kind \in Kinds \ (Writers \cup Answers \cup {"review"})
      BY <2>1 DEF Fresh, Task, Kinds, Steps, Writers, Answers, Images
    <2> HIDE DEF new
    <2>4. Arrives(new)
      BY <2>3, PlainArrives
    <2> QED BY <2>2, <2>4
  <1> QED BY <1>1, <1>2, <1>3

LEMMA RequestArrives ==
    ASSUME TypeInv, NEW t \in Tasks, Request(t)
    PROVE  \E new : Begin(t, new) /\ Arrives(new)
  BY PostRequestArrives, AnswerArrives, ReviewArrives, OtherArrives DEF Request, AppRequest

LEMMA BeginKeeps ==
    ASSUME TasksOK, NEW t \in Tasks, NEW new \in Task, Sound(new), Begin(t, new)
    PROVE  /\ TasksOK'
           /\ task'[t] = new /\ \A u \in Tasks \ {t} : task'[u] = task[u]
  <1>1. task' = [task EXCEPT ![t] = new]
    BY DEF Begin
  <1>2. task'[t] = new /\ \A u \in Tasks \ {t} : task'[u] = task[u]
    BY <1>1 DEF TasksOK
  <1>3. task' \in [Tasks -> Task \cup {None}]
    BY <1>1 DEF TasksOK
  <1>4. \A u \in Tasks : task'[u] # None => Sound(task'[u])
    BY <1>2 DEF TasksOK
  <1>5. \A u \in Tasks : Sound(task'[u]) <=> Sound(task[u])'
    BY DEF Sound
  <1> QED BY <1>2, <1>3, <1>4, <1>5 DEF TasksOK

LEMMA CrashKeeps == ASSUME TasksOK, Crash PROVE TasksOK' /\ \A t \in Tasks : task'[t] = None
  BY DEF Crash, TasksOK

-------------------------------------------------------------------------------
(* The type invariant. *)

LEMMA PostsOK ==
    ASSUME TypeInv, NEW t \in Tasks,
           ArchiveRow(t) \/ Write(t) \/ DeleteRow(t) \/ SaveRow(t)
    PROVE  DataOK'
  <1> USE DEF TypeInv, DataOK
  <1>1. CASE ArchiveRow(t)
    <2>1. posts' \in [Posts -> Row \cup {None}]
      BY <1>1 DEF ArchiveRow, Exists, Row
    <2> QED BY <1>1, <2>1 DEF ArchiveRow, Only, NotPosts
  <1>2. CASE Write(t)
    <2>1. posts' \in [Posts -> Row \cup {None}]
      <3>1. At(t, "write") /\ "write" \in Steps \ {"bulk"}
        BY <1>2 DEF Write, Steps
      <3>2. Post(t) \in Posts
        BY <3>1, NotReindex
      <3>3. Exists(Post(t)) => posts[Post(t)] \in Row
        BY <3>2 DEF Exists
      <3>4. Exists(Post(t)) => [posts[Post(t)] EXCEPT !.rev = @ + 1] \in Row
        BY <3>3 DEF Row
      <3> QED BY <1>2, <3>2, <3>4 DEF Write
    <2> QED BY <1>2, <2>1 DEF Write, Only, NotPosts
  <1>3. CASE DeleteRow(t)
    <2>1. At(t, "deleteRow") /\ "deleteRow" \in Steps \ {"bulk"}
      BY <1>3 DEF DeleteRow, Steps
    <2>2. Post(t) \in Posts
      BY <2>1, NotReindex
    <2>3. posts' \in [Posts -> Row \cup {None}] /\ deleted' \subseteq Posts \cup Ids
      BY <1>3, <2>2 DEF DeleteRow, AppsOf, AppIds
    <2>4. apps' \in [Ids -> App \cup {None}]
      BY <1>3 DEF DeleteRow
    <2> QED BY <1>3, <2>3, <2>4 DEF DeleteRow, Only
  <1>4. CASE SaveRow(t)
    <2>1. At(t, "saveRow") /\ task[t] \in Task /\ Sound(task[t]) /\ "saveRow" \in task[t].todo
      BY <1>4, AtTask DEF SaveRow, At
    <2>2. task[t].row \in Row /\ Post(t) \in Posts
      BY <2>1 DEF Sound, Writers, Images, Post
    <2>3. [task[t].row EXCEPT !.employer = IF Exists(Post(t)) THEN posts[Post(t)].employer
                                           ELSE task[t].kind # "upload"] \in Row
      <3>1. Exists(Post(t)) => posts[Post(t)].employer \in BOOLEAN
        BY <2>2 DEF Row, Exists
      <3> QED BY <2>2, <3>1 DEF Row
    <2>4. posts' \in [Posts -> Row \cup {None}]
      BY <1>4, <2>3 DEF SaveRow
    <2> QED BY <1>4, <2>4 DEF SaveRow, Only, NotPosts
  <1> QED BY <1>1, <1>2, <1>3, <1>4

LEMMA AppsOK ==
    ASSUME TypeInv, NEW t \in Tasks, CancelApps(t) \/ SaveNew(t) \/ SaveApp(t)
    PROVE  DataOK'
  <1> USE DEF TypeInv, DataOK
  <1>1. CASE CancelApps(t)
    <2>1. apps' \in [Ids -> App \cup {None}]
      <3>1. \A a \in AppsOf(Post(t)) : [apps[a] EXCEPT !.archived = TRUE, !.status = "cancelled"] \in App
        BY DEF AppsOf, AppIds, App, Statuses
      <3> QED BY <1>1, <3>1 DEF CancelApps
    <2> QED BY <1>1, <2>1 DEF CancelApps, Only, NotApps
  <1>2. CASE SaveNew(t)
    <2>1. At(t, "saveNew") /\ task[t] \in Task /\ Sound(task[t]) /\ "saveNew" \in task[t].todo /\ "saveNew" \in Steps \ {"bulk"}
      BY <1>2, AtTask DEF SaveNew, At, Steps
    <2>2. task[t].user \in Applicants /\ Post(t) \in Posts
      BY <2>1, NotReindex DEF Sound
    <2>3. [post |-> Post(t), user |-> task[t].user, status |-> "pending", archived |-> FALSE] \in App
      BY <2>2 DEF App, Statuses
    <2>4. apps' \in [Ids -> App \cup {None}]
      BY <1>2, <2>3 DEF SaveNew
    <2> QED BY <1>2, <2>4 DEF SaveNew, Only, NotApps
  <1>3. CASE SaveApp(t)
    <2>1. At(t, "saveApp") /\ task[t] \in Task /\ Sound(task[t]) /\ "saveApp" \in task[t].todo
      BY <1>3, AtTask DEF SaveApp, At
    <2>2. task[t].copy \in App
      BY <2>1 DEF Sound
    <2>3. apps' \in [Ids -> App \cup {None}]
      BY <1>3, <2>2 DEF SaveApp
    <2> QED BY <1>3, <2>3 DEF SaveApp, Only, NotApps
  <1> QED BY <1>1, <1>2, <1>3

LEMMA RowsOK ==
    ASSUME TypeInv, NEW t \in Tasks,
           SaveEvent(t) \/ RemoveEvents(t) \/ AddSaved(t) \/ RemoveSaved(t) \/ SaveReview(t)
    PROVE  DataOK'
  <1> USE DEF TypeInv, DataOK
  <1>0. \A used : HasRoom(used) => NewId(used) \in Ids
    BY DEF HasRoom, NewId
  <1>1. CASE SaveEvent(t)
    <2>1. At(t, "saveEvent") /\ "saveEvent" \in Steps \ {"bulk"}
      BY <1>1 DEF SaveEvent, Steps
    <2>2. Post(t) \in Posts
      BY <2>1, NotReindex
    <2>3. HasRoom(IdsOf(events)) => NewEvent(t) \in Event
      BY <1>0, <2>2 DEF NewEvent, Event
    <2>4. events' \subseteq Event
      BY <1>1, <2>3 DEF SaveEvent
    <2> QED BY <1>1, <2>4 DEF SaveEvent, Only, NotEvents
  <1>2. CASE RemoveEvents(t)
    BY <1>2 DEF RemoveEvents, Only, NotEvents
  <1>3. CASE AddSaved(t)
    <2>1. At(t, "addSaved") /\ task[t] \in Task /\ Sound(task[t]) /\ "addSaved" \in task[t].todo
      BY <1>3, AtTask DEF AddSaved, At
    <2>2. task[t].user \in Applicants /\ Post(t) \in Posts
      BY <2>1 DEF Sound, Post
    <2>3. HasRoom(IdsOf(saved)) =>
              [id |-> NewId(IdsOf(saved)), post |-> Post(t), user |-> task[t].user] \in Saved
      BY <1>0, <2>2 DEF Saved
    <2>4. saved' \subseteq Saved
      BY <1>3, <2>3 DEF AddSaved
    <2> QED BY <1>3, <2>4 DEF AddSaved, Only, NotSaved
  <1>4. CASE RemoveSaved(t)
    BY <1>4 DEF RemoveSaved, Only, NotSaved
  <1>5. CASE SaveReview(t)
    <2>1. At(t, "saveReview") /\ task[t] \in Task /\ Sound(task[t]) /\ "saveReview" \in task[t].todo
      BY <1>5, AtTask DEF SaveReview, At
    <2>2. task[t].app \in Ids /\ task[t].user \in {"applicant", "employer"}
      BY <2>1 DEF Sound
    <2>3. reviews' \in [Ids -> [applicant : Nat, employer : Nat]]
      <3> DEFINE a == task[t].app
                 new == [reviews[a] EXCEPT ![task[t].user] = @ + 1]
      <3>1. reviews[a] \in [applicant : Nat, employer : Nat]
        BY <2>2
      <3>2. new \in [applicant : Nat, employer : Nat]
        BY <2>2, <3>1
      <3>3. reviews' = [reviews EXCEPT ![a] = new]
        BY <1>5 DEF SaveReview
      <3> HIDE DEF new
      <3> QED BY <3>2, <3>3
    <2> QED BY <1>5, <2>3 DEF SaveReview, Only, NotReviews
  <1> QED BY <1>1, <1>2, <1>3, <1>4, <1>5

LEMMA OutsideOK ==
    ASSUME TypeInv, NEW t \in Tasks,
           \/ IndexJobPost(t) \/ DeleteDoc(t) \/ UpdateDoc(t) \/ Bulk(t)
           \/ PutObject(t) \/ PutFails(t) \/ DeleteObject(t)
    PROVE  DataOK'
  <1> USE DEF TypeInv, DataOK
  <1>1. ASSUME IndexJobPost(t) \/ UpdateDoc(t)
        PROVE  index' \in [Posts -> Nat]
    <2>1. task[t] \in Task /\ Sound(task[t]) /\ ("index" \in task[t].todo \/ "updateDoc" \in task[t].todo)
      BY <1>1, AtTask DEF IndexJobPost, UpdateDoc, At
    <2>2. task[t].row \in Row
      BY <2>1 DEF Sound
    <2>3. task[t].row.rev \in Nat
      BY <2>2 DEF Row
    <2> QED BY <1>1, <2>3 DEF IndexJobPost, UpdateDoc
  <1>2. ASSUME DeleteDoc(t)
        PROVE  index' \in [Posts -> Nat]
    BY <1>2 DEF DeleteDoc
  <1>3. ASSUME Bulk(t)
        PROVE  index' \in [Posts -> Nat]
    <2>1. task[t] \in Task
      BY <1>3, AtTask DEF Bulk
    <2>2. task[t].revs \in [Posts -> Nat]
      BY <2>1 DEF Task
    <2> QED BY <1>3, <2>2 DEF Bulk
  <1>4. CASE IndexJobPost(t) \/ DeleteDoc(t) \/ UpdateDoc(t) \/ Bulk(t)
    BY <1>1, <1>2, <1>3, <1>4 DEF IndexJobPost, DeleteDoc, UpdateDoc, Bulk, Only, NotIndex, tables
  <1>5. ASSUME PutObject(t) \/ PutFails(t) \/ DeleteObject(t)
        PROVE  bucket' \subseteq Keys
    <2>1. task[t] \in Task
      BY <1>5, AtTask DEF PutObject, PutFails, DeleteObject
    <2>2. task[t].keys \subseteq Keys
      BY <2>1 DEF Task
    <2> QED BY <1>5, <2>2 DEF PutObject, PutFails, DeleteObject
  <1>6. CASE PutObject(t) \/ PutFails(t) \/ DeleteObject(t)
    BY <1>5, <1>6 DEF PutObject, PutFails, DeleteObject, Only, NotBucket, tables
  <1> QED BY <1>4, <1>6

LEMMA StepData == ASSUME TypeInv, NEW t \in Tasks, Step(t) PROVE DataOK'
  <1>1. CASE \/ FindPost(t) \/ Reload(t) \/ GetDoc(t) \/ FindEvents(t) \/ FindSaved(t)
             \/ FindExisting(t) \/ Reject(t)
    BY <1>1 DEF FindPost, Reload, GetDoc, FindEvents, FindSaved, FindExisting, Reject,
                Only, NotData, tables, TypeInv, DataOK
  <1> QED BY <1>1, PostsOK, AppsOK, RowsOK, OutsideOK DEF Step

\* A request that arrives writes nothing, but that a new post is saved at once.
LEMMA RequestWrites ==
    ASSUME NEW t \in Tasks, Request(t)
    PROVE  /\ UNCHANGED NotPosts
           /\ UNCHANGED posts \/ \E p \in Posts : Create(t, p)
  <1>1. CASE \E p \in Posts : Create(t, p)
    BY <1>1 DEF Create, NotPosts
  <1>2. ASSUME NEW p \in Posts, PostRequest(t, p) PROVE UNCHANGED NotPosts /\ (UNCHANGED posts \/ Create(t, p))
    BY <1>2 DEF PostRequest, Create, Archive, Update, Delete, Apply, ToggleSave, Upload, DeleteImage,
                NoWrite, NotData, NotPosts, tables
  <1>3. ASSUME NEW a \in AppIds, AppRequest(t, a) PROVE UNCHANGED NotPosts /\ UNCHANGED posts
    BY <1>3 DEF AppRequest, Respond, Complete, Withdraw, MarkCompleted, Review,
                NoWrite, NotData, NotPosts, tables
  <1>4. ASSUME \/ \E e \in events : RemoveEvent(t, e)
               \/ \E kind \in {"addEvent", "addDeadline"} : AddEvent(t, kind)
               \/ Reindex(t)
        PROVE  UNCHANGED NotPosts /\ UNCHANGED posts
    BY <1>4 DEF RemoveEvent, AddEvent, Reindex, NoWrite, NotData, NotPosts, tables
  <1> QED BY <1>2, <1>3, <1>4 DEF Request

LEMMA RequestData == ASSUME TypeInv, NEW t \in Tasks, Request(t) PROVE DataOK'
  <1>1. NewRow \in Row
    BY DEF NewRow, Row
  <1>2. posts' \in [Posts -> Row \cup {None}]
    BY <1>1, RequestWrites DEF Create, TypeInv, DataOK
  <1> QED BY <1>2, RequestWrites DEF TypeInv, DataOK, NotPosts

LEMMA StepCalls == ASSUME TypeInv, NEW t \in Tasks, Step(t) PROVE CallsOK'
  <1>1. CASE Fault
    BY <1>1 DEF Fault, TypeInv, CallsOK, Bounds
  <1>2. CASE UNCHANGED <<calls, faults>>
    BY <1>2 DEF TypeInv, CallsOK
  <1>3. Fault \/ UNCHANGED <<calls, faults>>
    BY DEF Step, FindPost, SaveEvent, Reload, IndexJobPost, ArchiveRow, GetDoc, DeleteDoc, FindEvents,
           RemoveEvents, CancelApps, Write, UpdateDoc, DeleteRow, FindSaved, AddSaved, RemoveSaved,
           FindExisting, SaveNew, SaveApp, SaveRow, SaveReview, PutObject, PutFails, DeleteObject, Bulk,
           Reject, Only
  <1> QED BY <1>1, <1>2, <1>3

LEMMA MetStaysOK == ASSUME TypeInv, TasksOK', Remember PROVE MetOK'
  <1>1. \A p \in Posts : Overlaps(p)' \subseteq Kinds \X Kinds
    <2>1. \A t \in Tasks : Running(t)' => task'[t].kind \in Kinds
      BY DEF TasksOK, Running, Task
    <2>2. {"addDeadline", "archive"} \subseteq Kinds
      BY DEF Kinds
    <2> QED BY <2>1, <2>2 DEF Overlaps
  <1> QED BY <1>1 DEF Remember, TypeInv, MetOK

LEMMA TypeInvInit == BoardInit => TypeInv
  <1> SUFFICES ASSUME BoardInit PROVE TypeInv
    OBVIOUS
  <1>1. PICK s \in Scenarios :
           /\ posts = s.posts /\ deleted = {} /\ apps = s.apps /\ events = s.events /\ saved = s.saved
           /\ reviews = [a \in Ids |-> [applicant |-> 0, employer |-> 0]]
           /\ index = s.index
           /\ bucket = UNION {s.posts[p].photos : p \in {q \in Posts : s.posts[q] # None}}
           /\ task = [t \in Tasks |-> None]
           /\ calls = s.calls
           /\ faults = 0
           /\ met = [p \in Posts |-> {}]
    BY DEF BoardInit
  <1>2. s \in Scenario
    BY BoardAssumption
  <1>3. bucket \subseteq Keys
    BY <1>1, <1>2 DEF Scenario, Row
  <1>4. DataOK
    BY <1>1, <1>2, <1>3 DEF DataOK, Scenario
  <1>5. TasksOK /\ CallsOK /\ MetOK
    BY <1>1, <1>2 DEF TasksOK, CallsOK, MetOK, Scenario
  <1> QED BY <1>4, <1>5 DEF TypeInv

LEMMA TypeInvStep == ASSUME TypeInv, [BoardNext]_boardVars PROVE TypeInv'
  <1>1. CASE UNCHANGED boardVars
    <2>1. \A t \in Tasks : Sound(task[t])' <=> Sound(task[t])
      BY <1>1 DEF boardVars, Sound
    <2>2. TasksOK'
      BY <1>1, <2>1 DEF boardVars, TypeInv, TasksOK
    <2> QED BY <1>1, <2>2 DEF boardVars, tables, TypeInv, DataOK, CallsOK, MetOK
  <1>2. CASE Crash /\ Remember
    <2>1. TasksOK'
      BY <1>2, CrashKeeps DEF TypeInv
    <2>2. DataOK' /\ CallsOK'
      BY <1>2 DEF Crash, Fault, tables, TypeInv, DataOK, CallsOK, Bounds
    <2> QED BY <1>2, <2>1, <2>2, MetStaysOK DEF TypeInv
  <1>3. ASSUME NEW t \in Tasks, Request(t), Remember PROVE TypeInv'
    <2>1. PICK new : Begin(t, new) /\ Arrives(new)
      BY <1>3, RequestArrives
    <2>2. TasksOK'
      BY <2>1, BeginKeeps DEF Arrives, TypeInv
    <2>3. CallsOK'
      BY <2>1 DEF Begin, Arrives, Task, TypeInv, CallsOK
    <2> QED BY <1>3, <2>2, <2>3, RequestData, MetStaysOK DEF TypeInv
  <1>4. ASSUME NEW t \in Tasks, Step(t), Remember PROVE TypeInv'
    BY <1>4, StepMoves, StepData, StepCalls, MetStaysOK DEF TypeInv, Moved
  <1> QED BY <1>1, <1>2, <1>3, <1>4 DEF BoardNext

\* The variables of the job board keep their types, whatever requests and faults
\* come, in whatever order their steps are taken.
THEOREM BoardTypes == BoardSpec => []TypeOK
  <1>1. BoardInit => TypeInv
    BY TypeInvInit
  <1>2. TypeInv /\ [BoardNext]_boardVars => TypeInv'
    BY TypeInvStep
  <1>3. TypeInv => TypeOK
    BY TypeInvIsTypeOK
  <1> QED BY <1>1, <1>2, <1>3, PTL DEF BoardSpec

-------------------------------------------------------------------------------
(* What the requests have met, and what each step writes. *)

\* Requests for a post that are under way at once are remembered.
Meets ==
    \A t, u \in Tasks :
        t # u /\ Running(t) /\ Running(u) /\ task[t].post = task[u].post /\ task[t].post \in Posts
        => <<task[t].kind, task[u].kind>> \in met[task[t].post]

\* A request that went on is the one it was.
Same(u) ==
    /\ Running(u)
    /\ task'[u].kind = task[u].kind /\ task'[u].post = task[u].post
    /\ task'[u].user = task[u].user /\ task'[u].app = task[u].app /\ task'[u].copy = task[u].copy
    /\ task[u].kind \in Writers => task'[u].row.archived = task[u].row.archived
    /\ "addSaved" \in task'[u].todo => "addSaved" \in task[u].todo \/ FindSaved(u)
    /\ "saveNew" \in task'[u].todo => "saveNew" \in task[u].todo \/ FindExisting(u)

Came(u) == \E new : /\ Begin(u, new) /\ Request(u) /\ Arrives(new)
                    /\ task'[u].kind = new.kind /\ task'[u].post = new.post /\ task'[u].user = new.user
                    /\ task'[u].app = new.app /\ task'[u].copy = new.copy /\ task'[u].row = new.row
                    /\ task'[u].todo = new.todo

LEMMA NextMoves ==
    ASSUME TypeInv, [BoardNext]_boardVars, NEW u \in Tasks, Running(u)'
    PROVE  Same(u) \/ Came(u)
  <1>1. CASE UNCHANGED boardVars
    BY <1>1 DEF boardVars, Running, Same
  <1>2. CASE Crash
    BY <1>2, CrashKeeps DEF TypeInv, Running
  <1>3. ASSUME NEW t \in Tasks, Request(t) PROVE Same(u) \/ Came(u)
    <2>1. PICK new : Begin(t, new) /\ Arrives(new)
      BY <1>3, RequestArrives
    <2>2. task'[t] = new /\ \A v \in Tasks \ {t} : task'[v] = task[v]
      BY <2>1, BeginKeeps DEF Arrives, TypeInv
    <2>3. CASE u = t
      BY <1>3, <2>1, <2>2, <2>3 DEF Came
    <2>4. CASE u # t
      BY <2>2, <2>4 DEF Same, Running
    <2> QED BY <2>3, <2>4
  <1>4. ASSUME NEW t \in Tasks, Step(t) PROVE Same(u)
    <2>1. PICK step \in Steps, new \in SUBSET Steps :
             /\ At(t, step) /\ Onward(t, step, new)
             /\ "addSaved" \in new => FindSaved(t)
             /\ "saveNew" \in new => FindExisting(t)
      BY <1>4, StepMoves DEF Moved
    <2> QED BY <2>1 DEF Onward, Same
  <1> QED BY <1>1, <1>2, <1>3, <1>4 DEF BoardNext

LEMMA MetGrows ==
    ASSUME MetOK, [BoardNext]_boardVars, NEW p \in Posts, NEW kinds, NEW others, Met(p, kinds, others)
    PROVE  Met(p, kinds, others)'
  <1>1. met[p] \subseteq met'[p]
    BY DEF MetOK, BoardNext, Remember, boardVars
  <1> QED BY <1>1 DEF Met

LEMMA MeetsInit == BoardInit => Meets
  BY DEF BoardInit, Meets, Running

LEMMA MeetsStep == ASSUME TypeInv, Meets, [BoardNext]_boardVars PROVE Meets'
  <1>1. CASE UNCHANGED boardVars
    BY <1>1 DEF boardVars, Meets, Running
  <1>2. CASE Remember
    <2> SUFFICES ASSUME NEW t \in Tasks, NEW u \in Tasks, t # u, Running(t)', Running(u)',
                        task'[t].post = task'[u].post, task'[t].post \in Posts
                 PROVE  <<task'[t].kind, task'[u].kind>> \in met'[task'[t].post]
      BY DEF Meets
    <2>0. PICK p \in Posts : p = task'[t].post
      OBVIOUS
    <2>1. <<task'[t].kind, task'[u].kind>> \in Overlaps(p)'
      <3> DEFINE on == {v \in Tasks : Running(v)' /\ (task'[v].post = p \/ task'[v].kind = "reindex")}
      <3>1. t \in on /\ u \in on
        BY <2>0
      <3>2. <<t, u>> \in {x \in on \X on : x[1] # x[2] \/ task'[x[1]].kind = "reindex" \/ Strays(x[1])'}
        BY <3>1
      <3> QED BY <3>2 DEF Overlaps
    <2>2. met'[p] = met[p] \cup Overlaps(p)' /\ p \in Posts
      BY <1>2 DEF Remember
    <2> QED BY <2>0, <2>1, <2>2
  <1> QED BY <1>1, <1>2 DEF BoardNext

LEMMA StepWrites ==
    ASSUME NEW t \in Tasks, Step(t)
    PROVE  /\ AddSaved(t) \/ saved' \subseteq saved
           /\ CancelApps(t) \/ DeleteRow(t) \/ SaveNew(t) \/ SaveApp(t) \/ apps' = apps
           /\ ArchiveRow(t) \/ Write(t) \/ DeleteRow(t) \/ SaveRow(t) \/ posts' = posts
           /\ DeleteRow(t) \/ deleted' = deleted
  <1>1. CASE \/ FindPost(t) \/ SaveEvent(t) \/ Reload(t) \/ IndexJobPost(t) \/ GetDoc(t) \/ DeleteDoc(t)
             \/ FindEvents(t) \/ RemoveEvents(t) \/ UpdateDoc(t) \/ FindSaved(t) \/ FindExisting(t)
             \/ SaveReview(t) \/ PutObject(t) \/ PutFails(t) \/ DeleteObject(t) \/ Bulk(t) \/ Reject(t)
    BY <1>1 DEF FindPost, SaveEvent, Reload, IndexJobPost, GetDoc, DeleteDoc, FindEvents, RemoveEvents,
                UpdateDoc, FindSaved, FindExisting, SaveReview, PutObject, PutFails, DeleteObject, Bulk,
                Reject, Only, NotData, NotEvents, NotReviews, NotIndex, NotBucket, tables
  <1>2. CASE ArchiveRow(t) \/ Write(t) \/ SaveRow(t)
    BY <1>2 DEF ArchiveRow, Write, SaveRow, Only, NotPosts
  <1>3. CASE CancelApps(t) \/ SaveNew(t) \/ SaveApp(t)
    BY <1>3 DEF CancelApps, SaveNew, SaveApp, Only, NotApps
  <1>4. CASE AddSaved(t) \/ RemoveSaved(t)
    BY <1>4 DEF AddSaved, RemoveSaved, Only, NotSaved
  <1>5. CASE DeleteRow(t)
    BY <1>5 DEF DeleteRow, Only
  <1> QED BY <1>1, <1>2, <1>3, <1>4, <1>5 DEF Step

LEMMA NextWrites ==
    ASSUME [BoardNext]_boardVars
    PROVE  /\ saved' \subseteq saved \/ \E t \in Tasks : AddSaved(t)
           /\ apps' = apps \/ \E t \in Tasks : CancelApps(t) \/ DeleteRow(t) \/ SaveNew(t) \/ SaveApp(t)
           /\ \/ posts' = posts
              \/ \E t \in Tasks : ArchiveRow(t) \/ Write(t) \/ DeleteRow(t) \/ SaveRow(t)
              \/ \E t \in Tasks, p \in Posts : Request(t) /\ Create(t, p)
           /\ deleted' = deleted \/ \E t \in Tasks : DeleteRow(t)
  <1>1. CASE UNCHANGED boardVars \/ Crash
    BY <1>1 DEF boardVars, tables, Crash
  <1>2. ASSUME NEW t \in Tasks, Request(t)
        PROVE  /\ UNCHANGED <<saved, apps, deleted>>
               /\ UNCHANGED posts \/ \E p \in Posts : Create(t, p)
    BY <1>2, RequestWrites DEF NotPosts
  <1>3. CASE \E t \in Tasks : Request(t)
    BY <1>2, <1>3
  <1>4. CASE \E t \in Tasks : Step(t)
    <2>1. PICK t \in Tasks : Step(t)
      BY <1>4
    <2> QED BY <2>1, StepWrites
  <1> QED BY <1>1, <1>3, <1>4 DEF BoardNext

-------------------------------------------------------------------------------
(* Saved posts. *)

Toggles(p) == Met(p, {"toggleSave"}, {"toggleSave"})

\* A toggle that found no row finds one when it adds its own only if another met it.
SavedInv ==
    /\ SavedOnce
    /\ \A t \in Tasks : At(t, "addSaved") /\ SavedOf(Post(t), task[t].user) # {} => Toggles(Post(t))

LEMMA ContinueTodo ==
    ASSUME TasksOK, NEW t \in Tasks, NEW step, NEW new, NEW rec \in Task, Continue(t, step, new, rec)
    PROVE  task'[t].todo = Rest(t, step) \cup new
  <1> DEFINE todo == Rest(t, step) \cup new
             done == Answered(rec.kind, rec.post, rec.failed)
             after == [rec EXCEPT !.todo = todo]
  <1>1. done.todo = {} /\ after.todo = todo
    BY DEF Answered, Fresh, Task
  <1> HIDE DEF done, after
  <1>2. task' = [task EXCEPT ![t] = IF todo = {} THEN done ELSE after]
    BY DEF Continue, done, after
  <1>3. task'[t] = IF todo = {} THEN done ELSE after
    BY <1>2 DEF TasksOK
  <1> QED BY <1>1, <1>3

\* What a toggle found and did.
LEMMA FindSavedFinds ==
    ASSUME TypeInv, NEW t \in Tasks, FindSaved(t), "addSaved" \in task'[t].todo, "addSaved" \notin task[t].todo
    PROVE  SavedOf(Post(t), task[t].user) = {}
  <1>1. task[t] \in Task /\ At(t, "findSaved")
    BY AtTask DEF FindSaved, TypeInv
  <1>2. ASSUME NEW s \in saved, Continue(t, "findSaved", {"removeSaved"}, [task[t] EXCEPT !.found = {s}])
        PROVE  FALSE
    <2> DEFINE rec == [task[t] EXCEPT !.found = {s}]
    <2>1. rec \in Task
      BY <1>1 DEF Task, TypeInv, DataOK
    <2>2. Continue(t, "findSaved", {"removeSaved"}, rec)
      BY <1>2
    <2> HIDE DEF rec
    <2>3. task'[t].todo = Rest(t, "findSaved") \cup {"removeSaved"}
      BY <2>1, <2>2, ContinueTodo DEF TypeInv
    <2> QED BY <2>3 DEF Rest
  <1> QED BY <1>2 DEF FindSaved, SavedOf

LEMMA AddSavedAdds ==
    ASSUME TypeInv, NEW t \in Tasks, AddSaved(t)
    PROVE  /\ At(t, "addSaved") /\ Running(t) /\ task[t].kind = "toggleSave" /\ Post(t) \in Posts
           /\ "addSaved" \notin task'[t].todo
           /\ \A s \in saved' \ saved : s.post = Post(t) /\ s.user = task[t].user
  <1>1. At(t, "addSaved")
    BY DEF AddSaved
  <1>2. task[t] \in Task /\ Sound(task[t]) /\ Running(t) /\ "addSaved" \in task[t].todo
    BY <1>1, AtTask DEF TypeInv, At
  <1>3. task[t].kind = "toggleSave" /\ Post(t) \in Posts
    BY <1>2 DEF Sound, Post
  <1>4. [task[t] EXCEPT !.failed = TRUE] \in Task
    BY <1>2 DEF Task
  <1>5. task'[t].todo = Rest(t, "addSaved") \cup {}
    BY <1>2, <1>4, ContinueTodo DEF AddSaved, Done, Then, Rejected, TypeInv
  <1> QED BY <1>1, <1>2, <1>3, <1>5 DEF AddSaved, Rest

LEMMA SavedInit == BoardInit => SavedInv
  <1> SUFFICES ASSUME BoardInit PROVE SavedInv
    OBVIOUS
  <1>1. PICK s \in Scenarios : saved = s.saved /\ task = [t \in Tasks |-> None]
    BY DEF BoardInit
  <1>2. \A r, q \in s.saved : r # q => <<r.post, r.user>> # <<q.post, q.user>>
    BY BoardAssumption DEF NoDoubles
  <1> QED BY <1>1, <1>2 DEF SavedInv, SavedOnce, At

LEMMA SavedStep == ASSUME TypeInv, Meets, SavedInv, [BoardNext]_boardVars PROVE SavedInv'
  <1>1. \A p \in Posts : Toggles(p) => Toggles(p)'
    BY MetGrows DEF Toggles, TypeInv
  <1>2. \A s \in saved : s.post \in Posts
    BY DEF TypeInv, DataOK, Saved
  <1>3. SavedOnce'
    <2> SUFFICES ASSUME NEW r \in saved', NEW s \in saved', r # s, r.post = s.post, r.user = s.user
                 PROVE  Toggles(r.post)'
      BY DEF SavedOnce, Toggles
    <2>1. CASE r \in saved /\ s \in saved
      BY <1>1, <1>2, <2>1 DEF SavedInv, SavedOnce, Toggles
    <2>2. CASE ~(r \in saved /\ s \in saved)
      <3>1. PICK t \in Tasks : AddSaved(t)
        BY <2>2, NextWrites
      <3>2. At(t, "addSaved") /\ Post(t) \in Posts /\ r.post = Post(t) /\ r.user = task[t].user
        BY <2>2, <3>1, AddSavedAdds
      <3>3. SavedOf(Post(t), task[t].user) # {}
        <4>1. r \in saved \/ s \in saved
          BY <3>1 DEF AddSaved
        <4> QED BY <3>2, <4>1 DEF SavedOf
      <3> QED BY <1>1, <3>2, <3>3 DEF SavedInv
    <2> QED BY <2>1, <2>2
  <1>4. ASSUME NEW u \in Tasks, At(u, "addSaved")', SavedOf(Post(u), task[u].user)' # {}
        PROVE  Toggles(Post(u))'
    <2>1. Running(u)' /\ "addSaved" \in task'[u].todo
      BY <1>4 DEF At, Running
    <2>2. Same(u) \/ Came(u)
      BY <2>1, NextMoves
    <2>3. Same(u)
      BY <2>1, <2>2 DEF Came, Arrives
    <2>4. Running(u) /\ task'[u].post = Post(u) /\ task'[u].user = task[u].user /\ task'[u].kind = task[u].kind
      BY <2>3 DEF Same, Post
    <2>5. task[u].kind = "toggleSave" /\ Post(u) \in Posts
      <3>1. Sound(task'[u])
        <4>1. TasksOK'
          BY TypeInvStep DEF TypeInv
        <4>2. Sound(task[u])'
          BY <4>1, <2>1 DEF TasksOK, Running
        <4> QED BY <4>2 DEF Sound
      <3> QED BY <2>1, <2>4, <3>1 DEF Sound
    <2>6. PICK s \in saved' : s.post = Post(u) /\ s.user = task[u].user
      BY <1>4, <2>4 DEF SavedOf, Post
    <2>0. Toggles(Post(u)) => Toggles(Post(u))'
      <3>1. PICK p \in Posts : p = Post(u)
        BY <2>5
      <3>2. Post(u)' = p
        BY <2>4, <3>1 DEF Post
      <3> QED BY <1>1, <3>1, <3>2 DEF Toggles, Met
    <2>7. CASE s \in saved
      <3>1. SavedOf(Post(u), task[u].user) # {}
        BY <2>6, <2>7 DEF SavedOf
      <3>2. "addSaved" \in task[u].todo
        BY <2>1, <2>3, <3>1, FindSavedFinds DEF Same
      <3>3. Toggles(Post(u))
        BY <2>4, <3>1, <3>2 DEF SavedInv, At, Running
      <3> QED BY <2>0, <3>3
    <2>8. CASE s \notin saved
      <3>1. PICK t \in Tasks : AddSaved(t)
        BY <2>8, NextWrites
      <3>2. Running(t) /\ task[t].kind = "toggleSave" /\ Post(t) = Post(u) /\ t # u
        BY <2>1, <2>6, <2>8, <3>1, AddSavedAdds
      <3>3. <<"toggleSave", "toggleSave">> \in met[Post(u)]
        BY <2>4, <2>5, <3>2 DEF Meets, Post
      <3>4. Toggles(Post(u))
        BY <3>3 DEF Toggles, Met
      <3> QED BY <2>0, <3>4
    <2> QED BY <2>7, <2>8
  <1> QED BY <1>3, <1>4 DEF SavedInv

-------------------------------------------------------------------------------
(* What a step does to a post. *)

Kept(p) == (Exists(p)' <=> Exists(p)) /\ (Exists(p) => posts'[p].archived = posts[p].archived)
Created(p) == ~Exists(p) /\ p \notin deleted /\ Exists(p)' /\ posts'[p].archived = FALSE
               /\ \E t \in Tasks : Begin(t, Fresh("create", p, {"findPost"})) /\ Request(t)
Archived(p) == Exists(p)' /\ Exists(p) /\ posts'[p].archived = TRUE
                /\ \E t \in Tasks : Running(t) /\ task[t].post = p /\ task[t].kind = "archive"
Removed(p) == Exists(p) /\ ~Exists(p)' /\ p \in deleted'
               /\ \E t \in Tasks : Running(t) /\ task[t].post = p /\ task[t].kind = "delete"
PutBack(p) == Exists(p)' /\ \E t \in Tasks : /\ Running(t) /\ task[t].post = p /\ task[t].kind \in Writers
                                             /\ posts'[p].archived = task[t].row.archived

\* A waiting step is of a request of its kind.
LEMMA StepKinds ==
    ASSUME TypeInv, NEW t \in Tasks
    PROVE  /\ At(t, "archiveRow") => Running(t) /\ task[t].kind = "archive"
           /\ At(t, "cancelApps") => Running(t) /\ task[t].kind = "archive"
           /\ At(t, "deleteRow") => Running(t) /\ task[t].kind = "delete"
           /\ At(t, "write") => Running(t) /\ task[t].kind = "update"
           /\ At(t, "saveNew") => Running(t) /\ task[t].kind = "apply" /\ task[t].user \in Applicants
           /\ At(t, "saveRow") => Running(t) /\ task[t].kind \in Writers /\ task[t].row \in Row
           /\ At(t, "saveApp") =>
                 /\ Running(t) /\ task[t].kind \in Answers /\ task[t].app \in Ids
                 /\ task[t].copy \in App /\ task[t].copy.post = task[t].post
                 /\ task[t].copy.status = "completed" => task[t].kind \in {"complete", "markCompleted"}
           /\ Running(t) /\ task[t].kind # "reindex" => Post(t) \in Posts
  <1>1. Running(t) => Sound(task[t]) /\ task[t] \in Task /\ task[t].todo # {}
    BY DEF TypeInv, TasksOK, Running
  <1>2. \A s : At(t, s) => Running(t) /\ s \in task[t].todo
    BY DEF At, Running
  <1>3. Writers = {"upload", "deleteImage", "complete"}
    BY DEF Writers, Images
  <1>4. Answers = {"respond", "complete", "withdraw", "markCompleted"}
    BY DEF Answers
  <1> QED BY <1>1, <1>2, <1>3, <1>4 DEF Sound, Post

LEMMA PostChange ==
    ASSUME TypeInv, [BoardNext]_boardVars, NEW p \in Posts
    PROVE  Kept(p) \/ Created(p) \/ Archived(p) \/ Removed(p) \/ PutBack(p)
  <1>1. ASSUME posts' = posts PROVE Kept(p)
    BY <1>1 DEF Kept, Exists
  <1>2. ASSUME NEW t \in Tasks, ArchiveRow(t) PROVE Kept(p) \/ Archived(p)
    <2>1. Running(t) /\ task[t].kind = "archive"
      BY <1>2, StepKinds DEF ArchiveRow
    <2>2. CASE p = Post(t) /\ Exists(p)
      <3>1. posts'[p] = [posts[p] EXCEPT !.archived = TRUE] /\ posts[p] \in Row
        BY <1>2, <2>2 DEF ArchiveRow, TypeInv, DataOK, Exists
      <3>2. posts'[p] \in Row /\ posts'[p].archived = TRUE
        BY <3>1 DEF Row
      <3> QED BY <2>1, <2>2, <3>2, NoneIsNone DEF Archived, Exists, Post
    <2>3. CASE ~(p = Post(t) /\ Exists(p))
      BY <1>2, <2>3 DEF ArchiveRow, Kept, Exists, TypeInv, DataOK
    <2> QED BY <2>2, <2>3
  <1>3. ASSUME NEW t \in Tasks, Write(t) PROVE Kept(p)
    <2>1. CASE p = Post(t) /\ Exists(p)
      <3>1. posts'[p] = [posts[p] EXCEPT !.rev = @ + 1] /\ posts[p] \in Row
        BY <1>3, <2>1 DEF Write, TypeInv, DataOK, Exists
      <3>2. posts'[p] \in Row /\ posts'[p].archived = posts[p].archived
        BY <3>1 DEF Row
      <3> QED BY <2>1, <3>2, NoneIsNone DEF Kept, Exists
    <2>2. CASE ~(p = Post(t) /\ Exists(p))
      BY <1>3, <2>2 DEF Write, Kept, Exists, TypeInv, DataOK
    <2> QED BY <2>1, <2>2
  <1>4. ASSUME NEW t \in Tasks, DeleteRow(t) PROVE Kept(p) \/ Removed(p)
    <2>1. Running(t) /\ task[t].kind = "delete"
      BY <1>4, StepKinds DEF DeleteRow
    <2>2. CASE p = Post(t) /\ Exists(p) /\ posts' # posts
      BY <1>4, <2>1, <2>2 DEF DeleteRow, Removed, Exists, Post, TypeInv, DataOK
    <2>3. CASE ~(p = Post(t) /\ Exists(p) /\ posts' # posts)
      BY <1>4, <2>3 DEF DeleteRow, Kept, Exists, TypeInv, DataOK
    <2> QED BY <2>2, <2>3
  <1>5. ASSUME NEW t \in Tasks, SaveRow(t) PROVE Kept(p) \/ PutBack(p)
    <2>1. Running(t) /\ task[t].kind \in Writers /\ task[t].row \in Row
      BY <1>5, StepKinds DEF SaveRow
    <2>2. CASE p = Post(t)
      <3> DEFINE employer == IF Exists(Post(t)) THEN posts[Post(t)].employer ELSE task[t].kind # "upload"
      <3>1. posts'[p] = [task[t].row EXCEPT !.employer = employer]
        BY <1>5, <2>2 DEF SaveRow, TypeInv, DataOK
      <3>2. employer \in BOOLEAN
        BY <2>2 DEF Exists, TypeInv, DataOK, Row
      <3> HIDE DEF employer
      <3>3. posts'[p] \in Row /\ posts'[p].archived = task[t].row.archived
        BY <2>1, <3>1, <3>2 DEF Row
      <3> QED BY <2>1, <2>2, <3>3, NoneIsNone DEF PutBack, Exists, Post
    <2>3. CASE p # Post(t)
      BY <1>5, <2>3 DEF SaveRow, Kept, Exists, TypeInv, DataOK
    <2> QED BY <2>2, <2>3
  <1>6. ASSUME NEW t \in Tasks, NEW q \in Posts, Request(t), Create(t, q) PROVE Kept(p) \/ Created(p)
    <2>1. CASE p = q
      <3>1. posts'[p] = NewRow /\ NewRow \in Row /\ NewRow.archived = FALSE
        BY <1>6, <2>1 DEF Create, TypeInv, DataOK, NewRow, Row
      <3> QED BY <1>6, <2>1, <3>1, NoneIsNone DEF Create, Created, Exists
    <2>2. CASE p # q
      BY <1>6, <2>2 DEF Create, Kept, Exists, TypeInv, DataOK
    <2> QED BY <2>1, <2>2
  <1> QED BY <1>1, <1>2, <1>3, <1>4, <1>5, <1>6, NextWrites

\* Only a post that is removed is new among the deleted.
LEMMA DeletedChange ==
    ASSUME TypeInv, [BoardNext]_boardVars
    PROVE  /\ deleted \subseteq deleted'
           /\ \A p \in Posts : p \in deleted' /\ p \notin deleted =>
                  /\ ~Exists(p)'
                  /\ \E t \in Tasks : Running(t) /\ task[t].post = p /\ task[t].kind = "delete"
  <1>1. ASSUME NEW t \in Tasks, DeleteRow(t), NEW p \in Posts, p \in deleted', p \notin deleted
        PROVE  ~Exists(p)' /\ Running(t) /\ task[t].post = p /\ task[t].kind = "delete"
    <2>1. Running(t) /\ task[t].kind = "delete"
      BY <1>1, StepKinds DEF DeleteRow
    <2>2. p \notin AppsOf(Post(t))
      BY NoneIsNone DEF AppsOf, AppIds
    <2>3. p = Post(t) /\ posts' = [posts EXCEPT ![Post(t)] = None]
      BY <1>1, <2>2 DEF DeleteRow
    <2> QED BY <2>1, <2>3 DEF Exists, Post, TypeInv, DataOK
  <1>2. \A t \in Tasks : DeleteRow(t) => deleted \subseteq deleted'
    BY DEF DeleteRow
  <1> QED BY <1>1, <1>2, NextWrites

-------------------------------------------------------------------------------
(* Deleted and archived posts. *)

\* A post that was deleted is there again only if its deletion met a request that
\* saves the whole row.
ReturnedInv ==
    /\ \A p \in Posts : p \in deleted /\ Exists(p) => Met(p, {"delete"}, Writers)
    /\ \A t \in Tasks : Running(t) /\ task[t].kind \in Writers =>
          /\ Exists(Post(t)) \/ Post(t) \in deleted
          /\ Post(t) \in deleted => Met(Post(t), {"delete"}, Writers)

\* The image that a request has of a post is stale only if it met one that closes it.
ClosedInv ==
    \A t \in Tasks : Running(t) /\ task[t].kind \in Images =>
        IF task[t].row.archived THEN IsLive(Post(t)) => Met(Post(t), Images, Closing)
                                ELSE IsClosed(Post(t)) => Met(Post(t), Images, Closing)

LEMMA ReturnedStep ==
    ASSUME TypeInv, Meets, ReturnedInv, [BoardNext]_boardVars PROVE ReturnedInv'
  <1>1. \A p \in Posts : Met(p, {"delete"}, Writers) => Met(p, {"delete"}, Writers)'
    BY MetGrows DEF TypeInv
  <1>2. ASSUME NEW p \in Posts, p \in deleted', Exists(p)' PROVE Met(p, {"delete"}, Writers)'
    <2>1. p \in deleted
      BY <1>2, DeletedChange
    <2>2. Exists(p) \/ \E t \in Tasks : Running(t) /\ Post(t) = p /\ task[t].kind \in Writers
      BY <1>2, <2>1, PostChange DEF Kept, Created, Archived, Removed, PutBack, Post
    <2> QED BY <1>1, <2>1, <2>2 DEF ReturnedInv
  <1>3. ASSUME NEW u \in Tasks, NEW p \in Posts, Running(u)', task'[u].kind \in Writers, p = task'[u].post
        PROVE  (Exists(p)' \/ p \in deleted') /\ (p \in deleted' => Met(p, {"delete"}, Writers)')
    <2>1. CASE Same(u)
      <3>1. Running(u) /\ task[u].kind \in Writers /\ Post(u) = p
        BY <1>3, <2>1 DEF Same, Post
      <3>2. Exists(p) \/ p \in deleted
        BY <3>1 DEF ReturnedInv
      <3>3. Exists(p)' \/ p \in deleted'
        BY <3>2, DeletedChange, PostChange DEF Kept, Created, Archived, Removed, PutBack
      <3>4. CASE p \in deleted
        BY <1>1, <3>1, <3>3, <3>4 DEF ReturnedInv
      <3>5. CASE p \in deleted' /\ p \notin deleted
        <4>1. PICK t \in Tasks : Running(t) /\ task[t].post = p /\ task[t].kind = "delete"
          BY <3>5, DeletedChange
        <4>2. t # u
          BY <3>1, <4>1 DEF Writers, Images
        <4>3. <<"delete", task[u].kind>> \in met[p]
          BY <3>1, <4>1, <4>2 DEF Meets, Post
        <4> QED BY <1>1, <3>1, <3>3, <4>3 DEF Met
      <3> QED BY <3>3, <3>4, <3>5
    <2>2. CASE Came(u)
      <3>1. Request(u) /\ Exists(p)
        BY <1>3, <2>2 DEF Came, Arrives
      <3>2. deleted' = deleted
        BY <3>1, RequestWrites DEF NotPosts
      <3>3. Exists(p)' \/ p \in deleted'
        BY <3>1, PostChange DEF Kept, Created, Archived, Removed, PutBack
      <3> QED BY <1>1, <3>1, <3>2, <3>3 DEF ReturnedInv
    <2> QED BY <1>3, <2>1, <2>2, NextMoves
  <1>4. \A u \in Tasks : Running(u)' /\ task'[u].kind \in Writers => task'[u].post \in Posts
    <2>1. TypeInv'
      BY TypeInvStep
    <2>2. \A u \in Tasks : Running(u)' => Sound(task[u])' /\ task'[u].todo # {}
      BY <2>1 DEF TypeInv, TasksOK, Running
    <2> QED BY <2>2 DEF Sound, Writers, Images
  <1>5. \A u \in Tasks : Running(u)' /\ task'[u].kind \in Writers =>
           \E p \in Posts : /\ p = task'[u].post
                            /\ Exists(p)' \/ p \in deleted'
                            /\ p \in deleted' => Met(p, {"delete"}, Writers)'
    BY <1>3, <1>4
  <1>6. ASSUME NEW u \in Tasks, Running(u)', task'[u].kind \in Writers
        PROVE  /\ Exists(Post(u))' \/ Post(u)' \in deleted'
               /\ Post(u)' \in deleted' => Met(Post(u), {"delete"}, Writers)'
    BY <1>5, <1>6 DEF Post, Exists, Met
  <1> QED BY <1>2, <1>6 DEF ReturnedInv

\* A step that opens a closed post puts back an image of it that was read before.
LEMMA StaysClosedStep ==
    ASSUME TypeInv, ClosedInv, [BoardNext]_boardVars, NEW p \in Posts, IsClosed(p), IsLive(p)'
    PROVE  Met(p, Images, Closing)
  <1>1. ~Kept(p) /\ ~Archived(p) /\ ~Removed(p) /\ ~Created(p)
    BY DEF IsClosed, IsLive, Kept, Archived, Removed, Created, Exists
  <1>2. PutBack(p)
    BY <1>1, PostChange
  <1>3. PICK t \in Tasks : /\ Running(t) /\ Post(t) = p /\ task[t].kind \in Writers
                           /\ posts'[p].archived = task[t].row.archived
    BY <1>2 DEF PutBack, Post
  <1>4. task[t].row.archived # TRUE
    BY <1>3 DEF IsLive
  <1>5. Sound(task[t])
    BY <1>3 DEF TypeInv, TasksOK, Running
  <1>6. task[t].kind \in Images /\ task[t].row \in Row
    BY <1>3, <1>4, <1>5 DEF Sound, Writers, Running
  <1>7. ~task[t].row.archived
    BY <1>4, <1>6 DEF Row
  <1> QED BY <1>3, <1>6, <1>7 DEF ClosedInv

LEMMA ClosedStep ==
    ASSUME TypeInv, Meets, ReturnedInv, ClosedInv, [BoardNext]_boardVars PROVE ClosedInv'
  <1>1. \A p \in Posts : Met(p, Images, Closing) => Met(p, Images, Closing)'
    BY MetGrows DEF TypeInv
  <1>2. \A u \in Tasks : Running(u)' => Sound(task[u])'
    <2>1. TypeInv'
      BY TypeInvStep
    <2> QED BY <2>1 DEF TypeInv, TasksOK, Running
  <1>3. ASSUME NEW u \in Tasks, NEW p \in Posts, Running(u)', task'[u].kind \in Images, p = task'[u].post,
               NEW stale \in BOOLEAN, stale = task'[u].row.archived,
               IF stale THEN IsLive(p)' ELSE IsClosed(p)'
        PROVE  Met(p, Images, Closing)'
    <2>0. task'[u].kind \in Writers /\ task'[u].kind \notin Closing
      BY <1>3 DEF Writers, Closing, Images
    <2>1. CASE Same(u)
      <3>1. /\ Running(u) /\ task[u].kind \in Images /\ Post(u) = p /\ task[u].row.archived = stale
            /\ task[u].kind \in Writers /\ task[u].kind \notin Closing
        BY <1>3, <2>0, <2>1 DEF Same, Post
      <3>2. CASE IF stale THEN IsLive(p) ELSE IsClosed(p)
        BY <1>1, <3>1, <3>2 DEF ClosedInv
      <3>3. CASE stale /\ ~IsLive(p)
        <4>1. IsClosed(p)
          BY <3>1, <3>3 DEF ReturnedInv, IsClosed
        <4>2. IsLive(p)'
          BY <1>3, <3>3
        <4> QED BY <1>1, <4>1, <4>2, StaysClosedStep
      <3>4. CASE ~stale /\ ~IsClosed(p)
        <4>1. IsLive(p)
          BY <3>1, <3>4 DEF ReturnedInv, IsClosed
        <4>2. ~IsLive(p)'
          BY <1>3, <3>4 DEF IsClosed
        <4>3. ASSUME NEW t \in Tasks, Running(t), task[t].post = p, task[t].kind \in Closing
              PROVE  Met(p, Images, Closing)
          <5>1. <<task[u].kind, task[t].kind>> \in met[p]
            BY <3>1, <4>3 DEF Meets, Post
          <5> QED BY <3>1, <4>3, <5>1 DEF Met
        <4>4. CASE Kept(p) \/ Created(p)
          BY <4>1, <4>2, <4>4 DEF Kept, Created, IsLive, Exists
        <4>5. CASE Archived(p) \/ Removed(p)
          BY <1>1, <4>3, <4>5 DEF Archived, Removed, Closing
        <4>6. CASE PutBack(p)
          <5>1. PICK t \in Tasks : /\ Running(t) /\ Post(t) = p /\ task[t].kind \in Writers
                                   /\ posts'[p].archived = task[t].row.archived
            BY <4>6 DEF PutBack, Post
          <5>2. task[t].row.archived
            BY <4>2, <4>6, <5>1 DEF PutBack, IsLive
          <5>3. CASE task[t].kind \in Images
            BY <1>1, <4>1, <5>1, <5>2, <5>3 DEF ClosedInv
          <5>4. CASE task[t].kind = "complete"
            BY <1>1, <4>3, <5>1, <5>4 DEF Post, Closing
          <5> QED BY <5>1, <5>3, <5>4 DEF Writers
        <4> QED BY <4>4, <4>5, <4>6, PostChange
      <3> QED BY <3>2, <3>3, <3>4
    <2>2. CASE Came(u)
      <3>1. /\ Request(u) /\ Exists(p) /\ task'[u].kind \in Images /\ stale = posts[p].archived
        BY <1>3, <2>0, <2>2 DEF Came, Arrives
      <3>2. ASSUME NEW q \in Posts, Create(u, q) PROVE FALSE
        <4>1. task' = [task EXCEPT ![u] = Fresh("create", q, {"findPost"})]
          BY <3>2 DEF Create, Begin
        <4>2. task'[u].kind = "create"
          BY <4>1 DEF TypeInv, TasksOK, Fresh
        <4> QED BY <3>1, <4>2 DEF Images
      <3>3. posts' = posts
        BY <3>1, <3>2, RequestWrites
      <3> QED BY <1>3, <3>1, <3>3 DEF IsLive, IsClosed, Exists
    <2> QED BY <1>3, <2>1, <2>2, NextMoves
  <1>4. ASSUME NEW u \in Tasks, Running(u)', task'[u].kind \in Images,
               IF task'[u].row.archived THEN IsLive(Post(u))' ELSE IsClosed(Post(u))'
        PROVE  Met(Post(u), Images, Closing)'
    <2>1. task'[u].post \in Posts /\ task'[u].row \in Row
      BY <1>2, <1>4 DEF Sound, Writers, Images, Running
    <2>2. PICK p \in Posts, stale \in BOOLEAN : p = task'[u].post /\ stale = task'[u].row.archived
      BY <2>1 DEF Row
    <2>3. IF stale THEN IsLive(p)' ELSE IsClosed(p)'
      BY <1>4, <2>2 DEF IsLive, IsClosed, Exists, Post
    <2>4. Met(p, Images, Closing)'
      BY <1>3, <1>4, <2>2, <2>3
    <2> QED BY <2>2, <2>4 DEF Met, Post
  <1> QED BY <1>4 DEF ClosedInv

-------------------------------------------------------------------------------
(* Applications. *)

Twice(p) == Met(p, {"apply"}, {"apply"}) \/ Met(p, {"delete"}, Writers)

\* What a request answers: the application it read, while that is there.
AnswersInv ==
    /\ \A t \in Tasks : Running(t) /\ task[t].kind \in Answers =>
          /\ task[t].app \in AppIds \cup deleted
          /\ task[t].app \in AppIds => /\ apps[task[t].app].post = Post(t)
                                       /\ apps[task[t].app].user = task[t].copy.user
          /\ Post(t) \notin deleted => task[t].app \in AppIds
    /\ \A t, u \in Tasks : /\ Running(t) /\ task[t].kind \in Answers
                           /\ Running(u) /\ task[u].kind \in Answers
                           /\ task[t].app = task[u].app
                           => Post(t) = Post(u) /\ task[t].copy.user = task[u].copy.user

\* A request to apply that found no application finds one when it saves its own
\* only if another met it, or an application was put back.
AppliedInv ==
    /\ AppliedOnce
    /\ \A t \in Tasks : At(t, "saveNew") /\ (\E a \in AppsOf(Post(t)) : apps[a].user = task[t].user)
                        => Twice(Post(t))

AppKept(a) == /\ (apps'[a] # None) <=> a \in AppIds
              /\ a \in AppIds => apps'[a].post = apps[a].post /\ apps'[a].user = apps[a].user
AppRemoved(a) == a \in AppIds /\ apps'[a] = None /\ a \in deleted' /\ apps[a].post \in deleted'
AppNew(a) == /\ a \notin AppIds \cup deleted /\ apps'[a] # None
             /\ \A b \in Ids \ {a} : apps'[b] = apps[b]
             /\ \E t \in Tasks : /\ At(t, "saveNew") /\ "saveNew" \notin task'[t].todo
                                 /\ apps'[a].post = Post(t) /\ apps'[a].user = task[t].user
AppRestored(a) == /\ a \notin AppIds /\ apps'[a] # None /\ Twice(apps'[a].post)
                  /\ \E t \in Tasks : /\ Running(t) /\ task[t].kind \in Answers /\ task[t].app = a
                                      /\ apps'[a] = task[t].copy /\ task[t].copy.post = Post(t)

LEMMA FindExistingFinds ==
    ASSUME TypeInv, NEW t \in Tasks, FindExisting(t), "saveNew" \in task'[t].todo, "saveNew" \notin task[t].todo
    PROVE  ~\E a \in AppsOf(Post(t)) : apps[a].user = task[t].user
  <1>1. task[t] \in Task
    BY AtTask DEF FindExisting, TypeInv
  <1>2. ASSUME Rejected(t, "findExisting") PROVE FALSE
    <2>1. [task[t] EXCEPT !.failed = TRUE] \in Task
      BY <1>1 DEF Task
    <2>2. task'[t].todo = Rest(t, "findExisting") \cup {}
      BY <1>2, <2>1, ContinueTodo DEF Rejected, TypeInv
    <2> QED BY <2>2 DEF Rest
  <1> QED BY <1>2 DEF FindExisting

LEMMA AppChange ==
    ASSUME TypeInv, ReturnedInv, AnswersInv, [BoardNext]_boardVars, NEW a \in Ids
    PROVE  AppKept(a) \/ AppRemoved(a) \/ AppNew(a) \/ AppRestored(a)
  <1> USE DEF TypeInv, DataOK
  <1>1. ASSUME apps' = apps PROVE AppKept(a)
    BY <1>1 DEF AppKept, AppIds
  <1>2. ASSUME NEW t \in Tasks, CancelApps(t) PROVE AppKept(a)
    <2>1. CASE a \in AppsOf(Post(t))
      <3>1. apps[a] \in App /\ a \in AppIds
        BY <2>1 DEF AppsOf, AppIds
      <3>2. apps'[a] = [apps[a] EXCEPT !.archived = TRUE, !.status = "cancelled"]
        BY <1>2, <2>1 DEF CancelApps
      <3>3. apps'[a] \in App /\ apps'[a].post = apps[a].post /\ apps'[a].user = apps[a].user
        BY <3>1, <3>2 DEF App, Statuses
      <3> QED BY <3>1, <3>3, NoneIsNone DEF AppKept
    <2>2. CASE a \notin AppsOf(Post(t))
      BY <1>2, <2>2 DEF CancelApps, AppKept, AppIds
    <2> QED BY <2>1, <2>2
  <1>3. ASSUME NEW t \in Tasks, DeleteRow(t) PROVE AppKept(a) \/ AppRemoved(a)
    <2>1. CASE a \in AppsOf(Post(t)) /\ apps' # apps
      BY <1>3, <2>1 DEF DeleteRow, AppRemoved, AppsOf
    <2>2. CASE ~(a \in AppsOf(Post(t)) /\ apps' # apps)
      BY <1>3, <2>2 DEF DeleteRow, AppKept, AppIds
    <2> QED BY <2>1, <2>2
  <1>4. ASSUME NEW t \in Tasks, SaveNew(t) PROVE AppKept(a) \/ AppNew(a)
    <2>1. task[t] \in Task /\ [task[t] EXCEPT !.failed = TRUE] \in Task /\ At(t, "saveNew")
      BY <1>4, AtTask DEF SaveNew, Task
    <2>2. "saveNew" \notin task'[t].todo
      <3>1. task'[t].todo = Rest(t, "saveNew") \cup {}
        BY <1>4, <2>1, ContinueTodo DEF SaveNew, Done, Then, Rejected
      <3> QED BY <3>1 DEF Rest
    <2>3. CASE apps' = apps
      BY <1>1, <2>3
    <2>4. CASE apps' # apps
      <3> DEFINE used == AppIds \cup deleted
                 row == [post |-> Post(t), user |-> task[t].user, status |-> "pending", archived |-> FALSE]
      <3>1. HasRoom(used) /\ apps' = [apps EXCEPT ![NewId(used)] = row]
        BY <1>4, <2>4 DEF SaveNew
      <3>2. NewId(used) \in Ids \ used
        BY <3>1 DEF HasRoom, NewId
      <3>3. row \in App /\ row.post = Post(t) /\ row.user = task[t].user
        BY <2>1, StepKinds DEF App, Statuses
      <3> HIDE DEF row
      <3>4. CASE a = NewId(used)
        <4>1. apps'[a] = row /\ \A b \in Ids \ {a} : apps'[b] = apps[b]
          BY <3>1, <3>4
        <4> QED BY <2>1, <2>2, <3>2, <3>3, <3>4, <4>1, NoneIsNone DEF AppNew
      <3>5. CASE a # NewId(used)
        BY <3>1, <3>5 DEF AppKept, AppIds
      <3> QED BY <3>4, <3>5
    <2> QED BY <2>3, <2>4
  <1>5. ASSUME NEW t \in Tasks, SaveApp(t) PROVE AppKept(a) \/ AppRestored(a)
    <2>1. /\ Running(t) /\ task[t].kind \in Answers /\ task[t].app \in Ids
          /\ task[t].copy \in App /\ task[t].copy.post = Post(t)
      BY <1>5, StepKinds DEF SaveApp, Post
    <2>2. Post(t) \in Posts
      BY <2>1 DEF App
    <2>3. CASE task[t].app # a \/ apps' = apps
      BY <1>5, <2>3 DEF SaveApp, AppKept, AppIds
    <2>4. CASE task[t].app = a /\ apps' # apps
      <3>1. Exists(Post(t)) /\ apps'[a] = task[t].copy /\ apps'[a] # None
        BY <1>5, <2>1, <2>4, NoneIsNone DEF SaveApp
      <3>2. CASE a \in AppIds
        BY <2>1, <2>4, <3>1, <3>2 DEF AnswersInv, AppKept
      <3>3. CASE a \notin AppIds
        <4>1. Post(t) \in deleted
          BY <2>1, <2>4, <3>3 DEF AnswersInv
        <4>2. Twice(Post(t))
          BY <2>2, <3>1, <4>1 DEF ReturnedInv, Twice
        <4> QED BY <2>1, <2>4, <3>1, <3>3, <4>2 DEF AppRestored
      <3> QED BY <3>2, <3>3
    <2> QED BY <2>3, <2>4
  <1> QED BY <1>1, <1>2, <1>3, <1>4, <1>5, NextWrites

LEMMA AnswersStep ==
    ASSUME TypeInv, ReturnedInv, AnswersInv, [BoardNext]_boardVars PROVE AnswersInv'
  <1>1. \A u \in Tasks : Running(u)' => Sound(task[u])'
    <2>1. TypeInv'
      BY TypeInvStep
    <2> QED BY <2>1 DEF TypeInv, TasksOK, Running
  <1>2. \A u \in Tasks : Running(u)' /\ task'[u].kind \in Answers =>
            task'[u].app \in Ids /\ task'[u].copy.post = task'[u].post
    BY <1>1 DEF Sound, Running
  \* what a request answers, when it comes
  <1>3. ASSUME NEW u \in Tasks, Running(u)', task'[u].kind \in Answers, Came(u)
        PROVE  /\ task'[u].app \in AppIds /\ apps'= apps
               /\ apps[task'[u].app].post = task'[u].post
               /\ apps[task'[u].app].user = task'[u].copy.user
    <2>1. Request(u)
      BY <1>3 DEF Came
    <2>2. apps' = apps
      BY <2>1, RequestWrites DEF NotPosts
    <2> QED BY <1>2, <1>3, <2>2 DEF Came, Arrives
  <1>4. ASSUME NEW u \in Tasks, Running(u)', task'[u].kind \in Answers, Same(u)
        PROVE  /\ Running(u) /\ task[u].kind \in Answers /\ task'[u].app = task[u].app
               /\ task'[u].post = Post(u) /\ task'[u].copy.user = task[u].copy.user
    BY <1>4 DEF Same, Post
  <1>5. ASSUME NEW u \in Tasks, NEW a \in Ids, Running(u)', task'[u].kind \in Answers, a = task'[u].app
        PROVE  /\ apps'[a] # None \/ a \in deleted'
               /\ apps'[a] # None => apps'[a].post = task'[u].post /\ apps'[a].user = task'[u].copy.user
               /\ task'[u].post \notin deleted' => apps'[a] # None
    <2>1. CASE Came(u)
      BY <1>3, <1>5, <2>1 DEF AppIds
    <2>2. CASE Same(u)
      <3>1. /\ Running(u) /\ task[u].kind \in Answers /\ a = task[u].app
            /\ task'[u].post = Post(u) /\ task'[u].copy.user = task[u].copy.user
        BY <1>4, <1>5, <2>2
      <3>2. /\ a \in AppIds \cup deleted
            /\ a \in AppIds => apps[a].post = Post(u) /\ apps[a].user = task[u].copy.user
            /\ Post(u) \notin deleted => a \in AppIds
        BY <3>1 DEF AnswersInv
      <3>3. deleted \subseteq deleted'
        BY DeletedChange
      <3>4. CASE AppKept(a)
        BY <3>1, <3>2, <3>3, <3>4 DEF AppKept
      <3>5. CASE AppRemoved(a)
        BY <3>1, <3>2, <3>5 DEF AppRemoved
      <3>6. CASE AppRestored(a)
        <4>1. PICK t \in Tasks : /\ Running(t) /\ task[t].kind \in Answers /\ task[t].app = a
                                 /\ apps'[a] = task[t].copy /\ task[t].copy.post = Post(t)
          BY <3>6 DEF AppRestored
        <4>2. Post(t) = Post(u) /\ task[t].copy.user = task[u].copy.user
          BY <3>1, <4>1 DEF AnswersInv
        <4> QED BY <3>1, <3>6, <4>1, <4>2 DEF AppRestored
      <3>7. ~AppNew(a)
        BY <3>2 DEF AppNew
      <3> QED BY <3>4, <3>5, <3>6, <3>7, AppChange
    <2> QED BY <1>5, <2>1, <2>2, NextMoves
  <1>6. ASSUME NEW t \in Tasks, NEW u \in Tasks, Running(t)', task'[t].kind \in Answers,
               Running(u)', task'[u].kind \in Answers, task'[t].app = task'[u].app
        PROVE  task'[t].post = task'[u].post /\ task'[t].copy.user = task'[u].copy.user
    <2>1. (Same(t) \/ Came(t)) /\ (Same(u) \/ Came(u))
      BY <1>6, NextMoves
    <2>2. CASE Same(t) /\ Same(u)
      BY <1>4, <1>6, <2>2 DEF AnswersInv
    <2>3. CASE Came(t) \/ Came(u)
      BY <1>3, <1>4, <1>6, <2>1, <2>3 DEF AnswersInv
    <2> QED BY <2>1, <2>2, <2>3
  <1>7. \A u \in Tasks : Running(u)' /\ task'[u].kind \in Answers =>
            \E a \in Ids : /\ a = task'[u].app
                           /\ apps'[a] # None \/ a \in deleted'
                           /\ apps'[a] # None => apps'[a].post = task'[u].post /\ apps'[a].user = task'[u].copy.user
                           /\ task'[u].post \notin deleted' => apps'[a] # None
    BY <1>2, <1>5
  <1> QED BY <1>6, <1>7 DEF AnswersInv, Post, AppIds

LEMMA AppliedStep ==
    ASSUME TypeInv, Meets, ReturnedInv, AnswersInv, AppliedInv, [BoardNext]_boardVars PROVE AppliedInv'
  <1>1. \A p \in Posts : Twice(p) => Twice(p)'
    <2>1. MetOK
      BY DEF TypeInv
    <2>2. ASSUME NEW p \in Posts, Twice(p) PROVE Twice(p)'
      BY <2>1, <2>2, MetGrows DEF Twice
    <2> QED BY <2>2
  <1>2. TypeInv'
    BY TypeInvStep
  <1>3. \A a \in Ids : apps'[a] # None => apps'[a].post \in Posts
    BY <1>2 DEF TypeInv, DataOK, App
  <1>4. ASSUME NEW a \in Ids, NEW b \in Ids, a # b, apps'[a] # None, apps'[b] # None,
               apps'[a].post = apps'[b].post, apps'[a].user = apps'[b].user,
               AppKept(a) \/ AppNew(a), AppKept(b)
        PROVE  Twice(apps'[a].post)
    <2>1. b \in AppIds /\ apps[b].post = apps'[b].post /\ apps[b].user = apps'[b].user
      BY <1>4 DEF AppKept
    <2>2. CASE AppKept(a)
      BY <1>4, <2>1, <2>2 DEF AppKept, AppliedInv, AppliedOnce, Twice, Writers
    <2>3. CASE AppNew(a)
      <3>1. PICK t \in Tasks : /\ At(t, "saveNew")
                               /\ apps'[a].post = Post(t) /\ apps'[a].user = task[t].user
        BY <2>3 DEF AppNew
      <3>2. b \in AppsOf(Post(t)) /\ apps[b].user = task[t].user
        BY <1>4, <2>1, <3>1 DEF AppsOf
      <3> QED BY <3>1, <3>2 DEF AppliedInv
    <2> QED BY <1>4, <2>2, <2>3
  <1>5. ASSUME NEW a \in Ids, NEW b \in Ids, a # b, apps'[a] # None, apps'[b] # None,
               apps'[a].post = apps'[b].post, apps'[a].user = apps'[b].user
        PROVE  Twice(apps'[a].post)
    <2>1. CASE AppRestored(a) \/ AppRestored(b)
      BY <1>5, <2>1 DEF AppRestored
    <2>2. CASE AppNew(a) /\ AppNew(b)
      BY <1>5, <2>2 DEF AppNew, AppIds
    <2>3. CASE AppKept(b) /\ (AppKept(a) \/ AppNew(a))
      BY <1>4, <1>5, <2>3
    <2>4. CASE AppKept(a) /\ AppNew(b)
      BY <1>4, <1>5, <2>4
    <2>5. ~AppRemoved(a) /\ ~AppRemoved(b)
      BY <1>5 DEF AppRemoved
    <2> QED BY <2>1, <2>2, <2>3, <2>4, <2>5, AppChange
  <1>6. AppliedOnce'
    <2> SUFFICES ASSUME NEW a \in Ids, NEW b \in Ids, a # b, apps'[a] # None, apps'[b] # None,
                        apps'[a].post = apps'[b].post, apps'[a].user = apps'[b].user
                 PROVE  \/ Met(apps[a].post, {"apply"}, {"apply"})'
                        \/ Met(apps[a].post, {"delete"}, Images \cup {"complete"})'
      BY DEF AppliedOnce, AppIds
    <2>1. PICK p \in Posts : p = apps'[a].post
      BY <1>3
    <2>2. Twice(p)'
      BY <1>1, <1>5, <2>1
    <2> QED BY <2>1, <2>2 DEF Twice, Writers, Met
  <1>7. ASSUME NEW u \in Tasks, NEW p \in Posts, At(u, "saveNew")', p = task'[u].post,
               NEW a \in Ids, apps'[a] # None, apps'[a].post = p, apps'[a].user = task'[u].user
        PROVE  Twice(p)
    <2>1. Running(u)' /\ "saveNew" \in task'[u].todo
      BY <1>7 DEF At, Running
    <2>2. Same(u)
      BY <2>1, NextMoves DEF Came, Arrives
    <2>3. Running(u) /\ Post(u) = p /\ task'[u].user = task[u].user /\ task'[u].kind = task[u].kind
      BY <1>7, <2>2 DEF Same, Post
    <2>4. task[u].kind = "apply"
      <3>1. Sound(task[u])'
        BY <1>2, <2>1 DEF TypeInv, TasksOK, Running
      <3> QED BY <2>1, <2>3, <3>1 DEF Sound
    <2>5. CASE AppKept(a)
      <3>1. a \in AppsOf(Post(u)) /\ apps[a].user = task[u].user
        BY <1>7, <2>3, <2>5 DEF AppKept, AppsOf
      <3>2. "saveNew" \in task[u].todo
        BY <2>1, <2>2, <3>1, FindExistingFinds DEF Same
      <3> QED BY <2>3, <3>1, <3>2 DEF AppliedInv, At, Running
    <2>6. CASE AppNew(a)
      <3>1. PICK t \in Tasks : At(t, "saveNew") /\ "saveNew" \notin task'[t].todo /\ Post(t) = p
        BY <1>7, <2>6 DEF AppNew
      <3>2. Running(t) /\ task[t].kind = "apply" /\ t # u
        BY <2>1, <3>1, StepKinds
      <3>3. <<"apply", "apply">> \in met[p]
        BY <2>3, <2>4, <3>1, <3>2 DEF Meets, Post
      <3> QED BY <3>3 DEF Twice, Met
    <2>7. CASE AppRestored(a)
      BY <1>7, <2>7 DEF AppRestored
    <2>8. ~AppRemoved(a)
      BY <1>7 DEF AppRemoved
    <2> QED BY <2>5, <2>6, <2>7, <2>8, AppChange
  <1>8. ASSUME NEW u \in Tasks, At(u, "saveNew")', NEW a \in AppsOf(Post(u))', apps'[a].user = task'[u].user
        PROVE  Twice(Post(u))'
    <2>1. a \in Ids /\ apps'[a] # None /\ apps'[a].post = task'[u].post
      BY <1>8 DEF AppsOf, AppIds, Post
    <2>2. PICK p \in Posts : p = task'[u].post
      BY <1>3, <2>1
    <2>3. Twice(p)'
      BY <1>1, <1>7, <1>8, <2>1, <2>2
    <2> QED BY <2>2, <2>3 DEF Twice, Met, Post
  <1> QED BY <1>6, <1>8 DEF AppliedInv

-------------------------------------------------------------------------------
(* The inductive invariant, and what it says of every run. *)

BoardInv == TypeInv /\ Meets /\ SavedInv /\ ReturnedInv /\ ClosedInv /\ AnswersInv /\ AppliedInv

LEMMA BoardInvInit == BoardInit => BoardInv
  <1> SUFFICES ASSUME BoardInit PROVE BoardInv
    OBVIOUS
  <1>1. \A t \in Tasks : ~Running(t) /\ \A s : ~At(t, s)
    BY DEF BoardInit, Running, At
  <1>2. ReturnedInv /\ ClosedInv /\ AnswersInv
    BY <1>1 DEF BoardInit, ReturnedInv, ClosedInv, AnswersInv
  <1>3. AppliedOnce
    <2>1. PICK s \in Scenarios : apps = s.apps
      BY DEF BoardInit
    <2>2. \A a, b \in {i \in Ids : s.apps[i] # None} :
              a # b => <<s.apps[a].post, s.apps[a].user>> # <<s.apps[b].post, s.apps[b].user>>
      BY BoardAssumption DEF NoDoubles
    <2> QED BY <2>1, <2>2 DEF AppliedOnce, AppIds
  <1>4. AppliedInv
    BY <1>1, <1>3 DEF AppliedInv
  <1> QED BY <1>2, <1>4, TypeInvInit, MeetsInit, SavedInit DEF BoardInv

LEMMA BoardInvStep == BoardInv /\ [BoardNext]_boardVars => BoardInv'
  BY TypeInvStep, MeetsStep, SavedStep, ReturnedStep, ClosedStep, AnswersStep, AppliedStep DEF BoardInv

\* A user has saved a post twice only when two toggles overlapped: toggleSave
\* reads and then writes, and the table has no unique index.
THEOREM SavedOnlyOnce == BoardSpec => []SavedOnce
  <1>1. BoardInv => SavedOnce
    BY DEF BoardInv, SavedInv
  <1> QED BY <1>1, BoardInvInit, BoardInvStep, PTL DEF BoardSpec

\* A user has two applications to one post only when two requests to apply
\* overlapped, or the deletion of the post overlapped a request that saves the
\* whole row: then the post, and its application, may be put back.
THEOREM AppliedOnlyOnce == BoardSpec => []AppliedOnce
  <1>1. BoardInv => AppliedOnce
    BY DEF BoardInv, AppliedInv
  <1> QED BY <1>1, BoardInvInit, BoardInvStep, PTL DEF BoardSpec

\* A post that was archived or deleted is live again only by a request that
\* saves the image of it that it read before it was closed.
THEOREM ClosedPostsStayClosed == BoardSpec => StaysClosed
  <1>1. BoardInv /\ [BoardNext]_boardVars =>
            [\A p \in Posts : IsClosed(p) /\ IsLive(p)' => Met(p, Images, Closing)]_boardVars
    BY StaysClosedStep DEF BoardInv
  <1> QED BY <1>1, BoardInvInit, BoardInvStep, PTL DEF BoardSpec, StaysClosed
===============================================================================
