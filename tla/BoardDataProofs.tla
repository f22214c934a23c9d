---------------------------- MODULE BoardDataProofs ----------------------------
(***************************************************************************)
(* Proofs about what the job board keeps in several places: a post and its *)
(* document in the search, its deadline in the calendar, its images in S3. *)
(* Each says that the places agree when no request is under way, unless    *)
(* requests overlapped that the property names.  The invariants say what   *)
(* the requests that are under way still have to do.                       *)
(***************************************************************************)
EXTENDS BoardProofs

On(t, p) == Running(t) /\ task[t].post = p
Clean(p) == ~LostUpdate(p) /\ ~Met(p, {"reindex"}, {"reindex"})

-------------------------------------------------------------------------------
(* How a task goes on. *)

\* Task t has done `step' and goes on with `new', the others rest.
Goes(t, step, new) ==
    /\ At(t, step) /\ Running(t)
    /\ \A u \in Tasks \ {t} : task'[u] = task[u]
    /\ task'[t] # None
    /\ task'[t].kind = task[t].kind /\ task'[t].post = task[t].post
    /\ task'[t].todo = (task[t].todo \ {step}) \cup new
    /\ task'[t].failed = FALSE => task[t].failed = FALSE
KeepsRow(t) == Running(t)' => task'[t].row = task[t].row
KeepsFound(t) == Running(t)' => task'[t].found = task[t].found

LEMMA ContinueGoes ==
    ASSUME TasksOK, NEW t \in Tasks, NEW step, NEW new \in SUBSET Steps, NEW rec \in Task, At(t, step),
           rec.kind = task[t].kind, rec.post = task[t].post,
           rec.failed = FALSE => task[t].failed = FALSE,
           Continue(t, step, new, rec)
    PROVE  /\ Goes(t, step, new)
           /\ task'[t].failed = rec.failed
           /\ Running(t)' => /\ task'[t].row = rec.row /\ task'[t].found = rec.found
                             /\ task'[t].keys = rec.keys
  <1> DEFINE todo == Rest(t, step) \cup new
             done == Answered(rec.kind, rec.post, rec.failed)
             after == [rec EXCEPT !.todo = todo]
             next == IF todo = {} THEN done ELSE after
  <1>1. done.todo = {} /\ done.kind = rec.kind /\ done.post = rec.post /\ done.failed = rec.failed
    BY DEF Answered, Fresh
  <1>2. /\ after.todo = todo /\ after.kind = rec.kind /\ after.post = rec.post /\ after.failed = rec.failed
        /\ after.row = rec.row /\ after.found = rec.found /\ after.keys = rec.keys
    BY DEF Task
  <1>3. done # None /\ after # None
    <2>1. task[t] \in Task
      BY AtTask
    <2>2. todo \subseteq Steps
      BY <2>1 DEF Rest, Task
    <2>3. after \in Task
      BY <2>2 DEF Task
    <2>4. done \in Task
      BY DEF Answered, Fresh, Task
    <2> QED BY <2>3, <2>4, NoneIsNone
  <1>4. task' = [task EXCEPT ![t] = next]
    BY DEF Continue
  <1> HIDE DEF todo, done, after
  <1>5. task'[t] = next /\ \A u \in Tasks \ {t} : task'[u] = task[u]
    BY <1>4 DEF TasksOK
  <1>6. Running(t) /\ Rest(t, step) = task[t].todo \ {step}
    BY DEF At, Running, Rest
  <1>7. Goes(t, step, new)
    BY <1>1, <1>2, <1>3, <1>5, <1>6 DEF Goes, todo
  <1>8. task'[t].failed = rec.failed
    BY <1>1, <1>2, <1>5
  <1>9. Running(t)' => next = after
    BY <1>1, <1>5 DEF Running
  <1> QED BY <1>2, <1>5, <1>7, <1>8, <1>9

\* With what it had read.
Keeps(t) == /\ Running(t)' => /\ task'[t].row = task[t].row /\ task'[t].found = task[t].found
                              /\ task'[t].keys = task[t].keys

LEMMA ThenGoes ==
    ASSUME TasksOK, NEW t \in Tasks, NEW step, NEW new \in SUBSET Steps, At(t, step)
    PROVE  Then(t, step, new) => Goes(t, step, new) /\ Keeps(t) /\ task'[t].failed = task[t].failed
  <1>1. task[t] \in Task
    BY AtTask
  <1> QED BY <1>1, ContinueGoes DEF Then, Keeps

LEMMA DoneGoes ==
    ASSUME TasksOK, NEW t \in Tasks, NEW step, At(t, step)
    PROVE  Done(t, step) => Goes(t, step, {}) /\ Keeps(t) /\ task'[t].failed = task[t].failed
  BY ThenGoes DEF Done

LEMMA RejectedGoes ==
    ASSUME TasksOK, NEW t \in Tasks, NEW step, At(t, step)
    PROVE  Rejected(t, step) => Goes(t, step, {}) /\ Keeps(t) /\ task'[t].failed = TRUE
  <1> DEFINE rec == [task[t] EXCEPT !.failed = TRUE]
  <1>1. /\ rec \in Task /\ rec.kind = task[t].kind /\ rec.post = task[t].post /\ rec.failed = TRUE
        /\ rec.row = task[t].row /\ rec.found = task[t].found /\ rec.keys = task[t].keys
    BY AtTask DEF Task
  <1>2. Rejected(t, step) => Continue(t, step, {}, rec)
    BY DEF Rejected
  <1> HIDE DEF rec
  <1>3. {} \in SUBSET Steps
    OBVIOUS
  <1> QED BY <1>1, <1>2, <1>3, ContinueGoes DEF Keeps

LEMMA AllDoneGoes ==
    ASSUME TasksOK, NEW t \in Tasks, NEW step, At(t, step), AllDone(t, step)
    PROVE  /\ Keeps(t) /\ task'[t].failed = task[t].failed
           /\ \/ Goes(t, step, {})
              \/ /\ Goes(t, step, {"saveApp"}) /\ task[t].kind = "complete" /\ task[t].failed = FALSE
                 /\ Rest(t, step) = {}
  <1>1. CASE task[t].kind = "complete" /\ Rest(t, step) = {} /\ ~task[t].failed
    <2>1. {"saveApp"} \in SUBSET Steps /\ Then(t, step, {"saveApp"})
      BY <1>1 DEF AllDone, Steps
    <2>2. task[t].failed = FALSE
      BY <1>1, AtTask DEF Task
    <2> QED BY <1>1, <2>1, <2>2, ThenGoes
  <1>2. CASE ~(task[t].kind = "complete" /\ Rest(t, step) = {} /\ ~task[t].failed)
    <2>1. Done(t, step)
      BY <1>2 DEF AllDone, Done
    <2> QED BY <2>1, DoneGoes
  <1> QED BY <1>1, <1>2

\* A branch that ends.
Ends(t, step) == /\ Keeps(t)
                 /\ \/ Goes(t, step, {}) /\ task'[t].failed \in {TRUE, task[t].failed}
                    \/ /\ Goes(t, step, {"saveApp"}) /\ task[t].kind = "complete" /\ task[t].failed = FALSE
                       /\ Rest(t, step) = {} /\ task'[t].failed = task[t].failed

LEMMA BranchEnds ==
    ASSUME TasksOK, NEW t \in Tasks, NEW step, At(t, step),
           Done(t, step) \/ Rejected(t, step) \/ AllDone(t, step)
    PROVE  Ends(t, step)
  BY DoneGoes, RejectedGoes, AllDoneGoes DEF Ends

LEMMA LastGoes ==
    ASSUME TasksOK, NEW t \in Tasks
    PROVE  /\ IndexJobPost(t) => Goes(t, "index", {}) /\ Keeps(t)
           /\ ArchiveRow(t) => Ends(t, "archiveRow")
           /\ DeleteDoc(t) => Ends(t, "del") /\ (task'[t].failed = FALSE => index[Post(t)] # 0)
           /\ RemoveEvents(t) => Ends(t, "removeEvents")
           /\ CancelApps(t) => Ends(t, "cancelApps")
           /\ UpdateDoc(t) => Goes(t, "updateDoc", {}) /\ Keeps(t)
           /\ AddSaved(t) => Goes(t, "addSaved", {}) /\ Keeps(t)
           /\ RemoveSaved(t) => Goes(t, "removeSaved", {}) /\ Keeps(t)
           /\ SaveNew(t) => Goes(t, "saveNew", {}) /\ Keeps(t)
           /\ SaveApp(t) => Goes(t, "saveApp", {}) /\ Keeps(t)
           /\ SaveRow(t) => Ends(t, "saveRow")
           /\ SaveReview(t) => Goes(t, "saveReview", {}) /\ Keeps(t)
           /\ Bulk(t) => Goes(t, "bulk", {}) /\ Keeps(t)
           /\ PutFails(t) => Goes(t, "put", {}) /\ Keeps(t) /\ task'[t].failed = TRUE
           /\ Reject(t) => \E step \in Steps : Goes(t, step, {}) /\ Keeps(t) /\ task'[t].failed = TRUE
  <1>1. IndexJobPost(t) => Goes(t, "index", {}) /\ Keeps(t)
    BY DoneGoes DEF IndexJobPost
  <1>2. ArchiveRow(t) => Ends(t, "archiveRow")
    BY BranchEnds DEF ArchiveRow
  <1>3. DeleteDoc(t) => Ends(t, "del") /\ (task'[t].failed = FALSE => index[Post(t)] # 0)
    BY BranchEnds, RejectedGoes DEF DeleteDoc
  <1>4. RemoveEvents(t) => Ends(t, "removeEvents")
    BY BranchEnds DEF RemoveEvents
  <1>5. CancelApps(t) => Ends(t, "cancelApps")
    BY BranchEnds DEF CancelApps
  <1>6. UpdateDoc(t) => Goes(t, "updateDoc", {}) /\ Keeps(t)
    BY DoneGoes, RejectedGoes DEF UpdateDoc
  <1>7. AddSaved(t) => Goes(t, "addSaved", {}) /\ Keeps(t)
    BY DoneGoes, RejectedGoes DEF AddSaved
  <1>8. RemoveSaved(t) => Goes(t, "removeSaved", {}) /\ Keeps(t)
    BY DoneGoes DEF RemoveSaved
  <1>9. SaveNew(t) => Goes(t, "saveNew", {}) /\ Keeps(t)
    BY DoneGoes, RejectedGoes DEF SaveNew
  <1>10. SaveApp(t) => Goes(t, "saveApp", {}) /\ Keeps(t)
    BY DoneGoes, RejectedGoes DEF SaveApp
  <1>11. SaveRow(t) => Ends(t, "saveRow")
    BY BranchEnds DEF SaveRow
  <1>12. SaveReview(t) => Goes(t, "saveReview", {}) /\ Keeps(t)
    BY DoneGoes DEF SaveReview
  <1>13. Bulk(t) => Goes(t, "bulk", {}) /\ Keeps(t)
    BY DoneGoes DEF Bulk
  <1>14. PutFails(t) => Goes(t, "put", {}) /\ Keeps(t) /\ task'[t].failed = TRUE
    BY RejectedGoes DEF PutFails
  <1>15. ASSUME Reject(t)
         PROVE  \E step \in Steps : Goes(t, step, {}) /\ Keeps(t) /\ task'[t].failed = TRUE
    <2>1. PICK step \in task[t].todo \ {"put"} : Rejected(t, step)
      BY <1>15 DEF Reject
    <2>2. At(t, step) /\ step \in Steps
      BY <1>15, <2>1, NoneIsNone DEF Reject, At, TasksOK, Task
    <2> QED BY <2>1, <2>2, RejectedGoes
  <1> QED BY <1>1, <1>2, <1>3, <1>4, <1>5, <1>6, <1>7, <1>8, <1>9, <1>10, <1>11, <1>12, <1>13, <1>14, <1>15

LEMMA ChainGoes ==
    ASSUME TypeInv, NEW t \in Tasks
    PROVE  /\ FindPost(t) => Keeps(t) /\ (IF Exists(Post(t)) THEN Goes(t, "findPost", {"saveEvent"})
                                                            ELSE Goes(t, "findPost", {}))
           /\ SaveEvent(t) => Keeps(t) /\
                 \/ Exists(Post(t)) /\ Goes(t, "saveEvent", IF task[t].kind = "create" THEN {"reload"} ELSE {})
                 \/ ~Exists(Post(t)) /\ Goes(t, "saveEvent", {})
           /\ GetDoc(t) => Keeps(t) /\
                 \/ index[Post(t)] # 0 /\ Goes(t, "get", {"del"})
                 \/ index[Post(t)] = 0 /\ Goes(t, "get", {}) /\ task'[t].failed = TRUE
           /\ Write(t) => Keeps(t) /\ Goes(t, "write", {"reload"})
           /\ DeleteRow(t) => Keeps(t) /\
                 \/ posts' = [posts EXCEPT ![Post(t)] = None] /\ Goes(t, "deleteRow", {"get"})
                    /\ EventsOf(Post(t)) = {} /\ Post(t) \in deleted'
                 \/ UNCHANGED <<posts, deleted>> /\ Goes(t, "deleteRow", {})
           /\ FindExisting(t) => Keeps(t) /\ \E new \in {{}, {"saveNew"}} : Goes(t, "findExisting", new)
  <1> USE DEF TypeInv
  <1> DEFINE Ok(s) == s \in SUBSET Steps
  <1>0. Ok({"saveEvent"}) /\ Ok({"reload"}) /\ Ok({}) /\ Ok({"del"}) /\ Ok({"get"}) /\ Ok({"saveNew"})
    BY DEF Steps
  <1>1. ASSUME FindPost(t)
        PROVE  Keeps(t) /\ (IF Exists(Post(t)) THEN Goes(t, "findPost", {"saveEvent"}) ELSE Goes(t, "findPost", {}))
    BY <1>0, <1>1, ThenGoes, RejectedGoes DEF FindPost
  <1>2. ASSUME SaveEvent(t)
        PROVE  Keeps(t) /\
                 \/ Exists(Post(t)) /\ Goes(t, "saveEvent", IF task[t].kind = "create" THEN {"reload"} ELSE {})
                 \/ ~Exists(Post(t)) /\ Goes(t, "saveEvent", {})
    BY <1>0, <1>2, ThenGoes, RejectedGoes DEF SaveEvent
  <1>3. ASSUME GetDoc(t)
        PROVE  Keeps(t) /\
                 \/ index[Post(t)] # 0 /\ Goes(t, "get", {"del"})
                 \/ index[Post(t)] = 0 /\ Goes(t, "get", {}) /\ task'[t].failed = TRUE
    BY <1>0, <1>3, ThenGoes, RejectedGoes DEF GetDoc
  <1>4. ASSUME Write(t) PROVE Keeps(t) /\ Goes(t, "write", {"reload"})
    BY <1>0, <1>4, ThenGoes DEF Write
  <1>5. ASSUME DeleteRow(t)
        PROVE  Keeps(t) /\
                 \/ posts' = [posts EXCEPT ![Post(t)] = None] /\ Goes(t, "deleteRow", {"get"})
                    /\ EventsOf(Post(t)) = {} /\ Post(t) \in deleted'
                 \/ UNCHANGED <<posts, deleted>> /\ Goes(t, "deleteRow", {})
    BY <1>0, <1>5, ThenGoes, RejectedGoes DEF DeleteRow
  <1>6. ASSUME FindExisting(t) PROVE Keeps(t) /\ \E new \in {{}, {"saveNew"}} : Goes(t, "findExisting", new)
    BY <1>0, <1>6, ThenGoes, RejectedGoes DEF FindExisting
  <1> QED BY <1>1, <1>2, <1>3, <1>4, <1>5, <1>6

\* What the steps that read leave with the task.
Reloads(t) ==
    \/ /\ \E new \in {{"index"}, {"updateDoc"}} :
             Goes(t, "reload", new) /\ (new = {"index"} <=> task[t].kind = "create")
       /\ HasEmployer(Post(t)) /\ task'[t].row = posts[Post(t)]
       /\ task'[t].found = task[t].found
    \/ Goes(t, "reload", {}) /\ Keeps(t) /\ ~HasEmployer(Post(t))
Finds(t) == /\ Goes(t, "findEvents", {"removeEvents"}) /\ KeepsRow(t)
            /\ task'[t].found = EventsOf(Post(t))
Puts(t) == \E k \in task[t].keys :
    /\ bucket' = bucket \cup {k}
    /\ \E new \in {{"put"}, {"saveRow"}} :
          Goes(t, "put", new) /\ (new = {"put"} <=> task[t].keys \ {k} # {})
    /\ task'[t].keys = task[t].keys \ {k} /\ task'[t].found = task[t].found
    /\ task'[t].row = [task[t].row EXCEPT !.photos = @ \cup {k}]
Drops(t) == /\ Goes(t, "deleteObject", {"saveRow"}) /\ task'[t].found = task[t].found
            /\ task'[t].row = [task[t].row EXCEPT !.photos = @ \ task[t].keys]

LEMMA ReadGoes ==
    ASSUME TypeInv, NEW t \in Tasks
    PROVE  /\ Reload(t) => Reloads(t)
           /\ FindEvents(t) => Finds(t)
           /\ FindSaved(t) => (\E new \in {{"addSaved"}, {"removeSaved"}} : Goes(t, "findSaved", new)) /\ KeepsRow(t)
           /\ PutObject(t) => Puts(t)
           /\ DeleteObject(t) => Drops(t)
  <1> USE DEF TypeInv
  <1>0. \A step : At(t, step) => task[t] \in Task /\ Sound(task[t])
    BY AtTask
  <1>r. \A step, new : Goes(t, step, new) /\ new # {} => Running(t)'
    BY DEF Goes, Running
  <1>1. ASSUME Reload(t) PROVE Reloads(t)
    <2>1. At(t, "reload") /\ task[t] \in Task
      BY <1>0, <1>1 DEF Reload
    <2>2. CASE ~HasEmployer(Post(t))
      BY <1>1, <2>1, <2>2, DoneGoes, RejectedGoes DEF Reload, Reloads
    <2>3. CASE HasEmployer(Post(t))
      <3> DEFINE new == IF task[t].kind = "create" THEN {"index"} ELSE {"updateDoc"}
                 rec == [task[t] EXCEPT !.row = posts[Post(t)]]
      <3>1. posts[Post(t)] \in Row
        <4>1. Post(t) \in Posts
          BY <2>1, NotReindex DEF Steps
        <4> QED BY <2>3, <4>1 DEF HasEmployer, Exists, DataOK
      <3>2. /\ rec \in Task /\ rec.kind = task[t].kind /\ rec.post = task[t].post
            /\ rec.failed = task[t].failed /\ rec.row = posts[Post(t)] /\ rec.found = task[t].found
        BY <2>1, <3>1 DEF Task
      <3>3. Continue(t, "reload", new, rec)
        BY <1>1, <2>3 DEF Reload
      <3>4. new \in SUBSET Steps /\ new # {}
        BY DEF Steps
      <3> HIDE DEF rec, new
      <3>5. Goes(t, "reload", new) /\ (Running(t)' => task'[t].row = rec.row /\ task'[t].found = rec.found)
        BY <2>1, <3>2, <3>3, <3>4, ContinueGoes
      <3>6. Running(t)'
        BY <1>r, <3>4, <3>5
      <3>7. new \in {{"index"}, {"updateDoc"}} /\ (new = {"index"} <=> task[t].kind = "create")
        BY DEF new
      <3> QED BY <2>3, <3>2, <3>5, <3>6, <3>7 DEF Reloads
    <2> QED BY <2>2, <2>3
  <1>2. ASSUME FindEvents(t) PROVE Finds(t)
    <2> DEFINE rec == [task[t] EXCEPT !.found = EventsOf(Post(t))]
    <2>1. At(t, "findEvents") /\ task[t] \in Task /\ EventsOf(Post(t)) \subseteq Event
      BY <1>0, <1>2 DEF FindEvents, EventsOf, DataOK
    <2>2. /\ rec \in Task /\ rec.kind = task[t].kind /\ rec.post = task[t].post
          /\ rec.failed = task[t].failed /\ rec.row = task[t].row /\ rec.found = EventsOf(Post(t))
      BY <2>1 DEF Task
    <2>3. Continue(t, "findEvents", {"removeEvents"}, rec) /\ {"removeEvents"} \in SUBSET Steps
      BY <1>2 DEF FindEvents, Steps
    <2> HIDE DEF rec
    <2>4. /\ Goes(t, "findEvents", {"removeEvents"})
          /\ Running(t)' => task'[t].row = rec.row /\ task'[t].found = rec.found
      BY <2>1, <2>2, <2>3, ContinueGoes
    <2>5. Running(t)'
      BY <1>r, <2>4
    <2> QED BY <2>2, <2>4, <2>5 DEF KeepsRow, Finds
  <1>3. ASSUME FindSaved(t)
        PROVE  (\E new \in {{"addSaved"}, {"removeSaved"}} : Goes(t, "findSaved", new)) /\ KeepsRow(t)
    <2>1. At(t, "findSaved") /\ task[t] \in Task /\ {"addSaved"} \in SUBSET Steps /\ {"removeSaved"} \in SUBSET Steps
      BY <1>0, <1>3 DEF FindSaved, Steps
    <2>2. CASE Then(t, "findSaved", {"addSaved"})
      BY <2>1, <2>2, ThenGoes DEF Keeps, KeepsRow
    <2>3. ASSUME NEW s \in saved, Continue(t, "findSaved", {"removeSaved"}, [task[t] EXCEPT !.found = {s}])
          PROVE  Goes(t, "findSaved", {"removeSaved"}) /\ KeepsRow(t)
      <3> DEFINE rec == [task[t] EXCEPT !.found = {s}]
      <3>1. /\ rec \in Task /\ rec.kind = task[t].kind /\ rec.post = task[t].post
            /\ rec.failed = task[t].failed /\ rec.row = task[t].row
        BY <2>1 DEF Task, DataOK
      <3>2. Continue(t, "findSaved", {"removeSaved"}, rec)
        BY <2>3
      <3> HIDE DEF rec
      <3> QED BY <2>1, <3>1, <3>2, ContinueGoes DEF KeepsRow
    <2> QED BY <1>3, <2>2, <2>3 DEF FindSaved, SavedOf
  <1>4. ASSUME PutObject(t) PROVE Puts(t)
    <2>1. PICK k \in task[t].keys :
             /\ bucket' = bucket \cup {k}
             /\ Continue(t, "put", IF task[t].keys \ {k} # {} THEN {"put"} ELSE {"saveRow"},
                         [task[t] EXCEPT !.keys = task[t].keys \ {k}, !.row.photos = @ \cup {k}])
      BY <1>4 DEF PutObject
    <2>2. At(t, "put") /\ task[t] \in Task /\ Sound(task[t]) /\ "put" \in task[t].todo
      BY <1>4, AtTask DEF PutObject, At
    <2>3. task[t].row \in Row
      BY <2>2 DEF Sound, Writers, Images
    <2> DEFINE rec == [task[t] EXCEPT !.keys = task[t].keys \ {k}, !.row.photos = @ \cup {k}]
               new == IF task[t].keys \ {k} # {} THEN {"put"} ELSE {"saveRow"}
    <2>4. /\ rec \in Task /\ rec.kind = task[t].kind /\ rec.post = task[t].post
          /\ rec.failed = task[t].failed /\ rec.found = task[t].found
      BY <2>2, <2>3 DEF Task, Row
    <2>8. rec.row = [task[t].row EXCEPT !.photos = @ \cup {k}] /\ rec.keys = task[t].keys \ {k}
      BY <2>2, <2>3 DEF Task, Row
    <2>5. new \in SUBSET Steps /\ new # {} /\ Continue(t, "put", new, rec)
      BY <2>1 DEF Steps
    <2> HIDE DEF rec, new
    <2>6. Goes(t, "put", new) /\ (Running(t)' => task'[t].row = rec.row /\ task'[t].keys = rec.keys /\ task'[t].found = rec.found)
      BY <2>2, <2>4, <2>5, ContinueGoes
    <2>7. Running(t)'
      BY <1>r, <2>5, <2>6
    <2>9. new \in {{"put"}, {"saveRow"}} /\ (new = {"put"} <=> task[t].keys \ {k} # {})
      BY DEF new
    <2> QED BY <2>1, <2>4, <2>6, <2>7, <2>8, <2>9 DEF Puts
  <1>5. ASSUME DeleteObject(t) PROVE Drops(t)
    <2> DEFINE rec == [task[t] EXCEPT !.row.photos = @ \ task[t].keys]
    <2>1. At(t, "deleteObject") /\ task[t] \in Task /\ Sound(task[t]) /\ "deleteObject" \in task[t].todo
      BY <1>5, AtTask DEF DeleteObject, At
    <2>2. task[t].row \in Row
      BY <2>1 DEF Sound, Writers, Images
    <2>3. /\ rec \in Task /\ rec.kind = task[t].kind /\ rec.post = task[t].post
          /\ rec.failed = task[t].failed /\ rec.found = task[t].found
      BY <2>1, <2>2 DEF Task, Row
    <2>7. rec.row = [task[t].row EXCEPT !.photos = @ \ task[t].keys]
      BY <2>1, <2>2 DEF Task, Row
    <2>4. Continue(t, "deleteObject", {"saveRow"}, rec) /\ {"saveRow"} \in SUBSET Steps
      BY <1>5 DEF DeleteObject, Steps
    <2> HIDE DEF rec
    <2>5. Goes(t, "deleteObject", {"saveRow"}) /\ (Running(t)' => task'[t].row = rec.row /\ task'[t].found = rec.found)
      BY <2>1, <2>3, <2>4, ContinueGoes
    <2>6. Running(t)'
      BY <1>r, <2>5
    <2> QED BY <2>3, <2>5, <2>6, <2>7 DEF Drops
  <1> QED BY <1>1, <1>2, <1>3, <1>4, <1>5

-------------------------------------------------------------------------------
(* Every step of a task, in one. *)

\* How the steps of a task follow on one another.
Follow(t, step, new) ==
    /\ new = {} \/ \E next \in Steps : new = {next}
    /\ "saveEvent" \in new => step = "findPost"
    /\ "reload" \in new => step = "write" \/ (step = "saveEvent" /\ task[t].kind = "create")
    /\ "index" \in new => step = "reload" /\ task[t].kind = "create"
    /\ "updateDoc" \in new => step = "reload" /\ task[t].kind # "create"
    /\ "get" \in new => step = "deleteRow" /\ posts' = [posts EXCEPT ![Post(t)] = None]
    /\ "del" \in new => step = "get" /\ index[Post(t)] # 0
    /\ "removeEvents" \in new => step = "findEvents"
    /\ "saveRow" \in new => step \in {"put", "deleteObject"}
    /\ "saveApp" \in new => task[t].kind = "complete" /\ task[t].failed = FALSE /\ Rest(t, step) = {}
                           /\ task'[t].failed = FALSE /\ step # "saveApp"
    /\ "put" \in new => step = "put"
    /\ "addSaved" \in new \/ "removeSaved" \in new => step = "findSaved"
    /\ "saveNew" \in new => step = "findExisting"
    /\ \A s \in {"findPost", "archiveRow", "findEvents", "cancelApps", "write", "deleteRow", "bulk",
                 "findSaved", "findExisting", "saveReview", "deleteObject"} : s \notin new

\* The step that is done by each action, unless it is rejected.
Does(t, step) ==
    \/ Reject(t)
    \/ /\ step = "findPost" => FindPost(t)
       /\ step = "saveEvent" => SaveEvent(t)
       /\ step = "reload" => Reload(t)
       /\ step = "index" => IndexJobPost(t)
       /\ step = "archiveRow" => ArchiveRow(t)
       /\ step = "get" => GetDoc(t)
       /\ step = "del" => DeleteDoc(t)
       /\ step = "findEvents" => FindEvents(t)
       /\ step = "removeEvents" => RemoveEvents(t)
       /\ step = "write" => Write(t)
       /\ step = "updateDoc" => UpdateDoc(t)
       /\ step = "deleteRow" => DeleteRow(t)
       /\ step = "saveRow" => SaveRow(t)
       /\ step = "put" => PutObject(t) \/ PutFails(t)
       /\ step = "deleteObject" => DeleteObject(t)

\* What a task has read.
Reads(t, step) ==
    /\ Running(t)' /\ step \notin {"reload", "put", "deleteObject"} => task'[t].row = task[t].row
    /\ Running(t)' /\ step \notin {"findEvents", "findSaved"} => task'[t].found = task[t].found
    /\ "index" \in task'[t].todo \/ "updateDoc" \in task'[t].todo =>
          \/ ("index" \in task[t].todo \/ "updateDoc" \in task[t].todo) /\ task'[t].row = task[t].row
          \/ step = "reload" /\ task'[t].row = posts[Post(t)] /\ HasEmployer(Post(t))
    /\ Running(t)' /\ task[t].kind \in Writers =>
          task'[t].row.archived = task[t].row.archived /\ task'[t].row.rev = task[t].row.rev
Advances(t, step, new) == Goes(t, step, new) /\ Follow(t, step, new) /\ Does(t, step) /\ Reads(t, step)

LEMMA LastAdvances ==
    ASSUME TypeInv, NEW t \in Tasks,
           \/ IndexJobPost(t) \/ ArchiveRow(t) \/ DeleteDoc(t) \/ RemoveEvents(t) \/ CancelApps(t)
           \/ UpdateDoc(t) \/ AddSaved(t) \/ RemoveSaved(t) \/ SaveNew(t) \/ SaveApp(t) \/ SaveRow(t)
           \/ SaveReview(t) \/ PutFails(t) \/ Bulk(t) \/ Reject(t)
    PROVE  \E step \in Steps, new \in SUBSET Steps : Advances(t, step, new)
  <1> USE DEF TypeInv
  <1>1. ASSUME NEW step \in Steps, NEW new \in {{}, {"saveApp"}}, Goes(t, step, new), Keeps(t),
               \/ new = {}
               \/ /\ task[t].kind = "complete" /\ task[t].failed = FALSE /\ Rest(t, step) = {}
                  /\ task'[t].failed = FALSE /\ step # "saveApp"
        PROVE  new \in SUBSET Steps /\ Follow(t, step, new) /\ Reads(t, step)
    <2>1. new \in SUBSET Steps /\ (new = {} \/ \E next \in Steps : new = {next})
      BY DEF Steps
    <2>2. Follow(t, step, new)
      BY <1>1, <2>1 DEF Follow
    <2>3. Reads(t, step)
      BY <1>1 DEF Reads, Keeps, Goes, Running
    <2> QED BY <2>1, <2>2, <2>3
  <1>2. ASSUME NEW step \in Steps, Ends(t, step), Does(t, step), step # "saveApp"
        PROVE  \E new \in SUBSET Steps : Advances(t, step, new)
    <2>1. PICK new \in {{}, {"saveApp"}} :
             /\ Goes(t, step, new) /\ Keeps(t)
             /\ \/ new = {}
                \/ /\ task[t].kind = "complete" /\ task[t].failed = FALSE /\ Rest(t, step) = {}
                   /\ task'[t].failed = FALSE /\ step # "saveApp"
      BY <1>2 DEF Ends
    <2>2. new \in SUBSET Steps /\ Follow(t, step, new) /\ Reads(t, step)
      BY <1>1, <2>1
    <2> QED BY <1>2, <2>1, <2>2 DEF Advances
  <1>3. ASSUME NEW step \in Steps, Goes(t, step, {}), Keeps(t), Does(t, step)
        PROVE  \E new \in SUBSET Steps : Advances(t, step, new)
    <2>2. {} \in SUBSET Steps /\ Follow(t, step, {}) /\ Reads(t, step)
      BY <1>1, <1>3
    <2> QED BY <1>3, <2>2 DEF Advances
  <1>4. CASE ArchiveRow(t) \/ DeleteDoc(t) \/ RemoveEvents(t) \/ CancelApps(t) \/ SaveRow(t)
    <2>1. \E step \in Steps : Ends(t, step) /\ Does(t, step) /\ step # "saveApp"
      BY <1>4, LastGoes DEF Does, Steps
    <2> QED BY <1>2, <2>1
  <1>5. CASE \/ IndexJobPost(t) \/ UpdateDoc(t) \/ AddSaved(t) \/ RemoveSaved(t) \/ SaveNew(t)
             \/ SaveApp(t) \/ SaveReview(t) \/ PutFails(t) \/ Bulk(t) \/ Reject(t)
    <2>1. \E step \in Steps : Goes(t, step, {}) /\ Keeps(t) /\ Does(t, step)
      BY <1>5, LastGoes DEF Does, Steps
    <2> QED BY <1>3, <2>1
  <1> QED BY <1>4, <1>5

LEMMA ChainAdvances ==
    ASSUME TypeInv, NEW t \in Tasks,
           \/ FindPost(t) \/ SaveEvent(t) \/ GetDoc(t) \/ Write(t) \/ DeleteRow(t) \/ FindExisting(t)
    PROVE  \E step \in Steps, new \in SUBSET Steps : Advances(t, step, new)
  <1>1. ASSUME NEW step \in Steps, NEW new, Goes(t, step, new), Keeps(t),
               "index" \notin new, "updateDoc" \notin new
        PROVE  Reads(t, step)
    BY <1>1 DEF Reads, Keeps, Goes, Running
  <1>2. CASE FindPost(t)
    <2>1. PICK new \in {{}, {"saveEvent"}} : Goes(t, "findPost", new) /\ Keeps(t)
      BY <1>2, ChainGoes
    <2>2. Follow(t, "findPost", new) /\ Does(t, "findPost") /\ "findPost" \in Steps /\ new \in SUBSET Steps
      BY <1>2 DEF Follow, Does, Steps
    <2> QED BY <1>1, <2>1, <2>2 DEF Advances
  <1>3. CASE SaveEvent(t)
    <2>1. PICK new \in {{}, {"reload"}} : Goes(t, "saveEvent", new) /\ Keeps(t)
                                          /\ (new = {"reload"} => task[t].kind = "create")
      BY <1>3, ChainGoes
    <2>2. Follow(t, "saveEvent", new) /\ Does(t, "saveEvent") /\ "saveEvent" \in Steps /\ new \in SUBSET Steps
      BY <1>3, <2>1 DEF Follow, Does, Steps
    <2> QED BY <1>1, <2>1, <2>2 DEF Advances
  <1>4. CASE GetDoc(t)
    <2>1. PICK new \in {{}, {"del"}} : Goes(t, "get", new) /\ Keeps(t)
                                       /\ (new = {"del"} => index[Post(t)] # 0)
      BY <1>4, ChainGoes
    <2>2. Follow(t, "get", new) /\ Does(t, "get") /\ "get" \in Steps /\ new \in SUBSET Steps
      BY <1>4, <2>1 DEF Follow, Does, Steps
    <2> QED BY <1>1, <2>1, <2>2 DEF Advances
  <1>5. CASE Write(t)
    <2>1. Goes(t, "write", {"reload"}) /\ Keeps(t)
      BY <1>5, ChainGoes
    <2>2. Follow(t, "write", {"reload"}) /\ Does(t, "write") /\ "write" \in Steps /\ {"reload"} \in SUBSET Steps
      BY <1>5 DEF Follow, Does, Steps
    <2> QED BY <1>1, <2>1, <2>2 DEF Advances
  <1>6. CASE DeleteRow(t)
    <2>1. PICK new \in {{}, {"get"}} :
             /\ Goes(t, "deleteRow", new) /\ Keeps(t)
             /\ new = {"get"} => posts' = [posts EXCEPT ![Post(t)] = None]
      BY <1>6, ChainGoes
    <2>2. Follow(t, "deleteRow", new) /\ Does(t, "deleteRow") /\ "deleteRow" \in Steps /\ new \in SUBSET Steps
      BY <1>6, <2>1 DEF Follow, Does, Steps
    <2> QED BY <1>1, <2>1, <2>2 DEF Advances
  <1>7. CASE FindExisting(t)
    <2>1. PICK new \in {{}, {"saveNew"}} : Goes(t, "findExisting", new) /\ Keeps(t)
      BY <1>7, ChainGoes
    <2>2. Follow(t, "findExisting", new) /\ Does(t, "findExisting") /\ "findExisting" \in Steps /\ new \in SUBSET Steps
      BY <1>7 DEF Follow, Does, Steps
    <2> QED BY <1>1, <2>1, <2>2 DEF Advances
  <1> QED BY <1>2, <1>3, <1>4, <1>5, <1>6, <1>7

LEMMA ReadAdvances ==
    ASSUME TypeInv, NEW t \in Tasks,
           \/ Reload(t) \/ FindEvents(t) \/ FindSaved(t) \/ PutObject(t) \/ DeleteObject(t)
    PROVE  \E step \in Steps, new \in SUBSET Steps : Advances(t, step, new)
  <1>0. \A step : At(t, step) => task[t] \in Task /\ Sound(task[t]) /\ step \in task[t].todo
    BY AtTask DEF TypeInv, At
  <1>1. CASE Reload(t)
    <2>1. At(t, "reload") /\ "reload" \in Steps /\ {} \in SUBSET Steps
      BY <1>1 DEF Reload, Steps
    <2>2. task[t].kind \notin Writers
      BY <1>0, <2>1 DEF Sound, Writers, Images
    <2>3. CASE Goes(t, "reload", {}) /\ Keeps(t)
      <3>1. Follow(t, "reload", {}) /\ Does(t, "reload")
        BY <1>1 DEF Follow, Does
      <3>2. Reads(t, "reload")
        BY <2>3 DEF Reads, Keeps, Goes, Running
      <3> QED BY <2>1, <2>3, <3>1, <3>2 DEF Advances
    <2>4. ASSUME NEW new \in {{"index"}, {"updateDoc"}}, Goes(t, "reload", new),
                 new = {"index"} <=> task[t].kind = "create",
                 HasEmployer(Post(t)), task'[t].row = posts[Post(t)], task'[t].found = task[t].found
          PROVE  Advances(t, "reload", new) /\ new \in SUBSET Steps
      <3>1. Follow(t, "reload", new) /\ Does(t, "reload") /\ new \in SUBSET Steps
        BY <1>1, <2>4 DEF Follow, Does, Steps
      <3>2. Reads(t, "reload")
        BY <2>2, <2>4 DEF Reads
      <3> QED BY <2>4, <3>1, <3>2 DEF Advances
    <2> QED BY <1>1, <2>1, <2>3, <2>4, ReadGoes DEF Reloads
  <1>2. CASE FindEvents(t)
    <2>1. Goes(t, "findEvents", {"removeEvents"}) /\ KeepsRow(t)
      BY <1>2, ReadGoes DEF Finds
    <2>2. Follow(t, "findEvents", {"removeEvents"}) /\ Does(t, "findEvents") /\ "findEvents" \in Steps
          /\ {"removeEvents"} \in SUBSET Steps
      BY <1>2 DEF Follow, Does, Steps
    <2>3. Reads(t, "findEvents")
      BY <2>1 DEF Reads, KeepsRow, Goes, Running
    <2> QED BY <2>1, <2>2, <2>3 DEF Advances
  <1>3. CASE FindSaved(t)
    <2>1. PICK new \in {{"addSaved"}, {"removeSaved"}} : Goes(t, "findSaved", new) /\ KeepsRow(t)
      BY <1>3, ReadGoes
    <2>2. Follow(t, "findSaved", new) /\ Does(t, "findSaved") /\ "findSaved" \in Steps /\ new \in SUBSET Steps
      BY <1>3 DEF Follow, Does, Steps
    <2>3. Reads(t, "findSaved")
      BY <2>1 DEF Reads, KeepsRow, Goes, Running
    <2> QED BY <2>1, <2>2, <2>3 DEF Advances
  <1>4. ASSUME NEW step \in {"put", "deleteObject"}, NEW new \in {{"put"}, {"saveRow"}}, Goes(t, step, new),
               Does(t, step), new = {"put"} => step = "put", Running(t)' => task'[t].found = task[t].found,
               NEW photos, task'[t].row = [task[t].row EXCEPT !.photos = photos]
        PROVE  \E s \in Steps, n \in SUBSET Steps : Advances(t, s, n)
    <2>1. task[t] \in Task /\ Sound(task[t]) /\ step \in task[t].todo
      BY <1>0, <1>4 DEF Goes
    <2>2. task[t].row \in Row
      BY <2>1 DEF Sound, Writers, Images
    <2>3. task'[t].row.archived = task[t].row.archived /\ task'[t].row.rev = task[t].row.rev
      BY <1>4, <2>2 DEF Row
    <2>4. Follow(t, step, new) /\ step \in Steps /\ new \in SUBSET Steps
      BY <1>4 DEF Follow, Steps
    <2>5. task[t].kind \in Images
      BY <2>1 DEF Sound, Images
    <2>6. "index" \notin task[t].todo /\ "updateDoc" \notin task[t].todo
      BY <2>1, <2>5 DEF Sound, Images
    <2>7. Reads(t, step)
      BY <1>4, <2>3, <2>6 DEF Reads, Goes
    <2> QED BY <1>4, <2>4, <2>7 DEF Advances
  <1>5. CASE PutObject(t)
    <2>1. PICK k \in task[t].keys, new \in {{"put"}, {"saveRow"}} :
             /\ Goes(t, "put", new)
             /\ task'[t].found = task[t].found
             /\ task'[t].row = [task[t].row EXCEPT !.photos = @ \cup {k}]
      BY <1>5, ReadGoes DEF Puts
    <2>2. \E photos : task'[t].row = [task[t].row EXCEPT !.photos = photos]
      BY <2>1
    <2>3. Does(t, "put")
      BY <1>5 DEF Does
    <2> QED BY <1>4, <2>1, <2>2, <2>3
  <1>6. CASE DeleteObject(t)
    <2>1. /\ Goes(t, "deleteObject", {"saveRow"}) /\ task'[t].found = task[t].found
          /\ task'[t].row = [task[t].row EXCEPT !.photos = @ \ task[t].keys]
      BY <1>6, ReadGoes DEF Drops
    <2>2. \E photos : task'[t].row = [task[t].row EXCEPT !.photos = photos]
      BY <2>1
    <2>3. Does(t, "deleteObject")
      BY <1>6 DEF Does
    <2> QED BY <1>4, <2>1, <2>2, <2>3
  <1> QED BY <1>1, <1>2, <1>3, <1>5, <1>6

LEMMA StepAdvances ==
    ASSUME TypeInv, NEW t \in Tasks, Step(t)
    PROVE  \E step \in Steps, new \in SUBSET Steps : Advances(t, step, new)
  BY LastAdvances, ChainAdvances, ReadAdvances DEF Step

-------------------------------------------------------------------------------
(* A request that arrives. *)

Opens(t, kind, p, todo) ==
    /\ ~Running(t) /\ task'[t].kind = kind /\ task'[t].post = p /\ task'[t].todo = todo
    /\ task'[t].failed = FALSE
    /\ \A u \in Tasks \ {t} : task'[u] = task[u]
ClosingSteps == {"get", "findEvents"}
\* The kinds of requests that write no post and no document, and their steps.
Others == Kinds \ ({"create", "update"} \cup Closing \cup Images \cup {"reindex"})
OtherSteps == {"findSaved", "findExisting", "saveApp", "saveReview", "saveEvent", "removeEvents"}

OpensNew(t) == \E p \in Posts : /\ Opens(t, "create", p, {"findPost"})
                                /\ ~Exists(p) /\ p \notin deleted /\ posts' = [posts EXCEPT ![p] = NewRow]
OpensWrite(t) == \E p \in Posts : /\ HasEmployer(p)
                                  /\ Opens(t, "update", p, {"write"}) \/ Opens(t, "delete", p, {"deleteRow"})
OpensClose(t) == \E p \in Posts :
    /\ HasEmployer(p)
    /\ \/ Opens(t, "archive", p, ClosingSteps \cup {"archiveRow", "cancelApps"})
       \/ /\ Opens(t, "complete", p, ClosingSteps \cup {"saveRow"})
          /\ task'[t].row = [posts[p] EXCEPT !.archived = TRUE]
OpensImages(t) == \E p \in Posts :
    /\ Exists(p) /\ task'[t].row = posts[p]
    /\ \/ Opens(t, "upload", p, {"put"}) /\ task'[t].keys \subseteq NewKeys
       \/ Opens(t, "deleteImage", p, {"deleteObject"})
OpensBulk(t) == Opens(t, "reindex", None, {"bulk"})
OpensOther(t) == \E kind \in Others, p \in Posts, todo \in SUBSET OtherSteps :
    Opens(t, kind, p, todo) /\ ("removeEvents" \in todo => kind = "removeEvent")

LEMMA RequestOpens ==
    ASSUME TypeInv, NEW t \in Tasks, Request(t)
    PROVE  /\ UNCHANGED faults
           /\ UNCHANGED NotPosts
           /\ \/ OpensNew(t)
              \/ /\ posts' = posts
                 /\ OpensWrite(t) \/ OpensClose(t) \/ OpensImages(t) \/ OpensBulk(t) \/ OpensOther(t)
  <1>0. UNCHANGED faults
    BY DEF Request, PostRequest, AppRequest, Create, Archive, Update, Delete, Apply, ToggleSave, Upload,
           DeleteImage, Respond, Complete, Withdraw, MarkCompleted, Review, RemoveEvent, AddEvent, Reindex, Begin
  <1>1. ASSUME NEW new, Begin(t, new)
        PROVE  ~Running(t) /\ task'[t] = new /\ \A u \in Tasks \ {t} : task'[u] = task[u]
    BY <1>1 DEF Begin, TypeInv, TasksOK
  <1>2. ASSUME NEW kind, NEW p, NEW todo, Begin(t, Fresh(kind, p, todo)) PROVE Opens(t, kind, p, todo)
    <2>1. /\ Fresh(kind, p, todo).kind = kind /\ Fresh(kind, p, todo).post = p /\ Fresh(kind, p, todo).todo = todo
          /\ Fresh(kind, p, todo).failed = FALSE
      BY DEF Fresh
    <2> QED BY <1>1, <1>2, <2>1 DEF Opens
  <1>3. {"create", "update", "reindex"} \subseteq Kinds /\ Closing = {"archive", "complete", "delete"}
        /\ Images = {"upload", "deleteImage"}
    BY DEF Kinds, Closing, Images
  <1>4. {"apply", "toggleSave", "respond", "withdraw", "markCompleted", "review", "addEvent",
        "addDeadline", "removeEvent"} \subseteq Others
    BY DEF Others, Kinds, Closing, Images
  <1>w. UNCHANGED NotPosts /\ (UNCHANGED posts \/ \E p \in Posts : Create(t, p))
    BY RequestWrites
  <1>5. ASSUME NEW p \in Posts, Create(t, p) PROVE OpensNew(t)
    BY <1>2, <1>5 DEF Create, OpensNew
  <1>6. ASSUME NEW p \in Posts, Archive(t, p) PROVE OpensClose(t)
    <2>1. Opens(t, "archive", p, {"archiveRow", "get", "findEvents", "cancelApps"}) /\ HasEmployer(p)
      BY <1>2, <1>6 DEF Archive
    <2>2. {"archiveRow", "get", "findEvents", "cancelApps"} = ClosingSteps \cup {"archiveRow", "cancelApps"}
      BY DEF ClosingSteps
    <2> QED BY <2>1, <2>2 DEF OpensClose
  <1>7. ASSUME NEW p \in Posts, Update(t, p) \/ Delete(t, p) PROVE OpensWrite(t)
    BY <1>2, <1>7 DEF Update, Delete, OpensWrite
  <1>8. ASSUME NEW p \in Posts, NEW keys \in SUBSET Keys, Upload(t, p, keys) PROVE OpensImages(t)
    <2> DEFINE new == [Fresh("upload", p, {"put"}) EXCEPT !.row = posts[p], !.keys = keys]
    <2>1. /\ new.kind = "upload" /\ new.post = p /\ new.todo = {"put"} /\ new.failed = FALSE
          /\ new.row = posts[p] /\ new.keys = keys
      BY DEF Fresh
    <2>2. Begin(t, new) /\ Exists(p) /\ keys \subseteq NewKeys
      BY <1>8 DEF Upload
    <2> HIDE DEF new
    <2> QED BY <1>1, <2>1, <2>2 DEF OpensImages, Opens
  <1>9. ASSUME NEW p \in Posts, NEW k \in Keys, DeleteImage(t, p, k) PROVE OpensImages(t)
    <2> DEFINE new == [Fresh("deleteImage", p, {"deleteObject"}) EXCEPT !.row = posts[p], !.keys = {k}]
    <2>1. /\ new.kind = "deleteImage" /\ new.post = p /\ new.todo = {"deleteObject"} /\ new.failed = FALSE
          /\ new.row = posts[p]
      BY DEF Fresh
    <2>2. Begin(t, new) /\ Exists(p)
      BY <1>9 DEF DeleteImage, HasEmployer
    <2> HIDE DEF new
    <2> QED BY <1>1, <2>1, <2>2 DEF OpensImages, Opens
  <1>10. ASSUME NEW p \in Posts, NEW u \in Applicants, Apply(t, p, u) \/ ToggleSave(t, p, u) PROVE OpensOther(t)
    <2>1. ASSUME NEW kind \in {"apply", "toggleSave"}, NEW todo \in {{"findExisting"}, {"findSaved"}},
                 Begin(t, [Fresh(kind, p, todo) EXCEPT !.user = u])
          PROVE  OpensOther(t)
      <3> DEFINE new == [Fresh(kind, p, todo) EXCEPT !.user = u]
      <3>1. new.kind = kind /\ new.post = p /\ new.todo = todo /\ new.failed = FALSE
        BY DEF Fresh
      <3>2. Begin(t, new)
        BY <2>1
      <3> HIDE DEF new
      <3>3. Opens(t, kind, p, todo)
        BY <1>1, <3>1, <3>2 DEF Opens
      <3>4. todo \in SUBSET OtherSteps /\ "removeEvents" \notin todo
        BY DEF OtherSteps
      <3> QED BY <1>4, <3>3, <3>4 DEF OpensOther
    <2> QED BY <1>10, <2>1 DEF Apply, ToggleSave
  <1>11. ASSUME NEW a \in AppIds PROVE apps[a].post \in Posts /\ apps[a] \in App
    BY DEF AppIds, TypeInv, DataOK, App
  <1>12. ASSUME NEW a \in AppIds, Complete(t, a) PROVE OpensClose(t)
    <2>0. PICK p \in Posts : p = apps[a].post
      BY <1>11
    <2> DEFINE copy == [apps[a] EXCEPT !.status = "completed", !.archived = TRUE]
               row == [posts[p] EXCEPT !.archived = TRUE]
               new == [OfApp("complete", a, {"saveRow", "get", "findEvents"}, copy) EXCEPT !.row = row]
    <2>1. HasEmployer(p) /\ Begin(t, new)
      BY <1>12, <2>0 DEF Complete
    <2> HIDE DEF copy, row
    <2>2. /\ new.kind = "complete" /\ new.post = p /\ new.todo = {"saveRow", "get", "findEvents"}
          /\ new.failed = FALSE /\ new.row = row
      BY <2>0 DEF OfApp, Fresh
    <2> HIDE DEF new
    <2>3. Opens(t, "complete", p, {"saveRow", "get", "findEvents"}) /\ task'[t].row = row
      BY <1>1, <2>1, <2>2 DEF Opens
    <2>4. {"saveRow", "get", "findEvents"} = ClosingSteps \cup {"saveRow"}
      BY DEF ClosingSteps
    <2> QED BY <2>1, <2>3, <2>4 DEF OpensClose, row
  <1>13. ASSUME NEW a \in AppIds, NEW kind \in {"respond", "withdraw", "markCompleted"}, NEW copy,
                Begin(t, OfApp(kind, a, {"saveApp"}, copy))
         PROVE  OpensOther(t)
    <2>0. PICK p \in Posts : p = apps[a].post
      BY <1>11
    <2> DEFINE new == OfApp(kind, a, {"saveApp"}, copy)
    <2>1. Begin(t, new)
      BY <1>13
    <2>2. new.kind = kind /\ new.post = p /\ new.todo = {"saveApp"} /\ new.failed = FALSE
      BY <2>0 DEF OfApp, Fresh
    <2> HIDE DEF new
    <2>3. Opens(t, kind, p, {"saveApp"})
      BY <1>1, <2>1, <2>2 DEF Opens
    <2>4. {"saveApp"} \in SUBSET OtherSteps
      BY DEF OtherSteps
    <2> QED BY <1>4, <2>3, <2>4 DEF OpensOther
  <1>14. ASSUME NEW a \in AppIds, NEW side, Review(t, a, side) PROVE OpensOther(t)
    <2>0. PICK p \in Posts : p = apps[a].post
      BY <1>11
    <2> DEFINE new == [Fresh("review", p, {"saveReview"}) EXCEPT !.app = a, !.user = side]
    <2>1. Begin(t, new)
      BY <1>14, <2>0 DEF Review
    <2>2. new.kind = "review" /\ new.post = p /\ new.todo = {"saveReview"} /\ new.failed = FALSE
      BY DEF Fresh
    <2> HIDE DEF new
    <2>3. Opens(t, "review", p, {"saveReview"})
      BY <1>1, <2>1, <2>2 DEF Opens
    <2>4. {"saveReview"} \in SUBSET OtherSteps
      BY DEF OtherSteps
    <2> QED BY <1>4, <2>3, <2>4 DEF OpensOther
  <1>15. ASSUME NEW e \in events, RemoveEvent(t, e) PROVE OpensOther(t)
    <2>0. PICK p \in Posts : p = e.post
      BY DEF TypeInv, DataOK, Event
    <2> DEFINE new == [Fresh("removeEvent", p, {"removeEvents"}) EXCEPT !.found = {e}]
    <2>1. Begin(t, new)
      BY <1>15, <2>0 DEF RemoveEvent
    <2>2. new.kind = "removeEvent" /\ new.post = p /\ new.todo = {"removeEvents"} /\ new.failed = FALSE
      BY DEF Fresh
    <2> HIDE DEF new
    <2>3. Opens(t, "removeEvent", p, {"removeEvents"})
      BY <1>1, <2>1, <2>2 DEF Opens
    <2>4. {"removeEvents"} \in SUBSET OtherSteps
      BY DEF OtherSteps
    <2> QED BY <1>4, <2>3, <2>4 DEF OpensOther
  <1>16. ASSUME NEW kind \in {"addEvent", "addDeadline"}, AddEvent(t, kind) PROVE OpensOther(t)
    <2>1. PICK p \in Posts : Begin(t, Fresh(kind, p, {"saveEvent"}))
      BY <1>16 DEF AddEvent
    <2>2. {"saveEvent"} \in SUBSET OtherSteps
      BY DEF OtherSteps
    <2> QED BY <1>2, <1>4, <2>1, <2>2 DEF OpensOther
  <1>17. ASSUME Reindex(t) PROVE OpensBulk(t)
    <2> DEFINE new == [Fresh("reindex", None, {"bulk"})
                          EXCEPT !.revs = [q \in Posts |-> IF Exists(q) THEN posts[q].rev ELSE 0]]
    <2>1. Begin(t, new)
      BY <1>17 DEF Reindex
    <2>2. new.kind = "reindex" /\ new.post = None /\ new.todo = {"bulk"} /\ new.failed = FALSE
      BY DEF Fresh
    <2> HIDE DEF new
    <2> QED BY <1>1, <2>1, <2>2 DEF OpensBulk, Opens
  <1>18. ASSUME NEW a \in AppIds, AppRequest(t, a) PROVE OpensClose(t) \/ OpensOther(t)
    BY <1>12, <1>13, <1>14, <1>18 DEF AppRequest, Respond, Withdraw, MarkCompleted
  <1>19. ASSUME NEW p \in Posts, PostRequest(t, p)
         PROVE  OpensNew(t) \/ OpensClose(t) \/ OpensWrite(t) \/ OpensImages(t) \/ OpensOther(t)
    BY <1>5, <1>6, <1>7, <1>8, <1>9, <1>10, <1>19 DEF PostRequest
  <1>20. \/ OpensNew(t) \/ OpensClose(t) \/ OpensWrite(t) \/ OpensImages(t) \/ OpensBulk(t) \/ OpensOther(t)
    BY <1>15, <1>16, <1>17, <1>18, <1>19 DEF Request
  <1> QED BY <1>0, <1>5, <1>w, <1>20

\* A task that runs after a step of the board is as it was, or has made a step of
\* its own, or is a request that has come.
LEMMA TaskMoves ==
    ASSUME TypeInv, [BoardNext]_boardVars, NEW u \in Tasks, Running(u)'
    PROVE  \/ Running(u) /\ task'[u] = task[u]
           \/ Step(u) /\ Running(u)
           \/ Request(u) /\ ~Running(u)
  <1>1. CASE UNCHANGED boardVars
    BY <1>1 DEF boardVars, Running
  <1>2. CASE Crash
    BY <1>2, CrashKeeps DEF TypeInv, Running
  <1>3. ASSUME NEW t \in Tasks, Request(t) PROVE (Running(u) /\ task'[u] = task[u]) \/ (Request(u) /\ ~Running(u))
    <2>1. PICK new : Begin(t, new) /\ Arrives(new)
      BY <1>3, RequestArrives
    <2>2. \A v \in Tasks \ {t} : task'[v] = task[v]
      BY <2>1, BeginKeeps DEF Arrives, TypeInv
    <2> QED BY <1>3, <2>1, <2>2 DEF Begin, Running
  <1>4. ASSUME NEW t \in Tasks, Step(t) PROVE (Running(u) /\ task'[u] = task[u]) \/ (Step(u) /\ Running(u))
    <2>1. PICK step \in Steps, new \in SUBSET Steps : Advances(t, step, new)
      BY <1>4, StepAdvances
    <2> QED BY <1>4, <2>1 DEF Advances, Goes, Running
  <1> QED BY <1>1, <1>2, <1>3, <1>4 DEF BoardNext

-------------------------------------------------------------------------------
(* What a step does to the row of a post. *)

RowBorn(t, p) == /\ Request(t) /\ Opens(t, "create", p, {"findPost"})
                 /\ ~Exists(p) /\ p \notin deleted /\ posts'[p] = NewRow
RowArchived(t, p) == /\ On(t, p) /\ task[t].kind = "archive" /\ ArchiveRow(t)
                     /\ Exists(p) /\ Exists(p)' /\ posts'[p].archived = TRUE /\ posts'[p].rev = posts[p].rev
                     /\ posts'[p].employer = posts[p].employer /\ posts'[p].photos = posts[p].photos
RowWritten(t, p) == /\ On(t, p) /\ task[t].kind = "update" /\ Write(t)
                    /\ Exists(p) /\ Exists(p)' /\ posts'[p].archived = posts[p].archived
                    /\ posts'[p].rev = posts[p].rev + 1
                    /\ posts'[p].employer = posts[p].employer /\ posts'[p].photos = posts[p].photos
RowDeleted(t, p) == /\ On(t, p) /\ task[t].kind = "delete" /\ DeleteRow(t)
                    /\ Exists(p) /\ ~Exists(p)' /\ p \in deleted'
RowSaved(t, p) == /\ On(t, p) /\ task[t].kind \in Writers /\ SaveRow(t)
                  /\ Exists(p)' /\ posts'[p].archived = task[t].row.archived
                  /\ posts'[p].rev = task[t].row.rev /\ posts'[p].photos = task[t].row.photos
                  /\ Exists(p) => posts'[p].employer = posts[p].employer
                  /\ ~Exists(p) /\ task[t].kind # "upload" => posts'[p].employer = TRUE
RowChanges(t, p) == RowBorn(t, p) \/ RowArchived(t, p) \/ RowWritten(t, p) \/ RowDeleted(t, p) \/ RowSaved(t, p)

LEMMA RowMoves ==
    ASSUME TypeInv, [BoardNext]_boardVars, NEW p \in Posts
    PROVE  posts'[p] = posts[p] \/ \E t \in Tasks : RowChanges(t, p)
  <1>0. posts \in [Posts -> Row \cup {None}] /\ (Exists(p) => posts[p] \in Row)
    BY DEF TypeInv, DataOK, Exists
  <1>1. ASSUME NEW t \in Tasks, ArchiveRow(t), posts'[p] # posts[p] PROVE RowArchived(t, p)
    <2>1. Running(t) /\ task[t].kind = "archive"
      BY <1>1, StepKinds DEF ArchiveRow
    <2>2. p = Post(t) /\ Exists(p)
      BY <1>0, <1>1 DEF ArchiveRow
    <2>3. posts'[p] = [posts[p] EXCEPT !.archived = TRUE] /\ posts[p] \in Row
      BY <1>0, <1>1, <2>2 DEF ArchiveRow
    <2>4. posts'[p] \in Row
      BY <2>3 DEF Row
    <2>5. /\ posts'[p].archived = TRUE /\ posts'[p].rev = posts[p].rev
          /\ posts'[p].employer = posts[p].employer /\ posts'[p].photos = posts[p].photos
      BY <2>3 DEF Row
    <2> QED BY <1>1, <2>1, <2>2, <2>4, <2>5, NoneIsNone DEF RowArchived, On, Post, Exists
  <1>2. ASSUME NEW t \in Tasks, Write(t), posts'[p] # posts[p] PROVE RowWritten(t, p)
    <2>1. Running(t) /\ task[t].kind = "update"
      BY <1>2, StepKinds DEF Write
    <2>2. p = Post(t) /\ Exists(p)
      BY <1>0, <1>2 DEF Write
    <2>3. posts'[p] = [posts[p] EXCEPT !.rev = @ + 1] /\ posts[p] \in Row
      BY <1>0, <1>2, <2>2 DEF Write
    <2>4. posts'[p] \in Row
      BY <2>3 DEF Row
    <2>5. /\ posts'[p].archived = posts[p].archived /\ posts'[p].rev = posts[p].rev + 1
          /\ posts'[p].employer = posts[p].employer /\ posts'[p].photos = posts[p].photos
      BY <2>3 DEF Row
    <2> QED BY <1>2, <2>1, <2>2, <2>4, <2>5, NoneIsNone DEF RowWritten, On, Post, Exists
  <1>3. ASSUME NEW t \in Tasks, DeleteRow(t), posts'[p] # posts[p] PROVE RowDeleted(t, p)
    <2>1. Running(t) /\ task[t].kind = "delete"
      BY <1>3, StepKinds DEF DeleteRow
    <2>2. p = Post(t) /\ posts' = [posts EXCEPT ![p] = None] /\ p \in deleted'
      BY <1>0, <1>3 DEF DeleteRow
    <2> QED BY <1>0, <1>3, <2>1, <2>2 DEF RowDeleted, On, Post, Exists
  <1>4. ASSUME NEW t \in Tasks, SaveRow(t), posts'[p] # posts[p] PROVE RowSaved(t, p)
    <2>1. Running(t) /\ task[t].kind \in Writers /\ task[t].row \in Row
      BY <1>4, StepKinds DEF SaveRow
    <2> DEFINE employer == IF Exists(Post(t)) THEN posts[Post(t)].employer ELSE task[t].kind # "upload"
    <2>2. p = Post(t) /\ posts'[p] = [task[t].row EXCEPT !.employer = employer]
      BY <1>0, <1>4 DEF SaveRow
    <2>3. employer \in BOOLEAN
      BY <1>0, <2>2 DEF Row
    <2>4. (Exists(p) => employer = posts[p].employer) /\ (~Exists(p) /\ task[t].kind # "upload" => employer = TRUE)
      BY <2>2
    <2> HIDE DEF employer
    <2>5. posts'[p] \in Row
      BY <2>1, <2>2, <2>3 DEF Row
    <2>6. /\ posts'[p].archived = task[t].row.archived /\ posts'[p].rev = task[t].row.rev
          /\ posts'[p].photos = task[t].row.photos /\ posts'[p].employer = employer
      BY <2>1, <2>2 DEF Row
    <2> QED BY <1>4, <2>1, <2>2, <2>4, <2>5, <2>6, NoneIsNone DEF RowSaved, On, Post, Exists
  <1>5. ASSUME NEW t \in Tasks, Request(t), posts'[p] # posts[p] PROVE RowBorn(t, p)
    <2>1. OpensNew(t)
      BY <1>5, RequestOpens
    <2>2. PICK q \in Posts : /\ Opens(t, "create", q, {"findPost"})
                             /\ ~Exists(q) /\ q \notin deleted /\ posts' = [posts EXCEPT ![q] = NewRow]
      BY <2>1 DEF OpensNew
    <2>3. p = q
      BY <1>0, <1>5, <2>2
    <2> QED BY <1>0, <1>5, <2>2, <2>3 DEF RowBorn
  <1> QED BY <1>1, <1>2, <1>3, <1>4, <1>5, NextWrites DEF RowChanges

-------------------------------------------------------------------------------
(* The order of the steps of a request. *)

CreateSteps == {"findPost", "saveEvent", "reload", "index"}
UpdateSteps == {"write", "reload", "updateDoc"}
ImageSteps == {"put", "deleteObject", "saveRow"}

\* A request that creates or updates a post or its images has one step to do; the document is
\* removed by a request that closes the post; an application is completed last.
OrderInv ==
    \A t \in Tasks : Running(t) =>
        /\ task[t].kind = "create" => \E s \in CreateSteps : task[t].todo = {s}
        /\ task[t].kind = "update" => \E s \in UpdateSteps : task[t].todo = {s}
        /\ task[t].kind \in Images => \E s \in ImageSteps : task[t].todo = {s}
        /\ "get" \in task[t].todo \/ "del" \in task[t].todo => task[t].kind \in Closing
        /\ "saveApp" \in task[t].todo /\ task[t].kind = "complete" =>
              task[t].failed = FALSE /\ task[t].todo = {"saveApp"}
        /\ "index" \in task[t].todo => task[t].kind = "create"
        /\ "updateDoc" \in task[t].todo => task[t].kind = "update"
        /\ "bulk" \in task[t].todo => task[t].kind = "reindex"
        /\ "findEvents" \in task[t].todo => task[t].kind \in {"archive", "complete"}
        /\ "removeEvents" \in task[t].todo => task[t].kind \in {"archive", "complete", "removeEvent"}

LEMMA OrderStep == ASSUME TypeInv, OrderInv, [BoardNext]_boardVars PROVE OrderInv'
  <1> SUFFICES ASSUME NEW u \in Tasks, Running(u)'
               PROVE  /\ task'[u].kind = "create" => \E s \in CreateSteps : task'[u].todo = {s}
                      /\ task'[u].kind = "update" => \E s \in UpdateSteps : task'[u].todo = {s}
                      /\ task'[u].kind \in Images => \E s \in ImageSteps : task'[u].todo = {s}
                      /\ "get" \in task'[u].todo \/ "del" \in task'[u].todo => task'[u].kind \in Closing
                      /\ "saveApp" \in task'[u].todo /\ task'[u].kind = "complete" =>
                            task'[u].failed = FALSE /\ task'[u].todo = {"saveApp"}
                      /\ "index" \in task'[u].todo => task'[u].kind = "create"
                      /\ "updateDoc" \in task'[u].todo => task'[u].kind = "update"
                      /\ "bulk" \in task'[u].todo => task'[u].kind = "reindex"
                      /\ "findEvents" \in task'[u].todo => task'[u].kind \in {"archive", "complete"}
                      /\ "removeEvents" \in task'[u].todo => task'[u].kind \in {"archive", "complete", "removeEvent"}
    BY DEF OrderInv
  <1>1. CASE Running(u) /\ task'[u] = task[u]
    BY <1>1 DEF OrderInv
  <1>2. CASE Step(u) /\ Running(u)
    <2>1. PICK step \in Steps, new \in SUBSET Steps : Advances(u, step, new)
      BY <1>2, StepAdvances
    <2>2. /\ step \in task[u].todo /\ task'[u].kind = task[u].kind /\ task'[u].todo = (task[u].todo \ {step}) \cup new
          /\ task'[u].todo # {} /\ Follow(u, step, new) /\ Does(u, step)
      BY <2>1 DEF Advances, Goes, At, Running
    <2>3. new = {} \/ \E next \in Steps : new = {next}
      BY <2>2 DEF Follow
    <2>4. /\ task[u].kind = "create" => \E s \in CreateSteps : task'[u].todo = {s}
          /\ task[u].kind = "update" => \E s \in UpdateSteps : task'[u].todo = {s}
          /\ task[u].kind \in Images => \E s \in ImageSteps : task'[u].todo = {s}
      <3>1. /\ task[u].kind = "create" => \E s \in CreateSteps : task[u].todo = {s}
            /\ task[u].kind = "update" => \E s \in UpdateSteps : task[u].todo = {s}
            /\ task[u].kind \in Images => \E s \in ImageSteps : task[u].todo = {s}
        BY <1>2 DEF OrderInv
      <3>2. ASSUME task[u].kind = "create" PROVE \E s \in CreateSteps : task'[u].todo = {s}
        <4>1. step \in CreateSteps /\ task'[u].todo = new
          BY <2>2, <3>1, <3>2
        <4>2. PICK next \in Steps : new = {next}
          BY <2>2, <2>3, <4>1
        <4>3. next \in CreateSteps
          BY <2>2, <3>2, <4>1, <4>2 DEF Follow, CreateSteps, Steps
        <4> QED BY <4>1, <4>2, <4>3
      <3>3. ASSUME task[u].kind = "update" PROVE \E s \in UpdateSteps : task'[u].todo = {s}
        <4>1. step \in UpdateSteps /\ task'[u].todo = new
          BY <2>2, <3>1, <3>3
        <4>2. PICK next \in Steps : new = {next}
          BY <2>2, <2>3, <4>1
        <4>3. next \in UpdateSteps
          BY <2>2, <3>3, <4>1, <4>2 DEF Follow, UpdateSteps, Steps
        <4> QED BY <4>1, <4>2, <4>3
      <3>4. ASSUME task[u].kind \in Images PROVE \E s \in ImageSteps : task'[u].todo = {s}
        <4>1. step \in ImageSteps /\ task'[u].todo = new
          BY <2>2, <3>1, <3>4
        <4>2. PICK next \in Steps : new = {next}
          BY <2>2, <2>3, <4>1
        <4>3. next \in ImageSteps
          BY <2>2, <3>4, <4>1, <4>2 DEF Follow, ImageSteps, Steps, Images
        <4> QED BY <4>1, <4>2, <4>3
      <3> QED BY <3>2, <3>3, <3>4
    <2>5. "get" \in task'[u].todo \/ "del" \in task'[u].todo => task[u].kind \in Closing
      <3>1. "get" \in task[u].todo \/ "del" \in task[u].todo => task[u].kind \in Closing
        BY <1>2 DEF OrderInv
      <3>2. CASE "get" \in new
        <4>1. At(u, "deleteRow")
          BY <2>1, <3>2 DEF Advances, Goes, Follow
        <4> QED BY <4>1, StepKinds DEF Closing
      <3>3. "del" \in new => "get" \in task[u].todo
        BY <2>2 DEF Follow
      <3> QED BY <2>2, <3>1, <3>2, <3>3
    <2>6. ASSUME "saveApp" \in task'[u].todo, task[u].kind = "complete"
          PROVE  task'[u].failed = FALSE /\ task'[u].todo = {"saveApp"}
      <3>1. CASE "saveApp" \in task[u].todo
        <4>1. task[u].todo = {"saveApp"}
          BY <1>2, <2>6, <3>1 DEF OrderInv
        <4>2. step = "saveApp" /\ task'[u].todo = new
          BY <2>2, <4>1
        <4> QED BY <2>2, <2>6, <4>2 DEF Follow
      <3>2. CASE "saveApp" \in new
        <4>1. task[u].failed = FALSE /\ Rest(u, step) = {} /\ new = {"saveApp"}
          BY <2>2, <2>3, <3>2 DEF Follow
        <4>2. task'[u].todo = {"saveApp"}
          BY <2>2, <4>1 DEF Rest
        <4> QED BY <2>2, <3>2, <4>2 DEF Follow
      <3> QED BY <2>2, <2>6, <3>1, <3>2
    <2>7. /\ "index" \in task'[u].todo => task'[u].kind = "create"
          /\ "bulk" \in task'[u].todo => task'[u].kind = "reindex"
          /\ "findEvents" \in task'[u].todo => task'[u].kind \in {"archive", "complete"}
          /\ "removeEvents" \in task'[u].todo => task'[u].kind \in {"archive", "complete", "removeEvent"}
      BY <1>2, <2>2 DEF Follow, OrderInv
    <2>8. "updateDoc" \in task'[u].todo => task'[u].kind = "update"
      <3>1. CASE "updateDoc" \in task[u].todo
        BY <1>2, <2>2, <3>1 DEF OrderInv
      <3>2. CASE "updateDoc" \in new
        <4>1. "reload" \in task[u].todo /\ task[u].kind # "create"
          BY <2>2, <3>2 DEF Follow
        <4>2. Sound(task[u])
          BY <1>2 DEF TypeInv, TasksOK, Running
        <4> QED BY <2>2, <4>1, <4>2 DEF Sound
      <3> QED BY <2>2, <3>1, <3>2
    <2> QED BY <2>2, <2>4, <2>5, <2>6, <2>7, <2>8
  <1>3. CASE Request(u) /\ ~Running(u)
    <2>1. PICK kind, p, todo : kind \in Kinds /\ Opens(u, kind, p, todo) /\
             \/ kind = "create" /\ todo = {"findPost"}
             \/ kind = "update" /\ todo = {"write"}
             \/ kind = "delete" /\ todo = {"deleteRow"}
             \/ kind = "archive" /\ todo = ClosingSteps \cup {"archiveRow", "cancelApps"}
             \/ kind = "complete" /\ todo = ClosingSteps \cup {"saveRow"}
             \/ kind = "upload" /\ todo = {"put"}
             \/ kind = "deleteImage" /\ todo = {"deleteObject"}
             \/ kind = "reindex" /\ todo = {"bulk"}
             \/ kind \in Others /\ todo \in SUBSET OtherSteps /\ ("removeEvents" \in todo => kind = "removeEvent")
      BY <1>3, RequestOpens DEF OpensNew, OpensWrite, OpensClose, OpensImages, OpensBulk, OpensOther, Kinds, Others
    <2>2. task'[u].kind = kind /\ task'[u].todo = todo
      BY <2>1 DEF Opens
    <2> QED BY <2>1, <2>2 DEF Others, OtherSteps, ClosingSteps, Closing, Images, CreateSteps, UpdateSteps, ImageSteps
  <1> QED BY <1>1, <1>2, <1>3, TaskMoves

-------------------------------------------------------------------------------
(* What overlaps leave: whole rows that are stale, posts that are gone. *)

LEMMA MetStays ==
    ASSUME TypeInv, [BoardNext]_boardVars, NEW p \in Posts
    PROVE  /\ LostUpdate(p) => LostUpdate(p)'
           /\ Clean(p)' => Clean(p)
  BY MetGrows DEF TypeInv, LostUpdate, Clean

Adders == {"create", "addDeadline"}     \* of deadlines

\* Two requests for a post that are under way at once and may undo each other.
LEMMA Overlap ==
    ASSUME Meets, NEW p \in Posts, NEW t \in Tasks, NEW u \in Tasks, t # u, On(t, p), On(u, p)
    PROVE  /\ task[t].kind \in {"create", "update"} /\ task[u].kind \in {"create", "update"} => LostUpdate(p)
           /\ task[t].kind \in Adders /\ task[u].kind \in Closing => Met(p, Adders, Closing)
           /\ task[t].kind = "create" /\ task[u].kind \in Closing => LostUpdate(p) /\ Met(p, {"create"}, Closing)
           /\ task[t].kind \in Images /\ task[u].kind \in Closing \cup {"update"} => LostUpdate(p)
  <1>1. <<task[t].kind, task[u].kind>> \in met[p]
    BY DEF Meets, On
  <1> QED BY <1>1 DEF LostUpdate, Met

\* A task that runs is one that has run, or is a request that has come.
WentOn(u) == /\ Running(u) /\ task'[u].kind = task[u].kind /\ task'[u].post = task[u].post
             /\ task'[u].failed = FALSE => task[u].failed = FALSE
             /\ task[u].kind \in Writers => /\ task'[u].row.archived = task[u].row.archived
                                            /\ task'[u].row.rev = task[u].row.rev
LEMMA TaskGoes ==
    ASSUME TypeInv, [BoardNext]_boardVars, NEW u \in Tasks, Running(u)'
    PROVE  /\ WentOn(u) \/ (Request(u) /\ ~Running(u))
           /\ task'[u].kind # "reindex" => task'[u].post \in Posts
  <1>1. WentOn(u) \/ (Request(u) /\ ~Running(u))
    <2>1. ASSUME Step(u), Running(u) PROVE WentOn(u)
      <3>1. PICK step \in Steps, new \in SUBSET Steps : Advances(u, step, new)
        BY <2>1, StepAdvances
      <3> QED BY <2>1, <3>1 DEF Advances, Goes, Reads, WentOn
    <2> QED BY <2>1, TaskMoves DEF WentOn
  <1>2. Sound(task[u])' /\ task'[u].todo # {}
    BY TypeInvStep DEF TypeInv, TasksOK, Running
  <1> QED BY <1>1, <1>2 DEF Sound

\* The post of a request to write it is stored, or was deleted.
KnownInv ==
    \A t \in Tasks : Running(t) /\ task[t].kind \in {"create", "update"} \cup Closing \cup Images =>
        Exists(task[t].post) \/ task[t].post \in deleted

LEMMA KnownStep == ASSUME TypeInv, KnownInv, [BoardNext]_boardVars PROVE KnownInv'
  <1>1. ASSUME NEW p \in Posts, Exists(p) \/ p \in deleted PROVE Exists(p)' \/ p \in deleted'
    <2>1. posts'[p] = posts[p] \/ \E t \in Tasks : RowChanges(t, p)
      BY RowMoves
    <2>2. deleted \subseteq deleted'
      BY DeletedChange
    <2> QED BY <1>1, <2>1, <2>2 DEF RowChanges, RowBorn, RowArchived, RowWritten, RowDeleted, RowSaved, Exists
  <1>2. ASSUME NEW u \in Tasks, NEW p \in Posts, Running(u)', task'[u].post = p,
               task'[u].kind \in {"create", "update"} \cup Closing \cup Images
        PROVE  Exists(p)' \/ p \in deleted'
    <2>1. CASE WentOn(u)
      BY <1>1, <1>2, <2>1 DEF WentOn, KnownInv
    <2>2. CASE Request(u)
      <3>1. NewRow # None
        BY NoneIsNone DEF NewRow, Row
      <3>2. CASE OpensNew(u)
        BY <1>2, <3>1, <3>2 DEF OpensNew, Opens, Exists, TypeInv, DataOK
      <3>3. CASE OpensWrite(u) \/ OpensClose(u) \/ OpensImages(u)
        BY <1>1, <1>2, <3>3 DEF OpensWrite, OpensClose, OpensImages, Opens, HasEmployer
      <3>4. CASE OpensBulk(u) \/ OpensOther(u)
        BY <1>2, <3>4 DEF OpensBulk, OpensOther, Opens, Others, Closing, Images
      <3> QED BY <2>2, <3>2, <3>3, <3>4, RequestOpens
    <2> QED BY <1>2, <2>1, <2>2, TaskGoes
  <1>3. \A u \in Tasks : Running(u)' /\ task'[u].kind \in {"create", "update"} \cup Closing \cup Images =>
           \E p \in Posts : task'[u].post = p /\ (Exists(p)' \/ p \in deleted')
    BY <1>2, TaskGoes DEF Closing, Images
  <1>4. \A u \in Tasks : Running(u)' /\ task'[u].kind \in {"create", "update"} \cup Closing \cup Images =>
           posts'[task'[u].post] # None \/ task'[u].post \in deleted'
    BY <1>3 DEF Exists
  <1> QED BY <1>4 DEF KnownInv, Exists

\* A reindexing overlaps every request.
BulkInv == \A t \in Tasks : Running(t) /\ task[t].kind = "reindex" =>
              \A p \in Posts : Met(p, {"reindex"}, {"reindex"})

LEMMA BulkStep == ASSUME TypeInv, BulkInv, [BoardNext]_boardVars PROVE BulkInv'
  <1> SUFFICES ASSUME NEW u \in Tasks, Running(u)', task'[u].kind = "reindex", NEW p \in Posts
               PROVE  Met(p, {"reindex"}, {"reindex"})'
    BY DEF BulkInv
  <1>1. CASE WentOn(u)
    BY <1>1, MetGrows DEF WentOn, BulkInv, TypeInv
  <1>2. CASE Request(u)
    <2>1. <<"reindex", "reindex">> \in Overlaps(p)'
      <3> DEFINE on == {t \in Tasks : Running(t)' /\ (task'[t].post = p \/ task'[t].kind = "reindex")}
      <3>1. u \in on
        OBVIOUS
      <3>2. <<u, u>> \in {x \in on \X on : x[1] # x[2] \/ task'[x[1]].kind = "reindex"}
        BY <3>1
      <3> QED BY <3>2 DEF Overlaps
    <2>2. Remember
      <3>1. UNCHANGED boardVars => UNCHANGED task
        BY DEF boardVars
      <3>2. ~Running(u)
        BY <1>2, RequestOpens DEF OpensNew, OpensWrite, OpensClose, OpensImages, OpensBulk, OpensOther, Opens
      <3> QED BY <3>1, <3>2 DEF BoardNext, Running
    <2>3. met'[p] = met[p] \cup Overlaps(p)'
      BY <2>2 DEF Remember
    <2> QED BY <2>1, <2>3 DEF Met
  <1> QED BY <1>1, <1>2, TaskGoes

\* An image that is being changed holds the post as it is, but for lost updates.
ImageInv ==
    \A t \in Tasks : Running(t) /\ task[t].kind \in Images =>
        \/ LostUpdate(task[t].post)
        \/ /\ Exists(task[t].post)
           /\ task[t].row.archived = posts[task[t].post].archived
           /\ task[t].row.rev = posts[task[t].post].rev

\* What the row of a post keeps while nothing that overlaps is lost.
LEMMA RowStays ==
    ASSUME TypeInv, Meets, ImageInv, [BoardNext]_boardVars, NEW p \in Posts, ~LostUpdate(p), NEW t \in Tasks,
           RowSaved(t, p), task[t].kind # "complete"
    PROVE  /\ Exists(p) /\ Exists(p)' /\ posts'[p].archived = posts[p].archived /\ posts'[p].rev = posts[p].rev
           /\ posts'[p].employer = posts[p].employer
  <1>1. task[t].kind \in Images
    BY DEF RowSaved, Writers
  <1> QED BY <1>1 DEF RowSaved, ImageInv, On

LEMMA ImageStep == ASSUME TypeInv, Meets, ImageInv, [BoardNext]_boardVars PROVE ImageInv'
  <1>1. ASSUME NEW u \in Tasks, NEW p \in Posts, Running(u)', task'[u].post = p, task'[u].kind \in Images,
               ~LostUpdate(p)'
        PROVE  /\ Exists(p)' /\ task'[u].row.archived = posts'[p].archived /\ task'[u].row.rev = posts'[p].rev
    <2>0. ~LostUpdate(p)
      BY <1>1, MetStays
    <2>1. CASE WentOn(u)
      <3>1. /\ On(u, p) /\ task[u].kind \in Images /\ Exists(p)
            /\ task[u].row.archived = posts[p].archived /\ task[u].row.rev = posts[p].rev
        BY <1>1, <2>0, <2>1 DEF WentOn, On, ImageInv
      <3>2. task'[u].row.archived = task[u].row.archived /\ task'[u].row.rev = task[u].row.rev
        BY <2>1, <3>1 DEF WentOn, Writers
      <3>3. CASE posts'[p] = posts[p]
        BY <3>1, <3>2, <3>3 DEF Exists
      <3>4. ASSUME NEW t \in Tasks, RowChanges(t, p)
            PROVE  Exists(p)' /\ posts'[p].archived = posts[p].archived /\ posts'[p].rev = posts[p].rev
        <4>1. ~RowBorn(t, p)
          BY <3>1 DEF RowBorn
        <4>2. ASSUME On(t, p), task[t].kind \in Closing \cup {"update"} PROVE FALSE
          <5>1. t # u
            BY <3>1, <4>2 DEF Closing, Images
          <5> QED BY <2>0, <3>1, <4>2, <5>1, Overlap
        <4>3. ~RowArchived(t, p) /\ ~RowWritten(t, p) /\ ~RowDeleted(t, p)
          BY <4>2 DEF RowArchived, RowWritten, RowDeleted, Closing
        <4>4. RowSaved(t, p) /\ task[t].kind # "complete"
          BY <3>4, <4>1, <4>2, <4>3 DEF RowChanges, RowSaved, Closing
        <4> QED BY <2>0, <4>4, RowStays
      <3> QED BY <3>1, <3>2, <3>3, <3>4, RowMoves
    <2>2. CASE Request(u)
      <3>1. OpensImages(u) /\ posts' = posts
        BY <1>1, <2>2, RequestOpens
           DEF OpensNew, OpensWrite, OpensClose, OpensBulk, OpensOther, Opens, Others, Images
      <3>2. Exists(p) /\ task'[u].row = posts[p]
        BY <1>1, <3>1 DEF OpensImages, Opens
      <3> QED BY <3>1, <3>2 DEF Exists
    <2> QED BY <1>1, <2>1, <2>2, TaskGoes
  <1>2. \A u \in Tasks : Running(u)' /\ task'[u].kind \in Images => task'[u].post \in Posts
    BY TaskGoes DEF Images
  <1>3. ASSUME NEW u \in Tasks, Running(u)', task'[u].kind \in Images
        PROVE  \/ LostUpdate(task[u].post)'
               \/ /\ Exists(task[u].post)'
                  /\ task'[u].row.archived = posts'[task'[u].post].archived
                  /\ task'[u].row.rev = posts'[task'[u].post].rev
    <2>1. PICK p \in Posts : p = task'[u].post
      BY <1>2, <1>3
    <2>2. LostUpdate(p)' \/ (/\ Exists(p)' /\ task'[u].row.archived = posts'[p].archived
                             /\ task'[u].row.rev = posts'[p].rev)
      BY <1>1, <1>3, <2>1
    <2>3. LostUpdate(task[u].post)' <=> LostUpdate(p)'
      BY <2>1 DEF LostUpdate, Met
    <2> QED BY <2>1, <2>2, <2>3 DEF Exists
  <1> QED BY <1>3 DEF ImageInv

LEMMA RowType ==
    ASSUME TypeInv, NEW p \in Posts, Exists(p)
    PROVE  /\ posts[p] \in Row /\ posts[p].archived \in BOOLEAN /\ posts[p].rev \in Nat
           /\ IsLive(p) <=> posts[p].archived = FALSE
  BY DEF TypeInv, DataOK, Exists, Row, IsLive

\* A post that is created or updated has its employer.
EmployerInv ==
    \A p \in Posts, t \in Tasks : On(t, p) /\ task[t].kind \in {"create", "update"} /\ Exists(p) =>
        posts[p].employer = TRUE \/ LostUpdate(p)

LEMMA EmployerStep ==
    ASSUME TypeInv, Meets, KnownInv, ImageInv, EmployerInv, [BoardNext]_boardVars PROVE EmployerInv'
  <1>1. ASSUME NEW p \in Posts, NEW u \in Tasks, Running(u)', task'[u].post = p,
               task'[u].kind \in {"create", "update"}, Exists(p)', ~LostUpdate(p)'
        PROVE  posts'[p].employer = TRUE
    <2>0. ~LostUpdate(p)
      BY <1>1, MetStays
    <2>1. CASE WentOn(u)
      <3>1. On(u, p) /\ task[u].kind \in {"create", "update"}
        BY <1>1, <2>1 DEF WentOn, On
      <3>2. Exists(p) => posts[p].employer = TRUE
        BY <2>0, <3>1 DEF EmployerInv
      <3>3. Exists(p) \/ p \in deleted
        BY <3>1 DEF KnownInv, On
      <3>4. ASSUME NEW t \in Tasks, RowSaved(t, p) PROVE posts'[p].employer = TRUE
        <4>1. CASE task[t].kind = "complete"
          BY <3>2, <3>4, <4>1 DEF RowSaved
        <4>2. CASE task[t].kind # "complete"
          BY <2>0, <3>2, <3>4, <4>2, RowStays
        <4> QED BY <4>1, <4>2
      <3>5. ASSUME NEW t \in Tasks, RowChanges(t, p) PROVE posts'[p].employer = TRUE
        BY <1>1, <3>2, <3>3, <3>4, <3>5 DEF RowChanges, RowBorn, RowArchived, RowWritten, RowDeleted
      <3> QED BY <1>1, <3>2, <3>5, RowMoves DEF Exists
    <2>2. CASE Request(u)
      <3>1. CASE OpensNew(u)
        BY <1>1, <3>1 DEF OpensNew, Opens, NewRow, TypeInv, DataOK
      <3>2. CASE OpensWrite(u) /\ posts' = posts
        <4>1. HasEmployer(p)
          BY <1>1, <3>2 DEF OpensWrite, Opens
        <4> QED BY <3>2, <4>1, RowType DEF HasEmployer, Row
      <3>3. CASE OpensClose(u) \/ OpensImages(u) \/ OpensBulk(u) \/ OpensOther(u)
        BY <1>1, <3>3 DEF OpensClose, OpensImages, OpensBulk, OpensOther, Opens, Others
      <3> QED BY <2>2, <3>1, <3>2, <3>3, RequestOpens
    <2> QED BY <1>1, <2>1, <2>2, TaskGoes
  <1> QED BY <1>1 DEF EmployerInv, On

\* A post that is still being created is live.
CreateInv ==
    \A p \in Posts, t \in Tasks : On(t, p) /\ task[t].kind = "create" => IsLive(p) \/ LostUpdate(p)

LEMMA CreateStep ==
    ASSUME TypeInv, Meets, KnownInv, ImageInv, CreateInv, [BoardNext]_boardVars PROVE CreateInv'
  <1>1. ASSUME NEW p \in Posts, NEW u \in Tasks, Running(u)', task'[u].post = p,
               task'[u].kind = "create", ~LostUpdate(p)'
        PROVE  IsLive(p)'
    <2>0. ~LostUpdate(p)
      BY <1>1, MetStays
    <2>1. CASE WentOn(u)
      <3>1. On(u, p) /\ task[u].kind = "create"
        BY <1>1, <2>1 DEF WentOn, On
      <3>2. IsLive(p) /\ Exists(p)
        BY <2>0, <3>1 DEF CreateInv, IsLive
      <3>3. ASSUME NEW t \in Tasks, On(t, p), task[t].kind \in Closing PROVE FALSE
        BY <2>0, <3>1, <3>3, Overlap DEF Closing
      <3>4. ASSUME NEW t \in Tasks, RowChanges(t, p) PROVE IsLive(p)'
        <4>1. CASE RowSaved(t, p)
          <5>1. task[t].kind # "complete"
            BY <3>3, <4>1 DEF RowSaved, Closing
          <5> QED BY <2>0, <3>2, <4>1, <5>1, RowStays DEF IsLive, Exists
        <4>2. CASE RowArchived(t, p) \/ RowDeleted(t, p)
          BY <3>3, <4>2 DEF RowArchived, RowDeleted, Closing
        <4>3. CASE RowWritten(t, p) \/ RowBorn(t, p)
          BY <3>2, <4>3 DEF RowWritten, RowBorn, IsLive, Exists
        <4> QED BY <3>4, <4>1, <4>2, <4>3 DEF RowChanges
      <3> QED BY <3>2, <3>4, RowMoves DEF IsLive, Exists
    <2>2. CASE Request(u)
      <3>0. NewRow # None /\ NewRow.archived = FALSE
        BY NoneIsNone DEF NewRow, Row
      <3>1. CASE OpensNew(u)
        <4>1. posts'[p] = NewRow
          BY <1>1, <3>1 DEF OpensNew, Opens, TypeInv, DataOK
        <4> QED BY <3>0, <4>1 DEF IsLive, Exists
      <3>3. CASE OpensWrite(u) \/ OpensClose(u) \/ OpensImages(u) \/ OpensBulk(u) \/ OpensOther(u)
        BY <1>1, <3>3 DEF OpensWrite, OpensClose, OpensImages, OpensBulk, OpensOther, Opens, Others
      <3> QED BY <2>2, <3>1, <3>3, RequestOpens
    <2> QED BY <1>1, <2>1, <2>2, TaskGoes
  <1> QED BY <1>1 DEF CreateInv, On

\* Revisions count from 1: a document of revision 0 is none.
RevInv ==
    /\ \A p \in Posts : Exists(p) => posts[p].rev # 0
    /\ \A t \in Tasks : Running(t) =>
          /\ task[t].kind \in Writers => task[t].row.rev # 0
          /\ "index" \in task[t].todo \/ "updateDoc" \in task[t].todo => task[t].row.rev # 0

LEMMA RevStep == ASSUME TypeInv, RevInv, [BoardNext]_boardVars PROVE RevInv'
  <1>1. ASSUME NEW p \in Posts, Exists(p)' PROVE posts'[p].rev # 0
    <2>1. ASSUME NEW t \in Tasks, RowChanges(t, p) PROVE posts'[p].rev # 0
      <3>1. CASE RowWritten(t, p)
        <4>1. posts'[p].rev = posts[p].rev + 1 /\ Exists(p)
          BY <3>1 DEF RowWritten
        <4>2. posts[p].rev \in Nat
          BY <4>1, RowType
        <4> QED BY <4>1, <4>2
      <3>2. CASE RowSaved(t, p)
        BY <3>2 DEF RowSaved, RevInv, On
      <3>3. CASE RowBorn(t, p) \/ RowArchived(t, p) \/ RowDeleted(t, p)
        BY <1>1, <3>3 DEF RowBorn, RowArchived, RowDeleted, RevInv, NewRow
      <3> QED BY <2>1, <3>1, <3>2, <3>3 DEF RowChanges
    <2> QED BY <1>1, <2>1, RowMoves DEF RevInv, Exists
  <1>2. ASSUME NEW u \in Tasks, Running(u)', task'[u].kind \in Writers PROVE task'[u].row.rev # 0
    <2>1. CASE WentOn(u)
      BY <1>2, <2>1 DEF WentOn, RevInv
    <2>2. CASE Request(u)
      <3>1. CASE OpensClose(u)
        <4>1. PICK p \in Posts : HasEmployer(p) /\ task'[u].row = [posts[p] EXCEPT !.archived = TRUE]
          BY <1>2, <3>1 DEF OpensClose, Opens, Writers, Images
        <4>2. posts[p] \in Row /\ posts[p].rev # 0
          BY <4>1, RowType DEF HasEmployer, RevInv
        <4> QED BY <4>1, <4>2 DEF Row
      <3>2. CASE OpensImages(u)
        BY <1>2, <3>2 DEF OpensImages, RevInv
      <3>3. CASE OpensNew(u) \/ OpensWrite(u) \/ OpensBulk(u)
        BY <1>2, <3>3 DEF OpensNew, OpensWrite, OpensBulk, Opens, Writers, Images
      <3>4. CASE OpensOther(u)
        BY <1>2, <3>4 DEF OpensOther, Opens, Writers, Images, Others, Closing
      <3> QED BY <2>2, <3>1, <3>2, <3>3, <3>4, RequestOpens
    <2> QED BY <1>2, <2>1, <2>2, TaskGoes
  <1>3. ASSUME NEW u \in Tasks, Running(u)', "index" \in task'[u].todo \/ "updateDoc" \in task'[u].todo
        PROVE  task'[u].row.rev # 0
    <2>1. CASE Running(u) /\ task'[u] = task[u]
      BY <1>3, <2>1 DEF RevInv
    <2>2. CASE Step(u) /\ Running(u)
      <3>1. PICK step \in Steps, new \in SUBSET Steps : Advances(u, step, new)
        BY <2>2, StepAdvances
      <3>2. \/ ("index" \in task[u].todo \/ "updateDoc" \in task[u].todo) /\ task'[u].row = task[u].row
            \/ At(u, "reload") /\ task'[u].row = posts[Post(u)] /\ HasEmployer(Post(u))
        BY <1>3, <3>1 DEF Advances, Reads, Goes
      <3>3. At(u, "reload") => Post(u) \in Posts
        BY NotReindex DEF Steps, TypeInv
      <3> QED BY <2>2, <3>2, <3>3 DEF RevInv, HasEmployer
    <2>3. CASE Request(u) /\ ~Running(u)
      <3>1. CASE OpensNew(u) \/ OpensWrite(u) \/ OpensImages(u) \/ OpensBulk(u)
        BY <1>3, <3>1 DEF OpensNew, OpensWrite, OpensImages, OpensBulk, Opens
      <3>3. CASE OpensClose(u)
        <4>1. task'[u].todo \in {ClosingSteps \cup {"archiveRow", "cancelApps"}, ClosingSteps \cup {"saveRow"}}
          BY <3>3 DEF OpensClose, Opens
        <4> QED BY <1>3, <4>1 DEF ClosingSteps
      <3>2. CASE OpensOther(u)
        BY <1>3, <3>2 DEF OpensOther, Opens, OtherSteps
      <3> QED BY <2>3, <3>1, <3>2, <3>3, RequestOpens
    <2> QED BY <1>3, <2>1, <2>2, <2>3, TaskMoves
  <1> QED BY <1>1, <1>2, <1>3 DEF RevInv, Exists

-------------------------------------------------------------------------------
(* What a step does to the document of a post. *)

DocIndexed(t, p) == On(t, p) /\ task[t].kind = "create" /\ IndexJobPost(t) /\ "index" \in task[t].todo
                    /\ index'[p] = task[t].row.rev
DocUpdated(t, p) == On(t, p) /\ task[t].kind = "update" /\ UpdateDoc(t) /\ "updateDoc" \in task[t].todo
                    /\ index[p] # 0 /\ index'[p] = task[t].row.rev
DocDeleted(t, p) == On(t, p) /\ task[t].kind \in Closing /\ DeleteDoc(t) /\ "del" \in task[t].todo /\ index'[p] = 0
DocRebuilt(t) == Running(t) /\ task[t].kind = "reindex"

LEMMA IndexMoves ==
    ASSUME TypeInv, OrderInv, [BoardNext]_boardVars, NEW p \in Posts
    PROVE  \/ index'[p] = index[p]
           \/ \E t \in Tasks : DocIndexed(t, p) \/ DocUpdated(t, p) \/ DocDeleted(t, p) \/ DocRebuilt(t)
  <1>0. \A t \in Tasks : \A s : At(t, s) => Running(t) /\ s \in task[t].todo
    BY DEF At, Running
  <1>1. CASE UNCHANGED boardVars \/ Crash
    BY <1>1 DEF boardVars, Crash
  <1>2. ASSUME NEW t \in Tasks, Request(t) PROVE index' = index
    BY <1>2, RequestWrites DEF NotPosts
  <1>3. ASSUME NEW t \in Tasks, IndexJobPost(t), index'[p] # index[p] PROVE DocIndexed(t, p)
    <2>1. At(t, "index") /\ index' = [index EXCEPT ![Post(t)] = task[t].row.rev]
      BY <1>3 DEF IndexJobPost
    <2>2. Post(t) = p /\ index'[p] = task[t].row.rev
      BY <1>3, <2>1 DEF TypeInv, DataOK
    <2> QED BY <1>0, <1>3, <2>1, <2>2 DEF DocIndexed, On, OrderInv, Post
  <1>4. ASSUME NEW t \in Tasks, UpdateDoc(t), index'[p] # index[p] PROVE DocUpdated(t, p)
    <2>1. At(t, "updateDoc") /\ index[Post(t)] # 0 /\ index' = [index EXCEPT ![Post(t)] = task[t].row.rev]
      BY <1>4 DEF UpdateDoc
    <2>2. Post(t) = p /\ index'[p] = task[t].row.rev
      BY <1>4, <2>1 DEF TypeInv, DataOK
    <2> QED BY <1>0, <1>4, <2>1, <2>2 DEF DocUpdated, On, OrderInv, Post
  <1>5. ASSUME NEW t \in Tasks, DeleteDoc(t), index'[p] # index[p] PROVE DocDeleted(t, p)
    <2>1. At(t, "del") /\ index' = [index EXCEPT ![Post(t)] = 0]
      BY <1>5 DEF DeleteDoc
    <2>2. Post(t) = p /\ index'[p] = 0
      BY <1>5, <2>1 DEF TypeInv, DataOK
    <2> QED BY <1>0, <1>5, <2>1, <2>2 DEF DocDeleted, On, OrderInv, Post
  <1>6. ASSUME NEW t \in Tasks, Bulk(t) PROVE DocRebuilt(t)
    BY <1>0, <1>6 DEF Bulk, DocRebuilt, OrderInv
  <1>7. ASSUME NEW t \in Tasks, Step(t), ~IndexJobPost(t), ~UpdateDoc(t), ~DeleteDoc(t), ~Bulk(t)
        PROVE  index' = index
    BY <1>7 DEF Step, FindPost, SaveEvent, Reload, ArchiveRow, GetDoc, FindEvents, RemoveEvents, CancelApps,
       Write, DeleteRow, FindSaved, AddSaved, RemoveSaved, FindExisting, SaveNew, SaveApp, SaveRow, SaveReview,
       PutObject, PutFails, DeleteObject, Reject, Only, NotData, NotPosts, NotApps, NotEvents, NotSaved,
       NotReviews, NotBucket
  <1> QED BY <1>1, <1>2, <1>3, <1>4, <1>5, <1>6, <1>7 DEF BoardNext

-------------------------------------------------------------------------------
(* An application is completed when its post is closed. *)

ClosedWell(t, p) ==
    /\ "get" \notin task[t].todo /\ "del" \notin task[t].todo => index[p] = 0
    /\ "saveRow" \notin task[t].todo => ~IsLive(p)
CompleteInv ==
    \A p \in Posts, t \in Tasks :
        On(t, p) /\ task[t].kind = "complete" /\ task[t].failed = FALSE /\ Clean(p) => ClosedWell(t, p)

\* A closed post stays closed while nothing that overlaps is lost.
LEMMA ClosedStays ==
    ASSUME TypeInv, ClosedInv, [BoardNext]_boardVars, NEW p \in Posts, ~LostUpdate(p), IsClosed(p)
    PROVE  ~IsLive(p)'
  BY StaysClosedStep DEF LostUpdate, Met

LEMMA CompleteStep ==
    ASSUME TypeInv, Meets, OrderInv, KnownInv, ClosedInv, BulkInv, CompleteInv, [BoardNext]_boardVars
    PROVE  CompleteInv'
  <1>1. ASSUME NEW p \in Posts, NEW u \in Tasks, Running(u)', task'[u].post = p, task'[u].kind = "complete",
               task'[u].failed = FALSE, Clean(p)'
        PROVE  /\ "get" \notin task'[u].todo /\ "del" \notin task'[u].todo => index'[p] = 0
               /\ "saveRow" \notin task'[u].todo => ~IsLive(p)'
    <2>0. Clean(p) /\ ~LostUpdate(p)
      BY <1>1, MetStays DEF Clean
    <2>1. ASSUME WentOn(u), "get" \notin task[u].todo, "del" \notin task[u].todo PROVE index'[p] = 0
      <3>1. On(u, p) /\ task[u].kind = "complete" /\ index[p] = 0
        BY <1>1, <2>0, <2>1 DEF WentOn, On, CompleteInv, ClosedWell
      <3>2. ASSUME NEW t \in Tasks PROVE ~DocIndexed(t, p) /\ ~DocUpdated(t, p) /\ ~DocRebuilt(t)
        <4>1. ~DocIndexed(t, p)
          BY <2>0, <3>1, Overlap DEF DocIndexed, Closing
        <4>2. ~DocUpdated(t, p) /\ ~DocRebuilt(t)
          BY <2>0, <3>1 DEF DocUpdated, DocRebuilt, BulkInv, Clean
        <4> QED BY <4>1, <4>2
      <3> QED BY <3>1, <3>2, IndexMoves DEF DocDeleted
    <2>2. ASSUME WentOn(u), "saveRow" \notin task[u].todo PROVE ~IsLive(p)'
      <3>1. On(u, p) /\ task[u].kind = "complete" /\ ~IsLive(p)
        BY <1>1, <2>0, <2>2 DEF WentOn, On, CompleteInv, ClosedWell
      <3>2. IsClosed(p)
        BY <3>1 DEF KnownInv, On, IsClosed, Closing
      <3> QED BY <2>0, <3>2, ClosedStays
    <2>3. CASE Running(u) /\ task'[u] = task[u]
      <3>1. WentOn(u)
        BY <2>3 DEF WentOn
      <3> QED BY <2>1, <2>2, <2>3, <3>1
    <2>4. CASE Step(u) /\ Running(u)
      <3>1. PICK step \in Steps, new \in SUBSET Steps : Advances(u, step, new)
        BY <2>4, StepAdvances
      <3>2. /\ WentOn(u) /\ step \in task[u].todo /\ task'[u].todo = (task[u].todo \ {step}) \cup new
            /\ Follow(u, step, new)
        BY <1>1, <2>4, <3>1 DEF Advances, Goes, Reads, WentOn, At
      <3>3. ~Reject(u)
        <4>1. ASSUME Reject(u) PROVE task'[u].failed = TRUE
          BY <4>1, LastGoes DEF TypeInv
        <4> QED BY <1>1, <4>1
      <3>4. (step = "get" => GetDoc(u)) /\ (step = "del" => DeleteDoc(u)) /\ (step = "saveRow" => SaveRow(u))
        BY <3>1, <3>3 DEF Advances, Does
      <3>5. ASSUME "get" \notin task'[u].todo, "del" \notin task'[u].todo PROVE index'[p] = 0
        <4>1. CASE step = "get"
          <5>1. Goes(u, "get", {"del"}) \/ task'[u].failed = TRUE
            BY <3>4, <4>1, ChainGoes
          <5>2. "del" \in task'[u].todo \/ task'[u].failed = TRUE
            BY <5>1 DEF Goes
          <5> QED BY <1>1, <3>5, <5>2
        <4>2. CASE step = "del"
          <5>1. index' = [index EXCEPT ![Post(u)] = 0] /\ Post(u) = p
            BY <1>1, <3>2, <3>4, <4>2 DEF DeleteDoc, WentOn, Post
          <5> QED BY <5>1 DEF TypeInv, DataOK
        <4>3. CASE step # "get" /\ step # "del"
          BY <2>1, <3>2, <3>5, <4>3
        <4> QED BY <4>1, <4>2, <4>3
      <3>6. ASSUME "saveRow" \notin task'[u].todo PROVE ~IsLive(p)'
        <4>1. CASE step = "saveRow"
          <5>1. Post(u) = p /\ task[u].row \in Row /\ task[u].row.archived = TRUE
            <6>1. Sound(task[u]) /\ task[u].todo # {}
              BY <2>4 DEF TypeInv, TasksOK, Running
            <6> QED BY <1>1, <3>2, <6>1 DEF Sound, WentOn, Post, Writers
          <5> DEFINE employer == IF Exists(Post(u)) THEN posts[Post(u)].employer ELSE task[u].kind # "upload"
          <5>2. posts'[p] = [task[u].row EXCEPT !.employer = employer]
            BY <3>4, <4>1, <5>1 DEF SaveRow, TypeInv, DataOK
          <5> HIDE DEF employer
          <5>3. posts'[p].archived = TRUE
            BY <5>1, <5>2 DEF Row
          <5> QED BY <5>3 DEF IsLive
        <4>2. CASE step # "saveRow"
          BY <2>2, <3>2, <3>6, <4>2
        <4> QED BY <4>1, <4>2
      <3> QED BY <3>5, <3>6
    <2>5. CASE Request(u) /\ ~Running(u)
      <3>1. "get" \in task'[u].todo /\ "saveRow" \in task'[u].todo
        <4>1. OpensClose(u)
          BY <1>1, <2>5, RequestOpens
             DEF OpensNew, OpensWrite, OpensImages, OpensBulk, OpensOther, Opens, Others, Closing
        <4>2. task'[u].todo = ClosingSteps \cup {"saveRow"}
          BY <1>1, <4>1 DEF OpensClose, Opens
        <4> QED BY <4>2 DEF ClosingSteps
      <3> QED BY <3>1
    <2> QED BY <1>1, <2>3, <2>4, <2>5, TaskMoves
  <1> QED BY <1>1 DEF CompleteInv, ClosedWell, On

\* What holds whether awaits are rejected or not.
ClosingInv ==
    /\ BoardInv /\ OrderInv /\ KnownInv /\ BulkInv /\ ImageInv /\ EmployerInv /\ CreateInv /\ RevInv
    /\ CompleteInv

LEMMA ClosingInit == BoardInit => ClosingInv
  <1> SUFFICES ASSUME BoardInit PROVE ClosingInv
    OBVIOUS
  <1>1. \A t \in Tasks : ~Running(t)
    BY DEF BoardInit, Running
  <1>2. \A p \in Posts : Exists(p) => posts[p].rev # 0
    <2>1. PICK s \in Scenarios : posts = s.posts
      BY DEF BoardInit
    <2> QED BY <2>1, BoardAssumption DEF Consistent, Exists
  <1>3. OrderInv /\ KnownInv /\ BulkInv /\ ImageInv /\ EmployerInv /\ CreateInv /\ RevInv /\ CompleteInv
    BY <1>1, <1>2 DEF OrderInv, KnownInv, BulkInv, ImageInv, EmployerInv, CreateInv, RevInv, CompleteInv, On
  <1> QED BY <1>3, BoardInvInit DEF ClosingInv

LEMMA ClosingStep == ClosingInv /\ [BoardNext]_boardVars => ClosingInv'
  <1> SUFFICES ASSUME ClosingInv, [BoardNext]_boardVars PROVE ClosingInv'
    OBVIOUS
  <1> USE DEF ClosingInv, BoardInv
  <1>1. BoardInv'
    BY BoardInvStep
  <1>2. OrderInv' /\ KnownInv' /\ BulkInv'
    BY OrderStep, KnownStep, BulkStep
  <1>3. ImageInv' /\ EmployerInv' /\ CreateInv' /\ RevInv'
    BY ImageStep, EmployerStep, CreateStep, RevStep
  <1>4. CompleteInv'
    BY CompleteStep
  <1> QED BY <1>1, <1>2, <1>3, <1>4

\* The request that completes an application has closed its post by then.
ClosesFirst ==
    \A t \in Tasks : At(t, "saveApp") /\ task[t].kind = "complete" =>
        \/ index[Post(t)] = 0 /\ ~IsLive(Post(t))
        \/ LostUpdate(Post(t)) \/ Met(Post(t), {"reindex"}, {"reindex"})

LEMMA ClosingHolds == ClosingInv => ClosesFirst
  <1> SUFFICES ASSUME ClosingInv, NEW t \in Tasks, At(t, "saveApp"), task[t].kind = "complete",
                      ~LostUpdate(Post(t)), ~Met(Post(t), {"reindex"}, {"reindex"})
               PROVE  index[Post(t)] = 0 /\ ~IsLive(Post(t))
    BY DEF ClosesFirst
  <1>1. Running(t) /\ "saveApp" \in task[t].todo
    BY DEF At, Running
  <1>2. task[t].failed = FALSE /\ task[t].todo = {"saveApp"}
    BY <1>1 DEF ClosingInv, OrderInv
  <1>3. Post(t) \in Posts /\ On(t, Post(t))
    BY <1>1, StepKinds DEF ClosingInv, BoardInv, On, Post
  <1>4. ClosedWell(t, Post(t))
    BY <1>2, <1>3 DEF ClosingInv, CompleteInv, Clean
  <1> QED BY <1>2, <1>4 DEF ClosedWell

\* An application becomes completed by a request that completes it or marks it completed.
LEMMA AppCompletes ==
    ASSUME TypeInv, [BoardNext]_boardVars, NEW a \in Ids, ~Completed(a), Completed(a)'
    PROVE  \E t \in Tasks : /\ At(t, "saveApp") /\ ~At(t, "saveApp")' /\ task[t].app = a
                            /\ task[t].kind \in {"complete", "markCompleted"} /\ apps'[a].post = Post(t)
  <1> USE DEF TypeInv, DataOK
  <1>1. apps'[a] # None /\ apps'[a].status = "completed" /\ apps'[a] # apps[a]
    BY DEF Completed
  <1>2. ASSUME NEW t \in Tasks, CancelApps(t) PROVE FALSE
    <2>1. a \in AppsOf(Post(t)) /\ apps'[a] = [apps[a] EXCEPT !.archived = TRUE, !.status = "cancelled"]
      BY <1>1, <1>2 DEF CancelApps
    <2>2. apps[a] \in App
      BY <2>1 DEF AppsOf, AppIds
    <2>3. apps'[a].status = "cancelled"
      BY <2>1, <2>2 DEF App
    <2> QED BY <1>1, <2>3
  <1>3. ASSUME NEW t \in Tasks, DeleteRow(t) PROVE FALSE
    BY <1>1, <1>3 DEF DeleteRow
  <1>4. ASSUME NEW t \in Tasks, SaveNew(t) PROVE FALSE
    <2> DEFINE row == [post |-> Post(t), user |-> task[t].user, status |-> "pending", archived |-> FALSE]
    <2>1. PICK new : apps' = [apps EXCEPT ![new] = row]
      BY <1>1, <1>4 DEF SaveNew
    <2>2. apps'[a] = row /\ row.status = "pending"
      BY <1>1, <2>1
    <2> QED BY <1>1, <2>2
  <1>5. PICK t \in Tasks : SaveApp(t)
    BY <1>1, <1>2, <1>3, <1>4, NextWrites
  <1>6. /\ At(t, "saveApp") /\ task[t].app = a /\ apps'[a] = task[t].copy
        /\ task[t].copy.post = Post(t) /\ task[t].kind \in {"complete", "markCompleted"}
    <2>1. At(t, "saveApp") /\ apps' = [apps EXCEPT ![task[t].app] = task[t].copy]
      BY <1>1, <1>5 DEF SaveApp
    <2>2. task[t].app = a /\ apps'[a] = task[t].copy
      BY <1>1, <2>1
    <2> QED BY <1>1, <2>1, <2>2, StepKinds DEF Post
  <1>7. Goes(t, "saveApp", {})
    BY <1>5, LastGoes
  <1>8. ~At(t, "saveApp")'
    BY <1>7 DEF Goes, At
  <1> QED BY <1>6, <1>8

\* Whatever is rejected or stops, an application becomes completed only when its post is
\* archived and out of the search, but for requests that overlapped and write the same
\* post, and but for the route of the reviews, which marks it completed whatever its post
\* is like: ApplyingService.update waits for archive and deleteJobPost.
THEOREM CompletedAreClosed == BoardSpec => ClosedBeforeCompleted
  <1>1. ASSUME ClosingInv, [BoardNext]_boardVars, NEW a \in Ids, ~Completed(a), Completed(a)', NEW p, p = apps'[a].post
        PROVE  \/ index[p] = 0 /\ ~IsLive(p)
               \/ LostUpdate(p) \/ Met(p, {"reindex"}, {"reindex"})
               \/ \E t \in Tasks : /\ At(t, "saveApp") /\ ~At(t, "saveApp")'
                                   /\ task[t].kind = "markCompleted" /\ task[t].app = a
    BY <1>1, AppCompletes, ClosingHolds DEF ClosesFirst, ClosingInv, BoardInv
  <1>2. ClosingInv /\ [BoardNext]_boardVars =>
            [\A a \in Ids : ~Completed(a) /\ Completed(a)' =>
                LET p == apps'[a].post
                IN  \/ index[p] = 0 /\ ~IsLive(p)
                    \/ LostUpdate(p) \/ Met(p, {"reindex"}, {"reindex"})
                    \/ \E t \in Tasks : /\ At(t, "saveApp") /\ ~At(t, "saveApp")'
                                        /\ task[t].kind = "markCompleted" /\ task[t].app = a]_boardVars
    BY <1>1
  <1> QED BY <1>2, ClosingInit, ClosingStep, PTL DEF BoardSpec, ClosedBeforeCompleted

-------------------------------------------------------------------------------
(* The search and the posts, when no await is rejected. *)

Removes(t) == "get" \in task[t].todo \/ "del" \in task[t].todo
Closes(t) == task[t].kind \in {"archive", "complete"} /\ ("archiveRow" \in task[t].todo \/ "saveRow" \in task[t].todo)
Renews(t) == "index" \in task[t].todo \/ "updateDoc" \in task[t].todo

\* The document of a post is gone, or a request is about to remove it.
Gone(p) == index[p] = 0 \/ \E t \in Tasks : On(t, p) /\ Removes(t)
\* The document of a post is as its row, or a request is about to make it so, or to close the post.
Follows(p) ==
    \/ \E t \in Tasks : On(t, p) /\ (task[t].kind = "create" \/ Closes(t))
    \/ index[p] # 0 /\ index[p] = posts[p].rev
    \/ /\ index[p] # 0
       /\ \E t \in Tasks : /\ On(t, p) /\ task[t].kind = "update"
                           /\ "reload" \in task[t].todo \/ "updateDoc" \in task[t].todo
Ready(t, p) ==
    /\ Closes(t) => Gone(p)
    /\ Removes(t) => ~IsLive(p) \/ Closes(t)
    /\ Renews(t) /\ IsLive(p) => task[t].row.rev = posts[p].rev
IndexInv ==
    faults = 0 => \A p \in Posts : Clean(p) =>
        /\ ~IsLive(p) => Gone(p)
        /\ IsLive(p) => Follows(p)
        /\ \A t \in Tasks : On(t, p) => Ready(t, p)

LEMMA Faultless ==
    ASSUME TypeInv, [BoardNext]_boardVars, faults' = 0
    PROVE  faults = 0 /\ ~Crash /\ \A t \in Tasks : Step(t) => ~Reject(t) /\ ~PutFails(t)
  <1>1. Fault => faults' # 0
    BY DEF Fault, TypeInv, CallsOK
  <1>2. ~Crash /\ \A t \in Tasks : ~Reject(t) /\ ~PutFails(t)
    BY <1>1 DEF Crash, Reject, PutFails
  <1>3. faults' = faults
    <2>1. CASE UNCHANGED boardVars
      BY <2>1 DEF boardVars
    <2>2. ASSUME NEW t \in Tasks, Step(t) PROVE UNCHANGED faults
      BY <1>2, <2>2 DEF Step, FindPost, SaveEvent, Reload, IndexJobPost, ArchiveRow, GetDoc, DeleteDoc, FindEvents,
             RemoveEvents, CancelApps, Write, UpdateDoc, DeleteRow, FindSaved, AddSaved, RemoveSaved,
             FindExisting, SaveNew, SaveApp, SaveRow, SaveReview, PutObject, DeleteObject, Bulk, Only
    <2> QED BY <1>2, <2>1, <2>2, RequestOpens DEF BoardNext
  <1> QED BY <1>2, <1>3

\* A task that runs is left as it is, or takes a step of its own.
LEMMA RunsOn ==
    ASSUME TypeInv, [BoardNext]_boardVars, ~Crash, NEW t \in Tasks, Running(t)
    PROVE  \/ task'[t] = task[t]
           \/ Step(t) /\ \E step \in Steps, new \in SUBSET Steps : Advances(t, step, new)
  <1>1. CASE UNCHANGED boardVars
    BY <1>1 DEF boardVars
  <1>2. ASSUME NEW u \in Tasks, Request(u) PROVE task'[t] = task[t]
    <2>1. ~Running(u) /\ \A v \in Tasks \ {u} : task'[v] = task[v]
      BY <1>2, RequestOpens DEF OpensNew, OpensWrite, OpensClose, OpensImages, OpensBulk, OpensOther, Opens
    <2> QED BY <2>1
  <1>3. ASSUME NEW u \in Tasks, Step(u), u # t PROVE task'[t] = task[t]
    BY <1>3, StepAdvances DEF Advances, Goes
  <1>4. CASE Step(t)
    BY <1>4, StepAdvances
  <1> QED BY <1>1, <1>2, <1>3, <1>4 DEF BoardNext

\* Only the last step of a creation brings a document back.
LEMMA GoneStays ==
    ASSUME ClosingInv, [BoardNext]_boardVars, faults' = 0, NEW p \in Posts, Clean(p), Gone(p),
           \A t \in Tasks : ~DocIndexed(t, p)
    PROVE  Gone(p)'
  <1> USE DEF ClosingInv, BoardInv
  <1>1. \A t \in Tasks : ~DocRebuilt(t)
    BY DEF BulkInv, DocRebuilt, Clean
  <1>2. CASE index[p] = 0
    BY <1>1, <1>2, IndexMoves DEF DocUpdated, DocDeleted, Gone
  <1>3. ASSUME NEW r \in Tasks, On(r, p), Removes(r), index[p] # 0 PROVE Gone(p)'
    <2>1. Running(r) /\ task[r].post = p /\ ~Crash
      BY <1>3, Faultless DEF On
    <2>2. CASE task'[r] = task[r]
      BY <1>3, <2>1, <2>2 DEF Gone, On, Removes, Running
    <2>3. ASSUME NEW step \in Steps, NEW new \in SUBSET Steps, Advances(r, step, new), Step(r) PROVE Gone(p)'
      <3>1. /\ task'[r].post = p /\ task'[r].todo = (task[r].todo \ {step}) \cup new /\ task'[r] # None
            /\ Does(r, step) /\ ~Reject(r)
        BY <2>1, <2>3, Faultless DEF Advances, Goes
      <3>2. ASSUME Removes(r)' PROVE Gone(p)'
        BY <3>1, <3>2 DEF Gone, On, Removes, Running
      <3>3. CASE step = "get"
        <4>1. Goes(r, "get", {"del"})
          BY <1>3, <2>1, <3>1, <3>3, ChainGoes DEF Does, Post
        <4>2. "del" \in task'[r].todo
          BY <4>1 DEF Goes
        <4> QED BY <3>2, <4>2 DEF Removes
      <3>4. CASE step = "del"
        <4>1. index' = [index EXCEPT ![p] = 0]
          BY <2>1, <3>1, <3>4 DEF Does, DeleteDoc, Post
        <4> QED BY <4>1 DEF Gone, TypeInv, DataOK
      <3>5. CASE step # "get" /\ step # "del"
        BY <1>3, <3>1, <3>2, <3>5 DEF Removes
      <3> QED BY <3>3, <3>4, <3>5
    <2> QED BY <2>1, <2>2, <2>3, RunsOn
  <1> QED BY <1>2, <1>3 DEF Gone

\* No request puts a post that is not live back, but the one that creates it.
LEMMA NoneReopens ==
    ASSUME ClosingInv, [BoardNext]_boardVars, NEW p \in Posts, ~LostUpdate(p), ~IsLive(p), IsLive(p)'
    PROVE  /\ ~Exists(p) /\ p \notin deleted
           /\ \E t \in Tasks : RowBorn(t, p)
  <1> USE DEF ClosingInv, BoardInv
  <1>1. ~IsClosed(p)
    BY ClosedStays
  <1>2. ~Exists(p) /\ p \notin deleted
    BY <1>1 DEF IsClosed
  <1>3. Exists(p)' /\ posts'[p] # posts[p]
    BY <1>2 DEF IsLive, Exists
  <1>4. \A t \in Tasks : ~RowSaved(t, p)
    BY <1>2 DEF RowSaved, KnownInv, On, Writers, Closing
  <1>5. \A t \in Tasks : ~RowArchived(t, p) /\ ~RowWritten(t, p) /\ ~RowDeleted(t, p)
    BY <1>2 DEF RowArchived, RowWritten, RowDeleted
  <1> QED BY <1>2, <1>3, <1>4, <1>5, RowMoves DEF RowChanges

LEMMA ClosesNow ==
    ASSUME TypeInv, NEW p \in Posts, NEW t \in Tasks, On(t, p), task[t].kind \in {"archive", "complete"},
           ArchiveRow(t) \/ SaveRow(t)
    PROVE  ~IsLive(p)'
  <1>1. Post(t) = p /\ posts \in [Posts -> Row \cup {None}]
    BY DEF On, Post, TypeInv, DataOK
  <1>2. CASE ArchiveRow(t)
    <2>1. CASE Exists(p)
      <3>1. posts'[p] = [posts[p] EXCEPT !.archived = TRUE] /\ posts[p] \in Row
        BY <1>1, <1>2, <2>1 DEF ArchiveRow, Exists
      <3>2. posts'[p].archived = TRUE
        BY <3>1 DEF Row
      <3> QED BY <3>2 DEF IsLive
    <2>2. CASE ~Exists(p)
      BY <1>1, <1>2, <2>2 DEF ArchiveRow, IsLive, Exists
    <2> QED BY <2>1, <2>2
  <1>3. CASE SaveRow(t)
    <2>1. Sound(task[t]) /\ task[t].todo # {} /\ "saveRow" \in task[t].todo
      BY <1>3 DEF TypeInv, TasksOK, On, Running, SaveRow, At
    <2>2. task[t].row \in Row /\ task[t].row.archived = TRUE
      BY <2>1 DEF Sound, Writers, Images
    <2> DEFINE employer == IF Exists(Post(t)) THEN posts[Post(t)].employer ELSE task[t].kind # "upload"
    <2>3. posts'[p] = [task[t].row EXCEPT !.employer = employer]
      BY <1>1, <1>3 DEF SaveRow
    <2> HIDE DEF employer
    <2>4. posts'[p].archived = TRUE
      BY <2>2, <2>3 DEF Row
    <2> QED BY <2>4 DEF IsLive
  <1> QED BY <1>2, <1>3

\* A closing of the post is under way: no creation of it is.
LEMMA NotIndexed ==
    ASSUME ClosingInv, NEW p \in Posts, ~LostUpdate(p), NEW t \in Tasks, On(t, p), task[t].kind \in Closing
    PROVE  \A u \in Tasks : ~DocIndexed(u, p)
  <1> SUFFICES ASSUME NEW u \in Tasks, DocIndexed(u, p) PROVE FALSE
    OBVIOUS
  <1>1. On(u, p) /\ task[u].kind = "create" /\ u # t
    BY DEF DocIndexed, Closing
  <1> QED BY <1>1, Overlap DEF ClosingInv, BoardInv

LEMMA SilentGone ==
    ASSUME ClosingInv, IndexInv, [BoardNext]_boardVars, faults' = 0, NEW p \in Posts, Clean(p), ~IsLive(p)'
    PROVE  Gone(p)'
  <1> USE DEF ClosingInv, BoardInv
  <1>0. faults = 0 /\ ~LostUpdate(p)
    BY Faultless DEF Clean
  <1>1. CASE ~IsLive(p)
    <2>1. Gone(p)
      BY <1>0, <1>1 DEF IndexInv
    <2>2. \A t \in Tasks : ~DocIndexed(t, p)
      BY <1>0, <1>1 DEF DocIndexed, CreateInv
    <2> QED BY <2>1, <2>2, GoneStays
  <1>2. ASSUME NEW t \in Tasks, On(t, p), Closes(t) PROVE Gone(p)'
    <2>1. Gone(p)
      BY <1>0, <1>2 DEF IndexInv, Ready
    <2>2. \A u \in Tasks : ~DocIndexed(u, p)
      BY <1>0, <1>2, NotIndexed DEF Closes, Closing
    <2> QED BY <2>1, <2>2, GoneStays
  <1>3. CASE IsLive(p)
    <2>1. Exists(p) /\ posts'[p] # posts[p]
      BY <1>3 DEF IsLive, Exists
    <2>2. PICK t \in Tasks : RowChanges(t, p)
      BY <2>1, RowMoves
    <2>3. CASE RowArchived(t, p)
      <3>1. "archiveRow" \in task[t].todo
        BY <2>3 DEF RowArchived, ArchiveRow, At
      <3> QED BY <1>2, <2>3, <3>1 DEF RowArchived, Closes
    <2>4. CASE RowDeleted(t, p)
      <3>1. Goes(t, "deleteRow", {"get"})
        BY <2>1, <2>4, ChainGoes DEF RowDeleted
      <3>2. "get" \in task'[t].todo /\ task'[t].post = p /\ task'[t] # None
        BY <2>4, <3>1 DEF Goes, RowDeleted, On
      <3> QED BY <3>2 DEF Gone, On, Removes, Running
    <2>5. CASE RowSaved(t, p)
      <3>1. CASE task[t].kind = "complete"
        <4>1. "saveRow" \in task[t].todo /\ On(t, p)
          BY <2>5 DEF RowSaved, SaveRow, At
        <4> QED BY <1>2, <3>1, <4>1 DEF Closes
      <3>2. CASE task[t].kind # "complete"
        <4>1. Exists(p)' /\ posts'[p].archived = posts[p].archived
          BY <1>0, <2>5, <3>2, RowStays
        <4> QED BY <1>3, <4>1 DEF IsLive
      <3> QED BY <3>1, <3>2
    <2>6. ~RowBorn(t, p) /\ ~RowWritten(t, p)
      BY <1>3, <2>1 DEF RowBorn, RowWritten, IsLive
    <2> QED BY <2>2, <2>3, <2>4, <2>5, <2>6 DEF RowChanges
  <1> QED BY <1>1, <1>3

LEMMA LiveFollows ==
    ASSUME ClosingInv, IndexInv, [BoardNext]_boardVars, faults' = 0, NEW p \in Posts, Clean(p), IsLive(p)'
    PROVE  Follows(p)'
  <1> USE DEF ClosingInv, BoardInv
  <1>0. faults = 0 /\ ~LostUpdate(p) /\ ~Crash
    BY Faultless DEF Clean
  <1>n. \A t \in Tasks : Step(t) => ~Reject(t)
    BY Faultless
  <1>1. CASE ~IsLive(p)
    <2>1. PICK t \in Tasks : RowBorn(t, p)
      BY <1>0, <1>1, NoneReopens
    <2>2. task'[t].post = p /\ task'[t].kind = "create" /\ task'[t].todo = {"findPost"}
      BY <2>1 DEF RowBorn, Opens
    <2>3. task'[t] # None
      <3>1. TasksOK
        BY DEF TypeInv
      <3>2. PICK new : Begin(t, new) /\ Arrives(new)
        BY <2>1, RequestArrives DEF RowBorn
      <3> QED BY <3>1, <3>2, BeginKeeps, NoneIsNone DEF Arrives
    <2> QED BY <2>2, <2>3 DEF Follows, On, Running
  <1>2. ASSUME IsLive(p), NEW c \in Tasks, On(c, p), Closes(c) PROVE Follows(p)'
    <2>1. CASE task'[c] = task[c]
      BY <1>2, <2>1 DEF Follows, On, Closes, Running
    <2>2. ASSUME NEW step \in Steps, NEW new \in SUBSET Steps, Advances(c, step, new), Step(c) PROVE Follows(p)'
      <3>1. /\ task'[c].post = p /\ task'[c].kind = task[c].kind /\ task'[c] # None
            /\ task'[c].todo = (task[c].todo \ {step}) \cup new
            /\ Does(c, step) /\ ~Reject(c)
        BY <1>2, <1>n, <2>2 DEF Advances, Goes, On
      <3>2. step # "archiveRow" /\ step # "saveRow"
        BY <1>2, <3>1, ClosesNow DEF Does, Closes
      <3>3. "archiveRow" \in task'[c].todo \/ "saveRow" \in task'[c].todo
        BY <1>2, <3>1, <3>2 DEF Closes
      <3> QED BY <1>2, <3>1, <3>3 DEF Follows, On, Closes, Running
    <2> QED BY <1>0, <1>2, <2>1, <2>2, RunsOn DEF On
  <1>3. ASSUME IsLive(p), NEW t \in Tasks, DocIndexed(t, p) \/ DocUpdated(t, p) PROVE Follows(p)'
    <2>1. On(t, p) /\ Renews(t) /\ index'[p] = task[t].row.rev /\ posts' = posts
      BY <1>3 DEF DocIndexed, DocUpdated, Renews, IndexJobPost, UpdateDoc, Only, NotIndex, tables
    <2>2. task[t].row.rev = posts[p].rev
      BY <1>0, <1>3, <2>1 DEF IndexInv, Ready
    <2>3. task[t].row.rev # 0
      BY <2>1 DEF RevInv, On, Renews
    <2> QED BY <2>1, <2>2, <2>3 DEF Follows
  <1>4. ASSUME IsLive(p), \A c \in Tasks : On(c, p) => ~Closes(c),
               \A t \in Tasks : ~DocIndexed(t, p) /\ ~DocUpdated(t, p)
        PROVE  index'[p] = index[p]
    <2>1. \A t \in Tasks : ~DocRebuilt(t)
      BY DEF BulkInv, DocRebuilt, Clean
    <2>2. ASSUME NEW t \in Tasks, DocDeleted(t, p) PROVE FALSE
      <3>1. On(t, p) /\ Removes(t)
        BY <2>2 DEF DocDeleted, Removes
      <3> QED BY <1>0, <1>4, <3>1 DEF IndexInv, Ready
    <2> QED BY <1>4, <2>1, <2>2, IndexMoves
  <1>5. IsLive(p) => (Exists(p) /\ HasEmployer(p)) \/ ~\E t \in Tasks : On(t, p) /\ task[t].kind \in {"create", "update"}
    <2>1. ASSUME IsLive(p), NEW t \in Tasks, On(t, p), task[t].kind \in {"create", "update"} PROVE HasEmployer(p)
      BY <1>0, <2>1 DEF EmployerInv, HasEmployer, IsLive
    <2> QED BY <2>1 DEF IsLive
  <1>6. ASSUME IsLive(p), NEW c \in Tasks, On(c, p), task[c].kind = "create",
               \A t \in Tasks : ~DocIndexed(t, p)
        PROVE  Follows(p)'
    <2>0. Post(c) = p /\ Exists(p) /\ HasEmployer(p) /\ Running(c) /\ task[c].post = p
      BY <1>5, <1>6 DEF On, Post, IsLive
    <2>1. CASE task'[c] = task[c]
      BY <1>6, <2>1 DEF Follows, On, Running
    <2>2. ASSUME NEW step \in Steps, NEW new \in SUBSET Steps, Advances(c, step, new), Step(c) PROVE Follows(p)'
      <3>1. /\ task'[c].post = p /\ task'[c].kind = "create" /\ task'[c] # None
            /\ step \in task[c].todo /\ Does(c, step) /\ ~Reject(c)
        BY <1>6, <1>n, <2>0, <2>2 DEF Advances, Goes, At
      <3>2. step \in CreateSteps
        BY <1>6, <2>0, <3>1 DEF OrderInv
      <3>3. task'[c].todo # {}
        <4>1. CASE step = "findPost"
          BY <2>0, <3>1, <4>1, ChainGoes DEF Does, Goes
        <4>2. CASE step = "saveEvent"
          BY <1>6, <2>0, <3>1, <4>2, ChainGoes DEF Does, Goes
        <4>3. CASE step = "reload"
          BY <2>0, <3>1, <4>3, ReadGoes DEF Does, Goes, Reloads
        <4>4. CASE step = "index"
          <5>1. IndexJobPost(c)
            BY <3>1, <4>4 DEF Does
          <5>2. DocIndexed(c, p)
            BY <1>6, <2>0, <3>1, <4>4, <5>1 DEF DocIndexed, IndexJobPost, TypeInv, DataOK
          <5> QED BY <1>6, <5>2
        <4> QED BY <3>2, <4>1, <4>2, <4>3, <4>4 DEF CreateSteps
      <3> QED BY <3>1, <3>3 DEF Follows, On, Running
    <2> QED BY <1>0, <2>0, <2>1, <2>2, RunsOn
  <1>7. ASSUME IsLive(p), index'[p] = index[p], index[p] # 0, NEW c \in Tasks, On(c, p), task[c].kind = "update",
               "reload" \in task[c].todo \/ "updateDoc" \in task[c].todo,
               \A t \in Tasks : ~DocUpdated(t, p)
        PROVE  Follows(p)'
    <2>0. Post(c) = p /\ Exists(p) /\ HasEmployer(p) /\ Running(c) /\ task[c].post = p
      BY <1>5, <1>7 DEF On, Post, IsLive
    <2>1. CASE task'[c] = task[c]
      BY <1>7, <2>1 DEF Follows, On, Running
    <2>2. ASSUME NEW step \in Steps, NEW new \in SUBSET Steps, Advances(c, step, new), Step(c) PROVE Follows(p)'
      <3>1. /\ task'[c].post = p /\ task'[c].kind = "update" /\ task'[c] # None
            /\ step \in task[c].todo /\ Does(c, step) /\ ~Reject(c)
        BY <1>7, <1>n, <2>0, <2>2 DEF Advances, Goes, At
      <3>2. step = "reload" \/ step = "updateDoc"
        BY <1>7, <2>0, <3>1 DEF OrderInv
      <3>3. step # "updateDoc"
        <4>1. ASSUME UpdateDoc(c), "updateDoc" \in task[c].todo PROVE DocUpdated(c, p)
          BY <1>7, <2>0, <4>1 DEF DocUpdated, UpdateDoc, TypeInv, DataOK
        <4> QED BY <1>7, <3>1, <4>1 DEF Does
      <3>4. "updateDoc" \in task'[c].todo
        <4>1. Reloads(c)
          BY <3>1, <3>2, <3>3, ReadGoes DEF Does
        <4>2. PICK new2 \in {{"index"}, {"updateDoc"}} : Goes(c, "reload", new2) /\ (new2 = {"index"} <=> task[c].kind = "create")
          BY <2>0, <4>1 DEF Reloads
        <4> QED BY <1>7, <4>2 DEF Goes
      <3> QED BY <1>7, <3>1, <3>4 DEF Follows, On, Running
    <2> QED BY <1>0, <2>0, <2>1, <2>2, RunsOn
  <1>8. ASSUME IsLive(p), index'[p] = index[p], index[p] # 0, index[p] = posts[p].rev PROVE Follows(p)'
    <2>1. Exists(p) /\ posts[p].archived = FALSE /\ posts'[p].archived # TRUE
      BY <1>8, RowType DEF IsLive
    <2>2. CASE posts'[p] = posts[p]
      BY <1>8, <2>2 DEF Follows
    <2>3. ASSUME NEW t \in Tasks, RowChanges(t, p) PROVE Follows(p)'
      <3>1. CASE RowWritten(t, p)
        <4>1. Goes(t, "write", {"reload"})
          BY <3>1, ChainGoes DEF RowWritten
        <4>2. "reload" \in task'[t].todo /\ task'[t].post = p /\ task'[t] # None /\ task'[t].kind = "update"
          BY <3>1, <4>1 DEF Goes, RowWritten, On
        <4> QED BY <1>8, <4>2 DEF Follows, On, Running
      <3>2. CASE RowSaved(t, p)
        <4>1. task[t].kind # "complete"
          BY <1>8, <3>2, ClosesNow DEF RowSaved
        <4>2. posts'[p].rev = posts[p].rev
          BY <1>0, <3>2, <4>1, RowStays
        <4> QED BY <1>8, <4>2 DEF Follows
      <3>3. ~RowBorn(t, p) /\ ~RowArchived(t, p) /\ ~RowDeleted(t, p)
        BY <2>1 DEF RowBorn, RowArchived, RowDeleted, IsLive
      <3> QED BY <2>3, <3>1, <3>2, <3>3 DEF RowChanges
    <2> QED BY <2>2, <2>3, RowMoves
  <1>9. CASE IsLive(p)
    <2>1. Follows(p)
      BY <1>0, <1>9 DEF IndexInv
    <2>2. CASE \E c \in Tasks : On(c, p) /\ Closes(c)
      BY <1>2, <1>9, <2>2
    <2>3. CASE \E t \in Tasks : DocIndexed(t, p) \/ DocUpdated(t, p)
      BY <1>3, <1>9, <2>3
    <2>4. CASE (\A c \in Tasks : On(c, p) => ~Closes(c)) /\ (\A t \in Tasks : ~DocIndexed(t, p) /\ ~DocUpdated(t, p))
      <3>1. index'[p] = index[p]
        BY <1>4, <1>9, <2>4
      <3> QED BY <1>6, <1>7, <1>8, <1>9, <2>1, <2>4, <3>1 DEF Follows
    <2> QED BY <2>2, <2>3, <2>4
  <1> QED BY <1>1, <1>9

LEMMA ReadyStays ==
    ASSUME ClosingInv, IndexInv, [BoardNext]_boardVars, faults' = 0, NEW p \in Posts, Clean(p),
           NEW u \in Tasks, Running(u)', task'[u].post = p
    PROVE  /\ Closes(u)' => Gone(p)'
           /\ Removes(u)' => ~IsLive(p)' \/ Closes(u)'
           /\ Renews(u)' /\ IsLive(p)' => task'[u].row.rev = posts'[p].rev
  <1> USE DEF ClosingInv, BoardInv
  <1>0. faults = 0 /\ ~LostUpdate(p)
    BY Faultless DEF Clean
  <1>1. CASE Request(u) /\ ~Running(u)
    <2>1. ASSUME Closes(u)' \/ Removes(u)' \/ Renews(u)' PROVE OpensClose(u)
      <3>1. ~OpensNew(u) /\ ~OpensWrite(u) /\ ~OpensImages(u) /\ ~OpensBulk(u)
        BY <2>1 DEF OpensNew, OpensWrite, OpensImages, OpensBulk, Opens, Closes, Removes, Renews
      <3>2. ~OpensOther(u)
        BY <2>1 DEF OpensOther, Opens, Closes, Removes, Renews, OtherSteps
      <3> QED BY <1>1, <3>1, <3>2, RequestOpens
    <2>2. ASSUME OpensClose(u) PROVE "get" \in task'[u].todo /\ Closes(u)' /\ ~Renews(u)'
      <3>1. \/ task'[u].kind = "archive" /\ task'[u].todo = ClosingSteps \cup {"archiveRow", "cancelApps"}
            \/ task'[u].kind = "complete" /\ task'[u].todo = ClosingSteps \cup {"saveRow"}
        BY <2>2 DEF OpensClose, Opens
      <3> QED BY <3>1 DEF ClosingSteps, Closes, Renews
    <2>3. "get" \in task'[u].todo => Gone(p)'
      BY DEF Gone, On, Removes
    <2> QED BY <2>1, <2>2, <2>3
  <1>2. ASSUME On(u, p), task'[u].kind = task[u].kind, Closes(u) PROVE Gone(p)'
    <2>1. Gone(p)
      BY <1>0, <1>2 DEF IndexInv, Ready
    <2>2. \A t \in Tasks : ~DocIndexed(t, p)
      BY <1>0, <1>2, NotIndexed DEF Closes, Closing
    <2> QED BY <2>1, <2>2, GoneStays
  \* A request for a post that is not live does not see it live.
  <1>3. ASSUME On(u, p), task[u].kind \in {"create", "update"} \cup Closing, IsLive(p)' PROVE IsLive(p)
    <2>1. Exists(p) \/ p \in deleted
      BY <1>3 DEF KnownInv, On
    <2> QED BY <1>0, <1>3, <2>1, NoneReopens
  <1>4. ASSUME On(u, p), Removes(u), IsLive(p)' PROVE Closes(u)
    <2>1. task[u].kind \in Closing
      BY <1>4 DEF OrderInv, Removes, On
    <2> QED BY <1>0, <1>3, <1>4, <2>1 DEF IndexInv, Ready
  <1>5. ASSUME On(u, p), Renews(u), IsLive(p)', "write" \notin task[u].todo PROVE task[u].row.rev = posts'[p].rev
    <2>1. task[u].kind \in {"create", "update"}
      BY <1>5 DEF OrderInv, Renews, On
    <2>2. IsLive(p) /\ task[u].row.rev = posts[p].rev
      BY <1>0, <1>3, <1>5, <2>1 DEF IndexInv, Ready
    <2>3. ASSUME NEW t \in Tasks, RowChanges(t, p) PROVE posts'[p].rev = posts[p].rev
      <3>1. CASE RowWritten(t, p)
        <4>1. "write" \in task[t].todo /\ On(t, p) /\ task[t].kind = "update"
          BY <3>1 DEF RowWritten, Write, At
        <4> QED BY <1>0, <1>5, <2>1, <4>1, Overlap
      <3>2. CASE RowSaved(t, p)
        <4>1. task[t].kind # "complete"
          BY <1>5, <3>2, ClosesNow DEF RowSaved
        <4> QED BY <1>0, <3>2, <4>1, RowStays
      <3>3. ~RowBorn(t, p) /\ ~RowArchived(t, p) /\ ~RowDeleted(t, p)
        BY <1>5, <2>2 DEF RowBorn, RowArchived, RowDeleted, IsLive
      <3> QED BY <2>3, <3>1, <3>2, <3>3 DEF RowChanges
    <2> QED BY <2>2, <2>3, RowMoves
  <1>6. ASSUME Running(u), Renews(u), task[u].post = p PROVE "write" \notin task[u].todo
    BY <1>6 DEF OrderInv, Renews
  <1>7. CASE Running(u) /\ task'[u] = task[u]
    <2>1. On(u, p) /\ task'[u].kind = task[u].kind
      BY <1>7 DEF On
    <2>2. (Closes(u)' <=> Closes(u)) /\ (Removes(u)' <=> Removes(u)) /\ (Renews(u)' <=> Renews(u))
      BY <1>7 DEF Closes, Removes, Renews
    <2> QED BY <1>2, <1>4, <1>5, <1>6, <1>7, <2>1, <2>2 DEF On
  <1>8. CASE Step(u) /\ Running(u)
    <2>1. PICK step \in Steps, new \in SUBSET Steps : Advances(u, step, new)
      BY <1>8, StepAdvances
    <2>2. /\ On(u, p) /\ task'[u].kind = task[u].kind /\ task'[u].todo = (task[u].todo \ {step}) \cup new
          /\ step \in task[u].todo /\ Follow(u, step, new) /\ Does(u, step) /\ ~Reject(u) /\ Post(u) = p
      BY <1>8, <2>1, Faultless DEF Advances, Goes, On, At, Post
    <2>3. Sound(task[u]) /\ task[u].todo # {}
      BY <1>8 DEF TypeInv, TasksOK, Running
    <2>4. Closes(u)' => Closes(u)
      <3>1. "archiveRow" \notin new
        BY <2>2 DEF Follow
      <3>2. "saveRow" \in new => task[u].kind \notin {"archive", "complete"}
        BY <2>2, <2>3 DEF Follow, Sound
      <3> QED BY <2>2, <3>1, <3>2 DEF Closes
    <2>5. ASSUME Removes(u)', IsLive(p)' PROVE Closes(u)'
      <3>1. "get" \notin new
        BY <2>2, <2>5 DEF Follow, IsLive, Exists, TypeInv, DataOK
      <3>2. "del" \in new => "get" \in task[u].todo
        BY <2>2 DEF Follow
      <3>3. Removes(u)
        BY <2>2, <2>5, <3>1, <3>2 DEF Removes
      <3>4. Closes(u)
        BY <1>4, <2>2, <2>5, <3>3
      <3>5. step # "archiveRow" /\ step # "saveRow"
        BY <2>2, <2>5, <3>4, ClosesNow DEF Does, Closes
      <3> QED BY <2>2, <3>4, <3>5 DEF Closes
    <2>6. ASSUME Renews(u)', IsLive(p)' PROVE task'[u].row.rev = posts'[p].rev
      <3>1. CASE Renews(u) /\ task'[u].row = task[u].row
        BY <1>5, <1>6, <1>8, <2>2, <2>6, <3>1 DEF On
      <3>2. CASE step = "reload" /\ task'[u].row = posts[Post(u)]
        <4>1. posts' = posts
          BY <2>2, <3>2 DEF Does, Reload, Only, NotData, tables
        <4> QED BY <2>2, <3>2, <4>1
      <3>3. \/ Renews(u) /\ task'[u].row = task[u].row
            \/ step = "reload" /\ task'[u].row = posts[Post(u)]
        BY <2>1, <2>6 DEF Advances, Reads, Renews
      <3> QED BY <3>1, <3>2, <3>3
    <2> QED BY <1>2, <2>2, <2>4, <2>5, <2>6
  <1> QED BY <1>1, <1>7, <1>8, TaskMoves

LEMMA IndexStep == ASSUME ClosingInv, IndexInv, [BoardNext]_boardVars PROVE IndexInv'
  <1>1. ASSUME faults' = 0, NEW p \in Posts, Clean(p)'
        PROVE  /\ ~IsLive(p)' => Gone(p)'
               /\ IsLive(p)' => Follows(p)'
               /\ \A u \in Tasks : On(u, p)' => Ready(u, p)'
    <2>1. Clean(p)
      BY <1>1, MetStays DEF ClosingInv, BoardInv
    <2>2. ASSUME NEW u \in Tasks, On(u, p)' PROVE Ready(u, p)'
      <3>1. Running(u)' /\ task'[u].post = p
        BY <2>2 DEF On
      <3> QED BY <1>1, <2>1, <3>1, ReadyStays DEF Ready
    <2> QED BY <1>1, <2>1, <2>2, SilentGone, LiveFollows
  <1> QED BY <1>1 DEF IndexInv

LEMMA IndexInit == BoardInit => IndexInv
  <1> SUFFICES ASSUME BoardInit PROVE IndexInv
    OBVIOUS
  <1>1. PICK s \in Scenarios : posts = s.posts /\ index = s.index /\ task = [t \in Tasks |-> None]
    BY DEF BoardInit
  <1>2. \A t \in Tasks : ~Running(t)
    BY <1>1 DEF Running
  <1>3. \A p \in Posts : index[p] = (IF IsLive(p) THEN posts[p].rev ELSE 0) /\ (Exists(p) => posts[p].rev # 0)
    BY <1>1, BoardAssumption DEF Consistent, IsLive, Exists
  <1>4. \A p \in Posts : IsLive(p) => Exists(p)
    BY DEF IsLive
  <1> QED BY <1>2, <1>3, <1>4 DEF IndexInv, On, Gone, Follows

LEMMA IndexHolds == ClosingInv /\ IndexInv => IndexIsCurrent
  <1> SUFFICES ASSUME ClosingInv, IndexInv, Quiet, faults = 0, NEW p \in Posts,
                      ~LostUpdate(p), ~Met(p, {"reindex"}, {"reindex"})
               PROVE  index[p] = IF IsLive(p) THEN posts[p].rev ELSE 0
    BY DEF IndexIsCurrent
  <1>1. Clean(p) /\ \A t \in Tasks : ~On(t, p)
    BY DEF Clean, Quiet, On
  <1>2. CASE ~IsLive(p)
    BY <1>1, <1>2 DEF IndexInv, Gone
  <1>3. CASE IsLive(p)
    BY <1>1, <1>3 DEF IndexInv, Follows
  <1> QED BY <1>2, <1>3

\* When no request is under way and none was rejected, the search shows a live post as
\* its row is, and no other post, but for requests that overlapped and write the same
\* post and for the index rebuilt with the archived posts.
THEOREM SearchIsCurrent == BoardSpec => []IndexIsCurrent
  <1>1. ClosingInv /\ IndexInv /\ [BoardNext]_boardVars => IndexInv'
    BY IndexStep
  <1> QED BY <1>1, IndexInit, IndexHolds, ClosingInit, ClosingStep, PTL DEF BoardSpec

-------------------------------------------------------------------------------
(* The deadlines in the calendar, when no await is rejected. *)

\* A request is about to remove the event, and will find it or has found it.
Clears(t, e) ==
    /\ On(t, e.post)
    /\ "findEvents" \in task[t].todo \/ ("removeEvents" \in task[t].todo /\ e \in task[t].found)
\* The post is closed, or will be when a change of its images is saved.
Barred(p) == ~IsLive(p) \/ \E t \in Tasks : On(t, p) /\ task[t].kind \in Images /\ task[t].row.archived = TRUE
Late(p) == Met(p, Adders, Closing)
\* The deadline of a post that is closed, or is about to be, is about to be removed;
\* the post that a deadline is on its way to is open.
DeadlineInv ==
    faults = 0 => \A p \in Posts : ~Late(p) =>
        /\ \A e \in events : e.post = p /\ e.type = "deadline" =>
              /\ Barred(p) => \E t \in Tasks : Clears(t, e)
              /\ \A t \in Tasks : On(t, p) /\ Closes(t) => Clears(t, e)
        /\ \A t \in Tasks : On(t, p) /\ task[t].kind \in Adders => ~Barred(p)

EventAdded(t) == /\ SaveEvent(t) /\ Running(t) /\ posts' = posts
                 /\ events' = events \cup {NewEvent(t)}

LEMMA EventMoves ==
    ASSUME TypeInv, [BoardNext]_boardVars
    PROVE  events' \subseteq events \/ \E t \in Tasks : EventAdded(t)
  <1>1. CASE UNCHANGED boardVars \/ Crash
    BY <1>1 DEF boardVars, tables, Crash
  <1>2. ASSUME NEW t \in Tasks, Request(t) PROVE events' = events
    BY <1>2, RequestWrites DEF NotPosts
  <1>3. ASSUME NEW t \in Tasks, Step(t), ~SaveEvent(t) PROVE events' \subseteq events
    <2>1. CASE \/ FindPost(t) \/ Reload(t) \/ IndexJobPost(t) \/ GetDoc(t) \/ DeleteDoc(t)
               \/ FindEvents(t) \/ UpdateDoc(t) \/ FindSaved(t) \/ FindExisting(t)
               \/ SaveReview(t) \/ PutObject(t) \/ PutFails(t) \/ DeleteObject(t) \/ Bulk(t) \/ Reject(t)
      BY <2>1 DEF FindPost, Reload, IndexJobPost, GetDoc, DeleteDoc, FindEvents, UpdateDoc, FindSaved,
             FindExisting, SaveReview, PutObject, PutFails, DeleteObject, Bulk, Reject, Only, NotData,
             NotReviews, NotIndex, NotBucket, tables
    <2>2. CASE \/ ArchiveRow(t) \/ Write(t) \/ SaveRow(t) \/ CancelApps(t) \/ SaveNew(t) \/ SaveApp(t)
               \/ AddSaved(t) \/ RemoveSaved(t) \/ DeleteRow(t)
      BY <2>2 DEF ArchiveRow, Write, SaveRow, CancelApps, SaveNew, SaveApp, AddSaved, RemoveSaved, DeleteRow,
             Only, NotPosts, NotApps, NotSaved
    <2>3. CASE RemoveEvents(t)
      BY <2>3 DEF RemoveEvents
    <2> QED BY <1>3, <2>1, <2>2, <2>3 DEF Step
  <1>4. ASSUME NEW t \in Tasks, SaveEvent(t) PROVE events' \subseteq events \/ EventAdded(t)
    BY <1>4 DEF SaveEvent, EventAdded, At, Running, Only, NotEvents
  <1> QED BY <1>1, <1>2, <1>3, <1>4 DEF BoardNext

\* Who is about to remove an event goes on to do so while the event is stored.
LEMMA ClearsStays ==
    ASSUME TypeInv, OrderInv, [BoardNext]_boardVars, faults' = 0, NEW e \in events, e \in events',
           NEW t \in Tasks, Clears(t, e)
    PROVE  Clears(t, e)'
  <1>0. Running(t) /\ Post(t) = e.post /\ task[t].post = e.post
    BY DEF Clears, On, Post
  <1>1. CASE task'[t] = task[t]
    BY <1>1 DEF Clears, On, Running
  <1>2. ASSUME NEW step \in Steps, NEW new \in SUBSET Steps, Advances(t, step, new), Step(t) PROVE Clears(t, e)'
    <2>1. /\ task'[t].post = e.post /\ task'[t].todo = (task[t].todo \ {step}) \cup new /\ task'[t] # None
          /\ step \in task[t].todo /\ Does(t, step) /\ ~Reject(t)
      BY <1>0, <1>2, Faultless DEF Advances, Goes, At
    <2>2. ASSUME "findEvents" \in task'[t].todo \/ ("removeEvents" \in task'[t].todo /\ e \in task'[t].found)
          PROVE  Clears(t, e)'
      BY <2>1, <2>2 DEF Clears, On, Running
    <2>3. CASE step = "findEvents"
      <3>1. Finds(t)
        BY <2>1, <2>3, ReadGoes DEF Does
      <3>2. "removeEvents" \in task'[t].todo /\ task'[t].found = EventsOf(e.post)
        BY <1>0, <3>1 DEF Finds, Goes
      <3>3. e \in EventsOf(e.post)
        BY DEF EventsOf
      <3> QED BY <2>2, <3>2, <3>3
    <2>4. CASE step = "removeEvents"
      <3>1. events' = events \ task[t].found
        BY <2>1, <2>4 DEF Does, RemoveEvents
      <3>2. "findEvents" \in task[t].todo
        BY <3>1 DEF Clears
      <3> QED BY <2>1, <2>2, <2>4, <3>2
    <2>5. CASE step \notin {"findEvents", "removeEvents"}
      <3>1. task[t].kind # "toggleSave"
        BY <1>0 DEF Clears, OrderInv
      <3>2. step # "findSaved"
        BY <1>0, <2>1, <3>1 DEF TypeInv, TasksOK, Sound, Running
      <3>3. CASE "findEvents" \in task[t].todo
        BY <2>1, <2>2, <2>5, <3>3
      <3>4. CASE "removeEvents" \in task[t].todo /\ e \in task[t].found
        <4>1. "removeEvents" \in task'[t].todo /\ Running(t)'
          BY <2>1, <2>5, <3>4 DEF Running
        <4>2. task'[t].found = task[t].found
          BY <1>2, <2>5, <3>2, <4>1 DEF Advances, Reads
        <4> QED BY <2>2, <3>4, <4>1, <4>2
      <3> QED BY <3>3, <3>4 DEF Clears
    <2> QED BY <2>3, <2>4, <2>5
  <1> QED BY <1>0, <1>1, <1>2, Faultless, RunsOn

\* A post is barred only by a request that closes it.
LEMMA BarredBy ==
    ASSUME ClosingInv, [BoardNext]_boardVars, faults' = 0, NEW p \in Posts, ~Barred(p), Barred(p)'
    PROVE  \/ \E t \in Tasks : On(t, p) /\ Closes(t)
           \/ \E t \in Tasks : On(t, p) /\ task[t].kind = "delete" /\ EventsOf(p) = {} /\ events' = events
  <1> USE DEF ClosingInv, BoardInv
  <1>0. IsLive(p) /\ Exists(p) /\ posts[p] \in Row
    BY DEF Barred, IsLive, Exists, TypeInv, DataOK
  <1>1. ASSUME NEW u \in Tasks, On(u, p)', task'[u].kind \in Images, task'[u].row.archived = TRUE PROVE FALSE
    <2>1. Running(u)' /\ task'[u].post = p
      BY <1>1 DEF On
    <2>2. CASE WentOn(u)
      <3>1. On(u, p) /\ task[u].kind \in Images /\ task[u].row.archived = TRUE
        BY <1>1, <2>1, <2>2 DEF WentOn, On, Writers
      <3> QED BY <3>1 DEF Barred
    <2>3. CASE Request(u)
      <3>1. OpensImages(u)
        BY <1>1, <2>3, RequestOpens
           DEF OpensNew, OpensWrite, OpensClose, OpensBulk, OpensOther, Opens, Others, Images
      <3>2. task'[u].row = posts[p]
        BY <2>1, <3>1 DEF OpensImages, Opens
      <3> QED BY <1>0, <1>1, <3>2 DEF IsLive
    <2> QED BY <2>1, <2>2, <2>3, TaskGoes
  <1>2. ~IsLive(p)'
    BY <1>1 DEF Barred
  <1>3. PICK t \in Tasks : RowChanges(t, p)
    BY <1>0, <1>2, RowMoves DEF IsLive, Exists
  <1>4. CASE RowArchived(t, p)
    BY <1>4 DEF RowArchived, ArchiveRow, At, Closes
  <1>5. CASE RowDeleted(t, p)
    <2>1. posts' # posts /\ Post(t) = p
      BY <1>5 DEF RowDeleted, Exists, On, Post
    <2>2. EventsOf(p) = {} /\ events' = events
      BY <1>5, <2>1 DEF RowDeleted, DeleteRow, Only
    <2> QED BY <1>5, <2>2 DEF RowDeleted
  <1>6. CASE RowSaved(t, p)
    <2>1. posts'[p].archived = task[t].row.archived /\ Exists(p)' /\ On(t, p) /\ "saveRow" \in task[t].todo
      BY <1>6 DEF RowSaved, SaveRow, At
    <2>2. CASE task[t].kind = "complete"
      BY <2>1, <2>2 DEF Closes
    <2>3. CASE task[t].kind \in Images
      <3>1. task[t].row \in Row
        BY <1>6, StepKinds DEF RowSaved, SaveRow
      <3>2. task[t].row.archived = TRUE
        BY <1>2, <2>1, <3>1 DEF IsLive, Row
      <3> QED BY <2>1, <2>3, <3>2 DEF Barred
    <2> QED BY <1>6, <2>2, <2>3 DEF RowSaved, Writers
  <1>7. ~RowBorn(t, p) /\ ~RowWritten(t, p)
    BY <1>0, <1>2 DEF RowBorn, RowWritten, IsLive
  <1> QED BY <1>3, <1>4, <1>5, <1>6, <1>7 DEF RowChanges

\* Who closes the post has been about to, or has come and will look for its events.
LEMMA ClosesBefore ==
    ASSUME TypeInv, [BoardNext]_boardVars, NEW p \in Posts, NEW u \in Tasks, On(u, p)', Closes(u)'
    PROVE  (On(u, p) /\ Closes(u)) \/ "findEvents" \in task'[u].todo
  <1>0. Running(u)' /\ task'[u].post = p
    BY DEF On
  <1>1. CASE Running(u) /\ task'[u] = task[u]
    BY <1>0, <1>1 DEF On, Closes
  <1>2. CASE Step(u) /\ Running(u)
    <2>1. PICK step \in Steps, new \in SUBSET Steps : Advances(u, step, new)
      BY <1>2, StepAdvances
    <2>2. /\ task[u].post = p /\ task'[u].kind = task[u].kind /\ task'[u].todo = (task[u].todo \ {step}) \cup new
          /\ step \in task[u].todo /\ Follow(u, step, new)
      BY <1>0, <2>1 DEF Advances, Goes, At
    <2>3. Sound(task[u])
      BY <1>2 DEF TypeInv, TasksOK, Running
    <2>4. "archiveRow" \notin new /\ ("saveRow" \in new => task[u].kind \notin {"archive", "complete"})
      BY <2>2, <2>3 DEF Follow, Sound
    <2> QED BY <1>2, <2>2, <2>4 DEF Closes, On
  <1>3. CASE Request(u)
    <2>1. ~OpensNew(u) /\ ~OpensWrite(u) /\ ~OpensImages(u) /\ ~OpensBulk(u)
      BY DEF OpensNew, OpensWrite, OpensImages, OpensBulk, Opens, Closes
    <2>2. ~OpensOther(u)
      BY DEF OpensOther, Opens, Closes, OtherSteps
    <2>3. OpensClose(u)
      BY <1>3, <2>1, <2>2, RequestOpens
    <2> QED BY <2>3 DEF OpensClose, Opens, ClosingSteps
  <1> QED BY <1>0, <1>1, <1>2, <1>3, TaskMoves

\* A deadline that is on its way to a closed post is remembered.
LEMMA LateNow ==
    ASSUME TypeInv, Remember, NEW p \in Posts, NEW u \in Tasks, On(u, p)', task'[u].kind = "addDeadline",
           ~Late(p)'
    PROVE  ~Barred(p)'
  <1>1. SUFFICES ASSUME Barred(p)' PROVE <<"addDeadline", "archive">> \in met'[p]
    BY DEF Late, Met, Adders, Closing
  <1> DEFINE on == {t \in Tasks : Running(t)' /\ (task'[t].post = p \/ task'[t].kind = "reindex")}
             held == \E t \in on : task'[t].kind \in Images /\ task'[t].row.archived
             late == {t \in on : task'[t].kind = "addDeadline" /\ (~IsLive(p)' \/ held)}
  <1>2. u \in on /\ (IsLive(p)' => held)
    BY <1>1 DEF Barred, On
  <1>3. u \in late
    BY <1>2
  <1>4. <<"addDeadline", "archive">> \in Overlaps(p)'
    BY <1>3 DEF Overlaps
  <1>5. met'[p] = met[p] \cup Overlaps(p)'
    BY DEF Remember
  <1> QED BY <1>4, <1>5

LEMMA DeadlineStep == ASSUME ClosingInv, DeadlineInv, [BoardNext]_boardVars PROVE DeadlineInv'
  <1> USE DEF ClosingInv, BoardInv
  <1> SUFFICES ASSUME faults' = 0, NEW p \in Posts, ~Late(p)'
               PROVE  /\ \A e \in events' : e.post = p /\ e.type = "deadline" =>
                            /\ Barred(p)' => \E t \in Tasks : Clears(t, e)'
                            /\ \A t \in Tasks : On(t, p)' /\ Closes(t)' => Clears(t, e)'
                      /\ \A t \in Tasks : On(t, p)' /\ task'[t].kind \in Adders => ~Barred(p)'
    BY DEF DeadlineInv
  <1>1. ~Late(p) /\ faults = 0
    BY MetGrows, Faultless DEF Late, TypeInv
  \* While a deadline is on its way to a post nobody closes it.
  <1>2. ASSUME NEW u \in Tasks, On(u, p), task[u].kind \in Adders
        PROVE  ~Barred(p)' /\ \A t \in Tasks : ~(On(t, p) /\ task[t].kind \in Closing)
    <2>1. ASSUME NEW t \in Tasks, On(t, p), task[t].kind \in Closing PROVE FALSE
      <3>1. t # u
        BY <1>2, <2>1 DEF Adders, Closing
      <3> QED BY <1>1, <1>2, <2>1, <3>1, Overlap DEF Late
    <2>2. ~Barred(p)
      BY <1>1, <1>2 DEF DeadlineInv
    <2> QED BY <2>1, <2>2, BarredBy DEF Closes, Closing
  <1>3. ASSUME NEW u \in Tasks, On(u, p)', task'[u].kind \in Adders PROVE ~Barred(p)'
    <2>0. Running(u)' /\ task'[u].post = p
      BY <1>3 DEF On
    <2>1. CASE WentOn(u)
      BY <1>2, <1>3, <2>0, <2>1 DEF WentOn, On
    <2>2. CASE Request(u) /\ task'[u].kind = "create"
      <3>1. OpensNew(u)
        BY <2>2, RequestOpens DEF OpensWrite, OpensClose, OpensImages, OpensBulk, OpensOther, Opens, Others
      <3>2. /\ ~Exists(p) /\ p \notin deleted /\ posts' = [posts EXCEPT ![p] = NewRow]
            /\ \A t \in Tasks \ {u} : task'[t] = task[t]
        BY <2>0, <3>1 DEF OpensNew, Opens
      <3>3. IsLive(p)'
        <4>1. posts'[p] = NewRow /\ NewRow \in Row /\ NewRow.archived = FALSE
          BY <3>2 DEF TypeInv, DataOK, NewRow, Row
        <4> QED BY <4>1, NoneIsNone DEF IsLive, Exists
      <3>4. ASSUME NEW t \in Tasks, On(t, p)', task'[t].kind \in Images PROVE FALSE
        <4>1. t # u
          BY <2>2, <3>4 DEF Images
        <4>2. On(t, p) /\ task[t].kind \in Images
          BY <3>2, <3>4, <4>1 DEF On, Running
        <4> QED BY <3>2, <4>2 DEF KnownInv, On
      <3> QED BY <3>3, <3>4 DEF Barred
    <2>3. CASE Request(u) /\ ~Running(u) /\ task'[u].kind = "addDeadline"
      <3>1. Remember
        BY <2>0, <2>3 DEF BoardNext, boardVars, Running
      <3> QED BY <1>3, <2>3, <3>1, LateNow
    <2> QED BY <1>3, <2>0, <2>1, <2>2, <2>3, TaskGoes DEF Adders
  <1>4. ASSUME NEW e, NEW u \in Tasks, e.post = p, On(u, p)', "findEvents" \in task'[u].todo PROVE Clears(u, e)'
    BY <1>4 DEF Clears
  <1>5. ASSUME NEW e \in events, e \in events', e.post = p, e.type = "deadline"
        PROVE  /\ Barred(p)' => \E t \in Tasks : Clears(t, e)'
               /\ \A t \in Tasks : On(t, p)' /\ Closes(t)' => Clears(t, e)'
    <2>1. \A t \in Tasks : On(t, p) /\ Closes(t) => Clears(t, e)'
      BY <1>1, <1>5, ClearsStays DEF DeadlineInv
    <2>2. Barred(p) => \E t \in Tasks : Clears(t, e)'
      BY <1>1, <1>5, ClearsStays DEF DeadlineInv
    <2>3. EventsOf(p) # {}
      BY <1>5 DEF EventsOf
    <2>4. Barred(p)' => \E t \in Tasks : Clears(t, e)'
      BY <2>1, <2>2, <2>3, BarredBy
    <2>5. \A t \in Tasks : On(t, p)' /\ Closes(t)' => Clears(t, e)'
      BY <1>4, <1>5, <2>1, ClosesBefore
    <2> QED BY <2>4, <2>5
  <1>6. ASSUME NEW e \in events', e \notin events, e.post = p, e.type = "deadline"
        PROVE  /\ ~Barred(p)'
               /\ \A t \in Tasks : On(t, p)' /\ Closes(t)' => Clears(t, e)'
    <2>1. PICK u \in Tasks : EventAdded(u) /\ e = NewEvent(u)
      BY <1>6, EventMoves DEF EventAdded
    <2>2. task[u].post = p /\ task[u].kind \in Adders /\ Running(u)
      BY <1>6, <2>1 DEF NewEvent, EventAdded, Post, Adders
    <2>3. ~Barred(p)' /\ \A t \in Tasks : ~(On(t, p) /\ task[t].kind \in Closing)
      BY <1>2, <2>2 DEF On
    <2>4. \A t \in Tasks : On(t, p)' /\ Closes(t)' => "findEvents" \in task'[t].todo
      BY <2>3, ClosesBefore DEF Closes, Closing
    <2>5. ASSUME NEW t \in Tasks, On(t, p)', Closes(t)' PROVE Clears(t, e)'
      <3>1. "findEvents" \in task'[t].todo
        BY <2>4, <2>5
      <3> QED BY <1>4, <1>6, <2>5, <3>1
    <2> QED BY <2>3, <2>5
  <1> QED BY <1>3, <1>5, <1>6

LEMMA DeadlineInit == BoardInit => DeadlineInv
  <1> SUFFICES ASSUME BoardInit PROVE DeadlineInv
    OBVIOUS
  <1>1. PICK s \in Scenarios : posts = s.posts /\ events = s.events /\ task = [t \in Tasks |-> None]
    BY DEF BoardInit
  <1>2. \A t \in Tasks : ~Running(t)
    BY <1>1 DEF Running
  <1>3. \A e \in events : e.type = "deadline" => e.post \in Posts /\ IsLive(e.post)
    BY <1>1, BoardAssumption DEF Consistent, IsLive, Exists
  <1> QED BY <1>2, <1>3 DEF DeadlineInv, Barred, On

LEMMA DeadlineHolds == ClosingInv /\ DeadlineInv => DeadlineGoesWithPost
  <1> SUFFICES ASSUME ClosingInv, DeadlineInv, Quiet, faults = 0, NEW e \in events,
                      e.type = "deadline", ~IsLive(e.post), ~Late(e.post)
               PROVE  FALSE
    BY DEF DeadlineGoesWithPost, Late, Adders
  <1>1. e.post \in Posts
    BY DEF ClosingInv, BoardInv, TypeInv, DataOK, Event
  <1>2. \E t \in Tasks : Clears(t, e)
    BY <1>1 DEF DeadlineInv, Barred
  <1> QED BY <1>2 DEF Clears, On, Quiet

\* When no request is under way and none was rejected, the calendar shows no deadline of
\* a post that is closed, unless a deadline was on its way while the post was closed, of
\* its creation or of a request that adds one, or was added to the closed post: the route
\* does not look at the post, and archive does not look for events again.
THEOREM DeadlinesGo == BoardSpec => []DeadlineGoesWithPost
  <1>1. ClosingInv /\ DeadlineInv /\ [BoardNext]_boardVars => DeadlineInv'
    BY DeadlineStep
  <1> QED BY <1>1, DeadlineInit, DeadlineHolds, ClosingInit, ClosingStep, PTL DEF BoardSpec

-------------------------------------------------------------------------------
(* The images of the posts, when no await is rejected. *)

Orderly == faults = 0 /\ deleted = {} /\ \A p \in Posts : ~Met(p, Images, Images \cup {"complete"})
PhotosOf(p) == IF Exists(p) THEN posts[p].photos ELSE {}
Edits(t, p) == On(t, p) /\ task[t].kind \in Images
\* The images that a post names; while a request changes them, those that the row it
\* holds names.
Holds(p, k) == IF \E t \in Tasks : Edits(t, p) THEN \E t \in Tasks : Edits(t, p) /\ k \in task[t].row.photos
               ELSE k \in PhotosOf(p)
\* S3 holds these, each of one post; what is still to be put is new.
PhotoInv ==
    Orderly =>
        /\ \A k \in Keys : k \in bucket <=> \E p \in Posts : Holds(p, k)
        /\ \A k \in Keys, p, q \in Posts : Holds(p, k) /\ Holds(q, k) => p = q
        /\ \A t \in Tasks : At(t, "put") => task[t].keys \cap bucket = {}
        /\ \A t, u \in Tasks : t # u /\ At(t, "put") /\ At(u, "put") => task[t].keys \cap task[u].keys = {}
        /\ \A p \in Posts, t \in Tasks : On(t, p) /\ task[t].kind = "complete" /\ "saveRow" \in task[t].todo
              => task[t].row.photos = PhotosOf(p)
\* A request to remove an image that its post does not name is remembered.
StrayInv == \A t \in Tasks : Strays(t) => <<"deleteImage", "deleteImage">> \in met[Post(t)]

LEMMA StrayStep == ASSUME TypeInv, StrayInv, [BoardNext]_boardVars PROVE StrayInv'
  <1>1. CASE UNCHANGED boardVars
    BY <1>1 DEF boardVars, StrayInv, Strays, At, Post
  <1>2. CASE Remember
    <2> SUFFICES ASSUME NEW t \in Tasks, Strays(t)'
                 PROVE  <<"deleteImage", "deleteImage">> \in met'[task'[t].post]
      BY DEF StrayInv, Post
    <2>1. Running(t)' /\ task'[t].kind = "deleteImage" /\ task'[t].post \in Posts
      <3>1. Sound(task[t])' /\ "deleteObject" \in task'[t].todo
        BY TypeInvStep DEF TypeInv, TasksOK, Strays, At
      <3> QED BY <3>1 DEF Sound, Running, Strays, At
    <2>2. PICK p \in Posts : p = task'[t].post
      BY <2>1
    <2> DEFINE on == {v \in Tasks : Running(v)' /\ (task'[v].post = p \/ task'[v].kind = "reindex")}
    <2>3. <<t, t>> \in {x \in on \X on : x[1] # x[2] \/ task'[x[1]].kind = "reindex" \/ Strays(x[1])'}
      BY <2>1, <2>2
    <2>4. <<"deleteImage", "deleteImage">> \in Overlaps(p)'
      BY <2>1, <2>3 DEF Overlaps
    <2>5. met'[p] = met[p] \cup Overlaps(p)'
      BY <1>2 DEF Remember
    <2> QED BY <2>2, <2>4, <2>5
  <1> QED BY <1>1, <1>2 DEF BoardNext

LEMMA Alone ==
    ASSUME Meets, Orderly, NEW p \in Posts, NEW t \in Tasks, NEW u \in Tasks, Edits(t, p), On(u, p),
           task[u].kind \in Images \cup {"complete"}
    PROVE  t = u
  BY DEF Meets, Orderly, Edits, On, Met

LEMMA OrderlyBefore ==
    ASSUME ClosingInv, [BoardNext]_boardVars, Orderly'
    PROVE  /\ Orderly /\ faults' = 0 /\ ~Crash
           /\ \A t \in Tasks : Step(t) => ~Reject(t) /\ ~PutFails(t)
           /\ \A p \in Posts, t \in Tasks :
                 On(t, p) /\ task[t].kind \in Images \cup Closing => Exists(p) /\ Exists(p)'
  <1> USE DEF ClosingInv, BoardInv
  <1>1. Orderly
    BY MetGrows, DeletedChange, Faultless DEF Orderly, TypeInv
  <1>2. ASSUME NEW p \in Posts, NEW t \in Tasks, On(t, p), task[t].kind \in Images \cup Closing
        PROVE  Exists(p) /\ Exists(p)'
    <2>1. Exists(p)
      BY <1>1, <1>2 DEF KnownInv, On, Orderly
    <2>2. p \notin deleted'
      BY DEF Orderly
    <2>3. posts'[p] = posts[p] \/ \E u \in Tasks : RowChanges(u, p)
      BY RowMoves
    <2> QED BY <2>1, <2>2, <2>3 DEF RowChanges, RowBorn, RowArchived, RowWritten, RowDeleted, RowSaved, Exists
  <1> QED BY <1>1, <1>2, Faultless DEF Orderly

\* The photos of a row change only with those that a request has changed.
LEMMA PhotosChange ==
    ASSUME ClosingInv, PhotoInv, [BoardNext]_boardVars, Orderly', NEW p \in Posts, PhotosOf(p)' # PhotosOf(p)
    PROVE  \E t \in Tasks : /\ Edits(t, p) /\ SaveRow(t) /\ PhotosOf(p)' = task[t].row.photos
  <1>1. PICK t \in Tasks : RowChanges(t, p)
    BY RowMoves DEF ClosingInv, BoardInv, PhotosOf, Exists
  <1>2. ~RowBorn(t, p)
    <2>1. NewRow.photos = {}
      BY DEF NewRow
    <2> QED BY <2>1 DEF RowBorn, PhotosOf, Exists
  <1>3. ~RowArchived(t, p) /\ ~RowWritten(t, p)
    BY DEF RowArchived, RowWritten, PhotosOf
  <1>4. ~RowDeleted(t, p)
    BY DEF RowDeleted, Orderly
  <1>5. RowSaved(t, p) /\ PhotosOf(p)' = task[t].row.photos
    BY <1>1, <1>2, <1>3, <1>4 DEF RowChanges, RowSaved, PhotosOf
  <1>6. task[t].kind # "complete"
    <2>1. "saveRow" \in task[t].todo /\ On(t, p)
      BY <1>5 DEF RowSaved, SaveRow, At
    <2> QED BY <1>5, <2>1, OrderlyBefore DEF PhotoInv
  <1> QED BY <1>5, <1>6 DEF RowSaved, Writers, Edits

LEMMA BucketMoves ==
    ASSUME [BoardNext]_boardVars, ~Crash, \A t \in Tasks : Step(t) => ~Reject(t) /\ ~PutFails(t)
    PROVE  bucket' = bucket \/ \E t \in Tasks : PutObject(t) \/ DeleteObject(t)
  <1>1. CASE UNCHANGED boardVars
    BY <1>1 DEF boardVars
  <1>2. ASSUME NEW t \in Tasks, Request(t) PROVE bucket' = bucket
    BY <1>2, RequestWrites DEF NotPosts
  <1>3. ASSUME NEW t \in Tasks, Step(t), ~PutObject(t), ~DeleteObject(t) PROVE bucket' = bucket
    <2>1. CASE \/ FindPost(t) \/ Reload(t) \/ IndexJobPost(t) \/ GetDoc(t) \/ DeleteDoc(t)
               \/ FindEvents(t) \/ UpdateDoc(t) \/ FindSaved(t) \/ FindExisting(t) \/ SaveReview(t) \/ Bulk(t)
      BY <2>1 DEF FindPost, Reload, IndexJobPost, GetDoc, DeleteDoc, FindEvents, UpdateDoc, FindSaved,
             FindExisting, SaveReview, Bulk, Only, NotData, NotReviews, NotIndex, tables
    <2>2. CASE \/ ArchiveRow(t) \/ Write(t) \/ SaveRow(t) \/ CancelApps(t) \/ SaveNew(t) \/ SaveApp(t)
               \/ AddSaved(t) \/ RemoveSaved(t) \/ DeleteRow(t) \/ SaveEvent(t) \/ RemoveEvents(t)
      BY <2>2 DEF ArchiveRow, Write, SaveRow, CancelApps, SaveNew, SaveApp, AddSaved, RemoveSaved, DeleteRow,
             SaveEvent, RemoveEvents, Only, NotPosts, NotApps, NotSaved, NotEvents
    <2> QED BY <1>3, <2>1, <2>2 DEF Step
  <1> QED BY <1>1, <1>2, <1>3 DEF BoardNext

LEMMA EditorOnly ==
    ASSUME TypeInv, NEW t \in Tasks, PutObject(t) \/ DeleteObject(t)
    PROVE  Edits(t, Post(t)) /\ Post(t) \in Posts /\ task[t] \in Task /\ task[t].row \in Row
  <1>1. Running(t) /\ task[t] \in Task /\ Sound(task[t])
        /\ ("put" \in task[t].todo \/ "deleteObject" \in task[t].todo)
    BY AtTask DEF PutObject, DeleteObject, At, TypeInv
  <1>2. task[t].kind \in {"upload", "deleteImage"} /\ task[t].post \in Posts
    BY <1>1 DEF Sound
  <1>3. task[t].row \in Row
    BY <1>1, <1>2 DEF Sound, Writers, Images
  <1> QED BY <1>1, <1>2, <1>3 DEF Edits, On, Images, Post

\* One request at a time changes S3.
LEMMA OneEdits ==
    ASSUME TypeInv, NEW t \in Tasks, NEW u \in Tasks, PutObject(t) \/ DeleteObject(t), PutObject(u) \/ DeleteObject(u)
    PROVE  t = u
  <1>1. ASSUME NEW v \in Tasks, PutObject(v) PROVE task'[v] # task[v] /\ \A w \in Tasks \ {v} : task'[w] = task[w]
    BY <1>1, ReadGoes DEF Puts, Goes
  <1>2. ASSUME NEW v \in Tasks, DeleteObject(v)
        PROVE  task'[v] # task[v] /\ \A w \in Tasks \ {v} : task'[w] = task[w]
    BY <1>2, ReadGoes DEF Drops, Goes, At
  <1> QED BY <1>1, <1>2

\* While a post is changed by one request only, what that one holds is what the post holds.
LEMMA HoldsOne ==
    ASSUME Meets, Orderly, NEW p \in Posts, NEW t \in Tasks, Edits(t, p), NEW k
    PROVE  Holds(p, k) <=> k \in task[t].row.photos
  BY Alone DEF Holds, Edits
LEMMA HoldsOneNext ==
    ASSUME Meets', Orderly', NEW p \in Posts, NEW t \in Tasks, Edits(t, p)', NEW k
    PROVE  /\ Holds(p, k)' <=> k \in task'[t].row.photos
           /\ \A u \in Tasks : Edits(u, p)' => t = u
  <1>1. \A u \in Tasks : Edits(u, p)' => t = u
    BY DEF Meets, Orderly, Edits, On, Met
  <1> QED BY <1>1 DEF Holds

\* A request that changes the images waits, or saves the row.
LEMMA EditGoes ==
    ASSUME ClosingInv, [BoardNext]_boardVars, Orderly', NEW p \in Posts, NEW u \in Tasks,
           Edits(u, p), ~PutObject(u), ~DeleteObject(u)
    PROVE  \/ task'[u] = task[u]
           \/ ~Running(u)' /\ PhotosOf(p)' = task[u].row.photos /\ Step(u)
  <1> USE DEF ClosingInv, BoardInv
  <1>0. /\ Orderly /\ ~Crash /\ Running(u) /\ task[u].post = p /\ Post(u) = p /\ task[u].kind \in Images
        /\ \A t \in Tasks : Step(t) => ~Reject(t) /\ ~PutFails(t)
    BY OrderlyBefore DEF Edits, On, Post
  <1>1. task[u].row \in Row
    BY <1>0 DEF TypeInv, TasksOK, Running, Sound, Writers
  <1>2. ASSUME NEW step \in Steps, NEW new \in SUBSET Steps, Advances(u, step, new), Step(u)
        PROVE  ~Running(u)' /\ PhotosOf(p)' = task[u].row.photos
    <2>1. /\ step \in task[u].todo /\ Does(u, step) /\ ~Reject(u) /\ ~PutFails(u) /\ Follow(u, step, new)
          /\ task'[u].todo = (task[u].todo \ {step}) \cup new
      BY <1>0, <1>2 DEF Advances, Goes, At
    <2>2. step \in ImageSteps /\ task[u].todo = {step}
      BY <1>0, <2>1 DEF OrderInv
    <2>3. step = "saveRow" /\ SaveRow(u)
      BY <2>1, <2>2 DEF Does, ImageSteps
    <2>4. new = {}
      BY <1>0, <2>1, <2>3 DEF Follow, Steps, Images
    <2> DEFINE employer == IF Exists(Post(u)) THEN posts[Post(u)].employer ELSE task[u].kind # "upload"
    <2>5. posts'[p] = [task[u].row EXCEPT !.employer = employer]
      BY <1>0, <2>3 DEF SaveRow, TypeInv, DataOK
    <2>6. employer \in BOOLEAN
      BY <1>0 DEF Row, TypeInv, DataOK, Exists
    <2> HIDE DEF employer
    <2>7. posts'[p] \in Row /\ posts'[p].photos = task[u].row.photos
      BY <1>1, <2>5, <2>6 DEF Row
    <2>8. PhotosOf(p)' = task[u].row.photos
      BY <2>7, NoneIsNone DEF PhotosOf, Exists
    <2> QED BY <2>1, <2>2, <2>4, <2>8 DEF Running
  <1> QED BY <1>0, <1>2, RunsOn

\* What a post holds stays while no request puts or deletes an image of it.
LEMMA HoldsStays ==
    ASSUME ClosingInv, PhotoInv, [BoardNext]_boardVars, Orderly', NEW p \in Posts, NEW k,
           \A u \in Tasks : Edits(u, p) => ~PutObject(u) /\ ~DeleteObject(u)
    PROVE  Holds(p, k)' <=> Holds(p, k)
  <1> USE DEF ClosingInv, BoardInv
  <1>0. Orderly /\ ~Crash /\ Meets'
    BY OrderlyBefore, BoardInvStep
  <1>1. ASSUME NEW u \in Tasks, Edits(u, p) PROVE Holds(p, k)' <=> Holds(p, k)
    <2>1. Holds(p, k) <=> k \in task[u].row.photos
      BY <1>0, <1>1, HoldsOne
    <2>2. CASE task'[u] = task[u]
      <3>1. Edits(u, p)'
        BY <1>1, <2>2 DEF Edits, On, Running
      <3> QED BY <1>0, <2>1, <2>2, <3>1, HoldsOneNext
    <2>3. CASE ~Running(u)' /\ PhotosOf(p)' = task[u].row.photos /\ task'[u] # task[u]
      <3>1. ASSUME NEW t \in Tasks, Edits(t, p)' PROVE FALSE
        <4>1. Running(t)' /\ task'[t].post = p /\ task'[t].kind \in Images /\ t # u
          BY <2>3, <3>1 DEF Edits, On
        <4>2. CASE WentOn(t)
          <5>1. Edits(t, p)
            BY <4>1, <4>2 DEF WentOn, Edits, On
          <5> QED BY <1>0, <1>1, <4>1, <5>1, Alone DEF Edits
        <4>3. CASE Request(t)
          BY <2>3, <4>1, <4>3, RequestOpens
             DEF OpensNew, OpensWrite, OpensClose, OpensImages, OpensBulk, OpensOther, Opens
        <4> QED BY <4>1, <4>2, <4>3, TaskGoes
      <3> QED BY <2>1, <2>3, <3>1 DEF Holds
    <2> QED BY <1>1, <2>2, <2>3, EditGoes
  <1>2. ASSUME \A u \in Tasks : ~Edits(u, p) PROVE Holds(p, k)' <=> Holds(p, k)
    <2>1. PhotosOf(p)' = PhotosOf(p)
      BY <1>2, PhotosChange
    <2>2. Holds(p, k) <=> k \in PhotosOf(p)
      BY <1>2 DEF Holds
    <2>3. ASSUME NEW t \in Tasks, Edits(t, p)' PROVE Holds(p, k)' <=> Holds(p, k)
      <3>1. Running(t)' /\ task'[t].post = p /\ task'[t].kind \in Images
        BY <2>3 DEF Edits, On
      <3>2. ~WentOn(t)
        BY <1>2, <3>1 DEF WentOn, Edits, On
      <3>3. OpensImages(t)
        BY <3>1, <3>2, TaskGoes, RequestOpens
           DEF OpensNew, OpensWrite, OpensClose, OpensBulk, OpensOther, Opens, Others, Images
      <3>4. Exists(p) /\ task'[t].row = posts[p]
        BY <3>1, <3>3 DEF OpensImages, Opens
      <3>5. task'[t].row.photos = PhotosOf(p)
        BY <3>4 DEF PhotosOf
      <3> QED BY <1>0, <2>2, <2>3, <3>5, HoldsOneNext
    <2>4. (\A t \in Tasks : ~Edits(t, p)') => (Holds(p, k)' <=> Holds(p, k))
      BY <2>1, <2>2 DEF Holds
    <2> QED BY <2>3, <2>4
  <1> QED BY <1>1, <1>2

\* An image that is put is one more that the post holds.
LEMMA HoldsPut ==
    ASSUME ClosingInv, [BoardNext]_boardVars, Orderly', NEW p \in Posts, NEW u \in Tasks, Edits(u, p), PutObject(u)
    PROVE  \E j \in task[u].keys : /\ bucket' = bucket \cup {j} /\ task'[u].keys = task[u].keys \ {j}
                                   /\ \A k : Holds(p, k)' <=> Holds(p, k) \/ k = j
  <1> USE DEF ClosingInv, BoardInv
  <1>0. Orderly /\ Meets' /\ task[u].row \in Row
    BY OrderlyBefore, BoardInvStep, EditorOnly
  <1>1. PICK j \in task[u].keys, new \in {{"put"}, {"saveRow"}} :
           /\ bucket' = bucket \cup {j} /\ Goes(u, "put", new)
           /\ task'[u].keys = task[u].keys \ {j}
           /\ task'[u].row = [task[u].row EXCEPT !.photos = @ \cup {j}]
    BY ReadGoes DEF Puts
  <1>2. task'[u].row.photos = task[u].row.photos \cup {j}
    BY <1>0, <1>1 DEF Row
  <1>3. Edits(u, p)'
    BY <1>1 DEF Goes, Edits, On, Running
  <1>4. ASSUME NEW k PROVE Holds(p, k)' <=> Holds(p, k) \/ k = j
    BY <1>0, <1>2, <1>3, HoldsOne, HoldsOneNext
  <1> QED BY <1>1, <1>4

\* An image that is deleted is one the post held, and holds no more.
LEMMA HoldsDrop ==
    ASSUME ClosingInv, StrayInv, [BoardNext]_boardVars, Orderly', NEW p \in Posts, NEW u \in Tasks,
           Edits(u, p), DeleteObject(u)
    PROVE  /\ bucket' = bucket \ task[u].keys
           /\ \A k : Holds(p, k)' <=> Holds(p, k) /\ k \notin task[u].keys
           /\ \A k \in task[u].keys : Holds(p, k)
  <1> USE DEF ClosingInv, BoardInv
  <1>0. Orderly /\ Meets' /\ task[u].row \in Row /\ Post(u) = p
    BY OrderlyBefore, BoardInvStep, EditorOnly DEF Edits, On, Post
  <1>1. Goes(u, "deleteObject", {"saveRow"}) /\ task'[u].row = [task[u].row EXCEPT !.photos = @ \ task[u].keys]
    BY ReadGoes DEF Drops
  <1>2. task'[u].row.photos = task[u].row.photos \ task[u].keys /\ bucket' = bucket \ task[u].keys
    BY <1>0, <1>1 DEF Row, DeleteObject
  <1>3. Edits(u, p)'
    BY <1>1 DEF Goes, Edits, On, Running
  <1>4. task[u].keys \subseteq task[u].row.photos
    <2>1. ~Strays(u)
      BY <1>0 DEF StrayInv, Orderly, Met, Images
    <2> QED BY <2>1 DEF Strays, DeleteObject
  <1>5. ASSUME NEW k PROVE /\ Holds(p, k)' <=> Holds(p, k) /\ k \notin task[u].keys
                           /\ k \in task[u].keys => Holds(p, k)
    BY <1>0, <1>2, <1>3, <1>4, HoldsOne, HoldsOneNext
  <1> QED BY <1>2, <1>5

\* A request that still has to put images has had to, or has come with new ones.
LEMMA PutGoes ==
    ASSUME ClosingInv, [BoardNext]_boardVars, Orderly', NEW t \in Tasks, At(t, "put")'
    PROVE  \/ /\ At(t, "put")
              /\ task'[t].keys \subseteq task[t].keys /\ (PutObject(t) \/ task'[t] = task[t])
           \/ /\ task'[t].keys \subseteq NewKeys /\ bucket' = bucket /\ \A u \in Tasks \ {t} : task'[u] = task[u]
  <1> USE DEF ClosingInv, BoardInv
  <1>0. Running(t)' /\ "put" \in task'[t].todo /\ task'[t].kind = "upload"
    <2>1. Sound(task[t])' /\ "put" \in task'[t].todo
      BY BoardInvStep DEF TypeInv, TasksOK, At
    <2> QED BY <2>1 DEF Sound, Running, At
  <1>1. CASE task'[t] = task[t]
    BY <1>0, <1>1 DEF At
  <1>2. CASE Step(t) /\ Running(t)
    <2>1. PICK step \in Steps, new \in SUBSET Steps : Advances(t, step, new)
      BY <1>2, StepAdvances
    <2>2. /\ task[t].kind = "upload" /\ step \in task[t].todo /\ Does(t, step) /\ Follow(t, step, new)
          /\ task'[t].todo = (task[t].todo \ {step}) \cup new /\ ~Reject(t) /\ ~PutFails(t)
      BY <1>0, <1>2, <2>1, OrderlyBefore DEF Advances, Goes, At
    <2>3. task[t].todo = {step}
      BY <1>2, <2>2 DEF OrderInv, Images
    <2>4. step = "put" /\ PutObject(t)
      BY <1>0, <2>2, <2>3 DEF Follow, Does
    <2>5. task'[t].keys \subseteq task[t].keys
      BY <2>4, ReadGoes DEF Puts
    <2> QED BY <1>2, <2>2, <2>4, <2>5 DEF At, Running
  <1>3. CASE Request(t)
    <2>1. bucket' = bucket
      BY <1>3, RequestOpens DEF NotPosts
    <2>2. OpensImages(t)
      BY <1>0, <1>3, RequestOpens DEF OpensNew, OpensWrite, OpensClose, OpensBulk, OpensOther, Opens, Others, Images
    <2> QED BY <1>0, <2>1, <2>2 DEF OpensImages, Opens
  <1> QED BY <1>0, <1>1, <1>2, <1>3, TaskMoves

LEMMA PutStep ==
    ASSUME ClosingInv, PhotoInv, [BoardNext]_boardVars, Orderly'
    PROVE  /\ \A t \in Tasks : At(t, "put")' => task'[t].keys \cap bucket' = {}
           /\ \A t, u \in Tasks : t # u /\ At(t, "put")' /\ At(u, "put")' => task'[t].keys \cap task'[u].keys = {}
  <1> USE DEF ClosingInv, BoardInv
  <1>0. Orderly /\ ~Crash /\ \A t \in Tasks : Step(t) => ~Reject(t) /\ ~PutFails(t)
    BY OrderlyBefore
  <1>1. ASSUME NEW t \in Tasks, At(t, "put")' PROVE task'[t].keys \cap bucket' = {}
    <2>1. CASE task'[t].keys \subseteq NewKeys /\ bucket' = bucket
      BY <2>1 DEF NewKeys
    <2>2. CASE At(t, "put") /\ task'[t].keys \subseteq task[t].keys /\ (PutObject(t) \/ task'[t] = task[t])
      <3>1. task[t].keys \cap bucket = {}
        BY <1>0, <2>2 DEF PhotoInv
      <3>2. CASE bucket' \subseteq bucket
        BY <2>2, <3>1, <3>2
      <3>3. ASSUME NEW u \in Tasks, PutObject(u) PROVE task'[t].keys \cap bucket' = {}
        <4>1. PICK j \in task[u].keys : bucket' = bucket \cup {j} /\ task'[u].keys = task[u].keys \ {j}
          BY <3>3, ReadGoes DEF Puts
        <4>2. CASE u = t
          BY <3>1, <4>1, <4>2
        <4>3. CASE u # t
          <5>1. At(u, "put")
            BY <3>3 DEF PutObject
          <5>2. task[t].keys \cap task[u].keys = {}
            BY <1>0, <2>2, <4>3, <5>1 DEF PhotoInv
          <5> QED BY <2>2, <3>1, <4>1, <5>2
        <4> QED BY <4>2, <4>3
      <3>4. ASSUME NEW u \in Tasks, DeleteObject(u) PROVE bucket' \subseteq bucket
        BY <3>4 DEF DeleteObject
      <3> QED BY <1>0, <3>2, <3>3, <3>4, BucketMoves
    <2> QED BY <1>1, <2>1, <2>2, PutGoes
  <1>2. ASSUME NEW t \in Tasks, NEW u \in Tasks, t # u, At(t, "put")', At(u, "put")'
        PROVE  task'[t].keys \cap task'[u].keys = {}
    <2>1. CASE At(t, "put") /\ task'[t].keys \subseteq task[t].keys /\ At(u, "put") /\ task'[u].keys \subseteq task[u].keys
      BY <1>0, <1>2, <2>1 DEF PhotoInv
    <2>2. ASSUME NEW v \in Tasks, NEW w \in Tasks, v # w, At(w, "put")',
                 task'[v].keys \subseteq NewKeys, \A x \in Tasks \ {v} : task'[x] = task[x]
          PROVE  task'[v].keys \cap task'[w].keys = {}
      <3>1. task'[w] = task[w] /\ task[w] # None
        BY <2>2 DEF At
      <3> QED BY <2>2, <3>1 DEF NewKeys
    <2> QED BY <1>2, <2>1, <2>2, PutGoes
  <1> QED BY <1>1, <1>2

LEMMA PhotoStep == ASSUME ClosingInv, StrayInv, PhotoInv, [BoardNext]_boardVars PROVE PhotoInv'
  <1> USE DEF ClosingInv, BoardInv
  <1> SUFFICES ASSUME Orderly'
               PROVE  /\ \A k \in Keys : k \in bucket' <=> \E p \in Posts : Holds(p, k)'
                      /\ \A k \in Keys, p, q \in Posts : Holds(p, k)' /\ Holds(q, k)' => p = q
                      /\ \A p \in Posts, t \in Tasks :
                            On(t, p)' /\ task'[t].kind = "complete" /\ "saveRow" \in task'[t].todo
                            => task'[t].row.photos = PhotosOf(p)'
    BY PutStep DEF PhotoInv
  <1>0. Orderly /\ ~Crash /\ \A t \in Tasks : Step(t) => ~Reject(t) /\ ~PutFails(t)
    BY OrderlyBefore
  <1>i. /\ \A k \in Keys : k \in bucket <=> \E p \in Posts : Holds(p, k)
        /\ \A k \in Keys, p, q \in Posts : Holds(p, k) /\ Holds(q, k) => p = q
        /\ \A t \in Tasks : At(t, "put") => task[t].keys \cap bucket = {}
    BY <1>0 DEF PhotoInv
  \* What the step does to the other posts.
  <1>o. ASSUME NEW u \in Tasks, PutObject(u) \/ DeleteObject(u), NEW p \in Posts, p # Post(u), NEW k
        PROVE  Holds(p, k)' <=> Holds(p, k)
    <2>1. \A v \in Tasks : Edits(v, p) => ~PutObject(v) /\ ~DeleteObject(v)
      BY <1>o, OneEdits DEF Edits, On, Post
    <2> QED BY <2>1, HoldsStays
  <1>1. ASSUME NEW u \in Tasks, PutObject(u)
        PROVE  /\ \A k \in Keys : k \in bucket' <=> \E p \in Posts : Holds(p, k)'
               /\ \A k \in Keys, p, q \in Posts : Holds(p, k)' /\ Holds(q, k)' => p = q
    <2>1. PICK r \in Posts : r = Post(u) /\ Edits(u, r)
      BY <1>1, EditorOnly
    <2>2. PICK j \in task[u].keys : bucket' = bucket \cup {j} /\ \A k : Holds(r, k)' <=> Holds(r, k) \/ k = j
      BY <1>1, <2>1, HoldsPut
    <2>3. j \notin bucket /\ j \in Keys
      <3>1. task[u] \in Task /\ At(u, "put")
        BY <1>1, EditorOnly DEF PutObject
      <3> QED BY <1>i, <2>2, <3>1 DEF Task
    <2>4. \A p \in Posts \ {r}, k \in Keys : Holds(p, k)' <=> Holds(p, k)
      BY <1>1, <1>o, <2>1
    <2>5. \A p \in Posts : ~Holds(p, j)
      BY <1>i, <2>3
    <2> QED BY <1>i, <2>1, <2>2, <2>3, <2>4, <2>5
  <1>2. ASSUME NEW u \in Tasks, DeleteObject(u)
        PROVE  /\ \A k \in Keys : k \in bucket' <=> \E p \in Posts : Holds(p, k)'
               /\ \A k \in Keys, p, q \in Posts : Holds(p, k)' /\ Holds(q, k)' => p = q
    <2>1. PICK r \in Posts : r = Post(u) /\ Edits(u, r)
      BY <1>2, EditorOnly
    <2>2. /\ bucket' = bucket \ task[u].keys
          /\ \A k : Holds(r, k)' <=> Holds(r, k) /\ k \notin task[u].keys
          /\ \A k \in task[u].keys : Holds(r, k)
      BY <1>2, <2>1, HoldsDrop
    <2>3. \A p \in Posts \ {r}, k \in Keys : Holds(p, k)' <=> Holds(p, k)
      BY <1>2, <1>o, <2>1
    <2> QED BY <1>i, <2>1, <2>2, <2>3
  <1>3. ASSUME \A u \in Tasks : ~PutObject(u) /\ ~DeleteObject(u)
        PROVE  /\ \A k \in Keys : k \in bucket' <=> \E p \in Posts : Holds(p, k)'
               /\ \A k \in Keys, p, q \in Posts : Holds(p, k)' /\ Holds(q, k)' => p = q
    <2>1. bucket' = bucket
      BY <1>0, <1>3, BucketMoves
    <2>2. \A p \in Posts, k \in Keys : Holds(p, k)' <=> Holds(p, k)
      BY <1>3, HoldsStays
    <2> QED BY <1>i, <2>1, <2>2
  <1>4. \A p \in Posts, t \in Tasks :
            On(t, p) /\ task[t].kind = "complete" /\ "saveRow" \in task[t].todo => task[t].row.photos = PhotosOf(p)
    BY <1>0 DEF PhotoInv
  <1>5. ASSUME NEW p \in Posts, NEW c \in Tasks, On(c, p)', task'[c].kind = "complete", "saveRow" \in task'[c].todo
        PROVE  task'[c].row.photos = PhotosOf(p)'
    <2>0. Running(c)' /\ task'[c].post = p
      BY <1>5 DEF On
    <2>1. CASE Running(c) /\ task'[c] = task[c]
      <3>1. On(c, p) /\ task[c].row.photos = PhotosOf(p)
        BY <1>4, <1>5, <2>0, <2>1 DEF On
      <3>2. PhotosOf(p)' = PhotosOf(p)
        BY <1>0, <1>5, <2>1, <3>1, Alone, PhotosChange DEF Images, Edits
      <3> QED BY <2>1, <3>1, <3>2
    <2>2. CASE Step(c) /\ Running(c)
      <3>1. PICK step \in Steps, new \in SUBSET Steps : Advances(c, step, new)
        BY <2>2, StepAdvances
      <3>2. /\ On(c, p) /\ task[c].kind = "complete" /\ task'[c].todo = (task[c].todo \ {step}) \cup new
            /\ step \in task[c].todo /\ Follow(c, step, new)
        BY <1>5, <2>0, <2>2, <3>1 DEF Advances, Goes, On, At
      <3>3. Sound(task[c])
        BY <2>2 DEF TypeInv, TasksOK, Running
      <3>4. step \notin {"reload", "put", "deleteObject"}
        BY <3>2, <3>3 DEF Sound
      <3>5. "saveRow" \in task[c].todo
        BY <1>5, <3>2, <3>4 DEF Follow
      <3>6. task'[c].row = task[c].row
        BY <2>0, <3>1, <3>4 DEF Advances, Reads
      <3>7. task[c].row.photos = PhotosOf(p)
        BY <1>4, <3>2, <3>5
      <3>8. PhotosOf(p)' = PhotosOf(p)
        BY <1>0, <3>2, Alone, PhotosChange DEF Images, Edits
      <3> QED BY <3>6, <3>7, <3>8
    <2>3. CASE Request(c)
      <3>1. OpensClose(c) /\ posts' = posts
        BY <1>5, <2>3, RequestOpens
           DEF OpensNew, OpensWrite, OpensImages, OpensBulk, OpensOther, Opens, Others, Images, Closing
      <3>2. Exists(p) /\ task'[c].row = [posts[p] EXCEPT !.archived = TRUE]
        BY <1>5, <2>0, <3>1 DEF OpensClose, Opens, HasEmployer
      <3>3. posts[p] \in Row
        BY <3>2 DEF TypeInv, DataOK, Exists
      <3>4. task'[c].row.photos = posts[p].photos
        BY <3>2, <3>3 DEF Row
      <3> QED BY <3>1, <3>2, <3>4 DEF PhotosOf, Exists
    <2> QED BY <2>0, <2>1, <2>2, <2>3, TaskMoves
  <1> QED BY <1>1, <1>2, <1>3, <1>5

\* When no request is under way and none was rejected, S3 holds the images that the posts
\* name, but for requests that overlapped and save the whole row, for images removed by
\* way of a post that does not name them, and for the images of a deleted post: what is
\* put is new, and each image is named by one post.
THEOREM ImagesAreStored == BoardSpec => []PhotosAreStored
  <1>1. BoardInit => StrayInv /\ PhotoInv
    <2> SUFFICES ASSUME BoardInit PROVE StrayInv /\ PhotoInv
      OBVIOUS
    <2>1. PICK s \in Scenarios :
             /\ posts = s.posts /\ task = [t \in Tasks |-> None]
             /\ bucket = UNION {s.posts[p].photos : p \in {q \in Posts : s.posts[q] # None}}
      BY DEF BoardInit
    <2>2. \A t \in Tasks : ~Running(t) /\ \A x : ~At(t, x)
      BY <2>1 DEF Running, At
    <2>3. \A p \in Posts : \A k : Holds(p, k) <=> posts[p] # None /\ k \in posts[p].photos
      BY <2>2 DEF Holds, Edits, On, PhotosOf, Exists
    <2>4. \A p, q \in Posts : p # q /\ posts[p] # None /\ posts[q] # None => posts[p].photos \cap posts[q].photos = {}
      BY <2>1, BoardAssumption DEF Consistent
    <2>5. \A k : k \in bucket <=> \E p \in Posts : posts[p] # None /\ k \in posts[p].photos
      BY <2>1
    <2>6. PhotoInv
      BY <2>2, <2>3, <2>4, <2>5 DEF PhotoInv, On
    <2> QED BY <2>2, <2>6 DEF StrayInv, Strays
  <1>2. ClosingInv /\ StrayInv /\ PhotoInv /\ [BoardNext]_boardVars => StrayInv' /\ PhotoInv'
    BY PhotoStep, StrayStep DEF ClosingInv, BoardInv
  <1>3. ClosingInv /\ PhotoInv => PhotosAreStored
    <2> SUFFICES ASSUME ClosingInv, PhotoInv, Quiet, Orderly
                 PROVE  bucket = UNION {posts[p].photos : p \in {q \in Posts : Exists(q)}}
      BY DEF PhotosAreStored, Orderly
    <2>1. \A p \in Posts : \A k : Holds(p, k) <=> Exists(p) /\ k \in posts[p].photos
      BY DEF Holds, Quiet, Edits, On, PhotosOf
    <2>2. bucket \subseteq Keys /\ \A p \in Posts : Exists(p) => posts[p].photos \subseteq Keys
      BY DEF ClosingInv, BoardInv, TypeInv, DataOK, Exists, Row
    <2>3. \A k \in Keys : k \in bucket <=> \E p \in Posts : Exists(p) /\ k \in posts[p].photos
      BY <2>1 DEF PhotoInv
    <2>4. \A k : k \in UNION {posts[p].photos : p \in {q \in Posts : Exists(q)}}
                 <=> \E p \in Posts : Exists(p) /\ k \in posts[p].photos
      OBVIOUS
    <2> QED BY <2>2, <2>3, <2>4
  <1> QED BY <1>1, <1>2, <1>3, ClosingInit, ClosingStep, PTL DEF BoardSpec
===============================================================================
