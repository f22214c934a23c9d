------------------------------ MODULE BoardPages ------------------------------
(***************************************************************************)
(* The web pages of the job board: the applications of an employee, the    *)
(* posts of the employer, the details of a post with its dialogs, the      *)
(* images of a post, the form that makes one and the calendar.  Each tab   *)
(* runs one task of Board at a time, as Next.js queues the server actions  *)
(* of a page, and what it shows is what it last read.  fetchWrapper        *)
(* answers {error} for a refused request; only a lost connection throws.   *)
(***************************************************************************)
EXTENDS Board

CONSTANT
    TabUser         \* who is signed in to the tab; each has one browser

VARIABLES
    tab,
    reviewed,       \* localStorage of each browser: the applications marked as reviewed
    left,           \* ghost: the applications whose review a browser left unmarked on its way
    clicks          \* the pages opened and dialogs used that are still to come

marks == <<reviewed, left>>
pageVars == <<boardVars, tab, marks, clicks>>

Pages == {"home", "applications", "myPosts", "details", "images", "form", "calendar", "broken"}
Waits == {"withdraw", "review", "respond", "complete", "reviewAfter", "archive", "apply", "status",
          "delete", "upload", "create", "addEvent", "removeEvent"}
ASSUME PagesAssumption ==
    /\ IsFiniteSet(Tasks)
    /\ TabUser \in [Tasks -> Applicants \cup {"employer"}]
    /\ None \notin Waits \cup Statuses \cup {"success", "error"}

NoApps == [a \in Ids |-> None]
Tab == [page : Pages, post : Posts \cup {None}, apps : [Ids -> Statuses \cup {None}],
        posts : SUBSET Posts, hasApplied : BOOLEAN, images : SUBSET Keys,
        events : SUBSET Event, event : Event \cup {None},
        dialog : [app : Ids \cup {None}, status : Statuses \cup {None}] \cup {None},
        wait : Waits \cup {None}, target : Ids \cup Keys \cup {None},
        toast : {None, "success", "error"}]

Blank(page, p) ==
    [page |-> page, post |-> p, apps |-> NoApps, posts |-> {}, hasApplied |-> FALSE, images |-> {},
     events |-> {}, event |-> None, dialog |-> None, wait |-> None, target |-> None, toast |-> None]

Init ==
    /\ BoardInit
    /\ tab = [t \in Tasks |-> Blank("home", None)]
    /\ reviewed = [t \in Tasks |-> {}] /\ left = {}
    /\ clicks = calls["click"]

IsEmployer(t) == TabUser[t] = "employer"
Show(t, new) == tab' = [tab EXCEPT ![t] = new]
Quietly == UNCHANGED <<boardVars, marks>>
Click == clicks > 0 /\ clicks' = clicks - 1
Idle(t) == tab[t].wait = None /\ ~Running(t)

(***************************************************************************)
(* What pages read                                                         *)
(***************************************************************************)
\* GET apply: of the employee, or of the posts of the employer.
Requests(t) == [a \in Ids |-> IF a \in AppIds /\ (IsEmployer(t) \/ apps[a].user = TabUser[t])
                              THEN apps[a].status ELSE None]
OfPost(shown, p) == [a \in Ids |-> IF a \in AppsOf(p) THEN shown[a] ELSE None]

\* fetchData of the details: without the post, rendering it throws.
Details(t, p) ==
    IF ~HasEmployer(p) THEN Blank("broken", p)
    ELSE IF IsEmployer(t) THEN [Blank("details", p) EXCEPT !.apps = OfPost(Requests(t), p)]
    ELSE [Blank("details", p) EXCEPT !.hasApplied = \E a \in Ids : OfPost(Requests(t), p)[a] # None]

\* GET calendar: the events of the user, and of the posts he is the employer of.
\* The deadlines are his; nobody is set as the user of the events users add.
EventsShown(t) ==
    {e \in events : IsEmployer(t) /\ (e.type = "deadline" \/ HasEmployer(e.post))}

Loaded(t, page, p) ==
    CASE page = "applications" -> [Blank(page, None) EXCEPT !.apps = Requests(t)]
      [] page = "myPosts" -> [Blank(page, None) EXCEPT !.apps = Requests(t), !.posts = {q \in Posts : Exists(q)}]
      [] page = "details" -> Details(t, p)
      [] page = "calendar" -> [Blank(page, None) EXCEPT !.events = EventsShown(t)]
      [] page = "images" -> [Blank(page, p) EXCEPT !.images = IF p # None /\ Exists(p) THEN posts[p].photos ELSE {}]
      [] OTHER -> Blank(page, p)

\* An {error} for a list: my-posts, images and calendar show none, the others throw.
NotLoaded(page, p) ==
    IF page \in {"myPosts", "images", "form", "calendar"} THEN Blank(page, p) ELSE Blank("broken", p)

Offered(t) ==
    {"details", "calendar"} \cup (IF IsEmployer(t) THEN {"myPosts", "images", "form"} ELSE {"applications"})

\* GET reviews/already-reviewed: those the user wrote, also of applications deleted
\* since (whoever wrote those: they are on no page).
AlreadyReviewed(t) ==
    {a \in Ids : reviews[a].applicant > 0 /\ (a \in AppIds => apps[a].user = TabUser[t])}

\* The answer replaces the marks: one whose review is on its way is lost.
Reviews(t, a) == At(t, "saveReview") /\ task[t].user = "applicant" /\ task[t].app = a
HydrateFromServer(t) ==
    /\ reviewed' = [reviewed EXCEPT ![t] = AlreadyReviewed(t)]
    /\ left' = left \cup {a \in Ids \ AlreadyReviewed(t) : Reviews(t, a)}

\* By the router, or a full load of the page: that does not wait for the request
\* under way, which goes on without a page, and asks for the marks.
OpenPage(t, page, p) ==
    /\ Click /\ page \in Offered(t)
    /\ page \in {"details", "images"} => Exists(p)
    /\ Show(t, Loaded(t, page, p))
    /\ UNCHANGED boardVars
    /\ \/ (page = "applications" => Idle(t)) /\ UNCHANGED marks
       \/ page = "applications" /\ HydrateFromServer(t)

OpenFails(t, page, p) ==
    /\ Click /\ page \in Offered(t)
    /\ Fault
    /\ Show(t, NotLoaded(page, p))
    /\ UNCHANGED <<tables, index, bucket, task>>
    /\ UNCHANGED marks \/ (page = "applications" /\ HydrateFromServer(t))

(***************************************************************************)
(* Requests of a page, and what it does with the answers                   *)
(***************************************************************************)
\* The page sends a request, which the server takes or refuses.
Refused(t, kind, p) ==
    /\ task' = [task EXCEPT ![t] = Answered(kind, p, TRUE)]
    /\ UNCHANGED <<tables, index, bucket, calls, faults>>

Send(t, wait, target) ==
    /\ Idle(t)
    /\ Show(t, [tab[t] EXCEPT !.wait = wait, !.target = target, !.toast = None])
    /\ UNCHANGED marks

Lost(t) == task[t] = None
Failed(t) == task[t] # None /\ task[t].failed
\* Mutant of Returned: the wait ends only with an answer.
ReturnedAnswered(t, wait) == tab[t].wait = wait /\ ~Lost(t) /\ ~Running(t)
Returned(t, wait) == tab[t].wait = wait /\ (Lost(t) \/ Failed(t) \/ ~Running(t))
Settle(t, new) ==
    /\ Show(t, [new EXCEPT !.wait = None, !.target = None])
    /\ Quietly /\ UNCHANGED clicks

\* A page reads a list again; when that is refused it has {error} for a list.
Refresh(t, new) ==
    \/ Show(t, [new EXCEPT !.wait = None, !.target = None, !.apps = Requests(t)]) /\ Quietly /\ UNCHANGED clicks
    \/ /\ Fault
       /\ Show(t, IF tab[t].page = "applications" THEN Blank("broken", None)
                  ELSE [new EXCEPT !.wait = None, !.target = None, !.apps = NoApps])
       /\ UNCHANGED <<tables, index, bucket, task, marks, clicks>>

Toasted(t, toast) == [tab[t] EXCEPT !.toast = toast]
DialogClosed(t, toast) == [Toasted(t, toast) EXCEPT !.dialog = None]

\* Applications of an employee.
\* Mutant of CanWithdraw: an accepted application can be withdrawn as well.
CanWithdrawAccepted(t, a) == tab[t].page = "applications" /\ tab[t].apps[a] \in {"pending", "accepted"}
CanWithdraw(t, a) == tab[t].page = "applications" /\ tab[t].apps[a] = "pending"

HandleWithdraw(t, a) ==
    /\ CanWithdraw(t, a)
    /\ Send(t, "withdraw", a) /\ UNCHANGED clicks
    /\ \/ a \in AppIds /\ Withdraw(t, a)
       \/ (a \in AppIds => apps[a].status = "withdrawn") /\ Refused(t, "withdraw", None)

WithdrawAnswered(t) ==
    /\ Returned(t, "withdraw")
    /\ IF Lost(t) THEN Settle(t, tab[t]) ELSE Refresh(t, tab[t])

CanReview(t, a) == tab[t].page = "applications" /\ tab[t].apps[a] = "completed" /\ a \notin reviewed[t]

\* Mutant of HandleReview: marked as reviewed nowhere.
HandleReviewUnmarked(t, a) ==
    /\ Click /\ Idle(t) /\ CanReview(t, a)
    /\ Show(t, [tab[t] EXCEPT !.dialog = [app |-> a, status |-> "completed"]])
    /\ UNCHANGED <<boardVars, marks>>

\* Marked when the dialog opens, even if it is then closed.
HandleReview(t, a) ==
    /\ Click /\ Idle(t) /\ CanReview(t, a)
    /\ Show(t, [tab[t] EXCEPT !.dialog = [app |-> a, status |-> "completed"]])
    /\ reviewed' = [reviewed EXCEPT ![t] = @ \cup {a}]
    /\ UNCHANGED <<boardVars, left>>

\* A dialog over the details of an event is closed first.
CloseDialog(t) ==
    /\ Click /\ Idle(t)
    /\ \/ tab[t].dialog # None /\ Show(t, [tab[t] EXCEPT !.dialog = None])
       \/ tab[t].dialog = None /\ tab[t].event # None /\ Show(t, [tab[t] EXCEPT !.event = None])
    /\ Quietly

SendReview(t, a, side) ==
    \/ a \in AppIds /\ Review(t, a, side)
    \/ a \notin AppIds /\ Refused(t, "review", None)

SubmitReview(t) ==
    /\ tab[t].page = "applications" /\ tab[t].dialog # None
    /\ Send(t, "review", tab[t].dialog.app) /\ UNCHANGED clicks
    /\ SendReview(t, tab[t].dialog.app, "applicant")

\* An {error} counts as success.
ReviewAnswered(t) ==
    /\ Returned(t, "review")
    /\ Settle(t, IF Lost(t) THEN Toasted(t, "error") ELSE DialogClosed(t, "success"))

\* Posts of the employer.
CanRespond(t, a) == tab[t].page = "myPosts" /\ tab[t].apps[a] \in {"pending", "accepted"}

OnRespond(t, a) ==
    /\ Click /\ Idle(t) /\ CanRespond(t, a)
    /\ Show(t, [tab[t] EXCEPT !.dialog = [app |-> a, status |-> tab[t].apps[a]]])
    /\ Quietly

\* An answer to a pending application, by default the status it has.
SubmitResponse(t, status) ==
    /\ tab[t].page = "myPosts" /\ tab[t].dialog # None /\ tab[t].dialog.status = "pending"
    /\ LET a == tab[t].dialog.app
       IN  /\ Send(t, "respond", a) /\ UNCHANGED clicks
           /\ \/ a \in AppIds /\ Respond(t, a, status)
              \/ a \notin AppIds /\ Refused(t, "respond", None)

\* The end of the work of an accepted one.
SubmitComplete(t) ==
    /\ tab[t].page = "myPosts" /\ tab[t].dialog # None /\ tab[t].dialog.status = "accepted"
    /\ LET a == tab[t].dialog.app
       IN  /\ Send(t, "complete", a) /\ UNCHANGED clicks
           /\ \/ a \in AppIds /\ Complete(t, a)
              \/ a \notin AppIds /\ Refused(t, "complete", None)

\* Whatever was answered, the review follows.
ReviewFollows(t) ==
    /\ Returned(t, "complete") /\ ~Lost(t) /\ ~Running(t)
    /\ Show(t, [tab[t] EXCEPT !.wait = "reviewAfter"])
    /\ SendReview(t, tab[t].target, "employer")
    /\ UNCHANGED <<marks, clicks>>

ResponseAnswered(t) ==
    \/ (Returned(t, "respond") \/ Returned(t, "reviewAfter")) /\ ~Lost(t) /\ Refresh(t, DialogClosed(t, "success"))
    \/ \E wait \in {"respond", "complete", "reviewAfter"} :
          Returned(t, wait) /\ Lost(t) /\ Settle(t, Toasted(t, "error"))

\* The button is inside the link to the details, which then load.
ArchiveClicked(t, p) ==
    /\ tab[t].page = "myPosts" /\ p \in tab[t].posts
    /\ Idle(t)
    /\ Show(t, [Blank("details", p) EXCEPT !.wait = "archive"])
    /\ UNCHANGED <<marks, clicks>>
    /\ \/ Archive(t, p)
       \/ ~HasEmployer(p) /\ Refused(t, "archive", p)

ArchiveAnswered(t) ==
    /\ Returned(t, "archive")
    /\ Settle(t, Details(t, tab[t].post))

\* Details of a post.
CanApply(t) == tab[t].page = "details" /\ ~IsEmployer(t) /\ ~tab[t].hasApplied

OpenApply(t) ==
    /\ Click /\ Idle(t) /\ CanApply(t)
    /\ Show(t, [tab[t] EXCEPT !.dialog = [app |-> None, status |-> None]])
    /\ Quietly

SubmitApply(t) ==
    /\ tab[t].page = "details" /\ ~IsEmployer(t) /\ tab[t].dialog # None
    /\ Send(t, "apply", None) /\ UNCHANGED clicks
    /\ \/ Apply(t, tab[t].post, TabUser[t])
       \/ ~Exists(tab[t].post) /\ Refused(t, "apply", tab[t].post)

\* Mutant of ApplyAnswered: the answer is not looked at.
ApplyAnsweredAny(t) ==
    /\ Returned(t, "apply")
    /\ Settle(t, IF Lost(t) THEN Toasted(t, "error") ELSE DialogClosed(t, "success"))

ApplyAnswered(t) ==
    /\ Returned(t, "apply")
    /\ Settle(t, IF Lost(t) \/ Failed(t) THEN Toasted(t, "error") ELSE DialogClosed(t, "success"))

CanAnswer(t, a) == tab[t].page = "details" /\ IsEmployer(t) /\ tab[t].apps[a] = "pending"

\* "approved" is no status of an application: the request is refused.
ConfirmStatus(t, a, approve) ==
    /\ Click
    /\ CanAnswer(t, a)
    /\ Send(t, "status", a)
    /\ \/ a \in AppIds /\ ~approve /\ Respond(t, a, "rejected")
       \/ (a \in AppIds => approve) /\ Refused(t, "respond", tab[t].post)

\* The list that is read again is not restricted to the post.
StatusAnswered(t) ==
    /\ Returned(t, "status")
    /\ IF Lost(t) THEN Settle(t, tab[t]) ELSE Refresh(t, tab[t])

HandleDelete(t) ==
    /\ Click
    /\ tab[t].page = "details" /\ IsEmployer(t)
    /\ Send(t, "delete", None)
    /\ \/ Delete(t, tab[t].post)
       \/ ~HasEmployer(tab[t].post) /\ Refused(t, "delete", tab[t].post)

\* Then the home page, which for an employer is that of his posts.
DeleteAnswered(t) ==
    /\ Returned(t, "delete")
    /\ Settle(t, IF Lost(t) \/ Failed(t) THEN Toasted(t, "error")
                 ELSE [Loaded(t, "myPosts", None) EXCEPT !.toast = "success"])

\* Images of a post.
HandleUpload(t, k) ==
    /\ Click
    /\ tab[t].page = "images"
    /\ Send(t, "upload", k)
    /\ \/ tab[t].post # None /\ Upload(t, tab[t].post, {k})
       \/ (tab[t].post # None => ~Exists(tab[t].post)) /\ Refused(t, "upload", tab[t].post)

\* Mutant of UploadAnswered: whatever URL the answer has is added.
UploadAnsweredUnchecked(t) ==
    /\ Returned(t, "upload")
    /\ Settle(t, IF Lost(t) THEN Toasted(t, "error")
                 ELSE [tab[t] EXCEPT !.images = @ \cup {IF Failed(t) THEN None ELSE tab[t].target}])

UploadAnswered(t) ==
    /\ Returned(t, "upload")
    /\ Settle(t, IF Lost(t) \/ Failed(t) THEN Toasted(t, "error")
                 ELSE [Toasted(t, "success") EXCEPT !.images = @ \cup {tab[t].target}])

\* No route answers the path of the request, and the {error} is not looked at.
HandleDeleteImage(t, k) ==
    /\ Click /\ Idle(t)
    /\ tab[t].page = "images" /\ k \in tab[t].images
    /\ Show(t, [Toasted(t, "success") EXCEPT !.images = @ \ {k}])
    /\ Quietly

\* The form: a post that is edited is sent to a path of no route, and shown.
SubmitPost(t, p) ==
    /\ tab[t].page = "form"
    /\ Idle(t)
    /\ Show(t, [tab[t] EXCEPT !.wait = "create", !.post = p, !.toast = None])
    /\ UNCHANGED <<marks, clicks>>
    /\ Create(t, p)

CreateAnswered(t) ==
    /\ Returned(t, "create")
    /\ Settle(t, IF Lost(t) THEN Toasted(t, "error")
                 ELSE IF Failed(t) THEN [Blank("images", None) EXCEPT !.toast = "error"]
                 ELSE [Loaded(t, "images", tab[t].post) EXCEPT !.toast = "success"])

SubmitEdit(t, p) ==
    /\ Click /\ Idle(t)
    /\ tab[t].page = "form" /\ Exists(p)
    /\ Show(t, [Details(t, p) EXCEPT !.toast = "error"])
    /\ Quietly

\* The calendar of the profile.
HandleEventClick(t, e) ==
    /\ Click /\ Idle(t)
    /\ tab[t].page = "calendar" /\ tab[t].dialog = None /\ tab[t].event = None
    /\ e \in tab[t].events
    /\ Show(t, [tab[t] EXCEPT !.event = e])
    /\ Quietly

\* Mutant of CanChange: whatever the type of the event.
CanChangeAny(t) == tab[t].event # None
CanChange(t) == tab[t].event # None /\ tab[t].event.type = "custom"

HandleCreateEvent(t) ==
    /\ Click /\ Idle(t)
    /\ tab[t].page = "calendar" /\ tab[t].dialog = None /\ tab[t].event = None
    /\ Show(t, [tab[t] EXCEPT !.dialog = [app |-> None, status |-> None]])
    /\ Quietly

\* The dialog that creates events again, over the event that is shown:
HandleEdit(t) ==
    /\ Click /\ Idle(t)
    /\ tab[t].page = "calendar" /\ tab[t].dialog = None /\ CanChange(t)
    /\ Show(t, [tab[t] EXCEPT !.dialog = [app |-> None, status |-> None]])
    /\ Quietly

\* so editing creates one more, beside the old one.
SubmitEvent(t) ==
    /\ tab[t].page = "calendar" /\ tab[t].dialog # None
    /\ Send(t, "addEvent", None) /\ UNCHANGED clicks
    /\ \/ AddEvent(t, "addEvent")
       \/ (\A p \in Posts : ~Exists(p)) /\ Refused(t, "addEvent", None)

HandleDeleteEvent(t) ==
    /\ tab[t].page = "calendar" /\ tab[t].dialog = None /\ CanChange(t)
    /\ Send(t, "removeEvent", tab[t].event.id) /\ UNCHANGED clicks
    /\ \/ tab[t].event \in events /\ RemoveEvent(t, tab[t].event)
       \/ tab[t].event \notin events /\ Refused(t, "removeEvent", None)

\* An {error} counts as success; the events are read again, unless that fails.
EventAnswered(t) ==
    \E wait \in {"addEvent", "removeEvent"} :
        /\ Returned(t, wait)
        /\ LET new == [DialogClosed(t, "success") EXCEPT !.event = None, !.wait = None, !.target = None]
           IN  \/ Lost(t) /\ Settle(t, Toasted(t, "error"))
               \/ ~Lost(t) /\ Settle(t, [new EXCEPT !.events = EventsShown(t)])
               \/ /\ ~Lost(t) /\ Fault
                  /\ \/ Show(t, [new EXCEPT !.events = {}])
                     \/ Show(t, [new EXCEPT !.toast = "error"])
                  /\ UNCHANGED <<tables, index, bucket, task, marks, clicks>>

-------------------------------------------------------------------------------
Answer(t) ==
    \/ WithdrawAnswered(t) \/ ReviewAnswered(t) \/ ReviewFollows(t) \/ ResponseAnswered(t)
    \/ ArchiveAnswered(t) \/ ApplyAnswered(t) \/ StatusAnswered(t) \/ DeleteAnswered(t)
    \/ UploadAnswered(t) \/ CreateAnswered(t) \/ EventAnswered(t)

\* What each page offers its user, with its dialogs.
ApplicationsPage(t) ==
    \/ \E a \in Ids : HandleWithdraw(t, a) \/ HandleReview(t, a)
    \/ SubmitReview(t)
MyPostsPage(t) ==
    \/ \E a \in Ids : OnRespond(t, a)
    \/ \E status \in {"pending", "accepted", "rejected"} : SubmitResponse(t, status)
    \/ SubmitComplete(t)
    \/ \E p \in Posts : ArchiveClicked(t, p)
JobDetails(t) ==
    \/ OpenApply(t) \/ SubmitApply(t) \/ HandleDelete(t)
    \/ \E a \in Ids, approve \in BOOLEAN : ConfirmStatus(t, a, approve)
ImageManager(t) == \E k \in Keys : HandleUpload(t, k) \/ HandleDeleteImage(t, k)
JobPostForm(t) == \E p \in Posts : SubmitPost(t, p) \/ SubmitEdit(t, p)
CalendarView(t) ==
    \/ \E e \in tab[t].events : HandleEventClick(t, e)
    \/ HandleCreateEvent(t) \/ HandleEdit(t) \/ SubmitEvent(t) \/ HandleDeleteEvent(t)

UserAct(t) ==
    \/ \E page \in Offered(t), p \in Posts : OpenPage(t, page, p) \/ OpenFails(t, page, p)
    \/ CloseDialog(t)
    \/ ApplicationsPage(t) \/ MyPostsPage(t) \/ JobDetails(t) \/ ImageManager(t)
    \/ JobPostForm(t) \/ CalendarView(t)

PageStep(t) == Answer(t) /\ Remember
ServerStep(t) == Step(t) /\ UNCHANGED <<tab, marks, clicks>> /\ Remember

Next ==
    \/ \E t \in Tasks : PageStep(t) \/ ServerStep(t) \/ (UserAct(t) /\ Remember)
    \/ (Crash /\ UNCHANGED <<tab, marks, clicks>> /\ Remember)

Spec == Init /\ [][Next]_pageVars
\* The event loops of Node.js and of the browser go on; users need not act.
FairSpec == Spec /\ \A t \in Tasks : WF_pageVars(PageStep(t)) /\ WF_pageVars(ServerStep(t))

-------------------------------------------------------------------------------
\* The type invariant.
PagesTypeOK ==
    /\ \A t \in Tasks : tab[t] \in Tab
    /\ reviewed \in [Tasks -> SUBSET Ids] /\ left \subseteq Ids
    /\ clicks \in Nat

\* An application moves only as the pages mean it to: it is answered or
\* withdrawn while pending and completed when accepted.  Any other move is made
\* from a page that shows another status than the one stored, or was left while
\* its request waited, or by archiving the post, which cancels all its
\* applications.
Moves == {<<"pending", "accepted">>, <<"pending", "rejected">>, <<"pending", "withdrawn">>,
          <<"accepted", "completed">>}
OnlyStalePagesUndo ==
    [][\A a \in Ids : apps[a] # None /\ apps[a]' # None /\ apps[a]'.status # apps[a].status =>
          \/ <<apps[a].status, apps[a]'.status>> \in Moves
          \/ apps[a]'.status = "cancelled"
          \/ \E t \in Tasks : /\ At(t, "saveApp") /\ task[t].app = a
                              /\ tab[t].apps[a] # apps[a].status \/ tab[t].wait = None]_pageVars

\* No table forbids more, yet an employee reviews an application once from each of
\* his browsers, but for a review that is sent again when its answer was lost, or
\* that was on its way when its page was loaded anew.
ReviewedOnce ==
    \A a \in AppIds : \/ reviews[a].applicant <= Cardinality({t \in Tasks : TabUser[t] = apps[a].user})
                      \/ faults > 0 \/ a \in left

\* The pages that look at the answer tell of success only when there is one: the
\* application is there, the image is named by the post, the post is gone,
\* unless a deletion or another writer of the whole row came between.
SuccessIsTrue ==
    [][\A t \in Tasks : LET p == tab[t].post IN
          tab[t].wait # None /\ tab[t]'.toast = "success" =>
            /\ tab[t].wait = "apply" => \/ \E a \in AppsOf(p) : apps[a].user = TabUser[t]
                                        \/ p \in deleted
            /\ tab[t].wait = "upload" => \/ tab[t].target \in bucket /\ Exists(p) /\ tab[t].target \in posts[p].photos
                                         \/ p \in deleted
                                         \/ Met(p, {"upload"}, Images \cup {"complete"})
            /\ tab[t].wait = "delete" => ~Exists(p) \/ Met(p, {"delete"}, Images \cup {"complete"})]_pageVars

\* No route asks whose an event is; yet from the pages the deadline of a post
\* leaves the calendar only when the post is archived or completed.
DeadlineIsKept ==
    [][\A e \in events \ events' : e.type = "deadline" =>
          \E t \in Tasks : At(t, "removeEvents") /\ task[t].kind \in Closing]_pageVars

\* A page that waits for an answer goes on: a request that is refused or fails,
\* or a connection that is lost, ends the wait as well.
PagesGoOn == \A t \in Tasks : tab[t].wait # None ~> tab[t].wait = None
===============================================================================
