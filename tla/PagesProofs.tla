------------------------------ MODULE PagesProofs ------------------------------
(***************************************************************************)
(* Proofs about the web pages of the job board over the board itself, for  *)
(* any tabs, users and posts.  A page asks the board for nothing that      *)
(* Request does not, or is refused, which no request under way can tell:   *)
(* so what BoardProofs and BoardDataProofs prove of the board holds with   *)
(* the pages too.  A tab does not change what it shows while a request of  *)
(* its own runs and has not failed; that is what the properties of the     *)
(* pages rest on.                                                          *)
(***************************************************************************)
EXTENDS Listings, BoardDataProofs, SequenceTheorems, FiniteSetTheorems

-------------------------------------------------------------------------------
(* What a tab holds. *)

ShownApps == [Ids -> Statuses \cup {None}]
Targets == Ids \cup Keys \cup {None}
Toasts == {None, "success", "error"}

Fit(r) ==
    /\ r \in Tab
    /\ r.page = "details" => r.post \in Posts
    /\ r.wait = "upload" => r.target \in Keys
    /\ r.wait = "withdraw" => r.page = "applications"
    /\ r.wait \in {"status", "archive"} => r.page = "details"
    /\ r.page = "myPosts" /\ r.dialog # None => r.dialog.app \in Ids /\ r.apps[r.dialog.app] = r.dialog.status

LEMMA BlankFits ==
    ASSUME NEW page \in Pages, NEW p \in Posts \cup {None}, page = "details" => p \in Posts
    PROVE  /\ Fit(Blank(page, p)) /\ Blank(page, p).wait = None /\ Blank(page, p).dialog = None
           /\ Blank(page, p).page = page /\ Blank(page, p).post = p
  <1> DEFINE r == Blank(page, p)
  <1>1. NoApps \in [Ids -> Statuses \cup {None}]
    BY DEF NoApps
  <1>2. r \in Tab
    BY <1>1 DEF Blank, Tab
  <1>3. r.page = page /\ r.post = p /\ r.wait = None /\ r.dialog = None
    BY DEF Blank
  <1> HIDE DEF r
  <1>4. Fit(r)
    BY <1>2, <1>3, PagesAssumption DEF Fit, Waits
  <1> QED BY <1>3, <1>4 DEF r

LEMMA WaitFits ==
    ASSUME NEW r, Fit(r), NEW wait \in Waits \cup {None}, NEW target \in Targets, NEW toast \in Toasts,
           wait = "upload" => target \in Keys,
           wait = "withdraw" => r.page = "applications",
           wait \in {"status", "archive"} => r.page = "details"
    PROVE  /\ Fit([r EXCEPT !.wait = wait, !.target = target, !.toast = toast])
           /\ Fit([r EXCEPT !.wait = wait, !.target = target])
  <1> DEFINE s == [r EXCEPT !.wait = wait, !.target = target, !.toast = toast]
             q == [r EXCEPT !.wait = wait, !.target = target]
  <1>0. r \in Tab
    BY DEF Fit
  <1>1. s \in Tab /\ q \in Tab
    <2>1. q \in Tab
      BY <1>0 DEF Tab, Targets
    <2>2. s = [q EXCEPT !.toast = toast]
      BY <1>0 DEF Tab
    <2> HIDE DEF q, s
    <2>3. s \in Tab
      BY <2>1, <2>2 DEF Tab, Toasts
    <2> QED BY <2>1, <2>3
  <1>2. /\ s.page = r.page /\ s.post = r.post /\ s.wait = wait /\ s.target = target /\ s.dialog = r.dialog
        /\ s.apps = r.apps
        /\ q.page = r.page /\ q.post = r.post /\ q.wait = wait /\ q.target = target /\ q.dialog = r.dialog
        /\ q.apps = r.apps
    BY <1>0 DEF Tab
  <1> HIDE DEF s, q
  <1>3. Fit(s) /\ Fit(q)
    BY <1>1, <1>2 DEF Fit
  <1> QED BY <1>3 DEF s, q

LEMMA SettleFits == ASSUME NEW r, Fit(r) PROVE Fit([r EXCEPT !.wait = None, !.target = None])
  BY WaitFits, PagesAssumption DEF Waits, Targets, Toasts

LEMMA ToastFits ==
    ASSUME NEW r, Fit(r), NEW toast \in Toasts
    PROVE  /\ Fit([r EXCEPT !.toast = toast]) /\ Fit([r EXCEPT !.toast = toast, !.dialog = None])
           /\ Fit([[r EXCEPT !.toast = toast] EXCEPT !.dialog = None])
           /\ [[r EXCEPT !.toast = toast] EXCEPT !.dialog = None].dialog = None
           /\ [r EXCEPT !.toast = toast].wait = r.wait /\ [r EXCEPT !.toast = toast].target = r.target
           /\ [r EXCEPT !.toast = toast].page = r.page
  <1> DEFINE s == [r EXCEPT !.toast = toast]
             q == [r EXCEPT !.toast = toast, !.dialog = None]
             u == [s EXCEPT !.dialog = None]
  <1>0. r \in Tab
    BY DEF Fit
  <1>1. s \in Tab /\ q \in Tab /\ u \in Tab
    BY <1>0 DEF Tab, Toasts
  <1>2. /\ s.page = r.page /\ s.post = r.post /\ s.wait = r.wait /\ s.target = r.target /\ s.dialog = r.dialog
        /\ s.apps = r.apps
        /\ q.page = r.page /\ q.post = r.post /\ q.wait = r.wait /\ q.target = r.target /\ q.dialog = None
        /\ q.apps = r.apps
        /\ u.page = r.page /\ u.post = r.post /\ u.wait = r.wait /\ u.target = r.target /\ u.dialog = None
        /\ u.apps = r.apps
    BY <1>0 DEF Tab
  <1> HIDE DEF s, q, u
  <1>3. Fit(s) /\ Fit(q) /\ Fit(u)
    BY <1>1, <1>2 DEF Fit
  <1> QED BY <1>2, <1>3 DEF s, q, u

LEMMA AppsFit ==
    ASSUME NEW r, Fit(r), NEW shown \in ShownApps, r.page # "myPosts" \/ r.dialog = None
    PROVE  Fit([r EXCEPT !.apps = shown]) /\ Fit([r EXCEPT !.wait = None, !.target = None, !.apps = shown])
  <1> DEFINE s == [r EXCEPT !.apps = shown]
             q == [r EXCEPT !.wait = None, !.target = None, !.apps = shown]
  <1>0. r \in Tab
    BY DEF Fit
  <1>1. s \in Tab /\ q \in Tab
    BY <1>0 DEF Tab, ShownApps
  <1>2. /\ s.page = r.page /\ s.post = r.post /\ s.wait = r.wait /\ s.target = r.target /\ s.dialog = r.dialog
        /\ q.page = r.page /\ q.post = r.post /\ q.wait = None /\ q.dialog = r.dialog
    BY <1>0 DEF Tab
  <1> HIDE DEF s, q
  <1>3. Fit(s) /\ Fit(q)
    BY <1>1, <1>2, PagesAssumption DEF Fit, Waits
  <1> QED BY <1>3 DEF s, q

\* The fields that Fit says nothing of but their types.
LEMMA FieldsFit ==
    ASSUME NEW r, Fit(r)
    PROVE  /\ \A images \in SUBSET Keys : Fit([r EXCEPT !.images = images])
           /\ \A shown \in SUBSET Event : Fit([r EXCEPT !.events = shown])
           /\ \A e \in Event \cup {None} : Fit([r EXCEPT !.event = e])
           /\ \A listed \in SUBSET Posts : Fit([r EXCEPT !.posts = listed])
           /\ \A has \in BOOLEAN : Fit([r EXCEPT !.hasApplied = has])
           /\ r.page # "details" => \A p \in Posts \cup {None} : Fit([r EXCEPT !.post = p])
           /\ Fit([r EXCEPT !.dialog = None])
  <1>0. r \in Tab
    BY DEF Fit
  <1>1. ASSUME NEW s \in Tab, s.page = r.page, s.post = r.post, s.wait = r.wait, s.target = r.target,
               s.dialog = r.dialog, s.apps = r.apps
        PROVE  Fit(s)
    BY <1>1 DEF Fit
  <1>2. ASSUME NEW images \in SUBSET Keys PROVE Fit([r EXCEPT !.images = images])
    BY <1>0, <1>1 DEF Tab
  <1>3. ASSUME NEW shown \in SUBSET Event PROVE Fit([r EXCEPT !.events = shown])
    BY <1>0, <1>1 DEF Tab
  <1>4. ASSUME NEW e \in Event \cup {None} PROVE Fit([r EXCEPT !.event = e])
    BY <1>0, <1>1 DEF Tab
  <1>5. ASSUME NEW listed \in SUBSET Posts PROVE Fit([r EXCEPT !.posts = listed])
    BY <1>0, <1>1 DEF Tab
  <1>6. ASSUME NEW has \in BOOLEAN PROVE Fit([r EXCEPT !.hasApplied = has])
    BY <1>0, <1>1 DEF Tab
  <1>7. ASSUME r.page # "details", NEW p \in Posts \cup {None} PROVE Fit([r EXCEPT !.post = p])
    <2> DEFINE s == [r EXCEPT !.post = p]
    <2>1. s \in Tab
      BY <1>0 DEF Tab
    <2>2. /\ s.page = r.page /\ s.wait = r.wait /\ s.target = r.target /\ s.dialog = r.dialog
          /\ s.apps = r.apps
      BY <1>0 DEF Tab
    <2> HIDE DEF s
    <2>3. Fit(s)
      BY <1>7, <2>1, <2>2 DEF Fit
    <2> QED BY <2>3 DEF s
  <1>8. Fit([r EXCEPT !.dialog = None])
    <2> DEFINE s == [r EXCEPT !.dialog = None]
    <2>1. s \in Tab
      BY <1>0 DEF Tab
    <2>2. /\ s.page = r.page /\ s.post = r.post /\ s.wait = r.wait /\ s.target = r.target /\ s.dialog = None
      BY <1>0 DEF Tab
    <2> HIDE DEF s
    <2>3. Fit(s)
      BY <2>1, <2>2 DEF Fit
    <2> QED BY <2>3 DEF s
  <1> QED BY <1>2, <1>3, <1>4, <1>5, <1>6, <1>7, <1>8

LEMMA DialogFits ==
    ASSUME NEW r, Fit(r), NEW a \in Ids \cup {None}, NEW status \in Statuses \cup {None},
           r.page = "myPosts" => a \in Ids /\ r.apps[a] = status
    PROVE  Fit([r EXCEPT !.dialog = [app |-> a, status |-> status]])
  <1> DEFINE d == [app |-> a, status |-> status]
             s == [r EXCEPT !.dialog = d]
  <1>0. r \in Tab
    BY DEF Fit
  <1>1. d \in [app : Ids \cup {None}, status : Statuses \cup {None}] /\ d.app = a /\ d.status = status
    OBVIOUS
  <1> HIDE DEF d
  <1>2. s \in Tab
    BY <1>0, <1>1 DEF Tab
  <1>3. /\ s.page = r.page /\ s.post = r.post /\ s.wait = r.wait /\ s.target = r.target /\ s.dialog = d
        /\ s.apps = r.apps
    BY <1>0 DEF Tab
  <1> HIDE DEF s
  <1>4. Fit(s)
    BY <1>1, <1>2, <1>3 DEF Fit
  <1> QED BY <1>4 DEF s, d

-------------------------------------------------------------------------------
(* What a page has read. *)

LEMMA RequestsShown ==
    ASSUME DataOK, NEW t \in Tasks
    PROVE  Requests(t) \in ShownApps /\ NoApps \in ShownApps /\ \A p : OfPost(Requests(t), p) \in ShownApps
  <1>1. Requests(t) \in ShownApps
    <2>1. \A a \in AppIds : apps[a].status \in Statuses /\ a \in Ids
      BY DEF DataOK, AppIds, App
    <2> QED BY <2>1 DEF Requests, ShownApps
  <1>2. NoApps \in ShownApps
    BY DEF NoApps, ShownApps
  <1>3. \A p : OfPost(Requests(t), p) \in ShownApps
    BY <1>1 DEF OfPost, ShownApps
  <1> QED BY <1>1, <1>2, <1>3

LEMMA DetailsFit == ASSUME DataOK, NEW t \in Tasks, NEW p \in Posts PROVE Fit(Details(t, p))
  <1>1. Fit(Blank("broken", p))
    BY BlankFits DEF Pages
  <1>2. Fit(Blank("details", p)) /\ Blank("details", p).dialog = None
    BY BlankFits DEF Pages
  <1>3. Fit([Blank("details", p) EXCEPT !.apps = OfPost(Requests(t), p)])
    BY <1>2, AppsFit, RequestsShown
  <1>4. Fit([Blank("details", p) EXCEPT !.hasApplied = \E a \in Ids : OfPost(Requests(t), p)[a] # None])
    BY <1>2, FieldsFit
  <1> QED BY <1>1, <1>3, <1>4 DEF Details

LEMMA LoadedFits ==
    ASSUME DataOK, NEW t \in Tasks, NEW page \in Pages, NEW p \in Posts \cup {None},
           page = "details" => p \in Posts
    PROVE  Fit(Loaded(t, page, p))
  <1>1. CASE page = "applications"
    <2>1. Fit(Blank(page, None)) /\ Blank(page, None).dialog = None
      BY <1>1, BlankFits
    <2>2. Fit([Blank(page, None) EXCEPT !.apps = Requests(t)])
      BY <2>1, AppsFit, RequestsShown
    <2> QED BY <1>1, <2>2 DEF Loaded
  <1>2. CASE page = "myPosts"
    <2> DEFINE r == Blank(page, None)
               s == [r EXCEPT !.apps = Requests(t)]
               listed == {q \in Posts : Exists(q)}
    <2>1. Fit(r) /\ r.dialog = None
      BY <1>2, BlankFits
    <2>2. Fit(s)
      BY <2>1, AppsFit, RequestsShown
    <2>3. Fit([s EXCEPT !.posts = listed])
      BY <2>2, FieldsFit
    <2>4. [s EXCEPT !.posts = listed] = [r EXCEPT !.apps = Requests(t), !.posts = listed]
      BY DEF Blank
    <2> QED BY <1>2, <2>3, <2>4 DEF Loaded
  <1>3. CASE page = "details"
    BY <1>3, DetailsFit DEF Loaded
  <1>4. CASE page = "calendar"
    <2>1. Fit(Blank(page, None))
      BY <1>4, BlankFits
    <2>2. EventsShown(t) \in SUBSET Event
      BY DEF EventsShown, DataOK
    <2>3. Fit([Blank(page, None) EXCEPT !.events = EventsShown(t)])
      BY <2>1, <2>2, FieldsFit
    <2> QED BY <1>4, <2>3 DEF Loaded
  <1>5. CASE page = "images"
    <2> DEFINE images == IF p # None /\ Exists(p) THEN posts[p].photos ELSE {}
    <2>1. Fit(Blank(page, p))
      BY <1>5, BlankFits
    <2>2. images \in SUBSET Keys
      BY DEF Exists, DataOK, Row
    <2>3. Fit([Blank(page, p) EXCEPT !.images = images])
      BY <2>1, <2>2, FieldsFit
    <2> QED BY <1>5, <2>3 DEF Loaded
  <1>6. CASE page \notin {"applications", "myPosts", "details", "calendar", "images"}
    <2>1. Fit(Blank(page, p))
      BY <1>6, BlankFits
    <2>2. Loaded(t, page, p) = Blank(page, p)
      BY <1>6 DEF Loaded
    <2> QED BY <2>1, <2>2
  <1> QED BY <1>1, <1>2, <1>3, <1>4, <1>5, <1>6

LEMMA NotLoadedFits ==
    ASSUME NEW page \in Pages, NEW p \in Posts \cup {None} PROVE Fit(NotLoaded(page, p))
  BY BlankFits DEF NotLoaded, Pages

\* A page that was just read.
LEMMA ReadIs ==
    ASSUME NEW t, NEW page, NEW p
    PROVE  /\ Loaded(t, page, p).wait = None /\ Loaded(t, page, p).dialog = None /\ Loaded(t, page, p).toast = None
           /\ NotLoaded(page, p).wait = None /\ NotLoaded(page, p).dialog = None /\ NotLoaded(page, p).toast = None
           /\ NotLoaded(page, p).page # "applications" /\ Details(t, p).page # "applications"
           /\ Loaded(t, page, p).page = "applications" =>
                 page = "applications" /\ Loaded(t, page, p).apps = Requests(t)
  <1>1. \A q, r : /\ Blank(q, r).wait = None /\ Blank(q, r).dialog = None /\ Blank(q, r).page = q
                  /\ Blank(q, r).toast = None
    BY DEF Blank
  <1>2. /\ Details(t, p).wait = None /\ Details(t, p).dialog = None /\ Details(t, p).page \in {"broken", "details"}
        /\ Details(t, p).toast = None
    BY <1>1 DEF Details, Blank
  <1>3. /\ NotLoaded(page, p).wait = None /\ NotLoaded(page, p).dialog = None /\ NotLoaded(page, p).toast = None
        /\ NotLoaded(page, p).page # "applications"
    BY <1>1 DEF NotLoaded
  <1>4. /\ Loaded(t, page, p).wait = None /\ Loaded(t, page, p).dialog = None /\ Loaded(t, page, p).toast = None
        /\ Loaded(t, page, p).page = "applications" =>
              page = "applications" /\ Loaded(t, page, p).apps = Requests(t)
    <2>1. CASE page = "details"
      BY <1>2, <2>1 DEF Loaded
    <2>2. CASE page = "applications"
      BY <2>2 DEF Loaded, Blank
    <2>3. CASE page = "myPosts" \/ page = "calendar" \/ page = "images"
      BY <2>3 DEF Loaded, Blank
    <2>4. CASE page \notin {"details", "applications", "myPosts", "calendar", "images"}
      BY <1>1, <2>4 DEF Loaded
    <2> QED BY <2>1, <2>2, <2>3, <2>4
  <1> QED BY <1>1, <1>2, <1>3, <1>4

-------------------------------------------------------------------------------
(* What a page shows next. *)

TabsOK == tab \in [Tasks -> Tab] /\ \A t \in Tasks : Fit(tab[t])
Shows(t) == \E new : Fit(new) /\ Show(t, new)

LEMMA SettleShows ==
    ASSUME NEW t, NEW new, Fit(new), Settle(t, new) PROVE Shows(t)
  BY SettleFits DEF Settle, Shows

LEMMA RefreshShows ==
    ASSUME DataOK, TabsOK, NEW t \in Tasks, NEW new, Fit(new), new.page # "myPosts" \/ new.dialog = None,
           Refresh(t, new)
    PROVE  Shows(t)
  <1>1. Fit([new EXCEPT !.wait = None, !.target = None, !.apps = Requests(t)])
    BY AppsFit, RequestsShown
  <1>2. Fit([new EXCEPT !.wait = None, !.target = None, !.apps = NoApps])
    BY AppsFit, RequestsShown
  <1>3. Fit(Blank("broken", None))
    BY BlankFits DEF Pages
  <1> QED BY <1>1, <1>2, <1>3 DEF Refresh, Shows

LEMMA SendShows ==
    ASSUME TabsOK, NEW t \in Tasks, NEW wait \in Waits, NEW target \in Targets,
           wait = "upload" => target \in Keys,
           wait = "withdraw" => tab[t].page = "applications",
           wait \in {"status", "archive"} => tab[t].page = "details",
           Send(t, wait, target)
    PROVE  Shows(t)
  <1>1. Fit(tab[t]) /\ None \in Toasts
    BY DEF TabsOK, Toasts
  <1>2. Fit([tab[t] EXCEPT !.wait = wait, !.target = target, !.toast = None])
    BY <1>1, WaitFits
  <1> QED BY <1>2 DEF Send, Shows

LEMMA AnswerShows ==
    ASSUME DataOK, TabsOK, NEW t \in Tasks, Answer(t) PROVE Shows(t)
  <1> DEFINE r == tab[t]
  <1>0. /\ Fit(r) /\ r \in Tab
        /\ \A toast \in {None, "success", "error"} :
              /\ Fit(Toasted(t, toast)) /\ Fit(DialogClosed(t, toast)) /\ DialogClosed(t, toast).dialog = None
    <2>1. Fit(r) /\ r \in Tab
      BY DEF TabsOK
    <2>2. ASSUME NEW toast \in {None, "success", "error"}
          PROVE  Fit(Toasted(t, toast)) /\ Fit(DialogClosed(t, toast)) /\ DialogClosed(t, toast).dialog = None
      <3>1. toast \in Toasts
        BY DEF Toasts
      <3> QED BY <2>1, <3>1, ToastFits DEF Toasted, DialogClosed
    <2> QED BY <2>1, <2>2
  <1>1. CASE WithdrawAnswered(t)
    BY <1>0, <1>1, SettleShows, RefreshShows DEF WithdrawAnswered, Returned, Fit
  <1>2. CASE ReviewAnswered(t)
    BY <1>0, <1>2, SettleShows DEF ReviewAnswered
  <1>3. CASE ReviewFollows(t)
    <2>1. r.target \in Targets
      BY <1>0 DEF Tab, Targets
    <2>2. [r EXCEPT !.wait = "reviewAfter"] = [r EXCEPT !.wait = "reviewAfter", !.target = r.target]
      BY <1>0 DEF Tab
    <2>3. None \in Toasts /\ "reviewAfter" \in Waits \cup {None}
      BY DEF Toasts, Waits
    <2>4. Fit([r EXCEPT !.wait = "reviewAfter", !.target = r.target])
      BY <1>0, <2>1, <2>3, WaitFits
    <2>5. Fit([r EXCEPT !.wait = "reviewAfter"])
      BY <2>2, <2>4
    <2> QED BY <1>3, <2>5 DEF ReviewFollows, Shows
  <1>4. CASE ResponseAnswered(t)
    BY <1>0, <1>4, SettleShows, RefreshShows DEF ResponseAnswered
  <1>5. CASE ArchiveAnswered(t)
    <2>1. r.post \in Posts
      BY <1>0, <1>5 DEF ArchiveAnswered, Returned, Fit
    <2> QED BY <1>5, <2>1, DetailsFit, SettleShows DEF ArchiveAnswered
  <1>6. CASE ApplyAnswered(t)
    BY <1>0, <1>6, SettleShows DEF ApplyAnswered
  <1>7. CASE StatusAnswered(t)
    BY <1>0, <1>7, SettleShows, RefreshShows DEF StatusAnswered, Returned, Fit
  <1>8. CASE DeleteAnswered(t)
    <2>1. Fit([Loaded(t, "myPosts", None) EXCEPT !.toast = "success"])
      BY LoadedFits, ToastFits DEF Pages, Toasts
    <2> QED BY <1>0, <1>8, <2>1, SettleShows DEF DeleteAnswered
  <1>9. CASE UploadAnswered(t)
    <2> DEFINE u == Toasted(t, "success")
    <2>1. r.target \in Keys
      BY <1>0, <1>9 DEF UploadAnswered, Returned, Fit
    <2>2. Fit(u) /\ u.images \in SUBSET Keys
      BY <1>0 DEF Fit, Tab
    <2>3. Fit([u EXCEPT !.images = u.images \cup {r.target}])
      BY <2>1, <2>2, FieldsFit
    <2> QED BY <1>0, <1>9, <2>3, SettleShows DEF UploadAnswered
  <1>10. CASE CreateAnswered(t)
    <2>1. Fit([Loaded(t, "images", r.post) EXCEPT !.toast = "success"])
      <3>1. r.post \in Posts \cup {None}
        BY <1>0 DEF Tab
      <3> QED BY <3>1, LoadedFits, ToastFits DEF Pages, Toasts
    <2>2. Fit([Blank("images", None) EXCEPT !.toast = "error"])
      BY BlankFits, ToastFits DEF Pages, Toasts
    <2> QED BY <1>0, <1>10, <2>1, <2>2, SettleShows DEF CreateAnswered
  <1>11. CASE EventAnswered(t)
    <2> DEFINE u == DialogClosed(t, "success")
               new == [u EXCEPT !.event = None, !.wait = None, !.target = None]
    <2>1. Fit(new)
      <3>1. Fit([u EXCEPT !.event = None])
        BY <1>0, FieldsFit
      <3>2. Fit([[u EXCEPT !.event = None] EXCEPT !.wait = None, !.target = None])
        BY <3>1, SettleFits
      <3>3. [[u EXCEPT !.event = None] EXCEPT !.wait = None, !.target = None] = new
        OBVIOUS
      <3> QED BY <3>2, <3>3
    <2>2. EventsShown(t) \in SUBSET Event
      BY DEF EventsShown, DataOK
    <2>3. /\ Fit([new EXCEPT !.events = EventsShown(t)]) /\ Fit([new EXCEPT !.events = {}])
          /\ Fit([new EXCEPT !.toast = "error"])
      <3> HIDE DEF new
      <3> QED BY <2>1, <2>2, FieldsFit, ToastFits DEF Toasts
    <2>4. Fit(Toasted(t, "error"))
      BY <1>0
    <2>5. \/ Settle(t, Toasted(t, "error"))
          \/ Settle(t, [new EXCEPT !.events = EventsShown(t)])
          \/ Show(t, [new EXCEPT !.events = {}])
          \/ Show(t, [new EXCEPT !.toast = "error"])
      BY <1>11 DEF EventAnswered
    <2> HIDE DEF new
    <2> QED BY <2>3, <2>4, <2>5, SettleShows DEF Shows
  <1> QED
    BY <1>1, <1>2, <1>3, <1>4, <1>5, <1>6, <1>7, <1>8, <1>9, <1>10, <1>11 DEF Answer

LEMMA PageShows ==
    ASSUME DataOK, TabsOK, NEW t \in Tasks,
           \/ \E page \in Offered(t), p \in Posts : OpenPage(t, page, p) \/ OpenFails(t, page, p)
           \/ CloseDialog(t) \/ JobPostForm(t) \/ ImageManager(t)
    PROVE  Shows(t)
  <1> DEFINE r == tab[t]
  <1>0. /\ Fit(r) /\ r \in Tab
        /\ \A toast \in Toasts : Fit(Toasted(t, toast))
    BY ToastFits DEF TabsOK, Toasted
  <1>1. ASSUME NEW page \in Offered(t), NEW p \in Posts, OpenPage(t, page, p) \/ OpenFails(t, page, p)
        PROVE  Shows(t)
    <2>1. page \in Pages
      BY DEF Offered, Pages
    <2>2. Fit(Loaded(t, page, p)) /\ Fit(NotLoaded(page, p))
      BY <2>1, LoadedFits, NotLoadedFits
    <2> QED BY <1>1, <2>2 DEF OpenPage, OpenFails, Shows
  <1>2. CASE CloseDialog(t)
    <2>1. Fit([r EXCEPT !.dialog = None]) /\ Fit([r EXCEPT !.event = None])
      BY <1>0, FieldsFit
    <2> QED BY <1>2, <2>1 DEF CloseDialog, Shows
  <1>3. ASSUME NEW p \in Posts, SubmitPost(t, p) PROVE Shows(t)
    <2>1. Fit([r EXCEPT !.post = p])
      BY <1>0, <1>3, FieldsFit DEF SubmitPost
    <2>2. [r EXCEPT !.post = p] \in Tab /\ [r EXCEPT !.post = p].target = r.target
      BY <1>0, <2>1 DEF Tab, Fit
    <2>3. r.target \in Targets /\ None \in Toasts /\ "create" \in Waits
      BY <1>0 DEF Tab, Targets, Toasts, Waits
    <2>4. Fit([[r EXCEPT !.post = p] EXCEPT !.wait = "create", !.target = r.target, !.toast = None])
      <3> DEFINE u == [r EXCEPT !.post = p]
      <3> HIDE DEF u
      <3> QED BY <2>1, <2>3, WaitFits DEF u
    <2>5. [[r EXCEPT !.post = p] EXCEPT !.wait = "create", !.target = r.target, !.toast = None]
              = [r EXCEPT !.wait = "create", !.post = p, !.toast = None]
      BY <1>0 DEF Tab
    <2>6. Fit([r EXCEPT !.wait = "create", !.post = p, !.toast = None])
      BY <2>4, <2>5
    <2>7. Show(t, [r EXCEPT !.wait = "create", !.post = p, !.toast = None])
      BY <1>3 DEF SubmitPost
    <2> QED BY <2>6, <2>7 DEF Shows
  <1>4. ASSUME NEW p \in Posts, SubmitEdit(t, p) PROVE Shows(t)
    <2>1. Fit([Details(t, p) EXCEPT !.toast = "error"])
      BY DetailsFit, ToastFits DEF Toasts
    <2> QED BY <1>4, <2>1 DEF SubmitEdit, Shows
  <1>5. ASSUME NEW k \in Keys, HandleUpload(t, k) PROVE Shows(t)
    <2>1. Send(t, "upload", k) /\ "upload" \in Waits /\ k \in Targets
      BY <1>5 DEF HandleUpload, Waits, Targets
    <2> QED BY <2>1, SendShows
  <1>6. ASSUME NEW k \in Keys, HandleDeleteImage(t, k) PROVE Shows(t)
    <2> DEFINE u == Toasted(t, "success")
    <2>1. Fit(u) /\ u.images \in SUBSET Keys
      BY <1>0 DEF Fit, Tab, Toasts
    <2>2. Fit([u EXCEPT !.images = u.images \ {k}])
      BY <2>1, FieldsFit
    <2>3. Show(t, [u EXCEPT !.images = u.images \ {k}])
      BY <1>6 DEF HandleDeleteImage
    <2> QED BY <2>2, <2>3 DEF Shows
  <1> QED BY <1>1, <1>2, <1>3, <1>4, <1>5, <1>6 DEF JobPostForm, ImageManager

LEMMA DialogShows ==
    ASSUME DataOK, TabsOK, NEW t \in Tasks, ApplicationsPage(t) \/ MyPostsPage(t) PROVE Shows(t)
  <1> DEFINE r == tab[t]
  <1>0. Fit(r) /\ r \in Tab
    BY DEF TabsOK
  <1>w. {"withdraw", "review", "respond", "complete"} \subseteq Waits /\ Ids \subseteq Targets /\ None \in Targets
    BY DEF Waits, Targets
  <1>d. r.dialog # None => r.dialog.app \in Ids \cup {None}
    BY <1>0 DEF Tab
  <1>1. ASSUME NEW a \in Ids, HandleWithdraw(t, a) PROVE Shows(t)
    BY <1>1, <1>w, SendShows DEF HandleWithdraw, CanWithdraw
  <1>2. ASSUME NEW a \in Ids, HandleReview(t, a) PROVE Shows(t)
    <2>1. r.page # "myPosts" /\ "completed" \in Statuses
      BY <1>2 DEF HandleReview, CanReview, Statuses
    <2>2. Fit([r EXCEPT !.dialog = [app |-> a, status |-> "completed"]])
      BY <1>0, <2>1, DialogFits
    <2> QED BY <1>2, <2>2 DEF HandleReview, Shows
  <1>3. CASE SubmitReview(t)
    <2>1. Send(t, "review", r.dialog.app) /\ r.dialog.app \in Targets /\ "review" \in Waits
      BY <1>3, <1>w, <1>d DEF SubmitReview
    <2> QED BY <2>1, SendShows
  <1>4. ASSUME NEW a \in Ids, OnRespond(t, a) PROVE Shows(t)
    <2>1. r.apps[a] \in Statuses \cup {None}
      BY <1>0 DEF Tab
    <2>2. Fit([r EXCEPT !.dialog = [app |-> a, status |-> r.apps[a]]])
      BY <1>0, <2>1, DialogFits
    <2> QED BY <1>4, <2>2 DEF OnRespond, Shows
  <1>5. ASSUME NEW status, SubmitResponse(t, status) PROVE Shows(t)
    <2>1. Send(t, "respond", r.dialog.app) /\ r.dialog.app \in Targets /\ "respond" \in Waits
      BY <1>5, <1>w, <1>d DEF SubmitResponse
    <2> QED BY <2>1, SendShows
  <1>6. CASE SubmitComplete(t)
    <2>1. Send(t, "complete", r.dialog.app) /\ r.dialog.app \in Targets /\ "complete" \in Waits
      BY <1>6, <1>w, <1>d DEF SubmitComplete
    <2> QED BY <2>1, SendShows
  <1>7. ASSUME NEW p \in Posts, ArchiveClicked(t, p) PROVE Shows(t)
    <2> DEFINE b == Blank("details", p)
    <2>1. Fit(b) /\ b.page = "details" /\ b.target = None
      BY BlankFits DEF Pages, Blank
    <2>2. "archive" \in Waits /\ None \in Targets /\ None \in Toasts
      BY DEF Waits, Targets, Toasts
    <2>3. [b EXCEPT !.wait = "archive", !.target = None] = [b EXCEPT !.wait = "archive"]
      <3> HIDE DEF b
      <3> QED BY <2>1 DEF Fit, Tab
    <2>4. Fit([b EXCEPT !.wait = "archive", !.target = None])
      <3> HIDE DEF b
      <3> QED BY <2>1, <2>2, WaitFits
    <2>5. Fit([b EXCEPT !.wait = "archive"])
      BY <2>3, <2>4
    <2> QED BY <1>7, <2>5 DEF ArchiveClicked, Shows
  <1> QED BY <1>1, <1>2, <1>3, <1>4, <1>5, <1>6, <1>7 DEF ApplicationsPage, MyPostsPage

LEMMA DetailsShows ==
    ASSUME DataOK, TabsOK, NEW t \in Tasks, JobDetails(t) \/ CalendarView(t) PROVE Shows(t)
  <1> DEFINE r == tab[t]
  <1>0. Fit(r) /\ r \in Tab
    BY DEF TabsOK
  <1>w. /\ {"apply", "delete", "status", "addEvent", "removeEvent"} \subseteq Waits
        /\ Ids \subseteq Targets /\ None \in Targets
    BY DEF Waits, Targets
  <1>d. r.page # "myPosts" => Fit([r EXCEPT !.dialog = [app |-> None, status |-> None]])
    BY <1>0, DialogFits
  <1>1. CASE OpenApply(t)
    BY <1>1, <1>d DEF OpenApply, CanApply, Shows
  <1>2. CASE SubmitApply(t) \/ HandleDelete(t) \/ SubmitEvent(t)
    <2>1. Send(t, "apply", None) \/ Send(t, "delete", None) \/ Send(t, "addEvent", None)
      BY <1>2 DEF SubmitApply, HandleDelete, SubmitEvent
    <2> QED BY <2>1, <1>w, SendShows
  <1>3. ASSUME NEW a \in Ids, NEW approve, ConfirmStatus(t, a, approve) PROVE Shows(t)
    <2>1. Send(t, "status", a) /\ r.page = "details" /\ "status" \in Waits /\ a \in Targets
      BY <1>3, <1>w DEF ConfirmStatus, CanAnswer
    <2> QED BY <2>1, SendShows
  <1>4. ASSUME NEW e \in r.events, HandleEventClick(t, e) PROVE Shows(t)
    <2>1. e \in Event
      BY <1>0 DEF Tab
    <2>2. Fit([r EXCEPT !.event = e])
      BY <1>0, <2>1, FieldsFit
    <2> QED BY <1>4, <2>2 DEF HandleEventClick, Shows
  <1>5. CASE HandleCreateEvent(t) \/ HandleEdit(t)
    BY <1>5, <1>d DEF HandleCreateEvent, HandleEdit, Shows
  <1>6. CASE HandleDeleteEvent(t)
    <2>1. r.event \in Event
      BY <1>0, <1>6 DEF HandleDeleteEvent, CanChange, Tab
    <2>2. Send(t, "removeEvent", r.event.id) /\ r.event.id \in Targets /\ "removeEvent" \in Waits
      BY <1>6, <1>w, <2>1 DEF HandleDeleteEvent, Event
    <2> QED BY <2>2, SendShows
  <1> QED BY <1>1, <1>2, <1>3, <1>4, <1>5, <1>6 DEF JobDetails, CalendarView

LEMMA UserShows == ASSUME DataOK, TabsOK, NEW t \in Tasks, UserAct(t) PROVE Shows(t)
  BY PageShows, DialogShows, DetailsShows DEF UserAct

LEMMA ShowsFit == ASSUME TabsOK, NEW t \in Tasks, Shows(t) PROVE TabsOK' /\ \A u \in Tasks \ {t} : tab'[u] = tab[u]
  <1>1. PICK new : Fit(new) /\ tab' = [tab EXCEPT ![t] = new]
    BY DEF Shows, Show
  <1>2. new \in Tab
    BY <1>1 DEF Fit
  <1>3. tab' \in [Tasks -> Tab]
    BY <1>1, <1>2 DEF TabsOK
  <1>4. \A u \in Tasks : tab'[u] = IF u = t THEN new ELSE tab[u]
    BY <1>1 DEF TabsOK
  <1>5. \A u \in Tasks : Fit(tab'[u])
    BY <1>1, <1>4 DEF TabsOK
  <1>6. TabsOK'
    BY <1>3, <1>5 DEF TabsOK, Fit
  <1> QED BY <1>4, <1>6

-------------------------------------------------------------------------------
(* What a page asks of the board. *)

\* A tab changes only when no request of its own runs, or that has failed; or its
\* page is left, and the next one waits for nothing.
Free(t) == ~Running(t) \/ Failed(t)

\* A page leaves the board as it is, but for its faults, or is refused a request,
\* or has it taken.  An answer to an application is asked for by a page that shows
\* it as what it is to be changed from, a removal for an event that users add.
Leaves(t) == /\ UNCHANGED <<tables, index, bucket, task>>
             /\ Fault \/ UNCHANGED <<calls, faults>> \/ (NextSearch /\ UNCHANGED faults)
Denied(t) == ~Running(t) /\ \E kind \in Kinds, p \in Posts \cup {None} : Refused(t, kind, p)
AsksOther(t) ==
    \/ \E p \in Posts : Create(t, p) \/ Archive(t, p) \/ Delete(t, p)
    \/ \E p \in Posts, u \in Applicants : Apply(t, p, u)
    \/ \E p \in Posts, k \in Keys : Upload(t, p, {k})
    \/ \E a \in AppIds, side \in {"applicant", "employer"} : Review(t, a, side)
    \/ AddEvent(t, "addEvent")
AsksAnswer(t) ==
    \E a \in AppIds :
        \/ Withdraw(t, a) /\ tab'[t].apps[a] = "pending"
        \/ \E status \in {"pending", "accepted", "rejected"} : Respond(t, a, status) /\ tab'[t].apps[a] = "pending"
        \/ Complete(t, a) /\ tab'[t].apps[a] = "accepted"
AsksRemoval(t) == \E e \in events : e.type = "custom" /\ RemoveEvent(t, e)
Asks(t) == AsksOther(t) \/ AsksAnswer(t) \/ AsksRemoval(t)
LeavesPage(t) == Leaves(t) /\ tab'[t].wait = None
Acts(t) == Shows(t) /\ (LeavesPage(t) \/ (Free(t) /\ (Leaves(t) \/ Denied(t) \/ Asks(t))))

LEMMA AnswerActs == ASSUME DataOK, TabsOK, NEW t \in Tasks, Answer(t) PROVE Acts(t)
  <1>1. Shows(t)
    BY AnswerShows
  <1>2. Free(t)
    <2>1. \A wait : Returned(t, wait) => Free(t)
      BY DEF Returned, Free, Lost, Running
    <2> QED BY <2>1 DEF Answer, WithdrawAnswered, ReviewAnswered, ReviewFollows, ResponseAnswered, ArchiveAnswered,
                        ApplyAnswered, StatusAnswered, DeleteAnswered, UploadAnswered, CreateAnswered, EventAnswered
  <1>3. CASE ReviewFollows(t)
    <2>1. CASE tab[t].target \in AppIds
      BY <1>3, <2>1, <1>1, <1>2 DEF ReviewFollows, SendReview, Acts, Asks, AsksOther
    <2>2. CASE tab[t].target \notin AppIds
      BY <1>3, <2>2, <1>1, <1>2 DEF ReviewFollows, SendReview, Acts, Denied, Kinds
    <2> QED BY <2>1, <2>2
  <1>4. CASE ~ReviewFollows(t)
    <2>1. \A new : Settle(t, new) => Leaves(t)
      BY DEF Settle, Quietly, Leaves, boardVars
    <2>2. \A new : Refresh(t, new) => Leaves(t)
      BY DEF Refresh, Quietly, Leaves, boardVars
    <2>3. EventAnswered(t) => Leaves(t)
      BY <2>1 DEF EventAnswered, Leaves
    <2>4. Leaves(t)
      BY <1>4, <2>1, <2>2, <2>3
         DEF Answer, WithdrawAnswered, ReviewAnswered, ResponseAnswered, ArchiveAnswered, ApplyAnswered, StatusAnswered,
             DeleteAnswered, UploadAnswered, CreateAnswered
    <2> QED BY <1>1, <1>2, <2>4 DEF Acts
  <1> QED BY <1>3, <1>4

\* What a page shows when it has sent a request.
LEMMA SendKeeps ==
    ASSUME TabsOK, NEW t \in Tasks, NEW wait, NEW target, Send(t, wait, target)
    PROVE  ~Running(t) /\ tab'[t].apps = tab[t].apps
  <1>1. tab' = [tab EXCEPT ![t] = [tab[t] EXCEPT !.wait = wait, !.target = target, !.toast = None]]
    BY DEF Send, Show
  <1>2. tab'[t] = [tab[t] EXCEPT !.wait = wait, !.target = target, !.toast = None]
    BY <1>1 DEF TabsOK
  <1>3. tab[t] \in Tab
    BY DEF TabsOK
  <1> QED BY <1>2, <1>3 DEF Send, Idle, Tab

LEMMA UserAsks ==
    ASSUME DataOK, TabsOK, NEW t \in Tasks, UserAct(t)
    PROVE  LeavesPage(t) \/ (~Running(t) /\ (Leaves(t) \/ Denied(t) \/ Asks(t)))
  <1> DEFINE r == tab[t]
  <1>0. /\ Fit(r) /\ r \in Tab
        /\ \A p : p = None \/ p \in Posts => p \in Posts \cup {None}
    BY DEF TabsOK
  <1>k. {"withdraw", "review", "respond", "complete", "archive", "apply", "delete", "upload", "addEvent",
         "removeEvent"} \subseteq Kinds
    BY DEF Kinds
  <1>s. \A wait, target : Send(t, wait, target) => ~Running(t) /\ tab'[t].apps = r.apps
    BY SendKeeps
  <1>i. Idle(t) => ~Running(t)
    BY DEF Idle
  <1>p. ASSUME NEW page \in Offered(t), NEW p \in Posts, OpenPage(t, page, p) \/ OpenFails(t, page, p)
        PROVE  LeavesPage(t)
    <2>1. PICK new \in {Loaded(t, page, p), NotLoaded(page, p)} : Show(t, new)
      BY <1>p DEF OpenPage, OpenFails
    <2>2. tab'[t].wait = None
      BY <2>1, ReadIs DEF Show, TabsOK
    <2> QED BY <1>p, <2>2 DEF OpenPage, OpenFails, LeavesPage, Leaves, boardVars
  <1>1. ASSUME \/ CloseDialog(t) \/ OpenApply(t) \/ HandleCreateEvent(t) \/ HandleEdit(t)
               \/ \E a \in Ids : HandleReview(t, a) \/ OnRespond(t, a)
               \/ \E k \in Keys : HandleDeleteImage(t, k)
               \/ \E p \in Posts : SubmitEdit(t, p)
               \/ \E e \in r.events : HandleEventClick(t, e)
        PROVE  ~Running(t) /\ Leaves(t)
    BY <1>1, <1>i DEF CloseDialog, OpenApply, HandleCreateEvent, HandleEdit, HandleReview, OnRespond,
                      HandleDeleteImage, SubmitEdit, HandleEventClick, Leaves, Quietly, boardVars
  <1>2. ASSUME NEW a \in Ids, HandleWithdraw(t, a) PROVE ~Running(t) /\ (Denied(t) \/ AsksAnswer(t))
    BY <1>2, <1>s, <1>k DEF HandleWithdraw, CanWithdraw, Denied, AsksAnswer
  <1>3. ASSUME SubmitReview(t) PROVE ~Running(t) /\ (Denied(t) \/ AsksOther(t))
    BY <1>3, <1>s, <1>k DEF SubmitReview, SendReview, Denied, AsksOther
  <1>4. ASSUME NEW status \in {"pending", "accepted", "rejected"}, SubmitResponse(t, status)
        PROVE  ~Running(t) /\ (Denied(t) \/ AsksAnswer(t))
    BY <1>0, <1>4, <1>s, <1>k DEF SubmitResponse, Denied, AsksAnswer, Fit
  <1>5. ASSUME SubmitComplete(t) PROVE ~Running(t) /\ (Denied(t) \/ AsksAnswer(t))
    BY <1>0, <1>5, <1>s, <1>k DEF SubmitComplete, Denied, AsksAnswer, Fit
  <1>6. ASSUME NEW p \in Posts, ArchiveClicked(t, p) PROVE ~Running(t) /\ (Denied(t) \/ AsksOther(t))
    BY <1>6, <1>i, <1>k DEF ArchiveClicked, Denied, AsksOther
  <1>7. ASSUME SubmitApply(t) PROVE ~Running(t) /\ (Denied(t) \/ AsksOther(t))
    <2>1. r.post \in Posts /\ TabUser[t] \in Applicants
      BY <1>0, <1>7, PagesAssumption DEF SubmitApply, Fit, IsEmployer
    <2> QED BY <1>7, <1>s, <1>k, <2>1 DEF SubmitApply, Denied, AsksOther
  <1>8. ASSUME HandleDelete(t) PROVE ~Running(t) /\ (Denied(t) \/ AsksOther(t))
    <2>1. r.post \in Posts
      BY <1>0, <1>8 DEF HandleDelete, Fit
    <2> QED BY <1>8, <1>s, <1>k, <2>1 DEF HandleDelete, Denied, AsksOther
  <1>9. ASSUME NEW a \in Ids, NEW approve, ConfirmStatus(t, a, approve)
        PROVE  ~Running(t) /\ (Denied(t) \/ AsksAnswer(t))
    <2>1. r.post \in Posts /\ r.apps[a] = "pending" /\ Send(t, "status", a)
      BY <1>0, <1>9 DEF ConfirmStatus, CanAnswer, Fit
    <2> QED BY <1>9, <1>s, <1>k, <2>1 DEF ConfirmStatus, Denied, AsksAnswer
  <1>10. ASSUME NEW k \in Keys, HandleUpload(t, k) PROVE ~Running(t) /\ (Denied(t) \/ AsksOther(t))
    <2>1. r.post \in Posts \cup {None} /\ Send(t, "upload", k)
      BY <1>0, <1>10 DEF HandleUpload, Tab
    <2> QED BY <1>10, <1>s, <1>k, <2>1 DEF HandleUpload, Denied, AsksOther
  <1>11. ASSUME NEW p \in Posts, SubmitPost(t, p) PROVE ~Running(t) /\ AsksOther(t)
    BY <1>11, <1>i DEF SubmitPost, AsksOther
  <1>12. ASSUME SubmitEvent(t) PROVE ~Running(t) /\ (Denied(t) \/ AsksOther(t))
    BY <1>12, <1>s, <1>k DEF SubmitEvent, Denied, AsksOther
  <1>13. ASSUME HandleDeleteEvent(t) PROVE ~Running(t) /\ (Denied(t) \/ AsksRemoval(t))
    BY <1>13, <1>s, <1>k DEF HandleDeleteEvent, CanChange, Denied, AsksRemoval
  <1> QED
    BY <1>p, <1>1, <1>2, <1>3, <1>4, <1>5, <1>6, <1>7, <1>8, <1>9, <1>10, <1>11, <1>12, <1>13
       DEF UserAct, ApplicationsPage, MyPostsPage, JobDetails, ImageManager, JobPostForm, CalendarView, Asks

LEMMA UserActs == ASSUME DataOK, TabsOK, NEW t \in Tasks, UserAct(t) PROVE Acts(t)
  BY UserAsks, UserShows DEF Acts, Free

\* What a page asks for is one of the requests of the board.
LEMMA AsksRequest == ASSUME NEW t \in Tasks, Asks(t) PROVE Request(t)
  <1>1. ASSUME AsksOther(t) PROVE Request(t)
    <2>1. \A k \in Keys : {k} \in SUBSET Keys
      OBVIOUS
    <2>2. AddEvent(t, "addEvent") => Request(t)
      BY DEF Request
    <2> QED BY <1>1, <2>1, <2>2 DEF AsksOther, Request, PostRequest, AppRequest
  <1>2. ASSUME AsksAnswer(t) PROVE Request(t)
    BY <1>2 DEF AsksAnswer, Request, AppRequest, Statuses
  <1>3. ASSUME AsksRemoval(t) PROVE Request(t)
    BY <1>3 DEF AsksRemoval, Request
  <1> QED BY <1>1, <1>2, <1>3 DEF Asks

-------------------------------------------------------------------------------
(* What no request that is under way can tell. *)

Unseen ==
    /\ UNCHANGED <<tables, index, bucket>>
    /\ CallsOK' /\ faults' \in {faults, faults + 1}
    /\ TasksOK'
    /\ \A t \in Tasks : (Running(t)' <=> Running(t)) /\ (Running(t) => task'[t] = task[t])
    /\ Remember

LEMMA UnseenMet ==
    ASSUME TypeInv, Unseen
    PROVE  /\ TypeInv'
           /\ \A p \in Posts : met[p] \subseteq met'[p]
           /\ \A p \in Posts : \A kinds, others : Met(p, kinds, others) => Met(p, kinds, others)'
           /\ \A p \in Posts : LostUpdate(p) => LostUpdate(p)'
           /\ \A p \in Posts : Clean(p)' => Clean(p)
  <1>1. \A p \in Posts : met[p] \subseteq met'[p]
    BY DEF Unseen, Remember
  <1>2. \A p \in Posts : \A kinds, others : Met(p, kinds, others) => Met(p, kinds, others)'
    BY <1>1 DEF Met
  <1>3. MetOK'
    BY MetStaysOK DEF Unseen
  <1>4. DataOK'
    BY DEF Unseen, tables, TypeInv, DataOK
  <1>5. \A p \in Posts : LostUpdate(p) => LostUpdate(p)'
    BY <1>2 DEF LostUpdate
  <1>6. \A p \in Posts : Clean(p)' => Clean(p)
    BY <1>2, <1>5 DEF Clean
  <1> QED BY <1>1, <1>2, <1>3, <1>4, <1>5, <1>6 DEF TypeInv, Unseen

\* What is the same for a request that is under way.
LEMMA UnseenTask ==
    ASSUME TypeInv, Unseen, NEW t \in Tasks
    PROVE  /\ Running(t)' <=> Running(t)
           /\ Running(t) => task'[t] = task[t]
           /\ \A s : At(t, s)' <=> At(t, s)
           /\ \A s : At(t, s) => Running(t)
           /\ \A p \in Posts : On(t, p)' <=> On(t, p)
           /\ Running(t) /\ task[t].kind # "reindex" => task[t].post \in Posts
  <1>1. (Running(t)' <=> Running(t)) /\ (Running(t) => task'[t] = task[t])
    BY DEF Unseen
  <1>2. \A s : (At(t, s) => Running(t)) /\ (At(t, s)' => Running(t)')
    BY DEF At, Running
  <1>3. \A s : At(t, s)' <=> At(t, s)
    BY <1>1, <1>2 DEF At, Running
  <1>4. Running(t) /\ task[t].kind # "reindex" => task[t].post \in Posts
    BY StepKinds DEF Post
  <1> QED BY <1>1, <1>2, <1>3, <1>4 DEF On

LEMMA UnseenBoard == ASSUME BoardInv, Unseen PROVE BoardInv'
  <1> USE DEF BoardInv
  <1>d. /\ posts' = posts /\ deleted' = deleted /\ apps' = apps /\ saved' = saved
        /\ \A p : (Exists(p)' <=> Exists(p)) /\ (IsLive(p)' <=> IsLive(p)) /\ (IsClosed(p)' <=> IsClosed(p))
        /\ AppIds' = AppIds /\ \A p : AppsOf(p)' = AppsOf(p)
        /\ \A p, u : SavedOf(p, u)' = SavedOf(p, u)
    BY DEF Unseen, tables, Exists, IsLive, IsClosed, AppIds, AppsOf, SavedOf
  <1>w. /\ \A t \in Tasks : \A s : At(t, s) => task[t] \in Task /\ Sound(task[t]) /\ Running(t)
        /\ \A t \in Tasks : Running(t) /\ task[t].kind \in Writers \cup Answers => task[t].post \in Posts
    <2>1. \A t \in Tasks : \A s : At(t, s) => task[t] \in Task /\ Sound(task[t]) /\ Running(t)
      BY AtTask DEF TypeInv
    <2> QED BY <2>1, UnseenTask DEF Writers, Answers, Images
  <1>1. TypeInv'
    BY UnseenMet
  <1>2. Meets'
    BY UnseenMet, UnseenTask DEF Meets
  <1>3. SavedInv'
    <2>1. SavedOnce'
      BY <1>d, UnseenMet DEF SavedInv, SavedOnce, TypeInv, DataOK, Saved
    <2>2. ASSUME NEW t \in Tasks, At(t, "addSaved")', NEW s \in saved', s.post = task'[t].post, s.user = task'[t].user
          PROVE  \E p \in Posts : p = task'[t].post /\ Toggles(p)'
      <3>1. At(t, "addSaved") /\ Running(t) /\ task'[t] = task[t]
        BY <2>2, UnseenTask
      <3>2. task[t].post \in Posts
        BY <1>w, <3>1, UnseenTask DEF Sound, At
      <3>3. SavedOf(Post(t), task[t].user) # {}
        BY <1>d, <2>2, <3>1 DEF SavedOf, Post
      <3>4. Toggles(Post(t))
        BY <3>1, <3>3 DEF SavedInv
      <3> QED BY <3>1, <3>2, <3>4, UnseenMet DEF Toggles, Post
    <2> QED BY <2>1, <2>2 DEF SavedInv, SavedOf, Post, Toggles, Met
  <1>4. ReturnedInv'
    <2>1. \A p \in Posts : p \in deleted /\ Exists(p) => Met(p, {"delete"}, Writers)'
      BY UnseenMet DEF ReturnedInv
    <2>2. ASSUME NEW t \in Tasks, Running(t)', task'[t].kind \in Writers
          PROVE  \E p \in Posts : /\ p = task'[t].post
                                  /\ Exists(p) \/ p \in deleted
                                  /\ p \in deleted => Met(p, {"delete"}, Writers)'
      BY <1>w, <2>2, UnseenMet, UnseenTask DEF ReturnedInv, Post
    <2> QED BY <1>d, <2>1, <2>2 DEF ReturnedInv, Post, Exists, Met
  <1>5. ClosedInv'
    <2>1. ASSUME NEW t \in Tasks, Running(t)', task'[t].kind \in Images
          PROVE  \E p \in Posts : /\ p = task'[t].post
                                  /\ IF task'[t].row.archived THEN IsLive(p) => Met(p, Images, Closing)'
                                                              ELSE IsClosed(p) => Met(p, Images, Closing)'
      BY <1>w, <2>1, UnseenMet, UnseenTask DEF ClosedInv, Post, Writers
    <2> QED BY <1>d, <2>1 DEF ClosedInv, Post, IsLive, IsClosed, Exists, Met
  <1>6. AnswersInv'
    BY <1>d, UnseenTask DEF AnswersInv, Post
  <1>7. AppliedInv'
    <2>1. \A p \in Posts : Twice(p) => Twice(p)'
      BY UnseenMet DEF Twice
    <2>2. AppliedOnce'
      <3>1. \A a \in AppIds : apps[a].post \in Posts
        BY DEF TypeInv, DataOK, AppIds, App
      <3> QED BY <1>d, <3>1, UnseenMet DEF AppliedInv, AppliedOnce, Writers
    <2>3. ASSUME NEW t \in Tasks, At(t, "saveNew")', NEW a \in Ids, apps'[a] # None,
                 apps'[a].post = task'[t].post, apps'[a].user = task'[t].user
          PROVE  \E p \in Posts : p = task'[t].post /\ Twice(p)'
      <3>1. At(t, "saveNew") /\ Running(t) /\ task'[t] = task[t]
        BY <2>3, UnseenTask
      <3>2. task[t].post \in Posts
        BY <1>w, <3>1, UnseenTask DEF Sound, At
      <3>3. a \in AppsOf(Post(t)) /\ apps[a].user = task[t].user
        BY <1>d, <2>3, <3>1 DEF AppsOf, AppIds, Post
      <3>4. Twice(Post(t))
        BY <3>1, <3>3 DEF AppliedInv
      <3> QED BY <2>1, <3>1, <3>2, <3>4 DEF Post
    <2> QED BY <2>2, <2>3 DEF AppliedInv, AppsOf, AppIds, Post, Twice, Met
  <1> QED BY <1>1, <1>2, <1>3, <1>4, <1>5, <1>6, <1>7

LEMMA UnseenClosing == ASSUME ClosingInv, Unseen PROVE ClosingInv'
  <1> USE DEF ClosingInv, BoardInv
  <1>d. /\ posts' = posts /\ deleted' = deleted /\ index' = index
        /\ \A p : (Exists(p)' <=> Exists(p)) /\ (IsLive(p)' <=> IsLive(p))
    BY DEF Unseen, tables, Exists, IsLive
  <1>t. \A t \in Tasks : /\ Running(t)' <=> Running(t)
                         /\ Running(t) => task'[t] = task[t]
                         /\ \A p \in Posts : On(t, p)' <=> On(t, p)
                         /\ \A p \in Posts : On(t, p) => task'[t] = task[t]
                         /\ Running(t) /\ task[t].kind # "reindex" => task[t].post \in Posts
    BY UnseenTask DEF On
  <1>m. \A p \in Posts : LostUpdate(p) => LostUpdate(p)'
    BY UnseenMet
  <1>1. BoardInv'
    BY UnseenBoard
  <1>2. OrderInv'
    BY <1>t DEF OrderInv
  <1>3. KnownInv'
    BY <1>d, <1>t DEF KnownInv, Exists
  <1>4. BulkInv'
    BY <1>t, UnseenMet DEF BulkInv
  <1>5. ImageInv'
    <2>1. ASSUME NEW t \in Tasks, Running(t), task[t].kind \in Images
          PROVE  \E p \in Posts : /\ p = task'[t].post
                                  /\ \/ LostUpdate(p)'
                                     \/ /\ Exists(p)'
                                        /\ task'[t].row.archived = posts'[p].archived
                                        /\ task'[t].row.rev = posts'[p].rev
      <3>1. task[t].post \in Posts /\ task'[t] = task[t]
        BY <1>t, <2>1 DEF Images
      <3> QED BY <1>d, <1>m, <2>1, <3>1 DEF ImageInv
    <2>2. \A t \in Tasks : Running(t)' /\ task'[t].kind \in Images => Running(t) /\ task[t].kind \in Images
      BY <1>t
    <2> QED BY <2>1, <2>2 DEF ImageInv, LostUpdate, Exists, Met
  <1>6. EmployerInv' /\ CreateInv'
    BY <1>d, <1>m, <1>t DEF EmployerInv, CreateInv
  <1>7. RevInv'
    BY <1>d, <1>t DEF RevInv
  <1>8. CompleteInv'
    <2>1. \A p \in Posts : Clean(p)' => Clean(p)
      BY UnseenMet
    <2> QED BY <1>d, <1>t, <2>1 DEF CompleteInv, ClosedWell
  <1> QED BY <1>1, <1>2, <1>3, <1>4, <1>5, <1>6, <1>7, <1>8

\* Without faults after it, there was none before.
LEMMA UnseenFaults == ASSUME TypeInv, Unseen, faults' = 0 PROVE faults = 0
  BY DEF Unseen, TypeInv, CallsOK

LEMMA UnseenIndex == ASSUME ClosingInv, IndexInv, Unseen PROVE IndexInv'
  <1>0. TypeInv
    BY DEF ClosingInv, BoardInv
  <1> SUFFICES ASSUME faults' = 0, NEW p \in Posts, Clean(p)'
               PROVE  /\ ~IsLive(p)' => Gone(p)'
                      /\ IsLive(p)' => Follows(p)'
                      /\ \A t \in Tasks : On(t, p)' => Ready(t, p)'
    BY DEF IndexInv
  <1>1. faults = 0 /\ Clean(p)
    BY <1>0, UnseenFaults, UnseenMet
  <1>2. \A t \in Tasks : (On(t, p)' <=> On(t, p)) /\ (On(t, p) => task'[t] = task[t])
    BY <1>0, UnseenTask DEF On
  <1>3. posts' = posts /\ index' = index /\ (IsLive(p)' <=> IsLive(p))
    BY DEF Unseen, tables, IsLive, Exists
  <1>4. Gone(p) => Gone(p)'
    BY <1>2, <1>3 DEF Gone, Removes
  <1>5. Follows(p) => Follows(p)'
    BY <1>2, <1>3 DEF Follows, Closes
  <1>6. \A t \in Tasks : On(t, p) /\ Ready(t, p) => Ready(t, p)'
    BY <1>2, <1>3, <1>4 DEF Ready, Closes, Removes, Renews
  <1> QED BY <1>1, <1>2, <1>3, <1>4, <1>5, <1>6 DEF IndexInv

LEMMA UnseenDeadline == ASSUME ClosingInv, DeadlineInv, Unseen PROVE DeadlineInv'
  <1>0. TypeInv
    BY DEF ClosingInv, BoardInv
  <1> SUFFICES ASSUME faults' = 0, NEW p \in Posts, ~Late(p)'
               PROVE  /\ \A e \in events' : e.post = p /\ e.type = "deadline" =>
                            /\ Barred(p)' => \E t \in Tasks : Clears(t, e)'
                            /\ \A t \in Tasks : On(t, p)' /\ Closes(t)' => Clears(t, e)'
                      /\ \A t \in Tasks : On(t, p)' /\ task'[t].kind \in Adders => ~Barred(p)'
    BY DEF DeadlineInv
  <1>1. faults = 0 /\ ~Late(p)
    BY <1>0, UnseenFaults, UnseenMet DEF Late
  <1>2. \A t \in Tasks : (On(t, p)' <=> On(t, p)) /\ (On(t, p) => task'[t] = task[t])
    BY <1>0, UnseenTask DEF On
  <1>3. events' = events /\ (IsLive(p)' <=> IsLive(p))
    BY DEF Unseen, tables, IsLive, Exists
  <1>4. Barred(p)' <=> Barred(p)
    BY <1>2, <1>3 DEF Barred
  <1>5. \A t \in Tasks : On(t, p) => (Closes(t)' <=> Closes(t))
    BY <1>2 DEF Closes
  <1>6. \A t \in Tasks : \A e : e.post = p => (Clears(t, e)' <=> Clears(t, e))
    BY <1>2 DEF Clears
  <1> QED BY <1>1, <1>2, <1>3, <1>4, <1>5, <1>6 DEF DeadlineInv

\* A step of the system, as the board sees it.
BoardStep == [BoardNext]_boardVars \/ Unseen
DataInv == ClosingInv /\ IndexInv /\ DeadlineInv

LEMMA DataStep == ASSUME DataInv, BoardStep PROVE DataInv'
  BY ClosingStep, IndexStep, DeadlineStep, UnseenClosing, UnseenIndex, UnseenDeadline DEF DataInv, BoardStep

-------------------------------------------------------------------------------
(* The steps of the whole system. *)

PagesInv == DataInv /\ TabsOK
Rests == \E t \in Tasks : Leaves(t) /\ tab' = tab

\* A step of a tab, of a request that is under way, of a listing, or a stop.
LEMMA ListingSteps ==
    ASSUME DataOK, TabsOK, ListingNext
    PROVE  /\ Remember
           /\ \/ \E t \in Tasks : Acts(t)
              \/ \E t \in Tasks : Step(t) /\ tab' = tab /\ marks' = marks
              \/ Crash /\ tab' = tab
              \/ Rests
  <1>1. CASE Next
    BY <1>1, AnswerActs, UserActs DEF Next, PageStep, ServerStep
  <1>2. ASSUME NEW t \in Tasks, ListingStep(t) PROVE Remember /\ Rests
    <2>1. UNCHANGED <<tables, index, bucket, task>> /\ tab' = tab
      BY <1>2 DEF ListingStep, FadeOutTimer, SearchAnswered, NotBoard
    <2>2. Fault \/ UNCHANGED <<calls, faults>>
      BY <1>2 DEF ListingStep, FadeOutTimer, SearchAnswered
    <2> QED BY <1>2, <2>1, <2>2 DEF ListingStep, Rests, Leaves
  <1>3. ASSUME NEW t \in Tasks, OpenHome(t) PROVE Acts(t)
    <2>1. Shows(t)
      BY <1>3, BlankFits DEF OpenHome, Shows, Pages
    <2> QED BY <1>3, <2>1 DEF OpenHome, Acts, Free, Idle, Leaves, NotBoard
  <1>4. ASSUME NEW t \in Tasks, NEW q \in Params, SetParams(t, q) PROVE Rests
    BY <1>4 DEF SetParams, Rests, Leaves, NotBoard
  <1> QED BY <1>1, <1>2, <1>3, <1>4 DEF ListingNext

LEMMA FaultCalls ==
    ASSUME CallsOK, NEW t, Leaves(t) PROVE CallsOK' /\ faults' \in {faults, faults + 1}
  <1>1. calls["fault"] \in Nat /\ calls["search"] \in Nat /\ faults \in Nat
    BY DEF CallsOK, Bounds
  <1>2. CASE Fault
    <2>1. calls["fault"] - 1 \in Nat /\ faults + 1 \in Nat
      BY <1>1, <1>2 DEF Fault
    <2>2. calls' = [calls EXCEPT !["fault"] = calls["fault"] - 1] /\ faults' = faults + 1
      BY <1>2 DEF Fault
    <2> QED BY <2>1, <2>2 DEF CallsOK
  <1>3. CASE NextSearch /\ UNCHANGED faults
    <2>1. calls["search"] - 1 \in Nat
      BY <1>1, <1>3 DEF NextSearch
    <2>2. calls' = [calls EXCEPT !["search"] = calls["search"] - 1] /\ faults' = faults
      BY <1>3 DEF NextSearch
    <2> QED BY <1>1, <2>1, <2>2 DEF CallsOK
  <1> QED BY <1>2, <1>3 DEF Leaves, CallsOK

LEMMA LeavesUnseen == ASSUME TypeInv, NEW t, Leaves(t), Remember PROVE Unseen
  <1>1. CallsOK' /\ faults' \in {faults, faults + 1}
    BY FaultCalls DEF TypeInv
  <1>2. TasksOK'
    BY DEF TypeInv, TasksOK, Leaves, Sound
  <1> QED BY <1>1, <1>2 DEF Leaves, Unseen, Running

LEMMA DeniedUnseen ==
    ASSUME TypeInv, NEW t \in Tasks, Denied(t), Remember
    PROVE  Unseen /\ ~Running(t)' /\ \A u \in Tasks \ {t} : task'[u] = task[u]
  <1>1. PICK kind \in Kinds, p \in Posts \cup {None} : Refused(t, kind, p)
    BY DEF Denied
  <1> DEFINE r == Answered(kind, p, TRUE)
  <1>2. r \in Task /\ r.todo = {} /\ \A s : s \notin r.todo
    BY DEF Answered, Fresh, Task
  <1>3. task' = [task EXCEPT ![t] = r]
    BY <1>1 DEF Refused
  <1> HIDE DEF r
  <1>4. Sound(r)
    BY <1>2 DEF Sound
  <1>5. task'[t] = r /\ \A u \in Tasks \ {t} : task'[u] = task[u]
    BY <1>3 DEF TypeInv, TasksOK
  <1>6. TasksOK'
    <2>1. task' \in [Tasks -> Task \cup {None}]
      BY <1>2, <1>3 DEF TypeInv, TasksOK
    <2>2. \A u \in Tasks : task'[u] # None => Sound(task'[u])
      BY <1>4, <1>5 DEF TypeInv, TasksOK
    <2>3. \A u \in Tasks : Sound(task'[u]) <=> Sound(task[u])'
      BY DEF Sound
    <2> QED BY <2>1, <2>2, <2>3 DEF TasksOK
  <1>7. ~Running(t)' /\ ~Running(t) /\ \A u \in Tasks \ {t} : (Running(u)' <=> Running(u))
    BY <1>2, <1>5 DEF Running, Denied
  <1>8. UNCHANGED <<tables, index, bucket, calls, faults>>
    BY <1>1 DEF Refused
  <1>9. CallsOK' /\ faults' \in {faults, faults + 1}
    BY <1>8 DEF TypeInv, CallsOK
  <1> QED BY <1>5, <1>6, <1>7, <1>8, <1>9 DEF Unseen

LEMMA ListingBoard == ASSUME TypeInv, TabsOK, [ListingNext]_listingVars PROVE BoardStep /\ TabsOK'
  <1>1. CASE UNCHANGED listingVars
    BY <1>1 DEF listingVars, pageVars, boardVars, BoardStep, TabsOK, Fit
  <1>2. CASE ListingNext
    <2>0. Remember
      BY <1>2, ListingSteps DEF TypeInv
    <2>t. tab' = tab => TabsOK'
      BY DEF TabsOK, Fit
    <2>1. ASSUME NEW t \in Tasks, Acts(t) PROVE BoardStep /\ TabsOK'
      <3>1. TabsOK'
        BY <2>1, ShowsFit DEF Acts
      <3>2. BoardStep
        BY <2>0, <2>1, LeavesUnseen, DeniedUnseen, AsksRequest DEF Acts, LeavesPage, BoardStep, BoardNext
      <3> QED BY <3>1, <3>2
    <2>2. ASSUME NEW t \in Tasks, Step(t), tab' = tab PROVE BoardStep /\ TabsOK'
      BY <2>0, <2>2, <2>t DEF BoardStep, BoardNext
    <2>3. CASE Crash /\ tab' = tab
      BY <2>0, <2>3, <2>t DEF BoardStep, BoardNext
    <2>4. CASE Rests
      BY <2>0, <2>4, <2>t, LeavesUnseen DEF Rests, BoardStep
    <2> QED BY <1>2, <2>1, <2>2, <2>3, <2>4, ListingSteps DEF TypeInv
  <1> QED BY <1>1, <1>2

LEMMA PagesInit == ListingInit => PagesInv
  <1> SUFFICES ASSUME ListingInit PROVE PagesInv
    OBVIOUS
  <1>1. BoardInit /\ tab = [t \in Tasks |-> Blank("home", None)]
    BY DEF ListingInit, Init
  <1>2. TabsOK
    <2>1. Fit(Blank("home", None)) /\ Blank("home", None) \in Tab
      BY BlankFits DEF Pages, Fit
    <2> QED BY <1>1, <2>1 DEF TabsOK
  <1> QED BY <1>1, <1>2, ClosingInit, IndexInit, DeadlineInit DEF PagesInv, DataInv

LEMMA PagesStep == PagesInv /\ [ListingNext]_listingVars => PagesInv'
  <1> SUFFICES ASSUME PagesInv, [ListingNext]_listingVars PROVE PagesInv'
    OBVIOUS
  <1>1. BoardStep /\ TabsOK'
    BY ListingBoard DEF PagesInv, DataInv, ClosingInv, BoardInv
  <1> QED BY <1>1, DataStep DEF PagesInv

\* What is proved of the board alone holds under the web pages too, whatever they
\* show and ask for: documents, deadlines, applications and saved posts go with
\* their posts, but for requests that overlapped.
THEOREM BoardHoldsUnderPages ==
    ListingsSpec => /\ [](IndexIsCurrent /\ DeadlineGoesWithPost)
                    /\ [](AppliedOnce /\ SavedOnce)
                    /\ StaysClosed /\ ClosedBeforeCompleted
  <1>1. PagesInv => IndexIsCurrent /\ DeadlineGoesWithPost
    BY IndexHolds, DeadlineHolds DEF PagesInv, DataInv
  <1>2. PagesInv => AppliedOnce /\ SavedOnce
    BY DEF PagesInv, DataInv, ClosingInv, BoardInv, AppliedInv, SavedInv
  <1>3. PagesInv /\ [ListingNext]_listingVars =>
            [\A p \in Posts : IsClosed(p) /\ IsLive(p)' => Met(p, Images, Closing)]_boardVars
    <2> SUFFICES ASSUME PagesInv, [ListingNext]_listingVars, NEW p \in Posts, IsClosed(p), IsLive(p)'
                 PROVE  Met(p, Images, Closing)
      OBVIOUS
    <2>1. BoardStep
      BY ListingBoard DEF PagesInv, DataInv, ClosingInv, BoardInv
    <2>2. CASE [BoardNext]_boardVars
      BY <2>2, StaysClosedStep DEF PagesInv, DataInv, ClosingInv, BoardInv
    <2>3. CASE Unseen
      BY <2>3 DEF Unseen, tables, IsClosed, IsLive, Exists
    <2> QED BY <2>1, <2>2, <2>3 DEF BoardStep
  <1>4. PagesInv /\ [ListingNext]_listingVars =>
            [\A a \in Ids : ~Completed(a) /\ Completed(a)' =>
                LET p == apps'[a].post
                IN  \/ index[p] = 0 /\ ~IsLive(p)
                    \/ LostUpdate(p) \/ Met(p, {"reindex"}, {"reindex"})
                    \/ \E t \in Tasks : /\ At(t, "saveApp") /\ ~At(t, "saveApp")'
                                        /\ task[t].kind = "markCompleted" /\ task[t].app = a]_boardVars
    <2> SUFFICES ASSUME PagesInv, [ListingNext]_listingVars, NEW a \in Ids, ~Completed(a), Completed(a)',
                        NEW p, p = apps'[a].post
                 PROVE  \/ index[p] = 0 /\ ~IsLive(p)
                        \/ LostUpdate(p) \/ Met(p, {"reindex"}, {"reindex"})
                        \/ \E t \in Tasks : /\ At(t, "saveApp") /\ ~At(t, "saveApp")'
                                            /\ task[t].kind = "markCompleted" /\ task[t].app = a
      OBVIOUS
    <2>1. BoardStep
      BY ListingBoard DEF PagesInv, DataInv, ClosingInv, BoardInv
    <2>2. CASE [BoardNext]_boardVars
      BY <2>2, AppCompletes, ClosingHolds DEF ClosesFirst, PagesInv, DataInv, ClosingInv, BoardInv
    <2>3. CASE Unseen
      BY <2>3 DEF Unseen, tables, Completed
    <2> QED BY <2>1, <2>2, <2>3 DEF BoardStep
  <1> QED BY <1>1, <1>2, <1>3, <1>4, PagesInit, PagesStep, PTL DEF ListingsSpec, StaysClosed, ClosedBeforeCompleted

-------------------------------------------------------------------------------
(* The request of a tab, and what the tab shows while it runs. *)

Intended == Moves \cup {<<"pending", "pending">>}
BusyInv ==
    \A t \in Tasks : Running(t) =>
        /\ task[t].kind \notin {"markCompleted", "deleteImage"}
        /\ task[t].kind \in {"respond", "withdraw"} => task[t].todo = {"saveApp"} /\ task[t].failed = FALSE
        /\ task[t].kind \in Answers /\ task[t].failed = FALSE /\ tab[t].wait # None =>
              <<tab[t].apps[task[t].app], task[t].copy.status>> \in Intended
        /\ task[t].kind = "removeEvent" => \A e \in task[t].found : e.type = "custom"

LEMMA BeginTask ==
    ASSUME TasksOK, NEW t \in Tasks, NEW new, Begin(t, new)
    PROVE  task'[t] = new /\ (\A u \in Tasks \ {t} : task'[u] = task[u]) /\ ~Running(t)
  BY DEF TasksOK, Begin

\* A request that is under way after a step was under way before it, and its tab did
\* not change unless it has failed or its page is left; or the tab has just asked for it.
LEMMA BusyMoves ==
    ASSUME TypeInv, TabsOK, [ListingNext]_listingVars, NEW u \in Tasks, Running(u)'
    PROVE  \/ Running(u) /\ task'[u] = task[u] /\ (tab'[u] = tab[u] \/ Failed(u) \/ tab'[u].wait = None)
           \/ Running(u) /\ Step(u) /\ Remember /\ tab'[u] = tab[u]
           \/ Asks(u)
  <1>1. CASE UNCHANGED listingVars
    BY <1>1 DEF listingVars, pageVars, boardVars, Running
  <1>2. CASE ListingNext
    <2>0. Remember
      BY <1>2, ListingSteps DEF TypeInv
    <2>1. ASSUME NEW t \in Tasks, Acts(t)
          PROVE  \/ Running(u) /\ task'[u] = task[u] /\ (tab'[u] = tab[u] \/ Failed(u) \/ tab'[u].wait = None)
                 \/ Asks(u)
      <3>1. \A v \in Tasks \ {t} : tab'[v] = tab[v]
        BY <2>1, ShowsFit DEF Acts
      <3>2. CASE Leaves(t)
        BY <2>1, <3>1, <3>2 DEF Acts, Leaves, LeavesPage, Denied, Free, Failed, Running
      <3>3. CASE Denied(t)
        BY <2>0, <3>1, <3>3, DeniedUnseen DEF Running
      <3>4. CASE Asks(t)
        <4>1. PICK new : Begin(t, new)
          BY <3>4, AsksRequest, RequestArrives
        <4>2. \A v \in Tasks \ {t} : task'[v] = task[v]
          BY <4>1, BeginTask DEF TypeInv
        <4> QED BY <3>1, <3>4, <4>2 DEF Running
      <3> QED BY <2>1, <3>2, <3>3, <3>4 DEF Acts, LeavesPage
    <2>2. ASSUME NEW t \in Tasks, Step(t), tab' = tab
          PROVE  Running(u) /\ (task'[u] = task[u] \/ Step(u)) /\ tab'[u] = tab[u]
      <3>1. PICK step \in Steps, new \in SUBSET Steps : Advances(t, step, new)
        BY <2>2, StepAdvances
      <3> QED BY <2>2, <3>1 DEF Advances, Goes, Running
    <2>3. CASE Crash /\ tab' = tab
      BY <2>3, CrashKeeps DEF TypeInv, Running
    <2>4. CASE Rests
      BY <2>4 DEF Rests, Leaves, Running
    <2> QED BY <1>2, <2>0, <2>1, <2>2, <2>3, <2>4, ListingSteps DEF TypeInv
  <1> QED BY <1>1, <1>2

\* What a request is when a tab has asked for it.
LEMMA AskedTask ==
    ASSUME TypeInv, NEW t \in Tasks, Asks(t)
    PROVE  /\ task'[t].kind \notin {"markCompleted", "deleteImage"}
           /\ task'[t].kind \in {"respond", "withdraw"} => task'[t].todo = {"saveApp"} /\ task'[t].failed = FALSE
           /\ task'[t].kind \in Answers => <<tab'[t].apps[task'[t].app], task'[t].copy.status>> \in Intended
           /\ task'[t].kind = "removeEvent" => \A e \in task'[t].found : e.type = "custom"
  <1>0. TasksOK
    BY DEF TypeInv
  <1>1. CASE AsksOther(t)
    <2> DEFINE OtherKinds == {"create", "archive", "delete", "apply", "upload", "review", "addEvent"}
    <2>1. ASSUME NEW kind, NEW p, NEW todo, NEW new, Begin(t, new), new = Fresh(kind, p, todo), kind \in OtherKinds
          PROVE  task'[t].kind \in OtherKinds
      BY <1>0, <2>1, BeginTask DEF Fresh
    <2>2. ASSUME NEW p, Create(t, p) \/ Archive(t, p) \/ Delete(t, p) PROVE task'[t].kind \in OtherKinds
      BY <2>1, <2>2 DEF Create, Archive, Delete
    <2>3. ASSUME NEW p, NEW u, Apply(t, p, u) PROVE task'[t].kind \in OtherKinds
      <3>1. task'[t] = [Fresh("apply", p, {"findExisting"}) EXCEPT !.user = u]
        BY <1>0, <2>3, BeginTask DEF Apply
      <3> QED BY <3>1 DEF Fresh
    <2>4. ASSUME NEW p, NEW keys, Upload(t, p, keys) PROVE task'[t].kind \in OtherKinds
      <3>1. task'[t] = [Fresh("upload", p, {"put"}) EXCEPT !.row = posts[p], !.keys = keys]
        BY <1>0, <2>4, BeginTask DEF Upload
      <3> QED BY <3>1 DEF Fresh
    <2>5. ASSUME NEW a, NEW side, Review(t, a, side) PROVE task'[t].kind \in OtherKinds
      <3>1. task'[t] = [Fresh("review", apps[a].post, {"saveReview"}) EXCEPT !.app = a, !.user = side]
        BY <1>0, <2>5, BeginTask DEF Review
      <3> QED BY <3>1 DEF Fresh
    <2>6. ASSUME AddEvent(t, "addEvent") PROVE task'[t].kind \in OtherKinds
      BY <2>1, <2>6 DEF AddEvent
    <2>7. task'[t].kind \in OtherKinds
      BY <1>1, <2>2, <2>3, <2>4, <2>5, <2>6 DEF AsksOther
    <2> QED BY <2>7 DEF Answers
  <1>2. CASE AsksAnswer(t)
    <2>1. PICK a \in AppIds :
             \/ Withdraw(t, a) /\ tab'[t].apps[a] = "pending"
             \/ \E status \in {"pending", "accepted", "rejected"} : Respond(t, a, status) /\ tab'[t].apps[a] = "pending"
             \/ Complete(t, a) /\ tab'[t].apps[a] = "accepted"
      BY <1>2 DEF AsksAnswer
    <2>2. apps[a] \in App
      BY <2>1 DEF TypeInv, DataOK, AppIds
    <2>3. CASE Withdraw(t, a) /\ tab'[t].apps[a] = "pending"
      <3>1. task'[t] = OfApp("withdraw", a, {"saveApp"}, [apps[a] EXCEPT !.status = "withdrawn"])
        BY <1>0, <2>3, BeginTask DEF Withdraw
      <3>2. /\ task'[t].kind = "withdraw" /\ task'[t].todo = {"saveApp"} /\ task'[t].failed = FALSE
            /\ task'[t].app = a /\ task'[t].copy.status = "withdrawn"
        BY <2>2, <3>1 DEF OfApp, Fresh, App
      <3> QED BY <2>3, <3>2 DEF Intended, Moves
    <2>4. ASSUME NEW status \in {"pending", "accepted", "rejected"}, Respond(t, a, status), tab'[t].apps[a] = "pending"
          PROVE  /\ task'[t].kind = "respond" /\ task'[t].todo = {"saveApp"} /\ task'[t].failed = FALSE
                 /\ <<tab'[t].apps[task'[t].app], task'[t].copy.status>> \in Intended
      <3>1. task'[t] = OfApp("respond", a, {"saveApp"}, [apps[a] EXCEPT !.status = status])
        BY <1>0, <2>4, BeginTask DEF Respond
      <3>2. /\ task'[t].kind = "respond" /\ task'[t].todo = {"saveApp"} /\ task'[t].failed = FALSE
            /\ task'[t].app = a /\ task'[t].copy.status = status
        BY <2>2, <3>1 DEF OfApp, Fresh, App
      <3> QED BY <2>4, <3>2 DEF Intended, Moves
    <2>5. CASE Complete(t, a) /\ tab'[t].apps[a] = "accepted"
      <3> DEFINE c == OfApp("complete", a, {"saveRow", "get", "findEvents"},
                            [apps[a] EXCEPT !.status = "completed", !.archived = TRUE])
      <3>1. task'[t] = [c EXCEPT !.row = [posts[apps[a].post] EXCEPT !.archived = TRUE]]
        BY <1>0, <2>5, BeginTask DEF Complete
      <3>2. c.kind = "complete" /\ c.app = a /\ c.copy.status = "completed"
        BY <2>2 DEF OfApp, Fresh, App
      <3>4. DOMAIN c = DOMAIN Fresh("complete", apps[a].post, {"saveRow", "get", "findEvents"})
        BY DEF OfApp
      <3> HIDE DEF c
      <3>3. task'[t].kind = "complete" /\ task'[t].app = a /\ task'[t].copy.status = "completed"
        BY <3>1, <3>2, <3>4 DEF Fresh
      <3> QED BY <2>5, <3>3 DEF Intended, Moves
    <2>6. CASE \E status \in {"pending", "accepted", "rejected"} : Respond(t, a, status) /\ tab'[t].apps[a] = "pending"
      <3>1. /\ task'[t].kind = "respond" /\ task'[t].todo = {"saveApp"} /\ task'[t].failed = FALSE
            /\ <<tab'[t].apps[task'[t].app], task'[t].copy.status>> \in Intended
        BY <2>4, <2>6
      <3> QED BY <3>1
    <2> QED BY <2>1, <2>3, <2>5, <2>6
  <1>3. CASE AsksRemoval(t)
    <2>1. PICK e \in events : e.type = "custom" /\ RemoveEvent(t, e)
      BY <1>3 DEF AsksRemoval
    <2>2. task'[t] = [Fresh("removeEvent", e.post, {"removeEvents"}) EXCEPT !.found = {e}]
      BY <1>0, <2>1, BeginTask DEF RemoveEvent
    <2>3. task'[t].kind = "removeEvent" /\ task'[t].found = {e}
      BY <2>2 DEF Fresh
    <2> QED BY <2>1, <2>3 DEF Answers
  <1> QED BY <1>1, <1>2, <1>3 DEF Asks

LEMMA BusyStep == PagesInv /\ BusyInv /\ [ListingNext]_listingVars => BusyInv'
  <1> SUFFICES ASSUME PagesInv, BusyInv, [ListingNext]_listingVars, NEW u \in Tasks, Running(u)'
               PROVE  /\ task'[u].kind \notin {"markCompleted", "deleteImage"}
                      /\ task'[u].kind \in {"respond", "withdraw"} => task'[u].todo = {"saveApp"} /\ task'[u].failed = FALSE
                      /\ task'[u].kind \in Answers /\ task'[u].failed = FALSE /\ tab'[u].wait # None =>
                            <<tab'[u].apps[task'[u].app], task'[u].copy.status>> \in Intended
                      /\ task'[u].kind = "removeEvent" => \A e \in task'[u].found : e.type = "custom"
    BY DEF BusyInv
  <1>0. TypeInv /\ TabsOK /\ OrderInv
    BY DEF PagesInv, DataInv, ClosingInv, BoardInv
  <1>1. CASE Asks(u)
    BY <1>0, <1>1, AskedTask
  <1>2. CASE Running(u) /\ task'[u] = task[u] /\ (tab'[u] = tab[u] \/ Failed(u) \/ tab'[u].wait = None)
    BY <1>2 DEF BusyInv, Failed
  <1>3. CASE Running(u) /\ Step(u) /\ Remember /\ tab'[u] = tab[u]
    <2>1. PICK step \in Steps, new \in SUBSET Steps : Advances(u, step, new)
      BY <1>0, <1>3, StepAdvances
    <2>2. /\ task'[u].kind = task[u].kind /\ task'[u].todo = (task[u].todo \ {step}) \cup new
          /\ step \in task[u].todo
          /\ task'[u].failed = FALSE => task[u].failed = FALSE
      BY <2>1 DEF Advances, Goes, At
    <2>3. task'[u].app = task[u].app /\ task'[u].copy = task[u].copy
      <3>1. BoardNext
        BY <1>3 DEF BoardNext
      <3>2. Same(u) \/ Came(u)
        BY <1>0, <3>1, NextMoves
      <3> QED BY <1>3, <3>2 DEF Same, Came, Begin
    <2>4. task[u].kind \notin {"respond", "withdraw"}
      <3>1. SUFFICES ASSUME task[u].kind \in {"respond", "withdraw"} PROVE FALSE
        OBVIOUS
      <3>2. step = "saveApp" /\ task[u].todo = {"saveApp"}
        BY <1>3, <2>2, <3>1 DEF BusyInv
      <3>3. \A s \in Steps : s \notin new
        BY <2>1, <3>1, <3>2 DEF Advances, Follow, Steps
      <3>4. task'[u].todo = {}
        BY <2>2, <3>2, <3>3
      <3> QED BY <3>4 DEF Running
    <2>5. task[u].kind = "removeEvent" => task'[u].found = task[u].found
      <3>1. SUFFICES ASSUME task[u].kind = "removeEvent" PROVE task'[u].found = task[u].found
        OBVIOUS
      <3>2. Sound(task[u])
        BY <1>0, <1>3 DEF TypeInv, TasksOK, Running
      <3>3. step # "findEvents" /\ step # "findSaved"
        BY <1>0, <1>3, <2>2, <3>1, <3>2 DEF OrderInv, Sound
      <3> QED BY <2>1, <3>3 DEF Advances, Reads
    <2> QED BY <1>3, <2>2, <2>3, <2>4, <2>5 DEF BusyInv
  <1> QED BY <1>0, <1>1, <1>2, <1>3, BusyMoves

LEMMA BusyInit == ListingInit => BusyInv
  BY DEF ListingInit, Init, BoardInit, BusyInv, Running

-------------------------------------------------------------------------------
(* Applications and deadlines under the pages. *)

\* The status of a stored application changes when its post is archived, or to that
\* of the copy a request saves.
LEMMA StatusMoves ==
    ASSUME TypeInv, [BoardNext]_boardVars, NEW a \in Ids, apps[a] # None, apps'[a] # None,
           apps'[a].status # apps[a].status
    PROVE  \/ apps'[a].status = "cancelled"
           \/ \E t \in Tasks : At(t, "saveApp") /\ task[t].app = a /\ apps'[a] = task[t].copy
  <1> USE DEF TypeInv, DataOK
  <1>1. apps' # apps
    OBVIOUS
  <1>2. PICK t \in Tasks : CancelApps(t) \/ DeleteRow(t) \/ SaveNew(t) \/ SaveApp(t)
    BY <1>1, NextWrites
  <1>3. CASE CancelApps(t)
    <2>1. a \in AppsOf(Post(t))
      BY <1>3 DEF CancelApps
    <2>2. apps[a] \in App /\ apps'[a] = [apps[a] EXCEPT !.archived = TRUE, !.status = "cancelled"]
      BY <1>3, <2>1 DEF CancelApps
    <2> QED BY <2>2 DEF App
  <1>4. CASE DeleteRow(t)
    <2>1. apps'[a] \in {None, apps[a]}
      BY <1>4 DEF DeleteRow
    <2> QED BY <2>1
  <1>5. CASE SaveNew(t)
    <2> DEFINE used == AppIds \cup deleted
               row == [post |-> Post(t), user |-> task[t].user, status |-> "pending", archived |-> FALSE]
    <2>1. HasRoom(used) /\ apps' = [apps EXCEPT ![NewId(used)] = row]
      BY <1>1, <1>5 DEF SaveNew
    <2>2. NewId(used) \in Ids \ used
      BY <2>1 DEF HasRoom, NewId
    <2>3. a # NewId(used)
      BY <2>2 DEF AppIds
    <2> QED BY <2>1, <2>3
  <1>6. CASE SaveApp(t)
    <2>1. At(t, "saveApp") /\ apps' = [apps EXCEPT ![task[t].app] = task[t].copy]
      BY <1>1, <1>6 DEF SaveApp
    <2> QED BY <2>1
  <1> QED BY <1>2, <1>3, <1>4, <1>5, <1>6

\* A request that a page waits for saves a copy with the status the page means, over
\* the one the page shows.
LEMMA SavesIntended ==
    ASSUME PagesInv, BusyInv, NEW t \in Tasks, At(t, "saveApp"), tab[t].wait # None
    PROVE  <<tab[t].apps[task[t].app], task[t].copy.status>> \in Intended
  <1>1. TypeInv /\ OrderInv
    BY DEF PagesInv, DataInv, ClosingInv, BoardInv
  <1>2. Running(t) /\ task[t].kind \in Answers
    BY <1>1, StepKinds
  <1>3. task[t].failed = FALSE
    BY <1>1, <1>2 DEF BusyInv, OrderInv, Answers, At
  <1> QED BY <1>2, <1>3 DEF BusyInv

\* An application moves as the pages mean it to, from a page that shows what it no
\* longer is or was left, or as its post is archived, whatever the users click.
THEOREM PagesMoveApplications == ListingsSpec => OnlyStalePagesUndo
  <1>1. PagesInv /\ BusyInv /\ [ListingNext]_listingVars =>
            [\A a \in Ids : apps[a] # None /\ apps[a]' # None /\ apps[a]'.status # apps[a].status =>
                \/ <<apps[a].status, apps[a]'.status>> \in Moves
                \/ apps[a]'.status = "cancelled"
                \/ \E t \in Tasks : /\ At(t, "saveApp") /\ task[t].app = a
                                    /\ tab[t].apps[a] # apps[a].status \/ tab[t].wait = None]_pageVars
    <2> SUFFICES ASSUME PagesInv, BusyInv, [ListingNext]_listingVars, NEW a \in Ids,
                        apps[a] # None, apps'[a] # None, apps'[a].status # apps[a].status
                 PROVE  \/ <<apps[a].status, apps'[a].status>> \in Moves
                        \/ apps'[a].status = "cancelled"
                        \/ \E t \in Tasks : /\ At(t, "saveApp") /\ task[t].app = a
                                            /\ tab[t].apps[a] # apps[a].status \/ tab[t].wait = None
      OBVIOUS
    <2>1. TypeInv /\ TabsOK
      BY DEF PagesInv, DataInv, ClosingInv, BoardInv
    <2>2. BoardStep
      BY <2>1, ListingBoard
    <2>3. CASE Unseen
      BY <2>3 DEF Unseen, tables
    <2>4. CASE [BoardNext]_boardVars
      <3>1. CASE apps'[a].status = "cancelled"
        BY <3>1
      <3>2. ASSUME NEW t \in Tasks, At(t, "saveApp"), task[t].app = a, apps'[a] = task[t].copy,
                   tab[t].apps[a] = apps[a].status, tab[t].wait # None
            PROVE  <<apps[a].status, apps'[a].status>> \in Moves
        <4>1. <<apps[a].status, apps'[a].status>> \in Intended
          BY <3>2, SavesIntended
        <4> QED BY <4>1 DEF Intended
      <3> QED BY <2>1, <2>4, <3>1, <3>2, StatusMoves
    <2> QED BY <2>2, <2>3, <2>4 DEF BoardStep
  <1> QED BY <1>1, PagesInit, PagesStep, BusyInit, BusyStep, PTL DEF ListingsSpec, OnlyStalePagesUndo

LEMMA EventsLeave ==
    ASSUME TypeInv, [BoardNext]_boardVars, NEW e \in events \ events'
    PROVE  \E t \in Tasks : At(t, "removeEvents") /\ e \in task[t].found
  <1>1. CASE UNCHANGED boardVars \/ Crash
    BY <1>1 DEF boardVars, tables, Crash
  <1>2. ASSUME NEW t \in Tasks, Request(t) PROVE FALSE
    BY <1>2, RequestWrites DEF NotPosts
  <1>3. ASSUME NEW t \in Tasks, Step(t) PROVE At(t, "removeEvents") /\ e \in task[t].found
    <2>1. CASE \/ FindPost(t) \/ Reload(t) \/ IndexJobPost(t) \/ GetDoc(t) \/ DeleteDoc(t)
               \/ FindEvents(t) \/ UpdateDoc(t) \/ FindSaved(t) \/ FindExisting(t)
               \/ SaveReview(t) \/ PutObject(t) \/ PutFails(t) \/ DeleteObject(t) \/ Bulk(t) \/ Reject(t)
      BY <2>1 DEF FindPost, Reload, IndexJobPost, GetDoc, DeleteDoc, FindEvents, UpdateDoc, FindSaved,
             FindExisting, SaveReview, PutObject, PutFails, DeleteObject, Bulk, Reject, Only, NotData,
             NotReviews, NotIndex, NotBucket, tables
    <2>2. CASE \/ ArchiveRow(t) \/ Write(t) \/ SaveRow(t) \/ CancelApps(t) \/ SaveNew(t) \/ SaveApp(t)
               \/ AddSaved(t) \/ RemoveSaved(t) \/ DeleteRow(t)
      BY <2>2 DEF ArchiveRow, Write, SaveRow, CancelApps, SaveNew, SaveApp, AddSaved, RemoveSaved, DeleteRow,
             Only, NotPosts, NotApps, NotSaved
    <2>3. CASE SaveEvent(t)
      BY <2>3 DEF SaveEvent
    <2>4. CASE RemoveEvents(t)
      BY <2>4 DEF RemoveEvents
    <2> QED BY <1>3, <2>1, <2>2, <2>3, <2>4 DEF Step
  <1> QED BY <1>1, <1>2, <1>3 DEF BoardNext

\* From the pages a deadline leaves the calendar only as its post is archived or
\* completed: no user removes one, though no route would refuse him.
THEOREM PagesKeepDeadlines == ListingsSpec => DeadlineIsKept
  <1>1. PagesInv /\ BusyInv /\ [ListingNext]_listingVars =>
            [\A e \in events \ events' : e.type = "deadline" =>
                \E t \in Tasks : At(t, "removeEvents") /\ task[t].kind \in Closing]_pageVars
    <2> SUFFICES ASSUME PagesInv, BusyInv, [ListingNext]_listingVars,
                        NEW e \in events \ events', e.type = "deadline"
                 PROVE  \E t \in Tasks : At(t, "removeEvents") /\ task[t].kind \in Closing
      OBVIOUS
    <2>1. TypeInv /\ TabsOK /\ OrderInv
      BY DEF PagesInv, DataInv, ClosingInv, BoardInv
    <2>2. BoardStep
      BY <2>1, ListingBoard
    <2>3. CASE Unseen
      BY <2>3 DEF Unseen, tables
    <2>4. CASE [BoardNext]_boardVars
      <3>1. PICK t \in Tasks : At(t, "removeEvents") /\ e \in task[t].found
        BY <2>1, <2>4, EventsLeave
      <3>2. Running(t) /\ task[t].kind \in {"archive", "complete", "removeEvent"}
        BY <2>1, <3>1 DEF OrderInv, At, Running
      <3>3. task[t].kind # "removeEvent"
        BY <3>1, <3>2 DEF BusyInv
      <3> QED BY <3>1, <3>2, <3>3 DEF Closing
    <2> QED BY <2>2, <2>3, <2>4 DEF BoardStep
  <1> QED BY <1>1, PagesInit, PagesStep, BusyInit, BusyStep, PTL DEF ListingsSpec, DeadlineIsKept

-------------------------------------------------------------------------------
(* The listing. *)

OneSearch == [params : Params, own : BOOLEAN]
\* The last of the searches under way is for the parameters on the screen, or what
\* the store holds is; `lost': an answer may have been lost.
Latest(l, lost) ==
    l.mounted /\ ~l.timer =>
        IF l.sent # <<>> THEN l.sent[Len(l.sent)].params = l.params ELSE lost \/ l.data.params = l.params
ListInv == /\ listing \in [Tasks -> Listing]
           /\ \A t \in Tasks : Latest(listing[t], faults > 0)

LEMMA EffectFits ==
    ASSUME NEW l \in Listing
    PROVE  /\ Effect(l) \in Listing /\ Effect(l).timer = TRUE
           /\ [l EXCEPT !.mounted = TRUE, !.loading = TRUE] \in Listing
           /\ \A q \in Params : [l EXCEPT !.params = q] \in Listing
  BY DEF Effect, Listing

LEMMA UnmountedFits ==
    ASSUME NEW l \in Listing
    PROVE  Unmounted(l) \in Listing /\ Unmounted(l).mounted = FALSE
  <1> DEFINE s == l.sent
             queue == [k \in DOMAIN s |-> [s[k] EXCEPT !.own = FALSE]]
             new == [l EXCEPT !.mounted = FALSE, !.timer = FALSE, !.sent = queue]
  <1>1. s \in Seq(OneSearch)
    BY DEF Listing, OneSearch
  <1>2. \A k \in 1 .. Len(s) : [s[k] EXCEPT !.own = FALSE] \in OneSearch
    <2> SUFFICES ASSUME NEW k \in 1 .. Len(s) PROVE [s[k] EXCEPT !.own = FALSE] \in OneSearch
      OBVIOUS
    <2>1. s[k] \in OneSearch
      BY <1>1
    <2> QED BY <2>1 DEF OneSearch
  <1>3. queue \in Seq(OneSearch)
    <2>1. DOMAIN s = 1 .. Len(s) /\ Len(s) \in Nat
      BY <1>1, LenProperties
    <2>2. queue \in [1 .. Len(s) -> OneSearch]
      BY <1>2, <2>1
    <2> HIDE DEF queue
    <2> QED BY <2>1, <2>2, SeqDef
  <1>4. Unmounted(l) = new
    BY DEF Unmounted
  <1> HIDE DEF queue, s
  <1>5. new \in Listing /\ new.mounted = FALSE
    BY <1>3 DEF Listing, OneSearch
  <1> QED BY <1>4, <1>5

LEMMA SentFits ==
    ASSUME NEW l \in Listing
    PROVE  LET new == [l EXCEPT !.timer = FALSE, !.sent = Append(@, [params |-> l.params, own |-> TRUE])]
           IN  new \in Listing /\ \A lost : Latest(new, lost)
  <1> DEFINE one == [params |-> l.params, own |-> TRUE]
             sent == Append(l.sent, one)
             new == [l EXCEPT !.timer = FALSE, !.sent = sent]
  <1>1. l.sent \in Seq(OneSearch) /\ one \in OneSearch
    BY DEF Listing, OneSearch
  <1>2. sent \in Seq(OneSearch) /\ sent # <<>> /\ sent[Len(sent)] = one
    BY <1>1, AppendProperties
  <1>3. one.params = l.params
    OBVIOUS
  <1> HIDE DEF sent, one
  <1>4. new \in Listing /\ new.sent = sent /\ new.params = l.params
    BY <1>2 DEF Listing, OneSearch
  <1> HIDE DEF new
  <1>5. \A lost : Latest(new, lost)
    BY <1>2, <1>3, <1>4 DEF Latest
  <1>6. new = [l EXCEPT !.timer = FALSE, !.sent = Append(@, [params |-> l.params, own |-> TRUE])]
    BY DEF new, sent, one
  <1> QED BY <1>4, <1>5, <1>6

\* An answer comes to the search that was sent first.
LEMMA FirstAnswered ==
    ASSUME NEW l \in Listing, NEW lost, l.sent # <<>>, Latest(l, lost),
           NEW new \in Listing, NEW after, new.sent = Tail(l.sent), new.mounted = l.mounted, new.timer = l.timer,
           new.params = l.params, after \/ new.data.params = Head(l.sent).params
    PROVE  Latest(new, after)
  <1> DEFINE s == l.sent
             rest == Tail(s)
             n == Len(s)
             m == Len(rest)
  <1>1. s \in Seq(OneSearch) /\ s # <<>>
    BY DEF Listing, OneSearch
  <1>2. rest \in Seq(OneSearch) /\ m = n - 1 /\ \A i \in 1 .. m : rest[i] = s[i + 1]
    BY <1>1, HeadTailProperties
  <1>3. n \in Nat \ {0}
    BY <1>1, EmptySeq
  <1>4. Head(s) = s[1]
    OBVIOUS
  <1>5. /\ Latest(l, lost) <=> (l.mounted /\ ~l.timer => s[n].params = l.params)
        /\ new.sent = rest /\ (after \/ new.data.params = Head(s).params)
    BY <1>1 DEF Latest
  <1> HIDE DEF rest, s
  <1>6. CASE rest = <<>>
    <2>1. m = 0
      BY <1>6, EmptySeq
    <2> HIDE DEF m, n
    <2>2. n = 1
      BY <1>2, <1>3, <2>1
    <2> QED BY <1>4, <1>5, <1>6, <2>2 DEF Latest
  <1>7. CASE rest # <<>>
    <2>1. m \in Nat \ {0}
      BY <1>2, <1>7, EmptySeq
    <2>2. Latest(new, after) <=> (new.mounted /\ ~new.timer => rest[m].params = new.params)
      BY <1>5, <1>7 DEF Latest
    <2> HIDE DEF m, n
    <2>3. m \in 1 .. m /\ m + 1 = n
      BY <1>2, <1>3, <2>1
    <2>4. rest[m] = s[n]
      BY <1>2, <2>3
    <2> QED BY <1>5, <2>2, <2>4
  <1> QED BY <1>6, <1>7

LEMMA FaultsCounted ==
    ASSUME TypeInv, TabsOK, [ListingNext]_listingVars PROVE faults' \in {faults, faults + 1}
  <1>1. BoardStep
    BY ListingBoard
  <1>2. CASE Unseen \/ UNCHANGED boardVars \/ Crash
    BY <1>2 DEF Unseen, boardVars, Crash, Fault
  <1>3. ASSUME NEW t \in Tasks, Step(t) PROVE faults' \in {faults, faults + 1}
    BY <1>3 DEF Step, FindPost, SaveEvent, Reload, IndexJobPost, ArchiveRow, GetDoc, DeleteDoc, FindEvents,
         RemoveEvents, CancelApps, Write, UpdateDoc, DeleteRow, FindSaved, AddSaved, RemoveSaved,
         FindExisting, SaveNew, SaveApp, SaveRow, SaveReview, PutObject, DeleteObject, Bulk, Only,
         Reject, PutFails, Fault
  <1> QED BY <1>1, <1>2, <1>3, RequestOpens DEF BoardStep, BoardNext

\* A listing stays as it is, is left, or is fading for a new search; or its timer
\* ends, or an answer to a search comes.
LEMMA ListMoves ==
    ASSUME listing \in [Tasks -> Listing], [ListingNext]_listingVars, NEW u \in Tasks
    PROVE  /\ \A t \in Tasks : FadeOutTimer(t) \/ SearchAnswered(t) \/ listing'[t] \in Listing
           /\ \/ listing'[u] = listing[u]
              \/ listing'[u].mounted = FALSE
              \/ listing'[u].timer = TRUE
              \/ FadeOutTimer(u) \/ SearchAnswered(u)
  <1>1. CASE UNCHANGED listingVars
    BY <1>1 DEF listingVars
  <1>2. CASE LeaveHome
    <2>1. \A t \in Tasks : listing'[t] \in {listing[t], Unmounted(listing[t])}
      BY <1>2 DEF LeaveHome
    <2> QED BY <2>1, UnmountedFits
  <1>3. ASSUME NEW t \in Tasks, NEW l \in Listing, List(t, Effect(l))
        PROVE  /\ \A v \in Tasks : listing'[v] \in Listing
               /\ listing'[u] = listing[u] \/ listing'[u].timer = TRUE
    <2>1. listing' = [listing EXCEPT ![t] = Effect(l)]
      BY <1>3 DEF List
    <2> QED BY <2>1, EffectFits
  <1>4. ASSUME NEW t \in Tasks, OpenHome(t) PROVE \E l \in Listing : List(t, Effect(l))
    BY <1>4, EffectFits DEF OpenHome
  <1>5. ASSUME NEW t \in Tasks, NEW q \in Params, SetParams(t, q) PROVE \E l \in Listing : List(t, Effect(l))
    BY <1>5, EffectFits DEF SetParams
  <1>6. ASSUME NEW t \in Tasks, ListingStep(t)
        PROVE  /\ FadeOutTimer(t) \/ SearchAnswered(t)
               /\ \A v \in Tasks \ {t} : listing'[v] = listing[v]
    <2>1. FadeOutTimer(t) \/ SearchAnswered(t)
      BY <1>6 DEF ListingStep
    <2>2. \E new : List(t, new)
      BY <2>1 DEF FadeOutTimer, SearchAnswered, SetData
    <2> QED BY <2>1, <2>2 DEF List
  <1>7. CASE \E t \in Tasks : ListingStep(t)
    BY <1>6, <1>7
  <1>8. CASE \E t \in Tasks, l \in Listing : List(t, Effect(l))
    BY <1>3, <1>8
  <1> QED BY <1>1, <1>2, <1>4, <1>5, <1>7, <1>8 DEF ListingNext

LEMMA TimerEnds ==
    ASSUME listing \in [Tasks -> Listing], NEW t \in Tasks, FadeOutTimer(t)
    PROVE  listing'[t] \in Listing /\ \A lost : Latest(listing'[t], lost)
  <1> DEFINE l == listing[t]
  <1>1. l \in Listing /\ listing' = [listing EXCEPT ![t] =
              [l EXCEPT !.timer = FALSE, !.sent = Append(@, [params |-> l.params, own |-> TRUE])]]
    BY DEF FadeOutTimer, List
  <1>2. listing'[t] = [l EXCEPT !.timer = FALSE, !.sent = Append(@, [params |-> l.params, own |-> TRUE])]
    BY <1>1
  <1> HIDE DEF l
  <1> QED BY <1>1, <1>2, SentFits

LEMMA AnswerComes ==
    ASSUME CallsOK, listing \in [Tasks -> Listing], NEW t \in Tasks, SearchAnswered(t), Latest(listing[t], faults > 0),
           faults' \in {faults, faults + 1}
    PROVE  listing'[t] \in Listing /\ Latest(listing'[t], faults' > 0)
  <1> DEFINE l == listing[t]
             s == l.sent
  <1>1. l \in Listing /\ s \in Seq(OneSearch) /\ s # <<>>
    BY DEF SearchAnswered, Listing, OneSearch
  <1>2. Head(s) \in OneSearch /\ Tail(s) \in Seq(OneSearch)
    BY <1>1, HeadTailProperties
  <1>3. Fault => faults' > 0
    BY DEF Fault, CallsOK
  <1>4. ASSUME NEW found \in SUBSET Posts, SetData(t, found)
        PROVE  listing'[t] \in Listing /\ Latest(listing'[t], faults' > 0)
    <2> DEFINE data == [params |-> Head(s).params, posts |-> found]
               new == [l EXCEPT !.sent = Tail(s), !.data = data]
               shown == [new EXCEPT !.loading = FALSE, !.fading = "in"]
    <2>1. data \in [params : Params \cup {None}, posts : SUBSET Posts] /\ data.params = Head(s).params
      BY <1>2 DEF OneSearch
    <2>2. listing' = [listing EXCEPT ![t] = IF Head(s).own THEN shown ELSE new]
      BY <1>4 DEF SetData, List
    <2>3. listing'[t] \in {shown, new}
      BY <2>2
    <2> HIDE DEF data, s, l
    <2>4. /\ new \in Listing /\ new.sent = Tail(s) /\ new.mounted = l.mounted /\ new.timer = l.timer
          /\ new.params = l.params /\ new.data = data
      BY <1>1, <1>2, <2>1 DEF Listing, OneSearch
    <2> HIDE DEF new
    <2>5. /\ shown \in Listing /\ shown.sent = Tail(s) /\ shown.mounted = l.mounted /\ shown.timer = l.timer
          /\ shown.params = l.params /\ shown.data = data
      BY <2>4 DEF Listing
    <2> HIDE DEF shown
    <2>6. PICK next \in {shown, new} : listing'[t] = next
      BY <2>3
    <2>7. /\ next \in Listing /\ next.sent = Tail(l.sent) /\ next.mounted = l.mounted /\ next.timer = l.timer
          /\ next.params = l.params /\ next.data.params = Head(l.sent).params
      BY <2>1, <2>4, <2>5 DEF s
    <2>8. Latest(l, faults > 0) /\ l.sent # <<>>
      BY <1>1 DEF l, s
    <2>9. Latest(next, faults' > 0)
      BY <1>1, <2>7, <2>8, FirstAnswered
    <2> QED BY <2>6, <2>7, <2>9
  <1>5. ASSUME List(t, [l EXCEPT !.sent = Tail(@)]), Fault
        PROVE  listing'[t] \in Listing /\ Latest(listing'[t], faults' > 0)
    <2> DEFINE new == [l EXCEPT !.sent = Tail(s)]
    <2>1. listing'[t] = new
      BY <1>5 DEF List
    <2> HIDE DEF s, l
    <2>2. /\ new \in Listing /\ new.sent = Tail(s) /\ new.mounted = l.mounted /\ new.timer = l.timer
          /\ new.params = l.params
      BY <1>1, <1>2 DEF Listing, OneSearch
    <2> HIDE DEF new
    <2>3. Latest(l, faults > 0) /\ l.sent # <<>> /\ new.sent = Tail(l.sent)
      BY <1>1, <2>2 DEF l, s
    <2>4. Latest(new, faults' > 0)
      BY <1>1, <1>3, <1>5, <2>2, <2>3, FirstAnswered
    <2> QED BY <2>1, <2>2, <2>4
  <1>6. Search(Head(s).params) \in SUBSET Posts
    BY <1>2, ListingsAssumption DEF Search, OneSearch
  <1> QED BY <1>4, <1>5, <1>6 DEF SearchAnswered

LEMMA ListInit == ListingInit => ListInv
  <1> DEFINE l == [mounted |-> FALSE, params |-> "all", timer |-> FALSE, sent |-> <<>>,
                   data |-> [params |-> None, posts |-> {}], loading |-> TRUE, fading |-> "in"]
  <1>1. l \in Listing /\ \A lost : Latest(l, lost)
    BY ListingsAssumption, EmptySeq DEF Listing, Latest
  <1> HIDE DEF l
  <1>2. ListingInit => listing = [t \in Tasks |-> l]
    BY DEF ListingInit, l
  <1> QED BY <1>1, <1>2 DEF ListInv

LEMMA ListStep == PagesInv /\ ListInv /\ [ListingNext]_listingVars => ListInv'
  <1> SUFFICES ASSUME PagesInv, ListInv, [ListingNext]_listingVars PROVE ListInv'
    OBVIOUS
  <1>1. TypeInv /\ CallsOK /\ TabsOK /\ listing \in [Tasks -> Listing]
    BY DEF PagesInv, DataInv, ClosingInv, BoardInv, TypeInv, ListInv
  <1>2. faults' \in {faults, faults + 1} /\ faults \in Nat
    BY <1>1, FaultsCounted DEF CallsOK
  <1>3. ASSUME NEW u \in Tasks PROVE listing'[u] \in Listing /\ Latest(listing'[u], faults' > 0)
    <2>1. Latest(listing[u], faults > 0) /\ listing[u] \in Listing
      BY <1>1 DEF ListInv
    <2>2. CASE FadeOutTimer(u)
      BY <1>1, <2>2, TimerEnds
    <2>3. CASE SearchAnswered(u)
      BY <1>1, <1>2, <2>1, <2>3, AnswerComes
    <2>4. CASE ~FadeOutTimer(u) /\ ~SearchAnswered(u)
      <3>1. listing'[u] \in Listing
        BY <1>1, <2>4, ListMoves
      <3>2. CASE listing'[u] = listing[u]
        <4>1. (faults > 0) => (faults' > 0)
          BY <1>2
        <4> QED BY <2>1, <3>2, <4>1 DEF Latest
      <3>3. CASE listing'[u].mounted = FALSE \/ listing'[u].timer = TRUE
        BY <3>1, <3>3 DEF Latest
      <3> QED BY <1>1, <2>4, <3>1, <3>2, <3>3, ListMoves
    <2> QED BY <2>2, <2>3, <2>4
  <1>4. DOMAIN listing' = Tasks /\ listing' = [t \in Tasks |-> listing'[t]]
    BY <1>1 DEF ListingNext, LeaveHome, ListingStep, OpenHome, SetParams, FadeOutTimer, SearchAnswered,
         SetData, List, listingVars
  <1>5. listing' \in [Tasks -> Listing]
    BY <1>3, <1>4
  <1> QED BY <1>3, <1>5 DEF ListInv

\* A listing that is not fading and waits for nothing shows the posts for the
\* parameters on the screen, whatever was changed, left and opened meanwhile, unless
\* an await was rejected.
THEOREM ListingShowsLatest == ListingsSpec => []ShownIsLatest
  <1>1. PagesInv /\ ListInv => ShownIsLatest
    BY DEF ListInv, Latest, ShownIsLatest
  <1> QED BY <1>1, PagesInit, PagesStep, ListInit, ListStep, PTL DEF ListingsSpec

-------------------------------------------------------------------------------
(* The type invariant. *)

BrowserInv == reviewed \in [Tasks -> SUBSET Ids] /\ left \subseteq Ids /\ clicks \in Nat
\* A review is remembered, or the marks are read from the server, or a click is spent.
Spends(t) ==
    /\ \/ UNCHANGED marks
       \/ (\E a \in Ids : reviewed' = [reviewed EXCEPT ![t] = @ \cup {a}]) /\ left' = left
       \/ HydrateFromServer(t)
    /\ clicks' = clicks \/ Click

LEMMA AnswerSpends == ASSUME NEW t \in Tasks, Answer(t) PROVE Spends(t)
  <1>1. ASSUME NEW new, Settle(t, new) PROVE Spends(t)
    BY <1>1 DEF Settle, Quietly, Spends
  <1>2. ASSUME NEW new, Refresh(t, new) PROVE Spends(t)
    BY <1>2 DEF Refresh, Quietly, Spends
  <1>3. ASSUME ReviewFollows(t) PROVE Spends(t)
    BY <1>3 DEF ReviewFollows, Spends
  <1>4. ASSUME EventAnswered(t) PROVE Spends(t)
    BY <1>1, <1>4 DEF EventAnswered, Spends
  <1> QED BY <1>1, <1>2, <1>3, <1>4 DEF Answer, WithdrawAnswered, ReviewAnswered, ResponseAnswered,
             ArchiveAnswered, ApplyAnswered, StatusAnswered, DeleteAnswered, UploadAnswered, CreateAnswered

LEMMA UserSpends == ASSUME NEW t \in Tasks, UserAct(t) PROVE Spends(t)
  <1>1. ASSUME UNCHANGED marks \/ HydrateFromServer(t), Click \/ UNCHANGED clicks PROVE Spends(t)
    BY <1>1 DEF Spends
  <1>2. ASSUME NEW wait, NEW target, Send(t, wait, target) PROVE UNCHANGED marks
    BY <1>2 DEF Send
  <1>3. ASSUME NEW page, NEW p, OpenPage(t, page, p) \/ OpenFails(t, page, p) PROVE Spends(t)
    BY <1>1, <1>3 DEF OpenPage, OpenFails, Quietly
  <1>4. ASSUME CloseDialog(t) PROVE Spends(t)
    BY <1>1, <1>4 DEF CloseDialog, Quietly
  <1>5. ASSUME ApplicationsPage(t) PROVE Spends(t)
    <2>1. ASSUME NEW a \in Ids, HandleWithdraw(t, a) PROVE Spends(t)
      BY <1>1, <1>2, <2>1 DEF HandleWithdraw
    <2>2. ASSUME NEW a \in Ids, HandleReview(t, a) PROVE Spends(t)
      BY <2>2 DEF HandleReview, Spends
    <2>3. ASSUME SubmitReview(t) PROVE Spends(t)
      BY <1>1, <1>2, <2>3 DEF SubmitReview
    <2> QED BY <1>5, <2>1, <2>2, <2>3 DEF ApplicationsPage
  <1>6. ASSUME MyPostsPage(t) PROVE Spends(t)
    <2>1. ASSUME NEW a, OnRespond(t, a) PROVE Spends(t)
      BY <1>1, <2>1 DEF OnRespond, Quietly
    <2>2. ASSUME NEW status, SubmitResponse(t, status) PROVE Spends(t)
      BY <1>1, <1>2, <2>2 DEF SubmitResponse
    <2>3. ASSUME SubmitComplete(t) PROVE Spends(t)
      BY <1>1, <1>2, <2>3 DEF SubmitComplete
    <2>4. ASSUME NEW p, ArchiveClicked(t, p) PROVE Spends(t)
      BY <1>1, <2>4 DEF ArchiveClicked
    <2> QED BY <1>6, <2>1, <2>2, <2>3, <2>4 DEF MyPostsPage
  <1>7. ASSUME JobDetails(t) PROVE Spends(t)
    <2>1. ASSUME OpenApply(t) PROVE Spends(t)
      BY <1>1, <2>1 DEF OpenApply, Quietly
    <2>2. ASSUME SubmitApply(t) \/ HandleDelete(t) PROVE Spends(t)
      BY <1>1, <1>2, <2>2 DEF SubmitApply, HandleDelete
    <2>3. ASSUME NEW a, NEW approve, ConfirmStatus(t, a, approve) PROVE Spends(t)
      BY <1>1, <1>2, <2>3 DEF ConfirmStatus
    <2> QED BY <1>7, <2>1, <2>2, <2>3 DEF JobDetails
  <1>8. ASSUME ImageManager(t) \/ JobPostForm(t) PROVE Spends(t)
    <2>1. ASSUME NEW k, HandleUpload(t, k) \/ HandleDeleteImage(t, k) PROVE Spends(t)
      BY <1>1, <1>2, <2>1 DEF HandleUpload, HandleDeleteImage, Quietly
    <2>2. ASSUME NEW p, SubmitPost(t, p) \/ SubmitEdit(t, p) PROVE Spends(t)
      BY <1>1, <2>2 DEF SubmitPost, SubmitEdit, Quietly
    <2> QED BY <1>8, <2>1, <2>2 DEF ImageManager, JobPostForm
  <1>9. ASSUME CalendarView(t) PROVE Spends(t)
    <2>1. ASSUME NEW e, HandleEventClick(t, e) PROVE Spends(t)
      BY <1>1, <2>1 DEF HandleEventClick, Quietly
    <2>2. ASSUME HandleCreateEvent(t) \/ HandleEdit(t) PROVE Spends(t)
      BY <1>1, <2>2 DEF HandleCreateEvent, HandleEdit, Quietly
    <2>3. ASSUME SubmitEvent(t) \/ HandleDeleteEvent(t) PROVE Spends(t)
      BY <1>1, <1>2, <2>3 DEF SubmitEvent, HandleDeleteEvent
    <2> QED BY <1>9, <2>1, <2>2, <2>3 DEF CalendarView
  <1> QED BY <1>3, <1>4, <1>5, <1>6, <1>7, <1>8, <1>9 DEF UserAct

LEMMA BrowserStep == BrowserInv /\ [ListingNext]_listingVars => BrowserInv'
  <1> SUFFICES ASSUME BrowserInv, [ListingNext]_listingVars PROVE BrowserInv'
    OBVIOUS
  <1>1. CASE UNCHANGED <<marks, clicks>>
    BY <1>1 DEF BrowserInv, marks
  <1>2. CASE \E t \in Tasks : Spends(t)
    <2>1. Click => clicks' \in Nat
      <3>1. clicks > 0 => clicks - 1 \in Nat
        BY DEF BrowserInv
      <3> QED BY <3>1 DEF Click
    <2>2. reviewed' \in [Tasks -> SUBSET Ids] /\ left' \subseteq Ids
      <3>1. \A t : AlreadyReviewed(t) \subseteq Ids
        BY DEF AlreadyReviewed, AppIds
      <3> QED BY <1>2, <3>1 DEF Spends, BrowserInv, HydrateFromServer, marks
    <2> QED BY <1>2, <2>1, <2>2 DEF Spends, BrowserInv
  <1>3. \/ UNCHANGED <<marks, clicks>> \/ \E t \in Tasks : Answer(t) \/ UserAct(t)
    BY DEF ListingNext, Next, PageStep, ServerStep, ListingStep, OpenHome, SetParams, FadeOutTimer,
         SearchAnswered, NotBoard, listingVars, pageVars
  <1> QED BY <1>1, <1>2, <1>3, AnswerSpends, UserSpends

\* The variables of the pages and of the listing keep their types.
THEOREM ListingTypes == ListingsSpec => []ListingTypeOK
  <1>1. ListingInit => BrowserInv
    <2> SUFFICES ASSUME ListingInit PROVE BrowserInv
      OBVIOUS
    <2>1. CallsOK
      BY PagesInit DEF PagesInv, DataInv, ClosingInv, BoardInv, TypeInv
    <2>2. calls["click"] \in Nat
      BY <2>1 DEF CallsOK, Bounds
    <2> QED BY <2>2 DEF ListingInit, Init, BrowserInv
  <1>2. PagesInv /\ ListInv /\ BrowserInv => ListingTypeOK
    BY DEF PagesInv, TabsOK, ListInv, BrowserInv, ListingTypeOK, PagesTypeOK
  <1> QED BY <1>1, <1>2, BrowserStep, PagesInit, PagesStep, ListInit, ListStep, PTL DEF ListingsSpec

-------------------------------------------------------------------------------
(* What each action of a page does to its tab. *)

\* A list of applications is what was shown, or read now, and its dialog was open.
Turns(t) ==
    tab'[t].page = "applications" =>
        /\ tab[t].page = "applications" \/ ~IsEmployer(t)
        /\ tab'[t].apps = Requests(t) \/ (tab[t].page = "applications" /\ tab'[t].apps = tab[t].apps)
        /\ tab'[t].dialog # None => tab[t].page = "applications" /\ tab'[t].dialog = tab[t].dialog

LEMMA ShowIs ==
    ASSUME TabsOK, TabsOK', NEW t \in Tasks, NEW new, Show(t, new)
    PROVE  tab'[t] = new /\ new \in Tab /\ tab[t] \in Tab
  BY DEF TabsOK, Show

LEMMA SettleIs ==
    ASSUME TabsOK, TabsOK', NEW t \in Tasks, NEW new, Settle(t, new)
    PROVE  /\ tab'[t].wait = None /\ task' = task
           /\ tab'[t].page = new.page /\ tab'[t].apps = new.apps /\ tab'[t].dialog = new.dialog
           /\ tab'[t].toast = new.toast
  <1>1. tab'[t] = [new EXCEPT !.wait = None, !.target = None] /\ tab'[t] \in Tab
    BY ShowIs DEF Settle
  <1>2. {"wait", "page", "apps", "dialog", "toast"} \subseteq DOMAIN new
    BY <1>1 DEF Tab
  <1> QED BY <1>1, <1>2 DEF Settle, Quietly, boardVars

LEMMA RefreshIs ==
    ASSUME TabsOK, TabsOK', NEW t \in Tasks, NEW new, Refresh(t, new), new.page = tab[t].page
    PROVE  /\ tab'[t].wait = None /\ task' = task
           /\ \/ tab'[t].page = "broken"
              \/ tab'[t].page = new.page /\ tab'[t].apps = Requests(t) /\ tab'[t].dialog = new.dialog
              \/ tab'[t].page = new.page /\ new.page # "applications"
  <1>1. CASE Show(t, [new EXCEPT !.wait = None, !.target = None, !.apps = Requests(t)]) /\ Quietly
    <2>1. tab'[t] = [new EXCEPT !.wait = None, !.target = None, !.apps = Requests(t)] /\ tab'[t] \in Tab
      BY <1>1, ShowIs
    <2>2. {"wait", "page", "apps", "dialog", "toast"} \subseteq DOMAIN new
      BY <2>1 DEF Tab
    <2> QED BY <1>1, <2>1, <2>2 DEF Quietly, boardVars
  <1>2. CASE Show(t, Blank("broken", None)) /\ UNCHANGED task
    <2>1. tab'[t] = Blank("broken", None)
      BY <1>2, ShowIs
    <2> QED BY <1>2, <2>1 DEF Blank
  <1>3. CASE /\ Show(t, [new EXCEPT !.wait = None, !.target = None, !.apps = NoApps]) /\ UNCHANGED task
             /\ new.page # "applications"
    <2>1. tab'[t] = [new EXCEPT !.wait = None, !.target = None, !.apps = NoApps] /\ tab'[t] \in Tab
      BY <1>3, ShowIs
    <2>2. {"wait", "page", "apps", "dialog", "toast"} \subseteq DOMAIN new
      BY <2>1 DEF Tab
    <2> QED BY <1>3, <2>1, <2>2
  <1> QED BY <1>1, <1>2, <1>3 DEF Refresh

LEMMA SendIs ==
    ASSUME TabsOK, TabsOK', NEW t \in Tasks, NEW wait, NEW target, Send(t, wait, target)
    PROVE  /\ tab'[t].wait = wait /\ tab'[t].target = target /\ tab'[t].toast = None
           /\ tab'[t].page = tab[t].page /\ tab'[t].post = tab[t].post
           /\ tab'[t].apps = tab[t].apps /\ tab'[t].dialog = tab[t].dialog
           /\ Idle(t) /\ Turns(t)
  <1>1. tab'[t] = [tab[t] EXCEPT !.wait = wait, !.target = target, !.toast = None] /\ tab[t] \in Tab
    BY ShowIs DEF Send
  <1>2. /\ tab'[t].wait = wait /\ tab'[t].target = target /\ tab'[t].toast = None
        /\ tab'[t].page = tab[t].page /\ tab'[t].post = tab[t].post
        /\ tab'[t].apps = tab[t].apps /\ tab'[t].dialog = tab[t].dialog
    BY <1>1 DEF Tab
  <1> QED BY <1>2 DEF Turns, Send

LEMMA ToastedIs ==
    ASSUME NEW t, tab[t] \in Tab, NEW toast
    PROVE  /\ Toasted(t, toast).page = tab[t].page /\ Toasted(t, toast).apps = tab[t].apps
           /\ Toasted(t, toast).dialog = tab[t].dialog /\ Toasted(t, toast).toast = toast
           /\ DialogClosed(t, toast).page = tab[t].page /\ DialogClosed(t, toast).apps = tab[t].apps
           /\ DialogClosed(t, toast).dialog = None /\ DialogClosed(t, toast).toast = toast
  BY DEF Toasted, DialogClosed, Tab

\* An answer ends the wait it is for.
LEMMA AnswerTurns ==
    ASSUME DataOK, TabsOK, NEW t \in Tasks, Answer(t)
    PROVE  /\ Turns(t) /\ tab'[t].wait \in {None, "reviewAfter"}
           /\ task' = task \/ ReviewFollows(t)
           /\ tab[t].wait # None
           /\ tab[t].wait = "review" => ReviewAnswered(t)
           /\ tab[t].wait = "apply" => ApplyAnswered(t)
           /\ tab[t].wait = "delete" => DeleteAnswered(t)
           /\ tab[t].wait = "upload" => UploadAnswered(t)
  <1>0. TabsOK' /\ tab[t] \in Tab
    BY AnswerShows, ShowsFit DEF TabsOK
  <1> DEFINE Over == Turns(t) /\ tab'[t].wait = None /\ task' = task
  <1>s. ASSUME NEW new, Settle(t, new), new.page # "applications" PROVE Over
    BY <1>0, <1>s, SettleIs DEF Turns
  <1>k. ASSUME NEW new, Settle(t, new), new.page = tab[t].page, new.apps = tab[t].apps,
               new.dialog = tab[t].dialog \/ new.dialog = None
        PROVE  Over
    BY <1>0, <1>k, SettleIs DEF Turns
  <1>r. ASSUME NEW new, Refresh(t, new), new.page = tab[t].page,
               new.dialog = tab[t].dialog \/ new.dialog = None
        PROVE  Over
    BY <1>0, <1>r, RefreshIs DEF Turns
  <1>t. \A toast : /\ Settle(t, Toasted(t, toast)) => Over
                   /\ Settle(t, DialogClosed(t, toast)) => Over
                   /\ Refresh(t, DialogClosed(t, toast)) => Over
    BY <1>0, <1>k, <1>r, ToastedIs
  <1>w. \A wait : Returned(t, wait) => tab[t].wait = wait
    BY DEF Returned
  <1>1. ASSUME WithdrawAnswered(t) PROVE Over /\ tab[t].wait = "withdraw"
    BY <1>1, <1>k, <1>r, <1>w DEF WithdrawAnswered
  <1>2. ASSUME ReviewAnswered(t) PROVE Over /\ tab[t].wait = "review"
    BY <1>2, <1>t, <1>w DEF ReviewAnswered
  <1>3. ASSUME ReviewFollows(t) PROVE Turns(t) /\ tab'[t].wait = "reviewAfter" /\ tab[t].wait = "complete"
    <2>1. tab'[t] = [tab[t] EXCEPT !.wait = "reviewAfter"]
      BY <1>0, <1>3, ShowIs DEF ReviewFollows
    <2>2. /\ tab'[t].wait = "reviewAfter" /\ tab'[t].page = tab[t].page /\ tab'[t].apps = tab[t].apps
          /\ tab'[t].dialog = tab[t].dialog
      BY <1>0, <2>1 DEF Tab
    <2> QED BY <1>3, <1>w, <2>2 DEF ReviewFollows, Turns
  <1>4. ASSUME ResponseAnswered(t) PROVE Over /\ tab[t].wait \in {"respond", "complete", "reviewAfter"}
    BY <1>4, <1>t, <1>w DEF ResponseAnswered
  <1>5. ASSUME ArchiveAnswered(t) PROVE Over /\ tab[t].wait = "archive"
    BY <1>5, <1>s, <1>w, ReadIs DEF ArchiveAnswered
  <1>6. ASSUME ApplyAnswered(t) PROVE Over /\ tab[t].wait = "apply"
    BY <1>6, <1>t, <1>w DEF ApplyAnswered
  <1>7. ASSUME StatusAnswered(t) PROVE Over /\ tab[t].wait = "status"
    BY <1>7, <1>k, <1>r, <1>w DEF StatusAnswered
  <1>8. ASSUME DeleteAnswered(t) PROVE Over /\ tab[t].wait = "delete"
    <2> DEFINE new == Loaded(t, "myPosts", None)
    <2>1. [new EXCEPT !.toast = "success"].page # "applications"
      BY DEF Loaded, Blank
    <2> QED BY <1>8, <1>s, <1>t, <1>w, <2>1 DEF DeleteAnswered
  <1>9. ASSUME UploadAnswered(t) PROVE Over /\ tab[t].wait = "upload"
    <2> DEFINE new == [Toasted(t, "success") EXCEPT !.images = @ \cup {tab[t].target}]
    <2>1. new.page = tab[t].page /\ new.apps = tab[t].apps /\ new.dialog = tab[t].dialog
      BY <1>0 DEF Toasted, Tab
    <2> QED BY <1>9, <1>k, <1>t, <1>w, <2>1 DEF UploadAnswered
  <1>10. ASSUME CreateAnswered(t) PROVE Over /\ tab[t].wait = "create"
    <2>1. /\ [Blank("images", None) EXCEPT !.toast = "error"].page # "applications"
          /\ [Loaded(t, "images", tab[t].post) EXCEPT !.toast = "success"].page # "applications"
      BY DEF Loaded, Blank
    <2> QED BY <1>10, <1>s, <1>t, <1>w, <2>1 DEF CreateAnswered
  <1>11. ASSUME EventAnswered(t) PROVE Over /\ tab[t].wait \in {"addEvent", "removeEvent"}
    <2> DEFINE u == DialogClosed(t, "success")
               new == [u EXCEPT !.event = None, !.wait = None, !.target = None]
    <2>1. new.page = tab[t].page /\ new.apps = tab[t].apps /\ new.dialog = None /\ new.wait = None /\ new \in Tab
      <3>1. u \in Tab
        BY <1>0 DEF DialogClosed, Toasted, Tab
      <3>2. u.page = tab[t].page /\ u.apps = tab[t].apps /\ u.dialog = None
        BY <1>0, ToastedIs
      <3> DEFINE v == [u EXCEPT !.event = None]
      <3> HIDE DEF u
      <3>3. v \in Tab /\ v.page = u.page /\ v.apps = u.apps /\ v.dialog = u.dialog
        BY <3>1 DEF Tab
      <3>4. new = [v EXCEPT !.wait = None, !.target = None]
        OBVIOUS
      <3> HIDE DEF v, new
      <3>5. new.page = v.page /\ new.apps = v.apps /\ new.dialog = v.dialog /\ new.wait = None
        BY <3>3, <3>4 DEF Tab
      <3>6. new \in Tab
        BY <3>3, <3>4 DEF Tab
      <3> QED BY <3>2, <3>3, <3>5, <3>6
    <2>2. /\ \/ Settle(t, Toasted(t, "error"))
             \/ Settle(t, [new EXCEPT !.events = EventsShown(t)])
             \/ (Show(t, [new EXCEPT !.events = {}]) \/ Show(t, [new EXCEPT !.toast = "error"])) /\ task' = task
          /\ tab[t].wait \in {"addEvent", "removeEvent"}
      BY <1>11, <1>w DEF EventAnswered
    <2> HIDE DEF new
    <2>3. ASSUME NEW next \in {[new EXCEPT !.events = EventsShown(t)], [new EXCEPT !.events = {}],
                              [new EXCEPT !.toast = "error"]}
          PROVE  next.page = tab[t].page /\ next.apps = tab[t].apps /\ next.dialog = None /\ next.wait = None
      BY <2>1 DEF Tab
    <2>4. ASSUME Show(t, [new EXCEPT !.events = {}]) \/ Show(t, [new EXCEPT !.toast = "error"]), task' = task
          PROVE  Over
      <3>1. tab'[t] = [new EXCEPT !.events = {}] \/ tab'[t] = [new EXCEPT !.toast = "error"]
        BY <1>0, <2>4, ShowIs
      <3> QED BY <2>3, <2>4, <3>1 DEF Turns
    <2>5. Settle(t, [new EXCEPT !.events = EventsShown(t)]) => Over
      BY <1>k, <2>3
    <2> QED BY <1>t, <2>2, <2>4, <2>5
  <1>n. None \notin {"withdraw", "review", "complete", "respond", "reviewAfter", "archive", "apply", "status",
                     "delete", "upload", "create", "addEvent", "removeEvent"}
    BY PagesAssumption DEF Waits
  <1> QED BY <1>1, <1>2, <1>3, <1>4, <1>5, <1>6, <1>7, <1>8, <1>9, <1>10, <1>11, <1>n DEF Answer

\* What a user starts is not waited for before.
Starts(t) ==
    /\ tab'[t].wait = "review" => SubmitReview(t)
    /\ tab'[t].wait = "apply" => SubmitApply(t)
    /\ tab'[t].wait = "delete" => HandleDelete(t)
    /\ tab'[t].wait = "upload" => \E k \in Keys : HandleUpload(t, k)

\* A page is opened, whatever the one before it waits for.
Opened(t) == tab'[t].wait = None /\ tab'[t].toast = None /\ tab'[t].dialog = None /\ task' = task

LEMMA PageTurns ==
    ASSUME DataOK, TabsOK, NEW t \in Tasks, NEW page \in Offered(t), NEW p \in Posts,
           OpenPage(t, page, p) \/ OpenFails(t, page, p)
    PROVE  Opened(t) /\ Turns(t) /\ (UNCHANGED marks \/ HydrateFromServer(t))
  <1>0. TabsOK'
    <2>1. Shows(t)
      BY PageShows
    <2> QED BY <2>1, ShowsFit
  <1>1. page = "applications" => ~IsEmployer(t)
    BY DEF Offered
  <1>2. PICK new \in {Loaded(t, page, p), NotLoaded(page, p)} : Show(t, new)
    BY DEF OpenPage, OpenFails
  <1>3. /\ new.wait = None /\ new.toast = None /\ new.dialog = None
        /\ new.page = "applications" => new.apps = Requests(t) /\ ~IsEmployer(t)
    <2>1. NotLoaded(page, p).wait = None /\ NotLoaded(page, p).dialog = None /\ NotLoaded(page, p).toast = None
      BY ReadIs
    <2>2. NotLoaded(page, p).page # "applications"
      BY ReadIs
    <2>3. CASE new = Loaded(t, page, p)
      BY <1>1, <2>3, ReadIs
    <2>4. CASE new = NotLoaded(page, p)
      BY <2>1, <2>2, <2>4
    <2> QED BY <1>2, <2>3, <2>4
  <1>4. tab'[t] = new /\ task' = task
    BY <1>0, <1>2, ShowIs DEF OpenPage, OpenFails, boardVars
  <1>5. UNCHANGED marks \/ HydrateFromServer(t)
    BY DEF OpenPage, OpenFails
  <1> QED BY <1>3, <1>4, <1>5 DEF Opened, Turns

\* A user acts on a page that waits for nothing, or opens another one.
LEMMA UserTurns ==
    ASSUME DataOK, TabsOK, NEW t \in Tasks, UserAct(t) \/ OpenHome(t)
    PROVE  /\ Idle(t) \/ Opened(t)
           /\ Starts(t)
           /\ Turns(t) \/ \E a \in Ids : HandleReview(t, a)
  <1>0. TabsOK' /\ tab[t] \in Tab
    <2>1. Shows(t)
      <3>1. OpenHome(t) => Shows(t)
        BY BlankFits DEF OpenHome, Shows, Pages
      <3> QED BY <3>1, UserShows
    <2> QED BY <2>1, ShowsFit DEF TabsOK
  <1>n. None \notin {"review", "apply", "delete", "upload"}
    BY PagesAssumption DEF Waits
  <1>i. Idle(t) => tab[t].wait = None
    BY DEF Idle
  <1> DEFINE Goal == (Idle(t) \/ Opened(t)) /\ Starts(t) /\ Turns(t)
  \* a page that is read
  <1>r. ASSUME NEW new, Show(t, new), Idle(t), new.wait \notin {"review", "apply", "delete", "upload"},
               new.page = "applications" => new.apps = Requests(t) /\ new.dialog = None /\ ~IsEmployer(t)
        PROVE  Goal
    BY <1>0, <1>n, <1>r, ShowIs DEF Starts, Turns
  \* a page that is left as it is, but for its dialog
  <1>k. ASSUME NEW new, Show(t, new), Idle(t), new.wait = None,
               /\ new.page = tab[t].page
               /\ new.page = "applications" => new.apps = tab[t].apps /\ new.dialog \in {None, tab[t].dialog}
        PROVE  Goal
    BY <1>0, <1>n, <1>k, ShowIs DEF Starts, Turns
  <1>s. ASSUME NEW wait, NEW target, Send(t, wait, target), wait \notin {"review", "apply", "delete", "upload"}
        PROVE  Goal
    BY <1>0, <1>s, SendIs DEF Starts
  <1>q. ASSUME NEW wait, NEW target, Send(t, wait, target) PROVE Idle(t) /\ Turns(t) /\ tab'[t].wait = wait
    BY <1>0, <1>q, SendIs
  <1>1. ASSUME NEW page \in Offered(t), NEW p \in Posts, OpenPage(t, page, p) \/ OpenFails(t, page, p)
        PROVE  Goal
    BY <1>1, <1>n, PageTurns DEF Opened, Starts
  <1>2. ASSUME OpenHome(t) PROVE Goal
    <2>1. Show(t, Blank("home", None)) /\ Idle(t)
      BY <1>2 DEF OpenHome
    <2>2. Blank("home", None).page = "home" /\ Blank("home", None).wait = None
      BY DEF Blank
    <2> QED BY <1>n, <1>r, <2>1, <2>2
  <1>3. ASSUME CloseDialog(t) PROVE Goal
    <2>1. /\ [tab[t] EXCEPT !.dialog = None].wait = tab[t].wait /\ [tab[t] EXCEPT !.dialog = None].page = tab[t].page
          /\ [tab[t] EXCEPT !.dialog = None].apps = tab[t].apps /\ [tab[t] EXCEPT !.dialog = None].dialog = None
          /\ [tab[t] EXCEPT !.event = None].wait = tab[t].wait /\ [tab[t] EXCEPT !.event = None].page = tab[t].page
          /\ [tab[t] EXCEPT !.event = None].apps = tab[t].apps
          /\ [tab[t] EXCEPT !.event = None].dialog = tab[t].dialog
      BY <1>0 DEF Tab
    <2> QED BY <1>3, <1>i, <1>k, <2>1 DEF CloseDialog
  <1>4. ASSUME NEW a, HandleWithdraw(t, a) PROVE Goal
    BY <1>4, <1>s DEF HandleWithdraw
  <1>5. ASSUME NEW a, HandleReview(t, a) PROVE Idle(t) /\ Starts(t)
    <2>1. tab'[t] = [tab[t] EXCEPT !.dialog = [app |-> a, status |-> "completed"]]
      BY <1>0, <1>5, ShowIs DEF HandleReview
    <2>2. tab'[t].wait = tab[t].wait
      BY <1>0, <2>1 DEF Tab
    <2> QED BY <1>5, <1>i, <1>n, <2>2 DEF HandleReview, Starts
  <1>6. ASSUME SubmitReview(t) PROVE Goal
    BY <1>6, <1>q DEF SubmitReview, Starts
  <1>7. ASSUME NEW a, OnRespond(t, a) PROVE Goal
    <2> DEFINE new == [tab[t] EXCEPT !.dialog = [app |-> a, status |-> tab[t].apps[a]]]
    <2>1. new.wait = tab[t].wait /\ new.page = "myPosts" /\ tab[t].page = "myPosts"
      BY <1>0, <1>7 DEF OnRespond, CanRespond, Tab
    <2>2. Show(t, new) /\ Idle(t)
      BY <1>7 DEF OnRespond
    <2> HIDE DEF new
    <2> QED BY <1>i, <1>k, <2>1, <2>2
  <1>8. ASSUME NEW status, SubmitResponse(t, status) PROVE Goal
    BY <1>8, <1>s DEF SubmitResponse
  <1>9. ASSUME SubmitComplete(t) PROVE Goal
    BY <1>9, <1>s DEF SubmitComplete
  <1>10. ASSUME NEW p, ArchiveClicked(t, p) PROVE Goal
    <2> DEFINE new == [Blank("details", p) EXCEPT !.wait = "archive"]
    <2>1. new.wait = "archive" /\ new.page = "details"
      BY DEF Blank
    <2>2. Show(t, new) /\ Idle(t)
      BY <1>10 DEF ArchiveClicked
    <2> HIDE DEF new
    <2> QED BY <1>r, <2>1, <2>2
  <1>11. ASSUME OpenApply(t) \/ HandleCreateEvent(t) \/ HandleEdit(t) PROVE Goal
    <2> DEFINE new == [tab[t] EXCEPT !.dialog = [app |-> None, status |-> None]]
    <2>1. new.wait = tab[t].wait /\ new.page = tab[t].page /\ tab[t].page \in {"details", "calendar"}
      BY <1>0, <1>11 DEF OpenApply, CanApply, HandleCreateEvent, HandleEdit, Tab
    <2>2. Show(t, new) /\ Idle(t)
      BY <1>11 DEF OpenApply, HandleCreateEvent, HandleEdit
    <2> HIDE DEF new
    <2> QED BY <1>i, <1>k, <2>1, <2>2
  <1>12. ASSUME SubmitApply(t) PROVE Goal
    BY <1>12, <1>q DEF SubmitApply, Starts
  <1>13. ASSUME HandleDelete(t) PROVE Goal
    BY <1>13, <1>q DEF HandleDelete, Starts
  <1>14. ASSUME NEW a, NEW approve, ConfirmStatus(t, a, approve) PROVE Goal
    BY <1>14, <1>s DEF ConfirmStatus
  <1>15. ASSUME NEW k \in Keys, HandleUpload(t, k) PROVE Goal
    <2>1. Send(t, "upload", k)
      BY <1>15 DEF HandleUpload
    <2>2. Idle(t) /\ Turns(t) /\ tab'[t].wait = "upload"
      BY <1>q, <2>1
    <2>3. \E q \in Keys : HandleUpload(t, q)
      BY <1>15
    <2>4. Starts(t)
      BY <2>2, <2>3 DEF Starts
    <2> QED BY <2>2, <2>4
  <1>16. ASSUME NEW k, HandleDeleteImage(t, k) PROVE Goal
    <2> DEFINE new == [Toasted(t, "success") EXCEPT !.images = @ \ {k}]
    <2>1. new.wait = tab[t].wait /\ new.page = "images" /\ tab[t].page = "images"
      BY <1>0, <1>16 DEF HandleDeleteImage, Toasted, Tab
    <2>2. Show(t, new) /\ Idle(t)
      BY <1>16 DEF HandleDeleteImage
    <2> HIDE DEF new
    <2> QED BY <1>i, <1>k, <2>1, <2>2
  <1>17. ASSUME NEW p, SubmitPost(t, p) PROVE Goal
    <2> DEFINE new == [tab[t] EXCEPT !.wait = "create", !.post = p, !.toast = None]
    <2>1. new.wait = "create" /\ new.page = "form"
      BY <1>0, <1>17 DEF SubmitPost, Tab
    <2>2. Show(t, new) /\ Idle(t)
      BY <1>17 DEF SubmitPost
    <2> HIDE DEF new
    <2> QED BY <1>r, <2>1, <2>2
  <1>18. ASSUME NEW p, SubmitEdit(t, p) PROVE Goal
    <2> DEFINE new == [Details(t, p) EXCEPT !.toast = "error"]
    <2>1. new.wait = None /\ new.page # "applications"
      BY DEF Details, Blank
    <2>2. Show(t, new) /\ Idle(t)
      BY <1>18 DEF SubmitEdit
    <2> HIDE DEF new
    <2> QED BY <1>n, <1>r, <2>1, <2>2
  <1>19. ASSUME NEW e, HandleEventClick(t, e) PROVE Goal
    <2> DEFINE new == [tab[t] EXCEPT !.event = e]
    <2>1. new.wait = tab[t].wait /\ new.page = tab[t].page /\ tab[t].page = "calendar"
      BY <1>0, <1>19 DEF HandleEventClick, Tab
    <2>2. Show(t, new) /\ Idle(t)
      BY <1>19 DEF HandleEventClick
    <2> HIDE DEF new
    <2> QED BY <1>i, <1>k, <2>1, <2>2
  <1>20. ASSUME SubmitEvent(t) \/ HandleDeleteEvent(t) PROVE Goal
    BY <1>20, <1>s DEF SubmitEvent, HandleDeleteEvent
  <1> HIDE DEF Goal
  <1>21. CASE \E a \in Ids : HandleReview(t, a)
    BY <1>5, <1>21
  <1>22. CASE ~\E a \in Ids : HandleReview(t, a)
    <2>1. Goal
      BY <1>1, <1>2, <1>3, <1>4, <1>6, <1>7, <1>8, <1>9, <1>10, <1>11, <1>12, <1>13, <1>14, <1>15, <1>16,
         <1>17, <1>18, <1>19, <1>20, <1>22
         DEF UserAct, ApplicationsPage, MyPostsPage, JobDetails, ImageManager, JobPostForm, CalendarView
    <2> QED BY <2>1 DEF Goal
  <1> QED BY <1>21, <1>22

-------------------------------------------------------------------------------
(* What the pages tell of an answer they look at. *)

Checked == {"apply", "delete", "upload"}
Applied(p, u) == p \in deleted \/ \E a \in AppsOf(p) : apps[a].user = u
\* The post names the image, and so does every row that is to be saved over it.
Named(p, k) ==
    \/ p \in deleted \/ Met(p, {"upload"}, Writers)
    \/ /\ k \in bucket /\ Exists(p) /\ k \in posts[p].photos
       /\ \A t \in Tasks : On(t, p) /\ task[t].kind \in Writers => k \in task[t].row.photos

\* The request that a tab waits for is the one it sent, and has done what it is for, or is to.
Earns(t) ==
    /\ tab[t].post \in Posts /\ task[t].kind = tab[t].wait /\ task[t].post = tab[t].post
    /\ tab[t].wait = "apply" =>
          \/ task[t].todo \in {{"findExisting"}, {"saveNew"}} /\ task[t].user = TabUser[t]
          \/ task[t].todo = {} /\ Applied(tab[t].post, TabUser[t])
    /\ tab[t].wait = "delete" => task[t].todo = {"deleteRow"} \/ tab[t].post \in deleted
    /\ tab[t].wait = "upload" =>
          \/ task[t].todo = {"put"} /\ task[t].keys = {tab[t].target}
          \/ task[t].todo = {"saveRow"} /\ tab[t].target \in bucket /\ tab[t].target \in task[t].row.photos
          \/ task[t].todo = {} /\ Named(tab[t].post, tab[t].target)
WaitInv ==
    \A t \in Tasks : tab[t].wait \in Checked =>
        /\ tab[t].toast # "success"
        /\ task[t] # None /\ task[t].failed = FALSE => Earns(t)

LEMMA DeletedStays == ASSUME TypeInv, BoardStep PROVE deleted \subseteq deleted'
  BY DeletedChange DEF BoardStep, Unseen, tables

\* An application that exists, or whose post was deleted, stays so.
LEMMA AppliedStays ==
    ASSUME BoardInv, BoardStep, NEW p \in Posts, NEW u, Applied(p, u) PROVE Applied(p, u)'
  <1>0. deleted \subseteq deleted'
    BY DeletedStays DEF BoardInv
  <1>1. CASE Unseen
    BY <1>1 DEF Unseen, tables, Applied, AppsOf, AppIds
  <1>2. CASE [BoardNext]_boardVars
    <2>1. ASSUME NEW a \in AppsOf(p), apps[a].user = u PROVE Applied(p, u)'
      <3>1. a \in Ids /\ a \in AppIds /\ apps[a].post = p
        BY DEF AppsOf, AppIds
      <3>2. AppKept(a) \/ AppRemoved(a) \/ AppNew(a) \/ AppRestored(a)
        BY <1>2, <3>1, AppChange DEF BoardInv
      <3>3. CASE AppKept(a)
        <4>1. apps'[a] # None /\ apps'[a].post = p /\ apps'[a].user = u
          BY <2>1, <3>1, <3>3 DEF AppKept
        <4> QED BY <3>1, <4>1 DEF Applied, AppsOf, AppIds
      <3>4. CASE AppRemoved(a)
        BY <3>1, <3>4 DEF AppRemoved, Applied
      <3> QED BY <3>1, <3>2, <3>3, <3>4 DEF AppNew, AppRestored
    <2> QED BY <1>0, <2>1 DEF Applied
  <1> QED BY <1>1, <1>2 DEF BoardStep

\* No page has an object of S3 deleted.
LEMMA BucketStays == ASSUME TypeInv, BusyInv, BoardStep PROVE bucket \subseteq bucket'
  <1>1. CASE UNCHANGED boardVars \/ Unseen \/ Crash
    BY <1>1 DEF boardVars, Unseen, Crash
  <1>2. ASSUME NEW t \in Tasks, Request(t) PROVE bucket' = bucket
    BY <1>2, RequestWrites DEF NotPosts
  <1>3. ASSUME NEW t \in Tasks, DeleteObject(t) PROVE FALSE
    <2>1. Running(t) /\ Sound(task[t]) /\ "deleteObject" \in task[t].todo
      BY <1>3, AtTask DEF TypeInv, DeleteObject, At
    <2> QED BY <2>1 DEF Sound, BusyInv
  <1>4. ASSUME NEW t \in Tasks, Step(t) PROVE bucket \subseteq bucket'
    <2>1. CASE \/ FindPost(t) \/ Reload(t) \/ IndexJobPost(t) \/ GetDoc(t) \/ DeleteDoc(t)
               \/ FindEvents(t) \/ UpdateDoc(t) \/ FindSaved(t) \/ FindExisting(t) \/ SaveReview(t) \/ Bulk(t)
               \/ Reject(t)
      BY <2>1 DEF FindPost, Reload, IndexJobPost, GetDoc, DeleteDoc, FindEvents, UpdateDoc, FindSaved,
             FindExisting, SaveReview, Bulk, Reject, Only, NotData, NotReviews, NotIndex, tables
    <2>2. CASE \/ ArchiveRow(t) \/ Write(t) \/ SaveRow(t) \/ CancelApps(t) \/ SaveNew(t) \/ SaveApp(t)
               \/ AddSaved(t) \/ RemoveSaved(t) \/ DeleteRow(t) \/ SaveEvent(t) \/ RemoveEvents(t)
      BY <2>2 DEF ArchiveRow, Write, SaveRow, CancelApps, SaveNew, SaveApp, AddSaved, RemoveSaved, DeleteRow,
             SaveEvent, RemoveEvents, Only, NotPosts, NotApps, NotSaved, NotEvents
    <2>3. CASE PutObject(t) \/ PutFails(t)
      BY <2>3 DEF PutObject, PutFails
    <2> QED BY <1>3, <1>4, <2>1, <2>2, <2>3 DEF Step
  <1> QED BY <1>1, <1>2, <1>4 DEF BoardStep, BoardNext

\* A request that writes the whole row goes on with every image the row had.
LEMMA PhotosStay ==
    ASSUME TypeInv, BusyInv, NEW t \in Tasks, Running(t), Step(t), Running(t)', task[t].kind \in Writers
    PROVE  task[t].row.photos \subseteq task'[t].row.photos
  <1>1. PICK step \in Steps, new \in SUBSET Steps : Advances(t, step, new)
    BY StepAdvances
  <1>2. step \in task[t].todo /\ Sound(task[t]) /\ task[t].row \in Row
    BY <1>1, AtTask DEF Advances, Goes, At, TypeInv, Sound, Writers
  <1>3. step # "reload" /\ step # "deleteObject"
    BY <1>2 DEF Sound, BusyInv, Writers, Images
  <1>4. CASE step = "put"
    <2>1. Reject(t) \/ PutObject(t) \/ PutFails(t)
      BY <1>1, <1>4 DEF Advances, Does
    <2>2. CASE Reject(t) \/ PutFails(t)
      BY <2>2, LastGoes DEF TypeInv, Keeps
    <2>3. CASE PutObject(t)
      <3>1. PICK k \in task[t].keys : task'[t].row = [task[t].row EXCEPT !.photos = @ \cup {k}]
        BY <2>3, ReadGoes DEF Puts
      <3> QED BY <1>2, <3>1 DEF Row
    <2> QED BY <2>1, <2>2, <2>3
  <1>5. CASE step # "put"
    BY <1>1, <1>3, <1>5 DEF Advances, Reads
  <1> QED BY <1>4, <1>5

\* An image that a post names stays named.
LEMMA NamedStays ==
    ASSUME BoardInv, BusyInv, BoardStep, NEW p \in Posts, NEW k, Named(p, k) PROVE Named(p, k)'
  <1>0. TypeInv /\ deleted \subseteq deleted' /\ bucket \subseteq bucket'
    BY DeletedStays, BucketStays DEF BoardInv
  <1>1. Met(p, {"upload"}, Writers) => Met(p, {"upload"}, Writers)'
    BY <1>0, UnseenMet, MetGrows DEF BoardStep, TypeInv
  <1>2. ASSUME k \in bucket, Exists(p), k \in posts[p].photos,
               \A t \in Tasks : On(t, p) /\ task[t].kind \in Writers => k \in task[t].row.photos
        PROVE  Named(p, k)'
    <2>1. CASE Unseen
      <3>1. \A t \in Tasks : (On(t, p)' <=> On(t, p)) /\ (On(t, p) => task'[t] = task[t])
        BY <1>0, <2>1, UnseenTask DEF On
      <3>2. posts' = posts
        BY <2>1 DEF Unseen, tables
      <3> QED BY <1>0, <1>2, <3>1, <3>2 DEF Named, Exists
    <2>2. CASE [BoardNext]_boardVars
      <3>1. p \in deleted' \/ (Exists(p)' /\ k \in posts'[p].photos)
        <4>1. CASE posts'[p] = posts[p]
          BY <1>2, <4>1 DEF Exists
        <4>2. CASE \E t \in Tasks : RowChanges(t, p)
          BY <1>2, <4>2 DEF RowChanges, RowBorn, RowArchived, RowWritten, RowDeleted, RowSaved
        <4> QED BY <1>0, <2>2, <4>1, <4>2, RowMoves
      <3>2. ASSUME NEW t \in Tasks, On(t, p)', task'[t].kind \in Writers PROVE k \in task'[t].row.photos
        <4>1. Running(t)' /\ task'[t].post = p
          BY <3>2 DEF On
        <4>2. CASE Running(t) /\ task'[t] = task[t]
          BY <1>2, <3>2, <4>1, <4>2 DEF On
        <4>3. CASE Step(t) /\ Running(t)
          <5>1. PICK step \in Steps, new \in SUBSET Steps : Advances(t, step, new)
            BY <1>0, <4>3, StepAdvances
          <5>2. On(t, p) /\ task[t].kind \in Writers
            BY <3>2, <4>1, <4>3, <5>1 DEF Advances, Goes, On
          <5> QED BY <1>0, <1>2, <4>1, <4>3, <5>2, PhotosStay
        <4>4. CASE Request(t) /\ ~Running(t)
          <5>1. OpensNew(t) \/ OpensWrite(t) \/ OpensClose(t) \/ OpensImages(t) \/ OpensBulk(t) \/ OpensOther(t)
            BY <1>0, <4>4, RequestOpens
          <5>2. OpensClose(t) \/ OpensImages(t)
            BY <3>2, <5>1 DEF OpensNew, OpensWrite, OpensBulk, OpensOther, Opens, Others, Writers, Images, Closing
          <5>3. task'[t].row = posts[p] \/ task'[t].row = [posts[p] EXCEPT !.archived = TRUE]
            BY <3>2, <4>1, <5>2 DEF OpensClose, OpensImages, Opens, Writers, Images
          <5>4. posts[p] \in Row
            BY <1>0, <1>2 DEF TypeInv, DataOK, Exists
          <5> QED BY <1>2, <5>3, <5>4 DEF Row
        <4> QED BY <1>0, <2>2, <4>1, <4>2, <4>3, <4>4, TaskMoves
      <3> QED BY <1>0, <1>2, <3>1, <3>2 DEF Named
    <2> QED BY <2>1, <2>2 DEF BoardStep
  <1> QED BY <1>0, <1>1, <1>2 DEF Named

\* A tab that acts leaves the others, and their requests, as they are.
LEMMA OthersRest ==
    ASSUME TypeInv, TabsOK, Remember, NEW t \in Tasks, NEW u \in Tasks, t # u, Acts(t)
    PROVE  tab'[u] = tab[u] /\ task'[u] = task[u]
  <1>1. tab'[u] = tab[u]
    BY ShowsFit DEF Acts
  <1>2. CASE Leaves(t)
    BY <1>1, <1>2 DEF Leaves
  <1>3. CASE Denied(t)
    BY <1>1, <1>3, DeniedUnseen
  <1>4. CASE Asks(t)
    <2>1. PICK new : Begin(t, new)
      BY <1>4, AsksRequest, RequestArrives
    <2> QED BY <1>1, <2>1, BeginTask DEF TypeInv
  <1> QED BY <1>2, <1>3, <1>4 DEF Acts, LeavesPage

\* A tab that waits for such an answer stays as it is, or has just sent the request.
LEMMA WaitMoves ==
    ASSUME TypeInv, TabsOK, [ListingNext]_listingVars, NEW u \in Tasks, tab'[u].wait \in Checked
    PROVE  \/ /\ tab'[u] = tab[u]
              /\ task'[u] = task[u] \/ task'[u] = None \/ (Running(u) /\ Step(u) /\ Remember)
           \/ SubmitApply(u) \/ HandleDelete(u) \/ \E k \in Keys : HandleUpload(u, k)
  <1>0. None \notin Checked /\ "reviewAfter" \notin Checked /\ DataOK
    BY PagesAssumption DEF Waits, Checked, TypeInv
  <1>1. CASE UNCHANGED listingVars
    BY <1>1 DEF listingVars, pageVars, boardVars
  <1>2. CASE ListingNext
    <2>0. Remember
      BY <1>0, <1>2, ListingSteps
    <2>t. ASSUME NEW t \in Tasks, t # u, Acts(t) PROVE tab'[u] = tab[u] /\ task'[u] = task[u]
      BY <2>0, <2>t, OthersRest
    <2>1. ASSUME NEW t \in Tasks, Answer(t) PROVE tab'[u] = tab[u] /\ task'[u] = task[u]
      BY <1>0, <2>1, <2>t, AnswerTurns, AnswerActs
    <2>2. ASSUME NEW t \in Tasks, UserAct(t) \/ OpenHome(t)
          PROVE  \/ tab'[u] = tab[u] /\ task'[u] = task[u]
                 \/ SubmitApply(u) \/ HandleDelete(u) \/ \E k \in Keys : HandleUpload(u, k)
      <3>1. CASE t = u
        BY <1>0, <2>2, <3>1, UserTurns DEF Starts, Checked
      <3>2. CASE t # u /\ UserAct(t)
        BY <1>0, <2>t, <3>2, UserActs
      <3>3. CASE t # u /\ OpenHome(t)
        BY <3>3 DEF OpenHome, NotBoard, Show, TabsOK
      <3> QED BY <2>2, <3>1, <3>2, <3>3
    <2>3. ASSUME NEW t \in Tasks, Step(t)
          PROVE  task'[u] = task[u] \/ (Running(u) /\ Step(u))
      <3>1. PICK step \in Steps, new \in SUBSET Steps : Advances(t, step, new)
        BY <2>3, StepAdvances
      <3> QED BY <2>3, <3>1 DEF Advances, Goes
    <2>4. Crash => task'[u] = None
      BY DEF Crash
    <2>5. ASSUME NEW t \in Tasks, ListingStep(t) \/ \E q \in Params : SetParams(t, q)
          PROVE  tab'[u] = tab[u] /\ task'[u] = task[u]
      BY <2>5 DEF ListingStep, FadeOutTimer, SearchAnswered, SetParams, NotBoard
    <2> QED BY <1>2, <2>0, <2>1, <2>2, <2>3, <2>4, <2>5 DEF ListingNext, Next, PageStep, ServerStep
  <1> QED BY <1>1, <1>2

\* What the request is at first.
LEMMA StartsEarn ==
    ASSUME TypeInv, TabsOK, TabsOK', NEW u \in Tasks,
           SubmitApply(u) \/ HandleDelete(u) \/ \E k \in Keys : HandleUpload(u, k)
    PROVE  tab'[u].toast # "success" /\ (task'[u].failed = FALSE => Earns(u)')
  <1>0. tab[u] \in Tab /\ Fit(tab[u]) /\ None # "success" /\ TasksOK
    BY PagesAssumption DEF TabsOK, TypeInv
  <1>r. ASSUME NEW kind, NEW p, Refused(u, kind, p) PROVE task'[u].failed = TRUE
    <2>1. task'[u] = Answered(kind, p, TRUE)
      BY <1>0, <1>r DEF Refused, TasksOK
    <2> QED BY <2>1 DEF Answered, Fresh
  <1>1. CASE SubmitApply(u)
    <2>1. /\ tab'[u].wait = "apply" /\ tab'[u].toast = None /\ tab'[u].post = tab[u].post
          /\ tab[u].post \in Posts
      BY <1>0, <1>1, SendIs DEF SubmitApply, Fit
    <2>2. CASE Apply(u, tab[u].post, TabUser[u])
      <3>1. task'[u] = [Fresh("apply", tab[u].post, {"findExisting"}) EXCEPT !.user = TabUser[u]]
        BY <1>0, <2>2, BeginTask DEF Apply
      <3>2. /\ task'[u].kind = "apply" /\ task'[u].post = tab[u].post
            /\ task'[u].todo = {"findExisting"} /\ task'[u].user = TabUser[u]
        BY <3>1 DEF Fresh
      <3> QED BY <1>0, <2>1, <3>2 DEF Earns
    <2> QED BY <1>0, <1>1, <1>r, <2>1, <2>2 DEF SubmitApply
  <1>2. CASE HandleDelete(u)
    <2>1. /\ tab'[u].wait = "delete" /\ tab'[u].toast = None /\ tab'[u].post = tab[u].post
          /\ tab[u].post \in Posts
      BY <1>0, <1>2, SendIs DEF HandleDelete, Fit
    <2>2. CASE Delete(u, tab[u].post)
      <3>1. task'[u] = Fresh("delete", tab[u].post, {"deleteRow"})
        BY <1>0, <2>2, BeginTask DEF Delete
      <3>2. task'[u].kind = "delete" /\ task'[u].post = tab[u].post /\ task'[u].todo = {"deleteRow"}
        BY <3>1 DEF Fresh
      <3> QED BY <1>0, <2>1, <3>2 DEF Earns
    <2> QED BY <1>0, <1>2, <1>r, <2>1, <2>2 DEF HandleDelete
  <1>3. ASSUME NEW k \in Keys, HandleUpload(u, k)
        PROVE  tab'[u].toast # "success" /\ (task'[u].failed = FALSE => Earns(u)')
    <2>1. /\ tab'[u].wait = "upload" /\ tab'[u].toast = None /\ tab'[u].post = tab[u].post
          /\ tab'[u].target = k
      BY <1>0, <1>3, SendIs DEF HandleUpload
    <2>2. CASE tab[u].post # None /\ Upload(u, tab[u].post, {k})
      <3>1. task'[u] = [Fresh("upload", tab[u].post, {"put"}) EXCEPT !.row = posts[tab[u].post], !.keys = {k}]
        BY <1>0, <2>2, BeginTask DEF Upload
      <3>2. /\ task'[u].kind = "upload" /\ task'[u].post = tab[u].post
            /\ task'[u].todo = {"put"} /\ task'[u].keys = {k}
        BY <3>1 DEF Fresh
      <3>3. tab[u].post \in Posts
        BY <1>0, <2>2 DEF Tab
      <3> QED BY <1>0, <2>1, <3>2, <3>3 DEF Earns
    <2> QED BY <1>0, <1>3, <1>r, <2>1, <2>2 DEF HandleUpload
  <1> QED BY <1>1, <1>2, <1>3

\* An application is saved after none was found; a review in one step.
LEMMA ApplySteps ==
    ASSUME NEW t \in Tasks, Step(t)
    PROVE  /\ task[t].todo = {"findExisting"} => FindExisting(t) \/ Reject(t)
           /\ task[t].todo = {"saveNew"} => SaveNew(t) \/ Reject(t)
           /\ task[t].todo = {"saveReview"} => SaveReview(t) \/ Reject(t)
  <1>1. /\ FindPost(t) => "findPost" \in task[t].todo
        /\ SaveEvent(t) => "saveEvent" \in task[t].todo
        /\ Reload(t) => "reload" \in task[t].todo
        /\ IndexJobPost(t) => "index" \in task[t].todo
        /\ ArchiveRow(t) => "archiveRow" \in task[t].todo
        /\ GetDoc(t) => "get" \in task[t].todo
        /\ DeleteDoc(t) => "del" \in task[t].todo
        /\ FindEvents(t) => "findEvents" \in task[t].todo
        /\ RemoveEvents(t) => "removeEvents" \in task[t].todo
        /\ CancelApps(t) => "cancelApps" \in task[t].todo
    BY DEF At, FindPost, SaveEvent, Reload, IndexJobPost, ArchiveRow, GetDoc, DeleteDoc, FindEvents, RemoveEvents,
           CancelApps
  <1>2. /\ Write(t) => "write" \in task[t].todo
        /\ UpdateDoc(t) => "updateDoc" \in task[t].todo
        /\ DeleteRow(t) => "deleteRow" \in task[t].todo
        /\ FindSaved(t) => "findSaved" \in task[t].todo
        /\ AddSaved(t) => "addSaved" \in task[t].todo
        /\ RemoveSaved(t) => "removeSaved" \in task[t].todo
        /\ FindExisting(t) => "findExisting" \in task[t].todo
        /\ SaveNew(t) => "saveNew" \in task[t].todo
    BY DEF At, Write, UpdateDoc, DeleteRow, FindSaved, AddSaved, RemoveSaved, FindExisting, SaveNew
  <1>3. /\ SaveApp(t) => "saveApp" \in task[t].todo
        /\ SaveRow(t) => "saveRow" \in task[t].todo
        /\ SaveReview(t) => "saveReview" \in task[t].todo
        /\ PutObject(t) => "put" \in task[t].todo
        /\ PutFails(t) => "put" \in task[t].todo
        /\ DeleteObject(t) => "deleteObject" \in task[t].todo
        /\ Bulk(t) => "bulk" \in task[t].todo
    BY DEF At, SaveApp, SaveRow, SaveReview, PutObject, PutFails, DeleteObject, Bulk
  <1> QED BY <1>1, <1>2, <1>3 DEF Step

\* The row that a request saves.
LEMMA RowIsSaved ==
    ASSUME TypeInv, NEW t \in Tasks, SaveRow(t), NEW p, p = Post(t)
    PROVE  Exists(p)' /\ posts'[p].photos = task[t].row.photos
  <1> DEFINE employer == IF Exists(p) THEN posts[p].employer ELSE task[t].kind # "upload"
  <1>1. task[t].row \in Row /\ p \in Posts
    <2>1. Running(t) /\ task[t].kind \in Writers /\ task[t].row \in Row
      BY StepKinds DEF SaveRow
    <2> QED BY <2>1, StepKinds DEF Writers, Images
  <1>2. posts'[p] = [task[t].row EXCEPT !.employer = employer]
    BY <1>1 DEF SaveRow, TypeInv, DataOK
  <1>3. employer \in BOOLEAN
    BY <1>1 DEF TypeInv, DataOK, Exists, Row
  <1> HIDE DEF employer
  <1>4. posts'[p] \in Row /\ posts'[p].photos = task[t].row.photos
    BY <1>1, <1>2, <1>3 DEF Row
  <1> QED BY <1>4, NoneIsNone DEF Exists

\* Each of its steps, but for one that is rejected, brings the request on.
LEMMA EarnsOn ==
    ASSUME PagesInv, BusyInv, NEW u \in Tasks, tab'[u] = tab[u], tab[u].wait \in Checked,
           Running(u), Step(u), Remember, Earns(u), task'[u].failed = FALSE
    PROVE  Earns(u)'
  <1>p. PICK p, k : p = tab[u].post /\ k = tab[u].target
    OBVIOUS
  <1>0. /\ BoardInv /\ TypeInv /\ TasksOK /\ OrderInv /\ Meets
        /\ [BoardNext]_boardVars /\ BoardStep
    BY DEF PagesInv, DataInv, ClosingInv, BoardInv, TypeInv, BoardNext, BoardStep
  <1>1. PICK step \in Steps, new \in SUBSET Steps : Advances(u, step, new)
    BY <1>0, StepAdvances
  <1>2. /\ task'[u] # None /\ task'[u].kind = task[u].kind /\ task'[u].post = task[u].post
        /\ task'[u].todo = (task[u].todo \ {step}) \cup new /\ step \in task[u].todo
        /\ \A v \in Tasks \ {u} : task'[v] = task[v]
    BY <1>1 DEF Advances, Goes, At
  <1>3. ~Reject(u) /\ ~PutFails(u)
    <2>1. Reject(u) => task'[u].failed = TRUE
      BY <1>0, LastGoes
    <2>2. PutFails(u) => task'[u].failed = TRUE
      BY <1>0, LastGoes
    <2> QED BY <2>1, <2>2
  <1>4. /\ p \in Posts /\ task[u].post = p /\ Post(u) = p /\ task[u].kind = tab[u].wait
        /\ p = tab[u].post /\ k = tab[u].target
        /\ p = tab'[u].post /\ k = tab'[u].target /\ tab'[u].wait = tab[u].wait
    BY <1>p DEF Earns, Post
  <1>5. \A s : At(u, s) /\ Rejected(u, s) => FALSE
    BY <1>0, RejectedGoes
  <1>6. CASE tab[u].wait = "apply"
    <2>0. task[u].todo \in {{"findExisting"}, {"saveNew"}} /\ task[u].user = TabUser[u]
      BY <1>4, <1>6 DEF Earns, Running
    <2>1. CASE task[u].todo = {"findExisting"}
      <3>1. FindExisting(u)
        BY <1>3, <2>1, ApplySteps
      <3>2. At(u, "findExisting") /\ Then(u, "findExisting", {"saveNew"})
        BY <1>5, <3>1 DEF FindExisting
      <3>3. {"saveNew"} \in SUBSET Steps
        BY DEF Steps
      <3>4. Goes(u, "findExisting", {"saveNew"})
        BY <1>0, <3>2, <3>3, ThenGoes
      <3>5. task'[u].todo = {"saveNew"}
        BY <2>1, <3>4 DEF Goes
      <3>6. Running(u)'
        BY <1>2, <3>5 DEF Running
      <3>7. task'[u].user = task[u].user
        BY <1>0, <3>6, NextMoves DEF Same, Came, Begin
      <3> QED BY <1>2, <1>4, <1>6, <2>0, <3>5, <3>7 DEF Earns
    <2>2. CASE task[u].todo = {"saveNew"}
      <3>1. SaveNew(u) /\ At(u, "saveNew")
        BY <1>3, <2>2, ApplySteps DEF SaveNew
      <3> DEFINE used == AppIds \cup deleted
                 a == NewId(used)
                 row == [post |-> Post(u), user |-> task[u].user, status |-> "pending", archived |-> FALSE]
      <3>2. HasRoom(used) /\ apps' = [apps EXCEPT ![a] = row] /\ Done(u, "saveNew")
        BY <1>5, <3>1 DEF SaveNew
      <3>3. a \in Ids
        BY <3>2 DEF HasRoom, NewId
      <3>4. row \in App /\ row.post = p /\ row.user = TabUser[u]
        <4>1. task[u].user \in Applicants
          BY <1>0, <3>1, StepKinds
        <4> QED BY <1>4, <2>0, <4>1 DEF App, Statuses
      <3> HIDE DEF row, a
      <3>5. apps'[a] = row
        BY <1>0, <3>2, <3>3 DEF TypeInv, DataOK
      <3>6. Applied(p, TabUser[u])'
        BY <3>3, <3>4, <3>5, NoneIsNone DEF Applied, AppsOf, AppIds
      <3>7. task'[u].todo = {}
        <4>1. Goes(u, "saveNew", {})
          BY <1>0, <3>1, <3>2, DoneGoes
        <4> QED BY <2>2, <4>1 DEF Goes
      <3> QED BY <1>2, <1>4, <1>6, <3>6, <3>7 DEF Earns
    <2> QED BY <2>0, <2>1, <2>2
  <1>7. CASE tab[u].wait = "delete"
    <2>1. CASE p \in deleted
      <3>1. p \in deleted'
        BY <1>0, <2>1, DeletedStays
      <3> QED BY <1>2, <1>4, <1>7, <3>1 DEF Earns
    <2>2. CASE task[u].todo = {"deleteRow"}
      <3>1. DeleteRow(u) /\ At(u, "deleteRow")
        BY <1>1, <1>2, <1>3, <2>2 DEF Advances, Does, DeleteRow
      <3>2. p \in deleted'
        BY <1>4, <1>5, <3>1 DEF DeleteRow
      <3> QED BY <1>2, <1>4, <1>7, <3>2 DEF Earns
    <2> QED BY <1>4, <1>7, <2>1, <2>2 DEF Earns
  <1>8. CASE tab[u].wait = "upload"
    <2>0. task[u].row \in Row
      BY <1>0, <1>2, <1>4, <1>8, AtTask DEF At, Running, Sound, Writers, Images
    <2>1. CASE task[u].todo = {"put"} /\ task[u].keys = {k}
      <3>1. PutObject(u)
        BY <1>1, <1>2, <1>3, <2>1 DEF Advances, Does
      <3>2. PICK j \in task[u].keys, next \in {{"put"}, {"saveRow"}} :
               /\ bucket' = bucket \cup {j}
               /\ Goes(u, "put", next) /\ (next = {"put"} <=> task[u].keys \ {j} # {})
               /\ task'[u].row = [task[u].row EXCEPT !.photos = @ \cup {j}]
        BY <1>0, <3>1, ReadGoes DEF Puts
      <3>3. j = k /\ next = {"saveRow"}
        BY <2>1, <3>2
      <3>4. k \in bucket' /\ k \in task'[u].row.photos /\ task'[u].todo = {"saveRow"}
        BY <2>0, <2>1, <3>2, <3>3 DEF Row, Goes
      <3> QED BY <1>2, <1>4, <1>8, <3>4 DEF Earns
    <2>2. CASE task[u].todo = {"saveRow"} /\ k \in bucket /\ k \in task[u].row.photos
      <3>1. SaveRow(u)
        BY <1>1, <1>2, <1>3, <2>2 DEF Advances, Does
      <3>2. Exists(p)' /\ posts'[p].photos = task[u].row.photos
        BY <1>0, <1>4, <3>1, RowIsSaved
      <3>3. k \in bucket'
        BY <1>0, <2>2, BucketStays
      <3>4. task'[u].todo = {}
        <4>1. Ends(u, "saveRow")
          BY <1>0, <3>1, LastGoes
        <4> QED BY <1>4, <1>8, <2>2, <4>1 DEF Ends, Goes
      <3>5. ASSUME NEW v \in Tasks, On(v, p)', task'[v].kind \in Writers PROVE Met(p, {"upload"}, Writers)'
        <4>1. v # u
          BY <3>4, <3>5 DEF On, Running
        <4>2. Running(v) /\ task[v].post = p /\ task[v].kind \in Writers
          BY <1>2, <3>5, <4>1 DEF On, Running
        <4>3. Met(p, {"upload"}, Writers)
          BY <1>0, <1>4, <1>8, <4>1, <4>2 DEF Meets, Met
        <4> QED BY <1>0, <1>4, <4>3, MetGrows DEF TypeInv
      <3>6. Named(p, k)'
        BY <2>2, <3>2, <3>3, <3>5 DEF Named
      <3> QED BY <1>2, <1>4, <1>8, <3>4, <3>6 DEF Earns
    <2> QED BY <1>4, <1>8, <2>1, <2>2 DEF Earns, Running
  <1> QED BY <1>6, <1>7, <1>8 DEF Checked

\* A request that a page waits for is still the one it sent.
LEMMA WaitStep == PagesInv /\ BusyInv /\ WaitInv /\ [ListingNext]_listingVars => WaitInv'
  <1> SUFFICES ASSUME PagesInv, BusyInv, WaitInv, [ListingNext]_listingVars, NEW u \in Tasks,
                      tab'[u].wait \in Checked
               PROVE  /\ tab'[u].toast # "success"
                      /\ task'[u] # None /\ task'[u].failed = FALSE => Earns(u)'
    BY DEF WaitInv
  <1>0. TypeInv /\ TabsOK /\ BoardInv
    BY DEF PagesInv, DataInv, ClosingInv, BoardInv
  <1>1. BoardStep /\ TabsOK'
    BY <1>0, ListingBoard
  <1>2. CASE SubmitApply(u) \/ HandleDelete(u) \/ \E k \in Keys : HandleUpload(u, k)
    BY <1>0, <1>1, <1>2, StartsEarn
  <1>3. CASE /\ tab'[u] = tab[u]
             /\ task'[u] = task[u] \/ task'[u] = None \/ (Running(u) /\ Step(u) /\ Remember)
    <2>1. tab[u].wait \in Checked /\ tab[u].toast # "success"
      BY <1>3 DEF WaitInv
    <2>2. ASSUME task'[u] = task[u], task[u] # None, task[u].failed = FALSE PROVE Earns(u)'
      <3>1. Earns(u)
        BY <2>1, <2>2 DEF WaitInv
      <3>2. PICK p, k : p \in Posts /\ p = tab[u].post /\ k = tab[u].target
        BY <3>1 DEF Earns
      <3>0. p \in Posts
        BY <3>2
      <3>3. p = tab'[u].post /\ k = tab'[u].target /\ tab'[u].wait = tab[u].wait
        BY <1>3, <3>2
      <3>4. p \in deleted => p \in deleted'
        BY <1>0, <1>1, DeletedStays
      <3>5. Applied(p, TabUser[u]) => Applied(p, TabUser[u])'
        BY <1>0, <1>1, <3>0, AppliedStays
      <3>6. Named(p, k) => Named(p, k)'
        BY <1>0, <1>1, <3>0, NamedStays
      <3>7. k \in bucket => k \in bucket'
        BY <1>0, <1>1, BucketStays
      <3> QED BY <2>2, <3>1, <3>2, <3>3, <3>4, <3>5, <3>6, <3>7 DEF Earns
    <2>3. ASSUME Running(u), Step(u), Remember, task'[u].failed = FALSE PROVE Earns(u)'
      <3>1. PICK step \in Steps, new \in SUBSET Steps : Advances(u, step, new)
        BY <1>0, <2>3, StepAdvances
      <3>2. task[u].failed = FALSE /\ task[u] # None
        BY <2>3, <3>1 DEF Advances, Goes, Running
      <3>3. Earns(u)
        BY <2>1, <3>2 DEF WaitInv
      <3> QED BY <1>3, <2>1, <2>3, <3>3, EarnsOn
    <2> QED BY <1>3, <2>1, <2>2, <2>3
  <1> QED BY <1>0, <1>2, <1>3, WaitMoves

LEMMA WaitInit == ListingInit => WaitInv
  <1> SUFFICES ASSUME ListingInit, NEW t \in Tasks PROVE tab[t].wait \notin Checked
    BY DEF WaitInv
  <1>1. tab[t] = Blank("home", None)
    BY DEF ListingInit, Init
  <1> QED BY <1>1, PagesAssumption DEF Blank, Waits, Checked

\* A tab that waits for an answer it looks at stays as it is until that comes, or
\* until its page is left.
LEMMA ToldByAnswer ==
    ASSUME TypeInv, TabsOK, [ListingNext]_listingVars, NEW u \in Tasks, tab[u].wait \in Checked
    PROVE  \/ tab'[u] = tab[u]
           \/ Answer(u) /\ (ApplyAnswered(u) \/ DeleteAnswered(u) \/ UploadAnswered(u))
           \/ tab'[u].toast = None
  <1>0. None \notin Checked /\ DataOK
    BY PagesAssumption DEF Waits, Checked, TypeInv
  <1>1. CASE UNCHANGED listingVars
    BY <1>1 DEF listingVars, pageVars
  <1>2. ASSUME NEW t \in Tasks, t # u, Acts(t) PROVE tab'[u] = tab[u]
    BY <1>2, ShowsFit DEF Acts
  <1>3. ASSUME NEW t \in Tasks, Answer(t)
        PROVE  tab'[u] = tab[u] \/ (Answer(u) /\ (ApplyAnswered(u) \/ DeleteAnswered(u) \/ UploadAnswered(u)))
    <2>1. CASE t # u
      BY <1>0, <1>2, <1>3, <2>1, AnswerActs
    <2>2. CASE t = u
      BY <1>0, <1>3, <2>2, AnswerTurns DEF Checked
    <2> QED BY <2>1, <2>2
  <1>4. ASSUME NEW t \in Tasks, UserAct(t) \/ OpenHome(t) PROVE tab'[u] = tab[u] \/ tab'[u].toast = None
    <2>1. t = u => tab'[u].toast = None
      BY <1>0, <1>4, UserTurns DEF Idle, Opened
    <2>2. t # u /\ OpenHome(t) => tab'[u] = tab[u]
      BY DEF OpenHome, Show, TabsOK
    <2> QED BY <1>0, <1>2, <1>4, <2>1, <2>2, UserActs
  <1>5. ASSUME NEW t \in Tasks, ListingStep(t) \/ \E q \in Params : SetParams(t, q) PROVE tab'[u] = tab[u]
    BY <1>5 DEF ListingStep, FadeOutTimer, SearchAnswered, SetParams
  <1> QED BY <1>1, <1>3, <1>4, <1>5 DEF ListingNext, Next, PageStep, ServerStep

\* An answer makes a page tell of success only when the request has ended and did not fail.
LEMMA ToldOfSuccess ==
    ASSUME TypeInv, TabsOK, TabsOK', NEW u \in Tasks, tab'[u].toast = "success",
           ApplyAnswered(u) \/ DeleteAnswered(u) \/ UploadAnswered(u)
    PROVE  task[u] # None /\ task[u].failed = FALSE /\ task[u].todo = {}
  <1>1. tab[u] \in Tab /\ Toasted(u, "error").toast = "error"
    BY ToastedIs DEF TabsOK, Fit
  <1>2. ~Settle(u, Toasted(u, "error"))
    BY <1>1, SettleIs
  <1>3. \E wait : Returned(u, wait) /\ ~Lost(u) /\ ~Failed(u)
    BY <1>2 DEF ApplyAnswered, DeleteAnswered, UploadAnswered
  <1>4. task[u] # None /\ ~Running(u) /\ ~Failed(u) /\ task[u] \in Task
    BY <1>3 DEF Returned, Lost, TypeInv, TasksOK
  <1> QED BY <1>4 DEF Running, Failed, Task

\* What a page tells of an application, a deletion or an upload is so, but for a
\* deletion or another writer of the whole row that came between.
THEOREM SuccessesAreTrue == ListingsSpec => SuccessIsTrue
  <1>1. PagesInv /\ WaitInv /\ [ListingNext]_listingVars =>
            [\A t \in Tasks : LET p == tab[t].post IN
                tab[t].wait # None /\ tab[t]'.toast = "success" =>
                    /\ tab[t].wait = "apply" => \/ \E a \in AppsOf(p) : apps[a].user = TabUser[t]
                                                \/ p \in deleted
                    /\ tab[t].wait = "upload" =>
                          \/ tab[t].target \in bucket /\ Exists(p) /\ tab[t].target \in posts[p].photos
                          \/ p \in deleted
                          \/ Met(p, {"upload"}, Images \cup {"complete"})
                    /\ tab[t].wait = "delete" => ~Exists(p) \/ Met(p, {"delete"}, Images \cup {"complete"})]_pageVars
    <2> SUFFICES ASSUME PagesInv, WaitInv, [ListingNext]_listingVars, NEW t \in Tasks,
                        tab[t].wait \in Checked, tab'[t].toast = "success"
                 PROVE  /\ tab[t].wait = "apply" => \/ \E a \in AppsOf(tab[t].post) : apps[a].user = TabUser[t]
                                                    \/ tab[t].post \in deleted
                        /\ tab[t].wait = "upload" =>
                              \/ /\ tab[t].target \in bucket /\ Exists(tab[t].post)
                                 /\ tab[t].target \in posts[tab[t].post].photos
                              \/ tab[t].post \in deleted
                              \/ Met(tab[t].post, {"upload"}, Images \cup {"complete"})
                        /\ tab[t].wait = "delete" => \/ ~Exists(tab[t].post)
                                                     \/ Met(tab[t].post, {"delete"}, Images \cup {"complete"})
      BY DEF Checked
    <2>1. TypeInv /\ TabsOK /\ TabsOK' /\ ReturnedInv
      BY ListingBoard DEF PagesInv, DataInv, ClosingInv, BoardInv
    <2>2. tab[t].toast # "success"
      BY DEF WaitInv
    <2>3. ApplyAnswered(t) \/ DeleteAnswered(t) \/ UploadAnswered(t)
      BY <2>1, <2>2, PagesAssumption, ToldByAnswer
    <2>4. task[t] # None /\ task[t].failed = FALSE /\ task[t].todo = {}
      BY <2>1, <2>3, ToldOfSuccess
    <2>5. Earns(t)
      BY <2>4 DEF WaitInv
    <2>6. tab[t].post \in Posts
      BY <2>5 DEF Earns
    <2>7. tab[t].wait = "delete" => tab[t].post \in deleted
      BY <2>4, <2>5 DEF Earns
    <2>8. tab[t].wait = "apply" => Applied(tab[t].post, TabUser[t])
      BY <2>4, <2>5 DEF Earns
    <2>9. tab[t].wait = "upload" => Named(tab[t].post, tab[t].target)
      BY <2>4, <2>5 DEF Earns
    <2> QED BY <2>1, <2>6, <2>7, <2>8, <2>9 DEF ReturnedInv, Applied, Named, Writers
  <1> QED BY <1>1, PagesInit, PagesStep, BusyInit, BusyStep, WaitInit, WaitStep, PTL
         DEF ListingsSpec, SuccessIsTrue

-------------------------------------------------------------------------------
(* Reviews. *)

\* The dialog to review an application is open, and a review by its applicant is to be saved.
Reviewing(t, a) == tab[t].page = "applications" /\ tab[t].dialog # None /\ tab[t].dialog.app = a

\* Other requests save no review.
LEMMA NoReview ==
    ASSUME TasksOK, NEW t \in Tasks,
           \/ \E p : Create(t, p) \/ Archive(t, p) \/ Delete(t, p)
           \/ \E p, u : Apply(t, p, u)
           \/ \E p, k : Upload(t, p, k)
           \/ \E a : Withdraw(t, a) \/ Complete(t, a) \/ \E status : Respond(t, a, status)
           \/ \E e : RemoveEvent(t, e)
           \/ AddEvent(t, "addEvent")
    PROVE  ~At(t, "saveReview")'
  <1>1. ASSUME NEW new, Begin(t, new), "saveReview" \notin new.todo PROVE ~At(t, "saveReview")'
    BY <1>1, BeginTask DEF At
  <1>f. \A kind, p, todo : Fresh(kind, p, todo).todo = todo
    BY DEF Fresh
  <1>2. ASSUME NEW p, Create(t, p) \/ Archive(t, p) \/ Delete(t, p) PROVE ~At(t, "saveReview")'
    BY <1>1, <1>2, <1>f DEF Create, Archive, Delete
  <1>3. ASSUME NEW p, NEW u, Apply(t, p, u) PROVE ~At(t, "saveReview")'
    <2>1. [Fresh("apply", p, {"findExisting"}) EXCEPT !.user = u].todo = {"findExisting"}
      BY DEF Fresh
    <2> QED BY <1>1, <1>3, <2>1 DEF Apply
  <1>4. ASSUME NEW p, NEW k, Upload(t, p, k) PROVE ~At(t, "saveReview")'
    <2>1. [Fresh("upload", p, {"put"}) EXCEPT !.row = posts[p], !.keys = k].todo = {"put"}
      BY DEF Fresh
    <2> QED BY <1>1, <1>4, <2>1 DEF Upload
  <1>o. \A kind, a, todo, copy : OfApp(kind, a, todo, copy).todo = todo
    BY DEF OfApp, Fresh
  <1>5. ASSUME NEW a, NEW kind, NEW copy, Begin(t, OfApp(kind, a, {"saveApp"}, copy)) PROVE ~At(t, "saveReview")'
    BY <1>1, <1>5, <1>o
  <1>6. ASSUME NEW a, Complete(t, a) PROVE ~At(t, "saveReview")'
    <2> DEFINE c == OfApp("complete", a, {"saveRow", "get", "findEvents"},
                          [apps[a] EXCEPT !.status = "completed", !.archived = TRUE])
               new == [c EXCEPT !.row = [posts[apps[a].post] EXCEPT !.archived = TRUE]]
    <2>1. new.todo = {"saveRow", "get", "findEvents"}
      BY DEF OfApp, Fresh
    <2>2. Begin(t, new)
      BY <1>6 DEF Complete
    <2> HIDE DEF new
    <2> QED BY <1>1, <2>1, <2>2
  <1>7. ASSUME NEW e, RemoveEvent(t, e) PROVE ~At(t, "saveReview")'
    <2>1. [Fresh("removeEvent", e.post, {"removeEvents"}) EXCEPT !.found = {e}].todo = {"removeEvents"}
      BY DEF Fresh
    <2> QED BY <1>1, <1>7, <2>1 DEF RemoveEvent
  <1>8. ASSUME AddEvent(t, "addEvent") PROVE ~At(t, "saveReview")'
    BY <1>1, <1>8, <1>f DEF AddEvent
  <1>9. ASSUME NEW a, Withdraw(t, a) \/ \E status : Respond(t, a, status) PROVE ~At(t, "saveReview")'
    BY <1>5, <1>9 DEF Withdraw, Respond
  <1> QED BY <1>2, <1>3, <1>4, <1>6, <1>7, <1>8, <1>9

\* A page is opened, or another one instead.
OpensPage(t) == \E page \in Offered(t), p \in Posts : OpenPage(t, page, p) \/ OpenFails(t, page, p)

\* A user has a review saved with the dialog only.
LEMMA UserReviews ==
    ASSUME TasksOK, NEW t \in Tasks, UserAct(t), ~OpensPage(t), At(t, "saveReview")' PROVE SubmitReview(t)
  <1>r. ASSUME NEW kind, NEW p, Refused(t, kind, p) PROVE FALSE
    <2>1. task'[t] = Answered(kind, p, TRUE)
      BY <1>r DEF Refused, TasksOK
    <2> QED BY <2>1 DEF Answered, Fresh, At
  <1>k. ASSUME Idle(t), task' = task PROVE FALSE
    BY <1>k DEF Idle, Running, At
  <1>1. ASSUME \/ CloseDialog(t) \/ OpenApply(t) \/ HandleCreateEvent(t) \/ HandleEdit(t)
               \/ \E a : HandleReview(t, a) \/ OnRespond(t, a)
               \/ \E k : HandleDeleteImage(t, k)
               \/ \E p : SubmitEdit(t, p)
               \/ \E e : HandleEventClick(t, e)
        PROVE  FALSE
    BY <1>1, <1>k DEF CloseDialog, OpenApply, HandleCreateEvent, HandleEdit, HandleReview,
                      OnRespond, HandleDeleteImage, SubmitEdit, HandleEventClick, Quietly, boardVars
  <1>2. ASSUME \/ \E a : HandleWithdraw(t, a)
               \/ \E status : SubmitResponse(t, status)
               \/ SubmitComplete(t)
               \/ \E a, approve : ConfirmStatus(t, a, approve)
        PROVE  FALSE
    BY <1>2, <1>r, NoReview DEF HandleWithdraw, SubmitResponse, SubmitComplete, ConfirmStatus
  <1>3. ASSUME \/ \E p : ArchiveClicked(t, p)
               \/ SubmitApply(t) \/ HandleDelete(t)
               \/ \E k : HandleUpload(t, k)
        PROVE  FALSE
    BY <1>3, <1>r, NoReview DEF ArchiveClicked, SubmitApply, HandleDelete, HandleUpload
  <1>4. ASSUME (\E p : SubmitPost(t, p)) \/ SubmitEvent(t) \/ HandleDeleteEvent(t) PROVE FALSE
    BY <1>4, <1>r, NoReview DEF SubmitPost, SubmitEvent, HandleDeleteEvent
  <1> QED BY <1>1, <1>2, <1>3, <1>4
          DEF UserAct, OpensPage, ApplicationsPage, MyPostsPage, JobDetails, ImageManager, JobPostForm, CalendarView

\* Only the button to review marks an application, on a page that stays open.
LEMMA UserMarks ==
    ASSUME NEW t \in Tasks, UserAct(t), ~OpensPage(t), ~\E a \in Ids : HandleReview(t, a) PROVE reviewed' = reviewed
  <1>s. \A wait, target : Send(t, wait, target) => reviewed' = reviewed
    BY DEF Send, marks
  <1>1. ASSUME \/ CloseDialog(t) \/ OpenApply(t) \/ HandleCreateEvent(t) \/ HandleEdit(t)
               \/ \E a : OnRespond(t, a)
               \/ \E k : HandleDeleteImage(t, k)
               \/ \E p : SubmitEdit(t, p)
               \/ \E e : HandleEventClick(t, e)
        PROVE  reviewed' = reviewed
    BY <1>1 DEF CloseDialog, OpenApply, HandleCreateEvent, HandleEdit,
                OnRespond, HandleDeleteImage, SubmitEdit, HandleEventClick, Quietly, marks
  <1>2. ASSUME \/ \E a : HandleWithdraw(t, a)
               \/ SubmitReview(t)
               \/ \E status : SubmitResponse(t, status)
               \/ SubmitComplete(t)
               \/ \E a, approve : ConfirmStatus(t, a, approve)
               \/ SubmitApply(t) \/ HandleDelete(t)
               \/ \E k : HandleUpload(t, k)
               \/ SubmitEvent(t) \/ HandleDeleteEvent(t)
        PROVE  reviewed' = reviewed
    BY <1>2, <1>s DEF HandleWithdraw, SubmitReview, SubmitResponse, SubmitComplete, ConfirmStatus, SubmitApply,
                HandleDelete, HandleUpload, SubmitEvent, HandleDeleteEvent
  <1>3. ASSUME (\E p : ArchiveClicked(t, p)) \/ (\E p : SubmitPost(t, p)) PROVE reviewed' = reviewed
    BY <1>3 DEF ArchiveClicked, SubmitPost, marks
  <1> QED BY <1>1, <1>2, <1>3
          DEF UserAct, OpensPage, ApplicationsPage, MyPostsPage, JobDetails, ImageManager, JobPostForm, CalendarView

\* What the steps do to a tab, its request and the reviews it remembers.
TabKept(u) ==
    /\ tab'[u] = tab[u] /\ reviewed'[u] = reviewed[u]
    /\ task'[u] = task[u] \/ (Running(u) /\ Step(u)) \/ Crash
Turned(u) ==
    /\ Turns(u) /\ reviewed'[u] = reviewed[u] /\ tab'[u].wait # "review"
    /\ tab[u].wait = "review" => ReviewAnswered(u)
    /\ Idle(u) \/ Answer(u)
    /\ task'[u] = task[u] \/ \A a : ~Reviews(u, a)'
Reopened(u) == Turns(u) /\ Opened(u) /\ (reviewed'[u] = reviewed[u] \/ HydrateFromServer(u))

LEMMA ReviewMoves ==
    ASSUME TypeInv, TabsOK, BrowserInv, [ListingNext]_listingVars, NEW u \in Tasks
    PROVE  TabKept(u) \/ (\E a \in Ids : HandleReview(u, a)) \/ SubmitReview(u) \/ Turned(u) \/ Reopened(u)
  <1>0. DataOK /\ TasksOK /\ None # "review"
    BY PagesAssumption DEF TypeInv, Waits
  <1>1. CASE UNCHANGED listingVars
    BY <1>1 DEF listingVars, pageVars, boardVars, marks, TabKept
  <1>2. CASE ListingNext
    <2>0. Remember
      BY <1>0, <1>2, ListingSteps
    <2>r. ASSUME NEW t \in Tasks, Spends(t) PROVE t # u => reviewed'[u] = reviewed[u]
      BY <2>r DEF Spends, HydrateFromServer, marks, BrowserInv
    <2>1. ASSUME NEW t \in Tasks, Answer(t) PROVE TabKept(u) \/ Turned(u)
      <3>1. CASE t # u
        BY <1>0, <2>0, <2>1, <2>r, <3>1, AnswerActs, AnswerSpends, OthersRest DEF TabKept
      <3>2. CASE t = u
        <4>1. /\ Turns(u) /\ tab'[u].wait \in {None, "reviewAfter"}
              /\ task' = task \/ ReviewFollows(u)
              /\ tab[u].wait = "review" => ReviewAnswered(u)
          BY <1>0, <2>1, <3>2, AnswerTurns
        <4>2. reviewed' = reviewed
          BY <2>1, <3>2 DEF Answer, WithdrawAnswered, ReviewAnswered, ReviewFollows, ResponseAnswered, ArchiveAnswered,
                 ApplyAnswered, StatusAnswered, DeleteAnswered, UploadAnswered, CreateAnswered, EventAnswered,
                 Settle, Refresh, Quietly, marks
        <4>3. ASSUME ReviewFollows(u), NEW a PROVE ~Reviews(u, a)'
          <5>1. CASE Refused(u, "review", None)
            <6>1. task'[u] = Answered("review", None, TRUE)
              BY <1>0, <5>1 DEF Refused, TasksOK
            <6> QED BY <6>1 DEF Answered, Fresh, Reviews, At
          <5>2. ASSUME NEW b, Review(u, b, "employer") PROVE task'[u].user = "employer"
            <6>1. task'[u] = [Fresh("review", apps[b].post, {"saveReview"}) EXCEPT !.app = b, !.user = "employer"]
              BY <1>0, <5>2, BeginTask DEF Review
            <6> QED BY <6>1 DEF Fresh
          <5> QED BY <4>3, <5>1, <5>2 DEF ReviewFollows, SendReview, Reviews
        <4> QED BY <1>0, <2>1, <3>2, <4>1, <4>2, <4>3 DEF Turned
      <3> QED BY <3>1, <3>2
    <2>2. ASSUME NEW t \in Tasks, UserAct(t)
          PROVE  \/ TabKept(u) \/ (\E a \in Ids : HandleReview(u, a)) \/ SubmitReview(u)
                 \/ Turned(u) \/ Reopened(u)
      <3>1. CASE t # u
        BY <1>0, <2>0, <2>2, <2>r, <3>1, UserActs, UserSpends, OthersRest DEF TabKept
      <3>2. CASE t = u /\ OpensPage(t)
        BY <1>0, <3>2, PageTurns DEF OpensPage, Reopened, marks
      <3>3. CASE t = u /\ ~OpensPage(u) /\ ~SubmitReview(u) /\ ~\E a \in Ids : HandleReview(u, a)
        <4>1. (Idle(u) \/ Opened(u)) /\ Turns(u) /\ tab'[u].wait # "review"
          BY <1>0, <2>2, <3>3, UserTurns DEF Starts
        <4>2. \A a : ~Reviews(u, a)'
          BY <1>0, <2>2, <3>3, UserReviews DEF Reviews
        <4>3. Idle(u) => tab[u].wait # "review"
          BY <1>0 DEF Idle
        <4>4. reviewed'[u] = reviewed[u]
          BY <2>2, <3>3, UserMarks
        <4> QED BY <4>1, <4>2, <4>3, <4>4 DEF Turned, Reopened
      <3> QED BY <3>1, <3>2, <3>3
    <2>3. ASSUME NEW t \in Tasks, Step(t), UNCHANGED <<tab, marks>> PROVE TabKept(u)
      <3>1. PICK step \in Steps, new \in SUBSET Steps : Advances(t, step, new)
        BY <2>3, StepAdvances
      <3> QED BY <2>3, <3>1 DEF Advances, Goes, marks, TabKept
    <2>4. ASSUME Crash, UNCHANGED <<tab, marks>> PROVE TabKept(u)
      BY <2>4 DEF TabKept, marks
    <2>5. ASSUME NEW t \in Tasks, ListingStep(t) \/ \E q \in Params : SetParams(t, q)
          PROVE  TabKept(u)
      BY <2>5 DEF ListingStep, FadeOutTimer, SearchAnswered, SetParams, NotBoard, marks, TabKept
    <2>6. ASSUME NEW t \in Tasks, OpenHome(t) PROVE TabKept(u) \/ Turned(u)
      <3>1. task' = task /\ reviewed' = reviewed /\ Idle(t) /\ Show(t, Blank("home", None))
        BY <2>6 DEF OpenHome, NotBoard, marks
      <3>2. CASE t # u
        BY <3>1, <3>2 DEF Show, TabsOK, TabKept
      <3>3. CASE t = u
        <4>1. Turns(u) /\ tab'[u].wait # "review"
          <5>1. tab'[u] = Blank("home", None)
            BY <3>1, <3>3 DEF Show, TabsOK
          <5> QED BY <1>0, <5>1 DEF Blank, Turns
        <4> QED BY <1>0, <3>1, <3>3, <4>1 DEF Turned, Idle
      <3> QED BY <3>2, <3>3
    <2> QED BY <1>2, <2>1, <2>2, <2>3, <2>4, <2>5, <2>6 DEF ListingNext, Next, PageStep, ServerStep
  <1> QED BY <1>1, <1>2

\* A review is saved by a request for it, and counted once.
LEMMA ReviewsMove ==
    ASSUME TypeInv, TabsOK, [ListingNext]_listingVars, NEW a \in Ids
    PROVE  \/ reviews'[a].applicant = reviews[a].applicant
           \/ /\ tab' = tab /\ reviewed' = reviewed
              /\ \E v \in Tasks : /\ Reviews(v, a) /\ SaveReview(v)
                                  /\ reviews'[a].applicant = reviews[a].applicant + 1
  <1>0. DataOK /\ TasksOK
    BY DEF TypeInv
  <1>1. ASSUME reviews' = reviews PROVE reviews'[a].applicant = reviews[a].applicant
    BY <1>1
  <1>2. ASSUME NEW t \in Tasks, Acts(t) PROVE reviews' = reviews
    BY <1>2, AsksRequest, RequestWrites DEF Acts, LeavesPage, Leaves, Denied, Refused, tables, NotPosts
  <1>3. ASSUME NEW t \in Tasks, Step(t), ~SaveReview(t) PROVE reviews' = reviews
    BY <1>3 DEF Step, FindPost, SaveEvent, Reload, IndexJobPost, ArchiveRow, GetDoc, DeleteDoc, FindEvents,
         RemoveEvents, CancelApps, Write, UpdateDoc, DeleteRow, FindSaved, AddSaved, RemoveSaved,
         FindExisting, SaveNew, SaveApp, SaveRow, PutObject, PutFails, DeleteObject, Bulk, Reject, Only,
         NotData, NotPosts, NotApps, NotEvents, NotSaved, NotIndex, NotBucket, tables
  <1>4. ASSUME NEW t \in Tasks, SaveReview(t), tab' = tab
        PROVE  \/ reviews'[a].applicant = reviews[a].applicant
               \/ Reviews(t, a) /\ reviews'[a].applicant = reviews[a].applicant + 1
    <2>1. task[t].app \in Ids /\ task[t].user \in {"applicant", "employer"}
      BY <1>0, <1>4 DEF SaveReview, At, TasksOK, Sound
    <2>2. PICK b \in Ids, side \in {"applicant", "employer"} : b = task[t].app /\ side = task[t].user
      BY <2>1
    <2>3. reviews' = [reviews EXCEPT ![b][side] = @ + 1]
      BY <1>4, <2>2 DEF SaveReview
    <2>4. reviews[a] \in [applicant : Nat, employer : Nat] /\ reviews \in [Ids -> [applicant : Nat, employer : Nat]]
      BY <1>0 DEF DataOK
    <2>5. CASE b # a
      BY <2>3, <2>4, <2>5
    <2>6. CASE b = a /\ side = "employer"
      BY <2>3, <2>4, <2>6
    <2>7. CASE b = a /\ side = "applicant"
      BY <1>4, <2>2, <2>3, <2>4, <2>7 DEF SaveReview, Reviews
    <2> QED BY <2>5, <2>6, <2>7
  <1>5. CASE UNCHANGED listingVars
    BY <1>5 DEF listingVars, pageVars, boardVars, tables
  <1>6. CASE Rests \/ Crash
    BY <1>6 DEF Rests, Leaves, Crash, tables
  <1>7. CASE ListingNext
    <2>1. ASSUME NEW t \in Tasks, Step(t), tab' = tab, marks' = marks
          PROVE  \/ reviews'[a].applicant = reviews[a].applicant
                 \/ /\ tab' = tab /\ reviewed' = reviewed
                    /\ \E v \in Tasks : /\ Reviews(v, a) /\ SaveReview(v)
                                        /\ reviews'[a].applicant = reviews[a].applicant + 1
      BY <1>3, <1>4, <2>1 DEF marks
    <2> QED BY <1>0, <1>1, <1>2, <1>6, <1>7, <2>1, ListingSteps
  <1> QED BY <1>5, <1>7

\* An application is the user's, also when it is deleted or to be put back.
Owned(a, user) ==
    /\ a \in AppIds \cup deleted
    /\ a \in AppIds => apps[a].user = user
    /\ \A u \in Tasks : Running(u) /\ task[u].kind \in Answers /\ task[u].app = a => task[u].copy.user = user

LEMMA OwnedStays ==
    ASSUME BoardInv, BoardStep, NEW a \in Ids, NEW user, Owned(a, user) PROVE Owned(a, user)'
  <1>1. CASE Unseen
    BY <1>1 DEF Unseen, tables, Owned, AppIds
  <1>2. CASE [BoardNext]_boardVars
    <2>0. deleted \subseteq deleted'
      BY DeletedStays DEF BoardInv
    <2>1. AppKept(a) \/ AppRemoved(a) \/ AppRestored(a)
      BY <1>2, AppChange DEF BoardInv, Owned, AppNew
    <2>2. a \in AppIds' \cup deleted' /\ (a \in AppIds' => apps'[a].user = user)
      <3>1. CASE AppKept(a)
        BY <2>0, <3>1 DEF AppKept, Owned, AppIds
      <3>2. CASE AppRemoved(a)
        BY <3>2 DEF AppRemoved, AppIds
      <3>3. CASE AppRestored(a)
        BY <3>3 DEF AppRestored, Owned, AppIds
      <3> QED BY <2>1, <3>1, <3>2, <3>3
    <2>3. ASSUME NEW u \in Tasks, Running(u)', task'[u].kind \in Answers, task'[u].app = a
          PROVE  task'[u].copy.user = user
      <3>1. CASE Same(u)
        BY <2>3, <3>1 DEF Same, Owned
      <3>2. CASE Came(u)
        <4>1. PICK new : /\ Arrives(new) /\ task'[u].kind = new.kind
                         /\ task'[u].app = new.app /\ task'[u].copy = new.copy
          BY <3>2 DEF Came
        <4> QED BY <2>3, <4>1 DEF Arrives, Owned
      <3> QED BY <1>2, <2>3, <3>1, <3>2, NextMoves DEF BoardInv
    <2> QED BY <2>2, <2>3 DEF Owned
  <1> QED BY <1>1, <1>2 DEF BoardStep

\* Then the request has ended.
LEMMA ReviewSaved ==
    ASSUME TasksOK, NEW t \in Tasks, SaveReview(t), task[t].todo = {"saveReview"}
    PROVE  task'[t] # None /\ task'[t].todo = {} /\ \A u \in Tasks \ {t} : task'[u] = task[u]
  <1>1. Goes(t, "saveReview", {})
    BY DoneGoes DEF SaveReview
  <1> QED BY <1>1 DEF Goes

\* A step of a request starts no review.
LEMMA ReviewBefore ==
    ASSUME TypeInv, NEW t \in Tasks, NEW a, Step(t), Running(t), Reviews(t, a)' PROVE Reviews(t, a)
  <1>1. task'[t].user = task[t].user /\ task'[t].app = task[t].app
    <2>1. PICK step \in Steps, new \in SUBSET Steps : Onward(t, step, new)
      BY StepMoves DEF Moved
    <2>2. Running(t)'
      BY DEF Reviews, At, Running
    <2> QED BY <2>1, <2>2 DEF Onward
  <1>2. "saveReview" \in task[t].todo
    <2>1. PICK step \in Steps, new \in SUBSET Steps : Advances(t, step, new)
      BY StepAdvances
    <2>2. task'[t].todo = (task[t].todo \ {step}) \cup new /\ "saveReview" \notin new
      BY <2>1 DEF Advances, Goes, Follow
    <2> QED BY <2>2 DEF Reviews, At
  <1> QED BY <1>1, <1>2 DEF Reviews, At, Running

\* The marks that were lost stay known.
LEMMA LeftGrows == [ListingNext]_listingVars => left \subseteq left'
  <1> SUFFICES ASSUME [ListingNext]_listingVars PROVE left \subseteq left'
    OBVIOUS
  <1>1. ASSUME NEW t \in Tasks, Spends(t) PROVE left \subseteq left'
    BY <1>1 DEF Spends, HydrateFromServer, marks
  <1>2. \/ UNCHANGED <<marks, clicks>> \/ \E t \in Tasks : Answer(t) \/ UserAct(t)
    BY DEF ListingNext, Next, PageStep, ServerStep, ListingStep, OpenHome, SetParams, FadeOutTimer,
         SearchAnswered, NotBoard, listingVars, pageVars
  <1> QED BY <1>1, <1>2, AnswerSpends, UserSpends DEF marks

\* What an employee has on the screen, reviews, or has a review of on its way.
Seen(t, a) ==
    \/ tab[t].page = "applications" /\ tab[t].apps[a] # None
    \/ Reviewing(t, a) \/ Reviews(t, a)
ReadNow(t, a) == a \in AppIds /\ apps[a].user = TabUser[t]

\* The applications are the page of an employee.
PageInv == \A t \in Tasks : tab[t].page = "applications" => ~IsEmployer(t)

LEMMA ReviewIs ==
    ASSUME TypeInv, TabsOK, TabsOK', NEW t \in Tasks
    PROVE  /\ \A b \in Ids : HandleReview(t, b) =>
                 /\ tab'[t].page = "applications" /\ tab[t].page = "applications"
                 /\ tab'[t].apps = tab[t].apps /\ tab[t].apps[b] # None
                 /\ tab'[t].wait = None /\ tab'[t].dialog.app = b /\ b \notin reviewed[t]
                 /\ task' = task /\ Idle(t)
           /\ SubmitReview(t) =>
                 /\ tab'[t].page = tab[t].page /\ tab'[t].apps = tab[t].apps
                 /\ tab'[t].dialog = tab[t].dialog /\ tab'[t].wait = "review"
                 /\ reviewed' = reviewed /\ Idle(t) /\ task'[t] # None
                 /\ \A a : Reviews(t, a)' => Reviewing(t, a) /\ task'[t].todo = {"saveReview"} /\ ~task'[t].failed
  <1>0. TasksOK /\ None \notin Statuses
    BY PagesAssumption DEF TypeInv
  <1>1. ASSUME NEW b \in Ids, HandleReview(t, b)
        PROVE  /\ tab'[t].page = "applications" /\ tab[t].page = "applications"
               /\ tab'[t].apps = tab[t].apps /\ tab[t].apps[b] # None
               /\ tab'[t].wait = None /\ tab'[t].dialog.app = b /\ b \notin reviewed[t]
               /\ task' = task /\ Idle(t)
    <2>1. tab'[t] = [tab[t] EXCEPT !.dialog = [app |-> b, status |-> "completed"]] /\ tab[t] \in Tab
      BY <1>1, ShowIs DEF HandleReview
    <2>2. tab[t].page = "applications" /\ tab[t].apps[b] # None /\ b \notin reviewed[t] /\ Idle(t) /\ task' = task
      BY <1>0, <1>1 DEF HandleReview, CanReview, Statuses, boardVars
    <2>3. tab'[t].page = tab[t].page /\ tab'[t].apps = tab[t].apps /\ tab'[t].wait = tab[t].wait
      BY <2>1 DEF Tab
    <2>4. tab'[t].dialog.app = b
      BY <2>1 DEF Tab
    <2> QED BY <2>2, <2>3, <2>4 DEF Idle
  <1>2. ASSUME SubmitReview(t)
        PROVE  /\ tab'[t].page = tab[t].page /\ tab'[t].apps = tab[t].apps
               /\ tab'[t].dialog = tab[t].dialog /\ tab'[t].wait = "review"
               /\ reviewed' = reviewed /\ Idle(t) /\ task'[t] # None
               /\ \A a : Reviews(t, a)' => Reviewing(t, a) /\ task'[t].todo = {"saveReview"} /\ ~task'[t].failed
    <2> DEFINE app == tab[t].dialog.app
    <2>1. /\ tab'[t].page = tab[t].page /\ tab'[t].apps = tab[t].apps
          /\ tab'[t].dialog = tab[t].dialog /\ tab'[t].wait = "review"
          /\ reviewed' = reviewed /\ Idle(t) /\ tab[t].page = "applications" /\ tab[t].dialog # None
      BY <1>2, SendIs DEF SubmitReview, Send, marks
    <2>2. CASE Refused(t, "review", None)
      <3>1. task'[t] = Answered("review", None, TRUE)
        BY <1>0, <2>2 DEF Refused, TasksOK
      <3>2. task'[t] \in Task /\ task'[t].todo = {}
        <4>1. "review" \in Kinds
          BY DEF Kinds
        <4>2. ASSUME NEW kind \in Kinds, NEW p \in Posts \cup {None}
              PROVE  Answered(kind, p, TRUE) \in Task /\ Answered(kind, p, TRUE).todo = {}
          BY DEF Answered, Fresh, Task
        <4> QED BY <3>1, <4>1, <4>2
      <3>3. task'[t] # None /\ \A a : ~Reviews(t, a)'
        BY <3>2, NoneIsNone DEF Reviews, At
      <3> QED BY <2>1, <3>3
    <2>3. CASE app \in AppIds /\ Review(t, app, "applicant")
      <3>1. task'[t] = [Fresh("review", apps[app].post, {"saveReview"}) EXCEPT !.app = app, !.user = "applicant"]
        BY <1>0, <2>3, BeginTask DEF Review
      <3>2. task'[t].app = app /\ task'[t].todo = {"saveReview"} /\ ~task'[t].failed
        BY <3>1 DEF Fresh
      <3>3. task'[t] # None
        <4>1. PICK new : Begin(t, new) /\ Arrives(new)
          BY <1>0, <2>3, ReviewArrives DEF TypeInv
        <4>2. task'[t] = new /\ new \in Task
          BY <1>0, <4>1, BeginTask DEF Arrives
        <4> QED BY <4>2, NoneIsNone
      <3>4. \A a : Reviews(t, a)' => a = app
        BY <3>2 DEF Reviews
      <3> QED BY <2>1, <3>2, <3>3, <3>4 DEF Reviewing
    <2> QED BY <1>2, <2>2, <2>3 DEF SubmitReview, SendReview
  <1> QED BY <1>1, <1>2

LEMMA PageInvStep == PagesInv /\ BrowserInv /\ PageInv /\ [ListingNext]_listingVars => PageInv'
  <1> SUFFICES ASSUME PagesInv, BrowserInv, PageInv, [ListingNext]_listingVars,
                      NEW t \in Tasks, tab'[t].page = "applications"
               PROVE  ~IsEmployer(t)
    BY DEF PageInv, IsEmployer
  <1>0. TypeInv /\ TabsOK /\ TabsOK'
    BY ListingBoard DEF PagesInv, DataInv, ClosingInv, BoardInv
  <1>1. CASE TabKept(t)
    BY <1>1 DEF TabKept, PageInv
  <1>2. ASSUME NEW b \in Ids, HandleReview(t, b) PROVE ~IsEmployer(t)
    BY <1>0, <1>2, ReviewIs DEF PageInv
  <1>3. CASE SubmitReview(t)
    BY <1>0, <1>3, ReviewIs DEF PageInv
  <1>4. CASE Turned(t) \/ Reopened(t)
    BY <1>4 DEF Turned, Reopened, Turns, PageInv
  <1> QED BY <1>0, <1>1, <1>2, <1>3, <1>4, ReviewMoves

\* An application that is seen was seen, or was read now.
LEMMA SeenMoves ==
    ASSUME PagesInv, BrowserInv, PageInv, [ListingNext]_listingVars, NEW t \in Tasks, NEW a \in Ids, Seen(t, a)'
    PROVE  Seen(t, a) \/ ReadNow(t, a)
  <1>0. TypeInv /\ TabsOK /\ TabsOK'
    BY ListingBoard DEF PagesInv, DataInv, ClosingInv, BoardInv
  <1>r. ASSUME task'[t] = task[t], Reviews(t, a)' PROVE Reviews(t, a)
    BY <1>r DEF Reviews, At
  <1>1. CASE TabKept(t)
    <2>1. CASE Reviews(t, a)'
      <3>1. CASE Running(t) /\ Step(t)
        BY <1>0, <2>1, <3>1, ReviewBefore DEF Seen
      <3>2. CASE Crash
        BY <2>1, <3>2 DEF Crash, Reviews, At
      <3> QED BY <1>1, <1>r, <2>1, <3>1, <3>2 DEF TabKept, Seen
    <2>2. CASE ~Reviews(t, a)'
      BY <1>1, <2>2 DEF TabKept, Seen, Reviewing
    <2> QED BY <2>1, <2>2
  <1>2. ASSUME NEW b \in Ids, HandleReview(t, b) PROVE Seen(t, a)
    <2>1. /\ tab'[t].page = "applications" /\ tab[t].page = "applications"
          /\ tab'[t].apps = tab[t].apps /\ tab[t].apps[b] # None /\ tab'[t].dialog.app = b /\ task' = task
      BY <1>0, <1>2, ReviewIs
    <2> QED BY <1>r, <2>1 DEF Seen, Reviewing
  <1>3. CASE SubmitReview(t)
    <2>1. /\ tab'[t].page = tab[t].page /\ tab'[t].apps = tab[t].apps /\ tab'[t].dialog = tab[t].dialog
          /\ Reviews(t, a)' => Reviewing(t, a)
      BY <1>0, <1>3, ReviewIs
    <2> QED BY <2>1 DEF Seen, Reviewing
  <1>4. CASE Turned(t) \/ Reopened(t)
    <2>1. CASE Reviews(t, a)'
      BY <1>4, <1>r, <2>1 DEF Turned, Reopened, Opened, Seen
    <2>2. CASE Reviewing(t, a)'
      BY <1>4, <2>2 DEF Turned, Reopened, Turns, Reviewing, Seen
    <2>3. CASE tab'[t].page = "applications" /\ tab'[t].apps[a] # None
      <3>1. ~IsEmployer(t)
        BY <1>4, <2>3 DEF Turned, Reopened, Turns, PageInv
      <3>2. CASE tab'[t].apps = Requests(t)
        BY <2>3, <3>1, <3>2 DEF Requests, ReadNow
      <3>3. CASE tab[t].page = "applications" /\ tab'[t].apps = tab[t].apps
        BY <2>3, <3>3 DEF Seen
      <3> QED BY <1>4, <2>3, <3>2, <3>3 DEF Turned, Reopened, Turns
    <2> QED BY <2>1, <2>2, <2>3 DEF Seen
  <1> QED BY <1>0, <1>1, <1>2, <1>3, <1>4, ReviewMoves

\* While nothing fails: a review is saved in one step, for a page that waits for it
\* or was left; and no page waits for a review that was lost.
ReviewingInv ==
    faults = 0 => \A t \in Tasks :
        /\ \A a \in Ids : Reviews(t, a) =>
              /\ task[t].todo = {"saveReview"} /\ ~task[t].failed
              /\ tab[t].wait = "review" \/ (tab[t].wait = None /\ tab[t].dialog = None)
        /\ tab[t].wait = "review" => task[t] # None

\* The step is not a fault.
LEMMA FaultlessStep ==
    ASSUME TypeInv, TabsOK, [ListingNext]_listingVars, faults' = 0
    PROVE  faults = 0 /\ ~Crash /\ \A t : ~Reject(t)
  <1>1. faults \in Nat /\ faults' \in {faults, faults + 1}
    BY FaultsCounted DEF TypeInv, CallsOK
  <1> QED BY <1>1 DEF Crash, Reject, Fault

\* A review on its way is not yet answered,
LEMMA ReviewWaits ==
    ASSUME ReviewingInv, faults = 0, NEW t \in Tasks, NEW a \in Ids, Reviews(t, a)
    PROVE  ~Idle(t) /\ ~ReviewAnswered(t)
  BY DEF ReviewingInv, Reviews, At, Idle, ReviewAnswered, Returned, Lost, Failed, Running

LEMMA AnswerWaits == ASSUME NEW t \in Tasks, Answer(t) PROVE tab[t].wait # None
  BY PagesAssumption DEF Waits, Answer, WithdrawAnswered, ReviewAnswered, ReviewFollows, ResponseAnswered,
     ArchiveAnswered, ApplyAnswered, StatusAnswered, DeleteAnswered, UploadAnswered, CreateAnswered, EventAnswered,
     Returned

\* and is saved by its next step.
LEMMA ReviewSteps ==
    ASSUME TypeInv, ReviewingInv, faults = 0, NEW t \in Tasks, NEW a \in Ids, Reviews(t, a), Step(t), ~Reject(t)
    PROVE  SaveReview(t) /\ task'[t].todo = {}
  <1>1. SaveReview(t) /\ task[t].todo = {"saveReview"}
    BY ApplySteps DEF ReviewingInv
  <1> QED BY <1>1, ReviewSaved DEF TypeInv

\* The answer closes the dialog.
LEMMA DialogCloses ==
    ASSUME TypeInv, TabsOK, TabsOK', ReviewingInv, faults = 0, NEW t \in Tasks, ReviewAnswered(t)
    PROVE  tab'[t].dialog = None
  <1>1. Settle(t, DialogClosed(t, "success")) /\ tab[t] \in Tab
    BY DEF ReviewAnswered, Returned, Lost, ReviewingInv, TabsOK
  <1> QED BY <1>1, SettleIs, ToastedIs

LEMMA ReviewingStep == PagesInv /\ BrowserInv /\ ReviewingInv /\ [ListingNext]_listingVars => ReviewingInv'
  <1> SUFFICES ASSUME PagesInv, BrowserInv, ReviewingInv, [ListingNext]_listingVars, faults' = 0, NEW t \in Tasks
               PROVE  /\ \A a \in Ids : Reviews(t, a)' =>
                            /\ task'[t].todo = {"saveReview"} /\ ~task'[t].failed
                            /\ tab'[t].wait = "review" \/ (tab'[t].wait = None /\ tab'[t].dialog = None)
                      /\ tab'[t].wait = "review" => task'[t] # None
    BY DEF ReviewingInv
  <1>0. TypeInv /\ TabsOK /\ TabsOK' /\ None # "review"
    BY ListingBoard, PagesAssumption DEF PagesInv, DataInv, ClosingInv, BoardInv, Waits
  <1>f. faults = 0 /\ ~Crash /\ \A u : ~Reject(u)
    BY <1>0, FaultlessStep
  <1>1. ASSUME NEW a \in Ids, Reviews(t, a)'
        PROVE  /\ task'[t].todo = {"saveReview"} /\ ~task'[t].failed
               /\ tab'[t].wait = "review" \/ (tab'[t].wait = None /\ tab'[t].dialog = None)
    <2>k. ASSUME task'[t] = task[t]
          PROVE  /\ Reviews(t, a) /\ task'[t].todo = {"saveReview"} /\ ~task'[t].failed
                 /\ tab[t].wait = "review" \/ (tab[t].wait = None /\ tab[t].dialog = None)
      BY <1>1, <1>f, <2>k DEF Reviews, At, ReviewingInv
    <2>1. CASE TabKept(t)
      <3>1. ASSUME Running(t), Step(t) PROVE FALSE
        <4>1. Reviews(t, a)
          BY <1>0, <1>1, <3>1, ReviewBefore
        <4>2. task'[t].todo = {}
          BY <1>0, <1>f, <3>1, <4>1, ReviewSteps
        <4> QED BY <1>1, <4>2 DEF Reviews, At
      <3> QED BY <1>f, <2>1, <2>k, <3>1 DEF TabKept
    <2>2. ASSUME NEW b \in Ids, HandleReview(t, b) PROVE FALSE
      <3>1. Idle(t) /\ task' = task
        BY <1>0, <2>2, ReviewIs
      <3> QED BY <1>f, <2>k, <3>1, ReviewWaits
    <2>3. CASE SubmitReview(t)
      BY <1>0, <1>1, <2>3, ReviewIs
    <2>4. CASE Turned(t)
      <3>1. task'[t] = task[t]
        BY <1>1, <2>4 DEF Turned
      <3>2. Reviews(t, a) /\ ~Idle(t) /\ ~ReviewAnswered(t)
        BY <1>f, <2>k, <3>1, ReviewWaits
      <3>3. Answer(t)
        BY <2>4, <3>2 DEF Turned
      <3>4. tab[t].wait = "review"
        BY <2>k, <3>1, <3>3, AnswerWaits
      <3> QED BY <2>4, <3>2, <3>4 DEF Turned
    <2>5. CASE Reopened(t)
      BY <2>5, <2>k DEF Reopened, Opened
    <2> QED BY <1>0, <2>1, <2>2, <2>3, <2>4, <2>5, ReviewMoves
  <1>2. ASSUME tab'[t].wait = "review" PROVE task'[t] # None
    <2>1. CASE TabKept(t)
      <3>1. tab[t].wait = "review" /\ task[t] # None
        BY <1>2, <1>f, <2>1 DEF TabKept, ReviewingInv
      <3>2. ASSUME Step(t) PROVE task'[t] # None
        <4>1. PICK step \in Steps, new \in SUBSET Steps : Advances(t, step, new)
          BY <1>0, <3>2, StepAdvances
        <4> QED BY <4>1 DEF Advances, Goes
      <3> QED BY <1>f, <2>1, <3>1, <3>2 DEF TabKept
    <2>2. ASSUME NEW b \in Ids, HandleReview(t, b) PROVE FALSE
      BY <1>0, <1>2, <2>2, ReviewIs
    <2>3. CASE SubmitReview(t)
      BY <1>0, <2>3, ReviewIs
    <2> QED BY <1>0, <1>2, <2>1, <2>2, <2>3, ReviewMoves DEF Turned, Reopened, Opened
  <1> QED BY <1>1, <1>2

\* An application that is seen is the user's alone.
Own(a, user) == Owned(a, user) /\ \A t \in Tasks : Seen(t, a) => TabUser[t] = user
Untouched(a) == a \notin AppIds /\ reviews[a].applicant = 0 /\ \A t \in Tasks : ~Seen(t, a)

\* The browsers that are about to review it; those of the user that have marked it.
Due(a) == {t \in Tasks : (Reviewing(t, a) /\ tab[t].wait # "review") \/ Reviews(t, a)}
Marked(a, user) == {t \in Tasks : a \in reviewed[t] /\ TabUser[t] = user}
Counted(a, user) ==
    /\ \A t \in Due(a) : a \in reviewed[t]
    /\ reviews[a].applicant <= Cardinality(Marked(a, user) \ Due(a))

\* While nothing fails and no mark is lost: each review was made in a browser of the
\* user that has marked it and is not about to make another.
OnceInv ==
    \A a \in Ids : \/ Untouched(a)
                   \/ \E user : Own(a, user) /\ (faults = 0 /\ a \notin left => Counted(a, user))

LEMMA MarkedFinite ==
    ASSUME NEW a, NEW user
    PROVE  /\ IsFiniteSet(Marked(a, user) \ Due(a)) /\ Cardinality(Marked(a, user) \ Due(a)) \in Nat
           /\ IsFiniteSet(Marked(a, user) \ Due(a))' /\ Cardinality(Marked(a, user) \ Due(a))' \in Nat
  <1>1. IsFiniteSet(Tasks) /\ Marked(a, user) \ Due(a) \in SUBSET Tasks
    BY PagesAssumption DEF Marked
  <1>2. (Marked(a, user) \ Due(a))' \in SUBSET Tasks
    BY DEF Marked
  <1> QED BY <1>1, <1>2, FS_Subset, FS_CardinalityType

\* Who is about to review it has marked it, and who has done so is not about to again.
LEMMA DueMoves ==
    ASSUME PagesInv, BrowserInv, ReviewingInv, [ListingNext]_listingVars, faults' = 0,
           NEW a \in Ids, NEW user, Own(a, user), a \notin left', \A t \in Due(a) : a \in reviewed[t], NEW u \in Tasks
    PROVE  /\ u \in Due(a)' => a \in reviewed'[u]
           /\ u \in Marked(a, user) \ Due(a) /\ reviews[a].applicant > 0 => u \in (Marked(a, user) \ Due(a))'
  <1>0. TypeInv /\ TabsOK /\ TabsOK' /\ None # "review"
    BY ListingBoard, PagesAssumption DEF PagesInv, DataInv, ClosingInv, BoardInv, Waits
  <1>f. faults = 0 /\ ~Crash /\ \A t : ~Reject(t)
    BY <1>0, FaultlessStep
  <1>r. ASSUME task'[u] = task[u], Reviews(u, a)' PROVE Reviews(u, a)
    BY <1>r DEF Reviews, At
  <1>k. ASSUME reviewed'[u] = reviewed[u], u \in Due(a)' => u \in Due(a)
        PROVE  /\ u \in Due(a)' => a \in reviewed'[u]
               /\ u \in Marked(a, user) \ Due(a) => u \in (Marked(a, user) \ Due(a))'
    BY <1>k DEF Marked
  <1>1. CASE TabKept(u)
    <2>1. Reviews(u, a)' => Reviews(u, a)
      BY <1>0, <1>1, <1>f, <1>r, ReviewBefore DEF TabKept
    <2>2. u \in Due(a)' => u \in Due(a)
      BY <1>1, <2>1 DEF TabKept, Due, Reviewing
    <2> QED BY <1>1, <1>k, <2>2 DEF TabKept
  <1>2. ASSUME NEW b \in Ids, HandleReview(u, b)
        PROVE  /\ u \in Due(a)' => a \in reviewed'[u]
               /\ u \in Marked(a, user) \ Due(a) => u \in (Marked(a, user) \ Due(a))'
    <2>1. tab'[u].dialog.app = b /\ b \notin reviewed[u] /\ task' = task /\ Idle(u)
      BY <1>0, <1>2, ReviewIs
    <2>2. ~Reviews(u, a)'
      BY <1>f, <1>r, <2>1, ReviewWaits
    <2>3. u \in Due(a)' => a = b
      BY <2>1, <2>2 DEF Due, Reviewing
    <2>4. reviewed'[u] = reviewed[u] \cup {b}
      BY <1>2 DEF HandleReview, BrowserInv
    <2> QED BY <2>1, <2>3, <2>4 DEF Marked
  <1>3. CASE SubmitReview(u)
    <2>1. tab'[u].wait = "review" /\ reviewed' = reviewed /\ Idle(u) /\ (Reviews(u, a)' => Reviewing(u, a))
      BY <1>0, <1>3, ReviewIs
    <2>2. u \in Due(a)' => u \in Due(a)
      BY <1>0, <2>1 DEF Due, Idle
    <2> QED BY <1>k, <2>1, <2>2
  <1>4. CASE Turned(u)
    <2>1. Reviews(u, a)' => Reviews(u, a)
      BY <1>4, <1>r DEF Turned
    <2>2. Reviewing(u, a)' => Reviewing(u, a)
      BY <1>4 DEF Turned, Turns, Reviewing
    <2>3. Reviewing(u, a)' => tab[u].wait # "review"
      BY <1>0, <1>4, <1>f, DialogCloses DEF Turned, Reviewing
    <2>4. u \in Due(a)' => u \in Due(a)
      BY <2>1, <2>2, <2>3 DEF Due
    <2> QED BY <1>4, <1>k, <2>4 DEF Turned
  <1>5. CASE Reopened(u)
    <2>1. (u \in Due(a)' => Reviews(u, a)) /\ (Reviews(u, a) => u \in Due(a))
      BY <1>5, <1>r DEF Reopened, Opened, Due, Reviewing
    <2>2. CASE reviewed'[u] = reviewed[u]
      BY <1>k, <2>1, <2>2
    <2>3. CASE HydrateFromServer(u)
      <3>1. reviewed'[u] = AlreadyReviewed(u) /\ (Reviews(u, a) => a \in AlreadyReviewed(u))
        BY <2>3 DEF HydrateFromServer, BrowserInv
      <3>2. ASSUME reviews[a].applicant > 0, u \in Marked(a, user) PROVE a \in AlreadyReviewed(u)
        BY <3>2 DEF AlreadyReviewed, Own, Owned, Marked
      <3> QED BY <2>1, <3>1, <3>2 DEF Marked
    <2> QED BY <1>5, <2>2, <2>3 DEF Reopened
  <1> QED BY <1>0, <1>1, <1>2, <1>3, <1>4, <1>5, ReviewMoves

LEMMA CountedStep ==
    ASSUME PagesInv, BrowserInv, ReviewingInv, [ListingNext]_listingVars, faults' = 0,
           NEW a \in Ids, NEW user, Own(a, user), a \notin left', Counted(a, user)
    PROVE  Counted(a, user)'
  <1>0. TypeInv /\ TabsOK /\ TasksOK
    BY DEF PagesInv, DataInv, ClosingInv, BoardInv, TypeInv
  <1>f. faults = 0
    BY <1>0, FaultlessStep
  <1>n. reviews[a].applicant \in Nat
    BY <1>0 DEF TypeInv, DataOK
  <1> DEFINE S == Marked(a, user) \ Due(a)
  <1>m. /\ IsFiniteSet(S) /\ Cardinality(S) \in Nat
        /\ IsFiniteSet(S') /\ Cardinality(S') \in Nat
    BY MarkedFinite
  <1>1. \A t \in Due(a)' : a \in reviewed'[t]
    <2>1. \A t \in Due(a)' : t \in Tasks
      BY DEF Due
    <2> QED BY <2>1, DueMoves DEF Counted
  <1>2. CASE reviews'[a].applicant = reviews[a].applicant
    <2>1. CASE reviews[a].applicant = 0
      BY <1>1, <1>2, <1>m, <2>1 DEF Counted
    <2>2. CASE reviews[a].applicant > 0
      <3>1. \A t \in S : t \in Tasks
        BY DEF Marked
      <3>2. S \in SUBSET S'
        BY <2>2, <3>1, DueMoves DEF Counted
      <3>3. Cardinality(S) <= Cardinality(S')
        BY <1>m, <3>2, FS_Subset
      <3> QED BY <1>1, <1>2, <1>m, <1>n, <3>3 DEF Counted
    <2> QED BY <1>n, <2>1, <2>2
  <1>3. ASSUME NEW v \in Tasks, Reviews(v, a), SaveReview(v), tab' = tab, reviewed' = reviewed,
               reviews'[a].applicant = reviews[a].applicant + 1
        PROVE  Counted(a, user)'
    <2>1. task[v].todo = {"saveReview"} /\ ~(Reviewing(v, a) /\ tab[v].wait # "review")
      BY <1>3, <1>f DEF ReviewingInv, Reviewing
    <2>2. task'[v].todo = {} /\ \A t \in Tasks \ {v} : task'[t] = task[t]
      BY <1>0, <1>3, <2>1, ReviewSaved
    <2>3. v \in Due(a) /\ v \notin Due(a)'
      BY <1>3, <2>1, <2>2 DEF Due, Reviewing, Reviews, At
    <2>4. \A t \in Tasks \ {v} : t \in Due(a)' => t \in Due(a)
      BY <1>3, <2>2 DEF Due, Reviewing, Reviews, At
    <2>5. v \in Marked(a, user)
      BY <1>3, <2>3 DEF Counted, Marked, Own, Seen
    <2>6. S \cup {v} \in SUBSET S'
      BY <1>3, <2>3, <2>4, <2>5 DEF Marked
    <2>7. Cardinality(S \cup {v}) = Cardinality(S) + 1
      BY <1>m, <2>3, FS_AddElement
    <2>8. Cardinality(S \cup {v}) <= Cardinality(S')
      BY <1>m, <2>6, FS_Subset
    <2> QED BY <1>1, <1>3, <1>m, <1>n, <2>7, <2>8 DEF Counted
  <1> QED BY <1>0, <1>2, <1>3, ReviewsMove

LEMMA OnceStep ==
    PagesInv /\ BrowserInv /\ PageInv /\ ReviewingInv /\ OnceInv /\ [ListingNext]_listingVars => OnceInv'
  <1> SUFFICES ASSUME PagesInv, BrowserInv, PageInv, ReviewingInv, OnceInv, [ListingNext]_listingVars, NEW a \in Ids
               PROVE  \/ Untouched(a)'
                      \/ \E user : Own(a, user)' /\ (faults' = 0 /\ a \notin left' => Counted(a, user)')
    BY DEF OnceInv
  <1>0. TypeInv /\ TabsOK /\ BoardInv /\ BoardStep /\ BoardInv'
    BY ListingBoard, PagesStep DEF PagesInv, DataInv, ClosingInv, BoardInv
  <1>1. CASE Untouched(a)
    <2>1. \A t \in Tasks : ~Seen(t, a)'
      BY <1>1, SeenMoves DEF Untouched, ReadNow
    <2>2. reviews'[a].applicant = 0
      BY <1>0, <1>1, ReviewsMove DEF Untouched, Seen
    <2>3. CASE a \in AppIds'
      <3>1. PICK user : user = apps'[a].user
        OBVIOUS
      <3>2. Own(a, user)'
        BY <1>0, <2>1, <2>3, <3>1 DEF Own, Owned, BoardInv, AnswersInv
      <3>3. \A t \in Due(a)' : FALSE
        BY <2>1 DEF Due, Seen
      <3>4. Cardinality(Marked(a, user) \ Due(a))' \in Nat
        BY MarkedFinite
      <3>5. Counted(a, user)'
        BY <2>2, <3>3, <3>4 DEF Counted
      <3> QED BY <3>2, <3>5
    <2>4. CASE a \notin AppIds'
      BY <2>1, <2>2, <2>4 DEF Untouched
    <2> QED BY <2>3, <2>4
  <1>2. ASSUME NEW user, Own(a, user), faults = 0 /\ a \notin left => Counted(a, user)
        PROVE  Own(a, user)' /\ (faults' = 0 /\ a \notin left' => Counted(a, user)')
    <2>1. Owned(a, user)'
      BY <1>0, <1>2, OwnedStays DEF Own
    <2>2. ASSUME NEW t \in Tasks, Seen(t, a)' PROVE TabUser[t] = user
      BY <1>2, <2>2, SeenMoves DEF Own, Owned, ReadNow
    <2>3. ASSUME faults' = 0, a \notin left' PROVE Counted(a, user)'
      <3>1. faults = 0 /\ a \notin left
        BY <1>0, <2>3, FaultlessStep, LeftGrows
      <3> QED BY <1>2, <2>3, <3>1, CountedStep
    <2> QED BY <2>1, <2>2, <2>3 DEF Own
  <1> QED BY <1>1, <1>2 DEF OnceInv

\* An employee reviews an application once from each of his browsers, though no table
\* forbids a second review; but for one that is sent again when its answer was lost,
\* or whose mark was lost while it was on its way.
THEOREM ReviewsAreSingle == ListingsSpec => []ReviewedOnce
  <1>1. ListingInit => BrowserInv /\ PageInv /\ ReviewingInv /\ OnceInv
    <2> SUFFICES ASSUME ListingInit PROVE BrowserInv /\ PageInv /\ ReviewingInv /\ OnceInv
      OBVIOUS
    <2>1. /\ tab = [t \in Tasks |-> Blank("home", None)] /\ reviewed = [t \in Tasks |-> {}] /\ left = {}
          /\ clicks = calls["click"]
          /\ reviews = [a \in Ids |-> [applicant |-> 0, employer |-> 0]] /\ task = [t \in Tasks |-> None]
      BY DEF ListingInit, Init, BoardInit
    <2>2. CallsOK /\ None # "review"
      BY PagesInit, PagesAssumption DEF PagesInv, DataInv, ClosingInv, BoardInv, TypeInv, Waits
    <2>3. BrowserInv
      BY <2>1, <2>2 DEF BrowserInv, CallsOK, Bounds
    <2>4. \A t \in Tasks : tab[t].page = "home" /\ tab[t].wait = None
      BY <2>1 DEF Blank
    <2>5. \A t \in Tasks : \A a : ~Seen(t, a)
      BY <2>1, <2>4 DEF Seen, Reviewing, Reviews, At
    <2>6. PageInv /\ ReviewingInv
      BY <2>1, <2>2, <2>4 DEF PageInv, ReviewingInv, Reviews, At
    <2>7. ASSUME NEW a \in Ids PROVE Untouched(a) \/ \E user : Own(a, user) /\ Counted(a, user)
      <3>1. reviews[a].applicant = 0
        BY <2>1
      <3>2. CASE a \in AppIds
        <4>1. PICK user : user = apps[a].user
          OBVIOUS
        <4>2. Own(a, user)
          BY <2>1, <2>5, <3>2, <4>1 DEF Own, Owned, Running
        <4>3. \A t \in Due(a) : FALSE
          BY <2>5 DEF Due, Seen
        <4>4. Cardinality(Marked(a, user) \ Due(a)) \in Nat
          BY MarkedFinite
        <4>5. Counted(a, user)
          BY <3>1, <4>3, <4>4 DEF Counted
        <4> QED BY <4>2, <4>5
      <3> QED BY <2>5, <3>1, <3>2 DEF Untouched
    <2> QED BY <2>3, <2>6, <2>7 DEF OnceInv
  <1>2. PagesInv /\ OnceInv => ReviewedOnce
    <2> SUFFICES ASSUME PagesInv, OnceInv, NEW a \in AppIds
                 PROVE  \/ reviews[a].applicant <= Cardinality({t \in Tasks : TabUser[t] = apps[a].user})
                        \/ faults > 0 \/ a \in left
      BY DEF ReviewedOnce
    <2>0. faults \in Nat
      BY DEF PagesInv, DataInv, ClosingInv, BoardInv, TypeInv, CallsOK
    <2> SUFFICES ASSUME faults = 0, a \notin left
                 PROVE  reviews[a].applicant <= Cardinality({t \in Tasks : TabUser[t] = apps[a].user})
      BY <2>0
    <2>1. a \in Ids /\ reviews[a].applicant \in Nat
      BY DEF PagesInv, DataInv, ClosingInv, BoardInv, TypeInv, DataOK, AppIds
    <2>2. PICK user : Own(a, user) /\ Counted(a, user)
      BY <2>1 DEF OnceInv, Untouched
    <2> DEFINE S == {t \in Tasks : TabUser[t] = user}
    <2>3. IsFiniteSet(S) /\ Cardinality(S) \in Nat
      BY PagesAssumption, FS_Subset, FS_CardinalityType
    <2>4. Marked(a, user) \ Due(a) \in SUBSET S
      BY DEF Marked
    <2>5. Cardinality(Marked(a, user) \ Due(a)) <= Cardinality(S)
      BY <2>3, <2>4, FS_Subset
    <2>6. apps[a].user = user
      BY <2>2 DEF Own, Owned
    <2>7. Cardinality(Marked(a, user) \ Due(a)) \in Nat
      BY MarkedFinite
    <2>8. reviews[a].applicant <= Cardinality(Marked(a, user) \ Due(a))
      BY <2>2 DEF Counted
    <2>9. reviews[a].applicant <= Cardinality(S)
      BY <2>1, <2>3, <2>5, <2>7, <2>8
    <2> QED BY <2>6, <2>9
  <1>3. PagesInv /\ BrowserInv /\ PageInv /\ ReviewingInv /\ OnceInv /\ [ListingNext]_listingVars => OnceInv'
    BY OnceStep
  <1>4. PagesInv /\ BrowserInv /\ ReviewingInv /\ [ListingNext]_listingVars => ReviewingInv'
    BY ReviewingStep
  <1>5. PagesInv /\ BrowserInv /\ PageInv /\ [ListingNext]_listingVars => PageInv'
    BY PageInvStep
  <1> QED BY <1>1, <1>2, <1>3, <1>4, <1>5, PagesInit, PagesStep, BrowserStep, PTL DEF ListingsSpec
===============================================================================
