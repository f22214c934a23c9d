------------------------------- MODULE Listings -------------------------------
(***************************************************************************)
(* The home page of the web app: the listing of the posts that match the   *)
(* parameters of useParamsStore, over the pages of BoardPages.  A change   *)
(* of the parameters starts a timer, and what the search then answers is   *)
(* put into useJobPostStore.  Both stores outlive the page.                *)
(***************************************************************************)
EXTENDS BoardPages, Sequences

CONSTANTS
    Params,         \* what one can search for
    Matches         \* the posts that Elasticsearch finds for it, among those indexed

ASSUME ListingsAssumption ==
    /\ Matches \in [Params -> SUBSET Posts]
    /\ "all" \in Params /\ None \notin Params

VARIABLE listing

listingVars == <<pageVars, listing>>

\* `sent': the searches under way, in the order of the queue of server actions;
\* those that a page sent which was left since are not its own.
Listing == [mounted : BOOLEAN, params : Params, timer : BOOLEAN,
            sent : Seq([params : Params, own : BOOLEAN]),
            data : [params : Params \cup {None}, posts : SUBSET Posts],
            loading : BOOLEAN, fading : {"in", "out"}]

ListingInit ==
    /\ Init
    /\ listing = [t \in Tasks |->
                    [mounted |-> FALSE, params |-> "all", timer |-> FALSE, sent |-> <<>>,
                     data |-> [params |-> None, posts |-> {}], loading |-> TRUE, fading |-> "in"]]

List(t, new) == listing' = [listing EXCEPT ![t] = new]
NextSearch == calls["search"] > 0 /\ calls' = [calls EXCEPT !["search"] = @ - 1]
NotBoard == UNCHANGED <<tables, index, bucket, task, marks, clicks>>

(***************************************************************************)
(* The page                                                                *)
(***************************************************************************)
\* useEffect: the page fades out, and a new timer replaces the one that runs.
Effect(l) == [l EXCEPT !.timer = TRUE, !.fading = "out"]

\* The home page of an employer shows his posts.
OpenHome(t) ==
    /\ ~listing[t].mounted /\ Idle(t) /\ ~IsEmployer(t)
    /\ NextSearch
    /\ List(t, Effect([listing[t] EXCEPT !.mounted = TRUE, !.loading = TRUE]))
    /\ Show(t, Blank("home", None))
    /\ NotBoard /\ UNCHANGED faults

\* A page that is left: the cleanup stops the timer, the searches go on.
Unmounted(l) ==
    [l EXCEPT !.mounted = FALSE, !.timer = FALSE,
              !.sent = [k \in DOMAIN @ |-> [@[k] EXCEPT !.own = FALSE]]]
LeaveHome ==
    listing' = [t \in Tasks |-> IF tab'[t].page # "home" THEN Unmounted(listing[t]) ELSE listing[t]]

\* Mutant of SetParams: the effect does not depend on what was changed.
SetParamsUnseen(t, q) ==
    /\ listing[t].mounted /\ q # listing[t].params
    /\ NextSearch
    /\ List(t, [listing[t] EXCEPT !.params = q])
    /\ UNCHANGED <<tab, faults>> /\ NotBoard

\* By the header, the filters, the order and the badges, and reset(): nothing
\* happens when the parameters are those already there.
SetParams(t, q) ==
    /\ listing[t].mounted /\ q # listing[t].params
    /\ NextSearch
    /\ List(t, Effect([listing[t] EXCEPT !.params = q]))
    /\ UNCHANGED <<tab, faults>> /\ NotBoard

FadeOutTimer(t) ==
    /\ listing[t].timer
    /\ List(t, [listing[t] EXCEPT !.timer = FALSE,
                                  !.sent = Append(@, [params |-> listing[t].params, own |-> TRUE])])
    /\ UNCHANGED <<tab, calls, faults>> /\ NotBoard

(***************************************************************************)
(* The search, and what the page does with its answer                      *)
(***************************************************************************)
Search(q) == {p \in Matches[q] : index[p] # 0}

\* The store takes whatever came; only the page that asked is shown again.
SetData(t, found) ==
    LET l == listing[t]
        new == [l EXCEPT !.sent = Tail(@), !.data = [params |-> Head(l.sent).params, posts |-> found]]
    IN  List(t, IF Head(l.sent).own THEN [new EXCEPT !.loading = FALSE, !.fading = "in"] ELSE new)

\* An {error} has no results; a lost connection throws, and nothing catches it.
SearchAnswered(t) ==
    /\ listing[t].sent # <<>>
    /\ \/ SetData(t, Search(Head(listing[t].sent).params)) /\ UNCHANGED <<calls, faults>>
       \/ SetData(t, {}) /\ Fault
       \/ List(t, [listing[t] EXCEPT !.sent = Tail(@)]) /\ Fault
    /\ UNCHANGED tab /\ NotBoard

ListingStep(t) == (FadeOutTimer(t) \/ SearchAnswered(t)) /\ Remember
ListingNext ==
    \/ Next /\ LeaveHome
    \/ \E t \in Tasks : \/ ListingStep(t)
                        \/ (OpenHome(t) \/ \E q \in Params : SetParams(t, q)) /\ Remember

\* As in FairSpec: the event loops go on; users need not act.
ListingsSpec ==
    /\ ListingInit
    /\ [][ListingNext]_listingVars
    /\ \A t \in Tasks : /\ WF_listingVars(PageStep(t) /\ LeaveHome)
                        /\ WF_listingVars(ServerStep(t) /\ LeaveHome)
                        /\ WF_listingVars(ListingStep(t))

-------------------------------------------------------------------------------
\* The type invariant.
ListingTypeOK == PagesTypeOK /\ listing \in [Tasks -> Listing]

\* A listing that is not fading, and waits for nothing, shows the posts for the
\* parameters on the screen and not for earlier ones, however the changes, the
\* answers and visits of other pages interleave; not so when an answer was lost
\* after the one to an earlier search had come.
ShownIsLatest ==
    \A t \in Tasks :
        LET l == listing[t]
        IN  l.mounted /\ ~l.loading /\ l.fading = "in" /\ ~l.timer /\ l.sent = <<>> =>
                l.data.params = l.params \/ faults > 0

\* No page waits for good, for the answer to a request or for a listing to show;
\* but after a connection was lost a listing loads until the parameters change.
NothingHangs ==
    /\ PagesGoOn
    /\ \A t \in Tasks :
          listing[t].mounted /\ listing[t].loading ~> ~listing[t].mounted \/ ~listing[t].loading \/ faults > 0
===============================================================================
