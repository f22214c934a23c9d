------------------------------- MODULE MCBoard -------------------------------
(***************************************************************************)
(* Scenarios of the job board for TLC: one post as it is stored at first,  *)
(* and the few requests that then come in any order.                       *)
(***************************************************************************)
EXTENDS Board, Sequences

CONSTANTS p1, u1, u2, k1, k2

Photos == {k1}
Live == [archived |-> FALSE, rev |-> 1, photos |-> Photos, employer |-> TRUE]
Closed == [Live EXCEPT !.archived = TRUE]
Deadline == {[id |-> 1, post |-> p1, type |-> "deadline"]}
Application(u, status) == [post |-> p1, user |-> u, status |-> status, archived |-> FALSE]

Store(row, doc, event, applications, kept) ==
    [posts |-> [p \in Posts |-> row], index |-> [p \in Posts |-> doc], events |-> event,
     apps |-> [a \in Ids |-> IF a <= Len(applications) THEN applications[a] ELSE None],
     saved |-> kept]
Empty == Store(None, 0, {}, <<>>, {})
Settled(status) == <<[Application(u1, status) EXCEPT !.archived = TRUE]>>
Stores ==
    {Empty,
     Store(Live, 1, Deadline, <<Application(u1, "pending"), Application(u2, "accepted")>>, {}),
     Store(Live, 1, {}, <<>>, {[id |-> 1, post |-> p1, user |-> u1]}),
     Store(Live, 1, {}, <<Application(u1, "accepted")>>, {}),
     Store(Closed, 0, {}, Settled("cancelled"), {})}

Coming(kinds, fault) ==
    [k \in Kinds \cup Bounds |-> IF k = "fault" THEN fault
                                ELSE Cardinality({i \in DOMAIN kinds : kinds[i] = k})]
With(store, coming) ==
    [posts |-> store.posts, index |-> store.index, events |-> store.events,
     apps |-> store.apps, saved |-> store.saved, calls |-> coming]
\* Any two requests and a fault; where a post can be deleted, any three of those
\* that write a post, an application or a document; the image of an archived post
\* written back, and a deadline added to it.
Deletable == {s \in Stores : s.events = {} /\ s.saved = {}}
Writing == {"create", "archive", "complete", "update", "delete", "deleteImage", "apply"}
MCScenarios ==
    {With(s, Coming(<<k, l>>, 1)) : s \in Stores, k \in Kinds, l \in Kinds}
    \cup {With(s, Coming(<<k, l, m>>, 0)) : s \in Deletable, k \in Writing, l \in Writing, m \in Writing}
    \cup {With(Store(Live, 1, Deadline, <<Application(u1, "accepted")>>, {}),
               Coming(<<"upload", "deleteImage", "archive", "addDeadline">>, 0))}

\* A post is created, and then deleted.
DeleteScenarios == {With(Empty, Coming(<<"create", "delete">>, 0))}
===============================================================================
