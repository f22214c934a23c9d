----------------------------- MODULE MCBoardPages -----------------------------
(***************************************************************************)
(* The pages of two employees and of the employer on the stores of MCBoard.*)
(***************************************************************************)
EXTENDS MCBoard, Listings, TLC

CONSTANTS t1, t2

Tabs == (t1 :> u1) @@ (t2 :> "employer")

PageStores ==
    {Empty, Store(Live, 1, {}, <<Application(u1, "accepted")>>, {})}
\* One request of each kind, and two reviews: the employee's and the employer's.
Once ==
    [k \in Kinds \cup Bounds |->
        CASE k = "review" -> 2 [] k = "click" -> 4 [] k \in {"addEvent", "removeEvent", "search"} -> 0 [] OTHER -> 1]
Using(kinds) == [Coming(kinds, 1) EXCEPT !["click"] = 4]
Added == [id |-> 2, post |-> p1, type |-> "custom"]
CalendarStore == Store(Live, 1, Deadline \cup {Added}, <<Application(u1, "accepted")>>, {})
\* Searches for all posts, and for what no post matches, while a post is made or archived.
MCMatches == ("all" :> Posts) @@ ("narrow" :> {})
Searching(kind, n, fault) == [Coming(<<kind>>, fault) EXCEPT !["search"] = n, !["click"] = 1]
PageScenarios ==
    {With(Store(Closed, 0, {}, Settled("completed"), {}), Once)}
    \cup {With(s, [Once EXCEPT !["click"] = 3]) : s \in PageStores}
    \cup {With(Store(Live, 1, Deadline, <<Application(u1, "pending")>>, {}),
               [Once EXCEPT !["upload"] = 0, !["archive"] = 1 - f, !["fault"] = f]) : f \in {0, 1}}
    \cup {With(CalendarStore, Using(<<"addEvent", "removeEvent", "removeEvent">>)),
          With(CalendarStore, [Using(<<"addEvent", "removeEvent", "archive">>) EXCEPT !["click"] = 3])}
    \cup {With(Empty, Using(<<"addEvent", "addEvent", "create">>))}
    \cup {With(Empty, Searching("create", 4, 0)),
          With(Store(Live, 1, {}, <<>>, {}), Searching("archive", 2, 1))}
===============================================================================
