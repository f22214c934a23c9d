---------------------------- MODULE MCAccountPages ----------------------------
(***************************************************************************)
(* Scenarios of accounts for TLC: what is stored at first, and the few     *)
(* requests that then come in any order from two tabs.                     *)
(***************************************************************************)
EXTENDS AccountPages, TLC

CONSTANTS e1, e2, n1, x1, w1, w2, t1, t2

Account(verified) ==
    [name |-> n1, password |-> w1, verified |-> verified, profile |-> NoProfile]
Link(i, kind) == [id |-> i, kind |-> kind, email |-> e1]
Store(account, links) == [users |-> (e1 :> account) @@ (e2 :> None), tokens |-> links]
Coming(kinds, fault, day) ==
    [k \in Kinds \cup {"fault", "day"} |->
        IF k = "fault" THEN fault ELSE IF k = "day" THEN day ELSE Cardinality({i \in DOMAIN kinds : kinds[i] = k})]

\* An account is registered, and another one of the same name; one waits for its
\* verification and its password was forgotten as well; one is in use.
Some(store, plans) ==
    {[users |-> store.users, tokens |-> store.tokens, calls |-> plan] : plan \in plans}
Plans(kinds, n) ==
    {Coming(k, x[1], x[2]) : k \in [1 .. n -> kinds], x \in {<<0, 0>>, <<1, 0>>, <<0, 1>>}}
Waiting == {"verify", "reset", "forgot", "login"}
MCScenarios ==
    Some(Store(None, {}), {Coming(<<"register", k, l>>, f, 1 - f) :
                             k \in {"register", "createAdmin", "resend"},
                             l \in {"resend", "verify", "register"}, f \in {0, 1}})
    \cup Some(Store(Account(FALSE), {Link(1, "verify"), Link(2, "reset")}),
              Plans(Waiting, 2) \cup {Coming(<<"verify", "reset", k>>, 0, 0) : k \in Waiting})
    \cup Some(Store(Account(TRUE), {Link(1, "reset")}),
              Plans({"update", "reset", "forgot", "login"}, 2) \cup {Coming(<<"update", "update", "reset">>, 0, 0)})
===============================================================================
