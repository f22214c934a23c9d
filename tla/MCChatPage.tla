----------------------------- MODULE MCChatPage -----------------------------
(* Instances of ChatPage for TLC: u1 writes with u2 and with u3, who has no page open. *)
EXTENDS ChatPage, TLC

CONSTANTS u1, u2, u3, c12, c13, s1, s2

TheMembers == (c12 :> {u1, u2}) @@ (c13 :> {u1, u3})
TheOwner == (s1 :> u1) @@ (s2 :> u2)

Bounds(stored, expiring, acts1, acts2, f, d, r) ==
    [stored |-> stored, expiring |-> expiring, acts |-> (s1 :> acts1) @@ (s2 :> acts2),
     faults |-> f, drops |-> d, requests |-> r]

\* s1 switches conversations or joins again while s2 joins, types and sends; s1
\* types in between; s1 joins once, with one fault or one connection lost; s1 only
\* listens to s2's page while a request comes in, or the token of s2 expires; the
\* token of s1 expires and its connection is lost.
Upsets == {Bounds({c12, c13}, {}, 2, 3, 0, 0, 0), Bounds({c12, c13}, {}, 3, 1, 0, 0, 0),
           Bounds({c12}, {}, 1, 3, 1, 0, 0), Bounds({c12}, {}, 1, 3, 0, 1, 0),
           Bounds({c12}, {}, 0, 3, 0, 0, 1), Bounds({c12}, {s2}, 0, 4, 0, 0, 0),
           Bounds({c12}, {s1}, 2, 0, 0, 1, 0)}
=============================================================================
