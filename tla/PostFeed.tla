------------------------------- MODULE PostFeed -------------------------------
(***************************************************************************)
(* What the JobPostingService promises the services that follow it: rows   *)
(* they may read, and per post a feed of events committed with the rows.   *)
(* JobPosting implements it; SearchIndex follows it.  A row may change     *)
(* without an event (a snapshot written back by an image handler), and an  *)
(* event may trail a deleted row, so the promise is about creation and     *)
(* deletion: each is committed with exactly one event.                     *)
(***************************************************************************)
EXTENDS Naturals, Sequences

CONSTANTS
    Ids,      \* Guids of job posts
    Columns,  \* values of the public columns of a post
    NoRow     \* no row with this key, and no value of the columns

VARIABLES
    row,     \* the public columns of each post
    feed,    \* the events committed for each post, in commit order
    seeded   \* posts that were inserted without an event

vars == <<row, feed, seeded>>

CreatedEvent(c)      == [kind |-> "Created", data |-> {c}]
UpdatedEvent(c)      == [kind |-> "Updated", data |-> {c}]
DeletedEvent         == [kind |-> "Deleted", data |-> {}]
DeadlineReachedEvent == [kind |-> "DeadlineReached", data |-> {}]

Live(id)  == row[id] # NoRow
Known(id) == feed[id] # <<>> \/ id \in seeded   \* the post is or was there
Publish(id, e) == feed' = [feed EXCEPT ![id] = Append(@, e)]

Init == /\ row = [id \in Ids |-> NoRow]
        /\ feed = [id \in Ids |-> <<>>]
        /\ seeded = {}

Seed(S) == /\ \A id \in S : ~Live(id) /\ ~Known(id)
           /\ seeded' = seeded \cup S
           /\ \E c \in Columns : row' = [id \in Ids |-> IF id \in S THEN c ELSE row[id]]
           /\ UNCHANGED feed

Create(id) == /\ ~Live(id) /\ ~Known(id)
              /\ \E c \in Columns : /\ row' = [row EXCEPT ![id] = c]
                                    /\ Publish(id, CreatedEvent(c))
              /\ UNCHANGED seeded

\* The event carries the columns as one handler saw them, the row those that
\* all handlers together left.
Update(id) == /\ Live(id)
              /\ \E c \in Columns : row' = [row EXCEPT ![id] = c]
              /\ \E e \in Columns : Publish(id, UpdatedEvent(e))
              /\ UNCHANGED seeded

Trail(id) == /\ ~Live(id) /\ Known(id)
             /\ \E e \in Columns : Publish(id, UpdatedEvent(e))
             /\ UNCHANGED <<row, seeded>>

WriteBack(id) == /\ Live(id)
                 /\ \E c \in Columns : row' = [row EXCEPT ![id] = c]
                 /\ UNCHANGED <<feed, seeded>>

Announce(S) == /\ \A id \in S : Known(id)
               /\ feed' = [id \in Ids |-> IF id \in S THEN Append(feed[id], DeadlineReachedEvent) ELSE feed[id]]
               /\ UNCHANGED <<row, seeded>>

Delete(id) == /\ Live(id)
              /\ row' = [row EXCEPT ![id] = NoRow]
              /\ Publish(id, DeletedEvent)
              /\ UNCHANGED seeded

Next == \/ \E S \in SUBSET Ids : Seed(S) \/ Announce(S)
        \/ \E id \in Ids : Create(id) \/ Update(id) \/ Trail(id) \/ WriteBack(id) \/ Delete(id)

Spec == Init /\ [][Next]_vars
===============================================================================
