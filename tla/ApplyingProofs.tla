---------------------------- MODULE ApplyingProofs ----------------------------
(***************************************************************************)
(* Proofs about Applying, for any posts, users, applications and requests. *)
(* ApplyInv adds to the types what a handler or a consumer relies on when  *)
(* it goes on: the message stands for an event that was relayed, the copy  *)
(* it found was there, and the applications it read are still there.       *)
(***************************************************************************)
EXTENDS Applying, FiniteSetTheorems, TLAPS

Events == [kind : {"Created", "Updated", "Deleted", "DeadlineReached"}, data : SUBSET Times]

FeedsOK == \A id \in Ids : Len(feed[id]) <= MaxFeed /\ relayed[id] <= Len(feed[id])
Sound(m) == /\ m \in Message
            /\ m.pos <= relayed[m.id]
            /\ m.stage = "found" /\ Kind(m) = "DeadlineReached" => m.copy \in Copy
            /\ \A k \in DOMAIN m.apps : app[k] \in App
QueueOK == \A m \in queue : Sound(m)
RequestsOK == \A r \in Requests : Serving(r, "decide") => app[req[r].key] \in App
ApplyInv == TypeOK /\ FeedsOK /\ QueueOK /\ RequestsOK

-------------------------------------------------------------------------------
(* The feed. *)

FeedStep == /\ row' \in [Ids -> Times \cup {NoRow}]
            /\ feed' \in [Ids -> Seq(Events)]
            /\ seeded' \subseteq Ids
            /\ \A id \in Ids : feed'[id] = feed[id] \/ \E e \in Events : feed'[id] = Append(feed[id], e)

LEMMA FeedTypes == TypeOK => /\ row \in [Ids -> Times \cup {NoRow}]
                             /\ feed \in [Ids -> Seq(Events)]
                             /\ seeded \subseteq Ids
  BY DEF TypeOK, Events

LEMMA OwnFeed ==
    ASSUME TypeOK, NEW id \in Ids
    PROVE  feed[id] \in Seq(Events) /\ Len(feed[id]) \in Nat /\ relayed[id] \in Nat
  <1>1. feed \in [Ids -> Seq(Events)]
    BY FeedTypes
  <1>2. feed[id] \in Seq(Events)
    BY <1>1
  <1>3. relayed \in [Ids -> 0 .. MaxFeed]
    BY DEF TypeOK
  <1> QED BY <1>2, <1>3, ApplyingBounds

LEMMA EventTypes == /\ \A d \in Times : Feed!CreatedEvent(d) \in Events /\ Feed!UpdatedEvent(d) \in Events
                    /\ Feed!DeletedEvent \in Events
                    /\ Feed!DeadlineReachedEvent \in Events
  BY DEF Feed!CreatedEvent, Feed!UpdatedEvent, Feed!DeletedEvent, Feed!DeadlineReachedEvent, Events

LEMMA OneEvent ==
    ASSUME TypeOK, NEW i \in Ids, NEW e \in Events, Feed!Publish(i, e), UNCHANGED seeded,
           row' \in [Ids -> Times \cup {NoRow}]
    PROVE  FeedStep
  <1>1. feed \in [Ids -> Seq(Events)] /\ seeded \subseteq Ids
    BY FeedTypes
  <1>2. feed' = [feed EXCEPT ![i] = Append(feed[i], e)]
    BY <1>1 DEF Feed!Publish
  <1>3. Append(feed[i], e) \in Seq(Events)
    BY <1>1
  <1> QED BY <1>1, <1>2, <1>3 DEF FeedStep

LEMMA FeedNextStep ==
    ASSUME TypeOK, Feed!Next
    PROVE  FeedStep
  <1>0. /\ row \in [Ids -> Times \cup {NoRow}]
        /\ feed \in [Ids -> Seq(Events)]
        /\ seeded \subseteq Ids
    BY FeedTypes
  <1>1. ASSUME NEW S \in SUBSET Ids, Feed!Seed(S) PROVE FeedStep
    BY <1>0, <1>1 DEF Feed!Seed, FeedStep
  <1>2. ASSUME NEW S \in SUBSET Ids, Feed!Announce(S) PROVE FeedStep
    <2>1. PICK e \in Events : e = Feed!DeadlineReachedEvent
      BY EventTypes
    <2>2. feed' = [id \in Ids |-> IF id \in S THEN Append(feed[id], e) ELSE feed[id]] /\ row' = row /\ seeded' = seeded
      BY <1>2, <2>1 DEF Feed!Announce
    <2>3. \A id \in Ids : feed[id] \in Seq(Events) /\ Append(feed[id], e) \in Seq(Events)
      BY <1>0
    <2>4. feed' \in [Ids -> Seq(Events)]
      BY <2>2, <2>3
    <2>5. \A id \in Ids : feed'[id] = feed[id] \/ feed'[id] = Append(feed[id], e)
      BY <2>2
    <2> QED BY <1>0, <2>2, <2>4, <2>5 DEF FeedStep
  <1>3. ASSUME NEW i \in Ids, Feed!Create(i) \/ Feed!Update(i) \/ Feed!Trail(i) \/ Feed!Delete(i) PROVE FeedStep
    <2>1. row' \in [Ids -> Times \cup {NoRow}] /\ UNCHANGED seeded
      BY <1>0, <1>3 DEF Feed!Create, Feed!Update, Feed!Trail, Feed!Delete
    <2>2. PICK e \in Events : Feed!Publish(i, e)
      BY <1>3, EventTypes DEF Feed!Create, Feed!Update, Feed!Trail, Feed!Delete
    <2> QED BY <2>1, <2>2, OneEvent
  <1>4. ASSUME NEW i \in Ids, Feed!WriteBack(i) PROVE FeedStep
    BY <1>0, <1>4 DEF Feed!WriteBack, FeedStep
  <1> QED BY <1>1, <1>2, <1>3, <1>4 DEF Feed!Next

-------------------------------------------------------------------------------
(* Types. *)

LEMMA InitInv == Init => ApplyInv
  <1> SUFFICES ASSUME Init PROVE ApplyInv
    OBVIOUS
  <1>1. /\ row \in [Ids -> Times \cup {NoRow}] /\ seeded \subseteq Ids
        /\ feed \in [Ids -> Seq(Events)]
        /\ \A id \in Ids : feed[id] = <<>> /\ relayed[id] = 0
    BY DEF Init, Feed!Init
  <1>2. /\ now \in 0 .. MaxTime /\ placed \subseteq Keys /\ stale \subseteq Keys /\ overtaken \subseteq Ids
        /\ relayed \in [Ids -> 0 .. MaxFeed] /\ queue \subseteq Message
        /\ parked \subseteq Ids \X (1 .. MaxFeed)
        /\ duplicates \in 0 .. MaxDuplicates /\ restarts \in 0 .. MaxRestarts
    BY ApplyingBounds DEF Init
  <1>3. copy \in [Ids -> Copy \cup {NoCopy}]
    BY Zenon DEF Init
  <1>4. app \in [Keys -> App \cup {NoApp}]
    BY Zenon DEF Init
  <1>5. req \in [Requests -> Request \cup {Idle}]
    BY Zenon DEF Init
  <1>6. TypeOK
    BY <1>1, <1>2, <1>3, <1>4, <1>5, Zenon DEF TypeOK, Events
  <1>7. FeedsOK
    BY <1>1, ApplyingBounds DEF FeedsOK
  <1>8. QueueOK /\ RequestsOK
    BY DEF Init, QueueOK, RequestsOK, Serving
  <1> QED BY <1>6, <1>7, <1>8 DEF ApplyInv

LEMMA TickInv ==
    ASSUME ApplyInv, Tick
    PROVE  ApplyInv'
  <1>1. now' \in 0 .. MaxTime
    BY ApplyingBounds DEF ApplyInv, TypeOK, Tick
  <1>2. TypeOK'
    BY <1>1 DEF ApplyInv, TypeOK, Tick
  <1>3. FeedsOK' /\ QueueOK' /\ RequestsOK'
    BY DEF ApplyInv, Tick, FeedsOK, QueueOK, Sound, Kind, RequestsOK, Serving
  <1> QED BY <1>2, <1>3 DEF ApplyInv

\* The kind of a message is fixed: its event is in the feed for good.
LEMMA KindKept ==
    ASSUME ApplyInv, FeedStep, NEW m \in Message, m.pos <= relayed[m.id]
    PROVE  Kind(m)' = Kind(m)
  <1>1. m.id \in Ids /\ m.pos \in Nat \ {0}
    BY ApplyingBounds DEF Message
  <1>2. feed[m.id] \in Seq(Events) /\ relayed[m.id] \in Nat
    BY <1>1, OwnFeed DEF ApplyInv
  <1>3. m.pos \in 1 .. Len(feed[m.id])
    BY <1>1, <1>2 DEF ApplyInv, FeedsOK
  <1>4. feed'[m.id][m.pos] = feed[m.id][m.pos]
    BY <1>1, <1>2, <1>3 DEF FeedStep
  <1> QED BY <1>4 DEF Kind

LEMMA ServiceInv ==
    ASSUME ApplyInv, ServiceStep
    PROVE  ApplyInv'
  <1>1. FeedStep
    BY FeedNextStep DEF ApplyInv, ServiceStep
  <1>2. UNCHANGED <<now, copy, app, req, placed, relayed, queue, parked, stale, overtaken, duplicates, restarts>>
    BY DEF ServiceStep
  <1>3. TypeOK'
    BY <1>1, <1>2 DEF ApplyInv, TypeOK, FeedStep, Events
  <1>4. FeedsOK'
    <2>1. ASSUME NEW id \in Ids PROVE relayed[id] <= Len(feed'[id])
      <3>1. feed[id] \in Seq(Events) /\ relayed[id] \in Nat /\ relayed[id] <= Len(feed[id])
        BY OwnFeed DEF ApplyInv, FeedsOK
      <3> QED BY <1>1, <3>1 DEF FeedStep
    <2>2. \A id \in Ids : Len(feed'[id]) <= MaxFeed
      BY DEF ServiceStep
    <2> QED BY <1>2, <2>1, <2>2 DEF FeedsOK
  <1>5. QueueOK'
    <2>1. ASSUME NEW m \in queue PROVE Sound(m)'
      <3>1. Sound(m) /\ m \in Message
        BY DEF ApplyInv, QueueOK, Sound
      <3>2. Kind(m)' = Kind(m)
        BY <1>1, <3>1, KindKept DEF Sound
      <3> QED BY <1>2, <3>1, <3>2 DEF Sound
    <2> QED BY <1>2, <2>1 DEF QueueOK
  <1>6. RequestsOK'
    BY <1>2 DEF ApplyInv, RequestsOK, Serving
  <1> QED BY <1>3, <1>4, <1>5, <1>6 DEF ApplyInv

LEMMA ReadyTypes ==
    ASSUME NEW id \in Ids, NEW k \in 1 .. MaxFeed
    PROVE  /\ Ready(id, k) \in Message
           /\ Ready(id, k).id = id /\ Ready(id, k).pos = k /\ Ready(id, k).stage = "ready"
           /\ DOMAIN Ready(id, k).apps = {}
  <1>1. NoApps \in [{} -> Status] /\ DOMAIN NoApps = {}
    BY DEF NoApps, Status
  <1>2. NoApps \in UNION {[S -> Status] : S \in SUBSET Keys}
    BY <1>1
  <1> QED BY <1>1, <1>2 DEF Ready, Message, Stages

LEMMA RelayInv ==
    ASSUME ApplyInv, NEW id \in Ids, Relay(id)
    PROVE  ApplyInv'
  <1>0. PICK k \in Nat : k = relayed[id] + 1
    BY OwnFeed DEF ApplyInv
  <1>1. /\ k \in 1 .. MaxFeed /\ k <= Len(feed[id])
        /\ relayed' = [relayed EXCEPT ![id] = k]
        /\ queue' \subseteq queue \cup {Ready(id, k)}
    <2>1. relayed[id] \in Nat /\ Len(feed[id]) \in Nat /\ Len(feed[id]) <= MaxFeed
      BY OwnFeed DEF ApplyInv, FeedsOK
    <2> QED BY <1>0, <2>1, ApplyingBounds DEF Relay
  <1>2. UNCHANGED <<service, copy, app, req, placed, parked, stale, overtaken, duplicates, restarts>>
    BY DEF Relay
  <1>3. relayed \in [Ids -> 0 .. MaxFeed] /\ relayed' \in [Ids -> 0 .. MaxFeed]
    BY <1>1, ApplyingBounds DEF ApplyInv, TypeOK
  <1>4. Sound(Ready(id, k))'
    <2>1. k <= relayed'[id]
      BY <1>1, <1>3
    <2> QED BY <1>1, <2>1, ReadyTypes DEF Sound
  <1>5. QueueOK'
    <2>1. ASSUME NEW m \in queue PROVE Sound(m)'
      <3>1. Sound(m) /\ m.id \in Ids /\ m.pos \in Nat
        BY DEF ApplyInv, QueueOK, Sound, Message
      <3>2. m.pos <= relayed'[m.id]
        <4>1. m.pos <= relayed[m.id] /\ relayed[m.id] \in Nat
          BY <3>1, OwnFeed DEF ApplyInv, Sound
        <4>2. relayed'[m.id] = relayed[m.id] \/ relayed'[m.id] = relayed[m.id] + 1
          BY <1>0, <1>1, <1>3, <3>1
        <4> QED BY <3>1, <4>1, <4>2
      <3> QED BY <1>2, <3>1, <3>2 DEF Sound, Kind, service
    <2> QED BY <1>1, <1>4, <2>1 DEF QueueOK
  <1>6. TypeOK'
    <2>1. queue' \subseteq Message
      BY <1>5 DEF QueueOK, Sound
    <2> QED BY <1>2, <1>3, <2>1 DEF ApplyInv, TypeOK, service
  <1>7. FeedsOK'
    BY <1>1, <1>2, <1>3 DEF ApplyInv, FeedsOK, service
  <1>8. RequestsOK'
    BY <1>2 DEF ApplyInv, RequestsOK, Serving
  <1> QED BY <1>5, <1>6, <1>7, <1>8 DEF ApplyInv

-------------------------------------------------------------------------------
(* Requests. *)

LEMMA RequestTypes ==
    ASSUME TypeOK, NEW r \in Requests
    PROVE  /\ Serving(r, "ask") => req[r] \in Asking
           /\ Serving(r, "apply") \/ Serving(r, "save") => req[r] \in Applying
           /\ Serving(r, "publish") => req[r] \in Placing
           /\ Serving(r, "review") => req[r] \in Review
           /\ Serving(r, "decide") => req[r] \in Decision
  <1>1. req[r] \in Request \cup {Idle}
    BY DEF TypeOK
  <1> QED BY <1>1 DEF Serving, Request, Asking, Applying, Placing, Review, Decision

\* What a handler may leave behind.
LEMMA HandlerStep ==
    ASSUME ApplyInv, NEW r \in Requests, NEW q \in Request \cup {Idle}, Controller(r, q),
           app' \in [Keys -> App \cup {NoApp}],
           \A k \in Keys : app[k] \in App => app'[k] \in App,
           q # Idle /\ q.op = "decide" => app'[q.key] \in App,
           placed' \subseteq Keys, stale' \subseteq Keys
    PROVE  ApplyInv'
  <1>1. req' = [req EXCEPT ![r] = q] /\ UNCHANGED <<service, copy, relayed, queue, parked, overtaken, duplicates, restarts>>
    BY DEF Controller
  <1>2. req' \in [Requests -> Request \cup {Idle}]
    BY <1>1 DEF ApplyInv, TypeOK
  <1>3. TypeOK'
    BY <1>1, <1>2 DEF ApplyInv, TypeOK, service
  <1>4. FeedsOK'
    BY <1>1 DEF ApplyInv, FeedsOK, service
  <1>5. QueueOK'
    <2>1. ASSUME NEW m \in queue PROVE Sound(m)'
      <3>1. Sound(m) /\ DOMAIN m.apps \subseteq Keys
        BY DEF ApplyInv, QueueOK, Sound, Message
      <3> QED BY <1>1, <3>1 DEF Sound, Kind, service
    <2> QED BY <1>1, <2>1 DEF QueueOK
  <1>6. RequestsOK'
    <2>1. ASSUME NEW s \in Requests, Serving(s, "decide")' PROVE app'[req'[s].key] \in App
      <3>1. CASE s = r
        <4>1. req'[s] = q
          BY <1>1, <3>1 DEF ApplyInv, TypeOK
        <4> QED BY <2>1, <4>1 DEF Serving
      <3>2. CASE s # r
        <4>1. req'[s] = req[s]
          BY <1>1, <3>2 DEF ApplyInv, TypeOK
        <4>2. Serving(s, "decide")
          BY <2>1, <4>1 DEF Serving
        <4>3. req[s].key \in Keys /\ app[req[s].key] \in App
          BY <4>2, RequestTypes DEF ApplyInv, RequestsOK, Decision
        <4> QED BY <4>1, <4>3
      <3> QED BY <3>1, <3>2
    <2> QED BY <2>1 DEF RequestsOK
  <1> QED BY <1>3, <1>4, <1>5, <1>6 DEF ApplyInv

\* A handler that only reads.
LEMMA ReadingStep ==
    ASSUME ApplyInv, NEW r \in Requests, NEW q \in Request \cup {Idle}, Controller(r, q),
           UNCHANGED <<app, placed, stale>>,
           q # Idle /\ q.op = "decide" => app[q.key] \in App
    PROVE  ApplyInv'
  <1>1. /\ app' \in [Keys -> App \cup {NoApp}] /\ placed' \subseteq Keys /\ stale' \subseteq Keys
        /\ app' = app
    BY DEF ApplyInv, TypeOK
  <1> QED BY <1>1, HandlerStep

LEMMA HandleInv ==
    ASSUME ApplyInv, NEW r \in Requests, Handle(r)
    PROVE  ApplyInv'
  <1>0. TypeOK
    BY DEF ApplyInv
  <1>1. ASSUME NEW u \in Users, NEW id \in Ids, Apply(r, u, id) PROVE ApplyInv'
    <2>1. PICK q \in Asking \cup Applying : Controller(r, q)
      <3>1. CASE copy[id] # NoCopy
        <4>1. copy[id].deadline \in Times
          BY <1>0, <3>1 DEF TypeOK, Copy
        <4> DEFINE q == [op |-> "apply", user |-> u, post |-> id, deadline |-> copy[id].deadline]
        <4>2. q \in Applying
          BY <4>1 DEF Applying
        <4>3. Controller(r, q)
          BY <1>1, <3>1 DEF Apply
        <4> QED BY <4>2, <4>3
      <3>2. CASE copy[id] = NoCopy
        <4> DEFINE q == [op |-> "ask", user |-> u, post |-> id]
        <4>1. q \in Asking
          BY DEF Asking
        <4>2. Controller(r, q)
          BY <1>1, <3>2 DEF Apply
        <4> QED BY <4>1, <4>2
      <3> QED BY <3>1, <3>2
    <2>2. q \in Request \cup {Idle} /\ q.op # "decide"
      BY DEF Request, Asking, Applying
    <2>3. UNCHANGED <<app, placed, stale>>
      BY <1>1 DEF Apply
    <2> QED BY <2>1, <2>2, <2>3, ReadingStep
  <1>2. CASE AskForPost(r)
    <2>1. req[r] \in Asking
      BY <1>0, <1>2, RequestTypes DEF AskForPost
    <2>2. \A d \in GetJobPost(req[r].post) : d \in Times
      BY <1>0, <2>1 DEF GetJobPost, TypeOK, Feed!Live, Asking
    <2>3. PICK q \in Applying \cup {Idle} : Controller(r, q)
      <3>1. CASE Controller(r, Idle)
        BY <3>1
      <3>2. CASE ~Controller(r, Idle)
        <4>1. PICK d \in GetJobPost(req[r].post) :
                Controller(r, [op |-> "apply", user |-> req[r].user, post |-> req[r].post, deadline |-> d])
          BY <1>2, <3>2 DEF AskForPost
        <4>2. [op |-> "apply", user |-> req[r].user, post |-> req[r].post, deadline |-> d] \in Applying
          BY <2>1, <2>2 DEF Asking, Applying
        <4> QED BY <4>1, <4>2
      <3> QED BY <3>1, <3>2
    <2>4. q \in Request \cup {Idle} /\ (q # Idle => q.op # "decide")
      BY DEF Request, Applying
    <2>5. UNCHANGED <<app, placed, stale>>
      BY <1>2 DEF AskForPost
    <2> QED BY <2>3, <2>4, <2>5, ReadingStep
  <1>3. CASE CheckExisting(r)
    <2>1. req[r] \in Applying
      BY <1>0, <1>3, RequestTypes DEF CheckExisting
    <2>2. [req[r] EXCEPT !.op = "save"] \in Applying
      BY <2>1 DEF Applying
    <2>3. PICK q \in Applying \cup {Idle} : Controller(r, q)
      BY <1>3, <2>2 DEF CheckExisting
    <2>4. q \in Request \cup {Idle} /\ (q # Idle => q.op # "decide")
      BY DEF Request, Applying
    <2>5. UNCHANGED <<app, placed, stale>>
      BY <1>3 DEF CheckExisting
    <2> QED BY <2>3, <2>4, <2>5, ReadingStep
  <1>4. CASE SaveApplication(r)
    <2>1. req[r] \in Applying
      BY <1>0, <1>4, RequestTypes DEF SaveApplication
    <2> DEFINE a == [post |-> req[r].post, employee |-> req[r].user, status |-> "Pending"]
    <2>2. a \in App
      BY <2>1 DEF App, Applying, Status
    <2>3. PICK k \in FreeKeys : app' = [app EXCEPT ![k] = a] /\ Controller(r, [op |-> "publish", key |-> k])
      BY <1>4 DEF SaveApplication
    <2>4. k \in Keys
      BY DEF FreeKeys
    <2>5. [op |-> "publish", key |-> k] \in Request
      BY <2>4 DEF Request, Placing
    <2> HIDE DEF a
    <2>6. /\ app' \in [Keys -> App \cup {NoApp}]
          /\ \A j \in Keys : app[j] \in App => app'[j] \in App
      BY <1>0, <2>2, <2>3 DEF TypeOK
    <2>7. placed' \subseteq Keys /\ stale' \subseteq Keys
      BY <1>0, <1>4 DEF SaveApplication, TypeOK
    <2> QED BY <2>3, <2>5, <2>6, <2>7, HandlerStep
  <1>5. CASE PublishPlaced(r)
    <2>1. req[r].key \in Keys
      BY <1>0, <1>5, RequestTypes DEF PublishPlaced, Placing
    <2>2. placed' \subseteq Keys /\ stale' \subseteq Keys /\ app' = app /\ app' \in [Keys -> App \cup {NoApp}]
      BY <1>0, <1>5, <2>1 DEF PublishPlaced, TypeOK
    <2>3. Controller(r, Idle)
      BY <1>5 DEF PublishPlaced
    <2> QED BY <2>2, <2>3, HandlerStep
  <1>6. ASSUME NEW u \in Users, NEW id \in Ids, NEW s \in Status, UpdateRequestStatus(r, id, u, s) PROVE ApplyInv'
    <2> DEFINE q == [op |-> "review", user |-> u, post |-> id, status |-> s]
    <2>1. q \in Request /\ q.op # "decide"
      BY DEF Request, Review
    <2>2. Controller(r, q) /\ UNCHANGED <<app, placed, stale>>
      BY <1>6 DEF UpdateRequestStatus
    <2> QED BY <2>1, <2>2, ReadingStep
  <1>7. CASE FindRequest(r)
    <2>1. req[r] \in Review
      BY <1>0, <1>7, RequestTypes DEF FindRequest
    <2>2. UNCHANGED <<app, placed, stale>>
      BY <1>7 DEF FindRequest
    <2>3. CASE Controller(r, Idle)
      BY <2>2, <2>3, ReadingStep
    <2>4. CASE ~Controller(r, Idle)
      <3>1. PICK k \in AppsBy(req[r].user, req[r].post) :
              Controller(r, [op |-> "decide", key |-> k, status |-> req[r].status])
        BY <1>7, <2>4 DEF FindRequest
      <3>2. k \in Keys /\ app[k] \in App
        BY <1>0 DEF AppsBy, AppsOf, TypeOK
      <3>3. [op |-> "decide", key |-> k, status |-> req[r].status] \in Request
        BY <2>1, <3>2 DEF Request, Decision, Review
      <3> QED BY <2>2, <3>1, <3>2, <3>3, ReadingStep
    <2> QED BY <2>3, <2>4
  <1>8. CASE SaveStatus(r)
    <2>1. req[r] \in Decision
      BY <1>0, <1>8, RequestTypes DEF SaveStatus
    <2>2. req[r].key \in Keys /\ req[r].status \in Status /\ app[req[r].key] \in App
      BY <1>8, <2>1 DEF SaveStatus, Decision, ApplyInv, RequestsOK
    <2>3. [app[req[r].key] EXCEPT !.status = req[r].status] \in App
      BY <2>2 DEF App
    <2>4. app' = [app EXCEPT ![req[r].key] = [app[req[r].key] EXCEPT !.status = req[r].status]]
      BY <1>8 DEF SaveStatus
    <2>5. /\ app' \in [Keys -> App \cup {NoApp}]
          /\ \A j \in Keys : app[j] \in App => app'[j] \in App
      BY <1>0, <2>2, <2>3, <2>4 DEF TypeOK
    <2>6. placed' \subseteq Keys /\ stale' \subseteq Keys
      BY <1>0, <1>8, <2>2 DEF SaveStatus, TypeOK, HeldBy
    <2>7. Controller(r, Idle)
      BY <1>8 DEF SaveStatus
    <2> QED BY <2>5, <2>6, <2>7, HandlerStep
  <1>9. CASE HandlerThrows(r)
    <2>1. Controller(r, Idle) /\ UNCHANGED <<app, placed, stale>>
      BY <1>9 DEF HandlerThrows
    <2> QED BY <2>1, ReadingStep
  <1> QED BY <1>1, <1>2, <1>3, <1>4, <1>5, <1>6, <1>7, <1>8, <1>9 DEF Handle

-------------------------------------------------------------------------------
(* Messages. *)

\* What the consumers may leave behind: every message in the queue is sound.
LEMMA QueueStep ==
    ASSUME ApplyInv, UNCHANGED <<service, req, placed, relayed, restarts>>,
           copy' \in [Ids -> Copy \cup {NoCopy}],
           app' \in [Keys -> App \cup {NoApp}],
           \A k \in Keys : app[k] \in App => app'[k] \in App,
           stale' \subseteq Keys,
           overtaken' \subseteq Ids,
           parked' \subseteq Ids \X (1 .. MaxFeed),
           duplicates' \in 0 .. MaxDuplicates,
           \A m \in queue' : m \in queue \/ Sound(m)'
    PROVE  ApplyInv'
  <1>1. QueueOK'
    <2>1. ASSUME NEW m \in queue PROVE Sound(m)'
      <3>1. Sound(m) /\ DOMAIN m.apps \subseteq Keys
        BY DEF ApplyInv, QueueOK, Sound, Message
      <3> QED BY <3>1 DEF Sound, Kind, service
    <2> QED BY <2>1 DEF QueueOK
  <1>2. queue' \subseteq Message
    BY <1>1 DEF QueueOK, Sound
  <1>3. TypeOK'
    BY <1>2 DEF ApplyInv, TypeOK, service
  <1>4. FeedsOK'
    BY DEF ApplyInv, FeedsOK, service
  <1>5. RequestsOK'
    <2>1. ASSUME NEW r \in Requests, Serving(r, "decide") PROVE app'[req[r].key] \in App
      <3>1. req[r].key \in Keys /\ app[req[r].key] \in App
        BY <2>1, RequestTypes DEF ApplyInv, RequestsOK, Decision
      <3> QED BY <3>1
    <2> QED BY <2>1 DEF RequestsOK, Serving
  <1> QED BY <1>1, <1>3, <1>4, <1>5 DEF ApplyInv

\* Taking a step, being done and being parked, with what they do to the queue.
QueueMoves(m) == /\ UNCHANGED <<service, req, placed, relayed, restarts>>
                 /\ parked' \subseteq Ids \X (1 .. MaxFeed)
                 /\ duplicates' \in 0 .. MaxDuplicates

LEMMA StepMoves ==
    ASSUME ApplyInv, NEW m \in queue, NEW n, Step(m, n)
    PROVE  QueueMoves(m) /\ queue' \subseteq queue \cup {n}
  BY DEF ApplyInv, TypeOK, Step, QueueMoves

LEMMA ReadyStaysSound ==
    ASSUME ApplyInv, NEW m \in queue, UNCHANGED relayed
    PROVE  Sound(Ready(m.id, m.pos))'
  <1>1. m.id \in Ids /\ m.pos \in 1 .. MaxFeed /\ m.pos <= relayed[m.id]
    BY DEF ApplyInv, QueueOK, Sound, Message
  <1> QED BY <1>1, ReadyTypes DEF Sound

LEMMA DoneMoves ==
    ASSUME ApplyInv, NEW m \in queue, Done(m)
    PROVE  QueueMoves(m) /\ queue' \subseteq queue \cup {Ready(m.id, m.pos)}
  <1>1. CASE duplicates' = duplicates
    BY <1>1 DEF ApplyInv, TypeOK, Done, QueueMoves
  <1>2. CASE duplicates' # duplicates
    <2>1. duplicates \in 0 .. MaxDuplicates /\ duplicates < MaxDuplicates /\ duplicates' = duplicates + 1
      BY <1>2 DEF ApplyInv, TypeOK, Done
    <2>2. duplicates' \in 0 .. MaxDuplicates
      BY <2>1, ApplyingBounds
    <2> QED BY <1>2, <2>2 DEF ApplyInv, TypeOK, Done, QueueMoves
  <1> QED BY <1>1, <1>2

LEMMA ParkMoves ==
    ASSUME ApplyInv, NEW m \in queue, Park(m)
    PROVE  QueueMoves(m) /\ queue' \subseteq queue
  <1>1. m.id \in Ids /\ m.pos \in 1 .. MaxFeed
    BY DEF ApplyInv, QueueOK, Sound, Message
  <1> QED BY <1>1 DEF ApplyInv, TypeOK, Park, QueueMoves

\* A consumer that leaves the applications alone.
LEMMA ReadingConsumer ==
    ASSUME ApplyInv, NEW m \in queue, QueueMoves(m), UNCHANGED <<app, stale>>, overtaken' \subseteq Ids,
           copy' \in [Ids -> Copy \cup {NoCopy}],
           \A n \in queue' : n \in queue \/ Sound(n)'
    PROVE  ApplyInv'
  <1>1. app' \in [Keys -> App \cup {NoApp}] /\ stale' \subseteq Keys /\ app' = app
    BY DEF ApplyInv, TypeOK
  <1> QED BY <1>1, QueueStep DEF QueueMoves

LEMMA MessageTypes ==
    ASSUME ApplyInv, NEW m \in queue
    PROVE  /\ m \in Message /\ Sound(m)
           /\ m.id \in Ids /\ m.pos \in Nat /\ m.pos \in 1 .. Len(feed[m.id])
           /\ m.copy \in Copy \cup {NoCopy}
           /\ DOMAIN m.apps \subseteq Keys
           /\ \A k \in DOMAIN m.apps : m.apps[k] \in Status /\ app[k] \in App
  <1>1. m \in Message /\ Sound(m)
    BY DEF ApplyInv, QueueOK, Sound
  <1>2. m.id \in Ids /\ m.pos \in 1 .. MaxFeed /\ m.copy \in Copy \cup {NoCopy}
    BY <1>1 DEF Message
  <1>3. m.pos \in 1 .. Len(feed[m.id])
    <2>1. Len(feed[m.id]) \in Nat /\ relayed[m.id] \in Nat /\ relayed[m.id] <= Len(feed[m.id])
      BY <1>2, OwnFeed DEF ApplyInv, FeedsOK
    <2> QED BY <1>1, <1>2, <2>1, ApplyingBounds DEF Sound
  <1>4. m.apps \in UNION {[S -> Status] : S \in SUBSET Keys}
    BY <1>1 DEF Message
  <1>5. DOMAIN m.apps \subseteq Keys /\ \A k \in DOMAIN m.apps : m.apps[k] \in Status
    BY <1>4
  <1> QED BY <1>1, <1>2, <1>3, <1>5 DEF Sound

\* Three ways to go on: another stage, with a copy, with what will be written.
LEMMA NextStage ==
    ASSUME ApplyInv, NEW m \in queue, UNCHANGED <<service, app, relayed>>, NEW stage \in Stages \ {"found"}
    PROVE  Sound([m EXCEPT !.stage = stage])'
  <1>1. m \in Message /\ Sound(m)
    BY MessageTypes
  <1> DEFINE n == [m EXCEPT !.stage = stage]
  <1>2. n \in Message /\ n.id = m.id /\ n.pos = m.pos /\ n.apps = m.apps /\ n.stage # "found"
    BY <1>1 DEF Message
  <1> QED BY <1>1, <1>2 DEF Sound

LEMMA RejectingTypes ==
    ASSUME TypeOK, NEW m \in Message
    PROVE  /\ Rejecting(m) \in UNION {[S -> Status] : S \in SUBSET Keys}
           /\ DOMAIN Rejecting(m) = AppsOf(m.id)
           /\ \A k \in AppsOf(m.id) : k \in Keys /\ app[k] \in App
  <1>1. AppsOf(m.id) \subseteq Keys /\ \A k \in AppsOf(m.id) : app[k] \in App
    BY DEF AppsOf, TypeOK
  <1>2. Rejecting(m) \in [AppsOf(m.id) -> Status]
    BY DEF Rejecting, Status
  <1>3. DOMAIN Rejecting(m) = AppsOf(m.id)
    BY DEF Rejecting
  <1>4. Rejecting(m) \in UNION {[S -> Status] : S \in SUBSET Keys}
    BY <1>1, <1>2
  <1> QED BY <1>1, <1>3, <1>4

LEMMA SaveAppsInv ==
    ASSUME ApplyInv, NEW m \in queue, SaveApps(m), overtaken' \subseteq Ids
    PROVE  ApplyInv'
  <1>0. TypeOK
    BY DEF ApplyInv
  <1>1. PICK S \in SUBSET DOMAIN m.apps :
          /\ app' = [k \in Keys |-> IF k \in S THEN [app[k] EXCEPT !.status = m.apps[k]] ELSE app[k]]
          /\ stale' = stale \cup HeldBy(queue \ {m}, S)
          /\ \/ Step(m, [m EXCEPT !.stage = "written"])
             \/ Done(m)
             \/ Park(m)
    BY DEF SaveApps
  <1>2. \A k \in S : k \in Keys /\ app[k] \in App /\ [app[k] EXCEPT !.status = m.apps[k]] \in App
    BY MessageTypes DEF App
  <1>3. /\ app' \in [Keys -> App \cup {NoApp}]
        /\ \A k \in Keys : app[k] \in App => app'[k] \in App
    BY <1>0, <1>1, <1>2 DEF TypeOK
  <1>4. stale' \subseteq Keys
    BY <1>0, <1>1, <1>2 DEF TypeOK, HeldBy
  <1>5. copy' \in [Ids -> Copy \cup {NoCopy}]
    BY <1>0 DEF SaveApps, TypeOK
  <1>6. QueueMoves(m)
    BY <1>1, StepMoves, DoneMoves, ParkMoves
  <1>7. UNCHANGED <<service, relayed>>
    BY <1>6 DEF QueueMoves
  <1>8. \A n \in queue' : n \in queue \/ n = [m EXCEPT !.stage = "written"] \/ n = Ready(m.id, m.pos)
    BY <1>1, StepMoves, DoneMoves, ParkMoves
  <1>9. Sound([m EXCEPT !.stage = "written"])'
    <2> DEFINE n == [m EXCEPT !.stage = "written"]
    <2>1. m \in Message /\ Sound(m) /\ DOMAIN m.apps \subseteq Keys
      BY MessageTypes
    <2>2. n \in Message /\ n.id = m.id /\ n.pos = m.pos /\ n.apps = m.apps /\ n.stage # "found"
      BY <2>1 DEF Message, Stages
    <2> HIDE DEF n
    <2>3. \A k \in DOMAIN n.apps : app'[k] \in App
      BY <1>3, <2>1, <2>2 DEF Sound
    <2>4. n.pos <= relayed'[n.id]
      BY <1>7, <2>1, <2>2 DEF Sound
    <2>5. Sound(n)'
      BY <2>2, <2>3, <2>4 DEF Sound
    <2> QED BY <2>5 DEF n
  <1>10. Sound(Ready(m.id, m.pos))'
    BY <1>7, ReadyStaysSound
  <1>11. \A n \in queue' : n \in queue \/ Sound(n)'
    BY <1>8, <1>9, <1>10
  <1> QED BY <1>3, <1>4, <1>5, <1>6, <1>11, QueueStep DEF QueueMoves

LEMMA ConsumeInv ==
    ASSUME ApplyInv, NEW m \in queue, Consume(m)
    PROVE  ApplyInv'
  <1>0. /\ copy \in [Ids -> Copy \cup {NoCopy}]
        /\ m \in Message /\ Sound(m) /\ m.id \in Ids /\ overtaken' \subseteq Ids
    BY MessageTypes DEF ApplyInv, TypeOK, Consume
  <1>1. CASE JobPostCreatedConsumer(m)
    <2>1. PICK d \in feed[m.id][m.pos].data : copy' = [copy EXCEPT ![m.id] = [deadline |-> d, finished |-> FALSE]]
      BY <1>1 DEF JobPostCreatedConsumer
    <2>2. d \in Times
      <3>1. feed[m.id] \in Seq(Events) /\ m.pos \in 1 .. Len(feed[m.id])
        BY MessageTypes, OwnFeed DEF ApplyInv
      <3>2. feed[m.id][m.pos] \in Events
        BY <3>1
      <3> QED BY <2>1, <3>2 DEF Events
    <2>3. copy' \in [Ids -> Copy \cup {NoCopy}]
      BY <1>0, <2>1, <2>2 DEF Copy
    <2>4. QueueMoves(m) /\ queue' \subseteq queue \cup {Ready(m.id, m.pos)} /\ UNCHANGED <<app, stale>>
      BY <1>1, DoneMoves DEF JobPostCreatedConsumer
    <2>5. Sound(Ready(m.id, m.pos))'
      BY <2>4, ReadyStaysSound DEF QueueMoves
    <2> QED BY <1>0, <2>3, <2>4, <2>5, ReadingConsumer
  <1>2. CASE FindPost(m)
    <2>0. PICK c \in Copy \cup {NoCopy} : c = copy[m.id]
      BY <1>0
    <2> DEFINE n == [m EXCEPT !.stage = "found", !.copy = c]
    <2>1. copy' = copy /\ copy' \in [Ids -> Copy \cup {NoCopy}] /\ UNCHANGED <<app, stale>>
      BY <1>0, <1>2 DEF FindPost
    <2>2. CASE Park(m)
      <3>1. QueueMoves(m) /\ queue' \subseteq queue
        BY <2>2, ParkMoves
      <3> QED BY <1>0, <2>1, <3>1, ReadingConsumer
    <2>3. CASE ~Park(m)
      <3>1. Step(m, n) /\ (Kind(m) = "DeadlineReached" => c # NoCopy)
        BY <1>2, <2>0, <2>3 DEF FindPost
      <3>2. QueueMoves(m) /\ queue' \subseteq queue \cup {n}
        BY <3>1, StepMoves
      <3>3. /\ n \in Message /\ n.id = m.id /\ n.pos = m.pos /\ n.apps = m.apps
            /\ Kind(m) = "DeadlineReached" => n.copy \in Copy
        BY <1>0, <2>0, <3>1 DEF Message, Stages
      <3> HIDE DEF n
      <3>4. Kind(n)' = Kind(m)
        BY <3>2, <3>3 DEF Kind, QueueMoves, service
      <3>5. Sound(n)'
        BY <1>0, <2>1, <3>2, <3>3, <3>4 DEF Sound, QueueMoves
      <3> QED BY <1>0, <2>1, <3>2, <3>5, ReadingConsumer
    <2> QED BY <2>2, <2>3
  <1>3. CASE SaveFinished(m)
    <2>1. m.copy \in Copy
      BY <1>0, <1>3 DEF SaveFinished, Sound
    <2>2. [m.copy EXCEPT !.finished = TRUE] \in Copy
      BY <2>1 DEF Copy
    <2>3. copy' \in [Ids -> Copy \cup {NoCopy}]
      BY <1>0, <1>3, <2>2 DEF SaveFinished
    <2>4. QueueMoves(m) /\ queue' \subseteq queue \cup {[m EXCEPT !.stage = "saved"]} /\ UNCHANGED <<app, stale>>
      BY <1>3, StepMoves DEF SaveFinished
    <2>5. Sound([m EXCEPT !.stage = "saved"])'
      <3>1. "saved" \in Stages \ {"found"}
        BY DEF Stages
      <3> QED BY <2>4, <3>1, NextStage DEF QueueMoves
    <2> QED BY <1>0, <2>3, <2>4, <2>5, ReadingConsumer
  <1>4. CASE FindApps(m)
    <2>1. copy' \in [Ids -> Copy \cup {NoCopy}] /\ UNCHANGED <<app, stale>>
      BY <1>0, <1>4 DEF FindApps
    <2>2. PICK apps \in UNION {[S -> Status] : S \in SUBSET Keys} :
            apps = Rejecting(m) /\ \A k \in DOMAIN apps : app[k] \in App
      BY <1>0, RejectingTypes DEF ApplyInv
    <2> DEFINE n == [m EXCEPT !.stage = "read", !.apps = apps]
    <2>3. QueueMoves(m) /\ queue' \subseteq queue \cup {n}
      BY <1>4, <2>2, StepMoves DEF FindApps
    <2>4. n \in Message /\ n.id = m.id /\ n.pos = m.pos /\ n.apps = apps /\ n.stage = "read"
      BY <1>0, <2>2 DEF Message, Stages
    <2> HIDE DEF n
    <2>5. Sound(n)'
      BY <1>0, <2>1, <2>2, <2>3, <2>4 DEF Sound, QueueMoves
    <2> QED BY <1>0, <2>1, <2>3, <2>5, ReadingConsumer
  <1>5. CASE SaveApps(m)
    BY <1>0, <1>5, SaveAppsInv
  <1>6. CASE DeleteCopy(m)
    <2>1. copy' \in [Ids -> Copy \cup {NoCopy}] /\ UNCHANGED <<app, stale>>
      BY <1>0, <1>6 DEF DeleteCopy
    <2>2. QueueMoves(m) /\ queue' \subseteq queue \cup {Ready(m.id, m.pos)}
      BY <1>6, DoneMoves, ParkMoves DEF DeleteCopy
    <2>3. Sound(Ready(m.id, m.pos))'
      BY <2>2, ReadyStaysSound DEF QueueMoves
    <2> QED BY <1>0, <2>1, <2>2, <2>3, ReadingConsumer
  <1>7. CASE ConsumerThrows(m)
    <2>1. copy' \in [Ids -> Copy \cup {NoCopy}] /\ UNCHANGED <<app, stale>>
      BY <1>0, <1>7 DEF ConsumerThrows
    <2>2. QueueMoves(m) /\ queue' \subseteq queue
      BY <1>7, ParkMoves DEF ConsumerThrows
    <2> QED BY <1>0, <2>1, <2>2, ReadingConsumer
  <1> QED BY <1>1, <1>2, <1>3, <1>4, <1>5, <1>6, <1>7 DEF Consume

LEMMA RestartInv ==
    ASSUME ApplyInv, Restart
    PROVE  ApplyInv'
  <1>1. /\ restarts' \in 0 .. MaxRestarts
        /\ req' \in [Requests -> Request \cup {Idle}]
        /\ \A r \in Requests : req'[r] = Idle
    BY ApplyingBounds DEF ApplyInv, TypeOK, Restart
  <1>2. UNCHANGED <<service, copy, app, placed, relayed, parked, stale, overtaken, duplicates>>
    BY DEF Restart
  <1>3. QueueOK'
    <2>1. ASSUME NEW m \in queue PROVE Sound(Ready(m.id, m.pos))'
      BY <1>2, ReadyStaysSound
    <2> QED BY <2>1 DEF Restart, QueueOK
  <1>4. queue' \subseteq Message
    BY <1>3 DEF QueueOK, Sound
  <1>5. TypeOK'
    BY <1>1, <1>2, <1>4 DEF ApplyInv, TypeOK, service
  <1>6. FeedsOK'
    BY <1>2 DEF ApplyInv, FeedsOK, service
  <1>7. RequestsOK'
    BY <1>1 DEF RequestsOK, Serving
  <1> QED BY <1>3, <1>5, <1>6, <1>7 DEF ApplyInv

LEMMA NextInv == ApplyInv /\ [Next]_vars => ApplyInv'
  <1> SUFFICES ASSUME ApplyInv, [Next]_vars PROVE ApplyInv'
    OBVIOUS
  <1>1. CASE Tick
    BY <1>1, TickInv
  <1>2. CASE ServiceStep
    BY <1>2, ServiceInv
  <1>3. ASSUME NEW id \in Ids, Relay(id) PROVE ApplyInv'
    BY <1>3, RelayInv
  <1>4. ASSUME NEW r \in Requests, Handle(r) PROVE ApplyInv'
    BY <1>4, HandleInv
  <1>5. ASSUME NEW m \in queue, Consume(m) PROVE ApplyInv'
    BY <1>5, ConsumeInv
  <1>6. CASE Restart
    BY <1>6, RestartInv
  <1>7. CASE UNCHANGED vars
    <2>1. TypeOK'
      BY <1>7 DEF ApplyInv, TypeOK, vars, service
    <2>2. FeedsOK' /\ QueueOK' /\ RequestsOK'
      BY <1>7 DEF ApplyInv, FeedsOK, QueueOK, Sound, Kind, RequestsOK, Serving, vars, service
    <2> QED BY <2>1, <2>2 DEF ApplyInv
  <1> QED BY <1>1, <1>2, <1>3, <1>4, <1>5, <1>6, <1>7 DEF Next

THEOREM InvariantHolds == Spec => []ApplyInv
  <1> QED BY InitInv, NextInv, PTL DEF Spec

\* Applications, copies and what requests and consumers keep are well typed:
\* no handler goes on with a copy or an application that was not there.
THEOREM ApplyTypeCorrect == Spec => []TypeOK
  <1>1. ApplyInv => TypeOK
    BY DEF ApplyInv
  <1> QED BY <1>1, InvariantHolds, PTL

-------------------------------------------------------------------------------
(* A user's applications to one post. *)

\* Three things may happen to the applications A and the saving requests S of a
\* user and a post: nothing is added; some request passes the check, when there
\* is no application; a request saves its application.
LEMMA DuplicatesStep ==
    ASSUME IsFiniteSet(Requests), NEW A, IsFiniteSet(A), NEW S \in SUBSET Requests,
           NEW A2, NEW S2 \in SUBSET Requests,
           Cardinality(A) + Cardinality(S) <= Cardinality(Requests),
           \/ A2 = A /\ S2 \subseteq S
           \/ A2 = {}
           \/ \E k, r : r \in S /\ A2 = A \cup {k} /\ S2 = S \ {r}
    PROVE  IsFiniteSet(A2) /\ Cardinality(A2) + Cardinality(S2) <= Cardinality(Requests)
  <1>1. /\ IsFiniteSet(S) /\ IsFiniteSet(S2)
        /\ Cardinality(S) \in Nat /\ Cardinality(S2) \in Nat /\ Cardinality(A) \in Nat
        /\ Cardinality(Requests) \in Nat /\ Cardinality(S2) <= Cardinality(Requests)
    BY FS_Subset, FS_CardinalityType
  <1>2. CASE A2 = A /\ S2 \subseteq S
    <2>1. Cardinality(S2) <= Cardinality(S)
      BY <1>1, <1>2, FS_Subset
    <2> QED BY <1>1, <1>2, <2>1
  <1>3. CASE A2 = {}
    <2>1. IsFiniteSet(A2) /\ Cardinality(A2) = 0
      BY <1>3, FS_EmptySet
    <2> QED BY <1>1, <2>1
  <1>4. ASSUME NEW k, NEW r \in S, A2 = A \cup {k}, S2 = S \ {r}
        PROVE  IsFiniteSet(A2) /\ Cardinality(A2) + Cardinality(S2) <= Cardinality(Requests)
    <2>1. Cardinality(S2) = Cardinality(S) - 1
      BY <1>1, <1>4, FS_RemoveElement
    <2>2. IsFiniteSet(A2) /\ Cardinality(A2) \in {Cardinality(A), Cardinality(A) + 1}
      BY <1>4, FS_AddElement
    <2> QED BY <1>1, <2>1, <2>2
  <1> QED BY <1>2, <1>3, <1>4

LEMMA AppsKept ==
    ASSUME NEW u \in Users, NEW id \in Ids,
           \A k \in Keys : \/ app'[k] = app[k]
                           \/ /\ app[k] # NoApp /\ app'[k] # NoApp
                              /\ app'[k].post = app[k].post /\ app'[k].employee = app[k].employee
    PROVE  AppsBy(u, id)' = AppsBy(u, id)
  BY DEF AppsBy, AppsOf

LEMMA StatusOnly ==
    ASSUME NEW a \in App, NEW s \in Status
    PROVE  LET b == [a EXCEPT !.status = s]
           IN  a # NoApp /\ b # NoApp /\ b.post = a.post /\ b.employee = a.employee
  BY NothingAssumption DEF App

LEMMA NoNewSaving ==
    ASSUME TypeOK, NEW u \in Users, NEW id \in Ids, NEW r \in Requests, NEW q, Controller(r, q),
           q = Idle \/ q.op # "save"
    PROVE  SavingFor(u, id)' \subseteq SavingFor(u, id)
  <1>1. \A s \in Requests : req'[s] = IF s = r THEN q ELSE req[s]
    BY DEF TypeOK, Controller
  <1> QED BY <1>1 DEF SavingFor, Serving

\* One user and one post, in one step of one handler.
OneMore(u, id) == \E k, r : /\ r \in SavingFor(u, id)
                            /\ AppsBy(u, id)' = AppsBy(u, id) \cup {k}
                            /\ SavingFor(u, id)' = SavingFor(u, id) \ {r}
Bounded(u, id) == \/ AppsBy(u, id)' = AppsBy(u, id) /\ SavingFor(u, id)' \subseteq SavingFor(u, id)
                  \/ AppsBy(u, id)' = {}
                  \/ OneMore(u, id)

LEMMA HandlerBounded ==
    ASSUME ApplyInv, NEW u \in Users, NEW id \in Ids, NEW r \in Requests, Handle(r)
    PROVE  Bounded(u, id)
  <1>0. TypeOK
    BY DEF ApplyInv
  <1>a. ASSUME app' = app PROVE AppsBy(u, id)' = AppsBy(u, id)
    BY <1>a, AppsKept
  <1>b. ASSUME NEW q, Controller(r, q), q = Idle \/ q.op # "save", app' = app PROVE Bounded(u, id)
    BY <1>0, <1>a, <1>b, NoNewSaving DEF Bounded
  <1>1. ASSUME NEW v \in Users, NEW i \in Ids, Apply(r, v, i) PROVE Bounded(u, id)
    <2>1. \E q : Controller(r, q) /\ q.op # "save"
      BY <1>1 DEF Apply
    <2> QED BY <1>1, <1>b, <2>1 DEF Apply
  <1>2. CASE AskForPost(r)
    <2>1. CASE Controller(r, Idle)
      BY <1>2, <1>b, <2>1 DEF AskForPost
    <2>2. CASE ~Controller(r, Idle)
      <3>1. PICK d \in GetJobPost(req[r].post) :
              Controller(r, [op |-> "apply", user |-> req[r].user, post |-> req[r].post, deadline |-> d])
        BY <1>2, <2>2 DEF AskForPost
      <3> QED BY <1>2, <1>b, <3>1 DEF AskForPost
    <2> QED BY <2>1, <2>2
  <1>3. CASE CheckExisting(r)
    <2>1. /\ req[r] \in Applying
          /\ Controller(r, IF AppsBy(req[r].user, req[r].post) # {} \/ req[r].deadline < now
                           THEN Idle ELSE [req[r] EXCEPT !.op = "save"])
          /\ app' = app
      BY <1>0, <1>3, RequestTypes DEF CheckExisting
    <2>2. CASE Controller(r, Idle)
      BY <1>b, <2>1, <2>2
    <2>3. CASE AppsBy(req[r].user, req[r].post) = {} /\ Controller(r, [req[r] EXCEPT !.op = "save"])
      <3>1. CASE req[r].user = u /\ req[r].post = id
        <4>1. AppsBy(u, id)' = {}
          BY <1>a, <2>1, <2>3, <3>1
        <4> QED BY <4>1 DEF Bounded
      <3>2. CASE ~(req[r].user = u /\ req[r].post = id)
        <4>1. \A s \in Requests : req'[s] = IF s = r THEN [req[r] EXCEPT !.op = "save"] ELSE req[s]
          BY <1>0, <2>3 DEF TypeOK, Controller
        <4>2. [req[r] EXCEPT !.op = "save"].user = req[r].user /\ [req[r] EXCEPT !.op = "save"].post = req[r].post
          BY <2>1 DEF Applying
        <4>3. SavingFor(u, id)' \subseteq SavingFor(u, id)
          BY <3>2, <4>1, <4>2 DEF SavingFor, Serving
        <4> QED BY <1>a, <2>1, <4>3 DEF Bounded
      <3> QED BY <3>1, <3>2
    <2> QED BY <2>1, <2>2, <2>3
  <1>4. CASE SaveApplication(r)
    <2>1. req[r] \in Applying /\ Serving(r, "save")
      BY <1>0, <1>4, RequestTypes DEF SaveApplication
    <2> DEFINE v == req[r].user
               i == req[r].post
    <2>2. PICK a \in App : a = [post |-> i, employee |-> v, status |-> "Pending"]
      BY <2>1 DEF App, Applying, Status
    <2>3. PICK k \in FreeKeys : app' = [app EXCEPT ![k] = a] /\ Controller(r, [op |-> "publish", key |-> k])
      BY <1>4, <2>2 DEF SaveApplication
    <2>4. k \in Keys /\ app[k] = NoApp /\ a # NoApp /\ a.post = i /\ a.employee = v
      BY <2>2, <2>3, NothingAssumption DEF FreeKeys
    <2>5. \A j \in Keys : app'[j] = IF j = k THEN a ELSE app[j]
      BY <1>0, <2>3 DEF TypeOK
    <2>6. \A s \in Requests : req'[s] = IF s = r THEN [op |-> "publish", key |-> k] ELSE req[s]
      BY <1>0, <2>3 DEF TypeOK, Controller
    <2>7. CASE v = u /\ i = id
      <3>1. AppsBy(u, id)' = AppsBy(u, id) \cup {k}
        BY <2>4, <2>5, <2>7 DEF AppsBy, AppsOf
      <3>2. r \in SavingFor(u, id)
        BY <2>1, <2>7 DEF SavingFor
      <3>3. SavingFor(u, id)' = SavingFor(u, id) \ {r}
        BY <2>6 DEF SavingFor, Serving
      <3> QED BY <3>1, <3>2, <3>3 DEF Bounded, OneMore
    <2>8. CASE ~(v = u /\ i = id)
      <3>1. AppsBy(u, id)' = AppsBy(u, id)
        BY <2>4, <2>5, <2>8 DEF AppsBy, AppsOf
      <3>2. SavingFor(u, id)' \subseteq SavingFor(u, id)
        BY <1>0, <2>3, NoNewSaving
      <3> QED BY <3>1, <3>2 DEF Bounded
    <2> QED BY <2>7, <2>8
  <1>5. CASE PublishPlaced(r)
    BY <1>5, <1>b DEF PublishPlaced
  <1>6. ASSUME NEW v \in Users, NEW i \in Ids, NEW s \in Status, UpdateRequestStatus(r, i, v, s) PROVE Bounded(u, id)
    <2>1. \E q : Controller(r, q) /\ q.op # "save"
      BY <1>6 DEF UpdateRequestStatus
    <2> QED BY <1>6, <1>b, <2>1 DEF UpdateRequestStatus
  <1>7. CASE FindRequest(r)
    <2>1. CASE Controller(r, Idle)
      BY <1>7, <1>b, <2>1 DEF FindRequest
    <2>2. CASE ~Controller(r, Idle)
      <3>1. PICK k \in AppsBy(req[r].user, req[r].post) :
              Controller(r, [op |-> "decide", key |-> k, status |-> req[r].status])
        BY <1>7, <2>2 DEF FindRequest
      <3> QED BY <1>7, <1>b, <3>1 DEF FindRequest
    <2> QED BY <2>1, <2>2
  <1>8. CASE SaveStatus(r)
    <2>1. req[r].key \in Keys /\ req[r].status \in Status /\ app[req[r].key] \in App
      <3>1. req[r] \in Decision
        BY <1>0, <1>8, RequestTypes DEF SaveStatus
      <3> QED BY <1>8, <3>1 DEF SaveStatus, Decision, ApplyInv, RequestsOK
    <2>2. app' = [app EXCEPT ![req[r].key] = [app[req[r].key] EXCEPT !.status = req[r].status]]
      BY <1>8 DEF SaveStatus
    <2>3. \A j \in Keys : app'[j] = IF j = req[r].key THEN [app[j] EXCEPT !.status = req[r].status] ELSE app[j]
      BY <1>0, <2>2 DEF TypeOK
    <2>4. AppsBy(u, id)' = AppsBy(u, id)
      <3>1. app'[req[r].key] # NoApp /\ app[req[r].key] # NoApp
            /\ app'[req[r].key].post = app[req[r].key].post
            /\ app'[req[r].key].employee = app[req[r].key].employee
        <4>1. PICK a \in App, s \in Status : a = app[req[r].key] /\ s = req[r].status
          BY <2>1
        <4>2. app'[req[r].key] = [a EXCEPT !.status = s]
          BY <2>1, <2>3, <4>1
        <4>3. LET b == [a EXCEPT !.status = s]
              IN  a # NoApp /\ b # NoApp /\ b.post = a.post /\ b.employee = a.employee
          BY StatusOnly
        <4> QED BY <4>1, <4>2, <4>3
      <3>2. \A j \in Keys \ {req[r].key} : app'[j] = app[j]
        BY <2>3
      <3> QED BY <3>1, <3>2, AppsKept
    <2>5. SavingFor(u, id)' \subseteq SavingFor(u, id)
      BY <1>0, <1>8, NoNewSaving DEF SaveStatus
    <2> QED BY <2>4, <2>5 DEF Bounded
  <1>9. CASE HandlerThrows(r)
    BY <1>9, <1>b DEF HandlerThrows
  <1> QED BY <1>1, <1>2, <1>3, <1>4, <1>5, <1>6, <1>7, <1>8, <1>9 DEF Handle

LEMMA ConsumerBounded ==
    ASSUME ApplyInv, NEW u \in Users, NEW id \in Ids, NEW m \in queue, Consume(m)
    PROVE  Bounded(u, id)
  <1>1. req' = req
    BY DEF Consume, JobPostCreatedConsumer, FindPost, SaveFinished, FindApps, SaveApps, DeleteCopy,
           ConsumerThrows, Step, Done, Park
  <1>2. SavingFor(u, id)' = SavingFor(u, id)
    BY <1>1 DEF SavingFor, Serving
  <1>3. CASE SaveApps(m)
    <2>1. PICK S \in SUBSET DOMAIN m.apps :
            app' = [k \in Keys |-> IF k \in S THEN [app[k] EXCEPT !.status = m.apps[k]] ELSE app[k]]
      BY <1>3 DEF SaveApps
    <2>2. \A k \in S : m.apps[k] \in Status /\ app[k] \in App
      BY MessageTypes
    <2>3. AppsBy(u, id)' = AppsBy(u, id)
      BY <2>1, <2>2, StatusOnly, AppsKept
    <2> QED BY <1>2, <2>3 DEF Bounded
  <1>4. CASE app' = app
    BY <1>2, <1>4, AppsKept DEF Bounded
  <1> QED BY <1>3, <1>4 DEF Consume, JobPostCreatedConsumer, FindPost, SaveFinished, FindApps, DeleteCopy, ConsumerThrows

LEMMA NextBounded ==
    ASSUME ApplyInv, [Next]_vars, NEW u \in Users, NEW id \in Ids
    PROVE  Bounded(u, id)
  <1>1. CASE UNCHANGED <<app, req>>
    <2>1. SavingFor(u, id)' = SavingFor(u, id)
      BY <1>1 DEF SavingFor, Serving
    <2> QED BY <1>1, <2>1, AppsKept DEF Bounded
  <1>2. ASSUME NEW r \in Requests, Handle(r) PROVE Bounded(u, id)
    BY <1>2, HandlerBounded
  <1>3. ASSUME NEW m \in queue, Consume(m) PROVE Bounded(u, id)
    BY <1>3, ConsumerBounded
  <1>4. CASE Restart
    <2>1. app' = app /\ \A r \in Requests : req'[r] = Idle
      BY <1>4 DEF Restart
    <2>2. SavingFor(u, id)' = {}
      BY <2>1 DEF SavingFor, Serving
    <2> QED BY <2>1, <2>2, AppsKept DEF Bounded
  <1>5. Tick \/ ServiceStep \/ (\E i \in Ids : Relay(i)) => UNCHANGED <<app, req>>
    BY DEF Tick, ServiceStep, Relay
  <1>6. UNCHANGED vars => UNCHANGED <<app, req>>
    BY DEF vars
  <1> QED BY <1>1, <1>2, <1>3, <1>4, <1>5, <1>6 DEF Next

Few(u, id) == /\ IsFiniteSet(AppsBy(u, id))
              /\ Cardinality(AppsBy(u, id)) + Cardinality(SavingFor(u, id)) <= Cardinality(Requests)
FewDuplicates == \A u \in Users, id \in Ids : Few(u, id)

\* For any number of requests in flight, of users and of posts, and through all
\* failures and restarts, a user has at most as many applications to one post as
\* requests may overlap.  With one request at a time, none applies twice.
THEOREM OverlapBounds == Spec => []OverlapBoundsDuplicates
  <1>1. Init => FewDuplicates
    <2> SUFFICES ASSUME Init, NEW u \in Users, NEW id \in Ids PROVE Few(u, id)
      BY DEF FewDuplicates
    <2>1. AppsBy(u, id) = {} /\ SavingFor(u, id) = {}
      BY DEF Init, AppsBy, AppsOf, SavingFor, Serving
    <2>2. IsFiniteSet({}) /\ Cardinality({}) = 0
      BY FS_EmptySet
    <2>3. Cardinality(Requests) \in Nat
      BY FiniteRequests, FS_CardinalityType
    <2> QED BY <2>1, <2>2, <2>3 DEF Few
  <1>2. ApplyInv /\ FewDuplicates /\ [Next]_vars => FewDuplicates'
    <2> SUFFICES ASSUME ApplyInv, FewDuplicates, [Next]_vars, NEW u \in Users, NEW id \in Ids
                 PROVE  Few(u, id)'
      BY DEF FewDuplicates
    <2>1. Few(u, id) /\ Bounded(u, id)
      BY NextBounded DEF FewDuplicates
    <2>2. SavingFor(u, id) \subseteq Requests /\ SavingFor(u, id)' \subseteq Requests
      BY DEF SavingFor
    <2>3. IsFiniteSet(AppsBy(u, id)')
          /\ Cardinality(AppsBy(u, id)') + Cardinality(SavingFor(u, id)') <= Cardinality(Requests)
      BY <2>1, <2>2, FiniteRequests, DuplicatesStep DEF Few, Bounded, OneMore
    <2> QED BY <2>3 DEF Few
  <1>3. FewDuplicates => OverlapBoundsDuplicates
    BY DEF FewDuplicates, Few, OverlapBoundsDuplicates
  <1> QED BY <1>1, <1>2, <1>3, InvariantHolds, PTL DEF Spec
-------------------------------------------------------------------------------
(* The life of a post: JobPostCreated is its first event, and JobPostDeleted   *)
(* goes with its row, after which nothing creates or deletes it again.         *)

LifeOK ==
    \A id \in Ids : \A k \in 1 .. Len(feed[id]) :
        /\ feed[id][k].kind = "Created" => k = 1 /\ \E d \in Times : feed[id][k].data = {d}
        /\ feed[id][k].kind = "Deleted" =>
              /\ ~Feed!Live(id)
              /\ \A j \in 1 .. Len(feed[id]) : j > k => feed[id][j].kind \notin {"Created", "Deleted"}

EventSuits(id, e) ==
    \/ e.kind = "Created" /\ ~Feed!Known(id) /\ \E d \in Times : e.data = {d}
    \/ e.kind = "Updated" /\ (row'[id] # NoRow => row[id] # NoRow)
    \/ e.kind = "DeadlineReached" /\ row'[id] = row[id]
    \/ e.kind = "Deleted" /\ row[id] # NoRow /\ row'[id] = NoRow
PostStep(id) ==
    \/ feed'[id] = feed[id] /\ (row'[id] # NoRow => row[id] # NoRow \/ ~Feed!Known(id))
    \/ \E e \in Events : feed'[id] = Append(feed[id], e) /\ EventSuits(id, e)

\* What one step of the JobPostingService does to a post.
LEMMA PostSteps ==
    ASSUME TypeOK, Feed!Next, NEW id \in Ids
    PROVE  PostStep(id)
  <1>0. row \in [Ids -> Times \cup {NoRow}] /\ feed \in [Ids -> Seq(Events)]
    BY FeedTypes
  <1>1. ASSUME NEW i \in Ids, NEW e \in Events, Feed!Publish(i, e), \A x \in Ids \ {i} : row'[x] = row[x],
               EventSuits(i, e)
        PROVE  PostStep(id)
    <2>1. feed' = [feed EXCEPT ![i] = Append(feed[i], e)]
      BY <1>0, <1>1 DEF Feed!Publish
    <2>2. CASE id = i
      <3>1. feed'[id] = Append(feed[id], e) /\ EventSuits(id, e)
        BY <1>0, <1>1, <2>1, <2>2
      <3> QED BY <3>1 DEF PostStep
    <2>3. CASE id # i
      <3>1. feed'[id] = feed[id] /\ row'[id] = row[id]
        BY <1>0, <1>1, <2>1, <2>3
      <3> QED BY <3>1 DEF PostStep
    <2> QED BY <2>2, <2>3
  <1>2. ASSUME NEW S \in SUBSET Ids, Feed!Seed(S) PROVE PostStep(id)
    <2>1. feed' = feed /\ \A x \in S : ~Feed!Known(x)
      BY <1>2 DEF Feed!Seed
    <2>2. id \notin S => row'[id] = row[id]
      BY <1>2 DEF Feed!Seed
    <2> QED BY <2>1, <2>2 DEF PostStep
  <1>3. ASSUME NEW S \in SUBSET Ids, Feed!Announce(S) PROVE PostStep(id)
    <2>1. PICK e \in Events : e = Feed!DeadlineReachedEvent /\ e.kind = "DeadlineReached"
      BY EventTypes DEF Feed!DeadlineReachedEvent
    <2>2. row' = row /\ (feed'[id] = feed[id] \/ feed'[id] = Append(feed[id], e))
      BY <1>3, <2>1 DEF Feed!Announce
    <2> QED BY <2>1, <2>2 DEF PostStep, EventSuits
  <1>4. ASSUME NEW i \in Ids, Feed!Create(i) PROVE PostStep(id)
    <2>1. PICK d \in Times : row' = [row EXCEPT ![i] = d] /\ Feed!Publish(i, Feed!CreatedEvent(d))
      BY <1>4 DEF Feed!Create
    <2>2. PICK e \in Events : e = Feed!CreatedEvent(d) /\ e.kind = "Created" /\ e.data = {d}
      BY EventTypes DEF Feed!CreatedEvent
    <2>3. EventSuits(i, e)
      BY <1>4, <2>2 DEF Feed!Create, EventSuits
    <2> QED BY <1>0, <1>1, <2>1, <2>2, <2>3
  <1>5. ASSUME NEW i \in Ids, Feed!Update(i) \/ Feed!Trail(i) PROVE PostStep(id)
    <2>1. PICK d \in Times : Feed!Publish(i, Feed!UpdatedEvent(d))
      BY <1>5 DEF Feed!Update, Feed!Trail
    <2>2. PICK e \in Events : e = Feed!UpdatedEvent(d) /\ e.kind = "Updated"
      BY EventTypes DEF Feed!UpdatedEvent
    <2>3. (row'[i] # NoRow => row[i] # NoRow) /\ \A x \in Ids \ {i} : row'[x] = row[x]
      BY <1>0, <1>5 DEF Feed!Update, Feed!Trail, Feed!Live
    <2>4. EventSuits(i, e)
      BY <2>2, <2>3 DEF EventSuits
    <2> QED BY <1>1, <2>1, <2>2, <2>3, <2>4
  <1>6. ASSUME NEW i \in Ids, Feed!WriteBack(i) PROVE PostStep(id)
    <2>1. feed' = feed /\ row[i] # NoRow /\ (id # i => row'[id] = row[id])
      BY <1>0, <1>6 DEF Feed!WriteBack, Feed!Live
    <2> QED BY <2>1 DEF PostStep
  <1>7. ASSUME NEW i \in Ids, Feed!Delete(i) PROVE PostStep(id)
    <2>1. PICK e \in Events : e = Feed!DeletedEvent /\ e.kind = "Deleted"
      BY EventTypes DEF Feed!DeletedEvent
    <2>2. row' = [row EXCEPT ![i] = NoRow] /\ Feed!Publish(i, e) /\ row[i] # NoRow
      BY <1>7, <2>1 DEF Feed!Delete, Feed!Live
    <2>3. EventSuits(i, e)
      BY <1>0, <2>1, <2>2 DEF EventSuits
    <2> QED BY <1>0, <1>1, <2>2, <2>3
  <1> QED BY <1>2, <1>3, <1>4, <1>5, <1>6, <1>7 DEF Feed!Next

\* The events a post has stay where they are.
LEMMA EarlierEvents ==
    ASSUME TypeOK, FeedStep, NEW id \in Ids
    PROVE  /\ Len(feed[id]) \in Nat /\ Len(feed'[id]) \in Nat /\ Len(feed[id]) <= Len(feed'[id])
           /\ \A k \in 1 .. Len(feed[id]) : feed'[id][k] = feed[id][k]
  <1>1. feed[id] \in Seq(Events) /\ Len(feed[id]) \in Nat
    BY OwnFeed
  <1>2. CASE feed'[id] = feed[id]
    BY <1>1, <1>2
  <1>3. ASSUME NEW e \in Events, feed'[id] = Append(feed[id], e)
        PROVE  /\ Len(feed'[id]) \in Nat /\ Len(feed[id]) <= Len(feed'[id])
               /\ \A k \in 1 .. Len(feed[id]) : feed'[id][k] = feed[id][k]
    BY <1>1, <1>3
  <1> QED BY <1>1, <1>2, <1>3 DEF FeedStep

LEMMA ServiceLife ==
    ASSUME TypeOK, LifeOK, Feed!Next
    PROVE  LifeOK'
  <1> SUFFICES ASSUME NEW id \in Ids, NEW k \in 1 .. Len(feed'[id])
               PROVE  /\ feed'[id][k].kind = "Created" => k = 1 /\ \E d \in Times : feed'[id][k].data = {d}
                      /\ feed'[id][k].kind = "Deleted" =>
                            /\ row'[id] = NoRow
                            /\ \A j \in 1 .. Len(feed'[id]) : j > k => feed'[id][j].kind \notin {"Created", "Deleted"}
    BY DEF LifeOK, Feed!Live
  <1>1. /\ feed[id] \in Seq(Events) /\ Len(feed[id]) \in Nat /\ PostStep(id)
    BY OwnFeed, PostSteps
  <1>2. \A n \in 1 .. Len(feed[id]) :
          /\ feed[id][n].kind = "Created" => n = 1 /\ \E d \in Times : feed[id][n].data = {d}
          /\ feed[id][n].kind = "Deleted" =>
                /\ row[id] = NoRow /\ Feed!Known(id)
                /\ \A j \in 1 .. Len(feed[id]) : j > n => feed[id][j].kind \notin {"Created", "Deleted"}
    <2>1. \A n \in 1 .. Len(feed[id]) : feed[id] # <<>>
      BY <1>1
    <2> QED BY <2>1 DEF LifeOK, Feed!Live, Feed!Known
  <1>3. CASE feed'[id] = feed[id] /\ (row'[id] # NoRow => row[id] # NoRow \/ ~Feed!Known(id))
    BY <1>2, <1>3
  <1>4. ASSUME NEW e \in Events, feed'[id] = Append(feed[id], e), EventSuits(id, e)
        PROVE  /\ feed'[id][k].kind = "Created" => k = 1 /\ \E d \in Times : feed'[id][k].data = {d}
               /\ feed'[id][k].kind = "Deleted" =>
                     /\ row'[id] = NoRow
                     /\ \A j \in 1 .. Len(feed'[id]) : j > k => feed'[id][j].kind \notin {"Created", "Deleted"}
    <2> DEFINE n == Len(feed[id]) + 1
    <2>1. Len(feed'[id]) = n /\ feed'[id][n] = e /\ \A j \in 1 .. Len(feed[id]) : feed'[id][j] = feed[id][j]
      BY <1>1, <1>4
    <2>2. ~Feed!Known(id) => Len(feed[id]) = 0
      BY DEF Feed!Known
    <2>3. CASE k = n
      <3>1. e.kind = "Created" => k = 1 /\ \E d \in Times : e.data = {d}
        BY <1>4, <2>2, <2>3 DEF EventSuits
      <3>2. e.kind = "Deleted" => row'[id] = NoRow
        BY <1>4 DEF EventSuits
      <3> QED BY <1>1, <2>1, <2>3, <3>1, <3>2
    <2>4. CASE k # n
      <3>1. k \in 1 .. Len(feed[id]) /\ feed'[id][k] = feed[id][k]
        BY <1>1, <2>1, <2>4
      <3>2. ASSUME feed[id][k].kind = "Deleted"
            PROVE  /\ row'[id] = NoRow /\ e.kind \notin {"Created", "Deleted"}
        <4>1. row[id] = NoRow /\ Feed!Known(id)
          BY <1>2, <3>1, <3>2
        <4> QED BY <1>4, <4>1 DEF EventSuits
      <3>3. ASSUME feed[id][k].kind = "Deleted", NEW j \in 1 .. Len(feed'[id]), j > k
            PROVE  feed'[id][j].kind \notin {"Created", "Deleted"}
        <4>1. CASE j = n
          BY <2>1, <3>2, <3>3, <4>1
        <4>2. CASE j # n
          <5>1. j \in 1 .. Len(feed[id])
            BY <1>1, <2>1, <4>2
          <5> QED BY <1>2, <2>1, <3>1, <3>3, <5>1
        <4> QED BY <4>1, <4>2
      <3> QED BY <1>2, <3>1, <3>2, <3>3
    <2> QED BY <2>3, <2>4
  <1> QED BY <1>1, <1>3, <1>4 DEF PostStep

LEMMA LifeKept ==
    ASSUME LifeOK, UNCHANGED service
    PROVE  LifeOK'
  BY DEF LifeOK, service, Feed!Live

LEMMA ServiceUnchanged ==
    ASSUME \/ \E id \in Ids : Relay(id)
           \/ \E r \in Requests : Handle(r)
           \/ \E m \in queue : Consume(m)
           \/ Restart \/ UNCHANGED vars
    PROVE  UNCHANGED service
  <1>1. \A m, n : Step(m, n) => UNCHANGED service
    BY DEF Step
  <1>2. \A m : Done(m) \/ Park(m) => UNCHANGED service
    BY DEF Done, Park
  <1>3. \A r, q : Controller(r, q) => UNCHANGED service
    BY DEF Controller
  <1>4. ASSUME NEW m \in queue, Consume(m) PROVE UNCHANGED service
    BY <1>1, <1>2, <1>4 DEF Consume, JobPostCreatedConsumer, FindPost, SaveFinished, FindApps, SaveApps,
                           DeleteCopy, ConsumerThrows
  <1>5. ASSUME NEW r \in Requests, Handle(r) PROVE UNCHANGED service
    BY <1>3, <1>5 DEF Handle, Apply, AskForPost, CheckExisting, SaveApplication, PublishPlaced,
                      UpdateRequestStatus, FindRequest, SaveStatus, HandlerThrows
  <1> QED BY <1>4, <1>5 DEF Relay, Restart, vars

LEMMA LifeStep == ApplyInv /\ LifeOK /\ [Next]_vars => LifeOK'
  <1> SUFFICES ASSUME ApplyInv, LifeOK, [Next]_vars PROVE LifeOK'
    OBVIOUS
  <1>1. CASE ServiceStep
    BY <1>1, ServiceLife DEF ApplyInv, ServiceStep
  <1>2. CASE Tick
    BY <1>2 DEF Tick, LifeOK, Feed!Live
  <1> QED BY <1>1, <1>2, LifeKept, ServiceUnchanged DEF Next
LEMMA LifeInit == Init => LifeOK
  <1> SUFFICES ASSUME Init, NEW id \in Ids PROVE feed[id] = <<>>
    BY DEF LifeOK
  <1> QED BY DEF Init, Feed!Init

-------------------------------------------------------------------------------
(* What a consumer holds between two awaits: a message at a later stage is of  *)
(* the kind that gets there, and what it is about to write to an application   *)
(* nobody wrote meanwhile is what the application, as it is, calls for.        *)

Staged(m) == /\ m.stage # "ready" => Kind(m) \in {"DeadlineReached", "Deleted"}
             /\ m.stage = "saved" => Kind(m) = "DeadlineReached"
             /\ m.stage = "written" => Kind(m) = "Deleted"
Decided(m, k) == IF Kind(m) = "DeadlineReached" /\ app[k].status = "Approved" THEN "Approved" ELSE "Rejected"
Held(m) == \A k \in DOMAIN m.apps : app[k].post = m.id /\ (k \notin stale => m.apps[k] = Decided(m, k))
HoldInv == \A m \in queue : Staged(m) /\ Held(m)

LEMMA HeldKept ==
    ASSUME NEW m, Staged(m), Held(m), Kind(m)' = Kind(m), stale \subseteq stale',
           \A k \in DOMAIN m.apps :
               app'[k].post = app[k].post /\ (k \in stale' \/ app'[k].status = app[k].status)
    PROVE  Staged(m)' /\ Held(m)'
  <1>1. Staged(m)'
    BY DEF Staged
  <1>2. Held(m)'
    BY DEF Held, Decided
  <1> QED BY <1>1, <1>2

LEMMA ReadyHolds ==
    ASSUME NEW id \in Ids, NEW k \in 1 .. MaxFeed
    PROVE  Staged(Ready(id, k))' /\ Held(Ready(id, k))'
  BY ReadyTypes DEF Staged, Held

\* A step that leaves queue, applications and stale as they are.
LEMMA QuietHolds ==
    ASSUME ApplyInv, HoldInv, UNCHANGED <<queue, app, stale>>, UNCHANGED feed \/ FeedStep
    PROVE  HoldInv'
  <1> SUFFICES ASSUME NEW m \in queue PROVE Staged(m)' /\ Held(m)'
    BY DEF HoldInv
  <1>1. Kind(m)' = Kind(m)
    <2>1. m \in Message /\ m.pos <= relayed[m.id]
      BY MessageTypes DEF Sound
    <2> QED BY <2>1, KindKept DEF Kind
  <1> QED BY <1>1, HeldKept DEF HoldInv

LEMMA HandlerHolds ==
    ASSUME ApplyInv, HoldInv, NEW r \in Requests, Handle(r)
    PROVE  HoldInv'
  <1>0. TypeOK /\ UNCHANGED <<feed, queue>>
    BY DEF ApplyInv, Handle, Apply, AskForPost, CheckExisting, SaveApplication, PublishPlaced,
           UpdateRequestStatus, FindRequest, SaveStatus, HandlerThrows, Controller, service
  <1>1. ASSUME NEW m \in queue PROVE Staged(m) /\ Held(m) /\ Kind(m)' = Kind(m)
    BY <1>0 DEF HoldInv, Kind
  <1>2. CASE SaveApplication(r)
    <2>1. PICK k \in FreeKeys, a \in {[post |-> req[r].post, employee |-> req[r].user, status |-> "Pending"]} :
            app' = [app EXCEPT ![k] = a] /\ UNCHANGED stale
      BY <1>2 DEF SaveApplication
    <2>2. ASSUME NEW m \in queue, NEW j \in DOMAIN m.apps PROVE app'[j] = app[j]
      <3>1. j \in Keys /\ app[j] \in App
        BY <2>2, MessageTypes
      <3>2. j # k
        BY <2>1, <3>1, NothingAssumption DEF FreeKeys
      <3> QED BY <1>0, <2>1, <3>1, <3>2 DEF TypeOK
    <2>3. ASSUME NEW m \in queue PROVE Staged(m)' /\ Held(m)'
      BY <1>1, <2>1, <2>2, HeldKept
    <2> QED BY <1>0, <2>3 DEF HoldInv
  <1>3. CASE SaveStatus(r)
    <2>1. req[r] \in Decision /\ req[r].key \in Keys /\ app[req[r].key] \in App
      BY <1>0, <1>3, RequestTypes DEF SaveStatus, ApplyInv, RequestsOK, Decision
    <2>2. PICK k \in Keys, s \in Status : k = req[r].key /\ s = req[r].status /\ app[k] \in App
      BY <2>1 DEF Decision
    <2>3. app' = [app EXCEPT ![k] = [app[k] EXCEPT !.status = s]] /\ stale' = stale \cup HeldBy(queue, {k})
      BY <1>3, <2>2 DEF SaveStatus
    <2>4. [app[k] EXCEPT !.status = s].post = app[k].post
      BY <2>2 DEF App
    <2>5. ASSUME NEW m \in queue, NEW j \in DOMAIN m.apps
          PROVE  app'[j].post = app[j].post /\ (j \in stale' \/ app'[j].status = app[j].status)
      <3>1. j \in Keys
        BY <2>5, MessageTypes
      <3>2. CASE j = k
        <4>1. j \in stale'
          BY <2>3, <2>5, <3>2 DEF HeldBy
        <4> QED BY <1>0, <2>3, <2>4, <3>1, <3>2, <4>1 DEF TypeOK
      <3>3. CASE j # k
        BY <1>0, <2>3, <3>1, <3>3 DEF TypeOK
      <3> QED BY <3>2, <3>3
    <2>6. ASSUME NEW m \in queue PROVE Staged(m)' /\ Held(m)'
      BY <1>1, <2>3, <2>5, HeldKept
    <2> QED BY <1>0, <2>6 DEF HoldInv
  <1>4. CASE ~SaveApplication(r) /\ ~SaveStatus(r)
    <2>1. UNCHANGED <<queue, app, stale, feed>>
      BY <1>0, <1>4 DEF Handle, Apply, AskForPost, CheckExisting, PublishPlaced,
                        UpdateRequestStatus, FindRequest, HandlerThrows
    <2> QED BY <2>1, QuietHolds
  <1> QED BY <1>2, <1>3, <1>4

\* What a consumer may leave in the queue.
LEMMA QueueAfter ==
    ASSUME NEW m \in queue
    PROVE  /\ \A n : Step(m, n) => queue' = (queue \ {m}) \cup {n}
           /\ Done(m) => queue' \in {queue \ {m}, (queue \ {m}) \cup {Ready(m.id, m.pos)}}
           /\ Park(m) => queue' = queue \ {m} /\ parked' = parked \cup {<<m.id, m.pos>>}
  BY DEF Step, Done, Park

\* A consumer that leaves the applications alone, and one message n for m at most.
LEMMA ConsumerHolds ==
    ASSUME ApplyInv, HoldInv, NEW m \in queue, NEW n, UNCHANGED <<service, app, stale>>,
           queue' \subseteq queue \cup {n, Ready(m.id, m.pos)},
           n \in queue' => Staged(n)' /\ Held(n)'
    PROVE  HoldInv'
  <1>1. m.id \in Ids /\ m.pos \in 1 .. MaxFeed
    BY MessageTypes DEF Message
  <1>2. Staged(Ready(m.id, m.pos))' /\ Held(Ready(m.id, m.pos))'
    BY <1>1, ReadyHolds
  <1>3. ASSUME NEW x \in queue PROVE Staged(x)' /\ Held(x)'
    <2>1. Staged(x) /\ Held(x) /\ Kind(x)' = Kind(x)
      BY DEF HoldInv, Kind, service
    <2> QED BY <2>1, HeldKept
  <1> QED BY <1>2, <1>3 DEF HoldInv
LEMMA SaveAppsHolds ==
    ASSUME ApplyInv, HoldInv, NEW m \in queue, SaveApps(m)
    PROVE  HoldInv'
  <1>0. /\ app \in [Keys -> App \cup {NoApp}] /\ m \in Message /\ m.id \in Ids /\ m.pos \in 1 .. MaxFeed
        /\ DOMAIN m.apps \subseteq Keys /\ m.stage = "read" /\ Staged(m) /\ Held(m)
    <2>1. m \in Message /\ DOMAIN m.apps \subseteq Keys
      BY MessageTypes
    <2> QED BY <2>1 DEF ApplyInv, TypeOK, HoldInv, SaveApps, Message
  <1>1. PICK S \in SUBSET DOMAIN m.apps :
          /\ app' = [k \in Keys |-> IF k \in S THEN [app[k] EXCEPT !.status = m.apps[k]] ELSE app[k]]
          /\ stale' = stale \cup HeldBy(queue \ {m}, S)
          /\ \/ IF Kind(m) = "Deleted" THEN Step(m, [m EXCEPT !.stage = "written"]) ELSE Done(m)
             \/ Park(m)
    BY DEF SaveApps
  <1>2. UNCHANGED service
    BY <1>1 DEF Step, Done, Park
  <1>3. \A k \in S : app[k] \in App /\ m.apps[k] \in Status
    BY MessageTypes
  <1>4. ASSUME NEW k \in Keys, app[k] \in App
        PROVE  /\ app'[k].post = app[k].post
               /\ k \notin S => app'[k].status = app[k].status
    BY <1>0, <1>1, <1>3, <1>4 DEF App
  <1>5. ASSUME NEW x \in queue \ {m} PROVE Staged(x)' /\ Held(x)'
    <2>1. Staged(x) /\ Held(x) /\ Kind(x)' = Kind(x)
      BY <1>2 DEF HoldInv, Kind, service
    <2>2. ASSUME NEW k \in DOMAIN x.apps
          PROVE  app'[k].post = app[k].post /\ (k \in stale' \/ app'[k].status = app[k].status)
      <3>1. k \in Keys /\ app[k] \in App
        BY <2>2, MessageTypes
      <3>2. k \in S => k \in stale'
        BY <1>1, <2>2 DEF HeldBy
      <3> QED BY <1>4, <3>1, <3>2
    <2> QED BY <1>1, <2>1, <2>2, HeldKept
  <1>6. Staged(Ready(m.id, m.pos))' /\ Held(Ready(m.id, m.pos))'
    BY <1>0, ReadyHolds
  <1>7. ASSUME Kind(m) = "Deleted"
        PROVE  Staged([m EXCEPT !.stage = "written"])' /\ Held([m EXCEPT !.stage = "written"])'
    <2> DEFINE n == [m EXCEPT !.stage = "written"]
    <2>1. n.id = m.id /\ n.pos = m.pos /\ n.apps = m.apps /\ n.stage = "written"
      BY <1>0 DEF Message
    <2> HIDE DEF n
    <2>2. Kind(n)' = "Deleted"
      BY <1>2, <1>7, <2>1 DEF Kind, service
    <2>3. Staged(n)'
      BY <2>1, <2>2 DEF Staged
    <2>4. ASSUME NEW k \in DOMAIN n.apps PROVE app'[k].post = n.id /\ (k \notin stale' => n.apps[k] = "Rejected")
      <3>1. k \in Keys /\ app[k] \in App /\ app[k].post = m.id /\ (k \notin stale => m.apps[k] = "Rejected")
        BY <1>0, <1>7, <2>1, <2>4, MessageTypes DEF Held, Decided
      <3> QED BY <1>1, <1>4, <2>1, <3>1
    <2>5. Held(n)'
      BY <2>2, <2>4 DEF Held, Decided
    <2> QED BY <2>3, <2>5 DEF n
  <1>8. \A x \in queue' : \/ x \in queue \ {m}
                          \/ x = Ready(m.id, m.pos)
                          \/ Kind(m) = "Deleted" /\ x = [m EXCEPT !.stage = "written"]
    BY <1>1, QueueAfter
  <1> QED BY <1>5, <1>6, <1>7, <1>8 DEF HoldInv


\* The same applications in a later stage.
LEMMA SameApps ==
    ASSUME HoldInv, NEW m \in queue, UNCHANGED <<service, app, stale>>,
           NEW n, n.id = m.id, n.pos = m.pos, n.apps = m.apps
    PROVE  Kind(n)' = Kind(m) /\ Held(n)'
  <1>1. Kind(n)' = Kind(m)
    BY DEF Kind, service
  <1> QED BY <1>1 DEF HoldInv, Held, Decided

LEMMA ConsumeHolds ==
    ASSUME ApplyInv, HoldInv, NEW m \in queue, Consume(m)
    PROVE  HoldInv'
  <1>0. m \in Message /\ Staged(m) /\ Held(m)
    BY MessageTypes DEF HoldInv
  <1>1. CASE SaveApps(m)
    BY <1>1, SaveAppsHolds
  <1>2. CASE ~SaveApps(m)
    <2>1. UNCHANGED <<service, app, stale>>
      BY <1>2 DEF Consume, JobPostCreatedConsumer, FindPost, SaveFinished, FindApps, DeleteCopy,
                  ConsumerThrows, Step, Done, Park
    <2>2. CASE JobPostCreatedConsumer(m) \/ DeleteCopy(m) \/ ConsumerThrows(m) \/ Park(m)
      <3>1. queue' \subseteq queue \cup {m, Ready(m.id, m.pos)}
        BY <2>2, QueueAfter DEF JobPostCreatedConsumer, DeleteCopy, ConsumerThrows
      <3>2. Staged(m)' /\ Held(m)'
        <4>1. Kind(m)' = Kind(m)
          BY <2>1 DEF Kind, service
        <4> QED BY <1>0, <2>1, <4>1, HeldKept
      <3> QED BY <2>1, <3>1, <3>2, ConsumerHolds
    <2>3. ASSUME FindPost(m), ~Park(m) PROVE HoldInv'
      <3>0. PICK c : c = copy[m.id]
        OBVIOUS
      <3> DEFINE n == [m EXCEPT !.stage = "found", !.copy = c]
      <3>1. Kind(m) \in {"DeadlineReached", "Deleted"} /\ queue' \subseteq queue \cup {n, Ready(m.id, m.pos)}
        BY <2>3, <3>0, QueueAfter DEF FindPost
      <3>2. n.id = m.id /\ n.pos = m.pos /\ n.apps = m.apps /\ n.stage = "found"
        BY <1>0 DEF Message
      <3> HIDE DEF n
      <3>3. Kind(n)' = Kind(m) /\ Held(n)'
        BY <2>1, <3>2, SameApps
      <3>4. Staged(n)'
        BY <3>1, <3>2, <3>3 DEF Staged
      <3> QED BY <2>1, <3>1, <3>3, <3>4, ConsumerHolds
    <2>4. CASE SaveFinished(m)
      <3> DEFINE n == [m EXCEPT !.stage = "saved"]
      <3>1. Kind(m) = "DeadlineReached" /\ queue' \subseteq queue \cup {n, Ready(m.id, m.pos)}
        BY <2>4, QueueAfter DEF SaveFinished
      <3>2. n.id = m.id /\ n.pos = m.pos /\ n.apps = m.apps /\ n.stage = "saved"
        BY <1>0 DEF Message
      <3> HIDE DEF n
      <3>3. Kind(n)' = Kind(m) /\ Held(n)'
        BY <2>1, <3>2, SameApps
      <3>4. Staged(n)'
        BY <3>1, <3>2, <3>3 DEF Staged
      <3> QED BY <2>1, <3>1, <3>3, <3>4, ConsumerHolds
    <2>5. CASE FindApps(m)
      <3>1. PICK apps : apps = Rejecting(m)
        OBVIOUS
      <3> DEFINE n == [m EXCEPT !.stage = "read", !.apps = apps]
      <3>2. Kind(m) \in {"DeadlineReached", "Deleted"} /\ queue' \subseteq queue \cup {n, Ready(m.id, m.pos)}
        BY <2>5, <3>1, QueueAfter DEF FindApps
      <3>3. n.id = m.id /\ n.pos = m.pos /\ n.apps = apps /\ n.stage = "read"
        BY <1>0 DEF Message
      <3> HIDE DEF n
      <3>4. Kind(n)' = Kind(m)
        BY <2>1, <3>3 DEF Kind, service
      <3>5. ASSUME NEW k \in DOMAIN apps PROVE app[k].post = m.id /\ apps[k] = Decided(m, k)
        BY <3>1, <3>5 DEF Rejecting, Decided, AppsOf
      <3>6. Held(n)'
        BY <2>1, <3>3, <3>4, <3>5 DEF Held, Decided
      <3>7. Staged(n)'
        BY <3>2, <3>3, <3>4 DEF Staged
      <3> QED BY <2>1, <3>2, <3>6, <3>7, ConsumerHolds
    <2> QED BY <1>2, <2>2, <2>3, <2>4, <2>5 DEF Consume
  <1> QED BY <1>1, <1>2

LEMMA HoldInit == Init => HoldInv
  BY DEF Init, HoldInv

LEMMA HoldStep == ApplyInv /\ HoldInv /\ [Next]_vars => HoldInv'
  <1> SUFFICES ASSUME ApplyInv, HoldInv, [Next]_vars PROVE HoldInv'
    OBVIOUS
  <1>1. CASE Tick \/ ServiceStep \/ UNCHANGED vars
    <2>1. UNCHANGED <<queue, app, stale>>
      BY <1>1 DEF Tick, ServiceStep, vars
    <2>2. UNCHANGED feed \/ FeedStep
      BY <1>1, FeedNextStep DEF ApplyInv, Tick, ServiceStep, vars, service
    <2> QED BY <2>1, <2>2, QuietHolds
  <1>2. ASSUME NEW id \in Ids, Relay(id) PROVE HoldInv'
    <2>0. PICK k : k = relayed[id] + 1
      OBVIOUS
    <2>1. UNCHANGED <<feed, app, stale>> /\ queue' \subseteq queue \cup {Ready(id, k)}
      BY <1>2, <2>0 DEF Relay, service
    <2>2. k \in 1 .. MaxFeed
      <3>1. relayed[id] \in Nat /\ Len(feed[id]) \in Nat /\ Len(feed[id]) <= MaxFeed
        BY OwnFeed DEF ApplyInv, FeedsOK
      <3> QED BY <1>2, <2>0, <3>1, ApplyingBounds DEF Relay
    <2>3. ASSUME NEW m \in queue PROVE Staged(m)' /\ Held(m)'
      <3>1. Staged(m) /\ Held(m) /\ Kind(m)' = Kind(m)
        BY <2>1 DEF HoldInv, Kind
      <3> QED BY <2>1, <3>1, HeldKept
    <2>4. Staged(Ready(id, k))' /\ Held(Ready(id, k))'
      BY <2>2, ReadyHolds
    <2> QED BY <2>1, <2>3, <2>4 DEF HoldInv
  <1>3. CASE Restart
    <2>1. \A m \in queue : Staged(Ready(m.id, m.pos))' /\ Held(Ready(m.id, m.pos))'
      <3>1. \A m \in queue : m.id \in Ids /\ m.pos \in 1 .. MaxFeed
        BY MessageTypes DEF Message
      <3> QED BY <3>1, ReadyHolds
    <2> QED BY <1>3, <2>1 DEF Restart, HoldInv
  <1> QED BY <1>1, <1>2, <1>3, HandlerHolds, ConsumeHolds DEF Next

\* In any interleaving, an application that nobody wrote while a consumer held it
\* is changed by the employer's answer, or rejected by a consumer: one that was
\* pending by the deadline's, any by the one of JobPostDeleted.
THEOREM DecisionsAreRespected == Spec => ConsumersRespectDecisions
  <1> DEFINE Respected ==
        \A k \in Keys \ stale : (app[k] # NoApp /\ app'[k] # app[k]) =>
            \/ \E r \in Requests : Serving(r, "decide") /\ req[r].key = k
            \/ app[k].status = "Pending" /\ app'[k].status = "Rejected"
            \/ app'[k].status = "Rejected" /\ DeletionWaits(app[k].post)
  <1>1. ApplyInv /\ HoldInv /\ [Next]_vars => [Respected]_vars
    <2> SUFFICES ASSUME ApplyInv, HoldInv, Next, NEW k \in Keys \ stale, app[k] # NoApp, app'[k] # app[k]
                 PROVE  \/ \E r \in Requests : Serving(r, "decide") /\ req[r].key = k
                        \/ app[k].status = "Pending" /\ app'[k].status = "Rejected"
                        \/ app'[k].status = "Rejected" /\ DeletionWaits(app[k].post)
      OBVIOUS
    <2>0. app \in [Keys -> App \cup {NoApp}] /\ app[k] \in App
      BY DEF ApplyInv, TypeOK
    <2>1. ASSUME NEW r \in Requests, Handle(r) PROVE Serving(r, "decide") /\ req[r].key = k
      <3>1. ~SaveApplication(r)
        BY <2>0 DEF SaveApplication, FreeKeys
      <3>2. SaveStatus(r)
        BY <2>1, <3>1 DEF Handle, Apply, AskForPost, CheckExisting, PublishPlaced,
                          UpdateRequestStatus, FindRequest, HandlerThrows
      <3> QED BY <2>0, <3>2 DEF SaveStatus
    <2>2. ASSUME NEW m \in queue, Consume(m)
          PROVE  \/ app[k].status = "Pending" /\ app'[k].status = "Rejected"
                 \/ app'[k].status = "Rejected" /\ DeletionWaits(app[k].post)
      <3>1. SaveApps(m)
        BY <2>2 DEF Consume, JobPostCreatedConsumer, FindPost, SaveFinished, FindApps, DeleteCopy, ConsumerThrows
      <3>2. k \in DOMAIN m.apps /\ app'[k] = [app[k] EXCEPT !.status = m.apps[k]] /\ m.stage = "read"
        BY <3>1 DEF SaveApps
      <3>3. Staged(m) /\ app[k].post = m.id /\ m.apps[k] = Decided(m, k)
        BY <3>2 DEF HoldInv, Held
      <3>4. app'[k].status = m.apps[k] /\ m.apps[k] # app[k].status
        BY <2>0, <3>2 DEF App
      <3>5. CASE Kind(m) = "Deleted"
        <4>1. app'[k].status = "Rejected"
          BY <3>3, <3>4, <3>5 DEF Decided
        <4> QED BY <3>3, <3>5, <4>1 DEF DeletionWaits
      <3>6. CASE Kind(m) = "DeadlineReached"
        <4>1. app[k].status \in {"Pending", "Approved", "Rejected"}
          BY <2>0 DEF App, Status
        <4> QED BY <3>3, <3>4, <3>6, <4>1 DEF Decided
      <3> QED BY <3>2, <3>3, <3>5, <3>6 DEF Staged
    <2>3. app' # app
      OBVIOUS
    <2> QED BY <2>1, <2>2, <2>3 DEF Next, Tick, ServiceStep, Relay, Restart
  <1> HIDE DEF Respected
  <1>2. Spec => [][Respected]_vars
    BY <1>1, InitInv, NextInv, HoldInit, HoldStep, PTL DEF Spec
  <1> QED BY <1>2 DEF ConsumersRespectDecisions, Respected
-------------------------------------------------------------------------------
(* The events that were relayed. *)

LEMMA RelayedBounds ==
    ASSUME ApplyInv, NEW id \in Ids
    PROVE  relayed[id] \in Nat /\ Len(feed[id]) \in Nat /\ relayed[id] <= Len(feed[id])
  BY OwnFeed DEF ApplyInv, FeedsOK

LEMMA RelayedKept ==
    ASSUME ApplyInv, NEW id \in Ids, relayed'[id] = relayed[id], UNCHANGED feed \/ FeedStep
    PROVE  \A kinds : Relayed(id, kinds)' = Relayed(id, kinds)
  <1>1. relayed[id] \in Nat /\ Len(feed[id]) \in Nat /\ relayed[id] <= Len(feed[id]) /\ TypeOK
    BY RelayedBounds DEF ApplyInv
  <1>2. \A k \in 1 .. Len(feed[id]) : feed'[id][k] = feed[id][k]
    BY <1>1, EarlierEvents
  <1>3. \A k \in 1 .. relayed[id] : feed'[id][k] = feed[id][k]
    BY <1>1, <1>2
  <1> QED BY <1>3 DEF Relayed

LEMMA RelayedMore ==
    ASSUME ApplyInv, NEW id \in Ids, Relay(id), NEW k, k = relayed[id] + 1
    PROVE  /\ k \in 1 .. Len(feed[id]) /\ k \in 1 .. MaxFeed /\ relayed'[id] = k
           /\ \A kinds : Relayed(id, kinds)' = Relayed(id, kinds) \cup (IF feed[id][k].kind \in kinds THEN {k} ELSE {})
           /\ \A kinds : feed[id][k].kind \notin kinds => Relayed(id, kinds)' = Relayed(id, kinds)
           /\ \A x \in Ids \ {id} : relayed'[x] = relayed[x]
           /\ UNCHANGED service
  <1>1. relayed[id] \in Nat /\ Len(feed[id]) \in Nat /\ k <= Len(feed[id]) /\ Len(feed[id]) <= MaxFeed
    BY RelayedBounds DEF ApplyInv, FeedsOK, Relay
  <1>2. relayed' = [relayed EXCEPT ![id] = k] /\ relayed \in [Ids -> 0 .. MaxFeed] /\ UNCHANGED service
    BY DEF Relay, ApplyInv, TypeOK
  <1>3. relayed'[id] = k /\ \A x \in Ids \ {id} : relayed'[x] = relayed[x]
    BY <1>2
  <1>4. \A j : j \in 1 .. k <=> j \in 1 .. relayed[id] \/ j = k
    BY <1>1
  <1>5. \A kinds : Relayed(id, kinds)' = Relayed(id, kinds) \cup (IF feed[id][k].kind \in kinds THEN {k} ELSE {})
    BY <1>2, <1>3, <1>4 DEF Relayed, service
  <1>6. k \in 1 .. Len(feed[id]) /\ k \in 1 .. MaxFeed
    BY <1>1, ApplyingBounds
  <1>7. ASSUME NEW kinds, feed[id][k].kind \notin kinds
        PROVE  Relayed(id, kinds)' = Relayed(id, kinds)
    BY <1>2, <1>3, <1>4, <1>7 DEF Relayed, service
  <1> QED BY <1>2, <1>3, <1>5, <1>6, <1>7

\* What each step does to the events that were relayed.
LEMMA RelayedSteps ==
    ASSUME ApplyInv, [Next]_vars, NEW id \in Ids, ~Relay(id)
    PROVE  \A kinds : Relayed(id, kinds)' = Relayed(id, kinds)
  <1>1. ASSUME NEW i \in Ids, Relay(i) PROVE relayed'[id] = relayed[id] /\ UNCHANGED feed
    <2>1. id # i
      BY <1>1
    <2>2. PICK k : k = relayed[i] + 1
      OBVIOUS
    <2> QED BY <1>1, <2>1, <2>2, RelayedMore DEF service
  <1>2. CASE ServiceStep
    <2>1. FeedStep /\ relayed' = relayed
      BY <1>2, FeedNextStep DEF ApplyInv, ServiceStep
    <2> QED BY <2>1, RelayedKept
  <1>3. ASSUME NEW r \in Requests, Handle(r) PROVE relayed' = relayed
    BY <1>3 DEF Handle, Apply, AskForPost, CheckExisting, SaveApplication, PublishPlaced,
                UpdateRequestStatus, FindRequest, SaveStatus, HandlerThrows, Controller
  <1>4. ASSUME NEW m \in queue, Consume(m) PROVE relayed' = relayed
    BY <1>4 DEF Consume, JobPostCreatedConsumer, FindPost, SaveFinished, FindApps, SaveApps, DeleteCopy,
                ConsumerThrows, Step, Done, Park
  <1>5. CASE Tick \/ Restart \/ UNCHANGED vars
    <2>1. UNCHANGED <<feed, relayed>>
      BY <1>5 DEF Tick, Restart, vars, service
    <2> QED BY <2>1, RelayedKept
  <1>6. CASE ~Tick /\ ~ServiceStep
    <2>1. UNCHANGED feed
      BY <1>6, ServiceUnchanged DEF Next, service
    <2> QED BY <1>1, <1>3, <1>4, <1>5, <1>6, <2>1, RelayedKept DEF Next
  <1> QED BY <1>2, <1>5, <1>6

LEMMA KindAfter ==
    ASSUME ApplyInv, [Next]_vars, NEW m \in queue
    PROVE  Kind(m)' = Kind(m)
  <1>1. m \in Message /\ m.pos <= relayed[m.id]
    BY MessageTypes DEF Sound
  <1>2. CASE ServiceStep
    BY <1>1, <1>2, KindKept, FeedNextStep DEF ApplyInv, ServiceStep
  <1>3. CASE ~ServiceStep
    <2>1. UNCHANGED feed
      BY <1>3, ServiceUnchanged DEF Next, Tick, service
    <2> QED BY <2>1 DEF Kind
  <1> QED BY <1>2, <1>3

-------------------------------------------------------------------------------
(* A deleted post. *)

LEMMA DeletedForGood ==
    ASSUME ApplyInv, LifeOK, [Next]_vars, NEW id \in Ids, ~Feed!Live(id), Relayed(id, {"Deleted"}) # {}
    PROVE  /\ ~Feed!Live(id)' /\ Relayed(id, {"Deleted"})' # {}
           /\ Relay(id) => feed[id][relayed[id] + 1].kind \in {"Updated", "DeadlineReached"}
  <1>0. relayed[id] \in Nat /\ Len(feed[id]) \in Nat /\ relayed[id] <= Len(feed[id]) /\ feed[id] \in Seq(Events)
    BY RelayedBounds, OwnFeed DEF ApplyInv
  <1>1. PICK d \in 1 .. Len(feed[id]) : feed[id][d].kind = "Deleted" /\ d <= relayed[id]
    BY <1>0 DEF Relayed
  <1>2. Feed!Known(id)
    BY <1>0, <1>1 DEF Feed!Known
  <1>3. ~Feed!Live(id)'
    <2>1. CASE ServiceStep
      <3>1. PostStep(id)
        BY <2>1, PostSteps DEF ApplyInv, ServiceStep
      <3> QED BY <1>2, <3>1 DEF PostStep, EventSuits, Feed!Live
    <2>2. CASE ~ServiceStep
      <3>1. row' = row
        BY <2>2, ServiceUnchanged DEF Next, Tick, service
      <3> QED BY <3>1 DEF Feed!Live
    <2> QED BY <2>1, <2>2
  <1>4. CASE Relay(id)
    <2>1. PICK k : k = relayed[id] + 1
      OBVIOUS
    <2>2. k \in 1 .. Len(feed[id]) /\ k > d
      BY <1>0, <1>1, <1>4, <2>1, RelayedMore
    <2>3. feed[id][k].kind \notin {"Created", "Deleted"} /\ feed[id][k] \in Events
      BY <1>0, <1>1, <2>2 DEF LifeOK
    <2>4. Relayed(id, {"Deleted"})' # {}
      BY <1>4, <2>1, RelayedMore
    <2> QED BY <1>3, <2>1, <2>3, <2>4 DEF Events
  <1>5. CASE ~Relay(id)
    BY <1>3, <1>5, RelayedSteps
  <1> QED BY <1>4, <1>5

\* Its applications: no handler and no consumer of another post writes them.
AppsStay(id) == \A k \in AppsOf(id) \cup AppsOf(id)' : app'[k] = app[k]

LEMMA AppsUntouched ==
    ASSUME TypeOK, NEW id \in Ids, \A k \in Keys : app'[k] = app[k] \/ (k \notin AppsOf(id) /\ k \notin AppsOf(id)')
    PROVE  AppsStay(id)
  BY DEF AppsStay, AppsOf


\* What a handler may ask of another post than id.
Elsewhere(q, id) == \/ q = Idle \/ q.op \in {"ask", "publish"}
                    \/ q.op \in {"apply", "save", "review"} /\ q.post # id
                    \/ q.op = "decide" /\ q.key \in Keys /\ app'[q.key].post # id

LEMMA HandlerSealed ==
    ASSUME ApplyInv, NEW id \in Ids, Sealed(id), NEW r \in Requests, Handle(r)
    PROVE  (\A s \in Requests : ~ConcernedWith(s, id)') /\ AppsStay(id)
  <1>0. TypeOK /\ copy[id] = NoCopy /\ ~Feed!Live(id) /\ \A s \in Requests : ~ConcernedWith(s, id)
    BY DEF ApplyInv, Sealed
  <1>1. app \in [Keys -> App \cup {NoApp}]
    BY <1>0 DEF TypeOK
  <1>2. \A s \in Requests : Serving(s, "decide") =>
            req[s].key \in Keys /\ app[req[s].key] \in App /\ app[req[s].key].post # id
    BY <1>0, RequestTypes DEF ApplyInv, RequestsOK, Decision, ConcernedWith
  <1>3. ASSUME NEW q, Controller(r, q), Elsewhere(q, id),
               \A k \in Keys : app[k] \in App => app'[k].post = app[k].post
        PROVE  \A s \in Requests : ~ConcernedWith(s, id)'
    <2> SUFFICES ASSUME NEW s \in Requests PROVE ~ConcernedWith(s, id)'
      OBVIOUS
    <2>1. CASE s = r
      <3>1. req'[s] = q
        BY <1>0, <1>3, <2>1 DEF Controller, TypeOK
      <3> QED BY <1>3, <3>1 DEF ConcernedWith, Serving, Elsewhere
    <2>2. CASE s # r
      <3>1. req'[s] = req[s]
        BY <1>0, <1>3, <2>2 DEF Controller, TypeOK
      <3>2. Serving(s, "decide") => app'[req[s].key].post # id
        BY <1>2, <1>3
      <3> QED BY <1>0, <3>1, <3>2 DEF ConcernedWith, Serving
    <2> QED BY <2>1, <2>2
  <1>4. CASE SaveApplication(r)
    <2>1. req[r] \in Applying /\ req[r].post # id
      BY <1>0, <1>4, RequestTypes DEF SaveApplication, Serving, ConcernedWith
    <2>2. PICK k, q, a :
            /\ k \in FreeKeys /\ q = [op |-> "publish", key |-> k]
            /\ a = [post |-> req[r].post, employee |-> req[r].user, status |-> "Pending"]
            /\ app' = [app EXCEPT ![k] = a] /\ Controller(r, q)
      BY <1>4 DEF SaveApplication
    <2>3. a.post # id /\ Elsewhere(q, id)
      BY <2>1, <2>2 DEF Elsewhere
    <2>4. \A j \in Keys : IF j = k THEN app'[j] = a /\ app[j] = NoApp ELSE app'[j] = app[j]
      BY <1>1, <2>2 DEF FreeKeys
    <2>5. \A j \in Keys : app'[j] = app[j] \/ (j \notin AppsOf(id) /\ j \notin AppsOf(id)')
      BY <2>3, <2>4 DEF AppsOf
    <2>6. \A j \in Keys : app[j] \in App => app'[j].post = app[j].post
      BY <2>4, NothingAssumption
    <2> QED BY <1>0, <1>3, <2>2, <2>3, <2>5, <2>6, AppsUntouched
  <1>5. CASE SaveStatus(r)
    <2>1. req[r].key \in Keys /\ app[req[r].key] \in App /\ app[req[r].key].post # id
      BY <1>2, <1>5 DEF SaveStatus
    <2>2. PICK k, a :
            /\ k \in Keys /\ k = req[r].key /\ a = [app[k] EXCEPT !.status = req[r].status]
            /\ app' = [app EXCEPT ![k] = a] /\ Controller(r, Idle)
      BY <1>5, <2>1 DEF SaveStatus
    <2>3. a.post = app[k].post /\ app[k].post # id
      BY <2>1, <2>2 DEF App
    <2>4. \A j \in Keys : IF j = k THEN app'[j] = a ELSE app'[j] = app[j]
      BY <1>1, <2>2
    <2>5. \A j \in Keys : app'[j] = app[j] \/ (j \notin AppsOf(id) /\ j \notin AppsOf(id)')
      BY <2>3, <2>4 DEF AppsOf
    <2>6. \A j \in Keys : app[j] \in App => app'[j].post = app[j].post
      BY <2>3, <2>4
    <2>7. Elsewhere(Idle, id)
      BY DEF Elsewhere
    <2> QED BY <1>0, <1>3, <2>2, <2>5, <2>6, <2>7, AppsUntouched
  <1>6. CASE ~SaveApplication(r) /\ ~SaveStatus(r)
    <2>1. app' = app
      BY <1>6 DEF Handle, Apply, AskForPost, CheckExisting, PublishPlaced,
                  UpdateRequestStatus, FindRequest, HandlerThrows
    <2>2. \E q : Controller(r, q) /\ Elsewhere(q, id)
      <3>0. Elsewhere(Idle, id)
        BY DEF Elsewhere
      <3>1. ASSUME NEW u \in Users, NEW i \in Ids, Apply(r, u, i) PROVE \E q : Controller(r, q) /\ Elsewhere(q, id)
        BY <1>0, <3>1 DEF Apply, Elsewhere
      <3>2. CASE AskForPost(r)
        <4>1. req[r].post = id => GetJobPost(req[r].post) = {}
          BY <1>0 DEF GetJobPost
        <4>2. CASE Controller(r, Idle)
          BY <3>0, <4>2
        <4>3. CASE ~Controller(r, Idle)
          <5>1. \E d \in GetJobPost(req[r].post) :
                  Controller(r, [op |-> "apply", user |-> req[r].user, post |-> req[r].post, deadline |-> d])
            BY <3>2, <4>3 DEF AskForPost
          <5> QED BY <4>1, <5>1 DEF Elsewhere
        <4> QED BY <4>2, <4>3
      <3>3. CASE CheckExisting(r)
        <4>1. req[r] \in Applying /\ req[r].post # id
          BY <1>0, <3>3, RequestTypes DEF CheckExisting, Serving, ConcernedWith
        <4>2. [req[r] EXCEPT !.op = "save"].op = "save" /\ [req[r] EXCEPT !.op = "save"].post # id
          BY <4>1 DEF Applying
        <4> QED BY <3>0, <3>3, <4>2 DEF CheckExisting, Elsewhere
      <3>4. CASE PublishPlaced(r) \/ HandlerThrows(r)
        BY <3>0, <3>4 DEF PublishPlaced, HandlerThrows
      <3>5. ASSUME NEW u \in Users, NEW i \in Ids, NEW st \in Status, UpdateRequestStatus(r, i, u, st)
            PROVE  \E q : Controller(r, q) /\ Elsewhere(q, id)
        BY <1>0, <3>5 DEF UpdateRequestStatus, Elsewhere
      <3>6. CASE FindRequest(r)
        <4>1. req[r].post # id
          BY <1>0, <3>6 DEF FindRequest, Serving, ConcernedWith
        <4>2. CASE Controller(r, Idle)
          BY <3>0, <4>2
        <4>3. ASSUME NEW k \in AppsBy(req[r].user, req[r].post),
                     Controller(r, [op |-> "decide", key |-> k, status |-> req[r].status])
              PROVE  \E q : Controller(r, q) /\ Elsewhere(q, id)
          <5>1. k \in Keys /\ app'[k].post # id
            BY <2>1, <4>1, <4>3 DEF AppsBy, AppsOf
          <5> QED BY <4>3, <5>1 DEF Elsewhere
        <4> QED BY <3>6, <4>2, <4>3 DEF FindRequest
      <3> QED BY <1>6, <3>1, <3>2, <3>3, <3>4, <3>5, <3>6 DEF Handle
    <2>3. AppsStay(id)
      BY <2>1 DEF AppsStay, AppsOf
    <2> QED BY <1>3, <2>1, <2>2, <2>3
  <1> QED BY <1>4, <1>5, <1>6

\* A consumer leaves the messages of the other posts.
LEMMA OtherMessages ==
    ASSUME ApplyInv, NEW m \in queue, Consume(m), NEW id, id # m.id
    PROVE  \A n : n.id = id => (n \in queue' <=> n \in queue)
  <1>0. m \in Message
    BY MessageTypes
  <1>1. Ready(m.id, m.pos).id = m.id
    BY DEF Ready
  <1>2. ASSUME NEW n, Step(m, n), n.id = m.id PROVE \A x : x.id = id => (x \in queue' <=> x \in queue)
    BY <1>2 DEF Step
  <1>3. CASE Done(m) \/ Park(m)
    BY <1>1, <1>3 DEF Done, Park
  <1>4. CASE FindPost(m)
    <2>1. [m EXCEPT !.stage = "found", !.copy = copy[m.id]].id = m.id
      BY <1>0 DEF Message
    <2> QED BY <1>2, <1>3, <1>4, <2>1 DEF FindPost
  <1>5. CASE SaveFinished(m)
    <2>1. [m EXCEPT !.stage = "saved"].id = m.id
      BY <1>0 DEF Message
    <2> QED BY <1>2, <1>5, <2>1 DEF SaveFinished
  <1>6. CASE FindApps(m)
    <2>1. [m EXCEPT !.stage = "read", !.apps = Rejecting(m)].id = m.id
      BY <1>0 DEF Message
    <2> QED BY <1>2, <1>6, <2>1 DEF FindApps
  <1>7. CASE SaveApps(m)
    <2>1. [m EXCEPT !.stage = "written"].id = m.id
      BY <1>0 DEF Message
    <2> QED BY <1>2, <1>3, <1>7, <2>1 DEF SaveApps
  <1> QED BY <1>3, <1>4, <1>5, <1>6, <1>7 DEF Consume, JobPostCreatedConsumer, DeleteCopy, ConsumerThrows

\* A consumer: one of the post itself parks its message, one of another post
\* leaves its own messages, copy and applications.
LEMMA ConsumerSealed ==
    ASSUME ApplyInv, HoldInv, NEW id \in Ids, Sealed(id), NEW m \in queue, Consume(m)
    PROVE  /\ copy'[id] = NoCopy /\ AppsStay(id) /\ req' = req
           /\ \A k \in Keys : app[k] \in App => app'[k].post = app[k].post
           /\ \A n \in queue' : n.id = id => n \in queue
  <1>0. /\ copy \in [Ids -> Copy \cup {NoCopy}] /\ app \in [Keys -> App \cup {NoApp}] /\ copy[id] = NoCopy
        /\ m \in Message /\ m.id \in Ids /\ m.pos \in 1 .. MaxFeed
    BY MessageTypes DEF ApplyInv, TypeOK, Sealed, Message
  <1>1. req' = req
    BY DEF Consume, JobPostCreatedConsumer, FindPost, SaveFinished, FindApps, SaveApps, DeleteCopy,
           ConsumerThrows, Step, Done, Park
  <1>2. ASSUME app' = app PROVE AppsStay(id) /\ \A k \in Keys : app[k] \in App => app'[k].post = app[k].post
    BY <1>2 DEF AppsStay, AppsOf
  <1>3. CASE m.id = id
    <2>1. Kind(m) = "DeadlineReached" /\ m.stage = "ready"
      BY <1>3 DEF Sealed, Dead
    <2>2. Park(m) /\ UNCHANGED <<copy, app>>
      BY <1>0, <1>3, <2>1 DEF Consume, JobPostCreatedConsumer, FindPost, SaveFinished, FindApps, SaveApps,
                              DeleteCopy, ConsumerThrows
    <2>3. queue' \subseteq queue
      BY <2>2 DEF Park
    <2> QED BY <1>0, <1>1, <1>2, <2>2, <2>3
  <1>4. CASE m.id # id
    <2>1. copy'[id] = copy[id]
      BY <1>0, <1>4 DEF Consume, JobPostCreatedConsumer, FindPost, SaveFinished, FindApps, SaveApps,
                        DeleteCopy, ConsumerThrows
    <2>2. \A n \in queue' : n.id = id => n \in queue
      BY <1>4, OtherMessages
    <2>3. CASE SaveApps(m)
      <3>1. PICK S \in SUBSET DOMAIN m.apps :
              app' = [k \in Keys |-> IF k \in S THEN [app[k] EXCEPT !.status = m.apps[k]] ELSE app[k]]
        BY <2>3 DEF SaveApps
      <3>2. ASSUME NEW k \in S PROVE k \in Keys /\ app[k] \in App /\ app[k].post # id
        BY <1>4, MessageTypes DEF HoldInv, Held
      <3>3. ASSUME NEW k \in Keys, app[k] \in App PROVE app'[k].post = app[k].post
        BY <3>1, <3>3 DEF App
      <3>4. \A k \in Keys : app'[k] = app[k] \/ (k \notin AppsOf(id) /\ k \notin AppsOf(id)')
        BY <3>1, <3>2, <3>3 DEF AppsOf
      <3>5. AppsStay(id)
        BY <3>4, AppsUntouched DEF ApplyInv
      <3> QED BY <1>0, <1>1, <1>4, <2>1, <2>2, <3>3, <3>5
    <2>4. CASE ~SaveApps(m)
      <3>1. app' = app
        BY <2>4 DEF Consume, JobPostCreatedConsumer, FindPost, SaveFinished, FindApps, DeleteCopy, ConsumerThrows
      <3> QED BY <1>0, <1>1, <1>2, <1>4, <2>1, <2>2, <3>1
    <2> QED BY <2>3, <2>4
  <1> QED BY <1>3, <1>4

\* Once the events of a deleted post were applied it stays deleted: nothing brings
\* its copy back, and no request or consumer writes its applications.
THEOREM DeletedStaySealed == Spec => SealedForGood
  <1> DEFINE Stays == \A id \in Ids : Sealed(id) =>
                          /\ Sealed(id)'
                          /\ \A k \in AppsOf(id) \cup AppsOf(id)' : app'[k] = app[k]
  <1>1. ApplyInv /\ LifeOK /\ HoldInv /\ [Next]_vars => [Stays]_vars
    <2> SUFFICES ASSUME ApplyInv, LifeOK, HoldInv, Next, NEW id \in Ids, Sealed(id) PROVE Sealed(id)' /\ AppsStay(id)
      BY DEF AppsStay
    <2>0. /\ copy[id] = NoCopy /\ (\A m \in queue : m.id = id => Dead(m))
          /\ \A r \in Requests : ~ConcernedWith(r, id)
      BY DEF Sealed
    <2>1. ~Feed!Live(id)' /\ Relayed(id, {"Deleted"})' # {}
      BY DeletedForGood DEF Sealed
    <2>2. ASSUME NEW m \in queue, m.id = id PROVE Dead(m)'
      BY <2>0, <2>2, KindAfter DEF Dead
    <2>3. ASSUME app' = app, req' = req
          PROVE  AppsStay(id) /\ \A r \in Requests : ~ConcernedWith(r, id)'
      BY <2>0, <2>3 DEF AppsStay, AppsOf, ConcernedWith, Serving
    <2>4. ASSUME copy'[id] = NoCopy, \A m \in queue' : m.id = id => Dead(m)', \A r \in Requests : ~ConcernedWith(r, id)'
          PROVE  Sealed(id)'
      BY <2>1, <2>4 DEF Sealed
    <2>5. CASE Tick \/ ServiceStep
      <3>1. UNCHANGED <<copy, app, req, queue>>
        BY <2>5 DEF Tick, ServiceStep
      <3> QED BY <2>0, <2>2, <2>3, <2>4, <3>1
    <2>6. ASSUME NEW i \in Ids, Relay(i) PROVE Sealed(id)' /\ AppsStay(id)
      <3>1. UNCHANGED <<copy, app, req, feed>>
        BY <2>6 DEF Relay, service
      <3>2. PICK k : k = relayed[i] + 1
        OBVIOUS
      <3>3. k \in 1 .. MaxFeed
        BY <2>6, <3>2, RelayedMore
      <3>4. queue' = IF feed[i][k].kind = "Updated" THEN queue ELSE queue \cup {Ready(i, k)}
        BY <2>6, <3>2 DEF Relay
      <3>5. ASSUME i = id, feed[i][k].kind # "Updated" PROVE Dead(Ready(i, k))'
        <4>1. feed[i][k].kind = "DeadlineReached"
          BY <2>6, <3>2, <3>5, DeletedForGood DEF Sealed
        <4>2. Ready(i, k).id = i /\ Ready(i, k).pos = k /\ Ready(i, k).stage = "ready"
          BY <3>3, ReadyTypes
        <4> QED BY <3>1, <4>1, <4>2 DEF Dead, Kind
      <3>6. \A m \in queue' : m.id = id => Dead(m)'
        <4>1. Ready(i, k).id = i
          BY <3>3, ReadyTypes
        <4> QED BY <2>2, <3>4, <3>5, <4>1
      <3> QED BY <2>0, <2>3, <2>4, <3>1, <3>6
    <2>7. ASSUME NEW r \in Requests, Handle(r) PROVE Sealed(id)' /\ AppsStay(id)
      <3>1. UNCHANGED <<copy, queue>>
        BY <2>7 DEF Handle, Apply, AskForPost, CheckExisting, SaveApplication, PublishPlaced,
                    UpdateRequestStatus, FindRequest, SaveStatus, HandlerThrows, Controller
      <3> QED BY <2>0, <2>2, <2>4, <2>7, <3>1, HandlerSealed
    <2>8. ASSUME NEW m \in queue, Consume(m) PROVE Sealed(id)' /\ AppsStay(id)
      <3>1. /\ copy'[id] = NoCopy /\ AppsStay(id) /\ req' = req
            /\ \A k \in Keys : app[k] \in App => app'[k].post = app[k].post
            /\ \A n \in queue' : n.id = id => n \in queue
        BY <2>8, ConsumerSealed
      <3>2. \A r \in Requests : Serving(r, "decide") => req[r].key \in Keys /\ app[req[r].key] \in App
        BY RequestTypes DEF ApplyInv, RequestsOK, Decision
      <3>3. \A r \in Requests : ~ConcernedWith(r, id)'
        BY <2>0, <3>1, <3>2 DEF ConcernedWith, Serving
      <3> QED BY <2>2, <2>4, <3>1, <3>3
    <2>9. CASE Restart
      <3>1. UNCHANGED <<copy, app>> /\ \A r \in Requests : req'[r] = Idle
        BY <2>9 DEF Restart
      <3>2. AppsStay(id) /\ \A r \in Requests : ~ConcernedWith(r, id)'
        BY <3>1 DEF AppsStay, AppsOf, ConcernedWith, Serving
      <3>3. ASSUME NEW m \in queue
            PROVE  Ready(m.id, m.pos).id = m.id /\ (m.id = id => Dead(Ready(m.id, m.pos))')
        <4>1. /\ Ready(m.id, m.pos).id = m.id /\ Ready(m.id, m.pos).pos = m.pos
              /\ Ready(m.id, m.pos).stage = "ready"
          BY DEF Ready
        <4> QED BY <2>2, <4>1 DEF Dead, Kind
      <3>4. \A n \in queue' : n.id = id => Dead(n)'
        BY <2>9, <3>3 DEF Restart
      <3> QED BY <2>0, <2>4, <3>1, <3>2, <3>4
    <2> QED BY <2>5, <2>6, <2>7, <2>8, <2>9 DEF Next
  <1> HIDE DEF Stays
  <1>2. Spec => [][Stays]_vars
    BY <1>1, InitInv, NextInv, LifeInit, LifeStep, HoldInit, HoldStep, PTL DEF Spec
  <1> QED BY <1>2 DEF SealedForGood, Stays
-------------------------------------------------------------------------------
(* The copies.  CopyInv speaks of a post no message of which was parked or     *)
(* overtook an earlier one.  When none of its messages waits the copy is what  *)
(* the events relayed so far say.  Else the first one that waits is the only   *)
(* one that was taken up, each relayed event after it that has a message still *)
(* has it in the queue, and while that of JobPostDeadlineReached is consumed   *)
(* the copy is what the events up to it say, but for the flag, which the       *)
(* consumer has set once it goes on to the applications.                       *)

Upto(id, p, kinds) == {k \in 1 .. p : feed[id][k].kind \in kinds}
Follows(id, p) == copy[id] # NoCopy <=> (Upto(id, p, {"Created"}) # {} /\ Upto(id, p, {"Deleted"}) = {})
HasDeadline(id, c) == c # NoCopy /\ c.deadline \in feed[id][1].data
Finished(id, p) ==
    /\ Follows(id, p)
    /\ copy[id] # NoCopy =>
          /\ HasDeadline(id, copy[id])
          /\ copy[id].finished = (Upto(id, p, {"DeadlineReached"}) # {})
Finishing(m) ==
    /\ Follows(m.id, m.pos)
    /\ copy[m.id] # NoCopy => HasDeadline(m.id, copy[m.id])
    /\ m.stage = "found" => copy[m.id] # NoCopy /\ HasDeadline(m.id, m.copy)
    /\ m.stage \in {"saved", "read"} => copy[m.id] # NoCopy /\ copy[m.id].finished = TRUE
Queued(id, p) == \E n \in queue : n.id = id /\ n.pos = p
AllQueued(id, p) == \A k \in p + 1 .. relayed[id] : feed[id][k].kind = "Updated" \/ Queued(id, k)
FirstMessage(m) ==
    /\ \A n \in queue : n.id = m.id => n = m \/ (m.pos < n.pos /\ n.stage = "ready")
    /\ AllQueued(m.id, m.pos)
    /\ Kind(m) = "DeadlineReached" => Finishing(m)
OneEach(id) == \A m, n \in queue : m.id = id /\ n.id = id /\ m.pos = n.pos => m = n
Copied(id) == /\ ~Waiting(id) => Finished(id, relayed[id])
              /\ \A m \in queue : m.id = id /\ Earlier(m) = {} => FirstMessage(m)
              /\ OneEach(id)
CopyInv == \A id \in Ids \ overtaken : ~Parked(id) => Copied(id)

LEMMA CopyInit == Init => CopyInv
  <1> SUFFICES ASSUME Init, NEW id \in Ids PROVE Copied(id)
    BY DEF CopyInv
  <1>1. queue = {} /\ copy[id] = NoCopy /\ relayed[id] = 0
    BY DEF Init
  <1>2. Upto(id, relayed[id], {"Created"}) = {}
    BY <1>1 DEF Upto
  <1> QED BY <1>1, <1>2 DEF Copied, OneEach, Finished, Follows

\* What the events up to p say stays when none of the kind follows.
LEMMA UptoGap ==
    ASSUME NEW id, NEW p \in Nat, NEW q \in Nat, p <= q, NEW kinds,
           \A k \in p + 1 .. q : feed[id][k].kind \notin kinds
    PROVE  Upto(id, q, kinds) = Upto(id, p, kinds)
  <1>1. \A k : k \in 1 .. q <=> (k \in 1 .. p \/ k \in p + 1 .. q)
    OBVIOUS
  <1> QED BY <1>1 DEF Upto

\* What the first p events say is the same after a step.
LEMMA UptoKept ==
    ASSUME ApplyInv, NEW id \in Ids, NEW p \in Nat, p <= relayed[id], UNCHANGED feed \/ FeedStep
    PROVE  /\ \A kinds : Upto(id, p, kinds)' = Upto(id, p, kinds)
           /\ \A k \in 1 .. relayed[id] : feed'[id][k] = feed[id][k]
  <1>1. relayed[id] \in Nat /\ Len(feed[id]) \in Nat /\ relayed[id] <= Len(feed[id]) /\ TypeOK
    BY RelayedBounds DEF ApplyInv
  <1>2. \A k \in 1 .. Len(feed[id]) : feed'[id][k] = feed[id][k]
    BY <1>1, EarlierEvents
  <1>3. \A k \in 1 .. relayed[id] : feed'[id][k] = feed[id][k]
    BY <1>1, <1>2
  <1>4. \A k \in 1 .. p : feed'[id][k] = feed[id][k]
    BY <1>1, <1>3
  <1> QED BY <1>3, <1>4 DEF Upto

\* So a step that leaves the copy keeps what Follows and Finished say of them.
LEMMA FollowsKept ==
    ASSUME ApplyInv, NEW id \in Ids, NEW p \in Nat, p <= relayed[id], UNCHANGED feed \/ FeedStep,
           copy'[id] = copy[id]
    PROVE  /\ Follows(id, p) => Follows(id, p)'
           /\ Finished(id, p) => Finished(id, p)'
           /\ Follows(id, p) /\ copy[id] # NoCopy => feed'[id][1] = feed[id][1]
  <1>1. \A kinds : Upto(id, p, kinds)' = Upto(id, p, kinds)
    BY UptoKept
  <1>2. Follows(id, p) /\ copy[id] # NoCopy => feed'[id][1] = feed[id][1]
    <2>1. Follows(id, p) /\ copy[id] # NoCopy => 1 \in 1 .. p
      BY DEF Follows, Upto
    <2> QED BY <2>1, RelayedBounds, UptoKept
  <1> QED BY <1>1, <1>2 DEF Follows, Finished, HasDeadline

LEMMA MessagePosition ==
    ASSUME ApplyInv, NEW m \in queue
    PROVE  /\ m.id \in Ids /\ m.pos \in Nat /\ m.pos >= 1 /\ m.pos <= relayed[m.id] /\ relayed[m.id] \in Nat
           /\ m.pos \in 1 .. relayed[m.id] /\ m.pos \in Upto(m.id, m.pos, {Kind(m)})
  <1>1. m.id \in Ids /\ m.pos \in 1 .. MaxFeed /\ m.pos <= relayed[m.id] /\ relayed[m.id] \in Nat
    BY MessageTypes, RelayedBounds DEF Sound, Message
  <1>2. m.pos \in Nat /\ m.pos >= 1 /\ m.pos \in 1 .. relayed[m.id] /\ m.pos \in 1 .. m.pos
    BY <1>1, ApplyingBounds
  <1> QED BY <1>1, <1>2 DEF Upto, Kind

\* A step that leaves the post's messages and its copy.
LEMMA QuietCopy ==
    ASSUME ApplyInv, NEW id \in Ids, Copied(id), copy'[id] = copy[id], relayed'[id] = relayed[id],
           UNCHANGED feed \/ FeedStep,
           \A m : m.id = id => (m \in queue' <=> m \in queue)
    PROVE  Copied(id)'
  <1>0. PICK r \in Nat : r = relayed[id] /\ r = relayed'[id]
    BY RelayedBounds
  <1>1. \A k \in 1 .. r : feed'[id][k] = feed[id][k]
    BY <1>0, UptoKept
  <1>2. (Waiting(id)' <=> Waiting(id)) /\ OneEach(id)'
    BY DEF Waiting, Copied, OneEach
  <1>3. ~Waiting(id)' => Finished(id, relayed[id])'
    BY <1>0, <1>2, FollowsKept DEF Copied
  <1>4. ASSUME NEW m \in queue', m.id = id, Earlier(m)' = {} PROVE FirstMessage(m)'
    <2>1. m \in queue /\ Earlier(m) = {}
      BY <1>4 DEF Earlier
    <2>2. FirstMessage(m)
      BY <1>4, <2>1 DEF Copied
    <2>3. Kind(m)' = Kind(m)
      BY <1>0, <1>1, <1>4, <2>1, MessagePosition DEF Kind
    <2>4. AllQueued(id, m.pos)'
      <3>1. ASSUME NEW k \in m.pos + 1 .. r PROVE feed'[id][k].kind = "Updated" \/ Queued(id, k)'
        <4>1. k \in 1 .. r
          <5>1. PICK p \in Nat : p = m.pos
            BY <2>1, MessagePosition
          <5> QED BY <1>0, <3>1, <5>1
        <4>2. feed[id][k].kind = "Updated" \/ Queued(id, k)
          BY <1>0, <1>4, <2>2, <3>1 DEF FirstMessage, AllQueued
        <4> QED BY <1>1, <4>1, <4>2 DEF Queued
      <3> QED BY <1>0, <3>1 DEF AllQueued
    <2>5. Finishing(m) => Finishing(m)'
      <3>1. m.pos \in Nat /\ m.pos <= relayed[id]
        BY <1>4, <2>1, MessagePosition
      <3> QED BY <1>4, <3>1, FollowsKept DEF Finishing, HasDeadline, Follows
    <2> QED BY <1>4, <2>2, <2>3, <2>4, <2>5 DEF FirstMessage
  <1> QED BY <1>2, <1>3, <1>4 DEF Copied

LEMMA RelayCopy ==
    ASSUME ApplyInv, NEW id \in Ids, Copied(id), Relay(id)
    PROVE  Copied(id)'
  <1>0. PICK k, r \in Nat : r = relayed[id] /\ k = r + 1
    BY RelayedBounds
  <1>1. k \in 1 .. MaxFeed /\ relayed'[id] = k /\ UNCHANGED service
    BY <1>0, RelayedMore
  <1>2. UNCHANGED <<copy, feed>> /\ queue' = IF feed[id][k].kind = "Updated" THEN queue ELSE queue \cup {Ready(id, k)}
    BY <1>0 DEF Relay, service
  <1> DEFINE n == Ready(id, k)
  <1>3. n.id = id /\ n.pos = k /\ n.stage = "ready"
    BY <1>1, ReadyTypes
  <1> HIDE DEF n
  <1>4. ASSUME NEW m \in queue, m.id = id PROVE m.pos \in Nat /\ m.pos < k
    <2>1. PICK p \in Nat : p = m.pos /\ p <= r
      BY <1>0, <1>4, MessagePosition
    <2> QED BY <1>0, <2>1
  <1>5. \A kinds : feed[id][k].kind \notin kinds => Upto(id, k, kinds) = Upto(id, r, kinds)
    <2>1. ASSUME NEW kinds, feed[id][k].kind \notin kinds PROVE Upto(id, k, kinds) = Upto(id, r, kinds)
      <3>1. \A j \in r + 1 .. k : feed[id][j].kind \notin kinds
        BY <1>0, <2>1
      <3> QED BY <1>0, <3>1, UptoGap
    <2> QED BY <2>1
  <1>6. queue' \subseteq queue \cup {n} /\ queue \subseteq queue'
    BY <1>2 DEF n
  <1>7. OneEach(id)'
    BY <1>3, <1>4, <1>6 DEF Copied, OneEach
  <1>8. feed[id][k].kind = "Updated" \/ Queued(id, k)'
    BY <1>2, <1>3 DEF Queued, n
  <1>9. ASSUME NEW m \in queue, m.id = id, Earlier(m)' = {} PROVE FirstMessage(m)'
    <2>1. FirstMessage(m)
      BY <1>6, <1>9 DEF Copied, Earlier
    <2>2. \A x \in queue' : x.id = id => x = m \/ (m.pos < x.pos /\ x.stage = "ready")
      BY <1>3, <1>4, <1>6, <1>9, <2>1 DEF FirstMessage
    <2>3. AllQueued(id, m.pos)'
      <3>1. ASSUME NEW j \in m.pos + 1 .. k PROVE feed'[id][j].kind = "Updated" \/ Queued(id, j)'
        <4>1. CASE j = k
          BY <1>2, <1>8, <4>1
        <4>2. CASE j # k
          <5>1. j \in m.pos + 1 .. relayed[id]
            BY <1>0, <1>4, <1>9, <4>2
          <5>2. feed[id][j].kind = "Updated" \/ Queued(id, j)
            BY <1>9, <2>1, <5>1 DEF FirstMessage, AllQueued
          <5> QED BY <1>2, <1>6, <5>2 DEF Queued
        <4> QED BY <4>1, <4>2
      <3> QED BY <1>1, <3>1 DEF AllQueued
    <2>4. Kind(m)' = Kind(m) /\ (Finishing(m) => Finishing(m)')
      BY <1>2 DEF Kind, Finishing, Follows, HasDeadline, Upto
    <2> QED BY <1>9, <2>1, <2>2, <2>3, <2>4 DEF FirstMessage
  <1>10. ASSUME ~Waiting(id) PROVE Copied(id)'
    <2>1. Finished(id, r) /\ \A m \in queue : m.id # id
      BY <1>0, <1>10 DEF Copied, Waiting
    <2>2. CASE feed[id][k].kind = "Updated"
      <3>1. queue' = queue
        BY <1>2, <2>2
      <3>2. feed[id][k].kind \notin {"Created"} /\ feed[id][k].kind \notin {"Deleted"} /\ feed[id][k].kind \notin {"DeadlineReached"}
        BY <2>2
      <3>3. Finished(id, k)
        BY <1>5, <2>1, <3>2 DEF Finished, Follows
      <3>4. Finished(id, relayed[id])'
        BY <1>1, <1>2, <3>3 DEF Finished, Follows, HasDeadline, Upto
      <3> QED BY <1>7, <2>1, <3>1, <3>4 DEF Copied
    <2>3. CASE feed[id][k].kind # "Updated"
      <3>1. n \in queue' /\ Waiting(id)'
        BY <1>2, <1>3, <2>3 DEF Waiting, n
      <3>2. Kind(n)' = feed[id][k].kind
        BY <1>2, <1>3 DEF Kind
      <3>3. ASSUME Kind(n)' = "DeadlineReached" PROVE Finishing(n)'
        <4>1. feed[id][k].kind \notin {"Created"} /\ feed[id][k].kind \notin {"Deleted"}
          BY <3>2, <3>3
        <4>2. Follows(id, k) /\ (copy[id] # NoCopy => HasDeadline(id, copy[id]))
          BY <1>5, <2>1, <4>1 DEF Finished, Follows
        <4> QED BY <1>2, <1>3, <4>2 DEF Finishing, Follows, HasDeadline, Upto
      <3>4. AllQueued(id, k)'
        BY <1>0, <1>1 DEF AllQueued
      <3>5. FirstMessage(n)'
        BY <1>3, <1>6, <2>1, <3>3, <3>4 DEF FirstMessage
      <3> QED BY <1>6, <1>7, <2>1, <3>1, <3>5 DEF Copied
    <2> QED BY <2>2, <2>3
  <1>11. ASSUME Waiting(id) PROVE Copied(id)'
    <2>1. PICK x \in queue : x.id = id
      BY <1>11 DEF Waiting
    <2>2. Waiting(id)' /\ x \in queue' /\ x.pos < k
      BY <1>4, <1>6, <2>1 DEF Waiting
    <2>3. Earlier(n)' # {}
      BY <1>3, <2>1, <2>2 DEF Earlier
    <2> QED BY <1>6, <1>7, <1>9, <2>2, <2>3 DEF Copied
  <1> QED BY <1>10, <1>11

\* The first message of a post goes on as n.
LEMMA StepCopy ==
    ASSUME ApplyInv, NEW m \in queue, Copied(m.id), Earlier(m) = {}, NEW n, Step(m, n),
           n.id = m.id, n.pos = m.pos, Kind(m) = "DeadlineReached" => Finishing(n)'
    PROVE  Copied(m.id)'
  <1>1. queue' = (queue \ {m}) \cup {n} /\ UNCHANGED <<feed, relayed>>
    BY DEF Step, service
  <1>2. FirstMessage(m) /\ m.pos \in Nat
    BY MessagePosition DEF Copied
  <1>3. Kind(n)' = Kind(m) /\ Waiting(m.id)'
    BY <1>1 DEF Kind, Waiting
  <1>4. \A x \in queue' : x.id = m.id => x = n \/ (x \in queue /\ n.pos < x.pos /\ x.stage = "ready")
    BY <1>1, <1>2 DEF FirstMessage
  <1>5. AllQueued(m.id, m.pos)'
    BY <1>1, <1>2 DEF FirstMessage, AllQueued, Queued
  <1>6. FirstMessage(n)'
    BY <1>3, <1>4, <1>5 DEF FirstMessage
  <1>7. \A x \in queue' : x.id = m.id /\ Earlier(x)' = {} => x = n
    BY <1>1, <1>4 DEF Earlier
  <1>8. OneEach(m.id)'
    BY <1>1, <1>2, <1>4 DEF Copied, OneEach
  <1> QED BY <1>3, <1>6, <1>7, <1>8 DEF Copied

\* It is acknowledged: what waits next is what the copy, as it is now, calls for.
LEMMA AcknowledgedCopy ==
    ASSUME ApplyInv, NEW m \in queue, Copied(m.id), Earlier(m) = {}, queue' = queue \ {m},
           UNCHANGED <<feed, relayed>>, Finished(m.id, m.pos)'
    PROVE  Copied(m.id)'
  <1>0. PICK id \in Ids, p \in Nat, r \in Nat : id = m.id /\ p = m.pos /\ r = relayed[id] /\ p <= r
    BY MessagePosition
  <1>1. FirstMessage(m)
    BY DEF Copied
  <1>2. \A x \in queue' : x.id = id => x \in queue /\ x.pos \in Nat /\ p < x.pos /\ x.pos <= r /\ x.stage = "ready"
    BY <1>0, <1>1, MessagePosition DEF FirstMessage
  <1>3. \A k \in p + 1 .. r : feed[id][k].kind = "Updated" \/ Queued(id, k)'
    <2>1. ASSUME NEW k \in p + 1 .. r, Queued(id, k) PROVE Queued(id, k)'
      <3>1. PICK x \in queue : x.id = id /\ x.pos = k
        BY <2>1 DEF Queued
      <3>2. x # m
        BY <1>0, <2>1, <3>1
      <3> QED BY <3>1, <3>2 DEF Queued
    <2> QED BY <1>0, <1>1, <2>1 DEF FirstMessage, AllQueued
  <1>4. ASSUME NEW q \in Nat, p <= q, q <= r, \A k \in p + 1 .. q : ~Queued(id, k)'
        PROVE  Finished(id, q)'
    <2>1. \A k \in p + 1 .. q : feed'[id][k].kind = "Updated"
      BY <1>0, <1>3, <1>4
    <2>2. \A kinds : "Updated" \notin kinds => Upto(id, q, kinds)' = Upto(id, p, kinds)'
      <3>1. ASSUME NEW kinds, "Updated" \notin kinds PROVE Upto(id, q, kinds) = Upto(id, p, kinds)
        <4>1. \A k \in p + 1 .. q : feed[id][k].kind \notin kinds
          BY <2>1, <3>1
        <4> QED BY <1>4, <4>1, UptoGap
      <3> QED BY <3>1 DEF Upto
    <2> QED BY <1>0, <2>2 DEF Finished, Follows
  <1>5. ASSUME ~Waiting(id)' PROVE Finished(id, relayed[id])'
    <2>1. \A k \in p + 1 .. r : ~Queued(id, k)'
      BY <1>5 DEF Queued, Waiting
    <2> QED BY <1>0, <1>4, <2>1
  <1>6. ASSUME NEW n \in queue', n.id = id, Earlier(n)' = {} PROVE FirstMessage(n)'
    <2>1. n \in queue /\ n.pos \in Nat /\ p < n.pos /\ n.pos <= r /\ n.stage = "ready" /\ OneEach(id)
      BY <1>0, <1>2, <1>6 DEF Copied
    <2>2. \A x \in queue' : x.id = id => x = n \/ (n.pos < x.pos /\ x.stage = "ready")
      <3>1. ASSUME NEW x \in queue', x.id = id, x # n PROVE n.pos < x.pos
        <4>1. ~(x.pos < n.pos)
          BY <1>6, <3>1 DEF Earlier
        <4>2. x.pos # n.pos
          BY <1>2, <1>6, <2>1, <3>1 DEF OneEach
        <4> QED BY <1>2, <2>1, <3>1, <4>1, <4>2
      <3> QED BY <1>2, <3>1
    <2>3. AllQueued(id, n.pos)'
      <3>1. \A k \in n.pos + 1 .. r : k \in p + 1 .. r
        BY <2>1
      <3> QED BY <1>0, <1>3, <3>1 DEF AllQueued
    <2>4. ASSUME Kind(n)' = "DeadlineReached" PROVE Finishing(n)'
      <3>1. PICK q \in Nat : q + 1 = n.pos /\ p <= q /\ q <= r
        <4>1. n.pos - 1 \in Nat /\ (n.pos - 1) + 1 = n.pos /\ p <= n.pos - 1 /\ n.pos - 1 <= r
          BY <2>1
        <4> QED BY <4>1
      <3>2. \A k \in p + 1 .. q : ~Queued(id, k)'
        BY <1>6, <3>1 DEF Queued, Earlier
      <3>3. Finished(id, q)'
        BY <1>4, <3>1, <3>2
      <3>4. feed[id][n.pos].kind = "DeadlineReached"
        BY <1>6, <2>4 DEF Kind
      <3>5. ASSUME NEW kinds, "DeadlineReached" \notin kinds PROVE Upto(id, n.pos, kinds) = Upto(id, q, kinds)
        <4>0. PICK s \in Nat : s = n.pos /\ s = q + 1 /\ q <= s
          BY <2>1, <3>1
        <4>1. \A k \in q + 1 .. s : feed[id][k].kind \notin kinds
          BY <3>4, <3>5, <4>0
        <4>2. Upto(id, s, kinds) = Upto(id, q, kinds)
          BY <4>0, <4>1, UptoGap
        <4> QED BY <4>0, <4>2
      <3>6. \A kinds : "DeadlineReached" \notin kinds => Upto(id, n.pos, kinds)' = Upto(id, q, kinds)'
        BY <3>5 DEF Upto
      <3> QED BY <1>6, <2>1, <3>3, <3>6 DEF Finishing, Finished, Follows
    <2> QED BY <1>6, <2>2, <2>3, <2>4 DEF FirstMessage
  <1>7. OneEach(id)'
    BY <1>0 DEF Copied, OneEach
  <1> QED BY <1>0, <1>5, <1>6, <1>7 DEF Copied

\* Done: acknowledged, or delivered again.
LEMMA DoneCopy ==
    ASSUME ApplyInv, NEW m \in queue, Copied(m.id), Earlier(m) = {}, Done(m), Finished(m.id, m.pos)'
    PROVE  Copied(m.id)'
  <1>0. m.id \in Ids /\ m.pos \in 1 .. MaxFeed /\ UNCHANGED <<feed, relayed>>
    BY MessageTypes DEF Message, Done, service
  <1>1. CASE queue' = queue \ {m}
    BY <1>0, <1>1, AcknowledgedCopy
  <1>2. CASE queue' = (queue \ {m}) \cup {Ready(m.id, m.pos)}
    <2> DEFINE n == Ready(m.id, m.pos)
    <2>1. n.id = m.id /\ n.pos = m.pos /\ n.stage = "ready" /\ queue' = (queue \ {m}) \cup {n}
      BY <1>0, <1>2, ReadyTypes
    <2> HIDE DEF n
    <2>2. FirstMessage(m) /\ m.pos \in Nat
      BY MessagePosition DEF Copied
    <2>3. Finishing(n)'
      BY <2>1 DEF Finishing, Finished
    <2>4. \A x \in queue' : x.id = m.id => x = n \/ (x \in queue /\ n.pos < x.pos /\ x.stage = "ready")
      BY <2>1, <2>2 DEF FirstMessage
    <2>5. AllQueued(m.id, m.pos)'
      BY <1>0, <2>1, <2>2 DEF FirstMessage, AllQueued, Queued
    <2>6. FirstMessage(n)' /\ Waiting(m.id)'
      BY <2>1, <2>3, <2>4, <2>5 DEF FirstMessage, Waiting
    <2>7. \A x \in queue' : x.id = m.id /\ Earlier(x)' = {} => x = n
      BY <2>1, <2>4 DEF Earlier
    <2>8. OneEach(m.id)'
      BY <2>1, <2>2, <2>4 DEF Copied, OneEach
    <2> QED BY <2>6, <2>7, <2>8 DEF Copied
  <1> QED BY <1>1, <1>2 DEF Done

LEMMA ConsumeCopy ==
    ASSUME ApplyInv, HoldInv, LifeOK, NEW m \in queue, Copied(m.id), Earlier(m) = {}, Consume(m), ~Parked(m.id)'
    PROVE  Copied(m.id)'
  <1>0. /\ m \in Message /\ m.id \in Ids /\ m.pos \in Nat /\ m.pos \in 1 .. Len(feed[m.id])
        /\ copy \in [Ids -> Copy \cup {NoCopy}] /\ FirstMessage(m) /\ Staged(m)
    BY MessageTypes DEF ApplyInv, TypeOK, Copied, HoldInv
  <1>1. UNCHANGED <<feed, relayed>>
    BY DEF Consume, JobPostCreatedConsumer, FindPost, SaveFinished, FindApps, SaveApps, DeleteCopy,
           ConsumerThrows, Step, Done, Park, service
  <1>2. \A kinds : Upto(m.id, m.pos, kinds)' = Upto(m.id, m.pos, kinds)
    BY <1>1 DEF Upto
  <1>3. ~Park(m)
    <2>1. ASSUME Park(m) PROVE Parked(m.id)'
      <3>1. <<m.id, m.pos>> \in parked' /\ <<m.id, m.pos>>[1] = m.id
        BY <2>1 DEF Park
      <3> QED BY <3>1 DEF Parked
    <2> QED BY <2>1
  <1>4. m.pos \in Upto(m.id, m.pos, {Kind(m)})
    BY MessagePosition
  <1>5. CASE JobPostCreatedConsumer(m)
    <2>1. PICK d \in feed[m.id][m.pos].data : copy' = [copy EXCEPT ![m.id] = [deadline |-> d, finished |-> FALSE]]
      BY <1>5 DEF JobPostCreatedConsumer
    <2>2. m.pos = 1 /\ feed[m.id][1].kind = "Created" /\ d \in Times
      BY <1>0, <1>5, <2>1 DEF JobPostCreatedConsumer, Kind, LifeOK
    <2>3. /\ copy'[m.id] # NoCopy /\ copy'[m.id].deadline = d /\ copy'[m.id].finished = FALSE
      <3> DEFINE c == [deadline |-> d, finished |-> FALSE]
      <3>1. c.deadline = d /\ c.finished = FALSE
        OBVIOUS
      <3>2. c \in Copy
        BY <2>2 DEF Copy
      <3>3. c # NoCopy
        BY <3>2, NothingAssumption
      <3>4. copy' = [copy EXCEPT ![m.id] = c]
        BY <2>1
      <3> HIDE DEF c
      <3>5. copy'[m.id] = c
        BY <1>0, <3>4
      <3> QED BY <3>1, <3>3, <3>5
    <2>4. \A k \in 1 .. m.pos : k = 1
      BY <2>2
    <2>5. /\ Upto(m.id, m.pos, {"Created"}) # {}
          /\ Upto(m.id, m.pos, {"Deleted"}) = {} /\ Upto(m.id, m.pos, {"DeadlineReached"}) = {}
      BY <1>4, <1>5, <2>2, <2>4 DEF Upto, JobPostCreatedConsumer
    <2>6. Finished(m.id, m.pos)'
      BY <1>1, <1>2, <2>1, <2>2, <2>3, <2>5 DEF Finished, Follows, HasDeadline
    <2> QED BY <1>0, <1>5, <2>6, DoneCopy DEF JobPostCreatedConsumer
  <1>6. CASE FindPost(m)
    <2>1. PICK c : c = copy[m.id]
      OBVIOUS
    <2> DEFINE n == [m EXCEPT !.stage = "found", !.copy = c]
    <2>2. Step(m, n) /\ UNCHANGED copy /\ (Kind(m) = "DeadlineReached" => c # NoCopy)
      BY <1>3, <1>6, <2>1 DEF FindPost
    <2>3. n.id = m.id /\ n.pos = m.pos /\ n.stage = "found" /\ n.copy = c
      BY <1>0 DEF Message
    <2> HIDE DEF n
    <2>4. ASSUME Kind(m) = "DeadlineReached" PROVE Finishing(n)'
      BY <1>0, <1>1, <1>2, <2>1, <2>2, <2>3, <2>4 DEF FirstMessage, Finishing, Follows, HasDeadline
    <2> QED BY <1>0, <2>2, <2>3, <2>4, StepCopy
  <1>7. CASE SaveFinished(m)
    <2> DEFINE n == [m EXCEPT !.stage = "saved"]
    <2>1. Step(m, n) /\ Kind(m) = "DeadlineReached" /\ m.stage = "found"
      BY <1>7 DEF SaveFinished
    <2>2. n.id = m.id /\ n.pos = m.pos /\ n.stage = "saved"
      BY <1>0 DEF Message
    <2> HIDE DEF n
    <2>3. PICK c : c = [m.copy EXCEPT !.finished = TRUE]
      OBVIOUS
    <2>4. m.copy \in Copy /\ m.copy.deadline \in feed[m.id][1].data /\ copy[m.id] # NoCopy /\ Follows(m.id, m.pos)
      BY <1>0, <2>1 DEF FirstMessage, Finishing, HasDeadline, Message
    <2>5. c \in Copy /\ c.finished = TRUE /\ c.deadline = m.copy.deadline /\ c # NoCopy
      BY <2>3, <2>4, NothingAssumption DEF Copy
    <2>6. copy'[m.id] = c
      BY <1>0, <1>7, <2>3 DEF SaveFinished
    <2>7. Finishing(n)'
      BY <1>1, <1>2, <2>2, <2>4, <2>5, <2>6 DEF Finishing, Follows, HasDeadline
    <2> QED BY <1>0, <2>1, <2>2, <2>7, StepCopy
  <1>8. CASE FindApps(m)
    <2>1. PICK apps : apps = Rejecting(m)
      OBVIOUS
    <2> DEFINE n == [m EXCEPT !.stage = "read", !.apps = apps]
    <2>2. Step(m, n) /\ UNCHANGED copy /\ (Kind(m) = "DeadlineReached" => m.stage = "saved")
      BY <1>8, <2>1 DEF FindApps
    <2>3. n.id = m.id /\ n.pos = m.pos /\ n.stage = "read"
      BY <1>0 DEF Message
    <2> HIDE DEF n
    <2>4. ASSUME Kind(m) = "DeadlineReached" PROVE Finishing(n)'
      BY <1>0, <1>1, <1>2, <2>2, <2>3, <2>4 DEF FirstMessage, Finishing, Follows, HasDeadline
    <2> QED BY <1>0, <2>2, <2>3, <2>4, StepCopy
  <1>9. CASE SaveApps(m)
    <2>1. m.stage = "read" /\ UNCHANGED copy
      BY <1>9 DEF SaveApps
    <2>2. CASE Kind(m) = "Deleted"
      <3> DEFINE n == [m EXCEPT !.stage = "written"]
      <3>1. Step(m, n)
        BY <1>3, <1>9, <2>2 DEF SaveApps
      <3>2. n.id = m.id /\ n.pos = m.pos
        BY <1>0 DEF Message
      <3> HIDE DEF n
      <3> QED BY <1>0, <2>2, <3>1, <3>2, StepCopy
    <2>3. CASE Kind(m) # "Deleted"
      <3>1. Done(m) /\ Kind(m) = "DeadlineReached"
        BY <1>0, <1>3, <1>9, <2>1, <2>3 DEF SaveApps, Staged
      <3>2. Finished(m.id, m.pos)'
        BY <1>0, <1>1, <1>2, <1>4, <2>1, <3>1 DEF FirstMessage, Finishing, Finished, Follows, HasDeadline
      <3> QED BY <1>0, <3>1, <3>2, DoneCopy
    <2> QED BY <2>2, <2>3
  <1>10. CASE DeleteCopy(m)
    <2>1. Done(m) /\ copy' = [copy EXCEPT ![m.id] = NoCopy] /\ Kind(m) = "Deleted"
      BY <1>0, <1>3, <1>10 DEF DeleteCopy, Staged
    <2>2. copy'[m.id] = NoCopy /\ Upto(m.id, m.pos, {"Deleted"}) # {}
      BY <1>0, <1>4, <2>1
    <2>3. Finished(m.id, m.pos)'
      BY <1>2, <2>2 DEF Finished, Follows
    <2> QED BY <1>0, <2>1, <2>3, DoneCopy
  <1>11. CASE ConsumerThrows(m)
    BY <1>3, <1>11 DEF ConsumerThrows
  <1> QED BY <1>5, <1>6, <1>7, <1>8, <1>9, <1>10, <1>11 DEF Consume

LEMMA RestartCopy ==
    ASSUME ApplyInv, NEW id \in Ids, Copied(id), Restart
    PROVE  Copied(id)'
  <1>1. UNCHANGED <<feed, copy, relayed>> /\ queue' = {Ready(m.id, m.pos) : m \in queue}
    BY DEF Restart, service
  <1>2. \A m : Ready(m.id, m.pos).id = m.id /\ Ready(m.id, m.pos).pos = m.pos /\ Ready(m.id, m.pos).stage = "ready"
    BY DEF Ready
  <1>3. \A p : Queued(id, p)' <=> Queued(id, p)
    BY <1>1, <1>2 DEF Queued
  <1>4. Waiting(id)' <=> Waiting(id)
    BY <1>1, <1>2 DEF Waiting
  <1>5. ASSUME NEW x \in queue', NEW y \in queue', x.id = id, y.id = id, x.pos = y.pos PROVE x = y
    <2>1. PICK m \in queue, n \in queue : x = Ready(m.id, m.pos) /\ y = Ready(n.id, n.pos)
      BY <1>1
    <2> QED BY <1>2, <1>5, <2>1
  <1>6. \A p : /\ Follows(id, p) => Follows(id, p)' /\ (Finished(id, p) => Finished(id, p)')
               /\ AllQueued(id, p) => AllQueued(id, p)'
    BY <1>1, <1>3 DEF Follows, Finished, HasDeadline, AllQueued, Upto
  <1>7. ASSUME NEW n \in queue', n.id = id, Earlier(n)' = {} PROVE FirstMessage(n)'
    <2>1. PICK m \in queue : n = Ready(m.id, m.pos) /\ m.id = id /\ n.pos = m.pos /\ n.stage = "ready"
      BY <1>1, <1>2, <1>7
    <2>2. ASSUME NEW y \in queue, y.id = id, y.pos < m.pos PROVE FALSE
      <3>1. Ready(y.id, y.pos) \in queue'
        BY <1>1
      <3> QED BY <1>2, <1>7, <2>1, <2>2, <3>1 DEF Earlier
    <2>3. FirstMessage(m)
      BY <2>1, <2>2 DEF Copied, Earlier
    <2>4. ASSUME NEW x \in queue', x.id = id, x # n PROVE n.pos < x.pos /\ x.stage = "ready"
      <3>1. PICK y \in queue : x = Ready(y.id, y.pos) /\ y.id = id /\ x.pos = y.pos /\ x.stage = "ready"
        BY <1>1, <1>2, <2>4
      <3>2. y # m
        BY <2>1, <2>4, <3>1
      <3> QED BY <2>1, <2>3, <3>1, <3>2 DEF FirstMessage
    <2>5. Kind(n)' = Kind(m)
      BY <1>1, <1>7, <2>1 DEF Kind
    <2>6. Kind(m) = "DeadlineReached" => Finishing(n)'
      BY <1>1, <1>6, <1>7, <2>1, <2>3 DEF FirstMessage, Finishing, HasDeadline
    <2> QED BY <1>6, <1>7, <2>1, <2>3, <2>4, <2>5, <2>6 DEF FirstMessage
  <1>8. Finished(id, relayed[id]) => Finished(id, relayed[id])'
    BY <1>1 DEF Follows, Finished, HasDeadline, Upto
  <1> QED BY <1>4, <1>5, <1>7, <1>8 DEF Copied, OneEach

LEMMA CopyStep == ApplyInv /\ LifeOK /\ HoldInv /\ CopyInv /\ [Next]_vars => CopyInv'
  <1> SUFFICES ASSUME ApplyInv, LifeOK, HoldInv, CopyInv, [Next]_vars,
                      NEW id \in Ids, id \notin overtaken', ~Parked(id)'
               PROVE  Copied(id)'
    BY DEF CopyInv
  <1>1. ASSUME parked \subseteq parked', overtaken \subseteq overtaken' PROVE Copied(id)
    BY <1>1 DEF CopyInv, Parked
  <1>2. CASE Tick \/ ServiceStep \/ UNCHANGED vars
    <2>1. UNCHANGED <<copy, relayed, queue, parked, overtaken>>
      BY <1>2 DEF Tick, ServiceStep, vars
    <2>2. UNCHANGED feed \/ FeedStep
      BY <1>2, FeedNextStep DEF ApplyInv, Tick, ServiceStep, vars, service
    <2> QED BY <1>1, <2>1, <2>2, QuietCopy
  <1>3. ASSUME NEW i \in Ids, Relay(i) PROVE Copied(id)'
    <2>1. UNCHANGED <<copy, feed, parked, overtaken>>
      BY <1>3 DEF Relay, service
    <2>2. CASE i = id
      BY <1>1, <1>3, <2>1, <2>2, RelayCopy
    <2>3. CASE i # id
      <3>1. PICK k : k = relayed[i] + 1
        OBVIOUS
      <3>2. Ready(i, k).id = i
        BY DEF Ready
      <3>3. relayed'[id] = relayed[id]
        BY <1>3, <2>3, <3>1, RelayedMore
      <3>4. \A m : m.id = id => (m \in queue' <=> m \in queue)
        BY <1>3, <2>3, <3>1, <3>2 DEF Relay
      <3> QED BY <1>1, <2>1, <3>3, <3>4, QuietCopy
    <2> QED BY <2>2, <2>3
  <1>4. ASSUME NEW r \in Requests, Handle(r) PROVE Copied(id)'
    <2>1. UNCHANGED <<copy, feed, relayed, queue, parked, overtaken>>
      BY <1>4 DEF Handle, Apply, AskForPost, CheckExisting, SaveApplication, PublishPlaced,
                  UpdateRequestStatus, FindRequest, SaveStatus, HandlerThrows, Controller, service
    <2> QED BY <1>1, <2>1, QuietCopy
  <1>5. ASSUME NEW m \in queue, Consume(m) PROVE Copied(id)'
    <2>0. m \in Message /\ m.id \in Ids /\ copy \in [Ids -> Copy \cup {NoCopy}]
      BY MessageTypes DEF ApplyInv, TypeOK
    <2>1. UNCHANGED <<feed, relayed>> /\ parked \subseteq parked'
      BY <1>5 DEF Consume, JobPostCreatedConsumer, FindPost, SaveFinished, FindApps, SaveApps, DeleteCopy,
                  ConsumerThrows, Step, Done, Park, service
    <2>2. overtaken \subseteq overtaken' /\ (m.id = id => Earlier(m) = {})
      BY <1>5 DEF Consume
    <2>3. CASE m.id = id
      BY <1>1, <1>5, <2>1, <2>2, <2>3, ConsumeCopy
    <2>4. CASE m.id # id
      <3>1. copy'[id] = copy[id]
        BY <1>5, <2>0, <2>4 DEF Consume, JobPostCreatedConsumer, FindPost, SaveFinished, FindApps, SaveApps,
                                DeleteCopy, ConsumerThrows
      <3>2. \A x : x.id = id => (x \in queue' <=> x \in queue)
        BY <1>5, <2>4, OtherMessages
      <3> QED BY <1>1, <2>1, <2>2, <3>1, <3>2, QuietCopy
    <2> QED BY <2>3, <2>4
  <1>6. CASE Restart
    BY <1>1, <1>6, RestartCopy DEF Restart
  <1> QED BY <1>2, <1>3, <1>4, <1>5, <1>6 DEF Next

\* However the broker orders the messages, the copies of the posts none of whose
\* messages overtook another or was parked follow the feed, for any posts and
\* requests, through redeliveries, failures and restarts.
THEOREM CopiesFollowTheFeed == Spec => []CopyFollowsFeed
  <1>1. ApplyInv /\ CopyInv => CopyFollowsFeed
    <2> SUFFICES ASSUME ApplyInv, CopyInv, NEW id \in Ids \ overtaken, ~Waiting(id), ~Parked(id)
                 PROVE  CopyFollowsFeed!(id)
      BY DEF CopyFollowsFeed
    <2>1. Finished(id, relayed[id])
      BY DEF CopyInv, Copied
    <2>2. copy[id] # NoCopy => copy[id] \in Copy
      BY DEF ApplyInv, TypeOK
    <2> QED BY <2>1, <2>2 DEF Finished, Follows, HasDeadline, Upto, Relayed, Copy
  <1> QED BY <1>1, InitInv, NextInv, LifeInit, LifeStep, HoldInit, HoldStep, CopyInit, CopyStep, PTL DEF Spec
===============================================================================
