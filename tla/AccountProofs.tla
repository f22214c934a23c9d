---------------------------- MODULE AccountProofs ----------------------------
(***************************************************************************)
(* Proofs about the accounts and their pages, for any accounts, stores,    *)
(* browsers, requests and faults.  A step of the server is one of a few    *)
(* kinds, told apart by what it writes and how its request goes on: the    *)
(* first part shows that, and that types are kept; the parts after it      *)
(* speak of these kinds only.                                              *)
(***************************************************************************)
EXTENDS AccountPages, FiniteSetTheorems, TLAPS

SignUps == {"register", "createAdmin"}
Mailers == SignUps \cup {"resend", "forgot"}    \* requests that mail a link

StepsOf(kind) ==
    CASE kind \in SignUps -> {"insertUser", "saveToken", "mail"}
      [] kind \in {"resend", "forgot"} -> {"deleteTokens", "saveToken", "mail"}
      [] kind \in Links -> {"saveUser", "removeToken"}
      [] kind = "login" -> {"compare"}
      [] kind = "update" -> {"saveLocation", "updateUser", "findUpdated"}
      [] OTHER -> {}

\* A request that is under way takes the steps of its kind, with what it needs.
Sound(r, rows) ==
    r.step # None =>
        /\ r.step \in StepsOf(r.kind)
        /\ r.step = "insertUser" => r.name \in Names /\ r.password \in Passwords
        /\ r.step # "insertUser" => rows[r.email] # None
        /\ r.step = "mail" => r.token \in Ids
        /\ r.kind \in Links => r.row \in User /\ r.token \in Ids
        /\ r.kind = "reset" => r.password \in Passwords
        /\ r.kind = "login" => r.row \in User /\ r.password \in Passwords

TasksOK ==
    /\ task \in [Tasks -> Task \cup {None}]
    /\ \A t \in Tasks : task[t] # None => Sound(task[t], users)
DataOK ==
    /\ users \in [Emails -> User \cup {None}]
    /\ tokens \subseteq Token /\ mails \subseteq Token
    /\ given \in 0 .. MaxTokens /\ expired \subseteq Ids
    /\ uses \in [Ids -> Nat]
CallsOK == calls \in [Kinds \cup {"fault", "day"} -> Nat] /\ faults \in Nat
MetOK == met \in [Emails -> SUBSET (Kinds \X Kinds)]
TabsOK == tab \in [Tasks -> Tab] /\ forms \in 0 .. MaxForms
\* Links are of accounts.
OwnersOK == \A k \in tokens : Exists(k.email)
\* Who is logged in has an account, and who waits for the login that let him in.
SessionsOK ==
    \A t \in Tasks :
        /\ tab[t].me # None => Exists(tab[t].me)
        /\ tab[t].wait = "login" /\ task[t] # None /\ (task[t].step # None \/ ~task[t].failed) =>
              tab[t].email # None /\ Exists(tab[t].email)
TypeInv == TasksOK /\ DataOK /\ CallsOK /\ MetOK /\ TabsOK /\ OwnersOK /\ SessionsOK

LEMMA TypeInvIsTypeOK == TypeInv => PagesTypeOK
  BY DEF TypeInv, TasksOK, DataOK, CallsOK, MetOK, TabsOK, PagesTypeOK, TypeOK

LEMMA NoneIsNone ==
    /\ None \notin User /\ None \notin Task
    /\ None \notin Ids /\ None \notin Emails /\ None \notin Texts /\ None \notin Steps /\ None \notin Kinds
  BY AccountsAssumption

-------------------------------------------------------------------------------
(* How requests go on. *)

Others(t) == \A u \in Tasks \ {t} : task'[u] = task[u]
\* Request t goes on to another step, and is the one it was but for its token.
Onward(t, from, to) ==
    /\ At(t, from) /\ Running(t) /\ Others(t)
    /\ task'[t] # None /\ task'[t].step = to
    /\ task'[t].kind = task[t].kind /\ task'[t].email = task[t].email
    /\ task'[t].row = task[t].row /\ task'[t].name = task[t].name
    /\ task'[t].password = task[t].password /\ task'[t].profile = task[t].profile

\* What the steps of the server and the arrivals of requests come to.
Inserted(t) ==
    LET e == Email(t) IN
    /\ Onward(t, "insertUser", "saveToken") /\ task[t].kind \in SignUps
    /\ ~Exists(e) /\ users'[e] \in User /\ ~users'[e].verified
    /\ \A f \in Emails \ {e} : users'[f] = users[f]
    /\ UNCHANGED <<tokens, given, expired, mails, uses>>
Deleted(t) ==
    /\ Onward(t, "deleteTokens", "saveToken") /\ task[t].kind \in {"resend", "forgot"}
    /\ tokens' = tokens \ TokensOf(Email(t), LinkOf(t))
    /\ UNCHANGED <<users, given, expired, mails, uses>>
NewLink(t) == [id |-> given', kind |-> LinkOf(t), email |-> Email(t)]
Saved(t) ==
    /\ Onward(t, "saveToken", "mail") /\ task[t].kind \in Mailers
    /\ given' = given + 1 /\ given' \in Ids /\ task'[t].token = given'
    /\ tokens' = tokens \cup {NewLink(t)}
    /\ UNCHANGED <<users, expired, mails, uses>>
MailOf(t) == [id |-> task[t].token, kind |-> LinkOf(t), email |-> Email(t)]
Mailed(t) ==
    /\ At(t, "mail") /\ Running(t) /\ Others(t) /\ task[t].kind \in Mailers
    /\ task'[t] # None /\ task'[t].step = None /\ task'[t].kind = task[t].kind
    /\ task'[t].email = task[t].email /\ ~task'[t].failed
    /\ mails' = mails \cup {MailOf(t)}
    /\ UNCHANGED <<users, tokens, given, expired, uses>>
Stored(t) ==
    LET e == Email(t) IN
    /\ Onward(t, "saveUser", "removeToken") /\ task[t].kind \in Links /\ task'[t].token = task[t].token
    /\ users'[e] \in User
    /\ users'[e].verified = (task[t].kind = "verify" \/ task[t].row.verified)
    /\ users'[e].password = IF task[t].kind = "verify" THEN task[t].row.password ELSE task[t].password
    /\ \A f \in {"phone", "about"} : users'[e].profile[f] = task[t].row.profile[f]
    /\ users'[e].profile["location"] = users[e].profile["location"]
    /\ \A f \in Emails \ {e} : users'[f] = users[f]
    /\ \A i \in Ids : uses'[i] = IF i = task[t].token THEN uses[i] + 1 ELSE uses[i]
    /\ UNCHANGED <<tokens, given, expired, mails>>
Removed(t) ==
    /\ At(t, "removeToken") /\ Running(t) /\ Others(t) /\ task[t].kind \in Links
    /\ task'[t] # None /\ task'[t].step = None /\ task'[t].kind = task[t].kind
    /\ task'[t].email = task[t].email /\ ~task'[t].failed
    /\ tokens' = {k \in tokens : k.id # task[t].token}
    /\ UNCHANGED <<users, given, expired, mails, uses>>
\* An update writes the location, or the other fields that are not empty.
Filled(t) ==
    LET e == Email(t) IN
    /\ task[t].kind = "update"
    /\ \/ /\ Onward(t, "saveLocation", "updateUser")
          /\ users'[e].profile["location"] = task[t].profile["location"]
          /\ \A f \in {"phone", "about"} : users'[e].profile[f] = users[e].profile[f]
       \/ /\ Onward(t, "updateUser", "findUpdated")
          /\ users'[e].profile["location"] = users[e].profile["location"]
          /\ \A f \in {"phone", "about"} :
                users'[e].profile[f] = IF task[t].profile[f] # None THEN task[t].profile[f]
                                       ELSE users[e].profile[f]
    /\ users'[e] \in User
    /\ users'[e].verified = users[e].verified /\ users'[e].password = users[e].password
    /\ \A f \in Emails \ {e} : users'[f] = users[f]
    /\ UNCHANGED <<tokens, given, expired, mails, uses>>

\* A request arrives at t, with the first thing it read.
Arrived(t) ==
    LET r == task'[t] IN
    /\ ~Running(t) /\ tab[t].wait = None /\ Others(t) /\ task'[t] # None
    /\ \/ r.kind \in SignUps /\ r.step = "insertUser"
       \/ r.kind \in {"resend", "forgot"} /\ r.step = "deleteTokens"
       \/ /\ r.kind \in Links /\ r.step = "saveUser" /\ r.row = users[r.email]
          /\ \E k \in tokens : k.id = r.token /\ k.kind = r.kind /\ k.email = r.email
          /\ \E k \in mails : k.id = r.token /\ k.kind = r.kind
       \/ r.kind = "login" /\ r.step = "compare" /\ r.row = users[r.email]
       \/ r.kind = "update" /\ r.step = "saveLocation" /\ r.profile["location"] # None
       \/ r.kind = "update" /\ r.step = "updateUser" /\ r.profile["location"] = None
    /\ r.kind = "resend" => \E u \in Tasks : tab[u].page = "verify" /\ tab[u].email = r.email
    /\ UNCHANGED stores
\* A request is refused when it comes, ends without a write, or is lost.
Turned(t) ==
    ~Running(t) /\ tab[t].wait = None /\ task'[t] # None /\ task'[t].step = None /\ task'[t].failed
Finished(t) ==
    /\ Running(t) /\ task'[t] # None /\ task'[t].step = None
    /\ task'[t].kind = task[t].kind /\ task'[t].email = task[t].email
    /\ \/ faults' > 0 /\ task'[t].failed
       \/ At(t, "insertUser") /\ task'[t].failed
       \/ At(t, "compare") /\ (~task'[t].failed => task[t].row.password = task[t].password)
       \/ At(t, "findUpdated")
Stopped(t) == faults' > 0 /\ task'[t] = None
\* Nothing is written, and no request goes on; some may end.
Rested ==
    /\ \A t \in Tasks : task'[t] = task[t] \/ Turned(t) \/ Finished(t) \/ Stopped(t)
    /\ UNCHANGED <<users, tokens, given, mails, uses>>
    /\ expired' = expired \/ expired' = 1 .. given

Kept == TasksOK' /\ DataOK' /\ CallsOK' /\ faults' >= faults

LEMMA AtTask ==
    ASSUME TasksOK, NEW t \in Tasks, NEW step \in Steps, At(t, step)
    PROVE  /\ task[t] \in Task /\ task[t] # None /\ Running(t) /\ task[t].step = step
           /\ Sound(task[t], users) /\ step \in StepsOf(task[t].kind)
  BY NoneIsNone DEF TasksOK, At, Running, Sound

LEMMA GoFacts ==
    ASSUME TasksOK, NEW t \in Tasks, NEW from \in Steps, NEW to \in Steps, At(t, from), Go(t, to)
    PROVE  /\ Onward(t, from, to) /\ task'[t].token = task[t].token
           /\ task' \in [Tasks -> Task \cup {None}]
  <1> DEFINE r == [task[t] EXCEPT !.step = to]
  <1>1. task[t] \in Task /\ Running(t)
    BY AtTask
  <1>2. r \in Task /\ r.step = to /\ r.kind = task[t].kind /\ r.email = task[t].email /\ r.row = task[t].row
        /\ r.name = task[t].name /\ r.password = task[t].password /\ r.profile = task[t].profile
        /\ r.token = task[t].token
    BY <1>1 DEF Task
  <1>3. task' = [task EXCEPT ![t] = r]
    BY DEF Go
  <1> HIDE DEF r
  <1>4. task'[t] = r /\ Others(t) /\ task' \in [Tasks -> Task \cup {None}]
    BY <1>2, <1>3 DEF TasksOK, Others
  <1> QED BY <1>1, <1>2, <1>4, NoneIsNone DEF Onward

LEMMA AnswerFacts ==
    ASSUME TasksOK, NEW t \in Tasks, task[t] \in Task, NEW failed \in BOOLEAN, Answer(t, failed)
    PROVE  /\ task'[t] # None /\ task'[t].step = None /\ task'[t].failed = failed
           /\ task'[t].kind = task[t].kind /\ task'[t].email = task[t].email
           /\ Others(t) /\ task' \in [Tasks -> Task \cup {None}]
  <1> DEFINE r == [Fresh(task[t].kind, task[t].email, None) EXCEPT !.failed = failed]
  <1>1. r \in Task /\ r.step = None /\ r.failed = failed /\ r.kind = task[t].kind /\ r.email = task[t].email
    BY DEF Fresh, Task, Profile, NoProfile
  <1>2. task' = [task EXCEPT ![t] = r]
    BY DEF Answer
  <1> HIDE DEF r
  <1>3. task'[t] = r /\ Others(t) /\ task' \in [Tasks -> Task \cup {None}]
    BY <1>1, <1>2 DEF TasksOK, Others
  <1> QED BY <1>1, <1>3, NoneIsNone

LEMMA BeginFacts ==
    ASSUME TasksOK, CallsOK, NEW t \in Tasks, NEW new \in Task, Begin(t, new)
    PROVE  /\ ~Running(t) /\ task'[t] = new /\ Others(t)
           /\ task' \in [Tasks -> Task \cup {None}]
           /\ CallsOK' /\ faults' = faults /\ UNCHANGED stores
  <1>1. new.kind \in Kinds /\ calls[new.kind] > 0 /\ calls[new.kind] \in Nat
    BY DEF Begin, Task, CallsOK
  <1>2. CallsOK'
    BY <1>1 DEF Begin, CallsOK
  <1> QED BY <1>2 DEF Begin, TasksOK, Others

\* Every request but t is sound still when no account is gone.
LEMMA TasksStay ==
    ASSUME TasksOK, NEW t \in Tasks, Others(t), task' \in [Tasks -> Task \cup {None}],
           \A e \in Emails : users[e] # None => users'[e] # None,
           task'[t] # None => Sound(task'[t], users')
    PROVE  TasksOK'
  <1>1. ASSUME NEW u \in Tasks, task'[u] # None PROVE Sound(task'[u], users')
    <2>1. CASE u = t
      BY <1>1, <2>1
    <2>2. CASE u # t
      <3>1. task'[u] = task[u] /\ task[u] # None /\ Sound(task[u], users) /\ task[u] \in Task
        BY <1>1, <2>2 DEF Others, TasksOK
      <3>2. task[u].email \in Emails
        BY <3>1 DEF Task
      <3> QED BY <3>1, <3>2 DEF Sound
    <2> QED BY <2>1, <2>2
  <1> QED BY <1>1 DEF TasksOK

-------------------------------------------------------------------------------
(* The steps of the server. *)

\* A request that ends without a write.
LEMMA EndFacts ==
    ASSUME TypeInv, NEW t \in Tasks, task[t] \in Task, NEW failed \in BOOLEAN, Answer(t, failed), UNCHANGED stores,
           \/ Running(t) /\ faults' > 0 /\ failed
           \/ At(t, "insertUser") /\ failed
           \/ At(t, "compare") /\ failed = (task[t].row.password # task[t].password)
           \/ At(t, "findUpdated")
    PROVE  TasksOK' /\ DataOK' /\ Rested
  <1>1. /\ task'[t] # None /\ task'[t].step = None /\ task'[t].failed = failed
        /\ task'[t].kind = task[t].kind /\ task'[t].email = task[t].email
        /\ Others(t) /\ task' \in [Tasks -> Task \cup {None}]
    BY AnswerFacts DEF TypeInv
  <1>2. TasksOK'
    BY <1>1, TasksStay DEF TypeInv, Sound, stores
  <1>3. DataOK'
    BY DEF TypeInv, DataOK, stores
  <1>4. Running(t)
    BY AtTask DEF TypeInv, Steps
  <1>5. Finished(t)
    BY <1>1, <1>4 DEF Finished
  <1> QED BY <1>1, <1>2, <1>3, <1>5 DEF Rested, stores, Others

LEMMA InsertUserFacts ==
    ASSUME TypeInv, NEW t \in Tasks, InsertUser(t) PROVE TasksOK' /\ DataOK' /\ (Inserted(t) \/ Rested)
  <1> DEFINE e == Email(t)
             row == [name |-> task[t].name, password |-> task[t].password, verified |-> FALSE,
                     profile |-> NoProfile]
  <1>1. At(t, "insertUser") /\ UNCHANGED <<tokens, given, expired, mails, uses>>
    BY DEF InsertUser, Served
  <1>2. task[t] \in Task /\ Sound(task[t], users) /\ "insertUser" \in StepsOf(task[t].kind)
        /\ task[t].step = "insertUser"
    BY <1>1, AtTask DEF TypeInv, Steps
  <1>3. e \in Emails /\ task[t].kind \in SignUps
    BY <1>2 DEF Task, Email, StepsOf, Kinds, Links, SignUps
  <1>4. row \in User /\ ~row.verified
    <2>1. "insertUser" # None
      BY NoneIsNone DEF Steps
    <2>2. task[t].name \in Names /\ task[t].password \in Passwords
      BY <1>2, <2>1 DEF Sound
    <2>3. NoProfile \in Profile
      BY DEF Profile, NoProfile
    <2> QED BY <2>2, <2>3 DEF User
  <1> HIDE DEF row
  <1>5. CASE Taken(e, row.name)
    <2>1. Answer(t, TRUE) /\ UNCHANGED users
      BY <1>5 DEF InsertUser, row
    <2> QED BY <1>1, <1>2, <2>1, EndFacts DEF stores
  <1>6. CASE ~Taken(e, row.name)
    <2>1. users' = [users EXCEPT ![e] = row] /\ Go(t, "saveToken")
      BY <1>6 DEF InsertUser, row
    <2>2. ~Exists(e)
      BY <1>6 DEF Taken
    <2>3. users'[e] = row /\ \A f \in Emails \ {e} : users'[f] = users[f]
      BY <1>3, <2>1 DEF TypeInv, DataOK
    <2>4. DataOK'
      BY <1>1, <1>4, <2>1 DEF TypeInv, DataOK
    <2>5. Onward(t, "insertUser", "saveToken") /\ task' \in [Tasks -> Task \cup {None}]
      BY <1>1, <2>1, GoFacts DEF TypeInv, Steps
    <2>6. Inserted(t)
      BY <1>1, <1>3, <1>4, <2>2, <2>3, <2>5 DEF Inserted
    <2>7. Sound(task'[t], users')
      BY <1>3, <1>4, <2>3, <2>5, NoneIsNone DEF Sound, Onward, StepsOf, Email, Links, SignUps
    <2>8. \A f \in Emails : users[f] # None => users'[f] # None
      BY <1>4, <2>3, NoneIsNone
    <2> QED BY <2>4, <2>5, <2>6, <2>7, <2>8, TasksStay DEF TypeInv, Onward
  <1> QED BY <1>5, <1>6

LEMMA DeleteTokensFacts ==
    ASSUME TypeInv, NEW t \in Tasks, DeleteTokens(t) PROVE TasksOK' /\ DataOK' /\ Deleted(t)
  <1>1. At(t, "deleteTokens") /\ Go(t, "saveToken") /\ UNCHANGED <<users, given, expired, mails, uses>>
        /\ tokens' = tokens \ TokensOf(Email(t), LinkOf(t))
    BY DEF DeleteTokens, Served
  <1>2. task[t] \in Task /\ Sound(task[t], users) /\ "deleteTokens" \in StepsOf(task[t].kind)
        /\ task[t].step = "deleteTokens"
    BY <1>1, AtTask DEF TypeInv, Steps
  <1>3. Onward(t, "deleteTokens", "saveToken") /\ task' \in [Tasks -> Task \cup {None}]
    BY <1>1, GoFacts DEF TypeInv, Steps
  <1>4. task[t].kind \in {"resend", "forgot"}
    BY <1>2 DEF StepsOf, SignUps, Links
  <1>5. "deleteTokens" # None
    BY NoneIsNone DEF Steps
  <1>6. Sound(task'[t], users')
    BY <1>1, <1>2, <1>3, <1>4, <1>5 DEF Sound, Onward, StepsOf, SignUps, Links
  <1>7. TasksOK'
    BY <1>1, <1>3, <1>6, TasksStay DEF TypeInv, Onward
  <1>8. DataOK'
    BY <1>1 DEF TypeInv, DataOK
  <1> QED BY <1>1, <1>3, <1>4, <1>7, <1>8 DEF Deleted

LEMMA SaveTokenFacts ==
    ASSUME TypeInv, NEW t \in Tasks, SaveToken(t) PROVE TasksOK' /\ DataOK' /\ Saved(t)
  <1> DEFINE r == [task[t] EXCEPT !.step = "mail", !.token = given']
  <1>1. At(t, "saveToken") /\ given < MaxTokens /\ given' = given + 1 /\ UNCHANGED <<users, expired, mails, uses>>
        /\ tokens' = tokens \cup {NewLink(t)}
    BY DEF SaveToken, Served, NewLink
  <1>2. task[t] \in Task /\ Sound(task[t], users) /\ "saveToken" \in StepsOf(task[t].kind)
        /\ task[t].step = "saveToken"
        /\ Running(t)
    BY <1>1, AtTask DEF TypeInv, Steps
  <1>3. given' \in Ids /\ given' \in 0 .. MaxTokens
    BY <1>1, AccountsAssumption DEF TypeInv, DataOK, Ids
  <1>4. r \in Task /\ r.step = "mail" /\ r.kind = task[t].kind /\ r.email = task[t].email /\ r.row = task[t].row
        /\ r.name = task[t].name /\ r.password = task[t].password /\ r.profile = task[t].profile
        /\ r.token = given'
    BY <1>2, <1>3 DEF Task, Steps
  <1>5. task' = [task EXCEPT ![t] = r]
    BY DEF SaveToken
  <1> HIDE DEF r
  <1>6. task'[t] = r /\ Others(t) /\ task' \in [Tasks -> Task \cup {None}]
    BY <1>4, <1>5 DEF TypeInv, TasksOK, Others
  <1>7. Onward(t, "saveToken", "mail")
    BY <1>1, <1>2, <1>4, <1>6, NoneIsNone DEF Onward
  <1>8. task[t].kind \in Mailers
    BY <1>2 DEF StepsOf, Mailers, SignUps, Links
  <1>9. "saveToken" # None
    BY NoneIsNone DEF Steps
  <1>10. Sound(r, users')
    BY <1>1, <1>2, <1>3, <1>4, <1>8, <1>9 DEF Sound, StepsOf, Mailers, SignUps, Links
  <1>11. TasksOK'
    BY <1>1, <1>6, <1>10, TasksStay DEF TypeInv
  <1>12. DataOK'
    <2>1. NewLink(t) \in Token
      BY <1>2, <1>3 DEF NewLink, Token, LinkOf, Links, Email, Task
    <2> QED BY <1>1, <1>3, <2>1 DEF TypeInv, DataOK
  <1> QED BY <1>1, <1>3, <1>4, <1>6, <1>7, <1>8, <1>11, <1>12 DEF Saved

LEMMA MailFacts ==
    ASSUME TypeInv, NEW t \in Tasks, Mail(t) PROVE TasksOK' /\ DataOK' /\ Mailed(t)
  <1>1. At(t, "mail") /\ Answer(t, FALSE) /\ UNCHANGED <<users, tokens, given, expired, uses>>
        /\ mails' = mails \cup {MailOf(t)}
    BY DEF Mail, Served, MailOf
  <1>2. task[t] \in Task /\ Sound(task[t], users) /\ "mail" \in StepsOf(task[t].kind) /\ task[t].step = "mail"
        /\ Running(t)
    BY <1>1, AtTask DEF TypeInv, Steps
  <1>3. /\ task'[t] # None /\ task'[t].step = None /\ task'[t].failed = FALSE
        /\ task'[t].kind = task[t].kind /\ task'[t].email = task[t].email
        /\ Others(t) /\ task' \in [Tasks -> Task \cup {None}]
    BY <1>1, <1>2, AnswerFacts DEF TypeInv
  <1>4. task[t].kind \in Mailers
    BY <1>2 DEF StepsOf, Mailers, SignUps, Links
  <1>5. TasksOK'
    BY <1>1, <1>3, TasksStay DEF TypeInv, Sound
  <1>6. MailOf(t) \in Token
    <2>1. "mail" # None
      BY NoneIsNone DEF Steps
    <2> QED BY <1>2, <2>1 DEF MailOf, Token, LinkOf, Links, Email, Task, Sound
  <1>7. DataOK'
    BY <1>1, <1>6 DEF TypeInv, DataOK
  <1> QED BY <1>1, <1>2, <1>3, <1>4, <1>5, <1>7 DEF Mailed

LEMMA SaveUserFacts ==
    ASSUME TypeInv, NEW t \in Tasks, SaveUser(t) PROVE TasksOK' /\ DataOK' /\ Stored(t)
  <1> DEFINE e == Email(t)
             q == task[t]
             written == IF q.kind = "verify" THEN [q.row EXCEPT !.verified = TRUE]
                        ELSE [q.row EXCEPT !.password = q.password]
             row == [written EXCEPT !.profile = [@ EXCEPT !["location"] = users[e].profile["location"]]]
  <1>1. At(t, "saveUser") /\ Go(t, "removeToken") /\ UNCHANGED <<tokens, given, expired, mails>>
        /\ uses' = [uses EXCEPT ![q.token] = @ + 1]
    BY DEF SaveUser, Served
  <1>2. q \in Task /\ Sound(q, users) /\ "saveUser" \in StepsOf(q.kind) /\ q.step = "saveUser" /\ e \in Emails
    BY <1>1, AtTask DEF TypeInv, Steps, Task, Email
  <1>3. q.kind \in Links
    BY <1>2 DEF StepsOf, SignUps, Links
  <1>4. "saveUser" # None
    BY NoneIsNone DEF Steps
  <1>5. q.row \in User /\ q.token \in Ids /\ users[e] \in User /\ (q.kind = "reset" => q.password \in Passwords)
    BY <1>2, <1>3, <1>4 DEF Sound, TypeInv, DataOK, Email
  <1>6. written \in User /\ written.profile = q.row.profile
        /\ written.verified = (q.kind = "verify" \/ q.row.verified)
        /\ written.password = IF q.kind = "verify" THEN q.row.password ELSE q.password
    BY <1>3, <1>5 DEF User, Links
  <1> HIDE DEF written
  <1>7. written.profile \in Profile /\ users[e].profile \in Profile /\ "location" \in Fields
    BY <1>5, <1>6 DEF User, Fields
  <1>8. row \in User /\ row.verified = written.verified /\ row.password = written.password
        /\ row.profile = [written.profile EXCEPT !["location"] = users[e].profile["location"]]
    BY <1>6, <1>7 DEF User, Profile
  <1>9. users' = [users EXCEPT ![e] = row]
    BY DEF SaveUser, written
  <1> HIDE DEF row
  <1>10. /\ \A f \in {"phone", "about"} : row.profile[f] = q.row.profile[f]
         /\ row.profile["location"] = users[e].profile["location"]
    BY <1>6, <1>7, <1>8 DEF Profile, Fields
  <1>11. users'[e] = row /\ (\A f \in Emails \ {e} : users'[f] = users[f])
         /\ users' \in [Emails -> User \cup {None}]
    BY <1>2, <1>8, <1>9 DEF TypeInv, DataOK
  <1>12. (\A i \in Ids : uses'[i] = IF i = q.token THEN uses[i] + 1 ELSE uses[i]) /\ uses' \in [Ids -> Nat]
    BY <1>1, <1>5 DEF TypeInv, DataOK
  <1>13. Onward(t, "saveUser", "removeToken") /\ task'[t].token = q.token /\ task' \in [Tasks -> Task \cup {None}]
    BY <1>1, GoFacts DEF TypeInv, Steps
  <1>14. Sound(task'[t], users')
    BY <1>2, <1>3, <1>4, <1>5, <1>8, <1>11, <1>13, NoneIsNone DEF Sound, Onward, StepsOf, SignUps, Links, Email
  <1>15. \A f \in Emails : users[f] # None => users'[f] # None
    BY <1>8, <1>11, NoneIsNone
  <1>16. TasksOK'
    BY <1>13, <1>14, <1>15, TasksStay DEF TypeInv, Onward
  <1>17. DataOK'
    BY <1>1, <1>11, <1>12 DEF TypeInv, DataOK
  <1>18. Stored(t)
    BY <1>1, <1>3, <1>6, <1>8, <1>10, <1>11, <1>12, <1>13 DEF Stored
  <1> QED BY <1>16, <1>17, <1>18

LEMMA RemoveTokenFacts ==
    ASSUME TypeInv, NEW t \in Tasks, RemoveToken(t) PROVE TasksOK' /\ DataOK' /\ Removed(t)
  <1>1. At(t, "removeToken") /\ Answer(t, FALSE) /\ UNCHANGED <<users, given, expired, mails, uses>>
        /\ tokens' = {k \in tokens : k.id # task[t].token}
    BY DEF RemoveToken, Served
  <1>2. task[t] \in Task /\ "removeToken" \in StepsOf(task[t].kind) /\ Running(t)
    BY <1>1, AtTask DEF TypeInv, Steps
  <1>3. /\ task'[t] # None /\ task'[t].step = None /\ task'[t].kind = task[t].kind
        /\ task'[t].email = task[t].email /\ ~task'[t].failed /\ Others(t) /\ task' \in [Tasks -> Task \cup {None}]
    BY <1>1, <1>2, AnswerFacts DEF TypeInv
  <1>4. task[t].kind \in Links
    BY <1>2 DEF StepsOf, SignUps, Links
  <1>5. TasksOK'
    BY <1>1, <1>3, TasksStay DEF TypeInv, Sound
  <1>6. DataOK'
    BY <1>1 DEF TypeInv, DataOK
  <1> QED BY <1>1, <1>2, <1>3, <1>4, <1>5, <1>6 DEF Removed

LEMMA CompareFacts ==
    ASSUME TypeInv, NEW t \in Tasks, Compare(t) PROVE TasksOK' /\ DataOK' /\ Rested
  <1>1. At(t, "compare") /\ UNCHANGED stores /\ Answer(t, task[t].row.password # task[t].password)
    BY DEF Compare, Served
  <1>2. task[t] \in Task /\ "compare" \in StepsOf(task[t].kind) /\ task[t].step = "compare"
    BY <1>1, AtTask DEF TypeInv, Steps
  <1> QED BY <1>1, <1>2, EndFacts

LEMMA FindUpdatedFacts ==
    ASSUME TypeInv, NEW t \in Tasks, FindUpdated(t) PROVE TasksOK' /\ DataOK' /\ Rested
  <1>1. At(t, "findUpdated") /\ UNCHANGED stores /\ Answer(t, FALSE)
    BY DEF FindUpdated, Served
  <1>2. task[t] \in Task /\ "findUpdated" \in StepsOf(task[t].kind) /\ task[t].step = "findUpdated"
    BY <1>1, AtTask DEF TypeInv, Steps
  <1> QED BY <1>1, <1>2, EndFacts

\* What an update writes, from the profile that it makes of the stored one.
LEMMA ProfileFacts ==
    ASSUME TypeInv, NEW t \in Tasks, task[t] \in Task, users[Email(t)] \in User, NEW profile \in Profile,
           users' = [users EXCEPT ![Email(t)] = [@ EXCEPT !.profile = profile]],
           NEW from \in Steps, NEW to \in Steps, At(t, from), Go(t, to), task[t].kind = "update",
           to \in StepsOf("update"), UNCHANGED <<tokens, given, expired, mails, uses>>
    PROVE  /\ TasksOK' /\ DataOK' /\ Onward(t, from, to)
           /\ LET e == Email(t)
              IN  /\ users'[e] \in User /\ users'[e].profile = profile
                  /\ users'[e].verified = users[e].verified /\ users'[e].password = users[e].password
                  /\ \A f \in Emails \ {e} : users'[f] = users[f]
  <1> DEFINE e == Email(t)
             row == [users[e] EXCEPT !.profile = profile]
  <1>1. e \in Emails
    BY DEF Email, Task
  <1>2. row \in User /\ row.profile = profile /\ row.verified = users[e].verified
        /\ row.password = users[e].password
    BY DEF User
  <1>3. users' = [users EXCEPT ![e] = row]
    OBVIOUS
  <1> HIDE DEF row
  <1>4. users'[e] = row /\ (\A f \in Emails \ {e} : users'[f] = users[f])
        /\ users' \in [Emails -> User \cup {None}]
    BY <1>1, <1>2, <1>3 DEF TypeInv, DataOK
  <1>5. Onward(t, from, to) /\ task' \in [Tasks -> Task \cup {None}]
    BY GoFacts DEF TypeInv
  <1>6. to # "insertUser" /\ to # "mail" /\ "update" \notin Links
    BY DEF StepsOf, SignUps, Links
  <1>7. Sound(task'[t], users')
    BY <1>2, <1>4, <1>5, <1>6, NoneIsNone DEF Sound, Onward, Email
  <1>8. \A f \in Emails : users[f] # None => users'[f] # None
    BY <1>2, <1>4, NoneIsNone
  <1>9. TasksOK'
    BY <1>5, <1>7, <1>8, TasksStay DEF TypeInv, Onward
  <1>10. DataOK'
    BY <1>4 DEF TypeInv, DataOK
  <1> QED BY <1>2, <1>4, <1>5, <1>9, <1>10

LEMMA AtUpdate ==
    ASSUME TypeInv, NEW t \in Tasks, NEW step \in {"saveLocation", "updateUser"}, At(t, step)
    PROVE  /\ task[t] \in Task /\ task[t].kind = "update" /\ users[Email(t)] \in User
           /\ users[Email(t)].profile \in Profile /\ task[t].profile \in Profile
  <1>1. task[t] \in Task /\ Sound(task[t], users) /\ task[t].step = step /\ step \in StepsOf(task[t].kind)
    BY AtTask DEF TypeInv, Steps
  <1>2. task[t].kind = "update"
    BY <1>1 DEF StepsOf, SignUps, Links
  <1>3. step # None
    BY NoneIsNone DEF Steps
  <1>4. users[Email(t)] \in User
    BY <1>1, <1>3 DEF Sound, TypeInv, DataOK, Email, Task
  <1> QED BY <1>1, <1>2, <1>4 DEF Task, User

LEMMA SaveLocationFacts ==
    ASSUME TypeInv, NEW t \in Tasks, SaveLocation(t) PROVE TasksOK' /\ DataOK' /\ Filled(t)
  <1> DEFINE e == Email(t)
             profile == [users[e].profile EXCEPT !["location"] = task[t].profile["location"]]
  <1>1. At(t, "saveLocation") /\ Go(t, "updateUser") /\ UNCHANGED <<tokens, given, expired, mails, uses>>
        /\ users' = [users EXCEPT ![e] = [@ EXCEPT !.profile = profile]]
    BY DEF SaveLocation, Served
  <1>2. task[t] \in Task /\ task[t].kind = "update" /\ users[e] \in User
        /\ users[e].profile \in Profile /\ task[t].profile \in Profile
    BY <1>1, AtUpdate
  <1>3. profile \in Profile /\ profile["location"] = task[t].profile["location"]
        /\ \A f \in {"phone", "about"} : profile[f] = users[e].profile[f]
    BY <1>2 DEF Profile, Fields
  <1> HIDE DEF profile
  <1>4. "saveLocation" \in Steps /\ "updateUser" \in Steps /\ "updateUser" \in StepsOf("update")
    BY DEF Steps, StepsOf, SignUps, Links
  <1>5. /\ TasksOK' /\ DataOK' /\ Onward(t, "saveLocation", "updateUser")
        /\ users'[e] \in User /\ users'[e].profile = profile
        /\ users'[e].verified = users[e].verified /\ users'[e].password = users[e].password
        /\ \A f \in Emails \ {e} : users'[f] = users[f]
    BY <1>1, <1>2, <1>3, <1>4, ProfileFacts
  <1> QED BY <1>1, <1>2, <1>3, <1>5 DEF Filled

LEMMA UpdateUserFacts ==
    ASSUME TypeInv, NEW t \in Tasks, UpdateUser(t) PROVE TasksOK' /\ DataOK' /\ Filled(t)
  <1> DEFINE e == Email(t)
             profile == [f \in Fields |-> Merged(users[e].profile, task[t].profile, f)]
  <1>1. At(t, "updateUser") /\ Go(t, "findUpdated") /\ UNCHANGED <<tokens, given, expired, mails, uses>>
        /\ users' = [users EXCEPT ![e] = [@ EXCEPT !.profile = profile]]
    BY DEF UpdateUser, Served
  <1>2. task[t] \in Task /\ task[t].kind = "update" /\ users[e] \in User
        /\ users[e].profile \in Profile /\ task[t].profile \in Profile
    BY <1>1, AtUpdate
  <1>3. profile \in Profile /\ profile["location"] = users[e].profile["location"]
        /\ \A f \in {"phone", "about"} :
              profile[f] = IF task[t].profile[f] # None THEN task[t].profile[f] ELSE users[e].profile[f]
    BY <1>2 DEF Profile, Fields, Merged
  <1> HIDE DEF profile
  <1>4. "updateUser" \in Steps /\ "findUpdated" \in Steps /\ "findUpdated" \in StepsOf("update")
    BY DEF Steps, StepsOf, SignUps, Links
  <1>5. /\ TasksOK' /\ DataOK' /\ Onward(t, "updateUser", "findUpdated")
        /\ users'[e] \in User /\ users'[e].profile = profile
        /\ users'[e].verified = users[e].verified /\ users'[e].password = users[e].password
        /\ \A f \in Emails \ {e} : users'[f] = users[f]
    BY <1>1, <1>2, <1>3, <1>4, ProfileFacts
  <1> QED BY <1>1, <1>2, <1>3, <1>5 DEF Filled

\* A fault is counted.
LEMMA FaultFacts ==
    ASSUME CallsOK, Fault PROVE CallsOK' /\ faults' > 0 /\ faults' >= faults
  BY DEF Fault, CallsOK

LEMMA RejectFacts ==
    ASSUME TypeInv, NEW t \in Tasks, Reject(t)
    PROVE  TasksOK' /\ DataOK' /\ Rested /\ CallsOK' /\ faults' >= faults
  <1>1. CallsOK' /\ faults' > 0 /\ faults' >= faults
    BY FaultFacts DEF Reject, TypeInv
  <1>2. task[t] \in Task /\ Running(t)
    BY DEF Reject, Running, TypeInv, TasksOK
  <1>3. Answer(t, TRUE) /\ UNCHANGED stores
    BY DEF Reject
  <1> QED BY <1>1, <1>2, <1>3, EndFacts

LEMMA CrashFacts ==
    ASSUME TypeInv, Crash
    PROVE  TasksOK' /\ DataOK' /\ Rested /\ CallsOK' /\ faults' >= faults
  <1>1. CallsOK' /\ faults' > 0 /\ faults' >= faults
    BY FaultFacts DEF Crash, TypeInv
  <1>2. task' = [t \in Tasks |-> None] /\ UNCHANGED stores
    BY DEF Crash
  <1>3. TasksOK' /\ DataOK'
    BY <1>2 DEF TasksOK, TypeInv, DataOK, stores
  <1> QED BY <1>1, <1>2, <1>3 DEF Rested, Stopped, stores

LEMMA DayFacts ==
    ASSUME TypeInv, Day
    PROVE  TasksOK' /\ DataOK' /\ Rested /\ CallsOK' /\ faults' >= faults
  <1>1. CallsOK' /\ faults' >= faults
    BY DEF Day, TypeInv, CallsOK
  <1>2. UNCHANGED <<users, tokens, given, mails, uses, task>> /\ expired' = 1 .. given
    BY DEF Day
  <1>3. 1 .. given \subseteq Ids
    BY AccountsAssumption DEF TypeInv, DataOK, Ids
  <1>4. TasksOK' /\ DataOK'
    BY <1>2, <1>3 DEF TasksOK, TypeInv, DataOK
  <1> QED BY <1>1, <1>2, <1>4 DEF Rested

\* What a step of the server does.
Stepped(t) == Inserted(t) \/ Deleted(t) \/ Saved(t) \/ Mailed(t) \/ Stored(t) \/ Removed(t) \/ Filled(t) \/ Rested
LEMMA StepFacts ==
    ASSUME TypeInv, NEW t \in Tasks, Step(t) PROVE Kept /\ Stepped(t)
  <1>1. CASE Reject(t)
    BY <1>1, RejectFacts DEF Kept, Stepped
  <1>2. CASE ~Reject(t)
    <2>1. UNCHANGED <<calls, faults>>
      BY <1>2 DEF Step, InsertUser, DeleteTokens, SaveToken, Mail, SaveUser, RemoveToken, Compare, SaveLocation,
                  UpdateUser, FindUpdated, Served
    <2>2. CallsOK' /\ faults' >= faults
      BY <2>1 DEF TypeInv, CallsOK
    <2>3. TasksOK' /\ DataOK' /\ Stepped(t)
      BY <1>2, InsertUserFacts, DeleteTokensFacts, SaveTokenFacts, MailFacts, SaveUserFacts, RemoveTokenFacts,
         CompareFacts, FindUpdatedFacts, SaveLocationFacts, UpdateUserFacts DEF Step, Stepped
    <2> QED BY <2>2, <2>3 DEF Kept
  <1> QED BY <1>1, <1>2

-------------------------------------------------------------------------------
(* Requests that arrive. *)

LEMMA RefuseFacts ==
    ASSUME TypeInv, NEW t \in Tasks, tab[t].wait = None, NEW kind \in Kinds, NEW e \in Emails, Refuse(t, kind, e)
    PROVE  Kept /\ Rested /\ task'[t].kind = kind /\ task'[t].email = e /\ task'[t].failed
           /\ task'[t] # None /\ task'[t].step = None
  <1> DEFINE r == [Fresh(kind, e, None) EXCEPT !.failed = TRUE]
  <1>1. r \in Task /\ r.step = None /\ r.failed /\ r.kind = kind /\ r.email = e
    BY DEF Fresh, Task, Profile, NoProfile
  <1>2. Begin(t, r)
    BY DEF Refuse
  <1> HIDE DEF r
  <1>3. /\ ~Running(t) /\ task'[t] = r /\ Others(t)
        /\ task' \in [Tasks -> Task \cup {None}]
        /\ CallsOK' /\ faults' = faults /\ UNCHANGED stores
    BY <1>1, <1>2, BeginFacts DEF TypeInv
  <1>4. TasksOK'
    BY <1>1, <1>3, TasksStay DEF TypeInv, Sound, stores
  <1>5. DataOK'
    BY <1>3 DEF TypeInv, DataOK, stores
  <1>6. Rested
    <2>1. tab[t].wait = None /\ Turned(t)
      BY <1>1, <1>3, NoneIsNone DEF Turned
    <2> QED BY <1>3, <2>1 DEF Rested, Others, stores
  <1> QED BY <1>1, <1>3, <1>4, <1>5, <1>6, NoneIsNone DEF Kept, TypeInv, CallsOK

First(r) ==
    \/ r.kind \in SignUps /\ r.step = "insertUser"
    \/ r.kind \in {"resend", "forgot"} /\ r.step = "deleteTokens"
    \/ /\ r.kind \in Links /\ r.step = "saveUser" /\ r.row = users[r.email]
       /\ \E k \in tokens : k.id = r.token /\ k.kind = r.kind /\ k.email = r.email
       /\ \E k \in mails : k.id = r.token /\ k.kind = r.kind
    \/ r.kind = "login" /\ r.step = "compare" /\ r.row = users[r.email]
    \/ r.kind = "update" /\ r.step = "saveLocation" /\ r.profile["location"] # None
    \/ r.kind = "update" /\ r.step = "updateUser" /\ r.profile["location"] = None

LEMMA ArriveFacts ==
    ASSUME TypeInv, NEW t \in Tasks, tab[t].wait = None, NEW r \in Task, Begin(t, r), Sound(r, users), First(r),
           r.kind = "resend" => \E u \in Tasks : tab[u].page = "verify" /\ tab[u].email = r.email
    PROVE  Kept /\ Arrived(t) /\ task'[t] = r
  <1>1. /\ ~Running(t) /\ task'[t] = r /\ Others(t)
        /\ task' \in [Tasks -> Task \cup {None}]
        /\ CallsOK' /\ faults' = faults /\ UNCHANGED stores
    BY BeginFacts DEF TypeInv
  <1>2. TasksOK'
    BY <1>1, TasksStay DEF TypeInv, stores, Sound
  <1>3. DataOK'
    BY <1>1 DEF TypeInv, DataOK, stores
  <1>4. Arrived(t)
    BY <1>1, NoneIsNone DEF Arrived, First
  <1> QED BY <1>1, <1>2, <1>3, <1>4 DEF Kept, TypeInv, CallsOK

LEMMA SignUpFacts ==
    ASSUME TypeInv, NEW t \in Tasks, tab[t].wait = None, NEW kind \in SignUps, NEW e \in Emails,
           NEW name \in Names,
           NEW password \in Passwords, SignUp(t, kind, e, name, password)
    PROVE  /\ Kept /\ (Arrived(t) \/ Rested) /\ task'[t].kind = kind /\ task'[t].email = e
           /\ task'[t] # None /\ (task'[t].step # None \/ task'[t].failed)
  <1> DEFINE r == [Fresh(kind, e, "insertUser") EXCEPT !.name = name, !.password = password]
  <1>0. kind \in Kinds
    BY DEF Kinds, SignUps
  <1>1. CASE Exists(e)
    BY <1>0, <1>1, RefuseFacts DEF SignUp
  <1>2. CASE ~Exists(e)
    <2>1. r \in Task /\ r.step = "insertUser" /\ r.kind = kind /\ r.email = e /\ r.name = name
          /\ r.password = password
      BY <1>0 DEF Fresh, Task, Profile, NoProfile, Steps
    <2>2. Begin(t, r)
      BY <1>2 DEF SignUp
    <2> HIDE DEF r
    <2>3. Sound(r, users) /\ First(r) /\ r.kind # "resend"
      BY <2>1 DEF Sound, First, StepsOf, SignUps, Links
    <2>4. r.step # None /\ r # None
      BY <2>1, NoneIsNone DEF Steps
    <2> QED BY <2>1, <2>2, <2>3, <2>4, ArriveFacts
  <1> QED BY <1>1, <1>2

LEMMA CreateAdminFacts ==
    ASSUME TypeInv, NEW t \in Tasks, tab[t].wait = None, NEW e \in Emails, NEW name \in Names,
           NEW password \in Passwords,
           NEW secret \in BOOLEAN, CreateAdmin(t, e, name, password, secret)
    PROVE  Kept /\ (Arrived(t) \/ Rested) /\ task'[t].kind = "createAdmin"
  BY SignUpFacts, RefuseFacts DEF CreateAdmin, SignUps, Kinds

\* A request that makes a new link.
LEMMA LinkRequestFacts ==
    ASSUME TypeInv, NEW t \in Tasks, tab[t].wait = None, NEW kind \in {"resend", "forgot"}, NEW e \in Emails,
           Exists(e),
           Begin(t, Fresh(kind, e, "deleteTokens")),
           kind = "resend" => \E u \in Tasks : tab[u].page = "verify" /\ tab[u].email = e
    PROVE  Kept /\ Arrived(t) /\ task'[t].kind = kind
  <1> DEFINE r == Fresh(kind, e, "deleteTokens")
  <1>1. r \in Task /\ r.step = "deleteTokens" /\ r.kind = kind /\ r.email = e
    BY DEF Fresh, Task, Profile, NoProfile, Steps, Kinds
  <1>2. Begin(t, r)
    OBVIOUS
  <1> HIDE DEF r
  <1>3. Sound(r, users) /\ First(r)
    BY <1>1 DEF Sound, First, StepsOf, SignUps, Links, Exists
  <1> QED BY <1>1, <1>2, <1>3, ArriveFacts

LEMMA ResendFacts ==
    ASSUME TypeInv, NEW t \in Tasks, tab[t].wait = None, NEW e \in Emails, ResendVerificationEmail(t, e),
           \E u \in Tasks : tab[u].page = "verify" /\ tab[u].email = e
    PROVE  Kept /\ (Arrived(t) \/ Rested) /\ task'[t].kind = "resend"
  BY LinkRequestFacts, RefuseFacts DEF ResendVerificationEmail, Kinds

LEMMA ForgotFacts ==
    ASSUME TypeInv, NEW t \in Tasks, tab[t].wait = None, NEW e \in Emails, ForgotPassword(t, e)
    PROVE  Kept /\ (Arrived(t) \/ Rested) /\ task'[t].kind = "forgot"
  BY LinkRequestFacts, RefuseFacts DEF ForgotPassword, Kinds

\* A request that follows a link before it read the link.
Asked(kind, password) ==
    [kind : {kind}, email : {None}, step : {"saveUser"}, failed : BOOLEAN, row : {None}, token : {None},
     name : {None}, password : {password}, profile : Profile]
\* A link that was mailed is followed: the request that comes has read its account.
LEMMA FollowFacts ==
    ASSUME TypeInv, NEW t \in Tasks, tab[t].wait = None, NEW mail \in mails,
           NEW password \in Passwords \cup {None},
           mail.kind = "reset" => password \in Passwords,
           NEW new \in Asked(mail.kind, password), Follow(t, mail.kind, mail.id, new)
    PROVE  Kept /\ (Arrived(t) \/ Rested) /\ task'[t].kind = mail.kind
  <1> DEFINE r(k) == [new EXCEPT !.email = k.email, !.row = users[k.email], !.token = mail.id]
  <1>1. mail \in Token /\ mail.kind \in Links /\ mail.kind \in Kinds
    BY DEF TypeInv, DataOK, Token, Links, Kinds
  <1>2. ASSUME NEW k \in Found(mail.id, mail.kind), Begin(t, r(k))
        PROVE  Kept /\ Arrived(t) /\ task'[t].kind = mail.kind
    <2>1. k \in tokens /\ k \in Token /\ k.id = mail.id /\ k.kind = mail.kind
      BY DEF Found, TypeInv, DataOK
    <2>2. k.email \in Emails /\ k.id \in Ids /\ users[k.email] \in User /\ users[k.email] # None
      BY <2>1 DEF Token, TypeInv, DataOK, OwnersOK, Exists
    <2> DEFINE q == r(k)
    <2>3. q \in Task /\ q.kind = mail.kind /\ q.step = "saveUser" /\ q.email = k.email /\ q.row = users[k.email]
          /\ q.token = mail.id /\ q.password = password
      BY <1>1, <2>1, <2>2 DEF Asked, Task, Steps
    <2>4. Begin(t, q)
      BY <1>2
    <2> HIDE DEF q
    <2>5. Sound(q, users)
      BY <1>1, <2>1, <2>2, <2>3 DEF Sound, StepsOf, SignUps, Links
    <2>6. First(q) /\ q.kind # "resend"
      BY <1>1, <2>1, <2>3 DEF First, Links
    <2> QED BY <2>3, <2>4, <2>5, <2>6, ArriveFacts
  <1>3. ASSUME NEW k \in mails, Refuse(t, mail.kind, k.email)
        PROVE  Kept /\ Rested /\ task'[t].kind = mail.kind
    <2>1. k.email \in Emails
      BY DEF TypeInv, DataOK, Token
    <2> QED BY <1>1, <1>3, <2>1, RefuseFacts
  <1> QED BY <1>2, <1>3 DEF Follow

LEMMA LoginFacts ==
    ASSUME TypeInv, NEW t \in Tasks, tab[t].wait = None, NEW e \in Emails, NEW password \in Passwords,
           Login(t, e, password)
    PROVE  Kept /\ (Arrived(t) \/ Rested) /\ task'[t].kind = "login"
  <1> DEFINE r == [Fresh("login", e, "compare") EXCEPT !.row = users[e], !.password = password]
  <1>1. CASE Exists(e) /\ users[e].verified
    <2>1. users[e] \in User
      BY <1>1 DEF Exists, TypeInv, DataOK
    <2>2. r \in Task /\ r.step = "compare" /\ r.kind = "login" /\ r.email = e /\ r.row = users[e]
          /\ r.password = password
      BY <2>1 DEF Fresh, Task, Profile, NoProfile, Steps, Kinds
    <2>3. Begin(t, r)
      BY <1>1 DEF Login
    <2> HIDE DEF r
    <2>4. Sound(r, users) /\ First(r)
      BY <1>1, <2>1, <2>2 DEF Sound, First, StepsOf, SignUps, Links, Exists
    <2> QED BY <2>2, <2>3, <2>4, ArriveFacts
  <1>2. CASE ~(Exists(e) /\ users[e].verified)
    <2>1. Refuse(t, "login", e)
      BY <1>2 DEF Login
    <2> QED BY <2>1, RefuseFacts DEF Kinds
  <1> QED BY <1>1, <1>2

LEMMA UpdateFacts ==
    ASSUME TypeInv, NEW t \in Tasks, tab[t].wait = None, NEW e \in Emails, NEW profile \in Profile,
           Update(t, e, e, profile)
    PROVE  Kept /\ (Arrived(t) \/ Rested) /\ task'[t].kind = "update"
  <1> DEFINE step == IF profile.location # None THEN "saveLocation" ELSE "updateUser"
             r == [Fresh("update", e, step) EXCEPT !.row = users[e], !.profile = profile]
  <1>1. CASE Exists(e)
    <2>1. users[e] \in User
      BY <1>1 DEF Exists, TypeInv, DataOK
    <2>2. r \in Task /\ r.step = step /\ r.kind = "update" /\ r.email = e /\ r.profile = profile
      BY <2>1 DEF Fresh, Task, Profile, NoProfile, Steps, Kinds
    <2>3. Begin(t, r)
      BY <1>1 DEF Update
    <2> HIDE DEF r
    <2>4. Sound(r, users) /\ First(r)
      BY <1>1, <2>1, <2>2 DEF Sound, First, StepsOf, SignUps, Links, Exists
    <2> QED BY <2>2, <2>3, <2>4, ArriveFacts
  <1>2. CASE ~Exists(e)
    <2>1. Refuse(t, "update", e)
      BY <1>2 DEF Update
    <2> QED BY <2>1, RefuseFacts DEF Kinds
  <1> QED BY <1>1, <1>2

-------------------------------------------------------------------------------
(* The pages. *)

\* Only browser t is used, with what a page that was left for the link keeps of it.
Alone(t) == \A u \in Tasks \ {t} : tab'[u] = tab[u]
Browsed(t) ==
    LET b == tab'[t] IN
    /\ Alone(t)
    /\ b.page = "verify" => b.email = None \/ \E u \in Tasks : tab[u].page = "verify" /\ tab[u].email = b.email
    /\ b.me = tab[t].me
    /\ b.wait = "login" => b.email # None /\ (Exists(b.email) \/ (task'[t].step = None /\ task'[t].failed))
    /\ b.wait = "resend" => b.page = "verify"
    /\ b.wait = "register" =>
          /\ task'[t] # None /\ task'[t].kind = "register" /\ task'[t].email = b.email
          /\ task'[t].step # None \/ task'[t].failed
Acted(t) == Kept /\ (Arrived(t) \/ Rested) /\ TabsOK' /\ Browsed(t)

LEMMA ShowFacts ==
    ASSUME TypeInv, NEW t \in Tasks, NEW b \in Tab, tab' = [tab EXCEPT ![t] = b], UNCHANGED forms
    PROVE  tab'[t] = b /\ Alone(t) /\ TabsOK'
  BY DEF TypeInv, TabsOK, Alone

LEMMA SubmitFacts ==
    ASSUME TypeInv, NEW t \in Tasks, NEW page \in Pages, NEW kind \in Kinds \ {"createAdmin"},
           NEW e \in Emails \cup {None}, Submit(t, page, kind, e)
    PROVE  /\ tab[t].wait = None /\ Alone(t) /\ TabsOK'
           /\ tab'[t].page = page /\ tab'[t].email = e /\ tab'[t].wait = kind /\ tab'[t].me = tab[t].me
  <1> DEFINE b == [tab[t] EXCEPT !.page = page, !.email = e, !.wait = kind, !.toast = None]
  <1>1. tab[t] \in Tab
    BY DEF TypeInv, TabsOK
  <1>2. b \in Tab /\ b.page = page /\ b.email = e /\ b.wait = kind /\ b.me = tab[t].me
    BY <1>1 DEF Tab
  <1>3. tab' = [tab EXCEPT ![t] = b] /\ UNCHANGED forms /\ tab[t].wait = None
    BY DEF Submit, Idle
  <1> HIDE DEF b
  <1> QED BY <1>2, <1>3, ShowFacts

LEMMA SubmitRegisterFacts ==
    ASSUME TypeInv, NEW t \in Tasks, NEW e \in Emails, NEW name \in Names, NEW password \in Passwords,
           SubmitRegister(t, e, name, password)
    PROVE  Acted(t)
  <1>1. /\ tab[t].wait = None /\ Alone(t) /\ TabsOK'
        /\ tab'[t].page = "register" /\ tab'[t].email = e /\ tab'[t].wait = "register" /\ tab'[t].me = tab[t].me
    BY SubmitFacts DEF SubmitRegister, Pages, Kinds
  <1>2. /\ Kept /\ (Arrived(t) \/ Rested) /\ task'[t].kind = "register" /\ task'[t].email = e
        /\ task'[t] # None /\ (task'[t].step # None \/ task'[t].failed)
    BY <1>1, SignUpFacts DEF SubmitRegister, Register, SignUps
  <1> QED BY <1>1, <1>2 DEF Acted, Browsed

\* A form that is sent from a page of its own.
LEMMA SendFacts ==
    ASSUME TypeInv, NEW t \in Tasks, NEW page \in Pages \ {"verify"},
           NEW kind \in Kinds \ {"createAdmin", "register", "resend"},
           NEW e \in Emails, Submit(t, page, kind, e), Kept, Arrived(t) \/ Rested,
           kind = "login" => Exists(e) \/ (task'[t].step = None /\ task'[t].failed)
    PROVE  Acted(t)
  BY SubmitFacts, NoneIsNone DEF Acted, Browsed

LEMMA SubmitLoginFacts ==
    ASSUME TypeInv, NEW t \in Tasks, NEW e \in Emails, NEW password \in Passwords, SubmitLogin(t, e, password)
    PROVE  Acted(t)
  <1>1. Submit(t, "login", "login", e) /\ tab[t].wait = None
    BY DEF SubmitLogin, Submit, Idle
  <1>2. Exists(e) \/ (task'[t].step = None /\ task'[t].failed)
    <2>1. CASE ~Exists(e)
      <3>1. Refuse(t, "login", e)
        BY <2>1 DEF SubmitLogin, Login
      <3> QED BY <1>1, <3>1, RefuseFacts DEF Kinds
    <2> QED BY <2>1
  <1>3. Kept /\ (Arrived(t) \/ Rested)
    BY <1>1, LoginFacts DEF SubmitLogin
  <1> QED BY <1>1, <1>2, <1>3, SendFacts DEF Pages, Kinds

LEMMA SubmitForgotFacts ==
    ASSUME TypeInv, NEW t \in Tasks, NEW e \in Emails, SubmitForgot(t, e)
    PROVE  Acted(t)
  <1>1. Submit(t, "forgot", "forgot", e) /\ tab[t].wait = None
    BY DEF SubmitForgot, Submit, Idle
  <1> QED BY <1>1, ForgotFacts, SendFacts DEF SubmitForgot, Pages, Kinds

LEMMA SubmitResetFacts ==
    ASSUME TypeInv, NEW t \in Tasks, NEW link \in mails, NEW password \in Passwords, SubmitReset(t, link, password)
    PROVE  Acted(t)
  <1>1. Submit(t, "reset", "reset", link.email) /\ tab[t].wait = None /\ link.kind = "reset"
    BY DEF SubmitReset, Submit, Idle
  <1>2. link.email \in Emails
    BY DEF TypeInv, DataOK, Token
  <1>3. [Fresh("reset", None, "saveUser") EXCEPT !.password = password] \in Asked("reset", password)
    BY DEF Fresh, Asked, NoProfile, Profile
  <1>4. Kept /\ (Arrived(t) \/ Rested)
    BY <1>1, <1>3, FollowFacts DEF SubmitReset, ResetPassword
  <1> QED BY <1>1, <1>2, <1>4, SendFacts DEF Pages, Kinds

LEMMA HandleResendFacts ==
    ASSUME TypeInv, NEW t \in Tasks, NEW e \in Emails, HandleResend(t, e)
    PROVE  Acted(t)
  <1>1. \E u \in Tasks : tab[u].page = "verify" /\ tab[u].email = e
    BY DEF HandleResend
  <1>2. /\ tab[t].wait = None /\ Alone(t) /\ TabsOK'
        /\ tab'[t].page = "verify" /\ tab'[t].email = e /\ tab'[t].wait = "resend" /\ tab'[t].me = tab[t].me
    BY SubmitFacts DEF HandleResend, Pages, Kinds
  <1>3. Kept /\ (Arrived(t) \/ Rested)
    BY <1>1, <1>2, ResendFacts DEF HandleResend
  <1> QED BY <1>1, <1>2, <1>3 DEF Acted, Browsed

LEMMA OpenLinkFacts ==
    ASSUME TypeInv, NEW t \in Tasks, NEW link \in mails, OpenLink(t, link)
    PROVE  Acted(t)
  <1>1. /\ tab[t].wait = None /\ Alone(t) /\ TabsOK'
        /\ tab'[t].page = "verify" /\ tab'[t].email = None /\ tab'[t].wait = "verify" /\ tab'[t].me = tab[t].me
    BY SubmitFacts DEF OpenLink, Pages, Kinds
  <1>2. Fresh("verify", None, "saveUser") \in Asked("verify", None)
    BY DEF Fresh, Asked, NoProfile, Profile
  <1>3. link.kind = "verify"
    BY DEF OpenLink
  <1>4. Follow(t, link.kind, link.id, Fresh("verify", None, "saveUser"))
    BY <1>3 DEF OpenLink, VerifyEmail
  <1>5. Kept /\ (Arrived(t) \/ Rested)
    BY <1>1, <1>2, <1>3, <1>4, FollowFacts
  <1> QED BY <1>1, <1>5 DEF Acted, Browsed

LEMMA SubmitFormFacts ==
    ASSUME TypeInv, NEW t \in Tasks, NEW field \in Fields, NEW text \in Texts \cup {None},
           SubmitForm(t, field, text)
    PROVE  Acted(t)
  <1> DEFINE form == [tab[t].form EXCEPT ![field] = text]
             b == [tab[t] EXCEPT !.form = form, !.wait = "update", !.toast = None]
  <1>1. tab[t] \in Tab /\ tab[t].page = "form" /\ tab[t].me \in Emails /\ tab[t].wait = None
    BY DEF SubmitForm, TypeInv, TabsOK, Tab, Idle
  <1>2. form \in Profile
    BY <1>1 DEF Tab, Profile
  <1>3. Sent(form) \in Profile
    BY <1>2 DEF Sent, Profile
  <1>4. b \in Tab /\ b.page = "form" /\ b.wait = "update" /\ b.me = tab[t].me
    BY <1>1, <1>2 DEF Tab, Kinds
  <1>5. tab' = [tab EXCEPT ![t] = b] /\ UNCHANGED forms
    BY DEF SubmitForm
  <1>6. Update(t, tab[t].me, tab[t].me, Sent(form))
    BY DEF SubmitForm
  <1> HIDE DEF b, form
  <1>7. tab'[t] = b /\ Alone(t) /\ TabsOK'
    BY <1>4, <1>5, ShowFacts
  <1>8. Kept /\ (Arrived(t) \/ Rested)
    BY <1>1, <1>3, <1>6, UpdateFacts
  <1> QED BY <1>4, <1>7, <1>8 DEF Acted, Browsed

\* Nothing happens but at a page, or a fault there.
LEMMA QuietFacts ==
    ASSUME TypeInv, UNCHANGED <<stores, task>>, UNCHANGED <<calls, faults>> \/ Fault
    PROVE  Kept /\ Rested
  <1>1. CallsOK' /\ faults' >= faults
    BY FaultFacts DEF TypeInv, CallsOK
  <1>2. TasksOK' /\ DataOK'
    BY DEF TypeInv, TasksOK, DataOK, stores
  <1> QED BY <1>1, <1>2 DEF Kept, Rested, stores

LEMMA OpenFormFacts ==
    ASSUME TypeInv, NEW t \in Tasks, OpenForm(t)
    PROVE  Acted(t)
  <1>1. tab[t] \in Tab /\ tab[t].me \in Emails /\ tab[t].wait = None
    BY DEF OpenForm, TypeInv, TabsOK, Tab, Idle
  <1>2. forms' \in 0 .. MaxForms
    BY PagesAssumption DEF OpenForm, TypeInv, TabsOK
  <1>3. PICK filled \in Profile : tab' = [tab EXCEPT ![t] = [@ EXCEPT !.page = "form", !.form = filled]]
    <2>1. NoProfile \in Profile
      BY DEF NoProfile, Profile
    <2>2. users[tab[t].me].profile \in Profile
      <3>1. users[tab[t].me] \in User
        BY <1>1, NoneIsNone DEF TypeInv, SessionsOK, DataOK, Exists
      <3> QED BY <3>1 DEF User
    <2>3. PICK profile \in Profile : \E form \in Fillings(t, profile) :
                tab' = [tab EXCEPT ![t].page = "form", ![t].form = form]
      BY <2>1, <2>2 DEF OpenForm
    <2>4. Fillings(t, profile) \subseteq Profile
      <3>1. tab[t].form \in Profile /\ "location" \in Fields
        BY <1>1 DEF Tab, Fields
      <3> QED BY <3>1 DEF Fillings, Profile
    <2>5. PICK form \in Fillings(t, profile) : tab' = [tab EXCEPT ![t].page = "form", ![t].form = form]
      BY <2>3
    <2>6. tab' = [tab EXCEPT ![t] = [@ EXCEPT !.page = "form", !.form = form]]
      BY <2>5, <1>1 DEF Tab
    <2>7. form \in Profile
      BY <2>4
    <2> QED BY <2>6, <2>7
  <1> DEFINE b == [tab[t] EXCEPT !.page = "form", !.form = filled]
  <1>4. b \in Tab /\ b.page = "form" /\ b.wait = None /\ b.me = tab[t].me
    BY <1>1 DEF Tab, Pages
  <1>5. tab' = [tab EXCEPT ![t] = b]
    BY <1>3
  <1> HIDE DEF b
  <1>6. tab'[t] = b /\ Alone(t) /\ TabsOK'
    BY <1>2, <1>4, <1>5 DEF TypeInv, TabsOK, Alone
  <1>7. Kept /\ Rested
    BY QuietFacts DEF OpenForm
  <1>8. "resend" # None /\ "register" # None /\ "login" # None
    BY NoneIsNone DEF Kinds
  <1> QED BY <1>4, <1>6, <1>7, <1>8 DEF Acted, Browsed

\* A page gets its answer.
Settled(t) ==
    LET b == tab'[t] IN
    /\ UNCHANGED <<stores, task, calls, faults>>
    /\ Alone(t) /\ b.wait = None /\ b.email = tab[t].email
    /\ b.me # tab[t].me => tab[t].wait = "login" /\ b.me = tab[t].email /\ task[t] # None /\ ~task[t].failed
    /\ b.page = "verify" =>
          \/ tab[t].page = "verify"
          \/ tab[t].wait = "resend"
          \/ tab[t].wait = "register" /\ task[t] # None /\ ~Running(t) /\ ~task[t].failed

LEMMA SettleFacts ==
    ASSUME TypeInv, NEW t \in Tasks, NEW page \in Pages, NEW toast \in {"success", "error"},
           NEW me \in Emails \cup {None}, Settle(t, [tab[t] EXCEPT !.page = page, !.toast = toast, !.me = me])
    PROVE  /\ UNCHANGED <<stores, task, calls, faults>> /\ TabsOK' /\ Alone(t)
           /\ tab'[t].wait = None /\ tab'[t].email = tab[t].email /\ tab'[t].me = me /\ tab'[t].page = page
  <1> DEFINE shown == [tab[t] EXCEPT !.page = page, !.toast = toast, !.me = me]
             b == [shown EXCEPT !.wait = None]
  <1>1. tab[t] \in Tab
    BY DEF TypeInv, TabsOK
  <1>2. b \in Tab /\ b.page = page /\ b.email = tab[t].email /\ b.me = me /\ b.wait = None
    BY <1>1 DEF Tab
  <1>3. tab' = [tab EXCEPT ![t] = b] /\ UNCHANGED forms /\ UNCHANGED <<stores, task, calls, faults>>
    BY DEF Settle
  <1> HIDE DEF b
  <1> QED BY <1>2, <1>3, ShowFacts

LEMMA EndsFacts ==
    ASSUME TypeInv, NEW t \in Tasks, NEW kind \in Kinds, NEW page \in Pages, Ends(t, kind, page),
           page = "verify" => kind \in {"register", "resend"}
    PROVE  TabsOK' /\ Settled(t)
  <1>1. tab[t] \in Tab /\ tab[t].wait = kind
    BY DEF TypeInv, TabsOK, Ends, Returned
  <1>2. CASE Refused(t)
    <2> DEFINE new == Toasted(t, tab[t].page, "error")
    <2>1. Settle(t, new)
      BY <1>2 DEF Ends
    <2>2. Settle(t, [tab[t] EXCEPT !.page = tab[t].page, !.toast = "error", !.me = tab[t].me])
      <3>1. new = [tab[t] EXCEPT !.page = tab[t].page, !.toast = "error", !.me = tab[t].me]
        BY <1>1 DEF Toasted, Tab
      <3> QED BY <2>1, <3>1
    <2>3. tab[t].page \in Pages /\ tab[t].me \in Emails \cup {None}
      BY <1>1 DEF Tab
    <2> HIDE DEF new
    <2>4. /\ UNCHANGED <<stores, task, calls, faults>> /\ TabsOK' /\ Alone(t)
          /\ tab'[t].wait = None /\ tab'[t].email = tab[t].email /\ tab'[t].me = tab[t].me
          /\ tab'[t].page = tab[t].page
      BY <2>2, <2>3, SettleFacts
    <2> QED BY <2>4 DEF Settled
  <1>3. CASE ~Refused(t)
    <2> DEFINE new == Toasted(t, page, "success")
    <2>1. Settle(t, new)
      BY <1>3 DEF Ends
    <2>2. Settle(t, [tab[t] EXCEPT !.page = page, !.toast = "success", !.me = tab[t].me])
      <3>1. new = [tab[t] EXCEPT !.page = page, !.toast = "success", !.me = tab[t].me]
        BY <1>1 DEF Toasted, Tab
      <3> QED BY <2>1, <3>1
    <2>3. tab[t].me \in Emails \cup {None}
      BY <1>1 DEF Tab
    <2> HIDE DEF new
    <2>4. /\ UNCHANGED <<stores, task, calls, faults>> /\ TabsOK' /\ Alone(t)
          /\ tab'[t].wait = None /\ tab'[t].email = tab[t].email /\ tab'[t].me = tab[t].me
          /\ tab'[t].page = page
      <3>1. "success" \in {"success", "error"}
        OBVIOUS
      <3> QED BY <2>2, <2>3, <3>1, SettleFacts
    <2>5. task[t] # None /\ ~task[t].failed /\ ~Running(t)
      BY <1>3 DEF Refused, Lost, Ends, Returned
    <2> QED BY <1>1, <2>4, <2>5 DEF Settled
  <1> QED BY <1>2, <1>3

LEMMA LoginAnsweredFacts ==
    ASSUME TypeInv, NEW t \in Tasks, LoginAnswered(t)
    PROVE  TabsOK' /\ Settled(t)
  <1>1. tab[t] \in Tab /\ tab[t].wait = "login"
    BY DEF TypeInv, TabsOK, LoginAnswered, Returned
  <1>2. tab[t].me \in Emails \cup {None} /\ tab[t].email \in Emails \cup {None}
    BY <1>1 DEF Tab
  <1>3. CASE Refused(t)
    <2> DEFINE new == Toasted(t, "login", "error")
    <2>1. Settle(t, new)
      BY <1>3 DEF LoginAnswered
    <2>2. Settle(t, [tab[t] EXCEPT !.page = "login", !.toast = "error", !.me = tab[t].me])
      <3>1. new = [tab[t] EXCEPT !.page = "login", !.toast = "error", !.me = tab[t].me]
        BY <1>1 DEF Toasted, Tab
      <3> QED BY <2>1, <3>1
    <2> HIDE DEF new
    <2>3. /\ UNCHANGED <<stores, task, calls, faults>> /\ TabsOK' /\ Alone(t)
          /\ tab'[t].wait = None /\ tab'[t].email = tab[t].email /\ tab'[t].me = tab[t].me
          /\ tab'[t].page = "login"
      BY <1>2, <2>2, SettleFacts DEF Pages
    <2> QED BY <2>3 DEF Settled
  <1>4. CASE ~Refused(t)
    <2> DEFINE new == [Toasted(t, "home", "success") EXCEPT !.me = tab[t].email]
    <2>1. Settle(t, new)
      BY <1>4 DEF LoginAnswered
    <2>2. Settle(t, [tab[t] EXCEPT !.page = "home", !.toast = "success", !.me = tab[t].email])
      <3>1. new = [tab[t] EXCEPT !.page = "home", !.toast = "success", !.me = tab[t].email]
        BY <1>1 DEF Toasted, Tab
      <3> QED BY <2>1, <3>1
    <2> HIDE DEF new
    <2>3. /\ UNCHANGED <<stores, task, calls, faults>> /\ TabsOK' /\ Alone(t)
          /\ tab'[t].wait = None /\ tab'[t].email = tab[t].email /\ tab'[t].me = tab[t].email
          /\ tab'[t].page = "home"
      <3>1. "home" \in Pages /\ "success" \in {"success", "error"}
        BY DEF Pages
      <3> QED BY <1>2, <2>2, <3>1, SettleFacts
    <2>4. task[t] # None /\ ~task[t].failed
      BY <1>4 DEF Refused, Lost
    <2> QED BY <1>1, <2>3, <2>4 DEF Settled
  <1> QED BY <1>3, <1>4

LEMMA AnsweredFacts ==
    ASSUME TypeInv, NEW t \in Tasks, Answered(t)
    PROVE  TabsOK' /\ Settled(t) /\ Kept /\ Rested
  <1>1. TabsOK' /\ Settled(t)
    BY EndsFacts, LoginAnsweredFacts DEF Answered, RegisterAnswered, ResendAnswered, LinkAnswered, ForgotAnswered,
       ResetAnswered, FormAnswered, Pages, Kinds
  <1>2. Kept /\ Rested
    BY <1>1, QuietFacts DEF Settled
  <1> QED BY <1>1, <1>2

LEMMA UserActFacts ==
    ASSUME TypeInv, NEW t \in Tasks, UserAct(t)
    PROVE  Acted(t)
  BY SubmitRegisterFacts, SubmitLoginFacts, OpenFormFacts, OpenLinkFacts, SubmitResetFacts, SubmitForgotFacts,
     HandleResendFacts, SubmitFormFacts DEF UserAct

LEMMA AdminFacts ==
    ASSUME TypeInv, NEW t \in Tasks, AdminRequest(t)
    PROVE  Kept /\ (Arrived(t) \/ Rested) /\ tab[t].wait = None
  BY CreateAdminFacts DEF AdminRequest

\* Every step is of one of these kinds.
AStep(t) ==
    \/ UNCHANGED <<tab, forms>> /\ Stepped(t)
    \/ UNCHANGED <<tab, forms>> /\ (Arrived(t) \/ Rested) /\ tab[t].wait = None
    \/ Acted(t)
    \/ Settled(t) /\ Rested
LEMMA NextFacts ==
    ASSUME TypeInv, Next
    PROVE  /\ Kept /\ TabsOK' /\ Remember
           /\ (\E t \in Tasks : AStep(t)) \/ (UNCHANGED <<tab, forms>> /\ Rested)
  <1>1. UNCHANGED <<tab, forms>> => TabsOK'
    BY DEF TypeInv, TabsOK
  <1>2. ASSUME NEW t \in Tasks, PageStep(t) PROVE Kept /\ TabsOK' /\ Remember /\ AStep(t)
    BY <1>2, AnsweredFacts DEF PageStep, AStep
  <1>3. ASSUME NEW t \in Tasks, ServerStep(t) PROVE Kept /\ TabsOK' /\ Remember /\ AStep(t)
    BY <1>1, <1>3, StepFacts DEF ServerStep, AStep, Quietly
  <1>4. ASSUME NEW t \in Tasks, UserAct(t), Remember PROVE Kept /\ TabsOK' /\ Remember /\ AStep(t)
    BY <1>4, UserActFacts DEF AStep, Acted
  <1>5. ASSUME NEW t \in Tasks, AdminRequest(t), Quietly PROVE Kept /\ TabsOK' /\ Remember /\ AStep(t)
    BY <1>1, <1>5, AdminFacts DEF AStep, Quietly
  <1>6. ASSUME Crash \/ Day, Quietly PROVE Kept /\ TabsOK' /\ Remember /\ UNCHANGED <<tab, forms>> /\ Rested
    BY <1>1, <1>6, CrashFacts, DayFacts DEF Quietly, Kept
  <1> QED BY <1>2, <1>3, <1>4, <1>5, <1>6 DEF Next

\* A step is Rested, or what one request did.
Did(t) ==
    \/ Rested
    \/ /\ t \in Tasks
       /\ Inserted(t) \/ Deleted(t) \/ Saved(t) \/ Mailed(t) \/ Stored(t) \/ Removed(t) \/ Filled(t) \/ Arrived(t)

LEMMA AStepDid == ASSUME NEW t \in Tasks, AStep(t) \/ Rested PROVE Did(t)
  BY DEF AStep, Stepped, Acted, Did

\* No account is ever gone.
LEMMA AccountsStay ==
    ASSUME TypeInv, NEW t, Did(t), NEW e \in Emails, Exists(e)
    PROVE  Exists(e)'
  <1>1. CASE UNCHANGED users
    BY <1>1 DEF Exists
  <1>2. CASE Inserted(t) \/ Stored(t) \/ Filled(t)
    <2>1. \A f \in Emails \ {Email(t)} : users'[f] = users[f]
      BY <1>2 DEF Inserted, Stored, Filled
    <2>2. users'[Email(t)] \in User
      BY <1>2 DEF Inserted, Stored, Filled
    <2> QED BY <2>1, <2>2, NoneIsNone DEF Exists
  <1> QED BY <1>1, <1>2 DEF Did, Arrived, Rested, Deleted, Saved, Mailed, Removed, stores

LEMMA OwnersStep ==
    ASSUME TypeInv, NEW t, Did(t)
    PROVE  OwnersOK'
  <1>1. \A k \in tokens : Exists(k.email)'
    BY AccountsStay DEF TypeInv, OwnersOK, DataOK, Token
  <1>2. CASE tokens' \subseteq tokens
    BY <1>1, <1>2 DEF OwnersOK, Exists
  <1>3. CASE t \in Tasks /\ Saved(t)
    <2>1. task[t] \in Task /\ Sound(task[t], users) /\ task[t].step = "saveToken"
      BY <1>3, AtTask DEF Saved, Onward, TypeInv, Steps
    <2>2. "saveToken" # None
      BY NoneIsNone DEF Steps
    <2>3. Exists(Email(t)) /\ Email(t) \in Emails
      BY <2>1, <2>2 DEF Sound, Exists, Email, Task
    <2>4. Exists(Email(t))'
      BY <1>3, <2>3 DEF Saved, Exists, Onward, Email
    <2>5. NewLink(t).email = Email(t) /\ users' = users
      BY <1>3 DEF NewLink, Saved
    <2> QED BY <1>1, <1>3, <2>3, <2>5 DEF OwnersOK, Saved, Exists
  <1> QED BY <1>2, <1>3 DEF Did, Arrived, Rested, Inserted, Deleted, Mailed, Stored, Removed, Filled, stores

\* How the request of a browser that waits for it goes on.
LEMMA TaskOf ==
    ASSUME TypeInv, NEW t \in Tasks, AStep(t) \/ Rested, NEW u \in Tasks,
           tab[u].wait # None, task'[u] # task[u], task'[u] # None
    PROVE  /\ Running(u) /\ task[u] # None /\ task'[u].kind = task[u].kind /\ task'[u].email = task[u].email
  <1>1. CASE Rested
    BY <1>1 DEF Rested, Turned, Finished, Stopped, Running
  <1>2. CASE Arrived(t)
    BY <1>2 DEF Arrived, Others
  <1>3. CASE ~Rested /\ ~Arrived(t)
    <2>1. u = t \/ ~Others(t)
      BY DEF Others
    <2> QED BY <1>3, <2>1 DEF AStep, Stepped, Acted, Inserted, Deleted, Saved, Mailed, Stored, Removed, Filled,
                              Onward, Running
  <1> QED BY <1>1, <1>2, <1>3

Entering(u) == tab[u].wait = "login" /\ task[u] # None /\ (task[u].step # None \/ ~task[u].failed)
LEMMA SessionsStep ==
    ASSUME TypeInv, TabsOK', NEW t \in Tasks, AStep(t) \/ (UNCHANGED tab /\ Rested)
    PROVE  SessionsOK'
  <1>0. (AStep(t) \/ Rested) /\ Did(t)
    BY AStepDid
  <1>1. ASSUME NEW u \in Tasks, tab'[u] = tab[u]
        PROVE  /\ tab[u].me # None => Exists(tab[u].me)'
               /\ Entering(u)' => tab[u].email # None /\ Exists(tab[u].email)'
    <2>1. tab[u] \in Tab
      BY DEF TypeInv, TabsOK
    <2>2. ASSUME tab[u].me # None PROVE users'[tab[u].me] # None
      <3>1. PICK e \in Emails : e = tab[u].me /\ Exists(e)
        BY <2>1, <2>2 DEF TypeInv, SessionsOK, Tab
      <3>2. Exists(e)'
        BY <1>0, <3>1, AccountsStay
      <3> QED BY <3>1, <3>2 DEF Exists
    <2>3. ASSUME Entering(u)' PROVE tab[u].email # None /\ users'[tab[u].email] # None
      <3>1. tab[u].wait # None /\ task'[u] # None /\ tab[u].wait = "login"
        BY <1>1, <2>3, NoneIsNone DEF Kinds, Entering
      <3>2. Entering(u)
        <4>1. CASE task'[u] = task[u]
          BY <1>1, <2>3, <4>1 DEF Entering
        <4>2. CASE task'[u] # task[u]
          BY <1>0, <3>1, <4>2, TaskOf DEF Entering, Running
        <4> QED BY <4>1, <4>2
      <3>3. PICK e \in Emails : e = tab[u].email /\ Exists(e) /\ e # None
        BY <2>1, <3>2 DEF TypeInv, SessionsOK, Tab, Entering
      <3>4. Exists(e)'
        BY <1>0, <3>3, AccountsStay
      <3> QED BY <3>3, <3>4 DEF Exists
    <2> QED BY <1>1, <2>2, <2>3 DEF Exists
  <1>2. ASSUME NEW e \in Emails, Exists(e) PROVE users'[e] # None
    <2>1. Exists(e)'
      BY <1>0, <1>2, AccountsStay
    <2> QED BY <2>1 DEF Exists
  <1>3. ASSUME Acted(t)
        PROVE  /\ tab'[t].me # None => users'[tab'[t].me] # None
               /\ Entering(t)' => tab'[t].email # None /\ users'[tab'[t].email] # None
    <2>1. tab[t] \in Tab /\ tab'[t] \in Tab
      BY DEF TypeInv, TabsOK
    <2>2. tab'[t].me = tab[t].me
      BY <1>3 DEF Acted, Browsed
    <2>3. ASSUME tab'[t].me # None PROVE users'[tab'[t].me] # None
      BY <1>2, <2>1, <2>2, <2>3 DEF TypeInv, SessionsOK, Tab
    <2>4. ASSUME Entering(t)' PROVE tab'[t].email # None /\ users'[tab'[t].email] # None
      <3>1. tab'[t].email # None /\ Exists(tab'[t].email)
        BY <1>3, <2>4 DEF Acted, Browsed, Entering
      <3> QED BY <1>2, <2>1, <3>1 DEF Tab
    <2> QED BY <2>3, <2>4
  <1>4. ASSUME Settled(t)
        PROVE  /\ tab'[t].me # None => users'[tab'[t].me] # None
               /\ ~Entering(t)'
    <2>1. tab[t] \in Tab
      BY DEF TypeInv, TabsOK
    <2>2. ~Entering(t)'
      BY <1>4, NoneIsNone DEF Settled, Entering, Kinds
    <2>3. CASE tab'[t].me = tab[t].me
      BY <1>2, <2>1, <2>2, <2>3 DEF TypeInv, SessionsOK, Tab
    <2>4. CASE tab'[t].me # tab[t].me
      BY <1>2, <1>4, <2>1, <2>2, <2>4 DEF Settled, TypeInv, SessionsOK, Tab
    <2> QED BY <2>2, <2>3, <2>4
  <1>5. ASSUME NEW u \in Tasks
        PROVE  /\ tab'[u].me # None => users'[tab'[u].me] # None
               /\ Entering(u)' => tab'[u].email # None /\ users'[tab'[u].email] # None
    <2>1. CASE tab'[u] = tab[u]
      BY <1>1, <2>1 DEF Exists
    <2>2. CASE tab'[u] # tab[u]
      <3>1. u = t /\ (Acted(t) \/ Settled(t))
        BY <2>2 DEF AStep, Acted, Browsed, Settled, Alone
      <3> QED BY <1>3, <1>4, <3>1
    <2> QED BY <2>1, <2>2
  <1> QED BY <1>5 DEF SessionsOK, Entering, Exists

LEMMA MetStep ==
    ASSUME TypeInv, TasksOK', Remember
    PROVE  MetOK'
  <1>1. ASSUME NEW e \in Emails PROVE Overlaps(e)' \subseteq Kinds \X Kinds
    <2>1. \A t \in Tasks : Running(t)' => task'[t].kind \in Kinds
      BY DEF TasksOK, Running, Task
    <2> QED BY <2>1 DEF Overlaps, Running
  <1> QED BY <1>1 DEF TypeInv, MetOK, Remember

LEMMA TypeInit == Init => TypeInv
  <1> SUFFICES ASSUME Init PROVE TypeInv
    OBVIOUS
  <1>1. PICK s \in Scenarios :
          /\ users = s.users /\ tokens = s.tokens /\ mails = s.tokens
          /\ given = Cardinality(s.tokens) /\ expired = {}
          /\ task = [t \in Tasks |-> None] /\ calls = s.calls /\ faults = 0
          /\ uses = [i \in Ids |-> 0] /\ met = [e \in Emails |-> {}]
    BY DEF Init, AccountsInit
  <1>2. s \in Scenario /\ IsFiniteSet(s.tokens) /\ Linked(s)
    BY AccountsAssumption
  <1>3. given \in 0 .. MaxTokens
    <2>1. given \in Nat
      BY <1>1, <1>2, FS_CardinalityType
    <2> QED BY <1>1, <1>2, <2>1, AccountsAssumption DEF Linked
  <1>4. TasksOK /\ CallsOK /\ MetOK
    BY <1>1, <1>2 DEF TasksOK, CallsOK, MetOK, Scenario
  <1>5. DataOK
    BY <1>1, <1>2, <1>3 DEF DataOK, Scenario
  <1>6. OwnersOK
    BY <1>1, <1>2 DEF OwnersOK, Linked, Exists
  <1>7. PICK me \in {e \in Emails : Exists(e) /\ users[e].verified} \cup {None} :
          tab = [t \in Tasks |-> [page |-> "home", me |-> me, email |-> None, form |-> NoProfile,
                                  wait |-> None, toast |-> None]]
    BY DEF Init
  <1>8. TabsOK
    BY <1>7, PagesAssumption DEF TabsOK, Tab, Pages, NoProfile, Profile, Init
  <1>9. SessionsOK
    BY <1>1, <1>7, NoneIsNone DEF SessionsOK, Kinds
  <1> QED BY <1>4, <1>5, <1>6, <1>8, <1>9 DEF TypeInv

LEMMA TypeStep == TypeInv /\ [Next]_pageVars => TypeInv'
  <1> SUFFICES ASSUME TypeInv, [Next]_pageVars PROVE TypeInv'
    OBVIOUS
  <1>1. CASE Next
    <2>1. Kept /\ TabsOK' /\ Remember
      BY <1>1, NextFacts
    <2>2. MetOK'
      BY <2>1, MetStep DEF Kept
    <2>3. OwnersOK' /\ SessionsOK'
      <3>1. ASSUME NEW t \in Tasks, AStep(t) PROVE OwnersOK' /\ SessionsOK'
        BY <2>1, <3>1, OwnersStep, SessionsStep, AStepDid
      <3>2. ASSUME UNCHANGED <<tab, forms>>, Rested PROVE OwnersOK' /\ SessionsOK'
        <4>1. ASSUME NEW t \in Tasks PROVE OwnersOK' /\ SessionsOK'
          BY <2>1, <3>2, <4>1, OwnersStep, SessionsStep, AStepDid
        <4>2. Tasks = {} => OwnersOK' /\ SessionsOK'
          BY <3>2 DEF TypeInv, OwnersOK, SessionsOK, Rested, Exists
        <4> QED BY <4>1, <4>2
      <3> QED BY <1>1, <3>1, <3>2, NextFacts
    <2> QED BY <2>1, <2>2, <2>3 DEF TypeInv, Kept
  <1>2. CASE UNCHANGED pageVars
    BY <1>2 DEF pageVars, accountVars, stores, TypeInv, TasksOK, DataOK, CallsOK, MetOK, TabsOK, OwnersOK,
                SessionsOK, Exists
  <1> QED BY <1>1, <1>2

\* Types: every request takes only the steps of its kind with what it needs, the
\* links are of accounts, and who is logged in has one.
THEOREM AccountTypes == Spec => []PagesTypeOK
  <1>1. TypeInv => PagesTypeOK
    BY TypeInvIsTypeOK
  <1> QED BY <1>1, TypeInit, TypeStep, PTL DEF Spec

-------------------------------------------------------------------------------
(* The invariants behind the properties. *)

\* Requests for an account that run together have met.
MetInv ==
    \A t, u \in Tasks : t # u /\ Running(t) /\ Running(u) /\ Email(t) = Email(u) =>
        <<task[t].kind, task[u].kind>> \in met[Email(t)]

\* Links: the id of one is its own, also before it is mailed; who follows a link
\* was mailed it, and nobody has followed one that was not mailed.
IdsInv ==
    /\ \A k, l \in tokens \cup mails : k.id = l.id => k = l
    /\ \A k \in tokens \cup mails : k.id <= given
    /\ \A t \in Tasks : At(t, "mail") =>
          /\ task[t].token <= given
          /\ \A k \in tokens : k.id = task[t].token => k = MailOf(t)
          /\ \A k \in mails : k.id # task[t].token
          /\ \A u \in Tasks : At(u, "mail") /\ task[u].token = task[t].token => u = t
FollowInv ==
    /\ \A t \in Tasks : Running(t) /\ task[t].kind \in Links =>
          [id |-> task[t].token, kind |-> task[t].kind, email |-> Email(t)] \in mails
    /\ \A i \in Ids : uses[i] > 0 => \E k \in mails : k.id = i

\* A link that was used is removed, or a request that used it is about to.
SpentInv ==
    /\ faults = 0 => \A i \in Ids, k \in tokens :
          uses[i] > 0 /\ k.id = i => \E t \in Tasks : At(t, "removeToken") /\ task[t].token = i
    /\ faults = 0 => \A t \in Tasks : At(t, "saveUser") =>
          uses[task[t].token] = 0 \/ Met(Email(t), {task[t].kind}, {task[t].kind})
    /\ LinkIsSpent

\* A request that signs an account up and has made it.
Past(t, e) == Running(t) /\ Email(t) = e /\ task[t].kind \in SignUps /\ task[t].step # "insertUser"
Signed(e) == Exists(e) /\ \A t \in Tasks : ~Past(t, e)
\* Who resends a link comes from the page of an account that is signed up.
ResendInv ==
    \A t \in Tasks, e \in Emails :
        /\ \A u \in Tasks : Past(t, e) /\ Past(u, e) => t = u
        /\ Running(t) /\ task[t].kind = "resend" /\ Email(t) = e => Signed(e)
        /\ tab[t].page = "verify" /\ tab[t].email = e => Signed(e)
        /\ tab[t].wait = "resend" => tab[t].page = "verify"
        /\ tab[t].wait = "register" /\ task[t] # None =>
              /\ task[t].kind = "register" /\ task[t].email = tab[t].email
              /\ task[t].step # None \/ task[t].failed \/ (tab[t].email = e => Signed(e))

Single(e, kind) == \A k, l \in TokensOf(e, kind) : k = l
Doubled(e, kind) == IF kind = "verify" THEN Met(e, {"resend"}, {"resend"}) ELSE Met(e, {"forgot"}, {"forgot"})
\* Who saves a link finds none, and who mails one finds it, unless two make one each.
LiveInv ==
    /\ \A t \in Tasks : At(t, "saveToken") => TokensOf(Email(t), LinkOf(t)) = {} \/ Doubled(Email(t), LinkOf(t))
    /\ \A t \in Tasks : At(t, "mail") => MailOf(t) \in tokens \/ Doubled(Email(t), LinkOf(t))
    /\ \A e \in Emails, kind \in Links : Single(e, kind) \/ Doubled(e, kind)

\* What was read of an account is what is stored, unless it met who writes that.
StaleInv ==
    \A t \in Tasks :
        LET e == Email(t)
            row == task[t].row
        IN  /\ At(t, "saveUser") /\ task[t].kind = "verify" =>
                  row.password = users[e].password \/ Met(e, {"reset"}, {"verify"})
            /\ At(t, "saveUser") /\ task[t].kind = "reset" =>
                  row.verified = users[e].verified \/ Met(e, {"reset"}, {"verify"})
            /\ At(t, "saveUser") => \A f \in {"phone", "about"} :
                  row.profile[f] = users[e].profile[f] \/ Met(e, {"update"}, {"verify", "reset"})
            /\ At(t, "compare") => row.password = users[e].password \/ Met(e, {"login"}, {"reset", "verify"})

\* What was written is stored, unless it met who writes that.
DoneInv ==
    \A t \in Tasks :
        LET e == Email(t)
            Holds(f) == task[t].profile[f] \in {None, users[e].profile[f]}
        IN  /\ At(t, "removeToken") /\ task[t].kind = "verify" =>
                  users[e].verified \/ Met(e, {"reset"}, {"verify"})
            /\ At(t, "removeToken") /\ task[t].kind = "reset" =>
                  users[e].password = task[t].password \/ Met(e, {"reset"}, {"reset", "verify"})
            /\ At(t, "updateUser") => Holds("location") \/ Met(e, {"update"}, {"update", "verify", "reset"})
            /\ At(t, "findUpdated") =>
                  \A f \in Fields : Holds(f) \/ Met(e, {"update"}, {"update", "verify", "reset"})

\* A link that works was mailed or will be.
Hope(e) ==
    \/ \E k \in TokensOf(e, "verify") : k \in mails \/ \E t \in Tasks : At(t, "mail") /\ k = MailOf(t)
    \/ \E t \in Tasks : At(t, "saveToken") /\ Email(t) = e /\ LinkOf(t) = "verify"
HopeInv ==
    \A e \in Emails : Exists(e) /\ ~users[e].verified /\ faults = 0 => Hope(e) \/ Met(e, {"reset"}, {"verify"})

LEMMA DidFacts ==
    ASSUME TypeInv, Next
    PROVE  Kept /\ TabsOK' /\ Remember /\ \E t : Did(t) /\ (AStep(t) \/ (UNCHANGED <<tab, forms>> /\ Rested))
  <1>1. \A t \in Tasks : AStep(t) => Did(t)
    BY AStepDid
  <1>2. Rested => \A t : Did(t)
    BY DEF Did
  <1> QED BY <1>1, <1>2, NextFacts

\* Where a request is that was not there before.
LEMMA Came ==
    ASSUME TypeInv, NEW t, Did(t), NEW u \in Tasks, NEW step \in Steps, At(u, step)', task'[u] # task[u]
    PROVE  /\ u = t /\ t \in Tasks /\ ~Rested
           /\ step = "insertUser" => Arrived(t)
           /\ step = "deleteTokens" => Arrived(t)
           /\ step = "saveToken" => Inserted(t) \/ Deleted(t)
           /\ step = "mail" => Saved(t)
           /\ step = "saveUser" => Arrived(t)
           /\ step = "removeToken" => Stored(t)
           /\ step = "compare" => Arrived(t)
           /\ step = "saveLocation" => Arrived(t)
           /\ step = "updateUser" => Arrived(t) \/ Filled(t)
           /\ step = "findUpdated" => Filled(t)
  <1>1. task'[u] # None /\ task'[u].step = step /\ step # None
    BY NoneIsNone DEF At
  <1>2. ~Rested
    BY <1>1 DEF Rested, Turned, Finished, Stopped
  <1>3. u = t /\ t \in Tasks
    BY <1>2 DEF Did, Inserted, Deleted, Saved, Mailed, Stored, Removed, Filled, Arrived, Onward, Others
  <1>4. ~Mailed(t) /\ ~Removed(t)
    BY <1>1, <1>3 DEF Mailed, Removed
  <1>5. /\ Inserted(t) => step = "saveToken"
        /\ Deleted(t) => step = "saveToken"
        /\ Saved(t) => step = "mail"
        /\ Stored(t) => step = "removeToken"
        /\ Filled(t) => step \in {"updateUser", "findUpdated"}
    BY <1>1, <1>3 DEF Inserted, Deleted, Saved, Stored, Filled, Onward
  <1>6. Filled(t) /\ step = "updateUser" => Onward(t, "saveLocation", "updateUser")
    BY <1>1, <1>3 DEF Filled, Onward
  <1>7. Arrived(t) => step \in {"insertUser", "deleteTokens", "saveUser", "compare", "saveLocation", "updateUser"}
    BY <1>1, <1>3 DEF Arrived
  <1> QED BY <1>2, <1>3, <1>4, <1>5, <1>6, <1>7 DEF Did

\* A request goes on by its own steps, unless there is a fault.
LEMMA Stays ==
    ASSUME TypeInv, NEW t, Did(t), NEW u \in Tasks, NEW step \in Steps \ {"insertUser", "compare", "findUpdated"},
           At(u, step)
    PROVE  task'[u] = task[u] \/ faults' > 0 \/ (u = t /\ ~Rested)
  <1>1. task[u].step = step /\ Running(u)
    BY AtTask DEF TypeInv
  <1>2. CASE Rested
    BY <1>1, <1>2 DEF Rested, Turned, Finished, Stopped, At
  <1>3. CASE ~Rested
    BY <1>3 DEF Did, Inserted, Deleted, Saved, Mailed, Stored, Removed, Filled, Arrived, Onward, Others
  <1> QED BY <1>2, <1>3

LEMMA MetGrows ==
    ASSUME TypeInv, Remember, NEW e \in Emails, NEW kinds, NEW others, Met(e, kinds, others)
    PROVE  Met(e, kinds, others)'
  BY DEF Remember, Met, TypeInv, MetOK

\* Requests that run together meet, in either order.
LEMMA MetNow ==
    ASSUME TypeInv, MetInv, NEW t \in Tasks, NEW u \in Tasks, t # u, Running(t), Running(u), Email(t) = Email(u),
           NEW kinds, NEW others, task[t].kind \in kinds, task[u].kind \in others
    PROVE  Met(Email(t), kinds, others)
  BY DEF MetInv, Met

LEMMA MetInvStep ==
    ASSUME TypeInv, TasksOK', Remember
    PROVE  MetInv'
  <1>1. SUFFICES ASSUME NEW t \in Tasks, NEW u \in Tasks, t # u, Running(t)', Running(u)', Email(t)' = Email(u)'
                 PROVE  <<task'[t].kind, task'[u].kind>> \in met'[task'[t].email]
    BY DEF MetInv, Email
  <1>2. task'[t].email \in Emails
    BY <1>1 DEF TasksOK, Running, Task
  <1>3. PICK e \in Emails : e = task'[t].email
    BY <1>2
  <1>4. <<task'[t].kind, task'[u].kind>> \in Overlaps(e)'
    <2> DEFINE on == {s \in Tasks : task'[s] # None /\ task'[s].step # None /\ task'[s].email = e}
               pairs == {y \in on \X on : y[1] # y[2]}
    <2>1. Overlaps(e)' = {<<task'[x[1]].kind, task'[x[2]].kind>> : x \in pairs}
      BY DEF Overlaps, Running, Email
    <2>2. <<t, u>> \in pairs
      BY <1>1, <1>3 DEF Running, Email
    <2> HIDE DEF pairs
    <2>3. <<t, u>>[1] = t /\ <<t, u>>[2] = u
      OBVIOUS
    <2> QED BY <2>1, <2>2, <2>3
  <1> QED BY <1>3, <1>4 DEF Remember

-------------------------------------------------------------------------------
(* Links are followed as they were mailed. *)

\* Few steps write links.
LEMMA LinksStay ==
    ASSUME TypeInv, NEW t, Did(t)
    PROVE  \/ tokens' \subseteq tokens /\ mails' = mails /\ given' = given
           \/ t \in Tasks /\ Saved(t)
           \/ t \in Tasks /\ Mailed(t)
  BY DEF Did, Rested, Inserted, Deleted, Stored, Removed, Filled, Arrived, stores

LEMMA MailStays ==
    ASSUME NEW u \in Tasks, task'[u] = task[u]
    PROVE  /\ MailOf(u)' = MailOf(u) /\ Email(u)' = Email(u) /\ LinkOf(u)' = LinkOf(u)
           /\ \A step : At(u, step)' <=> At(u, step)
           /\ Running(u)' <=> Running(u)
  BY DEF MailOf, Email, LinkOf, At, Running

LEMMA IdsStep ==
    ASSUME TypeInv, TasksOK', IdsInv, NEW t, Did(t)
    PROVE  IdsInv'
  <1>0. "mail" \in Steps
    BY DEF Steps
  <1>1. CASE tokens' \subseteq tokens /\ mails' = mails /\ given' = given
    <2>1. ASSUME NEW u \in Tasks, At(u, "mail")'
          PROVE  task'[u] = task[u] /\ At(u, "mail") /\ MailOf(u)' = MailOf(u)
      <3>1. ~Saved(t)
        BY <1>1, AccountsAssumption DEF Saved, TypeInv, DataOK
      <3>2. task'[u] = task[u]
        BY <1>0, <2>1, <3>1, Came
      <3> QED BY <2>1, <3>2, MailStays
    <2>2. /\ \A k, l \in tokens' \cup mails' : k.id = l.id => k = l
          /\ \A k \in tokens' \cup mails' : k.id <= given'
      BY <1>1 DEF IdsInv
    <2>3. ASSUME NEW u \in Tasks, At(u, "mail")'
          PROVE  /\ task'[u].token <= given'
                 /\ \A k \in tokens' : k.id = task'[u].token => k = MailOf(u)'
                 /\ \A k \in mails' : k.id # task'[u].token
                 /\ \A v \in Tasks : At(v, "mail")' /\ task'[v].token = task'[u].token => v = u
      BY <1>1, <2>1, <2>3 DEF IdsInv
    <2> QED BY <2>2, <2>3 DEF IdsInv
  <1>2. CASE t \in Tasks /\ Saved(t)
    <2> DEFINE n == NewLink(t)
    <2>1. n.id = given + 1 /\ tokens' = tokens \cup {n} /\ mails' = mails /\ given' = given + 1 /\ given \in Nat
      BY <1>2 DEF Saved, NewLink, TypeInv, DataOK
    <2>2. \A k \in tokens \cup mails : k.id <= given /\ k.id \in Nat
      BY DEF IdsInv, TypeInv, DataOK, Token, Ids
    <2>3. task'[t].token = given + 1 /\ MailOf(t)' = n
      BY <1>2, <2>1 DEF Saved, Onward, NewLink, MailOf, LinkOf, Email
    <2> HIDE DEF n
    <2>4. /\ \A k, l \in tokens' \cup mails' : k.id = l.id => k = l
          /\ \A k \in tokens' \cup mails' : k.id <= given'
      BY <2>1, <2>2 DEF IdsInv
    <2>5. ASSUME NEW u \in Tasks, At(u, "mail")', u # t
          PROVE  task'[u] = task[u] /\ At(u, "mail") /\ MailOf(u)' = MailOf(u) /\ task[u].token \in Nat
                 /\ task[u].token <= given
      <3>1. task'[u] = task[u]
        BY <1>0, <2>5, Came
      <3>2. At(u, "mail")
        BY <2>5, <3>1, MailStays
      <3>3. task[u].token \in Ids
        BY <1>0, <3>2, AtTask, NoneIsNone DEF TypeInv, Sound
      <3> QED BY <3>1, <3>2, <3>3, MailStays DEF Ids, IdsInv
    <2>6. ASSUME NEW u \in Tasks, At(u, "mail")'
          PROVE  /\ task'[u].token <= given'
                 /\ \A k \in tokens' : k.id = task'[u].token => k = MailOf(u)'
                 /\ \A k \in mails' : k.id # task'[u].token
                 /\ \A v \in Tasks : At(v, "mail")' /\ task'[v].token = task'[u].token => v = u
      <3>1. CASE u = t
        BY <2>1, <2>2, <2>3, <2>5, <3>1
      <3>2. CASE u # t
        BY <2>1, <2>2, <2>3, <2>5, <2>6, <3>2 DEF IdsInv
      <3> QED BY <3>1, <3>2
    <2> QED BY <2>4, <2>6 DEF IdsInv
  <1>3. CASE t \in Tasks /\ Mailed(t)
    <2> DEFINE n == MailOf(t)
    <2>1. n.id = task[t].token /\ tokens' = tokens /\ mails' = mails \cup {n} /\ given' = given /\ At(t, "mail")
      BY <1>3 DEF Mailed, MailOf
    <2> HIDE DEF n
    <2>2. /\ n.id <= given
          /\ \A k \in tokens : k.id = n.id => k = n
          /\ \A k \in mails : k.id # n.id
      BY <1>3, <2>1 DEF IdsInv, n
    <2>3. /\ \A k, l \in tokens' \cup mails' : k.id = l.id => k = l
          /\ \A k \in tokens' \cup mails' : k.id <= given'
      BY <2>1, <2>2 DEF IdsInv
    <2>4. ASSUME NEW u \in Tasks, At(u, "mail")'
          PROVE  task'[u] = task[u] /\ At(u, "mail") /\ MailOf(u)' = MailOf(u) /\ u # t
      <3>1. u # t
        BY <1>3, <2>4, NoneIsNone DEF Mailed, At, Steps
      <3>2. task'[u] = task[u]
        BY <1>0, <2>4, <3>1, Came
      <3> QED BY <2>4, <3>1, <3>2, MailStays
    <2>5. ASSUME NEW u \in Tasks, At(u, "mail")'
          PROVE  /\ task'[u].token <= given'
                 /\ \A k \in tokens' : k.id = task'[u].token => k = MailOf(u)'
                 /\ \A k \in mails' : k.id # task'[u].token
                 /\ \A v \in Tasks : At(v, "mail")' /\ task'[v].token = task'[u].token => v = u
      BY <1>3, <2>1, <2>4, <2>5 DEF IdsInv
    <2> QED BY <2>3, <2>5 DEF IdsInv
  <1> QED BY <1>1, <1>2, <1>3, LinksStay

LEMMA FollowStep ==
    ASSUME TypeInv, TasksOK', IdsInv, FollowInv, NEW t, Did(t)
    PROVE  FollowInv'
  <1>0. mails \subseteq mails'
    BY LinksStay DEF Mailed, Saved
  <1>1. ASSUME NEW u \in Tasks, Running(u)', task'[u].kind \in Links
        PROVE  [id |-> task'[u].token, kind |-> task'[u].kind, email |-> task'[u].email] \in mails
    <2>1. task'[u] \in Task /\ task'[u].step \in StepsOf(task'[u].kind)
      BY <1>1 DEF TasksOK, Running, Sound
    <2>2. task'[u].step \in {"saveUser", "removeToken"}
      BY <1>1, <2>1 DEF StepsOf, SignUps, Links
    <2>3. CASE task'[u] = task[u]
      BY <1>1, <2>3 DEF FollowInv, Running, Email
    <2>4. CASE task'[u] # task[u]
      <3>1. At(u, "saveUser")' \/ At(u, "removeToken")'
        BY <1>1, <2>2 DEF At, Running
      <3>2. u = t /\ t \in Tasks /\ (Arrived(t) \/ Stored(t))
        BY <2>4, <3>1, Came DEF Steps
      <3>3. CASE Stored(t)
        BY <1>1, <3>2, <3>3 DEF Stored, Onward, FollowInv, Email
      <3>4. CASE Arrived(t)
        <4>1. /\ \E k \in tokens : k.id = task'[t].token /\ k.kind = task'[t].kind /\ k.email = task'[t].email
              /\ \E k \in mails : k.id = task'[t].token /\ k.kind = task'[t].kind
          BY <1>1, <3>2, <3>4 DEF Arrived, Links, SignUps
        <4>2. PICK k \in tokens : k.id = task'[t].token /\ k.kind = task'[t].kind /\ k.email = task'[t].email
          BY <4>1
        <4>3. k \in mails
          BY <4>1, <4>2 DEF IdsInv
        <4>4. k = [id |-> k.id, kind |-> k.kind, email |-> k.email]
          BY DEF TypeInv, DataOK, Token
        <4> QED BY <3>2, <4>2, <4>3, <4>4
      <3> QED BY <3>2, <3>3, <3>4
    <2> QED BY <2>3, <2>4
  <1>2. ASSUME NEW i \in Ids, uses'[i] > 0
        PROVE  \E k \in mails : k.id = i
    <2>1. CASE uses' = uses
      BY <1>2, <2>1 DEF FollowInv
    <2>2. CASE t \in Tasks /\ Stored(t) /\ i = task[t].token
      <3>1. [id |-> task[t].token, kind |-> task[t].kind, email |-> Email(t)] \in mails
        BY <2>2 DEF Stored, Onward, FollowInv
      <3> QED BY <2>2, <3>1
    <2>3. CASE t \in Tasks /\ Stored(t) /\ i # task[t].token
      BY <1>2, <2>3 DEF Stored, FollowInv
    <2> QED BY <2>1, <2>2, <2>3 DEF Did, Rested, Inserted, Deleted, Saved, Mailed, Removed, Filled, Arrived, stores
  <1> QED BY <1>0, <1>1, <1>2 DEF FollowInv, Email

\* Who follows a link has it, and two that follow one link are of one account.
Followers ==
    \A t \in Tasks, step \in {"saveUser", "removeToken"} : At(t, step) =>
        /\ Running(t) /\ task[t].kind \in Links /\ task[t].token \in Ids /\ Email(t) \in Emails
        /\ task[t].kind \in Kinds /\ task[t].row \in User
OneAccount ==
    \A t, u \in Tasks :
        /\ Running(t) /\ Running(u)
        /\ task[t].kind \in Links /\ task[u].kind \in Links /\ task[t].token = task[u].token
        => task[t].kind = task[u].kind /\ Email(t) = Email(u)

LEMMA AtLink == TypeInv => Followers
  <1> SUFFICES ASSUME TypeInv, NEW t \in Tasks, NEW step \in {"saveUser", "removeToken"}, At(t, step)
               PROVE  /\ Running(t) /\ task[t].kind \in Links /\ task[t].token \in Ids /\ Email(t) \in Emails
                      /\ task[t].kind \in Kinds /\ task[t].row \in User
    BY DEF Followers
  <1>1. task[t] \in Task /\ Running(t) /\ Sound(task[t], users) /\ step \in StepsOf(task[t].kind)
        /\ task[t].step = step
    BY AtTask DEF TypeInv, Steps
  <1>2. task[t].kind \in Links
    BY <1>1 DEF StepsOf, SignUps, Links
  <1>3. step # None
    BY NoneIsNone DEF Steps
  <1> QED BY <1>1, <1>2, <1>3 DEF Sound, Email, Task

LEMMA SameLink == IdsInv /\ FollowInv => OneAccount
  <1> SUFFICES ASSUME IdsInv, FollowInv, NEW t \in Tasks, NEW u \in Tasks, Running(t), Running(u),
                      task[t].kind \in Links, task[u].kind \in Links, task[t].token = task[u].token
               PROVE  task[t].kind = task[u].kind /\ Email(t) = Email(u)
    BY DEF OneAccount
  <1> DEFINE k(v) == [id |-> task[v].token, kind |-> task[v].kind, email |-> Email(v)]
  <1>1. k(t) \in mails /\ k(u) \in mails
    BY DEF FollowInv
  <1>2. k(t) = k(u)
    BY <1>1 DEF IdsInv
  <1> QED BY <1>2

LEMMA LinkNext == ASSUME TypeInv', IdsInv', FollowInv' PROVE Followers' /\ OneAccount'
  BY AtLink, SameLink, PTL

LEMMA SpentStep ==
    ASSUME TypeInv, TypeInv', IdsInv, IdsInv', FollowInv, FollowInv', MetInv, MetInv', SpentInv, faults' >= faults,
           Remember, NEW t, Did(t)
    PROVE  SpentInv'
  <1>a. Followers /\ OneAccount /\ Followers' /\ OneAccount'
    BY AtLink, SameLink, LinkNext
  <1>0. faults \in Nat /\ faults' \in Nat /\ uses \in [Ids -> Nat]
    BY DEF TypeInv, CallsOK, DataOK
  <1>1. faults' = 0 => faults = 0
    BY <1>0
  <1>2. uses' = uses \/ (t \in Tasks /\ Stored(t))
    BY DEF Did, Rested, Inserted, Deleted, Saved, Mailed, Removed, Filled, Arrived, stores
  <1>3. t \in Tasks /\ Stored(t) => At(t, "saveUser") /\ task'[t].token = task[t].token /\ At(t, "removeToken")'
    BY DEF Stored, Onward, At
  <1>4. ASSUME faults' = 0, NEW i \in Ids, NEW k \in tokens', uses'[i] > 0, k.id = i
        PROVE  \E u \in Tasks : At(u, "removeToken")' /\ task'[u].token = i
    <2>1. CASE uses[i] > 0
      <3>1. PICK m \in mails : m.id = i
        BY <2>1 DEF FollowInv
      <3>2. k \in tokens
        <4>1. CASE t \in Tasks /\ Saved(t)
          <5>1. i <= given /\ given \in Nat
            BY <3>1 DEF IdsInv, TypeInv, DataOK
          <5>2. NewLink(t).id = given + 1
            BY <4>1 DEF NewLink, Saved
          <5> QED BY <1>4, <4>1, <5>1, <5>2 DEF Saved, Ids
        <4>2. CASE ~(t \in Tasks /\ Saved(t))
          BY <1>4, <4>2, LinksStay DEF Mailed
        <4> QED BY <4>1, <4>2
      <3>3. PICK u \in Tasks : At(u, "removeToken") /\ task[u].token = i
        BY <1>1, <1>4, <2>1, <3>2 DEF SpentInv
      <3>4. CASE task'[u] = task[u]
        BY <3>3, <3>4, MailStays
      <3>5. CASE task'[u] # task[u]
        <4>1. u = t /\ ~Rested
          BY <1>0, <1>4, <3>3, <3>5, Stays DEF Steps
        <4>2. Removed(t)
          BY <1>a, <3>3, <4>1 DEF Followers, Did, Inserted, Deleted, Saved, Mailed, Stored, Filled, Arrived,
                                  Onward, At, Running
        <4> QED BY <1>4, <3>3, <4>1, <4>2 DEF Removed
      <3> QED BY <3>4, <3>5
    <2>2. CASE ~(uses[i] > 0)
      <3>1. t \in Tasks /\ Stored(t) /\ i = task[t].token
        BY <1>0, <1>2, <1>4, <2>2 DEF Stored
      <3> QED BY <1>3, <3>1
    <2> QED BY <2>1, <2>2
  <1>5. ASSUME faults' = 0, NEW u \in Tasks, At(u, "saveUser")'
        PROVE  uses'[task'[u].token] = 0 \/ Met(Email(u), {task[u].kind}, {task[u].kind})'
    <2>0. /\ Running(u)' /\ task'[u].kind \in Links /\ task'[u].token \in Ids /\ task'[u].email \in Emails
          /\ task'[u].kind \in Kinds
      BY <1>a, <1>5 DEF Followers, Email
    <2> DEFINE i == task'[u].token
    <2>1. CASE task'[u] = task[u]
      <3>0. At(u, "saveUser") /\ Running(u) /\ Running(u)' /\ Email(u) \in Emails
        BY <1>5, <2>0, <2>1, MailStays DEF Email
      <3>1. uses[i] = 0 \/ Met(Email(u), {task[u].kind}, {task[u].kind})
        BY <1>1, <1>5, <2>1, <3>0 DEF SpentInv
      <3>2. uses'[i] = uses[i] \/ Met(Email(u), {task[u].kind}, {task[u].kind})
        <4>1. CASE t \in Tasks /\ Stored(t) /\ task[t].token = i
          <5>1. t # u
            BY <1>3, <1>5, <2>1, <4>1 DEF At
          <5>2. Running(t) /\ task[t].kind \in Links
            BY <1>a, <1>3, <4>1 DEF Followers
          <5>3. task[t].kind = task[u].kind /\ Email(t) = Email(u)
            BY <1>a, <2>0, <2>1, <3>0, <4>1, <5>2 DEF OneAccount
          <5> QED BY <3>0, <4>1, <5>1, <5>2, <5>3, MetNow
        <4>2. CASE ~(t \in Tasks /\ Stored(t) /\ task[t].token = i)
          BY <1>2, <2>0, <4>2 DEF Stored
        <4> QED BY <4>1, <4>2
      <3>3. Met(Email(u), {task[u].kind}, {task[u].kind}) => Met(Email(u), {task[u].kind}, {task[u].kind})'
        <4>1. PICK e \in Emails, kind \in Kinds : e = task[u].email /\ kind = task[u].kind
          BY <2>0, <2>1
        <4>2. Met(e, {kind}, {kind}) => Met(e, {kind}, {kind})'
          BY MetGrows
        <4> QED BY <2>1, <4>1, <4>2 DEF Email, Met
      <3> QED BY <3>1, <3>2, <3>3
    <2>2. CASE task'[u] # task[u]
      <3>1. u = t /\ t \in Tasks /\ Arrived(t)
        BY <1>5, <2>2, Came DEF Steps
      <3>2. uses' = uses /\ tokens' = tokens
        BY <3>1 DEF Arrived, stores
      <3>3. CASE uses[i] = 0
        BY <3>2, <3>3
      <3>4. CASE uses[i] > 0
        <4>1. PICK k \in tokens : k.id = i
          BY <2>0, <3>1 DEF Arrived, Links, SignUps
        <4>2. PICK v \in Tasks : At(v, "removeToken") /\ task[v].token = i
          BY <1>1, <1>5, <2>0, <3>4, <4>1 DEF SpentInv
        <4>3. v # t /\ Running(v) /\ task[v].kind \in Links
          BY <1>a, <3>1, <4>2 DEF Arrived, Followers
        <4>4. task'[v] = task[v] /\ Running(v)'
          BY <3>1, <4>3 DEF Arrived, Others, Running
        <4>5. task'[v].kind = task'[u].kind /\ Email(v)' = Email(u)'
          <5>1. task'[v].kind \in Links /\ task'[v].token = task'[u].token
            BY <4>2, <4>3, <4>4
          <5> QED BY <1>a, <2>0, <4>4, <5>1 DEF OneAccount
        <4>6. Met(Email(u), {task[u].kind}, {task[u].kind})'
          BY <2>0, <3>1, <4>3, <4>4, <4>5 DEF MetInv, Met, Email
        <4> QED BY <4>6
      <3> QED BY <1>0, <2>0, <3>3, <3>4
    <2> QED BY <2>1, <2>2
  <1>6. LinkIsSpent'
    <2>1. SUFFICES ASSUME NEW k \in mails', faults' = 0
                   PROVE  uses'[k.id] <= 1 \/ Met(k.email, {k.kind}, {k.kind})'
      BY <1>0 DEF LinkIsSpent
    <2>2. k \in Token
      BY DEF TypeInv, DataOK
    <2>3. k.id \in Ids /\ k.email \in Emails
      BY <2>2 DEF Token
    <2>4. CASE k \in mails /\ uses'[k.id] = uses[k.id]
      <3>1. uses[k.id] <= 1 \/ Met(k.email, {k.kind}, {k.kind})
        BY <1>0, <1>1, <2>1, <2>4 DEF SpentInv, LinkIsSpent
      <3> QED BY <2>3, <2>4, <3>1, MetGrows
    <2>5. CASE k \in mails /\ uses'[k.id] # uses[k.id]
      <3>1. t \in Tasks /\ Stored(t) /\ k.id = task[t].token /\ uses'[k.id] = uses[k.id] + 1
        BY <1>2, <2>3, <2>5 DEF Stored
      <3>2. At(t, "saveUser") /\ Running(t) /\ task[t].kind \in Links
        BY <1>a, <1>3, <3>1 DEF Followers
      <3>3. k = [id |-> task[t].token, kind |-> task[t].kind, email |-> Email(t)]
        <4> DEFINE l == [id |-> task[t].token, kind |-> task[t].kind, email |-> Email(t)]
        <4>1. l \in mails /\ l.id = k.id
          BY <3>1, <3>2 DEF FollowInv
        <4> HIDE DEF l
        <4>2. k = l
          BY <2>5, <4>1 DEF IdsInv
        <4> QED BY <4>2 DEF l
      <3>4. uses[k.id] = 0 \/ Met(k.email, {k.kind}, {k.kind})
        BY <1>1, <2>1, <3>1, <3>2, <3>3 DEF SpentInv
      <3> QED BY <2>3, <3>1, <3>4, MetGrows
    <2>6. CASE k \notin mails
      <3>1. t \in Tasks /\ Mailed(t) /\ k = MailOf(t) /\ uses' = uses
        BY <2>6, LinksStay DEF Saved, Mailed
      <3>2. At(t, "mail") /\ k.id = task[t].token
        BY <3>1 DEF Mailed, MailOf
      <3>3. ~(uses[k.id] > 0)
        BY <2>3, <3>1, <3>2 DEF FollowInv, IdsInv
      <3> QED BY <1>0, <2>3, <3>1, <3>3
    <2> QED BY <2>4, <2>5, <2>6
  <1> QED BY <1>4, <1>5, <1>6 DEF SpentInv

-------------------------------------------------------------------------------
(* An account has one link of a kind. *)

\* A request that is running came, or went on.
LEMMA Ran ==
    ASSUME TypeInv, NEW t, Did(t), NEW u \in Tasks, Running(u)'
    PROVE  \/ task'[u] = task[u] /\ Running(u)
           \/ u = t /\ t \in Tasks /\ Running(t) /\ task'[t].kind = task[t].kind /\ task'[t].email = task[t].email
           \/ u = t /\ t \in Tasks /\ Arrived(t)
  <1>1. task'[u] # None /\ task'[u].step # None
    BY DEF Running
  <1>2. CASE Rested
    BY <1>1, <1>2 DEF Rested, Turned, Finished, Stopped, Running
  <1>3. CASE ~Rested
    BY <1>1, <1>3 DEF Did, Inserted, Deleted, Saved, Mailed, Stored, Removed, Filled, Arrived, Onward, Others,
                      Running
  <1> QED BY <1>2, <1>3

LEMMA AtPast ==
    ASSUME TypeInv, NEW u \in Tasks, NEW e \in Emails, Past(u, e)
    PROVE  /\ At(u, "saveToken") \/ At(u, "mail")
           /\ Exists(e) /\ LinkOf(u) = "verify"
  <1>1. task[u] # None /\ Sound(task[u], users) /\ task[u].step # None
    BY DEF Past, Running, TypeInv, TasksOK
  <1>2. task[u].kind \in SignUps /\ task[u].step # "insertUser"
    BY DEF Past
  <1>3. task[u].step \in {"saveToken", "mail"}
    BY <1>1, <1>2 DEF Sound, StepsOf, SignUps, Links
  <1> QED BY <1>1, <1>2, <1>3 DEF Sound, At, Exists, LinkOf, SignUps, Past, Email

\* An account is made by one request, which is past that from then on.
LEMMA PastFrom ==
    ASSUME TypeInv, TasksOK', NEW t, Did(t), NEW u \in Tasks, NEW e \in Emails, Past(u, e)'
    PROVE  Past(u, e) \/ (u = t /\ t \in Tasks /\ Inserted(t) /\ e = Email(t))
  <1>1. /\ Running(u)' /\ task'[u].email = e /\ task'[u].kind \in SignUps /\ task'[u].step # "insertUser"
    BY DEF Past, Email
  <1>2. task'[u].step \in {"saveToken", "mail"} /\ task'[u] # None
    BY <1>1 DEF TasksOK, Sound, StepsOf, Running, SignUps, Links
  <1>3. CASE task'[u] = task[u]
    BY <1>1, <1>3 DEF Past, Running, Email
  <1>4. CASE task'[u] # task[u]
    <2>1. At(u, "saveToken")' \/ At(u, "mail")'
      BY <1>2 DEF At
    <2>2. u = t /\ t \in Tasks /\ (Inserted(t) \/ Deleted(t) \/ Saved(t))
      BY <1>4, <2>1, Came DEF Steps
    <2>3. ~Deleted(t)
      BY <1>1, <2>2 DEF Deleted, Onward, SignUps
    <2>4. CASE Inserted(t)
      BY <1>1, <2>2, <2>4 DEF Inserted, Onward, Email
    <2>5. CASE Saved(t)
      BY <1>1, <2>2, <2>5 DEF Saved, Onward, Past, Email, At
    <2> QED BY <2>2, <2>3, <2>4, <2>5
  <1> QED BY <1>3, <1>4

LEMMA SignedStays ==
    ASSUME TypeInv, TasksOK', NEW t, Did(t), NEW e \in Emails, Signed(e)
    PROVE  Signed(e)'
  <1>1. Exists(e)'
    BY AccountsStay DEF Signed
  <1>2. ASSUME NEW u \in Tasks, Past(u, e)' PROVE FALSE
    BY <1>2, PastFrom DEF Signed, Inserted
  <1> QED BY <1>1, <1>2 DEF Signed

LEMMA ResendStep ==
    ASSUME TypeInv, TasksOK', TabsOK', ResendInv, NEW t, Did(t), t \in Tasks \/ Rested,
           AStep(t) \/ (UNCHANGED <<tab, forms>> /\ Rested)
    PROVE  ResendInv'
  <1>0. "resend" # None /\ "register" # None
    BY NoneIsNone DEF Kinds
  <1>1. ASSUME NEW u \in Tasks, NEW v \in Tasks, NEW e \in Emails, Past(u, e)', Past(v, e)'
        PROVE  u = v
    <2>1. \A w \in Tasks : Past(w, e) => ~(t \in Tasks /\ Inserted(t) /\ e = Email(t))
      BY AtPast DEF Inserted
    <2> QED BY <1>1, <2>1, PastFrom DEF ResendInv
  <1>2. ASSUME NEW u \in Tasks, NEW e \in Emails, Running(u)', task'[u].kind = "resend", task'[u].email = e
        PROVE  Signed(e)'
    <2>1. Signed(e)
      <3>1. CASE u = t /\ t \in Tasks /\ Arrived(t)
        <4>1. PICK v \in Tasks : tab[v].page = "verify" /\ tab[v].email = e
          BY <1>2, <3>1 DEF Arrived
        <4> QED BY <4>1 DEF ResendInv
      <3>2. CASE Running(u) /\ task[u].kind = "resend" /\ task[u].email = e
        BY <3>2 DEF ResendInv, Email
      <3> QED BY <1>2, <3>1, <3>2, Ran
    <2> QED BY <2>1, SignedStays
  <1>3. ASSUME NEW u \in Tasks, NEW e \in Emails, tab'[u].page = "verify", tab'[u].email = e
        PROVE  Signed(e)'
    <2>0. e # None
      BY NoneIsNone
    <2>1. Signed(e)
      <3>1. CASE tab'[u] = tab[u]
        BY <1>3, <3>1 DEF ResendInv
      <3>2. CASE u = t /\ Acted(t)
        <4>1. PICK v \in Tasks : tab[v].page = "verify" /\ tab[v].email = e
          BY <1>3, <2>0, <3>2 DEF Acted, Browsed
        <4> QED BY <4>1 DEF ResendInv
      <3>3. CASE u = t /\ Settled(t)
        BY <1>3, <3>3 DEF Settled, ResendInv, Running
      <3> QED BY <3>1, <3>2, <3>3 DEF AStep, Acted, Browsed, Settled, Alone
    <2> QED BY <2>1, SignedStays
  <1>4. ASSUME NEW u \in Tasks, NEW e \in Emails, tab'[u].wait = "resend"
        PROVE  tab'[u].page = "verify"
    BY <1>0, <1>4 DEF ResendInv, AStep, Acted, Browsed, Settled, Alone
  <1>5. ASSUME NEW u \in Tasks, NEW e \in Emails, tab'[u].wait = "register", task'[u] # None
        PROVE  /\ task'[u].kind = "register" /\ task'[u].email = tab'[u].email
               /\ task'[u].step # None \/ task'[u].failed \/ (tab'[u].email = e => Signed(e)')
    <2>1. CASE tab'[u] = tab[u]
      <3>1. /\ task[u] # None /\ task'[u].kind = task[u].kind /\ task'[u].email = task[u].email
            /\ task'[u] # task[u] => Running(u)
        <4>1. CASE task'[u] = task[u]
          BY <1>5, <4>1
        <4>2. CASE task'[u] # task[u] /\ t \in Tasks
          BY <1>0, <1>5, <2>1, <4>2, TaskOf
        <4>3. CASE task'[u] # task[u] /\ Rested
          BY <1>0, <1>5, <2>1, <4>3 DEF Rested, Turned, Finished, Stopped, Running
        <4> QED BY <4>1, <4>2, <4>3
      <3>2. task[u].kind = "register" /\ task[u].email = tab[u].email
        BY <1>5, <2>1, <3>1 DEF ResendInv
      <3>3. CASE task'[u] = task[u]
        <4>1. Signed(e) => Signed(e)'
          BY SignedStays
        <4> QED BY <1>5, <2>1, <3>1, <3>2, <3>3, <4>1 DEF ResendInv
      <3>4. CASE task'[u] # task[u] /\ task'[u].step = None /\ ~task'[u].failed /\ tab[u].email = e
        <4>1. Running(u) /\ Sound(task[u], users) /\ task[u].step # None
          BY <3>1, <3>4 DEF TypeInv, TasksOK, Running
        <4>2. task[u].step \in {"insertUser", "saveToken", "mail"}
          BY <3>2, <4>1 DEF Sound, StepsOf, SignUps, Links
        <4>3. ~Rested
          <5>1. ~Turned(u) /\ ~Stopped(u)
            BY <1>5, <4>1 DEF Turned, Stopped
          <5>2. ~Finished(u)
            BY <3>4, <4>2 DEF Finished, At
          <5> QED BY <3>4, <5>1, <5>2 DEF Rested
        <4>4. u = t /\ t \in Tasks /\ Mailed(t)
          <5>1. u = t /\ t \in Tasks
            BY <3>4, <4>3 DEF Did, Inserted, Deleted, Saved, Mailed, Stored, Removed, Filled, Arrived, Onward,
                              Others
          <5>2. ~Removed(t) /\ ~Arrived(t)
            BY <3>2, <4>1, <5>1 DEF Removed, Arrived, Links
          <5>3. "saveToken" # None /\ "mail" # None /\ "removeToken" # None /\ "updateUser" # None
                /\ "findUpdated" # None
            BY NoneIsNone DEF Steps
          <5> QED BY <3>4, <4>3, <5>1, <5>2, <5>3 DEF Did, Inserted, Deleted, Saved, Stored, Filled, Onward
        <4>5. Past(t, e)
          BY <3>2, <3>4, <4>1, <4>4 DEF Past, Mailed, At, Email, SignUps
        <4>6. \A v \in Tasks : ~Past(v, e)'
          <5>1. ASSUME NEW v \in Tasks, Past(v, e)' PROVE FALSE
            <6>1. Past(v, e)
              BY <4>4, <5>1, PastFrom DEF Inserted, Mailed, Onward, At
            <6>2. v = t
              BY <4>4, <4>5, <6>1 DEF ResendInv
            <6> QED BY <3>4, <4>4, <5>1, <6>2 DEF Past, Running
          <5> QED BY <5>1
        <4>7. Exists(e)'
          BY <4>4, <4>5, AtPast, AccountsStay
        <4> QED BY <1>5, <2>1, <3>1, <3>2, <4>6, <4>7 DEF Signed
      <3> QED BY <2>1, <3>1, <3>2, <3>3, <3>4
    <2>2. CASE u = t /\ Acted(t)
      BY <1>5, <2>2 DEF Acted, Browsed
    <2>3. CASE u = t /\ Settled(t)
      BY <1>0, <1>5, <2>3 DEF Settled
    <2> QED BY <2>1, <2>2, <2>3 DEF AStep, Acted, Browsed, Settled, Alone
  <1> QED BY <1>1, <1>2, <1>3, <1>4, <1>5 DEF ResendInv, Email

LEMMA DoubledGrows ==
    ASSUME TypeInv, Remember, NEW e \in Emails, NEW kind, Doubled(e, kind)
    PROVE  Doubled(e, kind)'
  <1>1. /\ Met(e, {"resend"}, {"resend"}) => Met(e, {"resend"}, {"resend"})'
        /\ Met(e, {"forgot"}, {"forgot"}) => Met(e, {"forgot"}, {"forgot"})'
    BY MetGrows
  <1> QED BY <1>1 DEF Doubled

LEMMA AtMailer ==
    ASSUME TypeInv, NEW u \in Tasks, NEW step \in {"deleteTokens", "saveToken", "mail"}, At(u, step)
    PROVE  /\ Running(u) /\ Email(u) \in Emails /\ task[u].kind \in Mailers
           /\ task[u].step = step /\ LinkOf(u) \in Links
           /\ task[u].kind \in SignUps => step # "deleteTokens"
  <1>1. task[u] \in Task /\ Running(u) /\ step \in StepsOf(task[u].kind) /\ task[u].step = step
    BY AtTask DEF TypeInv, Steps
  <1> QED BY <1>1 DEF StepsOf, Mailers, SignUps, Links, LinkOf, Email, Task

\* Two that make a link of one kind for an account are two that resend it.
LEMMA TwoMailers ==
    ASSUME TypeInv, MetInv, ResendInv, NEW t \in Tasks, NEW u \in Tasks, t # u,
           At(t, "deleteTokens") \/ At(t, "saveToken"), At(u, "saveToken") \/ At(u, "mail"),
           Email(t) = Email(u), LinkOf(t) = LinkOf(u)
    PROVE  Doubled(Email(t), LinkOf(t))
  <1>1. /\ Running(t) /\ Running(u) /\ Email(t) \in Emails
        /\ task[t].kind \in Mailers /\ task[u].kind \in Mailers
        /\ task[t].step # "insertUser" /\ task[u].step # "insertUser"
    BY AtMailer
  <1>2. CASE LinkOf(t) = "reset"
    <2>1. task[t].kind = "forgot" /\ task[u].kind = "forgot"
      BY <1>2 DEF LinkOf
    <2> QED BY <1>1, <1>2, <2>1, MetNow DEF Doubled
  <1>3. CASE LinkOf(t) = "verify"
    <2>1. task[t].kind \in SignUps \cup {"resend"} /\ task[u].kind \in SignUps \cup {"resend"}
      BY <1>1, <1>3 DEF LinkOf, Mailers
    <2>2. task[t].kind \in SignUps => Past(t, Email(t))
      BY <1>1 DEF Past
    <2>3. task[u].kind \in SignUps => Past(u, Email(t))
      BY <1>1 DEF Past
    <2>4. task[t].kind = "resend" /\ task[u].kind = "resend"
      BY <1>1, <2>1, <2>2, <2>3 DEF ResendInv, Signed, SignUps
    <2> QED BY <1>1, <1>3, <2>4, MetNow DEF Doubled
  <1> QED BY <1>1, <1>2, <1>3 DEF LinkOf

LEMMA LiveStep ==
    ASSUME TypeInv, TypeInv', IdsInv, FollowInv, MetInv, ResendInv, LiveInv, Remember, NEW t, Did(t)
    PROVE  LiveInv'
  <1>0. "saveToken" \in Steps /\ "mail" \in Steps
    BY DEF Steps
  <1>1. ASSUME NEW u \in Tasks, At(u, "saveToken")'
        PROVE  TokensOf(Email(u), LinkOf(u))' = {} \/ Doubled(Email(u), LinkOf(u))'
    <2>1. CASE task'[u] = task[u]
      <3>1. At(u, "saveToken") /\ Email(u)' = Email(u) /\ LinkOf(u)' = LinkOf(u) /\ Email(u) \in Emails
            /\ LinkOf(u) \in Links
        BY <1>1, <2>1, MailStays, AtMailer
      <3>2. PICK e \in Emails, link \in Links : e = Email(u) /\ link = LinkOf(u)
        BY <3>1
      <3>3. TokensOf(e, link) = {} \/ Doubled(e, link)
        BY <3>1, <3>2 DEF LiveInv
      <3>4. TokensOf(e, link)' \subseteq TokensOf(e, link) \/ Doubled(e, link)
        <4>1. CASE t \in Tasks /\ Saved(t) /\ Email(t) = e /\ LinkOf(t) = link
          <5>1. t # u /\ At(t, "saveToken")
            BY <2>1, <4>1, <3>1 DEF Saved, Onward, At
          <5> QED BY <3>1, <3>2, <4>1, <5>1, TwoMailers
        <4>2. CASE t \in Tasks /\ Saved(t) /\ ~(Email(t) = e /\ LinkOf(t) = link)
          BY <4>2 DEF Saved, NewLink, TokensOf
        <4>3. CASE ~(t \in Tasks /\ Saved(t))
          BY <4>3, LinksStay DEF TokensOf, Mailed
        <4> QED BY <4>1, <4>2, <4>3
      <3>5. Doubled(e, link) => Doubled(e, link)'
        BY DoubledGrows
      <3> QED BY <3>1, <3>2, <3>3, <3>4, <3>5 DEF TokensOf, Doubled, Met
    <2>2. CASE task'[u] # task[u]
      <3>1. u = t /\ t \in Tasks /\ (Inserted(t) \/ Deleted(t))
        BY <1>0, <1>1, <2>2, Came
      <3>2. CASE Inserted(t)
        <4>1. ~Exists(Email(t)) /\ tokens' = tokens /\ task'[t].email = Email(t)
          BY <3>2 DEF Inserted, Onward, Email
        <4>2. \A k \in tokens : k.email # Email(t)
          BY <4>1 DEF TypeInv, OwnersOK
        <4> QED BY <3>1, <4>1, <4>2 DEF TokensOf, Email
      <3>3. CASE Deleted(t)
        BY <3>1, <3>3 DEF Deleted, Onward, TokensOf, Email, LinkOf
      <3> QED BY <3>1, <3>2, <3>3
    <2> QED BY <2>1, <2>2
  <1>2. ASSUME NEW u \in Tasks, At(u, "mail")'
        PROVE  (MailOf(u) \in tokens)' \/ Doubled(Email(u), LinkOf(u))'
    <2>1. CASE task'[u] = task[u]
      <3>1. At(u, "mail") /\ Email(u)' = Email(u) /\ LinkOf(u)' = LinkOf(u) /\ Email(u) \in Emails
            /\ LinkOf(u) \in Links
            /\ MailOf(u)' = MailOf(u)
        BY <1>2, <2>1, MailStays, AtMailer
      <3>2. PICK e \in Emails, link \in Links : e = Email(u) /\ link = LinkOf(u)
        BY <3>1
      <3>3. MailOf(u) \in tokens \/ Doubled(e, link)
        BY <3>1, <3>2 DEF LiveInv
      <3>4. MailOf(u) \in tokens => MailOf(u) \in tokens' \/ Doubled(e, link)
        <4>1. CASE t \in Tasks /\ Deleted(t) /\ Email(t) = e /\ LinkOf(t) = link
          <5>1. t # u /\ At(t, "deleteTokens")
            BY <2>1, <4>1, <3>1 DEF Deleted, Onward, At
          <5> QED BY <3>1, <3>2, <4>1, <5>1, TwoMailers
        <4>2. CASE t \in Tasks /\ Deleted(t) /\ ~(Email(t) = e /\ LinkOf(t) = link)
          BY <3>2, <4>2 DEF Deleted, MailOf, TokensOf
        <4>3. CASE t \in Tasks /\ Removed(t)
          <5>1. [id |-> task[t].token, kind |-> task[t].kind, email |-> Email(t)] \in mails
            BY <4>3 DEF Removed, FollowInv
          <5>2. MailOf(u).id # task[t].token
            BY <3>1, <5>1 DEF IdsInv, MailOf
          <5> QED BY <4>3, <5>2 DEF Removed
        <4>4. CASE ~(t \in Tasks /\ (Deleted(t) \/ Removed(t)))
          <5>1. tokens \subseteq tokens'
            BY <4>4 DEF Did, Rested, Inserted, Saved, Mailed, Stored, Filled, Arrived, stores
          <5> QED BY <5>1
        <4> QED BY <4>1, <4>2, <4>3, <4>4
      <3>5. Doubled(e, link) => Doubled(e, link)'
        BY DoubledGrows
      <3> QED BY <3>1, <3>2, <3>3, <3>4, <3>5 DEF Doubled, Met
    <2>2. CASE task'[u] # task[u]
      <3>1. u = t /\ t \in Tasks /\ Saved(t)
        BY <1>0, <1>2, <2>2, Came
      <3> QED BY <3>1 DEF Saved, Onward, MailOf, NewLink, LinkOf, Email
    <2> QED BY <2>1, <2>2
  <1>3. ASSUME NEW e \in Emails, NEW link \in Links
        PROVE  Single(e, link)' \/ Doubled(e, link)'
    <2>1. Single(e, link) \/ Doubled(e, link)
      BY DEF LiveInv
    <2>2. Single(e, link) => Single(e, link)' \/ Doubled(e, link)
      <3>1. CASE t \in Tasks /\ Saved(t) /\ Email(t) = e /\ LinkOf(t) = link
        <4>1. At(t, "saveToken")
          BY <3>1 DEF Saved, Onward
        <4>2. TokensOf(e, link) = {} \/ Doubled(e, link)
          BY <3>1, <4>1 DEF LiveInv
        <4> QED BY <3>1, <4>2 DEF Saved, TokensOf, Single
      <3>2. CASE t \in Tasks /\ Saved(t) /\ ~(Email(t) = e /\ LinkOf(t) = link)
        BY <3>2 DEF Saved, NewLink, TokensOf, Single
      <3>3. CASE ~(t \in Tasks /\ Saved(t))
        BY <3>3, LinksStay DEF TokensOf, Single, Mailed
      <3> QED BY <3>1, <3>2, <3>3
    <2>3. Doubled(e, link) => Doubled(e, link)'
      BY DoubledGrows
    <2> QED BY <2>1, <2>2, <2>3
  <1> QED BY <1>1, <1>2, <1>3 DEF LiveInv

-------------------------------------------------------------------------------
(* What is undone is undone by requests that met. *)

\* What happens to a row that there is.
LEMMA RowStep ==
    ASSUME TypeInv, NEW t, Did(t), NEW e \in Emails, Exists(e)
    PROVE  \/ users'[e] = users[e]
           \/ t \in Tasks /\ Email(t) = e /\ (Stored(t) \/ Filled(t))
  BY DEF Did, Rested, Inserted, Deleted, Saved, Mailed, Stored, Removed, Filled, Arrived, stores

LEMMA AtRow ==
    ASSUME TypeInv, NEW u \in Tasks,
           NEW step \in {"saveUser", "removeToken", "compare", "saveLocation", "updateUser", "findUpdated"}, At(u, step)
    PROVE  /\ Running(u) /\ task[u] \in Task /\ Email(u) \in Emails /\ Exists(Email(u)) /\ task[u].step = step
           /\ step \in {"saveUser", "removeToken"} => task[u].kind \in Links
           /\ step = "compare" => task[u].kind = "login"
           /\ step \in {"saveLocation", "updateUser", "findUpdated"} => task[u].kind = "update"
  <1>1. task[u] \in Task /\ Running(u) /\ Sound(task[u], users) /\ step \in StepsOf(task[u].kind)
        /\ task[u].step = step
    BY AtTask DEF TypeInv, Steps
  <1>2. step # None
    BY NoneIsNone DEF Steps
  <1> QED BY <1>1, <1>2 DEF Sound, StepsOf, SignUps, Links, Email, Task, Exists

LEMMA StaleStep ==
    ASSUME TypeInv, TypeInv', MetInv, StaleInv, Remember, NEW t, Did(t)
    PROVE  StaleInv'
  <1> DEFINE Read(u, e) ==
               LET row == task[u].row
               IN  /\ At(u, "saveUser") /\ task[u].kind = "verify" =>
                         row.password = users[e].password \/ Met(e, {"reset"}, {"verify"})
                   /\ At(u, "saveUser") /\ task[u].kind = "reset" =>
                         row.verified = users[e].verified \/ Met(e, {"reset"}, {"verify"})
                   /\ At(u, "saveUser") => \A f \in {"phone", "about"} :
                         row.profile[f] = users[e].profile[f] \/ Met(e, {"update"}, {"verify", "reset"})
                   /\ At(u, "compare") =>
                         row.password = users[e].password \/ Met(e, {"login"}, {"reset", "verify"})
  <1>1. ASSUME NEW u \in Tasks, NEW e \in Emails, task'[u] = task[u], Email(u) = e,
               At(u, "saveUser") \/ At(u, "compare")
        PROVE  Read(u, e)'
    <2>1. /\ Running(u) /\ Exists(e)
          /\ At(u, "saveUser") => task[u].kind \in Links
          /\ At(u, "compare") => task[u].kind = "login"
      BY <1>1, AtRow
    <2>2. Read(u, e)
      BY <1>1 DEF StaleInv
    <2>3. /\ Met(e, {"reset"}, {"verify"}) => Met(e, {"reset"}, {"verify"})'
          /\ Met(e, {"update"}, {"verify", "reset"}) => Met(e, {"update"}, {"verify", "reset"})'
          /\ Met(e, {"login"}, {"reset", "verify"}) => Met(e, {"login"}, {"reset", "verify"})'
      BY MetGrows
    <2>4. At(u, "saveUser")' <=> At(u, "saveUser")
      BY <1>1, MailStays
    <2>5. At(u, "compare")' <=> At(u, "compare")
      BY <1>1, MailStays
    <2>6. CASE users'[e] = users[e]
      BY <1>1, <2>2, <2>3, <2>4, <2>5, <2>6
    <2>7. CASE t \in Tasks /\ Email(t) = e /\ Stored(t)
      <3>1. At(t, "saveUser") /\ Running(t) /\ task[t].kind \in Links /\ t # u /\ Read(t, e)
        BY <1>1, <2>7, AtRow DEF Stored, Onward, At, StaleInv
      <3>2. task[t].kind = "reset" /\ task[u].kind = "verify" => Met(e, {"reset"}, {"verify"})
        BY <1>1, <2>1, <2>7, <3>1, MetNow
      <3>3. task[t].kind = "verify" /\ task[u].kind = "reset" => Met(e, {"reset"}, {"verify"})
        BY <1>1, <2>1, <2>7, <3>1, MetNow
      <3>4. task[u].kind = "login" => Met(e, {"login"}, {"reset", "verify"})
        BY <1>1, <2>1, <2>7, <3>1, MetNow DEF Links
      <3>5. /\ users'[e].verified = (task[t].kind = "verify" \/ task[t].row.verified)
            /\ users'[e].password = IF task[t].kind = "verify" THEN task[t].row.password ELSE task[t].password
            /\ \A f \in {"phone", "about"} : users'[e].profile[f] = task[t].row.profile[f]
        BY <2>7 DEF Stored
      <3>6. task[t].kind \in {"verify", "reset"}
        BY <3>1 DEF Links
      <3>7. CASE At(u, "saveUser") /\ task[u].kind = "verify"
        <4>1. task[u].row.password = users'[e].password \/ Met(e, {"reset"}, {"verify"})
          BY <2>2, <3>1, <3>2, <3>5, <3>6, <3>7
        <4>2. \A f \in {"phone", "about"} :
                 task[u].row.profile[f] = users'[e].profile[f] \/ Met(e, {"update"}, {"verify", "reset"})
          BY <2>2, <3>1, <3>5, <3>7
        <4>3. ~At(u, "compare")
          BY <3>7 DEF At
        <4> QED BY <1>1, <2>3, <2>4, <2>5, <3>7, <4>1, <4>2, <4>3
      <3>8. CASE At(u, "saveUser") /\ task[u].kind = "reset"
        <4>1. task[u].row.verified = users'[e].verified \/ Met(e, {"reset"}, {"verify"})
          <5>1. CASE task[t].kind = "verify"
            BY <3>3, <3>8, <5>1
          <5>2. CASE task[t].kind = "reset"
            <6>1. task[t].row.verified \in BOOLEAN
              <7>1. task[t].row \in User
                BY <2>7, <3>1, AtLink DEF Followers
              <7> QED BY <7>1 DEF User
            <6>2. users'[e].verified = task[t].row.verified
              BY <3>5, <5>2, <6>1
            <6>3. task[t].row.verified = users[e].verified \/ Met(e, {"reset"}, {"verify"})
              BY <3>1, <5>2
            <6>4. task[u].row.verified = users[e].verified \/ Met(e, {"reset"}, {"verify"})
              BY <2>2, <3>8
            <6> QED BY <6>2, <6>3, <6>4
          <5> QED BY <3>6, <5>1, <5>2
        <4>2. \A f \in {"phone", "about"} :
                 task[u].row.profile[f] = users'[e].profile[f] \/ Met(e, {"update"}, {"verify", "reset"})
          BY <2>2, <3>1, <3>5, <3>8
        <4>3. ~At(u, "compare")
          BY <3>8 DEF At
        <4> QED BY <1>1, <2>3, <2>4, <2>5, <3>8, <4>1, <4>2, <4>3
      <3>9. CASE At(u, "compare")
        BY <1>1, <2>1, <2>3, <2>4, <2>5, <3>4, <3>9 DEF At
      <3> QED BY <1>1, <2>1, <3>7, <3>8, <3>9 DEF Links
    <2>8. CASE t \in Tasks /\ Email(t) = e /\ Filled(t)
      <3>1. Running(t) /\ task[t].kind = "update"
        BY <2>8 DEF Filled, Onward
      <3>2. task[u].kind \in Links => Met(e, {"update"}, {"verify", "reset"})
        BY <1>1, <2>1, <2>8, <3>1, MetNow DEF Links
      <3>3. users'[e].verified = users[e].verified /\ users'[e].password = users[e].password
        BY <2>8 DEF Filled
      <3> QED BY <1>1, <2>1, <2>2, <2>3, <2>4, <2>5, <3>2, <3>3
    <2> QED BY <2>1, <2>6, <2>7, <2>8, RowStep
  <1>2. ASSUME NEW u \in Tasks, NEW e \in Emails, task'[u] # task[u], task'[u].email = e,
               At(u, "saveUser")' \/ At(u, "compare")'
        PROVE  Read(u, e)'
    <2>1. u = t /\ t \in Tasks /\ Arrived(t)
      BY <1>2, Came DEF Steps
    <2>2. task'[t].row = users[e] /\ users' = users
      BY <1>2, <2>1 DEF Arrived, At, stores
    <2> QED BY <2>1, <2>2
  <1>3. ASSUME NEW u \in Tasks, At(u, "saveUser")' \/ At(u, "compare")'
        PROVE  Read(u, task[u].email)'
    <2>1. task'[u].email \in Emails
      BY <1>3 DEF At, TypeInv, TasksOK, Task
    <2>2. PICK e \in Emails : e = task'[u].email
      BY <2>1
    <2>3. task'[u] = task[u] => (At(u, "saveUser") \/ At(u, "compare")) /\ Email(u) = e
      BY <1>3, <2>2 DEF At, Email
    <2>4. Read(u, e)'
      BY <1>1, <1>2, <1>3, <2>2, <2>3
    <2> QED BY <2>2, <2>4 DEF Met
  <1> QED BY <1>3 DEF StaleInv, Email

LEMMA DoneStep ==
    ASSUME TypeInv, TypeInv', MetInv, DoneInv, Remember, NEW t, Did(t)
    PROVE  DoneInv'
  <1> DEFINE Holds(u, e, f) == task[u].profile[f] \in {None, users[e].profile[f]}
             Wrote(u, e) ==
               /\ At(u, "removeToken") /\ task[u].kind = "verify" =>
                     users[e].verified \/ Met(e, {"reset"}, {"verify"})
               /\ At(u, "removeToken") /\ task[u].kind = "reset" =>
                     users[e].password = task[u].password \/ Met(e, {"reset"}, {"reset", "verify"})
               /\ At(u, "updateUser") =>
                     Holds(u, e, "location") \/ Met(e, {"update"}, {"update", "verify", "reset"})
               /\ At(u, "findUpdated") => \A f \in Fields :
                     Holds(u, e, f) \/ Met(e, {"update"}, {"update", "verify", "reset"})
             Writing(u) == At(u, "removeToken") \/ At(u, "updateUser") \/ At(u, "findUpdated")
  <1>1. ASSUME NEW u \in Tasks, NEW e \in Emails, task'[u] = task[u], Email(u) = e, Writing(u)
        PROVE  Wrote(u, e)'
    <2>1. /\ Running(u) /\ Exists(e)
          /\ At(u, "removeToken") => task[u].kind \in Links
          /\ At(u, "updateUser") \/ At(u, "findUpdated") => task[u].kind = "update"
      BY <1>1, AtRow
    <2>2. Wrote(u, e)
      BY <1>1 DEF DoneInv
    <2>3. /\ Met(e, {"reset"}, {"verify"}) => Met(e, {"reset"}, {"verify"})'
          /\ Met(e, {"reset"}, {"reset", "verify"}) => Met(e, {"reset"}, {"reset", "verify"})'
          /\ Met(e, {"update"}, {"update", "verify", "reset"}) =>
                Met(e, {"update"}, {"update", "verify", "reset"})'
      BY MetGrows
    <2>4. /\ At(u, "removeToken")' <=> At(u, "removeToken")
          /\ At(u, "updateUser")' <=> At(u, "updateUser")
          /\ At(u, "findUpdated")' <=> At(u, "findUpdated")
      BY <1>1, MailStays
    <2>5. CASE users'[e] = users[e]
      BY <1>1, <2>2, <2>3, <2>4, <2>5
    <2>6. CASE t \in Tasks /\ Email(t) = e /\ Stored(t)
      <3>1. Running(t) /\ task[t].kind \in {"verify", "reset"} /\ t # u
        BY <1>1, <2>6 DEF Stored, Onward, At, Links
      <3>2. task[u].kind = "verify" /\ task[t].kind = "reset" => Met(e, {"reset"}, {"verify"})
        BY <1>1, <2>1, <2>6, <3>1, MetNow
      <3>3. task[u].kind = "reset" => Met(e, {"reset"}, {"reset", "verify"})
        BY <1>1, <2>1, <2>6, <3>1, MetNow
      <3>4. task[u].kind = "update" => Met(e, {"update"}, {"update", "verify", "reset"})
        BY <1>1, <2>1, <2>6, <3>1, MetNow
      <3>5. task[t].kind = "verify" => users'[e].verified
        BY <2>6 DEF Stored
      <3> QED BY <1>1, <2>1, <2>3, <2>4, <3>1, <3>2, <3>3, <3>4, <3>5
    <2>7. CASE t \in Tasks /\ Email(t) = e /\ Filled(t)
      <3>1. Running(t) /\ task[t].kind = "update" /\ t # u
        BY <1>1, <2>7 DEF Filled, Onward, At
      <3>2. task[u].kind = "update" => Met(e, {"update"}, {"update", "verify", "reset"})
        BY <1>1, <2>1, <2>7, <3>1, MetNow
      <3>3. users'[e].verified = users[e].verified /\ users'[e].password = users[e].password
        BY <2>7 DEF Filled
      <3> QED BY <1>1, <2>1, <2>2, <2>3, <2>4, <3>2, <3>3
    <2> QED BY <2>1, <2>5, <2>6, <2>7, RowStep
  <1>2. ASSUME NEW u \in Tasks, NEW e \in Emails, task'[u] # task[u], task'[u].email = e, Writing(u)'
        PROVE  Wrote(u, e)'
    <2>1. CASE At(u, "removeToken")'
      <3>1. u = t /\ t \in Tasks /\ Stored(t)
        BY <1>2, <2>1, Came DEF Steps
      <3>2. /\ e = Email(t) /\ task'[t].kind = task[t].kind /\ task'[t].password = task[t].password
            /\ task'[t].step = "removeToken"
        BY <1>2, <3>1 DEF Stored, Onward, Email
      <3>3. task[t].kind = "verify" => users'[e].verified
        BY <3>1, <3>2 DEF Stored
      <3>4. task[t].kind = "reset" => users'[e].password = task[t].password
        BY <3>1, <3>2 DEF Stored
      <3> QED BY <3>1, <3>2, <3>3, <3>4 DEF At
    <2>2. CASE At(u, "updateUser")'
      <3>1. u = t /\ t \in Tasks /\ (Arrived(t) \/ Filled(t)) /\ task'[t].step = "updateUser"
        BY <1>2, <2>2, Came DEF Steps, At
      <3>2. CASE Arrived(t)
        BY <3>1, <3>2 DEF Arrived, At
      <3>3. CASE Filled(t)
        <4>1. /\ e = Email(t) /\ Onward(t, "saveLocation", "updateUser")
              /\ users'[e].profile["location"] = task[t].profile["location"]
          BY <1>2, <3>1, <3>3 DEF Filled, Onward, Email
        <4>2. task'[t].profile = task[t].profile
          BY <4>1 DEF Onward
        <4> QED BY <3>1, <4>1, <4>2 DEF At
      <3> QED BY <3>1, <3>2, <3>3
    <2>3. CASE At(u, "findUpdated")'
      <3>1. u = t /\ t \in Tasks /\ Filled(t) /\ task'[t].step = "findUpdated"
        BY <1>2, <2>3, Came DEF Steps, At
      <3>2. /\ e = Email(t) /\ Onward(t, "updateUser", "findUpdated")
            /\ users'[e].profile["location"] = users[e].profile["location"]
            /\ \A f \in {"phone", "about"} :
                  users'[e].profile[f] = IF task[t].profile[f] # None THEN task[t].profile[f] ELSE users[e].profile[f]
        BY <1>2, <3>1 DEF Filled, Onward, Email
      <3>3. task'[t].profile = task[t].profile /\ At(t, "updateUser")
        BY <3>2 DEF Onward
      <3>4. Holds(t, e, "location") \/ Met(e, {"update"}, {"update", "verify", "reset"})
        BY <3>1, <3>2, <3>3 DEF DoneInv
      <3>5. Holds(t, e, "location")' \/ Met(e, {"update"}, {"update", "verify", "reset"})'
        BY <3>2, <3>3, <3>4, MetGrows
      <3>6. \A f \in {"phone", "about"} : Holds(t, e, f)'
        BY <3>2, <3>3
      <3> QED BY <3>1, <3>5, <3>6 DEF At, Fields
    <2> QED BY <1>2, <2>1, <2>2, <2>3
  <1>3. ASSUME NEW u \in Tasks, Writing(u)'
        PROVE  Wrote(u, task[u].email)'
    <2>1. task'[u].email \in Emails
      BY <1>3 DEF At, TypeInv, TasksOK, Task
    <2>2. PICK e \in Emails : e = task'[u].email
      BY <2>1
    <2>3. task'[u] = task[u] => Writing(u) /\ Email(u) = e
      BY <1>3, <2>2 DEF At, Email
    <2>4. Wrote(u, e)'
      BY <1>1, <1>2, <1>3, <2>2, <2>3
    <2> QED BY <2>2, <2>4 DEF Met
  <1> QED BY <1>3 DEF DoneInv, Email

LEMMA HopeStep ==
    ASSUME TypeInv, TypeInv', IdsInv, FollowInv, MetInv, StaleInv, DoneInv, HopeInv, Remember, faults' >= faults,
           NEW t, Did(t)
    PROVE  HopeInv'
  <1>0. mails \subseteq mails'
    BY LinksStay DEF Mailed, Saved
  <1> SUFFICES ASSUME NEW e \in Emails, Exists(e)', ~users'[e].verified, faults' = 0
               PROVE  Hope(e)' \/ Met(e, {"reset"}, {"verify"})'
    BY DEF HopeInv
  <1>1. faults = 0
    BY DEF TypeInv, CallsOK
  <1>2. Met(e, {"reset"}, {"verify"}) => Met(e, {"reset"}, {"verify"})'
    BY MetGrows
  <1>3. CASE ~Exists(e)
    <2>1. \A u \in Tasks : Stored(u) \/ Filled(u) => Exists(Email(u))
      BY AtRow DEF Stored, Filled, Onward
    <2>2. t \in Tasks /\ Inserted(t) /\ Email(t) = e
      BY <1>3, <2>1 DEF Did, Rested, Inserted, Deleted, Saved, Mailed, Stored, Removed, Filled, Arrived,
                        stores, Exists
    <2>3. At(t, "saveToken")' /\ Email(t)' = e /\ LinkOf(t)' = "verify"
      BY <2>2 DEF Inserted, Onward, At, Email, LinkOf, SignUps
    <2> QED BY <2>2, <2>3 DEF Hope
  <1>4. CASE Exists(e) /\ users[e].verified
    <2>1. t \in Tasks /\ Email(t) = e /\ Stored(t)
      BY <1>4, RowStep DEF Filled
    <2>2. At(t, "saveUser") /\ task[t].kind = "reset" /\ ~task[t].row.verified
      BY <2>1 DEF Stored, Onward, Links
    <2>3. Met(e, {"reset"}, {"verify"})
      BY <1>4, <2>1, <2>2 DEF StaleInv
    <2> QED BY <1>2, <2>3
  <1>5. CASE Exists(e) /\ ~users[e].verified
    <2>1. Hope(e) \/ Met(e, {"reset"}, {"verify"})
      BY <1>1, <1>5 DEF HopeInv
    <2>2. ASSUME NEW u \in Tasks, At(u, "saveToken"), Email(u) = e, LinkOf(u) = "verify"
          PROVE  Hope(e)'
      <3>1. CASE task'[u] = task[u]
        BY <2>2, <3>1, MailStays DEF Hope
      <3>2. CASE u = t /\ ~Rested
        <4>1. Saved(t)
          BY <2>2, <3>2, AtMailer
             DEF Did, Inserted, Deleted, Mailed, Stored, Removed, Filled, Arrived, Onward, At
        <4>2. MailOf(t)' = NewLink(t) /\ At(t, "mail")' /\ NewLink(t) \in TokensOf(e, "verify")'
          BY <2>2, <3>2, <4>1 DEF Saved, Onward, MailOf, NewLink, LinkOf, Email, At, TokensOf
        <4> QED BY <2>2, <3>2, <4>2 DEF Hope
      <3> QED BY <2>2, <3>1, <3>2, Stays DEF Steps
    <2>3. ASSUME NEW k \in TokensOf(e, "verify"), k \in mails \/ \E u \in Tasks : At(u, "mail") /\ k = MailOf(u)
          PROVE  Hope(e)' \/ Met(e, {"reset"}, {"verify"})
      <3>1. k \in tokens /\ k.email = e /\ k.kind = "verify"
        BY DEF TokensOf
      <3>2. k \in mails' \/ \E u \in Tasks : At(u, "mail")' /\ k = MailOf(u)'
        <4>1. ASSUME NEW u \in Tasks, At(u, "mail"), k = MailOf(u)
              PROVE  k \in mails' \/ (At(u, "mail")' /\ k = MailOf(u)')
          <5>1. CASE task'[u] = task[u]
            BY <4>1, <5>1, MailStays
          <5>2. CASE u = t /\ ~Rested
            <6>1. Mailed(t)
              BY <4>1, <5>2, AtMailer
                 DEF Did, Inserted, Deleted, Saved, Stored, Removed, Filled, Arrived, Onward, At
            <6> QED BY <4>1, <5>2, <6>1 DEF Mailed
          <5> QED BY <4>1, <5>1, <5>2, Stays DEF Steps
        <4> QED BY <1>0, <2>3, <4>1
      <3>3. CASE k \in tokens'
        BY <3>1, <3>2, <3>3 DEF Hope, TokensOf
      <3>4. CASE t \in Tasks /\ Deleted(t) /\ k \notin tokens'
        <4>1. Email(t) = e /\ LinkOf(t) = "verify"
          BY <3>1, <3>4 DEF Deleted, TokensOf
        <4>2. At(t, "saveToken")' /\ Email(t)' = e /\ LinkOf(t)' = "verify"
          BY <3>4, <4>1 DEF Deleted, Onward, At, Email, LinkOf
        <4> QED BY <3>4, <4>2 DEF Hope
      <3>5. CASE t \in Tasks /\ Removed(t) /\ k \notin tokens'
        <4>1. k.id = task[t].token
          BY <3>1, <3>5 DEF Removed
        <4>2. [id |-> task[t].token, kind |-> task[t].kind, email |-> Email(t)] \in mails
          BY <3>5 DEF Removed, FollowInv
        <4>3. task[t].kind = "verify" /\ Email(t) = e
          BY <3>1, <4>1, <4>2 DEF IdsInv
        <4>4. At(t, "removeToken")
          BY <3>5 DEF Removed
        <4> QED BY <1>5, <3>5, <4>3, <4>4 DEF DoneInv
      <3>6. CASE ~(t \in Tasks /\ (Deleted(t) \/ Removed(t)))
        BY <3>1, <3>3, <3>6 DEF Did, Rested, Inserted, Saved, Mailed, Stored, Filled, Arrived, stores
      <3> QED BY <3>3, <3>4, <3>5, <3>6
    <2>4. Hope(e) => Hope(e)' \/ Met(e, {"reset"}, {"verify"})
      BY <2>2, <2>3 DEF Hope
    <2> QED BY <1>2, <2>1, <2>4
  <1> QED BY <1>3, <1>4, <1>5

-------------------------------------------------------------------------------
(* All of it together is inductive. *)

AccountInv ==
    /\ TypeInv /\ MetInv /\ IdsInv /\ FollowInv /\ SpentInv
    /\ ResendInv /\ LiveInv /\ StaleInv /\ DoneInv /\ HopeInv

LEMMA AccountInit == Init => AccountInv
  <1> SUFFICES ASSUME Init PROVE AccountInv
    OBVIOUS
  <1>0. TypeInv
    BY TypeInit
  <1>1. PICK s \in Scenarios :
          /\ users = s.users /\ tokens = s.tokens /\ mails = s.tokens
          /\ given = Cardinality(s.tokens) /\ expired = {}
          /\ task = [t \in Tasks |-> None] /\ calls = s.calls /\ faults = 0
          /\ uses = [i \in Ids |-> 0] /\ met = [e \in Emails |-> {}]
    BY DEF Init, AccountsInit
  <1>2. Linked(s)
    BY AccountsAssumption
  <1>3. \A t \in Tasks : task[t] = None
    BY <1>1
  <1>4. \A t \in Tasks : ~Running(t) /\ \A step : ~At(t, step)
    BY <1>3 DEF Running, At
  <1>5. \A t \in Tasks : tab[t].page = "home" /\ tab[t].wait = None
    BY DEF Init
  <1>6. MetInv /\ StaleInv /\ DoneInv
    BY <1>4 DEF MetInv, StaleInv, DoneInv
  <1>7. IdsInv
    BY <1>1, <1>2, <1>4 DEF IdsInv, Linked
  <1>8. FollowInv
    BY <1>1, <1>4 DEF FollowInv
  <1>9. SpentInv
    <2>1. \A i \in Ids : uses[i] = 0
      BY <1>1
    <2>2. \A k \in mails : k.id \in Ids
      BY <1>0 DEF TypeInv, DataOK, Token
    <2> QED BY <1>4, <2>1, <2>2 DEF SpentInv, LinkIsSpent
  <1>10. ResendInv
    <2>1. "resend" # None /\ "register" # None
      BY NoneIsNone DEF Kinds
    <2> QED BY <1>3, <1>4, <1>5, <2>1 DEF ResendInv, Past
  <1>11. LiveInv
    BY <1>1, <1>2, <1>4 DEF LiveInv, Single, TokensOf, Linked
  <1>12. HopeInv
    BY <1>1, <1>2 DEF HopeInv, Hope, TokensOf, Linked, Exists
  <1> QED BY <1>0, <1>6, <1>7, <1>8, <1>9, <1>10, <1>11, <1>12 DEF AccountInv

LEMMA AccountStep == AccountInv /\ [Next]_pageVars => AccountInv'
  <1> SUFFICES ASSUME AccountInv, [Next]_pageVars PROVE AccountInv'
    OBVIOUS
  <1>0. TypeInv'
    BY TypeStep DEF AccountInv
  <1>1. CASE Next
    <2>1. Kept /\ TabsOK' /\ Remember /\ \E t : Did(t) /\ (AStep(t) \/ (UNCHANGED <<tab, forms>> /\ Rested))
      BY <1>1, DidFacts DEF AccountInv
    <2>2. PICK t : Did(t) /\ (AStep(t) \/ (UNCHANGED <<tab, forms>> /\ Rested))
      BY <2>1
    <2>3. TasksOK' /\ faults' >= faults /\ (t \in Tasks \/ Rested)
      BY <2>1, <2>2 DEF Kept, Did
    <2>4. MetInv'
      BY <2>1, <2>3, MetInvStep DEF AccountInv
    <2>5. IdsInv'
      BY <2>2, <2>3, IdsStep DEF AccountInv
    <2>6. FollowInv'
      BY <2>2, <2>3, FollowStep DEF AccountInv
    <2>7. SpentInv'
      BY <1>0, <2>1, <2>2, <2>3, <2>4, <2>5, <2>6, SpentStep DEF AccountInv
    <2>8. ResendInv'
      BY <2>1, <2>2, <2>3, ResendStep DEF AccountInv
    <2>9. LiveInv'
      BY <1>0, <2>1, <2>2, LiveStep DEF AccountInv
    <2>10. StaleInv'
      BY <1>0, <2>1, <2>2, StaleStep DEF AccountInv
    <2>11. DoneInv'
      BY <1>0, <2>1, <2>2, DoneStep DEF AccountInv
    <2>12. HopeInv'
      BY <1>0, <2>1, <2>2, <2>3, HopeStep DEF AccountInv
    <2> QED BY <1>0, <2>4, <2>5, <2>6, <2>7, <2>8, <2>9, <2>10, <2>11, <2>12 DEF AccountInv
  <1>2. CASE UNCHANGED pageVars
    <2>1. UNCHANGED <<users, tokens, given, expired, mails, uses, task, calls, faults, met, tab, forms>>
      BY <1>2 DEF pageVars, accountVars, stores
    <2>2. MetInv' /\ IdsInv' /\ FollowInv'
      BY <2>1 DEF AccountInv, MetInv, IdsInv, FollowInv, Running, At, Email, MailOf, LinkOf
    <2>3. SpentInv'
      BY <2>1 DEF AccountInv, SpentInv, LinkIsSpent, Met, At, Email
    <2>4. ResendInv'
      BY <2>1 DEF AccountInv, ResendInv, Signed, Past, Running, Exists, Email
    <2>5. LiveInv'
      BY <2>1 DEF AccountInv, LiveInv, Single, Doubled, TokensOf, Met, At, Email, MailOf, LinkOf
    <2>6. StaleInv' /\ DoneInv'
      BY <2>1 DEF AccountInv, StaleInv, DoneInv, Met, At, Email
    <2>7. HopeInv'
      BY <2>1 DEF AccountInv, HopeInv, Hope, TokensOf, Met, At, Email, MailOf, LinkOf, Exists
    <2> QED BY <1>0, <2>2, <2>3, <2>4, <2>5, <2>6, <2>7 DEF AccountInv
  <1> QED BY <1>1, <1>2

LEMMA AccountAlways == Spec => []AccountInv
  BY AccountInit, AccountStep, PTL DEF Spec

\* "Delete any existing tokens": an account has one link of a kind that works at
\* most, unless two requests that resend it ran at once.
THEOREM LinksAreSingle == Spec => []OneLiveLink
  <1>1. AccountInv => OneLiveLink
    <2> SUFFICES ASSUME AccountInv, NEW e \in Emails, NEW kind \in Links, ~Doubled(e, kind)
                 PROVE  Cardinality(TokensOf(e, kind)) <= 1
      BY DEF OneLiveLink, Doubled, Links
    <2>1. Single(e, kind)
      BY DEF AccountInv, LiveInv
    <2>2. CASE TokensOf(e, kind) = {}
      <3>1. Cardinality({}) = 0
        BY FS_EmptySet
      <3>2. Cardinality(TokensOf(e, kind)) = 0
        BY <2>2, <3>1
      <3> QED BY <3>2
    <2>3. CASE TokensOf(e, kind) # {}
      <3>1. PICK k : TokensOf(e, kind) = {k}
        BY <2>1, <2>3 DEF Single
      <3>2. Cardinality({k}) = 1
        BY FS_Singleton
      <3>3. Cardinality(TokensOf(e, kind)) = 1
        BY <3>1, <3>2
      <3> QED BY <3>3
    <2> QED BY <2>2, <2>3
  <1> QED BY <1>1, AccountAlways, PTL

\* A link that was mailed changes its account once, unless it is followed twice at
\* once or there were faults.
THEOREM LinksAreSpent == Spec => []LinkIsSpent
  <1>1. AccountInv => LinkIsSpent
    BY DEF AccountInv, SpentInv
  <1> QED BY <1>1, AccountAlways, PTL

\* Without faults, an account that waits for its verification was mailed a link
\* that works, however its requests were interleaved, unless a reset that met
\* the verification put the account back.
THEOREM LinksWork == Spec => []MailedLinkWorks
  <1>1. AccountInv => MailedLinkWorks
    <2> SUFFICES ASSUME AccountInv, NEW e \in Emails, Exists(e), ~users[e].verified, ~Serving(e), faults = 0,
                        ~Met(e, {"reset"}, {"verify"})
                 PROVE  TokensOf(e, "verify") \cap mails # {}
      BY DEF MailedLinkWorks
    <2>1. Hope(e)
      BY DEF AccountInv, HopeInv
    <2>2. ASSUME NEW t \in Tasks, At(t, "mail") \/ At(t, "saveToken")
          PROVE  Email(t) # e
      <3>1. Running(t)
        BY <2>2, AtMailer DEF AccountInv
      <3> QED BY <3>1 DEF Serving, Email
    <2>3. \A t \in Tasks : MailOf(t).email = Email(t)
      BY DEF MailOf
    <2> QED BY <2>1, <2>2, <2>3 DEF Hope, TokensOf
  <1> QED BY <1>1, AccountAlways, PTL

\* What a step of the server does to an account that there is.
LEMMA UndoStep ==
    ASSUME AccountInv, NEW t, Did(t), NEW e \in Emails, Exists(e)
    PROVE  LET old == users[e]
               new == users[e]'
           IN  /\ new.password # old.password =>
                    \/ \E u \in Tasks : At(u, "saveUser") /\ task[u].kind = "reset" /\ Email(u) = e
                                        /\ task[u].password = new.password
                    \/ Met(e, {"reset"}, {"verify"})
               /\ old.verified => new.verified \/ Met(e, {"reset"}, {"verify"})
               /\ \A f \in Fields : new.profile[f] # old.profile[f] =>
                    \/ \E u \in Tasks : At(u, IF f = "location" THEN "saveLocation" ELSE "updateUser")
                                        /\ Email(u) = e /\ task[u].profile[f] = new.profile[f]
                    \/ f # "location" /\ Met(e, {"update"}, {"verify", "reset"})
  <1>1. CASE users'[e] = users[e]
    BY <1>1
  <1>2. CASE t \in Tasks /\ Email(t) = e /\ Stored(t)
    <2>1. At(t, "saveUser") /\ task[t].kind \in {"verify", "reset"}
      BY <1>2 DEF Stored, Onward, Links
    <2>2. /\ task[t].kind = "verify" => task[t].row.password = users[e].password \/ Met(e, {"reset"}, {"verify"})
          /\ task[t].kind = "reset" => task[t].row.verified = users[e].verified \/ Met(e, {"reset"}, {"verify"})
          /\ \A f \in {"phone", "about"} :
                task[t].row.profile[f] = users[e].profile[f] \/ Met(e, {"update"}, {"verify", "reset"})
      BY <1>2, <2>1 DEF AccountInv, StaleInv
    <2>3. users'[e].password # users[e].password =>
             \/ \E u \in Tasks : At(u, "saveUser") /\ task[u].kind = "reset" /\ Email(u) = e
                                 /\ task[u].password = users'[e].password
             \/ Met(e, {"reset"}, {"verify"})
      BY <1>2, <2>1, <2>2 DEF Stored
    <2>4. users[e].verified => users'[e].verified \/ Met(e, {"reset"}, {"verify"})
      <3>1. users'[e].verified = (task[t].kind = "verify" \/ task[t].row.verified)
        BY <1>2 DEF Stored
      <3> QED BY <2>1, <2>2, <3>1
    <2>5. \A f \in {"phone", "about"} :
             users'[e].profile[f] = users[e].profile[f] \/ Met(e, {"update"}, {"verify", "reset"})
      BY <1>2, <2>2 DEF Stored
    <2>6. users'[e].profile["location"] = users[e].profile["location"]
      BY <1>2 DEF Stored
    <2> QED BY <2>3, <2>4, <2>5, <2>6 DEF Fields
  <1>3. CASE t \in Tasks /\ Email(t) = e /\ Filled(t)
    <2>1. users'[e].verified = users[e].verified /\ users'[e].password = users[e].password
      BY <1>3 DEF Filled
    <2>2. CASE Onward(t, "saveLocation", "updateUser")
      <3>1. At(t, "saveLocation") /\ ~At(t, "updateUser")
        BY <2>2 DEF Onward, At
      <3>2. /\ users'[e].profile["location"] = task[t].profile["location"]
            /\ \A f \in {"phone", "about"} : users'[e].profile[f] = users[e].profile[f]
        BY <1>3, <3>1 DEF Filled, Onward
      <3> QED BY <1>3, <2>1, <3>1, <3>2 DEF Fields
    <2>3. CASE Onward(t, "updateUser", "findUpdated")
      <3>1. At(t, "updateUser") /\ ~At(t, "saveLocation")
        BY <2>3 DEF Onward, At
      <3>2. /\ users'[e].profile["location"] = users[e].profile["location"]
            /\ \A f \in {"phone", "about"} :
                  users'[e].profile[f] = IF task[t].profile[f] # None THEN task[t].profile[f] ELSE users[e].profile[f]
        BY <1>3, <3>1 DEF Filled, Onward
      <3> QED BY <1>3, <2>1, <3>1, <3>2 DEF Fields
    <2> QED BY <1>3, <2>2, <2>3 DEF Filled
  <1> QED BY <1>1, <1>2, <1>3, RowStep DEF AccountInv

\* A password, a verification and a profile change only as a request asks for,
\* unless a request that had read the account before, and met the one that
\* changed it, saves it as it was.
THEOREM UndoneByOverlaps == Spec => OnlyOverlapsUndo
  <1> DEFINE Undone == \A e \in Emails : Exists(e) =>
          LET old == users[e]
              new == users[e]'
          IN  /\ new.password # old.password =>
                    \/ \E t \in Tasks : At(t, "saveUser") /\ task[t].kind = "reset" /\ Email(t) = e
                                        /\ task[t].password = new.password
                    \/ Met(e, {"reset"}, {"verify"})
              /\ old.verified => new.verified \/ Met(e, {"reset"}, {"verify"})
              /\ \A f \in Fields : new.profile[f] # old.profile[f] =>
                    \/ \E t \in Tasks : At(t, IF f = "location" THEN "saveLocation" ELSE "updateUser")
                                        /\ Email(t) = e /\ task[t].profile[f] = new.profile[f]
                    \/ f # "location" /\ Met(e, {"update"}, {"verify", "reset"})
  <1>1. AccountInv /\ [Next]_pageVars => [Undone]_accountVars
    <2> SUFFICES ASSUME AccountInv, Next PROVE Undone
      BY DEF pageVars
    <2>1. PICK t : Did(t)
      BY DidFacts DEF AccountInv
    <2> QED BY <2>1, UndoStep
  <1> HIDE DEF Undone
  <1>2. Spec => [][Undone]_accountVars
    BY <1>1, AccountAlways, PTL DEF Spec
  <1> QED BY <1>2 DEF OnlyOverlapsUndo, Undone

\* What a request that is answered without an error has done.
LEMMA EndStep ==
    ASSUME AccountInv, TypeInv', Remember, NEW v, Did(v), NEW t \in Tasks,
           Running(t), ~Running(t)', task'[t] # None, ~task'[t].failed
    PROVE  /\ task'[t].email = task[t].email
           /\ \/ t = v /\ Mailed(t)
              \/ t = v /\ Removed(t)
              \/ At(t, "compare") /\ (task[t].kind = "login" => task[t].row.password = task[t].password)
              \/ At(t, "findUpdated")
  <1>1. task'[t].step = None /\ task'[t] # task[t]
    BY DEF Running
  <1>2. CASE Rested
    <2>1. Finished(t)
      BY <1>1, <1>2 DEF Rested, Turned, Stopped
    <2>2. ~(faults' > 0 /\ task'[t].failed)
      OBVIOUS
    <2> QED BY <1>2, <2>1, <2>2 DEF Finished, Rested
  <1>3. CASE ~Rested
    <2>1. t = v
      BY <1>1, <1>3 DEF Did, Inserted, Deleted, Saved, Mailed, Stored, Removed, Filled, Arrived, Onward, Others
    <2>2. \A step \in Steps : task'[t].step # step
      BY <1>1, NoneIsNone
    <2> QED BY <1>3, <2>1, <2>2
            DEF Did, Inserted, Deleted, Saved, Mailed, Removed, Stored, Filled, Arrived, Onward, Steps
  <1> QED BY <1>2, <1>3

\* What is answered is so, unless another request for the account that writes the
\* same ran meanwhile.
THEOREM AnswersHold == Spec => AnswersAreTrue
  <1> DEFINE Works(e, link) == TokensOf(e, link)' \cap mails' # {}
             True(t, e) ==
               LET kind == task[t].kind
               IN  /\ kind \in {"register", "createAdmin", "resend"} =>
                         Works(e, "verify") \/ Met(e, {"resend"}, {"resend"})
                   /\ kind = "forgot" => Works(e, "reset") \/ Met(e, {"forgot"}, {"forgot"})
                   /\ kind = "verify" => users[e].verified \/ Met(e, {"reset"}, {"verify"})
                   /\ kind = "reset" =>
                         users[e].password = task[t].password \/ Met(e, {"reset"}, {"reset", "verify"})
                   /\ kind = "login" =>
                         users[e].password = task[t].password \/ Met(e, {"login"}, {"reset", "verify"})
                   /\ kind = "update" => \A f \in Fields :
                         \/ task[t].profile[f] \in {None, users[e].profile[f]}
                         \/ Met(e, {"update"}, {"update", "verify", "reset"})
             Ended(t) == Running(t) /\ ~Running(t)' /\ task'[t] # None /\ ~task'[t].failed
  <1>1. ASSUME AccountInv, Next, NEW t \in Tasks, Ended(t), NEW e, e = Email(t)
        PROVE  task'[t].email = e /\ True(t, e)
    <2>1. PICK v : Did(v)
      BY <1>1, DidFacts DEF AccountInv
    <2>2. TypeInv' /\ Remember
      BY <1>1, TypeStep, DidFacts DEF AccountInv
    <2>3. /\ task'[t].email = e
          /\ \/ t = v /\ Mailed(t)
             \/ t = v /\ Removed(t)
             \/ At(t, "compare") /\ (task[t].kind = "login" => task[t].row.password = task[t].password)
             \/ At(t, "findUpdated")
      BY <1>1, <2>1, <2>2, EndStep DEF Email
    <2>4. CASE Mailed(t)
      <3>1. At(t, "mail") /\ task[t].kind \in Mailers /\ tokens' = tokens /\ MailOf(t) \in mails'
        BY <2>4 DEF Mailed
      <3>2. MailOf(t) \in tokens \/ Doubled(e, LinkOf(t))
        BY <1>1, <3>1 DEF AccountInv, LiveInv
      <3>3. ASSUME NEW link \in Links, link = LinkOf(t)
            PROVE  Works(e, link) \/ Doubled(e, link)
        <4>1. MailOf(t).email = e /\ MailOf(t).kind = link
          BY <1>1, <3>3 DEF MailOf
        <4> QED BY <3>1, <3>2, <3>3, <4>1 DEF TokensOf
      <3>5. CASE task[t].kind = "forgot"
        <4>1. LinkOf(t) = "reset" /\ "reset" \in Links
          BY <3>5 DEF LinkOf, Links
        <4> QED BY <2>3, <3>3, <3>5, <4>1 DEF Doubled
      <3>6. CASE task[t].kind \in {"register", "createAdmin", "resend"}
        <4>1. LinkOf(t) = "verify" /\ "verify" \in Links
          BY <3>6 DEF LinkOf, Links
        <4> QED BY <2>3, <3>3, <3>6, <4>1 DEF Doubled
      <3> QED BY <3>1, <3>5, <3>6 DEF Mailers, SignUps
    <2>5. CASE Removed(t)
      <3>1. At(t, "removeToken") /\ task[t].kind \in {"verify", "reset"}
        BY <2>5 DEF Removed, Links
      <3> QED BY <1>1, <2>3, <3>1 DEF AccountInv, DoneInv
    <2>6. CASE At(t, "compare") /\ (task[t].kind = "login" => task[t].row.password = task[t].password)
      <3>1. task[t].kind = "login"
        BY <1>1, <2>6, AtRow DEF AccountInv
      <3> QED BY <1>1, <2>3, <2>6, <3>1 DEF AccountInv, StaleInv
    <2>7. CASE At(t, "findUpdated")
      <3>1. task[t].kind = "update"
        BY <1>1, <2>7, AtRow DEF AccountInv
      <3> QED BY <1>1, <2>3, <2>7, <3>1 DEF AccountInv, DoneInv
    <2> QED BY <2>3, <2>4, <2>5, <2>6, <2>7
  <1> HIDE DEF Works
  <1> DEFINE Holds == \A t \in Tasks : Running(t) /\ ~Running(t)' /\ task[t]' # None /\ ~task[t]'.failed =>
          LET e == Email(t)
              kind == task[t].kind
              Link(link) == TokensOf(e, link)' \cap mails' # {}
          IN  /\ kind \in {"register", "createAdmin", "resend"} =>
                    Link("verify") \/ Met(e, {"resend"}, {"resend"})
              /\ kind = "forgot" => Link("reset") \/ Met(e, {"forgot"}, {"forgot"})
              /\ kind = "verify" => users[e].verified \/ Met(e, {"reset"}, {"verify"})
              /\ kind = "reset" => users[e].password = task[t].password \/ Met(e, {"reset"}, {"reset", "verify"})
              /\ kind = "login" => users[e].password = task[t].password \/ Met(e, {"login"}, {"reset", "verify"})
              /\ kind = "update" => \A f \in Fields :
                    \/ task[t].profile[f] \in {None, users[e].profile[f]}
                    \/ Met(e, {"update"}, {"update", "verify", "reset"})
  <1>2. AccountInv /\ [Next]_pageVars => [Holds]_accountVars
    <2> SUFFICES ASSUME AccountInv, Next PROVE Holds
      BY DEF pageVars
    <2> SUFFICES ASSUME NEW t \in Tasks, Ended(t), NEW e, e = Email(t)
                 PROVE  /\ True(t, e) /\ task'[t].email = e
      BY DEF TokensOf, Email, Works
    <2> QED BY <1>1
  <1> HIDE DEF Holds
  <1>3. Spec => [][Holds]_accountVars
    BY <1>2, AccountAlways, PTL DEF Spec
  <1> QED BY <1>3 DEF AnswersAreTrue, Holds
===============================================================================
