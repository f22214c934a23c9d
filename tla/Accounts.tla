------------------------------- MODULE Accounts -------------------------------
(***************************************************************************)
(* The accounts of the Nest backend: AuthService and UsersService over the *)
(* users and tokens of one database, and the mails they send.  A request   *)
(* is a task; what it does between two awaits is one step.  save() writes  *)
(* every column of the entity in which it differs from the row, so a       *)
(* request that read an account long ago puts back what others changed.    *)
(***************************************************************************)
EXTENDS Naturals, FiniteSets

CONSTANTS
    Emails,         \* accounts are told apart by their email
    Names,
    Passwords,
    Texts,          \* what profiles are filled in with
    Tasks,          \* bound: how many requests run at once
    MaxTokens,      \* bound: the tokens that are ever made
    None,
    Scenarios       \* the bounds TLC explores: see Scenario

Ids == 1 .. MaxTokens
Fields == {"phone", "about", "location"}
Links == {"verify", "reset"}
Profile == [Fields -> Texts \cup {None}]
User == [name : Names, password : Passwords, verified : BOOLEAN, profile : Profile]
Token == [id : Ids, kind : Links, email : Emails]

Kinds == {"register", "createAdmin", "verify", "resend", "login", "forgot", "reset", "update"}
Steps == {"insertUser", "deleteTokens", "saveToken", "mail", "saveUser", "removeToken", "compare",
          "saveLocation", "updateUser", "findUpdated"}

\* A request: the step it waits for, None when it was answered, and what it has read.
Task == [kind : Kinds, email : Emails, step : Steps \cup {None}, failed : BOOLEAN, row : User \cup {None},
         token : Ids \cup {None}, name : Names \cup {None}, password : Passwords \cup {None},
         profile : Profile]

\* What is stored and mailed at first, how many requests of each kind come, how
\* many faults (awaits that are rejected, stops of the process), and how many days pass.
Scenario == [users : [Emails -> User \cup {None}], tokens : SUBSET Token,
             calls : [Kinds \cup {"fault", "day"} -> Nat]]

\* Each link is of an account and has an id of its own; an account has one of a
\* kind at most, and one to verify its email with as long as that is to be done.
Linked(s) ==
    /\ Cardinality(s.tokens) <= MaxTokens
    /\ \A k \in s.tokens : s.users[k.email] # None /\ k.id <= Cardinality(s.tokens)
    /\ \A k, l \in s.tokens : k.id = l.id \/ (k.email = l.email /\ k.kind = l.kind) => k = l
    /\ \A e \in Emails : s.users[e] # None /\ ~s.users[e].verified =>
          \E k \in s.tokens : k.email = e /\ k.kind = "verify"

ASSUME AccountsAssumption ==
    /\ MaxTokens \in Nat
    /\ Scenarios \subseteq Scenario /\ \A s \in Scenarios : IsFiniteSet(s.tokens) /\ Linked(s)
    /\ None \notin User /\ None \notin Ids /\ None \notin Task
    /\ None \notin Texts \cup Steps \cup Emails \cup Kinds

VARIABLES
    users,          \* rows of users: None before the account is registered
    tokens,         \* rows of tokens
    given,          \* how many tokens were made
    expired,        \* the tokens that are more than 24 hours old
    mails,          \* the links that were mailed
    task,
    calls,          \* the requests, faults and days still to come
    faults,         \* the faults that happened
    uses,           \* ghost: how often an account was saved for a token
    met             \* ghost: the kinds of requests for an account that overlapped

stores == <<users, tokens, given, expired, mails, uses>>
accountVars == <<stores, task, calls, faults, met>>

Exists(e) == users[e] # None
TokensOf(e, kind) == {k \in tokens : k.email = e /\ k.kind = kind}
Found(i, kind) == {k \in tokens : k.id = i /\ k.kind = kind /\ i \notin expired}

AccountsInit ==
    \E s \in Scenarios :
        /\ users = s.users /\ tokens = s.tokens /\ mails = s.tokens
        /\ given = Cardinality(s.tokens)
        /\ expired = {}
        /\ task = [t \in Tasks |-> None]
        /\ calls = s.calls
        /\ faults = 0
        /\ uses = [i \in Ids |-> 0]
        /\ met = [e \in Emails |-> {}]

(***************************************************************************)
(* Tasks                                                                   *)
(***************************************************************************)
NoProfile == [f \in Fields |-> None]
Fresh(kind, e, step) ==
    [kind |-> kind, email |-> e, step |-> step, failed |-> FALSE, row |-> None, token |-> None,
     name |-> None, password |-> None, profile |-> NoProfile]
Running(t) == task[t] # None /\ task[t].step # None
Serving(e) == \E t \in Tasks : Running(t) /\ task[t].email = e

\* A request arrives, and does its first read.
Begin(t, new) ==
    /\ ~Running(t)
    /\ calls[new.kind] > 0
    /\ calls' = [calls EXCEPT ![new.kind] = @ - 1]
    /\ task' = [task EXCEPT ![t] = new]
    /\ UNCHANGED <<stores, faults>>
Refuse(t, kind, e) == Begin(t, [Fresh(kind, e, None) EXCEPT !.failed = TRUE])

At(t, step) == task[t] # None /\ task[t].step = step
Email(t) == task[t].email
Answer(t, failed) == task' = [task EXCEPT ![t] = [Fresh(@.kind, @.email, None) EXCEPT !.failed = failed]]
Go(t, step) == task' = [task EXCEPT ![t].step = step]
Served(v) == UNCHANGED <<calls, faults>> /\ UNCHANGED v

Fault == calls["fault"] > 0 /\ calls' = [calls EXCEPT !["fault"] = @ - 1] /\ faults' = faults + 1
\* An await is rejected: by the database, by the mail server.
Reject(t) == Fault /\ Running(t) /\ Answer(t, TRUE) /\ UNCHANGED stores
\* The process stops with every request it runs.
Crash == Fault /\ task' = [t \in Tasks |-> None] /\ UNCHANGED stores

\* TOKEN_EXPIRY_HOURS pass; no request takes that long.
Day ==
    /\ calls["day"] > 0 /\ calls' = [calls EXCEPT !["day"] = @ - 1]
    /\ \A t \in Tasks : ~Running(t)
    /\ expired' = 1 .. given
    /\ UNCHANGED <<users, tokens, given, mails, uses, task, faults>>

(***************************************************************************)
(* AuthService                                                             *)
(***************************************************************************)
\* Only the email is looked up; the name is left to the database.
SignUp(t, kind, e, name, password) ==
    IF Exists(e) THEN Refuse(t, kind, e)
    ELSE Begin(t, [Fresh(kind, e, "insertUser") EXCEPT !.name = name, !.password = password])
Register(t, e, name, password) == SignUp(t, "register", e, name, password)
CreateAdmin(t, e, name, password, secret) ==
    IF secret THEN SignUp(t, "createAdmin", e, name, password) ELSE Refuse(t, "createAdmin", e)

\* Emails and names are unique in the table.
Taken(e, name) == Exists(e) \/ \E f \in Emails : Exists(f) /\ users[f].name = name
InsertUser(t) ==
    /\ At(t, "insertUser")
    /\ LET e == Email(t)
           row == [name |-> task[t].name, password |-> task[t].password, verified |-> FALSE,
                   profile |-> NoProfile]
       IN  IF Taken(e, row.name) THEN Answer(t, TRUE) /\ UNCHANGED users
           ELSE users' = [users EXCEPT ![e] = row] /\ Go(t, "saveToken")
    /\ Served(<<tokens, given, expired, mails, uses>>)

LinkOf(t) == IF task[t].kind = "forgot" THEN "reset" ELSE "verify"
\* Mutant of DeleteTokens: the tokens that were mailed before are left.
DeleteTokensNone(t) ==
    /\ At(t, "deleteTokens") /\ Go(t, "saveToken")
    /\ Served(stores)

\* Mutant of DeleteTokens: the tokens of an account are deleted whatever their type.
DeleteTokensAll(t) ==
    /\ At(t, "deleteTokens")
    /\ tokens' = {k \in tokens : k.email # Email(t)}
    /\ Go(t, "saveToken")
    /\ Served(<<users, given, expired, mails, uses>>)

DeleteTokens(t) ==
    /\ At(t, "deleteTokens")
    /\ tokens' = tokens \ TokensOf(Email(t), LinkOf(t))
    /\ Go(t, "saveToken")
    /\ Served(<<users, given, expired, mails, uses>>)

SaveToken(t) ==
    /\ At(t, "saveToken") /\ given < MaxTokens
    /\ given' = given + 1
    /\ tokens' = tokens \cup {[id |-> given', kind |-> LinkOf(t), email |-> Email(t)]}
    /\ task' = [task EXCEPT ![t].step = "mail", ![t].token = given']
    /\ Served(<<users, expired, mails, uses>>)

Mail(t) ==
    /\ At(t, "mail")
    /\ mails' = mails \cup {[id |-> task[t].token, kind |-> LinkOf(t), email |-> Email(t)]}
    /\ Answer(t, FALSE)
    /\ Served(<<users, tokens, given, expired, uses>>)

ResendVerificationEmail(t, e) ==
    IF Exists(e) /\ ~users[e].verified THEN Begin(t, Fresh("resend", e, "deleteTokens"))
    ELSE Refuse(t, "resend", e)

ForgotPassword(t, e) ==
    IF Exists(e) THEN Begin(t, Fresh("forgot", e, "deleteTokens")) ELSE Refuse(t, "forgot", e)

\* The token is read with its account.
Follow(t, link, i, new) ==
    \/ \E k \in Found(i, link) :
          Begin(t, [new EXCEPT !.email = k.email, !.row = users[k.email], !.token = i])
    \/ Found(i, link) = {} /\ \E k \in mails : k.id = i /\ Refuse(t, link, k.email)
VerifyEmail(t, i) == Follow(t, "verify", i, Fresh("verify", None, "saveUser"))
ResetPassword(t, i, password) ==
    Follow(t, "reset", i, [Fresh("reset", None, "saveUser") EXCEPT !.password = password])

\* The location is a relation that was not read, and not written either.
SaveUser(t) ==
    /\ At(t, "saveUser")
    /\ LET e == Email(t)
           row == IF task[t].kind = "verify" THEN [task[t].row EXCEPT !.verified = TRUE]
                  ELSE [task[t].row EXCEPT !.password = task[t].password]
       IN  users' = [users EXCEPT ![e] = [row EXCEPT !.profile.location = users[e].profile.location]]
    /\ uses' = [uses EXCEPT ![task[t].token] = @ + 1]
    /\ Go(t, "removeToken")
    /\ Served(<<tokens, given, expired, mails>>)

\* Mutant of RemoveToken: the used token is left.
RemoveTokenNot(t) == At(t, "removeToken") /\ Answer(t, FALSE) /\ Served(stores)

RemoveToken(t) ==
    /\ At(t, "removeToken")
    /\ tokens' = {k \in tokens : k.id # task[t].token}
    /\ Answer(t, FALSE)
    /\ Served(<<users, given, expired, mails, uses>>)

Login(t, e, password) ==
    IF Exists(e) /\ users[e].verified
    THEN Begin(t, [Fresh("login", e, "compare") EXCEPT !.row = users[e], !.password = password])
    ELSE Refuse(t, "login", e)

Compare(t) ==
    /\ At(t, "compare")
    /\ Answer(t, task[t].row.password # task[t].password)
    /\ Served(stores)

(***************************************************************************)
(* UsersService                                                            *)
(***************************************************************************)
\* An account updates itself only.  What is empty is not updated.
Update(t, me, e, profile) ==
    IF me = e /\ Exists(e)
    THEN Begin(t, [Fresh("update", e, IF profile.location # None THEN "saveLocation" ELSE "updateUser")
                   EXCEPT !.row = users[e], !.profile = profile])
    ELSE Refuse(t, "update", e)

\* Mutant of SaveLocation: the new location belongs to no account.
SaveLocationUnlinked(t) == At(t, "saveLocation") /\ Go(t, "updateUser") /\ Served(stores)

\* The account was read without its location: each time a row is made for it.
SaveLocation(t) ==
    /\ At(t, "saveLocation")
    /\ users' = [users EXCEPT ![Email(t)].profile.location = task[t].profile.location]
    /\ Go(t, "updateUser")
    /\ Served(<<tokens, given, expired, mails, uses>>)

Merged(old, new, f) == IF f # "location" /\ new[f] # None THEN new[f] ELSE old[f]
\* Mutant of UpdateUser: the account is saved as it was read.
UpdateUserSaved(t) ==
    /\ At(t, "updateUser")
    /\ users' = [users EXCEPT ![Email(t)] =
                    [task[t].row EXCEPT !.profile = [f \in Fields |-> Merged(@, task[t].profile, f)]]]
    /\ Go(t, "findUpdated")
    /\ Served(<<tokens, given, expired, mails, uses>>)

UpdateUser(t) ==
    /\ At(t, "updateUser")
    /\ users' = [users EXCEPT ![Email(t)].profile = [f \in Fields |-> Merged(@, task[t].profile, f)]]
    /\ Go(t, "findUpdated")
    /\ Served(<<tokens, given, expired, mails, uses>>)

FindUpdated(t) == At(t, "findUpdated") /\ Answer(t, FALSE) /\ Served(stores)

-------------------------------------------------------------------------------
Step(t) ==
    \/ InsertUser(t) \/ DeleteTokens(t) \/ SaveToken(t) \/ Mail(t)
    \/ SaveUser(t) \/ RemoveToken(t) \/ Compare(t)
    \/ SaveLocation(t) \/ UpdateUser(t) \/ FindUpdated(t)
    \/ Reject(t)

Overlaps(e) ==
    LET on == {t \in Tasks : Running(t) /\ Email(t) = e}
    IN  {<<task[x[1]].kind, task[x[2]].kind>> : x \in {y \in on \X on : y[1] # y[2]}}
Remember == met' = [e \in Emails |-> met[e] \cup Overlaps(e)']
Met(e, kinds, others) == \E k \in kinds, o \in others : <<k, o>> \in met[e]

-------------------------------------------------------------------------------
\* The type invariant.
TypeOK ==
    /\ users \in [Emails -> User \cup {None}]
    /\ tokens \subseteq Token /\ mails \subseteq Token
    /\ given \in 0 .. MaxTokens /\ expired \subseteq Ids
    /\ task \in [Tasks -> Task \cup {None}]
    /\ calls \in [Kinds \cup {"fault", "day"} -> Nat] /\ faults \in Nat
    /\ uses \in [Ids -> Nat]
    /\ met \in [Emails -> SUBSET (Kinds \X Kinds)]

\* "Delete any existing tokens": an account has one link of a kind that works,
\* but for requests that overlapped and made one each.
OneLiveLink ==
    \A e \in Emails, kind \in Links :
        \/ Cardinality(TokensOf(e, kind)) <= 1
        \/ kind = "verify" /\ Met(e, {"resend"}, {"resend"})
        \/ kind = "reset" /\ Met(e, {"forgot"}, {"forgot"})

\* An account that waits for its verification was mailed a link that works,
\* whatever overlapped while it was made, unless an await was rejected, the
\* links got old, or a reset put back that the account was not verified.
MailedLinkWorks ==
    \A e \in Emails :
        Exists(e) /\ ~users[e].verified /\ ~Serving(e) /\ faults = 0 /\ expired = {} =>
            TokensOf(e, "verify") \cap mails # {} \/ Met(e, {"reset"}, {"verify"})

\* A link verifies an account or resets its password once.  It does so twice
\* when it is followed again before it is removed, or when that failed.
LinkIsSpent ==
    \A k \in mails : uses[k.id] <= 1 \/ faults > 0 \/ Met(k.email, {k.kind}, {k.kind})

\* A password changes to the one that a reset asks for, a verified account stays
\* verified, and a profile changes to what an update asks for, unless a request
\* that had read the account before saves it as it was then: verification and
\* resets save all columns, updates only theirs.
OnlyOverlapsUndo ==
    [][\A e \in Emails : Exists(e) =>
          LET old == users[e]
              new == users[e]'
          IN  /\ new.password # old.password =>
                    \/ \E t \in Tasks : At(t, "saveUser") /\ task[t].kind = "reset" /\ Email(t) = e
                                        /\ task[t].password = new.password
                    \/ Met(e, {"reset"}, {"verify"})
              /\ old.verified => new.verified \/ Met(e, {"reset"}, {"verify"})
              /\ \A f \in Fields : new.profile[f] # old.profile[f] =>
                    \/ \E t \in Tasks : At(t, IF f = "location" THEN "saveLocation" ELSE "updateUser")
                                        /\ Email(t) = e /\ task[t].profile[f] = new.profile[f]
                    \/ f # "location" /\ Met(e, {"update"}, {"verify", "reset"})]_accountVars

\* What is answered is so: the account is registered and was mailed a link that
\* works, the email is verified, the new password is the one stored, the password
\* of the login was the account's, and the profile is as it was sent, unless
\* another request for the account overlapped that writes the same.
AnswersAreTrue ==
    [][\A t \in Tasks : Running(t) /\ ~Running(t)' /\ task[t]' # None /\ ~task[t]'.failed =>
          LET e == Email(t)
              kind == task[t].kind
              Mailed(link) == TokensOf(e, link)' \cap mails' # {}
          IN  /\ kind \in {"register", "createAdmin", "resend"} =>
                    Mailed("verify") \/ Met(e, {"resend"}, {"resend"})
              /\ kind = "forgot" => Mailed("reset") \/ Met(e, {"forgot"}, {"forgot"})
              /\ kind = "verify" => users[e].verified \/ Met(e, {"reset"}, {"verify"})
              /\ kind = "reset" => users[e].password = task[t].password \/ Met(e, {"reset"}, {"reset", "verify"})
              /\ kind = "login" => users[e].password = task[t].password \/ Met(e, {"login"}, {"reset", "verify"})
              /\ kind = "update" => \A f \in Fields :
                    \/ task[t].profile[f] \in {None, users[e].profile[f]}
                    \/ Met(e, {"update"}, {"update", "verify", "reset"})]_accountVars
===============================================================================
