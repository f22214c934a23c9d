----------------------------- MODULE AccountPages -----------------------------
(***************************************************************************)
(* The web pages of accounts: registration, the links that are mailed, the *)
(* login with the session it makes, and the form of the profile.  Each tab *)
(* is a browser of its own and waits for one request at a time, its button *)
(* being disabled; it shows the error of a refused request and of a lost   *)
(* connection alike.                                                       *)
(***************************************************************************)
EXTENDS Accounts

CONSTANT MaxForms   \* bound: the profile forms that are opened

ASSUME PagesAssumption == MaxForms \in Nat

VARIABLES
    tab,
    forms           \* how many profile forms were opened

pageVars == <<accountVars, tab, forms>>

Pages == {"home", "register", "verify", "login", "forgot", "reset", "form", "profile"}
Tab == [page : Pages, me : Emails \cup {None}, email : Emails \cup {None}, form : Profile,
        wait : (Kinds \ {"createAdmin"}) \cup {None},
        toast : {None, "success", "error"}]

Init ==
    /\ AccountsInit
    /\ forms = 0
    /\ \E me \in {e \in Emails : Exists(e) /\ users[e].verified} \cup {None} :
          tab = [t \in Tasks |-> [page |-> "home", me |-> me, email |-> None, form |-> NoProfile,
                                  wait |-> None, toast |-> None]]

(***************************************************************************)
(* Requests of a page, and what it does with the answers                   *)
(***************************************************************************)
Idle(t) == tab[t].wait = None /\ ~Running(t)
\* Submitting the form of a page disables its button.
Submit(t, page, kind, e) ==
    /\ Idle(t)
    /\ tab' = [tab EXCEPT ![t] = [@ EXCEPT !.page = page, !.email = e, !.wait = kind, !.toast = None]]
    /\ UNCHANGED forms

Lost(t) == task[t] = None
Refused(t) == Lost(t) \/ task[t].failed
\* Mutant of Returned: the wait ends only with an answer.
ReturnedAnswered(t, kind) == tab[t].wait = kind /\ ~Lost(t) /\ ~Running(t)
Returned(t, kind) == tab[t].wait = kind /\ (Lost(t) \/ ~Running(t))

\* finally: the button is enabled, whatever came.
Settle(t, shown) ==
    /\ tab' = [tab EXCEPT ![t] = [shown EXCEPT !.wait = None]]
    /\ UNCHANGED <<stores, task, calls, faults, forms>>
Toasted(t, page, toast) == [tab[t] EXCEPT !.page = page, !.toast = toast]
\* On success to another page, on an error to none.
Ends(t, kind, page) ==
    /\ Returned(t, kind)
    /\ Settle(t, IF Refused(t) THEN Toasted(t, tab[t].page, "error") ELSE Toasted(t, page, "success"))

(***************************************************************************)
(* The pages                                                               *)
(***************************************************************************)
SubmitRegister(t, e, name, password) ==
    Submit(t, "register", "register", e) /\ Register(t, e, name, password)
RegisterAnswered(t) == Ends(t, "register", "verify")

\* The button of the page that registration leads to; its address holds the
\* email, and can be opened in another tab.
HandleResend(t, e) ==
    /\ \E u \in Tasks : tab[u].page = "verify" /\ tab[u].email = e
    /\ Submit(t, "verify", "resend", e)
    /\ ResendVerificationEmail(t, e)
ResendAnswered(t) == Ends(t, "resend", "verify")

\* The link in a mail: the page has no email, and sends the token when it is shown.
OpenLink(t, link) ==
    /\ link.kind = "verify"
    /\ Submit(t, "verify", "verify", None)
    /\ VerifyEmail(t, link.id)
LinkAnswered(t) == Ends(t, "verify", "login")

SubmitForgot(t, e) == Submit(t, "forgot", "forgot", e) /\ ForgotPassword(t, e)
ForgotAnswered(t) == Ends(t, "forgot", "login")

SubmitReset(t, link, password) ==
    /\ link.kind = "reset"
    /\ Submit(t, "reset", "reset", link.email)
    /\ ResetPassword(t, link.id, password)
ResetAnswered(t) == Ends(t, "reset", "login")

SubmitLogin(t, e, password) == Submit(t, "login", "login", e) /\ Login(t, e, password)
\* authorize answers null, and signIn throws, whatever the reason: nobody is
\* sent to verify the email.
LoginAnswered(t) ==
    /\ Returned(t, "login")
    /\ Settle(t, IF Refused(t) THEN Toasted(t, "login", "error")
                 ELSE [Toasted(t, "home", "success") EXCEPT !.me = tab[t].email])

\* The form is filled in with the account, or left empty when that is not read.
\* The location is that of a store which outlives the form, until a full load: one
\* that is not in the account stays as it was chosen before.
Fillings(t, profile) ==
    {[profile EXCEPT !.location = IF @ = None THEN kept ELSE @] : kept \in {None, tab[t].form.location}}
OpenForm(t) ==
    /\ forms < MaxForms /\ forms' = forms + 1
    /\ Idle(t) /\ tab[t].me # None
    /\ \E read \in {users[tab[t].me].profile, NoProfile} :
          /\ \E form \in Fillings(t, read) : tab' = [tab EXCEPT ![t].page = "form", ![t].form = form]
          /\ \/ read = users[tab[t].me].profile /\ UNCHANGED <<stores, task, calls, faults>>
             \/ read = NoProfile /\ Fault /\ UNCHANGED <<stores, task>>

\* updateUserProfile deletes the phone number from what it sends.
Sent(form) == [form EXCEPT !.phone = None]
\* One field is edited, all are sent; a location can be changed but not cleared.
SubmitForm(t, field, text) ==
    LET form == [tab[t].form EXCEPT ![field] = text]
    IN  /\ tab[t].page = "form" /\ tab[t].me # None
        /\ field = "location" => text # None
        /\ Idle(t)
        /\ tab' = [tab EXCEPT ![t].form = form, ![t].wait = "update", ![t].toast = None]
        /\ UNCHANGED forms
        /\ Update(t, tab[t].me, tab[t].me, Sent(form))
FormAnswered(t) == Ends(t, "update", "profile")

-------------------------------------------------------------------------------
Answered(t) ==
    \/ RegisterAnswered(t) \/ ResendAnswered(t) \/ LinkAnswered(t) \/ ForgotAnswered(t)
    \/ ResetAnswered(t) \/ LoginAnswered(t) \/ FormAnswered(t)

UserAct(t) ==
    \/ \E e \in Emails, password \in Passwords :
          \/ \E name \in Names : SubmitRegister(t, e, name, password)
          \/ SubmitLogin(t, e, password)
    \/ OpenForm(t)
    \/ \E link \in mails : \/ OpenLink(t, link)
                           \/ \E password \in Passwords : SubmitReset(t, link, password)
    \/ \E e \in Emails : SubmitForgot(t, e) \/ HandleResend(t, e)
    \/ \E field \in Fields, text \in Texts \cup {None} : SubmitForm(t, field, text)

\* Administrators are made without a page.
AdminRequest(t) ==
    /\ tab[t].wait = None
    /\ \E e \in Emails, name \in Names, password \in Passwords, secret \in BOOLEAN :
          CreateAdmin(t, e, name, password, secret)

Quietly == UNCHANGED <<tab, forms>> /\ Remember
PageStep(t) == Answered(t) /\ Remember
ServerStep(t) == Step(t) /\ Quietly
Next ==
    \/ \E t \in Tasks : PageStep(t) \/ ServerStep(t) \/ (UserAct(t) /\ Remember) \/ (AdminRequest(t) /\ Quietly)
    \/ (Crash \/ Day) /\ Quietly

Spec == Init /\ [][Next]_pageVars
\* The event loops of Node.js and of the browser go on; users need not act.
FairSpec == Spec /\ \A t \in Tasks : WF_pageVars(PageStep(t)) /\ WF_pageVars(ServerStep(t))

-------------------------------------------------------------------------------
\* The type invariant.
PagesTypeOK ==
    /\ TypeOK
    /\ tab \in [Tasks -> Tab]
    /\ forms \in 0 .. MaxForms

\* A page that waits for an answer goes on, whatever was refused, failed or lost.
PagesGoOn == \A t \in Tasks : tab[t].wait # None ~> tab[t].wait = None
===============================================================================
