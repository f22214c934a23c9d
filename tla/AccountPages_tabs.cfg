CONSTANTS
    e1 = e1
    e2 = e2
    n1 = n1
    x1 = x1
    w1 = w1
    w2 = w2
    t1 = t1
    t2 = t2
    Emails = {e1, e2}
    Names = {n1}
    Passwords = {w1, w2}
    Texts = {x1}
    Tasks = {t1, t2}
    MaxTokens = 5
    MaxForms = 2
    None = None
    Scenarios <- MCScenarios
SPECIFICATION FairSpec
INVARIANTS
    OneLiveLink
    MailedLinkWorks
    LinkIsSpent
PROPERTIES
    OnlyOverlapsUndo
    AnswersAreTrue
    PagesGoOn
CHECK_DEADLOCK FALSE
