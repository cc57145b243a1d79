----------------------------- MODULE WebClient -----------------------------
(***************************************************************************)
(* One page of the web front end (web/app.js): what it shows, for whom,    *)
(* and the calls it has sent and not had answered.  Calls are processed by *)
(* the service, and answered to the page, in any order.                    *)
(*                                                                         *)
(* The page counts the loads of a list and drops an answer when the count  *)
(* has moved on.  A count is never reached twice, so the model names the   *)
(* one load that still counts instead.                                     *)
(***************************************************************************)
EXTENDS Naturals, FiniteSets

CONSTANTS
    Users,       \* people with a login account
    Projects,    \* projects the reimbursement form may offer
    Queries,     \* what the search box may hold, NoQuery among them
    Mutations,   \* keys "METHOD:path" of the operations of a form
    Calls,       \* bound: calls on their way at the same time
    None,        \* nobody, no project, no call
    NoQuery,     \* the empty search box
    MaxSessions, \* bound: changes of sessionVersion
    MaxHeight    \* bound: blocks that change what a list would return

ASSUME PageAssumption == NoQuery \in Queries /\ None \notin Users \cup Projects \cup Calls
ASSUME BoundsAssumption == MaxSessions \in Nat /\ MaxHeight \in Nat

VARIABLES
    principal,      \* state.principal
    sessionVersion, \* state.sessionVersion
    cookie,         \* the user the browser's session cookie stands for
    loginShown,     \* the login dialog covers the page
    call,           \* the calls on their way
    latest,         \* the load that invoiceListRequest, projectInvoiceRequest stand at
    shown,          \* state.invoices, projects, projectInvoices: what was loaded last
    selected,       \* the project selected in the reimbursement form
    search,         \* the search timer and state.invoiceQuery
    dataStale,      \* state.dataStale
    pendingMutationKeys, \* state.pendingMutationKeys
    outlived,       \* history: an operation was on its way when its session ended
    height          \* external: the height of the ledger

pageVars == <<principal, sessionVersion, cookie, loginShown>>
listVars == <<latest, shown, selected, search, dataStale>>
operationVars == <<pendingMutationKeys, outlived>>
vars == <<pageVars, call, listVars, operationVars, height>>

----------------------------------------------------------------------------
SessionKeys == {"POST:/auth/login", "POST:/auth/logout"}
ASSUME KeysAssumption == Mutations \cap SessionKeys = {}

Lists == {"invoices", "projects", "projectInvoices"}

Idle == [kind |-> "idle", about |-> None, session |-> 0, by |-> None,
         processed |-> FALSE, at |-> 0]
Sent(kind, about, session, by) ==
    [Idle EXCEPT !.kind = kind, !.about = about, !.session = session, !.by = by]

\* What a list was loaded for, with whose cookie, in which session, and how
\* much of the ledger it shows.
Nothing == [about |-> None, session |-> 0, by |-> None, at |-> 0]
ContentOf(c) == [about |-> call[c].about, session |-> call[c].session,
                 by |-> call[c].by, at |-> call[c].at]

NoTimer == [set |-> FALSE, session |-> 0, query |-> NoQuery]

Init ==
    /\ principal = None /\ sessionVersion = 0 /\ cookie = None /\ loginShown = TRUE
    /\ call = [c \in Calls |-> Idle]
    /\ latest = [l \in {"invoices", "projectInvoices"} |-> None]
    /\ shown = [l \in Lists |-> Nothing]
    /\ selected = None
    /\ search = [timer |-> NoTimer, query |-> NoQuery]
    /\ dataStale = FALSE
    /\ pendingMutationKeys = {}
    /\ outlived = FALSE
    /\ height = 0

IsFree(c) == call[c].kind = "idle"

\* The user works on the page; the login dialog is modal.
AtWork == principal # None /\ ~loginShown

----------------------------------------------------------------------------
(* External: the service.                                                  *)

Counted == {"invoices", "projectInvoices"}

\* The service reads the ledger for a load.  When it does matters only to the
\* lists whose age is watched below.
Process(c) ==
    /\ call[c].kind \in Counted /\ ~call[c].processed
    /\ call' = [call EXCEPT ![c].processed = TRUE, ![c].at = height]
    /\ UNCHANGED <<pageVars, listVars, operationVars, height>>

\* What becomes of a call.  A session may end by itself at any time: after
\* eight hours, or with the process of the service.
Outcomes(c) ==
    CASE call[c].kind = "logout" -> {"ok", "failed"}
      [] call[c].kind # "login" /\ call[c].by = None -> {"unauthorized", "failed"}
      [] OTHER -> {"ok", "unauthorized", "failed"}

LedgerGrows ==
    /\ height < MaxHeight
    /\ height' = height + 1
    /\ UNCHANGED <<pageVars, call, listVars, operationVars>>

----------------------------------------------------------------------------
(* Loads.  Each sends a call with the cookie, and in the session, of now.  *)

\* reloadBusinessData, in the place of the answered call c: two loads at the
\* same time.  Users, organizations and reimbursements load as projects do.
Reload(c, i, p, session, user, query) ==
    /\ {i, p} \subseteq {d \in Calls : IsFree(d)} \cup {c} /\ i # p
    /\ call' = [call EXCEPT ![c] = Idle,
                            ![i] = Sent("invoices", query, session, user),
                            ![p] = Sent("projects", None, session, user)]
    /\ latest' = [latest EXCEPT !["invoices"] = i]
    /\ dataStale' = FALSE

\* loadInvoices: the refresh button, and what follows smaller operations.
RefreshInvoices(c) ==
    /\ AtWork /\ IsFree(c)
    /\ call' = [call EXCEPT ![c] = Sent("invoices", search.query, sessionVersion, cookie)]
    /\ latest' = [latest EXCEPT !["invoices"] = c]
    /\ UNCHANGED <<pageVars, shown, selected, search, dataStale, operationVars, height>>

RefreshProjects(c) ==
    /\ AtWork /\ IsFree(c)
    /\ call' = [call EXCEPT ![c] = Sent("projects", None, sessionVersion, cookie)]
    /\ UNCHANGED <<pageVars, listVars, operationVars, height>>

RefreshStatistics(i, p) ==
    /\ AtWork /\ IsFree(i)
    /\ Reload(i, i, p, sessionVersion, cookie, search.query)
    /\ UNCHANGED <<pageVars, shown, selected, search, operationVars, height>>

\* Fault: the old list stays until the new one arrives.
SelectProjectKeepingList(c, p) ==
    /\ AtWork /\ IsFree(c) /\ p # selected
    /\ selected' = p
    /\ call' = [call EXCEPT ![c] = Sent("projectInvoices", p, sessionVersion, cookie)]
    /\ latest' = [latest EXCEPT !["projectInvoices"] = c]
    /\ UNCHANGED <<pageVars, shown, search, dataStale, operationVars, height>>

\* Choosing a project in the form: its invoices are loaded into an empty list.
SelectProject(c, p) ==
    /\ AtWork /\ IsFree(c) /\ p # selected
    /\ selected' = p
    /\ call' = [call EXCEPT ![c] = Sent("projectInvoices", p, sessionVersion, cookie)]
    /\ latest' = [latest EXCEPT !["projectInvoices"] = c]
    /\ shown' = [shown EXCEPT !["projectInvoices"] = Nothing]
    /\ UNCHANGED <<pageVars, search, dataStale, operationVars, height>>

ClearSelection ==
    /\ AtWork /\ selected # None
    /\ selected' = None
    /\ latest' = [latest EXCEPT !["projectInvoices"] = None]
    /\ shown' = [shown EXCEPT !["projectInvoices"] = Nothing]
    /\ UNCHANGED <<pageVars, call, search, dataStale, operationVars, height>>

\* Typing makes the load on its way count no more, and starts the timer anew.
TypeQuery(q) ==
    /\ AtWork
    /\ latest' = [latest EXCEPT !["invoices"] = None]
    /\ search' = [search EXCEPT !.timer = [set |-> TRUE, session |-> sessionVersion, query |-> q]]
    /\ UNCHANGED <<pageVars, call, shown, selected, dataStale, operationVars, height>>

\* After 260 ms.  A timer of an earlier session does nothing.
SearchTimer(c) ==
    /\ search.timer.set
    /\ IF search.timer.session = sessionVersion /\ principal # None
       THEN /\ IsFree(c)
            /\ search' = [timer |-> NoTimer, query |-> search.timer.query]
            /\ call' = [call EXCEPT ![c] = Sent("invoices", search.timer.query, sessionVersion, cookie)]
            /\ latest' = [latest EXCEPT !["invoices"] = c]
       ELSE search' = [search EXCEPT !.timer = NoTimer] /\ UNCHANGED <<call, latest>>
    /\ UNCHANGED <<pageVars, shown, selected, dataStale, operationVars, height>>

----------------------------------------------------------------------------
(* Answers.  An answer frees its call; 401 shows the login dialog.         *)

Answered(c, kind, outcome) ==
    /\ call[c].kind = kind
    /\ kind \in Counted => call[c].processed
    /\ outcome \in Outcomes(c)
OutOf(list, c) == [latest EXCEPT ![list] = IF @ = c THEN None ELSE @]
ShowLogin(outcome) == loginShown' = (loginShown \/ outcome = "unauthorized")
Freed(c) == [call EXCEPT ![c] = Idle]

InSession(c) == call[c].session = sessionVersion /\ principal # None

\* Fault: any answer of the session is taken.
CountsAlways(list, c) == InSession(c)

Counts(list, c) == latest[list] = c /\ InSession(c)

\* Fault: a failed load leaves no mark.
InvoicesAnsweredQuietly(c, outcome) ==
    /\ Answered(c, "invoices", outcome)
    /\ call' = Freed(c) /\ latest' = OutOf("invoices", c) /\ ShowLogin(outcome)
    /\ shown' = IF Counts("invoices", c) /\ outcome = "ok"
                THEN [shown EXCEPT !["invoices"] = ContentOf(c)] ELSE shown
    /\ UNCHANGED <<principal, sessionVersion, cookie, selected, search, dataStale,
                   operationVars, height>>

InvoicesAnswered(c, outcome) ==
    /\ Answered(c, "invoices", outcome)
    /\ call' = Freed(c) /\ latest' = OutOf("invoices", c) /\ ShowLogin(outcome)
    /\ shown' = IF Counts("invoices", c) /\ outcome = "ok"
                THEN [shown EXCEPT !["invoices"] = ContentOf(c)] ELSE shown
    /\ dataStale' = (dataStale \/ (Counts("invoices", c) /\ outcome # "ok"))
    /\ UNCHANGED <<principal, sessionVersion, cookie, selected, search, operationVars, height>>

\* A load without a count.  A failure counts in any session; the list renders
\* the projects of the form anew, and the one selected may be gone from it.
ProjectsAnswered(c, outcome) ==
    /\ Answered(c, "projects", outcome)
    /\ ShowLogin(outcome)
    /\ dataStale' = (dataStale \/ outcome # "ok")
    /\ IF InSession(c) /\ outcome = "ok"
       THEN \E gone \in BOOLEAN :
              /\ selected' = IF gone THEN None ELSE selected
              /\ shown' = [shown EXCEPT !["projects"] = ContentOf(c),
                             !["projectInvoices"] = IF selected' = None THEN @ ELSE Nothing]
              /\ IF selected' = None THEN call' = Freed(c) /\ UNCHANGED latest
                 ELSE /\ call' = [call EXCEPT ![c] =
                                    Sent("projectInvoices", selected, sessionVersion, cookie)]
                      /\ latest' = [latest EXCEPT !["projectInvoices"] = c]
       ELSE call' = Freed(c) /\ UNCHANGED <<latest, shown, selected>>
    /\ UNCHANGED <<principal, sessionVersion, cookie, search, operationVars, height>>

ProjectInvoicesAnswered(c, outcome) ==
    /\ Answered(c, "projectInvoices", outcome)
    /\ call' = Freed(c) /\ latest' = OutOf("projectInvoices", c) /\ ShowLogin(outcome)
    /\ shown' = IF Counts("projectInvoices", c) /\ selected = call[c].about /\ outcome = "ok"
                THEN [shown EXCEPT !["projectInvoices"] = ContentOf(c)] ELSE shown
    /\ UNCHANGED <<principal, sessionVersion, cookie, selected, search, dataStale,
                   operationVars, height>>

----------------------------------------------------------------------------
(* Operations: one at a time of each key.                                  *)

Pending(key) == key \in pendingMutationKeys

\* Fault: a second click sends the operation again.
PressTwice(c, key) ==
    /\ AtWork /\ IsFree(c)
    /\ call' = [call EXCEPT ![c] = Sent("mutation", key, sessionVersion, cookie)]
    /\ pendingMutationKeys' = pendingMutationKeys \cup {key}
    /\ UNCHANGED <<pageVars, listVars, outlived, height>>

Press(c, key) ==
    /\ AtWork /\ IsFree(c) /\ ~Pending(key)
    /\ call' = [call EXCEPT ![c] = Sent("mutation", key, sessionVersion, cookie)]
    /\ pendingMutationKeys' = pendingMutationKeys \cup {key}
    /\ UNCHANGED <<pageVars, listVars, outlived, height>>

\* The key is given back whatever the answer; what follows success runs in
\* whatever session the page has come to.
MutationAnswered(c, outcome, i, p) ==
    /\ Answered(c, "mutation", outcome)
    /\ pendingMutationKeys' = pendingMutationKeys \ {call[c].about}
    /\ ShowLogin(outcome)
    /\ IF outcome = "ok" /\ principal # None
       THEN Reload(c, i, p, sessionVersion, cookie, search.query)
       ELSE /\ call' = Freed(c) /\ dataStale' = (dataStale /\ outcome # "ok")
            /\ UNCHANGED latest
    /\ UNCHANGED <<principal, sessionVersion, cookie, shown, selected, search, outlived, height>>

----------------------------------------------------------------------------
(* Sessions.                                                               *)

\* state.sessionVersion += 1.
SessionEnds ==
    /\ sessionVersion < MaxSessions
    /\ sessionVersion' = sessionVersion + 1
    /\ outlived' = (outlived \/ \E c \in Calls : call[c].kind = "mutation")

\* The dialog is there when nobody is logged in, and after a 401.
PressLogin(c, u) ==
    /\ loginShown /\ IsFree(c) /\ ~Pending("POST:/auth/login")
    /\ call' = [call EXCEPT ![c] = Sent("login", u, sessionVersion, cookie)]
    /\ pendingMutationKeys' = pendingMutationKeys \cup {"POST:/auth/login"}
    /\ UNCHANGED <<pageVars, listVars, outlived, height>>

CloseLogin ==
    /\ loginShown /\ principal # None
    /\ loginShown' = FALSE
    /\ UNCHANGED <<principal, sessionVersion, cookie, call, listVars, operationVars, height>>

\* The answer brings the cookie.  What was shown stays until it is replaced.
LoggedIn(c, i, p) ==
    /\ Answered(c, "login", "ok") /\ SessionEnds
    /\ principal' = call[c].about /\ cookie' = call[c].about
    /\ loginShown' = FALSE
    /\ pendingMutationKeys' = pendingMutationKeys \ {"POST:/auth/login"}
    /\ Reload(c, i, p, sessionVersion', cookie', search.query)
    /\ UNCHANGED <<shown, selected, search, height>>

LoginRefused(c, outcome) ==
    /\ Answered(c, "login", outcome) /\ outcome # "ok"
    /\ call' = Freed(c)
    /\ pendingMutationKeys' = pendingMutationKeys \ {"POST:/auth/login"}
    /\ ShowLogin(outcome)
    /\ UNCHANGED <<principal, sessionVersion, cookie, listVars, outlived, height>>

PressLogout(c) ==
    /\ AtWork /\ IsFree(c) /\ ~Pending("POST:/auth/logout")
    /\ call' = [call EXCEPT ![c] = Sent("logout", None, sessionVersion, cookie)]
    /\ pendingMutationKeys' = pendingMutationKeys \cup {"POST:/auth/logout"}
    /\ UNCHANGED <<pageVars, listVars, outlived, height>>

\* The page is emptied whatever became of the call.
LogOutLocally ==
    /\ SessionEnds
    /\ principal' = None /\ loginShown' = TRUE
    /\ pendingMutationKeys' = {}
    /\ latest' = [l \in DOMAIN latest |-> None]
    /\ shown' = [l \in Lists |-> Nothing]
    /\ selected' = None
    /\ search' = [timer |-> NoTimer, query |-> NoQuery]
    /\ UNCHANGED <<dataStale, height>>

\* A second click is refused for its key, and goes on as if it had failed.
PressLogoutAgain ==
    /\ AtWork /\ Pending("POST:/auth/logout")
    /\ LogOutLocally
    /\ UNCHANGED <<cookie, call>>

LoggedOut(c, outcome) ==
    /\ Answered(c, "logout", outcome)
    /\ call' = Freed(c)
    /\ cookie' = IF outcome = "ok" THEN None ELSE cookie
    /\ LogOutLocally

----------------------------------------------------------------------------
SessionNext ==
    \/ \E c \in Calls :
          \/ \E u \in Users : PressLogin(c, u)
          \/ PressLogout(c)
          \/ \E i, p \in Calls : LoggedIn(c, i, p)
          \/ \E outcome \in Outcomes(c) : LoginRefused(c, outcome) \/ LoggedOut(c, outcome)
    \/ CloseLogin \/ PressLogoutAgain

LoadNext ==
    \/ LedgerGrows
    \/ \E c \in Calls :
          \/ Process(c)
          \/ \E outcome \in Outcomes(c) : InvoicesAnswered(c, outcome) \/ ProjectsAnswered(c, outcome)

SearchNext == (\E q \in Queries : TypeQuery(q)) \/ (\E c \in Calls : SearchTimer(c))

FormNext ==
    \/ \E c \in Calls :
          \/ RefreshProjects(c)
          \/ \E p \in Projects : SelectProject(c, p)
          \/ \E outcome \in Outcomes(c) : ProjectInvoicesAnswered(c, outcome)
    \/ \E i, p \in Calls : RefreshStatistics(i, p)
    \/ ClearSelection

OperationNext ==
    \E c \in Calls :
        \/ RefreshInvoices(c)
        \/ \E key \in Mutations : Press(c, key)
        \/ \E outcome \in Outcomes(c), i, p \in Calls : MutationAnswered(c, outcome, i, p)

Next == SessionNext \/ LoadNext \/ SearchNext \/ FormNext \/ OperationNext

Spec == Init /\ [][Next]_vars

----------------------------------------------------------------------------
(* Within a session the invoice list, and the invoices offered for the     *)
(* project selected, never go back to an earlier block, in whatever order  *)
(* loads are answered (loadInvoices, loadProjectInvoices;                  *)
(* test-ui-regressions.js: a late old response).                           *)
CountedListsNeverGoBack ==
    [][\A l \in {"invoices", "projectInvoices"} :
         shown[l] # Nothing /\ shown'[l] # Nothing /\ sessionVersion' = sessionVersion
         /\ shown'[l].about = shown[l].about
            => shown'[l].at >= shown[l].at]_vars

LoadUnderWay(kind) == \E c \in Calls : call[c].kind = kind /\ InSession(c)

(* The invoices offered for a claim were loaded for the project selected,  *)
(* and in this session or with its first project list still to come, or    *)
(* failed and marked so (loadProjectInvoices, renderProjectOptions).       *)
OffersAreOfThisSession ==
    LET offered == shown["projectInvoices"]
    IN principal # None /\ selected # None /\ offered # Nothing =>
         /\ offered.about = selected
         /\ \/ offered.session = sessionVersion
            \/ LoadUnderWay("projects") \/ dataStale

Catching(kind) == LoadUnderWay(kind) \/ dataStale \/ search.timer.set

(* A list is what the service returned to the user whose name the page     *)
(* bears, and the invoice list is what was searched for, unless a load     *)
(* that will replace it is due or its failure is marked: whatever was      *)
(* typed, failed, and came late, or from an earlier user                   *)
(* (reloadBusinessData, loadInvoices, the search timer).                   *)
ListsAreOfTheUser ==
    principal # None =>
        /\ \/ shown["invoices"].by = principal /\ shown["invoices"].about = search.query
           \/ Catching("invoices")
        /\ shown["projects"].by = principal \/ Catching("projects")

SameOperation(c, d) ==
    c # d /\ call[c].kind = "mutation" /\ call[d].kind = "mutation" /\ call[c].about = call[d].about

(* An operation is on its way once at most, as long as none outlives the   *)
(* session it was started in (api: pendingMutationKeys).                   *)
OperationsAreSentOnce == outlived \/ \A c, d \in Calls : ~SameOperation(c, d)

(* api answers a second click while an operation is under way: "the same   *)
(* operation is being processed, do not submit it again".  An operation    *)
(* that outlives its session gives back the key of the next one.           *)
NoSecondSubmission ==
    \A c, d \in Calls : SameOperation(c, d) => call[c].session # call[d].session
============================================================================
