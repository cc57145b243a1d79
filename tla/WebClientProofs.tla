-------------------------- MODULE WebClientProofs --------------------------
(***************************************************************************)
(* The web page for any number of users, projects, operations, and calls   *)
(* on their way at the same time.                                          *)
(***************************************************************************)
EXTENDS WebClient, TLAPS

----------------------------------------------------------------------------
(* Types.                                                                  *)

Things == Users \cup Projects \cup Queries \cup Mutations \cup {None}

Call ==
  [kind : {"idle", "invoices", "projects", "projectInvoices", "mutation", "login", "logout"},
   about : Things, session : Nat, by : Things, processed : BOOLEAN, at : Nat]

Content == [about : Things, session : Nat, by : Things, at : Nat]

Timer == [set : BOOLEAN, session : Nat, query : Queries]

PageTypeOK ==
  /\ principal \in Things /\ cookie \in Things
  /\ sessionVersion \in Nat /\ height \in Nat
  /\ call \in [Calls -> Call]
  /\ latest \in [Counted -> Calls \cup {None}]
  /\ shown \in [Lists -> Content]
  /\ selected \in Projects \cup {None}
  /\ search \in [timer : Timer, query : Queries]

\* A call that nobody has processed.
Fresh(r) == ~r.processed /\ r.at = 0

LEMMA SentType ==
  ASSUME NEW kind \in {"invoices", "projects", "projectInvoices", "mutation", "login", "logout"},
         NEW about \in Things, NEW session \in Nat, NEW by \in Things
  PROVE  /\ Sent(kind, about, session, by) \in Call /\ Idle \in Call
         /\ Sent(kind, about, session, by).kind = kind
         /\ Sent(kind, about, session, by).about = about
         /\ Fresh(Sent(kind, about, session, by))
  BY DEF Sent, Idle, Call, Things, Fresh

LEMMA IdleType ==
  /\ Idle \in Call /\ Idle.kind = "idle" /\ Fresh(Idle)
  /\ Nothing \in Content /\ Nothing.at = 0
  BY DEF Idle, Call, Nothing, Content, Things, Fresh

LEMMA ContentType ==
  ASSUME PageTypeOK, NEW c \in Calls PROVE ContentOf(c) \in Content /\ ContentOf(c).at = call[c].at
  BY DEF PageTypeOK, ContentOf, Call, Content

\* What reloadBusinessData leaves of the calls.
LEMMA ReloadType ==
  ASSUME PageTypeOK, NEW c \in Calls, NEW i \in Calls, NEW p \in Calls, NEW session \in Nat,
         NEW user \in Things, NEW query \in Queries,
         Reload(c, i, p, session, user, query)
  PROVE  /\ call' \in [Calls -> Call] /\ latest' \in [Counted -> Calls \cup {None}]
         /\ \A d \in Calls :
               \/ call'[d] = call[d] /\ d \notin {c, i, p}
               \/ call'[d].kind \in {"idle", "invoices", "projects"} /\ Fresh(call'[d])
         /\ latest'["invoices"] = i /\ latest'["projectInvoices"] = latest["projectInvoices"]
         /\ i \in {c} \/ IsFree(i)
<1> DEFINE si == Sent("invoices", query, session, user)
           sp == Sent("projects", None, session, user)
<1>1. /\ si \in Call /\ sp \in Call /\ Idle \in Call
      /\ si.kind = "invoices" /\ Fresh(si) /\ sp.kind = "projects" /\ Fresh(sp)
      /\ Idle.kind = "idle" /\ Fresh(Idle)
  <2>1. query \in Things /\ None \in Things
    BY DEF Things
  <2>2. si \in Call /\ si.kind = "invoices" /\ Fresh(si)
    BY <2>1, SentType
  <2>3. sp \in Call /\ sp.kind = "projects" /\ Fresh(sp)
    BY <2>1, SentType
  <2> QED BY <2>2, <2>3, IdleType
<1>2. /\ call' = [call EXCEPT ![c] = Idle, ![i] = si, ![p] = sp]
      /\ latest' = [latest EXCEPT !["invoices"] = i]
      /\ call \in [Calls -> Call] /\ latest \in [Counted -> Calls \cup {None}]
      /\ i \in {c} \/ IsFree(i)
  BY DEF Reload, PageTypeOK
<1> HIDE DEF si, sp
<1>3. call' \in [Calls -> Call]
  BY <1>1, <1>2
<1>4. ASSUME NEW d \in Calls
      PROVE  \/ call'[d] = call[d] /\ d \notin {c, i, p}
             \/ call'[d].kind \in {"idle", "invoices", "projects"} /\ Fresh(call'[d])
  <2>1. d \notin {c, i, p} => call'[d] = call[d]
    BY <1>2
  <2>2. d \in {c, i, p} => call'[d] \in {Idle, si, sp}
    BY <1>2
  <2> QED BY <1>1, <2>1, <2>2
<1>5. /\ latest' \in [Counted -> Calls \cup {None}]
      /\ latest'["invoices"] = i /\ latest'["projectInvoices"] = latest["projectInvoices"]
  BY <1>2 DEF Counted
<1> QED BY <1>2, <1>3, <1>4, <1>5

LEMMA PageTypeInit == Init => PageTypeOK
<1> SUFFICES ASSUME Init PROVE PageTypeOK
  OBVIOUS
<1>1. call \in [Calls -> Call] /\ shown \in [Lists -> Content]
  BY IdleType DEF Init
<1>2. NoTimer \in Timer /\ NoQuery \in Queries
  BY PageAssumption DEF NoTimer, Timer
<1>3. search \in [timer : Timer, query : Queries]
  BY <1>2 DEF Init
<1> QED BY <1>1, <1>3 DEF Init, PageTypeOK, Things, Counted

LEMMA PageTypeSession == PageTypeOK /\ SessionNext => PageTypeOK'
<1> SUFFICES ASSUME PageTypeOK, SessionNext PROVE PageTypeOK'
  OBVIOUS
<1>0. /\ principal \in Things /\ cookie \in Things
      /\ sessionVersion \in Nat /\ height \in Nat /\ call \in [Calls -> Call]
      /\ search.query \in Queries
  BY DEF PageTypeOK
<1>1. ASSUME NEW c \in Calls, NEW u \in Users, PressLogin(c, u) PROVE PageTypeOK'
  <2>1. Sent("login", u, sessionVersion, cookie) \in Call
    BY <1>0, SentType DEF Things
  <2>2. call' \in [Calls -> Call]
    BY <1>0, <1>1, <2>1 DEF PressLogin
  <2> QED BY <1>1, <2>2 DEF PressLogin, PageTypeOK, pageVars, listVars
<1>2. ASSUME NEW c \in Calls, PressLogout(c) PROVE PageTypeOK'
  <2>1. Sent("logout", None, sessionVersion, cookie) \in Call
    BY <1>0, SentType DEF Things
  <2>2. call' \in [Calls -> Call]
    BY <1>0, <1>2, <2>1 DEF PressLogout
  <2> QED BY <1>2, <2>2 DEF PressLogout, PageTypeOK, pageVars, listVars
<1>3. ASSUME NEW c \in Calls, NEW i \in Calls, NEW p \in Calls, LoggedIn(c, i, p)
      PROVE  PageTypeOK'
  <2>1. sessionVersion' \in Nat /\ sessionVersion' = sessionVersion + 1
    BY <1>0, <1>3 DEF LoggedIn, SessionEnds
  <2>2. call[c].about \in Things
    BY <1>0 DEF Call
  <2>3. cookie' = call[c].about /\ Reload(c, i, p, sessionVersion', cookie', search.query)
    BY <1>3 DEF LoggedIn
  <2>4. call' \in [Calls -> Call] /\ latest' \in [Counted -> Calls \cup {None}]
    BY <1>0, <2>1, <2>2, <2>3, ReloadType
  <2> QED BY <1>3, <2>1, <2>2, <2>4 DEF LoggedIn, PageTypeOK
<1>4. ASSUME NEW c \in Calls, NEW outcome \in Outcomes(c), LoginRefused(c, outcome)
      PROVE  PageTypeOK'
  <2>1. call' \in [Calls -> Call]
    BY <1>0, <1>4, IdleType DEF LoginRefused, Freed
  <2> QED BY <1>4, <2>1 DEF LoginRefused, PageTypeOK, listVars
<1>5. ASSUME LogOutLocally
      PROVE  /\ principal' = None /\ sessionVersion' \in Nat /\ height' = height
             /\ latest' \in [Counted -> Calls \cup {None}] /\ shown' \in [Lists -> Content]
             /\ selected' = None /\ search' \in [timer : Timer, query : Queries]
  <2>1. NoTimer \in Timer /\ NoQuery \in Queries
    BY PageAssumption DEF NoTimer, Timer
  <2>2. search' \in [timer : Timer, query : Queries]
    BY <1>5, <2>1 DEF LogOutLocally
  <2>3. shown' \in [Lists -> Content] /\ latest' \in [Counted -> Calls \cup {None}]
    BY <1>5, IdleType DEF LogOutLocally, PageTypeOK
  <2> QED BY <1>0, <1>5, <2>2, <2>3 DEF LogOutLocally, SessionEnds
<1>6. CASE PressLogoutAgain
  BY <1>5, <1>6 DEF PressLogoutAgain, PageTypeOK, Things
<1>7. ASSUME NEW c \in Calls, NEW outcome \in Outcomes(c), LoggedOut(c, outcome)
      PROVE  PageTypeOK'
  <2>1. call' \in [Calls -> Call]
    BY <1>0, <1>7, IdleType DEF LoggedOut, Freed
  <2>2. cookie' \in Things
    BY <1>0, <1>7 DEF LoggedOut, Things
  <2> QED BY <1>5, <1>7, <2>1, <2>2 DEF LoggedOut, PageTypeOK, Things
<1>8. CASE CloseLogin
  BY <1>8 DEF CloseLogin, PageTypeOK, listVars
<1> QED BY <1>1, <1>2, <1>3, <1>4, <1>6, <1>7, <1>8 DEF SessionNext

LEMMA PageTypeLoads ==
  PageTypeOK /\ (LoadNext \/ SearchNext \/ FormNext \/ OperationNext) => PageTypeOK'
<1> SUFFICES ASSUME PageTypeOK, LoadNext \/ SearchNext \/ FormNext \/ OperationNext PROVE PageTypeOK'
  OBVIOUS
<1>0. /\ principal \in Things /\ cookie \in Things
      /\ sessionVersion \in Nat /\ height \in Nat /\ call \in [Calls -> Call]
      /\ latest \in [Counted -> Calls \cup {None}] /\ shown \in [Lists -> Content]
      /\ selected \in Projects \cup {None} /\ None \in Things
      /\ search.query \in Queries /\ search.query \in Things
      /\ search.timer.query \in Queries /\ search.timer.query \in Things
  BY DEF PageTypeOK, Timer, Things
<1>a. ASSUME NEW kind \in {"invoices", "projects", "projectInvoices", "mutation"},
             NEW about \in Things
      PROVE  Sent(kind, about, sessionVersion, cookie) \in Call
  BY <1>0, <1>a, SentType
<1>b. ASSUME NEW c \in Calls PROVE Freed(c) \in [Calls -> Call]
  BY <1>0, IdleType DEF Freed
<1>c. ASSUME NEW l \in Counted, NEW c \in Calls
      PROVE  OutOf(l, c) \in [Counted -> Calls \cup {None}]
  BY <1>0 DEF OutOf
<1>1. CASE LedgerGrows
  BY <1>0, <1>1 DEF LedgerGrows, PageTypeOK, pageVars, listVars
<1>2. ASSUME NEW c \in Calls, Process(c) PROVE PageTypeOK'
  <2>1. call' \in [Calls -> Call]
    BY <1>0, <1>2 DEF Process, Call
  <2> QED BY <1>2, <2>1 DEF Process, PageTypeOK, pageVars, listVars
<1>3. ASSUME NEW c \in Calls, NEW outcome \in Outcomes(c), InvoicesAnswered(c, outcome)
      PROVE  PageTypeOK'
  <2>1. shown' \in [Lists -> Content]
    BY <1>0, <1>3, ContentType DEF InvoicesAnswered
  <2> QED BY <1>3, <1>b, <1>c, <2>1 DEF InvoicesAnswered, PageTypeOK, Counted
<1>4. ASSUME NEW c \in Calls, NEW outcome \in Outcomes(c), ProjectsAnswered(c, outcome)
      PROVE  PageTypeOK'
  <2>1. selected' \in Projects \cup {None} /\ selected' \in Things
    BY <1>0, <1>4 DEF ProjectsAnswered, Things
  <2>2. shown' \in [Lists -> Content]
    BY <1>0, <1>4, ContentType, IdleType DEF ProjectsAnswered, Lists
  <2>3. call' \in [Calls -> Call]
    BY <1>0, <1>4, <1>a, <1>b, <2>1 DEF ProjectsAnswered
  <2>4. latest' \in [Counted -> Calls \cup {None}]
    BY <1>0, <1>4 DEF ProjectsAnswered
  <2> QED BY <1>4, <2>1, <2>2, <2>3, <2>4 DEF ProjectsAnswered, PageTypeOK
<1>5. ASSUME NEW c \in Calls, NEW outcome \in Outcomes(c), ProjectInvoicesAnswered(c, outcome)
      PROVE  PageTypeOK'
  <2>1. shown' \in [Lists -> Content]
    BY <1>0, <1>5, ContentType DEF ProjectInvoicesAnswered
  <2> QED BY <1>5, <1>b, <1>c, <2>1 DEF ProjectInvoicesAnswered, PageTypeOK, Counted
<1>6. ASSUME NEW q \in Queries, TypeQuery(q) PROVE PageTypeOK'
  <2>1. search' \in [timer : Timer, query : Queries]
    BY <1>0, <1>6 DEF TypeQuery, PageTypeOK, Timer
  <2>2. latest' \in [Counted -> Calls \cup {None}]
    BY <1>0, <1>6 DEF TypeQuery
  <2> QED BY <1>6, <2>1, <2>2 DEF TypeQuery, PageTypeOK, pageVars
<1>7. ASSUME NEW c \in Calls, SearchTimer(c) PROVE PageTypeOK'
  <2>1. search' \in [timer : Timer, query : Queries]
    <3>1. NoTimer \in Timer
      BY PageAssumption DEF NoTimer, Timer
    <3>2. \/ search' = [timer |-> NoTimer, query |-> search.timer.query]
          \/ search' = [search EXCEPT !.timer = NoTimer]
      BY <1>7 DEF SearchTimer
    <3> QED BY <1>0, <3>1, <3>2 DEF PageTypeOK
  <2>2. call' \in [Calls -> Call] /\ latest' \in [Counted -> Calls \cup {None}]
    BY <1>0, <1>7, <1>a DEF SearchTimer
  <2> QED BY <1>7, <2>1, <2>2 DEF SearchTimer, PageTypeOK, pageVars
<1>8. ASSUME NEW c \in Calls, RefreshProjects(c) PROVE PageTypeOK'
  <2>1. call' \in [Calls -> Call]
    BY <1>0, <1>8, <1>a DEF RefreshProjects
  <2> QED BY <1>8, <2>1 DEF RefreshProjects, PageTypeOK, pageVars, listVars
<1>9. ASSUME NEW c \in Calls, NEW p \in Projects, SelectProject(c, p) PROVE PageTypeOK'
  <2>1. call' \in [Calls -> Call] /\ latest' \in [Counted -> Calls \cup {None}]
    BY <1>0, <1>9, <1>a DEF SelectProject, Things
  <2>2. shown' \in [Lists -> Content]
    BY <1>0, <1>9, IdleType DEF SelectProject
  <2> QED BY <1>9, <2>1, <2>2 DEF SelectProject, PageTypeOK, pageVars
<1>10. CASE ClearSelection
  BY <1>0, <1>10, IdleType DEF ClearSelection, PageTypeOK, pageVars
<1>11. ASSUME NEW i \in Calls, NEW p \in Calls, RefreshStatistics(i, p) PROVE PageTypeOK'
  <2>1. call' \in [Calls -> Call] /\ latest' \in [Counted -> Calls \cup {None}]
    BY <1>0, <1>11, ReloadType DEF RefreshStatistics
  <2> QED BY <1>11, <2>1 DEF RefreshStatistics, PageTypeOK, pageVars
<1>12. ASSUME NEW c \in Calls, RefreshInvoices(c) PROVE PageTypeOK'
  <2>1. call' \in [Calls -> Call] /\ latest' \in [Counted -> Calls \cup {None}]
    BY <1>0, <1>12, <1>a DEF RefreshInvoices
  <2> QED BY <1>12, <2>1 DEF RefreshInvoices, PageTypeOK, pageVars
<1>13. ASSUME NEW c \in Calls, NEW key \in Mutations, Press(c, key) PROVE PageTypeOK'
  <2>1. call' \in [Calls -> Call]
    BY <1>0, <1>13, <1>a DEF Press, Things
  <2> QED BY <1>13, <2>1 DEF Press, PageTypeOK, pageVars, listVars
<1>14. ASSUME NEW c \in Calls, NEW outcome \in Outcomes(c), NEW i \in Calls, NEW p \in Calls,
              MutationAnswered(c, outcome, i, p)
       PROVE  PageTypeOK'
  <2>1. call' \in [Calls -> Call] /\ latest' \in [Counted -> Calls \cup {None}]
    BY <1>0, <1>14, <1>b, ReloadType DEF MutationAnswered
  <2> QED BY <1>14, <2>1 DEF MutationAnswered, PageTypeOK
<1> QED BY <1>1, <1>2, <1>3, <1>4, <1>5, <1>6, <1>7, <1>8, <1>9, <1>10, <1>11, <1>12, <1>13, <1>14
        DEF LoadNext, SearchNext, FormNext, OperationNext

LEMMA PageTypeStep == PageTypeOK /\ [Next]_vars => PageTypeOK'
<1>1. ASSUME PageTypeOK, UNCHANGED vars PROVE PageTypeOK'
  BY <1>1 DEF PageTypeOK, vars, pageVars, listVars, operationVars
<1> QED BY <1>1, PageTypeSession, PageTypeLoads DEF Next

----------------------------------------------------------------------------
(* Operations.  As long as none outlived its session, every operation on   *)
(* its way holds its key; a key is held by one operation, and given back   *)
(* by its answer alone: a session that ends has none on its way.           *)

OperationInv ==
  ~outlived =>
      \A c, d \in Calls :
          call[c].kind = "mutation" =>
              /\ call[c].about \in Mutations \cap pendingMutationKeys
              /\ ~SameOperation(c, d)

\* Nothing happens to the operations on their way but that they are answered.
Quiet ==
  /\ outlived' = outlived
  /\ \A c \in Calls :
        call'[c].kind = "mutation" => call[c].kind = "mutation" /\ call'[c].about = call[c].about
  /\ pendingMutationKeys \cap Mutations = pendingMutationKeys' \cap Mutations

LEMMA QuietKeeps == OperationInv /\ Quiet => OperationInv'
  BY DEF OperationInv, Quiet, SameOperation

\* A session ends with its operations, or one of them outlives it.
LEMMA EndKeeps ==
  ASSUME OperationInv, SessionEnds,
         \A c \in Calls : call'[c].kind = "mutation" => call[c].kind = "mutation"
  PROVE  OperationInv'
  BY DEF OperationInv, SessionEnds

LEMMA LoadsAreQuiet ==
  PageTypeOK /\ (LoadNext \/ SearchNext \/ FormNext \/ (\E c \in Calls : RefreshInvoices(c))) => Quiet
<1> SUFFICES ASSUME PageTypeOK, LoadNext \/ SearchNext \/ FormNext \/ (\E c \in Calls : RefreshInvoices(c))
             PROVE  Quiet
  OBVIOUS
<1>0. call \in [Calls -> Call]
  BY DEF PageTypeOK
<1>1. operationVars' = operationVars
  BY DEF LoadNext, LedgerGrows, Process, InvoicesAnswered, ProjectsAnswered, SearchNext, TypeQuery,
         SearchTimer, FormNext, RefreshProjects, SelectProject, ProjectInvoicesAnswered,
         RefreshStatistics, ClearSelection, RefreshInvoices
<1>2. SUFFICES \A d \in Calls :
         call'[d].kind = "mutation" => call[d].kind = "mutation" /\ call'[d].about = call[d].about
  BY <1>1 DEF Quiet, operationVars
<1>a. ASSUME NEW c \in Calls, NEW new, new.kind # "mutation", call' = [call EXCEPT ![c] = new]
      PROVE  \A d \in Calls :
                call'[d].kind = "mutation" => call[d].kind = "mutation" /\ call'[d].about = call[d].about
  BY <1>0, <1>a
<1>b. /\ Idle.kind # "mutation"
      /\ \A kind, about, session, by : Sent(kind, about, session, by).kind = kind
  BY DEF Idle, Sent
<1>3. CASE UNCHANGED call
  BY <1>3
<1>4. CASE LoadNext
  <2>1. ASSUME NEW c \in Calls, Process(c)
        PROVE  \A d \in Calls : call'[d].kind = call[d].kind /\ call'[d].about = call[d].about
    BY <1>0, <2>1 DEF Process, Call
  <2>2. ASSUME NEW c \in Calls, NEW outcome \in Outcomes(c),
               InvoicesAnswered(c, outcome) \/ ProjectsAnswered(c, outcome)
        PROVE  \E new : new.kind # "mutation" /\ call' = [call EXCEPT ![c] = new]
    BY <1>b, <2>2 DEF InvoicesAnswered, ProjectsAnswered, Freed
  <2> QED BY <1>3, <1>4, <1>a, <2>1, <2>2 DEF LoadNext, LedgerGrows
<1>5. CASE SearchNext
  BY <1>3, <1>5, <1>a, <1>b DEF SearchNext, TypeQuery, SearchTimer
<1>6. CASE FormNext
  <2>1. ASSUME NEW c \in Calls,
               \/ RefreshProjects(c)
               \/ \E p \in Projects : SelectProject(c, p)
               \/ \E outcome \in Outcomes(c) : ProjectInvoicesAnswered(c, outcome)
        PROVE  \E new : new.kind # "mutation" /\ call' = [call EXCEPT ![c] = new]
    BY <1>b, <2>1 DEF RefreshProjects, SelectProject, ProjectInvoicesAnswered, Freed
  <2>2. ASSUME NEW i \in Calls, NEW p \in Calls, RefreshStatistics(i, p)
        PROVE  \A d \in Calls : call'[d] = call[d] \/ call'[d].kind # "mutation"
    <3>1. Reload(i, i, p, sessionVersion, cookie, search.query)
      BY <2>2 DEF RefreshStatistics
    <3>2. sessionVersion \in Nat /\ cookie \in Things /\ search.query \in Queries
      BY DEF PageTypeOK
    <3> QED BY <3>1, <3>2, ReloadType
  <2> QED BY <1>3, <1>6, <1>a, <2>1, <2>2 DEF FormNext, ClearSelection
<1>7. CASE \E c \in Calls : RefreshInvoices(c)
  BY <1>7, <1>a, <1>b DEF RefreshInvoices
<1> QED BY <1>4, <1>5, <1>6, <1>7

LEMMA PressKeeps ==
  ASSUME PageTypeOK, OperationInv, NEW c \in Calls, NEW key \in Mutations, Press(c, key)
  PROVE  OperationInv'
<1>0. call \in [Calls -> Call]
  BY DEF PageTypeOK
<1>1. /\ ~Pending(key) /\ pendingMutationKeys' = pendingMutationKeys \cup {key}
      /\ outlived' = outlived
      /\ call'[c].kind = "mutation" /\ call'[c].about = key
      /\ \A d \in Calls \ {c} : call'[d] = call[d]
  BY <1>0 DEF Press, Sent, Idle
<1> QED BY <1>1 DEF OperationInv, SameOperation, Pending

LEMMA AnswerKeeps ==
  ASSUME PageTypeOK, OperationInv, NEW c \in Calls, NEW outcome \in Outcomes(c),
         NEW i \in Calls, NEW p \in Calls, MutationAnswered(c, outcome, i, p)
  PROVE  OperationInv'
<1>0. /\ call \in [Calls -> Call] /\ sessionVersion \in Nat /\ cookie \in Things
      /\ search.query \in Queries
  BY DEF PageTypeOK
<1>1. /\ call[c].kind = "mutation" /\ outlived' = outlived
      /\ pendingMutationKeys' = pendingMutationKeys \ {call[c].about}
  BY DEF MutationAnswered, Answered
<1>2. /\ call'[c].kind # "mutation"
      /\ \A d \in Calls : call'[d] = call[d] \/ call'[d].kind # "mutation"
  <2>1. CASE Reload(c, i, p, sessionVersion, cookie, search.query)
    BY <1>0, <2>1, ReloadType
  <2>2. CASE call' = Freed(c)
    BY <1>0, <2>2, IdleType DEF Freed
  <2> QED BY <2>1, <2>2 DEF MutationAnswered
<1> QED BY <1>1, <1>2 DEF OperationInv, SameOperation

LEMMA SessionKeeps ==
  ASSUME PageTypeOK, OperationInv, SessionNext PROVE OperationInv'
<1>0. /\ call \in [Calls -> Call] /\ sessionVersion \in Nat /\ search.query \in Queries
  BY DEF PageTypeOK
<1>a. ASSUME NEW c \in Calls, NEW new, new.kind # "mutation", call' = [call EXCEPT ![c] = new]
      PROVE  \A d \in Calls :
                call'[d].kind = "mutation" => call[d].kind = "mutation" /\ call'[d].about = call[d].about
  BY <1>0, <1>a
<1>b. /\ Idle.kind # "mutation"
      /\ \A kind, about, session, by : Sent(kind, about, session, by).kind = kind
  BY DEF Idle, Sent
<1>1. ASSUME NEW c \in Calls,
             \/ \E u \in Users : PressLogin(c, u)
             \/ PressLogout(c)
             \/ \E outcome \in Outcomes(c) : LoginRefused(c, outcome)
      PROVE  Quiet
  <2>1. /\ outlived' = outlived
        /\ \E new : new.kind # "mutation" /\ call' = [call EXCEPT ![c] = new]
    BY <1>1, <1>b DEF PressLogin, PressLogout, LoginRefused, Freed
  <2>2. pendingMutationKeys \cap Mutations = pendingMutationKeys' \cap Mutations
    BY <1>1, KeysAssumption DEF PressLogin, PressLogout, LoginRefused, SessionKeys
  <2> QED BY <1>a, <2>1, <2>2 DEF Quiet
<1>2. ASSUME NEW c \in Calls, NEW i \in Calls, NEW p \in Calls, LoggedIn(c, i, p)
      PROVE  OperationInv'
  <2>1. /\ SessionEnds /\ cookie' = call[c].about
        /\ Reload(c, i, p, sessionVersion', cookie', search.query)
    BY <1>2 DEF LoggedIn
  <2>2. sessionVersion' \in Nat /\ cookie' \in Things
    BY <1>0, <2>1 DEF SessionEnds, Call
  <2>3. \A d \in Calls : call'[d].kind = "mutation" => call[d].kind = "mutation"
    BY <1>0, <2>1, <2>2, ReloadType
  <2> QED BY <2>1, <2>3, EndKeeps
<1>3. ASSUME NEW c \in Calls, NEW outcome \in Outcomes(c), LoggedOut(c, outcome)
      PROVE  OperationInv'
  BY <1>3, <1>a, <1>b, EndKeeps DEF LoggedOut, LogOutLocally, Freed
<1>4. CASE PressLogoutAgain
  BY <1>4, EndKeeps DEF PressLogoutAgain, LogOutLocally
<1>5. CASE CloseLogin
  BY <1>5, QuietKeeps DEF CloseLogin, Quiet, operationVars
<1> QED BY <1>1, <1>2, <1>3, <1>4, <1>5, QuietKeeps DEF SessionNext

\* An operation is on its way once at most, however many calls are, as long
\* as none outlives its session.
THEOREM OperationsAreNotRepeated == Spec => []OperationsAreSentOnce
<1> DEFINE Inv == PageTypeOK /\ OperationInv
<1>1. Init => Inv
  BY PageTypeInit DEF Init, OperationInv, Idle
<1>2. Inv /\ [Next]_vars => Inv'
  <2> SUFFICES ASSUME PageTypeOK, OperationInv, [Next]_vars PROVE OperationInv'
    BY PageTypeStep
  <2>1. CASE UNCHANGED vars
    BY <2>1, QuietKeeps DEF Quiet, vars, operationVars
  <2>2. CASE OperationNext
    BY <2>2, LoadsAreQuiet, QuietKeeps, PressKeeps, AnswerKeeps DEF OperationNext
  <2> QED BY <2>1, <2>2, LoadsAreQuiet, QuietKeeps, SessionKeeps DEF Next
<1>3. Inv => OperationsAreSentOnce
  BY DEF OperationInv, OperationsAreSentOnce, SameOperation
<1> QED BY <1>1, <1>2, <1>3, PTL DEF Spec

----------------------------------------------------------------------------
(* The lists whose loads are counted.  The load that counts was sent after *)
(* the list shown was answered, so that the service reads for it a ledger  *)
(* no older than the one shown.                                            *)

AgeInv ==
  /\ \A l \in Counted : shown[l].at <= height
  /\ \A c \in Calls : call[c].at <= height
  /\ \A l \in Counted, c \in Calls :
        latest[l] = c /\ call[c].kind = l /\ call[c].processed => call[c].at >= shown[l].at

\* Lists stay or are emptied; a load that counts is an old one or is not yet
\* processed.
Calm ==
  /\ height' = height
  /\ \A l \in Counted : shown'[l] = shown[l] \/ shown'[l] = Nothing
  /\ \A c \in Calls : call'[c] = call[c] \/ Fresh(call'[c])
  /\ \A l \in Counted, c \in Calls :
        latest'[l] = c /\ call'[c] = call[c] /\ call[c].processed => latest[l] = c

LEMMA Ages ==
  ASSUME PageTypeOK
  PROVE  /\ height \in Nat /\ \A c \in Calls : call[c] \in Call /\ call[c].at \in Nat
         /\ \A l \in Counted : shown[l] \in Content /\ shown[l].at \in Nat
  BY DEF PageTypeOK, Counted, Lists, Content, Call

LEMMA CalmKeeps == PageTypeOK /\ AgeInv /\ Calm => AgeInv'
  BY Ages, IdleType DEF AgeInv, Calm, Fresh

\* A step that sends, or frees, one call.
LEMMA CalmUpdate ==
  ASSUME PageTypeOK, height' = height,
         \A l \in Counted : shown'[l] = shown[l] \/ shown'[l] = Nothing,
         NEW c \in Calls, NEW new, Fresh(new), call' = [call EXCEPT ![c] = new],
         \A l \in Counted : latest'[l] \in {latest[l], None, c}
  PROVE  Calm
<1>1. /\ call'[c] = new /\ None \notin Calls
      /\ \A d \in Calls \ {c} : call'[d] = call[d]
  BY PageAssumption DEF PageTypeOK
<1> QED BY <1>1 DEF Calm, Fresh

LEMMA CalmReload ==
  ASSUME PageTypeOK, height' = height, UNCHANGED shown,
         NEW c \in Calls, NEW i \in Calls, NEW p \in Calls, NEW session \in Nat,
         NEW user \in Things, NEW query \in Queries, Reload(c, i, p, session, user, query)
  PROVE  Calm
<1>1. /\ \A d \in Calls : (call'[d] = call[d] /\ d # i) \/ Fresh(call'[d])
      /\ latest'["invoices"] = i /\ latest'["projectInvoices"] = latest["projectInvoices"]
  BY ReloadType
<1> QED BY <1>1 DEF Calm, Counted, Fresh

LEMMA SessionIsCalm == PageTypeOK /\ SessionNext => Calm
<1> SUFFICES ASSUME PageTypeOK, SessionNext PROVE Calm
  OBVIOUS
<1>0. /\ sessionVersion \in Nat /\ search.query \in Queries /\ cookie \in Things
      /\ None \in Things /\ Users \subseteq Things /\ None \notin Calls
      /\ \A c \in Calls : call[c].about \in Things
  BY PageAssumption DEF PageTypeOK, Things, Call
<1>1. ASSUME NEW c \in Calls,
             \/ \E u \in Users : PressLogin(c, u)
             \/ PressLogout(c)
             \/ \E outcome \in Outcomes(c) : LoginRefused(c, outcome)
      PROVE  Calm
  <2>1. \E new : Fresh(new) /\ call' = [call EXCEPT ![c] = new]
    BY <1>0, <1>1, SentType, IdleType DEF PressLogin, PressLogout, LoginRefused, Freed
  <2>2. height' = height /\ shown' = shown /\ latest' = latest
    BY <1>1 DEF PressLogin, PressLogout, LoginRefused, listVars
  <2> QED BY <2>1, <2>2, CalmUpdate
<1>2. ASSUME NEW c \in Calls, NEW i \in Calls, NEW p \in Calls, LoggedIn(c, i, p)
      PROVE  Calm
  <2>1. /\ sessionVersion' \in Nat /\ cookie' \in Things /\ height' = height /\ UNCHANGED shown
        /\ Reload(c, i, p, sessionVersion', cookie', search.query)
    BY <1>0, <1>2 DEF LoggedIn, SessionEnds
  <2> QED BY <1>0, <2>1, CalmReload
<1>a. ASSUME LogOutLocally
      PROVE  /\ height' = height
             /\ \A l \in Counted : shown'[l] = Nothing /\ latest'[l] = None
  BY <1>a DEF LogOutLocally, Counted, Lists, PageTypeOK
<1>3. ASSUME NEW c \in Calls, NEW outcome \in Outcomes(c), LoggedOut(c, outcome)
      PROVE  Calm
  <2>1. Fresh(Idle) /\ call' = [call EXCEPT ![c] = Idle]
    BY <1>3, IdleType DEF LoggedOut, Freed
  <2> QED BY <1>3, <1>a, <2>1, CalmUpdate DEF LoggedOut
<1>4. CASE PressLogoutAgain
  BY <1>0, <1>4, <1>a DEF PressLogoutAgain, Calm
<1>5. CASE CloseLogin
  BY <1>5 DEF CloseLogin, listVars, Calm
<1> QED BY <1>1, <1>2, <1>3, <1>4, <1>5 DEF SessionNext

LEMMA WorkIsCalm ==
  ASSUME PageTypeOK,
         \/ SearchNext
         \/ OperationNext
         \/ FormNext /\ ~\E c \in Calls : \E outcome \in Outcomes(c) : ProjectInvoicesAnswered(c, outcome)
         \/ \E c \in Calls : \E outcome \in Outcomes(c) : ProjectsAnswered(c, outcome)
  PROVE  Calm
<1>0. /\ sessionVersion \in Nat /\ search.query \in Queries /\ cookie \in Things
      /\ search.query \in Things /\ search.timer.query \in Things
      /\ selected \in Projects \cup {None}
      /\ None \in Things /\ Projects \subseteq Things /\ Mutations \subseteq Things
      /\ latest \in [Counted -> Calls \cup {None}] /\ shown \in [Lists -> Content]
      /\ None \notin Calls
  BY PageAssumption DEF PageTypeOK, Things, Timer
<1>a. /\ Fresh(Idle)
      /\ \A kind \in {"invoices", "projects", "projectInvoices", "mutation"}, about \in Things :
            Fresh(Sent(kind, about, sessionVersion, cookie))
  BY <1>0, SentType, IdleType
<1>1. ASSUME NEW q \in Queries, TypeQuery(q) PROVE Calm
  BY <1>0, <1>1 DEF TypeQuery, Calm
<1>2. ASSUME NEW c \in Calls, SearchTimer(c) PROVE Calm
  <2>1. CASE UNCHANGED <<call, latest>>
    BY <1>0, <1>2, <2>1 DEF SearchTimer, Calm
  <2>2. CASE /\ call' = [call EXCEPT ![c] = Sent("invoices", search.timer.query, sessionVersion, cookie)]
             /\ latest' = [latest EXCEPT !["invoices"] = c]
    <3>1. height' = height /\ shown' = shown
      BY <1>2 DEF SearchTimer
    <3> QED BY <1>0, <1>a, <2>2, <3>1, CalmUpdate
  <2> QED BY <1>2, <2>1, <2>2 DEF SearchTimer
<1>3. ASSUME NEW c \in Calls, RefreshInvoices(c) PROVE Calm
  <2>1. /\ height' = height /\ shown' = shown
        /\ call' = [call EXCEPT ![c] = Sent("invoices", search.query, sessionVersion, cookie)]
        /\ latest' = [latest EXCEPT !["invoices"] = c]
    BY <1>3 DEF RefreshInvoices
  <2> QED BY <1>0, <1>a, <2>1, CalmUpdate
<1>4. ASSUME NEW c \in Calls, NEW key \in Mutations, Press(c, key) PROVE Calm
  <2>1. /\ height' = height /\ shown' = shown /\ latest' = latest
        /\ call' = [call EXCEPT ![c] = Sent("mutation", key, sessionVersion, cookie)]
    BY <1>4 DEF Press, listVars
  <2> QED BY <1>0, <1>a, <2>1, CalmUpdate
<1>5. ASSUME NEW c \in Calls, NEW outcome \in Outcomes(c), NEW i \in Calls, NEW p \in Calls,
             MutationAnswered(c, outcome, i, p)
      PROVE  Calm
  <2>1. CASE Reload(c, i, p, sessionVersion, cookie, search.query)
    BY <1>0, <1>5, <2>1, CalmReload DEF MutationAnswered
  <2>2. CASE call' = Freed(c) /\ UNCHANGED latest
    <3>1. height' = height /\ shown' = shown /\ call' = [call EXCEPT ![c] = Idle]
      BY <1>5, <2>2 DEF MutationAnswered, Freed
    <3> QED BY <1>a, <2>2, <3>1, CalmUpdate
  <2> QED BY <1>5, <2>1, <2>2 DEF MutationAnswered
<1>6. ASSUME NEW c \in Calls, RefreshProjects(c) PROVE Calm
  <2>1. /\ height' = height /\ shown' = shown /\ latest' = latest
        /\ call' = [call EXCEPT ![c] = Sent("projects", None, sessionVersion, cookie)]
    BY <1>6 DEF RefreshProjects, listVars
  <2> QED BY <1>0, <1>a, <2>1, CalmUpdate
<1>7. ASSUME NEW c \in Calls, NEW p \in Projects, SelectProject(c, p) PROVE Calm
  <2>1. /\ height' = height /\ shown' = [shown EXCEPT !["projectInvoices"] = Nothing]
        /\ call' = [call EXCEPT ![c] = Sent("projectInvoices", p, sessionVersion, cookie)]
        /\ latest' = [latest EXCEPT !["projectInvoices"] = c]
    BY <1>7 DEF SelectProject
  <2>2. \A l \in Counted : shown'[l] = shown[l] \/ shown'[l] = Nothing
    BY <1>0, <2>1 DEF Counted, Lists
  <2> QED BY <1>0, <1>a, <2>1, <2>2, CalmUpdate
<1>8. CASE ClearSelection
  <2>1. \A l \in Counted : shown'[l] = shown[l] \/ shown'[l] = Nothing
    BY <1>0, <1>8 DEF ClearSelection, Counted, Lists
  <2> QED BY <1>0, <1>8, <2>1 DEF ClearSelection, Calm
<1>9. ASSUME NEW i \in Calls, NEW p \in Calls, RefreshStatistics(i, p) PROVE Calm
  BY <1>0, <1>9, CalmReload DEF RefreshStatistics
<1>10. ASSUME NEW c \in Calls, NEW outcome \in Outcomes(c), ProjectsAnswered(c, outcome) PROVE Calm
  <2>1. \A l \in Counted : shown'[l] = shown[l] \/ shown'[l] = Nothing
    BY <1>0, <1>10 DEF ProjectsAnswered, Counted, Lists
  <2>2. /\ \E new : Fresh(new) /\ call' = [call EXCEPT ![c] = new]
        /\ height' = height /\ \A l \in Counted : latest'[l] \in {latest[l], None, c}
    <3>1. selected' \in Things
      BY <1>0, <1>10 DEF ProjectsAnswered
    <3>2. \/ call' = [call EXCEPT ![c] = Idle] /\ UNCHANGED latest
          \/ /\ call' = [call EXCEPT ![c] = Sent("projectInvoices", selected, sessionVersion, cookie)]
             /\ latest' = [latest EXCEPT !["projectInvoices"] = c]
      BY <1>10 DEF ProjectsAnswered, Freed
    <3> QED BY <1>0, <1>10, <1>a, <3>1, <3>2 DEF ProjectsAnswered
  <2> QED BY <2>1, <2>2, CalmUpdate
<1> QED BY <1>1, <1>2, <1>3, <1>4, <1>5, <1>6, <1>7, <1>8, <1>9, <1>10
        DEF SearchNext, OperationNext, FormNext

\* An answer that is shown is of the load that counted.
LEMMA AnswerIsLater ==
  ASSUME PageTypeOK, AgeInv, NEW l \in Counted, NEW c \in Calls,
         call[c].kind = l, call[c].processed, height' = height, call' = Freed(c), latest' = OutOf(l, c),
         \/ shown' = shown
         \/ latest[l] = c /\ shown' = [shown EXCEPT ![l] = ContentOf(c)]
  PROVE  /\ AgeInv' /\ shown'[l].at >= shown[l].at
         /\ \A m \in Counted \ {l} : shown'[m] = shown[m]
<1>0. /\ call \in [Calls -> Call] /\ latest \in [Counted -> Calls \cup {None}]
      /\ shown \in [Lists -> Content] /\ Counted \subseteq Lists /\ None \notin Calls
  BY PageAssumption DEF PageTypeOK, Counted, Lists
<1>1. /\ \/ shown'[l] = shown[l]
         \/ shown'[l].at = call[c].at /\ call[c].at >= shown[l].at
      /\ \A m \in Counted \ {l} : shown'[m] = shown[m]
  BY <1>0, ContentType DEF AgeInv
<1>2. /\ call'[c] = Idle /\ \A d \in Calls \ {c} : call'[d] = call[d]
      /\ \A m \in Counted \ {l} : latest'[m] = latest[m]
      /\ latest'[l] # c /\ (latest'[l] \in Calls => latest'[l] = latest[l])
      /\ \A d \in Calls : latest'[l] = d => latest[l] = d /\ shown'[l] = shown[l]
  BY <1>0 DEF Freed, OutOf
<1> QED BY <1>0, <1>1, <1>2, Ages, IdleType DEF AgeInv, Fresh

AnswersOf(c, l) ==
  /\ call[c].kind = l /\ call[c].processed /\ height' = height
  /\ call' = Freed(c) /\ latest' = OutOf(l, c)
  /\ \/ shown' = shown
     \/ latest[l] = c /\ shown' = [shown EXCEPT ![l] = ContentOf(c)]

LEMMA AgeStep ==
  ASSUME PageTypeOK, AgeInv, [Next]_vars
  PROVE  /\ AgeInv'
         /\ \A l \in Counted : shown'[l] # Nothing => shown'[l].at >= shown[l].at
<1>0. /\ call \in [Calls -> Call] /\ None \notin Calls
  BY PageAssumption DEF PageTypeOK
<1>1. CASE Calm
  <2>1. AgeInv'
    BY <1>1, CalmKeeps
  <2>2. \A l \in Counted : shown'[l] # Nothing => shown'[l].at >= shown[l].at
    BY <1>1, Ages DEF Calm
  <2> QED BY <2>1, <2>2
<1>2. ASSUME NEW c \in Calls, NEW l \in Counted, AnswersOf(c, l)
      PROVE  /\ AgeInv'
             /\ \A m \in Counted : shown'[m].at >= shown[m].at
  BY <1>2, Ages, AnswerIsLater DEF AnswersOf
<1>3. ASSUME NEW c \in Calls, NEW outcome \in Outcomes(c), InvoicesAnswered(c, outcome)
      PROVE  AnswersOf(c, "invoices")
  BY <1>3 DEF InvoicesAnswered, Answered, Counts, AnswersOf, Counted
<1>4. ASSUME NEW c \in Calls, NEW outcome \in Outcomes(c), ProjectInvoicesAnswered(c, outcome)
      PROVE  AnswersOf(c, "projectInvoices")
  BY <1>4 DEF ProjectInvoicesAnswered, Answered, Counts, AnswersOf, Counted
<1>5. ASSUME NEW c \in Calls, Process(c)
      PROVE  AgeInv' /\ UNCHANGED shown
  <2>1. /\ latest' = latest /\ shown' = shown /\ height' = height
        /\ call'[c].at = height /\ \A d \in Calls \ {c} : call'[d] = call[d]
    BY <1>0, <1>5 DEF Process, listVars, Call
  <2> QED BY <2>1, Ages DEF AgeInv
<1>6. CASE LedgerGrows
  <2>1. /\ latest' = latest /\ shown' = shown /\ height' = height + 1 /\ call' = call
    BY <1>6 DEF LedgerGrows, listVars
  <2> QED BY <2>1, Ages DEF AgeInv
<1>7. UNCHANGED vars => Calm
  BY <1>0 DEF vars, listVars, Calm
<1>8. CASE LoadNext
  <2>1. "invoices" \in Counted
    BY DEF Counted
  <2> QED BY <1>1, <1>2, <1>3, <1>5, <1>6, <1>8, <2>1, Ages, WorkIsCalm DEF LoadNext
<1>9. CASE FormNext
  <2>1. "projectInvoices" \in Counted
    BY DEF Counted
  <2> QED BY <1>1, <1>2, <1>4, <1>9, <2>1, WorkIsCalm
<1> QED BY <1>1, <1>7, <1>8, <1>9, SessionIsCalm, WorkIsCalm DEF Next

\* Of the lists whose loads are counted none is ever replaced by an older
\* one, in whatever order any number of loads is processed and answered.
THEOREM ListsGoForward == Spec => CountedListsNeverGoBack
<1> DEFINE Inv == PageTypeOK /\ AgeInv
<1>1. Init => Inv
  BY PageTypeInit, IdleType DEF Init, AgeInv, Counted, Lists, Fresh
<1>2. Inv /\ [Next]_vars => Inv'
  BY PageTypeStep, AgeStep
<1>3. Inv /\ [Next]_vars =>
        [\A l \in {"invoices", "projectInvoices"} :
            shown[l] # Nothing /\ shown'[l] # Nothing /\ sessionVersion' = sessionVersion
            /\ shown'[l].about = shown[l].about
               => shown'[l].at >= shown[l].at]_vars
  BY AgeStep DEF Counted
<1> QED BY <1>1, <1>2, <1>3, PTL DEF Spec, CountedListsNeverGoBack

----------------------------------------------------------------------------
(* The lists of a session.  Every load of the session was sent for its     *)
(* user; the invoice load that counts asks for what is searched for.  A    *)
(* list that is of another user, of another search or of another session   *)
(* is about to be replaced, and what is about to replace it is of this     *)
(* session: a load sent before the session began replaces nothing.         *)

InvoicesDue(c) == latest["invoices"] = c /\ call[c].kind = "invoices" /\ InSession(c)
TimerRuns == search.timer.set /\ search.timer.session = sessionVersion

LoadInv ==
  /\ principal # None => cookie = principal
  /\ \A c \in Calls :
        /\ call[c].session <= sessionVersion
        /\ call[c].kind \in Lists /\ InSession(c) => call[c].by = principal
        /\ InvoicesDue(c) => call[c].about = search.query

SearchInv ==
  principal # None =>
    \/ shown["invoices"].by = principal /\ shown["invoices"].about = search.query
    \/ TimerRuns \/ dataStale \/ \E c \in Calls : InvoicesDue(c)

ProjectsInv ==
  principal # None => shown["projects"].by = principal \/ dataStale \/ LoadUnderWay("projects")

OffersInv ==
  selected # None /\ shown["projectInvoices"] # Nothing =>
    /\ shown["projectInvoices"].about = selected
    /\ principal # None =>
         shown["projectInvoices"].session = sessionVersion \/ dataStale \/ LoadUnderWay("projects")

SessionInv == LoadInv /\ SearchInv /\ ProjectsInv /\ OffersInv

\* A call before and after a step, and one that the step sent or freed.
Alike(c) == \A f \in {"kind", "about", "session", "by"} : call'[c][f] = call[c][f]

SentNow(c) ==
  /\ call'[c].session <= sessionVersion'
  /\ call'[c].kind \in Lists => call'[c].by = cookie'
  /\ call'[c].kind = "invoices" => call'[c].about = search'.query

SameSession == principal' = principal /\ sessionVersion' = sessionVersion /\ cookie' = cookie

LEMMA SentFields ==
  ASSUME NEW kind, NEW about, NEW session, NEW by
  PROVE  /\ Sent(kind, about, session, by).kind = kind
         /\ Sent(kind, about, session, by).about = about
         /\ Sent(kind, about, session, by).session = session
         /\ Sent(kind, about, session, by).by = by
         /\ Idle.kind = "idle" /\ Idle.session = 0
  BY DEF Sent, Idle

\* In a session loads are sent with its cookie, and replace nothing else.
LEMMA LoadKeeps ==
  ASSUME LoadInv, SameSession,
         \A c \in Calls :
            \/ SentNow(c)
            \/ /\ Alike(c)
               /\ latest'["invoices"] = c => latest["invoices"] = c /\ search'.query = search.query
  PROVE  LoadInv'
  BY DEF LoadInv, SameSession, SentNow, Alike, InvoicesDue, InSession

\* Loads of the lists that are under way stay so.
StillDue ==
  /\ principal # None /\ dataStale => dataStale'
  /\ \A c \in Calls : call[c].kind = "projects" /\ InSession(c) => Alike(c)

LEMMA DueStays ==
  ASSUME SameSession, StillDue, LoadUnderWay("projects")
  PROVE  LoadUnderWay("projects")'
  BY DEF SameSession, StillDue, Alike, LoadUnderWay, InSession

LEMMA ProjectsKept ==
  ASSUME ProjectsInv, SameSession, StillDue, shown'["projects"] = shown["projects"]
  PROVE  ProjectsInv'
  BY DueStays DEF ProjectsInv, SameSession, StillDue

LEMMA OffersKept ==
  ASSUME OffersInv, SameSession, StillDue,
         \/ shown'["projectInvoices"] = Nothing
         \/ selected' = selected /\ shown'["projectInvoices"] = shown["projectInvoices"]
  PROVE  OffersInv'
  BY DueStays DEF OffersInv, SameSession, StillDue

LEMMA SearchKept ==
  ASSUME SearchInv, SameSession, StillDue, search' = search,
         shown'["invoices"] = shown["invoices"],
         \A c \in Calls : InvoicesDue(c) => Alike(c) /\ latest'["invoices"] = c
  PROVE  SearchInv'
<1>1. TimerRuns => TimerRuns'
  BY DEF TimerRuns, SameSession
<1>2. \A c \in Calls : InvoicesDue(c) => InvoicesDue(c)'
  BY DEF InvoicesDue, InSession, SameSession, Alike
<1> QED BY <1>1, <1>2 DEF SearchInv, SameSession, StillDue

\* What reloadBusinessData sends.
LEMMA ReloadSends ==
  ASSUME PageTypeOK, NEW c \in Calls, NEW i \in Calls, NEW p \in Calls, NEW session, NEW user,
         NEW query, Reload(c, i, p, session, user, query)
  PROVE  /\ call'[i] = Sent("invoices", query, session, user)
         /\ call'[p] = Sent("projects", None, session, user)
         /\ c \in {i, p} \/ call'[c] = Idle
         /\ \A d \in Calls \ {c, i, p} : call'[d] = call[d]
         /\ latest'["invoices"] = i
  BY DEF Reload, PageTypeOK, Counted

\* After it every list is due in the session it was sent in.
LEMMA ReloadRenews ==
  ASSUME PageTypeOK, LoadInv, NEW c \in Calls, NEW i \in Calls, NEW p \in Calls, OffersInv,
         Reload(c, i, p, sessionVersion', cookie', search.query),
         sessionVersion' \in Nat, sessionVersion <= sessionVersion',
         principal' # None, cookie' = principal',
         sessionVersion' = sessionVersion => principal' = principal,
         shown' = shown, selected' = selected, search' = search
  PROVE  SessionInv'
<1>1. /\ call'[i].kind = "invoices" /\ call'[i].about = search'.query
      /\ call'[i].session = sessionVersion' /\ call'[i].by = cookie'
      /\ call'[p].kind = "projects" /\ call'[p].session = sessionVersion' /\ call'[p].by = cookie'
      /\ latest'["invoices"] = i
  BY ReloadSends, SentFields
<1>2. InvoicesDue(i)' /\ LoadUnderWay("projects")'
  BY <1>1 DEF InvoicesDue, LoadUnderWay, InSession
<1>3. LoadInv'
  <2> SUFFICES ASSUME NEW d \in Calls
               PROVE  /\ call'[d].session <= sessionVersion'
                      /\ call'[d].kind \in Lists /\ InSession(d)' => call'[d].by = principal'
                      /\ InvoicesDue(d)' => call'[d].about = search'.query
    BY DEF LoadInv
  <2>1. CASE d \in {i, p}
    BY <1>1, <2>1 DEF InvoicesDue
  <2>2. CASE d = c /\ d \notin {i, p}
    <3>1. call'[d].session = 0 /\ call'[d].kind = "idle"
      BY <2>2, ReloadSends, SentFields
    <3> QED BY <3>1 DEF Lists, InvoicesDue
  <2>3. CASE d \notin {c, i, p}
    <3>1. call'[d] = call[d] /\ d # latest'["invoices"]
      BY <1>1, <2>3, ReloadSends
    <3>2. /\ call[d].session \in Nat /\ sessionVersion \in Nat
          /\ call[d].session <= sessionVersion
          /\ call[d].kind \in Lists /\ InSession(d) => call[d].by = principal
      BY DEF LoadInv, PageTypeOK, Call
    <3> QED BY <3>1, <3>2 DEF InvoicesDue, InSession
  <2> QED BY <2>1, <2>2, <2>3
<1>4. SearchInv' /\ ProjectsInv'
  BY <1>2 DEF SearchInv, ProjectsInv
<1>5. OffersInv'
  BY <1>2 DEF OffersInv
<1> QED BY <1>3, <1>4, <1>5 DEF SessionInv

\* A step that changes one call, which is no load of a list on its way.
LEMMA CallChanged ==
  ASSUME PageTypeOK, SessionInv, SameSession, NEW c \in Calls, NEW new,
         call' = [call EXCEPT ![c] = new], SentNow(c),
         call[c].kind \notin {"invoices", "projects"},
         latest'["invoices"] = latest["invoices"], principal # None /\ dataStale => dataStale',
         search' = search, shown'["invoices"] = shown["invoices"],
         shown'["projects"] = shown["projects"],
         \/ shown'["projectInvoices"] = Nothing
         \/ selected' = selected /\ shown'["projectInvoices"] = shown["projectInvoices"]
  PROVE  SessionInv'
<1>1. \A d \in Calls \ {c} : Alike(d)
  BY DEF Alike, PageTypeOK
<1>2. StillDue
  BY <1>1 DEF StillDue
<1>3. LoadInv'
  BY <1>1, LoadKeeps DEF SessionInv
<1>4. \A d \in Calls : InvoicesDue(d) => Alike(d) /\ latest'["invoices"] = d
  BY <1>1 DEF InvoicesDue
<1> QED BY <1>2, <1>3, <1>4, SearchKept, ProjectsKept, OffersKept DEF SessionInv

LEMMA NothingSent ==
  ASSUME SessionInv, SameSession, \A c \in Calls : Alike(c),
         latest'["invoices"] = latest["invoices"], dataStale => dataStale',
         search' = search, shown'["invoices"] = shown["invoices"],
         shown'["projects"] = shown["projects"],
         \/ shown'["projectInvoices"] = Nothing
         \/ selected' = selected /\ shown'["projectInvoices"] = shown["projectInvoices"]
  PROVE  SessionInv'
<1>1. StillDue
  BY DEF StillDue
<1>2. LoadInv'
  BY LoadKeeps DEF SessionInv
<1> QED BY <1>1, <1>2, SearchKept, ProjectsKept, OffersKept DEF SessionInv, InvoicesDue

LEMMA SessionInvInit == Init => SessionInv
  BY IdleType DEF Init, SessionInv, LoadInv, SearchInv, ProjectsInv, OffersInv, Idle, Lists, InvoicesDue

LEMMA EmptiedKeeps ==
  ASSUME PageTypeOK, SessionInv, LogOutLocally, \A c \in Calls : call'[c] \in {call[c], Idle}
  PROVE  SessionInv'
<1>1. /\ principal' = None /\ selected' = None /\ sessionVersion' = sessionVersion + 1
      /\ sessionVersion \in Nat
      /\ \A c \in Calls : latest'["invoices"] # c
  BY PageAssumption DEF LogOutLocally, SessionEnds, PageTypeOK, Counted
<1>2. \A c \in Calls : call'[c].session <= sessionVersion'
  <2> SUFFICES ASSUME NEW c \in Calls PROVE call'[c].session <= sessionVersion'
    OBVIOUS
  <2>1. Idle.session = 0
    BY DEF Idle
  <2>2. call[c].session \in Nat /\ call[c].session <= sessionVersion
    BY DEF SessionInv, LoadInv, PageTypeOK, Call
  <2> QED BY <1>1, <2>1, <2>2
<1>3. LoadInv'
  BY <1>1, <1>2 DEF LoadInv, InSession, InvoicesDue
<1> QED BY <1>1, <1>3 DEF SessionInv, SearchInv, ProjectsInv, OffersInv

LEMMA SessionsKeep == PageTypeOK /\ SessionInv /\ SessionNext => SessionInv'
<1> SUFFICES ASSUME PageTypeOK, SessionInv, SessionNext PROVE SessionInv'
  OBVIOUS
<1>0. sessionVersion \in Nat /\ 0 <= sessionVersion
  BY DEF PageTypeOK
<1>1. ASSUME NEW c \in Calls, NEW u \in Users, PressLogin(c, u) PROVE SessionInv'
  <2>1. SentNow(c)
    BY <1>0, <1>1, SentFields DEF PressLogin, SentNow, Lists, PageTypeOK, pageVars
  <2> QED BY <1>1, <2>1, CallChanged DEF PressLogin, IsFree, pageVars, listVars, SameSession
<1>2. ASSUME NEW c \in Calls, PressLogout(c) PROVE SessionInv'
  <2>1. SentNow(c)
    BY <1>0, <1>2, SentFields DEF PressLogout, SentNow, Lists, PageTypeOK, pageVars
  <2> QED BY <1>2, <2>1, CallChanged DEF PressLogout, IsFree, pageVars, listVars, SameSession
<1>3. ASSUME NEW c \in Calls, NEW i \in Calls, NEW p \in Calls, LoggedIn(c, i, p)
      PROVE  SessionInv'
  <2>1. call[c].kind = "login" /\ principal' = call[c].about
    BY <1>3 DEF LoggedIn, Answered
  <2>2. CASE principal' = None
    <3>1. LoadInv'
      <4>1. sessionVersion' = sessionVersion + 1
        BY <1>3 DEF LoggedIn, SessionEnds
      <4>2. /\ call'[i].session = sessionVersion' /\ call'[i].about = search.query
            /\ call'[p].session = sessionVersion'
            /\ c \notin {i, p} => call'[c].session = 0
            /\ \A d \in Calls \ {c, i, p} : call'[d] = call[d]
            /\ latest'["invoices"] = i /\ search' = search
        BY <1>3, ReloadSends, SentFields DEF LoggedIn
      <4>3. \A d \in Calls : call[d].session \in Nat /\ call[d].session <= sessionVersion
        BY DEF SessionInv, LoadInv, PageTypeOK, Call
      <4>4. \A d \in Calls : call'[d].session <= sessionVersion'
        BY <1>0, <4>1, <4>2, <4>3
      <4> QED BY <2>2, <4>4 DEF LoadInv, InSession, InvoicesDue
    <3>2. OffersInv'
      BY <1>3, <2>2 DEF LoggedIn, OffersInv, SessionInv
    <3> QED BY <2>2, <3>1, <3>2 DEF SessionInv, SearchInv, ProjectsInv
  <2>3. CASE principal' # None
    <3>1. sessionVersion' = sessionVersion + 1 /\ sessionVersion' # sessionVersion
      BY <1>0, <1>3 DEF LoggedIn, SessionEnds
    <3>2. /\ Reload(c, i, p, sessionVersion', cookie', search.query)
          /\ cookie' = principal' /\ shown' = shown /\ selected' = selected /\ search' = search
      BY <1>3 DEF LoggedIn
    <3>3. sessionVersion' \in Nat /\ sessionVersion <= sessionVersion'
      BY <1>0, <3>1
    <3> QED BY <2>3, <3>1, <3>2, <3>3, ReloadRenews DEF SessionInv
  <2> QED BY <2>2, <2>3
<1>4. ASSUME NEW c \in Calls, NEW outcome \in Outcomes(c), LoginRefused(c, outcome)
      PROVE  SessionInv'
  <2>1. SentNow(c)
    BY <1>0, <1>4, SentFields DEF LoginRefused, Freed, SentNow, Lists, PageTypeOK
  <2> QED BY <1>4, <2>1, CallChanged DEF LoginRefused, Answered, Freed, listVars, SameSession
<1>5. ASSUME NEW c \in Calls, NEW outcome \in Outcomes(c), LoggedOut(c, outcome)
      PROVE  SessionInv'
  BY <1>5, EmptiedKeeps DEF LoggedOut, Freed, PageTypeOK
<1>6. CASE PressLogoutAgain
  BY <1>6, EmptiedKeeps DEF PressLogoutAgain
<1>7. CASE CloseLogin
  BY <1>7, NothingSent DEF CloseLogin, listVars, SameSession, Alike
<1> QED BY <1>1, <1>2, <1>3, <1>4, <1>5, <1>6, <1>7 DEF SessionNext

\* An invoice load that is sent counts from then on, for what it asks.
LEMMA InvoicesSent ==
  ASSUME PageTypeOK, SessionInv, SameSession, NEW c \in Calls, principal # None, IsFree(c),
         call' = [call EXCEPT ![c] = Sent("invoices", search'.query, sessionVersion, cookie)],
         latest' = [latest EXCEPT !["invoices"] = c],
         dataStale' = dataStale, shown' = shown, selected' = selected
  PROVE  SessionInv'
<1>1. \A d \in Calls \ {c} : Alike(d) /\ latest'["invoices"] # d
  BY DEF Alike, PageTypeOK, Counted
<1>2. SentNow(c) /\ InvoicesDue(c)'
  BY SentFields DEF SentNow, SameSession, PageTypeOK, Counted, InvoicesDue, InSession
<1>3. StillDue
  BY <1>1 DEF StillDue, IsFree
<1>4. LoadInv'
  BY <1>1, <1>2, LoadKeeps DEF SessionInv
<1> QED BY <1>2, <1>3, <1>4, ProjectsKept, OffersKept DEF SessionInv, SearchInv

LEMMA WorkKeeps == PageTypeOK /\ SessionInv /\ (SearchNext \/ OperationNext) => SessionInv'
<1> SUFFICES ASSUME PageTypeOK, SessionInv, SearchNext \/ OperationNext PROVE SessionInv'
  OBVIOUS
<1>0. sessionVersion \in Nat /\ 0 <= sessionVersion
  BY DEF PageTypeOK
<1>1. ASSUME NEW q \in Queries, TypeQuery(q) PROVE SessionInv'
  <2>1. /\ SameSession /\ call' = call /\ dataStale' = dataStale /\ shown' = shown
        /\ selected' = selected /\ search'.query = search.query
    BY <1>1 DEF TypeQuery, SameSession, pageVars, PageTypeOK
  <2>2. latest'["invoices"] = None /\ None \notin Calls /\ TimerRuns'
    BY <1>1, PageAssumption DEF TypeQuery, PageTypeOK, Counted, TimerRuns, pageVars
  <2>3. StillDue /\ \A c \in Calls : Alike(c) /\ latest'["invoices"] # c
    BY <2>1, <2>2 DEF StillDue, Alike
  <2>4. LoadInv'
    BY <2>1, <2>3, LoadKeeps DEF SessionInv
  <2> QED BY <2>1, <2>2, <2>3, <2>4, ProjectsKept, OffersKept DEF SessionInv, SearchInv
<1>2. ASSUME NEW c \in Calls, SearchTimer(c) PROVE SessionInv'
  <2>1. /\ SameSession /\ dataStale' = dataStale /\ shown' = shown /\ selected' = selected
    BY <1>2 DEF SearchTimer, SameSession, pageVars
  <2>2. CASE search.timer.session = sessionVersion /\ principal # None
    <3>1. /\ search'.query = search.timer.query /\ IsFree(c)
          /\ call' = [call EXCEPT ![c] = Sent("invoices", search.timer.query, sessionVersion, cookie)]
          /\ latest' = [latest EXCEPT !["invoices"] = c]
      BY <1>2, <2>2 DEF SearchTimer
    <3> QED BY <2>1, <2>2, <3>1, InvoicesSent
  <2>3. CASE ~(search.timer.session = sessionVersion /\ principal # None)
    <3>1. call' = call /\ latest' = latest /\ search'.query = search.query
      BY <1>2, <2>3 DEF SearchTimer, PageTypeOK
    <3>2. StillDue /\ \A d \in Calls : Alike(d)
      BY <2>1, <3>1 DEF StillDue, Alike
    <3>3. LoadInv'
      BY <2>1, <3>1, <3>2, LoadKeeps DEF SessionInv
    <3>4. \A d \in Calls : InvoicesDue(d) => InvoicesDue(d)'
      BY <2>1, <3>1 DEF InvoicesDue, InSession, SameSession
    <3>5. SearchInv'
      BY <2>1, <2>3, <3>1, <3>4 DEF SessionInv, SearchInv, TimerRuns, SameSession
    <3> QED BY <2>1, <3>2, <3>3, <3>5, ProjectsKept, OffersKept DEF SessionInv
  <2> QED BY <2>2, <2>3
<1>3. ASSUME NEW c \in Calls, RefreshInvoices(c) PROVE SessionInv'
  BY <1>3, InvoicesSent DEF RefreshInvoices, AtWork, SameSession, pageVars
<1>4. ASSUME NEW c \in Calls, NEW key \in Mutations, Press(c, key) PROVE SessionInv'
  <2>1. SentNow(c)
    BY <1>0, <1>4, SentFields DEF Press, SentNow, Lists, PageTypeOK, pageVars
  <2> QED BY <1>4, <2>1, CallChanged DEF Press, IsFree, pageVars, listVars, SameSession
<1>5. ASSUME NEW c \in Calls, NEW outcome \in Outcomes(c), NEW i \in Calls, NEW p \in Calls,
             MutationAnswered(c, outcome, i, p)
      PROVE  SessionInv'
  <2>1. /\ call[c].kind = "mutation" /\ SameSession
        /\ shown' = shown /\ selected' = selected /\ search' = search
    BY <1>5 DEF MutationAnswered, Answered, SameSession
  <2>2. CASE outcome = "ok" /\ principal # None
    <3>1. Reload(c, i, p, sessionVersion', cookie', search.query)
      BY <1>5, <2>1, <2>2 DEF MutationAnswered, SameSession
    <3>2. principal' # None /\ cookie' = principal' /\ principal' = principal
          /\ sessionVersion' \in Nat /\ sessionVersion <= sessionVersion'
      BY <1>0, <2>1, <2>2 DEF SameSession, SessionInv, LoadInv
    <3> QED BY <2>1, <3>1, <3>2, ReloadRenews DEF SessionInv
  <2>3. CASE ~(outcome = "ok" /\ principal # None)
    <3>1. /\ call' = [call EXCEPT ![c] = Idle] /\ latest' = latest
          /\ principal # None /\ dataStale => dataStale'
      BY <1>5, <2>3 DEF MutationAnswered, Freed
    <3>2. SentNow(c)
      BY <1>0, <2>1, <3>1, SentFields DEF SentNow, Lists, PageTypeOK, SameSession
    <3> QED BY <2>1, <3>1, <3>2, CallChanged
  <2> QED BY <2>2, <2>3
<1> QED BY <1>1, <1>2, <1>3, <1>4, <1>5 DEF SearchNext, OperationNext

LEMMA FormKeeps ==
  ASSUME PageTypeOK, SessionInv,
         \/ \E c \in Calls : RefreshProjects(c) \/ \E p \in Projects : SelectProject(c, p)
         \/ \E i, p \in Calls : RefreshStatistics(i, p)
         \/ ClearSelection
  PROVE  SessionInv'
<1>0. sessionVersion \in Nat /\ 0 <= sessionVersion
  BY DEF PageTypeOK
<1>1. ASSUME NEW c \in Calls, RefreshProjects(c) PROVE SessionInv'
  <2>1. SentNow(c)
    BY <1>0, <1>1, SentFields DEF RefreshProjects, SentNow, PageTypeOK, pageVars
  <2> QED BY <1>1, <2>1, CallChanged DEF RefreshProjects, IsFree, pageVars, listVars, SameSession
<1>2. ASSUME NEW c \in Calls, NEW p \in Projects, SelectProject(c, p) PROVE SessionInv'
  <2>1. SentNow(c)
    BY <1>0, <1>2, SentFields DEF SelectProject, SentNow, PageTypeOK, pageVars
  <2>2. /\ latest'["invoices"] = latest["invoices"] /\ shown'["projectInvoices"] = Nothing
        /\ shown'["invoices"] = shown["invoices"] /\ shown'["projects"] = shown["projects"]
    BY <1>2 DEF SelectProject, PageTypeOK, Counted, Lists
  <2> QED BY <1>2, <2>1, <2>2, CallChanged DEF SelectProject, IsFree, pageVars, SameSession
<1>3. ASSUME NEW i \in Calls, NEW p \in Calls, RefreshStatistics(i, p) PROVE SessionInv'
  <2>1. /\ principal # None /\ SameSession /\ shown' = shown /\ selected' = selected /\ search' = search
        /\ Reload(i, i, p, sessionVersion', cookie', search.query)
    BY <1>3 DEF RefreshStatistics, AtWork, pageVars, SameSession
  <2>2. principal' # None /\ cookie' = principal' /\ principal' = principal
        /\ sessionVersion' \in Nat /\ sessionVersion <= sessionVersion'
    BY <1>0, <2>1 DEF SameSession, SessionInv, LoadInv
  <2> QED BY <2>1, <2>2, ReloadRenews DEF SessionInv
<1>4. CASE ClearSelection
  <2>1. /\ latest'["invoices"] = latest["invoices"] /\ shown'["projectInvoices"] = Nothing
        /\ shown'["invoices"] = shown["invoices"] /\ shown'["projects"] = shown["projects"]
    BY <1>4 DEF ClearSelection, PageTypeOK, Counted, Lists
  <2> QED BY <1>4, <2>1, NothingSent DEF ClearSelection, pageVars, SameSession, Alike
<1> QED BY <1>1, <1>2, <1>3, <1>4

LEMMA AnswersKeep ==
  ASSUME PageTypeOK, SessionInv,
         \/ LoadNext
         \/ \E c \in Calls : \E outcome \in Outcomes(c) : ProjectInvoicesAnswered(c, outcome)
  PROVE  SessionInv'
<1>0. /\ sessionVersion \in Nat /\ 0 <= sessionVersion /\ None \notin Calls
      /\ call \in [Calls -> Call] /\ latest \in [Counted -> Calls \cup {None}]
      /\ shown \in [Lists -> Content]
  BY PageAssumption DEF PageTypeOK
<1>1. CASE LedgerGrows
  BY <1>1, NothingSent DEF LedgerGrows, pageVars, listVars, SameSession, Alike
<1>2. ASSUME NEW c \in Calls, Process(c) PROVE SessionInv'
  <2>1. \A d \in Calls : Alike(d)
    BY <1>0, <1>2 DEF Process, Alike, Call
  <2> QED BY <1>2, <2>1, NothingSent DEF Process, pageVars, listVars, SameSession
<1>a. ASSUME NEW c \in Calls, call' = Freed(c), SameSession
      PROVE  SentNow(c) /\ \A d \in Calls \ {c} : Alike(d)
  BY <1>0, <1>a, SentFields DEF Freed, SentNow, Lists, SameSession, Alike
<1>3. ASSUME NEW c \in Calls, NEW outcome \in Outcomes(c), InvoicesAnswered(c, outcome)
      PROVE  SessionInv'
  <2>1. /\ SameSession /\ call[c].kind = "invoices" /\ call' = Freed(c)
        /\ selected' = selected /\ search' = search
        /\ dataStale => dataStale'
        /\ Counts("invoices", c) /\ outcome # "ok" => dataStale'
        /\ Counts("invoices", c) /\ outcome = "ok" => shown' = [shown EXCEPT !["invoices"] = ContentOf(c)]
        /\ ~Counts("invoices", c) => shown' = shown
        /\ shown'["projects"] = shown["projects"]
        /\ shown'["projectInvoices"] = shown["projectInvoices"]
    BY <1>0, <1>3 DEF InvoicesAnswered, Answered, SameSession, Lists
  <2>2. \A d \in Calls \ {c} : Alike(d) /\ (latest'["invoices"] = d <=> latest["invoices"] = d)
    BY <1>0, <1>3, <1>a, <2>1 DEF InvoicesAnswered, OutOf, Counted
  <2>3. StillDue /\ LoadInv'
    BY <1>a, <2>1, <2>2, LoadKeeps DEF StillDue, SessionInv
  <2>4. SearchInv'
    <3>1. CASE Counts("invoices", c) /\ outcome = "ok"
      <4>1. shown'["invoices"].by = call[c].by /\ shown'["invoices"].about = call[c].about
        BY <1>0, <2>1, <3>1 DEF ContentOf, Lists
      <4>2. call[c].by = principal /\ call[c].about = search.query
        BY <2>1, <3>1 DEF Counts, SessionInv, LoadInv, InvoicesDue, InSession, Lists
      <4> QED BY <2>1, <4>1, <4>2 DEF SearchInv, SameSession
    <3>2. CASE Counts("invoices", c) /\ outcome # "ok"
      BY <2>1, <3>2 DEF SearchInv
    <3>3. CASE ~Counts("invoices", c)
      <4>1. \A d \in Calls : InvoicesDue(d) => Alike(d) /\ latest'["invoices"] = d
        BY <2>2, <3>3 DEF InvoicesDue, Counts
      <4> QED BY <2>1, <2>3, <3>3, <4>1, SearchKept DEF SessionInv
    <3> QED BY <3>1, <3>2, <3>3
  <2> QED BY <2>1, <2>3, <2>4, ProjectsKept, OffersKept DEF SessionInv
<1>4. ASSUME NEW c \in Calls, NEW outcome \in Outcomes(c), ProjectInvoicesAnswered(c, outcome)
      PROVE  SessionInv'
  <2>1. /\ SameSession /\ call[c].kind = "projectInvoices" /\ call' = Freed(c)
        /\ selected' = selected /\ search' = search /\ dataStale' = dataStale
        /\ latest'["invoices"] = latest["invoices"]
        /\ shown'["invoices"] = shown["invoices"] /\ shown'["projects"] = shown["projects"]
    BY <1>0, <1>4 DEF ProjectInvoicesAnswered, Answered, SameSession, Lists, OutOf, Counted
  <2>2. SentNow(c) /\ \A d \in Calls \ {c} : Alike(d)
    BY <1>a, <2>1
  <2>3. StillDue /\ LoadInv'
    BY <2>1, <2>2, LoadKeeps DEF StillDue, SessionInv
  <2>4. SearchInv'
    BY <2>1, <2>2, <2>3, SearchKept DEF SessionInv, InvoicesDue
  <2>5. OffersInv'
    <3>1. CASE shown' = shown
      BY <2>1, <2>3, <3>1, OffersKept DEF SessionInv
    <3>2. CASE shown' # shown
      <4>1. /\ call[c].session = sessionVersion /\ selected = call[c].about
            /\ shown'["projectInvoices"] = ContentOf(c)
        BY <1>0, <1>4, <3>2 DEF ProjectInvoicesAnswered, Counts, InSession, Lists
      <4> QED BY <2>1, <4>1 DEF OffersInv, ContentOf, SameSession
    <3> QED BY <3>1, <3>2
  <2> QED BY <2>1, <2>3, <2>4, <2>5, ProjectsKept DEF SessionInv
<1>5. ASSUME NEW c \in Calls, NEW outcome \in Outcomes(c), ProjectsAnswered(c, outcome)
      PROVE  SessionInv'
  <2>1. /\ SameSession /\ call[c].kind = "projects" /\ search' = search
        /\ dataStale => dataStale'
        /\ outcome # "ok" => dataStale'
        /\ latest'["invoices"] = latest["invoices"] /\ shown'["invoices"] = shown["invoices"]
    BY <1>0, <1>5 DEF ProjectsAnswered, Answered, SameSession, Lists, Counted
  <2>2. SentNow(c) /\ \A d \in Calls \ {c} : Alike(d)
    <3>1. CASE call' = Freed(c)
      BY <1>a, <2>1, <3>1
    <3>2. CASE call' = [call EXCEPT ![c] = Sent("projectInvoices", selected', sessionVersion, cookie)]
      BY <1>0, <2>1, <3>2, SentFields DEF SentNow, SameSession, Alike
    <3> QED BY <1>5, <3>1, <3>2 DEF ProjectsAnswered
  <2>3. LoadInv'
    BY <2>1, <2>2, LoadKeeps DEF SessionInv
  <2>4. SearchInv'
    <3>1. \A d \in Calls : InvoicesDue(d) => InvoicesDue(d)'
      BY <2>1, <2>2 DEF InvoicesDue, InSession, SameSession, Alike
    <3> QED BY <2>1, <3>1 DEF SessionInv, SearchInv, TimerRuns, SameSession
  <2>5. ProjectsInv' /\ OffersInv'
    <3>1. CASE InSession(c) /\ outcome = "ok"
      <4>1. PICK gone \in BOOLEAN :
               /\ selected' = IF gone THEN None ELSE selected
               /\ shown' = [shown EXCEPT !["projects"] = ContentOf(c),
                              !["projectInvoices"] = IF selected' = None THEN @ ELSE Nothing]
        BY <1>5, <3>1 DEF ProjectsAnswered
      <4>2. /\ shown'["projects"].by = call[c].by
            /\ selected' # None => shown'["projectInvoices"] = Nothing
        BY <1>0, <4>1 DEF Lists, ContentOf
      <4>3. call[c].by = principal
        BY <2>1, <3>1 DEF SessionInv, LoadInv, Lists
      <4> QED BY <2>1, <4>2, <4>3 DEF ProjectsInv, OffersInv, SameSession
    <3>2. CASE ~(InSession(c) /\ outcome = "ok")
      <4>1. selected' = selected /\ shown' = shown
        BY <1>5, <3>2 DEF ProjectsAnswered
      <4>2. CASE outcome # "ok"
        BY <2>1, <4>1, <4>2 DEF ProjectsInv, OffersInv, SessionInv
      <4>3. CASE ~InSession(c)
        <5>1. StillDue
          BY <2>1, <2>2, <4>3 DEF StillDue
        <5> QED BY <2>1, <4>1, <5>1, ProjectsKept, OffersKept DEF SessionInv
      <4> QED BY <3>2, <4>2, <4>3
    <3> QED BY <3>1, <3>2
  <2> QED BY <2>3, <2>4, <2>5 DEF SessionInv
<1> QED BY <1>1, <1>2, <1>3, <1>4, <1>5 DEF LoadNext

LEMMA SessionInvStep == PageTypeOK /\ SessionInv /\ [Next]_vars => SessionInv'
<1>1. ASSUME SessionInv, UNCHANGED vars PROVE SessionInv'
  BY <1>1, NothingSent DEF vars, pageVars, listVars, SameSession, Alike
<1>2. ASSUME PageTypeOK, SessionInv, FormNext PROVE SessionInv'
  BY <1>2, FormKeeps, AnswersKeep DEF FormNext
<1> QED BY <1>1, <1>2, SessionsKeep, WorkKeeps, AnswersKeep DEF Next

LEMMA SessionCorrect == Spec => [](PageTypeOK /\ SessionInv)
<1>1. Init => PageTypeOK /\ SessionInv
  BY PageTypeInit, SessionInvInit
<1>2. (PageTypeOK /\ SessionInv) /\ [Next]_vars => (PageTypeOK /\ SessionInv)'
  BY PageTypeStep, SessionInvStep
<1> QED BY <1>1, <1>2, PTL DEF Spec

\* What is offered for a claim is of the project selected, and of this
\* session or about to be replaced.
THEOREM OffersFollowTheSession == Spec => []OffersAreOfThisSession
<1>1. PageTypeOK /\ SessionInv => OffersAreOfThisSession
  BY DEF SessionInv, OffersInv, OffersAreOfThisSession
<1> QED BY <1>1, SessionCorrect, PTL

\* A list of an earlier user, or of an earlier search, is about to be
\* replaced or marked stale.
THEOREM ListsFollowTheUser == Spec => []ListsAreOfTheUser
<1>1. PageTypeOK /\ SessionInv => ListsAreOfTheUser
  <2>1. (\E c \in Calls : InvoicesDue(c)) => LoadUnderWay("invoices")
    BY DEF InvoicesDue, LoadUnderWay
  <2> QED BY <2>1 DEF SessionInv, SearchInv, ProjectsInv, TimerRuns, ListsAreOfTheUser, Catching
<1> QED BY <1>1, SessionCorrect, PTL
====
