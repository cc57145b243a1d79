--------------------------- MODULE RestApiProofs ---------------------------
(***************************************************************************)
(* The HTTP handlers over the chaincode, for every value of the constants: *)
(* they do nothing to the ledger that the chaincode does not do, they hide *)
(* no record from whom they let act on it, and a list of invoices is true  *)
(* to the time it was made.                                                *)
(***************************************************************************)
EXTENDS RestApi, ProjectProofs

----------------------------------------------------------------------------
(* Accounts.  The principal of an account is that of a demo account or of  *)
(* the user on the ledger, whose record never changes.                     *)

Principal ==
  [username : Users \cup {None}, msp : MSPs \cup {None}, role : Roles \cup {None},
   org : Orgs \cup {None}]

Registered(u) ==
  /\ user[u].status = "ACTIVE" /\ user[u].msp \in MSPs /\ user[u].org \in Orgs
  /\ account[u] = [username |-> u, msp |-> user[u].msp, role |-> "PROJECT_MEMBER",
                   org |-> user[u].org]

AccountInv ==
  /\ account \in [Users -> Principal]
  /\ \A u \in Users :
        \/ u \notin DemoNames /\ account[u] = NoPrincipal
        \/ u \notin DemoNames /\ Registered(u)
        \/ u \in DemoNames /\ account[u] = DemoPrincipal(u)

LEMMA DemoIs ==
  ASSUME NEW u \in DemoNames
  PROVE  /\ <<u, DemoPrincipal(u).msp, DemoPrincipal(u).role>> \in DemoAccounts
         /\ DemoPrincipal(u).username = u /\ DemoPrincipal(u).org = None
         /\ DemoPrincipal(u).msp \in MSPs /\ DemoPrincipal(u).role \in Roles
         /\ u \in Users => DemoPrincipal(u) \in Principal
<1> DEFINE demo == CHOOSE d \in DemoAccounts : d[1] = u
<1>1. \E d \in DemoAccounts : d[1] = u
  BY DEF DemoNames
<1>2. demo \in DemoAccounts /\ demo[1] = u
  BY <1>1
<1>3. DemoPrincipal(u) = [username |-> u, msp |-> demo[2], role |-> demo[3], org |-> None]
  BY DEF DemoPrincipal
<1> HIDE DEF demo
<1>4. demo = <<demo[1], demo[2], demo[3]>> /\ demo[2] \in MSPs /\ demo[3] \in Roles
  BY <1>2 DEF DemoAccounts, MSPs, Roles
<1> QED BY <1>2, <1>3, <1>4 DEF Principal

\* Roles are not None.
LEMMA RolesAreRoles ==
  /\ None \notin Roles /\ None \notin MSPs /\ None \notin Users /\ None \notin Orgs
  /\ Staff \subseteq Roles /\ Custodians \subseteq Roles
  /\ {"ORG_ADMIN", "PROJECT_REVIEWER", "FINANCE_ADMIN", "PROJECT_MEMBER", "ISSUER"} \subseteq Roles
<1>1. None \notin Roles /\ None \notin MSPs /\ None \notin Users /\ None \notin Orgs
  BY NoneAssumption
<1>2. /\ Staff \subseteq Roles /\ Custodians \subseteq Roles
      /\ {"ORG_ADMIN", "PROJECT_REVIEWER", "FINANCE_ADMIN", "PROJECT_MEMBER", "ISSUER"} \subseteq Roles
  BY DEF Staff, Custodians, Roles
<1> QED BY <1>1, <1>2

\* Who has a role has an account, and calls through an MSP.
LEMMA Callers ==
  ASSUME AccountInv, NEW u \in Users, account[u].role \in Roles
  PROVE  /\ Msp(u) \in MSPs /\ account[u] # NoPrincipal
         /\ account[u].org \in Orgs \cup {None} /\ account[u].username = u
<1>1. account[u] # NoPrincipal
  BY RolesAreRoles DEF NoPrincipal
<1>2. Registered(u) => Msp(u) \in MSPs /\ account[u].username = u
  BY DEF Registered, Msp
<1>3. u \in DemoNames /\ account[u] = DemoPrincipal(u) => Msp(u) \in MSPs /\ account[u].username = u
  BY DemoIs DEF Msp
<1>4. Msp(u) \in MSPs /\ account[u].username = u
  BY <1>1, <1>2, <1>3 DEF AccountInv
<1> QED BY <1>1, <1>4 DEF AccountInv, Principal

LEMMA AccountInit == RestInit => AccountInv
<1> SUFFICES ASSUME RestInit PROVE AccountInv
  OBVIOUS
<1>1. account = [u \in Users |-> IF u \in DemoNames THEN DemoPrincipal(u) ELSE NoPrincipal]
  BY DEF RestInit
<1>2. NoPrincipal \in Principal
  BY DEF NoPrincipal, Principal
<1> QED BY <1>1, <1>2, DemoIs DEF AccountInv

----------------------------------------------------------------------------
(* What the handlers do to the ledger, the chaincode does: each calls one  *)
(* operation with arguments of its own.                                    *)

LEMMA DirectoryCalls ==
  ASSUME AccountInv, NEW u \in Users, Directory(u) PROVE DirectoryNext
<1>1. ASSUME NEW o \in Orgs, registerUser(u, o) PROVE DirectoryNext
  <2>1. RegisterBusinessUser(u, organization[o].msp, o, organization[o].msp)
    BY <1>1 DEF registerUser
  <2>2. organization[o].msp \in MSPs
    BY <2>1 DEF RegisterBusinessUser
  <2> QED BY <2>1, <2>2 DEF DirectoryNext
<1>2. ASSUME NEW o \in Orgs, NEW type \in {"PRIMARY", "PROJECT_TEAM", "EXTERNAL"},
             NEW parent \in Orgs \cup {None}, createBusinessOrganization(u, o, type, parent)
      PROVE  DirectoryNext
  <2>1. CreateBusinessOrganization(o, type, parent, u, Msp(u)) /\ Msp(u) \in MSPs
    BY <1>2, Callers, RolesAreRoles DEF createBusinessOrganization, Serve
  <2> QED BY <2>1 DEF DirectoryNext
<1> QED BY <1>1, <1>2 DEF Directory

LEMMA InvoiceCalls ==
  ASSUME AccountInv, NEW u \in Users, InvoiceWork(u) PROVE InvoiceNext \/ VoidNext
<1> SUFFICES ASSUME NEW i \in Invoices,
                    \/ \E no \in Numbers, total \in Cents, currency \in Currencies,
                          p \in Projects \cup {None}, original \in Invoices \cup {None} :
                          createInvoice(u, i, no, total, currency, p, original)
                    \/ \E p \in Projects : linkInvoiceProject(u, i, p)
                    \/ unlinkInvoiceProject(u, i)
                    \/ voidInvoice(u, i) \/ requestInvoiceVoid(u, i)
                    \/ \E decision \in {"APPROVE", "REJECT"} : reviewInvoiceVoid(u, i, decision)
             PROVE  InvoiceNext \/ VoidNext
  BY DEF InvoiceWork
<1>0. Msp(u) \in MSPs /\ account[u].org \in Orgs \cup {None}
  BY Callers, RolesAreRoles DEF createInvoice, linkInvoiceProject, unlinkInvoiceProject,
       voidInvoice, requestInvoiceVoid, reviewInvoiceVoid, Serve
<1>1. ASSUME NEW no \in Numbers, NEW total \in Cents, NEW currency \in Currencies,
             NEW p \in Projects \cup {None}, NEW original \in Invoices \cup {None},
             createInvoice(u, i, no, total, currency, p, original)
      PROVE  InvoiceNext
  <2> DEFINE named == IF currency = None THEN "CNY" ELSE currency
  <2>1. CreateInvoice(i, no, total, named, u, account[u].org, p, original, Msp(u))
    BY <1>1 DEF createInvoice
  <2>2. named \in {None, "CNY"} => currency \in {None, "CNY"}
    OBVIOUS
  <2>3. CreateInvoice(i, no, total, currency, u, account[u].org, p, original, Msp(u))
    BY <2>1, <2>2 DEF CreateInvoice
  <2> QED BY <1>0, <2>3 DEF InvoiceNext
<1>2. ASSUME NEW p \in Projects, linkInvoiceProject(u, i, p) PROVE InvoiceNext
  BY <1>0, <1>2 DEF linkInvoiceProject, InvoiceNext
<1>3. CASE unlinkInvoiceProject(u, i)
  BY <1>0, <1>3 DEF unlinkInvoiceProject, InvoiceNext
<1>4. CASE voidInvoice(u, i) \/ requestInvoiceVoid(u, i)
  BY <1>0, <1>4 DEF voidInvoice, requestInvoiceVoid, VoidNext
<1>5. ASSUME NEW decision \in {"APPROVE", "REJECT"}, reviewInvoiceVoid(u, i, decision)
      PROVE  VoidNext
  BY <1>0, <1>5 DEF reviewInvoiceVoid, VoidNext
<1> QED BY <1>1, <1>2, <1>3, <1>4, <1>5

LEMMA HandoverCalls ==
  ASSUME AccountInv, NEW u \in Users, Handover(u) PROVE TransferNext
<1> SUFFICES ASSUME NEW i \in Invoices,
                    \/ \E to \in Users, toMsp \in MSPs : requestInvoiceTransfer(u, i, to, toMsp)
                    \/ \E decision \in {"ACCEPT", "REJECT"} : respondInvoiceTransfer(u, i, decision)
                    \/ cancelInvoiceTransfer(u, i)
             PROVE  TransferNext
  BY DEF Handover
<1>0. Msp(u) \in MSPs
  BY Callers, RolesAreRoles DEF requestInvoiceTransfer, respondInvoiceTransfer,
       cancelInvoiceTransfer, Serve
<1>1. ASSUME NEW to \in Users, NEW toMsp \in MSPs, requestInvoiceTransfer(u, i, to, toMsp)
      PROVE  TransferNext
  BY <1>0, <1>1 DEF requestInvoiceTransfer, TransferNext
<1>2. ASSUME NEW decision \in {"ACCEPT", "REJECT"}, respondInvoiceTransfer(u, i, decision)
      PROVE  TransferNext
  BY <1>0, <1>2 DEF respondInvoiceTransfer, TransferNext
<1>3. CASE cancelInvoiceTransfer(u, i)
  BY <1>3 DEF cancelInvoiceTransfer, TransferNext
<1> QED BY <1>1, <1>2, <1>3

LEMMA ProjectCalls ==
  ASSUME AccountInv, NEW u \in Users, ProjectWork(u) PROVE ProjectNext
<1> SUFFICES ASSUME NEW p \in Projects,
                    \/ \E budget \in Cents : createProject(u, p, budget) \/ updateProject(u, p, budget)
                    \/ submitProject(u, p) \/ requestProjectClosure(u, p)
                    \/ finalizeProjectSettlement(u, p)
                    \/ \E added \in Users : addProjectMember(u, p, added)
                    \/ \E decision \in {"APPROVE", "REVISION"} :
                          reviewProject(u, p, decision) \/ reviewProjectClosure(u, p, decision)
             PROVE  ProjectNext
  BY DEF ProjectWork
<1>0. Msp(u) \in MSPs /\ account[u].org \in Orgs \cup {None}
  BY Callers, RolesAreRoles DEF createProject, updateProject, submitProject,
       requestProjectClosure, finalizeProjectSettlement, addProjectMember, reviewProject,
       reviewProjectClosure, Serve
<1>1. ASSUME NEW budget \in Cents, createProject(u, p, budget) PROVE ProjectNext
  <2>1. CreateProject(p, budget, u, account[u].org, Msp(u)) /\ account[u].org \in Orgs
    BY <1>0, <1>1 DEF createProject, CreateProject
  <2> QED BY <1>0, <2>1 DEF ProjectNext
<1>2. ASSUME NEW budget \in Cents, updateProject(u, p, budget) PROVE ProjectNext
  BY <1>0, <1>2 DEF updateProject, ProjectNext
<1>3. CASE submitProject(u, p) \/ requestProjectClosure(u, p) \/ finalizeProjectSettlement(u, p)
  BY <1>0, <1>3 DEF submitProject, requestProjectClosure, finalizeProjectSettlement, ProjectNext
<1>4. ASSUME NEW added \in Users, addProjectMember(u, p, added) PROVE ProjectNext
  BY <1>0, <1>4 DEF addProjectMember, ProjectNext
<1>5. ASSUME NEW decision \in {"APPROVE", "REVISION"},
             reviewProject(u, p, decision) \/ reviewProjectClosure(u, p, decision)
      PROVE  ProjectNext
  BY <1>0, <1>5 DEF reviewProject, reviewProjectClosure, ProjectNext
<1> QED BY <1>1, <1>2, <1>3, <1>4, <1>5

LEMMA ReimbursementCalls ==
  ASSUME AccountInv, NEW u \in Users, ReimbursementWork(u) PROVE ReimbursementNext
<1> SUFFICES ASSUME NEW r \in Reimbursements,
                    \/ \E p \in Projects, i \in Invoices : createReimbursement(u, r, p, i)
                    \/ resubmitReimbursement(u, r) \/ withdrawReimbursement(u, r)
                    \/ payReimbursement(u, r)
                    \/ \E decision \in {"APPROVE", "REVISION"} : reviewReimbursement(u, r, decision)
             PROVE  ReimbursementNext
  BY DEF ReimbursementWork
<1>0. Msp(u) \in MSPs
  BY Callers, RolesAreRoles DEF createReimbursement, resubmitReimbursement, withdrawReimbursement,
       payReimbursement, reviewReimbursement, ServeClaim, Serve
<1>1. ASSUME NEW p \in Projects, NEW i \in Invoices, createReimbursement(u, r, p, i)
      PROVE  ReimbursementNext
  BY <1>0, <1>1 DEF createReimbursement, ReimbursementNext
<1>2. CASE resubmitReimbursement(u, r) \/ withdrawReimbursement(u, r) \/ payReimbursement(u, r)
  BY <1>0, <1>2 DEF resubmitReimbursement, withdrawReimbursement, payReimbursement,
                    ReimbursementNext
<1>3. ASSUME NEW decision \in {"APPROVE", "REVISION"}, reviewReimbursement(u, r, decision)
      PROVE  ReimbursementNext
  BY <1>0, <1>3 DEF reviewReimbursement, ReimbursementNext
<1> QED BY <1>1, <1>2, <1>3

LEMMA HandlersCall ==
  ASSUME AccountInv, RestNext
  PROVE  /\ [Next]_vars
         /\ ListStep \/ \E u \in Users : Directory(u) \/ InvoiceWork(u) \/ Handover(u)
                                          \/ ProjectWork(u) \/ ReimbursementWork(u)
<1>1. ListStep => UNCHANGED vars
  BY DEF ListStep
<1> QED BY <1>1, DirectoryCalls, InvoiceCalls, HandoverCalls, ProjectCalls, ReimbursementCalls
        DEF RestNext, Next

\* A user on the ledger, once registered, is the one of the account.
LEMMA AccountStep ==
  ASSUME TypeOK, AccountInv, [RestNext]_restVars
  PROVE  /\ AccountInv'
         /\ \A u \in Users : account[u] # NoPrincipal => account'[u] = account[u]
<1>a. [Next]_vars
  BY HandlersCall DEF restVars
<1>b. ASSUME NEW u \in Users, Registered(u), account'[u] = account[u] PROVE Registered(u)'
  BY <1>a, <1>b, UsersStay DEF Registered, UserExists
<1>1. CASE UNCHANGED account
  BY <1>1, <1>b DEF AccountInv
<1>2. ASSUME NEW u \in Users, NEW o \in Orgs, registerUser(u, o), ~UNCHANGED account
      PROVE  /\ AccountInv'
             /\ \A v \in Users : account[v] # NoPrincipal => account'[v] = account[v]
  <2> DEFINE new == [username |-> u, msp |-> organization[o].msp,
                     role |-> "PROJECT_MEMBER", org |-> o]
  <2>1. /\ account[u] = NoPrincipal /\ account' = [account EXCEPT ![u] = new]
        /\ organization[o].msp \in MSPs
        /\ user' = [user EXCEPT ![u] = [status |-> "ACTIVE", msp |-> organization[o].msp,
                                        role |-> "PROJECT_MEMBER", org |-> o]]
    BY <1>2 DEF registerUser, RegisterBusinessUser
  <2>2. new \in Principal
    BY <2>1, RolesAreRoles DEF Principal
  <2>3. account \in [Users -> Principal] /\ user \in [Users -> BusinessUser]
    BY DEF AccountInv, TypeOK
  <2>4. account' \in [Users -> Principal] /\ \A v \in Users \ {u} : account'[v] = account[v]
    BY <2>1, <2>2, <2>3
  <2>5. Registered(u)'
    BY <2>1, <2>3 DEF Registered
  <2>6. u \notin DemoNames
    <3>1. ASSUME u \in DemoNames PROVE account[u].role \in Roles
      BY <3>1, DemoIs DEF AccountInv
    <3> QED BY <2>1, <3>1, RolesAreRoles DEF NoPrincipal
  <2> QED BY <1>b, <2>1, <2>4, <2>5, <2>6 DEF AccountInv
<1>3. ASSUME NEW u \in Users,
             \/ \E o \in Orgs, type \in {"PRIMARY", "PROJECT_TEAM", "EXTERNAL"},
                   parent \in Orgs \cup {None} : createBusinessOrganization(u, o, type, parent)
             \/ InvoiceWork(u) \/ Handover(u) \/ ProjectWork(u) \/ ReimbursementWork(u)
      PROVE  UNCHANGED account
  <2>1. \A roles, projects, invoices : Serve(u, roles, projects, invoices) => UNCHANGED account
    BY DEF Serve
  <2> QED BY <1>3, <2>1 DEF createBusinessOrganization,
        InvoiceWork, createInvoice, linkInvoiceProject, unlinkInvoiceProject, voidInvoice,
        requestInvoiceVoid, reviewInvoiceVoid, Handover, requestInvoiceTransfer,
        respondInvoiceTransfer, cancelInvoiceTransfer, ProjectWork, createProject, updateProject,
        submitProject, requestProjectClosure, finalizeProjectSettlement, addProjectMember,
        reviewProject, reviewProjectClosure, ReimbursementWork, createReimbursement,
        resubmitReimbursement, withdrawReimbursement, payReimbursement, reviewReimbursement,
        ServeClaim
<1>4. CASE UNCHANGED restVars \/ ListStep
  BY <1>1, <1>4 DEF restVars, ListStep
<1> QED BY <1>1, <1>2, <1>3, <1>4, HandlersCall DEF Directory

\* Whatever holds of the chaincode holds of it behind the handlers.
THEOREM HandlersUseTheChaincode == RestSpec => Spec
<1>1. RestInit => Init /\ TypeOK /\ AccountInv
  BY AccountInit, TypeInit DEF RestInit
<1>2. TypeOK /\ AccountInv /\ [RestNext]_restVars => [Next]_vars /\ (TypeOK /\ AccountInv)'
  BY HandlersCall, AccountStep, TypeStep DEF restVars
<1> QED BY <1>1, <1>2, PTL DEF RestSpec, Spec

LEMMA AccountsCorrect == RestSpec => []AccountInv
<1>1. RestInit => AccountInv
  BY AccountInit
<1>2. TypeOK /\ AccountInv /\ [RestNext]_restVars => AccountInv'
  BY AccountStep
<1> QED BY <1>1, <1>2, HandlersUseTheChaincode, TypeCorrect, PTL DEF RestSpec

\* Behind the handlers, too, an approved request goes with a voided invoice.
THEOREM ServedRequestsVoid == RestSpec => []ApprovedVoidIsVoided
BY HandlersUseTheChaincode, ApprovedRequestsVoid, PTL

----------------------------------------------------------------------------
(* What is known of the ledger behind the handlers.                        *)

LedgerInv ==
  /\ MemberInv /\ ClaimInv /\ ClaimsRestOnInvoices /\ LinkedInvoicesMatchProject /\ CustodyInv

LEMMA LedgerCorrect == RestSpec => []LedgerInv
<1>1. Init => MemberInv /\ CustodyInv
  BY TypeInit DEF Init, MemberInv, TeamsKnown, MembersBelongToProject, ProjectExists, AbsentProject,
                  CustodyInv
<1>2. MemberInv /\ CustodyInv /\ [Next]_vars => (MemberInv /\ CustodyInv)'
  <2>1. MemberInv /\ [Next]_vars => MemberInv'
    BY TypeStep, TeamsStep, MembersStep DEF MemberInv
  <2>2. MemberInv /\ MemberInv' => TypeOK /\ TypeOK'
    BY DEF MemberInv
  <2> QED BY <2>1, <2>2, CustodyStep
<1>3. Spec => [](MemberInv /\ CustodyInv)
  BY <1>1, <1>2, PTL DEF Spec
<1>4. MoneyInv => ClaimInv
  BY DEF MoneyInv
<1>5. Spec => []ClaimInv
  BY <1>4, MoneyCorrect, PTL
<1>6. MemberInv /\ CustodyInv /\ ClaimInv /\ ClaimsRestOnInvoices /\ LinkedInvoicesMatchProject
      => LedgerInv
  BY DEF LedgerInv
<1> QED BY <1>3, <1>5, <1>6, LiveClaimsRestOnInvoices, LinkedInvoicesAreOfTheProject,
           HandlersUseTheChaincode, PTL

LEMMA LedgerFacts ==
  ASSUME LedgerInv
  PROVE  /\ TypeOK /\ organization \in [Orgs -> BusinessOrganization]
         /\ user \in [Users -> BusinessUser]
         /\ project \in [Projects -> Project] /\ invoice \in [Invoices -> Invoice]
         /\ transfer \in [Invoices -> InvoiceTransfer]
         /\ \A p \in Projects : ProjectExists(p) => project[p].org \in Orgs
  BY DEF LedgerInv, MemberInv, TeamsKnown, TypeOK, Project

----------------------------------------------------------------------------
(* Who sees what.  Of the users with an account some see everything; the   *)
(* demo staff of the first MSP and the demo holder of the second see what  *)
(* is of their MSP; a registered member sees what is of his organization.  *)

SeesEverything(u) == HasBootstrapDirectoryAccess(account[u])

SeesItsMsp(u) ==
  /\ ~SeesEverything(u) /\ HasBuiltInOrg1WorkAccess(account[u])
  /\ account[u].role \in {"ISSUER", "PROJECT_MEMBER"}

SeesWhatItHolds(u) ==
  /\ ~SeesEverything(u) /\ ~HasBuiltInOrg1WorkAccess(account[u]) /\ IsBuiltInOrg2Holder(account[u])
  /\ account[u].role = "HOLDER"

SeesItsOrganization(u) ==
  /\ ~SeesEverything(u) /\ ~HasBuiltInOrg1WorkAccess(account[u]) /\ ~IsBuiltInOrg2Holder(account[u])
  /\ account[u].role = "PROJECT_MEMBER" /\ Registered(u)
  /\ account[u].org = user[u].org /\ user[u].org # None

LEMMA Readers ==
  ASSUME AccountInv, NEW u \in Users, account[u].role \in Roles
  PROVE  SeesEverything(u) \/ SeesItsMsp(u) \/ SeesWhatItHolds(u) \/ SeesItsOrganization(u)
<1>1. CASE u \in DemoNames /\ account[u] = DemoPrincipal(u)
  <2> DEFINE who == account[u]
  <2>1. who.org = None /\ who.username = u /\ <<u, who.msp, who.role>> \in DemoAccounts
    BY <1>1, DemoIs
  <2> HIDE DEF who
  <2>2. \/ u \in {"project-reviewer", "finance-admin", "auditor", "org-admin", "org-admin-org2"}
        \/ u \in {"issuer-org1", "project-member"} /\ who.role \in {"ISSUER", "PROJECT_MEMBER"}
        \/ <<u, who.msp, who.role>> = <<"holder-org2", "Org2MSP", "HOLDER">>
    BY <2>1 DEF DemoAccounts
  <2>3. CASE u \in {"project-reviewer", "finance-admin", "auditor", "org-admin", "org-admin-org2"}
    BY <2>1, <2>3 DEF SeesEverything, HasBootstrapDirectoryAccess, who
  <2>4. CASE u \in {"issuer-org1", "project-member"} /\ who.role \in {"ISSUER", "PROJECT_MEMBER"}
    BY <2>1, <2>4 DEF SeesEverything, HasBootstrapDirectoryAccess, SeesItsMsp,
                      HasBuiltInOrg1WorkAccess, who
  <2>5. CASE <<u, who.msp, who.role>> = <<"holder-org2", "Org2MSP", "HOLDER">>
    BY <2>1, <2>5 DEF SeesEverything, HasBootstrapDirectoryAccess, SeesWhatItHolds,
                      HasBuiltInOrg1WorkAccess, IsBuiltInOrg2Holder, who
  <2> QED BY <2>2, <2>3, <2>4, <2>5
<1>2. CASE Registered(u)
  BY <1>2, NoneAssumption DEF Registered, SeesEverything, HasBootstrapDirectoryAccess,
       HasBuiltInOrg1WorkAccess, IsBuiltInOrg2Holder, SeesItsOrganization
<1>3. account[u] # NoPrincipal
  BY Callers
<1> QED BY <1>1, <1>2, <1>3 DEF AccountInv

\* The roles of a route tell who can use it.
LEMMA RolesTell ==
  ASSUME AccountInv, NEW u \in Users, account[u].role \in Roles
  PROVE  /\ account[u].role \in {"PROJECT_REVIEWER", "FINANCE_ADMIN", "ORG_ADMIN"} => SeesEverything(u)
         /\ account[u].role = "ISSUER" => SeesEverything(u) \/ SeesItsMsp(u)
         /\ account[u].role \in Staff => ~SeesWhatItHolds(u)
  BY Readers DEF SeesItsMsp, SeesWhatItHolds, SeesItsOrganization, Staff

\* Who may act as a member of a project sees it, and the invoices linked to it.
LEMMA MembersSee ==
  ASSUME LedgerInv, AccountInv, NEW u \in Users, account[u].role \in Staff,
         NEW p \in Projects, ProjectExists(p), RequireProjectMember(p, u, Msp(u))
  PROVE  /\ SeesProject(u, p)
         /\ SeesItsMsp(u) => project[p].msp = account[u].msp
         /\ SeesItsOrganization(u) => project[p].org = account[u].org /\ project[p].msp = account[u].msp
<1>1. account[u].role \in Roles
  BY RolesAreRoles
<1>2. SeesEverything(u) \/ SeesItsMsp(u) \/ SeesItsOrganization(u)
  BY <1>1, Readers, RolesTell
<1>3. project[p].msp = Msp(u)
  BY DEF RequireProjectMember, RequireProjectApplicant, RequireActiveBusinessUser
<1>4. ASSUME SeesItsOrganization(u) PROVE project[p].org = account[u].org
  <2>1. UserExists(u) /\ user[u].org = account[u].org /\ user[u].org # None
    BY <1>4 DEF SeesItsOrganization, Registered, UserExists
  <2>2. project[p].org # None
    BY DEF LedgerInv, MemberInv, TeamsKnown
  <2>3. CASE u \in member[p]
    BY <2>1, <2>3 DEF LedgerInv, MemberInv, MembersBelongToProject
  <2>4. CASE RequireProjectApplicant(p, u, Msp(u))
    BY <2>1, <2>2, <2>4 DEF RequireProjectApplicant, SameOrganization, BusinessUserOrganization
  <2> QED BY <2>3, <2>4 DEF RequireProjectMember
<1>5. SeesProject(u, p)
  BY <1>2, <1>3, <1>4 DEF SeesProject, ProjectVisibleTo, SeesEverything, SeesItsMsp,
                          SeesItsOrganization, Msp
<1> QED BY <1>3, <1>4, <1>5 DEF Msp

LEMMA MembersSeeLinked ==
  ASSUME LedgerInv, AccountInv, NEW u \in Users, account[u].role \in Staff,
         NEW p \in Projects, ProjectExists(p), RequireProjectMember(p, u, Msp(u)),
         NEW i \in Invoices, InvoiceExists(i), invoice[i].project = p
  PROVE  SeesInvoice(u, i)
<1>1. account[u].role \in Roles
  BY RolesAreRoles
<1>2. SeesEverything(u) \/ SeesItsMsp(u) \/ SeesItsOrganization(u)
  BY <1>1, Readers, RolesTell
<1>3. CASE SeesEverything(u)
  BY <1>3 DEF SeesEverything, SeesInvoice, InvoiceVisibleTo
<1>4. CASE SeesItsMsp(u)
  <2>1. invoice[i].issuerMsp = account[u].msp
    BY <1>4, MembersSee, NoneAssumption DEF LedgerInv, LinkedInvoicesMatchProject
  <2> QED BY <1>4, <2>1 DEF SeesItsMsp, SeesEverything, SeesInvoice, InvoiceVisibleTo
<1>5. CASE SeesItsOrganization(u)
  <2>1. ProjectVisibleTo(account[u], project[p], organization) /\ p # None
    BY MembersSee, NoneAssumption DEF SeesProject
  <2> QED BY <1>5, <2>1 DEF SeesItsOrganization, SeesEverything, SeesInvoice, InvoiceVisibleTo,
                            ProjectExists
<1> QED BY <1>2, <1>3, <1>4, <1>5

----------------------------------------------------------------------------
(* Custody.  Behind the handlers an invoice is held by a user with an      *)
(* account, and says of him what the account says: he passed the login     *)
(* when he put it on record or accepted it, and accounts do not change.    *)

HeldBy(inv, u, who) ==
  /\ inv.holder = u /\ who # NoPrincipal /\ inv.holderMsp = who.msp
  /\ who.org # None => inv.holderOrg = who.org

HolderInv ==
  \A i \in Invoices :
      InvoiceExists(i) => \E u \in Users : HeldBy(invoice[i], u, account[u])

SameHolder(inv, inv2) ==
  inv2.holder = inv.holder /\ inv2.holderMsp = inv.holderMsp /\ inv2.holderOrg = inv.holderOrg

LEMMA InvoiceWorkKeepsHolder ==
  ASSUME TypeOK, AccountInv, NEW u \in Users, InvoiceWork(u), NEW j \in Invoices, InvoiceExists(j)'
  PROVE  \/ InvoiceExists(j) /\ SameHolder(invoice[j], invoice'[j])
         \/ HeldBy(invoice'[j], u, account[u])
<1>0. invoice \in [Invoices -> Invoice] /\ invoice[j] \in Invoice
  BY DEF TypeOK
<1>a. invoice'[j] = invoice[j] => InvoiceExists(j) /\ SameHolder(invoice[j], invoice'[j])
  BY DEF SameHolder, InvoiceExists
<1> SUFFICES ASSUME NEW i \in Invoices,
                    \/ \E no \in Numbers, total \in Cents, currency \in Currencies,
                          p \in Projects \cup {None}, original \in Invoices \cup {None} :
                          createInvoice(u, i, no, total, currency, p, original)
                    \/ \E p \in Projects : linkInvoiceProject(u, i, p)
                    \/ unlinkInvoiceProject(u, i)
                    \/ voidInvoice(u, i) \/ requestInvoiceVoid(u, i)
                    \/ \E decision \in {"APPROVE", "REJECT"} : reviewInvoiceVoid(u, i, decision)
             PROVE  \/ invoice'[j] = invoice[j]
                    \/ InvoiceExists(j) /\ SameHolder(invoice[j], invoice'[j])
                    \/ HeldBy(invoice'[j], u, account[u])
  BY <1>a DEF InvoiceWork
<1>1. ASSUME NEW no \in Numbers, NEW total \in Cents, NEW currency \in Currencies,
             NEW p \in Projects \cup {None}, NEW original \in Invoices \cup {None},
             createInvoice(u, i, no, total, currency, p, original)
      PROVE  invoice'[j] = invoice[j] \/ HeldBy(invoice'[j], u, account[u])
  <2> DEFINE org == account[u].org
             issuerOrg == IF org = None THEN BusinessUserOrganization(u) ELSE org
  <2>1. account[u] # NoPrincipal
    BY <1>1, Callers, RolesAreRoles DEF createInvoice, Serve
  <2>2. CASE i = j
    <3>1. /\ invoice'[j].holder = u /\ invoice'[j].holderMsp = Msp(u)
          /\ invoice'[j].holderOrg = issuerOrg
      BY <1>0, <1>1, <2>2 DEF createInvoice, CreateInvoice
    <3> QED BY <2>1, <3>1 DEF HeldBy, Msp
  <2>3. CASE i # j
    BY <1>0, <1>1, <2>3 DEF createInvoice, CreateInvoice
  <2> QED BY <2>2, <2>3
<1>2. \A v : [invoice EXCEPT ![i].project = v][j].holder = invoice[j].holder
             /\ [invoice EXCEPT ![i].project = v][j].holderMsp = invoice[j].holderMsp
             /\ [invoice EXCEPT ![i].project = v][j].holderOrg = invoice[j].holderOrg
             /\ [invoice EXCEPT ![i].project = v][j].status = invoice[j].status
             /\ [invoice EXCEPT ![i].status = v][j].holder = invoice[j].holder
             /\ [invoice EXCEPT ![i].status = v][j].holderMsp = invoice[j].holderMsp
             /\ [invoice EXCEPT ![i].status = v][j].holderOrg = invoice[j].holderOrg
             /\ i # j => [invoice EXCEPT ![i].status = v][j] = invoice[j]
  BY <1>0 DEF Invoice
<1>3. ASSUME NEW p \in Projects, linkInvoiceProject(u, i, p)
      PROVE  InvoiceExists(j) /\ SameHolder(invoice[j], invoice'[j])
  BY <1>2, <1>3 DEF linkInvoiceProject, LinkInvoiceToProject, SameHolder, InvoiceExists
<1>4. CASE unlinkInvoiceProject(u, i)
  BY <1>2, <1>4 DEF unlinkInvoiceProject, UnlinkInvoiceFromProject, SameHolder, InvoiceExists
<1>5. ASSUME \/ voidInvoice(u, i) \/ requestInvoiceVoid(u, i)
             \/ \E decision \in {"APPROVE", "REJECT"} : reviewInvoiceVoid(u, i, decision)
      PROVE  \/ UNCHANGED invoice
             \/ NotVoided(i) /\ invoice' = [invoice EXCEPT ![i].status = "VOIDED"]
  BY <1>5 DEF voidInvoice, requestInvoiceVoid, reviewInvoiceVoid, VoidInvoice, RequestInvoiceVoid,
              ReviewInvoiceVoid, invoiceVars
<1>6. ASSUME NotVoided(i), invoice' = [invoice EXCEPT ![i].status = "VOIDED"]
      PROVE  \/ invoice'[j] = invoice[j]
             \/ InvoiceExists(j) /\ SameHolder(invoice[j], invoice'[j])
  BY <1>2, <1>6 DEF SameHolder, NotVoided
<1> QED BY <1>1, <1>3, <1>4, <1>5, <1>6

LEMMA HandoverToCaller ==
  ASSUME TypeOK, AccountInv, NEW u \in Users, Handover(u), NEW j \in Invoices, InvoiceExists(j)'
  PROVE  \/ InvoiceExists(j) /\ SameHolder(invoice[j], invoice'[j])
         \/ HeldBy(invoice'[j], u, account[u])
<1>0. invoice \in [Invoices -> Invoice] /\ invoice[j] \in Invoice
  BY DEF TypeOK
<1>a. invoice'[j] = invoice[j] => InvoiceExists(j) /\ SameHolder(invoice[j], invoice'[j])
  BY DEF SameHolder, InvoiceExists
<1>1. \/ UNCHANGED invoice
      \/ \E i \in Invoices : respondInvoiceTransfer(u, i, "ACCEPT")
                             /\ invoice' = [invoice EXCEPT ![i] = HandedTo(invoice[i], u, transfer[i].toMsp)]
  BY DEF Handover, requestInvoiceTransfer, respondInvoiceTransfer, cancelInvoiceTransfer,
         RequestInvoiceTransfer, RespondInvoiceTransfer, CancelInvoiceTransfer
<1>2. ASSUME NEW i \in Invoices, respondInvoiceTransfer(u, i, "ACCEPT"),
             invoice' = [invoice EXCEPT ![i] = HandedTo(invoice[i], u, transfer[i].toMsp)]
      PROVE  invoice'[j] = invoice[j] \/ HeldBy(invoice'[j], u, account[u])
  <2>1. account[u] # NoPrincipal /\ account[u].role \in Roles
    BY <1>2, Callers, RolesAreRoles DEF respondInvoiceTransfer, Serve
  <2>2. transfer[i].toMsp = account[u].msp
    BY <1>2 DEF respondInvoiceTransfer, RespondInvoiceTransfer, RequireActiveBusinessUser, Msp
  <2>3. account[u].org # None => BusinessUserOrganization(u) = account[u].org
    <3>1. Registered(u) => UserExists(u) /\ account[u].org = user[u].org
      BY DEF Registered, UserExists
    <3>2. u \in DemoNames /\ account[u] = DemoPrincipal(u) => account[u].org = None
      BY DemoIs
    <3> QED BY <2>1, <3>1, <3>2 DEF AccountInv, BusinessUserOrganization
  <2>4. CASE i = j
    <3>1. /\ invoice'[j].holder = u /\ invoice'[j].holderMsp = transfer[i].toMsp
          /\ invoice'[j].holderOrg = BusinessUserOrganization(u)
      BY <1>0, <1>2, <2>4 DEF HandedTo, Invoice
    <3> QED BY <2>1, <2>2, <2>3, <3>1 DEF HeldBy
  <2>5. CASE i # j
    BY <1>0, <1>2, <2>5
  <2> QED BY <2>4, <2>5
<1> QED BY <1>a, <1>1, <1>2

LEMMA CustodyOfAccounts ==
  ASSUME TypeOK, AccountInv, HolderInv, [RestNext]_restVars PROVE HolderInv'
<1> SUFFICES ASSUME NEW j \in Invoices, InvoiceExists(j)'
             PROVE  \E u \in Users : HeldBy(invoice'[j], u, account'[u])
  BY DEF HolderInv
<1>1. ASSUME NEW u \in Users, HeldBy(invoice'[j], u, account[u])
      PROVE  HeldBy(invoice'[j], u, account'[u])
  BY <1>1, AccountStep DEF HeldBy
<1>2. ASSUME InvoiceExists(j), SameHolder(invoice[j], invoice'[j])
      PROVE  \E u \in Users : HeldBy(invoice'[j], u, account[u])
  BY <1>2 DEF HolderInv, SameHolder, HeldBy
<1>3. CASE UNCHANGED invoice
  BY <1>1, <1>2, <1>3 DEF SameHolder, InvoiceExists
<1>4. ASSUME NEW u \in Users, Directory(u) \/ ProjectWork(u) \/ ReimbursementWork(u)
      PROVE  UNCHANGED invoice
  <2>1. DirectoryNext \/ ProjectNext \/ ReimbursementNext
    BY <1>4, DirectoryCalls, ProjectCalls, ReimbursementCalls
  <2>2. ReimbursementNext => UNCHANGED invoice
    BY DEF ReimbursementNext, CreateReimbursement, ReviewReimbursement, ResubmitReimbursement,
           WithdrawReimbursement, PayReimbursement, ReimbursementFrame, invoiceVars
  <2> QED BY <2>1, <2>2, InvoicesUntouched
<1>5. UNCHANGED restVars \/ ListStep => UNCHANGED invoice
  BY DEF restVars, ListStep, vars
<1> QED BY <1>1, <1>2, <1>3, <1>4, <1>5, HandlersCall, InvoiceWorkKeepsHolder, HandoverToCaller

LEMMA HoldersCorrect == RestSpec => []HolderInv
<1>1. RestInit => HolderInv
  <2>1. RestInit => \A i \in Invoices : ~InvoiceExists(i)
    BY DEF RestInit, Init, InvoiceExists, AbsentInvoice
  <2> QED BY <2>1 DEF HolderInv
<1> QED BY <1>1, CustodyOfAccounts, AccountsCorrect, HandlersUseTheChaincode, TypeCorrect, PTL DEF RestSpec

----------------------------------------------------------------------------
(* Nobody touches what is hidden from them.  A route that is not for the   *)
(* members of a project is for users who see everything or what is of      *)
(* their MSP; what a member may act on is linked to the project, or of the *)
(* issuer's organization, or held by him, or offered to him.               *)

\* What is served is seen: before the step, or after it if the step put it.
ProjectSeen(u, p) ==
  IF ProjectExists(p) THEN SeesProject(u, p) ELSE SeesProject(u, p)'

InvoiceSeen(u, i) ==
  IF InvoiceExists(i) THEN SeesInvoice(u, i) ELSE SeesInvoice(u, i)'

Seen(u) ==
  /\ \A p \in served'.projects : ProjectSeen(u, p)
  /\ \A i \in served'.invoices : InvoiceSeen(u, i)

AllInv == LedgerInv /\ AccountInv /\ HolderInv

LEMMA ServeIs ==
  ASSUME NEW u, NEW roles, NEW projects, NEW invoices, Serve(u, roles, projects, invoices)
  PROVE  /\ account[u].role \in roles /\ UNCHANGED account
         /\ served'.projects = projects \ {None} /\ served'.invoices = invoices
  BY DEF Serve

LEMMA SeersOfAll ==
  ASSUME NEW u, SeesEverything(u)
  PROVE  /\ \A p : ProjectExists(p) => SeesProject(u, p)
         /\ \A i : InvoiceExists(i) => SeesInvoice(u, i)
  BY DEF SeesEverything, SeesProject, ProjectVisibleTo, SeesInvoice, InvoiceVisibleTo

LEMMA ProjectWorkSeen ==
  ASSUME AllInv, NEW u \in Users, ProjectWork(u) PROVE Seen(u)
<1>0. LedgerInv /\ AccountInv /\ project \in [Projects -> Project]
  BY LedgerFacts DEF AllInv
<1> SUFFICES ASSUME NEW p \in Projects,
                    \/ \E budget \in Cents : createProject(u, p, budget) \/ updateProject(u, p, budget)
                    \/ submitProject(u, p) \/ requestProjectClosure(u, p)
                    \/ finalizeProjectSettlement(u, p)
                    \/ \E added \in Users : addProjectMember(u, p, added)
                    \/ \E decision \in {"APPROVE", "REVISION"} :
                          reviewProject(u, p, decision) \/ reviewProjectClosure(u, p, decision)
             PROVE  ProjectSeen(u, p) /\ served'.projects = {p} /\ served'.invoices = {}
  BY DEF ProjectWork, Seen
<1>1. \E roles : Serve(u, roles, {p}, {})
  BY DEF createProject, updateProject, submitProject, requestProjectClosure,
         finalizeProjectSettlement, addProjectMember, reviewProject, reviewProjectClosure
<1>2. served'.projects = {p} /\ served'.invoices = {} /\ UNCHANGED account
  BY <1>1, ServeIs, NoneAssumption
<1>3. ASSUME account[u].role \in Staff, ProjectExists(p), RequireProjectApplicant(p, u, Msp(u))
      PROVE  ProjectSeen(u, p)
  BY <1>0, <1>3, MembersSee DEF RequireProjectMember, ProjectSeen
<1>4. ASSUME account[u].role \in {"PROJECT_REVIEWER", "FINANCE_ADMIN"}, ProjectExists(p)
      PROVE  ProjectSeen(u, p)
  BY <1>0, <1>4, RolesTell, RolesAreRoles, SeersOfAll DEF ProjectSeen
<1>5. ASSUME NEW budget \in Cents, createProject(u, p, budget) PROVE ProjectSeen(u, p)
  <2>1. /\ account[u].role \in Staff
        /\ CreateProject(p, budget, u, account[u].org, Msp(u)) /\ account[u].org # None
    BY <1>5 DEF createProject, Serve, CreateProject
  <2>2. SeesEverything(u) \/ SeesItsOrganization(u)
    BY <1>0, <2>1, Readers, RolesAreRoles DEF SeesItsMsp, HasBuiltInOrg1WorkAccess,
         SeesWhatItHolds, IsBuiltInOrg2Holder
  <2>3. /\ project'[p].status = "DRAFT" /\ project'[p].org = account[u].org /\ ~ProjectExists(p)
    BY <1>0, <2>1 DEF CreateProject, AbsentProject
  <2>4. ProjectVisibleTo(account[u], project'[p], organization')
    BY <2>1, <2>2, <2>3 DEF SeesEverything, SeesItsOrganization, ProjectVisibleTo
  <2> QED BY <1>2, <2>3, <2>4 DEF ProjectSeen, SeesProject, ProjectExists
<1>6. ASSUME NEW budget \in Cents, updateProject(u, p, budget) PROVE ProjectSeen(u, p)
  BY <1>3, <1>6 DEF updateProject, Serve, UpdateProject, Editable, ProjectExists
<1>7. CASE submitProject(u, p)
  BY <1>2, <1>3, <1>7 DEF submitProject, Serve, SubmitProject, Editable, ProjectExists
<1>8. CASE requestProjectClosure(u, p)
  BY <1>2, <1>3, <1>8 DEF requestProjectClosure, Serve, RequestProjectClosure, ProjectExists
<1>9. ASSUME NEW added \in Users, addProjectMember(u, p, added) PROVE ProjectSeen(u, p)
  BY <1>3, <1>9 DEF addProjectMember, Serve, AddProjectMember
<1>10. CASE finalizeProjectSettlement(u, p)
  BY <1>2, <1>4, <1>10 DEF finalizeProjectSettlement, Serve, FinalizeProjectSettlement, InSettlement,
                           ProjectExists
<1>11. ASSUME NEW decision \in {"APPROVE", "REVISION"},
              reviewProject(u, p, decision) \/ reviewProjectClosure(u, p, decision)
       PROVE  ProjectSeen(u, p)
  BY <1>4, <1>11 DEF reviewProject, reviewProjectClosure, Serve, ReviewProject,
                     ReviewProjectClosure, ProjectExists
<1> QED BY <1>2, <1>5, <1>6, <1>7, <1>8, <1>9, <1>10, <1>11

LEMMA ReimbursementWorkSeen ==
  ASSUME AllInv, NEW u \in Users, ReimbursementWork(u) PROVE Seen(u)
<1>0. LedgerInv /\ AccountInv
  BY DEF AllInv
<1>1. ASSUME NEW p \in Projects, NEW i \in Invoices, ProjectExists(p), InvoiceExists(i),
             invoice[i].project = p,
             \/ account[u].role \in Staff /\ RequireProjectMember(p, u, Msp(u))
             \/ account[u].role \in {"PROJECT_REVIEWER", "FINANCE_ADMIN"}
      PROVE  ProjectSeen(u, p) /\ InvoiceSeen(u, i)
  <2>1. CASE account[u].role \in Staff /\ RequireProjectMember(p, u, Msp(u))
    BY <1>0, <1>1, <2>1, MembersSee, MembersSeeLinked DEF ProjectSeen, InvoiceSeen
  <2>2. CASE account[u].role \in {"PROJECT_REVIEWER", "FINANCE_ADMIN"}
    BY <1>0, <1>1, <2>2, RolesTell, RolesAreRoles, SeersOfAll DEF ProjectSeen, InvoiceSeen
  <2> QED BY <1>1, <2>1, <2>2
<1>2. ASSUME NEW r \in Reimbursements, NEW p \in Projects, NEW i \in Invoices,
             createReimbursement(u, r, p, i)
      PROVE  Seen(u)
  <2>1. served'.projects = {p} /\ served'.invoices = {i}
    BY <1>2, ServeIs, NoneAssumption DEF createReimbursement
  <2>2. /\ ProjectExists(p) /\ InvoiceExists(i) /\ invoice[i].project = p
        /\ account[u].role \in Staff /\ RequireProjectMember(p, u, Msp(u))
    BY <1>2 DEF createReimbursement, Serve, CreateReimbursement, InSettlement, ProjectExists, NotVoided
  <2> QED BY <1>1, <2>1, <2>2 DEF Seen
<1>3. ASSUME NEW r \in Reimbursements, NEW roles, ServeClaim(u, roles, r), Live(r),
             \/ account[u].role \in Staff /\ RequireProjectMember(reimbursement[r].project, u, Msp(u))
             \/ account[u].role \in {"PROJECT_REVIEWER", "FINANCE_ADMIN"}
      PROVE  Seen(u)
  <2> DEFINE p == reimbursement[r].project
             i == reimbursement[r].invoice
  <2>1. p \in Projects /\ i \in Invoices
    BY <1>0, <1>3 DEF LedgerInv, ClaimInv, ClaimsNameInvoices, Live, ReimbursementExists
  <2>2. NotVoided(i) /\ invoice[i].project = p /\ Released(p)
    BY <1>0, <1>3 DEF LedgerInv, ClaimsRestOnInvoices
  <2>3. ProjectExists(p) /\ InvoiceExists(i)
    BY <2>2 DEF NotVoided, Released, ProjectExists
  <2>4. served'.projects = {p} /\ served'.invoices = {i}
    BY <1>3, <2>1, ServeIs, NoneAssumption DEF ServeClaim
  <2> HIDE DEF i
  <2>5. ProjectSeen(u, p) /\ InvoiceSeen(u, i)
    BY <1>1, <1>3, <2>1, <2>2, <2>3
  <2> QED BY <2>4, <2>5 DEF Seen
<1>4. ASSUME NEW r \in Reimbursements, resubmitReimbursement(u, r) \/ withdrawReimbursement(u, r)
      PROVE  Seen(u)
  BY <1>3, <1>4 DEF resubmitReimbursement, withdrawReimbursement, ServeClaim, Serve,
                    ResubmitReimbursement, WithdrawReimbursement, Withdrawable, Live
<1>5. ASSUME NEW r \in Reimbursements, NEW decision \in {"APPROVE", "REVISION"},
             reviewReimbursement(u, r, decision) \/ payReimbursement(u, r)
      PROVE  Seen(u)
  BY <1>3, <1>5 DEF reviewReimbursement, payReimbursement, ServeClaim, Serve,
                    ReviewReimbursement, PayReimbursement, Live
<1> QED BY <1>2, <1>4, <1>5 DEF ReimbursementWork


\* A member of staff sees what is of his MSP and, if he has one, organization.
LEMMA StaffSee ==
  ASSUME AllInv, NEW u \in Users, account[u].role \in Staff, NEW i \in Invoices, InvoiceExists(i),
         invoice[i].issuerMsp = Msp(u),
         account[u].org # None => invoice[i].issuerOrg \in {None, account[u].org}
  PROVE  SeesInvoice(u, i)
<1>1. SeesEverything(u) \/ SeesItsMsp(u) \/ SeesItsOrganization(u)
  BY Readers, RolesTell, RolesAreRoles DEF AllInv
<1>2. InvoiceVisibleTo(account[u], invoice[i], project, organization)
  BY <1>1 DEF SeesEverything, SeesItsMsp, SeesItsOrganization, InvoiceVisibleTo, Msp
<1> QED BY <1>2 DEF SeesInvoice

LEMMA CreateInvoiceSeen ==
  ASSUME AllInv, NEW u \in Users, NEW i \in Invoices, NEW no \in Numbers, NEW total \in Cents,
         NEW currency \in Currencies, NEW p \in Projects \cup {None},
         NEW original \in Invoices \cup {None},
         createInvoice(u, i, no, total, currency, p, original)
  PROVE  Seen(u)
<1> DEFINE org == account[u].org
           issuerOrg == IF org = None THEN BusinessUserOrganization(u) ELSE org
<1>0. LedgerInv /\ AccountInv /\ invoice \in [Invoices -> Invoice]
  BY LedgerFacts DEF AllInv
<1>1. /\ served'.projects = {p} \ {None} /\ served'.invoices = {i} \cup ({original} \ {None})
      /\ account[u].role \in Staff /\ UNCHANGED account
  BY ServeIs DEF createInvoice
<1>2. ASSUME p # None PROVE ProjectSeen(u, p)
  <2>1. p \in Projects /\ RequireProjectMember(p, u, Msp(u)) /\ ProjectExists(p)
    BY <1>2 DEF createInvoice, CreateInvoice, LinkableAtCreation, OpenForAssociation,
                InSettlement, ProjectExists
  <2> QED BY <1>0, <1>1, <2>1, MembersSee DEF ProjectSeen
<1>3. InvoiceSeen(u, i)
  <2>1. /\ ~InvoiceExists(i)
        /\ invoice'[i].status = "ISSUED" /\ invoice'[i].issuerMsp = Msp(u)
        /\ invoice'[i].issuerOrg = issuerOrg
    BY <1>0 DEF createInvoice, CreateInvoice
  <2>2. SeesEverything(u) \/ SeesItsMsp(u) \/ SeesItsOrganization(u)
    BY <1>0, <1>1, Readers, RolesTell, RolesAreRoles
  <2>3. InvoiceVisibleTo(account[u], invoice'[i], project', organization')
    BY <2>1, <2>2 DEF SeesEverything, SeesItsMsp, SeesItsOrganization, InvoiceVisibleTo, Msp
  <2> QED BY <1>1, <2>1, <2>3 DEF InvoiceSeen, SeesInvoice, InvoiceExists
<1>4. ASSUME original # None PROVE InvoiceSeen(u, original)
  <2>1. /\ original \in Invoices /\ InvoiceExists(original)
        /\ invoice[original].issuerMsp = Msp(u) /\ invoice[original].issuerOrg \in {None, issuerOrg}
    BY <1>4 DEF createInvoice, CreateInvoice, Corrects, InvoiceExists
  <2> QED BY <1>1, <2>1, StaffSee DEF InvoiceSeen
<1> QED BY <1>1, <1>2, <1>3, <1>4 DEF Seen

LEMMA InvoiceWorkSeen ==
  ASSUME AllInv, NEW u \in Users, InvoiceWork(u) PROVE Seen(u)
<1>0. LedgerInv /\ AccountInv /\ invoice \in [Invoices -> Invoice]
  BY LedgerFacts DEF AllInv
<1>1. ASSUME NEW i \in Invoices, NEW p \in Projects, linkInvoiceProject(u, i, p) PROVE Seen(u)
  <2>1. served'.projects = {p} /\ served'.invoices = {i} /\ account[u].role \in Staff
    BY <1>1, ServeIs, NoneAssumption DEF linkInvoiceProject
  <2>2. /\ ProjectExists(p) /\ InvoiceExists(i) /\ RequireProjectMember(p, u, Msp(u))
        /\ invoice[i].issuerMsp = project[p].msp
        /\ SameOrganization(invoice[i].issuerOrg, project[p].org)
    BY <1>1 DEF linkInvoiceProject, LinkInvoiceToProject, OpenForAssociation, InSettlement,
                ProjectExists, NotVoided, SameIssuerOrganization
  <2>3. /\ SeesProject(u, p) /\ project[p].org # None
        /\ SeesItsMsp(u) => project[p].msp = account[u].msp
        /\ SeesItsOrganization(u) => project[p].org = account[u].org /\ project[p].msp = account[u].msp
    BY <1>0, <2>1, <2>2, MembersSee, LedgerFacts, NoneAssumption
  <2>4. project[p].msp = Msp(u)
    BY <2>2 DEF RequireProjectMember, RequireProjectApplicant, RequireActiveBusinessUser
  <2>5. SeesEverything(u) \/ SeesItsMsp(u) \/ SeesItsOrganization(u)
    BY <1>0, <2>1, Readers, RolesTell, RolesAreRoles
  <2>6. SeesItsMsp(u) => account[u].org = None
    BY DEF SeesItsMsp, HasBuiltInOrg1WorkAccess
  <2>7. SeesInvoice(u, i)
    BY <2>1, <2>2, <2>3, <2>4, <2>5, <2>6, StaffSee, SeersOfAll DEF SameOrganization
  <2> QED BY <2>1, <2>2, <2>3, <2>7 DEF Seen, ProjectSeen, InvoiceSeen
<1>2. ASSUME NEW i \in Invoices, unlinkInvoiceProject(u, i) \/ requestInvoiceVoid(u, i) PROVE Seen(u)
  <2> DEFINE p == invoice[i].project
  <2>1. /\ served'.projects \subseteq {p} /\ served'.invoices = {i} /\ account[u].role \in Staff
    BY <1>2, ServeIs DEF unlinkInvoiceProject, requestInvoiceVoid, Staff
  <2>2. InvoiceExists(i) /\ p # None /\ ProjectExists(p) /\ RequireProjectMember(p, u, Msp(u))
    BY <1>2 DEF unlinkInvoiceProject, UnlinkInvoiceFromProject, Separable, requestInvoiceVoid,
                RequestInvoiceVoid, NotVoided
  <2>3. p \in Projects
    BY <1>0, <2>2 DEF Invoice
  <2>4. SeesProject(u, p) /\ SeesInvoice(u, i)
    BY <1>0, <2>1, <2>2, <2>3, MembersSee, MembersSeeLinked
  <2> QED BY <2>1, <2>2, <2>4 DEF Seen, ProjectSeen, InvoiceSeen
<1>3. ASSUME NEW i \in Invoices, NEW decision \in {"APPROVE", "REJECT"},
             voidInvoice(u, i) \/ reviewInvoiceVoid(u, i, decision)
      PROVE  Seen(u)
  <2>1. served'.projects = {} /\ served'.invoices = {i} /\ account[u].role = "ISSUER"
    BY <1>3, ServeIs DEF voidInvoice, reviewInvoiceVoid
  <2>2. InvoiceExists(i) /\ invoice[i].issuerMsp = Msp(u)
    BY <1>3 DEF voidInvoice, reviewInvoiceVoid, VoidInvoice, ReviewInvoiceVoid, NotVoided,
                RequireIssuer, RequireActiveBusinessUser
  <2>3. SeesEverything(u) \/ SeesItsMsp(u)
    BY <1>0, <2>1, RolesTell, RolesAreRoles
  <2>4. SeesItsMsp(u) => account[u].org = None
    BY DEF SeesItsMsp, HasBuiltInOrg1WorkAccess
  <2>5. SeesInvoice(u, i)
    BY <2>1, <2>2, <2>3, <2>4, StaffSee, SeersOfAll DEF Staff
  <2> QED BY <2>1, <2>2, <2>5 DEF Seen, InvoiceSeen
<1> QED BY <1>1, <1>2, <1>3, CreateInvoiceSeen DEF InvoiceWork

\* An invoice is seen by who holds it and by whom it is offered to.
LEMMA HandoverSeen ==
  ASSUME AllInv, NEW u \in Users, Handover(u) PROVE Seen(u)
<1>0. LedgerInv /\ AccountInv /\ HolderInv
  BY DEF AllInv
<1>1. ASSUME NEW i \in Invoices, NEW to, NEW toMsp, requestInvoiceTransfer(u, i, to, toMsp)
      PROVE  Seen(u)
  BY <1>1, ServeIs DEF requestInvoiceTransfer, SeesInvoice, Seen, InvoiceSeen
<1>2. ASSUME NEW i \in Invoices, NEW decision, respondInvoiceTransfer(u, i, decision) PROVE Seen(u)
  <2>1. served'.projects = {} /\ served'.invoices = {i} /\ account[u].role \in Custodians
    BY <1>2, ServeIs DEF respondInvoiceTransfer
  <2>2. /\ transfer[i].status = "PENDING" /\ transfer[i].to = u /\ transfer[i].toMsp = account[u].msp
    BY <1>2 DEF respondInvoiceTransfer, RespondInvoiceTransfer, RequireActiveBusinessUser, Msp
  <2>3. InvoiceExists(i)
    BY <1>0, <2>2 DEF LedgerInv, CustodyInv
  <2>4. account[u].username = u
    BY <1>0, <2>1, Callers, RolesAreRoles
  <2>5. PendingTransferVisibleTo(account[u], transfer[i])
    BY <2>1, <2>2, <2>4 DEF PendingTransferVisibleTo, Custodians
  <2> QED BY <2>1, <2>3, <2>5 DEF Seen, InvoiceSeen, SeesInvoice
<1>3. ASSUME NEW i \in Invoices, cancelInvoiceTransfer(u, i) PROVE Seen(u)
  <2>1. served'.projects = {} /\ served'.invoices = {i} /\ account[u].role \in Roles
    BY <1>3, ServeIs, RolesAreRoles DEF cancelInvoiceTransfer
  <2>2. InvoiceExists(i) /\ invoice[i].holder = u
    BY <1>3 DEF cancelInvoiceTransfer, CancelInvoiceTransfer
  <2>3. HeldBy(invoice[i], u, account[u])
    BY <1>0, <2>2 DEF HolderInv, HeldBy
  <2>4. SeesEverything(u) \/ SeesItsMsp(u) \/ SeesWhatItHolds(u) \/ SeesItsOrganization(u)
    BY <1>0, <2>1, Readers
  <2>5. InvoiceVisibleTo(account[u], invoice[i], project, organization)
    BY <2>3, <2>4 DEF HeldBy, SeesEverything, SeesItsMsp, SeesWhatItHolds, SeesItsOrganization,
                      InvoiceVisibleTo
  <2> QED BY <2>1, <2>2, <2>5 DEF Seen, InvoiceSeen, SeesInvoice
<1> QED BY <1>1, <1>2, <1>3 DEF Handover

\* What a served request is about is seen by who asked for it.
LEMMA TouchedIsSeen ==
  ASSUME AllInv, RestNext, NEW u \in Users, served'.by = u PROVE Seen(u)
<1>1. ASSUME ListStep PROVE FALSE
  BY <1>1, NoneAssumption DEF ListStep, NoRequest
<1>2. ASSUME NEW v \in Users, NEW roles, NEW projects, NEW invoices, Serve(v, roles, projects, invoices)
      PROVE  v = u
  BY <1>2 DEF Serve
<1>3. ASSUME NEW v \in Users, Directory(v) PROVE Seen(u)
  <2>1. ASSUME NEW o, registerUser(v, o) PROVE FALSE
    BY <2>1, NoneAssumption DEF registerUser, NoRequest
  <2> QED BY <1>3, <2>1, ServeIs DEF Directory, createBusinessOrganization, Seen
<1>4. ASSUME NEW v \in Users, InvoiceWork(v) PROVE v = u
  BY <1>2, <1>4 DEF InvoiceWork, createInvoice, linkInvoiceProject, unlinkInvoiceProject, voidInvoice,
       requestInvoiceVoid, reviewInvoiceVoid
<1>5. ASSUME NEW v \in Users, Handover(v) PROVE v = u
  BY <1>2, <1>5 DEF Handover, requestInvoiceTransfer, respondInvoiceTransfer, cancelInvoiceTransfer
<1>6. ASSUME NEW v \in Users, ProjectWork(v) PROVE v = u
  BY <1>2, <1>6 DEF ProjectWork, createProject, updateProject, submitProject, requestProjectClosure,
       finalizeProjectSettlement, addProjectMember, reviewProject, reviewProjectClosure
<1>7. ASSUME NEW v \in Users, ReimbursementWork(v) PROVE v = u
  BY <1>2, <1>7 DEF ReimbursementWork, createReimbursement, resubmitReimbursement,
       withdrawReimbursement, payReimbursement, reviewReimbursement, ServeClaim
<1> QED BY <1>1, <1>3, <1>4, <1>5, <1>6, <1>7, InvoiceWorkSeen, HandoverSeen, ProjectWorkSeen,
           ReimbursementWorkSeen, HandlersCall DEF AllInv

\* Whoever the chaincode lets act on a record can read it: the read model of
\* the handlers and the write rules of the chaincode agree.
THEOREM NobodyActsInTheDark == RestSpec => ActorsSeeWhatTheyTouch
<1>1. AllInv /\ [RestNext]_restVars =>
        [\A u \in Users : served'.by = u =>
           /\ \A p \in served'.projects :
                 IF ProjectExists(p) THEN SeesProject(u, p) ELSE SeesProject(u, p)'
           /\ \A i \in served'.invoices :
                 IF InvoiceExists(i) THEN SeesInvoice(u, i) ELSE SeesInvoice(u, i)']_restVars
  BY TouchedIsSeen DEF Seen, ProjectSeen, InvoiceSeen
<1>2. LedgerInv /\ AccountInv /\ HolderInv => AllInv
  BY DEF AllInv
<1> QED BY <1>1, <1>2, LedgerCorrect, AccountsCorrect, HoldersCorrect, PTL
        DEF RestSpec, ActorsSeeWhatTheyTouch

----------------------------------------------------------------------------
(* What a list rests on: a record that decides who sees what is put once   *)
(* and keeps the fields that decide it, so that who saw an invoice as it   *)
(* was listed sees it so for ever, whichever block a query of the list is  *)
(* answered from.                                                          *)

\* The organizations of users and projects are on the ledger.
OrgKnown(o) == o \in Orgs /\ OrganizationExists(o)

OrgsKnown ==
  /\ \A u \in Users : UserExists(u) => OrgKnown(user[u].org)
  /\ \A p \in Projects : ProjectExists(p) => OrgKnown(project[p].org)

LEMMA OrganizationsStay ==
  ASSUME TypeOK, [Next]_vars, NEW o \in Orgs, OrganizationExists(o)
  PROVE  organization'[o] = organization[o]
<1>1. CASE UNCHANGED organization
  BY <1>1
<1>2. CASE DirectoryNext
  <2>1. organization \in [Orgs -> BusinessOrganization]
    BY DEF TypeOK
  <2>2. CASE \E q \in Orgs, type \in {"PRIMARY", "PROJECT_TEAM", "EXTERNAL"},
                parent \in Orgs \cup {None}, creator \in Users, caller \in MSPs :
              CreateBusinessOrganization(q, type, parent, creator, caller)
    BY <2>1, <2>2 DEF CreateBusinessOrganization, OrganizationExists
  <2>3. CASE \E v \in Users, q \in Orgs, caller, msp \in MSPs :
               RegisterBusinessUser(v, msp, q, caller)
    BY <2>3 DEF RegisterBusinessUser
  <2> QED BY <1>2, <2>2, <2>3 DEF DirectoryNext
<1>3. CASE ProjectNext \/ InvoiceNext \/ VoidNext \/ TransferNext \/ ReimbursementNext
  <2>1. ProjectNext => UNCHANGED organization
    BY ProjectFrames DEF ProjectFrame, directoryVars
  <2>2. InvoiceNext => UNCHANGED organization
    BY DEF InvoiceNext, CreateInvoice, LinkInvoiceToProject, UnlinkInvoiceFromProject, directoryVars
  <2>3. VoidNext => UNCHANGED organization
    BY DEF VoidNext, VoidInvoice, RequestInvoiceVoid, ReviewInvoiceVoid, directoryVars
  <2>4. TransferNext => UNCHANGED organization
    BY DEF TransferNext, TransferInvoice, RequestInvoiceTransfer, RespondInvoiceTransfer,
           CancelInvoiceTransfer, TransferFrame, directoryVars
  <2>5. ReimbursementNext => UNCHANGED organization
    BY DEF ReimbursementNext, CreateReimbursement, ReviewReimbursement, ResubmitReimbursement,
           WithdrawReimbursement, PayReimbursement, ReimbursementFrame, directoryVars
  <2> QED BY <1>1, <1>3, <2>1, <2>2, <2>3, <2>4, <2>5
<1> QED BY <1>1, <1>2, <1>3 DEF Next, vars

\* Who is put on the ledger names an organization that is on it.
LEMMA UserStep ==
  ASSUME TypeOK, [Next]_vars, NEW u \in Users, UserExists(u)'
  PROVE  \/ UserExists(u) /\ user'[u] = user[u]
         \/ OrgKnown(user'[u].org)
<1>0. user \in [Users -> BusinessUser]
  BY DEF TypeOK
<1>1. CASE UserExists(u)
  BY <1>1, UsersStay
<1>2. CASE user'[u] = user[u]
  BY <1>2 DEF UserExists
<1>3. CASE DirectoryNext /\ user'[u] # user[u]
  <2>1. PICK v \in Users, o \in Orgs, caller \in MSPs, msp \in MSPs :
               RegisterBusinessUser(v, msp, o, caller)
    BY <1>3 DEF DirectoryNext, CreateBusinessOrganization
  <2>2. v = u /\ user'[u].org = o
    BY <1>0, <1>3, <2>1 DEF RegisterBusinessUser
  <2> QED BY <2>1, <2>2 DEF RegisterBusinessUser, OrgKnown, OrganizationExists
<1>4. ProjectNext \/ InvoiceNext \/ VoidNext \/ TransferNext \/ ReimbursementNext => UNCHANGED user
  <2>1. ProjectNext => UNCHANGED user
    BY ProjectFrames DEF ProjectFrame, directoryVars
  <2>2. InvoiceNext => UNCHANGED user
    BY DEF InvoiceNext, CreateInvoice, LinkInvoiceToProject, UnlinkInvoiceFromProject, directoryVars
  <2>3. VoidNext => UNCHANGED user
    BY DEF VoidNext, VoidInvoice, RequestInvoiceVoid, ReviewInvoiceVoid, directoryVars
  <2>4. TransferNext => UNCHANGED user
    BY DEF TransferNext, TransferInvoice, RequestInvoiceTransfer, RespondInvoiceTransfer,
           CancelInvoiceTransfer, TransferFrame, directoryVars
  <2>5. ReimbursementNext => UNCHANGED user
    BY DEF ReimbursementNext, CreateReimbursement, ReviewReimbursement, ResubmitReimbursement,
           WithdrawReimbursement, PayReimbursement, ReimbursementFrame, directoryVars
  <2> QED BY <2>1, <2>2, <2>3, <2>4, <2>5
<1>5. UNCHANGED vars => UNCHANGED user
  BY DEF vars
<1> QED BY <1>2, <1>3, <1>4, <1>5 DEF Next

\* A project keeps its MSP and organization.
LEMMA ProjectsStay ==
  ASSUME TypeOK, [Next]_vars, NEW p \in Projects, ProjectExists(p)
  PROVE  /\ ProjectExists(p)'
         /\ project'[p].msp = project[p].msp /\ project'[p].org = project[p].org
<1>1. \A budget, u, org, caller : ~CreateProject(p, budget, u, org, caller)
  BY DEF CreateProject
<1> QED BY <1>1, ProjectStep DEF SameTerms, Advances, ProjectExists

LEMMA OrgsStep == ASSUME TypeOK, OrgsKnown, [Next]_vars PROVE OrgsKnown'
<1>1. ASSUME NEW o, OrgKnown(o) PROVE OrgKnown(o)'
  BY <1>1, OrganizationsStay DEF OrgKnown, OrganizationExists
<1>2. ASSUME NEW u \in Users, UserExists(u)' PROVE OrgKnown(user[u].org)'
  <2>1. OrgKnown(user'[u].org)
    BY <1>2, UserStep DEF OrgsKnown
  <2> QED BY <2>1, OrganizationsStay DEF OrgKnown, OrganizationExists
<1>3. ASSUME NEW p \in Projects, ProjectExists(p)' PROVE OrgKnown(project[p].org)'
  <2>1. ASSUME NEW budget \in Cents, NEW u \in Users, NEW org \in Orgs, NEW caller \in MSPs,
               CreateProject(p, budget, u, org, caller)
        PROVE  OrgKnown(project'[p].org)
    <3>1. project'[p].org = org /\ UserExists(u) /\ user[u].org = org
      BY <2>1 DEF CreateProject, AbsentProject, TypeOK
    <3> QED BY <3>1 DEF OrgsKnown
  <2>2. OrgKnown(project'[p].org)
    BY <1>3, <2>1, ProjectStep DEF SameTerms, Advances, ProjectExists, OrgsKnown
  <2> QED BY <2>2, OrganizationsStay DEF OrgKnown, OrganizationExists
<1> QED BY <1>2, <1>3 DEF OrgsKnown

LEMMA OrgsCorrect == RestSpec => []OrgsKnown
<1>1. Init => OrgsKnown
  <2> SUFFICES ASSUME Init PROVE OrgsKnown
    OBVIOUS
  <2>1. \A p \in Projects : ~ProjectExists(p)
    BY DEF Init, ProjectExists, AbsentProject
  <2>2. user = ProvisionedUsers /\ organization = ProvisionedOrgs
    BY DEF Init
  <2> QED BY <2>1, <2>2, RegisteredAssumption DEF OrgsKnown, OrgKnown, UserExists, OrganizationExists
<1> QED BY <1>1, OrgsStep, HandlersUseTheChaincode, TypeCorrect, PTL DEF Spec

\* A record that names no project but one on the ledger.
Placed(inv) ==
  inv.project = None \/ (inv.project \in Projects /\ ProjectExists(inv.project))

\* What a user sees of a record, he sees after any transaction.
LEMMA SightStays ==
  ASSUME TypeOK, OrgsKnown, [Next]_vars, NEW who, NEW inv, Placed(inv)
  PROVE  /\ Placed(inv)'
         /\ InvoiceVisibleTo(who, inv, project, organization)
              <=> InvoiceVisibleTo(who, inv, project', organization')
<1>1. ASSUME NEW p \in Projects, ProjectExists(p)
      PROVE  ProjectVisibleTo(who, project[p], organization)
               <=> ProjectVisibleTo(who, project'[p], organization')
  <2>1. project'[p].msp = project[p].msp /\ project'[p].org = project[p].org
    BY <1>1, ProjectsStay
  <2>2. organization'[project[p].org] = organization[project[p].org]
    BY <1>1, OrganizationsStay DEF OrgsKnown, OrgKnown
  <2> QED BY <2>1, <2>2 DEF ProjectVisibleTo
<1>2. Placed(inv)'
  BY ProjectsStay DEF Placed
<1> QED BY <1>1, <1>2 DEF Placed, ProjectExists, InvoiceVisibleTo

\* A pending request is answered or stays as it is.
LEMMA OfferStays ==
  ASSUME TypeOK, [Next]_vars, NEW j \in Invoices, transfer[j].status = "PENDING"
  PROVE  transfer'[j] = transfer[j] \/ transfer'[j].status # "PENDING"
<1>0. transfer \in [Invoices -> InvoiceTransfer]
  BY DEF TypeOK
<1>1. CASE UNCHANGED transfer
  BY <1>1
<1>2. CASE TransferNext
  <2>1. ASSUME NEW i \in Invoices, NEW status \in {"ACCEPTED", "REJECTED", "CANCELLED"},
               transfer' = [transfer EXCEPT ![i].status = status]
        PROVE  transfer'[j] = transfer[j] \/ transfer'[j].status # "PENDING"
    <3>1. i # j => transfer'[j] = transfer[j]
      BY <1>0, <2>1
    <3>2. i = j => transfer'[j].status = status
      BY <1>0, <2>1 DEF InvoiceTransfer
    <3> QED BY <3>1, <3>2
  <2>2. ASSUME NEW i \in Invoices, NEW u \in Users, NEW to \in Users, NEW toMsp \in MSPs,
               NEW caller \in MSPs,
               TransferInvoice(i, to, toMsp, u, caller) \/ RequestInvoiceTransfer(i, to, toMsp, u, caller)
        PROVE  transfer'[j] = transfer[j]
    BY <1>0, <2>2 DEF TransferInvoice, RequestInvoiceTransfer
  <2>3. ASSUME NEW i \in Invoices, NEW u \in Users,
               \/ \E decision \in {"ACCEPT", "REJECT"}, caller \in MSPs :
                     RespondInvoiceTransfer(i, decision, u, caller)
               \/ CancelInvoiceTransfer(i, u)
        PROVE  \E status \in {"ACCEPTED", "REJECTED", "CANCELLED"} :
                  transfer' = [transfer EXCEPT ![i].status = status]
    BY <2>3 DEF RespondInvoiceTransfer, CancelInvoiceTransfer
  <2> QED BY <1>2, <2>1, <2>2, <2>3 DEF TransferNext
<1>3. DirectoryNext \/ ProjectNext \/ InvoiceNext \/ VoidNext \/ ReimbursementNext
        => UNCHANGED transfer
  <2>1. DirectoryNext => UNCHANGED transfer
    BY DEF DirectoryNext, RegisterBusinessUser, CreateBusinessOrganization
  <2>2. ProjectNext => UNCHANGED transfer
    BY ProjectFrames DEF ProjectFrame
  <2>3. InvoiceNext => UNCHANGED transfer
    BY DEF InvoiceNext, CreateInvoice, LinkInvoiceToProject, UnlinkInvoiceFromProject
  <2>4. VoidNext => UNCHANGED transfer
    BY DEF VoidNext, VoidInvoice, RequestInvoiceVoid, ReviewInvoiceVoid
  <2>5. ReimbursementNext => UNCHANGED transfer
    BY DEF ReimbursementNext, CreateReimbursement, ReviewReimbursement, ResubmitReimbursement,
           WithdrawReimbursement, PayReimbursement, ReimbursementFrame
  <2> QED BY <2>1, <2>2, <2>3, <2>4, <2>5
<1> QED BY <1>1, <1>2, <1>3 DEF Next, vars

----------------------------------------------------------------------------
(* A list under way.  What it has fetched so far tells apart exactly the   *)
(* invoices its user could see at the block of its first query; whom an    *)
(* invoice was seen by through an offer alone still has the offer, or it   *)
(* was answered meanwhile.                                                 *)

Listed(i) == listing.invoices[i].status # "ABSENT"

FirstSeen(i) ==
  /\ Listed(i)
  /\ InvoiceVisibleTo(account[listing.by], listing.invoices[i], project, organization)

Offered(i) == PendingTransferVisibleTo(account[listing.by], transfer[i])

\* The fields of a list by how far it has come.
ListShape ==
  /\ listing = [by |-> listing.by, at |-> listing.at, invoices |-> listing.invoices,
                projects |-> listing.projects, organizations |-> listing.organizations,
                shown |-> listing.shown, left |-> listing.left]
  /\ listing.by = None => listing.at = "none"
  /\ listing.by # None => listing.at \in {"projects", "organizations", "transfers"}
  /\ listing.at # "transfers" => listing.left = {}

Watched ==
  listing.by # None =>
      /\ listing.by \in Users /\ account[listing.by] # NoPrincipal
      /\ Sight \subseteq watch.ever

\* Until the organizations are read.
Fetching ==
  listing.at \in {"projects", "organizations"} =>
      /\ \A i \in Invoices : Listed(i) => Placed(listing.invoices[i])
      /\ \A i \in Invoices : FirstSeen(i) => i \in watch.ever
      /\ \A i \in watch.always :
            i \in Invoices /\ Listed(i) /\ (FirstSeen(i) \/ Offered(i) \/ i \in watch.answered)

\* The projects as they were read say what those of the ledger say.
ProjectsRead ==
  listing.at = "organizations" =>
      /\ \A p \in Projects :
            listing.projects[p].status # "ABSENT" =>
                /\ ProjectExists(p) /\ listing.projects[p].org = project[p].org
                /\ listing.projects[p].msp = project[p].msp
      /\ \A i \in Invoices :
            Listed(i) /\ listing.invoices[i].project # None =>
                listing.projects[listing.invoices[i].project].status # "ABSENT"

Offering ==
  listing.at = "transfers" =>
      /\ listing.shown \subseteq watch.ever
      /\ \A i \in watch.always :
            \/ i \in listing.shown \cup watch.answered
            \/ i \in listing.left /\ i \in Invoices /\ Offered(i)

ListInv == ListShape /\ Watched /\ Fetching /\ ProjectsRead /\ Offering

GroundInv == LedgerInv /\ AccountInv /\ OrgsKnown

LEMMA InvoicesPlaced ==
  ASSUME LedgerInv, NEW i \in Invoices, InvoiceExists(i) PROVE Placed(invoice[i])
<1>1. invoice[i].project \in Projects \cup {None}
  BY LedgerFacts DEF Invoice
<1>2. invoice[i].project # None => ProjectExists(invoice[i].project)
  BY DEF LedgerInv, LinkedInvoicesMatchProject, Released, ProjectExists
<1> QED BY <1>1, <1>2 DEF Placed

LEMMA ListInit == RestInit => ListInv
<1> SUFFICES ASSUME RestInit PROVE ListInv
  OBVIOUS
<1>1. listing = NoList
  BY DEF RestInit
<1>2. listing.by = None /\ listing.at = "none" /\ ListShape
  BY <1>1 DEF NoList, ListShape
<1> QED BY <1>2 DEF ListInv, Watched, Fetching, ProjectsRead, Offering

\* The ledger moves on under a list.
LEMMA ListOverSteps ==
  ASSUME GroundInv, ListInv, [Next]_vars, Watching,
         \A u \in Users : account[u] # NoPrincipal => account'[u] = account[u]
  PROVE  ListInv'
<1>0. TypeOK /\ OrgsKnown
  BY LedgerFacts DEF GroundInv
<1>1. listing' = listing /\ ListShape'
  BY DEF Watching, ListInv, ListShape
<1>2. CASE listing.by = None
  <2>1. listing'.by = None /\ listing'.at = "none"
    BY <1>1, <1>2 DEF ListInv, ListShape
  <2> QED BY <1>1, <2>1 DEF ListInv, Watched, Fetching, ProjectsRead, Offering
<1>3. CASE listing.by # None
  <2> DEFINE who == account[listing.by]
             answers == {i \in Invoices : /\ transfer[i].status = "PENDING"
                                          /\ transfer'[i].status # "PENDING"}
  <2>1. listing.by \in Users /\ account'[listing.by] = who /\ who # NoPrincipal
    BY <1>3 DEF ListInv, Watched
  <2>2. /\ watch'.always = watch.always \cap Sight'
        /\ watch'.ever = watch.ever \cup Sight'
        /\ watch'.answered = watch.answered \cup answers
    BY <1>3 DEF Watching
  <2>3. Watched'
    BY <1>1, <2>1, <2>2 DEF Watched
  <2>4. ASSUME NEW i \in Invoices, Offered(i), i \notin answers PROVE Offered(i)'
    <3>1. transfer'[i] = transfer[i]
      BY <1>0, <2>4, OfferStays DEF Offered, PendingTransferVisibleTo
    <3> QED BY <1>1, <2>1, <2>4, <3>1 DEF Offered
  <2>5. Fetching'
    <3> SUFFICES ASSUME listing.at \in {"projects", "organizations"} PROVE Fetching'
      BY <1>1 DEF Fetching
    <3>1. ASSUME NEW i \in Invoices, Listed(i)
          PROVE  Placed(listing.invoices[i])' /\ (FirstSeen(i)' <=> FirstSeen(i))
      <4>1. Placed(listing.invoices[i])
        BY <3>1 DEF ListInv, Fetching
      <4>2. /\ Placed(listing.invoices[i])'
            /\ InvoiceVisibleTo(who, listing.invoices[i], project, organization)
                 <=> InvoiceVisibleTo(who, listing.invoices[i], project', organization')
        BY <1>0, <1>1, <4>1, SightStays DEF Placed
      <4> QED BY <1>1, <2>1, <4>2 DEF FirstSeen, Listed
    <3>2. \A i : Listed(i)' <=> Listed(i)
      BY <1>1 DEF Listed
    <3>3. \A i \in Invoices : FirstSeen(i)' => i \in watch'.ever
      BY <2>2, <3>1, <3>2 DEF ListInv, Fetching, FirstSeen
    <3>4. ASSUME NEW i \in watch'.always
          PROVE  /\ i \in Invoices /\ Listed(i)'
                 /\ FirstSeen(i)' \/ Offered(i)' \/ i \in watch'.answered
      <4>1. i \in Invoices /\ Listed(i) /\ (FirstSeen(i) \/ Offered(i) \/ i \in watch.answered)
        BY <2>2, <3>4 DEF ListInv, Fetching
      <4> QED BY <2>2, <2>4, <3>1, <3>2, <4>1
    <3> QED BY <3>1, <3>2, <3>3, <3>4 DEF Fetching
  <2>6. ProjectsRead'
    BY <1>0, <1>1, ProjectsStay DEF ListInv, ProjectsRead, Listed
  <2>7. Offering'
    <3> SUFFICES ASSUME listing.at = "transfers"
                 PROVE  /\ listing.shown \subseteq watch'.ever
                        /\ \A i \in watch'.always :
                              \/ i \in listing.shown \cup watch'.answered
                              \/ i \in listing.left /\ i \in Invoices /\ Offered(i)'
      BY <1>1 DEF Offering
    <3> QED BY <2>2, <2>4 DEF ListInv, Offering
  <2> QED BY <1>1, <2>3, <2>5, <2>6, <2>7 DEF ListInv
<1> QED BY <1>2, <1>3

LEMMA ListStarts ==
  ASSUME GroundInv, NEW u \in Users, getInvoices(u), StartWatching, UNCHANGED <<vars, account>>
  PROVE  ListInv'
<1>0. UNCHANGED <<project, organization, invoice, transfer, account>>
  BY DEF vars
<1>1. /\ listing' = [by |-> u, at |-> "projects", invoices |-> invoice, projects |-> <<>>,
                     organizations |-> <<>>, shown |-> {}, left |-> {}]
      /\ account[u] # NoPrincipal /\ u # None
  BY NoneAssumption DEF getInvoices, NoList
<1>2. watch'.always = Sight' /\ watch'.ever = Sight'
  BY DEF StartWatching
<1>3. /\ ListShape' /\ Watched' /\ listing'.by = u /\ listing'.at = "projects"
      /\ listing'.invoices = invoice
  BY <1>0, <1>1, <1>2 DEF ListShape, Watched
<1>4. \A i : i \in Sight' <=> i \in Invoices /\ SeesInvoice(u, i)
  BY <1>0, <1>1 DEF Sight, SeesInvoice, InvoiceExists
<1>5. ASSUME NEW i \in Invoices
      PROVE  /\ Listed(i)' <=> InvoiceExists(i)
             /\ SeesInvoice(u, i) <=> Listed(i)' /\ (FirstSeen(i)' \/ Offered(i)')
             /\ InvoiceExists(i) => Placed(listing.invoices[i])'
  <2>1. Listed(i)' <=> InvoiceExists(i)
    BY <1>3 DEF Listed, InvoiceExists
  <2>2. FirstSeen(i)' <=> InvoiceExists(i) /\ InvoiceVisibleTo(account[u], invoice[i], project, organization)
    BY <1>0, <1>3, <2>1 DEF FirstSeen
  <2>3. Offered(i)' <=> PendingTransferVisibleTo(account[u], transfer[i])
    BY <1>0, <1>3 DEF Offered
  <2>4. InvoiceExists(i) => Placed(listing.invoices[i])'
    BY <1>0, <1>3, InvoicesPlaced DEF GroundInv, Placed, ProjectExists
  <2> QED BY <2>1, <2>2, <2>3, <2>4 DEF SeesInvoice
<1>6. Fetching'
  BY <1>2, <1>4, <1>5 DEF Fetching, FirstSeen
<1> QED BY <1>3, <1>6 DEF ListInv, ProjectsRead, Offering


LEMMA ListReadsProjects ==
  ASSUME ListInv, readAllProjects, UNCHANGED watch, UNCHANGED <<vars, account>>
  PROVE  ListInv'
<1>0. UNCHANGED <<project, organization, invoice, transfer, account, watch>>
  BY DEF vars
<1>1. /\ listing.at = "projects"
      /\ listing' = [by |-> listing.by, at |-> "organizations", invoices |-> listing.invoices,
                     projects |-> project, organizations |-> listing.organizations,
                     shown |-> listing.shown, left |-> listing.left]
  BY DEF readAllProjects, ListInv, ListShape
<1>2. /\ listing'.by = listing.by /\ listing'.invoices = listing.invoices
      /\ listing'.at = "organizations" /\ listing'.projects = project
      /\ ListShape'
  BY <1>1 DEF ListInv, ListShape
<1>3. \A i : (Listed(i)' <=> Listed(i)) /\ (FirstSeen(i)' <=> FirstSeen(i)) /\ (Offered(i)' <=> Offered(i))
  BY <1>0, <1>2 DEF Listed, FirstSeen, Offered
<1>4. Sight' = Sight
  BY <1>0, <1>2 DEF Sight, SeesInvoice, InvoiceExists
<1>5. Watched'
  BY <1>0, <1>2, <1>4 DEF ListInv, Watched
<1>6. Fetching'
  BY <1>0, <1>1, <1>2, <1>3 DEF ListInv, Fetching, Placed, ProjectExists
<1>7. ProjectsRead'
  BY <1>0, <1>1, <1>2, <1>3 DEF ListInv, Fetching, Placed, ProjectsRead, ProjectExists
<1> QED BY <1>2, <1>5, <1>6, <1>7 DEF ListInv, Offering

\* The projects that were read tell who sees what as those of the ledger do.
LEMMA HiddenIs ==
  ASSUME ListInv, listing.at = "organizations", NEW i \in Invoices
  PROVE  i \in Hidden(listing.invoices) <=> Listed(i) /\ ~FirstSeen(i)
<1> DEFINE inv == listing.invoices[i]
           who == account[listing.by]
<1>1. ASSUME Listed(i)
      PROVE  InvoiceVisibleTo(who, inv, listing.projects, organization)
               <=> InvoiceVisibleTo(who, inv, project, organization)
  <2>1. Placed(inv)
    BY <1>1 DEF ListInv, Fetching
  <2>2. CASE inv.project = None
    BY <2>2 DEF InvoiceVisibleTo
  <2>3. CASE inv.project \in Projects /\ inv.project # None
    <3>1. /\ listing.projects[inv.project].status # "ABSENT"
          /\ project[inv.project].status # "ABSENT"
          /\ listing.projects[inv.project].org = project[inv.project].org
          /\ listing.projects[inv.project].msp = project[inv.project].msp
      BY <1>1, <2>3 DEF ListInv, ProjectsRead, ProjectExists
    <3>2. ProjectVisibleTo(who, listing.projects[inv.project], organization)
            <=> ProjectVisibleTo(who, project[inv.project], organization)
      BY <3>1 DEF ProjectVisibleTo
    <3> QED BY <3>1, <3>2 DEF InvoiceVisibleTo
  <2> QED BY <2>1, <2>2, <2>3 DEF Placed
<1> QED BY <1>1 DEF Hidden, FirstSeen, Listed

LEMMA ListReadsOrganizations ==
  ASSUME ListInv, readAllOrganizations, UNCHANGED watch, UNCHANGED <<vars, account>>
  PROVE  ListInv'
<1>0. UNCHANGED <<project, organization, invoice, transfer, account, watch>>
  BY DEF vars
<1> DEFINE shown == {i \in Invoices : Listed(i)} \ Hidden(listing.invoices)
<1>1. /\ listing.at = "organizations"
      /\ listing' = [by |-> listing.by, at |-> "transfers", invoices |-> <<>>,
                     projects |-> <<>>, organizations |-> <<>>, shown |-> shown,
                     left |-> Hidden(listing.invoices)]
  BY DEF readAllOrganizations, NoList, Listed
<1>2. /\ listing'.by = listing.by /\ listing'.at = "transfers" /\ listing'.shown = shown
      /\ listing'.left = Hidden(listing.invoices)
      /\ listing.by # None
  BY <1>1 DEF ListInv, ListShape
<1>3. ListShape'
  BY <1>1, <1>2 DEF ListShape
<1>4. \A i : Offered(i)' <=> Offered(i)
  BY <1>0, <1>2 DEF Offered
<1>5. Sight' = Sight
  BY <1>0, <1>2 DEF Sight, SeesInvoice, InvoiceExists
<1>6. Watched'
  BY <1>0, <1>2, <1>5 DEF ListInv, Watched
<1>7. \A i \in Invoices : i \in shown <=> FirstSeen(i)
  BY <1>1, HiddenIs DEF FirstSeen
<1>8. Offering'
  <2>1. shown \subseteq watch.ever
    BY <1>1, <1>7 DEF ListInv, Fetching
  <2>2. ASSUME NEW i \in watch.always
        PROVE  \/ i \in shown \cup watch.answered
               \/ i \in Hidden(listing.invoices) /\ i \in Invoices /\ Offered(i)
    BY <1>1, <1>7, <2>2, HiddenIs DEF ListInv, Fetching
  <2> HIDE DEF shown
  <2> QED BY <1>0, <1>2, <1>4, <2>1, <2>2 DEF Offering
<1> QED BY <1>2, <1>3, <1>6, <1>8 DEF ListInv, Fetching, ProjectsRead

LEMMA ListReadsTransfer ==
  ASSUME GroundInv, ListInv, NEW j \in Invoices, readPendingTransferForPrincipal(j),
         UNCHANGED watch, UNCHANGED <<vars, account>>
  PROVE  ListInv'
<1>0. UNCHANGED <<project, organization, invoice, transfer, account, watch>>
  BY DEF vars
<1> DEFINE shown == IF Offered(j) THEN listing.shown \cup {j} ELSE listing.shown
<1>1. /\ j \in listing.left
      /\ listing' = [by |-> listing.by, at |-> listing.at, invoices |-> listing.invoices,
                     projects |-> listing.projects, organizations |-> listing.organizations,
                     shown |-> shown, left |-> listing.left \ {j}]
  BY DEF readPendingTransferForPrincipal, Offered, ListInv, ListShape
<1>2. /\ listing'.by = listing.by /\ listing'.at = "transfers" /\ listing.at = "transfers"
      /\ listing'.shown = shown /\ listing'.left = listing.left \ {j} /\ listing.by # None
  BY <1>1 DEF ListInv, ListShape
<1>3. ListShape'
  BY <1>1, <1>2 DEF ListShape
<1>4. \A i : Offered(i)' <=> Offered(i)
  BY <1>0, <1>2 DEF Offered
<1>5. Sight' = Sight
  BY <1>0, <1>2 DEF Sight, SeesInvoice, InvoiceExists
<1>6. Watched'
  BY <1>0, <1>2, <1>5 DEF ListInv, Watched
<1>7. Offered(j) => j \in watch.ever
  <2>1. Offered(j) => InvoiceExists(j)
    BY DEF Offered, PendingTransferVisibleTo, GroundInv, LedgerInv, CustodyInv
  <2>2. Offered(j) => j \in Sight
    BY <1>2, <2>1 DEF Offered, Sight, SeesInvoice
  <2> QED BY <1>2, <2>2 DEF ListInv, Watched
<1>8. Offering'
  <2>1. shown \subseteq watch.ever
    BY <1>2, <1>7 DEF ListInv, Offering
  <2>2. ASSUME NEW i \in watch.always
        PROVE  \/ i \in shown \cup watch.answered
               \/ i \in listing.left \ {j} /\ i \in Invoices /\ Offered(i)
    BY <1>2, <2>2 DEF ListInv, Offering
  <2> HIDE DEF shown
  <2> QED BY <1>0, <1>2, <1>4, <2>1, <2>2 DEF Offering
<1> QED BY <1>2, <1>3, <1>6, <1>8 DEF ListInv, Fetching, ProjectsRead

LEMMA ListUnmoved ==
  ASSUME ListInv, UNCHANGED restVars PROVE ListInv'
<1>1. UNCHANGED <<project, organization, invoice, transfer, account, listing, watch>>
  BY DEF restVars, vars
<1>2. Sight' = Sight
  BY <1>1 DEF Sight, SeesInvoice, InvoiceExists
<1>3. /\ \A i : Listed(i)' <=> Listed(i)
      /\ \A i : FirstSeen(i)' <=> FirstSeen(i)
      /\ \A i : Offered(i)' <=> Offered(i)
      /\ \A inv : Placed(inv)' <=> Placed(inv)
      /\ \A p : ProjectExists(p)' <=> ProjectExists(p)
  BY <1>1 DEF Listed, FirstSeen, Offered, Placed, ProjectExists
<1>4. ListShape' /\ Watched'
  BY <1>1, <1>2 DEF ListInv, ListShape, Watched
<1>5. Fetching'
  BY <1>1, <1>3 DEF ListInv, Fetching
<1>6. ProjectsRead' /\ Offering'
  BY <1>1, <1>3 DEF ListInv, ProjectsRead, Offering
<1> QED BY <1>4, <1>5, <1>6 DEF ListInv

LEMMA ListsStep == ASSUME GroundInv, ListInv, [RestNext]_restVars PROVE ListInv'
<1>0. TypeOK /\ AccountInv /\ \A u \in Users : account[u] # NoPrincipal => account'[u] = account[u]
  BY LedgerFacts, AccountStep DEF GroundInv
<1>1. CASE UNCHANGED restVars
  BY <1>1, ListUnmoved
<1>2. CASE ListStep
  BY <1>2, ListStarts, ListReadsProjects, ListReadsOrganizations, ListReadsTransfer DEF ListStep
<1>3. CASE RestNext /\ Watching
  <2>1. [Next]_vars
    BY <1>0, <1>3, HandlersCall
  <2> QED BY <1>0, <1>3, <2>1, ListOverSteps
<1> QED BY <1>1, <1>2, <1>3 DEF RestNext

\* A list made of queries that each see another block shows nothing that its
\* user never saw meanwhile and misses nothing he saw throughout, unless an
\* offer was answered meanwhile.
THEOREM ListsAreTrueToTheirTime == RestSpec => []ListsAreOfTheirTime
<1>1. GroundInv /\ ListInv /\ [RestNext]_restVars => ListInv'
  BY ListsStep
<1>2. LedgerInv /\ AccountInv /\ OrgsKnown => GroundInv
  BY DEF GroundInv
<1>3. ListInv => ListsAreOfTheirTime
  BY DEF ListInv, Offering, ListsAreOfTheirTime, Answered
<1> QED BY <1>1, <1>2, <1>3, ListInit, LedgerCorrect, AccountsCorrect, OrgsCorrect, PTL DEF RestSpec
====
