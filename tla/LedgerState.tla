---------------------------- MODULE LedgerState ----------------------------
(***************************************************************************)
(* The world state of the chaincode src/project/invoice-ledger/chaincode:  *)
(* one function per key family, from business ids to the JSON record under *)
(* the key.  A key that was never put is a record whose status is ABSENT,  *)
(* or None for the two families that hold a bare id.                       *)
(*                                                                         *)
(* The module also holds what every operation shares: the identity checks  *)
(* (requireActiveBusinessUser and its kin) and the reads that decide       *)
(* whether an invoice may be touched.                                      *)
(***************************************************************************)
EXTENDS Integers, FiniteSets

CONSTANTS
    Users,          \* usernames, among them names of DemoAccounts
    Orgs,           \* business organization ids
    Projects,       \* project ids
    Invoices,       \* invoice ids
    Numbers,        \* invoice numbers (invoiceNo)
    Reimbursements, \* reimbursement ids
    Currencies,     \* the currencies a request may name, None for none
    Cents,          \* the amounts a request may carry
    MaxMoneyCents,  \* maxMoneyCents
    None,           \* the empty string
    ProvisionedUsers,   \* the user directory the ledger starts with
    ProvisionedOrgs     \* and its organizations

VARIABLES
    organization,          \* ORGANIZATION#id
    user,                  \* USER#username
    project,               \* PROJECT#id
    member,                \* PROJECT_MEMBER#project#username
    invoice,               \* INVOICE#id
    numberIndex,           \* INVOICE_NUMBER#no
    voidRequest,           \* VOID_REQUEST#invoice
    transfer,              \* TRANSFER_REQUEST#invoice
    reimbursement,         \* REIMBURSEMENT#id
    reimbursementInvoice,  \* REIMBURSEMENT_INVOICE#invoice
    evidence               \* the FLOW# or PROJECT_EVENT# record put last

directoryVars == <<organization, user>>
projectVars == <<project, member>>
invoiceVars == <<invoice, numberIndex>>
claimVars == <<reimbursement, reimbursementInvoice>>
vars == <<organization, user, project, member, invoice, numberIndex,
          voidRequest, transfer, reimbursement, reimbursementInvoice, evidence>>

----------------------------------------------------------------------------
(* The record types.  MSP ids are those validateBusinessMSPID accepts.     *)

MSPs == {"Org1MSP", "Org2MSP"}

Roles == {"ISSUER", "HOLDER", "AUDITOR", "PROJECT_MEMBER",
          "PROJECT_REVIEWER", "FINANCE_ADMIN", "ORG_ADMIN"}

BusinessUser ==
    [status : {"ABSENT", "ACTIVE", "INACTIVE"}, msp : MSPs \cup {None},
     role : Roles \cup {None}, org : Orgs \cup {None}]

BusinessOrganization ==
    [status : {"ABSENT", "ACTIVE", "INACTIVE"}, msp : MSPs \cup {None},
     type : {"PRIMARY", "PROJECT_TEAM", "EXTERNAL", None},
     parent : Orgs \cup {None}]

\* CLOSURE_APPROVED is the status an earlier version gave to a project in
\* settlement: the code still accepts it and no operation writes it.
ProjectStatus == {"ABSENT", "DRAFT", "PENDING_REVIEW", "REVISION_REQUIRED",
                  "EXECUTING", "CLOSURE_REVIEW", "FINANCIAL_SETTLEMENT",
                  "CLOSURE_APPROVED", "ARCHIVED"}

Project ==
    [status : ProjectStatus, applicant : Users \cup {None},
     msp : MSPs \cup {None}, org : Orgs \cup {None},
     reviewer : Users \cup {None},
     budget : Nat, available : Nat, reserved : Nat, paid : Nat,
     recovered : Nat]

Invoice ==
    [status : {"ABSENT", "ISSUED", "IN_CIRCULATION", "VOIDED"},
     number : Numbers \cup {None}, total : Nat,
     currency : {"CNY", None},
     issuerMsp : MSPs \cup {None}, issuerOrg : Orgs \cup {None},
     holder : Users \cup {None}, holderMsp : MSPs \cup {None},
     holderOrg : Orgs \cup {None},
     project : Projects \cup {None}, correctionOf : Invoices \cup {None}]

InvoiceVoidRequest ==
    [status : {"ABSENT", "PENDING_REVIEW", "APPROVED", "REJECTED"},
     applicant : Users \cup {None}]

InvoiceTransfer ==
    [status : {"ABSENT", "PENDING", "ACCEPTED", "REJECTED", "CANCELLED"},
     from : Users \cup {None}, to : Users \cup {None},
     toMsp : MSPs \cup {None}]

Reimbursement ==
    [status : {"ABSENT", "PENDING_REVIEW", "REVISION_REQUIRED",
               "APPROVED_RESERVED", "PAID", "WITHDRAWN"},
     project : Projects \cup {None}, invoice : Invoices \cup {None},
     applicant : Users \cup {None}, reviewer : Users \cup {None},
     amount : Nat]

ASSUME NoneAssumption ==
    None \notin Users \cup Orgs \cup Projects \cup Invoices \cup Numbers
                \cup Reimbursements \cup MSPs \cup Roles

ASSUME MoneyAssumption == MaxMoneyCents \in Nat /\ Cents \subseteq Nat

\* What an administrator put on the ledger before the behaviour starts.
ASSUME DirectoryAssumption ==
    /\ ProvisionedUsers \in [Users -> BusinessUser]
    /\ ProvisionedOrgs \in [Orgs -> BusinessOrganization]

----------------------------------------------------------------------------
(* Missing keys.                                                           *)

AbsentUser == [status |-> "ABSENT", msp |-> None, role |-> None, org |-> None]

AbsentOrganization ==
    [status |-> "ABSENT", msp |-> None, type |-> None, parent |-> None]

AbsentProject ==
    [status |-> "ABSENT", applicant |-> None, msp |-> None, org |-> None,
     reviewer |-> None, budget |-> 0, available |-> 0, reserved |-> 0,
     paid |-> 0, recovered |-> 0]

AbsentInvoice ==
    [status |-> "ABSENT", number |-> None, total |-> 0, currency |-> None,
     issuerMsp |-> None, issuerOrg |-> None, holder |-> None, holderMsp |-> None,
     holderOrg |-> None, project |-> None, correctionOf |-> None]

AbsentReimbursement ==
    [status |-> "ABSENT", project |-> None, invoice |-> None,
     applicant |-> None, reviewer |-> None, amount |-> 0]

UserExists(u) == user[u].status # "ABSENT"
OrganizationExists(o) == organization[o].status # "ABSENT"
ProjectExists(p) == project[p].status # "ABSENT"
InvoiceExists(i) == invoice[i].status # "ABSENT"
ReimbursementExists(r) == reimbursement[r].status # "ABSENT"

----------------------------------------------------------------------------
(* Who may act.  `caller' is the MSP of the signing certificate; the       *)
(* username is an argument of the transaction.                             *)

\* The bootstrap accounts of demoUserRole: <<username, MSP, role>>.
DemoAccounts ==
    { <<"issuer-org1", "Org1MSP", "ISSUER">>,
      <<"holder-org2", "Org2MSP", "HOLDER">>,
      <<"auditor", "Org1MSP", "AUDITOR">>,
      <<"project-member", "Org1MSP", "PROJECT_MEMBER">>,
      <<"project-reviewer", "Org1MSP", "PROJECT_REVIEWER">>,
      <<"finance-admin", "Org2MSP", "FINANCE_ADMIN">>,
      <<"org-admin", "Org1MSP", "ORG_ADMIN">>,
      <<"org-admin-org2", "Org2MSP", "ORG_ADMIN">> }

\* Fault: a demo account stays valid beside a ledger record of its name.
RegisteredOrDemoRole(u, msp, roles) ==
    \/ user[u].status = "ACTIVE" /\ user[u].msp = msp /\ user[u].role \in roles
    \/ \E role \in roles : <<u, msp, role>> \in DemoAccounts

\* A username without a ledger record falls back on the demo accounts; a
\* ledger record, whatever it says, replaces the demo account of that name.
RequireRegisteredRole(u, msp, roles) ==
    IF UserExists(u)
    THEN user[u].status = "ACTIVE" /\ user[u].msp = msp /\ user[u].role \in roles
    ELSE \E role \in roles : <<u, msp, role>> \in DemoAccounts

RequireActiveBusinessUser(u, msp, caller, roles) ==
    caller = msp /\ RequireRegisteredRole(u, msp, roles)

\* businessUserOrganization of a user that passed a role check: "" for a
\* demo account.
BusinessUserOrganization(u) == IF UserExists(u) THEN user[u].org ELSE None

\* Organizations are compared only where both sides are known.
SameOrganization(a, b) == a = None \/ b = None \/ a = b

RequireProjectApplicant(p, u, caller) ==
    /\ u = project[p].applicant
    /\ RequireActiveBusinessUser(u, project[p].msp, caller, {"PROJECT_MEMBER", "ISSUER"})
    /\ SameOrganization(BusinessUserOrganization(u), project[p].org)

RequireProjectMember(p, u, caller) ==
    \/ RequireProjectApplicant(p, u, caller)
    \/ /\ RequireActiveBusinessUser(u, project[p].msp, caller, {"PROJECT_MEMBER", "ISSUER"})
       /\ u \in member[p]

\* The manager's own organization, or the parent of the project's team; demo
\* managers are not bound to an organization.
RequireProjectManager(p, u, caller, role) ==
    /\ RequireActiveBusinessUser(u, caller, caller, {role})
    /\ \/ project[p].org = None /\ caller = project[p].msp
       \/ project[p].org # None /\ ~UserExists(u)
       \/ /\ project[p].org # None
          /\ UserExists(u)
          /\ \/ user[u].org = project[p].org
             \/ /\ OrganizationExists(project[p].org)
                /\ organization[project[p].org].parent = user[u].org

----------------------------------------------------------------------------
(* Reads that several operations decide on.                                *)

InSettlement(p) == project[p].status \in {"FINANCIAL_SETTLEMENT", "CLOSURE_APPROVED"}

OpenForAssociation(p) == project[p].status = "EXECUTING" \/ InSettlement(p)

NotVoided(i) == InvoiceExists(i) /\ invoice[i].status # "VOIDED"

\* ensureInvoiceCanBeVoided fails as long as the link key exists, whatever
\* the status of the reimbursement it names.
EnsureInvoiceCanBeVoided(i) == reimbursementInvoice[i] = None

CheckedAddMoney(left, right) == left + right <= MaxMoneyCents

\* The audit records: createFlow and createProjectEventWithReference put them
\* under a key of their own, invoice or project id and transaction id.
Flow(i, type, from, to) ==
    [log |-> "FLOW", of |-> i, type |-> type, from |-> from, to |-> to]

\* `reference' is the ReferenceID of the event, or the note where that is an
\* id; other notes are left out.  Fault: the reimbursement is not named.
ProjectEventWithoutReference(p, type, actor, reference) ==
    [log |-> "PROJECT_EVENT", of |-> p, type |-> type, from |-> actor, to |-> None]

ProjectEvent(p, type, actor, reference) ==
    [log |-> "PROJECT_EVENT", of |-> p, type |-> type, from |-> actor, to |-> reference]

\* The directory operations put no audit record.
NoEvidence == [log |-> "NONE", of |-> None, type |-> None, from |-> None, to |-> None]
============================================================================
