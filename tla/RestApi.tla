------------------------------ MODULE RestApi ------------------------------
(***************************************************************************)
(* The HTTP handlers of backend/api over the chaincode.  A handler names   *)
(* the user of its session to the chaincode and calls it through that      *)
(* user's MSP; what a user may read is decided here, from lists fetched    *)
(* one query after the other while the ledger moves on.                    *)
(*                                                                         *)
(* A session holds the principal of its account, which never changes;      *)
(* logins and log-outs only decide whether a user may ask at all, which is *)
(* left to the users.  A direct transfer has no route.                     *)
(***************************************************************************)
EXTENDS InvoiceContract

VARIABLES
    account,  \* Service.accounts, the principal of each login name
    served,   \* history: the request the last step answered
    listing,  \* a GET /api/invoices under way
    watch     \* history: what its user could see meanwhile

restVars == <<vars, account, served, listing, watch>>

\* RegisterBusinessUser puts no user whose organization is not on the ledger.
ASSUME RegisteredAssumption ==
    \A u \in Users :
        ProvisionedUsers[u].status # "ABSENT" =>
            /\ ProvisionedUsers[u].org \in Orgs
            /\ ProvisionedOrgs[ProvisionedUsers[u].org].status # "ABSENT"

NoPrincipal == [username |-> None, msp |-> None, role |-> None, org |-> None]

\* A demo account belongs to no business organization.
DemoPrincipal(u) ==
    LET demo == CHOOSE d \in DemoAccounts : d[1] = u
    IN  [username |-> u, msp |-> demo[2], role |-> demo[3], org |-> None]

DemoNames == {d[1] : d \in DemoAccounts}

NoRequest == [by |-> None, projects |-> {}, invoices |-> {}]

NoList == [by |-> None, at |-> "none", invoices |-> <<>>, projects |-> <<>>,
           organizations |-> <<>>, shown |-> {}, left |-> {}]

RestInit ==
    /\ Init
    /\ account = [u \in Users |-> IF u \in DemoNames THEN DemoPrincipal(u) ELSE NoPrincipal]
    /\ served = NoRequest
    /\ listing = NoList
    /\ watch = [always |-> {}, ever |-> {}, answered |-> {}]

----------------------------------------------------------------------------
(* Who may read what.                                                      *)

\* Fault: the payer, an account of the other MSP, is left out.
HasOrg1DirectoryAccess(who) ==
    /\ who.org = None
    /\ who.username \in {"project-reviewer", "auditor", "org-admin"}
    /\ <<who.username, who.msp, who.role>> \in DemoAccounts

\* The demo accounts that administer every organization.
HasBootstrapDirectoryAccess(who) ==
    /\ who.org = None
    /\ who.username \in {"project-reviewer", "finance-admin", "auditor",
                         "org-admin", "org-admin-org2"}
    /\ <<who.username, who.msp, who.role>> \in DemoAccounts

HasBuiltInOrg1WorkAccess(who) ==
    /\ who.org = None
    /\ who.username \in {"issuer-org1", "project-member"}
    /\ <<who.username, who.msp, who.role>> \in DemoAccounts

IsBuiltInOrg2Holder(who) ==
    who.org = None /\ <<who.username, who.msp, who.role>> = <<"holder-org2", "Org2MSP", "HOLDER">>

ProjectVisibleTo(who, pr, organizations) ==
    IF HasBootstrapDirectoryAccess(who) THEN TRUE
    ELSE IF HasBuiltInOrg1WorkAccess(who) \/ pr.org = None THEN pr.msp = who.msp
    ELSE \/ pr.org = who.org
         \/ /\ organizations[pr.org].status # "ABSENT"
            /\ who.org # None
            /\ organizations[pr.org].parent = who.org

InvoiceVisibleTo(who, inv, projects, organizations) ==
    IF HasBootstrapDirectoryAccess(who) THEN TRUE
    ELSE IF HasBuiltInOrg1WorkAccess(who) THEN who.msp \in {inv.issuerMsp, inv.holderMsp}
    ELSE IF IsBuiltInOrg2Holder(who) THEN inv.holderMsp = who.msp
    ELSE \/ /\ inv.project # None
            /\ projects[inv.project].status # "ABSENT"
            /\ ProjectVisibleTo(who, projects[inv.project], organizations)
         \/ who.org # None /\ who.org \in {inv.issuerOrg, inv.holderOrg}
         \/ inv.issuerOrg = None /\ who.msp \in {inv.issuerMsp, inv.holderMsp}

PendingTransferVisibleTo(who, request) ==
    /\ request.status = "PENDING"
    /\ who.role \in {"ISSUER", "HOLDER", "PROJECT_MEMBER"}
    /\ request.to = who.username
    /\ request.toMsp = who.msp

SeesProject(u, p) ==
    ProjectExists(p) /\ ProjectVisibleTo(account[u], project[p], organization)

\* What readInvoice answers when no block comes between its queries.
SeesInvoice(u, i) ==
    /\ InvoiceExists(i)
    /\ \/ InvoiceVisibleTo(account[u], invoice[i], project, organization)
       \/ PendingTransferVisibleTo(account[u], transfer[i])

----------------------------------------------------------------------------
(* The handlers.  Each passes RequireRole with the roles of its route, and *)
(* leaves the rest to the chaincode.                                       *)

Serve(u, roles, projects, invoices) ==
    /\ account[u].role \in roles
    /\ served' = [by |-> u, projects |-> projects \ {None}, invoices |-> invoices]
    /\ UNCHANGED account

Msp(u) == account[u].msp
Staff == {"ISSUER", "PROJECT_MEMBER"}
Custodians == {"ISSUER", "HOLDER", "PROJECT_MEMBER"}

\* The user is on the ledger before the account is stored, and stays there
\* when that fails.
registerUser(u, o) ==
    /\ account[u] = NoPrincipal
    /\ organization[o].status = "ACTIVE"
    /\ RegisterBusinessUser(u, organization[o].msp, o, organization[o].msp)
    /\ \/ account' = [account EXCEPT ![u] =
                        [username |-> u, msp |-> organization[o].msp,
                         role |-> "PROJECT_MEMBER", org |-> o]]
       \/ UNCHANGED account
    /\ served' = NoRequest

createBusinessOrganization(u, o, type, parent) ==
    /\ Serve(u, {"ORG_ADMIN"}, {}, {})
    /\ CreateBusinessOrganization(o, type, parent, u, Msp(u))

\* createInvoice names no original, correctInvoice does.
createInvoice(u, i, no, total, currency, p, original) ==
    /\ Serve(u, Staff, {p}, {i} \cup ({original} \ {None}))
    /\ CreateInvoice(i, no, total, IF currency = None THEN "CNY" ELSE currency,
                     u, account[u].org, p, original, Msp(u))

linkInvoiceProject(u, i, p) ==
    Serve(u, Staff, {p}, {i}) /\ LinkInvoiceToProject(i, p, u, Msp(u))

unlinkInvoiceProject(u, i) ==
    Serve(u, Staff, {invoice[i].project}, {i}) /\ UnlinkInvoiceFromProject(i, u, Msp(u))

\* The handler reads the invoice first; a block in between can only make the
\* chaincode refuse.
requestInvoiceTransfer(u, i, to, toMsp) ==
    /\ Serve(u, Custodians, {}, {i})
    /\ SeesInvoice(u, i)
    /\ invoice[i].holder = u
    /\ RequestInvoiceTransfer(i, to, toMsp, u, Msp(u))

respondInvoiceTransfer(u, i, decision) ==
    Serve(u, Custodians, {}, {i}) /\ RespondInvoiceTransfer(i, decision, u, Msp(u))

cancelInvoiceTransfer(u, i) == Serve(u, Custodians, {}, {i}) /\ CancelInvoiceTransfer(i, u)

voidInvoice(u, i) == Serve(u, {"ISSUER"}, {}, {i}) /\ VoidInvoice(i, u, Msp(u))

requestInvoiceVoid(u, i) ==
    Serve(u, {"PROJECT_MEMBER"}, {}, {i}) /\ RequestInvoiceVoid(i, u, Msp(u))

reviewInvoiceVoid(u, i, decision) ==
    Serve(u, {"ISSUER"}, {}, {i}) /\ ReviewInvoiceVoid(i, decision, u, Msp(u))

createProject(u, p, budget) ==
    Serve(u, Staff, {p}, {}) /\ CreateProject(p, budget, u, account[u].org, Msp(u))

updateProject(u, p, budget) == Serve(u, Staff, {p}, {}) /\ UpdateProject(p, budget, u, Msp(u))

submitProject(u, p) == Serve(u, Staff, {p}, {}) /\ SubmitProject(p, u, Msp(u))

reviewProject(u, p, decision) ==
    Serve(u, {"PROJECT_REVIEWER"}, {p}, {}) /\ ReviewProject(p, decision, u, Msp(u))

requestProjectClosure(u, p) ==
    Serve(u, Staff, {p}, {}) /\ RequestProjectClosure(p, u, Msp(u))

reviewProjectClosure(u, p, decision) ==
    Serve(u, {"PROJECT_REVIEWER"}, {p}, {}) /\ ReviewProjectClosure(p, decision, u, Msp(u))

finalizeProjectSettlement(u, p) ==
    Serve(u, {"FINANCE_ADMIN"}, {p}, {}) /\ FinalizeProjectSettlement(p, u, Msp(u))

addProjectMember(u, p, added) ==
    Serve(u, Staff, {p}, {}) /\ AddProjectMember(p, added, u, Msp(u))

createReimbursement(u, r, p, i) ==
    Serve(u, Staff, {p}, {i}) /\ CreateReimbursement(r, p, i, u, Msp(u))

\* The project and the invoice of a claim are on its page.
ServeClaim(u, roles, r) ==
    Serve(u, roles, {reimbursement[r].project}, {reimbursement[r].invoice} \ {None})

resubmitReimbursement(u, r) == ServeClaim(u, Staff, r) /\ ResubmitReimbursement(r, u, Msp(u))

withdrawReimbursement(u, r) == ServeClaim(u, Staff, r) /\ WithdrawReimbursement(r, u, Msp(u))

reviewReimbursement(u, r, decision) ==
    ServeClaim(u, {"PROJECT_REVIEWER"}, r) /\ ReviewReimbursement(r, decision, u, Msp(u))

payReimbursement(u, r) == ServeClaim(u, {"FINANCE_ADMIN"}, r) /\ PayReimbursement(r, u, Msp(u))

----------------------------------------------------------------------------
(* getInvoices: all invoices, then all projects, then all organizations,   *)
(* then the transfer request of every invoice these do not show.           *)

getInvoices(u) ==
    /\ account[u] # NoPrincipal
    /\ listing.by = None
    /\ listing' = [NoList EXCEPT !.by = u, !.at = "projects", !.invoices = invoice]

readAllProjects ==
    /\ listing.at = "projects"
    /\ listing' = [listing EXCEPT !.at = "organizations", !.projects = project]

Hidden(recorded) ==
    {i \in Invoices :
        /\ recorded[i].status # "ABSENT"
        /\ ~InvoiceVisibleTo(account[listing.by], recorded[i], listing.projects, organization)}

\* Fault: no transfer request is read.
readAllOrganizationsOnly ==
    /\ listing.at = "organizations"
    /\ listing' = [NoList EXCEPT !.by = listing.by, !.at = "transfers",
                     !.shown = {i \in Invoices : listing.invoices[i].status # "ABSENT"}
                                 \ Hidden(listing.invoices)]

\* The invoices can be told apart as soon as the organizations are known.
readAllOrganizations ==
    /\ listing.at = "organizations"
    /\ listing' = [NoList EXCEPT !.by = listing.by, !.at = "transfers",
                     !.shown = {i \in Invoices : listing.invoices[i].status # "ABSENT"}
                                 \ Hidden(listing.invoices),
                     !.left = Hidden(listing.invoices)]

readPendingTransferForPrincipal(i) ==
    /\ i \in listing.left
    /\ listing' = [listing EXCEPT
                     !.left = @ \ {i},
                     !.shown = IF PendingTransferVisibleTo(account[listing.by], transfer[i])
                               THEN @ \cup {i} ELSE @]

----------------------------------------------------------------------------
Sight == {i \in Invoices : listing.by # None /\ SeesInvoice(listing.by, i)}

Answered == listing.at = "transfers" /\ listing.left = {}

\* What the user of the list can see at each block until the answer.
Watching ==
    /\ UNCHANGED listing
    /\ watch' = IF listing.by = None THEN watch
                ELSE [always |-> watch.always \cap Sight', ever |-> watch.ever \cup Sight',
                      answered |-> watch.answered \cup
                          {i \in Invoices : /\ transfer[i].status = "PENDING"
                                            /\ transfer'[i].status # "PENDING"}]

StartWatching ==
    watch' = [always |-> Sight', ever |-> Sight', answered |-> {}]

Directory(u) ==
    \E o \in Orgs :
        \/ registerUser(u, o)
        \/ \E type \in {"PRIMARY", "PROJECT_TEAM", "EXTERNAL"}, parent \in Orgs \cup {None} :
              createBusinessOrganization(u, o, type, parent)

InvoiceWork(u) ==
    \E i \in Invoices :
        \/ \E no \in Numbers, total \in Cents, currency \in Currencies,
              p \in Projects \cup {None}, original \in Invoices \cup {None} :
              createInvoice(u, i, no, total, currency, p, original)
        \/ \E p \in Projects : linkInvoiceProject(u, i, p)
        \/ unlinkInvoiceProject(u, i)
        \/ voidInvoice(u, i) \/ requestInvoiceVoid(u, i)
        \/ \E decision \in {"APPROVE", "REJECT"} : reviewInvoiceVoid(u, i, decision)

Handover(u) ==
    \E i \in Invoices :
        \/ \E to \in Users, toMsp \in MSPs : requestInvoiceTransfer(u, i, to, toMsp)
        \/ \E decision \in {"ACCEPT", "REJECT"} : respondInvoiceTransfer(u, i, decision)
        \/ cancelInvoiceTransfer(u, i)

ProjectWork(u) ==
    \E p \in Projects :
        \/ \E budget \in Cents : createProject(u, p, budget) \/ updateProject(u, p, budget)
        \/ submitProject(u, p) \/ requestProjectClosure(u, p)
        \/ finalizeProjectSettlement(u, p)
        \/ \E added \in Users : addProjectMember(u, p, added)
        \/ \E decision \in {"APPROVE", "REVISION"} :
              reviewProject(u, p, decision) \/ reviewProjectClosure(u, p, decision)

ReimbursementWork(u) ==
    \E r \in Reimbursements :
        \/ \E p \in Projects, i \in Invoices : createReimbursement(u, r, p, i)
        \/ resubmitReimbursement(u, r) \/ withdrawReimbursement(u, r) \/ payReimbursement(u, r)
        \/ \E decision \in {"APPROVE", "REVISION"} : reviewReimbursement(u, r, decision)

ListStep ==
    /\ UNCHANGED <<vars, account>>
    /\ \/ \E u \in Users : getInvoices(u) /\ StartWatching
       \/ UNCHANGED watch /\ readAllProjects
       \/ UNCHANGED watch /\ readAllOrganizations
       \/ UNCHANGED watch /\ \E i \in Invoices : readPendingTransferForPrincipal(i)
    /\ served' = NoRequest

RestNext ==
    \/ /\ \E u \in Users : Directory(u) \/ InvoiceWork(u) \/ Handover(u)
                             \/ ProjectWork(u) \/ ReimbursementWork(u)
       /\ Watching
    \/ ListStep

RestSpec == RestInit /\ [][RestNext]_restVars

----------------------------------------------------------------------------
(* The read model hides from nobody the very records they may act on: a    *)
(* request the chaincode accepts is about projects and invoices its user   *)
(* can see, before the request if the record was there, and after it if    *)
(* the request put it (projectVisibleTo, invoiceVisibleTo).                *)
ActorsSeeWhatTheyTouch ==
    [][\A u \in Users : served'.by = u =>
         /\ \A p \in served'.projects :
               IF ProjectExists(p) THEN SeesProject(u, p) ELSE SeesProject(u, p)'
         /\ \A i \in served'.invoices :
               IF InvoiceExists(i) THEN SeesInvoice(u, i) ELSE SeesInvoice(u, i)']_restVars

(* A list of invoices is true to the time it was made, although each of    *)
(* its queries sees another block: it shows nothing its user could see at  *)
(* no block meanwhile, and misses nothing he could see at all of them,     *)
(* except an invoice whose transfer was answered meanwhile (getInvoices).  *)
ListsAreOfTheirTime ==
    Answered =>
        /\ listing.shown \subseteq watch.ever
        /\ watch.always \ listing.shown \subseteq watch.answered
============================================================================
