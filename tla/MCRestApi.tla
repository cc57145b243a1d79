----------------------------- MODULE MCRestApi -----------------------------
(***************************************************************************)
(* Instances of the HTTP handlers for TLC: all of them over one invoice,   *)
(* project and claim; and a list of invoices that change hands.            *)
(***************************************************************************)
EXTENDS RestApi, MCLedger, TLC

VARIABLE theme

\* org2 is an id an administrator may still take.
Org1Orgs == [o \in Orgs |-> IF o = org2 THEN AbsentOrganization ELSE StandardOrgs[o]]

\* Registrations and new organizations, and a project over them.
DirectoryTheme ==
    /\ \E u \in Users :
          \/ Directory(u)
          \/ \E p \in Projects, budget \in Cents : createProject(u, p, budget)
    /\ Watching

\* All other requests; ann registers with the team and bob with the
\* organization above it.
WorkTheme ==
    /\ \E u \in Users \ {"org-admin"} :
          \/ u \in {"ann", "bob"} /\ registerUser(u, IF u = "ann" THEN team ELSE org1)
          \/ InvoiceWork(u) \/ Handover(u) \/ ProjectWork(u) \/ ReimbursementWork(u)
    /\ Watching

\* A list, while invoices are recorded, linked, voided and handed over.
ListTheme ==
    \/ /\ ~Answered
       /\ \E u \in {"ann", "bob", "issuer-org1", "holder-org2"} :
             InvoiceWork(u) \/ Handover(u)
       /\ Watching
    \/ ListStep

\* What registerUser to reviewProject lead to: ann and bob have accounts, and
\* ann's project is under way.
Executing ==
    /\ organization = ProvisionedOrgs
    /\ user = [u \in Users |-> IF u = "ann" THEN Member(team, "Org1MSP")
                               ELSE IF u = "bob" THEN Member(org1, "Org1MSP") ELSE AbsentUser]
    /\ account = [u \in Users |->
                    IF u \in DemoNames THEN DemoPrincipal(u)
                    ELSE [username |-> u, msp |-> user[u].msp, role |-> user[u].role,
                          org |-> user[u].org]]
    /\ project = [p \in Projects |->
                    [AbsentProject EXCEPT !.status = "EXECUTING", !.applicant = "ann",
                       !.msp = "Org1MSP", !.org = team, !.reviewer = "project-reviewer",
                       !.budget = MaxMoneyCents]]
    /\ member = [p \in Projects |-> {"ann"}]
    /\ invoice = [i \in Invoices |-> AbsentInvoice]
    /\ numberIndex = [no \in Numbers |-> None]
    /\ voidRequest = [i \in Invoices |-> [status |-> "ABSENT", applicant |-> None]]
    /\ transfer = [i \in Invoices |->
                     [status |-> "ABSENT", from |-> None, to |-> None, toMsp |-> None]]
    /\ reimbursement = [r \in Reimbursements |-> AbsentReimbursement]
    /\ reimbursementInvoice = [i \in Invoices |-> None]
    /\ evidence = NoEvidence
    /\ served = NoRequest
    /\ listing = NoList
    /\ watch = [always |-> {}, ever |-> {}, answered |-> {}]

MCRestInit ==
    \/ theme \in {"directory", "work"} /\ RestInit
    \/ theme = "list" /\ Executing

MCRestNext ==
    /\ UNCHANGED theme
    /\ \/ theme = "directory" /\ DirectoryTheme
       \/ theme = "work" /\ WorkTheme
       \/ theme = "list" /\ ListTheme

MCRestSpec == MCRestInit /\ [][MCRestNext]_<<restVars, theme>>

\* Served and evidence are written by every step and read by none.
RestView == <<theme, directoryVars, projectVars, invoiceVars, voidRequest, transfer,
              claimVars, account, listing, watch>>
============================================================================
