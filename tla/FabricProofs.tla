---------------------------- MODULE FabricProofs ----------------------------
(***************************************************************************)
(* Concurrent transactions, for every value of the constants: a            *)
(* transaction that is found valid is a step of the contract on the ledger *)
(* it meets, so that what the contract keeps is kept on the ledger.        *)
(***************************************************************************)
EXTENDS FabricValidation, ProjectProofs

----------------------------------------------------------------------------
(* A ledger w as the contract describes it, and as the peer sees it.       *)

Members(w) == [p \in Projects |-> {u \in Users : w.member[<<p, u>>]}]

On(w) == INSTANCE InvoiceContract WITH
    organization <- w.organization, user <- w.user, project <- w.project,
    member <- Members(w), invoice <- w.invoice, numberIndex <- w.numberIndex,
    voidRequest <- w.voidRequest, transfer <- w.transfer,
    reimbursement <- w.reimbursement,
    reimbursementInvoice <- w.reimbursementInvoice, evidence <- NoEvidence

Ledger == INSTANCE ProjectProofs WITH
    organization <- committed.organization, user <- committed.user,
    project <- committed.project, member <- Members(committed),
    invoice <- committed.invoice, numberIndex <- committed.numberIndex,
    voidRequest <- committed.voidRequest, transfer <- committed.transfer,
    reimbursement <- committed.reimbursement,
    reimbursementInvoice <- committed.reimbursementInvoice, evidence <- NoEvidence

Sees(w) ==
  /\ organization = w.organization /\ user = w.user /\ project = w.project
  /\ member = Members(w) /\ invoice = w.invoice /\ numberIndex = w.numberIndex
  /\ voidRequest = w.voidRequest /\ transfer = w.transfer
  /\ reimbursement = w.reimbursement
  /\ reimbursementInvoice = w.reimbursementInvoice

Families ==
  {"organization", "user", "project", "member", "invoice", "numberIndex",
   "voidRequest", "transfer", "reimbursement", "reimbursementInvoice"}

\* A ledger has every family, and a family every id; a member is or is not.
Shaped(w) ==
  /\ DOMAIN w = Families
  /\ w.organization = [o \in Orgs |-> w.organization[o]]
  /\ w.user = [u \in Users |-> w.user[u]]
  /\ w.project = [p \in Projects |-> w.project[p]]
  /\ w.member \in [Projects \X Users -> BOOLEAN]
  /\ w.invoice = [i \in Invoices |-> w.invoice[i]]
  /\ w.numberIndex = [no \in Numbers |-> w.numberIndex[no]]
  /\ w.voidRequest = [i \in Invoices |-> w.voidRequest[i]]
  /\ w.transfer = [i \in Invoices |-> w.transfer[i]]
  /\ w.reimbursement = [r \in Reimbursements |-> w.reimbursement[r]]
  /\ w.reimbursementInvoice = [i \in Invoices |-> w.reimbursementInvoice[i]]

LEMMA WorldSeen == ASSUME TypeOK PROVE Sees(World) /\ Shaped(World)
<1>1. member = [p \in Projects |-> {u \in Users : u \in member[p]}]
  BY DEF TypeOK
<1>2. member = Members(World)
  BY <1>1 DEF Members, World
<1>3. Shaped(World)
  BY DEF TypeOK, Shaped, World, Families
<1> QED BY <1>2, <1>3 DEF Sees, World

LEMMA PeerIsSeen == PeerSees(committed') <=> Sees(committed)'
BY DEF PeerSees, Sees, Members

\* A key and its value, family by family.
LEMMA KeysAre ==
  /\ \A o \in Orgs : <<"organization", o>> \in Keys
  /\ \A u \in Users : <<"user", u>> \in Keys
  /\ \A p \in Projects : <<"project", p>> \in Keys
  /\ \A p \in Projects, u \in Users : <<"member", <<p, u>>>> \in Keys
  /\ \A i \in Invoices : /\ <<"invoice", i>> \in Keys /\ <<"voidRequest", i>> \in Keys
                         /\ <<"transfer", i>> \in Keys /\ <<"reimbursementInvoice", i>> \in Keys
  /\ \A no \in Numbers : <<"numberIndex", no>> \in Keys
  /\ \A r \in Reimbursements : <<"reimbursement", r>> \in Keys
BY DEF Keys

LEMMA KeyIs ==
  ASSUME NEW key \in Keys
  PROVE  \/ \E o \in Orgs : key = <<"organization", o>>
         \/ \E u \in Users : key = <<"user", u>>
         \/ \E p \in Projects : key = <<"project", p>>
         \/ \E p \in Projects, u \in Users : key = <<"member", <<p, u>>>>
         \/ \E i \in Invoices : key = <<"invoice", i>>
         \/ \E no \in Numbers : key = <<"numberIndex", no>>
         \/ \E i \in Invoices : key = <<"voidRequest", i>>
         \/ \E i \in Invoices : key = <<"transfer", i>>
         \/ \E r \in Reimbursements : key = <<"reimbursement", r>>
         \/ \E i \in Invoices : key = <<"reimbursementInvoice", i>>
BY DEF Keys

LEMMA Values ==
  ASSUME NEW w
  PROVE  /\ \A o : Value(w, <<"organization", o>>) = w.organization[o]
         /\ \A u : Value(w, <<"user", u>>) = w.user[u]
         /\ \A p : Value(w, <<"project", p>>) = w.project[p]
         /\ \A pu : Value(w, <<"member", pu>>) = w.member[pu]
         /\ \A i : Value(w, <<"invoice", i>>) = w.invoice[i]
         /\ \A no : Value(w, <<"numberIndex", no>>) = w.numberIndex[no]
         /\ \A i : Value(w, <<"voidRequest", i>>) = w.voidRequest[i]
         /\ \A i : Value(w, <<"transfer", i>>) = w.transfer[i]
         /\ \A r : Value(w, <<"reimbursement", r>>) = w.reimbursement[r]
         /\ \A i : Value(w, <<"reimbursementInvoice", i>>) = w.reimbursementInvoice[i]
BY DEF Value

LEMMA Presence ==
  ASSUME NEW w
  PROVE  /\ \A o : Present(w, <<"organization", o>>) <=> w.organization[o].status # "ABSENT"
         /\ \A u : Present(w, <<"user", u>>) <=> w.user[u].status # "ABSENT"
         /\ \A p : Present(w, <<"project", p>>) <=> w.project[p].status # "ABSENT"
         /\ \A pu : Present(w, <<"member", pu>>) = w.member[pu]
         /\ \A i : Present(w, <<"invoice", i>>) <=> w.invoice[i].status # "ABSENT"
         /\ \A no : Present(w, <<"numberIndex", no>>) <=> w.numberIndex[no] # None
         /\ \A i : Present(w, <<"voidRequest", i>>) <=> w.voidRequest[i].status # "ABSENT"
         /\ \A i : Present(w, <<"transfer", i>>) <=> w.transfer[i].status # "ABSENT"
         /\ \A r : Present(w, <<"reimbursement", r>>) <=> w.reimbursement[r].status # "ABSENT"
         /\ \A i : Present(w, <<"reimbursementInvoice", i>>) <=> w.reimbursementInvoice[i] # None
BY DEF Present, Value

----------------------------------------------------------------------------
(* What the contract keeps, on the ledger the peer sees and on the one     *)
(* that is committed.                                                      *)

LedgerInv == RestInv /\ NumberInv /\ MemberInv /\ MoneyInv /\ ArchivedIsSettled

CommittedInv ==
  /\ Ledger!RestInv /\ Ledger!NumberInv /\ Ledger!MemberInv /\ Ledger!MoneyInv
  /\ Ledger!ArchivedIsSettled

LEMMA LedgerInit == Init => LedgerInv
<1> SUFFICES ASSUME Init PROVE LedgerInv
  OBVIOUS
<1>1. TypeOK /\ ClaimInv /\ MoneyInv
  BY TypeInit, ClaimInvInit, MoneyInit
<1>2. RestInv
  BY <1>1 DEF Init, RestInv, ClaimsRestOnInvoices, Live, AbsentReimbursement
<1>3. NumberInv
  BY <1>1 DEF Init, NumberInv, NumbersKnown, OneValidRecordPerNumber, InvoiceExists,
              AbsentInvoice
<1>4. MemberInv
  BY <1>1 DEF Init, MemberInv, TeamsKnown, MembersBelongToProject, ProjectExists, AbsentProject
<1>5. ArchivedIsSettled
  BY DEF Init, ArchivedIsSettled, AbsentProject
<1> QED BY <1>1, <1>2, <1>3, <1>4, <1>5 DEF LedgerInv

LEMMA LedgerStep == LedgerInv /\ [Next]_vars => LedgerInv'
<1> SUFFICES ASSUME LedgerInv, [Next]_vars PROVE LedgerInv'
  OBVIOUS
<1>1. TypeOK /\ TypeOK'
  BY TypeStep DEF LedgerInv, NumberInv
<1>2. RestInv'
  BY RestStep DEF LedgerInv
<1>3. NumberInv'
  BY NumberStep DEF LedgerInv
<1>4. MemberInv'
  BY <1>1, TeamsStep, MembersStep DEF LedgerInv, MemberInv
<1>5. MoneyInv'
  BY <1>1, MoneyStep DEF LedgerInv
<1>6. ArchivedIsSettled'
  BY ArchivedStep DEF LedgerInv
<1> QED BY <1>2, <1>3, <1>4, <1>5, <1>6 DEF LedgerInv

LEMMA TypeSeen == Sees(committed) => (TypeOK <=> Ledger!TypeOK)
<1>1. /\ BusinessOrganization = Ledger!BusinessOrganization /\ BusinessUser = Ledger!BusinessUser
      /\ Project = Ledger!Project /\ Invoice = Ledger!Invoice
      /\ InvoiceVoidRequest = Ledger!InvoiceVoidRequest
      /\ InvoiceTransfer = Ledger!InvoiceTransfer /\ Reimbursement = Ledger!Reimbursement
  BY DEF BusinessOrganization, BusinessUser, Project, Invoice, InvoiceVoidRequest,
         InvoiceTransfer, Reimbursement, ProjectStatus, MSPs, Roles,
         Ledger!BusinessOrganization, Ledger!BusinessUser, Ledger!Project, Ledger!Invoice,
         Ledger!InvoiceVoidRequest, Ledger!InvoiceTransfer, Ledger!Reimbursement,
         Ledger!ProjectStatus, Ledger!MSPs, Ledger!Roles
<1> QED BY <1>1 DEF Sees, TypeOK, Ledger!TypeOK

LEMMA ClaimSeen == Sees(committed) => (ClaimInv <=> Ledger!ClaimInv)
BY TypeSeen
   DEF Sees, ClaimInv, ClaimsNameInvoices, OneClaimPerInvoice, Live, ReimbursementExists,
       Ledger!ClaimInv, Ledger!ClaimsNameInvoices, Ledger!OneClaimPerInvoice, Ledger!Live,
       Ledger!ReimbursementExists

LEMMA RestSeen == Sees(committed) => (RestInv <=> Ledger!RestInv)
BY ClaimSeen
   DEF Sees, RestInv, ClaimsRestOnInvoices, Live, NotVoided, InvoiceExists, Released,
       Ledger!RestInv, Ledger!ClaimsRestOnInvoices, Ledger!Live, Ledger!NotVoided,
       Ledger!InvoiceExists, Ledger!Released

LEMMA NumberSeen == Sees(committed) => (NumberInv <=> Ledger!NumberInv)
BY TypeSeen
   DEF Sees, NumberInv, NumbersKnown, OneValidRecordPerNumber, NotVoided, InvoiceExists,
       Ledger!NumberInv, Ledger!NumbersKnown, Ledger!OneValidRecordPerNumber,
       Ledger!NotVoided, Ledger!InvoiceExists

LEMMA MemberSeen == Sees(committed) => (MemberInv <=> Ledger!MemberInv)
BY TypeSeen
   DEF Sees, MemberInv, TeamsKnown, MembersBelongToProject, ProjectExists,
       Ledger!MemberInv, Ledger!TeamsKnown, Ledger!MembersBelongToProject, Ledger!ProjectExists

LEMMA CentsSeen ==
  Sees(committed) =>
      \A p, status : /\ ClaimedCents(p, status) = Ledger!ClaimedCents(p, status)
                     /\ Claimed(p, status) = Ledger!Claimed(p, status)
<1> SUFFICES ASSUME Sees(committed), NEW p, NEW status
             PROVE  /\ ClaimedCents(p, status) = Ledger!ClaimedCents(p, status)
                    /\ Claimed(p, status) = Ledger!Claimed(p, status)
  OBVIOUS
<1>1. ClaimedIn(p, status) = Ledger!ClaimedIn(p, status)
  BY DEF Sees, ClaimedIn, Ledger!ClaimedIn
<1>2. ClaimedCents(p, status) = Ledger!ClaimedCents(p, status)
  BY <1>1 DEF Sees, ClaimedCents, Ledger!ClaimedCents
<1>3. \A S : Cardinality(S) = Ledger!Cardinality(S)
  BY DEF Cardinality, Ledger!Cardinality
<1> QED BY <1>2, <1>3 DEF Claimed, Ledger!Claimed

LEMMA MoneySeen == Sees(committed) => (MoneyInv <=> Ledger!MoneyInv)
<1> SUFFICES ASSUME Sees(committed) PROVE MoneyInv <=> Ledger!MoneyInv
  OBVIOUS
<1>1. BudgetConserved <=> Ledger!BudgetConserved
  BY DEF Sees, BudgetConserved, Released, Ledger!BudgetConserved, Ledger!Released
<1>2. SumsAreFinite <=> Ledger!SumsAreFinite
  <2>1. \A S : IsFiniteSet(S) <=> Ledger!IsFiniteSet(S)
    BY DEF IsFiniteSet, Ledger!IsFiniteSet
  <2> QED BY <2>1, CentsSeen DEF SumsAreFinite, Ledger!SumsAreFinite
<1>3. BalancesAreBacked <=> Ledger!BalancesAreBacked
  BY CentsSeen DEF Sees, BalancesAreBacked, Ledger!BalancesAreBacked
<1>4. ClaimsHaveAmounts <=> Ledger!ClaimsHaveAmounts
  BY DEF Sees, ClaimsHaveAmounts, ReimbursementExists, Ledger!ClaimsHaveAmounts,
         Ledger!ReimbursementExists
<1> QED BY ClaimSeen, <1>1, <1>2, <1>3, <1>4 DEF MoneyInv, Ledger!MoneyInv

LEMMA ArchiveSeen == Sees(committed) => (ArchivedIsSettled <=> Ledger!ArchivedIsSettled)
BY DEF Sees, ArchivedIsSettled, Ledger!ArchivedIsSettled

LEMMA InvSeen == Sees(committed) => (LedgerInv <=> CommittedInv)
BY RestSeen, NumberSeen, MemberSeen, MoneySeen, ArchiveSeen DEF LedgerInv, CommittedInv

LEMMA InvSeenNext == Sees(committed)' => (LedgerInv' <=> CommittedInv')
BY InvSeen, PTL

\* The evidence is no part of what is kept.
LEMMA CommittedKept == CommittedInv /\ UNCHANGED committed => CommittedInv'
<1> SUFFICES ASSUME CommittedInv, UNCHANGED committed PROVE CommittedInv'
  OBVIOUS
<1>1. UNCHANGED Ledger!vars
  BY DEF Ledger!vars, Members, NoEvidence
<1>2. /\ None \notin Users \cup Orgs \cup Projects \cup Invoices \cup Numbers
                     \cup Reimbursements \cup Ledger!MSPs \cup Ledger!Roles
      /\ MaxMoneyCents \in Nat /\ Cents \subseteq Nat
      /\ ProvisionedUsers \in [Users -> Ledger!BusinessUser]
      /\ ProvisionedOrgs \in [Orgs -> Ledger!BusinessOrganization]
  BY NoneAssumption, MoneyAssumption, DirectoryAssumption
     DEF MSPs, Roles, Ledger!MSPs, Ledger!Roles, BusinessUser, BusinessOrganization,
         Ledger!BusinessUser, Ledger!BusinessOrganization
<1>3. Ledger!TypeOK /\ Ledger!TypeOK'
  BY <1>1, <1>2, Ledger!TypeStep DEF CommittedInv, Ledger!NumberInv
<1>4. Ledger!RestInv'
  BY <1>1, <1>2, Ledger!RestStep DEF CommittedInv
<1>5. Ledger!NumberInv'
  BY <1>1, <1>2, Ledger!NumberStep DEF CommittedInv
<1>6. Ledger!MemberInv'
  BY <1>1, <1>2, <1>3, Ledger!TeamsStep, Ledger!MembersStep DEF CommittedInv, Ledger!MemberInv
<1>7. Ledger!MoneyInv'
  BY <1>1, <1>2, <1>3, Ledger!MoneyStep DEF CommittedInv
<1>8. Ledger!ArchivedIsSettled'
  BY <1>1, <1>2, Ledger!ArchivedStep DEF CommittedInv
<1> QED BY <1>4, <1>5, <1>6, <1>7, <1>8 DEF CommittedInv

----------------------------------------------------------------------------
(* What a run of the chaincode on the ledger w comes to: it read the keys  *)
(* of `known', wants `writes' done and puts `record' in evidence.  Each    *)
(* operation needs some of its reads to be sure of its guard.              *)

One(key, value) == [k \in {key} |-> value]
Also(writes, key, value) ==
  [k \in DOMAIN writes \cup {key} |-> IF k = key THEN value ELSE writes[k]]

\* A registered or bootstrap user of a role, by the record or its absence.
UserActs(w, known, u, msp, roles) ==
  /\ u \in Users /\ <<"user", u>> \in known
  /\ On(w)!RequireRegisteredRole(u, msp, roles)

\* Someone other than the applicant is looked up in the list of members.
MemberActs(w, known, p, u, caller) ==
  /\ p \in Projects /\ u \in Users
  /\ {<<"project", p>>, <<"user", u>>} \subseteq known
  /\ On(w)!ProjectExists(p)
  /\ \/ On(w)!RequireProjectApplicant(p, u, caller)
     \/ /\ u # w.project[p].applicant
        /\ <<"member", <<p, u>>>> \in known
        /\ On(w)!RequireProjectMember(p, u, caller)

\* A manager from above is looked up through the project's organization.
ManagerActs(w, known, p, u, caller, role) ==
  /\ p \in Projects /\ u \in Users
  /\ {<<"project", p>>, <<"user", u>>} \subseteq known
  /\ On(w)!ProjectExists(p)
  /\ On(w)!UserExists(u) /\ w.user[u].org # w.project[p].org =>
        /\ w.project[p].org \in Orgs
        /\ <<"organization", w.project[p].org>> \in known
  /\ On(w)!RequireProjectManager(p, u, caller, role)

IssuerActs(w, known, i, u, caller) ==
  /\ i \in Invoices /\ u \in Users
  /\ {<<"invoice", i>>, <<"user", u>>} \subseteq known
  /\ On(w)!InvoiceExists(i)
  /\ On(w)!RequireIssuer(i, u, caller)

\* An invoice found valid, and one found without a claim.
FoundValid(w, known, i) ==
  i \in Invoices /\ <<"invoice", i>> \in known /\ On(w)!NotVoided(i)

FoundUnclaimed(w, known, i) ==
  /\ i \in Invoices /\ <<"reimbursementInvoice", i>> \in known
  /\ On(w)!EnsureInvoiceCanBeVoided(i)

CreationRuns(w, known, writes, record, i, no, total, u, p, original, caller) ==
  LET org == On(w)!BusinessUserOrganization(u)
  IN  /\ i \in Invoices /\ no \in Numbers
      /\ {"invoice"} \X Invoices \subseteq known /\ <<"numberIndex", no>> \in known
      /\ ~On(w)!InvoiceExists(i)
      /\ UserActs(w, known, u, caller, {"ISSUER", "PROJECT_MEMBER"})
      /\ p # None => /\ MemberActs(w, known, p, u, caller)
                     /\ On(w)!LinkableAtCreation(p, u, org, caller)
      /\ total > 0 /\ total <= MaxMoneyCents
      /\ original = None => ~On(w)!InvoiceNumberExists(no)
      /\ original # None => /\ FoundUnclaimed(w, known, original)
                            /\ On(w)!Corrects(original, no, org, caller)
      /\ writes = Also(One(<<"invoice", i>>,
                           [status |-> "ISSUED", number |-> no, total |-> total,
                            currency |-> "CNY", issuerMsp |-> caller, issuerOrg |-> org,
                            holder |-> u, holderMsp |-> caller, holderOrg |-> org,
                            project |-> p, correctionOf |-> original]),
                       <<"numberIndex", no>>, i)
      /\ record = Flow(i, IF original = None THEN "ISSUE" ELSE "CORRECTION", None, u)

LinkRuns(w, known, writes, record, i, p, u, caller) ==
  /\ FoundValid(w, known, i) /\ FoundUnclaimed(w, known, i)
  /\ MemberActs(w, known, p, u, caller)
  /\ w.invoice[i].project = None
  /\ On(w)!OpenForAssociation(p)
  /\ On(w)!SameIssuerOrganization(i, p)
  /\ writes = One(<<"invoice", i>>, [w.invoice[i] EXCEPT !.project = p])
  /\ record = ProjectEvent(p, "LINK_INVOICE", u, i)

UnlinkRuns(w, known, writes, record, i, p, u, caller) ==
  /\ FoundValid(w, known, i) /\ FoundUnclaimed(w, known, i)
  /\ MemberActs(w, known, p, u, caller)
  /\ w.invoice[i].project = p /\ p # None
  /\ w.project[p].status # "ARCHIVED"
  /\ On(w)!SameIssuerOrganization(i, p)
  /\ writes = One(<<"invoice", i>>, [w.invoice[i] EXCEPT !.project = None])
  /\ record = ProjectEvent(p, "UNLINK_INVOICE", u, i)

VoidRuns(w, known, writes, record, i, u, caller) ==
  /\ FoundValid(w, known, i) /\ FoundUnclaimed(w, known, i)
  /\ IssuerActs(w, known, i, u, caller)
  /\ writes = One(<<"invoice", i>>, [w.invoice[i] EXCEPT !.status = "VOIDED"])
  /\ record = Flow(i, "VOID", w.invoice[i].holder, None)

VoidRequestRuns(w, known, writes, record, i, p, u, caller) ==
  /\ FoundValid(w, known, i) /\ FoundUnclaimed(w, known, i)
  /\ MemberActs(w, known, p, u, caller)
  /\ w.invoice[i].project = p /\ p # None
  /\ <<"voidRequest", i>> \in known /\ w.voidRequest[i].status # "PENDING_REVIEW"
  /\ writes = One(<<"voidRequest", i>>, [status |-> "PENDING_REVIEW", applicant |-> u])
  /\ record = Flow(i, "VOID_REQUEST", u, None)

VoidReviewRuns(w, known, writes, record, i, decision, u, caller) ==
  LET answered(status) == [w.voidRequest[i] EXCEPT !.status = status]
  IN  /\ IssuerActs(w, known, i, u, caller)
      /\ <<"voidRequest", i>> \in known /\ w.voidRequest[i].status = "PENDING_REVIEW"
      /\ \/ /\ decision = "REJECT"
            /\ writes = One(<<"voidRequest", i>>, answered("REJECTED"))
            /\ record = Flow(i, "VOID_REJECTED", u, w.voidRequest[i].applicant)
         \/ /\ decision = "APPROVE"
            /\ FoundValid(w, known, i) /\ FoundUnclaimed(w, known, i)
            /\ writes = Also(One(<<"voidRequest", i>>, answered("APPROVED")),
                             <<"invoice", i>>, [w.invoice[i] EXCEPT !.status = "VOIDED"])
            /\ record = Flow(i, "VOID", w.invoice[i].holder, None)

TransferRuns(w, known, writes, record, i, to, toMsp, u, caller) ==
  /\ FoundValid(w, known, i)
  /\ to # w.invoice[i].holder
  /\ caller = w.invoice[i].holderMsp /\ u = w.invoice[i].holder
  /\ UserActs(w, known, u, caller, HandoffRoles)
  /\ UserActs(w, known, to, toMsp, HandoffRoles)
  /\ <<"transfer", i>> \in known /\ w.transfer[i].status # "PENDING"
  /\ writes = One(<<"transfer", i>>,
                  [status |-> "PENDING", from |-> u, to |-> to, toMsp |-> toMsp])
  /\ record = Flow(i, "TRANSFER_REQUEST", u, to)

AnswerRuns(w, known, writes, record, i, decision, u, caller) ==
  LET answered(status) == [w.transfer[i] EXCEPT !.status = status]
  IN  /\ i \in Invoices
      /\ <<"transfer", i>> \in known /\ w.transfer[i].status = "PENDING"
      /\ u = w.transfer[i].to /\ caller = w.transfer[i].toMsp
      /\ UserActs(w, known, u, caller, HandoffRoles)
      /\ \/ /\ decision = "REJECT"
            /\ writes = One(<<"transfer", i>>, answered("REJECTED"))
            /\ record = Flow(i, "TRANSFER_REJECTED", w.transfer[i].from, u)
         \/ /\ decision = "ACCEPT"
            /\ FoundValid(w, known, i) /\ On(w)!StillAvailable(i)
            /\ writes = Also(One(<<"transfer", i>>, answered("ACCEPTED")),
                             <<"invoice", i>>, On(w)!HandedTo(w.invoice[i], u, caller))
            /\ record = Flow(i, "TRANSFER_ACCEPTED", w.transfer[i].from, u)

CancelRuns(w, known, writes, record, i, u) ==
  /\ i \in Invoices /\ u \in Users
  /\ {<<"transfer", i>>, <<"invoice", i>>} \subseteq known
  /\ w.transfer[i].status = "PENDING" /\ w.transfer[i].from = u
  /\ On(w)!InvoiceExists(i) /\ w.invoice[i].holder = u
  /\ writes = One(<<"transfer", i>>, [w.transfer[i] EXCEPT !.status = "CANCELLED"])
  /\ record = Flow(i, "TRANSFER_CANCELLED", u, w.transfer[i].to)

ClaimRuns(w, known, writes, record, r, p, i, u, caller) ==
  /\ r \in Reimbursements
  /\ <<"reimbursement", r>> \in known /\ ~On(w)!ReimbursementExists(r)
  /\ On(w)!InSettlement(p)
  /\ MemberActs(w, known, p, u, caller)
  /\ FoundValid(w, known, i) /\ FoundUnclaimed(w, known, i)
  /\ w.invoice[i].currency \in {None, "CNY"} /\ w.invoice[i].project = p
  /\ w.invoice[i].total > 0 /\ w.invoice[i].total <= MaxMoneyCents
  /\ writes = Also(One(<<"reimbursement", r>>,
                       [status |-> "PENDING_REVIEW", project |-> p, invoice |-> i,
                        applicant |-> u, reviewer |-> None,
                        amount |-> w.invoice[i].total]),
                   <<"reimbursementInvoice", i>>, r)
  /\ record = ProjectEvent(p, "SUBMIT_REIMBURSEMENT", u, r)

\* A claim that was made, of the project p and on the invoice i.
FoundClaim(w, known, r, p, i) ==
  /\ r \in Reimbursements /\ p \in Projects /\ i \in Invoices
  /\ <<"reimbursement", r>> \in known /\ On(w)!ReimbursementExists(r)
  /\ w.reimbursement[r].project = p /\ w.reimbursement[r].invoice = i

ReviewRuns(w, known, writes, record, r, p, i, decision, u, caller) ==
  LET claim == w.reimbursement[r]
  IN  /\ FoundClaim(w, known, r, p, i)
      /\ claim.status = "PENDING_REVIEW"
      /\ ManagerActs(w, known, p, u, caller, "PROJECT_REVIEWER")
      /\ FoundValid(w, known, i)
      /\ claim.amount > 0 /\ claim.amount <= MaxMoneyCents
      /\ \/ /\ decision = "APPROVE"
            /\ Sufficient(w.project[p], claim.amount)
            /\ writes = Also(One(<<"reimbursement", r>>,
                                 [claim EXCEPT !.reviewer = u, !.status = "APPROVED_RESERVED"]),
                             <<"project", p>>, Reserve(w.project[p], claim.amount))
            /\ record = ProjectEvent(p, "REIMBURSEMENT_APPROVE", u, r)
         \/ /\ decision = "REVISION"
            /\ writes = One(<<"reimbursement", r>>,
                            [claim EXCEPT !.reviewer = u, !.status = "REVISION_REQUIRED"])
            /\ record = ProjectEvent(p, "REIMBURSEMENT_REVISION", u, r)

ResubmissionRuns(w, known, writes, record, r, p, i, u, caller) ==
  LET claim == w.reimbursement[r]
  IN  /\ FoundClaim(w, known, r, p, i)
      /\ claim.status = "REVISION_REQUIRED"
      /\ MemberActs(w, known, p, u, caller)
      /\ writes = One(<<"reimbursement", r>>,
                      [claim EXCEPT !.status = "PENDING_REVIEW", !.reviewer = None])
      /\ record = ProjectEvent(p, "RESUBMIT_REIMBURSEMENT", u, r)

\* The link key is deleted unread.
WithdrawalRuns(w, known, writes, record, r, p, i, u, caller) ==
  LET claim == w.reimbursement[r]
      withdrawn == Also(One(<<"reimbursement", r>>, [claim EXCEPT !.status = "WITHDRAWN"]),
                        <<"reimbursementInvoice", i>>, None)
  IN  /\ FoundClaim(w, known, r, p, i)
      /\ Withdrawable(claim)
      /\ MemberActs(w, known, p, u, caller)
      /\ \/ /\ claim.status = "APPROVED_RESERVED"
            /\ BalanceAllowsRelease(w.project[p], claim.amount)
            /\ writes = Also(withdrawn, <<"project", p>>, Release(w.project[p], claim.amount))
         \/ /\ claim.status # "APPROVED_RESERVED"
            /\ writes = withdrawn
      /\ record = ProjectEvent(p, "WITHDRAW_REIMBURSEMENT", u, r)

PaymentRuns(w, known, writes, record, r, p, i, u, caller) ==
  LET claim == w.reimbursement[r]
  IN  /\ FoundClaim(w, known, r, p, i)
      /\ claim.status = "APPROVED_RESERVED"
      /\ ManagerActs(w, known, p, u, caller, "FINANCE_ADMIN")
      /\ FoundValid(w, known, i)
      /\ w.project[p].reserved >= claim.amount
      /\ writes = Also(One(<<"reimbursement", r>>, [claim EXCEPT !.status = "PAID"]),
                       <<"project", p>>, Pay(w.project[p], claim.amount))
      /\ record = ProjectEvent(p, "PAY_REIMBURSEMENT", u, r)

SettlementRuns(w, known, writes, record, p, u, caller) ==
  /\ ManagerActs(w, known, p, u, caller, "FINANCE_ADMIN")
  /\ {"reimbursement"} \X Reimbursements \subseteq known
  /\ On(w)!InSettlement(p)
  /\ w.project[p].reserved = 0
  /\ On(w)!NothingAwaitsAction(p)
  /\ writes = One(<<"project", p>>, Archive(w.project[p]))
  /\ record = ProjectEvent(p, "FINALIZE_SETTLEMENT", u, None)

\* A transaction of the settlement phase, by its subject.
RecordRuns(w, known, writes, record) ==
  \E i \in Invoices, u \in Users, caller \in MSPs :
     \/ \E no \in Numbers, total \in Cents, p \in Projects \cup {None},
           original \in Invoices \cup {None} :
           CreationRuns(w, known, writes, record, i, no, total, u, p, original, caller)
     \/ \E p \in Projects : \/ LinkRuns(w, known, writes, record, i, p, u, caller)
                            \/ UnlinkRuns(w, known, writes, record, i, p, u, caller)

CancellationRuns(w, known, writes, record) ==
  \E i \in Invoices, u \in Users, caller \in MSPs :
     \/ VoidRuns(w, known, writes, record, i, u, caller)
     \/ \E p \in Projects : VoidRequestRuns(w, known, writes, record, i, p, u, caller)
     \/ \E decision \in {"APPROVE", "REJECT"} :
           VoidReviewRuns(w, known, writes, record, i, decision, u, caller)

CustodyRuns(w, known, writes, record) ==
  \E i \in Invoices, u \in Users :
     \/ \E to \in Users, toMsp, caller \in MSPs :
           TransferRuns(w, known, writes, record, i, to, toMsp, u, caller)
     \/ \E decision \in {"ACCEPT", "REJECT"}, caller \in MSPs :
           AnswerRuns(w, known, writes, record, i, decision, u, caller)
     \/ CancelRuns(w, known, writes, record, i, u)

ClaimingRuns(w, known, writes, record) ==
  \E r \in Reimbursements, p \in Projects, i \in Invoices, u \in Users, caller \in MSPs :
     \/ ClaimRuns(w, known, writes, record, r, p, i, u, caller)
     \/ \E decision \in {"APPROVE", "REVISION"} :
           ReviewRuns(w, known, writes, record, r, p, i, decision, u, caller)
     \/ ResubmissionRuns(w, known, writes, record, r, p, i, u, caller)
     \/ WithdrawalRuns(w, known, writes, record, r, p, i, u, caller)
     \/ PaymentRuns(w, known, writes, record, r, p, i, u, caller)

Runs(w, known, writes, record) ==
  \/ RecordRuns(w, known, writes, record)
  \/ CancellationRuns(w, known, writes, record)
  \/ CustodyRuns(w, known, writes, record)
  \/ ClaimingRuns(w, known, writes, record)
  \/ \E p \in Projects, u \in Users, caller \in MSPs :
        SettlementRuns(w, known, writes, record, p, u, caller)

----------------------------------------------------------------------------
(* Two ledgers that agree on the keys that were read: one as it was at the *)
(* endorsement, one as it is at the validation.                            *)

Agree(w, c, known) ==
  \A key \in known \cap Keys :
      \/ Present(w, key) /\ Value(c, key) = Value(w, key) /\ Present(c, key)
      \/ ~Present(w, key) /\ ~Present(c, key)

LEMMA AgreeOn ==
  ASSUME NEW w, NEW c, NEW known, Agree(w, c, known)
  PROVE  /\ \A u \in Users : <<"user", u>> \in known =>
               IF w.user[u].status # "ABSENT" THEN c.user[u] = w.user[u]
               ELSE c.user[u].status = "ABSENT"
         /\ \A o \in Orgs : <<"organization", o>> \in known =>
               IF w.organization[o].status # "ABSENT" THEN c.organization[o] = w.organization[o]
               ELSE c.organization[o].status = "ABSENT"
         /\ \A p \in Projects : <<"project", p>> \in known =>
               IF w.project[p].status # "ABSENT" THEN c.project[p] = w.project[p]
               ELSE c.project[p].status = "ABSENT"
         /\ \A p \in Projects, u \in Users : <<"member", <<p, u>>>> \in known =>
               (w.member[<<p, u>>] <=> c.member[<<p, u>>])
         /\ \A i \in Invoices : <<"invoice", i>> \in known =>
               IF w.invoice[i].status # "ABSENT" THEN c.invoice[i] = w.invoice[i]
               ELSE c.invoice[i].status = "ABSENT"
         /\ \A no \in Numbers : <<"numberIndex", no>> \in known =>
               c.numberIndex[no] = w.numberIndex[no]
         /\ \A i \in Invoices : <<"voidRequest", i>> \in known =>
               IF w.voidRequest[i].status # "ABSENT" THEN c.voidRequest[i] = w.voidRequest[i]
               ELSE c.voidRequest[i].status = "ABSENT"
         /\ \A i \in Invoices : <<"transfer", i>> \in known =>
               IF w.transfer[i].status # "ABSENT" THEN c.transfer[i] = w.transfer[i]
               ELSE c.transfer[i].status = "ABSENT"
         /\ \A r \in Reimbursements : <<"reimbursement", r>> \in known =>
               IF w.reimbursement[r].status # "ABSENT"
               THEN c.reimbursement[r] = w.reimbursement[r]
               ELSE c.reimbursement[r].status = "ABSENT"
         /\ \A i \in Invoices : <<"reimbursementInvoice", i>> \in known =>
               c.reimbursementInvoice[i] = w.reimbursementInvoice[i]
<1>1. ASSUME NEW key, key \in Keys, key \in known
      PROVE  \/ Present(w, key) /\ Value(c, key) = Value(w, key) /\ Present(c, key)
             \/ ~Present(w, key) /\ ~Present(c, key)
  BY <1>1 DEF Agree
<1>2. ASSUME NEW u \in Users, <<"user", u>> \in known
      PROVE  IF w.user[u].status # "ABSENT" THEN c.user[u] = w.user[u]
             ELSE c.user[u].status = "ABSENT"
  <2>1. <<"user", u>> \in Keys
    BY KeysAre
  <2>2. \/ Present(w, <<"user", u>>) /\ Present(c, <<"user", u>>)
           /\ Value(c, <<"user", u>>) = Value(w, <<"user", u>>)
        \/ ~Present(w, <<"user", u>>) /\ ~Present(c, <<"user", u>>)
    BY <1>1, <1>2, <2>1
  <2> QED BY <2>2, Values, Presence
<1>3. ASSUME NEW o \in Orgs, <<"organization", o>> \in known
      PROVE  IF w.organization[o].status # "ABSENT" THEN c.organization[o] = w.organization[o]
             ELSE c.organization[o].status = "ABSENT"
  <2>1. <<"organization", o>> \in Keys
    BY KeysAre
  <2>2. \/ Present(w, <<"organization", o>>) /\ Present(c, <<"organization", o>>)
           /\ Value(c, <<"organization", o>>) = Value(w, <<"organization", o>>)
        \/ ~Present(w, <<"organization", o>>) /\ ~Present(c, <<"organization", o>>)
    BY <1>1, <1>3, <2>1
  <2> QED BY <2>2, Values, Presence
<1>4. ASSUME NEW p \in Projects, <<"project", p>> \in known
      PROVE  IF w.project[p].status # "ABSENT" THEN c.project[p] = w.project[p]
             ELSE c.project[p].status = "ABSENT"
  <2>1. <<"project", p>> \in Keys
    BY KeysAre
  <2>2. \/ Present(w, <<"project", p>>) /\ Present(c, <<"project", p>>)
           /\ Value(c, <<"project", p>>) = Value(w, <<"project", p>>)
        \/ ~Present(w, <<"project", p>>) /\ ~Present(c, <<"project", p>>)
    BY <1>1, <1>4, <2>1
  <2> QED BY <2>2, Values, Presence
<1>5. ASSUME NEW p \in Projects, NEW u \in Users, <<"member", <<p, u>>>> \in known
      PROVE  w.member[<<p, u>>] <=> c.member[<<p, u>>]
  <2>1. <<"member", <<p, u>>>> \in Keys
    BY KeysAre
  <2>2. \/ Present(w, <<"member", <<p, u>>>>) /\ Present(c, <<"member", <<p, u>>>>)
           /\ Value(c, <<"member", <<p, u>>>>) = Value(w, <<"member", <<p, u>>>>)
        \/ ~Present(w, <<"member", <<p, u>>>>) /\ ~Present(c, <<"member", <<p, u>>>>)
    BY <1>1, <1>5, <2>1
  <2> QED BY <2>2, Values, Presence
<1>6. ASSUME NEW i \in Invoices, <<"invoice", i>> \in known
      PROVE  IF w.invoice[i].status # "ABSENT" THEN c.invoice[i] = w.invoice[i]
             ELSE c.invoice[i].status = "ABSENT"
  <2>1. <<"invoice", i>> \in Keys
    BY KeysAre
  <2>2. \/ Present(w, <<"invoice", i>>) /\ Present(c, <<"invoice", i>>)
           /\ Value(c, <<"invoice", i>>) = Value(w, <<"invoice", i>>)
        \/ ~Present(w, <<"invoice", i>>) /\ ~Present(c, <<"invoice", i>>)
    BY <1>1, <1>6, <2>1
  <2> QED BY <2>2, Values, Presence
<1>7. ASSUME NEW no \in Numbers, <<"numberIndex", no>> \in known
      PROVE  c.numberIndex[no] = w.numberIndex[no]
  <2>1. <<"numberIndex", no>> \in Keys
    BY KeysAre
  <2>2. \/ Present(w, <<"numberIndex", no>>) /\ Present(c, <<"numberIndex", no>>)
           /\ Value(c, <<"numberIndex", no>>) = Value(w, <<"numberIndex", no>>)
        \/ ~Present(w, <<"numberIndex", no>>) /\ ~Present(c, <<"numberIndex", no>>)
    BY <1>1, <1>7, <2>1
  <2> QED BY <2>2, Values, Presence
<1>8. ASSUME NEW i \in Invoices, <<"voidRequest", i>> \in known
      PROVE  IF w.voidRequest[i].status # "ABSENT" THEN c.voidRequest[i] = w.voidRequest[i]
             ELSE c.voidRequest[i].status = "ABSENT"
  <2>1. <<"voidRequest", i>> \in Keys
    BY KeysAre
  <2>2. \/ Present(w, <<"voidRequest", i>>) /\ Present(c, <<"voidRequest", i>>)
           /\ Value(c, <<"voidRequest", i>>) = Value(w, <<"voidRequest", i>>)
        \/ ~Present(w, <<"voidRequest", i>>) /\ ~Present(c, <<"voidRequest", i>>)
    BY <1>1, <1>8, <2>1
  <2> QED BY <2>2, Values, Presence
<1>9. ASSUME NEW i \in Invoices, <<"transfer", i>> \in known
      PROVE  IF w.transfer[i].status # "ABSENT" THEN c.transfer[i] = w.transfer[i]
             ELSE c.transfer[i].status = "ABSENT"
  <2>1. <<"transfer", i>> \in Keys
    BY KeysAre
  <2>2. \/ Present(w, <<"transfer", i>>) /\ Present(c, <<"transfer", i>>)
           /\ Value(c, <<"transfer", i>>) = Value(w, <<"transfer", i>>)
        \/ ~Present(w, <<"transfer", i>>) /\ ~Present(c, <<"transfer", i>>)
    BY <1>1, <1>9, <2>1
  <2> QED BY <2>2, Values, Presence
<1>10. ASSUME NEW r \in Reimbursements, <<"reimbursement", r>> \in known
      PROVE  IF w.reimbursement[r].status # "ABSENT" THEN c.reimbursement[r] = w.reimbursement[r]
             ELSE c.reimbursement[r].status = "ABSENT"
  <2>1. <<"reimbursement", r>> \in Keys
    BY KeysAre
  <2>2. \/ Present(w, <<"reimbursement", r>>) /\ Present(c, <<"reimbursement", r>>)
           /\ Value(c, <<"reimbursement", r>>) = Value(w, <<"reimbursement", r>>)
        \/ ~Present(w, <<"reimbursement", r>>) /\ ~Present(c, <<"reimbursement", r>>)
    BY <1>1, <1>10, <2>1
  <2> QED BY <2>2, Values, Presence
<1>11. ASSUME NEW i \in Invoices, <<"reimbursementInvoice", i>> \in known
      PROVE  c.reimbursementInvoice[i] = w.reimbursementInvoice[i]
  <2>1. <<"reimbursementInvoice", i>> \in Keys
    BY KeysAre
  <2>2. \/ Present(w, <<"reimbursementInvoice", i>>) /\ Present(c, <<"reimbursementInvoice", i>>)
           /\ Value(c, <<"reimbursementInvoice", i>>) = Value(w, <<"reimbursementInvoice", i>>)
        \/ ~Present(w, <<"reimbursementInvoice", i>>) /\ ~Present(c, <<"reimbursementInvoice", i>>)
    BY <1>1, <1>11, <2>1
  <2> QED BY <2>2, Values, Presence
<1> QED BY <1>2, <1>3, <1>4, <1>5, <1>6, <1>7, <1>8, <1>9, <1>10, <1>11

\* Whoever may act on one of them may act on the other.
LEMMA UserAgrees ==
  ASSUME NEW w, NEW c, NEW known, Agree(w, c, known), NEW u, NEW msp, NEW roles,
         UserActs(w, known, u, msp, roles)
  PROVE  /\ UserActs(c, known, u, msp, roles)
         /\ On(c)!BusinessUserOrganization(u) = On(w)!BusinessUserOrganization(u)
<1>1. IF w.user[u].status # "ABSENT" THEN c.user[u] = w.user[u] ELSE c.user[u].status = "ABSENT"
  BY AgreeOn DEF UserActs
<1> QED BY <1>1
        DEF UserActs, On!RequireRegisteredRole, On!UserExists, On!DemoAccounts,
            On!BusinessUserOrganization

LEMMA MemberAgrees ==
  ASSUME NEW w, NEW c, NEW known, Agree(w, c, known), NEW p, NEW u, NEW caller,
         MemberActs(w, known, p, u, caller)
  PROVE  MemberActs(c, known, p, u, caller) /\ c.project[p] = w.project[p]
<1>1. c.project[p] = w.project[p] /\ w.project[p].status # "ABSENT"
  BY AgreeOn DEF MemberActs, On!ProjectExists
<1>2. IF w.user[u].status # "ABSENT" THEN c.user[u] = w.user[u] ELSE c.user[u].status = "ABSENT"
  BY AgreeOn DEF MemberActs
<1>3. \A msp, roles : /\ On(c)!RequireActiveBusinessUser(u, msp, caller, roles)
                            <=> On(w)!RequireActiveBusinessUser(u, msp, caller, roles)
                      /\ On(c)!BusinessUserOrganization(u) = On(w)!BusinessUserOrganization(u)
  BY <1>2 DEF On!RequireActiveBusinessUser, On!RequireRegisteredRole, On!UserExists,
              On!DemoAccounts, On!BusinessUserOrganization
<1>4. On(c)!RequireProjectApplicant(p, u, caller) <=> On(w)!RequireProjectApplicant(p, u, caller)
  BY <1>1, <1>3 DEF On!RequireProjectApplicant, On!SameOrganization
<1>5. <<"member", <<p, u>>>> \in known => (u \in Members(w)[p] <=> u \in Members(c)[p])
  BY AgreeOn DEF MemberActs, Members
<1>6. <<"member", <<p, u>>>> \in known /\ On(w)!RequireProjectMember(p, u, caller)
        => On(c)!RequireProjectMember(p, u, caller)
  BY <1>1, <1>3, <1>4, <1>5 DEF On!RequireProjectMember
<1> QED BY <1>1, <1>4, <1>6 DEF MemberActs, On!ProjectExists

LEMMA ManagerAgrees ==
  ASSUME NEW w, NEW c, NEW known, Agree(w, c, known), NEW p, NEW u, NEW caller, NEW role,
         ManagerActs(w, known, p, u, caller, role)
  PROVE  ManagerActs(c, known, p, u, caller, role) /\ c.project[p] = w.project[p]
<1>1. c.project[p] = w.project[p] /\ w.project[p].status # "ABSENT"
  BY AgreeOn DEF ManagerActs, On!ProjectExists
<1>2. IF w.user[u].status # "ABSENT" THEN c.user[u] = w.user[u] ELSE c.user[u].status = "ABSENT"
  BY AgreeOn DEF ManagerActs
<1>3. \A msp, roles : On(c)!RequireActiveBusinessUser(u, msp, caller, roles)
                        <=> On(w)!RequireActiveBusinessUser(u, msp, caller, roles)
  BY <1>2 DEF On!RequireActiveBusinessUser, On!RequireRegisteredRole, On!UserExists,
              On!DemoAccounts
<1>4. LET o == w.project[p].org
      IN  On(w)!UserExists(u) /\ w.user[u].org # o =>
              /\ o \in Orgs /\ <<"organization", o>> \in known
              /\ IF w.organization[o].status # "ABSENT" THEN c.organization[o] = w.organization[o]
                 ELSE c.organization[o].status = "ABSENT"
  BY AgreeOn DEF ManagerActs
<1>5. On(c)!RequireProjectManager(p, u, caller, role)
  BY <1>1, <1>2, <1>3, <1>4
     DEF ManagerActs, On!RequireProjectManager, On!UserExists, On!OrganizationExists
<1> QED BY <1>1, <1>2, <1>4, <1>5 DEF ManagerActs, On!ProjectExists, On!UserExists

LEMMA ValidAgrees ==
  ASSUME NEW w, NEW c, NEW known, Agree(w, c, known), NEW i, FoundValid(w, known, i)
  PROVE  FoundValid(c, known, i) /\ c.invoice[i] = w.invoice[i]
BY AgreeOn DEF FoundValid, On!NotVoided, On!InvoiceExists

LEMMA UnclaimedAgrees ==
  ASSUME NEW w, NEW c, NEW known, Agree(w, c, known), NEW i, FoundUnclaimed(w, known, i)
  PROVE  FoundUnclaimed(c, known, i)
BY AgreeOn DEF FoundUnclaimed, On!EnsureInvoiceCanBeVoided

LEMMA IssuerAgrees ==
  ASSUME NEW w, NEW c, NEW known, Agree(w, c, known), NEW i, NEW u, NEW caller,
         IssuerActs(w, known, i, u, caller)
  PROVE  IssuerActs(c, known, i, u, caller) /\ c.invoice[i] = w.invoice[i]
<1>1. c.invoice[i] = w.invoice[i] /\ w.invoice[i].status # "ABSENT"
  BY AgreeOn DEF IssuerActs, On!InvoiceExists
<1>2. IF w.user[u].status # "ABSENT" THEN c.user[u] = w.user[u] ELSE c.user[u].status = "ABSENT"
  BY AgreeOn DEF IssuerActs
<1>3. On(c)!RequireIssuer(i, u, caller)
  BY <1>1, <1>2
     DEF IssuerActs, On!RequireIssuer, On!RequireActiveBusinessUser, On!RequireRegisteredRole,
         On!UserExists, On!DemoAccounts, On!BusinessUserOrganization, On!SameOrganization
<1> QED BY <1>1, <1>3 DEF IssuerActs, On!InvoiceExists

LEMMA ClaimAgrees ==
  ASSUME NEW w, NEW c, NEW known, Agree(w, c, known), NEW r, NEW p, NEW i,
         FoundClaim(w, known, r, p, i)
  PROVE  FoundClaim(c, known, r, p, i) /\ c.reimbursement[r] = w.reimbursement[r]
BY AgreeOn DEF FoundClaim, On!ReimbursementExists

----------------------------------------------------------------------------
(* What ran on one of two ledgers that agree on the reads runs on the      *)
(* other, with the same writes.                                            *)

LEMMA CreationAgrees ==
  ASSUME NEW w, NEW c, NEW known, Agree(w, c, known), NEW writes, NEW record,
         NEW i, NEW no, NEW total, NEW u, NEW p, NEW original, NEW caller,
         CreationRuns(w, known, writes, record, i, no, total, u, p, original, caller)
  PROVE  CreationRuns(c, known, writes, record, i, no, total, u, p, original, caller)
<1>1. /\ UserActs(c, known, u, caller, {"ISSUER", "PROJECT_MEMBER"})
      /\ On(c)!BusinessUserOrganization(u) = On(w)!BusinessUserOrganization(u)
  BY UserAgrees DEF CreationRuns
<1>2. \A j \in Invoices : IF w.invoice[j].status # "ABSENT" THEN c.invoice[j] = w.invoice[j]
                          ELSE c.invoice[j].status = "ABSENT"
  BY AgreeOn DEF CreationRuns
<1>3. c.numberIndex[no] = w.numberIndex[no]
  BY AgreeOn DEF CreationRuns
<1>4. /\ On(c)!InvoiceNumberExists(no) <=> On(w)!InvoiceNumberExists(no)
      /\ \A j \in Invoices : On(c)!InvoiceNumberExistsExcept(no, j)
                               <=> On(w)!InvoiceNumberExistsExcept(no, j)
  BY <1>2, <1>3 DEF On!InvoiceNumberExists, On!InvoiceNumberExistsExcept, On!InvoiceExists
<1>5. ASSUME p # None
      PROVE  /\ MemberActs(c, known, p, u, caller)
             /\ On(c)!LinkableAtCreation(p, u, On(w)!BusinessUserOrganization(u), caller)
  <2>1. MemberActs(w, known, p, u, caller)
    BY <1>5 DEF CreationRuns
  <2>2. MemberActs(c, known, p, u, caller) /\ c.project[p] = w.project[p]
    BY <2>1, MemberAgrees
  <2>3. On(c)!RequireProjectMember(p, u, caller)
    BY <2>2 DEF MemberActs, On!RequireProjectMember
  <2> QED BY <1>5, <2>2, <2>3
          DEF CreationRuns, On!LinkableAtCreation, On!OpenForAssociation, On!InSettlement
<1>6. ASSUME original # None
      PROVE  /\ FoundUnclaimed(c, known, original)
             /\ On(c)!Corrects(original, no, On(w)!BusinessUserOrganization(u), caller)
  <2>1. /\ FoundUnclaimed(w, known, original)
        /\ On(w)!Corrects(original, no, On(w)!BusinessUserOrganization(u), caller)
    BY <1>6 DEF CreationRuns
  <2>2. FoundUnclaimed(c, known, original)
    BY <2>1, UnclaimedAgrees
  <2>3. c.invoice[original] = w.invoice[original]
    BY <1>2, <2>1 DEF FoundUnclaimed, On!Corrects
  <2> QED BY <1>4, <2>1, <2>2, <2>3 DEF FoundUnclaimed, On!Corrects
<1> QED BY <1>1, <1>2, <1>4, <1>5, <1>6 DEF CreationRuns, On!InvoiceExists

LEMMA LinkAgrees ==
  ASSUME NEW w, NEW c, NEW known, Agree(w, c, known), NEW writes, NEW record,
         NEW i, NEW p, NEW u, NEW caller
  PROVE  /\ LinkRuns(w, known, writes, record, i, p, u, caller)
              => LinkRuns(c, known, writes, record, i, p, u, caller)
         /\ UnlinkRuns(w, known, writes, record, i, p, u, caller)
              => UnlinkRuns(c, known, writes, record, i, p, u, caller)
<1>1. ASSUME FoundValid(w, known, i), FoundUnclaimed(w, known, i),
             MemberActs(w, known, p, u, caller)
      PROVE  /\ FoundValid(c, known, i) /\ FoundUnclaimed(c, known, i)
             /\ MemberActs(c, known, p, u, caller)
             /\ c.invoice[i] = w.invoice[i] /\ c.project[p] = w.project[p]
  BY <1>1, ValidAgrees, UnclaimedAgrees, MemberAgrees
<1> QED BY <1>1
        DEF LinkRuns, UnlinkRuns, On!OpenForAssociation, On!InSettlement,
            On!SameIssuerOrganization, On!SameOrganization

LEMMA VoidAgrees ==
  ASSUME NEW w, NEW c, NEW known, Agree(w, c, known), NEW writes, NEW record,
         NEW i, NEW u, NEW caller, VoidRuns(w, known, writes, record, i, u, caller)
  PROVE  VoidRuns(c, known, writes, record, i, u, caller)
BY ValidAgrees, UnclaimedAgrees, IssuerAgrees DEF VoidRuns

LEMMA VoidRequestAgrees ==
  ASSUME NEW w, NEW c, NEW known, Agree(w, c, known), NEW writes, NEW record,
         NEW i, NEW p, NEW u, NEW caller,
         VoidRequestRuns(w, known, writes, record, i, p, u, caller)
  PROVE  VoidRequestRuns(c, known, writes, record, i, p, u, caller)
<1>1. c.voidRequest[i].status # "PENDING_REVIEW"
  BY AgreeOn DEF VoidRequestRuns, FoundValid
<1> QED BY <1>1, ValidAgrees, UnclaimedAgrees, MemberAgrees DEF VoidRequestRuns

LEMMA VoidReviewAgrees ==
  ASSUME NEW w, NEW c, NEW known, Agree(w, c, known), NEW writes, NEW record,
         NEW i, NEW decision, NEW u, NEW caller,
         VoidReviewRuns(w, known, writes, record, i, decision, u, caller)
  PROVE  VoidReviewRuns(c, known, writes, record, i, decision, u, caller)
<1>1. c.voidRequest[i] = w.voidRequest[i]
  BY AgreeOn DEF VoidReviewRuns, IssuerActs
<1>2. IssuerActs(c, known, i, u, caller) /\ c.invoice[i] = w.invoice[i]
  BY IssuerAgrees DEF VoidReviewRuns
<1>3. FoundValid(w, known, i) /\ FoundUnclaimed(w, known, i)
        => FoundValid(c, known, i) /\ FoundUnclaimed(c, known, i)
  BY ValidAgrees, UnclaimedAgrees
<1> QED BY <1>1, <1>2, <1>3 DEF VoidReviewRuns

LEMMA TransferAgrees ==
  ASSUME NEW w, NEW c, NEW known, Agree(w, c, known), NEW writes, NEW record,
         NEW i, NEW to, NEW toMsp, NEW u, NEW caller,
         TransferRuns(w, known, writes, record, i, to, toMsp, u, caller)
  PROVE  TransferRuns(c, known, writes, record, i, to, toMsp, u, caller)
<1>1. c.transfer[i].status # "PENDING"
  BY AgreeOn DEF TransferRuns, FoundValid
<1> QED BY <1>1, ValidAgrees, UserAgrees DEF TransferRuns

LEMMA AnswerAgrees ==
  ASSUME NEW w, NEW c, NEW known, Agree(w, c, known), NEW writes, NEW record,
         NEW i, NEW decision, NEW u, NEW caller,
         AnswerRuns(w, known, writes, record, i, decision, u, caller)
  PROVE  AnswerRuns(c, known, writes, record, i, decision, u, caller)
<1>1. c.transfer[i] = w.transfer[i]
  BY AgreeOn DEF AnswerRuns
<1>2. /\ UserActs(c, known, u, caller, HandoffRoles)
      /\ On(c)!BusinessUserOrganization(u) = On(w)!BusinessUserOrganization(u)
  BY UserAgrees DEF AnswerRuns
<1>3. FoundValid(w, known, i) /\ On(w)!StillAvailable(i)
        => /\ FoundValid(c, known, i) /\ On(c)!StillAvailable(i)
           /\ On(c)!HandedTo(c.invoice[i], u, caller) = On(w)!HandedTo(w.invoice[i], u, caller)
  <2>1. ASSUME FoundValid(w, known, i)
        PROVE  FoundValid(c, known, i) /\ c.invoice[i] = w.invoice[i]
    BY <2>1, ValidAgrees
  <2>2. \A inv : On(c)!HandedTo(inv, u, caller) = On(w)!HandedTo(inv, u, caller)
    BY <1>2 DEF On!HandedTo
  <2>3. FoundValid(c, known, i) /\ c.invoice[i] = w.invoice[i] /\ On(w)!StillAvailable(i)
          => On(c)!StillAvailable(i)
    BY <1>1 DEF On!StillAvailable, FoundValid
  <2> QED BY <2>1, <2>2, <2>3
<1> QED BY <1>1, <1>2, <1>3 DEF AnswerRuns

LEMMA CancelAgrees ==
  ASSUME NEW w, NEW c, NEW known, Agree(w, c, known), NEW writes, NEW record,
         NEW i, NEW u, CancelRuns(w, known, writes, record, i, u)
  PROVE  CancelRuns(c, known, writes, record, i, u)
<1>1. c.transfer[i] = w.transfer[i] /\ c.invoice[i] = w.invoice[i]
  BY AgreeOn DEF CancelRuns, On!InvoiceExists
<1> QED BY <1>1 DEF CancelRuns, On!InvoiceExists

LEMMA ClaimRunAgrees ==
  ASSUME NEW w, NEW c, NEW known, Agree(w, c, known), NEW writes, NEW record,
         NEW r, NEW p, NEW i, NEW u, NEW caller,
         ClaimRuns(w, known, writes, record, r, p, i, u, caller)
  PROVE  ClaimRuns(c, known, writes, record, r, p, i, u, caller)
<1>1. c.reimbursement[r].status = "ABSENT"
  BY AgreeOn DEF ClaimRuns, On!ReimbursementExists
<1> QED BY <1>1, ValidAgrees, UnclaimedAgrees, MemberAgrees
        DEF ClaimRuns, On!ReimbursementExists, On!InSettlement

LEMMA ReviewAgrees ==
  ASSUME NEW w, NEW c, NEW known, Agree(w, c, known), NEW writes, NEW record,
         NEW r, NEW p, NEW i, NEW decision, NEW u, NEW caller,
         ReviewRuns(w, known, writes, record, r, p, i, decision, u, caller)
  PROVE  ReviewRuns(c, known, writes, record, r, p, i, decision, u, caller)
<1>1. FoundClaim(c, known, r, p, i) /\ c.reimbursement[r] = w.reimbursement[r]
  BY ClaimAgrees DEF ReviewRuns
<1>2. ManagerActs(c, known, p, u, caller, "PROJECT_REVIEWER") /\ c.project[p] = w.project[p]
  BY ManagerAgrees DEF ReviewRuns
<1>3. FoundValid(c, known, i)
  BY ValidAgrees DEF ReviewRuns
<1> QED BY <1>1, <1>2, <1>3 DEF ReviewRuns

LEMMA ResubmissionAgrees ==
  ASSUME NEW w, NEW c, NEW known, Agree(w, c, known), NEW writes, NEW record,
         NEW r, NEW p, NEW i, NEW u, NEW caller
  PROVE  /\ ResubmissionRuns(w, known, writes, record, r, p, i, u, caller)
              => ResubmissionRuns(c, known, writes, record, r, p, i, u, caller)
         /\ WithdrawalRuns(w, known, writes, record, r, p, i, u, caller)
              => WithdrawalRuns(c, known, writes, record, r, p, i, u, caller)
<1>1. ASSUME FoundClaim(w, known, r, p, i), MemberActs(w, known, p, u, caller)
      PROVE  /\ FoundClaim(c, known, r, p, i) /\ MemberActs(c, known, p, u, caller)
             /\ c.reimbursement[r] = w.reimbursement[r] /\ c.project[p] = w.project[p]
  BY <1>1, ClaimAgrees, MemberAgrees
<1> QED BY <1>1 DEF ResubmissionRuns, WithdrawalRuns

LEMMA PaymentAgrees ==
  ASSUME NEW w, NEW c, NEW known, Agree(w, c, known), NEW writes, NEW record,
         NEW r, NEW p, NEW i, NEW u, NEW caller,
         PaymentRuns(w, known, writes, record, r, p, i, u, caller)
  PROVE  PaymentRuns(c, known, writes, record, r, p, i, u, caller)
<1>1. FoundClaim(c, known, r, p, i) /\ c.reimbursement[r] = w.reimbursement[r]
  BY ClaimAgrees DEF PaymentRuns
<1>2. ManagerActs(c, known, p, u, caller, "FINANCE_ADMIN") /\ c.project[p] = w.project[p]
  BY ManagerAgrees DEF PaymentRuns
<1>3. FoundValid(c, known, i)
  BY ValidAgrees DEF PaymentRuns
<1> QED BY <1>1, <1>2, <1>3 DEF PaymentRuns

\* The scan finds a claim that was not there before.
LEMMA SettlementAgrees ==
  ASSUME NEW w, NEW c, NEW known, Agree(w, c, known), NEW writes, NEW record,
         NEW p, NEW u, NEW caller, SettlementRuns(w, known, writes, record, p, u, caller)
  PROVE  SettlementRuns(c, known, writes, record, p, u, caller)
<1>1. ManagerActs(c, known, p, u, caller, "FINANCE_ADMIN") /\ c.project[p] = w.project[p]
  BY ManagerAgrees DEF SettlementRuns
<1>2. \A r \in Reimbursements :
          IF w.reimbursement[r].status # "ABSENT" THEN c.reimbursement[r] = w.reimbursement[r]
          ELSE c.reimbursement[r].status = "ABSENT"
  BY AgreeOn DEF SettlementRuns
<1>3. On(c)!NothingAwaitsAction(p)
  BY <1>2 DEF SettlementRuns, On!NothingAwaitsAction
<1> QED BY <1>1, <1>3 DEF SettlementRuns, On!InSettlement

LEMMA RunsAgree ==
  ASSUME NEW w, NEW c, NEW known, Agree(w, c, known), NEW writes, NEW record,
         Runs(w, known, writes, record)
  PROVE  Runs(c, known, writes, record)
<1>1. RecordRuns(w, known, writes, record) => RecordRuns(c, known, writes, record)
  BY CreationAgrees, LinkAgrees DEF RecordRuns
<1>2. CancellationRuns(w, known, writes, record) => CancellationRuns(c, known, writes, record)
  BY VoidAgrees, VoidRequestAgrees, VoidReviewAgrees DEF CancellationRuns
<1>3. CustodyRuns(w, known, writes, record) => CustodyRuns(c, known, writes, record)
  BY TransferAgrees, AnswerAgrees, CancelAgrees DEF CustodyRuns
<1>4. ClaimingRuns(w, known, writes, record) => ClaimingRuns(c, known, writes, record)
  BY ClaimRunAgrees, ReviewAgrees, ResubmissionAgrees, PaymentAgrees DEF ClaimingRuns
<1> QED BY <1>1, <1>2, <1>3, <1>4, SettlementAgrees DEF Runs

----------------------------------------------------------------------------
(* The life of a transaction: what the gateway holds between the run of    *)
(* the chaincode and the validation.                                       *)

\* The ledger x is w after the writes.
Effect(w, x, writes) ==
  \A key \in Keys :
      Value(x, key) = IF key \in DOMAIN writes THEN writes[key] ELSE Value(w, key)

\* No operation of the phase writes a member key.
NoMember(writes) == \A p \in Projects, u \in Users : <<"member", <<p, u>>>> \notin DOMAIN writes

\* What is written was read and there, or is changed by the write.
Sure(w, known, writes) ==
  \A key \in DOMAIN writes :
      /\ key \in Keys
      /\ (key \in known /\ Present(w, key)) \/ writes[key] # Value(w, key)

\* The transaction comes from a run on some ledger w, and unless a key it
\* found there was overtaken, the ledger c still agrees with w on those.
Endorsement(tx, w, writes) ==
  /\ \A key \in tx.present : Present(w, key)
  /\ \A key \in tx.absent : ~Present(w, key)
  /\ DOMAIN tx.writes = {key \in DOMAIN writes : writes[key] # Value(w, key)}
  /\ \A key \in DOMAIN tx.writes : tx.writes[key] = writes[key]
  /\ Sure(w, tx.present \cup tx.absent, writes) /\ NoMember(writes)
  /\ Runs(w, tx.present \cup tx.absent, writes, tx.evidence)

Endorsable(tx, c) ==
  /\ tx = [present |-> tx.present, absent |-> tx.absent, writes |-> tx.writes,
           evidence |-> tx.evidence, overtaken |-> tx.overtaken]
  /\ \E w, writes :
        /\ Endorsement(tx, w, writes)
        /\ ~tx.overtaken => \A key \in tx.present \cap Keys : Value(c, key) = Value(w, key)

LEMMA KeyShape ==
  ASSUME NEW w, Shaped(w), NEW key \in Keys
  PROVE  /\ key = <<key[1], key[2]>> /\ key[1] \in DOMAIN w
         /\ key[2] \in DOMAIN w[key[1]]
<1>1. CASE \E o \in Orgs : key = <<"organization", o>>
  BY <1>1 DEF Shaped, Families
<1>2. CASE \E u \in Users : key = <<"user", u>>
  BY <1>2 DEF Shaped, Families
<1>3. CASE \E p \in Projects : key = <<"project", p>>
  BY <1>3 DEF Shaped, Families
<1>4. CASE \E p \in Projects, u \in Users : key = <<"member", <<p, u>>>>
  BY <1>4 DEF Shaped, Families
<1>5. CASE \E i \in Invoices : key = <<"invoice", i>>
  BY <1>5 DEF Shaped, Families
<1>6. CASE \E no \in Numbers : key = <<"numberIndex", no>>
  BY <1>6 DEF Shaped, Families
<1>7. CASE \E i \in Invoices : key = <<"voidRequest", i>>
  BY <1>7 DEF Shaped, Families
<1>8. CASE \E i \in Invoices : key = <<"transfer", i>>
  BY <1>8 DEF Shaped, Families
<1>9. CASE \E r \in Reimbursements : key = <<"reimbursement", r>>
  BY <1>9 DEF Shaped, Families
<1>10. CASE \E i \in Invoices : key = <<"reimbursementInvoice", i>>
  BY <1>10 DEF Shaped, Families
<1> QED BY <1>1, <1>2, <1>3, <1>4, <1>5, <1>6, <1>7, <1>8, <1>9, <1>10, KeyIs

LEMMA PutValue ==
  ASSUME NEW w, Shaped(w), NEW writes, NEW key \in Keys
  PROVE  Value(Put(w, writes), key) = IF key \in DOMAIN writes THEN writes[key] ELSE Value(w, key)
BY KeyShape DEF Put, Value

LEMMA PutShaped ==
  ASSUME NEW w, Shaped(w), NEW writes, NoMember(writes)
  PROVE  Shaped(Put(w, writes))
<1> DEFINE x == Put(w, writes)
<1>1. /\ DOMAIN x = Families
      /\ \A family \in Families :
            x[family] = [id \in DOMAIN w[family] |->
                           IF <<family, id>> \in DOMAIN writes
                           THEN writes[<<family, id>>] ELSE w[family][id]]
  BY DEF Shaped, Put
<1> HIDE DEF x
<1>2. x.member \in [Projects \X Users -> BOOLEAN]
  <2>1. x["member"] = [pu \in Projects \X Users |->
                         IF <<"member", pu>> \in DOMAIN writes
                         THEN writes[<<"member", pu>>] ELSE w["member"][pu]]
    BY <1>1 DEF Shaped, Families
  <2>2. \A pu \in Projects \X Users : <<"member", pu>> \notin DOMAIN writes
    BY DEF NoMember
  <2>3. \A pu \in Projects \X Users : w["member"][pu] \in BOOLEAN
    BY DEF Shaped
  <2> QED BY <2>1, <2>2, <2>3
<1>3. /\ x.organization = [o \in Orgs |-> x.organization[o]]
      /\ x.user = [u \in Users |-> x.user[u]]
      /\ x.project = [p \in Projects |-> x.project[p]]
      /\ x.invoice = [i \in Invoices |-> x.invoice[i]]
      /\ x.numberIndex = [no \in Numbers |-> x.numberIndex[no]]
      /\ x.voidRequest = [i \in Invoices |-> x.voidRequest[i]]
      /\ x.transfer = [i \in Invoices |-> x.transfer[i]]
      /\ x.reimbursement = [r \in Reimbursements |-> x.reimbursement[r]]
      /\ x.reimbursementInvoice = [i \in Invoices |-> x.reimbursementInvoice[i]]
  BY <1>1 DEF Shaped, Families
<1> QED BY <1>1, <1>2, <1>3 DEF Shaped, x

LEMMA PresentByValue ==
  ASSUME NEW w, NEW c, NEW key, Value(c, key) = Value(w, key)
  PROVE  Present(c, key) = Present(w, key)
BY DEF Present

\* What the peer's run gives the gateway.
LEMMA EndorsementMade ==
  ASSUME NEW old, NEW new, NEW reads, NEW writes, NEW record,
         Runs(old, reads, writes, record), Sure(old, reads, writes), NoMember(writes),
         Effect(old, new, writes)
  PROVE  LET present == {key \in reads : Present(old, key)}
         IN  Endorsable([present |-> present, absent |-> reads \ present,
                         writes |-> [key \in ChangedKeys(old, new) |-> Value(new, key)],
                         evidence |-> record, overtaken |-> FALSE], old)
<1> DEFINE present == {key \in reads : Present(old, key)}
           tx == [present |-> present, absent |-> reads \ present,
                  writes |-> [key \in ChangedKeys(old, new) |-> Value(new, key)],
                  evidence |-> record, overtaken |-> FALSE]
<1>1. present \cup (reads \ present) = reads
  OBVIOUS
<1>2. ChangedKeys(old, new) = {key \in DOMAIN writes : writes[key] # Value(old, key)}
  BY DEF ChangedKeys, Effect, Sure
<1>3. \A key \in ChangedKeys(old, new) : Value(new, key) = writes[key]
  BY <1>2 DEF Effect, Sure
<1>4. /\ tx.present = present /\ tx.absent = reads \ present /\ tx.evidence = record
      /\ DOMAIN tx.writes = ChangedKeys(old, new)
      /\ \A key \in ChangedKeys(old, new) : tx.writes[key] = Value(new, key)
      /\ tx = [present |-> tx.present, absent |-> tx.absent, writes |-> tx.writes,
               evidence |-> tx.evidence, overtaken |-> tx.overtaken]
  OBVIOUS
<1> HIDE DEF tx
<1>5. Endorsement(tx, old, writes)
  BY <1>1, <1>2, <1>3, <1>4 DEF Endorsement
<1>6. Endorsable(tx, old)
  BY <1>4, <1>5 DEF Endorsable
<1> QED BY <1>6 DEF tx

\* It stays what it was when another takes effect.
LEMMA EndorsementKept ==
  ASSUME NEW tx, NEW c, NEW x, NEW written, Endorsable(tx, c),
         \A key \in Keys \ written : Value(x, key) = Value(c, key)
  PROVE  Endorsable(Overtake(tx, written), x)
<1> DEFINE later == Overtake(tx, written)
<1>1. /\ later.present = tx.present /\ later.absent = tx.absent /\ later.writes = tx.writes
      /\ later.evidence = tx.evidence
      /\ later.overtaken = (tx.overtaken \/ tx.present \cap written # {})
      /\ later = [present |-> later.present, absent |-> later.absent, writes |-> later.writes,
                  evidence |-> later.evidence, overtaken |-> later.overtaken]
  BY DEF Endorsable, Overtake
<1> HIDE DEF later
<1>2. PICK w, writes :
          /\ Endorsement(tx, w, writes)
          /\ ~tx.overtaken => \A key \in tx.present \cap Keys : Value(c, key) = Value(w, key)
  BY DEF Endorsable
<1>3. Endorsement(later, w, writes)
  BY <1>1, <1>2 DEF Endorsement
<1>4. ~later.overtaken => \A key \in later.present \cap Keys : Value(x, key) = Value(w, key)
  BY <1>1, <1>2
<1>5. Endorsable(later, x)
  BY <1>1, <1>3, <1>4 DEF Endorsable
<1> QED BY <1>5 DEF later

\* Once it is found valid, the chaincode would do the same on the ledger
\* it meets.
LEMMA EndorsementHolds ==
  ASSUME NEW tx, NEW c, Shaped(c), Endorsable(tx, c), ~tx.overtaken,
         \A key \in tx.absent : ~Present(c, key)
  PROVE  /\ \E known, writes : /\ Runs(c, known, writes, tx.evidence)
                               /\ Effect(c, Put(c, tx.writes), writes)
         /\ NoMember(tx.writes)
<1>1. PICK w, writes :
          /\ Endorsement(tx, w, writes)
          /\ \A key \in tx.present \cap Keys : Value(c, key) = Value(w, key)
  BY DEF Endorsable
<1> DEFINE known == tx.present \cup tx.absent
<1>2. Agree(w, c, known)
  <2> SUFFICES ASSUME NEW key \in known \cap Keys
               PROVE  \/ Present(w, key) /\ Value(c, key) = Value(w, key) /\ Present(c, key)
                      \/ ~Present(w, key) /\ ~Present(c, key)
    BY DEF Agree
  <2>1. CASE key \in tx.present
    BY <1>1, <2>1, PresentByValue DEF Endorsement
  <2>2. CASE key \in tx.absent
    BY <1>1, <2>2 DEF Endorsement
  <2> QED BY <2>1, <2>2
<1>3. Runs(c, known, writes, tx.evidence)
  BY <1>1, <1>2, RunsAgree DEF Endorsement
<1>4. ASSUME NEW key \in Keys
      PROVE  Value(Put(c, tx.writes), key)
               = IF key \in DOMAIN writes THEN writes[key] ELSE Value(c, key)
  <2>1. Value(Put(c, tx.writes), key)
          = IF key \in DOMAIN tx.writes THEN tx.writes[key] ELSE Value(c, key)
    BY PutValue
  <2>2. CASE key \in DOMAIN tx.writes
    BY <1>1, <2>1, <2>2 DEF Endorsement
  <2>3. CASE key \notin DOMAIN tx.writes /\ key \in DOMAIN writes
    <3>1. writes[key] = Value(w, key) /\ key \in known /\ Present(w, key)
      BY <1>1, <2>3 DEF Endorsement, Sure
    <3>2. Value(c, key) = Value(w, key)
      BY <1>2, <3>1 DEF Agree
    <3> QED BY <2>1, <2>3, <3>1, <3>2
  <2>4. CASE key \notin DOMAIN tx.writes /\ key \notin DOMAIN writes
    BY <2>1, <2>4
  <2> QED BY <2>2, <2>3, <2>4
<1>5. NoMember(tx.writes)
  BY <1>1 DEF Endorsement, NoMember
<1> QED BY <1>3, <1>4, <1>5 DEF Effect

----------------------------------------------------------------------------
(* The contract's actions as runs: writes by key are updates by variable.  *)

Written(writes, family, id, value) ==
  IF <<family, id>> \in DOMAIN writes THEN writes[<<family, id>>] ELSE value

Rewritten(S, writes, family, f) == [x \in S |-> Written(writes, family, x, f[x])]

MembersRewritten(writes) ==
  [p \in Projects |-> {u \in Users : Written(writes, "member", <<p, u>>, u \in member[p])}]

Updates(writes) ==
  /\ organization' = Rewritten(Orgs, writes, "organization", organization)
  /\ user' = Rewritten(Users, writes, "user", user)
  /\ project' = Rewritten(Projects, writes, "project", project)
  /\ member' = MembersRewritten(writes)
  /\ invoice' = Rewritten(Invoices, writes, "invoice", invoice)
  /\ numberIndex' = Rewritten(Numbers, writes, "numberIndex", numberIndex)
  /\ voidRequest' = Rewritten(Invoices, writes, "voidRequest", voidRequest)
  /\ transfer' = Rewritten(Invoices, writes, "transfer", transfer)
  /\ reimbursement' = Rewritten(Reimbursements, writes, "reimbursement", reimbursement)
  /\ reimbursementInvoice'
       = Rewritten(Invoices, writes, "reimbursementInvoice", reimbursementInvoice)

LEMMA WorldValues ==
  /\ World.organization = organization /\ World.user = user /\ World.project = project
  /\ World.invoice = invoice /\ World.numberIndex = numberIndex
  /\ World.voidRequest = voidRequest /\ World.transfer = transfer
  /\ World.reimbursement = reimbursement
  /\ World.reimbursementInvoice = reimbursementInvoice
  /\ \A p \in Projects, u \in Users : World.member[<<p, u>>] = (u \in member[p])
BY DEF World

LEMMA WorldValuesNext ==
  /\ World'.organization = organization' /\ World'.user = user' /\ World'.project = project'
  /\ World'.invoice = invoice' /\ World'.numberIndex = numberIndex'
  /\ World'.voidRequest = voidRequest' /\ World'.transfer = transfer'
  /\ World'.reimbursement = reimbursement'
  /\ World'.reimbursementInvoice = reimbursementInvoice'
  /\ \A p \in Projects, u \in Users : World'.member[<<p, u>>] = (u \in member'[p])
BY DEF World

LEMMA UpdatesHaveEffect ==
  ASSUME NEW writes, Updates(writes),
         \A p \in Projects, u \in Users : <<"member", <<p, u>>>> \notin DOMAIN writes
  PROVE  Effect(World, World', writes)
<1> DEFINE new == World'
<1> SUFFICES ASSUME NEW key \in Keys
             PROVE  Value(new, key)
                      = IF key \in DOMAIN writes THEN writes[key] ELSE Value(World, key)
  BY DEF Effect
<1>0. /\ new.organization = organization' /\ new.user = user' /\ new.project = project'
      /\ new.invoice = invoice' /\ new.numberIndex = numberIndex'
      /\ new.voidRequest = voidRequest' /\ new.transfer = transfer'
      /\ new.reimbursement = reimbursement'
      /\ new.reimbursementInvoice = reimbursementInvoice'
      /\ \A p \in Projects, u \in Users : new.member[<<p, u>>] = (u \in member'[p])
  BY WorldValuesNext
<1> HIDE DEF new
<1>1. CASE \E o \in Orgs : key = <<"organization", o>>
  BY <1>0, <1>1, Values, WorldValues DEF Updates, Rewritten, MembersRewritten, Written
<1>2. CASE \E u \in Users : key = <<"user", u>>
  BY <1>0, <1>2, Values, WorldValues DEF Updates, Rewritten, MembersRewritten, Written
<1>3. CASE \E p \in Projects : key = <<"project", p>>
  BY <1>0, <1>3, Values, WorldValues DEF Updates, Rewritten, MembersRewritten, Written
<1>4. ASSUME NEW p \in Projects, NEW u \in Users, key = <<"member", <<p, u>>>>
      PROVE  Value(new, key) = Value(World, key) /\ key \notin DOMAIN writes
  <2>1. u \in member'[p] <=> u \in member[p]
    BY DEF Updates, Rewritten, MembersRewritten, Written
  <2>2. new.member[<<p, u>>] = World.member[<<p, u>>]
    BY <1>0, <2>1, WorldValues
  <2> QED BY <1>4, <2>2, Values
<1>5. CASE \E i \in Invoices : key = <<"invoice", i>>
  BY <1>0, <1>5, Values, WorldValues DEF Updates, Rewritten, MembersRewritten, Written
<1>6. CASE \E no \in Numbers : key = <<"numberIndex", no>>
  BY <1>0, <1>6, Values, WorldValues DEF Updates, Rewritten, MembersRewritten, Written
<1>7. CASE \E i \in Invoices : key = <<"voidRequest", i>>
  BY <1>0, <1>7, Values, WorldValues DEF Updates, Rewritten, MembersRewritten, Written
<1>8. CASE \E i \in Invoices : key = <<"transfer", i>>
  BY <1>0, <1>8, Values, WorldValues DEF Updates, Rewritten, MembersRewritten, Written
<1>9. CASE \E r \in Reimbursements : key = <<"reimbursement", r>>
  BY <1>0, <1>9, Values, WorldValues DEF Updates, Rewritten, MembersRewritten, Written
<1>10. CASE \E i \in Invoices : key = <<"reimbursementInvoice", i>>
  BY <1>0, <1>10, Values, WorldValues DEF Updates, Rewritten, MembersRewritten, Written
<1> QED BY <1>1, <1>2, <1>3, <1>4, <1>5, <1>6, <1>7, <1>8, <1>9, <1>10, KeyIs

LEMMA EffectByFamily ==
  ASSUME NEW c, NEW x, NEW writes, Effect(c, x, writes)
  PROVE  /\ \A o \in Orgs : x.organization[o] =
               Written(writes, "organization", o, c.organization[o])
         /\ \A u \in Users : x.user[u] = Written(writes, "user", u, c.user[u])
         /\ \A p \in Projects : x.project[p] = Written(writes, "project", p, c.project[p])
         /\ \A p \in Projects, u \in Users :
               x.member[<<p, u>>] = Written(writes, "member", <<p, u>>, c.member[<<p, u>>])
         /\ \A i \in Invoices :
               /\ x.invoice[i] = Written(writes, "invoice", i, c.invoice[i])
               /\ x.voidRequest[i] = Written(writes, "voidRequest", i, c.voidRequest[i])
               /\ x.transfer[i] = Written(writes, "transfer", i, c.transfer[i])
               /\ x.reimbursementInvoice[i]
                    = Written(writes, "reimbursementInvoice", i, c.reimbursementInvoice[i])
         /\ \A no \in Numbers : x.numberIndex[no] =
               Written(writes, "numberIndex", no, c.numberIndex[no])
         /\ \A r \in Reimbursements :
               x.reimbursement[r] = Written(writes, "reimbursement", r, c.reimbursement[r])
<1>1. \A key \in Keys : Value(x, key) =
        IF key \in DOMAIN writes THEN writes[key] ELSE Value(c, key)
  BY DEF Effect
<1>2. ASSUME NEW o \in Orgs
      PROVE  x.organization[o] = Written(writes, "organization", o, c.organization[o])
  <2>1. <<"organization", o>> \in Keys
    BY KeysAre
  <2> QED BY <1>1, <2>1, Values DEF Written
<1>3. ASSUME NEW u \in Users
      PROVE  x.user[u] = Written(writes, "user", u, c.user[u])
  <2>1. <<"user", u>> \in Keys
    BY KeysAre
  <2> QED BY <1>1, <2>1, Values DEF Written
<1>4. ASSUME NEW p \in Projects
      PROVE  x.project[p] = Written(writes, "project", p, c.project[p])
  <2>1. <<"project", p>> \in Keys
    BY KeysAre
  <2> QED BY <1>1, <2>1, Values DEF Written
<1>5. ASSUME NEW p \in Projects, NEW u \in Users
      PROVE  x.member[<<p, u>>] = Written(writes, "member", <<p, u>>, c.member[<<p, u>>])
  <2>1. <<"member", <<p, u>>>> \in Keys
    BY KeysAre
  <2> QED BY <1>1, <2>1, Values DEF Written
<1>6. ASSUME NEW i \in Invoices
      PROVE  /\ x.invoice[i] = Written(writes, "invoice", i, c.invoice[i])
             /\ x.voidRequest[i] = Written(writes, "voidRequest", i, c.voidRequest[i])
             /\ x.transfer[i] = Written(writes, "transfer", i, c.transfer[i])
             /\ x.reimbursementInvoice[i]
                  = Written(writes, "reimbursementInvoice", i, c.reimbursementInvoice[i])
  <2>1. /\ <<"invoice", i>> \in Keys /\ <<"voidRequest", i>> \in Keys
        /\ <<"transfer", i>> \in Keys /\ <<"reimbursementInvoice", i>> \in Keys
    BY KeysAre
  <2> QED BY <1>1, <2>1, Values DEF Written
<1>7. ASSUME NEW no \in Numbers
      PROVE  x.numberIndex[no] = Written(writes, "numberIndex", no, c.numberIndex[no])
  <2>1. <<"numberIndex", no>> \in Keys
    BY KeysAre
  <2> QED BY <1>1, <2>1, Values DEF Written
<1>8. ASSUME NEW r \in Reimbursements
      PROVE  x.reimbursement[r] = Written(writes, "reimbursement", r, c.reimbursement[r])
  <2>1. <<"reimbursement", r>> \in Keys
    BY KeysAre
  <2> QED BY <1>1, <2>1, Values DEF Written
<1> QED BY <1>2, <1>3, <1>4, <1>5, <1>6, <1>7, <1>8

LEMMA EffectsUpdate ==
  ASSUME Shaped(committed)', Sees(committed), Sees(committed)',
         NEW writes, Effect(committed, committed', writes)
  PROVE  Updates(writes)
<1>1. PICK x : x = committed'
  OBVIOUS
<1>2. Shaped(x) /\ Effect(committed, x, writes)
  BY <1>1 DEF Shaped
<1>3. /\ organization' = x.organization /\ user' = x.user /\ project' = x.project
      /\ member' = Members(x) /\ invoice' = x.invoice /\ numberIndex' = x.numberIndex
      /\ voidRequest' = x.voidRequest /\ transfer' = x.transfer
      /\ reimbursement' = x.reimbursement
      /\ reimbursementInvoice' = x.reimbursementInvoice
  BY <1>1 DEF Sees, Members
<1>4. member' = [p \in Projects |->
                   {u \in Users : Written(writes, "member", <<p, u>>, u \in member[p])}]
  <2>1. \A p \in Projects, u \in Users :
            Written(writes, "member", <<p, u>>, committed.member[<<p, u>>])
              <=> Written(writes, "member", <<p, u>>, u \in member[p])
    BY DEF Sees, Members, Written
  <2> QED BY <1>2, <1>3, <2>1, EffectByFamily DEF Members
<1> QED BY <1>2, <1>3, <1>4, EffectByFamily DEF Updates, Rewritten, MembersRewritten, Sees, Shaped

\* The sets of writes that occur, and the updates they are.
LEMMA WrittenOne ==
  \A f, id, v, g, x, d :
      Written(One(<<f, id>>, v), g, x, d) = IF g = f /\ x = id THEN v ELSE d
BY DEF Written, One

LEMMA WrittenAlso ==
  \A writes, f, id, v, g, x, d :
      Written(Also(writes, <<f, id>>, v), g, x, d)
        = IF g = f /\ x = id THEN v ELSE Written(writes, g, x, d)
BY DEF Written, Also

\* A family that is not written, and one that is written at one id.
Unwritten(writes, family) == \A x, d : Written(writes, family, x, d) = d

WrittenAt(writes, family, id, v) ==
  \A x, d : Written(writes, family, x, d) = IF x = id THEN v ELSE d

LEMMA FamilyWritten ==
  ASSUME NEW writes, NEW family, NEW S, NEW f, f = [x \in S |-> f[x]]
  PROVE  /\ Unwritten(writes, family) => Rewritten(S, writes, family, f) = f
         /\ \A id \in S : \A v :
               WrittenAt(writes, family, id, v) =>
                   Rewritten(S, writes, family, f) = [f EXCEPT ![id] = v]
<1>1. Unwritten(writes, family) => Rewritten(S, writes, family, f) = f
  BY DEF Unwritten, Rewritten
<1>2. ASSUME NEW id \in S, NEW v, WrittenAt(writes, family, id, v)
      PROVE  Rewritten(S, writes, family, f) = [f EXCEPT ![id] = v]
  <2>1. \A x \in S : Written(writes, family, x, f[x]) = IF x = id THEN v ELSE f[x]
    BY <1>2 DEF WrittenAt
  <2> QED BY <2>1 DEF Rewritten
<1> QED BY <1>1, <1>2

LEMMA TypesAreFunctions ==
  ASSUME TypeOK
  PROVE  /\ organization = [o \in Orgs |-> organization[o]]
         /\ user = [u \in Users |-> user[u]]
         /\ project = [p \in Projects |-> project[p]]
         /\ member = [p \in Projects |-> {u \in Users : u \in member[p]}]
         /\ invoice = [i \in Invoices |-> invoice[i]]
         /\ numberIndex = [no \in Numbers |-> numberIndex[no]]
         /\ voidRequest = [i \in Invoices |-> voidRequest[i]]
         /\ transfer = [i \in Invoices |-> transfer[i]]
         /\ reimbursement = [r \in Reimbursements |-> reimbursement[r]]
         /\ reimbursementInvoice = [i \in Invoices |-> reimbursementInvoice[i]]
BY DEF TypeOK

\* What is not written is unchanged, what is written at one id is updated.
LEMMA UpdatesAre ==
  ASSUME TypeOK, NEW writes
  PROVE  /\ Unwritten(writes, "member") => MembersRewritten(writes) = member
         /\ LET f == Rewritten(Orgs, writes, "organization", organization)
            IN  /\ Unwritten(writes, "organization") => f = organization
                /\ \A id \in Orgs : \A v :
                      WrittenAt(writes, "organization", id, v) =>
                          f = [organization EXCEPT ![id] = v]
         /\ LET f == Rewritten(Users, writes, "user", user)
            IN  /\ Unwritten(writes, "user") => f = user
                /\ \A id \in Users : \A v :
                      WrittenAt(writes, "user", id, v) => f = [user EXCEPT ![id] = v]
         /\ LET f == Rewritten(Projects, writes, "project", project)
            IN  /\ Unwritten(writes, "project") => f = project
                /\ \A id \in Projects : \A v :
                      WrittenAt(writes, "project", id, v) => f = [project EXCEPT ![id] = v]
         /\ LET f == Rewritten(Invoices, writes, "invoice", invoice)
            IN  /\ Unwritten(writes, "invoice") => f = invoice
                /\ \A id \in Invoices : \A v :
                      WrittenAt(writes, "invoice", id, v) => f = [invoice EXCEPT ![id] = v]
         /\ LET f == Rewritten(Numbers, writes, "numberIndex", numberIndex)
            IN  /\ Unwritten(writes, "numberIndex") => f = numberIndex
                /\ \A id \in Numbers : \A v :
                      WrittenAt(writes, "numberIndex", id, v) =>
                          f = [numberIndex EXCEPT ![id] = v]
         /\ LET f == Rewritten(Invoices, writes, "voidRequest", voidRequest)
            IN  /\ Unwritten(writes, "voidRequest") => f = voidRequest
                /\ \A id \in Invoices : \A v :
                      WrittenAt(writes, "voidRequest", id, v) =>
                          f = [voidRequest EXCEPT ![id] = v]
         /\ LET f == Rewritten(Invoices, writes, "transfer", transfer)
            IN  /\ Unwritten(writes, "transfer") => f = transfer
                /\ \A id \in Invoices : \A v :
                      WrittenAt(writes, "transfer", id, v) => f = [transfer EXCEPT ![id] = v]
         /\ LET f == Rewritten(Reimbursements, writes, "reimbursement", reimbursement)
            IN  /\ Unwritten(writes, "reimbursement") => f = reimbursement
                /\ \A id \in Reimbursements : \A v :
                      WrittenAt(writes, "reimbursement", id, v) =>
                          f = [reimbursement EXCEPT ![id] = v]
         /\ LET f == Rewritten(Invoices, writes, "reimbursementInvoice", reimbursementInvoice)
            IN  /\ Unwritten(writes, "reimbursementInvoice") => f = reimbursementInvoice
                /\ \A id \in Invoices : \A v :
                      WrittenAt(writes, "reimbursementInvoice", id, v) =>
                          f = [reimbursementInvoice EXCEPT ![id] = v]
<1>1. ASSUME Unwritten(writes, "member") PROVE MembersRewritten(writes) = member
  <2>1. \A p, u : Written(writes, "member", <<p, u>>, u \in member[p]) = (u \in member[p])
    BY <1>1 DEF Unwritten
  <2>2. MembersRewritten(writes) = [p \in Projects |-> {u \in Users : u \in member[p]}]
    BY <2>1 DEF MembersRewritten
  <2> QED BY <2>2, TypesAreFunctions
<1> QED BY <1>1, TypesAreFunctions, FamilyWritten

LEMMA InvoiceWrite ==
  ASSUME TypeOK, NEW i \in Invoices, NEW v
  PROVE  Updates(One(<<"invoice", i>>, v)) <=>
            /\ invoice' = [invoice EXCEPT ![i] = v]
            /\ UNCHANGED <<directoryVars, projectVars, numberIndex, voidRequest, transfer,
                           claimVars>>
<1> DEFINE writes == One(<<"invoice", i>>, v)
<1>1. /\ Unwritten(writes, "organization")
      /\ Unwritten(writes, "user")
      /\ Unwritten(writes, "project")
      /\ Unwritten(writes, "member")
      /\ Unwritten(writes, "numberIndex")
      /\ Unwritten(writes, "voidRequest")
      /\ Unwritten(writes, "transfer")
      /\ Unwritten(writes, "reimbursement")
      /\ Unwritten(writes, "reimbursementInvoice")
      /\ WrittenAt(writes, "invoice", i, v)
  BY WrittenOne DEF Unwritten, WrittenAt
<1> HIDE DEF writes
<1>2. Updates(writes) <=>
         /\ invoice' = [invoice EXCEPT ![i] = v]
         /\ UNCHANGED <<organization, user, project, member, numberIndex, voidRequest, transfer,
                        reimbursement, reimbursementInvoice>>
  BY <1>1, UpdatesAre DEF Updates
<1> QED BY <1>2 DEF writes, directoryVars, projectVars, claimVars

LEMMA CreationWrites ==
  ASSUME TypeOK, NEW i \in Invoices, NEW v, NEW no \in Numbers, NEW n
  PROVE  Updates(Also(One(<<"invoice", i>>, v), <<"numberIndex", no>>, n)) <=>
            /\ invoice' = [invoice EXCEPT ![i] = v]
            /\ numberIndex' = [numberIndex EXCEPT ![no] = n]
            /\ UNCHANGED <<directoryVars, projectVars, voidRequest, transfer, claimVars>>
<1> DEFINE writes == Also(One(<<"invoice", i>>, v), <<"numberIndex", no>>, n)
<1>1. /\ Unwritten(writes, "organization")
      /\ Unwritten(writes, "user")
      /\ Unwritten(writes, "project")
      /\ Unwritten(writes, "member")
      /\ Unwritten(writes, "voidRequest")
      /\ Unwritten(writes, "transfer")
      /\ Unwritten(writes, "reimbursement")
      /\ Unwritten(writes, "reimbursementInvoice")
      /\ WrittenAt(writes, "invoice", i, v)
      /\ WrittenAt(writes, "numberIndex", no, n)
  BY WrittenOne, WrittenAlso DEF Unwritten, WrittenAt
<1> HIDE DEF writes
<1>2. Updates(writes) <=>
         /\ invoice' = [invoice EXCEPT ![i] = v]
         /\ numberIndex' = [numberIndex EXCEPT ![no] = n]
         /\ UNCHANGED <<organization, user, project, member, voidRequest, transfer,
                        reimbursement, reimbursementInvoice>>
  BY <1>1, UpdatesAre DEF Updates
<1> QED BY <1>2 DEF writes, directoryVars, projectVars, claimVars

LEMMA RequestWrite ==
  ASSUME TypeOK, NEW i \in Invoices, NEW v
  PROVE  Updates(One(<<"voidRequest", i>>, v)) <=>
            /\ voidRequest' = [voidRequest EXCEPT ![i] = v]
            /\ UNCHANGED <<directoryVars, projectVars, invoiceVars, transfer, claimVars>>
<1> DEFINE writes == One(<<"voidRequest", i>>, v)
<1>1. /\ Unwritten(writes, "organization")
      /\ Unwritten(writes, "user")
      /\ Unwritten(writes, "project")
      /\ Unwritten(writes, "member")
      /\ Unwritten(writes, "invoice")
      /\ Unwritten(writes, "numberIndex")
      /\ Unwritten(writes, "transfer")
      /\ Unwritten(writes, "reimbursement")
      /\ Unwritten(writes, "reimbursementInvoice")
      /\ WrittenAt(writes, "voidRequest", i, v)
  BY WrittenOne DEF Unwritten, WrittenAt
<1> HIDE DEF writes
<1>2. Updates(writes) <=>
         /\ voidRequest' = [voidRequest EXCEPT ![i] = v]
         /\ UNCHANGED <<organization, user, project, member, invoice, numberIndex, transfer,
                        reimbursement, reimbursementInvoice>>
  BY <1>1, UpdatesAre DEF Updates
<1> QED BY <1>2 DEF writes, directoryVars, projectVars, invoiceVars, claimVars

LEMMA ApprovalWrites ==
  ASSUME TypeOK, NEW i \in Invoices, NEW v, NEW n
  PROVE  Updates(Also(One(<<"voidRequest", i>>, v), <<"invoice", i>>, n)) <=>
            /\ voidRequest' = [voidRequest EXCEPT ![i] = v]
            /\ invoice' = [invoice EXCEPT ![i] = n]
            /\ UNCHANGED <<directoryVars, projectVars, numberIndex, transfer, claimVars>>
<1> DEFINE writes == Also(One(<<"voidRequest", i>>, v), <<"invoice", i>>, n)
<1>1. /\ Unwritten(writes, "organization")
      /\ Unwritten(writes, "user")
      /\ Unwritten(writes, "project")
      /\ Unwritten(writes, "member")
      /\ Unwritten(writes, "numberIndex")
      /\ Unwritten(writes, "transfer")
      /\ Unwritten(writes, "reimbursement")
      /\ Unwritten(writes, "reimbursementInvoice")
      /\ WrittenAt(writes, "voidRequest", i, v)
      /\ WrittenAt(writes, "invoice", i, n)
  BY WrittenOne, WrittenAlso DEF Unwritten, WrittenAt
<1> HIDE DEF writes
<1>2. Updates(writes) <=>
         /\ voidRequest' = [voidRequest EXCEPT ![i] = v]
         /\ invoice' = [invoice EXCEPT ![i] = n]
         /\ UNCHANGED <<organization, user, project, member, numberIndex, transfer,
                        reimbursement, reimbursementInvoice>>
  BY <1>1, UpdatesAre DEF Updates
<1> QED BY <1>2 DEF writes, directoryVars, projectVars, claimVars

LEMMA TransferWrite ==
  ASSUME TypeOK, NEW i \in Invoices, NEW v
  PROVE  Updates(One(<<"transfer", i>>, v)) <=>
            /\ transfer' = [transfer EXCEPT ![i] = v]
            /\ UNCHANGED invoice /\ TransferFrame
<1> DEFINE writes == One(<<"transfer", i>>, v)
<1>1. /\ Unwritten(writes, "organization")
      /\ Unwritten(writes, "user")
      /\ Unwritten(writes, "project")
      /\ Unwritten(writes, "member")
      /\ Unwritten(writes, "invoice")
      /\ Unwritten(writes, "numberIndex")
      /\ Unwritten(writes, "voidRequest")
      /\ Unwritten(writes, "reimbursement")
      /\ Unwritten(writes, "reimbursementInvoice")
      /\ WrittenAt(writes, "transfer", i, v)
  BY WrittenOne DEF Unwritten, WrittenAt
<1> HIDE DEF writes
<1>2. Updates(writes) <=>
         /\ transfer' = [transfer EXCEPT ![i] = v]
         /\ UNCHANGED <<organization, user, project, member, invoice, numberIndex, voidRequest,
                        reimbursement, reimbursementInvoice>>
  BY <1>1, UpdatesAre DEF Updates
<1> QED BY <1>2 DEF writes, directoryVars, projectVars, claimVars, TransferFrame

LEMMA AcceptanceWrites ==
  ASSUME TypeOK, NEW i \in Invoices, NEW v, NEW n
  PROVE  Updates(Also(One(<<"transfer", i>>, v), <<"invoice", i>>, n)) <=>
            /\ transfer' = [transfer EXCEPT ![i] = v]
            /\ invoice' = [invoice EXCEPT ![i] = n]
            /\ TransferFrame
<1> DEFINE writes == Also(One(<<"transfer", i>>, v), <<"invoice", i>>, n)
<1>1. /\ Unwritten(writes, "organization")
      /\ Unwritten(writes, "user")
      /\ Unwritten(writes, "project")
      /\ Unwritten(writes, "member")
      /\ Unwritten(writes, "numberIndex")
      /\ Unwritten(writes, "voidRequest")
      /\ Unwritten(writes, "reimbursement")
      /\ Unwritten(writes, "reimbursementInvoice")
      /\ WrittenAt(writes, "transfer", i, v)
      /\ WrittenAt(writes, "invoice", i, n)
  BY WrittenOne, WrittenAlso DEF Unwritten, WrittenAt
<1> HIDE DEF writes
<1>2. Updates(writes) <=>
         /\ transfer' = [transfer EXCEPT ![i] = v]
         /\ invoice' = [invoice EXCEPT ![i] = n]
         /\ UNCHANGED <<organization, user, project, member, numberIndex, voidRequest,
                        reimbursement, reimbursementInvoice>>
  BY <1>1, UpdatesAre DEF Updates
<1> QED BY <1>2 DEF writes, directoryVars, projectVars, claimVars, TransferFrame

LEMMA ClaimWrite ==
  ASSUME TypeOK, NEW r \in Reimbursements, NEW v
  PROVE  Updates(One(<<"reimbursement", r>>, v)) <=>
            /\ reimbursement' = [reimbursement EXCEPT ![r] = v]
            /\ UNCHANGED <<project, reimbursementInvoice>>
            /\ ReimbursementFrame
<1> DEFINE writes == One(<<"reimbursement", r>>, v)
<1>1. /\ Unwritten(writes, "organization")
      /\ Unwritten(writes, "user")
      /\ Unwritten(writes, "project")
      /\ Unwritten(writes, "member")
      /\ Unwritten(writes, "invoice")
      /\ Unwritten(writes, "numberIndex")
      /\ Unwritten(writes, "voidRequest")
      /\ Unwritten(writes, "transfer")
      /\ Unwritten(writes, "reimbursementInvoice")
      /\ WrittenAt(writes, "reimbursement", r, v)
  BY WrittenOne DEF Unwritten, WrittenAt
<1> HIDE DEF writes
<1>2. Updates(writes) <=>
         /\ reimbursement' = [reimbursement EXCEPT ![r] = v]
         /\ UNCHANGED <<organization, user, project, member, invoice, numberIndex, voidRequest,
                        transfer, reimbursementInvoice>>
  BY <1>1, UpdatesAre DEF Updates
<1> QED BY <1>2 DEF writes, directoryVars, invoiceVars, ReimbursementFrame

LEMMA ClaimLinkWrites ==
  ASSUME TypeOK, NEW r \in Reimbursements, NEW v, NEW i \in Invoices, NEW n
  PROVE  Updates(Also(One(<<"reimbursement", r>>, v), <<"reimbursementInvoice", i>>, n)) <=>
            /\ reimbursement' = [reimbursement EXCEPT ![r] = v]
            /\ reimbursementInvoice' = [reimbursementInvoice EXCEPT ![i] = n]
            /\ UNCHANGED project
            /\ ReimbursementFrame
<1> DEFINE writes == Also(One(<<"reimbursement", r>>, v), <<"reimbursementInvoice", i>>, n)
<1>1. /\ Unwritten(writes, "organization")
      /\ Unwritten(writes, "user")
      /\ Unwritten(writes, "project")
      /\ Unwritten(writes, "member")
      /\ Unwritten(writes, "invoice")
      /\ Unwritten(writes, "numberIndex")
      /\ Unwritten(writes, "voidRequest")
      /\ Unwritten(writes, "transfer")
      /\ WrittenAt(writes, "reimbursement", r, v)
      /\ WrittenAt(writes, "reimbursementInvoice", i, n)
  BY WrittenOne, WrittenAlso DEF Unwritten, WrittenAt
<1> HIDE DEF writes
<1>2. Updates(writes) <=>
         /\ reimbursement' = [reimbursement EXCEPT ![r] = v]
         /\ reimbursementInvoice' = [reimbursementInvoice EXCEPT ![i] = n]
         /\ UNCHANGED <<organization, user, project, member, invoice, numberIndex, voidRequest,
                        transfer>>
  BY <1>1, UpdatesAre DEF Updates
<1> QED BY <1>2 DEF writes, directoryVars, invoiceVars, ReimbursementFrame

LEMMA ClaimProjectWrites ==
  ASSUME TypeOK, NEW r \in Reimbursements, NEW v, NEW p \in Projects, NEW n
  PROVE  Updates(Also(One(<<"reimbursement", r>>, v), <<"project", p>>, n)) <=>
            /\ reimbursement' = [reimbursement EXCEPT ![r] = v]
            /\ project' = [project EXCEPT ![p] = n]
            /\ UNCHANGED reimbursementInvoice
            /\ ReimbursementFrame
<1> DEFINE writes == Also(One(<<"reimbursement", r>>, v), <<"project", p>>, n)
<1>1. /\ Unwritten(writes, "organization")
      /\ Unwritten(writes, "user")
      /\ Unwritten(writes, "member")
      /\ Unwritten(writes, "invoice")
      /\ Unwritten(writes, "numberIndex")
      /\ Unwritten(writes, "voidRequest")
      /\ Unwritten(writes, "transfer")
      /\ Unwritten(writes, "reimbursementInvoice")
      /\ WrittenAt(writes, "reimbursement", r, v)
      /\ WrittenAt(writes, "project", p, n)
  BY WrittenOne, WrittenAlso DEF Unwritten, WrittenAt
<1> HIDE DEF writes
<1>2. Updates(writes) <=>
         /\ reimbursement' = [reimbursement EXCEPT ![r] = v]
         /\ project' = [project EXCEPT ![p] = n]
         /\ UNCHANGED <<organization, user, member, invoice, numberIndex, voidRequest, transfer,
                        reimbursementInvoice>>
  BY <1>1, UpdatesAre DEF Updates
<1> QED BY <1>2 DEF writes, directoryVars, invoiceVars, ReimbursementFrame

LEMMA WithdrawalWrites ==
  ASSUME TypeOK, NEW r \in Reimbursements, NEW v, NEW i \in Invoices, NEW n,
         NEW p \in Projects, NEW m
  PROVE  Updates(Also(Also(One(<<"reimbursement", r>>, v), <<"reimbursementInvoice", i>>, n),
                      <<"project", p>>, m)) <=>
            /\ reimbursement' = [reimbursement EXCEPT ![r] = v]
            /\ reimbursementInvoice' = [reimbursementInvoice EXCEPT ![i] = n]
            /\ project' = [project EXCEPT ![p] = m]
            /\ ReimbursementFrame
<1> DEFINE writes ==
             Also(Also(One(<<"reimbursement", r>>, v), <<"reimbursementInvoice", i>>, n),
                  <<"project", p>>, m)
<1>1. /\ Unwritten(writes, "organization")
      /\ Unwritten(writes, "user")
      /\ Unwritten(writes, "member")
      /\ Unwritten(writes, "invoice")
      /\ Unwritten(writes, "numberIndex")
      /\ Unwritten(writes, "voidRequest")
      /\ Unwritten(writes, "transfer")
      /\ WrittenAt(writes, "reimbursement", r, v)
      /\ WrittenAt(writes, "reimbursementInvoice", i, n)
      /\ WrittenAt(writes, "project", p, m)
  BY WrittenOne, WrittenAlso DEF Unwritten, WrittenAt
<1> HIDE DEF writes
<1>2. Updates(writes) <=>
         /\ reimbursement' = [reimbursement EXCEPT ![r] = v]
         /\ reimbursementInvoice' = [reimbursementInvoice EXCEPT ![i] = n]
         /\ project' = [project EXCEPT ![p] = m]
         /\ UNCHANGED <<organization, user, member, invoice, numberIndex, voidRequest, transfer>>
  BY <1>1, UpdatesAre DEF Updates
<1> QED BY <1>2 DEF writes, directoryVars, invoiceVars, ReimbursementFrame

LEMMA ProjectWrite ==
  ASSUME TypeOK, NEW p \in Projects, NEW v
  PROVE  Updates(One(<<"project", p>>, v)) <=>
            /\ project' = [project EXCEPT ![p] = v]
            /\ UNCHANGED member /\ ProjectFrame
<1> DEFINE writes == One(<<"project", p>>, v)
<1>1. /\ Unwritten(writes, "organization")
      /\ Unwritten(writes, "user")
      /\ Unwritten(writes, "member")
      /\ Unwritten(writes, "invoice")
      /\ Unwritten(writes, "numberIndex")
      /\ Unwritten(writes, "voidRequest")
      /\ Unwritten(writes, "transfer")
      /\ Unwritten(writes, "reimbursement")
      /\ Unwritten(writes, "reimbursementInvoice")
      /\ WrittenAt(writes, "project", p, v)
  BY WrittenOne DEF Unwritten, WrittenAt
<1> HIDE DEF writes
<1>2. Updates(writes) <=>
         /\ project' = [project EXCEPT ![p] = v]
         /\ UNCHANGED <<organization, user, member, invoice, numberIndex, voidRequest, transfer,
                        reimbursement, reimbursementInvoice>>
  BY <1>1, UpdatesAre DEF Updates
<1> QED BY <1>2 DEF writes, directoryVars, invoiceVars, claimVars, ProjectFrame

----------------------------------------------------------------------------
(* The chaincode's conditions on a ledger are those on what the peer sees. *)

LEMMA Vocabulary ==
  ASSUME NEW w, Sees(w)
  PROVE  /\ \A u : UserExists(u) <=> On(w)!UserExists(u)
         /\ \A o : OrganizationExists(o) <=> On(w)!OrganizationExists(o)
         /\ \A p : ProjectExists(p) <=> On(w)!ProjectExists(p)
         /\ \A i : InvoiceExists(i) <=> On(w)!InvoiceExists(i)
         /\ \A r : ReimbursementExists(r) <=> On(w)!ReimbursementExists(r)
         /\ \A u : BusinessUserOrganization(u) = On(w)!BusinessUserOrganization(u)
         /\ \A u, msp, roles : RequireRegisteredRole(u, msp, roles) <=>
                On(w)!RequireRegisteredRole(u, msp, roles)
         /\ \A u, msp, caller, roles : RequireActiveBusinessUser(u, msp, caller, roles) <=>
                On(w)!RequireActiveBusinessUser(u, msp, caller, roles)
         /\ \A p : InSettlement(p) <=> On(w)!InSettlement(p)
         /\ \A p : OpenForAssociation(p) <=> On(w)!OpenForAssociation(p)
         /\ \A i : NotVoided(i) <=> On(w)!NotVoided(i)
         /\ \A i : EnsureInvoiceCanBeVoided(i) <=> On(w)!EnsureInvoiceCanBeVoided(i)
         /\ \A p, u, caller : RequireProjectApplicant(p, u, caller) <=>
                On(w)!RequireProjectApplicant(p, u, caller)
         /\ \A p, u, caller : RequireProjectMember(p, u, caller) <=>
                On(w)!RequireProjectMember(p, u, caller)
         /\ \A p, u, caller, role : RequireProjectManager(p, u, caller, role) <=>
                On(w)!RequireProjectManager(p, u, caller, role)
         /\ \A no : InvoiceNumberExists(no) <=> On(w)!InvoiceNumberExists(no)
         /\ \A no, i : InvoiceNumberExistsExcept(no, i) <=> On(w)!InvoiceNumberExistsExcept(no, i)
         /\ \A p, u, org, caller : LinkableAtCreation(p, u, org, caller) <=>
                On(w)!LinkableAtCreation(p, u, org, caller)
         /\ \A i, no, org, caller : Corrects(i, no, org, caller) <=>
                On(w)!Corrects(i, no, org, caller)
         /\ \A i, p : SameIssuerOrganization(i, p) <=> On(w)!SameIssuerOrganization(i, p)
         /\ \A i, u, caller : RequireIssuer(i, u, caller) <=> On(w)!RequireIssuer(i, u, caller)
         /\ \A i : StillAvailable(i) <=> On(w)!StillAvailable(i)
         /\ \A inv, u, msp : HandedTo(inv, u, msp) = On(w)!HandedTo(inv, u, msp)
         /\ \A p : NothingAwaitsAction(p) <=> On(w)!NothingAwaitsAction(p)
<1>1. /\ \A u : UserExists(u) <=> On(w)!UserExists(u)
      /\ \A o : OrganizationExists(o) <=> On(w)!OrganizationExists(o)
      /\ \A p : ProjectExists(p) <=> On(w)!ProjectExists(p)
      /\ \A i : InvoiceExists(i) <=> On(w)!InvoiceExists(i)
      /\ \A r : ReimbursementExists(r) <=> On(w)!ReimbursementExists(r)
  BY DEF Sees, UserExists, OrganizationExists, ProjectExists, InvoiceExists, ReimbursementExists,
         On!UserExists, On!OrganizationExists, On!ProjectExists, On!InvoiceExists,
         On!ReimbursementExists
<1>2. /\ \A u : BusinessUserOrganization(u) = On(w)!BusinessUserOrganization(u)
      /\ \A u, msp, roles : RequireRegisteredRole(u, msp, roles) <=>
             On(w)!RequireRegisteredRole(u, msp, roles)
      /\ \A u, msp, caller, roles : RequireActiveBusinessUser(u, msp, caller, roles) <=>
             On(w)!RequireActiveBusinessUser(u, msp, caller, roles)
  BY <1>1 DEF Sees, BusinessUserOrganization, RequireRegisteredRole, RequireActiveBusinessUser,
              DemoAccounts, On!BusinessUserOrganization, On!RequireRegisteredRole,
              On!RequireActiveBusinessUser, On!DemoAccounts
<1>3. /\ \A p : InSettlement(p) <=> On(w)!InSettlement(p)
      /\ \A p : OpenForAssociation(p) <=> On(w)!OpenForAssociation(p)
      /\ \A i : NotVoided(i) <=> On(w)!NotVoided(i)
      /\ \A i : EnsureInvoiceCanBeVoided(i) <=> On(w)!EnsureInvoiceCanBeVoided(i)
  BY <1>1 DEF Sees, InSettlement, OpenForAssociation, NotVoided, EnsureInvoiceCanBeVoided,
              On!InSettlement, On!OpenForAssociation, On!NotVoided, On!EnsureInvoiceCanBeVoided
<1>4. /\ \A p, u, caller : RequireProjectApplicant(p, u, caller) <=>
               On(w)!RequireProjectApplicant(p, u, caller)
  BY <1>2 DEF Sees, RequireProjectApplicant, SameOrganization, On!RequireProjectApplicant,
              On!SameOrganization
<1>5. /\ \A p, u, caller : RequireProjectMember(p, u, caller) <=>
               On(w)!RequireProjectMember(p, u, caller)
  BY <1>2, <1>4 DEF Sees, RequireProjectMember, On!RequireProjectMember
<1>6. /\ \A p, u, caller, role : RequireProjectManager(p, u, caller, role) <=>
               On(w)!RequireProjectManager(p, u, caller, role)
  BY <1>1, <1>2 DEF Sees, RequireProjectManager, On!RequireProjectManager
<1>7. /\ \A no : InvoiceNumberExists(no) <=> On(w)!InvoiceNumberExists(no)
      /\ \A no, i : InvoiceNumberExistsExcept(no, i) <=> On(w)!InvoiceNumberExistsExcept(no, i)
  BY <1>1 DEF Sees, InvoiceNumberExists, InvoiceNumberExistsExcept, On!InvoiceNumberExists,
              On!InvoiceNumberExistsExcept
<1>8. /\ \A p, u, org, caller : LinkableAtCreation(p, u, org, caller) <=>
               On(w)!LinkableAtCreation(p, u, org, caller)
  BY <1>3, <1>5 DEF Sees, LinkableAtCreation, On!LinkableAtCreation
<1>9. /\ \A i, no, org, caller : Corrects(i, no, org, caller) <=>
               On(w)!Corrects(i, no, org, caller)
  BY <1>3, <1>7 DEF Sees, Corrects, On!Corrects
<1>10. /\ \A i, p : SameIssuerOrganization(i, p) <=> On(w)!SameIssuerOrganization(i, p)
      /\ \A i, u, caller : RequireIssuer(i, u, caller) <=> On(w)!RequireIssuer(i, u, caller)
  BY <1>2 DEF Sees, SameIssuerOrganization, RequireIssuer, SameOrganization,
              On!SameIssuerOrganization, On!RequireIssuer, On!SameOrganization
<1>11. /\ \A i : StillAvailable(i) <=> On(w)!StillAvailable(i)
      /\ \A inv, u, msp : HandedTo(inv, u, msp) = On(w)!HandedTo(inv, u, msp)
  BY <1>2, <1>3 DEF Sees, StillAvailable, HandedTo, On!StillAvailable, On!HandedTo
<1>12. /\ \A p : NothingAwaitsAction(p) <=> On(w)!NothingAwaitsAction(p)
  BY DEF Sees, NothingAwaitsAction, On!NothingAwaitsAction
<1> QED BY <1>1, <1>2, <1>3, <1>4, <1>5, <1>6, <1>7, <1>8, <1>9, <1>10, <1>11, <1>12

LEMMA ChainVocabulary ==
  ASSUME Sees(committed)
  PROVE  /\ \A u : UserExists(u) <=> Chain!UserExists(u)
         /\ \A o : OrganizationExists(o) <=> Chain!OrganizationExists(o)
         /\ \A p : ProjectExists(p) <=> Chain!ProjectExists(p)
         /\ \A i : InvoiceExists(i) <=> Chain!InvoiceExists(i)
         /\ \A r : ReimbursementExists(r) <=> Chain!ReimbursementExists(r)
         /\ \A u : BusinessUserOrganization(u) = Chain!BusinessUserOrganization(u)
         /\ \A u, msp, roles : RequireRegisteredRole(u, msp, roles) <=>
                Chain!RequireRegisteredRole(u, msp, roles)
         /\ \A u, msp, caller, roles : RequireActiveBusinessUser(u, msp, caller, roles) <=>
                Chain!RequireActiveBusinessUser(u, msp, caller, roles)
         /\ \A p : InSettlement(p) <=> Chain!InSettlement(p)
         /\ \A p : OpenForAssociation(p) <=> Chain!OpenForAssociation(p)
         /\ \A i : NotVoided(i) <=> Chain!NotVoided(i)
         /\ \A i : EnsureInvoiceCanBeVoided(i) <=> Chain!EnsureInvoiceCanBeVoided(i)
         /\ \A p, u, caller : RequireProjectApplicant(p, u, caller) <=>
                Chain!RequireProjectApplicant(p, u, caller)
         /\ \A p, u, caller : RequireProjectMember(p, u, caller) <=>
                Chain!RequireProjectMember(p, u, caller)
         /\ \A p, u, caller, role : RequireProjectManager(p, u, caller, role) <=>
                Chain!RequireProjectManager(p, u, caller, role)
         /\ \A no : InvoiceNumberExists(no) <=> Chain!InvoiceNumberExists(no)
         /\ \A no, i : InvoiceNumberExistsExcept(no, i) <=> Chain!InvoiceNumberExistsExcept(no, i)
         /\ \A p, u, org, caller : LinkableAtCreation(p, u, org, caller) <=>
                Chain!LinkableAtCreation(p, u, org, caller)
         /\ \A i, no, org, caller : Corrects(i, no, org, caller) <=>
                Chain!Corrects(i, no, org, caller)
         /\ \A i, p : SameIssuerOrganization(i, p) <=> Chain!SameIssuerOrganization(i, p)
         /\ \A i, u, caller : RequireIssuer(i, u, caller) <=> Chain!RequireIssuer(i, u, caller)
         /\ \A i : StillAvailable(i) <=> Chain!StillAvailable(i)
         /\ \A inv, u, msp : HandedTo(inv, u, msp) = Chain!HandedTo(inv, u, msp)
         /\ \A p : NothingAwaitsAction(p) <=> Chain!NothingAwaitsAction(p)
<1>1. /\ \A u : UserExists(u) <=> Chain!UserExists(u)
      /\ \A o : OrganizationExists(o) <=> Chain!OrganizationExists(o)
      /\ \A p : ProjectExists(p) <=> Chain!ProjectExists(p)
      /\ \A i : InvoiceExists(i) <=> Chain!InvoiceExists(i)
      /\ \A r : ReimbursementExists(r) <=> Chain!ReimbursementExists(r)
  BY DEF Sees, UserExists, OrganizationExists, ProjectExists, InvoiceExists, ReimbursementExists,
         Chain!UserExists, Chain!OrganizationExists, Chain!ProjectExists, Chain!InvoiceExists,
         Chain!ReimbursementExists
<1>2. /\ \A u : BusinessUserOrganization(u) = Chain!BusinessUserOrganization(u)
      /\ \A u, msp, roles : RequireRegisteredRole(u, msp, roles) <=>
             Chain!RequireRegisteredRole(u, msp, roles)
      /\ \A u, msp, caller, roles : RequireActiveBusinessUser(u, msp, caller, roles) <=>
             Chain!RequireActiveBusinessUser(u, msp, caller, roles)
  BY <1>1 DEF Sees, BusinessUserOrganization, RequireRegisteredRole, RequireActiveBusinessUser,
              DemoAccounts, Chain!BusinessUserOrganization, Chain!RequireRegisteredRole,
              Chain!RequireActiveBusinessUser, Chain!DemoAccounts
<1>3. /\ \A p : InSettlement(p) <=> Chain!InSettlement(p)
      /\ \A p : OpenForAssociation(p) <=> Chain!OpenForAssociation(p)
      /\ \A i : NotVoided(i) <=> Chain!NotVoided(i)
      /\ \A i : EnsureInvoiceCanBeVoided(i) <=> Chain!EnsureInvoiceCanBeVoided(i)
  BY <1>1 DEF Sees, InSettlement, OpenForAssociation, NotVoided, EnsureInvoiceCanBeVoided,
              Chain!InSettlement, Chain!OpenForAssociation, Chain!NotVoided,
              Chain!EnsureInvoiceCanBeVoided
<1>4. /\ \A p, u, caller : RequireProjectApplicant(p, u, caller) <=>
               Chain!RequireProjectApplicant(p, u, caller)
  BY <1>2 DEF Sees, RequireProjectApplicant, SameOrganization, Chain!RequireProjectApplicant,
              Chain!SameOrganization
<1>5. /\ \A p, u, caller : RequireProjectMember(p, u, caller) <=>
               Chain!RequireProjectMember(p, u, caller)
  BY <1>2, <1>4 DEF Sees, Members, RequireProjectMember, Chain!RequireProjectMember
<1>6. /\ \A p, u, caller, role : RequireProjectManager(p, u, caller, role) <=>
               Chain!RequireProjectManager(p, u, caller, role)
  BY <1>1, <1>2 DEF Sees, RequireProjectManager, Chain!RequireProjectManager
<1>7. /\ \A no : InvoiceNumberExists(no) <=> Chain!InvoiceNumberExists(no)
      /\ \A no, i : InvoiceNumberExistsExcept(no, i) <=> Chain!InvoiceNumberExistsExcept(no, i)
  BY <1>1 DEF Sees, InvoiceNumberExists, InvoiceNumberExistsExcept, Chain!InvoiceNumberExists,
              Chain!InvoiceNumberExistsExcept
<1>8. /\ \A p, u, org, caller : LinkableAtCreation(p, u, org, caller) <=>
               Chain!LinkableAtCreation(p, u, org, caller)
  BY <1>3, <1>5 DEF Sees, LinkableAtCreation, Chain!LinkableAtCreation
<1>9. /\ \A i, no, org, caller : Corrects(i, no, org, caller) <=>
               Chain!Corrects(i, no, org, caller)
  BY <1>3, <1>7 DEF Sees, Corrects, Chain!Corrects
<1>10. /\ \A i, p : SameIssuerOrganization(i, p) <=> Chain!SameIssuerOrganization(i, p)
      /\ \A i, u, caller : RequireIssuer(i, u, caller) <=> Chain!RequireIssuer(i, u, caller)
  BY <1>2 DEF Sees, SameIssuerOrganization, RequireIssuer, SameOrganization,
              Chain!SameIssuerOrganization, Chain!RequireIssuer, Chain!SameOrganization
<1>11. /\ \A i : StillAvailable(i) <=> Chain!StillAvailable(i)
      /\ \A inv, u, msp : HandedTo(inv, u, msp) = Chain!HandedTo(inv, u, msp)
  BY <1>2, <1>3 DEF Sees, StillAvailable, HandedTo, Chain!StillAvailable, Chain!HandedTo
<1>12. /\ \A p : NothingAwaitsAction(p) <=> Chain!NothingAwaitsAction(p)
  BY DEF Sees, NothingAwaitsAction, Chain!NothingAwaitsAction
<1> QED BY <1>1, <1>2, <1>3, <1>4, <1>5, <1>6, <1>7, <1>8, <1>9, <1>10, <1>11, <1>12

----------------------------------------------------------------------------
(* What runs, and is written, on the ledger the peer sees is the action    *)
(* of the contract.                                                        *)

LEMMA CreationIs ==
  ASSUME TypeOK, NEW w, Sees(w), NEW known, NEW writes, Updates(writes),
         NEW i \in Invoices, NEW no \in Numbers, NEW total, NEW u, NEW p, NEW original,
         NEW caller,
         CreationRuns(w, known, writes, evidence', i, no, total, u, p, original, caller)
  PROVE  CreateInvoice(i, no, total, "CNY", u, None, p, original, caller)
<1> DEFINE org == BusinessUserOrganization(u)
           v == [status |-> "ISSUED", number |-> no, total |-> total,
                 currency |-> "CNY", issuerMsp |-> caller, issuerOrg |-> org,
                 holder |-> u, holderMsp |-> caller, holderOrg |-> org,
                 project |-> p, correctionOf |-> original]
<1>1. On(w)!BusinessUserOrganization(u) = org
  BY Vocabulary
<1>2. /\ writes = Also(One(<<"invoice", i>>, v), <<"numberIndex", no>>, i)
      /\ evidence' = Flow(i, IF original = None THEN "ISSUE" ELSE "CORRECTION", None, u)
      /\ total > 0 /\ total <= MaxMoneyCents
  BY <1>1 DEF CreationRuns
<1> HIDE DEF v
<1>3. /\ invoice' = [invoice EXCEPT ![i] = v] /\ numberIndex' = [numberIndex EXCEPT ![no] = i]
      /\ UNCHANGED <<directoryVars, projectVars, voidRequest, transfer, claimVars>>
  BY <1>2, CreationWrites
<1> HIDE DEF org
<1>4. /\ ~InvoiceExists(i)
      /\ RequireRegisteredRole(u, caller, {"ISSUER", "PROJECT_MEMBER"})
      /\ p # None => LinkableAtCreation(p, u, org, caller)
  BY <1>1, Vocabulary DEF CreationRuns, UserActs
<1>5. /\ original = None => ~InvoiceNumberExists(no)
      /\ original # None => Corrects(original, no, org, caller)
  BY <1>1, Vocabulary DEF CreationRuns
<1> QED BY <1>2, <1>3, <1>4, <1>5 DEF CreateInvoice, RequireActiveBusinessUser, org, v

LEMMA LinkIs ==
  ASSUME TypeOK, NEW w, Sees(w), NEW known, NEW writes, Updates(writes),
         NEW i, NEW p, NEW u, NEW caller,
         LinkRuns(w, known, writes, evidence', i, p, u, caller)
  PROVE  LinkInvoiceToProject(i, p, u, caller)
<1>1. /\ i \in Invoices /\ NotVoided(i) /\ EnsureInvoiceCanBeVoided(i)
      /\ OpenForAssociation(p) /\ SameIssuerOrganization(i, p)
      /\ RequireProjectMember(p, u, caller)
  BY Vocabulary
     DEF LinkRuns, FoundValid, FoundUnclaimed, MemberActs, On!RequireProjectMember
<1>2. /\ invoice[i].project = None
      /\ writes = One(<<"invoice", i>>, [invoice[i] EXCEPT !.project = p])
      /\ evidence' = ProjectEvent(p, "LINK_INVOICE", u, i)
  BY DEF LinkRuns, Sees
<1> QED BY <1>1, <1>2, InvoiceWrite DEF LinkInvoiceToProject

LEMMA UnlinkIs ==
  ASSUME TypeOK, NEW w, Sees(w), NEW known, NEW writes, Updates(writes),
         NEW i, NEW p, NEW u, NEW caller,
         UnlinkRuns(w, known, writes, evidence', i, p, u, caller)
  PROVE  UnlinkInvoiceFromProject(i, u, caller)
<1>1. /\ i \in Invoices /\ NotVoided(i) /\ EnsureInvoiceCanBeVoided(i)
      /\ ProjectExists(p) /\ SameIssuerOrganization(i, p)
      /\ RequireProjectMember(p, u, caller)
  BY Vocabulary
     DEF UnlinkRuns, FoundValid, FoundUnclaimed, MemberActs, On!RequireProjectMember
<1>2. /\ invoice[i].project = p /\ p # None /\ project[p].status # "ARCHIVED"
      /\ writes = One(<<"invoice", i>>, [invoice[i] EXCEPT !.project = None])
      /\ evidence' = ProjectEvent(p, "UNLINK_INVOICE", u, i)
  BY DEF UnlinkRuns, Sees
<1> QED BY <1>1, <1>2, InvoiceWrite DEF UnlinkInvoiceFromProject, Separable

LEMMA VoidIs ==
  ASSUME TypeOK, NEW w, Sees(w), NEW known, NEW writes, Updates(writes),
         NEW i, NEW u, NEW caller, VoidRuns(w, known, writes, evidence', i, u, caller)
  PROVE  VoidInvoice(i, u, caller)
<1>1. /\ i \in Invoices /\ NotVoided(i) /\ EnsureInvoiceCanBeVoided(i)
      /\ RequireIssuer(i, u, caller)
  BY Vocabulary DEF VoidRuns, FoundValid, FoundUnclaimed, IssuerActs
<1>2. /\ writes = One(<<"invoice", i>>, [invoice[i] EXCEPT !.status = "VOIDED"])
      /\ evidence' = Flow(i, "VOID", invoice[i].holder, None)
  BY DEF VoidRuns, Sees
<1> QED BY <1>1, <1>2, InvoiceWrite DEF VoidInvoice

LEMMA VoidRequestIs ==
  ASSUME TypeOK, NEW w, Sees(w), NEW known, NEW writes, Updates(writes),
         NEW i, NEW p, NEW u, NEW caller,
         VoidRequestRuns(w, known, writes, evidence', i, p, u, caller)
  PROVE  RequestInvoiceVoid(i, u, caller)
<1>1. /\ i \in Invoices /\ NotVoided(i) /\ EnsureInvoiceCanBeVoided(i)
      /\ ProjectExists(p) /\ RequireProjectMember(p, u, caller)
  BY Vocabulary
     DEF VoidRequestRuns, FoundValid, FoundUnclaimed, MemberActs, On!RequireProjectMember
<1>2. /\ invoice[i].project = p /\ p # None /\ voidRequest[i].status # "PENDING_REVIEW"
      /\ writes = One(<<"voidRequest", i>>, [status |-> "PENDING_REVIEW", applicant |-> u])
      /\ evidence' = Flow(i, "VOID_REQUEST", u, None)
  BY DEF VoidRequestRuns, Sees
<1> QED BY <1>1, <1>2, RequestWrite DEF RequestInvoiceVoid

LEMMA VoidReviewIs ==
  ASSUME TypeOK, NEW w, Sees(w), NEW known, NEW writes, Updates(writes),
         NEW i, NEW decision, NEW u, NEW caller,
         VoidReviewRuns(w, known, writes, evidence', i, decision, u, caller)
  PROVE  ReviewInvoiceVoid(i, decision, u, caller)
<1>1. /\ i \in Invoices /\ InvoiceExists(i) /\ RequireIssuer(i, u, caller)
      /\ voidRequest[i].status = "PENDING_REVIEW"
  BY Vocabulary DEF VoidReviewRuns, IssuerActs, Sees
<1>2. CASE decision = "REJECT"
  <2>1. /\ writes = One(<<"voidRequest", i>>, [voidRequest[i] EXCEPT !.status = "REJECTED"])
        /\ evidence' = Flow(i, "VOID_REJECTED", u, voidRequest[i].applicant)
    BY <1>2 DEF VoidReviewRuns, Sees
  <2> QED BY <1>1, <1>2, <2>1, RequestWrite DEF ReviewInvoiceVoid, invoiceVars
<1>3. CASE decision = "APPROVE"
  <2>1. NotVoided(i) /\ EnsureInvoiceCanBeVoided(i)
    BY <1>3, Vocabulary DEF VoidReviewRuns, FoundValid, FoundUnclaimed
  <2>2. /\ writes = Also(One(<<"voidRequest", i>>, [voidRequest[i] EXCEPT !.status = "APPROVED"]),
                         <<"invoice", i>>, [invoice[i] EXCEPT !.status = "VOIDED"])
        /\ evidence' = Flow(i, "VOID", invoice[i].holder, None)
    BY <1>3 DEF VoidReviewRuns, Sees
  <2> QED BY <1>1, <1>3, <2>1, <2>2, ApprovalWrites DEF ReviewInvoiceVoid
<1> QED BY <1>2, <1>3 DEF VoidReviewRuns

LEMMA TransferIs ==
  ASSUME TypeOK, NEW w, Sees(w), NEW known, NEW writes, Updates(writes),
         NEW i, NEW to, NEW toMsp, NEW u, NEW caller,
         TransferRuns(w, known, writes, evidence', i, to, toMsp, u, caller)
  PROVE  RequestInvoiceTransfer(i, to, toMsp, u, caller)
<1>1. /\ i \in Invoices /\ NotVoided(i)
      /\ RequireRegisteredRole(u, caller, HandoffRoles)
      /\ RequireRegisteredRole(to, toMsp, HandoffRoles)
  BY Vocabulary DEF TransferRuns, FoundValid, UserActs
<1>2. /\ to # invoice[i].holder /\ caller = invoice[i].holderMsp /\ u = invoice[i].holder
      /\ transfer[i].status # "PENDING"
      /\ writes = One(<<"transfer", i>>,
                      [status |-> "PENDING", from |-> u, to |-> to, toMsp |-> toMsp])
      /\ evidence' = Flow(i, "TRANSFER_REQUEST", u, to)
  BY DEF TransferRuns, Sees
<1> QED BY <1>1, <1>2, TransferWrite DEF RequestInvoiceTransfer, RequireActiveBusinessUser

LEMMA AnswerIs ==
  ASSUME TypeOK, NEW w, Sees(w), NEW known, NEW writes, Updates(writes),
         NEW i, NEW decision, NEW u, NEW caller,
         AnswerRuns(w, known, writes, evidence', i, decision, u, caller)
  PROVE  RespondInvoiceTransfer(i, decision, u, caller)
<1>1. /\ i \in Invoices /\ RequireRegisteredRole(u, caller, HandoffRoles)
      /\ transfer[i].status = "PENDING" /\ u = transfer[i].to /\ caller = transfer[i].toMsp
  BY Vocabulary DEF AnswerRuns, UserActs, Sees
<1>2. CASE decision = "REJECT"
  <2>1. /\ writes = One(<<"transfer", i>>, [transfer[i] EXCEPT !.status = "REJECTED"])
        /\ evidence' = Flow(i, "TRANSFER_REJECTED", transfer[i].from, u)
    BY <1>2 DEF AnswerRuns, Sees
  <2> QED BY <1>1, <1>2, <2>1, TransferWrite
          DEF RespondInvoiceTransfer, RequireActiveBusinessUser
<1>3. CASE decision = "ACCEPT"
  <2>1. StillAvailable(i)
    BY <1>3, Vocabulary DEF AnswerRuns
  <2>2. On(w)!HandedTo(w.invoice[i], u, caller) = HandedTo(invoice[i], u, transfer[i].toMsp)
    BY <1>1, Vocabulary DEF Sees
  <2>3. /\ writes = Also(One(<<"transfer", i>>, [transfer[i] EXCEPT !.status = "ACCEPTED"]),
                         <<"invoice", i>>, HandedTo(invoice[i], u, transfer[i].toMsp))
        /\ evidence' = Flow(i, "TRANSFER_ACCEPTED", transfer[i].from, u)
    BY <1>3, <2>2 DEF AnswerRuns, Sees
  <2> QED BY <1>1, <1>3, <2>1, <2>3, AcceptanceWrites
          DEF RespondInvoiceTransfer, RequireActiveBusinessUser
<1> QED BY <1>2, <1>3 DEF AnswerRuns

LEMMA CancelIs ==
  ASSUME TypeOK, NEW w, Sees(w), NEW known, NEW writes, Updates(writes),
         NEW i, NEW u, CancelRuns(w, known, writes, evidence', i, u)
  PROVE  CancelInvoiceTransfer(i, u)
<1>1. i \in Invoices /\ InvoiceExists(i)
  BY Vocabulary DEF CancelRuns
<1>2. /\ transfer[i].status = "PENDING" /\ transfer[i].from = u /\ invoice[i].holder = u
      /\ writes = One(<<"transfer", i>>, [transfer[i] EXCEPT !.status = "CANCELLED"])
      /\ evidence' = Flow(i, "TRANSFER_CANCELLED", u, transfer[i].to)
  BY DEF CancelRuns, Sees
<1> QED BY <1>1, <1>2, TransferWrite DEF CancelInvoiceTransfer

LEMMA ClaimIs ==
  ASSUME TypeOK, NEW w, Sees(w), NEW known, NEW writes, Updates(writes),
         NEW r, NEW p, NEW i, NEW u, NEW caller,
         ClaimRuns(w, known, writes, evidence', r, p, i, u, caller)
  PROVE  CreateReimbursement(r, p, i, u, caller)
<1>1. /\ r \in Reimbursements /\ i \in Invoices /\ ~ReimbursementExists(r)
      /\ InSettlement(p) /\ RequireProjectMember(p, u, caller)
      /\ NotVoided(i) /\ EnsureInvoiceCanBeVoided(i)
  BY Vocabulary
     DEF ClaimRuns, FoundValid, FoundUnclaimed, MemberActs, On!RequireProjectMember
<1>2. /\ invoice[i].currency \in {None, "CNY"} /\ invoice[i].project = p
      /\ invoice[i].total > 0 /\ invoice[i].total <= MaxMoneyCents
      /\ writes = Also(One(<<"reimbursement", r>>,
                           [status |-> "PENDING_REVIEW", project |-> p, invoice |-> i,
                            applicant |-> u, reviewer |-> None,
                            amount |-> invoice[i].total]),
                       <<"reimbursementInvoice", i>>, r)
      /\ evidence' = ProjectEvent(p, "SUBMIT_REIMBURSEMENT", u, r)
  BY DEF ClaimRuns, Sees
<1> QED BY <1>1, <1>2, ClaimLinkWrites
        DEF CreateReimbursement, Unclaimed, EnsureInvoiceCanBeVoided

LEMMA ReviewIs ==
  ASSUME TypeOK, NEW w, Sees(w), NEW known, NEW writes, Updates(writes),
         NEW r, NEW p, NEW i, NEW decision, NEW u, NEW caller,
         ReviewRuns(w, known, writes, evidence', r, p, i, decision, u, caller)
  PROVE  ReviewReimbursement(r, decision, u, caller)
<1>1. /\ r \in Reimbursements /\ p \in Projects /\ NotVoided(i)
      /\ RequireProjectManager(p, u, caller, "PROJECT_REVIEWER")
      /\ reimbursement[r].project = p /\ reimbursement[r].invoice = i
      /\ reimbursement[r].status = "PENDING_REVIEW"
      /\ reimbursement[r].amount > 0 /\ reimbursement[r].amount <= MaxMoneyCents
  BY Vocabulary DEF ReviewRuns, FoundClaim, FoundValid, ManagerActs, Sees
<1>2. CASE decision = "APPROVE"
  <2>1. /\ Sufficient(project[p], reimbursement[r].amount)
        /\ writes = Also(One(<<"reimbursement", r>>,
                             [reimbursement[r] EXCEPT !.reviewer = u,
                                                      !.status = "APPROVED_RESERVED"]),
                         <<"project", p>>, Reserve(project[p], reimbursement[r].amount))
        /\ evidence' = ProjectEvent(p, "REIMBURSEMENT_APPROVE", u, r)
    BY <1>2 DEF ReviewRuns, Sees
  <2> QED BY <1>1, <1>2, <2>1, ClaimProjectWrites DEF ReviewReimbursement
<1>3. CASE decision = "REVISION"
  <2>1. /\ writes = One(<<"reimbursement", r>>,
                        [reimbursement[r] EXCEPT !.reviewer = u,
                                                 !.status = "REVISION_REQUIRED"])
        /\ evidence' = ProjectEvent(p, "REIMBURSEMENT_REVISION", u, r)
    BY <1>3 DEF ReviewRuns, Sees
  <2> QED BY <1>1, <1>3, <2>1, ClaimWrite DEF ReviewReimbursement
<1> QED BY <1>2, <1>3 DEF ReviewRuns

LEMMA ResubmissionIs ==
  ASSUME TypeOK, NEW w, Sees(w), NEW known, NEW writes, Updates(writes),
         NEW r, NEW p, NEW i, NEW u, NEW caller,
         ResubmissionRuns(w, known, writes, evidence', r, p, i, u, caller)
  PROVE  ResubmitReimbursement(r, u, caller)
<1>1. /\ r \in Reimbursements /\ RequireProjectMember(p, u, caller)
      /\ reimbursement[r].project = p
  BY Vocabulary
     DEF ResubmissionRuns, FoundClaim, MemberActs, On!RequireProjectMember, Sees
<1>2. /\ reimbursement[r].status = "REVISION_REQUIRED"
      /\ writes = One(<<"reimbursement", r>>,
                      [reimbursement[r] EXCEPT !.status = "PENDING_REVIEW", !.reviewer = None])
      /\ evidence' = ProjectEvent(p, "RESUBMIT_REIMBURSEMENT", u, r)
  BY DEF ResubmissionRuns, Sees
<1> QED BY <1>1, <1>2, ClaimWrite DEF ResubmitReimbursement

LEMMA WithdrawalIs ==
  ASSUME TypeOK, NEW w, Sees(w), NEW known, NEW writes, Updates(writes),
         NEW r, NEW p, NEW i, NEW u, NEW caller,
         WithdrawalRuns(w, known, writes, evidence', r, p, i, u, caller)
  PROVE  WithdrawReimbursement(r, u, caller)
<1>1. /\ r \in Reimbursements /\ p \in Projects /\ i \in Invoices
      /\ RequireProjectMember(p, u, caller)
      /\ reimbursement[r].project = p /\ reimbursement[r].invoice = i
      /\ Withdrawable(reimbursement[r])
      /\ evidence' = ProjectEvent(p, "WITHDRAW_REIMBURSEMENT", u, r)
  BY Vocabulary
     DEF WithdrawalRuns, FoundClaim, MemberActs, On!RequireProjectMember, Sees
<1>2. CASE reimbursement[r].status = "APPROVED_RESERVED"
  <2>1. /\ BalanceAllowsRelease(project[p], reimbursement[r].amount)
        /\ writes = Also(Also(One(<<"reimbursement", r>>,
                                  [reimbursement[r] EXCEPT !.status = "WITHDRAWN"]),
                              <<"reimbursementInvoice", i>>, None),
                         <<"project", p>>, Release(project[p], reimbursement[r].amount))
    BY <1>2 DEF WithdrawalRuns, Sees
  <2> QED BY <1>1, <1>2, <2>1, WithdrawalWrites DEF WithdrawReimbursement
<1>3. CASE reimbursement[r].status # "APPROVED_RESERVED"
  <2>1. writes = Also(One(<<"reimbursement", r>>,
                          [reimbursement[r] EXCEPT !.status = "WITHDRAWN"]),
                      <<"reimbursementInvoice", i>>, None)
    BY <1>3 DEF WithdrawalRuns, Sees
  <2> QED BY <1>1, <1>3, <2>1, ClaimLinkWrites DEF WithdrawReimbursement
<1> QED BY <1>2, <1>3

LEMMA PaymentIs ==
  ASSUME TypeOK, NEW w, Sees(w), NEW known, NEW writes, Updates(writes),
         NEW r, NEW p, NEW i, NEW u, NEW caller,
         PaymentRuns(w, known, writes, evidence', r, p, i, u, caller)
  PROVE  PayReimbursement(r, u, caller)
<1>1. /\ r \in Reimbursements /\ p \in Projects /\ NotVoided(i)
      /\ RequireProjectManager(p, u, caller, "FINANCE_ADMIN")
      /\ reimbursement[r].project = p /\ reimbursement[r].invoice = i
  BY Vocabulary DEF PaymentRuns, FoundClaim, FoundValid, ManagerActs, Sees
<1>2. /\ reimbursement[r].status = "APPROVED_RESERVED"
      /\ project[p].reserved >= reimbursement[r].amount
      /\ writes = Also(One(<<"reimbursement", r>>, [reimbursement[r] EXCEPT !.status = "PAID"]),
                       <<"project", p>>, Pay(project[p], reimbursement[r].amount))
      /\ evidence' = ProjectEvent(p, "PAY_REIMBURSEMENT", u, r)
  BY DEF PaymentRuns, Sees
<1> QED BY <1>1, <1>2, ClaimProjectWrites DEF PayReimbursement

LEMMA SettlementIs ==
  ASSUME TypeOK, NEW w, Sees(w), NEW known, NEW writes, Updates(writes),
         NEW p, NEW u, NEW caller,
         SettlementRuns(w, known, writes, evidence', p, u, caller)
  PROVE  FinalizeProjectSettlement(p, u, caller)
<1>1. /\ p \in Projects /\ RequireProjectManager(p, u, caller, "FINANCE_ADMIN")
      /\ InSettlement(p) /\ NothingAwaitsAction(p)
  BY Vocabulary DEF SettlementRuns, ManagerActs
<1>2. /\ project[p].reserved = 0
      /\ writes = One(<<"project", p>>, Archive(project[p]))
      /\ evidence' = ProjectEvent(p, "FINALIZE_SETTLEMENT", u, None)
  BY DEF SettlementRuns, Sees
<1> QED BY <1>1, <1>2, ProjectWrite DEF FinalizeProjectSettlement

LEMMA RunsAreSteps ==
  ASSUME TypeOK, NEW w, Sees(w), NEW known, NEW writes, Updates(writes),
         Runs(w, known, writes, evidence')
  PROVE  InvoiceNext \/ VoidNext \/ TransferNext \/ ReimbursementNext \/ ProjectNext
<1>1. ASSUME RecordRuns(w, known, writes, evidence') PROVE InvoiceNext
  <2>1. PICK i \in Invoices, u \in Users, caller \in MSPs :
           \/ \E no \in Numbers, total \in Cents, p \in Projects \cup {None},
                 original \in Invoices \cup {None} :
                 CreationRuns(w, known, writes, evidence', i, no, total, u, p, original, caller)
           \/ \E p \in Projects : \/ LinkRuns(w, known, writes, evidence', i, p, u, caller)
                                  \/ UnlinkRuns(w, known, writes, evidence', i, p, u, caller)
    BY <1>1 DEF RecordRuns
  <2>2. ASSUME NEW no \in Numbers, NEW total \in Cents, NEW p \in Projects \cup {None},
               NEW original \in Invoices \cup {None},
               CreationRuns(w, known, writes, evidence', i, no, total, u, p, original, caller)
        PROVE  InvoiceNext
    BY <2>2, CreationIs, CurrencyAssumption DEF InvoiceNext
  <2>3. ASSUME NEW p \in Projects, LinkRuns(w, known, writes, evidence', i, p, u, caller)
        PROVE  InvoiceNext
    BY <2>3, LinkIs DEF InvoiceNext
  <2>4. ASSUME NEW p \in Projects, UnlinkRuns(w, known, writes, evidence', i, p, u, caller)
        PROVE  InvoiceNext
    BY <2>4, UnlinkIs DEF InvoiceNext
  <2> QED BY <2>1, <2>2, <2>3, <2>4
<1>2. CancellationRuns(w, known, writes, evidence') => VoidNext
  BY VoidIs, VoidRequestIs, VoidReviewIs DEF CancellationRuns, VoidNext
<1>3. CustodyRuns(w, known, writes, evidence') => TransferNext
  BY TransferIs, AnswerIs, CancelIs DEF CustodyRuns, TransferNext
<1>4. ClaimingRuns(w, known, writes, evidence') => ReimbursementNext
  BY ClaimIs, ReviewIs, ResubmissionIs, WithdrawalIs, PaymentIs
     DEF ClaimingRuns, ReimbursementNext
<1>5. (\E p \in Projects, u \in Users, caller \in MSPs :
          SettlementRuns(w, known, writes, evidence', p, u, caller)) => ProjectNext
  BY SettlementIs DEF ProjectNext
<1> QED BY <1>1, <1>2, <1>3, <1>4, <1>5 DEF Runs

----------------------------------------------------------------------------
(* A step of the contract that the peer sees before and after is one of    *)
(* the contract on the committed ledger.                                   *)

LEMMA InvoiceOnChain ==
  ASSUME Sees(committed), Sees(committed)', InvoiceNext
  PROVE  Chain!InvoiceNext
<1>1. /\ organization = committed.organization /\ user = committed.user
      /\ project = committed.project /\ invoice = committed.invoice
      /\ member = [p \in Projects |-> {u \in Users : committed.member[<<p, u>>]}]
      /\ numberIndex = committed.numberIndex /\ voidRequest = committed.voidRequest
      /\ transfer = committed.transfer /\ reimbursement = committed.reimbursement
      /\ reimbursementInvoice = committed.reimbursementInvoice
  BY DEF Sees, Members
<1>2. /\ organization' = committed'.organization /\ user' = committed'.user
      /\ project' = committed'.project /\ invoice' = committed'.invoice
      /\ member' = [p \in Projects |-> {u \in Users : committed'.member[<<p, u>>]}]
      /\ numberIndex' = committed'.numberIndex /\ voidRequest' = committed'.voidRequest
      /\ transfer' = committed'.transfer /\ reimbursement' = committed'.reimbursement
      /\ reimbursementInvoice' = committed'.reimbursementInvoice
  BY DEF Sees, Members
<1>3. \A i, no, total, currency, u, org, p, original, caller :
         CreateInvoice(i, no, total, currency, u, org, p, original, caller) =>
             Chain!CreateInvoice(i, no, total, currency, u, org, p, original, caller)
  BY <1>1, <1>2, ChainVocabulary
     DEF CreateInvoice, Flow, directoryVars, projectVars, claimVars, Chain!CreateInvoice,
         Chain!Flow, Chain!directoryVars, Chain!projectVars, Chain!claimVars
<1>4. \A i, p, u, caller :
         LinkInvoiceToProject(i, p, u, caller) => Chain!LinkInvoiceToProject(i, p, u, caller)
  BY <1>1, <1>2, ChainVocabulary
     DEF LinkInvoiceToProject, ProjectEvent, directoryVars, projectVars, claimVars,
         Chain!LinkInvoiceToProject, Chain!ProjectEvent, Chain!directoryVars, Chain!projectVars,
         Chain!claimVars
<1>5. \A i, u, caller :
         UnlinkInvoiceFromProject(i, u, caller) => Chain!UnlinkInvoiceFromProject(i, u, caller)
  BY <1>1, <1>2, ChainVocabulary
     DEF UnlinkInvoiceFromProject, Separable, ProjectEvent, directoryVars, projectVars,
         claimVars, Chain!UnlinkInvoiceFromProject, Chain!Separable, Chain!ProjectEvent,
         Chain!directoryVars, Chain!projectVars, Chain!claimVars
<1>6. PICK i \in Invoices, u \in Users, caller \in MSPs :
         \/ \E no \in Numbers, total \in Cents, currency \in Currencies,
               org \in Orgs \cup {None}, p \in Projects \cup {None},
               original \in Invoices \cup {None} :
               CreateInvoice(i, no, total, currency, u, org, p, original, caller)
         \/ \E p \in Projects : LinkInvoiceToProject(i, p, u, caller)
         \/ UnlinkInvoiceFromProject(i, u, caller)
  BY DEF InvoiceNext
<1>7. caller \in Chain!MSPs
  BY DEF MSPs, Chain!MSPs
<1>8. ASSUME NEW no \in Numbers, NEW total \in Cents, NEW currency \in Currencies,
             NEW org \in Orgs \cup {None}, NEW p \in Projects \cup {None},
             NEW original \in Invoices \cup {None},
             CreateInvoice(i, no, total, currency, u, org, p, original, caller)
      PROVE  Chain!InvoiceNext
  <2>1. Chain!CreateInvoice(i, no, total, currency, u, org, p, original, caller)
    BY <1>3, <1>8
  <2> QED BY <1>7, <2>1 DEF Chain!InvoiceNext
<1>9. (\E p \in Projects : LinkInvoiceToProject(i, p, u, caller)) => Chain!InvoiceNext
  BY <1>4, <1>7 DEF Chain!InvoiceNext
<1>10. UnlinkInvoiceFromProject(i, u, caller) => Chain!InvoiceNext
  BY <1>5, <1>7 DEF Chain!InvoiceNext
<1> QED BY <1>6, <1>8, <1>9, <1>10

LEMMA VoidOnChain ==
  ASSUME Sees(committed), Sees(committed)', VoidNext
  PROVE  Chain!VoidNext
<1>1. /\ organization = committed.organization /\ user = committed.user
      /\ project = committed.project /\ invoice = committed.invoice
      /\ member = [p \in Projects |-> {u \in Users : committed.member[<<p, u>>]}]
      /\ numberIndex = committed.numberIndex /\ voidRequest = committed.voidRequest
      /\ transfer = committed.transfer /\ reimbursement = committed.reimbursement
      /\ reimbursementInvoice = committed.reimbursementInvoice
  BY DEF Sees, Members
<1>2. /\ organization' = committed'.organization /\ user' = committed'.user
      /\ project' = committed'.project /\ invoice' = committed'.invoice
      /\ member' = [p \in Projects |-> {u \in Users : committed'.member[<<p, u>>]}]
      /\ numberIndex' = committed'.numberIndex /\ voidRequest' = committed'.voidRequest
      /\ transfer' = committed'.transfer /\ reimbursement' = committed'.reimbursement
      /\ reimbursementInvoice' = committed'.reimbursementInvoice
  BY DEF Sees, Members
<1>3. \A i, u, caller :
         VoidInvoice(i, u, caller) => Chain!VoidInvoice(i, u, caller)
  BY <1>1, <1>2, ChainVocabulary
     DEF VoidInvoice, Flow, directoryVars, projectVars, claimVars, Chain!VoidInvoice,
         Chain!Flow, Chain!directoryVars, Chain!projectVars, Chain!claimVars
<1>4. \A i, u, caller :
         RequestInvoiceVoid(i, u, caller) => Chain!RequestInvoiceVoid(i, u, caller)
  BY <1>1, <1>2, ChainVocabulary
     DEF RequestInvoiceVoid, Flow, directoryVars, projectVars, invoiceVars, claimVars,
         Chain!RequestInvoiceVoid, Chain!Flow, Chain!directoryVars, Chain!projectVars,
         Chain!invoiceVars, Chain!claimVars
<1>5. \A i, decision, u, caller :
         ReviewInvoiceVoid(i, decision, u, caller) =>
             Chain!ReviewInvoiceVoid(i, decision, u, caller)
  BY <1>1, <1>2, ChainVocabulary
     DEF ReviewInvoiceVoid, Flow, directoryVars, projectVars, claimVars,
         Chain!ReviewInvoiceVoid, Chain!Flow, Chain!directoryVars, Chain!projectVars,
         Chain!claimVars
<1> QED BY <1>3, <1>4, <1>5 DEF VoidNext, MSPs, Chain!VoidNext, Chain!MSPs

LEMMA TransferOnChain ==
  ASSUME Sees(committed), Sees(committed)', TransferNext
  PROVE  Chain!TransferNext
<1>1. /\ organization = committed.organization /\ user = committed.user
      /\ project = committed.project /\ invoice = committed.invoice
      /\ member = [p \in Projects |-> {u \in Users : committed.member[<<p, u>>]}]
      /\ numberIndex = committed.numberIndex /\ voidRequest = committed.voidRequest
      /\ transfer = committed.transfer /\ reimbursement = committed.reimbursement
      /\ reimbursementInvoice = committed.reimbursementInvoice
  BY DEF Sees, Members
<1>2. /\ organization' = committed'.organization /\ user' = committed'.user
      /\ project' = committed'.project /\ invoice' = committed'.invoice
      /\ member' = [p \in Projects |-> {u \in Users : committed'.member[<<p, u>>]}]
      /\ numberIndex' = committed'.numberIndex /\ voidRequest' = committed'.voidRequest
      /\ transfer' = committed'.transfer /\ reimbursement' = committed'.reimbursement
      /\ reimbursementInvoice' = committed'.reimbursementInvoice
  BY DEF Sees, Members
<1>3. ASSUME NEW i, NEW to, NEW toMsp, NEW u, NEW caller, TransferInvoice(i, to, toMsp, u, caller)
      PROVE  Chain!TransferInvoice(i, to, toMsp, u, caller)
  <2>1. /\ invoice' = [invoice EXCEPT ![i] = HandedTo(invoice[i], to, toMsp)]
        /\ HandedTo(invoice[i], to, toMsp) = Chain!HandedTo(invoice[i], to, toMsp)
    BY <1>3, ChainVocabulary DEF TransferInvoice
  <2>2. committed'.invoice
          = [committed.invoice EXCEPT ![i] = Chain!HandedTo(committed.invoice[i], to, toMsp)]
    BY <1>1, <1>2, <2>1
  <2>3. /\ Chain!NotVoided(i) /\ to # committed.invoice[i].holder
        /\ Chain!RequireActiveHolder(to, toMsp)
        /\ caller = committed.invoice[i].holderMsp /\ u = committed.invoice[i].holder
        /\ Chain!RequireActiveBusinessUser(u, caller, caller, Chain!HandoffRoles)
    BY <1>1, <1>3, ChainVocabulary
       DEF TransferInvoice, RequireActiveHolder, Chain!RequireActiveHolder, HandoffRoles,
           Chain!HandoffRoles
  <2>4. Chain!SameOrganization(committed.invoice[i].holderOrg, Chain!BusinessUserOrganization(u))
    BY <1>1, <1>3, ChainVocabulary DEF TransferInvoice, SameOrganization, Chain!SameOrganization
  <2>5. /\ evidence' = Chain!Flow(i, "TRANSFER", u, to)
        /\ UNCHANGED committed.transfer /\ Chain!TransferFrame
    BY <1>1, <1>2, <1>3
       DEF TransferInvoice, Flow, Chain!Flow, TransferFrame, directoryVars, projectVars,
           claimVars,
           Chain!TransferFrame, Chain!directoryVars, Chain!projectVars, Chain!claimVars
  <2> QED BY <2>2, <2>3, <2>4, <2>5 DEF Chain!TransferInvoice
<1>4. \A i, to, toMsp, u, caller :
         RequestInvoiceTransfer(i, to, toMsp, u, caller) =>
             Chain!RequestInvoiceTransfer(i, to, toMsp, u, caller)
  BY <1>1, <1>2, ChainVocabulary
     DEF RequestInvoiceTransfer, HandoffRoles, Flow, TransferFrame, directoryVars, projectVars,
         claimVars, Chain!RequestInvoiceTransfer, Chain!HandoffRoles, Chain!Flow,
         Chain!TransferFrame, Chain!directoryVars, Chain!projectVars, Chain!claimVars
<1>5. \A i, decision, u, caller :
         RespondInvoiceTransfer(i, decision, u, caller) =>
             Chain!RespondInvoiceTransfer(i, decision, u, caller)
  BY <1>1, <1>2, ChainVocabulary
     DEF RespondInvoiceTransfer, HandoffRoles, Flow, TransferFrame, directoryVars, projectVars,
         claimVars, Chain!RespondInvoiceTransfer, Chain!HandoffRoles, Chain!Flow,
         Chain!TransferFrame, Chain!directoryVars, Chain!projectVars, Chain!claimVars
<1>6. \A i, u :
         CancelInvoiceTransfer(i, u) => Chain!CancelInvoiceTransfer(i, u)
  BY <1>1, <1>2, ChainVocabulary
     DEF CancelInvoiceTransfer, Flow, TransferFrame, directoryVars, projectVars, claimVars,
         Chain!CancelInvoiceTransfer, Chain!Flow, Chain!TransferFrame, Chain!directoryVars,
         Chain!projectVars, Chain!claimVars
<1> QED BY <1>3, <1>4, <1>5, <1>6 DEF TransferNext, MSPs, Chain!TransferNext, Chain!MSPs

LEMMA ClaimOnChain ==
  ASSUME Sees(committed), Sees(committed)', ReimbursementNext
  PROVE  Chain!ReimbursementNext
<1>1. /\ organization = committed.organization /\ user = committed.user
      /\ project = committed.project /\ invoice = committed.invoice
      /\ member = [p \in Projects |-> {u \in Users : committed.member[<<p, u>>]}]
      /\ numberIndex = committed.numberIndex /\ voidRequest = committed.voidRequest
      /\ transfer = committed.transfer /\ reimbursement = committed.reimbursement
      /\ reimbursementInvoice = committed.reimbursementInvoice
  BY DEF Sees, Members
<1>2. /\ organization' = committed'.organization /\ user' = committed'.user
      /\ project' = committed'.project /\ invoice' = committed'.invoice
      /\ member' = [p \in Projects |-> {u \in Users : committed'.member[<<p, u>>]}]
      /\ numberIndex' = committed'.numberIndex /\ voidRequest' = committed'.voidRequest
      /\ transfer' = committed'.transfer /\ reimbursement' = committed'.reimbursement
      /\ reimbursementInvoice' = committed'.reimbursementInvoice
  BY DEF Sees, Members
<1>3. \A r, p, i, u, caller :
         CreateReimbursement(r, p, i, u, caller) => Chain!CreateReimbursement(r, p, i, u, caller)
  BY <1>1, <1>2, ChainVocabulary
     DEF CreateReimbursement, Unclaimed, ProjectEvent, ReimbursementFrame, directoryVars,
         invoiceVars, Chain!CreateReimbursement, Chain!Unclaimed, Chain!ProjectEvent,
         Chain!ReimbursementFrame, Chain!directoryVars, Chain!invoiceVars
<1>4. \A r, decision, u, caller :
         ReviewReimbursement(r, decision, u, caller) =>
             Chain!ReviewReimbursement(r, decision, u, caller)
  BY <1>1, <1>2, ChainVocabulary
     DEF ReviewReimbursement, Sufficient, Reserve, ProjectEvent, ReimbursementFrame,
         directoryVars, invoiceVars, Chain!ReviewReimbursement, Chain!Sufficient, Chain!Reserve,
         Chain!ProjectEvent, Chain!ReimbursementFrame, Chain!directoryVars, Chain!invoiceVars
<1>5. \A r, u, caller :
         ResubmitReimbursement(r, u, caller) => Chain!ResubmitReimbursement(r, u, caller)
  BY <1>1, <1>2, ChainVocabulary
     DEF ResubmitReimbursement, ProjectEvent, ReimbursementFrame, directoryVars, invoiceVars,
         Chain!ResubmitReimbursement, Chain!ProjectEvent, Chain!ReimbursementFrame,
         Chain!directoryVars, Chain!invoiceVars
<1>6. ASSUME NEW r, NEW u, NEW caller, WithdrawReimbursement(r, u, caller)
      PROVE  Chain!WithdrawReimbursement(r, u, caller)
  <2> DEFINE claim == committed.reimbursement[r]
  <2>1. Chain!Withdrawable(claim) /\ Chain!RequireProjectMember(claim.project, u, caller)
    BY <1>1, <1>6, ChainVocabulary DEF WithdrawReimbursement, Withdrawable, Chain!Withdrawable
  <2>2. \/ /\ claim.status = "APPROVED_RESERVED"
           /\ Chain!BalanceAllowsRelease(committed.project[claim.project], claim.amount)
           /\ committed'.project = [committed.project EXCEPT ![claim.project] =
                  Chain!Release(committed.project[claim.project], claim.amount)]
        \/ claim.status # "APPROVED_RESERVED" /\ UNCHANGED committed.project
    BY <1>1, <1>2, <1>6
       DEF WithdrawReimbursement, BalanceAllowsRelease, CheckedAddMoney, Release,
           Chain!BalanceAllowsRelease, Chain!CheckedAddMoney, Chain!Release
  <2>3. /\ committed'.reimbursement =
              [committed.reimbursement EXCEPT ![r].status = "WITHDRAWN"]
        /\ committed'.reimbursementInvoice =
              [committed.reimbursementInvoice EXCEPT ![claim.invoice] = None]
        /\ evidence' = Chain!ProjectEvent(claim.project, "WITHDRAW_REIMBURSEMENT", u, r)
    BY <1>1, <1>2, <1>6 DEF WithdrawReimbursement, ProjectEvent, Chain!ProjectEvent
  <2>4. Chain!ReimbursementFrame
    BY <1>1, <1>2, <1>6
       DEF WithdrawReimbursement, ReimbursementFrame, directoryVars, invoiceVars,
           Chain!ReimbursementFrame, Chain!directoryVars, Chain!invoiceVars
  <2> QED BY <2>1, <2>2, <2>3, <2>4 DEF Chain!WithdrawReimbursement
<1>7. \A r, u, caller :
         PayReimbursement(r, u, caller) => Chain!PayReimbursement(r, u, caller)
  BY <1>1, <1>2, ChainVocabulary
     DEF PayReimbursement, Pay, ProjectEvent, ReimbursementFrame, directoryVars, invoiceVars,
         Chain!PayReimbursement, Chain!Pay, Chain!ProjectEvent, Chain!ReimbursementFrame,
         Chain!directoryVars, Chain!invoiceVars
<1> QED BY <1>3, <1>4, <1>5, <1>6, <1>7 DEF ReimbursementNext, MSPs, Chain!ReimbursementNext,
                                            Chain!MSPs

LEMMA ProjectOnChain ==
  ASSUME Sees(committed), Sees(committed)', ProjectNext
  PROVE  Chain!ProjectNext
<1>1. /\ organization = committed.organization /\ user = committed.user
      /\ project = committed.project /\ invoice = committed.invoice
      /\ member = [p \in Projects |-> {u \in Users : committed.member[<<p, u>>]}]
      /\ numberIndex = committed.numberIndex /\ voidRequest = committed.voidRequest
      /\ transfer = committed.transfer /\ reimbursement = committed.reimbursement
      /\ reimbursementInvoice = committed.reimbursementInvoice
  BY DEF Sees, Members
<1>2. /\ organization' = committed'.organization /\ user' = committed'.user
      /\ project' = committed'.project /\ invoice' = committed'.invoice
      /\ member' = [p \in Projects |-> {u \in Users : committed'.member[<<p, u>>]}]
      /\ numberIndex' = committed'.numberIndex /\ voidRequest' = committed'.voidRequest
      /\ transfer' = committed'.transfer /\ reimbursement' = committed'.reimbursement
      /\ reimbursementInvoice' = committed'.reimbursementInvoice
  BY DEF Sees, Members
<1>3. ASSUME NEW p, NEW budget, NEW u, NEW org, NEW caller,
             CreateProject(p, budget, u, org, caller)
      PROVE  Chain!CreateProject(p, budget, u, org, caller)
  <2>1. [q \in Projects |-> {x \in Users : committed'.member[<<q, x>>]}]
          = [[q \in Projects |-> {x \in Users : committed.member[<<q, x>>]}]
               EXCEPT ![p] = @ \cup {u}]
    BY <1>1, <1>2, <1>3 DEF CreateProject
  <2>2. \A x : x \in member[p]
                <=> x \in [q \in Projects |-> {y \in Users : committed.member[<<q, y>>]}][p]
    BY <1>1
  <2> QED BY <1>1, <1>2, <1>3, <2>1, <2>2, ChainVocabulary
       DEF CreateProject, ValidBudget, AbsentProject, ProjectEvent, ProjectFrame, directoryVars,
         invoiceVars, claimVars, Chain!CreateProject, Chain!ValidBudget, Chain!AbsentProject,
         Chain!ProjectEvent, Chain!ProjectFrame, Chain!directoryVars, Chain!invoiceVars,
         Chain!claimVars
<1>4. \A p, budget, u, caller :
         UpdateProject(p, budget, u, caller) => Chain!UpdateProject(p, budget, u, caller)
  BY <1>1, <1>2, ChainVocabulary
     DEF UpdateProject, ValidBudget, Editable, ProjectEvent, ProjectFrame, directoryVars,
         invoiceVars, claimVars, Chain!UpdateProject, Chain!ValidBudget, Chain!Editable,
         Chain!ProjectEvent, Chain!ProjectFrame, Chain!directoryVars, Chain!invoiceVars,
         Chain!claimVars
<1>5. \A p, u, caller :
         SubmitProject(p, u, caller) => Chain!SubmitProject(p, u, caller)
  BY <1>1, <1>2, ChainVocabulary
     DEF SubmitProject, Editable, ProjectEvent, ProjectFrame, directoryVars, invoiceVars,
         claimVars, Chain!SubmitProject, Chain!Editable, Chain!ProjectEvent, Chain!ProjectFrame,
         Chain!directoryVars, Chain!invoiceVars, Chain!claimVars
<1>6. \A p, decision, u, caller :
         ReviewProject(p, decision, u, caller) => Chain!ReviewProject(p, decision, u, caller)
  BY <1>1, <1>2, ChainVocabulary
     DEF ReviewProject, ProjectEvent, ProjectFrame, directoryVars, invoiceVars, claimVars,
         Chain!ReviewProject, Chain!ProjectEvent, Chain!ProjectFrame, Chain!directoryVars,
         Chain!invoiceVars, Chain!claimVars
<1>7. \A p, u, caller :
         RequestProjectClosure(p, u, caller) => Chain!RequestProjectClosure(p, u, caller)
  BY <1>1, <1>2, ChainVocabulary
     DEF RequestProjectClosure, ProjectEvent, ProjectFrame, directoryVars, invoiceVars,
         claimVars, Chain!RequestProjectClosure, Chain!ProjectEvent, Chain!ProjectFrame,
         Chain!directoryVars, Chain!invoiceVars, Chain!claimVars
<1>8. \A p, decision, u, caller :
         ReviewProjectClosure(p, decision, u, caller) =>
             Chain!ReviewProjectClosure(p, decision, u, caller)
  BY <1>1, <1>2, ChainVocabulary
     DEF ReviewProjectClosure, ProjectEvent, ProjectFrame, directoryVars, invoiceVars,
         claimVars, Chain!ReviewProjectClosure, Chain!ProjectEvent, Chain!ProjectFrame,
         Chain!directoryVars, Chain!invoiceVars, Chain!claimVars
<1>9. \A p, u, caller :
         FinalizeProjectSettlement(p, u, caller) => Chain!FinalizeProjectSettlement(p, u, caller)
  BY <1>1, <1>2, ChainVocabulary
     DEF FinalizeProjectSettlement, Archive, ProjectEvent, ProjectFrame, directoryVars,
         invoiceVars, claimVars, Chain!FinalizeProjectSettlement, Chain!Archive,
         Chain!ProjectEvent, Chain!ProjectFrame, Chain!directoryVars, Chain!invoiceVars,
         Chain!claimVars
<1>10. ASSUME NEW p, NEW added, NEW u, NEW caller,
             AddProjectMember(p, added, u, caller)
      PROVE  Chain!AddProjectMember(p, added, u, caller)
  <2>1. [q \in Projects |-> {x \in Users : committed'.member[<<q, x>>]}]
          = [[q \in Projects |-> {x \in Users : committed.member[<<q, x>>]}]
               EXCEPT ![p] = @ \cup {added}]
    BY <1>1, <1>2, <1>10 DEF AddProjectMember
  <2>2. \A x : x \in member[p]
                <=> x \in [q \in Projects |-> {y \in Users : committed.member[<<q, y>>]}][p]
    BY <1>1
  <2> QED BY <1>1, <1>2, <1>10, <2>1, <2>2, ChainVocabulary
       DEF AddProjectMember, FitForMembership, ProjectEvent, ProjectFrame, directoryVars,
         invoiceVars, claimVars, Chain!AddProjectMember, Chain!FitForMembership,
         Chain!ProjectEvent, Chain!ProjectFrame, Chain!directoryVars, Chain!invoiceVars,
         Chain!claimVars
<1> QED BY <1>3, <1>4, <1>5, <1>6, <1>7, <1>8, <1>9, <1>10 DEF ProjectNext, MSPs,
                                                               Chain!ProjectNext, Chain!MSPs

LEMMA DirectoryOnChain ==
  ASSUME Sees(committed), Sees(committed)', DirectoryNext
  PROVE  Chain!DirectoryNext
<1>1. /\ organization = committed.organization /\ user = committed.user
      /\ project = committed.project /\ invoice = committed.invoice
      /\ member = [p \in Projects |-> {u \in Users : committed.member[<<p, u>>]}]
      /\ numberIndex = committed.numberIndex /\ voidRequest = committed.voidRequest
      /\ transfer = committed.transfer /\ reimbursement = committed.reimbursement
      /\ reimbursementInvoice = committed.reimbursementInvoice
  BY DEF Sees, Members
<1>2. /\ organization' = committed'.organization /\ user' = committed'.user
      /\ project' = committed'.project /\ invoice' = committed'.invoice
      /\ member' = [p \in Projects |-> {u \in Users : committed'.member[<<p, u>>]}]
      /\ numberIndex' = committed'.numberIndex /\ voidRequest' = committed'.voidRequest
      /\ transfer' = committed'.transfer /\ reimbursement' = committed'.reimbursement
      /\ reimbursementInvoice' = committed'.reimbursementInvoice
  BY DEF Sees, Members
<1>3. \A u, msp, org, caller :
         RegisterBusinessUser(u, msp, org, caller) =>
             Chain!RegisterBusinessUser(u, msp, org, caller)
  BY <1>1, <1>2, ChainVocabulary
     DEF RegisterBusinessUser, NoEvidence, projectVars, invoiceVars, claimVars, MSPs,
         Chain!RegisterBusinessUser, Chain!NoEvidence, Chain!projectVars, Chain!invoiceVars,
         Chain!claimVars, Chain!MSPs
<1>4. \A o, type, parent, u, caller :
         CreateBusinessOrganization(o, type, parent, u, caller) =>
             Chain!CreateBusinessOrganization(o, type, parent, u, caller)
  BY <1>1, <1>2, ChainVocabulary
     DEF CreateBusinessOrganization, NoEvidence, projectVars, invoiceVars, claimVars,
         Chain!CreateBusinessOrganization, Chain!NoEvidence, Chain!projectVars,
         Chain!invoiceVars, Chain!claimVars
<1> QED BY <1>3, <1>4 DEF DirectoryNext, MSPs, Chain!DirectoryNext, Chain!MSPs

LEMMA StepOnChain ==
  ASSUME Sees(committed), Sees(committed)', Next
  PROVE  Chain!Next
BY InvoiceOnChain, VoidOnChain, TransferOnChain, ClaimOnChain, ProjectOnChain, DirectoryOnChain
   DEF Next, Chain!Next

----------------------------------------------------------------------------
(* An action of the contract that the peer runs is a run in the sense      *)
(* above: what it reads is enough to be sure of its guards.                *)

LEMMA OneIs == \A key, v : DOMAIN One(key, v) = {key} /\ One(key, v)[key] = v
BY DEF One

\* A write is sure of its effect.
SureOf(w, known, key, v) ==
  /\ key \in Keys
  /\ (key \in known /\ Present(w, key)) \/ v # Value(w, key)

LEMMA SureOne ==
  ASSUME NEW w, NEW known, NEW key, NEW v, SureOf(w, known, key, v)
  PROVE  Sure(w, known, One(key, v))
<1> DEFINE writes == One(key, v)
<1>1. DOMAIN writes = {key} /\ writes[key] = v
  BY OneIs
<1> HIDE DEF writes
<1>2. ASSUME NEW k \in DOMAIN writes
      PROVE  k \in Keys /\ ((k \in known /\ Present(w, k)) \/ writes[k] # Value(w, k))
  <2>1. k = key
    BY <1>1
  <2> QED BY <1>1, <2>1 DEF SureOf
<1> QED BY <1>2 DEF Sure, writes

LEMMA SureAlso ==
  ASSUME NEW w, NEW known, NEW writes, NEW key, NEW v,
         Sure(w, known, writes), SureOf(w, known, key, v)
  PROVE  Sure(w, known, Also(writes, key, v))
<1> DEFINE more == Also(writes, key, v)
<1>1. /\ DOMAIN more = DOMAIN writes \cup {key} /\ more[key] = v
      /\ \A k \in DOMAIN writes : k # key => more[k] = writes[k]
  BY DEF Also
<1> HIDE DEF more
<1>2. ASSUME NEW k \in DOMAIN more
      PROVE  k \in Keys /\ ((k \in known /\ Present(w, k)) \/ more[k] # Value(w, k))
  <2>1. CASE k = key
    BY <1>1, <2>1 DEF SureOf
  <2>2. CASE k # key
    <3>1. k \in DOMAIN writes /\ more[k] = writes[k]
      BY <1>1, <2>2
    <3> QED BY <3>1 DEF Sure
  <2> QED BY <2>1, <2>2
<1> QED BY <1>2 DEF Sure, more

LEMMA NoMemberWritten ==
  /\ \A f, id, v : f # "member" => NoMember(One(<<f, id>>, v))
  /\ \A writes, f, id, v :
        NoMember(writes) /\ f # "member" => NoMember(Also(writes, <<f, id>>, v))
<1>1. \A f, id, v : f # "member" => NoMember(One(<<f, id>>, v))
  BY DEF NoMember, One
<1>2. \A writes, f, id, v :
         NoMember(writes) /\ f # "member" => NoMember(Also(writes, <<f, id>>, v))
  BY DEF NoMember, Also
<1> QED BY <1>1, <1>2

\* What the peer has ready for the gateway after a run.
Prepared(w, reads) ==
  \E writes : /\ Runs(w, reads, writes, evidence') /\ Sure(w, reads, writes)
             /\ Updates(writes) /\ NoMember(writes)

LEMMA MemberPrepared ==
  ASSUME LedgerInv, NEW w, Sees(w), NEW known, NEW p \in Projects, NEW u \in Users, NEW caller,
         ProjectExists(p), RequireProjectMember(p, u, caller), MemberReads(p, u) \subseteq known
  PROVE  MemberActs(w, known, p, u, caller)
<1>1. /\ {<<"project", p>>, <<"user", u>>} \subseteq known
      /\ u # project[p].applicant => <<"member", <<p, u>>>> \in known
  BY DEF MemberReads, Key
<1>2. u \in member[p] => /\ UserExists(u) /\ user[u].org = project[p].org
  BY DEF LedgerInv, MemberInv, MembersBelongToProject, UserExists
<1>3. u = project[p].applicant => RequireProjectApplicant(p, u, caller)
  BY <1>2 DEF RequireProjectMember, RequireProjectApplicant, SameOrganization,
              BusinessUserOrganization
<1> QED BY <1>1, <1>3, Vocabulary DEF MemberActs, Sees

LEMMA ManagerPrepared ==
  ASSUME LedgerInv, NEW w, Sees(w), NEW known, NEW p \in Projects, NEW u \in Users, NEW caller,
         NEW role, ProjectExists(p), RequireProjectManager(p, u, caller, role),
         ManagerReads(p, u) \subseteq known
  PROVE  ManagerActs(w, known, p, u, caller, role)
<1>1. /\ {<<"project", p>>, <<"user", u>>} \subseteq known
      /\ UserExists(u) /\ user[u].org # project[p].org
            => <<"organization", project[p].org>> \in known
  BY DEF ManagerReads, Key
<1>2. project[p].org \in Orgs
  BY DEF LedgerInv, MemberInv, TypeOK, Project, TeamsKnown
<1> QED BY <1>1, <1>2, Vocabulary DEF ManagerActs, Sees

LEMMA InvoicePrepared ==
  ASSUME NEW w, Sees(w), NEW known, NEW i \in Invoices
  PROVE  /\ <<"invoice", i>> \in known /\ NotVoided(i) => FoundValid(w, known, i)
         /\ <<"reimbursementInvoice", i>> \in known /\ EnsureInvoiceCanBeVoided(i)
              => FoundUnclaimed(w, known, i)
         /\ \A u, caller :
               (u \in Users /\ {<<"invoice", i>>, <<"user", u>>} \subseteq known
                  /\ InvoiceExists(i) /\ RequireIssuer(i, u, caller))
                 => IssuerActs(w, known, i, u, caller)
BY Vocabulary DEF FoundValid, FoundUnclaimed, IssuerActs

LEMMA UserPrepared ==
  ASSUME NEW w, Sees(w), NEW known, NEW u \in Users, NEW msp, NEW roles,
         <<"user", u>> \in known, RequireRegisteredRole(u, msp, roles)
  PROVE  UserActs(w, known, u, msp, roles)
BY Vocabulary DEF UserActs

\* A key that was found, and one whose value the write changes.
LEMMA SureKeys ==
  ASSUME NEW w, Sees(w), NEW known
  PROVE  /\ \A p \in Projects : \A x :
               (<<"project", p>> \in known /\ ProjectExists(p)) \/ x # project[p]
                 => SureOf(w, known, <<"project", p>>, x)
         /\ \A i \in Invoices : \A x :
               (<<"invoice", i>> \in known /\ InvoiceExists(i)) \/ x # invoice[i]
                 => SureOf(w, known, <<"invoice", i>>, x)
         /\ \A no \in Numbers : \A x :
               (<<"numberIndex", no>> \in known /\ numberIndex[no] # None) \/ x # numberIndex[no]
                 => SureOf(w, known, <<"numberIndex", no>>, x)
         /\ \A i \in Invoices : \A x :
               (<<"voidRequest", i>> \in known /\ voidRequest[i].status # "ABSENT")
                 \/ x # voidRequest[i]
                 => SureOf(w, known, <<"voidRequest", i>>, x)
         /\ \A i \in Invoices : \A x :
               (<<"transfer", i>> \in known /\ transfer[i].status # "ABSENT") \/ x # transfer[i]
                 => SureOf(w, known, <<"transfer", i>>, x)
         /\ \A r \in Reimbursements : \A x :
               (<<"reimbursement", r>> \in known /\ ReimbursementExists(r))
                 \/ x # reimbursement[r]
                 => SureOf(w, known, <<"reimbursement", r>>, x)
         /\ \A i \in Invoices : \A x :
               (<<"reimbursementInvoice", i>> \in known /\ reimbursementInvoice[i] # None)
                 \/ x # reimbursementInvoice[i]
                 => SureOf(w, known, <<"reimbursementInvoice", i>>, x)
<1>1. /\ project = w.project /\ invoice = w.invoice /\ numberIndex = w.numberIndex
      /\ voidRequest = w.voidRequest /\ transfer = w.transfer
      /\ reimbursement = w.reimbursement /\ reimbursementInvoice = w.reimbursementInvoice
  BY DEF Sees
<1>2. ASSUME NEW p \in Projects, NEW x,
             (<<"project", p>> \in known /\ ProjectExists(p)) \/ x # project[p]
      PROVE  SureOf(w, known, <<"project", p>>, x)
  <2>1. <<"project", p>> \in Keys
    BY KeysAre
  <2> QED BY <1>1, <1>2, <2>1, Values, Presence
          DEF SureOf, ProjectExists, InvoiceExists, ReimbursementExists
<1>3. ASSUME NEW i \in Invoices, NEW x,
             (<<"invoice", i>> \in known /\ InvoiceExists(i)) \/ x # invoice[i]
      PROVE  SureOf(w, known, <<"invoice", i>>, x)
  <2>1. <<"invoice", i>> \in Keys
    BY KeysAre
  <2> QED BY <1>1, <1>3, <2>1, Values, Presence
          DEF SureOf, ProjectExists, InvoiceExists, ReimbursementExists
<1>4. ASSUME NEW no \in Numbers, NEW x,
             (<<"numberIndex", no>> \in known /\ numberIndex[no] # None) \/ x # numberIndex[no]
      PROVE  SureOf(w, known, <<"numberIndex", no>>, x)
  <2>1. <<"numberIndex", no>> \in Keys
    BY KeysAre
  <2> QED BY <1>1, <1>4, <2>1, Values, Presence
          DEF SureOf, ProjectExists, InvoiceExists, ReimbursementExists
<1>5. ASSUME NEW i \in Invoices, NEW x,
             (<<"voidRequest", i>> \in known /\ voidRequest[i].status # "ABSENT")
               \/ x # voidRequest[i]
      PROVE  SureOf(w, known, <<"voidRequest", i>>, x)
  <2>1. <<"voidRequest", i>> \in Keys
    BY KeysAre
  <2> QED BY <1>1, <1>5, <2>1, Values, Presence
          DEF SureOf, ProjectExists, InvoiceExists, ReimbursementExists
<1>6. ASSUME NEW i \in Invoices, NEW x,
             (<<"transfer", i>> \in known /\ transfer[i].status # "ABSENT") \/ x # transfer[i]
      PROVE  SureOf(w, known, <<"transfer", i>>, x)
  <2>1. <<"transfer", i>> \in Keys
    BY KeysAre
  <2> QED BY <1>1, <1>6, <2>1, Values, Presence
          DEF SureOf, ProjectExists, InvoiceExists, ReimbursementExists
<1>7. ASSUME NEW r \in Reimbursements, NEW x,
             (<<"reimbursement", r>> \in known /\ ReimbursementExists(r)) \/ x # reimbursement[r]
      PROVE  SureOf(w, known, <<"reimbursement", r>>, x)
  <2>1. <<"reimbursement", r>> \in Keys
    BY KeysAre
  <2> QED BY <1>1, <1>7, <2>1, Values, Presence
          DEF SureOf, ProjectExists, InvoiceExists, ReimbursementExists
<1>8. ASSUME NEW i \in Invoices, NEW x,
             (<<"reimbursementInvoice", i>> \in known /\ reimbursementInvoice[i] # None)
               \/ x # reimbursementInvoice[i]
      PROVE  SureOf(w, known, <<"reimbursementInvoice", i>>, x)
  <2>1. <<"reimbursementInvoice", i>> \in Keys
    BY KeysAre
  <2> QED BY <1>1, <1>8, <2>1, Values, Presence
          DEF SureOf, ProjectExists, InvoiceExists, ReimbursementExists
<1> QED BY <1>2, <1>3, <1>4, <1>5, <1>6, <1>7, <1>8

LEMMA CreationPrepared ==
  ASSUME LedgerInv, NEW w, Sees(w), NEW i \in Invoices, NEW no \in Numbers,
         NEW total \in Cents, NEW u \in Users, NEW p \in Projects \cup {None},
         NEW original \in Invoices \cup {None}, NEW caller \in MSPs,
         CreateInvoice(i, no, total, "CNY", u, None, p, original, caller)
  PROVE  Prepared(w, CreationReads(i, no, u, p, original))
<1> DEFINE known == CreationReads(i, no, u, p, original)
           org == BusinessUserOrganization(u)
           v == [status |-> "ISSUED", number |-> no, total |-> total,
                 currency |-> "CNY", issuerMsp |-> caller, issuerOrg |-> org,
                 holder |-> u, holderMsp |-> caller, holderOrg |-> org,
                 project |-> p, correctionOf |-> original]
           writes == Also(One(<<"invoice", i>>, v), <<"numberIndex", no>>, i)
<1>1. TypeOK
  BY DEF LedgerInv, NumberInv
<1>2. World["invoice"] = invoice /\ DOMAIN invoice = Invoices
  BY <1>1 DEF World, TypeOK
<1>3. /\ {"invoice"} \X Invoices \subseteq known
      /\ <<"numberIndex", no>> \in known /\ <<"user", u>> \in known
      /\ p # None => MemberReads(p, u) \subseteq known
      /\ original # None => <<"reimbursementInvoice", original>> \in known
  BY <1>2 DEF CreationReads, ScanOf, Key, LinkReads
<1>4. <<"invoice", i>> \in known
  BY <1>3
<1> HIDE DEF known
<1>5. /\ ~InvoiceExists(i)
      /\ RequireRegisteredRole(u, caller, {"ISSUER", "PROJECT_MEMBER"})
      /\ p # None => LinkableAtCreation(p, u, org, caller)
      /\ total > 0 /\ total <= MaxMoneyCents
      /\ original = None => ~InvoiceNumberExists(no)
      /\ original # None => Corrects(original, no, org, caller)
      /\ invoice' = [invoice EXCEPT ![i] = v] /\ numberIndex' = [numberIndex EXCEPT ![no] = i]
      /\ evidence' = Flow(i, IF original = None THEN "ISSUE" ELSE "CORRECTION", None, u)
      /\ UNCHANGED <<directoryVars, projectVars, voidRequest, transfer, claimVars>>
  BY DEF CreateInvoice, RequireActiveBusinessUser
<1>6. Updates(writes)
  BY <1>1, <1>5, CreationWrites
<1>7. On(w)!BusinessUserOrganization(u) = org
  BY Vocabulary
<1>8. p # None => /\ MemberActs(w, known, p, u, caller)
                  /\ On(w)!LinkableAtCreation(p, u, org, caller)
  <2> SUFFICES ASSUME p # None
               PROVE  /\ MemberActs(w, known, p, u, caller)
                      /\ On(w)!LinkableAtCreation(p, u, org, caller)
    OBVIOUS
  <2>1. LinkableAtCreation(p, u, org, caller)
    BY <1>5
  <2>2. p \in Projects /\ ProjectExists(p) /\ RequireProjectMember(p, u, caller)
    BY <2>1 DEF LinkableAtCreation, OpenForAssociation, InSettlement, ProjectExists
  <2>3. MemberActs(w, known, p, u, caller)
    BY <1>3, <2>2, MemberPrepared
  <2> QED BY <2>1, <2>3, Vocabulary
<1>9. original # None => /\ FoundUnclaimed(w, known, original)
                         /\ On(w)!Corrects(original, no, org, caller)
  <2> SUFFICES ASSUME original # None
               PROVE  /\ FoundUnclaimed(w, known, original)
                      /\ On(w)!Corrects(original, no, org, caller)
    OBVIOUS
  <2>1. original \in Invoices /\ Corrects(original, no, org, caller)
    BY <1>5
  <2>2. EnsureInvoiceCanBeVoided(original)
    BY <2>1 DEF Corrects
  <2> QED BY <1>3, <2>1, <2>2, InvoicePrepared, Vocabulary
<1>10. UserActs(w, known, u, caller, {"ISSUER", "PROJECT_MEMBER"})
  BY <1>3, <1>5, UserPrepared
<1>11. ~On(w)!InvoiceExists(i) /\ (original = None => ~On(w)!InvoiceNumberExists(no))
  BY <1>5, Vocabulary
<1>12. CreationRuns(w, known, writes, evidence', i, no, total, u, p, original, caller)
  BY <1>3, <1>5, <1>7, <1>8, <1>9, <1>10, <1>11 DEF CreationRuns
<1>13. v # invoice[i]
  BY <1>5 DEF InvoiceExists
<1>14. numberIndex[no] # None \/ i # numberIndex[no]
  BY NoneAssumption
<1>15. Sure(w, known, writes)
  BY <1>3, <1>13, <1>14, SureKeys, SureOne, SureAlso
<1>16. Runs(w, known, writes, evidence')
  BY <1>12 DEF Runs, RecordRuns
<1>17. NoMember(writes)
  BY NoMemberWritten
<1> QED BY <1>6, <1>15, <1>16, <1>17 DEF Prepared, known

LEMMA AssociationPrepared ==
  ASSUME LedgerInv, NEW w, Sees(w), NEW i \in Invoices, NEW u \in Users, NEW caller \in MSPs
  PROVE  /\ \A p \in Projects : LinkInvoiceToProject(i, p, u, caller)
                                  => Prepared(w, AssociationReads(i, p, u))
         /\ UnlinkInvoiceFromProject(i, u, caller)
              => Prepared(w, AssociationReads(i, invoice[i].project, u))
<1>1. TypeOK
  BY DEF LedgerInv, NumberInv
<1>2. ASSUME NEW p \in Projects, NotVoided(i), EnsureInvoiceCanBeVoided(i), ProjectExists(p),
             RequireProjectMember(p, u, caller)
      PROVE  /\ FoundValid(w, AssociationReads(i, p, u), i)
             /\ FoundUnclaimed(w, AssociationReads(i, p, u), i)
             /\ MemberActs(w, AssociationReads(i, p, u), p, u, caller)
             /\ \A v : SureOf(w, AssociationReads(i, p, u), <<"invoice", i>>, v)
  <2> DEFINE known == AssociationReads(i, p, u)
  <2>1. /\ <<"invoice", i>> \in known /\ <<"reimbursementInvoice", i>> \in known
        /\ MemberReads(p, u) \subseteq known
    BY DEF AssociationReads, Key, LinkReads
  <2> HIDE DEF known
  <2>2. MemberActs(w, known, p, u, caller)
    BY <1>2, <2>1, MemberPrepared
  <2>3. FoundValid(w, known, i) /\ FoundUnclaimed(w, known, i)
    BY <1>2, <2>1, InvoicePrepared
  <2>4. \A v : SureOf(w, known, <<"invoice", i>>, v)
    BY <1>2, <2>1, SureKeys DEF NotVoided
  <2> QED BY <2>2, <2>3, <2>4 DEF known
<1>3. ASSUME NEW p \in Projects, LinkInvoiceToProject(i, p, u, caller)
      PROVE  Prepared(w, AssociationReads(i, p, u))
  <2> DEFINE v == [invoice[i] EXCEPT !.project = p]
             writes == One(<<"invoice", i>>, v)
             known == AssociationReads(i, p, u)
  <2>1. /\ NotVoided(i) /\ EnsureInvoiceCanBeVoided(i) /\ OpenForAssociation(p)
        /\ RequireProjectMember(p, u, caller) /\ SameIssuerOrganization(i, p)
        /\ invoice[i].project = None /\ invoice' = [invoice EXCEPT ![i] = v]
        /\ evidence' = ProjectEvent(p, "LINK_INVOICE", u, i)
        /\ UNCHANGED <<directoryVars, projectVars, numberIndex, voidRequest, transfer, claimVars>>
    BY <1>3 DEF LinkInvoiceToProject
  <2>2. ProjectExists(p)
    BY <2>1 DEF OpenForAssociation, InSettlement, ProjectExists
  <2>3. Updates(writes)
    BY <1>1, <2>1, InvoiceWrite
  <2> HIDE DEF known
  <2>4. /\ FoundValid(w, known, i) /\ FoundUnclaimed(w, known, i)
        /\ MemberActs(w, known, p, u, caller) /\ SureOf(w, known, <<"invoice", i>>, v)
    BY <1>2, <2>1, <2>2 DEF known
  <2>5. LinkRuns(w, known, writes, evidence', i, p, u, caller)
    BY <2>1, <2>4, Vocabulary DEF LinkRuns, Sees
  <2> QED BY <2>3, <2>4, <2>5, SureOne, NoMemberWritten DEF Prepared, Runs, RecordRuns, known
<1>4. ASSUME UnlinkInvoiceFromProject(i, u, caller)
      PROVE  Prepared(w, AssociationReads(i, invoice[i].project, u))
  <2> DEFINE p == invoice[i].project
             v == [invoice[i] EXCEPT !.project = None]
             writes == One(<<"invoice", i>>, v)
             known == AssociationReads(i, p, u)
  <2>1. /\ NotVoided(i) /\ EnsureInvoiceCanBeVoided(i) /\ p # None
        /\ RequireProjectMember(p, u, caller) /\ SameIssuerOrganization(i, p)
        /\ ProjectExists(p) /\ project[p].status # "ARCHIVED"
        /\ invoice' = [invoice EXCEPT ![i] = v]
        /\ evidence' = ProjectEvent(p, "UNLINK_INVOICE", u, i)
        /\ UNCHANGED <<directoryVars, projectVars, numberIndex, voidRequest, transfer, claimVars>>
    BY <1>4 DEF UnlinkInvoiceFromProject, Separable
  <2>2. p \in Projects
    BY <1>1, <2>1 DEF TypeOK, Invoice
  <2>3. Updates(writes)
    BY <1>1, <2>1, InvoiceWrite
  <2>4. /\ FoundValid(w, known, i) /\ FoundUnclaimed(w, known, i)
        /\ MemberActs(w, known, p, u, caller) /\ SureOf(w, known, <<"invoice", i>>, v)
    BY <1>2, <2>1, <2>2
  <2> HIDE DEF known
  <2>5. UnlinkRuns(w, known, writes, evidence', i, p, u, caller)
    BY <2>1, <2>4, Vocabulary DEF UnlinkRuns, Sees
  <2> QED BY <2>2, <2>3, <2>4, <2>5, SureOne, NoMemberWritten
          DEF Prepared, Runs, RecordRuns, known
<1> QED BY <1>3, <1>4

LEMMA VoidPrepared ==
  ASSUME LedgerInv, NEW w, Sees(w), NEW i \in Invoices, NEW u \in Users, NEW caller \in MSPs,
         VoidInvoice(i, u, caller)
  PROVE  Prepared(w, VoidReads(i, u))
<1> DEFINE v == [invoice[i] EXCEPT !.status = "VOIDED"]
           writes == One(<<"invoice", i>>, v)
           known == VoidReads(i, u)
<1>1. TypeOK
  BY DEF LedgerInv, NumberInv
<1>2. {<<"invoice", i>>, <<"user", u>>, <<"reimbursementInvoice", i>>} \subseteq known
  BY DEF VoidReads, Key, LinkReads
<1> HIDE DEF known
<1>3. /\ NotVoided(i) /\ InvoiceExists(i) /\ EnsureInvoiceCanBeVoided(i)
      /\ RequireIssuer(i, u, caller) /\ invoice' = [invoice EXCEPT ![i] = v]
      /\ evidence' = Flow(i, "VOID", invoice[i].holder, None)
      /\ UNCHANGED <<directoryVars, projectVars, numberIndex, voidRequest, transfer, claimVars>>
  BY DEF VoidInvoice, NotVoided
<1>4. Updates(writes)
  BY <1>1, <1>3, InvoiceWrite
<1>5. FoundValid(w, known, i) /\ FoundUnclaimed(w, known, i) /\ IssuerActs(w, known, i, u, caller)
  BY <1>2, <1>3, InvoicePrepared
<1>6. SureOf(w, known, <<"invoice", i>>, v)
  BY <1>2, <1>3, SureKeys
<1>7. VoidRuns(w, known, writes, evidence', i, u, caller)
  BY <1>3, <1>5 DEF VoidRuns, Sees
<1> QED BY <1>4, <1>6, <1>7, SureOne, NoMemberWritten
        DEF Prepared, Runs, CancellationRuns, known

LEMMA VoidRequestPrepared ==
  ASSUME LedgerInv, NEW w, Sees(w), NEW i \in Invoices, NEW u \in Users, NEW caller \in MSPs,
         RequestInvoiceVoid(i, u, caller)
  PROVE  Prepared(w, VoidRequestReads(i, u))
<1> DEFINE p == invoice[i].project
           v == [status |-> "PENDING_REVIEW", applicant |-> u]
           writes == One(<<"voidRequest", i>>, v)
           known == VoidRequestReads(i, u)
<1>1. TypeOK
  BY DEF LedgerInv, NumberInv
<1>2. /\ {<<"invoice", i>>, <<"reimbursementInvoice", i>>, <<"voidRequest", i>>} \subseteq known
      /\ MemberReads(p, u) \subseteq known
  BY DEF VoidRequestReads, AssociationReads, Key, LinkReads
<1> HIDE DEF known
<1>3. /\ NotVoided(i) /\ EnsureInvoiceCanBeVoided(i) /\ p # None /\ ProjectExists(p)
      /\ RequireProjectMember(p, u, caller) /\ voidRequest[i].status # "PENDING_REVIEW"
      /\ voidRequest' = [voidRequest EXCEPT ![i] = v]
      /\ evidence' = Flow(i, "VOID_REQUEST", u, None)
      /\ UNCHANGED <<directoryVars, projectVars, invoiceVars, transfer, claimVars>>
  BY DEF RequestInvoiceVoid
<1>4. p \in Projects
  BY <1>1, <1>3 DEF TypeOK, Invoice
<1>5. Updates(writes)
  BY <1>1, <1>3, RequestWrite
<1>6. FoundValid(w, known, i) /\ FoundUnclaimed(w, known, i)
  BY <1>2, <1>3, InvoicePrepared
<1>7. MemberActs(w, known, p, u, caller)
  BY <1>2, <1>3, <1>4, MemberPrepared
<1>8. v # voidRequest[i]
  BY <1>3
<1>9. SureOf(w, known, <<"voidRequest", i>>, v)
  BY <1>8, SureKeys
<1>10. VoidRequestRuns(w, known, writes, evidence', i, p, u, caller)
  BY <1>2, <1>3, <1>6, <1>7 DEF VoidRequestRuns, Sees
<1> QED BY <1>4, <1>5, <1>9, <1>10, SureOne, NoMemberWritten
        DEF Prepared, Runs, CancellationRuns, known

LEMMA VoidReviewPrepared ==
  ASSUME LedgerInv, NEW w, Sees(w), NEW i \in Invoices, NEW decision \in {"APPROVE", "REJECT"},
         NEW u \in Users, NEW caller \in MSPs, ReviewInvoiceVoid(i, decision, u, caller)
  PROVE  Prepared(w, VoidReviewReads(i, decision, u))
<1> DEFINE known == VoidReviewReads(i, decision, u)
<1>1. TypeOK
  BY DEF LedgerInv, NumberInv
<1>2. /\ {<<"invoice", i>>, <<"voidRequest", i>>, <<"user", u>>} \subseteq known
      /\ decision = "APPROVE" => <<"reimbursementInvoice", i>> \in known
  BY DEF VoidReviewReads, Key, LinkReads
<1> HIDE DEF known
<1>3. /\ InvoiceExists(i) /\ voidRequest[i].status = "PENDING_REVIEW"
      /\ RequireIssuer(i, u, caller)
      /\ UNCHANGED <<directoryVars, projectVars, numberIndex, transfer, claimVars>>
  BY DEF ReviewInvoiceVoid
<1>4. IssuerActs(w, known, i, u, caller)
  BY <1>2, <1>3, InvoicePrepared
<1>5. /\ \A v : SureOf(w, known, <<"voidRequest", i>>, v)
      /\ \A v : SureOf(w, known, <<"invoice", i>>, v)
  BY <1>2, <1>3, SureKeys
<1>6. CASE decision = "REJECT"
  <2> DEFINE v == [voidRequest[i] EXCEPT !.status = "REJECTED"]
             writes == One(<<"voidRequest", i>>, v)
  <2>1. /\ voidRequest' = [voidRequest EXCEPT ![i] = v]
        /\ evidence' = Flow(i, "VOID_REJECTED", u, voidRequest[i].applicant)
        /\ UNCHANGED invoice
    BY <1>6 DEF ReviewInvoiceVoid
  <2>2. Updates(writes)
    BY <1>1, <1>3, <2>1, RequestWrite DEF invoiceVars
  <2>3. VoidReviewRuns(w, known, writes, evidence', i, decision, u, caller)
    BY <1>2, <1>3, <1>4, <1>6, <2>1 DEF VoidReviewRuns, Sees
  <2> QED BY <1>5, <2>2, <2>3, SureOne, NoMemberWritten
          DEF Prepared, Runs, CancellationRuns, known
<1>7. CASE decision = "APPROVE"
  <2> DEFINE v == [voidRequest[i] EXCEPT !.status = "APPROVED"]
             n == [invoice[i] EXCEPT !.status = "VOIDED"]
             writes == Also(One(<<"voidRequest", i>>, v), <<"invoice", i>>, n)
  <2>1. /\ NotVoided(i) /\ EnsureInvoiceCanBeVoided(i)
        /\ voidRequest' = [voidRequest EXCEPT ![i] = v] /\ invoice' = [invoice EXCEPT ![i] = n]
        /\ evidence' = Flow(i, "VOID", invoice[i].holder, None)
    BY <1>7 DEF ReviewInvoiceVoid
  <2>2. Updates(writes)
    BY <1>1, <1>3, <2>1, ApprovalWrites
  <2>3. FoundValid(w, known, i) /\ FoundUnclaimed(w, known, i)
    BY <1>2, <1>7, <2>1, InvoicePrepared
  <2>4. VoidReviewRuns(w, known, writes, evidence', i, decision, u, caller)
    BY <1>2, <1>3, <1>4, <1>7, <2>1, <2>3 DEF VoidReviewRuns, Sees
  <2> QED BY <1>5, <2>2, <2>4, SureOne, SureAlso, NoMemberWritten
          DEF Prepared, Runs, CancellationRuns, known
<1> QED BY <1>6, <1>7

LEMMA TransferPrepared ==
  ASSUME LedgerInv, NEW w, Sees(w), NEW i \in Invoices, NEW u \in Users, NEW caller \in MSPs,
         NEW to \in Users, NEW toMsp \in MSPs, RequestInvoiceTransfer(i, to, toMsp, u, caller)
  PROVE  Prepared(w, TransferReads(i, to, u))
<1> DEFINE v == [status |-> "PENDING", from |-> u, to |-> to, toMsp |-> toMsp]
           writes == One(<<"transfer", i>>, v)
           known == TransferReads(i, to, u)
<1>1. TypeOK
  BY DEF LedgerInv, NumberInv
<1>2. {<<"invoice", i>>, <<"transfer", i>>, <<"user", u>>, <<"user", to>>} \subseteq known
  BY DEF TransferReads, Key
<1> HIDE DEF known
<1>3. /\ NotVoided(i) /\ to # invoice[i].holder /\ caller = invoice[i].holderMsp
      /\ u = invoice[i].holder /\ RequireRegisteredRole(u, caller, HandoffRoles)
      /\ RequireRegisteredRole(to, toMsp, HandoffRoles) /\ transfer[i].status # "PENDING"
      /\ transfer' = [transfer EXCEPT ![i] = v]
      /\ evidence' = Flow(i, "TRANSFER_REQUEST", u, to)
      /\ UNCHANGED invoice /\ TransferFrame
  BY DEF RequestInvoiceTransfer, RequireActiveBusinessUser
<1>4. Updates(writes)
  BY <1>1, <1>3, TransferWrite
<1>5. /\ FoundValid(w, known, i) /\ UserActs(w, known, u, caller, HandoffRoles)
      /\ UserActs(w, known, to, toMsp, HandoffRoles)
  BY <1>2, <1>3, InvoicePrepared, UserPrepared
<1>6. v # transfer[i]
  BY <1>3
<1>7. SureOf(w, known, <<"transfer", i>>, v)
  BY <1>6, SureKeys
<1>8. TransferRuns(w, known, writes, evidence', i, to, toMsp, u, caller)
  BY <1>2, <1>3, <1>5 DEF TransferRuns, Sees
<1> QED BY <1>4, <1>7, <1>8, SureOne, NoMemberWritten DEF Prepared, Runs, CustodyRuns, known

LEMMA AnswerPrepared ==
  ASSUME LedgerInv, NEW w, Sees(w), NEW i \in Invoices, NEW decision \in {"ACCEPT", "REJECT"},
         NEW u \in Users, NEW caller \in MSPs, RespondInvoiceTransfer(i, decision, u, caller)
  PROVE  Prepared(w, AnswerReads(i, decision, u))
<1> DEFINE known == AnswerReads(i, decision, u)
<1>1. TypeOK
  BY DEF LedgerInv, NumberInv
<1>2. /\ {<<"transfer", i>>, <<"user", u>>} \subseteq known
      /\ decision = "ACCEPT" => <<"invoice", i>> \in known
  BY DEF AnswerReads, Key
<1> HIDE DEF known
<1>3. /\ transfer[i].status = "PENDING" /\ u = transfer[i].to /\ caller = transfer[i].toMsp
      /\ RequireRegisteredRole(u, caller, HandoffRoles) /\ TransferFrame
  BY DEF RespondInvoiceTransfer, RequireActiveBusinessUser
<1>4. UserActs(w, known, u, caller, HandoffRoles)
  BY <1>2, <1>3, UserPrepared
<1>5. \A v : SureOf(w, known, <<"transfer", i>>, v)
  BY <1>2, <1>3, SureKeys
<1>6. CASE decision = "REJECT"
  <2> DEFINE v == [transfer[i] EXCEPT !.status = "REJECTED"]
             writes == One(<<"transfer", i>>, v)
  <2>1. /\ transfer' = [transfer EXCEPT ![i] = v] /\ UNCHANGED invoice
        /\ evidence' = Flow(i, "TRANSFER_REJECTED", transfer[i].from, u)
    BY <1>6 DEF RespondInvoiceTransfer
  <2>2. Updates(writes)
    BY <1>1, <1>3, <2>1, TransferWrite
  <2>3. AnswerRuns(w, known, writes, evidence', i, decision, u, caller)
    BY <1>2, <1>3, <1>4, <1>6, <2>1 DEF AnswerRuns, Sees
  <2> QED BY <1>5, <2>2, <2>3, SureOne, NoMemberWritten DEF Prepared, Runs, CustodyRuns, known
<1>7. CASE decision = "ACCEPT"
  <2> DEFINE v == [transfer[i] EXCEPT !.status = "ACCEPTED"]
             n == HandedTo(invoice[i], u, caller)
             writes == Also(One(<<"transfer", i>>, v), <<"invoice", i>>, n)
  <2>1. /\ StillAvailable(i)
        /\ transfer' = [transfer EXCEPT ![i] = v] /\ invoice' = [invoice EXCEPT ![i] = n]
        /\ evidence' = Flow(i, "TRANSFER_ACCEPTED", transfer[i].from, u)
    BY <1>3, <1>7 DEF RespondInvoiceTransfer
  <2>2. NotVoided(i) /\ InvoiceExists(i)
    BY <2>1 DEF StillAvailable, NotVoided
  <2> HIDE DEF n
  <2>3. Updates(writes)
    BY <1>1, <1>3, <2>1, AcceptanceWrites
  <2>4. FoundValid(w, known, i) /\ SureOf(w, known, <<"invoice", i>>, n)
    BY <1>2, <1>7, <2>2, InvoicePrepared, SureKeys
  <2>5. On(w)!StillAvailable(i) /\ On(w)!HandedTo(w.invoice[i], u, caller) = n
    BY <2>1, Vocabulary DEF Sees, n
  <2>6. AnswerRuns(w, known, writes, evidence', i, decision, u, caller)
    BY <1>2, <1>3, <1>4, <1>7, <2>1, <2>4, <2>5 DEF AnswerRuns, Sees
  <2> QED BY <1>5, <2>3, <2>4, <2>6, SureOne, SureAlso, NoMemberWritten
          DEF Prepared, Runs, CustodyRuns, known
<1> QED BY <1>6, <1>7

LEMMA CancelPrepared ==
  ASSUME LedgerInv, NEW w, Sees(w), NEW i \in Invoices, NEW u \in Users,
         CancelInvoiceTransfer(i, u)
  PROVE  Prepared(w, Key("transfer", i) \cup Key("invoice", i))
<1> DEFINE v == [transfer[i] EXCEPT !.status = "CANCELLED"]
           writes == One(<<"transfer", i>>, v)
           known == Key("transfer", i) \cup Key("invoice", i)
<1>1. TypeOK
  BY DEF LedgerInv, NumberInv
<1>2. {<<"transfer", i>>, <<"invoice", i>>} \subseteq known
  BY DEF Key
<1> HIDE DEF known
<1>3. /\ transfer[i].status = "PENDING" /\ transfer[i].from = u /\ InvoiceExists(i)
      /\ invoice[i].holder = u /\ transfer' = [transfer EXCEPT ![i] = v]
      /\ evidence' = Flow(i, "TRANSFER_CANCELLED", u, transfer[i].to)
      /\ UNCHANGED invoice /\ TransferFrame
  BY DEF CancelInvoiceTransfer
<1>4. Updates(writes)
  BY <1>1, <1>3, TransferWrite
<1>5. SureOf(w, known, <<"transfer", i>>, v)
  BY <1>2, <1>3, SureKeys
<1>6. CancelRuns(w, known, writes, evidence', i, u)
  BY <1>2, <1>3, Vocabulary DEF CancelRuns, Sees
<1> QED BY <1>4, <1>5, <1>6, SureOne, NoMemberWritten DEF Prepared, Runs, CustodyRuns, known

LEMMA ClaimPrepared ==
  ASSUME LedgerInv, NEW w, Sees(w), NEW r \in Reimbursements, NEW p \in Projects,
         NEW i \in Invoices, NEW u \in Users, NEW caller \in MSPs,
         CreateReimbursement(r, p, i, u, caller)
  PROVE  Prepared(w, ClaimReads(r, p, i, u))
<1> DEFINE v == [status |-> "PENDING_REVIEW", project |-> p, invoice |-> i,
                 applicant |-> u, reviewer |-> None, amount |-> invoice[i].total]
           writes == Also(One(<<"reimbursement", r>>, v), <<"reimbursementInvoice", i>>, r)
           known == ClaimReads(r, p, i, u)
<1>1. TypeOK
  BY DEF LedgerInv, NumberInv
<1>2. /\ {<<"reimbursement", r>>, <<"invoice", i>>, <<"reimbursementInvoice", i>>} \subseteq known
      /\ MemberReads(p, u) \subseteq known
  BY DEF ClaimReads, Key, LinkReads
<1> HIDE DEF known
<1>3. /\ ~ReimbursementExists(r) /\ InSettlement(p) /\ RequireProjectMember(p, u, caller)
      /\ NotVoided(i) /\ EnsureInvoiceCanBeVoided(i)
      /\ invoice[i].currency \in {None, "CNY"} /\ invoice[i].project = p
      /\ invoice[i].total > 0 /\ invoice[i].total <= MaxMoneyCents
      /\ reimbursement' = [reimbursement EXCEPT ![r] = v]
      /\ reimbursementInvoice' = [reimbursementInvoice EXCEPT ![i] = r]
      /\ evidence' = ProjectEvent(p, "SUBMIT_REIMBURSEMENT", u, r)
      /\ UNCHANGED project /\ ReimbursementFrame
  BY DEF CreateReimbursement, Unclaimed, EnsureInvoiceCanBeVoided
<1>4. ProjectExists(p)
  BY <1>3 DEF InSettlement, ProjectExists
<1>5. Updates(writes)
  BY <1>1, <1>3, ClaimLinkWrites
<1>6. /\ FoundValid(w, known, i) /\ FoundUnclaimed(w, known, i)
      /\ MemberActs(w, known, p, u, caller)
  BY <1>2, <1>3, <1>4, InvoicePrepared, MemberPrepared
<1>7. v # reimbursement[r]
  BY <1>3 DEF ReimbursementExists
<1>8. r # reimbursementInvoice[i]
  BY <1>3, NoneAssumption DEF EnsureInvoiceCanBeVoided
<1>9. /\ SureOf(w, known, <<"reimbursement", r>>, v)
      /\ SureOf(w, known, <<"reimbursementInvoice", i>>, r)
  BY <1>7, <1>8, SureKeys
<1>10. ~On(w)!ReimbursementExists(r) /\ On(w)!InSettlement(p)
  BY <1>3, Vocabulary
<1>11. ClaimRuns(w, known, writes, evidence', r, p, i, u, caller)
  BY <1>2, <1>3, <1>6, <1>10 DEF ClaimRuns, Sees
<1> QED BY <1>5, <1>9, <1>11, SureOne, SureAlso, NoMemberWritten
        DEF Prepared, Runs, ClaimingRuns, known

\* A claim that was made names its project and its invoice, and the link of
\* its invoice names it while it is live.
LEMMA ClaimFound ==
  ASSUME LedgerInv, NEW w, Sees(w), NEW known, NEW r \in Reimbursements, Live(r),
         <<"reimbursement", r>> \in known
  PROVE  LET p == reimbursement[r].project
             i == reimbursement[r].invoice
         IN  /\ p \in Projects /\ i \in Invoices /\ ProjectExists(p)
             /\ FoundClaim(w, known, r, p, i)
             /\ reimbursementInvoice[i] = r
             /\ \A v : SureOf(w, known, <<"reimbursement", r>>, v)
<1>1. ReimbursementExists(r)
  BY DEF Live, ReimbursementExists
<1>2. reimbursement[r].project \in Projects /\ reimbursement[r].invoice \in Invoices
  BY <1>1 DEF LedgerInv, RestInv, ClaimInv, ClaimsNameInvoices
<1>3. ProjectExists(reimbursement[r].project)
  BY DEF LedgerInv, RestInv, ClaimsRestOnInvoices, Released, ProjectExists
<1>4. reimbursementInvoice[reimbursement[r].invoice] = r
  BY DEF LedgerInv, RestInv, ClaimInv, OneClaimPerInvoice
<1>5. FoundClaim(w, known, r, reimbursement[r].project, reimbursement[r].invoice)
  BY <1>1, <1>2, Vocabulary DEF FoundClaim, Sees
<1>6. \A v : SureOf(w, known, <<"reimbursement", r>>, v)
  BY <1>1, SureKeys
<1> QED BY <1>2, <1>3, <1>4, <1>5, <1>6

LEMMA ReviewPrepared ==
  ASSUME LedgerInv, NEW w, Sees(w), NEW r \in Reimbursements,
         NEW decision \in {"APPROVE", "REVISION"}, NEW u \in Users, NEW caller \in MSPs,
         ReviewReimbursement(r, decision, u, caller)
  PROVE  Prepared(w, ReviewReads(r, u))
<1> DEFINE claim == reimbursement[r]
           p == claim.project
           i == claim.invoice
           known == ReviewReads(r, u)
<1>1. TypeOK
  BY DEF LedgerInv, NumberInv
<1>2. /\ {<<"reimbursement", r>>, <<"invoice", i>>, <<"project", p>>} \subseteq known
      /\ ManagerReads(p, u) \subseteq known
  BY DEF ReviewReads, ManagerReads, Key
<1> HIDE DEF known
<1>3. /\ claim.status = "PENDING_REVIEW"
      /\ RequireProjectManager(p, u, caller, "PROJECT_REVIEWER") /\ NotVoided(i)
      /\ claim.amount > 0 /\ claim.amount <= MaxMoneyCents
      /\ UNCHANGED reimbursementInvoice /\ ReimbursementFrame
  BY DEF ReviewReimbursement
<1>4. /\ p \in Projects /\ i \in Invoices /\ ProjectExists(p)
      /\ FoundClaim(w, known, r, p, i)
      /\ \A v : SureOf(w, known, <<"reimbursement", r>>, v)
  BY <1>2, <1>3, ClaimFound DEF Live
<1>5. ManagerActs(w, known, p, u, caller, "PROJECT_REVIEWER")
  BY <1>2, <1>3, <1>4, ManagerPrepared
<1>6. FoundValid(w, known, i)
  BY <1>2, <1>3, <1>4, InvoicePrepared
<1>7. w.reimbursement[r] = claim /\ w.project[p] = project[p]
  BY DEF Sees
<1>8. CASE decision = "APPROVE"
  <2> DEFINE v == [claim EXCEPT !.reviewer = u, !.status = "APPROVED_RESERVED"]
             n == Reserve(project[p], claim.amount)
             writes == Also(One(<<"reimbursement", r>>, v), <<"project", p>>, n)
  <2>1. /\ Sufficient(project[p], claim.amount)
        /\ project' = [project EXCEPT ![p] = n]
        /\ reimbursement' = [reimbursement EXCEPT ![r] = v]
        /\ evidence' = ProjectEvent(p, "REIMBURSEMENT_APPROVE", u, r)
    BY <1>8 DEF ReviewReimbursement
  <2> HIDE DEF n
  <2>2. Updates(writes)
    BY <1>1, <1>3, <1>4, <2>1, ClaimProjectWrites
  <2>3. SureOf(w, known, <<"project", p>>, n)
    BY <1>2, <1>4, SureKeys
  <2>4. ReviewRuns(w, known, writes, evidence', r, p, i, decision, u, caller)
    BY <1>3, <1>4, <1>5, <1>6, <1>7, <1>8, <2>1 DEF ReviewRuns, n
  <2>5. Sure(w, known, writes) /\ NoMember(writes)
    BY <1>4, <2>3, SureOne, SureAlso, NoMemberWritten
  <2>6. Runs(w, known, writes, evidence')
    BY <1>4, <2>4 DEF Runs, ClaimingRuns
  <2> QED BY <2>2, <2>5, <2>6 DEF Prepared, known
<1>9. CASE decision = "REVISION"
  <2> DEFINE v == [claim EXCEPT !.reviewer = u, !.status = "REVISION_REQUIRED"]
             writes == One(<<"reimbursement", r>>, v)
  <2>1. /\ reimbursement' = [reimbursement EXCEPT ![r] = v]
        /\ evidence' = ProjectEvent(p, "REIMBURSEMENT_REVISION", u, r)
        /\ UNCHANGED project
    BY <1>9 DEF ReviewReimbursement
  <2>2. Updates(writes)
    BY <1>1, <1>3, <2>1, ClaimWrite
  <2>3. ReviewRuns(w, known, writes, evidence', r, p, i, decision, u, caller)
    BY <1>3, <1>4, <1>5, <1>6, <1>7, <1>9, <2>1 DEF ReviewRuns
  <2>4. Sure(w, known, writes) /\ NoMember(writes)
    BY <1>4, SureOne, NoMemberWritten
  <2>5. Runs(w, known, writes, evidence')
    BY <1>4, <2>3 DEF Runs, ClaimingRuns
  <2> QED BY <2>2, <2>4, <2>5 DEF Prepared, known
<1> QED BY <1>8, <1>9

LEMMA ResubmissionPrepared ==
  ASSUME LedgerInv, NEW w, Sees(w), NEW r \in Reimbursements, NEW u \in Users,
         NEW caller \in MSPs, ResubmitReimbursement(r, u, caller)
  PROVE  Prepared(w, ApplicantReads(r, u))
<1> DEFINE claim == reimbursement[r]
           p == claim.project
           i == claim.invoice
           known == ApplicantReads(r, u)
           v == [claim EXCEPT !.status = "PENDING_REVIEW", !.reviewer = None]
           writes == One(<<"reimbursement", r>>, v)
<1>1. TypeOK
  BY DEF LedgerInv, NumberInv
<1>2. <<"reimbursement", r>> \in known /\ MemberReads(p, u) \subseteq known
  BY DEF ApplicantReads, Key
<1> HIDE DEF known
<1>3. /\ claim.status = "REVISION_REQUIRED" /\ RequireProjectMember(p, u, caller)
      /\ reimbursement' = [reimbursement EXCEPT ![r] = v]
      /\ evidence' = ProjectEvent(p, "RESUBMIT_REIMBURSEMENT", u, r)
      /\ UNCHANGED <<project, reimbursementInvoice>> /\ ReimbursementFrame
  BY DEF ResubmitReimbursement
<1>4. /\ p \in Projects /\ i \in Invoices /\ ProjectExists(p)
      /\ FoundClaim(w, known, r, p, i)
      /\ SureOf(w, known, <<"reimbursement", r>>, v)
  BY <1>2, <1>3, ClaimFound DEF Live
<1>5. MemberActs(w, known, p, u, caller)
  BY <1>2, <1>3, <1>4, MemberPrepared
<1>6. Updates(writes)
  BY <1>1, <1>3, ClaimWrite
<1>7. ResubmissionRuns(w, known, writes, evidence', r, p, i, u, caller)
  BY <1>3, <1>4, <1>5 DEF ResubmissionRuns, Sees
<1>8. Runs(w, known, writes, evidence')
  BY <1>4, <1>7 DEF Runs, ClaimingRuns
<1> QED BY <1>4, <1>6, <1>8, SureOne, NoMemberWritten DEF Prepared, known

\* The link is deleted unread, and was there.
LEMMA WithdrawalPrepared ==
  ASSUME LedgerInv, NEW w, Sees(w), NEW r \in Reimbursements, NEW u \in Users,
         NEW caller \in MSPs, WithdrawReimbursement(r, u, caller)
  PROVE  Prepared(w, ApplicantReads(r, u))
<1> DEFINE claim == reimbursement[r]
           p == claim.project
           i == claim.invoice
           known == ApplicantReads(r, u)
           v == [claim EXCEPT !.status = "WITHDRAWN"]
           withdrawn == Also(One(<<"reimbursement", r>>, v), <<"reimbursementInvoice", i>>, None)
<1>1. TypeOK
  BY DEF LedgerInv, NumberInv
<1>2. /\ {<<"reimbursement", r>>, <<"project", p>>} \subseteq known
      /\ MemberReads(p, u) \subseteq known
  BY DEF ApplicantReads, MemberReads, Key
<1> HIDE DEF known
<1>3. /\ Withdrawable(claim) /\ RequireProjectMember(p, u, caller)
      /\ reimbursement' = [reimbursement EXCEPT ![r] = v]
      /\ reimbursementInvoice' = [reimbursementInvoice EXCEPT ![i] = None]
      /\ evidence' = ProjectEvent(p, "WITHDRAW_REIMBURSEMENT", u, r)
      /\ ReimbursementFrame
  BY DEF WithdrawReimbursement
<1>4. /\ p \in Projects /\ i \in Invoices /\ ProjectExists(p)
      /\ FoundClaim(w, known, r, p, i) /\ reimbursementInvoice[i] = r
      /\ SureOf(w, known, <<"reimbursement", r>>, v)
  BY <1>2, <1>3, ClaimFound DEF Live, Withdrawable
<1>5. None # reimbursementInvoice[i]
  BY <1>4, NoneAssumption
<1>6. SureOf(w, known, <<"reimbursementInvoice", i>>, None)
  BY <1>4, <1>5, SureKeys
<1>7. Sure(w, known, withdrawn) /\ NoMember(withdrawn)
  BY <1>4, <1>6, SureOne, SureAlso, NoMemberWritten
<1>8. MemberActs(w, known, p, u, caller)
  BY <1>2, <1>3, <1>4, MemberPrepared
<1>9. w.reimbursement[r] = claim /\ w.project[p] = project[p]
  BY DEF Sees
<1>10. CASE claim.status = "APPROVED_RESERVED"
  <2> DEFINE n == Release(project[p], claim.amount)
             writes == Also(withdrawn, <<"project", p>>, n)
  <2>1. /\ BalanceAllowsRelease(project[p], claim.amount)
        /\ project' = [project EXCEPT ![p] = n]
    BY <1>10 DEF WithdrawReimbursement
  <2> HIDE DEF n, v
  <2>2. Updates(writes)
    <3>1. ASSUME NEW q \in Projects, NEW j \in Invoices, q = p, j = i
          PROVE  Updates(Also(Also(One(<<"reimbursement", r>>, v),
                                   <<"reimbursementInvoice", j>>, None), <<"project", q>>, n))
      <4>1. /\ reimbursement' = [reimbursement EXCEPT ![r] = v]
            /\ reimbursementInvoice' = [reimbursementInvoice EXCEPT ![j] = None]
            /\ project' = [project EXCEPT ![q] = n]
            /\ ReimbursementFrame
        BY <1>3, <2>1, <3>1
      <4> HIDE DEF p, i
      <4> QED BY <1>1, <4>1, WithdrawalWrites
    <3> QED BY <1>4, <3>1
  <2>3. SureOf(w, known, <<"project", p>>, n)
    BY <1>2, <1>4, SureKeys
  <2>4. WithdrawalRuns(w, known, writes, evidence', r, p, i, u, caller)
    BY <1>3, <1>4, <1>8, <1>9, <1>10, <2>1 DEF WithdrawalRuns, n, v
  <2>5. Sure(w, known, writes) /\ NoMember(writes)
    BY <1>7, <2>3, SureAlso, NoMemberWritten
  <2>6. Runs(w, known, writes, evidence')
    BY <1>4, <2>4 DEF Runs, ClaimingRuns
  <2> QED BY <2>2, <2>5, <2>6 DEF Prepared, known
<1>11. CASE claim.status # "APPROVED_RESERVED"
  <2>1. UNCHANGED project
    BY <1>11 DEF WithdrawReimbursement
  <2>2. Updates(withdrawn)
    BY <1>1, <1>3, <1>4, <2>1, ClaimLinkWrites
  <2>3. WithdrawalRuns(w, known, withdrawn, evidence', r, p, i, u, caller)
    BY <1>3, <1>4, <1>8, <1>9, <1>11 DEF WithdrawalRuns
  <2>4. Runs(w, known, withdrawn, evidence')
    BY <1>4, <2>3 DEF Runs, ClaimingRuns
  <2> QED BY <1>7, <2>2, <2>4 DEF Prepared, known
<1> QED BY <1>10, <1>11

LEMMA PaymentPrepared ==
  ASSUME LedgerInv, NEW w, Sees(w), NEW r \in Reimbursements, NEW u \in Users,
         NEW caller \in MSPs, PayReimbursement(r, u, caller)
  PROVE  Prepared(w, ReviewReads(r, u))
<1> DEFINE claim == reimbursement[r]
           p == claim.project
           i == claim.invoice
           known == ReviewReads(r, u)
           v == [claim EXCEPT !.status = "PAID"]
           n == Pay(project[p], claim.amount)
           writes == Also(One(<<"reimbursement", r>>, v), <<"project", p>>, n)
<1>1. TypeOK
  BY DEF LedgerInv, NumberInv
<1>2. /\ {<<"reimbursement", r>>, <<"invoice", i>>, <<"project", p>>} \subseteq known
      /\ ManagerReads(p, u) \subseteq known
  BY DEF ReviewReads, ManagerReads, Key
<1> HIDE DEF known
<1>3. /\ claim.status = "APPROVED_RESERVED"
      /\ RequireProjectManager(p, u, caller, "FINANCE_ADMIN") /\ NotVoided(i)
      /\ project[p].reserved >= claim.amount
      /\ project' = [project EXCEPT ![p] = n]
      /\ reimbursement' = [reimbursement EXCEPT ![r] = v]
      /\ evidence' = ProjectEvent(p, "PAY_REIMBURSEMENT", u, r)
      /\ UNCHANGED reimbursementInvoice /\ ReimbursementFrame
  BY DEF PayReimbursement
<1>4. /\ p \in Projects /\ i \in Invoices /\ ProjectExists(p)
      /\ FoundClaim(w, known, r, p, i)
      /\ SureOf(w, known, <<"reimbursement", r>>, v)
  BY <1>2, <1>3, ClaimFound DEF Live
<1>5. ManagerActs(w, known, p, u, caller, "FINANCE_ADMIN") /\ FoundValid(w, known, i)
  BY <1>2, <1>3, <1>4, ManagerPrepared, InvoicePrepared
<1>6. SureOf(w, known, <<"project", p>>, n)
  BY <1>2, <1>4, SureKeys
<1>7. w.reimbursement[r] = claim /\ w.project[p] = project[p]
  BY DEF Sees
<1> HIDE DEF n
<1>8. Updates(writes)
  BY <1>1, <1>3, <1>4, ClaimProjectWrites
<1>9. PaymentRuns(w, known, writes, evidence', r, p, i, u, caller)
  BY <1>3, <1>4, <1>5, <1>7 DEF PaymentRuns, n
<1>10. Sure(w, known, writes) /\ NoMember(writes)
  BY <1>4, <1>6, SureOne, SureAlso, NoMemberWritten
<1>11. Runs(w, known, writes, evidence')
  BY <1>4, <1>9 DEF Runs, ClaimingRuns
<1> QED BY <1>8, <1>10, <1>11 DEF Prepared, known

LEMMA SettlementPrepared ==
  ASSUME LedgerInv, NEW w, Sees(w), NEW p \in Projects, NEW u \in Users, NEW caller \in MSPs,
         FinalizeProjectSettlement(p, u, caller)
  PROVE  Prepared(w, SettlementReads(p, u))
<1> DEFINE known == SettlementReads(p, u)
           n == Archive(project[p])
           writes == One(<<"project", p>>, n)
<1>1. TypeOK
  BY DEF LedgerInv, NumberInv
<1>2. World["reimbursement"] = reimbursement /\ DOMAIN reimbursement = Reimbursements
  BY <1>1 DEF World, TypeOK
<1>3. /\ <<"project", p>> \in known /\ ManagerReads(p, u) \subseteq known
      /\ {"reimbursement"} \X Reimbursements \subseteq known
  BY <1>2 DEF SettlementReads, ManagerReads, ScanOf, Key
<1> HIDE DEF known
<1>4. /\ InSettlement(p) /\ RequireProjectManager(p, u, caller, "FINANCE_ADMIN")
      /\ project[p].reserved = 0 /\ NothingAwaitsAction(p)
      /\ project' = [project EXCEPT ![p] = n]
      /\ evidence' = ProjectEvent(p, "FINALIZE_SETTLEMENT", u, None)
      /\ UNCHANGED member /\ ProjectFrame
  BY DEF FinalizeProjectSettlement
<1>5. ProjectExists(p)
  BY <1>4 DEF InSettlement, ProjectExists
<1>6. ManagerActs(w, known, p, u, caller, "FINANCE_ADMIN")
  BY <1>3, <1>4, <1>5, ManagerPrepared
<1>7. SureOf(w, known, <<"project", p>>, n)
  BY <1>3, <1>5, SureKeys
<1>8. On(w)!InSettlement(p) /\ On(w)!NothingAwaitsAction(p) /\ w.project[p] = project[p]
  BY <1>4, Vocabulary DEF Sees
<1> HIDE DEF n
<1>9. Updates(writes)
  BY <1>1, <1>4, ProjectWrite
<1>10. SettlementRuns(w, known, writes, evidence', p, u, caller)
  BY <1>3, <1>4, <1>6, <1>8 DEF SettlementRuns, n
<1>11. Runs(w, known, writes, evidence')
  BY <1>10 DEF Runs
<1> QED BY <1>7, <1>9, <1>11, SureOne, NoMemberWritten DEF Prepared, known

----------------------------------------------------------------------------
(* What holds of the committed ledger and of the transactions under way.   *)

FabInv ==
  /\ Shaped(committed) /\ CommittedInv
  /\ ~simulating => Sees(committed)
  /\ pending = [t \in Slots |-> pending[t]]
  /\ \A t \in Slots :
        pending[t] # <<>> => \E tx : pending[t] = <<tx>> /\ Endorsable(tx, committed)

LEMMA SeenType == ASSUME FabInv, Sees(committed) PROVE LedgerInv /\ TypeOK
BY InvSeen DEF FabInv, LedgerInv, NumberInv

\* The ledger is the world that the peer sees, key by key.
LEMMA SeenValues ==
  ASSUME TypeOK, NEW w, Sees(w), Shaped(w), NEW key \in Keys
  PROVE  Value(World, key) = Value(w, key)
<1>1. /\ World.organization = w.organization /\ World.user = w.user
      /\ World.project = w.project /\ World.invoice = w.invoice
      /\ World.numberIndex = w.numberIndex /\ World.voidRequest = w.voidRequest
      /\ World.transfer = w.transfer /\ World.reimbursement = w.reimbursement
      /\ World.reimbursementInvoice = w.reimbursementInvoice
  BY WorldValues DEF Sees
<1>2. CASE \E o \in Orgs : key = <<"organization", o>>
  BY <1>1, <1>2, Values
<1>3. CASE \E u \in Users : key = <<"user", u>>
  BY <1>1, <1>3, Values
<1>4. CASE \E p \in Projects : key = <<"project", p>>
  BY <1>1, <1>4, Values
<1>5. ASSUME NEW p \in Projects, NEW u \in Users, key = <<"member", <<p, u>>>>
      PROVE  Value(World, key) = Value(w, key)
  <2>1. World.member[<<p, u>>] = (u \in member[p])
    BY WorldValues
  <2>2. (u \in member[p]) = w.member[<<p, u>>]
    BY DEF Sees, Members, Shaped
  <2> QED BY <1>5, <2>1, <2>2, Values
<1>6. CASE \E i \in Invoices : key = <<"invoice", i>>
  BY <1>1, <1>6, Values
<1>7. CASE \E no \in Numbers : key = <<"numberIndex", no>>
  BY <1>1, <1>7, Values
<1>8. CASE \E i \in Invoices : key = <<"voidRequest", i>>
  BY <1>1, <1>8, Values
<1>9. CASE \E i \in Invoices : key = <<"transfer", i>>
  BY <1>1, <1>9, Values
<1>10. CASE \E r \in Reimbursements : key = <<"reimbursement", r>>
  BY <1>1, <1>10, Values
<1>11. CASE \E i \in Invoices : key = <<"reimbursementInvoice", i>>
  BY <1>1, <1>11, Values
<1> QED BY <1>2, <1>3, <1>4, <1>5, <1>6, <1>7, <1>8, <1>9, <1>10, <1>11, KeyIs

LEMMA EndorsableSame ==
  ASSUME NEW tx, NEW c, NEW x, Endorsable(tx, c),
         \A key \in Keys : Value(x, key) = Value(c, key)
  PROVE  Endorsable(tx, x)
<1>1. PICK w, writes :
          /\ Endorsement(tx, w, writes)
          /\ ~tx.overtaken => \A key \in tx.present \cap Keys : Value(c, key) = Value(w, key)
  BY DEF Endorsable
<1>2. ~tx.overtaken => \A key \in tx.present \cap Keys : Value(x, key) = Value(w, key)
  BY <1>1
<1> QED BY <1>1, <1>2 DEF Endorsable

\* The transaction that the gateway collects.
LEMMA PreparedIsEndorsable ==
  ASSUME FabInv, Sees(committed), NEW t \in Slots, NEW reads, Endorsed(t, reads),
         \A w : Sees(w) => Prepared(w, reads)
  PROVE  \E tx : /\ pending' = [pending EXCEPT ![t] = <<tx>>]
                 /\ Endorsable(tx, committed)
<1>1. TypeOK
  BY SeenType
<1>2. PICK old : old = World
  OBVIOUS
<1>3. PICK new : new = World'
  OBVIOUS
<1>4. PICK record : record = evidence'
  OBVIOUS
<1> DEFINE present == {key \in reads : Present(old, key)}
           tx == [present |-> present, absent |-> reads \ present,
                  writes |-> [key \in ChangedKeys(old, new) |-> Value(new, key)],
                  evidence |-> record, overtaken |-> FALSE]
<1>5. pending' = [pending EXCEPT ![t] = <<tx>>]
  BY <1>2, <1>3, <1>4 DEF Endorsed
<1>6. Sees(old)
  BY <1>1, <1>2, WorldSeen DEF Sees
<1>7. PICK writes : /\ Runs(old, reads, writes, record) /\ Sure(old, reads, writes)
                    /\ Updates(writes) /\ NoMember(writes)
  BY <1>4, <1>6 DEF Prepared
<1>8. Effect(World, World', writes)
  BY <1>7, UpdatesHaveEffect DEF NoMember
<1>9. Effect(old, new, writes)
  BY <1>2, <1>3, <1>8 DEF Effect
<1>10. Endorsable(tx, old)
  BY <1>7, <1>9, EndorsementMade
<1> HIDE DEF tx
<1>11. \A key \in Keys : Value(committed, key) = Value(old, key)
  BY <1>1, <1>2, SeenValues DEF FabInv
<1>12. Endorsable(tx, committed)
  BY <1>10, <1>11, EndorsableSame
<1> QED BY <1>5, <1>12

LEMMA EndorsementKeeps ==
  ASSUME FabInv, NEW t \in Slots, NEW reads, Endorsed(t, reads),
         \A w : Sees(w) => Prepared(w, reads)
  PROVE  FabInv'
<1>1. Sees(committed) /\ UNCHANGED committed /\ simulating' = TRUE
  BY DEF FabInv, Endorsed
<1>2. PICK tx : pending' = [pending EXCEPT ![t] = <<tx>>] /\ Endorsable(tx, committed)
  BY <1>1, PreparedIsEndorsable
<1>3. CommittedInv'
  BY <1>1, CommittedKept DEF FabInv
<1>4. pending' = [s \in Slots |-> pending'[s]]
  BY <1>2 DEF FabInv
<1>5. ASSUME NEW s \in Slots, pending'[s] # <<>>
      PROVE  \E x : pending'[s] = <<x>> /\ Endorsable(x, committed')
  <2>1. CASE s = t
    BY <1>1, <1>2, <2>1 DEF FabInv
  <2>2. CASE s # t
    BY <1>1, <1>2, <1>5, <2>2 DEF FabInv
  <2> QED BY <2>1, <2>2
<1>6. Shaped(committed)'
  BY <1>1 DEF FabInv, Shaped
<1>7. \A s \in Slots : pending'[s] # <<>> =>
          \E x : pending'[s] = <<x>> /\ Endorsable(x, committed)'
  BY <1>5, <1>1 DEF Endorsable
<1> QED BY <1>1, <1>3, <1>4, <1>6, <1>7 DEF FabInv

\* Endorsements change nothing but the transactions under way.
LEMMA EndorsementsKeep ==
  ASSUME FabInv, NEW t \in Slots,
         \/ EndorseCreation(t) \/ EndorseAssociation(t) \/ EndorseVoid(t)
         \/ EndorseTransfer(t) \/ EndorseClaim(t) \/ EndorseReview(t)
         \/ EndorseSettlement(t)
  PROVE  FabInv' /\ UNCHANGED committed
<1>0. ASSUME NEW reads, Endorsed(t, reads), \A w : Sees(w) => Prepared(w, reads)
      PROVE  FabInv' /\ UNCHANGED committed
  BY <1>0, EndorsementKeeps DEF Endorsed
<1>1. (\E reads : Endorsed(t, reads)) => LedgerInv
  BY SeenType DEF FabInv, Endorsed
<1>2. CASE EndorseCreation(t)
  <2>1. PICK i \in Invoices, u \in Users, caller \in MSPs, no \in Numbers, total \in Cents,
             p \in Projects \cup {None}, original \in Invoices \cup {None} :
           /\ CreateInvoice(i, no, total, "CNY", u, None, p, original, caller)
           /\ Endorsed(t, CreationReads(i, no, u, p, original))
    BY <1>2 DEF EndorseCreation
  <2>2. LedgerInv
    BY <1>1, <2>1
  <2>3. \A w : Sees(w) => Prepared(w, CreationReads(i, no, u, p, original))
    BY <2>1, <2>2, CreationPrepared
  <2> QED BY <1>0, <2>1, <2>3
<1>3. CASE EndorseAssociation(t)
  <2>1. PICK i \in Invoices, u \in Users, caller \in MSPs :
           \/ \E p \in Projects : /\ LinkInvoiceToProject(i, p, u, caller)
                                  /\ Endorsed(t, AssociationReads(i, p, u))
           \/ /\ UnlinkInvoiceFromProject(i, u, caller)
              /\ Endorsed(t, AssociationReads(i, invoice[i].project, u))
    BY <1>3 DEF EndorseAssociation
  <2>2. LedgerInv
    BY <1>1, <2>1
  <2>3. ASSUME NEW p \in Projects, LinkInvoiceToProject(i, p, u, caller),
               Endorsed(t, AssociationReads(i, p, u))
        PROVE  FabInv' /\ UNCHANGED committed
    <3>1. \A w : Sees(w) => Prepared(w, AssociationReads(i, p, u))
      BY <2>2, <2>3, AssociationPrepared
    <3> QED BY <1>0, <2>3, <3>1
  <2>4. ASSUME UnlinkInvoiceFromProject(i, u, caller),
               Endorsed(t, AssociationReads(i, invoice[i].project, u))
        PROVE  FabInv' /\ UNCHANGED committed
    <3>1. \A w : Sees(w) => Prepared(w, AssociationReads(i, invoice[i].project, u))
      BY <2>2, <2>4, AssociationPrepared
    <3> QED BY <1>0, <2>4, <3>1
  <2> QED BY <2>1, <2>3, <2>4
<1>4. CASE EndorseVoid(t)
  <2>1. PICK i \in Invoices, u \in Users, caller \in MSPs :
           \/ VoidInvoice(i, u, caller) /\ Endorsed(t, VoidReads(i, u))
           \/ RequestInvoiceVoid(i, u, caller) /\ Endorsed(t, VoidRequestReads(i, u))
           \/ \E decision \in {"APPROVE", "REJECT"} :
                 /\ ReviewInvoiceVoid(i, decision, u, caller)
                 /\ Endorsed(t, VoidReviewReads(i, decision, u))
    BY <1>4 DEF EndorseVoid
  <2>2. LedgerInv
    BY <1>1, <2>1
  <2>3. ASSUME VoidInvoice(i, u, caller), Endorsed(t, VoidReads(i, u))
        PROVE  FabInv' /\ UNCHANGED committed
    <3>1. \A w : Sees(w) => Prepared(w, VoidReads(i, u))
      BY <2>2, <2>3, VoidPrepared
    <3> QED BY <1>0, <2>3, <3>1
  <2>4. ASSUME RequestInvoiceVoid(i, u, caller), Endorsed(t, VoidRequestReads(i, u))
        PROVE  FabInv' /\ UNCHANGED committed
    <3>1. \A w : Sees(w) => Prepared(w, VoidRequestReads(i, u))
      BY <2>2, <2>4, VoidRequestPrepared
    <3> QED BY <1>0, <2>4, <3>1
  <2>5. ASSUME NEW decision \in {"APPROVE", "REJECT"}, ReviewInvoiceVoid(i, decision, u, caller),
               Endorsed(t, VoidReviewReads(i, decision, u))
        PROVE  FabInv' /\ UNCHANGED committed
    <3>1. \A w : Sees(w) => Prepared(w, VoidReviewReads(i, decision, u))
      BY <2>2, <2>5, VoidReviewPrepared
    <3> QED BY <1>0, <2>5, <3>1
  <2> QED BY <2>1, <2>3, <2>4, <2>5
<1>5. CASE EndorseTransfer(t)
  <2>1. PICK i \in Invoices, u \in Users, caller \in MSPs :
           \/ \E to \in Users, toMsp \in MSPs :
                 /\ RequestInvoiceTransfer(i, to, toMsp, u, caller)
                 /\ Endorsed(t, TransferReads(i, to, u))
           \/ \E decision \in {"ACCEPT", "REJECT"} :
                 /\ RespondInvoiceTransfer(i, decision, u, caller)
                 /\ Endorsed(t, AnswerReads(i, decision, u))
           \/ /\ CancelInvoiceTransfer(i, u)
              /\ Endorsed(t, Key("transfer", i) \cup Key("invoice", i))
    BY <1>5 DEF EndorseTransfer
  <2>2. LedgerInv
    BY <1>1, <2>1
  <2>3. ASSUME NEW to \in Users, NEW toMsp \in MSPs,
               RequestInvoiceTransfer(i, to, toMsp, u, caller),
               Endorsed(t, TransferReads(i, to, u))
        PROVE  FabInv' /\ UNCHANGED committed
    <3>1. \A w : Sees(w) => Prepared(w, TransferReads(i, to, u))
      BY <2>2, <2>3, TransferPrepared
    <3> QED BY <1>0, <2>3, <3>1
  <2>4. ASSUME NEW decision \in {"ACCEPT", "REJECT"},
               RespondInvoiceTransfer(i, decision, u, caller),
               Endorsed(t, AnswerReads(i, decision, u))
        PROVE  FabInv' /\ UNCHANGED committed
    <3>1. \A w : Sees(w) => Prepared(w, AnswerReads(i, decision, u))
      BY <2>2, <2>4, AnswerPrepared
    <3> QED BY <1>0, <2>4, <3>1
  <2>5. ASSUME CancelInvoiceTransfer(i, u),
               Endorsed(t, Key("transfer", i) \cup Key("invoice", i))
        PROVE  FabInv' /\ UNCHANGED committed
    <3>1. \A w : Sees(w) => Prepared(w, Key("transfer", i) \cup Key("invoice", i))
      BY <2>2, <2>5, CancelPrepared
    <3> QED BY <1>0, <2>5, <3>1
  <2> QED BY <2>1, <2>3, <2>4, <2>5
<1>6. CASE EndorseClaim(t)
  <2>1. PICK r \in Reimbursements, u \in Users, caller \in MSPs :
           \/ \E p \in Projects, i \in Invoices :
                 /\ CreateReimbursement(r, p, i, u, caller)
                 /\ Endorsed(t, ClaimReads(r, p, i, u))
           \/ /\ ResubmitReimbursement(r, u, caller) \/ WithdrawReimbursement(r, u, caller)
              /\ Endorsed(t, ApplicantReads(r, u))
    BY <1>6 DEF EndorseClaim
  <2>2. LedgerInv
    BY <1>1, <2>1
  <2>3. ASSUME NEW p \in Projects, NEW i \in Invoices, CreateReimbursement(r, p, i, u, caller),
               Endorsed(t, ClaimReads(r, p, i, u))
        PROVE  FabInv' /\ UNCHANGED committed
    <3>1. \A w : Sees(w) => Prepared(w, ClaimReads(r, p, i, u))
      BY <2>2, <2>3, ClaimPrepared
    <3> QED BY <1>0, <2>3, <3>1
  <2>4. ASSUME ResubmitReimbursement(r, u, caller) \/ WithdrawReimbursement(r, u, caller),
               Endorsed(t, ApplicantReads(r, u))
        PROVE  FabInv' /\ UNCHANGED committed
    <3>1. \A w : Sees(w) => Prepared(w, ApplicantReads(r, u))
      BY <2>2, <2>4, ResubmissionPrepared, WithdrawalPrepared
    <3> QED BY <1>0, <2>4, <3>1
  <2> QED BY <2>1, <2>3, <2>4
<1>7. CASE EndorseReview(t)
  <2>1. PICK r \in Reimbursements, u \in Users, caller \in MSPs :
           /\ \/ \E decision \in {"APPROVE", "REVISION"} :
                    ReviewReimbursement(r, decision, u, caller)
              \/ PayReimbursement(r, u, caller)
           /\ Endorsed(t, ReviewReads(r, u))
    BY <1>7 DEF EndorseReview
  <2>2. LedgerInv
    BY <1>1, <2>1
  <2>3. \A w : Sees(w) => Prepared(w, ReviewReads(r, u))
    BY <2>1, <2>2, ReviewPrepared, PaymentPrepared
  <2> QED BY <1>0, <2>1, <2>3
<1>8. CASE EndorseSettlement(t)
  <2>1. PICK p \in Projects, u \in Users, caller \in MSPs :
           /\ FinalizeProjectSettlement(p, u, caller)
           /\ Endorsed(t, SettlementReads(p, u))
    BY <1>8 DEF EndorseSettlement
  <2>2. LedgerInv
    BY <1>1, <2>1
  <2>3. \A w : Sees(w) => Prepared(w, SettlementReads(p, u))
    BY <2>1, <2>2, SettlementPrepared
  <2> QED BY <1>0, <2>1, <2>3
<1> QED BY <1>2, <1>3, <1>4, <1>5, <1>6, <1>7, <1>8

\* The others when a transaction takes effect: those whose keys are written
\* are overtaken.
LEMMA OthersKept ==
  ASSUME FabInv, NEW t \in Slots, NEW x, NEW written,
         pending[t] # <<>>, \A key \in Keys \ written : Value(x, key) = Value(committed, key)
  PROVE  \E tx : <<Overtake(pending[t][1], written)>> = <<tx>> /\ Endorsable(tx, x)
<1>1. PICK tx : pending[t] = <<tx>> /\ Endorsable(tx, committed)
  BY DEF FabInv
<1>2. pending[t][1] = tx
  BY <1>1
<1>3. Endorsable(Overtake(tx, written), x)
  BY <1>1, EndorsementKept
<1> QED BY <1>2, <1>3

\* A transaction that is found valid.
LEMMA CommitIsStep ==
  ASSUME FabInv, NEW t \in Slots, Commit(t)
  PROVE  Sees(committed) /\ Sees(committed)' /\ Shaped(committed)' /\ Next
<1>1. PICK tx : pending[t] = <<tx>> /\ Endorsable(tx, committed)
  BY DEF FabInv, Commit
<1>2. pending[t][1] = tx
  BY <1>1
<1>3. /\ ~simulating /\ ~tx.overtaken
      /\ \A key \in tx.absent : ~Present(committed, key)
      /\ committed' = Put(committed, tx.writes)
      /\ PeerSees(committed') /\ evidence' = tx.evidence
  BY <1>2 DEF Commit, Unchanged
<1>4. Sees(committed) /\ Shaped(committed) /\ TypeOK
  BY <1>3, SeenType DEF FabInv
<1>5. Sees(committed)'
  BY <1>3, PeerIsSeen
<1>6. PICK known, writes : /\ Runs(committed, known, writes, tx.evidence)
                           /\ Effect(committed, Put(committed, tx.writes), writes)
                           /\ NoMember(tx.writes)
  BY <1>1, <1>3, <1>4, EndorsementHolds
<1>7. Shaped(committed')
  BY <1>3, <1>4, <1>6, PutShaped
<1>8. Shaped(committed)'
  BY <1>7 DEF Shaped
<1>9. Effect(committed, committed', writes)
  BY <1>3, <1>6
<1>10. Updates(writes)
  BY <1>4, <1>5, <1>8, <1>9, EffectsUpdate
<1>11. Runs(committed, known, writes, evidence')
  BY <1>3, <1>6
<1>12. Next
  BY <1>4, <1>10, <1>11, RunsAreSteps DEF Next
<1> QED BY <1>4, <1>5, <1>8, <1>12

LEMMA CommitKeeps ==
  ASSUME FabInv, NEW t \in Slots, Commit(t)
  PROVE  FabInv'
<1>1. Sees(committed) /\ Sees(committed)' /\ Shaped(committed)' /\ Next
  BY CommitIsStep
<1>2. LedgerInv
  BY <1>1, SeenType
<1>3. LedgerInv'
  BY <1>1, <1>2, LedgerStep
<1>4. CommittedInv'
  BY <1>1, <1>3, InvSeenNext
<1>5. PICK tx : pending[t] = <<tx>>
  BY DEF FabInv, Commit
<1>6. /\ committed' = Put(committed, tx.writes)
      /\ pending' = [other \in Slots |->
                       IF other = t \/ pending[other] = <<>> THEN <<>>
                       ELSE <<Overtake(pending[other][1], DOMAIN tx.writes)>>]
  BY <1>5 DEF Commit
<1>7. PICK x : x = Put(committed, tx.writes)
  OBVIOUS
<1>8. \A key \in Keys \ DOMAIN tx.writes : Value(x, key) = Value(committed, key)
  BY <1>7, PutValue DEF FabInv
<1>9. ASSUME NEW s \in Slots, pending'[s] # <<>>
      PROVE  \E y : pending'[s] = <<y>> /\ Endorsable(y, x)
  <2>1. s # t /\ pending[s] # <<>>
    BY <1>6, <1>9
  <2>2. pending'[s] = <<Overtake(pending[s][1], DOMAIN tx.writes)>>
    BY <1>6, <2>1
  <2> QED BY <1>8, <2>1, <2>2, OthersKept
<1>10. \A s \in Slots : pending'[s] # <<>> =>
           \E y : pending'[s] = <<y>> /\ Endorsable(y, committed)'
  BY <1>6, <1>7, <1>9 DEF Endorsable
<1>11. pending' = [s \in Slots |-> pending'[s]]
  BY <1>6
<1> QED BY <1>1, <1>4, <1>10, <1>11 DEF FabInv

----------------------------------------------------------------------------
(* Every step keeps FabInv, and only steps of the contract reach the       *)
(* ledger.                                                                 *)

LEMMA WorldSeenNext == TypeOK' => Sees(World)' /\ Shaped(World)'
<1>1. TypeOK => Sees(World) /\ Shaped(World)
  BY WorldSeen
<1> QED BY <1>1, PTL

\* Directory and project transactions: the step is the contract's own.
LEMMA AdministrationIsStep ==
  ASSUME FabInv, Administration
  PROVE  Sees(committed) /\ Sees(committed)' /\ Shaped(committed)' /\ Next
<1>1. Sees(committed) /\ Next /\ committed' = World'
  BY DEF Administration, FabInv, Next
<1>2. LedgerInv'
  BY <1>1, SeenType, LedgerStep
<1>3. TypeOK'
  BY <1>2 DEF LedgerInv, NumberInv
<1>4. Sees(World)' /\ Shaped(World)'
  BY <1>3, WorldSeenNext
<1>5. PICK x : x = World' /\ x = committed'
  BY <1>1
<1>6. Sees(committed)'
  BY <1>4, <1>5 DEF Sees, Members
<1>7. Shaped(committed)'
  BY <1>4, <1>5 DEF Shaped
<1> QED BY <1>1, <1>6, <1>7

LEMMA AdministrationKeeps ==
  ASSUME FabInv, Administration
  PROVE  FabInv'
<1>1. Sees(committed) /\ Sees(committed)' /\ Shaped(committed)' /\ Next
  BY AdministrationIsStep
<1>2. LedgerInv /\ TypeOK
  BY <1>1, SeenType
<1>3. LedgerInv'
  BY <1>1, <1>2, LedgerStep
<1>4. CommittedInv'
  BY <1>1, <1>3, InvSeenNext
<1>5. PICK old, new :
         /\ old = World /\ new = World' /\ committed' = new
         /\ pending' = [t \in Slots |->
                          IF pending[t] = <<>> THEN <<>>
                          ELSE <<Overtake(pending[t][1], ChangedKeys(old, new))>>]
  BY DEF Administration
<1>6. \A key \in Keys \ ChangedKeys(old, new) : Value(new, key) = Value(committed, key)
  <2> SUFFICES ASSUME NEW key \in Keys, key \notin ChangedKeys(old, new)
               PROVE  Value(new, key) = Value(committed, key)
    OBVIOUS
  <2>1. Value(new, key) = Value(old, key)
    BY DEF ChangedKeys
  <2>2. Value(World, key) = Value(committed, key)
    BY <1>1, <1>2, SeenValues DEF FabInv
  <2> QED BY <1>5, <2>1, <2>2
<1>7. ASSUME NEW s \in Slots, pending'[s] # <<>>
      PROVE  \E y : pending'[s] = <<y>> /\ Endorsable(y, new)
  <2>1. pending[s] # <<>>
    BY <1>5, <1>7
  <2>2. pending'[s] = <<Overtake(pending[s][1], ChangedKeys(old, new))>>
    BY <1>5, <2>1
  <2> QED BY <1>6, <2>1, <2>2, OthersKept
<1>8. \A s \in Slots : pending'[s] # <<>> =>
          \E y : pending'[s] = <<y>> /\ Endorsable(y, committed)'
  <2>1. committed' = new
    BY <1>5
  <2> QED BY <1>7, <2>1 DEF Endorsable
<1>9. pending' = [s \in Slots |-> pending'[s]]
  BY <1>5
<1> QED BY <1>1, <1>4, <1>8, <1>9 DEF FabInv

\* The ledger stands still: nothing that was endorsed is lost but by choice.
LEMMA StillKeeps ==
  ASSUME FabInv, UNCHANGED committed, ~simulating' => Sees(committed)',
         pending' = [t \in Slots |-> pending'[t]],
         \A t \in Slots : pending'[t] = <<>> \/ pending'[t] = pending[t]
  PROVE  FabInv'
<1>1. CommittedInv'
  BY CommittedKept DEF FabInv
<1>2. Shaped(committed)'
  BY DEF FabInv, Shaped
<1>3. \A t \in Slots : pending'[t] # <<>> =>
          \E tx : pending'[t] = <<tx>> /\ Endorsable(tx, committed)'
  BY DEF FabInv, Endorsable
<1> QED BY <1>1, <1>2, <1>3 DEF FabInv

LEMMA ForgettingKeeps == FabInv /\ EndSimulation => FabInv'
<1> SUFFICES ASSUME FabInv, EndSimulation PROVE FabInv'
  OBVIOUS
<1>1. Sees(committed)'
  BY DEF EndSimulation, PeerSees, Sees, Members
<1>2. UNCHANGED <<committed, pending>>
  BY DEF EndSimulation
<1>3. pending' = [t \in Slots |-> pending'[t]]
  BY <1>2 DEF FabInv
<1> QED BY <1>1, <1>2, <1>3, StillKeeps

LEMMA DroppingKeeps == ASSUME FabInv, NEW t \in Slots, Dropped(t) PROVE FabInv'
<1>1. UNCHANGED <<vars, committed, simulating>> /\ pending' = [pending EXCEPT ![t] = <<>>]
  BY DEF Dropped
<1>2. ~simulating' => Sees(committed)'
  BY <1>1 DEF FabInv, Sees, Members, vars
<1>3. pending' = [s \in Slots |-> pending'[s]]
  BY <1>1 DEF FabInv
<1>4. \A s \in Slots : pending'[s] = <<>> \/ pending'[s] = pending[s]
  BY <1>1 DEF FabInv
<1> QED BY <1>1, <1>2, <1>3, <1>4, StillKeeps

LEMMA StutterKeeps == FabInv /\ UNCHANGED fabricVars => FabInv'
<1> SUFFICES ASSUME FabInv, UNCHANGED fabricVars PROVE FabInv'
  OBVIOUS
<1>1. UNCHANGED <<vars, committed, simulating, pending>>
  BY DEF fabricVars
<1>2. ~simulating' => Sees(committed)'
  BY <1>1 DEF FabInv, Sees, Members, vars
<1>3. pending' = [s \in Slots |-> pending'[s]]
  BY <1>1 DEF FabInv
<1> QED BY <1>1, <1>2, <1>3, StillKeeps

LEMMA FabInit == FabricInit => FabInv
<1> SUFFICES ASSUME FabricInit PROVE FabInv
  OBVIOUS
<1>1. LedgerInv /\ TypeOK
  BY LedgerInit DEF FabricInit, LedgerInv, NumberInv
<1>2. committed = World
  BY DEF FabricInit
<1>3. Sees(committed) /\ Shaped(committed)
  BY <1>1, <1>2, WorldSeen
<1>4. CommittedInv
  BY <1>1, <1>3, InvSeen
<1>5. pending = [t \in Slots |-> <<>>]
  BY DEF FabricInit
<1> QED BY <1>3, <1>4, <1>5 DEF FabInv

LEMMA FabStep == FabInv /\ [FabricNext]_fabricVars => FabInv'
<1> SUFFICES ASSUME FabInv, [FabricNext]_fabricVars PROVE FabInv'
  OBVIOUS
<1>1. CASE UNCHANGED fabricVars
  BY <1>1, StutterKeeps
<1>2. CASE EndSimulation
  BY <1>2, ForgettingKeeps
<1>3. CASE Administration
  BY <1>3, AdministrationKeeps
<1>4. ASSUME NEW t \in Slots, Commit(t) PROVE FabInv'
  BY <1>4, CommitKeeps
<1>5. ASSUME NEW t \in Slots, Dropped(t) PROVE FabInv'
  BY <1>5, DroppingKeeps
<1>6. ASSUME NEW t \in Slots,
             \/ EndorseCreation(t) \/ EndorseAssociation(t) \/ EndorseVoid(t)
             \/ EndorseTransfer(t) \/ EndorseClaim(t) \/ EndorseReview(t)
             \/ EndorseSettlement(t)
      PROVE  FabInv'
  BY <1>6, EndorsementsKeep
<1> QED BY <1>1, <1>2, <1>3, <1>4, <1>5, <1>6 DEF FabricNext

\* Whatever reaches the ledger is an operation of the contract.
LEMMA ChangesAreSteps ==
  FabInv /\ [FabricNext]_fabricVars => [committed' # committed => Chain!Next]_committed
<1> SUFFICES ASSUME FabInv, [FabricNext]_fabricVars, committed' # committed
             PROVE  Chain!Next
  OBVIOUS
<1>1. CASE UNCHANGED fabricVars
  BY <1>1 DEF fabricVars
<1>2. CASE EndSimulation
  BY <1>2 DEF EndSimulation
<1>3. CASE Administration
  BY <1>3, AdministrationIsStep, StepOnChain
<1>4. ASSUME NEW t \in Slots, Commit(t) PROVE Chain!Next
  BY <1>4, CommitIsStep, StepOnChain
<1>5. ASSUME NEW t \in Slots, Dropped(t) PROVE Chain!Next
  BY <1>5 DEF Dropped
<1>6. ASSUME NEW t \in Slots,
             \/ EndorseCreation(t) \/ EndorseAssociation(t) \/ EndorseVoid(t)
             \/ EndorseTransfer(t) \/ EndorseClaim(t) \/ EndorseReview(t)
             \/ EndorseSettlement(t)
      PROVE  Chain!Next
  BY <1>6, EndorsementsKeep
<1> QED BY <1>1, <1>2, <1>3, <1>4, <1>5, <1>6 DEF FabricNext

----------------------------------------------------------------------------
(* The theorems.                                                           *)

\* The committed ledger keeps the contract's inductive invariant, and each
\* transaction under way that is not overtaken still agrees with the ledger
\* on everything it read.
THEOREM EndorsementsAgree == FabricSpec => []FabInv
<1> QED BY FabInit, FabStep, PTL DEF FabricSpec

\* A transaction that peers find valid acts on the ledger it meets as the
\* contract would have, whatever was committed since its endorsement: the
\* chaincode reads enough for validation to notice that its writes are stale.
THEOREM ValidTransactionsAreAtomic == FabricSpec => CommitsAreAtomic
<1> QED BY EndorsementsAgree, ChangesAreSteps, PTL DEF FabricSpec, CommitsAreAtomic

\* What CommittedInv says of single operators, in the words of Chain.
LEMMA ChainKeeps ==
  ASSUME CommittedInv
  PROVE  ConcurrentClaimsAreSafe /\ ConcurrentNumbersAreUnique /\ SettlementLeavesNoClaim
<1>1. Chain!OneClaimPerInvoice
  BY DEF CommittedInv, Ledger!RestInv, Ledger!ClaimInv, Ledger!OneClaimPerInvoice, Ledger!Live,
         Chain!OneClaimPerInvoice, Chain!Live
<1>2. Chain!ClaimsRestOnInvoices
  BY DEF CommittedInv, Ledger!RestInv, Ledger!ClaimsRestOnInvoices, Ledger!Live,
         Ledger!NotVoided, Ledger!InvoiceExists, Ledger!Released, Chain!ClaimsRestOnInvoices,
         Chain!Live, Chain!NotVoided, Chain!InvoiceExists, Chain!Released
<1>3. Chain!OneValidRecordPerNumber
  BY DEF CommittedInv, Ledger!NumberInv, Ledger!OneValidRecordPerNumber, Ledger!NotVoided,
         Ledger!InvoiceExists, Chain!OneValidRecordPerNumber, Chain!NotVoided,
         Chain!InvoiceExists
<1>4. Chain!ArchivedIsSettled
  BY DEF CommittedInv, Ledger!ArchivedIsSettled, Chain!ArchivedIsSettled
<1>5. Chain!BalancesAreBacked
  <2>1. \A p, status : Chain!ClaimedIn(p, status) = Ledger!ClaimedIn(p, status)
    BY DEF Chain!ClaimedIn, Ledger!ClaimedIn
  <2>2. \A p, status : Chain!ClaimedCents(p, status) = Ledger!ClaimedCents(p, status)
    BY <2>1 DEF Chain!ClaimedCents, Ledger!ClaimedCents
  <2>3. \A S : Chain!Cardinality(S) = Ledger!Cardinality(S)
    BY DEF Chain!Cardinality, Ledger!Cardinality
  <2>4. \A p, status : Chain!Claimed(p, status) = Ledger!Claimed(p, status)
    BY <2>2, <2>3 DEF Chain!Claimed, Ledger!Claimed
  <2> QED BY <2>4 DEF CommittedInv, Ledger!MoneyInv, Ledger!BalancesAreBacked,
                      Chain!BalancesAreBacked
<1> QED BY <1>1, <1>2, <1>3, <1>4, <1>5
        DEF ConcurrentClaimsAreSafe, ConcurrentNumbersAreUnique, SettlementLeavesNoClaim

\* Claims, voids and links endorsed side by side leave at most one live claim
\* on an invoice, and none on one that is voided or of another project.
THEOREM ConcurrentClaims == FabricSpec => []ConcurrentClaimsAreSafe
<1>1. FabInv => ConcurrentClaimsAreSafe
  BY ChainKeeps DEF FabInv
<1> QED BY <1>1, EndorsementsAgree, PTL

\* Two creations of a number endorsed side by side: one of them fails.
THEOREM ConcurrentNumbers == FabricSpec => []ConcurrentNumbersAreUnique
<1>1. FabInv => ConcurrentNumbersAreUnique
  BY ChainKeeps DEF FabInv
<1> QED BY <1>1, EndorsementsAgree, PTL

\* A settlement that is found valid leaves no claim open, and the balances
\* are what the claims add up to.
THEOREM ConcurrentSettlement == FabricSpec => []SettlementLeavesNoClaim
<1>1. FabInv => SettlementLeavesNoClaim
  BY ChainKeeps DEF FabInv
<1> QED BY <1>1, EndorsementsAgree, PTL
============================================================================
