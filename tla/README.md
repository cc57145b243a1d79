# A formal model of the invoice ledger

The repository is a project-management and reimbursement system on
Hyperledger Fabric (`src/project/invoice-ledger`). Its rules about money,
invoices and authority live in one smart contract,
`chaincode/invoice_contract.go`; a Gin backend turns REST requests into
transactions, decides who may read what and keeps the passwords in a local file;
a single-page front end shows the result. The modules here specify the contract,
the way its transactions are endorsed and validated, the REST handlers, the
account store, the registration of users that spans ledger and file, and the
page; they model-check them on small instances and prove most of their
properties for every instance.

## 1. Inventory

| Component | State | Operations | What makes it correct |
| --- | --- | --- | --- |
| Business directory | `USER#`, `ORGANIZATION#` | RegisterBusinessUser, CreateBusinessOrganization | records are written once; registration grants no privilege; a ledger record replaces a demo account of its name |
| Projects | `PROJECT#`, `PROJECT_MEMBER#` | CreateProject, UpdateProject, SubmitProject, ReviewProject, RequestProjectClosure, ReviewProjectClosure, FinalizeProjectSettlement, AddProjectMember | the reviewed budget is what is released; members belong to the organization; an archived project is settled |
| Reimbursements | `REIMBURSEMENT#`, `REIMBURSEMENT_INVOICE#` | CreateReimbursement, ReviewReimbursement, ResubmitReimbursement, WithdrawReimbursement, PayReimbursement | one claim per invoice; balances equal the claims behind them; money is conserved; what a claim rests on stays put |
| Invoice records | `INVOICE#`, `INVOICE_NUMBER#`, `VOID_REQUEST#` | CreateInvoice, LinkInvoiceToProject, UnlinkInvoiceFromProject, VoidInvoice, RequestInvoiceVoid, ReviewInvoiceVoid | one valid record per number; a voided record is frozen; links stay inside an organization |
| Custody | `TRANSFER_REQUEST#`, holder of the invoice | TransferInvoice, RequestInvoiceTransfer, RespondInvoiceTransfer, CancelInvoiceTransfer | custody changes by consent |
| Audit trail | `FLOW#`, `PROJECT_EVENT#` | createFlow, createProjectEventWithReference, called by the writers | a change of custody or balances leaves a record that explains it |
| Fabric | blocks, read and write sets | endorse, order, validate | a valid transaction acts as if it had run when it was committed |
| REST backend | none of its own | one handler per transaction; lists put together from several queries; registerUser has two effects | an actor can see what he may act on; a list is true to its time; every request ends |
| Login accounts | account map, `accounts.json`, `.bak`, lock | NewService, RegisterAccount, ValidateRegistration | a save is atomic; a crash loses no stored password; damage is contained |
| Sessions | token map, cookie | Login, Logout, Me, Require, RequireRole | a session speaks for one account |
| Gateway client | connection cache, time-outs | ContractFor, Close | a time-out says nothing about the transaction |
| Web front end | `state`, request counters, pending keys | loads, search, selection, operations, login and log-out | what is shown is of the user, session, search and selection it names; an operation is sent once |
| OCR, operations scripts | none relevant | | |

**Interactions.** The contract's parts share the world state and call no one:
a reimbursement reads the project, its member list, the invoice and the link
key and writes the claim, the link key, the project's balances and an event;
voids, links and corrections read the link key to learn whether a claim holds
the invoice; transfers share the invoice record with voids. The backend calls
the contract through the gateway under the certificate of the user's MSP and
passes the username as an argument. The page calls the backend with a cookie and
merges answers into one global `state` as they arrive.

**Hard behaviours.** Users act in any order and on what they saw some time
ago: void requests and transfer requests wait while the invoice changes; a
review is of a claim whose invoice and project have moved on; project
settlement scans claims that are still being made; a registration may take
the name of a demo account in the middle of a project. Money moves between
four balances of one record and is justified by other records. Transactions are
endorsed on one ledger and validated against another, late, twice or never.
Registration is a ledger transaction followed by a file write, with
time-outs on the first and possible crashes in between. Lists are made of
queries of different block heights, and arrive at the page in any order, for a
search or a session that may be over. `PROJECT.json` lists each hazard at its
line.

## 2. Modules

| Module | Source | Content |
| --- | --- | --- |
| `LedgerState` | types, keys, identity checks and shared reads of `invoice_contract.go` | variables, record types, assumptions on the constants |
| `DirectoryContract` | lines 888–1035 | users and organizations |
| `ProjectContract` | lines 1097–1350 and 1437–1474 | project life, budget, members |
| `ReimbursementContract` | lines 1500–1749 | claims, the link key and the balances |
| `InvoiceRecords` | lines 228–468, 681–844, 1970–2027 | records, corrections, links, voids |
| `InvoiceTransfers` | lines 472–658 | custody |
| `InvoiceContract` | `chaincode/main.go` | composes the five, states the properties |
| `FabricValidation` | the reads of `invoice_contract.go`, `gateway.go` | transactions under way over `InvoiceContract` |
| `RestApi` | `backend/api/invoice.go`, roles of `auth.go` | the handlers over `InvoiceContract`, and what users can read |
| `AccountStore` | `backend/auth/auth.go` 45–136, 233–318 | account map, file and lock; save, crash, start |
| `AtomicAccounts` | | abstract: an account is stored and acknowledged in one step |
| `Registration` | `backend/api/invoice.go` 345–395, `gateway.go` 118–122 | concurrent registrations over `AccountStore` and the ledger's names |
| `WebClient` | `web/app.js` | one page, its calls and its sessions |
| `MCLedger` | | directories that the ledger's instances start from |
| `MCInvoiceContract`, `MCFabricValidation`, `MCRestApi`, `MCAccountStore`, `MCWebClient` | | instances: initial states, themes, symmetry, views |
| `InvoiceContractProofs`, `InvoiceRecordProofs`, `ProjectProofs` | | theorems on `InvoiceContract`, each module over the one before |
| `RestApiProofs` | | theorems on `RestApi`, over those on the contract |
| `FabricProofs` | | theorems on `FabricValidation`, over those on the contract |
| `AccountStoreProofs`, `RegistrationProofs`, `WebClientProofs` | | theorems on the others |

`FabricValidation` and `RestApi` use the actions of `InvoiceContract` as they
are and add variables; `Registration` does so with `AccountStore`.

### The contract

**State.** One variable per key family, a function from ids to the record
under the key. A key that was never put holds a record with status `ABSENT`
(`None` where the value is a bare id), and `DelState` sets it back. Fields no
rule reads (names, opinions, hashes, timestamps) are left out. `evidence` is the
audit record the last transaction put; the records themselves accumulate under
keys that include the transaction id and are read by queries only.

**Actions.** One per exported operation that writes. The arguments are the
business arguments plus `caller`, the MSP of the signing certificate; the
guards are the early returns, in conjunction, and a refused transaction changes
nothing, as in Fabric. A transaction is one step; `FabricValidation` is about
whether that is right.

**What the model keeps of identity.** `RequireRegisteredRole` reproduces the
bootstrap exception of the contract: a name without a ledger record falls back
on the eight demo accounts, whose names are kept as strings, and a ledger
record, whatever it says, replaces the demo account. `TransferInvoice` alone
insists on a ledger record (`requireActiveHolder`).

**The provisioned directory.** `RegisterBusinessUser` creates
`PROJECT_MEMBER` records only and refers every other role to "administrator
provisioning" (line 907); the contract was upgraded in place from v1.2 on,
so older versions' records stay. `ProvisionedUsers` and `ProvisionedOrgs` are
therefore constants: any directory of the right type for the proofs, a few
chosen ones for the runs. `CLOSURE_APPROVED` is a status of an earlier version
that the code accepts and never writes, and an absent organization or currency
marks an older record; the guards keep these cases although `Init` starts
without projects and invoices.

### Transactions under way

In `FabricValidation` the variables of the contract are what a peer sees while
it runs the chaincode, and `committed` is the ledger. Endorsing a transaction is
an action of the contract together with the keys and ranges that function reads:
`CreationReads`, `ClaimReads`, `SettlementReads` and so on are read off the
`GetState` and `GetStateByRange` calls on the successful path. The reads that
were present, the reads that were absent and the writes go into a slot of
`pending`, and the peer forgets what it wrote. `Commit` is Fabric's validation
and commit: every key read must have the version it had, and an absent one must
be absent still. Versions are not counted: a commit marks the transactions
whose reads it overtakes. An absent key that somebody put and
deleted again is absent still, as in Fabric. Transactions commit in any order,
late, or never (`Dropped`), and nothing prevents the same request from being
endorsed again while its first attempt is under way: that is what a user does
who saw one of the time-outs of `gateway.go` 118–122.

`Chain` is the contract over `committed`, and `CommitsAreAtomic` says that each
commit is a step of `Chain!Next`: the refinement that allows all other modules
to treat a transaction as one step.

Covered are the transactions of the settlement phase, where claims, voids, links,
transfers, corrections and settlement compete. Those of the directory, of
membership and of a project's own life (`Administration`) take effect between the
endorsement and the validation of the others and overtake them, but nothing comes
between their own endorsement and validation. The direct transfer is left out,
which the backend does not route. A write that does not change its key is no write
here. In Fabric it still gives the key a new version; the model thus refuses fewer
transactions than Fabric does, and what holds of those it accepts holds of Fabric's.

### The REST handlers

`RestApi` has one action per mutating route: `RequireRole` with the roles of
the route, the arguments the handler takes from the session's principal, and the
contract's action. Reading is decided in the backend, by `projectVisibleTo`,
`invoiceVisibleTo` and `pendingTransferVisibleTo`, from the organization in the
session, the built-in demo names and the records. `registerUser` is one step
here with the choice that the account was not stored; its steps are in
`Registration`. `requestInvoiceTransfer` reads the invoice before it submits;
the two are one step, since a block in between can only make the chaincode refuse.

`getInvoices` is modelled query by query: all invoices, all projects, all
organizations, and for each invoice these do not show, its transfer request.
`watch` is a history variable with what the user could see at every block, and
at some block, between the first query and the answer.

### The account store and registration

**Account store.** An account is the request that set its password; the map holds
the registered accounts, the demo accounts are the names in `DemoNames`, which
the code adds at start and leaves out of the file. A file is missing, damaged
(it does not decode) or whole. `saving` is the holder of the lock and how far
`saveRegisteredAccountsLocked` has come: reading the previous generation,
creating, filling and renaming the backup, creating, filling and renaming the
temporary file. `os.WriteFile` is two steps, since it truncates first. `SaveFails`
is the error return of any of them and takes the account back. `Crash` loses the
map and the lock and keeps the files; `Start` is `NewService` with `loadAccounts`,
which is not enabled when the code refuses to start. `Damage` is an outside fault,
bounded by `MaxDamage`: one of the two files becomes unreadable, or the account
file is deleted. `acknowledged` is a history variable: the requests for which
`RegisterAccount` returned without error.

**Registration.** A request goes through the phases of `registerUser`: validated
(the name was free under the read lock), submitted (the transaction was endorsed
and sent), registered (it committed), storing (the handler holds the lock) and
done or failed. The ledger is the key `USER#name`; `Commit` is external, may
happen long after the handler timed out, and validates the read of the absent
key. The steps of `AccountStore` are used as they are; the name is checked a
second time under the lock as in the code, a check that never refuses once the
ledger has accepted the name. `troubled` is a history variable: a time-out, a
failed save, a crash or damage has happened.

### The page

`WebClient` is one page of `web/app.js`. A call is sent with the cookie and
the `sessionVersion` of the moment; the service processes it some time later and
the answer arrives some time after that, refused, failed or with the data.
The page counts the loads of the invoice list and of the invoices offered for a
project (`invoiceListRequest`, `projectInvoiceRequest`) and drops an answer when
the count has moved on; a count is never reached twice, so `latest` names the
load that still counts. Other loads are compared with the session only. What a
list shows is modelled by what it was loaded for, in which session, with whose
cookie and at which height of the ledger. An operation holds its key
`METHOD:path` in `pendingMutationKeys` from click to answer. A session may end
at the service at any time (eight hours, restart): the page learns of it by a 401,
which shows the login dialog over the old page. A second click on log-out while
the first is under way is refused for its key and empties the page all the same.

`reloadBusinessData` starts six loads; the invoice list and the project list
stand for them, since users, organizations and claims load as projects do. One
tab is modelled; tabs share the cookie and nothing else.

**Definitions marked "Fault"** sit beside the definition they distort. No
action uses them. Each shows, when put in its neighbour's place, that the
property aimed at it can fail.

## 3. What is checked

TLC runs each configuration to the end of its state space. Most runs have
*themes*: behaviours that differ in the operations, users and initial state, so
that each theme can afford the ids it needs. `theme` is chosen initially and
never changes.

| Run | Question and themes | Properties |
| --- | --- | --- |
| `settlement` | a project from draft to archive, three claims over two invoices of 1 or 2 cents on a budget of 1 or 2 | TypeOK, BudgetConserved, BalancesAreBacked, OneClaimPerInvoice, ArchivedIsSettled, BalanceChecksNeverRefuse, SettledIsFinal, ChangesAreEvidenced |
| `projects` | *claims*: two projects, two invoices, a claim, voids and void requests, two currencies; *directory*: registrations and organizations from nothing, demo names included, and a project over them | LinkedInvoicesMatchProject, ClaimsRestOnInvoices, MembersBelongToProject, ReviewersAreNotApplicants |
| `invoices` | *records*: three records and their corrections; *custody*: an invoice and its correction that change hands without a registered holder; *direct*: with one | OneValidRecordPerNumber, CorrectionsReplaceVoided, PendingTransferIsFromHolder, CustodyNeedsConsent, VoidedIsFrozen, ChangesAreEvidenced |
| `fabric` | two transactions under way at once; *claims*: claims, reviews, payments and settlement over two invoices; *numbers*: creations, corrections and voids of two numbers; *invoice*: links, voids, transfers and claims of one invoice; *team*: links, voids and claims while their project is edited, closed and settled, members join and a demo name registers | ConcurrentClaimsAreSafe, ConcurrentNumbersAreUnique, SettlementLeavesNoClaim, CommitsAreAtomic |
| `rest` | *directory* and *work*: every mutating route by every user over one project, invoice and claim; *list*: a list of invoices while they are recorded, linked, voided and handed over | ApprovedVoidIsVoided, ListsAreOfTheirTime, ActorsSeeWhatTheyTouch |
| `web` | *search*, *form*, *operations*: three calls on their way over up to three changes of session and two users | CountedListsNeverGoBack, OffersAreOfThisSession, ListsAreOfTheUser, OperationsAreSentOnce |
| `crashes` | three accounts stored, crashes and I/O errors without damage, against `AtomicAccounts` | CrashesAreRecoverable, DiskIsAtomic |
| `registration` | three concurrent requests over three free names and a demo name, with every fault, three damages and fair handlers | RegistrationTypeOK, AccountsMatchLedger, ChainOnlyNeedsTrouble, LossIsBounded, UsesAccountStore, BackupStaysUsable, RequestsAreAnswered |
| `correct_again` | refuted: VoidedCanBeCorrected | |
| `reject_void` | refuted: RejectedVoidKeepsInvoice | |
| `delete_file` | refuted: DeletionClearsLogins | |
| `submit_twice` | refuted: NoSecondSubmission | |

**The refuted statements.** Three are sentences of the user manual, one a
message of the page.

* `correct_again`: the manual (`系统使用手册.md:195`) offers a correction for a
  record that was voided. A correction is a record too; once it is voided, the
  original and the correction each see the other in
  `InvoiceNumberExistsExcept`, voided or not, so neither can be corrected and the
  number can never be used again.
* `reject_void`: the manual (`系统使用手册.md:213`) says an invoice stays valid
  when its void request is rejected. The issuer may void the invoice directly
  while the request is pending; the rejection does not read the status and
  succeeds on a voided invoice.
* `delete_file`: the manual (`系统使用手册.md:280`) says that deleting
  `accounts.json` clears the local credentials. `loadAccounts` then takes the
  backup, so that everyone but the newest account can log in after a restart.
* `submit_twice`: `api` answers a second click with "the same operation is being
  processed, do not submit it again" (`web/app.js:12`). Log-out empties the set of
  keys, and the answer of an operation that outlived its session then deletes
  the key of the same operation in the next session (`web/app.js:29`), which can
  be sent again while it is on its way. `OperationsAreSentOnce` shows that this is
  the only way.

**What else the runs showed.**

* *Creations conflict more than they must.* Both number checks end in a scan of
  all invoices, so that of two creations of *different* numbers under way at
  once the later is invalid and must be sent again. Safety rests on this scan and
  on the absent index key together.
* *Retries have ids of their own.* The backend draws a fresh id for every request
  (`newBusinessID`), so that a repeated claim is not refused for its id but for the
  link key. A late first attempt may still commit after its repetition was
  withdrawn; the applicant then has a claim he was told had failed.
* *A list can miss an invoice seen before and after.* A recipient who accepts a
  transfer while his list is being made misses the invoice: it is not his yet in
  the first query, and the request is no longer pending in the last. This is the
  exception in `ListsAreOfTheirTime`, and the only one.
* *Uncounted loads.* Within a session an older project list (and users,
  organizations, claims) may replace a newer one; nothing promises otherwise, and
  the next reload mends it. Between sessions `ListsAreOfTheUser` holds, with
  `dataStale` for the loads that failed.
* *Log-out.* When the call fails the page is emptied and says the service will
  be told later; no code retries it, and the cookie stays good until it expires.
  Expired sessions that are not used again stay in the service's token map.

**A remark on registration.** `ChainOnlyNeedsTrouble` has `troubled` in it for a
reason: a time-out, a crash or a failed save between the two effects leaves a
user on the ledger without a login account. The ledger then refuses the name for
ever and nothing in the code repairs it; a damage that loses an account has the
same effect. The model shows that this is the only way it happens.

**A remark on direct transfers.** `TransferInvoice` does not clear a pending
request, and `CancelInvoiceTransfer` wants the operator to be both requester and
present holder. After a direct transfer the old request can only be rejected by
its recipient. The recipient of a direct transfer must be a `HOLDER` of the
ledger directory, which this version cannot register, and the backend does not
route the operation; `PendingTransferIsFromHolder` and `CustodyNeedsConsent` are
stated for ledgers without such a record.

### Bounds

All bounds are constants of the configurations: the sets of ids, `Cents` and
`MaxMoneyCents`; `Slots`; `MaxDamage`; `MaxSessions`, `MaxHeight` and `Calls`; and
the theme bounds `OneNumber`, one project in `DirectorySlice`, and two sessions in
the themes of the page that have no operations. Nothing else is cut off.

* Two amounts with a limit of 2 let a claim fit, exhaust or exceed what is
  left; 0 exercises the refusal of empty amounts. Three claims over two invoices
  make room for a withdrawal followed by a new claim on the same invoice while a
  third claim competes for the balance.
* Two projects and two invoices suffice for a claim, a link or a void to meet the
  wrong partner: no operation reads three of either. The settlement scan ranges
  over claims, of which there are three.
* Three records of two numbers allow a correction of a correction beside an
  unrelated record. Two records of one number are what custody distinguishes.
* Two organizations, a team and its parent, are what manager scope and organization
  comparison distinguish; both MSPs are always available to callers. `rest` has a
  third id that an administrator may take.
* Two slots: a conflict is between the transaction that commits and one that was
  endorsed before; a third would be overtaken by each in the same way. The
  initial states of `fabric` are a project that is executing or whose closure was
  approved, and its invoices, what the operations before lead to; those run from
  nothing in the other runs. In *team* one demo name may register, as a member of
  the project's organization; other additions to the directory touch no key that a
  pending transaction read. The same holds for the list theme of `rest`.
* One invoice and one claim in `rest`: visibility and roles are decided per
  record. Seven users cover every role and organization that the decision
  distinguishes.
* Three calls: a load that counts, one that no longer does, and the log-in or
  operation that changes the session between them; two sessions tell what is
  left of the first in the second, a third is needed only for operations.
* Three requests fill as many generations as the account file, its backup and the
  save under way hold; three damages can hit both files and one of them again
  after a repair. For concurrent registrations three requests over four names
  both compete and pass each other.

`SYMMETRY` permutes model values that no definition tells apart; all properties
of runs with symmetry are invariants or step properties, for which the reduction
is sound, and the run with a liveness property has none. `VIEW`s hide `evidence`,
`served` and similar values that every step writes and no step reads; the
properties about them read their new values only, and TLC evaluates step
properties on every transition, before states are identified. `PageView` also
keeps of an older session only that it is older, which is all the page compares.

`CHECK_DEADLOCK FALSE` is set because each of these systems may legitimately
stop: all ids used and every project archived, all requests answered, no file
that loads, or a page after its last session.

**Fairness.** None is assumed of the contract, its transactions or the page, and
no liveness property is stated of them. Nothing in the code schedules a user: a
pending review may stay pending for ever, and a call may never be answered.
`RegistrationSpec` assumes weak fairness of each handler: a goroutine
that can take a step does, be it that a gateway time-out ends its wait. Nothing is
assumed of users, of the ledger, of restarts or of faults. Weak fairness is enough
for the lock because the requests of an instance are finitely many; Go's mutex
does not starve a waiter either.

## 4. What is proved

All theorems hold for arbitrary sets and amounts. The assumptions are
`NoneAssumption` (the empty string is no id), `MoneyAssumption` (amounts are
naturals) and `DirectoryAssumption` (provisioned records are records) for the
ledger; `RegisteredAssumption` for the handlers (a provisioned user's organization is
on the provisioned ledger: lines 888–938 refuse a user of any other, and no
operation removes an organization); `CurrencyAssumption` (CNY is a currency) for
transactions under way; `NamesAssumption`, `RequestsAssumption` and
`DamageAssumption` for the account store; `PageAssumption`, `BoundsAssumption` and `KeysAssumption` (no
operation of a form has the key of log-in or log-out) for the page.

**The contract** (`Spec`).

* `TypeCorrect` (`TypeOK`): balances are naturals, so none goes below zero.
  Inductive by itself, because reviews and payments compare before they subtract.
* `BudgetIsConserved`: inductive together with `TypeOK`; reserving, releasing,
  paying and archiving keep the sum `available + reserved + paid + recovered`,
  closure approval sets it to the budget, and the budget is not edited afterwards.
* `InvoicesAreClaimedOnce` (`OneClaimPerInvoice`): `ClaimInv` adds that a recorded
  claim names an invoice: the withdrawal frees the link key of the invoice its
  claim names, and this must be the key that names the claim.
* `LiveClaimsRestOnInvoices` (`ClaimsRestOnInvoices`): `RestInv` adds `ClaimInv`;
  voids, links and unlinks are held off by the link key.
* `VoidedInvoicesAreFrozen`: no invariant is needed, every operation on an invoice
  looks at its status, through whichever helper.
* `NumbersAreUnique` (`OneValidRecordPerNumber`): `NumberInv` adds that recorded
  invoices bear numbers; a creation finds the index free, a correction the
  original voided and no other record of the number, and no operation revives one.
* `CorrectionsAreOfVoided`, `ApprovedRequestsVoid`: from `NumberInv`, or `TypeOK`,
  and the fact that what is voided stays as it is.
* `CustodyMovesByConsent` and `PendingTransfersAreOfHolders`: `CustodyInv` says that a
  pending request is of a recorded invoice, and of its holder on a ledger
  without holders. Such a ledger never had a holder, because a user's record is
  never removed or changed (`UsersStay`).
* `MembersAreOfTheProject`: `MemberInv` adds `TeamsKnown`, that projects name an
  organization, so that the test of AddProjectMember that lets anyone into a
  project without one is never used.
* `SettlementsAreFinal`, `EvidenceIsComplete`: step properties, by cases on the
  operations with lemmas on what each balance operation leaves alone.
* `NobodyReviewsTheirOwn`: `ReviewInv` adds `MemberInv` and that applicants of claims
  are members: a member has a ledger record of a member's role, and whoever reviews has
  one of a reviewer's role or none, so that a registration under a demo
  reviewer's name ends his reviews before he can apply.
* `LinkedInvoicesAreOfTheProject`: links are made to projects that passed their
  review, which keep MSP and organization for ever.
* `BalancesMatchClaims` (`BalancesAreBacked`): the sum of the claims of a status is the
  number of their cents (`ClaimedCents`, pairs of a claim and one of its cents), so
  that opening, settling or withdrawing a claim adds or takes a set of known
  size and no induction over the set of claims is needed. `MoneyInv` adds `ClaimInv`,
  `BudgetConserved`, that the sums are finite, and that a claim names a project and a
  positive amount as soon as it exists, and not before.
* `ApprovedMoneyCanReturn` (`BalanceChecksNeverRefuse`): from `MoneyInv`, one approved
  claim is at most their sum, the reserve, and conservation bounds the rest.
* `ArchivedProjectsAreSettled` (`ArchivedIsSettled`): archiving looks at every claim, an
  archived project is not open for another, and `BalancesMatchClaims` excludes an
  approved one from a project with nothing reserved.

**The handlers** (`RestSpec`).

* `HandlersUseTheChaincode` (`RestSpec => Spec`): each route calls one operation with
  arguments of the model, because `AccountInv` says that an account is the demo
  account of its name, or that of a registered user whose record it repeats. All
  theorems on the contract therefore hold behind the handlers; `ServedRequestsVoid` is
  one of them.
* `NobodyActsInTheDark` (`ActorsSeeWhatTheyTouch`): a user with a role is one of four kinds
  of reader (`Readers`), who see everything, what is of their MSP, what they hold, or
  what is of their organization. A route for reviewers, finance or administrators is
  for the first; a member of a project is of its MSP and organization
  (`MemberInv`) and sees it with all that is linked to it; issuers see what their
  MSP issued. `HolderInv` is needed for cancelling: the custody fields of an invoice
  repeat the account of its holder, who was logged in when he put it on record or
  accepted it. A direct transfer has no route; it could name a holder without an account.
* `ListsAreTrueToTheirTime` (`ListsAreOfTheirTime`): organizations, and the MSP and
  organization of a project, never change once they are there (`OrgsKnown`,
  `SightStays`), so that the three queries together show what the user saw of the
  listed records at the block of the first; `ListInv` says that what he saw throughout
  and they do not show is offered to him still, or was answered meanwhile.

**Transactions under way** (`FabricSpec`).

* `ValidTransactionsAreAtomic` (`CommitsAreAtomic`). Each operation is described a second
  time as a *run* (`Runs`): on a ledger `w`, with the keys `known` read, it passes its
  guards, wants `writes` and leaves its evidence. A run names the reads that its guards
  need, so that a guard on a key that was not read could not be stated.
  1. `...Agrees`, `RunsAgree`: of two ledgers that agree on the keys read (`Agree`: the
     same value where there was one, nothing where there was none) a run of one
     is a run of the other, with the same writes. This is where the scans are needed: that
     no record of a number, or no open claim of a project, exists is known of the keys in
     the range, those of later records included.
  2. `...Prepared`: what the peer endorses is a run whose reads are those of the model
     (`CreationReads` and so on), for the contract's own actions.
  3. `FabInv` says of each transaction under way that it comes from a run on some ledger, and
     that the committed ledger still has what it found, unless it was overtaken; what was
     absent is compared at validation. Endorsement makes it so, commits and
     administration keep it by the marks they set, and `EndorsementsAgree` is this invariant.
  4. `...Is`, `RunsAreSteps`, `StepOnChain`: a run whose writes are put is the contract's
     action on the ledger it meets. The writes that an endorsement leaves out because
     they changed nothing are sure (`Sure`): such a key was read and found, so that its
     value is still the same.
* `ConcurrentClaims`, `ConcurrentNumbers`, `ConcurrentSettlement`: each commit being a
  step of the contract, its inductive invariants (`RestInv`, `NumberInv`, `MemberInv`,
  `MoneyInv`, `ArchivedIsSettled`) hold of the committed ledger (`CommittedInv`), where
  `MoneyInv` carries the balances.

**The account store and registration.**

* `StoreTypeCorrect`: inductive by itself. `BackupIsPreserved`: with `BackupInv`,
  what is on its way to become the backup decodes.
* `CrashesAreAtomic`: `CrashSpec => DiskIsAtomic`, the refinement of
  `AtomicAccounts` with `stored` mapped to the accounts a start would load. `DiskInv`
  says that the account file is whole, or missing with no backup; that the map
  is the disk plus the account being saved; and that the temporary file holds the
  map when it is renamed. Then only the last rename changes the disk.
  `CrashesLeaveLoadableFiles` follows from the same invariant.
* `RegistrationsUseTheStore`: every step of a registration is one of the account
  store or leaves it alone. `AccountsBelongToUsers` and `RegistrationTypeCorrect`:
  `MatchInv` follows the request from its transaction to its account: a valid
  transaction is the ledger's user of its name, a registered, storing or
  acknowledged request has one, and the generation a save copies matches as well.
* `NobodyIsLeftOnTheChain` (`ChainOnlyNeedsTrouble`): `SmoothInv` adds that, before any
  trouble, no demo name was sent, whatever was sent is being waited for, and a
  valid transaction has a waiting handler or an account; with `MatchInv` the
  second look at the name under the lock then never refuses.
* `DamageCostsOneEach` (`LossIsBounded`): `LossInv` bounds by the number of damages what
  the map, the account file and the backup each lack of the acknowledged accounts; the
  backup may lack one more as long as a usable account file stands before it, and
  not once a save has gone past it.

**The page** (`Spec` of `WebClient`; both rest on the type invariant `PageTypeOK`).

* `OperationsAreNotRepeated`: `OperationInv`, before any operation outlived its
  session every operation on its way holds its key, and no two the same.
* `ListsGoForward`: `AgeInv`, the load that counts, once processed, saw a ledger no
  older than the list shown. A load that begins to count is not yet processed, and
  an answer is taken from the load that counts alone.
* `OffersFollowTheSession` and `ListsFollowTheUser`: `SessionInv` says of the loads of this
  session that they were sent with the cookie of its user, and of each list that it is
  his, or that a load that replaces it is on its way or counted on by the search
  timer, or that its failure is marked.

**Only model-checked.** Liveness (`RequestsAreAnswered`): fairness and `ENABLED` are out
of the prover's reach. `FabInv` itself was not given to TLC, since it quantifies over all
ledgers that a transaction may have been endorsed on; the properties it carries are
those of the run `fabric`.

## 5. Plan

Done: the contract and its theorems; the account store with its refinement;
registration; transactions under way, proved to be atomic; the REST handlers and who can read what;
the page, its sessions and its calls.

Left:

1. `FabricValidation` for drafting, review and membership: these come between other
   transactions already, but nothing comes between their own endorsement and validation.
2. Backup and restore (`scripts/backup-chain-state.sh`, `restore-chain-state.sh`):
   three volumes archived one after the other, perhaps of a running network, and
   restored one after the other, each into an empty volume only, so that a restore
   that was cut short cannot be run again; and a ledger restored to an earlier
   height beside a newer account file.
3. The detail dialog of the page, which compares neither session nor request.

## 6. Not modelled

* Queries of flows, events and history, and `VerifyInvoice`: they change nothing,
  and no modelled rule reads them.
* Texts, dates, hashes and their format checks; JSON encoding errors; timestamps.
  No rule about the modelled state depends on them. The money limit
  `maxMoneyCents` is a constant; the sum in `checkedAddMoney` is checked for
  64-bit overflow before it is formed and the balances stay below the budget, so
  widths do not show.
* Ledgers with records of earlier versions other than directory records.
* The token map of the sessions (a token is random and names one session), the
  connection cache of the gateway client, the read routes other than the list of
  invoices, rendering and form contents of the page.
* OCR (`backend/ocr/service.go`) runs an external program over an upload, keeps no
  state and never reaches the ledger by itself. The operations scripts are shell
  around Fabric's and Docker's tools.
* Writes that an operating system loses in a power failure: nothing is synced, and
  which of them survive is not in the code.
* `src/invoice-ledger-组员部署包`, `src/链证项目管理与发票报销系统-作业提交源码包`:
  copies of the same project for hand-in and deployment. `src/lab1` to
  `src/lab7`: course material. The vendored go-ethereum of `src/lab4` alone is most
  of the repository's lines and no part of this system, so that the lines the
  modules stand for are a small share of the repository, and a large one of
  `src/project/invoice-ledger`.
