-------------------------- MODULE FabricValidation --------------------------
(***************************************************************************)
(* How a transaction of the settlement phase really takes effect.  A peer  *)
(* runs the chaincode on the committed ledger and sends back what it read  *)
(* and wrote; the gateway submits that, and the peers validate it against  *)
(* whatever the ledger has become by then.  Several are under way at once, *)
(* are validated in any order, late, or never, and a user who saw a        *)
(* time-out may send the same request again.                               *)
(*                                                                         *)
(* The variables of the contract hold what the peer sees while it runs the *)
(* chaincode; `committed' is the ledger.  The contract's own actions are   *)
(* the chaincode; what is added to each is the keys it reads.              *)
(***************************************************************************)
EXTENDS InvoiceContract, Sequences

CONSTANT Slots  \* bounds the transactions under way at once

\* What the requests that are modelled name.
ASSUME CurrencyAssumption == "CNY" \in Currencies

VARIABLES
    committed,  \* the world state, a family of keys per field
    simulating, \* the peer has just run the chaincode
    pending     \* endorsed transactions that are not validated yet

fabricVars == <<vars, committed, simulating, pending>>

----------------------------------------------------------------------------
(* A key is <<family, id>>; each member of a project has a key.            *)

World ==
    [organization |-> organization, user |-> user, project |-> project,
     member |-> [pu \in Projects \X Users |-> pu[2] \in member[pu[1]]],
     invoice |-> invoice, numberIndex |-> numberIndex,
     voidRequest |-> voidRequest, transfer |-> transfer,
     reimbursement |-> reimbursement,
     reimbursementInvoice |-> reimbursementInvoice]

Keys ==
    ({"organization"} \X Orgs) \cup ({"user"} \X Users) \cup ({"project"} \X Projects)
      \cup ({"member"} \X (Projects \X Users))
      \cup ({"invoice", "voidRequest", "transfer", "reimbursementInvoice"} \X Invoices)
      \cup ({"numberIndex"} \X Numbers) \cup ({"reimbursement"} \X Reimbursements)

Value(world, key) == world[key[1]][key[2]]

Present(world, key) ==
    CASE key[1] = "member" -> Value(world, key)
      [] key[1] \in {"numberIndex", "reimbursementInvoice"} -> Value(world, key) # None
      [] OTHER -> Value(world, key).status # "ABSENT"

Put(world, writes) ==
    [family \in DOMAIN world |->
        [id \in DOMAIN world[family] |->
            IF <<family, id>> \in DOMAIN writes
            THEN writes[<<family, id>>] ELSE world[family][id]]]

ChangedKeys(old, new) == {key \in Keys : Value(new, key) # Value(old, key)}

\* The committed ledger as the contract describes it.  Evidence has keys of
\* its own per transaction and takes part in no conflict.
Chain == INSTANCE InvoiceContract WITH
    organization <- committed.organization, user <- committed.user,
    project <- committed.project,
    member <- [p \in Projects |-> {u \in Users : committed.member[<<p, u>>]}],
    invoice <- committed.invoice, numberIndex <- committed.numberIndex,
    voidRequest <- committed.voidRequest, transfer <- committed.transfer,
    reimbursement <- committed.reimbursement,
    reimbursementInvoice <- committed.reimbursementInvoice

----------------------------------------------------------------------------
(* The keys that the chaincode gets, or scans, before it writes.           *)

Key(family, id) == {<<family, id>>}

\* GetStateByRange over a family reports absent keys too: a key that appears
\* in the range before validation is a conflict.
ScanOf(family) == {family} \X DOMAIN World[family]

\* requireProjectMember: the list is consulted for others than the applicant.
MemberReads(p, u) ==
    Key("project", p) \cup Key("user", u)
      \cup IF u = project[p].applicant THEN {} ELSE Key("member", <<p, u>>)

\* requireProjectManager: the project's organization for a manager from above.
ManagerReads(p, u) ==
    Key("project", p) \cup Key("user", u)
      \cup IF UserExists(u) /\ user[u].org # project[p].org
           THEN Key("organization", project[p].org) ELSE {}

\* Fault: the link is looked up by a query, which validation does not repeat.
LinkUnread(i) == {}

LinkReads(i) == Key("reimbursementInvoice", i)

\* Fault: other records of the number are found by a query.
CreationReadsUnscanned(i, no, u, p, original) ==
    Key("invoice", i) \cup Key("user", u) \cup IF p = None THEN {} ELSE MemberReads(p, u)

\* Both number checks end in the scan unless they refuse.
CreationReads(i, no, u, p, original) ==
    Key("invoice", i) \cup Key("numberIndex", no) \cup Key("user", u)
      \cup ScanOf("invoice")
      \cup (IF p = None THEN {} ELSE MemberReads(p, u))
      \cup (IF original = None THEN {} ELSE LinkReads(original))

AssociationReads(i, p, u) == Key("invoice", i) \cup LinkReads(i) \cup MemberReads(p, u)

VoidReads(i, u) == Key("invoice", i) \cup Key("user", u) \cup LinkReads(i)

VoidRequestReads(i, u) ==
    AssociationReads(i, invoice[i].project, u) \cup Key("voidRequest", i)

VoidReviewReads(i, decision, u) ==
    Key("invoice", i) \cup Key("voidRequest", i) \cup Key("user", u)
      \cup IF decision = "APPROVE" THEN LinkReads(i) ELSE {}

TransferReads(i, to, u) ==
    Key("invoice", i) \cup Key("transfer", i) \cup Key("user", u) \cup Key("user", to)

\* A rejection does not read the invoice.
AnswerReads(i, decision, u) ==
    Key("transfer", i) \cup Key("user", u)
      \cup IF decision = "ACCEPT" THEN Key("invoice", i) ELSE {}

ClaimReads(r, p, i, u) ==
    Key("reimbursement", r) \cup Key("invoice", i) \cup LinkReads(i) \cup MemberReads(p, u)

ReviewReads(r, u) ==
    Key("reimbursement", r) \cup ManagerReads(reimbursement[r].project, u)
      \cup Key("invoice", reimbursement[r].invoice)

ApplicantReads(r, u) ==
    Key("reimbursement", r) \cup MemberReads(reimbursement[r].project, u)

\* Fault: the claims of the project come from a query, not from a scan.
SettlementReadsUnscanned(p, u) == ManagerReads(p, u)

SettlementReads(p, u) == ManagerReads(p, u) \cup ScanOf("reimbursement")

----------------------------------------------------------------------------
(* The life of a transaction.                                              *)

\* External: the gateway collects an endorsement: the reads with what the
\* peer found, and the writes, none of which takes effect.
Endorsed(t, reads) ==
    /\ ~simulating
    /\ pending[t] = <<>>
    /\ simulating' = TRUE
    /\ \E old \in {World}, new \in {World'} :
          LET present == {key \in reads : Present(old, key)}
          IN  pending' = [pending EXCEPT ![t] =
                <<[present |-> present, absent |-> reads \ present,
                   writes |-> [key \in ChangedKeys(old, new) |-> Value(new, key)],
                   evidence |-> evidence', overtaken |-> FALSE]>>]
    /\ UNCHANGED committed

\* The next simulation runs on the ledger given.
PeerSees(world) ==
    /\ organization' = world.organization
    /\ user' = world.user
    /\ project' = world.project
    /\ member' = [p \in Projects |-> {u \in Users : world.member[<<p, u>>]}]
    /\ invoice' = world.invoice
    /\ numberIndex' = world.numberIndex
    /\ voidRequest' = world.voidRequest
    /\ transfer' = world.transfer
    /\ reimbursement' = world.reimbursement
    /\ reimbursementInvoice' = world.reimbursementInvoice

\* The peer forgets what the simulation wrote.
EndSimulation ==
    /\ simulating
    /\ simulating' = FALSE
    /\ PeerSees(committed)
    /\ evidence' = NoEvidence
    /\ UNCHANGED <<committed, pending>>

\* Fault: only the keys that were there are validated.
UnchangedWhereItWas(tx) == ~tx.overtaken

\* External: every key read still has the version it had, none if absent.
Unchanged(tx) ==
    /\ ~tx.overtaken
    /\ \A key \in tx.absent : ~Present(committed, key)

\* A write gives its key a new version; a deletion leaves it without one.
Overtake(tx, written) == [tx EXCEPT !.overtaken = @ \/ tx.present \cap written # {}]

\* External: the transaction is in a block and valid.
Commit(t) ==
    /\ ~simulating
    /\ pending[t] # <<>>
    /\ LET tx == pending[t][1]
       IN  /\ Unchanged(tx)
           /\ committed' = Put(committed, tx.writes)
           /\ pending' = [other \in Slots |->
                            IF other = t \/ pending[other] = <<>> THEN <<>>
                            ELSE <<Overtake(pending[other][1], DOMAIN tx.writes)>>]
    /\ PeerSees(committed')
    /\ evidence' = pending[t][1].evidence
    /\ UNCHANGED simulating

\* External: a transaction of the directory or of a project's own life takes
\* effect.  Nothing comes between its endorsement and its validation, but it
\* comes between those of others.
Administration ==
    /\ ~simulating
    /\ DirectoryNext \/ ProjectNext
    /\ committed' = World'
    /\ \E old \in {World}, new \in {World'} :
          pending' = [t \in Slots |->
                        IF pending[t] = <<>> THEN <<>>
                        ELSE <<Overtake(pending[t][1], ChangedKeys(old, new))>>]
    /\ UNCHANGED simulating

\* External: it is in a block and invalid, or never ordered.  The client
\* learns of the former, and of a time-out in the latter case.
Dropped(t) ==
    /\ ~simulating
    /\ pending[t] # <<>>
    /\ pending' = [pending EXCEPT ![t] = <<>>]
    /\ UNCHANGED <<vars, committed, simulating>>

----------------------------------------------------------------------------
(* The requests of the settlement phase.                                   *)

EndorseCreation(t) ==
    \E i \in Invoices, u \in Users, caller \in MSPs, no \in Numbers, total \in Cents,
       p \in Projects \cup {None}, original \in Invoices \cup {None} :
        /\ CreateInvoice(i, no, total, "CNY", u, None, p, original, caller)
        /\ Endorsed(t, CreationReads(i, no, u, p, original))

EndorseAssociation(t) ==
    \E i \in Invoices, u \in Users, caller \in MSPs :
        \/ \E p \in Projects : /\ LinkInvoiceToProject(i, p, u, caller)
                               /\ Endorsed(t, AssociationReads(i, p, u))
        \/ /\ UnlinkInvoiceFromProject(i, u, caller)
           /\ Endorsed(t, AssociationReads(i, invoice[i].project, u))

EndorseVoid(t) ==
    \E i \in Invoices, u \in Users, caller \in MSPs :
        \/ /\ VoidInvoice(i, u, caller)
           /\ Endorsed(t, VoidReads(i, u))
        \/ /\ RequestInvoiceVoid(i, u, caller)
           /\ Endorsed(t, VoidRequestReads(i, u))
        \/ \E decision \in {"APPROVE", "REJECT"} :
              /\ ReviewInvoiceVoid(i, decision, u, caller)
              /\ Endorsed(t, VoidReviewReads(i, decision, u))

EndorseTransfer(t) ==
    \E i \in Invoices, u \in Users, caller \in MSPs :
        \/ \E to \in Users, toMsp \in MSPs :
              /\ RequestInvoiceTransfer(i, to, toMsp, u, caller)
              /\ Endorsed(t, TransferReads(i, to, u))
        \/ \E decision \in {"ACCEPT", "REJECT"} :
              /\ RespondInvoiceTransfer(i, decision, u, caller)
              /\ Endorsed(t, AnswerReads(i, decision, u))
        \/ /\ CancelInvoiceTransfer(i, u)
           /\ Endorsed(t, Key("transfer", i) \cup Key("invoice", i))

EndorseClaim(t) ==
    \E r \in Reimbursements, u \in Users, caller \in MSPs :
        \/ \E p \in Projects, i \in Invoices :
              /\ CreateReimbursement(r, p, i, u, caller)
              /\ Endorsed(t, ClaimReads(r, p, i, u))
        \/ /\ ResubmitReimbursement(r, u, caller) \/ WithdrawReimbursement(r, u, caller)
           /\ Endorsed(t, ApplicantReads(r, u))

EndorseReview(t) ==
    \E r \in Reimbursements, u \in Users, caller \in MSPs :
        /\ \/ \E decision \in {"APPROVE", "REVISION"} :
                 ReviewReimbursement(r, decision, u, caller)
           \/ PayReimbursement(r, u, caller)
        /\ Endorsed(t, ReviewReads(r, u))

EndorseSettlement(t) ==
    \E p \in Projects, u \in Users, caller \in MSPs :
        /\ FinalizeProjectSettlement(p, u, caller)
        /\ Endorsed(t, SettlementReads(p, u))

FabricInit ==
    /\ Init
    /\ committed = World
    /\ simulating = FALSE
    /\ pending = [t \in Slots |-> <<>>]

FabricNext ==
    \/ EndSimulation
    \/ Administration
    \/ \E t \in Slots :
        \/ EndorseCreation(t) \/ EndorseAssociation(t) \/ EndorseVoid(t)
        \/ EndorseTransfer(t) \/ EndorseClaim(t) \/ EndorseReview(t)
        \/ EndorseSettlement(t) \/ Commit(t) \/ Dropped(t)

FabricSpec == FabricInit /\ [][FabricNext]_fabricVars

----------------------------------------------------------------------------
(* Every transaction that is found valid acts on the ledger of that moment *)
(* as the contract would have, had it run then, whatever happened between  *)
(* endorsement and validation: what the chaincode reads is enough to       *)
(* detect that its writes are stale (all operations of the phase).         *)
CommitsAreAtomic == [][committed' # committed => Chain!Next]_committed

(* Two claims endorsed on one invoice, a claim against a void, a retry     *)
(* against a late first attempt: never are two claims live on one invoice, *)
(* nor one on an invoice that is voided or has left the project            *)
(* (CreateReimbursement, VoidInvoice, UnlinkInvoiceFromProject).           *)
ConcurrentClaimsAreSafe == Chain!OneClaimPerInvoice /\ Chain!ClaimsRestOnInvoices

(* Two creations of a number endorsed before either commits: one fails     *)
(* (InvoiceNumberExists).                                                  *)
ConcurrentNumbersAreUnique == Chain!OneValidRecordPerNumber

(* A project is archived only with all its claims settled, although a      *)
(* claim endorsed before may be validated after it                         *)
(* (FinalizeProjectSettlement, GetAllReimbursements).                      *)
SettlementLeavesNoClaim == Chain!ArchivedIsSettled /\ Chain!BalancesAreBacked
============================================================================
