------------------------ MODULE InvoiceRecordProofs ------------------------
(***************************************************************************)
(* Invoice records, their cancellation and their custody, for every value  *)
(* of the constants.                                                       *)
(***************************************************************************)
EXTENDS InvoiceContractProofs

----------------------------------------------------------------------------
(* What a transaction can do to invoice records: nothing, put one on       *)
(* record, or change one that is valid in what is not its identity.        *)

Continues(old, new) ==
  /\ new.status \in {"ISSUED", "IN_CIRCULATION", "VOIDED"}
  /\ new.number = old.number /\ new.issuerMsp = old.issuerMsp
  /\ new.correctionOf = old.correctionOf

Recorded(i, no, original) ==
  \E total \in Cents, currency \in Currencies, u \in Users, org \in Orgs \cup {None},
     p \in Projects \cup {None}, caller \in MSPs :
      CreateInvoice(i, no, total, currency, u, org, p, original, caller)

Changed(i) ==
  /\ NotVoided(i) /\ UNCHANGED numberIndex
  /\ \E inv \in Invoice : Continues(invoice[i], inv) /\ invoice' = [invoice EXCEPT ![i] = inv]

LEMMA RecordStep ==
  ASSUME TypeOK, TypeOK', [Next]_vars
  PROVE  \/ UNCHANGED invoiceVars
         \/ \E i \in Invoices, no \in Numbers, original \in Invoices \cup {None} :
               Recorded(i, no, original)
         \/ \E i \in Invoices : Changed(i)
<1>0. invoice \in [Invoices -> Invoice] /\ invoice' \in [Invoices -> Invoice]
  BY DEF TypeOK
<1>a. ASSUME NEW i \in Invoices, NEW inv, NotVoided(i), UNCHANGED numberIndex,
             invoice' = [invoice EXCEPT ![i] = inv], Continues(invoice[i], inv)
      PROVE  Changed(i)
  <2>1. inv \in Invoice
    BY <1>0, <1>a
  <2> QED BY <1>a, <2>1 DEF Changed
<1>b. ASSUME NEW i \in Invoices, NotVoided(i)
      PROVE  invoice[i] \in Invoice /\ invoice[i].status \in {"ISSUED", "IN_CIRCULATION"}
  BY <1>0, <1>b DEF NotVoided, InvoiceExists, Invoice
<1>1. CASE InvoiceNext
  <2> SUFFICES ASSUME NEW i \in Invoices, NEW u \in Users, NEW caller \in MSPs,
                      ~\E no \in Numbers, original \in Invoices \cup {None} :
                          Recorded(i, no, original),
                      \/ \E p \in Projects : LinkInvoiceToProject(i, p, u, caller)
                      \/ UnlinkInvoiceFromProject(i, u, caller)
               PROVE  Changed(i)
    BY <1>1 DEF InvoiceNext, Recorded
  <2>1. NotVoided(i) /\ UNCHANGED numberIndex
    BY DEF LinkInvoiceToProject, UnlinkInvoiceFromProject, Separable
  <2>2. PICK p \in Projects \cup {None} : invoice' = [invoice EXCEPT ![i].project = p]
    BY DEF LinkInvoiceToProject, UnlinkInvoiceFromProject
  <2>3. DEFINE inv == [invoice[i] EXCEPT !.project = p]
  <2>4. Continues(invoice[i], inv)
    BY <1>b, <2>1 DEF Continues, Invoice
  <2>5. invoice' = [invoice EXCEPT ![i] = inv]
    BY <2>2
  <2> HIDE DEF inv
  <2> QED BY <1>a, <2>1, <2>4, <2>5
<1>2. CASE VoidNext
  <2> SUFFICES ASSUME NEW i \in Invoices, NEW u \in Users, NEW caller \in MSPs,
                      \/ VoidInvoice(i, u, caller)
                      \/ RequestInvoiceVoid(i, u, caller)
                      \/ \E decision \in {"APPROVE", "REJECT"} :
                            ReviewInvoiceVoid(i, decision, u, caller),
                      ~UNCHANGED invoiceVars
               PROVE  Changed(i)
    BY <1>2 DEF VoidNext
  <2>1. /\ NotVoided(i) /\ UNCHANGED numberIndex
        /\ invoice' = [invoice EXCEPT ![i].status = "VOIDED"]
    BY DEF VoidInvoice, RequestInvoiceVoid, ReviewInvoiceVoid, invoiceVars
  <2> DEFINE inv == [invoice[i] EXCEPT !.status = "VOIDED"]
  <2>2. Continues(invoice[i], inv)
    BY <1>b, <2>1 DEF Continues, Invoice
  <2>3. invoice' = [invoice EXCEPT ![i] = inv]
    BY <2>1
  <2> HIDE DEF inv
  <2> QED BY <1>a, <2>1, <2>2, <2>3
<1>3. CASE TransferNext
  <2> SUFFICES ASSUME NEW i \in Invoices, NEW u \in Users,
                      \/ \E to \in Users, toMsp, caller \in MSPs :
                            TransferInvoice(i, to, toMsp, u, caller)
                      \/ \E to \in Users, toMsp, caller \in MSPs :
                            RequestInvoiceTransfer(i, to, toMsp, u, caller)
                      \/ \E decision \in {"ACCEPT", "REJECT"}, caller \in MSPs :
                            RespondInvoiceTransfer(i, decision, u, caller)
                      \/ CancelInvoiceTransfer(i, u),
                      ~UNCHANGED invoiceVars
               PROVE  Changed(i)
    BY <1>3 DEF TransferNext
  <2>1. UNCHANGED numberIndex
    BY DEF TransferInvoice, RequestInvoiceTransfer, RespondInvoiceTransfer,
           CancelInvoiceTransfer, TransferFrame
  <2>2. NotVoided(i) /\ \E to, msp : invoice' = [invoice EXCEPT ![i] = HandedTo(invoice[i], to, msp)]
    BY <2>1 DEF TransferInvoice, RequestInvoiceTransfer, RespondInvoiceTransfer,
                CancelInvoiceTransfer, StillAvailable, invoiceVars
  <2>3. \A to, msp : Continues(invoice[i], HandedTo(invoice[i], to, msp))
    BY <1>b, <2>2 DEF Continues, HandedTo, Invoice
  <2> QED BY <1>a, <2>1, <2>2, <2>3
<1>4. CASE DirectoryNext \/ ProjectNext \/ ReimbursementNext \/ UNCHANGED vars
  <2>1. DirectoryNext => UNCHANGED invoiceVars
    BY DEF DirectoryNext, RegisterBusinessUser, CreateBusinessOrganization
  <2>2. ProjectNext => UNCHANGED invoiceVars
    BY ProjectFrames DEF ProjectFrame
  <2>3. ReimbursementNext => UNCHANGED invoiceVars
    BY DEF ReimbursementNext, CreateReimbursement, ReviewReimbursement, ResubmitReimbursement,
           WithdrawReimbursement, PayReimbursement, ReimbursementFrame
  <2> QED BY <1>4, <2>1, <2>2, <2>3 DEF vars, invoiceVars
<1> QED BY <1>1, <1>2, <1>3, <1>4 DEF Next

\* What putting on record comes down to for the records and the index.
LEMMA RecordedFacts ==
  ASSUME TypeOK, NEW i \in Invoices, NEW no \in Numbers, NEW original \in Invoices \cup {None},
         Recorded(i, no, original)
  PROVE  /\ ~InvoiceExists(i)
         /\ invoice'[i].status = "ISSUED" /\ invoice'[i].number = no
         /\ invoice'[i].correctionOf = original
         /\ \A j \in Invoices \ {i} : invoice'[j] = invoice[j]
         /\ numberIndex' = [numberIndex EXCEPT ![no] = i]
         /\ original = None => ~InvoiceNumberExists(no)
         /\ original # None =>
              /\ invoice[original].status = "VOIDED" /\ invoice[original].number = no
              /\ invoice[original].issuerMsp = invoice'[i].issuerMsp
              /\ ~InvoiceNumberExistsExcept(no, original)
<1>0. invoice \in [Invoices -> Invoice]
  BY DEF TypeOK
<1> QED BY <1>0 DEF Recorded, CreateInvoice, Corrects

\* A voided record never changes again.
LEMMA Frozen ==
  ASSUME TypeOK, TypeOK', [Next]_vars, NEW j \in Invoices, InvoiceExists(j)
  PROVE  /\ InvoiceExists(j)'
         /\ invoice'[j].number = invoice[j].number
         /\ invoice'[j].issuerMsp = invoice[j].issuerMsp
         /\ invoice'[j].correctionOf = invoice[j].correctionOf
         /\ ~NotVoided(j) => invoice'[j] = invoice[j]
<1>0. invoice \in [Invoices -> Invoice]
  BY DEF TypeOK
<1>1. CASE UNCHANGED invoiceVars
  BY <1>1 DEF invoiceVars, InvoiceExists
<1>2. ASSUME NEW i \in Invoices, NEW no \in Numbers, NEW original \in Invoices \cup {None},
             Recorded(i, no, original)
      PROVE  invoice'[j] = invoice[j]
  <2>1. i # j
    BY <1>2, RecordedFacts
  <2> QED BY <1>2, <2>1, RecordedFacts
<1>3. ASSUME NEW i \in Invoices, Changed(i)
      PROVE  /\ i # j => invoice'[j] = invoice[j]
             /\ i = j => Continues(invoice[j], invoice'[j]) /\ NotVoided(j)
  BY <1>0, <1>3 DEF Changed
<1>4. \/ invoice'[j] = invoice[j]
      \/ Continues(invoice[j], invoice'[j]) /\ NotVoided(j)
  BY <1>1, <1>2, <1>3, RecordStep DEF invoiceVars
<1> QED BY <1>4 DEF Continues, InvoiceExists

\* No transaction changes anything of an invoice that is voided: neither an
\* answer to a transfer or a void request that is older, nor a link.
THEOREM VoidedInvoicesAreFrozen == Spec => VoidedIsFrozen
<1>1. TypeOK /\ TypeOK' /\ [Next]_vars =>
        [\A i \in Invoices : invoice[i].status = "VOIDED" => invoice'[i] = invoice[i]]_vars
  BY Frozen DEF InvoiceExists, NotVoided
<1> QED BY <1>1, TypeCorrect, PTL DEF Spec, VoidedIsFrozen

----------------------------------------------------------------------------
(* One valid record per number.  The number of a record is one, so that    *)
(* the index of it is defined.                                             *)

NumbersKnown == \A i \in Invoices : InvoiceExists(i) => invoice[i].number \in Numbers

NumberInv == TypeOK /\ NumbersKnown /\ OneValidRecordPerNumber

\* A new record becomes the one its index names: no other record of the
\* number is valid, whether it is the first or a correction.
LEMMA NumberRecorded ==
  ASSUME NumberInv, TypeOK', NEW i \in Invoices, NEW no \in Numbers,
         NEW original \in Invoices \cup {None}, Recorded(i, no, original)
  PROVE  NumberInv'
<1>0. /\ TypeOK /\ NumbersKnown /\ OneValidRecordPerNumber
      /\ numberIndex \in [Numbers -> Invoices \cup {None}] /\ i # None
  BY NoneAssumption DEF NumberInv, TypeOK
<1>1. /\ ~InvoiceExists(i)
      /\ invoice'[i].status = "ISSUED" /\ invoice'[i].number = no
      /\ \A j \in Invoices \ {i} : invoice'[j] = invoice[j]
      /\ numberIndex'[no] = i
      /\ \A m \in Numbers \ {no} : numberIndex'[m] = numberIndex[m]
  BY <1>0, RecordedFacts
<1>2. ASSUME NEW j \in Invoices \ {i}, InvoiceExists(j), invoice[j].number = no
      PROVE  ~NotVoided(j)
  <2>1. j = original
    BY <1>0, <1>2, RecordedFacts DEF InvoiceNumberExists, InvoiceNumberExistsExcept
  <2>2. original # None
    BY <2>1, NoneAssumption
  <2> QED BY <1>0, <2>1, <2>2, RecordedFacts DEF NotVoided
<1>3. NumbersKnown'
  BY <1>0, <1>1 DEF NumbersKnown, InvoiceExists
<1>4. ASSUME NEW j \in Invoices, InvoiceExists(j)'
      PROVE  /\ numberIndex'[invoice'[j].number] # None
             /\ NotVoided(j)' => numberIndex'[invoice'[j].number] = j
  <2>1. CASE j = i
    BY <1>0, <1>1, <2>1
  <2>2. CASE j # i
    <3>1. /\ InvoiceExists(j) /\ invoice'[j] = invoice[j] /\ invoice[j].number \in Numbers
          /\ NotVoided(j)' => NotVoided(j)
      BY <1>0, <1>1, <1>4, <2>2 DEF InvoiceExists, NotVoided, NumbersKnown
    <3>2. CASE invoice[j].number = no
      BY <1>0, <1>1, <1>2, <2>2, <3>1, <3>2
    <3>3. CASE invoice[j].number # no
      BY <1>0, <1>1, <3>1, <3>3 DEF OneValidRecordPerNumber
    <3> QED BY <3>2, <3>3
  <2> QED BY <2>1, <2>2
<1>5. ASSUME NEW m \in Numbers, numberIndex'[m] # None
      PROVE  /\ invoice'[numberIndex'[m]].status # "ABSENT"
             /\ invoice'[numberIndex'[m]].number = m
  <2>1. CASE m = no
    BY <1>1, <2>1 DEF InvoiceExists
  <2>2. CASE m # no
    <3>1. /\ numberIndex'[m] = numberIndex[m] /\ numberIndex[m] \in Invoices
          /\ InvoiceExists(numberIndex[m]) /\ invoice[numberIndex[m]].number = m
      BY <1>0, <1>1, <1>5, <2>2 DEF OneValidRecordPerNumber
    <3>2. numberIndex[m] # i
      BY <1>1, <3>1
    <3> QED BY <1>1, <3>1, <3>2 DEF InvoiceExists
  <2> QED BY <2>1, <2>2
<1>6. OneValidRecordPerNumber'
  BY <1>4, <1>5 DEF OneValidRecordPerNumber, InvoiceExists
<1> QED BY <1>3, <1>6 DEF NumberInv

\* A record that changes keeps its number, and is the valid one of it.
LEMMA NumberChanged ==
  ASSUME NumberInv, TypeOK', NEW i \in Invoices, Changed(i)
  PROVE  NumberInv'
<1>0. /\ NumbersKnown /\ OneValidRecordPerNumber /\ numberIndex' = numberIndex
      /\ invoice \in [Invoices -> Invoice]
      /\ numberIndex \in [Numbers -> Invoices \cup {None}]
  BY DEF NumberInv, TypeOK, Changed
<1>1. /\ NotVoided(i) /\ Continues(invoice[i], invoice'[i])
      /\ \A j \in Invoices \ {i} : invoice'[j] = invoice[j]
  BY <1>0 DEF Changed
<1>2. ASSUME NEW j \in Invoices
      PROVE  /\ InvoiceExists(j)' <=> InvoiceExists(j)
             /\ invoice'[j].number = invoice[j].number
             /\ NotVoided(j)' => NotVoided(j)
  BY <1>1 DEF Continues, InvoiceExists, NotVoided
<1> QED BY <1>0, <1>2 DEF NumberInv, NumbersKnown, OneValidRecordPerNumber

LEMMA NumberStep == NumberInv /\ [Next]_vars => NumberInv'
<1> SUFFICES ASSUME NumberInv, [Next]_vars PROVE NumberInv'
  OBVIOUS
<1>1. TypeOK /\ TypeOK'
  BY TypeStep DEF NumberInv
<1>2. CASE UNCHANGED invoiceVars
  BY <1>1, <1>2 DEF NumberInv, NumbersKnown, OneValidRecordPerNumber, InvoiceExists, NotVoided,
                    invoiceVars
<1> QED BY <1>1, <1>2, RecordStep, NumberRecorded, NumberChanged

\* Among the records of a number only the one its index names is valid,
\* through any chain of voids and corrections.
THEOREM NumbersAreUnique == Spec => []OneValidRecordPerNumber
<1>1. Init => NumberInv
  BY TypeInit DEF Init, NumberInv, NumbersKnown, OneValidRecordPerNumber, InvoiceExists,
                  AbsentInvoice
<1>2. NumberInv => OneValidRecordPerNumber
  BY DEF NumberInv
<1> QED BY <1>1, <1>2, NumberStep, PTL DEF Spec

----------------------------------------------------------------------------
(* Corrections.                                                            *)

LEMMA CorrectionStep ==
  ASSUME TypeOK, TypeOK', CorrectionsReplaceVoided, [Next]_vars
  PROVE  CorrectionsReplaceVoided'
<1>0. invoice \in [Invoices -> Invoice]
  BY DEF TypeOK
<1> SUFFICES ASSUME NEW j \in Invoices, InvoiceExists(j)', invoice'[j].correctionOf # None
             PROVE  LET original == invoice'[invoice'[j].correctionOf]
                    IN  /\ original.status = "VOIDED"
                        /\ original.number = invoice'[j].number
                        /\ original.issuerMsp = invoice'[j].issuerMsp
  BY DEF CorrectionsReplaceVoided
<1>1. invoice'[j].correctionOf \in Invoices
  BY DEF TypeOK, Invoice
<1>2. CASE InvoiceExists(j)
  <2> DEFINE o == invoice[j].correctionOf
  <2>1. /\ invoice'[j].correctionOf = o /\ invoice'[j].number = invoice[j].number
        /\ invoice'[j].issuerMsp = invoice[j].issuerMsp
    BY <1>2, Frozen
  <2>2. /\ invoice[o].status = "VOIDED" /\ invoice[o].number = invoice[j].number
        /\ invoice[o].issuerMsp = invoice[j].issuerMsp
    BY <1>1, <1>2, <2>1 DEF CorrectionsReplaceVoided
  <2>3. invoice'[o] = invoice[o]
    BY <1>1, <2>1, <2>2, Frozen DEF InvoiceExists, NotVoided
  <2> QED BY <2>1, <2>2, <2>3
<1>3. CASE ~InvoiceExists(j)
  <2>1. PICK no \in Numbers, original \in Invoices \cup {None} : Recorded(j, no, original)
    <3>1. ~UNCHANGED invoiceVars
      BY <1>3 DEF InvoiceExists, invoiceVars
    <3>2. ASSUME NEW i \in Invoices, Changed(i) PROVE FALSE
      <4>1. NotVoided(i) /\ i # j /\ invoice'[j] = invoice[j]
        BY <1>0, <1>3, <3>2 DEF Changed, NotVoided
      <4> QED BY <1>3, <4>1 DEF InvoiceExists
    <3>3. ASSUME NEW i \in Invoices, NEW no \in Numbers, NEW original \in Invoices \cup {None},
                 Recorded(i, no, original)
          PROVE  i = j
      BY <1>3, <3>3, RecordedFacts DEF InvoiceExists
    <3> QED BY <3>1, <3>2, <3>3, RecordStep
  <2>2. /\ invoice'[j].correctionOf = original /\ invoice'[j].number = no
        /\ invoice[original].status = "VOIDED" /\ invoice[original].number = no
        /\ invoice[original].issuerMsp = invoice'[j].issuerMsp
    BY <2>1, RecordedFacts
  <2>3. invoice'[original] = invoice[original]
    BY <1>1, <2>2, Frozen DEF InvoiceExists, NotVoided
  <2> QED BY <2>2, <2>3
<1> QED BY <1>2, <1>3

\* A correction names a voided record of its own number and MSP for ever.
THEOREM CorrectionsAreOfVoided == Spec => []CorrectionsReplaceVoided
<1>1. Init => CorrectionsReplaceVoided
  BY DEF Init, CorrectionsReplaceVoided, InvoiceExists, AbsentInvoice
<1>2. TypeOK /\ TypeOK' /\ CorrectionsReplaceVoided /\ [Next]_vars => CorrectionsReplaceVoided'
  BY CorrectionStep
<1> QED BY <1>1, <1>2, TypeCorrect, PTL DEF Spec

----------------------------------------------------------------------------
(* Void requests.                                                          *)

\* A request becomes approved with the void of its invoice, or was before.
LEMMA ApprovalVoids ==
  ASSUME TypeOK, [Next]_vars, NEW j \in Invoices, voidRequest'[j].status = "APPROVED"
  PROVE  voidRequest[j].status = "APPROVED" \/ invoice'[j].status = "VOIDED"
<1>0. /\ invoice \in [Invoices -> Invoice]
      /\ voidRequest \in [Invoices -> InvoiceVoidRequest]
  BY DEF TypeOK
<1>1. CASE UNCHANGED voidRequest
  BY <1>1
<1>2. CASE VoidNext
  <2> SUFFICES ASSUME NEW i \in Invoices, NEW u \in Users, NEW caller \in MSPs,
                      \/ VoidInvoice(i, u, caller)
                      \/ RequestInvoiceVoid(i, u, caller)
                      \/ \E decision \in {"APPROVE", "REJECT"} :
                            ReviewInvoiceVoid(i, decision, u, caller)
               PROVE  voidRequest[j].status = "APPROVED" \/ invoice'[j].status = "VOIDED"
    BY <1>2 DEF VoidNext
  <2>1. CASE VoidInvoice(i, u, caller)
    BY <1>1, <2>1 DEF VoidInvoice
  <2>2. CASE RequestInvoiceVoid(i, u, caller)
    BY <1>0, <2>2 DEF RequestInvoiceVoid
  <2>3. ASSUME NEW decision \in {"APPROVE", "REJECT"}, ReviewInvoiceVoid(i, decision, u, caller)
        PROVE  voidRequest[j].status = "APPROVED" \/ invoice'[j].status = "VOIDED"
    <3>1. \/ voidRequest' = [voidRequest EXCEPT ![i].status = "REJECTED"]
          \/ /\ voidRequest' = [voidRequest EXCEPT ![i].status = "APPROVED"]
             /\ invoice' = [invoice EXCEPT ![i].status = "VOIDED"]
      BY <2>3 DEF ReviewInvoiceVoid
    <3>2. j # i => voidRequest'[j] = voidRequest[j]
      BY <1>0, <3>1
    <3>3. j = i => invoice'[j].status = "VOIDED"
      BY <1>0, <3>1 DEF Invoice, InvoiceVoidRequest
    <3> QED BY <3>2, <3>3
  <2> QED BY <2>1, <2>2, <2>3
<1>3. CASE DirectoryNext \/ ProjectNext \/ InvoiceNext \/ TransferNext \/ ReimbursementNext
  <2>1. DirectoryNext => UNCHANGED voidRequest
    BY DEF DirectoryNext, RegisterBusinessUser, CreateBusinessOrganization
  <2>2. ProjectNext => UNCHANGED voidRequest
    BY ProjectFrames DEF ProjectFrame
  <2>3. InvoiceNext => UNCHANGED voidRequest
    BY DEF InvoiceNext, CreateInvoice, LinkInvoiceToProject, UnlinkInvoiceFromProject
  <2>4. TransferNext => UNCHANGED voidRequest
    BY DEF TransferNext, TransferInvoice, RequestInvoiceTransfer, RespondInvoiceTransfer,
           CancelInvoiceTransfer, TransferFrame
  <2>5. ReimbursementNext => UNCHANGED voidRequest
    BY DEF ReimbursementNext, CreateReimbursement, ReviewReimbursement, ResubmitReimbursement,
           WithdrawReimbursement, PayReimbursement, ReimbursementFrame
  <2> QED BY <1>1, <1>3, <2>1, <2>2, <2>3, <2>4, <2>5
<1> QED BY <1>1, <1>2, <1>3 DEF Next, vars

\* An approved void request is for ever the request of a voided invoice.
THEOREM ApprovedRequestsVoid == Spec => []ApprovedVoidIsVoided
<1>1. Init => ApprovedVoidIsVoided
  BY DEF Init, ApprovedVoidIsVoided
<1>2. TypeOK /\ TypeOK' /\ ApprovedVoidIsVoided /\ [Next]_vars => ApprovedVoidIsVoided'
  <2> SUFFICES ASSUME TypeOK, TypeOK', ApprovedVoidIsVoided, [Next]_vars,
                      NEW j \in Invoices, voidRequest'[j].status = "APPROVED"
               PROVE  invoice'[j].status = "VOIDED"
    BY DEF ApprovedVoidIsVoided
  <2>1. CASE voidRequest[j].status = "APPROVED"
    BY <2>1, Frozen DEF ApprovedVoidIsVoided, InvoiceExists, NotVoided
  <2> QED BY <2>1, ApprovalVoids
<1> QED BY <1>1, <1>2, TypeCorrect, PTL DEF Spec

----------------------------------------------------------------------------
(* Custody.  The properties speak of ledgers without registered holders.   *)
(* What is inductive speaks of users that are on the ledger: registration  *)
(* grants no holder's role and changes no user, so that a ledger without a *)
(* holder never had one.                                                   *)

NoHolder == \A u \in Users : UserExists(u) => user[u].role # "HOLDER"

LEMMA UsersStay ==
  ASSUME TypeOK, [Next]_vars, NEW u \in Users, UserExists(u) PROVE user'[u] = user[u]
<1>1. CASE UNCHANGED user
  BY <1>1
<1>2. CASE DirectoryNext
  <2>1. user \in [Users -> BusinessUser]
    BY DEF TypeOK
  <2>2. CASE \E o \in Orgs, type \in {"PRIMARY", "PROJECT_TEAM", "EXTERNAL"},
                parent \in Orgs \cup {None}, creator \in Users, caller \in MSPs :
              CreateBusinessOrganization(o, type, parent, creator, caller)
    BY <2>2 DEF CreateBusinessOrganization
  <2>3. CASE \E v \in Users, o \in Orgs, caller, msp \in MSPs :
               RegisterBusinessUser(v, msp, o, caller)
    BY <2>1, <2>3 DEF RegisterBusinessUser
  <2> QED BY <1>2, <2>2, <2>3 DEF DirectoryNext
<1>3. CASE ProjectNext \/ InvoiceNext \/ VoidNext \/ TransferNext \/ ReimbursementNext
  <2>1. ProjectNext => UNCHANGED user
    BY ProjectFrames DEF ProjectFrame, directoryVars
  <2>2. InvoiceNext => UNCHANGED user
    BY DEF InvoiceNext, CreateInvoice, LinkInvoiceToProject, UnlinkInvoiceFromProject, directoryVars
  <2>3. VoidNext => UNCHANGED user
    BY DEF VoidNext, VoidInvoice, RequestInvoiceVoid, ReviewInvoiceVoid, directoryVars
  <2>4. TransferNext => UNCHANGED user
    BY DEF TransferNext, TransferInvoice, RequestInvoiceTransfer, RespondInvoiceTransfer,
           CancelInvoiceTransfer, TransferFrame, directoryVars
  <2>5. ReimbursementNext => UNCHANGED user
    BY DEF ReimbursementNext, CreateReimbursement, ReviewReimbursement, ResubmitReimbursement,
           WithdrawReimbursement, PayReimbursement, ReimbursementFrame, directoryVars
  <2> QED BY <1>1, <1>3, <2>1, <2>2, <2>3, <2>4, <2>5
<1> QED BY <1>1, <1>2, <1>3 DEF Next, vars

LEMMA HoldersStay ==
  ASSUME TypeOK, [Next]_vars, NoHolder' PROVE NoHolder
  BY UsersStay DEF NoHolder, UserExists

\* How custody of an invoice on record passes on such a ledger: its pending
\* transfer is accepted.
Accepted(i) ==
  /\ NotVoided(i) /\ transfer[i].status = "PENDING" /\ transfer'[i].status = "ACCEPTED"
  /\ transfer[i].from = invoice[i].holder /\ transfer[i].to = invoice'[i].holder

LEMMA HolderStep ==
  ASSUME TypeOK, NoHolder, [Next]_vars, NEW j \in Invoices, InvoiceExists(j)
  PROVE  invoice'[j].holder = invoice[j].holder \/ Accepted(j)
<1>0. /\ invoice \in [Invoices -> Invoice] /\ invoice[j] \in Invoice
      /\ transfer \in [Invoices -> InvoiceTransfer]
  BY DEF TypeOK
<1>1. CASE UNCHANGED invoice
  BY <1>1
<1>2. CASE InvoiceNext
  <2> SUFFICES ASSUME NEW i \in Invoices, NEW u \in Users, NEW caller \in MSPs,
                    \/ \E no \in Numbers, total \in Cents, currency \in Currencies,
                          org \in Orgs \cup {None}, p \in Projects \cup {None},
                          original \in Invoices \cup {None} :
                          CreateInvoice(i, no, total, currency, u, org, p, original, caller)
                    \/ \E p \in Projects : LinkInvoiceToProject(i, p, u, caller)
                    \/ UnlinkInvoiceFromProject(i, u, caller)
               PROVE  invoice'[j].holder = invoice[j].holder
    BY <1>2 DEF InvoiceNext
  <2>1. CASE i # j
    BY <1>0, <2>1 DEF CreateInvoice, LinkInvoiceToProject, UnlinkInvoiceFromProject
  <2>2. CASE i = j
    <3>1. \E p \in Projects \cup {None} : invoice' = [invoice EXCEPT ![j].project = p]
      BY <2>2 DEF CreateInvoice, LinkInvoiceToProject, UnlinkInvoiceFromProject
    <3> QED BY <1>0, <3>1 DEF Invoice
  <2> QED BY <2>1, <2>2
<1>3. CASE VoidNext
  <2>1. UNCHANGED invoice \/ \E i \in Invoices : invoice' = [invoice EXCEPT ![i].status = "VOIDED"]
    BY <1>3 DEF VoidNext, VoidInvoice, RequestInvoiceVoid, ReviewInvoiceVoid, invoiceVars
  <2> QED BY <1>0, <2>1 DEF Invoice
<1>4. CASE TransferNext
  <2> SUFFICES ASSUME NEW i \in Invoices, NEW u \in Users,
                      \/ \E to \in Users, toMsp, caller \in MSPs :
                            TransferInvoice(i, to, toMsp, u, caller)
                      \/ \E to \in Users, toMsp, caller \in MSPs :
                            RequestInvoiceTransfer(i, to, toMsp, u, caller)
                      \/ \E decision \in {"ACCEPT", "REJECT"}, caller \in MSPs :
                            RespondInvoiceTransfer(i, decision, u, caller)
                      \/ CancelInvoiceTransfer(i, u),
                      ~UNCHANGED invoice
               PROVE  invoice'[j].holder = invoice[j].holder \/ Accepted(j)
    BY <1>1, <1>4 DEF TransferNext
  <2>1. ~\E to \in Users, toMsp, caller \in MSPs : TransferInvoice(i, to, toMsp, u, caller)
    BY DEF TransferInvoice, RequireActiveHolder, NoHolder, UserExists
  <2>2. PICK msp : /\ transfer[i].status = "PENDING" /\ u = transfer[i].to
                   /\ invoice[i].holder = transfer[i].from /\ NotVoided(i)
                   /\ invoice' = [invoice EXCEPT ![i] = HandedTo(invoice[i], u, msp)]
                   /\ transfer' = [transfer EXCEPT ![i].status = "ACCEPTED"]
    BY <2>1 DEF RequestInvoiceTransfer, RespondInvoiceTransfer, CancelInvoiceTransfer,
                StillAvailable
  <2>3. CASE i # j
    BY <1>0, <2>2, <2>3
  <2>4. CASE i = j
    <3>1. invoice'[j].holder = u
      BY <1>0, <2>2, <2>4 DEF HandedTo, Invoice
    <3>2. transfer'[j].status = "ACCEPTED"
      BY <1>0, <2>2, <2>4 DEF InvoiceTransfer
    <3> QED BY <2>2, <2>4, <3>1, <3>2 DEF Accepted
  <2> QED BY <2>3, <2>4
<1>5. CASE DirectoryNext \/ ProjectNext \/ ReimbursementNext
  <2>1. ReimbursementNext => UNCHANGED invoice
    BY DEF ReimbursementNext, CreateReimbursement, ReviewReimbursement, ResubmitReimbursement,
           WithdrawReimbursement, PayReimbursement, ReimbursementFrame, invoiceVars
  <2> QED BY <1>1, <1>5, <2>1, InvoicesUntouched
<1> QED BY <1>1, <1>2, <1>3, <1>4, <1>5 DEF Next, vars

\* Without a registered holder an invoice changes hands only when whom its
\* holder offered it accepts, and never after it was voided.
THEOREM CustodyMovesByConsent == Spec => CustodyNeedsConsent
<1>1. NoRegisteredHolder => NoHolder
  BY DEF NoRegisteredHolder, NoHolder
<1>2. TypeOK /\ [Next]_vars =>
        [NoRegisteredHolder =>
           \A i \in Invoices :
               InvoiceExists(i) /\ invoice'[i].holder # invoice[i].holder =>
                   /\ NotVoided(i)
                   /\ transfer[i].status = "PENDING" /\ transfer'[i].status = "ACCEPTED"
                   /\ transfer[i].from = invoice[i].holder
                   /\ transfer[i].to = invoice'[i].holder]_vars
  BY <1>1, HolderStep DEF Accepted
<1> QED BY <1>2, TypeCorrect, PTL DEF Spec, CustodyNeedsConsent

\* A request that is pending was, or has just been, made by the holder.
LEMMA RequestStep ==
  ASSUME TypeOK, [Next]_vars, NEW j \in Invoices, transfer'[j].status = "PENDING"
  PROVE  \/ transfer'[j] = transfer[j]
         \/ /\ NotVoided(j) /\ UNCHANGED invoice
            /\ transfer'[j].from = invoice[j].holder
<1>0. transfer \in [Invoices -> InvoiceTransfer]
  BY DEF TypeOK
<1>1. CASE UNCHANGED transfer
  BY <1>1
<1>2. CASE TransferNext
  <2> SUFFICES ASSUME NEW i \in Invoices, NEW u \in Users,
                      \/ \E to \in Users, toMsp, caller \in MSPs :
                            TransferInvoice(i, to, toMsp, u, caller)
                      \/ \E to \in Users, toMsp, caller \in MSPs :
                            RequestInvoiceTransfer(i, to, toMsp, u, caller)
                      \/ \E decision \in {"ACCEPT", "REJECT"}, caller \in MSPs :
                            RespondInvoiceTransfer(i, decision, u, caller)
                      \/ CancelInvoiceTransfer(i, u)
               PROVE  \/ transfer'[j] = transfer[j]
                      \/ /\ NotVoided(j) /\ UNCHANGED invoice
                         /\ transfer'[j].from = invoice[j].holder
    BY <1>2 DEF TransferNext
  <2>1. ASSUME NEW to \in Users, NEW toMsp \in MSPs, NEW caller \in MSPs,
               RequestInvoiceTransfer(i, to, toMsp, u, caller)
        PROVE  \/ transfer'[j] = transfer[j]
               \/ /\ NotVoided(j) /\ UNCHANGED invoice
                  /\ transfer'[j].from = invoice[j].holder
    <3>1. i # j => transfer'[j] = transfer[j]
      BY <1>0, <2>1 DEF RequestInvoiceTransfer
    <3>2. i = j => transfer'[j].from = invoice[j].holder
      BY <1>0, <2>1 DEF RequestInvoiceTransfer
    <3> QED BY <2>1, <3>1, <3>2 DEF RequestInvoiceTransfer
  <2>2. ASSUME NEW status \in {"ACCEPTED", "REJECTED", "CANCELLED"},
               transfer' = [transfer EXCEPT ![i].status = status]
        PROVE  transfer'[j] = transfer[j]
    <3>1. i # j
      BY <1>0, <2>2 DEF InvoiceTransfer
    <3> QED BY <1>0, <2>2, <3>1
  <2>3. ASSUME NEW to \in Users, NEW toMsp \in MSPs, NEW caller \in MSPs,
               TransferInvoice(i, to, toMsp, u, caller)
        PROVE  transfer'[j] = transfer[j]
    BY <2>3 DEF TransferInvoice
  <2>4. ASSUME NEW decision \in {"ACCEPT", "REJECT"}, NEW caller \in MSPs,
               RespondInvoiceTransfer(i, decision, u, caller)
        PROVE  transfer'[j] = transfer[j]
    BY <2>2, <2>4 DEF RespondInvoiceTransfer
  <2>5. CASE CancelInvoiceTransfer(i, u)
    BY <2>2, <2>5 DEF CancelInvoiceTransfer
  <2> QED BY <2>1, <2>3, <2>4, <2>5
<1>3. CASE DirectoryNext \/ ProjectNext \/ InvoiceNext \/ VoidNext \/ ReimbursementNext
  <2>1. DirectoryNext => UNCHANGED transfer
    BY DEF DirectoryNext, RegisterBusinessUser, CreateBusinessOrganization
  <2>2. ProjectNext => UNCHANGED transfer
    BY ProjectFrames DEF ProjectFrame
  <2>3. InvoiceNext => UNCHANGED transfer
    BY DEF InvoiceNext, CreateInvoice, LinkInvoiceToProject, UnlinkInvoiceFromProject
  <2>4. VoidNext => UNCHANGED transfer
    BY DEF VoidNext, VoidInvoice, RequestInvoiceVoid, ReviewInvoiceVoid
  <2>5. ReimbursementNext => UNCHANGED transfer
    BY DEF ReimbursementNext, CreateReimbursement, ReviewReimbursement, ResubmitReimbursement,
           WithdrawReimbursement, PayReimbursement, ReimbursementFrame
  <2> QED BY <1>1, <1>3, <2>1, <2>2, <2>3, <2>4, <2>5
<1> QED BY <1>1, <1>2, <1>3 DEF Next, vars

\* A pending request is of an invoice on record, whoever holds it by now; and
\* of the holder, if there is no registered holder.
CustodyInv ==
  \A i \in Invoices :
      transfer[i].status = "PENDING" =>
          InvoiceExists(i) /\ (NoHolder => invoice[i].holder = transfer[i].from)

LEMMA CustodyStep == TypeOK /\ TypeOK' /\ CustodyInv /\ [Next]_vars => CustodyInv'
<1> SUFFICES ASSUME TypeOK, TypeOK', CustodyInv, [Next]_vars,
                    NEW j \in Invoices, transfer'[j].status = "PENDING"
             PROVE  InvoiceExists(j)' /\ (NoHolder' => invoice'[j].holder = transfer'[j].from)
  BY DEF CustodyInv
<1>1. CASE transfer'[j] = transfer[j]
  <2>1. InvoiceExists(j) /\ (NoHolder => invoice[j].holder = transfer[j].from)
    BY <1>1 DEF CustodyInv
  <2>2. NoHolder' => invoice'[j].holder = invoice[j].holder
    BY <1>1, <2>1, HoldersStay, HolderStep DEF Accepted
  <2> QED BY <1>1, <2>1, <2>2, Frozen, HoldersStay
<1>2. CASE NotVoided(j) /\ UNCHANGED invoice /\ transfer'[j].from = invoice[j].holder
  BY <1>2 DEF NotVoided, InvoiceExists
<1> QED BY <1>1, <1>2, RequestStep

\* On such a ledger a pending transfer is one its present holder asked for.
THEOREM PendingTransfersAreOfHolders == Spec => []PendingTransferIsFromHolder
<1>1. Init => CustodyInv
  BY DEF Init, CustodyInv
<1>2. CustodyInv => PendingTransferIsFromHolder
  BY DEF CustodyInv, PendingTransferIsFromHolder, NoHolder, NoRegisteredHolder
<1> QED BY <1>1, <1>2, CustodyStep, TypeCorrect, PTL DEF Spec
=============================================================================
