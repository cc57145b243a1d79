------------------------- MODULE MCFabricValidation -------------------------
(***************************************************************************)
(* Instances of the ledger with transactions under way for TLC.  Behaviours *)
(* start in the settlement phase and stay with one of four themes, so      *)
(* that each can afford the ids it needs.                                  *)
(***************************************************************************)
EXTENDS FabricValidation, MCLedger, TLC

CONSTANTS p1, i1, i2, n1, n2

VARIABLE theme

\* ann's project after the approval of its closure, and an invoice of hers:
\* what CreateProject to ReviewProjectClosure and CreateInvoice lead to.
SettledProject ==
    [AbsentProject EXCEPT !.status = "FINANCIAL_SETTLEMENT", !.applicant = "ann",
        !.msp = "Org1MSP", !.org = Home, !.reviewer = "project-reviewer",
        !.budget = MaxMoneyCents, !.available = MaxMoneyCents]

RecordedInvoice(no) ==
    [AbsentInvoice EXCEPT !.status = "ISSUED", !.number = no, !.total = 1,
        !.currency = "CNY", !.issuerMsp = "Org1MSP", !.issuerOrg = Home,
        !.holder = "ann", !.holderMsp = "Org1MSP", !.holderOrg = Home, !.project = p1]

\* The same project before its closure is asked for.
ExecutingProject == [SettledProject EXCEPT !.status = "EXECUTING", !.available = 0]

Start(pr, numbers) ==
    /\ organization = ProvisionedOrgs
    /\ user = ProvisionedUsers
    /\ project = [p \in Projects |-> IF p = p1 THEN pr ELSE AbsentProject]
    /\ member = [p \in Projects |-> IF p = p1 THEN {"ann"} ELSE {}]
    /\ invoice = [i \in Invoices |-> IF i \in DOMAIN numbers
                                     THEN RecordedInvoice(numbers[i]) ELSE AbsentInvoice]
    /\ numberIndex = [no \in Numbers |->
                        IF \E i \in DOMAIN numbers : numbers[i] = no
                        THEN CHOOSE i \in DOMAIN numbers : numbers[i] = no ELSE None]
    /\ voidRequest = [i \in Invoices |-> [status |-> "ABSENT", applicant |-> None]]
    /\ transfer = [i \in Invoices |->
                     [status |-> "ABSENT", from |-> None, to |-> None, toMsp |-> None]]
    /\ reimbursement = [r \in Reimbursements |-> AbsentReimbursement]
    /\ reimbursementInvoice = [i \in Invoices |-> None]
    /\ evidence = NoEvidence
    /\ committed = World
    /\ simulating = FALSE
    /\ pending = [t \in Slots |-> <<>>]

ThemesInit ==
    \/ theme = "claims" /\ Start(SettledProject, (i1 :> n1) @@ (i2 :> n2))
    \/ theme = "numbers" /\ Start(SettledProject, <<>>)
    \/ theme = "invoice" /\ Start(SettledProject, i1 :> n1)
    \/ theme = "team" /\ Start(ExecutingProject, i1 :> n1)

ThemesNext ==
    /\ UNCHANGED theme
    /\ \/ EndSimulation
       \/ /\ theme = "team"
          /\ Administration
          /\ user' \in {user, [user EXCEPT !["issuer-org1"] = Member(Home, "Org1MSP")]}
       \/ \E t \in Slots :
           \/ Commit(t) \/ Dropped(t)
           \/ /\ theme = "claims"
              /\ EndorseClaim(t) \/ EndorseReview(t) \/ EndorseSettlement(t)
           \/ /\ theme = "numbers"
              /\ EndorseCreation(t) \/ EndorseVoid(t)
           \/ /\ theme = "invoice"
              /\ EndorseAssociation(t) \/ EndorseVoid(t) \/ EndorseTransfer(t)
                 \/ EndorseClaim(t)
           \/ /\ theme = "team"
              /\ EndorseAssociation(t) \/ EndorseVoid(t) \/ EndorseClaim(t)

ThemesSpec == ThemesInit /\ [][ThemesNext]_<<fabricVars, theme>>

\* Evidence is left out for the same reason as in Ledger.
FabricView == <<World, committed, simulating, pending, theme>>

FabricSymmetry == Permutations(Reimbursements) \cup Permutations(Slots)
============================================================================
