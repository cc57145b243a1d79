---------------------------- MODULE Registration ----------------------------
(***************************************************************************)
(* registerUser: one HTTP request puts a business user on the ledger and   *)
(* then stores the login account.  Requests run concurrently, share the    *)
(* account store and the names, and wait for a ledger that answers late,   *)
(* or not at all.                                                          *)
(*                                                                         *)
(* The ledger keeps of RegisterBusinessUser (DirectoryContract) what       *)
(* concerns names: a user is the request that registered it.               *)
(***************************************************************************)
EXTENDS AccountStore

VARIABLES
    request,     \* where each handler is, and the name it registers
    ledger,      \* USER#name, the request whose transaction put it
    transaction, \* what became of the transaction of a request
    troubled     \* history: a time-out, I/O error, damage or crash happened

registerVars == <<request, ledger, transaction, troubled>>
vars == <<storeVars, registerVars>>

\* validated: the name was free.  submitted: waiting for the commit status.
\* registered: on the ledger, waiting for the lock.  storing: holds the lock.
Phases == {"new", "validated", "submitted", "registered", "storing", "done", "failed"}
Running == {"validated", "submitted", "registered", "storing"}

RegistrationTypeOK ==
    /\ StoreTypeOK
    /\ request \in [Requests -> [phase : Phases, name : Names \cup {None}]]
    /\ ledger \in [Names -> Requests \cup {None}]
    /\ transaction \in [Requests -> {"none", "ordered", "valid", "invalid"}]
    /\ troubled \in BOOLEAN

RegistrationInit ==
    /\ StoreInit
    /\ request = [q \in Requests |-> [phase |-> "new", name |-> None]]
    /\ ledger = [n \in Names |-> None]
    /\ transaction = [q \in Requests |-> "none"]
    /\ troubled = FALSE

NameOf(q) == request[q].name
GoesTo(q, from, to) ==
    /\ request[q].phase = from
    /\ request' = [request EXCEPT ![q].phase = to]

----------------------------------------------------------------------------
(* The handler.                                                            *)

\* Fault: only the accounts that were stored are looked up.
ValidateStored(q, n) ==
    /\ request[q].phase = "new"
    /\ Free
    /\ request' = [request EXCEPT ![q] =
                     [phase |-> IF accounts[n] # None THEN "failed" ELSE "validated", name |-> n]]
    /\ UNCHANGED <<storeVars, ledger, transaction, troubled>>

\* ValidateRegistration reads the account map, which takes the lock.
Validate(q, n) ==
    /\ request[q].phase = "new"
    /\ Free
    /\ request' = [request EXCEPT ![q] =
                     [phase |-> IF Taken(n) THEN "failed" ELSE "validated", name |-> n]]
    /\ UNCHANGED <<storeVars, ledger, transaction, troubled>>

\* The organization cannot be read, or endorsing fails for want of a peer.
GiveUp(q) ==
    /\ GoesTo(q, "validated", "failed")
    /\ UNCHANGED <<storeVars, ledger, transaction, troubled>>

\* SubmitTransaction: the chaincode runs on the state of now; if it refuses,
\* nothing is sent.
Submit(q) ==
    /\ request[q].phase = "validated"
    /\ IF ledger[NameOf(q)] = None
       THEN GoesTo(q, "validated", "submitted") /\ transaction' = [transaction EXCEPT ![q] = "ordered"]
       ELSE GoesTo(q, "validated", "failed") /\ UNCHANGED transaction
    /\ UNCHANGED <<storeVars, ledger, troubled>>

CommitStatus(q) ==
    /\ \/ transaction[q] = "valid" /\ GoesTo(q, "submitted", "registered")
       \/ transaction[q] = "invalid" /\ GoesTo(q, "submitted", "failed")
    /\ UNCHANGED <<storeVars, ledger, transaction, troubled>>

\* The time-outs of the gateway: the transaction may still commit.
TimeOut(q) ==
    /\ GoesTo(q, "submitted", "failed")
    /\ troubled' = TRUE
    /\ UNCHANGED <<storeVars, ledger, transaction>>

\* Fault: the map is written without the lock.
StoreUnlocked(q) ==
    /\ GoesTo(q, "registered", "storing")
    /\ accounts' = [accounts EXCEPT ![NameOf(q)] = q]
    /\ saving' = [Unlocked EXCEPT !.at = "read", !.name = NameOf(q), !.request = q]
    /\ UNCHANGED <<up, file, acknowledged, damage, ledger, transaction, troubled>>

\* RegisterAccount checks the name again under the lock.
StoreAccount(q) ==
    /\ request[q].phase = "registered"
    /\ Free
    /\ IF Taken(NameOf(q))
       THEN GoesTo(q, "registered", "failed") /\ UNCHANGED storeVars
       ELSE GoesTo(q, "registered", "storing") /\ RegisterAccount(NameOf(q), q)
    /\ UNCHANGED <<ledger, transaction, troubled>>

SaveGoesOn(q) ==
    /\ saving.request = q
    /\ ReadPrevious \/ CreateBackup \/ FillBackup \/ RenameBackup \/ CreateTemporary \/ FillTemporary
    /\ UNCHANGED registerVars

\* The user is answered with a session.
Stored(q) ==
    /\ saving.request = q
    /\ RenameTemporary
    /\ GoesTo(q, "storing", "done")
    /\ UNCHANGED <<ledger, transaction, troubled>>

NotStored(q) ==
    /\ saving.request = q
    /\ SaveFails
    /\ GoesTo(q, "storing", "failed")
    /\ troubled' = TRUE
    /\ UNCHANGED <<ledger, transaction>>

----------------------------------------------------------------------------
(* External: the ledger and the process.                                   *)

\* Fault: the read of the absent key is not validated.
CommitUnvalidated(q) ==
    /\ transaction[q] = "ordered"
    /\ ledger' = [ledger EXCEPT ![NameOf(q)] = q]
    /\ transaction' = [transaction EXCEPT ![q] = "valid"]
    /\ UNCHANGED <<storeVars, request, troubled>>

\* Validation of an ordered transaction against its read of an absent key.
Commit(q) ==
    /\ transaction[q] = "ordered"
    /\ IF ledger[NameOf(q)] = None
       THEN /\ ledger' = [ledger EXCEPT ![NameOf(q)] = q]
            /\ transaction' = [transaction EXCEPT ![q] = "valid"]
       ELSE /\ transaction' = [transaction EXCEPT ![q] = "invalid"]
            /\ UNCHANGED ledger
    /\ UNCHANGED <<storeVars, request, troubled>>

\* All handlers die with the process; what they sent is out of its hands.
ServiceCrash ==
    /\ Crash
    /\ request' = [q \in Requests |->
                     IF request[q].phase \in Running
                     THEN [request[q] EXCEPT !.phase = "failed"] ELSE request[q]]
    /\ troubled' = TRUE
    /\ UNCHANGED <<ledger, transaction>>

ServiceStart == Start /\ UNCHANGED registerVars

FilesDamaged ==
    /\ DamageNext
    /\ troubled' = TRUE
    /\ UNCHANGED <<request, ledger, transaction>>

----------------------------------------------------------------------------
HandlerNext(q) ==
    \/ GiveUp(q) \/ Submit(q) \/ CommitStatus(q) \/ TimeOut(q)
    \/ StoreAccount(q) \/ SaveGoesOn(q) \/ Stored(q) \/ NotStored(q)

RegistrationNext ==
    \/ \E q \in Requests : (\E n \in Names : Validate(q, n)) \/ HandlerNext(q) \/ Commit(q)
    \/ ServiceCrash \/ ServiceStart \/ FilesDamaged

\* A goroutine that can go on does.  Users, the ledger and faults owe nothing.
RegistrationSpec ==
    /\ RegistrationInit /\ [][RegistrationNext]_vars
    /\ \A q \in Requests : WF_vars(HandlerNext(q))

----------------------------------------------------------------------------
(* Registrations use the account store as AccountStore describes it, so    *)
(* that what holds of every use of it holds here: one save at a time, and  *)
(* no password stored twice (RegisterAccount under Service.mu).            *)
UsesAccountStore == StoreInit /\ [][StoreNext]_storeVars

Matches(generation) == \A n \in Names : generation[n] \in {None, ledger[n]}

(* A login account, in memory or in a file that decodes, carries the       *)
(* password of the very request that put its name on the ledger, and so    *)
(* does every registration that was answered with success, whoever else    *)
(* asked for the name at the same time (registerUser).                     *)
AccountsMatchLedger ==
    /\ Matches(accounts)
    /\ \A f \in FileNames : Matches(file[f].accounts)
    /\ \A q \in acknowledged : ledger[NameOf(q)] = q

(* Without time-outs, failed saves, crashes or damage nobody is left with  *)
(* a ledger user and no login account: a malformed, duplicate or demo name *)
(* is refused before the irreversible transaction (ValidateRegistration).  *)
ChainOnlyNeedsTrouble ==
    troubled \/ \A n \in Names :
        ledger[n] # None /\ accounts[n] = None =>
            request[ledger[n]].phase \in {"submitted", "registered"}

(* Every registration that starts is answered or its connection breaks:    *)
(* no handler waits for ever on the ledger or on the lock of another       *)
(* handler (SubmitTransaction, RegisterAccount).                           *)
RequestsAreAnswered ==
    \A q \in Requests : request[q].phase \in Running ~> request[q].phase \in {"done", "failed"}
============================================================================
