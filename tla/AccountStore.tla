---------------------------- MODULE AccountStore ----------------------------
(***************************************************************************)
(* The login accounts of the backend (auth.Service): a map in memory and   *)
(* its file, replaced under a lock by a sequence of writes and renames     *)
(* that a crash or an I/O error may cut short anywhere.                    *)
(*                                                                         *)
(* An account is the request that set its password.  The eight demo        *)
(* accounts are built into the program and never stored: names in          *)
(* DemoNames.                                                              *)
(***************************************************************************)
EXTENDS Naturals, FiniteSets

CONSTANTS
    Names,      \* usernames requests may ask for, of the permitted form
    DemoNames,  \* those among them that belong to demo accounts
    Requests,   \* registration requests
    None,       \* no account
    MaxDamage   \* bound on damages to the files from outside

ASSUME NamesAssumption == DemoNames \subseteq Names
ASSUME RequestsAssumption == None \notin Requests
ASSUME DamageAssumption == MaxDamage \in Nat

VARIABLES
    up,           \* the service runs
    accounts,     \* Service.accounts, without the demo accounts
    saving,       \* the holder of Service.mu and how far its save has come
    file,         \* the account file, its backup and their temporaries
    acknowledged, \* requests whose RegisterAccount returned without error
    damage        \* damages to the files so far

storeVars == <<up, accounts, saving, file, acknowledged, damage>>

----------------------------------------------------------------------------
Generations == [Names -> Requests \cup {None}]
NoAccounts == [n \in Names |-> None]

FileNames == {"accounts.json", ".bak", ".bak.tmp", ".tmp"}

\* What a reader of a file finds: nothing, an undecodable rest, or accounts.
Whole(generation) == [state |-> "whole", accounts |-> generation]
Damaged == [state |-> "damaged", accounts |-> NoAccounts]
Missing == [state |-> "missing", accounts |-> NoAccounts]
Contents == [state : {"whole", "damaged", "missing"}, accounts : Generations]

Unlocked == [at |-> "unlocked", name |-> None, request |-> None, previous |-> Missing]

SaveSteps == {"read", "create backup", "fill backup", "rename backup",
              "create", "fill", "rename"}

StoreTypeOK ==
    /\ up \in BOOLEAN
    /\ accounts \in Generations
    /\ saving \in [at : SaveSteps \cup {"unlocked"}, name : Names \cup {None},
                   request : Requests \cup {None}, previous : Contents]
    /\ saving.at # "unlocked" => saving.name \in Names /\ saving.request \in Requests
    /\ file \in [FileNames -> Contents]
    /\ acknowledged \subseteq Requests
    /\ damage \in 0..MaxDamage

StoreInit ==
    /\ up = TRUE
    /\ accounts = NoAccounts
    /\ saving = Unlocked
    /\ file = [f \in FileNames |-> Missing]
    /\ acknowledged = {}
    /\ damage = 0

----------------------------------------------------------------------------
(* RegisterAccount and the save it makes under the write lock.             *)

Free == up /\ saving.at = "unlocked"
Taken(n) == n \in DemoNames \/ accounts[n] # None

\* The name is checked again once the lock is held; the account is in the
\* map before it is on disk, but nobody can look while the lock is held.
RegisterAccount(n, q) ==
    /\ Free
    /\ ~Taken(n)
    /\ accounts' = [accounts EXCEPT ![n] = q]
    /\ saving' = [Unlocked EXCEPT !.at = "read", !.name = n, !.request = q]
    /\ UNCHANGED <<up, file, acknowledged, damage>>

SaveStep(from, to) ==
    /\ saving.at = from
    /\ saving' = [saving EXCEPT !.at = to]
    /\ UNCHANGED <<up, accounts, acknowledged, damage>>

\* Fault: whatever primary there is becomes the backup.
ReadPreviousUnchecked ==
    /\ saving.at = "read"
    /\ saving' = [saving EXCEPT
                    !.at = IF file["accounts.json"].state = "missing"
                           THEN "create" ELSE "create backup",
                    !.previous = file["accounts.json"]]
    /\ UNCHANGED <<up, accounts, file, acknowledged, damage>>

\* Only a primary that decodes replaces the backup.
ReadPrevious ==
    /\ saving.at = "read"
    /\ saving' = [saving EXCEPT
                    !.at = IF file["accounts.json"].state = "whole"
                           THEN "create backup" ELSE "create",
                    !.previous = file["accounts.json"]]
    /\ UNCHANGED <<up, accounts, file, acknowledged, damage>>

\* os.WriteFile truncates first: a crash in between leaves a damaged file.
CreateBackup ==
    /\ SaveStep("create backup", "fill backup")
    /\ file' = [file EXCEPT ![".bak.tmp"] = Damaged]

FillBackup ==
    /\ SaveStep("fill backup", "rename backup")
    /\ file' = [file EXCEPT ![".bak.tmp"] = saving.previous]

RenameBackup ==
    /\ SaveStep("rename backup", "create")
    /\ file' = [file EXCEPT ![".bak"] = file[".bak.tmp"], ![".bak.tmp"] = Missing]

\* Fault: the account file is written in place.
CreateInPlace ==
    /\ SaveStep("create", "fill")
    /\ file' = [file EXCEPT !["accounts.json"] = Damaged]

CreateTemporary ==
    /\ SaveStep("create", "fill")
    /\ file' = [file EXCEPT ![".tmp"] = Damaged]

FillTemporary ==
    /\ SaveStep("fill", "rename")
    /\ file' = [file EXCEPT ![".tmp"] = Whole(accounts)]

\* The last step of the save; RegisterAccount returns without error.
RenameTemporary ==
    /\ saving.at = "rename"
    /\ file' = [file EXCEPT !["accounts.json"] = file[".tmp"], ![".tmp"] = Missing]
    /\ acknowledged' = acknowledged \cup {saving.request}
    /\ saving' = Unlocked
    /\ UNCHANGED <<up, accounts, damage>>

\* Fault: the error return leaves the lock held.
SaveFailsLocked ==
    /\ saving.at # "unlocked"
    /\ accounts' = [accounts EXCEPT ![saving.name] = None]
    /\ saving' = [Unlocked EXCEPT !.at = saving.at]
    /\ UNCHANGED <<up, file, acknowledged, damage>>

\* Fault: the error return leaves the account in the map.
SaveFailsQuietly ==
    /\ saving.at # "unlocked"
    /\ saving' = Unlocked
    /\ UNCHANGED <<up, accounts, file, acknowledged, damage>>

\* Any of the file operations may fail: the account is taken back.
SaveFails ==
    /\ saving.at # "unlocked"
    /\ accounts' = [accounts EXCEPT ![saving.name] = None]
    /\ saving' = Unlocked
    /\ UNCHANGED <<up, file, acknowledged, damage>>

----------------------------------------------------------------------------
(* The process stops, and NewService starts it again.                      *)

Crash ==
    /\ up
    /\ up' = FALSE
    /\ accounts' = NoAccounts
    /\ saving' = Unlocked
    /\ UNCHANGED <<file, acknowledged, damage>>

\* The backup stands in for a primary that is missing or does not decode.
LoadedFile == IF file["accounts.json"].state = "whole" THEN file["accounts.json"] ELSE file[".bak"]

\* Fault: the service starts with nothing rather than not at all.
LoadableAnyway == TRUE

\* Without an account file there are only the demo accounts; with files of
\* which none decodes the service does not start.
Loadable ==
    \/ LoadedFile.state = "whole"
    \/ file["accounts.json"].state = "missing" /\ file[".bak"].state = "missing"

Start ==
    /\ ~up
    /\ Loadable
    /\ up' = TRUE
    /\ accounts' = LoadedFile.accounts
    /\ UNCHANGED <<saving, file, acknowledged, damage>>

----------------------------------------------------------------------------
(* External: what happens to the files from outside.                       *)

\* A stored file becomes unreadable, or somebody deletes the account file.
Damage(f) ==
    /\ damage < MaxDamage
    /\ damage' = damage + 1
    /\ file[f].state = "whole"
    /\ \/ file' = [file EXCEPT ![f] = Damaged]
       \/ f = "accounts.json" /\ file' = [file EXCEPT ![f] = Missing]
    /\ UNCHANGED <<up, accounts, saving, acknowledged>>

----------------------------------------------------------------------------
SaveNext ==
    \/ ReadPrevious
    \/ CreateBackup \/ FillBackup \/ RenameBackup
    \/ CreateTemporary \/ FillTemporary \/ RenameTemporary
    \/ SaveFails

ServiceNext ==
    \/ \E n \in Names, q \in Requests \ acknowledged : RegisterAccount(n, q)
    \/ SaveNext
    \/ Crash \/ Start

DamageNext == \E f \in {"accounts.json", ".bak"} : Damage(f)

StoreNext == ServiceNext \/ DamageNext

StoreSpec == StoreInit /\ [][StoreNext]_storeVars

\* Crashes and failing file operations, but files that stay as they were left.
CrashSpec == StoreInit /\ [][ServiceNext]_storeVars

----------------------------------------------------------------------------
(* Each damage or deletion costs at most one acknowledged account, wherever *)
(* saves were cut short before and after: the running service knows all    *)
(* the others, and none is lost by crashes and failed saves alone          *)
(* (saveRegisteredAccountsLocked, loadAccounts).                           *)
LossIsBounded ==
    Free => Cardinality({q \in acknowledged : \A n \in Names : accounts[n] # q}) <= damage

(* A usable backup stays usable: no save ever replaces it with a damaged   *)
(* primary, or leaves it half written (auth_test.go: backup poisoned by    *)
(* corrupt primary).                                                       *)
BackupStaysUsable ==
    [][file[".bak"].state = "whole" /\ damage' = damage => file'[".bak"].state = "whole"]_storeVars

(* Crashes and failed saves alone never leave files the service refuses to *)
(* start from (saveRegisteredAccountsLocked: "A crash can therefore        *)
(* recover from .bak").                                                    *)
CrashesAreRecoverable == damage = 0 => Loadable

(* What the disk holds, for a start to load, is an atomic account store    *)
(* whatever crashes and I/O errors do to the saves, and the answers to the *)
(* users change with it (saveRegisteredAccountsLocked).                    *)
Disk == INSTANCE AtomicAccounts WITH stored <- LoadedFile.accounts
DiskIsAtomic == Disk!Spec

(* The manual: deleting the account file clears the local credentials.     *)
(* loadAccounts takes the backup when the account file is missing.         *)
DeletionClearsLogins ==
    [][~up /\ up' /\ file["accounts.json"].state = "missing" => accounts' = NoAccounts]_storeVars
============================================================================
