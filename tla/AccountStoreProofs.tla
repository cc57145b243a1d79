------------------------- MODULE AccountStoreProofs -------------------------
(***************************************************************************)
(* The account store for every set of names and requests.                  *)
(***************************************************************************)
EXTENDS AccountStore, TLAPS, FiniteSetTheorems

LEMMA ContentsType ==
  /\ Missing \in Contents /\ Damaged \in Contents
  /\ \A g \in Generations : Whole(g) \in Contents
  /\ NoAccounts \in Generations
  BY DEF Missing, Damaged, Whole, Contents, Generations, NoAccounts

LEMMA Count ==
  /\ \A d \in 0..MaxDamage : d \in Nat
  /\ \A d \in 0..MaxDamage : d < MaxDamage => d + 1 \in 0..MaxDamage
  /\ \A d \in Nat : d + 1 \in Nat /\ d + 1 # d
  BY DamageAssumption

LEMMA StoreTypeInit == StoreInit => StoreTypeOK
  BY ContentsType, DamageAssumption DEF StoreInit, StoreTypeOK, Unlocked

LEMMA StoreTypeStep ==
  ASSUME StoreTypeOK, [StoreNext]_storeVars
  PROVE  StoreTypeOK'
<1> USE ContentsType DEF StoreTypeOK, FileNames, SaveSteps
<1>1. ASSUME NEW n \in Names, NEW q \in Requests \ acknowledged, RegisterAccount(n, q)
      PROVE  StoreTypeOK'
  BY <1>1 DEF RegisterAccount, Unlocked, Generations
<1>2. CASE ReadPrevious
  BY <1>2 DEF ReadPrevious
<1>3. CASE CreateBackup
  BY <1>3 DEF CreateBackup, SaveStep
<1>4. CASE FillBackup
  BY <1>4 DEF FillBackup, SaveStep
<1>5. CASE RenameBackup
  BY <1>5 DEF RenameBackup, SaveStep
<1>6. CASE CreateTemporary
  BY <1>6 DEF CreateTemporary, SaveStep
<1>7. CASE FillTemporary
  BY <1>7 DEF FillTemporary, SaveStep
<1>8. CASE RenameTemporary
  BY <1>8 DEF RenameTemporary, Unlocked
<1>9. CASE SaveFails
  BY <1>9 DEF SaveFails, Unlocked, Generations
<1>10. CASE Crash
  BY <1>10 DEF Crash, Unlocked
<1>11. CASE Start
  <2>1. LoadedFile \in Contents
    BY DEF LoadedFile
  <2>2. LoadedFile.accounts \in Generations
    BY <2>1 DEF Contents
  <2> QED BY <1>11, <2>2 DEF Start
<1>12. ASSUME NEW f \in {"accounts.json", ".bak"}, Damage(f)
       PROVE  StoreTypeOK'
  <2>1. file' \in [FileNames -> Contents]
    BY <1>12 DEF Damage
  <2>2. damage' \in 0..MaxDamage
    <3>1. damage \in 0..MaxDamage
      OBVIOUS
    <3>2. damage < MaxDamage /\ damage' = damage + 1
      BY <1>12 DEF Damage
    <3> HIDE DEF StoreTypeOK
    <3> QED BY <3>1, <3>2, Count
  <2>3. UNCHANGED <<up, accounts, saving, acknowledged>>
    BY <1>12 DEF Damage
  <2> QED BY <2>1, <2>2, <2>3
<1>13. CASE UNCHANGED storeVars
  BY <1>13 DEF storeVars
<1> QED BY <1>1, <1>2, <1>3, <1>4, <1>5, <1>6, <1>7, <1>8, <1>9, <1>10, <1>11, <1>12, <1>13
        DEF StoreNext, ServiceNext, SaveNext, DamageNext

\* The files and the map keep their shape, and the lock always has a holder
\* while a save is under way.
THEOREM StoreTypeCorrect == StoreSpec => []StoreTypeOK
<1> QED BY StoreTypeInit, StoreTypeStep, PTL DEF StoreSpec

----------------------------------------------------------------------------
(* The backup: what is on its way to become the backup decodes.            *)

BackupInv ==
    /\ StoreTypeOK
    /\ saving.at \in {"create backup", "fill backup"} => saving.previous.state = "whole"
    /\ saving.at = "rename backup" => file[".bak.tmp"].state = "whole"

LEMMA BackupInvStep ==
  ASSUME BackupInv, [StoreNext]_storeVars
  PROVE  /\ BackupInv'
         /\ file[".bak"].state = "whole" /\ damage' = damage => file'[".bak"].state = "whole"
<1> USE DEF BackupInv
<1>0. StoreTypeOK' /\ file \in [FileNames -> Contents] /\ damage \in Nat
  <2>1. StoreTypeOK'
    BY StoreTypeStep
  <2>2. file \in [FileNames -> Contents] /\ damage \in Nat
    BY Count DEF StoreTypeOK
  <2> QED BY <2>1, <2>2
<1> USE DEF FileNames
<1>1. ASSUME NEW n \in Names, NEW q \in Requests \ acknowledged, RegisterAccount(n, q)
      PROVE  BackupInv' /\ UNCHANGED file
  BY <1>0, <1>1 DEF RegisterAccount, Unlocked
<1>2. CASE ReadPrevious
  BY <1>0, <1>2 DEF ReadPrevious, StoreTypeOK
<1>3. CASE CreateBackup
  BY <1>0, <1>3 DEF CreateBackup, SaveStep, StoreTypeOK
<1>4. CASE FillBackup
  BY <1>0, <1>4 DEF FillBackup, SaveStep, StoreTypeOK
<1>5. CASE RenameBackup
  BY <1>0, <1>5 DEF RenameBackup, SaveStep, StoreTypeOK
<1>6. CASE CreateTemporary
  BY <1>0, <1>6 DEF CreateTemporary, SaveStep, StoreTypeOK
<1>7. CASE FillTemporary
  BY <1>0, <1>7 DEF FillTemporary, SaveStep, StoreTypeOK
<1>8. CASE RenameTemporary
  BY <1>0, <1>8 DEF RenameTemporary, Unlocked
<1>9. CASE SaveFails
  BY <1>0, <1>9 DEF SaveFails, Unlocked
<1>10. CASE Crash
  BY <1>0, <1>10 DEF Crash, Unlocked
<1>11. CASE Start
  BY <1>0, <1>11 DEF Start
<1>12. ASSUME NEW f \in {"accounts.json", ".bak"}, Damage(f)
       PROVE  BackupInv' /\ damage' # damage
  <2>1. UNCHANGED saving /\ damage' = damage + 1
    BY <1>12 DEF Damage
  <2>2. file'[".bak.tmp"] = file[".bak.tmp"]
    BY <1>0, <1>12 DEF Damage
  <2>3. damage' # damage
    BY <1>0, <2>1, Count
  <2>4. BackupInv'
    BY <1>0, <2>1, <2>2
  <2> QED BY <2>3, <2>4
<1>13. CASE UNCHANGED storeVars
  BY <1>0, <1>13 DEF storeVars
<1> QED BY <1>1, <1>2, <1>3, <1>4, <1>5, <1>6, <1>7, <1>8, <1>9, <1>10, <1>11, <1>12, <1>13
        DEF StoreNext, ServiceNext, SaveNext, DamageNext

\* No save ever turns a usable backup into an unusable one: only a primary
\* that decodes, completely written, takes its place.
THEOREM BackupIsPreserved == StoreSpec => BackupStaysUsable
<1>1. StoreInit => BackupInv
  BY StoreTypeInit DEF BackupInv, StoreInit, Unlocked
<1>2. BackupInv /\ [StoreNext]_storeVars => BackupInv'
  BY BackupInvStep
<1>3. BackupInv /\ [StoreNext]_storeVars
        => [file[".bak"].state = "whole" /\ damage' = damage => file'[".bak"].state = "whole"]_storeVars
  BY BackupInvStep
<1> QED BY <1>1, <1>2, <1>3, PTL DEF StoreSpec, BackupStaysUsable

----------------------------------------------------------------------------
(* The disk under crashes and failing saves.                               *)

OnDisk == LoadedFile.accounts

DiskInv ==
    /\ StoreTypeOK
    /\ file["accounts.json"].state # "damaged"
    /\ file["accounts.json"].state = "missing" =>
          file["accounts.json"] = Missing /\ file[".bak"] = Missing
    /\ saving.at \in {"create backup", "fill backup", "rename backup"} =>
          file["accounts.json"].state = "whole"
    /\ saving.at = "unlocked" /\ up => accounts = OnDisk
    /\ saving.at # "unlocked" =>
          /\ up
          /\ OnDisk[saving.name] = None
          /\ accounts = [OnDisk EXCEPT ![saving.name] = saving.request]
    /\ saving.at = "rename" => file[".tmp"] = Whole(accounts)

\* What each step does to the disk: only the last rename changes it.
LEMMA DiskStep ==
  ASSUME DiskInv, [ServiceNext]_storeVars
  PROVE  /\ DiskInv'
         /\ \/ UNCHANGED <<OnDisk, acknowledged>>
            \/ /\ saving.name \in Names /\ saving.request \in Requests
               /\ OnDisk[saving.name] = None
               /\ OnDisk' = [OnDisk EXCEPT ![saving.name] = saving.request]
               /\ acknowledged' = acknowledged \cup {saving.request}
<1> USE DEF DiskInv
<1>0. StoreTypeOK'
  BY StoreTypeStep DEF StoreNext
<1>t. /\ file \in [FileNames -> Contents] /\ accounts \in Generations
      /\ OnDisk \in Generations
      /\ saving.at # "unlocked" => saving.name \in Names /\ saving.request \in Requests
  BY DEF StoreTypeOK, OnDisk, LoadedFile, FileNames, Contents
<1>1. ASSUME NEW n \in Names, NEW q \in Requests \ acknowledged, RegisterAccount(n, q)
      PROVE  DiskInv' /\ UNCHANGED <<OnDisk, acknowledged>>
  <2>1. UNCHANGED <<OnDisk, file, up, acknowledged>>
    BY <1>1 DEF RegisterAccount, OnDisk, LoadedFile
  <2>2. saving.at = "unlocked" /\ up /\ accounts[n] = None /\ accounts = OnDisk
    BY <1>1 DEF RegisterAccount, Free, Taken
  <2>3. /\ saving'.at = "read" /\ saving'.name = n /\ saving'.request = q
        /\ accounts' = [accounts EXCEPT ![n] = q]
    BY <1>1 DEF RegisterAccount, Unlocked
  <2> QED BY <1>0, <2>1, <2>2, <2>3
<1>2. ASSUME ReadPrevious \/ CreateBackup \/ FillBackup \/ RenameBackup
             \/ CreateTemporary \/ FillTemporary
      PROVE  DiskInv' /\ UNCHANGED <<OnDisk, acknowledged>>
  <2>1. /\ UNCHANGED <<up, accounts, acknowledged>>
        /\ saving'.name = saving.name /\ saving'.request = saving.request
        /\ saving.at # "unlocked" /\ saving'.at # "unlocked"
    BY <1>2 DEF ReadPrevious, CreateBackup, FillBackup, RenameBackup, CreateTemporary,
                FillTemporary, SaveStep, StoreTypeOK
  <2>2. file'["accounts.json"] = file["accounts.json"]
    BY <1>2, <1>t DEF ReadPrevious, CreateBackup, FillBackup, RenameBackup, CreateTemporary,
                FillTemporary, SaveStep, FileNames
  <2>3. file'[".bak"] = file[".bak"] \/ file["accounts.json"].state = "whole"
    BY <1>2, <1>t DEF ReadPrevious, CreateBackup, FillBackup, RenameBackup, CreateTemporary,
                FillTemporary, SaveStep, FileNames
  <2>4. file["accounts.json"].state \in {"whole", "missing"}
    BY <1>t DEF Contents, FileNames
  <2>5. UNCHANGED OnDisk
    BY <2>2, <2>3, <2>4 DEF OnDisk, LoadedFile
  <2>6. saving'.at \in {"create backup", "fill backup", "rename backup"} =>
          file["accounts.json"].state = "whole"
    BY <1>2 DEF ReadPrevious, CreateBackup, FillBackup, RenameBackup, CreateTemporary,
                FillTemporary, SaveStep, StoreTypeOK
  <2>7. saving'.at = "rename" => file'[".tmp"] = Whole(accounts)
    BY <1>2, <1>t DEF ReadPrevious, CreateBackup, FillBackup, RenameBackup, CreateTemporary,
                FillTemporary, SaveStep, StoreTypeOK, FileNames
  <2> QED BY <1>0, <2>1, <2>2, <2>3, <2>5, <2>6, <2>7
<1>3. CASE RenameTemporary
  <2>1. /\ file'["accounts.json"] = Whole(accounts) /\ saving' = Unlocked
        /\ UNCHANGED <<up, accounts>> /\ acknowledged' = acknowledged \cup {saving.request}
        /\ saving.at = "rename" /\ up
    BY <1>3, <1>t DEF RenameTemporary, FileNames
  <2>2. OnDisk' = accounts /\ file'["accounts.json"].state = "whole"
    BY <2>1 DEF OnDisk, LoadedFile, Whole
  <2>3. DiskInv'
    BY <1>0, <2>1, <2>2 DEF Unlocked
  <2> QED BY <1>t, <2>1, <2>2, <2>3
<1>4. CASE SaveFails
  <2>1. UNCHANGED <<OnDisk, file, up, acknowledged>>
    BY <1>4 DEF SaveFails, OnDisk, LoadedFile
  <2>2. accounts' = OnDisk
    BY <1>4, <1>t DEF SaveFails, Generations
  <2>3. saving' = Unlocked
    BY <1>4 DEF SaveFails
  <2> QED BY <1>0, <2>1, <2>2, <2>3 DEF Unlocked
<1>5. CASE Crash
  <2>1. UNCHANGED <<OnDisk, file, acknowledged>>
    BY <1>5 DEF Crash, OnDisk, LoadedFile
  <2> QED BY <1>0, <1>5, <2>1 DEF Crash, Unlocked
<1>6. CASE Start
  <2>1. UNCHANGED <<OnDisk, file, saving, acknowledged>> /\ ~up /\ accounts' = OnDisk
    BY <1>6 DEF Start, OnDisk, LoadedFile
  <2> QED BY <1>0, <2>1
<1>7. CASE UNCHANGED storeVars
  <2>1. UNCHANGED <<OnDisk, file, up, accounts, saving, acknowledged>>
    BY <1>7 DEF storeVars, OnDisk, LoadedFile
  <2> QED BY <1>0, <2>1
<1> HIDE DEF DiskInv
<1> QED BY <1>t, <1>1, <1>2, <1>3, <1>4, <1>5, <1>6, <1>7 DEF ServiceNext, SaveNext

LEMMA DiskInit == StoreInit => DiskInv
<1> SUFFICES ASSUME StoreInit PROVE DiskInv
  OBVIOUS
<1>1. StoreTypeOK
  BY StoreTypeInit
<1>2. file["accounts.json"] = Missing /\ file[".bak"] = Missing
  BY DEF StoreInit, FileNames
<1> QED BY <1>1, <1>2 DEF DiskInv, StoreInit, Unlocked, Missing, OnDisk, LoadedFile

\* Whatever crashes and I/O errors do to the saves, the disk is an atomic
\* account store: an account appears on it in one step, for good, and that
\* is when its user is told so.
THEOREM CrashesAreAtomic == CrashSpec => DiskIsAtomic
<1>1. StoreInit => Disk!Init
  BY DEF StoreInit, Disk!Init, LoadedFile, Missing, FileNames, NoAccounts
<1>2. DiskInv /\ [ServiceNext]_storeVars => [Disk!Next]_<<LoadedFile.accounts, acknowledged>>
  BY DiskStep DEF OnDisk, Disk!Next, Disk!Store
<1>3. DiskInv /\ [ServiceNext]_storeVars => DiskInv'
  BY DiskStep
<1> QED BY <1>1, <1>2, <1>3, DiskInit, PTL DEF CrashSpec, DiskIsAtomic, Disk!Spec

\* The service can always be started again: a crash never leaves a damaged
\* account file, or a backup without one.
THEOREM CrashesLeaveLoadableFiles == CrashSpec => []CrashesAreRecoverable
<1>1. DiskInv => CrashesAreRecoverable
  <2> SUFFICES ASSUME DiskInv PROVE Loadable
    BY DEF CrashesAreRecoverable
  <2>1. file["accounts.json"].state \in {"whole", "missing"}
    BY DEF DiskInv, StoreTypeOK, Contents, FileNames
  <2> QED BY <2>1 DEF DiskInv, Loadable, LoadedFile, Missing
<1>2. DiskInv /\ [ServiceNext]_storeVars => DiskInv'
  BY DiskStep
<1> QED BY <1>1, <1>2, DiskInit, PTL DEF CrashSpec


----------------------------------------------------------------------------
(* What damage costs.  A generation of accounts lags behind what users     *)
(* were told by the acknowledged requests it does not hold.  The map and   *)
(* the account file lag by at most the damages so far; the backup by one   *)
(* more as long as a usable account file stands before it, but not once a  *)
(* save has gone past it.                                                  *)

Lost(told, g) == {q \in told : \A n \in Names : g[n] # q}
Within(told, g, d) == Cardinality(Lost(told, g)) <= d

LossInv ==
    /\ StoreTypeOK
    /\ IsFiniteSet(acknowledged)
    /\ up => Within(acknowledged, accounts, damage)
    /\ file["accounts.json"].state = "whole" =>
          Within(acknowledged, file["accounts.json"].accounts, damage)
    /\ file[".bak"].state # "damaged" =>
          Within(acknowledged, file[".bak"].accounts,
                 IF file["accounts.json"].state = "whole" THEN damage + 1 ELSE damage)
    /\ saving.at # "unlocked" =>
          /\ up
          /\ accounts[saving.name] = saving.request
          /\ saving.request \notin acknowledged
    /\ saving.at \in {"create backup", "fill backup"} =>
          Within(acknowledged, saving.previous.accounts, damage)
    /\ saving.at = "rename backup" => Within(acknowledged, file[".bak.tmp"].accounts, damage)
    /\ saving.at \in {"create", "fill", "rename"} /\ file[".bak"].state # "damaged" =>
          Within(acknowledged, file[".bak"].accounts, damage)
    /\ saving.at = "rename" => file[".tmp"] = Whole(accounts)

\* A damage more makes room.
LEMMA WithinMore ==
  ASSUME NEW told, IsFiniteSet(told), NEW g, NEW d \in Nat, Within(told, g, d)
  PROVE  Within(told, g, d + 1)
<1>1. Lost(told, g) \in SUBSET told
  BY DEF Lost
<1>2. Cardinality(Lost(told, g)) \in Nat
  BY <1>1, FS_Subset, FS_CardinalityType
<1> QED BY <1>2 DEF Within

\* A request that nobody was told of is no loss.
LEMMA LostUnchanged ==
  ASSUME NEW told, NEW g, NEW h, NEW n \in Names,
         \A m \in Names \ {n} : h[m] = g[m],
         g[n] \notin told, h[n] \notin told
  PROVE  Lost(told, h) = Lost(told, g)
  BY DEF Lost

\* A request that its user is told of costs one where it is not held, and
\* nothing where it is.
LEMMA LostTold ==
  ASSUME NEW told, IsFiniteSet(told), NEW q, NEW g, NEW d \in Nat, Within(told, g, d)
  PROVE  /\ Within(told \cup {q}, g, d + 1)
         /\ (\E n \in Names : g[n] = q) => Within(told \cup {q}, g, d)
<1>1. Lost(told, g) \in SUBSET told
  BY DEF Lost
<1>2. IsFiniteSet(Lost(told, g)) /\ Cardinality(Lost(told, g)) \in Nat
  BY <1>1, FS_Subset, FS_CardinalityType
<1>3. ASSUME \E n \in Names : g[n] = q
      PROVE  Within(told \cup {q}, g, d)
  <2>1. Lost(told \cup {q}, g) = Lost(told, g)
    BY <1>3 DEF Lost
  <2> QED BY <2>1 DEF Within
<1>4. Within(told \cup {q}, g, d + 1)
  <2> DEFINE L == Lost(told, g)
  <2>a. IsFiniteSet(L \cup {q})
        /\ Cardinality(L \cup {q}) = IF q \in L THEN Cardinality(L) ELSE Cardinality(L) + 1
    <3> HIDE DEF L
    <3>1. IsFiniteSet(L)
      BY <1>2 DEF L
    <3> QED BY <3>1, FS_AddElement
  <2>1. /\ IsFiniteSet(Lost(told, g) \cup {q})
        /\ Cardinality(Lost(told, g) \cup {q}) <= Cardinality(Lost(told, g)) + 1
        /\ Cardinality(Lost(told, g) \cup {q}) \in Nat
    BY <1>2, <2>a
  <2>2. Lost(told \cup {q}, g) \in SUBSET (Lost(told, g) \cup {q})
    BY DEF Lost
  <2>3. Cardinality(Lost(told \cup {q}, g)) <= Cardinality(Lost(told, g) \cup {q})
        /\ Cardinality(Lost(told \cup {q}, g)) \in Nat
    BY <2>1, <2>2, FS_Subset, FS_CardinalityType
  <2> QED BY <1>2, <2>1, <2>3 DEF Within
<1> QED BY <1>3, <1>4

LEMMA LossInit == StoreInit => LossInv
<1> SUFFICES ASSUME StoreInit PROVE LossInv
  OBVIOUS
<1>1. \A d \in {0, 1} : Within({}, NoAccounts, d)
  <2>1. Lost({}, NoAccounts) = {}
    BY DEF Lost
  <2> QED BY <2>1, FS_EmptySet DEF Within
<1>2. /\ file["accounts.json"] = Missing /\ file[".bak"] = Missing
      /\ saving.at = "unlocked" /\ acknowledged = {} /\ accounts = NoAccounts /\ damage = 0
  BY DEF StoreInit, FileNames, Unlocked
<1>3. StoreTypeOK
  BY StoreTypeInit
<1>4. IsFiniteSet(acknowledged)
  BY <1>2, FS_EmptySet
<1> QED BY <1>1, <1>2, <1>3, <1>4 DEF LossInv, Missing

LEMMA LossStep ==
  ASSUME LossInv, [StoreNext]_storeVars
  PROVE  LossInv'
<1> DEFINE ok(g) == Within(acknowledged, g, damage)
<1>t. /\ StoreTypeOK'
      /\ file \in [FileNames -> Contents] /\ accounts \in Generations
      /\ damage \in Nat /\ acknowledged \subseteq Requests /\ None \notin acknowledged
      /\ saving.at # "unlocked" => saving.name \in Names /\ saving.request \in Requests
  BY StoreTypeStep, Count, RequestsAssumption DEF LossInv, StoreTypeOK
<1> USE DEF LossInv
<1>1. ASSUME NEW n \in Names, NEW q \in Requests \ acknowledged, RegisterAccount(n, q)
      PROVE  LossInv'
  <2>1. /\ saving.at = "unlocked" /\ up /\ accounts[n] = None
        /\ UNCHANGED <<up, file, acknowledged, damage>>
        /\ accounts' = [accounts EXCEPT ![n] = q]
        /\ saving'.at = "read" /\ saving'.name = n /\ saving'.request = q
    BY <1>1 DEF RegisterAccount, Free, Taken, Unlocked
  <2>2. Lost(acknowledged, accounts') = Lost(acknowledged, accounts)
    BY <1>t, <2>1, LostUnchanged DEF Generations
  <2>3. accounts'[n] = q
    BY <1>t, <2>1 DEF Generations
  <2> QED BY <1>t, <2>1, <2>2, <2>3 DEF Within
<1>2. CASE ReadPrevious
  <2>1. /\ saving'.at \in {"create backup", "create"}
        /\ saving'.at = "create backup" <=> file["accounts.json"].state = "whole"
        /\ saving'.previous = file["accounts.json"]
        /\ saving'.name = saving.name /\ saving'.request = saving.request
        /\ UNCHANGED <<up, accounts, file, acknowledged, damage>> /\ saving.at # "unlocked"
    BY <1>2 DEF ReadPrevious, StoreTypeOK
  <2> QED BY <1>t, <2>1
<1>3. CASE CreateBackup
  <2>1. /\ saving.at = "create backup" /\ saving'.at = "fill backup"
        /\ saving'.previous = saving.previous
        /\ saving'.name = saving.name /\ saving'.request = saving.request
        /\ UNCHANGED <<up, accounts, acknowledged, damage>>
        /\ file'["accounts.json"] = file["accounts.json"] /\ file'[".bak"] = file[".bak"]
    BY <1>3, <1>t DEF CreateBackup, SaveStep, StoreTypeOK, FileNames
  <2> QED BY <1>t, <2>1
<1>4. CASE FillBackup
  <2>1. /\ saving.at = "fill backup" /\ saving'.at = "rename backup"
        /\ saving'.name = saving.name /\ saving'.request = saving.request
        /\ UNCHANGED <<up, accounts, acknowledged, damage>>
        /\ file'["accounts.json"] = file["accounts.json"] /\ file'[".bak"] = file[".bak"]
        /\ file'[".bak.tmp"] = saving.previous
    BY <1>4, <1>t DEF FillBackup, SaveStep, StoreTypeOK, FileNames
  <2> QED BY <1>t, <2>1
<1>5. CASE RenameBackup
  <2>1. /\ saving.at = "rename backup" /\ saving'.at = "create"
        /\ saving'.name = saving.name /\ saving'.request = saving.request
        /\ UNCHANGED <<up, accounts, acknowledged, damage>>
        /\ file'["accounts.json"] = file["accounts.json"] /\ file'[".bak"] = file[".bak.tmp"]
    BY <1>5, <1>t DEF RenameBackup, SaveStep, StoreTypeOK, FileNames
  <2> QED BY <1>t, <2>1, WithinMore
<1>6. ASSUME CreateTemporary \/ FillTemporary
      PROVE  LossInv'
  <2>1. /\ saving.at \in {"create", "fill"} /\ saving'.at \in {"fill", "rename"}
        /\ saving'.name = saving.name /\ saving'.request = saving.request
        /\ UNCHANGED <<up, accounts, acknowledged, damage>>
        /\ file'["accounts.json"] = file["accounts.json"] /\ file'[".bak"] = file[".bak"]
        /\ saving'.at = "rename" => file'[".tmp"] = Whole(accounts)
    BY <1>6, <1>t DEF CreateTemporary, FillTemporary, SaveStep, StoreTypeOK, FileNames
  <2> QED BY <1>t, <2>1
\* The user is told; what the map holds is now in the account file, and the
\* backup may lag by one account more.
<1>7. CASE RenameTemporary
  <2>1. /\ saving.at = "rename" /\ saving'.at = "unlocked"
        /\ acknowledged' = acknowledged \cup {saving.request}
        /\ UNCHANGED <<up, accounts, damage>>
        /\ file'["accounts.json"] = Whole(accounts) /\ file'[".bak"] = file[".bak"]
    BY <1>7, <1>t DEF RenameTemporary, Unlocked, FileNames
  <2>2. /\ up /\ ok(accounts) /\ \E n \in Names : accounts[n] = saving.request
        /\ file[".bak"].state # "damaged" => ok(file[".bak"].accounts)
    BY <1>t, <2>1
  <2>3. /\ Within(acknowledged', accounts, damage)
        /\ file[".bak"].state # "damaged" => Within(acknowledged', file[".bak"].accounts, damage + 1)
    BY <1>t, <2>1, <2>2, LostTold
  <2>4. IsFiniteSet(acknowledged')
    BY <2>1, FS_AddElement
  <2> QED BY <1>t, <2>1, <2>2, <2>3, <2>4 DEF Whole
<1>8. CASE SaveFails
  <2>1. /\ saving.at # "unlocked" /\ saving'.at = "unlocked"
        /\ UNCHANGED <<up, file, acknowledged, damage>>
        /\ accounts' = [accounts EXCEPT ![saving.name] = None]
    BY <1>8 DEF SaveFails, Unlocked
  <2>2. Lost(acknowledged, accounts') = Lost(acknowledged, accounts)
    BY <1>t, <2>1, LostUnchanged DEF Generations
  <2> QED BY <1>t, <2>1, <2>2 DEF Within
<1>9. CASE Crash
  BY <1>t, <1>9 DEF Crash, Unlocked
\* What is loaded: the account file, or a backup that took its place or none.
<1>10. CASE Start
  <2>1. /\ UNCHANGED <<saving, file, acknowledged, damage>> /\ ~up /\ up'
        /\ accounts' = LoadedFile.accounts /\ Loadable
    BY <1>10 DEF Start
  <2>2. ok(LoadedFile.accounts)
    BY <2>1 DEF Loadable, LoadedFile
  <2> QED BY <1>t, <2>1, <2>2
<1>11. ASSUME NEW f \in {"accounts.json", ".bak"}, Damage(f)
       PROVE  LossInv'
  <2>1. /\ damage' = damage + 1 /\ UNCHANGED <<up, accounts, saving, acknowledged>>
        /\ file[f].state = "whole"
        /\ file'[".tmp"] = file[".tmp"] /\ file'[".bak.tmp"] = file[".bak.tmp"]
    BY <1>11, <1>t DEF Damage, FileNames
  <2>a. \/ file' = [file EXCEPT ![f] = Damaged]
        \/ f = "accounts.json" /\ file' = [file EXCEPT ![f] = Missing]
    BY <1>11 DEF Damage
  <2>b. Damaged.state = "damaged" /\ Missing.state = "missing"
    BY DEF Damaged, Missing
  <2>2. \/ f = "accounts.json" /\ file'[".bak"] = file[".bak"] /\ file'[f].state # "whole"
        \/ /\ f = ".bak" /\ file'["accounts.json"] = file["accounts.json"]
           /\ file'[f].state = "damaged"
    <3>1. CASE f = "accounts.json"
      BY <2>a, <2>b, <3>1, <1>t DEF FileNames
    <3>2. CASE f = ".bak"
      BY <2>a, <2>b, <3>2, <1>t DEF FileNames
    <3> QED BY <1>11, <3>1, <3>2
  <2>3. /\ damage' \in Nat
        /\ \A g : Within(acknowledged, g, damage) => Within(acknowledged, g, damage')
        /\ \A g : Within(acknowledged, g, damage') => Within(acknowledged, g, damage' + 1)
    <3>1. damage' \in Nat
      <4>1. damage \in Nat /\ damage' = damage + 1
        BY <1>t, <2>1
      <4> HIDE DEF LossInv
      <4> QED BY <4>1, Count
    <3>2. IsFiniteSet(acknowledged)
      OBVIOUS
    <3>3. ASSUME NEW g, Within(acknowledged, g, damage) PROVE Within(acknowledged, g, damage')
      <4>1. Within(acknowledged, g, damage + 1)
        BY <1>t, <3>2, <3>3, WithinMore
      <4> QED BY <2>1, <4>1
    <3>4. ASSUME NEW g, Within(acknowledged, g, damage') PROVE Within(acknowledged, g, damage' + 1)
      <4> HIDE DEF LossInv
      <4> QED BY <3>1, <3>2, <3>4, WithinMore
    <3> QED BY <3>1, <3>3, <3>4
  <2>4. CASE f = "accounts.json"
    BY <1>t, <2>1, <2>2, <2>3, <2>4
  <2>5. CASE f = ".bak"
    BY <1>t, <2>1, <2>2, <2>3, <2>5
  <2> QED BY <2>4, <2>5
<1>12. CASE UNCHANGED storeVars
  BY <1>t, <1>12 DEF storeVars
<1> QED BY <1>1, <1>2, <1>3, <1>4, <1>5, <1>6, <1>7, <1>8, <1>9, <1>10, <1>11, <1>12
        DEF StoreNext, ServiceNext, SaveNext, DamageNext

\* Wherever saves were cut short, a running service has lost at most one
\* acknowledged account for each damage to its files.
THEOREM DamageCostsOneEach == StoreSpec => []LossIsBounded
<1>1. LossInv => LossIsBounded
  BY DEF LossInv, LossIsBounded, Free, Within, Lost
<1> QED BY <1>1, LossInit, LossStep, PTL DEF StoreSpec
============================================================================
