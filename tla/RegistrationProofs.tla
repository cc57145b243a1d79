------------------------- MODULE RegistrationProofs -------------------------
(***************************************************************************)
(* Registrations for every set of names and requests.                      *)
(***************************************************************************)
EXTENDS Registration, AccountStoreProofs

(* Whose the accounts are: what the transactions, the handlers and the     *)
(* save under way have in common with the ledger.                          *)
MatchInv ==
    /\ RegistrationTypeOK
    /\ AccountsMatchLedger
    /\ \A q \in Requests : request[q].phase # "new" => NameOf(q) \in Names
    /\ \A q \in Requests : transaction[q] # "none" => request[q].phase \notin {"new", "validated"}
    /\ \A q \in Requests : transaction[q] = "valid" => ledger[NameOf(q)] = q
    /\ \A q \in Requests : request[q].phase = "registered" => transaction[q] = "valid"
    /\ \A q \in acknowledged : request[q].phase = "done" /\ transaction[q] = "valid"
    /\ saving.at # "unlocked" =>
          /\ transaction[saving.request] = "valid"
          /\ Matches(saving.previous.accounts)

AccountsMatch ==
    /\ Matches(accounts)
    /\ \A f \in FileNames : Matches(file[f].accounts)
    /\ saving.at # "unlocked" =>
          /\ transaction[saving.request] = "valid"
          /\ Matches(saving.previous.accounts)

LEMMA MatchInit == RegistrationInit => MatchInv
<1> SUFFICES ASSUME RegistrationInit PROVE MatchInv
  OBVIOUS
<1>1. StoreTypeOK
  BY StoreTypeInit DEF RegistrationInit
<1>2. RegistrationTypeOK
  BY <1>1 DEF RegistrationInit, RegistrationTypeOK, Phases
<1>3. AccountsMatchLedger
  BY DEF RegistrationInit, StoreInit, AccountsMatchLedger, Matches, Missing, NoAccounts
<1> QED BY <1>2, <1>3 DEF RegistrationInit, StoreInit, MatchInv, Unlocked

\* Every step of a registration is one of the account store, or none.
LEMMA StoreSide ==
  ASSUME MatchInv, [RegistrationNext]_vars
  PROVE  [StoreNext]_storeVars
<1>1. ASSUME NEW q \in Requests, StoreAccount(q)
      PROVE  [StoreNext]_storeVars
  <2>1. NameOf(q) \in Names /\ q \notin acknowledged
    BY <1>1 DEF StoreAccount, MatchInv
  <2> QED BY <1>1, <2>1 DEF StoreAccount, StoreNext, ServiceNext
<1>2. ASSUME NEW q \in Requests,
             \/ \E n \in Names : Validate(q, n)
             \/ GiveUp(q) \/ Submit(q) \/ CommitStatus(q) \/ TimeOut(q) \/ Commit(q)
      PROVE  UNCHANGED storeVars
  BY <1>2 DEF Validate, GiveUp, Submit, CommitStatus, TimeOut, Commit
<1>3. ASSUME NEW q \in Requests, SaveGoesOn(q) \/ Stored(q) \/ NotStored(q)
      PROVE  StoreNext
  BY <1>3 DEF SaveGoesOn, Stored, NotStored, StoreNext, ServiceNext, SaveNext
<1>4. CASE ServiceCrash \/ ServiceStart \/ FilesDamaged
  BY <1>4 DEF ServiceCrash, ServiceStart, FilesDamaged, StoreNext, ServiceNext
<1>5. CASE UNCHANGED vars
  BY <1>5 DEF vars
<1> QED BY <1>1, <1>2, <1>3, <1>4, <1>5 DEF RegistrationNext, HandlerNext

\* The steps of the account store after an account is entered leave accounts
\* that match the ledger, in memory and in the files.
LEMMA StoreKeepsMatch ==
  ASSUME MatchInv, UNCHANGED ledger,
         SaveNext \/ Crash \/ Start \/ DamageNext \/ UNCHANGED storeVars
  PROVE  /\ Matches(accounts)'
         /\ \A f \in FileNames : Matches(file[f].accounts)'
         /\ saving'.at # "unlocked" =>
              /\ saving.at # "unlocked" /\ saving'.request = saving.request
              /\ Matches(saving.previous.accounts)'
<1>t. /\ file \in [FileNames -> Contents] /\ accounts \in Generations
      /\ saving \in [at : SaveSteps \cup {"unlocked"}, name : Names \cup {None},
                     request : Requests \cup {None}, previous : Contents]
  BY DEF MatchInv, RegistrationTypeOK, StoreTypeOK
<1>m. /\ Matches(accounts) /\ \A f \in FileNames : Matches(file[f].accounts)
      /\ saving.at # "unlocked" => Matches(saving.previous.accounts)
      /\ Matches(Missing.accounts) /\ Matches(Damaged.accounts)
  BY DEF MatchInv, AccountsMatchLedger, Matches, Missing, Damaged, NoAccounts
<1> USE DEF Matches
<1>1. ASSUME NEW f \in FileNames, NEW c, Matches(c.accounts),
             file' = [file EXCEPT ![f] = c] \/ UNCHANGED file
      PROVE  \A g \in FileNames : Matches(file[g].accounts)'
  BY <1>1, <1>t, <1>m
<1>2. CASE ReadPrevious
  BY <1>2, <1>m, <1>t DEF ReadPrevious, FileNames
<1>3. CASE CreateBackup
  <2>1. file' = [file EXCEPT ![".bak.tmp"] = Damaged]
    BY <1>3 DEF CreateBackup
  <2>2. \A g \in FileNames : Matches(file[g].accounts)'
    BY <2>1, <1>m, <1>1 DEF FileNames
  <2>3. /\ UNCHANGED accounts /\ saving.at # "unlocked"
        /\ saving'.request = saving.request /\ saving'.previous = saving.previous
    BY <1>3, <1>t DEF CreateBackup, SaveStep
  <2> QED BY <1>m, <2>2, <2>3
<1>4. CASE FillBackup
  <2>1. file' = [file EXCEPT ![".bak.tmp"] = saving.previous]
    BY <1>4 DEF FillBackup
  <2>2. \A g \in FileNames : Matches(file[g].accounts)'
    BY <2>1, <1>m, <1>1, <1>4 DEF FillBackup, SaveStep, FileNames
  <2>3. /\ UNCHANGED accounts /\ saving.at # "unlocked"
        /\ saving'.request = saving.request /\ saving'.previous = saving.previous
    BY <1>4, <1>t DEF FillBackup, SaveStep
  <2> QED BY <1>m, <2>2, <2>3
<1>5. CASE RenameBackup
  BY <1>5, <1>m, <1>t DEF RenameBackup, SaveStep, FileNames
<1>12. CASE CreateTemporary
  <2>1. file' = [file EXCEPT ![".tmp"] = Damaged]
    BY <1>12 DEF CreateTemporary
  <2>2. \A g \in FileNames : Matches(file[g].accounts)'
    BY <2>1, <1>m, <1>1 DEF FileNames
  <2>3. /\ UNCHANGED accounts /\ saving.at # "unlocked"
        /\ saving'.request = saving.request /\ saving'.previous = saving.previous
    BY <1>12, <1>t DEF CreateTemporary, SaveStep
  <2> QED BY <1>m, <2>2, <2>3
<1>13. CASE FillTemporary
  <2>1. file' = [file EXCEPT ![".tmp"] = Whole(accounts)]
    BY <1>13 DEF FillTemporary
  <2>2. \A g \in FileNames : Matches(file[g].accounts)'
    BY <2>1, <1>m, <1>1 DEF FileNames, Whole
  <2>3. /\ UNCHANGED accounts /\ saving.at # "unlocked"
        /\ saving'.request = saving.request /\ saving'.previous = saving.previous
    BY <1>13, <1>t DEF FillTemporary, SaveStep
  <2> QED BY <1>m, <2>2, <2>3
<1>6. CASE RenameTemporary
  BY <1>6, <1>m, <1>t DEF RenameTemporary, Unlocked, FileNames
<1>7. CASE SaveFails
  BY <1>7, <1>m, <1>t DEF SaveFails, Unlocked, Generations
<1>8. CASE Crash
  BY <1>8, <1>m DEF Crash, Unlocked, Missing
<1>9. CASE Start
  BY <1>9, <1>m DEF Start, LoadedFile, FileNames
<1>10. CASE DamageNext
  BY <1>10, <1>m, <1>1 DEF DamageNext, Damage, FileNames
<1>11. CASE UNCHANGED storeVars
  BY <1>11, <1>m DEF storeVars
<1> QED BY <1>2, <1>3, <1>4, <1>5, <1>6, <1>7, <1>8, <1>9, <1>10, <1>11, <1>12, <1>13 DEF SaveNext

LEMMA RegistrationTypeStep ==
  ASSUME MatchInv, [RegistrationNext]_vars
  PROVE  RegistrationTypeOK'
<1>0. StoreTypeOK' /\ RegistrationTypeOK
  BY StoreSide, StoreTypeStep DEF MatchInv, RegistrationTypeOK
<1> USE DEF RegistrationTypeOK, Phases
<1>1. ASSUME NEW q \in Requests, NEW n \in Names, Validate(q, n)
      PROVE  RegistrationTypeOK'
  BY <1>0, <1>1 DEF Validate
<1>2. ASSUME NEW q \in Requests, GiveUp(q) \/ CommitStatus(q) \/ TimeOut(q)
      PROVE  RegistrationTypeOK'
  BY <1>0, <1>2 DEF GiveUp, CommitStatus, TimeOut, GoesTo
<1>8. ASSUME NEW q \in Requests, Submit(q)
      PROVE  RegistrationTypeOK'
  BY <1>0, <1>8 DEF Submit, GoesTo
<1>3. ASSUME NEW q \in Requests, StoreAccount(q)
      PROVE  RegistrationTypeOK'
  BY <1>0, <1>3 DEF StoreAccount, GoesTo
<1>4. ASSUME NEW q \in Requests, SaveGoesOn(q) \/ Stored(q) \/ NotStored(q)
      PROVE  RegistrationTypeOK'
  BY <1>0, <1>4 DEF SaveGoesOn, Stored, NotStored, GoesTo, registerVars
<1>5. ASSUME NEW q \in Requests, Commit(q)
      PROVE  RegistrationTypeOK'
  <2>1. ledger' \in [Names -> Requests \cup {None}]
    BY <1>0, <1>5 DEF Commit
  <2>2. transaction' \in [Requests -> {"none", "ordered", "valid", "invalid"}]
    BY <1>0, <1>5 DEF Commit
  <2> QED BY <1>0, <1>5, <2>1, <2>2 DEF Commit
<1>6. CASE ServiceStart \/ FilesDamaged
  BY <1>0, <1>6 DEF ServiceStart, FilesDamaged, registerVars
<1>9. CASE ServiceCrash
  <2>1. request' \in [Requests -> [phase : Phases, name : Names \cup {None}]]
    BY <1>0, <1>9 DEF ServiceCrash
  <2> QED BY <1>0, <1>9, <2>1 DEF ServiceCrash
<1>7. CASE UNCHANGED vars
  BY <1>0, <1>7 DEF vars, registerVars
<1> QED BY <1>8, <1>9, <1>1, <1>2, <1>3, <1>4, <1>5, <1>6, <1>7 DEF RegistrationNext, HandlerNext

\* Steps that leave the ledger and the transactions alone, and after which
\* the accounts match.
LEMMA MatchKept ==
  ASSUME MatchInv, RegistrationTypeOK', UNCHANGED <<ledger, transaction>>,
         AccountsMatch',
         \A q \in Requests : request'[q].phase # "new" =>
              request'[q].name \in Names /\ (request[q].phase = "new" \/ request'[q].name = request[q].name),
         \A q \in Requests : request'[q].phase = "new" => request[q].phase = "new",
         \A q \in Requests : request'[q].phase = "registered" => transaction[q] = "valid",
         \A q \in Requests : transaction[q] # "none" => request'[q].phase # "validated",
         \A q \in acknowledged' : request'[q].phase = "done" /\ transaction[q] = "valid"
  PROVE  MatchInv'
<1>1. \A q \in Requests : transaction[q] = "valid" => ledger[request'[q].name] = q
  BY DEF MatchInv, NameOf
<1>2. \A q \in acknowledged' : ledger[request'[q].name] = q
  BY <1>1 DEF RegistrationTypeOK, StoreTypeOK
<1>3. AccountsMatchLedger'
  BY <1>2 DEF AccountsMatchLedger, AccountsMatch, NameOf
<1> QED BY <1>1, <1>3 DEF MatchInv, AccountsMatch, NameOf

LEMMA MatchStep ==
  ASSUME MatchInv, [RegistrationNext]_vars
  PROVE  MatchInv'
<1>0. RegistrationTypeOK' /\ RegistrationTypeOK
  BY RegistrationTypeStep DEF MatchInv
<1>t. /\ request \in [Requests -> [phase : Phases, name : Names \cup {None}]]
      /\ acknowledged \subseteq Requests /\ accounts \in Generations
      /\ transaction \in [Requests -> {"none", "ordered", "valid", "invalid"}]
      /\ ledger \in [Names -> Requests \cup {None}]
      /\ saving.at # "unlocked" => saving.name \in Names /\ saving.request \in Requests
  BY <1>0 DEF RegistrationTypeOK, StoreTypeOK
<1>m. ASSUME UNCHANGED ledger,
             UNCHANGED transaction,
             SaveNext \/ Crash \/ Start \/ DamageNext \/ UNCHANGED storeVars
      PROVE  AccountsMatch'
  BY <1>m, StoreKeepsMatch DEF MatchInv, AccountsMatch
<1>k. ASSUME NEW q \in Requests, RegistrationTypeOK', AccountsMatch',
             UNCHANGED <<acknowledged, ledger, transaction>>,
             request[q].phase = "registered", request'[q].name = request[q].name,
             request'[q].phase \in {"failed", "storing"},
             \A x \in Requests : x # q => request'[x] = request[x]
      PROVE  MatchInv'
  <2>1. \A x \in Requests :
          /\ request'[x].phase # "new" =>
                request'[x].name \in Names /\ request'[x].name = request[x].name
          /\ request'[x].phase = "new" => request[x].phase = "new"
          /\ request'[x].phase = "registered" => transaction[x] = "valid"
          /\ transaction[x] # "none" => request'[x].phase # "validated"
    BY <1>k DEF MatchInv, NameOf
  <2>2. \A x \in acknowledged' : request'[x].phase = "done" /\ transaction[x] = "valid"
    BY <1>k, <1>t DEF MatchInv
  <2> QED BY <1>k, <2>1, <2>2, MatchKept
<1>u. ASSUME RegistrationTypeOK', AccountsMatch', UNCHANGED <<acknowledged, request, ledger, transaction>>
      PROVE  MatchInv'
  BY <1>u, <1>t DEF MatchInv, AccountsMatch, AccountsMatchLedger, NameOf
<1> USE DEF NameOf
<1>1. ASSUME NEW q \in Requests, NEW n \in Names, Validate(q, n)
      PROVE  MatchInv'
  <2>1. UNCHANGED <<storeVars, acknowledged, ledger, transaction>> /\ request[q].phase = "new"
    BY <1>1 DEF Validate, storeVars
  <2>2. request'[q].phase \in {"failed", "validated"} /\ request'[q].name = n
    BY <1>1, <1>t DEF Validate
  <2>3. \A x \in Requests : x # q => request'[x] = request[x]
    BY <1>1, <1>t DEF Validate
  <2>4. \A x \in Requests : request'[x].phase # "new" =>
          request'[x].name \in Names /\ (request[x].phase = "new" \/ request'[x].name = request[x].name)
    BY <2>1, <2>2, <2>3 DEF MatchInv
  <2>5. \A x \in Requests : /\ request'[x].phase = "new" => request[x].phase = "new"
                            /\ request'[x].phase = "registered" => transaction[x] = "valid"
    BY <2>1, <2>2, <2>3 DEF MatchInv
  <2>6. \A x \in acknowledged' : request'[x].phase = "done" /\ transaction[x] = "valid"
    BY <1>t, <2>1, <2>2, <2>3 DEF MatchInv
  <2>7. \A x \in Requests : transaction[x] # "none" => request'[x].phase # "validated"
    BY <2>1, <2>2, <2>3 DEF MatchInv
  <2>8. AccountsMatch'
    BY <1>m, <2>1
  <2>9. RegistrationTypeOK' /\ UNCHANGED <<ledger, transaction>>
    BY <1>0, <2>1
  <2> QED BY <2>4, <2>5, <2>6, <2>7, <2>8, <2>9, MatchKept
<1>2. ASSUME NEW q \in Requests, GiveUp(q) \/ CommitStatus(q) \/ TimeOut(q)
      PROVE  MatchInv'
  <2>1. UNCHANGED <<storeVars, acknowledged, ledger, transaction>>
    BY <1>2 DEF GiveUp, CommitStatus, TimeOut, storeVars
  <2>2. /\ request[q].phase \in {"validated", "submitted"}
        /\ \/ request'[q].phase = "failed"
           \/ request'[q].phase = "registered" /\ transaction[q] = "valid"
        /\ request'[q].name = request[q].name
        /\ \A x \in Requests : x # q => request'[x] = request[x]
    BY <1>2, <1>t DEF GiveUp, CommitStatus, TimeOut, GoesTo
  <2>4. \A x \in Requests : request'[x].phase # "new" =>
          request'[x].name \in Names /\ (request[x].phase = "new" \/ request'[x].name = request[x].name)
    BY <2>1, <2>2 DEF MatchInv
  <2>5. \A x \in Requests : /\ request'[x].phase = "new" => request[x].phase = "new"
                            /\ request'[x].phase = "registered" => transaction[x] = "valid"
    BY <2>1, <2>2 DEF MatchInv
  <2>6. \A x \in acknowledged' : request'[x].phase = "done" /\ transaction[x] = "valid"
    BY <1>t, <2>1, <2>2 DEF MatchInv
  <2>7. \A x \in Requests : transaction[x] # "none" => request'[x].phase # "validated"
    BY <2>1, <2>2 DEF MatchInv
  <2>8. AccountsMatch'
    BY <1>m, <2>1
  <2>9. RegistrationTypeOK' /\ UNCHANGED <<ledger, transaction>>
    BY <1>0, <2>1
  <2> QED BY <2>4, <2>5, <2>6, <2>7, <2>8, <2>9, MatchKept
<1>3. ASSUME NEW q \in Requests, Submit(q)
      PROVE  MatchInv'
  <2>1. UNCHANGED <<accounts, file, saving, acknowledged, ledger>>
    BY <1>3 DEF Submit, storeVars
  <2>2. /\ request[q].phase = "validated"
        /\ request'[q].phase \in {"submitted", "failed"} /\ request'[q].name = request[q].name
        /\ \A x \in Requests : x # q => request'[x] = request[x] /\ transaction'[x] = transaction[x]
        /\ transaction'[q] \in {"ordered", transaction[q]}
    BY <1>3, <1>t DEF Submit, GoesTo
  <2>3. transaction[q] = "valid" => FALSE
    BY <2>2 DEF MatchInv
  <2>4. AccountsMatchLedger'
    <3>1. \A x \in Requests : request'[x].name = request[x].name
      BY <2>2
    <3> QED BY <1>t, <2>1, <3>1 DEF MatchInv, AccountsMatchLedger, Matches
  <2>5. \A x \in Requests :
          /\ request'[x].phase # "new" => request'[x].name \in Names
          /\ transaction'[x] # "none" => request'[x].phase \notin {"new", "validated"}
          /\ transaction'[x] = "valid" => ledger[request'[x].name] = x
          /\ request'[x].phase = "registered" => transaction'[x] = "valid"
    BY <2>2, <2>3 DEF MatchInv
  <2>6. \A x \in acknowledged : request'[x].phase = "done" /\ transaction'[x] = "valid"
    BY <1>t, <2>2 DEF MatchInv
  <2>7. saving.at # "unlocked" => transaction'[saving.request] = "valid"
    BY <1>t, <2>2, <2>3 DEF MatchInv
  <2> QED BY <1>0, <2>1, <2>4, <2>5, <2>6, <2>7 DEF MatchInv, Matches
<1>4. ASSUME NEW q \in Requests, StoreAccount(q)
      PROVE  MatchInv'
  <2>1. /\ UNCHANGED <<file, acknowledged, ledger, transaction>>
        /\ request[q].phase = "registered" /\ request'[q].name = request[q].name
        /\ request'[q].phase \in {"failed", "storing"}
        /\ \A x \in Requests : x # q => request'[x] = request[x]
    BY <1>4, <1>t DEF StoreAccount, GoesTo, RegisterAccount, storeVars
  <2>2. request[q].name \in Names /\ transaction[q] = "valid" /\ ledger[request[q].name] = q
    BY <2>1 DEF MatchInv
  <2>3. CASE UNCHANGED storeVars
    <3>1. AccountsMatch'
      BY <1>m, <2>1, <2>3
    <3> QED BY <1>0, <1>k, <2>1, <2>2, <3>1
  <2>4. CASE RegisterAccount(NameOf(q), q)
    <3>1. /\ accounts' = [accounts EXCEPT ![request[q].name] = q]
          /\ saving'.request = q /\ saving'.previous = Missing
      BY <2>4 DEF RegisterAccount, Unlocked
    <3>2. Matches(accounts)'
      BY <1>t, <2>1, <2>2, <3>1 DEF MatchInv, AccountsMatchLedger, Matches, Generations
    <3>3. \A f \in FileNames : Matches(file[f].accounts)'
      BY <2>1 DEF MatchInv, AccountsMatchLedger, Matches
    <3>4. Matches(saving.previous.accounts)'
      BY <3>1 DEF Matches, Missing, NoAccounts
    <3>5. AccountsMatch'
      BY <2>1, <2>2, <3>1, <3>2, <3>3, <3>4 DEF AccountsMatch
    <3> QED BY <1>0, <1>k, <2>1, <2>2, <3>5
  <2> QED BY <1>4, <2>3, <2>4 DEF StoreAccount
<1>5. ASSUME NEW q \in Requests, SaveGoesOn(q)
      PROVE  MatchInv'
  <2>1. SaveNext /\ UNCHANGED <<acknowledged, request, ledger, transaction>>
    BY <1>5 DEF SaveGoesOn, SaveNext, registerVars, ReadPrevious, CreateBackup, FillBackup,
                RenameBackup, CreateTemporary, FillTemporary, SaveStep
  <2>2. AccountsMatch'
    BY <1>m, <2>1
  <2> QED BY <1>0, <1>u, <2>1, <2>2
<1>6. ASSUME NEW q \in Requests, Stored(q) \/ NotStored(q)
      PROVE  MatchInv'
  <2>1. /\ SaveNext /\ UNCHANGED <<ledger, transaction>>
        /\ request[q].phase = "storing" /\ request'[q].name = request[q].name
        /\ \A x \in Requests : x # q => request'[x] = request[x]
        /\ \/ request'[q].phase = "done" /\ acknowledged' = acknowledged \cup {q}
           \/ request'[q].phase = "failed" /\ acknowledged' = acknowledged
    BY <1>6, <1>t DEF Stored, NotStored, GoesTo, SaveNext, RenameTemporary, SaveFails
  <2>2. transaction[q] = "valid"
    BY <1>6 DEF Stored, NotStored, RenameTemporary, SaveFails, MatchInv
  <2>3. AccountsMatch'
    BY <1>m, <2>1
  <2>4. q \notin acknowledged /\ request[q].name \in Names
    BY <2>1 DEF MatchInv
  <2>5. /\ \A x \in Requests : x # q => request'[x] = request[x]
        /\ request'[q].phase \in {"failed", "storing", "done"}
    BY <2>1
  <2>6. \A x \in acknowledged' : request'[x].phase = "done" /\ transaction[x] = "valid"
    BY <1>t, <2>1, <2>2, <2>4 DEF MatchInv
  <2>7. \A x \in Requests :
          /\ request'[x].phase # "new" =>
                request'[x].name \in Names /\ request'[x].name = request[x].name
          /\ request'[x].phase = "new" => request[x].phase = "new"
          /\ request'[x].phase = "registered" => transaction[x] = "valid"
          /\ transaction[x] # "none" => request'[x].phase # "validated"
    BY <2>1, <2>2, <2>4, <2>5 DEF MatchInv
  <2> QED BY <1>0, <2>1, <2>3, <2>6, <2>7, MatchKept
<1>7. ASSUME NEW q \in Requests, Commit(q)
      PROVE  MatchInv'
  <2>1. UNCHANGED <<accounts, file, saving, acknowledged, request>> /\ transaction[q] = "ordered"
    BY <1>7 DEF Commit, storeVars
  <2>2. /\ transaction'[q] \in {"valid", "invalid"}
        /\ \A x \in Requests : x # q => transaction'[x] = transaction[x]
    BY <1>7, <1>t DEF Commit
  <2>3. request[q].name \in Names /\ q \notin acknowledged
        /\ (saving.at # "unlocked" => saving.request # q)
    BY <2>1 DEF MatchInv
  <2>4. \A n \in Names : ledger[n] # None => ledger'[n] = ledger[n]
    BY <1>7, <1>t DEF Commit
  <2>5. transaction'[q] = "valid" => ledger'[request[q].name] = q
    BY <1>7, <1>t, <2>3 DEF Commit
  <2>6. \A g : Matches(g) => \A n \in Names : g[n] \in {None, ledger'[n]}
    BY <2>4 DEF Matches
  <2>7. Matches(accounts)' /\ (\A f \in FileNames : Matches(file[f].accounts)')
        /\ (saving.at # "unlocked" => Matches(saving.previous.accounts)')
    BY <2>1, <2>6 DEF MatchInv, AccountsMatchLedger, Matches
  <2>8. \A x \in Requests : transaction[x] = "valid" =>
          transaction'[x] = "valid" /\ ledger'[request[x].name] = x
    <3> SUFFICES ASSUME NEW x \in Requests, transaction[x] = "valid"
                 PROVE  transaction'[x] = "valid" /\ ledger'[request[x].name] = x
      OBVIOUS
    <3>1. ledger[request[x].name] = x /\ request[x].name \in Names /\ x # None
      BY RequestsAssumption DEF MatchInv
    <3> QED BY <2>1, <2>2, <2>4, <3>1
  <2>9. AccountsMatchLedger'
    BY <1>t, <2>1, <2>7, <2>8 DEF MatchInv, AccountsMatchLedger
  <2>10. \A x \in Requests : transaction'[x] = "valid" => ledger'[request[x].name] = x
    BY <2>2, <2>5, <2>8
  <2> QED BY <1>0, <1>t, <2>1, <2>2, <2>3, <2>7, <2>8, <2>9, <2>10 DEF MatchInv
<1>8. CASE ServiceCrash
  <2>1. Crash /\ UNCHANGED <<acknowledged, ledger, transaction>>
    BY <1>8 DEF ServiceCrash, Crash
  <2>2. \A x \in Requests : /\ request'[x].name = request[x].name
                            /\ \/ request'[x] = request[x]
                               \/ request'[x].phase = "failed" /\ request[x].phase \in Running
    BY <1>8, <1>t DEF ServiceCrash
  <2>3. \A x \in Requests :
          /\ request'[x].phase # "new" =>
                request'[x].name \in Names /\ request'[x].name = request[x].name
          /\ request'[x].phase = "new" => request[x].phase = "new"
          /\ request'[x].phase = "registered" => transaction[x] = "valid"
          /\ transaction[x] # "none" => request'[x].phase # "validated"
    BY <2>2 DEF MatchInv, Running
  <2>4. \A x \in acknowledged' : request'[x].phase = "done" /\ transaction[x] = "valid"
    BY <1>t, <2>1, <2>2 DEF MatchInv, Running
  <2>5. AccountsMatch'
    BY <1>m, <2>1
  <2> QED BY <1>0, <2>1, <2>3, <2>4, <2>5, MatchKept
<1>9. CASE ServiceStart \/ FilesDamaged \/ UNCHANGED vars
  <2>1. /\ Start \/ DamageNext \/ UNCHANGED storeVars
        /\ UNCHANGED <<acknowledged, request, ledger, transaction>>
    BY <1>9 DEF ServiceStart, FilesDamaged, vars, registerVars, storeVars, Start, DamageNext, Damage
  <2>2. AccountsMatch'
    BY <1>m, <2>1
  <2> QED BY <1>0, <1>u, <2>1, <2>2
<1> QED BY <1>1, <1>2, <1>3, <1>4, <1>5, <1>6, <1>7, <1>8, <1>9 DEF RegistrationNext, HandlerNext

\* Registrations use the account store under its lock and never store a
\* password twice: what is proved of every use of the store holds here.
THEOREM RegistrationsUseTheStore == RegistrationSpec => UsesAccountStore
<1>1. RegistrationInit => StoreInit
  BY DEF RegistrationInit
<1>2. MatchInv /\ [RegistrationNext]_vars => [StoreNext]_storeVars
  BY StoreSide
<1>3. MatchInv /\ [RegistrationNext]_vars => MatchInv'
  BY MatchStep
<1> QED BY <1>1, <1>2, <1>3, MatchInit, PTL DEF RegistrationSpec, UsesAccountStore

\* A login account always belongs to the user its name has on the ledger,
\* and a registration that was answered with success is that user.
THEOREM AccountsBelongToUsers == RegistrationSpec => []AccountsMatchLedger
<1>1. MatchInv => AccountsMatchLedger
  BY DEF MatchInv
<1>2. MatchInv /\ [RegistrationNext]_vars => MatchInv'
  BY MatchStep
<1> QED BY <1>1, <1>2, MatchInit, PTL DEF RegistrationSpec

\* Map, files, handlers, transactions and ledger keep their shape.
THEOREM RegistrationTypeCorrect == RegistrationSpec => []RegistrationTypeOK
<1>1. MatchInv => RegistrationTypeOK
  BY DEF MatchInv
<1>2. MatchInv /\ [RegistrationNext]_vars => MatchInv'
  BY MatchStep
<1> QED BY <1>1, <1>2, MatchInit, PTL DEF RegistrationSpec

----------------------------------------------------------------------------
(* As long as nothing went wrong, every transaction is on its way to an    *)
(* account: no demo name is sent to the ledger, nobody gives up what was   *)
(* sent, and the second look at the name never refuses.                    *)
Smooth ==
    /\ up
    /\ \A q \in Requests : transaction[q] # "none" \/ request[q].phase = "validated" =>
          NameOf(q) \notin DemoNames
    /\ \A q \in Requests : transaction[q] = "ordered" => request[q].phase = "submitted"
    /\ \A q \in Requests : transaction[q] = "valid" =>
          request[q].phase \in {"submitted", "registered"} \/ accounts[NameOf(q)] = q
    /\ \A n \in Names : ledger[n] # None =>
          transaction[ledger[n]] = "valid" /\ NameOf(ledger[n]) = n
    /\ \A n \in Names : accounts[n] # None => request[accounts[n]].phase \in {"storing", "done"}

SmoothInv == MatchInv /\ (~troubled => Smooth)

LEMMA SmoothInit == RegistrationInit => SmoothInv
BY MatchInit DEF RegistrationInit, StoreInit, NoAccounts, SmoothInv, Smooth

LEMMA SmoothStep ==
  ASSUME SmoothInv, [RegistrationNext]_vars
  PROVE  SmoothInv'
<1>0. MatchInv /\ MatchInv'
  BY MatchStep DEF SmoothInv
<1> SUFFICES ASSUME ~troubled' PROVE Smooth'
  BY <1>0 DEF SmoothInv
<1>t. /\ request \in [Requests -> [phase : Phases, name : Names \cup {None}]]
      /\ accounts \in Generations
      /\ transaction \in [Requests -> {"none", "ordered", "valid", "invalid"}]
      /\ ledger \in [Names -> Requests \cup {None}]
  BY <1>0 DEF MatchInv, RegistrationTypeOK, StoreTypeOK
<1>a. /\ \A q \in Requests : request[q].phase # "new" => NameOf(q) \in Names
      /\ \A q \in Requests : transaction[q] # "none" => request[q].phase \notin {"new", "validated"}
      /\ \A q \in Requests : request[q].phase = "registered" => transaction[q] = "valid"
      /\ \A n \in Names : accounts[n] \in {None, ledger[n]}
  BY <1>0 DEF MatchInv, AccountsMatchLedger, Matches
<1> USE RequestsAssumption DEF NameOf, Generations
<1>1. ASSUME NEW q \in Requests, NEW n \in Names, Validate(q, n), ~troubled
      PROVE  Smooth'
  BY <1>t, <1>a, <1>1 DEF Validate, Taken, SmoothInv, Smooth, storeVars
<1>2. ASSUME NEW q \in Requests, GiveUp(q), ~troubled
      PROVE  Smooth'
  BY <1>t, <1>a, <1>2 DEF GiveUp, GoesTo, SmoothInv, Smooth, storeVars
<1>3. ASSUME NEW q \in Requests, Submit(q), ~troubled
      PROVE  Smooth'
  BY <1>t, <1>a, <1>3 DEF Submit, GoesTo, SmoothInv, Smooth, storeVars
<1>4. ASSUME NEW q \in Requests, CommitStatus(q), ~troubled
      PROVE  Smooth'
  <2>1. /\ Smooth /\ request[q].phase = "submitted" /\ transaction[q] \in {"valid", "invalid"}
        /\ UNCHANGED <<storeVars, ledger, transaction>>
    BY <1>4 DEF CommitStatus, GoesTo, SmoothInv
  <2>2. /\ request'[q].name = request[q].name
        /\ request'[q].phase = IF transaction[q] = "valid" THEN "registered" ELSE "failed"
        /\ \A x \in Requests : x # q => request'[x] = request[x]
    BY <1>t, <1>4 DEF CommitStatus, GoesTo
  <2> QED BY <1>t, <2>1, <2>2 DEF Smooth, storeVars
<1>5. ASSUME NEW q \in Requests, StoreAccount(q), ~troubled
      PROVE  Smooth'
  <2>1. Smooth /\ request[q].phase = "registered" /\ transaction[q] = "valid"
    BY <1>5, <1>a DEF StoreAccount, SmoothInv
  <2>2. request[q].name \in Names /\ request[q].name \notin DemoNames
    BY <2>1, <1>a DEF Smooth
  <2>3. ledger[request[q].name] = q
    BY <2>1, <1>0 DEF MatchInv
  <2>4. accounts[request[q].name] = None
    BY <2>1, <2>2, <2>3, <1>a DEF Smooth
  <2>5. RegisterAccount(NameOf(q), q) /\ GoesTo(q, "registered", "storing")
    BY <1>5, <2>2, <2>4 DEF StoreAccount, Taken
  <2>6. /\ up' = up /\ accounts' = [accounts EXCEPT ![request[q].name] = q]
        /\ UNCHANGED <<ledger, transaction>>
    BY <1>5, <2>5 DEF StoreAccount, RegisterAccount
  <2>7. /\ request'[q].name = request[q].name /\ request'[q].phase = "storing"
        /\ \A x \in Requests : x # q => request'[x] = request[x]
    BY <1>t, <2>5 DEF GoesTo
  <2>8. /\ accounts'[request[q].name] = q
        /\ \A n \in Names : n # request[q].name => accounts'[n] = accounts[n]
    BY <1>t, <2>2, <2>6
  <2>9. \A x \in Requests : transaction[x] = "valid" =>
          request'[x].phase \in {"submitted", "registered"} \/ accounts'[request'[x].name] = x
    <3> SUFFICES ASSUME NEW x \in Requests, x # q, transaction[x] = "valid"
                 PROVE  request[x].phase \in {"submitted", "registered"}
                          \/ accounts'[request[x].name] = x
      BY <2>7, <2>8
    <3>1. ledger[request[x].name] = x
      BY <1>0 DEF MatchInv
    <3>2. request[x].name \in Names
      BY <1>a
    <3> QED BY <2>1, <2>3, <2>8, <3>1, <3>2 DEF Smooth
  <2>10. \A n \in Names : accounts'[n] # None => request'[accounts'[n]].phase \in {"storing", "done"}
    BY <1>t, <2>1, <2>7, <2>8 DEF Smooth
  <2>11. \A n \in Names : ledger[n] # None =>
          transaction[ledger[n]] = "valid" /\ request'[ledger[n]].name = n
    BY <1>t, <2>1, <2>7 DEF Smooth
  <2> QED BY <2>1, <2>2, <2>6, <2>7, <2>9, <2>10, <2>11 DEF Smooth
<1>6. ASSUME NEW q \in Requests, SaveGoesOn(q), ~troubled
      PROVE  Smooth'
  <2>1. UNCHANGED <<up, accounts>>
    BY <1>6 DEF SaveGoesOn, ReadPrevious, CreateBackup, FillBackup, RenameBackup,
                CreateTemporary, FillTemporary, SaveStep
  <2> QED BY <1>6, <2>1 DEF SaveGoesOn, registerVars, SmoothInv, Smooth
<1>7. ASSUME NEW q \in Requests, Stored(q), ~troubled
      PROVE  Smooth'
  BY <1>t, <1>a, <1>7 DEF Stored, RenameTemporary, GoesTo, SmoothInv, Smooth
<1>8. ASSUME NEW q \in Requests, Commit(q), ~troubled
      PROVE  Smooth'
  BY <1>t, <1>a, <1>8 DEF Commit, SmoothInv, Smooth, storeVars
<1>9. CASE ServiceStart /\ ~troubled
  BY <1>9 DEF ServiceStart, Start, registerVars, SmoothInv, Smooth
<1>10. CASE UNCHANGED vars
  BY <1>10 DEF vars, storeVars, registerVars, SmoothInv, Smooth
<1>11. \A q \in Requests : ~TimeOut(q) /\ ~NotStored(q)
  BY DEF TimeOut, NotStored
<1>12. ~ServiceCrash /\ ~FilesDamaged
  BY DEF ServiceCrash, FilesDamaged
<1>13. CASE RegistrationNext /\ ~troubled
  BY <1>1, <1>2, <1>3, <1>4, <1>5, <1>6, <1>7, <1>8, <1>9, <1>11, <1>12, <1>13
     DEF RegistrationNext, HandlerNext
<1>14. troubled => troubled'
  <2>1. CASE RegistrationNext
    BY <2>1 DEF RegistrationNext, HandlerNext, Validate, GiveUp, Submit, CommitStatus, TimeOut,
                StoreAccount, SaveGoesOn, Stored, NotStored, Commit, ServiceCrash, ServiceStart,
                FilesDamaged, registerVars
  <2> QED BY <2>1 DEF vars, registerVars
<1> QED BY <1>10, <1>13, <1>14

\* Without time-outs, failed saves, crashes and damage, a user on the ledger
\* has a login account or a handler on its way to store one.
THEOREM NobodyIsLeftOnTheChain == RegistrationSpec => []ChainOnlyNeedsTrouble
<1>1. SmoothInv => ChainOnlyNeedsTrouble
  BY DEF SmoothInv, Smooth, MatchInv, RegistrationTypeOK, ChainOnlyNeedsTrouble
<1>2. SmoothInv /\ [RegistrationNext]_vars => SmoothInv'
  BY SmoothStep
<1> QED BY <1>1, <1>2, SmoothInit, PTL DEF RegistrationSpec
============================================================================
