------------------------- MODULE AccountArchive_proofs -------------------------
(***************************************************************************)
(* Proofs about AccountLifecycle, for every number of accounts, browsers   *)
(* and superusers, and whichever accounts cannot be deleted; and about      *)
(* ArchiveRows with ArchivePages and ActivityCalendar, for every number of   *)
(* events, places, works and days, and whatever is saved of an event or an    *)
(* item.                                                                    *)
(***************************************************************************)
EXTENDS AccountLifecycle, ArchivePages, ActivityCalendar, FiniteSetTheorems,
        WellFoundedInduction, TLAPS

\* What the proofs need of the types.
AccountType ==
    account \in [Accounts -> [exists : BOOLEAN, requested : Ages,
                              staff : BOOLEAN, active : BOOLEAN]]
SessionType ==
    /\ session \in [Sessions -> {"out", "authenticated", "signalled", "live"}]
    /\ asking \in [Sessions -> {"no", "checked", "saved"}]
Holding ==
    [state : {"holding"}, account : Accounts, flag : Flags, enabled : BOOLEAN,
     changes : BOOLEAN]
AdminType == admin \in [Admins -> {[state |-> "idle"]} \cup Holding]
LoggedType ==
    flagLog \in [twice : BOOLEAN, flags : [Accounts -> [Flags -> BOOLEAN]]]
Types == AccountType /\ SessionType /\ AdminType /\ LoggedType

-----------------------------------------------------------------------------
(***************************************************************************)
(* Types.                                                                  *)
(***************************************************************************)

LEMMA InitTypes == AccountInit => Types
<1> SUFFICES ASSUME AccountInit PROVE Types
    OBVIOUS
<1>1. AccountType
    BY DEF AccountInit, AccountType, Ages
<1>2. SessionType /\ AdminType
    BY DEF AccountInit, SessionType, AdminType
<1>3. LoggedType
    BY DEF AccountInit, LoggedType
<1> QED
    BY <1>1, <1>2, <1>3 DEF Types

\* The flag a superuser set is one of the two, and the target a truth value.
LEMMA HolderType ==
    ASSUME AdminType, NEW m \in Admins, admin[m].state = "holding"
    PROVE  /\ admin[m] \in Holding
           /\ admin[m].account \in Accounts
           /\ admin[m].flag \in {"staff", "active"}
           /\ admin[m].enabled \in BOOLEAN
           /\ admin[m].changes \in BOOLEAN
<1>1. admin[m] \in Holding
    BY DEF AdminType
<1> QED
    BY <1>1 DEF Holding, Flags

LEMMA AccountSteps == Types /\ [AccountNext]_accountVars => AccountType'
<1> SUFFICES ASSUME Types, [AccountNext]_accountVars PROVE AccountType'
    OBVIOUS
<1> USE DEF Types, AccountType, Ages
<1>1. ASSUME NEW s \in Sessions, CancelDeletion(s) \/ SaveRequest(s) PROVE AccountType'
    BY <1>1 DEF CancelDeletion, SaveRequest
<1>2. ASSUME NEW a \in Accounts, GraceEnds(a) \/ PurgeAccount(a) PROVE AccountType'
  <2>1. \/ account' = account
        \/ account' = [account EXCEPT ![a].requested = "due"]
        \/ account' = [account EXCEPT ![a].exists = FALSE, ![a].requested = "none"]
    BY <1>2 DEF GraceEnds, PurgeAccount
  <2>2. ASSUME account' = [account EXCEPT ![a].exists = FALSE, ![a].requested = "none"]
        PROVE  AccountType'
    <3> DEFINE gone == [account EXCEPT ![a].exists = FALSE]
    <3>1. gone \in [Accounts -> [exists : BOOLEAN, requested : {"none", "fresh", "due"},
                                 staff : BOOLEAN, active : BOOLEAN]]
      OBVIOUS
    <3>2. account' = [gone EXCEPT ![a].requested = "none"]
      BY <2>2
    <3> HIDE DEF gone
    <3> QED
      BY <3>1, <3>2
  <2>3. CASE account' = account
    BY <2>3
  <2>4. CASE account' = [account EXCEPT ![a].requested = "due"]
    <3>1. "due" \in {"none", "fresh", "due"}
      OBVIOUS
    <3> QED
      BY <2>4, <3>1
  <2> HIDE DEF Types, AccountType, Ages
  <2> QED
    BY <2>1, <2>2, <2>3, <2>4
<1>3. ASSUME NEW m \in Admins, SetFlag(m) PROVE AccountType'
  <2> DEFINE a == admin[m].account
             enabled == admin[m].enabled
  <2>1. admin[m].flag \in {"staff", "active"} /\ a \in Accounts /\ enabled \in BOOLEAN
    BY <1>3, HolderType DEF SetFlag
  <2>2. \/ account' = account
        \/ account' = [account EXCEPT ![a].staff = enabled]
        \/ account' = [account EXCEPT ![a].active = enabled]
    BY <1>3, <2>1 DEF SetFlag
  <2> HIDE DEF a, enabled
  <2> QED
    BY <2>1, <2>2
<1> QED
    BY <1>1, <1>2, <1>3
       DEF AccountNext, accountVars, StartPurge, EndPurge, Authenticate, LoginFails, SaveSession, Logout,
           AskDeletion, EndSessions, LockAccount

LEMMA SessionSteps == Types /\ [AccountNext]_accountVars => SessionType'
<1> SUFFICES ASSUME Types, [AccountNext]_accountVars PROVE SessionType'
    OBVIOUS
<1> USE DEF Types, SessionType
<1>1. ASSUME NEW s \in Sessions,
             \/ Authenticate(s) \/ CancelDeletion(s) \/ LoginFails(s) \/ SaveSession(s)
             \/ Logout(s) \/ AskDeletion(s) \/ SaveRequest(s)
      PROVE  SessionType'
    BY <1>1 DEF Authenticate, CancelDeletion, LoginFails, SaveSession, Logout, AskDeletion,
                SaveRequest
<1>2. ASSUME NEW s \in Sessions, EndSessions(s) PROVE SessionType'
    BY <1>2 DEF EndSessions
<1> QED
    BY <1>1, <1>2
       DEF AccountNext, accountVars, StartPurge, EndPurge, GraceEnds, PurgeAccount, LockAccount, SetFlag

LEMMA AdminSteps == Types /\ [AccountNext]_accountVars => AdminType' /\ LoggedType'
<1> SUFFICES ASSUME Types, [AccountNext]_accountVars PROVE AdminType' /\ LoggedType'
    OBVIOUS
<1> USE DEF Types
<1>1. ASSUME NEW m \in Admins, NEW a \in Accounts, NEW flag \in Flags, NEW enabled \in BOOLEAN,
             LockAccount(m, a, flag, enabled)
      PROVE  AdminType' /\ LoggedType'
  <2>1. (account[a][flag] # enabled) \in BOOLEAN
    OBVIOUS
  <2> DEFINE held == [state |-> "holding", account |-> a, flag |-> flag,
                      enabled |-> enabled, changes |-> account[a][flag] # enabled]
  <2>2. held \in Holding
    BY <2>1 DEF Holding
  <2>3. admin' = [admin EXCEPT ![m] = held] /\ UNCHANGED flagLog
    BY <1>1 DEF LockAccount
  <2> HIDE DEF held
  <2>4. AdminType'
    BY <2>2, <2>3 DEF AdminType
  <2> QED
    BY <2>3, <2>4 DEF LoggedType
<1>2. ASSUME NEW m \in Admins, SetFlag(m)
      PROVE  AdminType' /\ LoggedType'
  <2>1. AdminType'
    BY <1>2 DEF SetFlag, AdminType
  <2> DEFINE a == admin[m].account
             flag == admin[m].flag
             enabled == admin[m].enabled
             twice == flagLog.twice \/ flagLog.flags[a][flag] = enabled
  <2>2. a \in Accounts /\ flag \in Flags /\ enabled \in BOOLEAN
    BY <1>2, HolderType DEF SetFlag, Flags
  <2>3. \/ flagLog' = flagLog
        \/ flagLog' = [twice |-> twice, flags |-> [flagLog.flags EXCEPT ![a][flag] = enabled]]
    BY <1>2 DEF SetFlag
  <2>4. twice \in BOOLEAN
    BY DEF LoggedType
  <2> HIDE DEF a, flag, enabled, twice
  <2>5. LoggedType'
    BY <2>2, <2>3, <2>4 DEF LoggedType
  <2> QED
    BY <2>1, <2>5
<1>3. UNCHANGED <<admin, flagLog>> => AdminType' /\ LoggedType'
    BY DEF AdminType, LoggedType
<1> QED
    BY <1>1, <1>2, <1>3
       DEF AccountNext, accountVars, StartPurge, EndPurge, GraceEnds, PurgeAccount, Authenticate,
           CancelDeletion, LoginFails, SaveSession, Logout, AskDeletion, SaveRequest, EndSessions

LEMMA TypesHold == AccountSpec => []Types
<1>1. Types /\ [AccountNext]_accountVars => Types'
    BY AccountSteps, SessionSteps, AdminSteps DEF Types
<1> QED
    BY <1>1, InitTypes, PTL DEF AccountSpec
-----------------------------------------------------------------------------
(***************************************************************************)
(* The message that a deletion is off is kept.                             *)
(***************************************************************************)

\* Whoever was told that the deletion is off has no request pending: this is
\* what the purge reads again under its lock.
ToldHasNoRequest ==
    \A a \in told : a \in Accounts /\ account[a].exists /\ account[a].requested = "none"

LEMMA ToldSteps == Types /\ ToldHasNoRequest /\ [AccountNext]_accountVars => ToldHasNoRequest'
<1> SUFFICES ASSUME Types, ToldHasNoRequest, [AccountNext]_accountVars PROVE ToldHasNoRequest'
    OBVIOUS
<1> USE DEF Types, AccountType
<1>1. ASSUME NEW s \in Sessions, CancelDeletion(s) PROVE ToldHasNoRequest'
  <2> DEFINE a == OwnerOf[s]
  <2>1. a \in Accounts
    BY AccountsAssumption
  <2>2. /\ account[a].exists
        /\ account' = [account EXCEPT ![a].requested = "none"]
        /\ told' \subseteq told \cup {a}
    BY <1>1 DEF CancelDeletion
  <2> HIDE DEF a
  <2> QED
    BY <2>1, <2>2 DEF ToldHasNoRequest
<1>2. ASSUME NEW s \in Sessions, SaveRequest(s) PROVE ToldHasNoRequest'
  <2> DEFINE a == OwnerOf[s]
  <2>1. a \in Accounts
    BY AccountsAssumption
  <2>2. \/ /\ account' = [account EXCEPT ![a].requested = "fresh"]
           /\ told' = told \ {a}
        \/ UNCHANGED <<account, told>>
    BY <1>2 DEF SaveRequest
  <2> HIDE DEF a
  <2> QED
    BY <2>1, <2>2 DEF ToldHasNoRequest
<1>3. ASSUME NEW a \in Accounts, GraceEnds(a) PROVE ToldHasNoRequest'
    BY <1>3 DEF GraceEnds, ToldHasNoRequest
<1>4. ASSUME NEW a \in Accounts, PurgeAccount(a) PROVE ToldHasNoRequest'
  <2>1. /\ told' = told
        /\ \/ account' = account
           \/ /\ account[a].requested = "due"
              /\ \A b \in Accounts : b # a => account'[b] = account[b]
    BY <1>4 DEF PurgeAccount, StillDue
  <2> QED
    BY <2>1 DEF ToldHasNoRequest
<1>5. ASSUME NEW m \in Admins, SetFlag(m) PROVE ToldHasNoRequest'
  <2> DEFINE a == admin[m].account
             enabled == admin[m].enabled
  <2>1. admin[m].flag \in {"staff", "active"} /\ a \in Accounts
    BY <1>5, HolderType DEF SetFlag
  <2>2. /\ \/ account' = account
           \/ account' = [account EXCEPT ![a].staff = enabled]
           \/ account' = [account EXCEPT ![a].active = enabled]
        /\ told' = told
    BY <1>5, <2>1 DEF SetFlag
  <2> HIDE DEF a, enabled
  <2> QED
    BY <2>1, <2>2 DEF ToldHasNoRequest
<1>6. UNCHANGED <<account, told>> => ToldHasNoRequest'
    BY DEF ToldHasNoRequest
<1> QED
    BY <1>1, <1>2, <1>3, <1>4, <1>5, <1>6
       DEF AccountNext, accountVars, StartPurge, EndPurge, Authenticate, LoginFails, SaveSession, Logout,
           AskDeletion, EndSessions, LockAccount

\* A login whose message says that the deletion is off saves the account from
\* a purge that has it on its list already.
THEOREM MessageIsKept == AccountSpec => []ToldIsKept
<1>1. AccountInit => ToldHasNoRequest
    BY DEF AccountInit, ToldHasNoRequest
<1>2. ToldHasNoRequest => ToldIsKept
    BY DEF ToldHasNoRequest, ToldIsKept
<1> QED
    BY <1>1, <1>2, ToldSteps, TypesHold, PTL DEF AccountSpec

-----------------------------------------------------------------------------
(***************************************************************************)
(* Which sessions survive a request for deletion.                          *)
(***************************************************************************)

\* Of an account whose deletion is requested and whose sessions were ended, a
\* login past its signal is late already, before its session is saved.
Surviving(s) ==
    /\ account[OwnerOf[s]].exists /\ account[OwnerOf[s]].requested # "none"
    /\ session[s] \in {"signalled", "live"}
    /\ \A t \in Sessions : OwnerOf[t] = OwnerOf[s] => asking[t] # "saved"
LoggedInIsLate == \A s \in Sessions : Surviving(s) => s \in late

\* A step that makes nobody a survivor keeps the invariant.
LEMMA NoNewSurvivor ==
    ASSUME LoggedInIsLate,
           \A s \in Sessions : Surviving(s)' => Surviving(s) /\ (s \in late => s \in late')
    PROVE  LoggedInIsLate'
BY DEF LoggedInIsLate

LEMMA SurvivorSteps == Types /\ LoggedInIsLate /\ [AccountNext]_accountVars => LoggedInIsLate'
<1> SUFFICES ASSUME Types, LoggedInIsLate, [AccountNext]_accountVars PROVE LoggedInIsLate'
    OBVIOUS
<1> USE DEF Types, AccountType, SessionType
<1>1. ASSUME NEW s \in Sessions,
             Authenticate(s) \/ LoginFails(s) \/ SaveSession(s) \/ AskDeletion(s)
      PROVE  LoggedInIsLate'
    BY <1>1, NoNewSurvivor
       DEF Authenticate, LoginFails, SaveSession, AskDeletion, Surviving
<1>2. ASSUME NEW s \in Sessions, Logout(s) PROVE LoggedInIsLate'
    BY <1>2, NoNewSurvivor DEF Logout, Surviving
<1>3. ASSUME NEW s \in Sessions, CancelDeletion(s) PROVE LoggedInIsLate'
  <2>1. OwnerOf[s] \in Accounts
    BY AccountsAssumption
  <2>2. account'[OwnerOf[s]].requested = "none"
    BY <1>3, <2>1 DEF CancelDeletion
  <2>3. \A b \in Accounts : b # OwnerOf[s] => account'[b] = account[b]
    BY <1>3 DEF CancelDeletion
  <2>4. \A t \in Sessions : t # s => session'[t] = session[t]
    BY <1>3 DEF CancelDeletion
  <2>5. UNCHANGED <<asking, late>>
    BY <1>3 DEF CancelDeletion
  <2> QED
    BY <2>1, <2>2, <2>3, <2>4, <2>5, AccountsAssumption, NoNewSurvivor DEF Surviving
<1>4. ASSUME NEW s \in Sessions, SaveRequest(s) PROVE LoggedInIsLate'
  <2>1. CASE UNCHANGED account
    <3>1. \A t \in Sessions : asking'[t] = asking[t] \/ asking[t] # "saved"
      BY <1>4 DEF SaveRequest
    <3>2. UNCHANGED <<session, late>>
      BY <1>4 DEF SaveRequest
    <3> QED
      BY <2>1, <3>1, <3>2, NoNewSurvivor DEF Surviving
  <2>2. CASE ~UNCHANGED account
    <3>1. /\ account' = [account EXCEPT ![OwnerOf[s]].requested = "fresh"]
          /\ asking'[s] = "saved"
          /\ \A t \in Sessions : t # s => asking'[t] = asking[t]
          /\ asking[s] = "checked"
          /\ UNCHANGED <<session, late>>
      BY <1>4, <2>2 DEF SaveRequest
    <3>2. \A b \in Accounts : b # OwnerOf[s] => account'[b] = account[b]
      BY <3>1
    <3> QED
      BY <3>1, <3>2, AccountsAssumption, NoNewSurvivor DEF Surviving
  <2> QED
    BY <2>1, <2>2
<1>5. ASSUME NEW s \in Sessions, EndSessions(s) PROVE LoggedInIsLate'
  <2> SUFFICES ASSUME NEW t \in Sessions, Surviving(t)' PROVE t \in late'
    BY DEF LoggedInIsLate
  <2>1. /\ session' = [u \in Sessions |-> IF u \in Ends(s) THEN "out" ELSE session[u]]
        /\ late' = (late \ Ends(s))
               \cup {u \in Sessions : OwnerOf[u] = OwnerOf[s] /\ session[u] = "signalled"}
        /\ UNCHANGED account
    BY <1>5 DEF EndSessions
  <2>2. \A u \in Sessions : u # s => asking'[u] = asking[u]
    BY <1>5 DEF EndSessions
  <2>3. t \notin Ends(s) /\ session[t] \in {"signalled", "live"}
    BY <2>1 DEF Surviving
  <2>4. CASE OwnerOf[t] = OwnerOf[s]
    BY <2>1, <2>3, <2>4 DEF Ends
  <2>5. CASE OwnerOf[t] # OwnerOf[s]
    <3>1. Surviving(t)
      BY <2>1, <2>2, <2>3, <2>5 DEF Surviving
    <3> QED
      BY <2>1, <2>3, <3>1 DEF LoggedInIsLate
  <2> QED
    BY <2>4, <2>5
<1>6. ASSUME NEW a \in Accounts, GraceEnds(a) PROVE LoggedInIsLate'
  <2>1. /\ account[a].requested = "fresh"
        /\ account' = [account EXCEPT ![a].requested = "due"]
        /\ UNCHANGED <<session, asking, late>>
    BY <1>6 DEF GraceEnds
  <2>2. \A b \in Accounts : /\ account'[b].exists = account[b].exists
                            /\ account'[b].requested # "none" => account[b].requested # "none"
    BY <2>1
  <2> QED
    BY <2>1, <2>2, AccountsAssumption, NoNewSurvivor DEF Surviving
<1>7. ASSUME NEW a \in Accounts, PurgeAccount(a) PROVE LoggedInIsLate'
  <2>1. /\ \A b \in Accounts : account'[b] = account[b] \/ ~account'[b].exists
        /\ UNCHANGED <<session, asking, late>>
    BY <1>7 DEF PurgeAccount
  <2> QED
    BY <2>1, AccountsAssumption, NoNewSurvivor DEF Surviving
<1>8. ASSUME NEW m \in Admins, SetFlag(m) PROVE LoggedInIsLate'
  <2> DEFINE a == admin[m].account
             enabled == admin[m].enabled
  <2>1. admin[m].flag \in {"staff", "active"} /\ a \in Accounts
    BY <1>8, HolderType DEF SetFlag
  <2>2. /\ \/ account' = account
           \/ account' = [account EXCEPT ![a].staff = enabled]
           \/ account' = [account EXCEPT ![a].active = enabled]
        /\ UNCHANGED <<session, asking, late>>
    BY <1>8, <2>1 DEF SetFlag
  <2> HIDE DEF a, enabled
  <2>3. \A b \in Accounts : /\ account'[b].exists = account[b].exists
                            /\ account'[b].requested = account[b].requested
    BY <2>1, <2>2
  <2> QED
    BY <2>2, <2>3, AccountsAssumption, NoNewSurvivor DEF Surviving
<1>9. UNCHANGED <<account, session, asking, late>> => LoggedInIsLate'
    BY DEF LoggedInIsLate, Surviving
<1> QED
    BY <1>1, <1>2, <1>3, <1>4, <1>5, <1>6, <1>7, <1>8, <1>9
       DEF AccountNext, accountVars, StartPurge, EndPurge, LockAccount

\* A request that ended the sessions of its account leaves none but those of
\* logins that were past their signal: every other one signs in anew.
THEOREM OnlyLateSurvive == AccountSpec => []SurvivorsAreLate
<1>1. AccountInit => LoggedInIsLate
    BY DEF AccountInit, LoggedInIsLate, Surviving
<1>2. LoggedInIsLate => SurvivorsAreLate
    BY DEF LoggedInIsLate, Surviving, SurvivorsAreLate
<1> QED
    BY <1>1, <1>2, SurvivorSteps, TypesHold, PTL DEF AccountSpec
-----------------------------------------------------------------------------
(***************************************************************************)
(* The flags and their log.                                                *)
(***************************************************************************)

\* Two superusers never hold the same account.
OneHolder ==
    \A m, n \in Admins :
        /\ admin[m].state = "holding" /\ admin[n].state = "holding"
        /\ admin[m].account = admin[n].account
        => m = n

\* What a superuser read under the lock is still so when the change is made.
HoldersKnow ==
    \A m \in Admins :
        admin[m].state = "holding" =>
            (admin[m].changes <=> account[admin[m].account][admin[m].flag] # admin[m].enabled)

FlagsInv == OneHolder /\ HoldersKnow /\ LogTellsFlags

\* What only touches the dates and the existence of accounts leaves flags and
\* log as they are.
LEMMA SameFlags ==
    ASSUME Types, FlagsInv, UNCHANGED <<admin, flagLog>>,
           \A a \in Accounts : /\ account'[a].staff = account[a].staff
                               /\ account'[a].active = account[a].active
    PROVE  FlagsInv'
<1>1. \A a \in Accounts, f \in Flags : account'[a][f] = account[a][f]
    BY DEF Flags
<1>2. OneHolder'
    BY DEF FlagsInv, OneHolder
<1>3. HoldersKnow'
  <2> SUFFICES ASSUME NEW m \in Admins, admin[m].state = "holding"
               PROVE  admin[m].changes <=>
                          account'[admin[m].account][admin[m].flag] # admin[m].enabled
    BY DEF HoldersKnow
  <2>1. admin[m].account \in Accounts /\ admin[m].flag \in Flags
    BY HolderType DEF Types, Flags
  <2>2. admin[m].changes <=> account[admin[m].account][admin[m].flag] # admin[m].enabled
    BY DEF FlagsInv, HoldersKnow
  <2>3. account'[admin[m].account][admin[m].flag] = account[admin[m].account][admin[m].flag]
    BY <1>1, <2>1
  <2> QED
    BY <2>2, <2>3
<1>4. LogTellsFlags'
    BY <1>1 DEF FlagsInv, LogTellsFlags
<1> QED
    BY <1>2, <1>3, <1>4 DEF FlagsInv

LEMMA LockKeepsFlags ==
    ASSUME Types, FlagsInv, NEW m \in Admins, NEW a \in Accounts, NEW flag \in Flags,
           NEW enabled \in BOOLEAN, LockAccount(m, a, flag, enabled)
    PROVE  FlagsInv'
<1> DEFINE held == [state |-> "holding", account |-> a, flag |-> flag,
                    enabled |-> enabled, changes |-> account[a][flag] # enabled]
<1>1. /\ admin' = [admin EXCEPT ![m] = held]
      /\ \A n \in Admins : admin[n].state = "holding" => admin[n].account # a
      /\ UNCHANGED <<account, flagLog>>
    BY DEF LockAccount, MayLock, Locked
<1>2. /\ held.state = "holding" /\ held.account = a /\ held.flag = flag
      /\ held.enabled = enabled /\ held.changes = (account[a][flag] # enabled)
    OBVIOUS
<1> HIDE DEF held
<1>3. admin'[m] = held /\ \A n \in Admins : n # m => admin'[n] = admin[n]
    BY <1>1 DEF Types, AdminType
<1>4. OneHolder'
    BY <1>1, <1>2, <1>3 DEF FlagsInv, OneHolder
<1>5. HoldersKnow'
  <2> SUFFICES ASSUME NEW n \in Admins, admin'[n].state = "holding"
               PROVE  admin'[n].changes <=>
                          account[admin'[n].account][admin'[n].flag] # admin'[n].enabled
    BY <1>1 DEF HoldersKnow
  <2>1. CASE n = m
    BY <1>2, <1>3, <2>1
  <2>2. CASE n # m
    BY <1>3, <2>2 DEF FlagsInv, HoldersKnow
  <2> QED
    BY <2>1, <2>2
<1>6. LogTellsFlags'
    BY <1>1 DEF FlagsInv, LogTellsFlags
<1> QED
    BY <1>4, <1>5, <1>6 DEF FlagsInv

LEMMA SetKeepsFlags ==
    ASSUME Types, FlagsInv, NEW m \in Admins, SetFlag(m)
    PROVE  FlagsInv'
<1>1. PICK a \in Accounts, flag \in Flags, enabled \in BOOLEAN :
          a = admin[m].account /\ flag = admin[m].flag /\ enabled = admin[m].enabled
    BY HolderType DEF SetFlag, Types, Flags
<1>2. /\ admin[m].state = "holding"
      /\ admin'[m].state = "idle"
      /\ \A n \in Admins : n # m => admin'[n] = admin[n]
    BY DEF SetFlag, Types, AdminType
<1>3. OneHolder'
    BY <1>2 DEF FlagsInv, OneHolder
<1>4. CASE ~admin[m].changes
  <2>1. UNCHANGED <<account, flagLog>>
    BY <1>4 DEF SetFlag
  <2>2. HoldersKnow'
    BY <1>2, <2>1 DEF FlagsInv, HoldersKnow
  <2>3. LogTellsFlags'
    BY <2>1 DEF FlagsInv, LogTellsFlags
  <2> QED
    BY <1>3, <2>2, <2>3 DEF FlagsInv
<1>5. CASE admin[m].changes
  <2>1. account' = [account EXCEPT ![a][flag] = enabled]
    BY <1>1, <1>5 DEF SetFlag
  <2>2. flagLog' = [twice |-> flagLog.twice \/ flagLog.flags[a][flag] = enabled,
                   flags |-> [flagLog.flags EXCEPT ![a][flag] = enabled]]
    BY <1>1, <1>5 DEF SetFlag
  <2>3. flagLog.flags[a][flag] # enabled
    BY <1>1, <1>2, <1>5 DEF FlagsInv, HoldersKnow, LogTellsFlags
  <2>4. ~flagLog'.twice
    BY <2>2, <2>3 DEF FlagsInv, LogTellsFlags
  <2>5. \A b \in Accounts : b # a => account'[b] = account[b]
    BY <2>1 DEF Types, AccountType
  <2>6. \A f \in Flags : account'[a][f] = IF f = flag THEN enabled ELSE account[a][f]
    BY <2>1 DEF Types, AccountType, Flags
  <2>7. \A b \in Accounts, f \in Flags :
            flagLog'.flags[b][f] = IF b = a /\ f = flag THEN enabled ELSE flagLog.flags[b][f]
    BY <2>2 DEF Types, LoggedType
  <2>8. LogTellsFlags'
    BY <2>4, <2>5, <2>6, <2>7 DEF FlagsInv, LogTellsFlags
  <2>9. HoldersKnow'
    <3> SUFFICES ASSUME NEW n \in Admins, admin'[n].state = "holding"
                 PROVE  admin'[n].changes <=>
                            account'[admin'[n].account][admin'[n].flag] # admin'[n].enabled
      BY DEF HoldersKnow
    <3>1. n # m /\ admin'[n] = admin[n]
      BY <1>2
    <3>2. admin[n].account \in Accounts /\ admin[n].account # a
      BY <1>1, <1>2, <3>1, HolderType DEF Types, FlagsInv, OneHolder
    <3>3. account'[admin[n].account] = account[admin[n].account]
      BY <2>5, <3>2
    <3> QED
      BY <3>1, <3>3 DEF FlagsInv, HoldersKnow
  <2> QED
    BY <1>3, <2>8, <2>9 DEF FlagsInv
<1> QED
    BY <1>4, <1>5

LEMMA FlagSteps == Types /\ FlagsInv /\ [AccountNext]_accountVars => FlagsInv'
<1> SUFFICES ASSUME Types, FlagsInv, [AccountNext]_accountVars PROVE FlagsInv'
    OBVIOUS
<1>1. ASSUME NEW s \in Sessions, CancelDeletion(s) \/ SaveRequest(s) PROVE FlagsInv'
  <2>1. UNCHANGED <<admin, flagLog>>
    BY <1>1 DEF CancelDeletion, SaveRequest
  <2>2. \A a \in Accounts : /\ account'[a].staff = account[a].staff
                            /\ account'[a].active = account[a].active
    BY <1>1 DEF CancelDeletion, SaveRequest, Types, AccountType
  <2> QED
    BY <2>1, <2>2, SameFlags
<1>2. ASSUME NEW a \in Accounts, GraceEnds(a) \/ PurgeAccount(a) PROVE FlagsInv'
  <2>1. UNCHANGED <<admin, flagLog>>
    BY <1>2 DEF GraceEnds, PurgeAccount
  <2>2. \A b \in Accounts : /\ account'[b].staff = account[b].staff
                            /\ account'[b].active = account[b].active
    BY <1>2 DEF GraceEnds, PurgeAccount, Types, AccountType
  <2> QED
    BY <2>1, <2>2, SameFlags
<1>3. UNCHANGED <<account, admin, flagLog>> => FlagsInv'
    BY SameFlags
<1> QED
    BY <1>1, <1>2, <1>3, LockKeepsFlags, SetKeepsFlags
       DEF AccountNext, accountVars, StartPurge, EndPurge, Authenticate, LoginFails, SaveSession, Logout,
           AskDeletion, EndSessions

\* However many superusers switch the flags of an account at the same time,
\* the staff log tells what they are, and no switch is in it that was none.
THEOREM FlagLogIsTrue == AccountSpec => []LogTellsFlags
<1>1. AccountInit => FlagsInv
  <2> SUFFICES ASSUME AccountInit PROVE FlagsInv
    OBVIOUS
  <2>1. \A m \in Admins : admin[m].state = "idle"
    BY DEF AccountInit
  <2>2. \A a \in Accounts : /\ account[a].staff = FALSE /\ flagLog.flags[a]["staff"] = FALSE
                            /\ account[a].active = TRUE /\ flagLog.flags[a]["active"] = TRUE
    <3>1. \A a \in Accounts : account[a].staff = FALSE /\ account[a].active = TRUE
      BY DEF AccountInit
    <3>2. flagLog.flags = [a \in Accounts |-> [f \in Flags |-> f = "active"]]
      BY DEF AccountInit
    <3>3. \A a \in Accounts, f \in Flags : flagLog.flags[a][f] = (f = "active")
      BY <3>2
    <3> QED
      BY <3>1, <3>3 DEF Flags
  <2>3. ~flagLog.twice
    BY DEF AccountInit
  <2>4. LogTellsFlags
    BY <2>2, <2>3 DEF LogTellsFlags, Flags
  <2> QED
    BY <2>1, <2>4 DEF FlagsInv, OneHolder, HoldersKnow
<1>2. FlagsInv => LogTellsFlags
    BY DEF FlagsInv
<1> QED
    BY <1>1, <1>2, FlagSteps, TypesHold, PTL DEF AccountSpec

-----------------------------------------------------------------------------
(***************************************************************************)
(* The archive: what its rows have in common.                              *)
(***************************************************************************)

\* What refers to a subject refers to one that exists.
SubjectsExist == \A x \in Subjects : status[x] # "none" \/ interest[x] # NoDay => x \in there

\* The log tells the day of an interest, if it tells of the interest at all.
InterestLogged ==
    \A e \in Events :
        interest[e] = NoDay \/ Unlogged(e)
        \/ \E entry \in log : /\ entry.kind = "interest_added" /\ e \in entry.events
                              /\ entry.day = interest[e]

ItemsFit == \A i \in items : Fits(i.data)
ItemsNumbered == \A i, j \in items : i.id = j.id => i = j

ArchiveInv ==
    /\ ArchiveTypeOK
    /\ SubjectsExist /\ InterestLogged
    /\ ItemsFit /\ ItemsNumbered

LEMMA InitArchive == ArchiveInit => ArchiveInv
<1> SUFFICES ASSUME ArchiveInit PROVE ArchiveInv
    OBVIOUS
<1> USE RowsAssumption DEF ArchiveInit
<1>1. 0 \in Days
    BY DEF Days
<1>2. ArchiveTypeOK
    BY <1>1 DEF ArchiveTypeOK, Days
<1>3. SubjectsExist /\ ItemsFit /\ ItemsNumbered
    BY DEF SubjectsExist, ItemsFit, ItemsNumbered
<1>4. InterestLogged
    BY DEF InterestLogged, Unlogged
<1> QED
    BY <1>2, <1>3, <1>4 DEF ArchiveInv

\* What a request writes into the log are entries of today, numbered on.
LEMMA LogGrows ==
    ASSUME ArchiveTypeOK, NEW kinds \in Seq(Kinds), NEW events \in SUBSET (Events \cap there),
           NEW hit \in BOOLEAN, Logs(kinds, events, hit)
    PROVE  /\ last.entry + Len(kinds) \in 0..MaxEntries
           /\ log' \subseteq [id : 1..(last.entry + Len(kinds)), kind : Kinds,
                              events : SUBSET (Events \cap there), hit : BOOLEAN, day : Days]
           /\ log \subseteq log'
           /\ \A entry \in log' \ log :
                /\ entry.events = events /\ entry.day = today
                /\ \E i \in DOMAIN kinds : entry.kind = kinds[i]
           /\ \A i \in DOMAIN kinds : \E entry \in log' : entry.kind = kinds[i] /\ entry.events = events
                                                          /\ entry.day = today
<1>1. last.entry \in Nat /\ Len(kinds) \in Nat /\ DOMAIN kinds = 1..Len(kinds) /\ MaxEntries \in Nat
      /\ today \in Days
    BY RowsAssumption DEF ArchiveTypeOK
<1>2. last.entry + Len(kinds) \in 0..MaxEntries
    BY <1>1 DEF Logs
<1>3. log' = log \cup Entries(kinds, events, hit)
    BY DEF Logs
<1>4. log \subseteq [id : 1..(last.entry + Len(kinds)), kind : Kinds,
                     events : SUBSET (Events \cap there), hit : BOOLEAN, day : Days]
  <2> SUFFICES ASSUME NEW entry \in log
               PROVE  entry \in [id : 1..(last.entry + Len(kinds)), kind : Kinds,
                     events : SUBSET (Events \cap there), hit : BOOLEAN, day : Days]
      OBVIOUS
  <2>1. entry \in [id : 1..last.entry, kind : Kinds,
                     events : SUBSET (Events \cap there), hit : BOOLEAN, day : Days]
      BY DEF ArchiveTypeOK
  <2>2. 1..last.entry \subseteq 1..(last.entry + Len(kinds))
      BY <1>1
  <2> QED
      BY <2>1, <2>2
<1>5. Entries(kinds, events, hit) \subseteq
                    [id : 1..(last.entry + Len(kinds)), kind : Kinds,
                     events : SUBSET (Events \cap there), hit : BOOLEAN, day : Days]
  <2> SUFFICES ASSUME NEW i \in DOMAIN kinds
               PROVE  [id |-> last.entry + i, kind |-> kinds[i], events |-> events, hit |-> hit,
                       day |-> today]
                      \in [id : 1..(last.entry + Len(kinds)), kind : Kinds,
                     events : SUBSET (Events \cap there), hit : BOOLEAN, day : Days]
      BY DEF Entries
  <2>1. last.entry + i \in 1..(last.entry + Len(kinds))
      BY <1>1
  <2>2. kinds[i] \in Kinds
      BY <1>1
  <2> QED
      BY <1>1, <2>1, <2>2
<1>6. \A entry \in Entries(kinds, events, hit) :
                /\ entry.events = events /\ entry.day = today
                /\ \E i \in DOMAIN kinds : entry.kind = kinds[i]
    BY DEF Entries
<1>7. \A i \in DOMAIN kinds : \E entry \in Entries(kinds, events, hit) :
            entry.kind = kinds[i] /\ entry.events = events /\ entry.day = today
  <2> SUFFICES ASSUME NEW i \in DOMAIN kinds
               PROVE  \E entry \in Entries(kinds, events, hit) :
                        entry.kind = kinds[i] /\ entry.events = events /\ entry.day = today
      OBVIOUS
  <2> DEFINE entry == [id |-> last.entry + i, kind |-> kinds[i], events |-> events, hit |-> hit,
                       day |-> today]
  <2>1. entry \in Entries(kinds, events, hit)
      BY DEF Entries
  <2> QED
      BY <2>1
<1> QED
    BY <1>2, <1>3, <1>4, <1>5, <1>6, <1>7

LEMMA SubjectLogGrows ==
    ASSUME ArchiveTypeOK, NEW x \in Subjects, x \in there, NEW kinds \in Seq(Kinds),
           LogsSubject(kinds, x)
    PROVE  /\ last.entry + Len(kinds) \in 0..MaxEntries
           /\ log' \subseteq [id : 1..(last.entry + Len(kinds)), kind : Kinds,
                              events : SUBSET (Events \cap there), hit : BOOLEAN, day : Days]
           /\ log \subseteq log'
           /\ \A entry \in log' \ log :
                /\ entry.events = {x} \cap Events /\ entry.day = today
                /\ \E i \in DOMAIN kinds : entry.kind = kinds[i]
           /\ \A i \in DOMAIN kinds :
                \E entry \in log' : entry.kind = kinds[i] /\ entry.events = {x} \cap Events
                                   /\ entry.day = today
<1> DEFINE events == {x} \cap Events
           hit == x \in named
<1>1. events \in SUBSET (Events \cap there) /\ hit \in BOOLEAN
    OBVIOUS
<1>2. Logs(kinds, events, hit)
    BY DEF LogsSubject
<1> HIDE DEF events, hit
<1>3. /\ last.entry + Len(kinds) \in 0..MaxEntries
      /\ log' \subseteq [id : 1..(last.entry + Len(kinds)), kind : Kinds,
                         events : SUBSET (Events \cap there), hit : BOOLEAN, day : Days]
      /\ log \subseteq log'
      /\ \A entry \in log' \ log :
           /\ entry.events = events /\ entry.day = today
           /\ \E i \in DOMAIN kinds : entry.kind = kinds[i]
      /\ \A i \in DOMAIN kinds :
           \E entry \in log' : entry.kind = kinds[i] /\ entry.events = events
                              /\ entry.day = today
    BY <1>1, <1>2, LogGrows
<1> QED
    BY <1>3 DEF events

\* Interests stay logged while no entry says that one was added.
LEMMA InterestsStayLogged ==
    ASSUME InterestLogged, interest' = interest, log \subseteq log',
           \A entry \in log' \ log : entry.kind # "interest_added"
    PROVE  InterestLogged'
<1> SUFFICES ASSUME NEW e \in Events, interest[e] # NoDay, ~Unlogged(e)'
             PROVE  \E entry \in log' : /\ entry.kind = "interest_added" /\ e \in entry.events
                                        /\ entry.day = interest[e]
    BY DEF InterestLogged
<1>1. ~Unlogged(e)
    BY DEF Unlogged
<1> QED
    BY <1>1 DEF InterestLogged

\* A request that gives x the status s, "none" if it takes it away.
StatusStep(x, s, kinds) ==
    /\ x \in there
    /\ status' = [status EXCEPT ![x] = s]
    /\ overridden' \subseteq overridden \cup {x}
    /\ LogsSubject(kinds, x)
    /\ last' = [last EXCEPT !.entry = @ + Len(kinds)]
    /\ pending' \subseteq pending
    /\ UNCHANGED <<today, there, event, named, interest, visits, items>>

StatusKinds == {<<>>, <<"status_changed">>, <<"status_removed">>}

LEMMA StatusKindsType ==
    \A kinds \in StatusKinds : /\ kinds \in Seq(Kinds)
                              /\ \A i \in DOMAIN kinds : kinds[i] # "interest_added"
<1>1. \A k \in {"status_changed", "status_removed"} :
        /\ <<k>> \in Seq(Kinds) /\ DOMAIN <<k>> = {1} /\ <<k>>[1] # "interest_added"
    BY DEF Kinds
<1>2. <<>> \in Seq(Kinds) /\ DOMAIN <<>> = {}
    OBVIOUS
<1> QED
    BY <1>1, <1>2 DEF StatusKinds

\* The requests that write a status are such steps.
LEMMA StatusRequests ==
    ASSUME ArchiveInv,
           \/ \E x \in Subjects : RemoveStatus(x)
           \/ \E r \in pending : CreateStatus(r) \/ PatchStatus(r)
    PROVE  \E x \in Subjects, s \in Statuses \cup {"none"}, kinds \in StatusKinds :
                StatusStep(x, s, kinds)
<1> USE DEF StatusStep, subjectVars, otherVars
<1>1. Len(<<>>) = 0 /\ Len(<<"status_changed">>) = 1 /\ Len(<<"status_removed">>) = 1
    OBVIOUS
<1>2. ASSUME NEW x \in Subjects, RemoveStatus(x)
      PROVE  \E kinds \in StatusKinds : StatusStep(x, "none", kinds)
  <2>1. StatusStep(x, "none", <<"status_removed">>)
      BY <1>1, <1>2 DEF RemoveStatus, ArchiveInv, SubjectsExist
  <2> QED
      BY <2>1 DEF StatusKinds
<1>3. \A r \in pending : /\ r.subject \in Subjects /\ r.subject \in there
                          /\ r.to \in Statuses
    BY DEF ArchiveInv, ArchiveTypeOK
<1>4. ASSUME NEW r \in pending, CreateStatus(r)
      PROVE  \E s \in Statuses \cup {"none"}, kinds \in StatusKinds :
                StatusStep(r.subject, s, kinds)
  <2>1. CASE status[r.subject] = "none"
    <3>1. StatusStep(r.subject, r.to, <<"status_changed">>)
        BY <1>1, <1>3, <1>4, <2>1 DEF CreateStatus
    <3> QED
        BY <1>3, <3>1 DEF StatusKinds
  <2>2. CASE status[r.subject] # "none"
    <3>1. /\ status \in [Subjects -> Statuses \cup {"none"}]
          /\ status[r.subject] \in Statuses \cup {"none"}
        BY <1>3 DEF ArchiveInv, ArchiveTypeOK
    <3>2. status' = [status EXCEPT ![r.subject] = status[r.subject]]
        BY <1>3, <1>4, <2>2, <3>1 DEF CreateStatus
    <3>3. StatusStep(r.subject, status[r.subject], <<>>)
        BY <1>1, <1>3, <1>4, <2>2, <3>2 DEF CreateStatus
    <3> QED
        BY <3>1, <3>3 DEF StatusKinds
  <2> QED
      BY <2>1, <2>2
<1>5. ASSUME NEW r \in pending, PatchStatus(r)
      PROVE  \E kinds \in StatusKinds : StatusStep(r.subject, r.to, kinds)
  <2>1. StatusStep(r.subject, r.to, Changed(r))
      BY <1>3, <1>5 DEF PatchStatus
  <2>2. Changed(r) \in StatusKinds
      BY DEF Changed, StatusKinds
  <2> QED
      BY <2>1, <2>2
<1> QED
    BY <1>2, <1>3, <1>4, <1>5

\* The request that asks for a status knows its row as it is.
LEMMA AskKeeps ==
    ASSUME ArchiveInv, NEW x \in Subjects, NEW s \in Statuses, AskStatus(x, s)
    PROVE  ArchiveInv'
<1> USE DEF ArchiveInv
<1>1. /\ pending' = {[subject |-> x, from |-> status[x], to |-> s]}
      /\ UNCHANGED <<today, there, event, named, status, overridden, interest, visits, items,
                     log, last>>
    BY DEF AskStatus, subjectVars, statusVars, otherVars
<1>2. x \in there /\ status[x] \in Statuses \cup {"none"}
    BY DEF AskStatus, Open, SubjectsExist, ArchiveTypeOK
<1>3. ArchiveTypeOK'
    BY <1>1, <1>2 DEF ArchiveTypeOK
<1>4. SubjectsExist' /\ InterestLogged' /\ ItemsFit' /\ ItemsNumbered'
    BY <1>1 DEF SubjectsExist, InterestLogged, Unlogged, ItemsFit, ItemsNumbered
<1> QED
    BY <1>3, <1>4

LEMMA StatusSteps ==
    ASSUME ArchiveInv, NEW x \in Subjects, NEW s \in Statuses \cup {"none"},
           NEW kinds \in StatusKinds, StatusStep(x, s, kinds)
    PROVE  ArchiveInv'
<1> USE DEF ArchiveInv
<1>1. x \in there
    BY DEF StatusStep
<1>2. kinds \in Seq(Kinds) /\ \A i \in DOMAIN kinds : kinds[i] # "interest_added"
    BY StatusKindsType
<1>3. /\ last.entry + Len(kinds) \in 0..MaxEntries
      /\ log' \subseteq [id : 1..(last.entry + Len(kinds)), kind : Kinds,
                         events : SUBSET (Events \cap there), hit : BOOLEAN, day : Days]
      /\ log \subseteq log'
      /\ \A entry \in log' \ log : \E i \in DOMAIN kinds : entry.kind = kinds[i]
    BY <1>1, <1>2, SubjectLogGrows DEF StatusStep
<1>4. last' = [last EXCEPT !.entry = last.entry + Len(kinds)] /\ last'.entry = last.entry + Len(kinds)
      /\ last'.visit = last.visit /\ last'.item = last.item
    BY DEF StatusStep, ArchiveTypeOK
<1>5. ArchiveTypeOK'
  <2>1. status' \in [Subjects -> Statuses \cup {"none"}] /\ overridden' \subseteq Subjects
      BY DEF StatusStep, ArchiveTypeOK
  <2>2. last' \in [visit : 0..MaxVisits, item : 0..MaxItems, entry : 0..MaxEntries]
      BY <1>3, <1>4 DEF ArchiveTypeOK
  <2> QED
      BY <1>3, <1>4, <2>1, <2>2 DEF StatusStep, ArchiveTypeOK
<1>6. SubjectsExist'
    BY <1>1 DEF StatusStep, SubjectsExist, ArchiveTypeOK
<1>7. InterestLogged'
    BY <1>2, <1>3, InterestsStayLogged DEF StatusStep
<1>8. ItemsFit' /\ ItemsNumbered'
    BY DEF StatusStep, ItemsFit, ItemsNumbered
<1> QED
    BY <1>5, <1>6, <1>7, <1>8

LEMMA AddInterestKeeps ==
    ASSUME ArchiveInv, NEW x \in Subjects, AddInterest(x)
    PROVE  ArchiveInv'
<1> USE DEF ArchiveInv
<1> DEFINE kinds == <<"interest_added">>
<1>1. x \in there /\ interest' = [interest EXCEPT ![x] = today]
    BY DEF AddInterest, Open
<1>2. kinds \in Seq(Kinds) /\ Len(kinds) = 1 /\ 1 \in DOMAIN kinds /\ kinds[1] = "interest_added"
    BY DEF Kinds
<1>3. LogsSubject(kinds, x) /\ last' = [last EXCEPT !.entry = @ + 1]
      /\ UNCHANGED <<today, there, event, named, status, overridden, visits, items, pending>>
    BY DEF AddInterest, subjectVars, statusVars
<1> HIDE DEF kinds
<1>4. /\ last.entry + 1 \in 0..MaxEntries
      /\ log' \subseteq [id : 1..(last.entry + 1), kind : Kinds,
                         events : SUBSET (Events \cap there), hit : BOOLEAN, day : Days]
      /\ log \subseteq log'
      /\ \A entry \in log' \ log : entry.events = {x} \cap Events
      /\ \E entry \in log' : entry.kind = "interest_added" /\ entry.events = {x} \cap Events
                            /\ entry.day = today
  <2>1. last.entry + Len(kinds) = last.entry + 1
      BY <1>2
  <2> QED
      BY <1>1, <1>2, <1>3, <2>1, SubjectLogGrows
<1>5. last'.entry = last.entry + 1 /\ last'.visit = last.visit /\ last'.item = last.item
    BY <1>3 DEF ArchiveTypeOK
<1>6. ArchiveTypeOK'
  <2>1. last' \in [visit : 0..MaxVisits, item : 0..MaxItems, entry : 0..MaxEntries]
      BY <1>3, <1>4, <1>5 DEF ArchiveTypeOK
  <2>2. interest' \in [Subjects -> Days \cup {NoDay}]
      BY <1>1 DEF ArchiveTypeOK
  <2> QED
      BY <1>3, <1>4, <1>5, <2>1, <2>2 DEF ArchiveTypeOK
<1>7. ItemsFit' /\ ItemsNumbered'
    BY <1>3 DEF ItemsFit, ItemsNumbered
<1>8. SubjectsExist'
    BY <1>1, <1>3 DEF SubjectsExist, ArchiveTypeOK
<1>9. InterestLogged'
  <2> SUFFICES ASSUME NEW e \in Events, interest'[e] # NoDay, ~Unlogged(e)'
               PROVE  \E entry \in log' : /\ entry.kind = "interest_added" /\ e \in entry.events
                                          /\ entry.day = interest'[e]
      BY DEF InterestLogged
  <2>1. CASE e = x
      BY <1>1, <1>4, <2>1 DEF ArchiveTypeOK
  <2>2. CASE e # x
    <3>1. interest'[e] = interest[e]
        BY <1>1, <2>2 DEF ArchiveTypeOK, Subjects
    <3>2. ~Unlogged(e)
        BY <1>4, <2>2 DEF Unlogged
    <3> QED
        BY <1>4, <3>1, <3>2 DEF InterestLogged
  <2> QED
      BY <2>1, <2>2
<1> QED
    BY <1>6, <1>7, <1>8, <1>9

LEMMA RemoveInterestKeeps ==
    ASSUME ArchiveInv, NEW x \in Subjects, RemoveInterest(x)
    PROVE  ArchiveInv'
<1> USE DEF ArchiveInv
<1> DEFINE kinds == <<"interest_removed">>
<1>1. x \in there /\ interest' = [interest EXCEPT ![x] = NoDay]
    BY DEF RemoveInterest, SubjectsExist
<1>2. kinds \in Seq(Kinds) /\ Len(kinds) = 1
      /\ \A i \in DOMAIN kinds : kinds[i] # "interest_added"
    BY DEF Kinds
<1>3. LogsSubject(kinds, x) /\ last' = [last EXCEPT !.entry = @ + 1]
      /\ UNCHANGED <<today, there, event, named, status, overridden, visits, items, pending>>
    BY DEF RemoveInterest, subjectVars, statusVars
<1> HIDE DEF kinds
<1>4. /\ last.entry + 1 \in 0..MaxEntries
      /\ log' \subseteq [id : 1..(last.entry + 1), kind : Kinds,
                         events : SUBSET (Events \cap there), hit : BOOLEAN, day : Days]
      /\ log \subseteq log'
      /\ \A entry \in log' \ log : entry.kind # "interest_added"
  <2>1. last.entry + Len(kinds) = last.entry + 1
      BY <1>2
  <2>2. ArchiveTypeOK /\ kinds \in Seq(Kinds) /\ x \in there /\ LogsSubject(kinds, x)
      BY <1>1, <1>2, <1>3
  <2>3. /\ last.entry + Len(kinds) \in 0..MaxEntries
        /\ log' \subseteq [id : 1..(last.entry + Len(kinds)), kind : Kinds,
                           events : SUBSET (Events \cap there), hit : BOOLEAN, day : Days]
        /\ log \subseteq log'
      BY <2>2, SubjectLogGrows
  <2>4. \A entry \in log' \ log : \E i \in DOMAIN kinds : entry.kind = kinds[i]
      BY <2>2, SubjectLogGrows
  <2> QED
      BY <1>2, <2>1, <2>3, <2>4
<1>5. last'.entry = last.entry + 1 /\ last'.visit = last.visit /\ last'.item = last.item
    BY <1>3 DEF ArchiveTypeOK
<1>6. ArchiveTypeOK'
  <2>1. last' \in [visit : 0..MaxVisits, item : 0..MaxItems, entry : 0..MaxEntries]
      BY <1>3, <1>4, <1>5 DEF ArchiveTypeOK
  <2>2. interest' \in [Subjects -> Days \cup {NoDay}]
      BY <1>1 DEF ArchiveTypeOK
  <2> QED
      BY <1>3, <1>4, <1>5, <2>1, <2>2 DEF ArchiveTypeOK
<1>7. ItemsFit' /\ ItemsNumbered'
    BY <1>3 DEF ItemsFit, ItemsNumbered
<1>8. SubjectsExist'
    BY <1>1, <1>3 DEF SubjectsExist, ArchiveTypeOK
<1>9. InterestLogged'
  <2> SUFFICES ASSUME NEW e \in Events, interest'[e] # NoDay, ~Unlogged(e)'
               PROVE  \E entry \in log' : /\ entry.kind = "interest_added" /\ e \in entry.events
                                          /\ entry.day = interest'[e]
      BY DEF InterestLogged
  <2>1. interest'[e] = interest[e]
      BY <1>1 DEF ArchiveTypeOK, Subjects
  <2>2. ~Unlogged(e)
      BY <1>4 DEF Unlogged
  <2> QED
      BY <1>4, <2>1, <2>2 DEF InterestLogged
<1> QED
    BY <1>6, <1>7, <1>8, <1>9

LEMMA CompleteVisitKeeps ==
    ASSUME ArchiveInv, NEW x \in Subjects, NEW day \in Days, CompleteVisit(x, day)
    PROVE  ArchiveInv'
<1> USE DEF ArchiveInv
<1> DEFINE kinds == IF status[x] = "visited" THEN <<"visit_record_created">>
                    ELSE <<"status_changed", "visit_record_created">>
           record == [id |-> last.visit + 1, subject |-> x, day |-> day]
<1>1. x \in there /\ last.visit < MaxVisits /\ status' = [status EXCEPT ![x] = "visited"]
      /\ visits' = visits \cup {record}
    BY DEF CompleteVisit, Open
<1>2. kinds \in Seq(Kinds) /\ \A i \in DOMAIN kinds : kinds[i] # "interest_added"
  <2>1. kinds = <<"visit_record_created">> \/ kinds = <<"status_changed", "visit_record_created">>
      OBVIOUS
  <2>2. /\ <<"visit_record_created">> \in Seq(Kinds)
        /\ <<"status_changed", "visit_record_created">> \in Seq(Kinds)
      BY DEF Kinds
  <2> HIDE DEF kinds
  <2>3. CASE kinds = <<"visit_record_created">>
      BY <2>2, <2>3
  <2>4. CASE kinds = <<"status_changed", "visit_record_created">>
      BY <2>2, <2>4
  <2> QED
      BY <2>1, <2>3, <2>4
<1>3. LogsSubject(kinds, x) /\ last' = [last EXCEPT !.visit = @ + 1, !.entry = @ + Len(kinds)]
      /\ UNCHANGED <<today, there, event, named, overridden, interest, items, pending>>
    BY DEF CompleteVisit, subjectVars
<1> HIDE DEF kinds
<1>4. /\ last.entry + Len(kinds) \in 0..MaxEntries
      /\ log' \subseteq [id : 1..(last.entry + Len(kinds)), kind : Kinds,
                         events : SUBSET (Events \cap there), hit : BOOLEAN, day : Days]
      /\ log \subseteq log'
      /\ \A entry \in log' \ log : entry.kind # "interest_added"
    BY <1>1, <1>2, <1>3, SubjectLogGrows
<1>5. /\ last'.entry = last.entry + Len(kinds) /\ last'.visit = last.visit + 1
      /\ last'.item = last.item
    BY <1>3 DEF ArchiveTypeOK
<1>6. ArchiveTypeOK'
  <2>1. last' \in [visit : 0..MaxVisits, item : 0..MaxItems, entry : 0..MaxEntries]
    <3>1. last.visit \in 0..MaxVisits /\ last.item \in 0..MaxItems /\ MaxVisits \in Nat
        BY RowsAssumption DEF ArchiveTypeOK
    <3>2. last.visit + 1 \in 0..MaxVisits
        BY <1>1, <3>1
    <3>3. last' = [visit |-> last.visit + 1, item |-> last.item, entry |-> last.entry + Len(kinds)]
        BY <1>3 DEF ArchiveTypeOK
    <3> QED
        BY <1>4, <3>1, <3>2, <3>3
  <2>2. visits' \subseteq [id : 1..last'.visit, subject : there, day : Days]
    <3>1. last.visit \in Nat
        BY DEF ArchiveTypeOK
    <3>2. record \in [id : 1..last'.visit, subject : there, day : Days]
        BY <1>1, <1>5, <3>1
    <3>3. visits \subseteq [id : 1..last'.visit, subject : there, day : Days]
        BY <1>5, <3>1 DEF ArchiveTypeOK
    <3> QED
        BY <1>1, <3>2, <3>3
  <2>3. status' \in [Subjects -> Statuses \cup {"none"}]
      BY <1>1 DEF ArchiveTypeOK, Statuses
  <2> QED
      BY <1>3, <1>4, <1>5, <2>1, <2>2, <2>3 DEF ArchiveTypeOK
<1>7. ItemsFit' /\ ItemsNumbered'
    BY <1>1, <1>3 DEF ItemsFit, ItemsNumbered, ArchiveTypeOK
<1>8. SubjectsExist'
    BY <1>1, <1>3 DEF SubjectsExist, ArchiveTypeOK
<1>9. InterestLogged'
    BY <1>3, <1>4, InterestsStayLogged
<1> QED
    BY <1>6, <1>7, <1>8, <1>9

LEMMA VisitChangesKeep ==
    ASSUME ArchiveInv, NEW v \in visits,
           EraseVisit(v) \/ \E day \in Days : EditVisit(v, day)
    PROVE  ArchiveInv'
<1> USE DEF ArchiveInv
<1>1. UNCHANGED <<today, there, event, named, status, overridden, interest, items, log, pending,
                  last>>
    BY DEF EraseVisit, EditVisit, subjectVars, statusVars
<1>2. v \in [id : 1..last.visit, subject : there, day : Days]
    BY DEF ArchiveTypeOK
<1>3. visits' \subseteq [id : 1..last.visit, subject : there, day : Days]
    BY <1>2 DEF ArchiveTypeOK, EraseVisit, EditVisit
<1>4. ArchiveTypeOK'
    BY <1>1, <1>3 DEF ArchiveTypeOK
<1>5. SubjectsExist' /\ InterestLogged' /\ ItemsFit' /\ ItemsNumbered'
    BY <1>1 DEF SubjectsExist, InterestLogged, Unlogged, ItemsFit, ItemsNumbered
<1> QED
    BY <1>4, <1>5

\* A saved item fits, and what a request writes about it are no interests.
LEMMA ItemLogGrows ==
    ASSUME ArchiveInv, NEW kinds \in {<<>>, <<"collection_item_created">>,
                                     <<"collection_item_organized">>},
           NEW hit \in BOOLEAN, Logs(kinds, {}, hit)
    PROVE  /\ last.entry + Len(kinds) \in 0..MaxEntries
           /\ log' \subseteq [id : 1..(last.entry + Len(kinds)), kind : Kinds,
                              events : SUBSET (Events \cap there), hit : BOOLEAN, day : Days]
           /\ log \subseteq log'
           /\ \A entry \in log' \ log : entry.kind # "interest_added"
<1>1. \A k \in {"collection_item_created", "collection_item_organized"} :
        /\ <<k>> \in Seq(Kinds) /\ DOMAIN <<k>> = {1} /\ <<k>>[1] # "interest_added"
    BY DEF Kinds
<1>2. <<>> \in Seq(Kinds) /\ DOMAIN <<>> = {}
    OBVIOUS
<1>3. kinds \in Seq(Kinds) /\ \A i \in DOMAIN kinds : kinds[i] # "interest_added"
    BY <1>1, <1>2
<1> DEFINE events == {}
<1>4. ArchiveTypeOK /\ events \in SUBSET (Events \cap there) /\ hit \in BOOLEAN
      /\ kinds \in Seq(Kinds)
    BY <1>3 DEF ArchiveInv
<1>5. Logs(kinds, events, hit)
    OBVIOUS
<1> HIDE DEF events
<1>6. /\ last.entry + Len(kinds) \in 0..MaxEntries
      /\ log' \subseteq [id : 1..(last.entry + Len(kinds)), kind : Kinds,
                         events : SUBSET (Events \cap there), hit : BOOLEAN, day : Days]
      /\ log \subseteq log'
      /\ \A entry \in log' \ log :
           /\ entry.events = events /\ entry.day = today
           /\ \E i \in DOMAIN kinds : entry.kind = kinds[i]
      /\ \A i \in DOMAIN kinds :
           \E entry \in log' : entry.kind = kinds[i] /\ entry.events = events
                              /\ entry.day = today
    BY <1>4, <1>5, LogGrows, Zenon
<1> QED
    BY <1>3, <1>6

LEMMA CreateItemKeeps ==
    ASSUME ArchiveInv, NEW shape \in ItemShapes, CreateItem(shape)
    PROVE  ArchiveInv'
<1> USE DEF ArchiveInv
<1> DEFINE kinds == <<"collection_item_created">>
           row == [id |-> last.item + 1, data |-> shape, created |-> today]
<1>1. Fits(shape) /\ last.item < MaxItems /\ items' = items \cup {row}
      /\ Logs(kinds, {}, shape.hit) /\ last' = [last EXCEPT !.item = @ + 1, !.entry = @ + 1]
      /\ UNCHANGED <<today, there, event, named, status, overridden, interest, visits, pending>>
    BY DEF CreateItem, subjectVars, statusVars
<1>2. Len(kinds) = 1 /\ shape.hit \in BOOLEAN
    BY RowsAssumption
<1>3. last.item \in Nat /\ last.visit \in 0..MaxVisits /\ MaxItems \in Nat /\ today \in Days
    BY RowsAssumption DEF ArchiveTypeOK
<1> HIDE DEF row
<1>4. /\ last.entry + 1 \in 0..MaxEntries
      /\ log' \subseteq [id : 1..(last.entry + 1), kind : Kinds,
                         events : SUBSET (Events \cap there), hit : BOOLEAN, day : Days]
      /\ log \subseteq log'
      /\ \A entry \in log' \ log : entry.kind # "interest_added"
  <2>1. last.entry + Len(kinds) = last.entry + 1
      BY <1>2
  <2>2. kinds \in {<<>>, <<"collection_item_created">>, <<"collection_item_organized">>}
      OBVIOUS
  <2> HIDE DEF kinds
  <2> QED
      BY <1>1, <1>2, <2>1, <2>2, ItemLogGrows
<1>5. last' = [visit |-> last.visit, item |-> last.item + 1, entry |-> last.entry + 1]
    BY <1>1 DEF ArchiveTypeOK
<1>6. row.id = last.item + 1 /\ row.data = shape
      /\ row \in [id : 1..(last.item + 1), data : ItemShapes, created : Days]
    BY <1>3 DEF row
<1>7. items \subseteq [id : 1..(last.item + 1), data : ItemShapes, created : Days]
      /\ \A i \in items : i.id \in 1..last.item
    BY <1>3 DEF ArchiveTypeOK
<1>8. ArchiveTypeOK'
  <2>1. last' \in [visit : 0..MaxVisits, item : 0..MaxItems, entry : 0..MaxEntries]
    <3>1. last.item + 1 \in 0..MaxItems
        BY <1>1, <1>3
    <3> QED
        BY <1>3, <1>4, <1>5, <3>1
  <2>2. items' \subseteq [id : 1..last'.item, data : ItemShapes, created : Days]
      BY <1>1, <1>5, <1>6, <1>7
  <2>3. last'.entry = last.entry + 1 /\ last'.visit = last.visit
      BY <1>5
  <2> QED
      BY <1>1, <1>4, <2>1, <2>2, <2>3 DEF ArchiveTypeOK
<1>9. SubjectsExist'
    BY <1>1 DEF SubjectsExist
<1>10. InterestLogged'
    BY <1>1, <1>4, InterestsStayLogged
<1>11. ItemsFit' /\ ItemsNumbered'
    BY <1>1, <1>3, <1>6, <1>7 DEF ItemsFit, ItemsNumbered
<1> QED
    BY <1>8, <1>9, <1>10, <1>11

LEMMA ChangeItemKeeps ==
    ASSUME ArchiveInv, NEW shape \in ItemShapes, NEW i \in items, ChangeItem(i, shape)
    PROVE  ArchiveInv'
<1> USE DEF ArchiveInv
<1> DEFINE kinds == Organized(i.data, shape)
           row == [i EXCEPT !.data = shape]
<1>1. Fits(shape) /\ items' = (items \ {i}) \cup {row}
      /\ Logs(kinds, {}, shape.hit) /\ last' = [last EXCEPT !.entry = @ + Len(kinds)]
      /\ UNCHANGED <<today, there, event, named, status, overridden, interest, visits, pending>>
    BY DEF ChangeItem, subjectVars, statusVars
<1>2. kinds \in {<<>>, <<"collection_item_created">>, <<"collection_item_organized">>}
    BY DEF Organized
<1>3. shape.hit \in BOOLEAN
    BY RowsAssumption
<1>4. row.id = i.id /\ row.data = shape
      /\ row \in [id : 1..last.item, data : ItemShapes, created : Days]
  <2>1. i \in [id : 1..last.item, data : ItemShapes, created : Days]
      BY DEF ArchiveTypeOK
  <2> QED
      BY <2>1
<1> HIDE DEF kinds, row
<1>5. /\ last.entry + Len(kinds) \in 0..MaxEntries
      /\ log' \subseteq [id : 1..(last.entry + Len(kinds)), kind : Kinds,
                         events : SUBSET (Events \cap there), hit : BOOLEAN, day : Days]
      /\ log \subseteq log'
      /\ \A entry \in log' \ log : entry.kind # "interest_added"
    BY <1>1, <1>2, <1>3, ItemLogGrows
<1>6. last'.entry = last.entry + Len(kinds) /\ last'.visit = last.visit /\ last'.item = last.item
    BY <1>1 DEF ArchiveTypeOK
<1>7. ArchiveTypeOK'
  <2>1. last' \in [visit : 0..MaxVisits, item : 0..MaxItems, entry : 0..MaxEntries]
      BY <1>1, <1>5, <1>6 DEF ArchiveTypeOK
  <2>2. items' \subseteq [id : 1..last'.item, data : ItemShapes, created : Days]
      BY <1>1, <1>4, <1>6 DEF ArchiveTypeOK
  <2> QED
      BY <1>1, <1>5, <1>6, <2>1, <2>2 DEF ArchiveTypeOK
<1>8. SubjectsExist'
    BY <1>1 DEF SubjectsExist
<1>9. InterestLogged'
    BY <1>1, <1>5, InterestsStayLogged
<1>10. ItemsFit' /\ ItemsNumbered'
    BY <1>1, <1>4 DEF ItemsFit, ItemsNumbered
<1> QED
    BY <1>7, <1>8, <1>9, <1>10

LEMMA DeleteItemKeeps ==
    ASSUME ArchiveInv, NEW i \in items, DeleteItem(i)
    PROVE  ArchiveInv'
<1> USE DEF ArchiveInv
<1>1. items' \subseteq items
      /\ UNCHANGED <<today, there, event, named, status, overridden, interest, visits, log,
                     pending, last>>
    BY DEF DeleteItem, subjectVars, statusVars
<1>2. ArchiveTypeOK'
    BY <1>1 DEF ArchiveTypeOK
<1>3. ItemsFit' /\ ItemsNumbered'
    BY <1>1 DEF ItemsFit, ItemsNumbered
<1>4. SubjectsExist' /\ InterestLogged'
    BY <1>1 DEF SubjectsExist, InterestLogged, Unlogged
<1> QED
    BY <1>2, <1>3, <1>4

\* What only changes what is known of a subject.
LEMMA SubjectChangesKeep ==
    ASSUME ArchiveInv,
           \/ Midnight
           \/ \E x \in Subjects, titles \in {{}, Subjects} : Rename(x, titles)
           \/ \E e \in Events, shape \in EventShapes : EditEvent(e, shape)
           \/ \E p \in Places, titles \in {{}, Subjects} : CreatePlace(p, titles)
    PROVE  ArchiveInv'
<1> USE DEF ArchiveInv
<1>1. UNCHANGED <<status, overridden, interest, visits, items, log, pending, last>>
    BY DEF Midnight, Rename, EditEvent, CreatePlace, subjectVars, statusVars, otherVars
<1>2. /\ there \subseteq there' /\ there' \subseteq Subjects
      /\ named' \subseteq Subjects /\ event' \in [Events -> EventShapes] /\ today' \in Days
    BY RowsAssumption
       DEF Midnight, Rename, EditEvent, CreatePlace, subjectVars, ArchiveTypeOK, Days, Subjects
<1>3. ArchiveTypeOK'
  <2>1. visits \subseteq [id : 1..last.visit, subject : there', day : Days]
      BY <1>2 DEF ArchiveTypeOK
  <2>2. log \subseteq [id : 1..last.entry, kind : Kinds, events : SUBSET (Events \cap there'),
                      hit : BOOLEAN, day : Days]
      BY <1>2 DEF ArchiveTypeOK
  <2>3. pending \subseteq [subject : there', from : Statuses \cup {"none"}, to : Statuses]
      BY <1>2 DEF ArchiveTypeOK
  <2> QED
      BY <1>1, <1>2, <2>1, <2>2, <2>3 DEF ArchiveTypeOK
<1>4. SubjectsExist' /\ InterestLogged' /\ ItemsFit' /\ ItemsNumbered'
    BY <1>1, <1>2 DEF SubjectsExist, InterestLogged, Unlogged,
                      ItemsFit, ItemsNumbered
<1> QED
    BY <1>3, <1>4

LEMMA DeletePlaceKeeps ==
    ASSUME ArchiveInv, NEW p \in Places, DeletePlace(p)
    PROVE  ArchiveInv'
<1> USE DEF ArchiveInv
<1>1. /\ there' = there \ {p} /\ p \in Subjects /\ p \notin Events
      /\ status' = [status EXCEPT ![p] = "none"] /\ overridden' \subseteq overridden
      /\ interest' = [interest EXCEPT ![p] = NoDay]
      /\ visits' \subseteq visits /\ \A v \in visits' : v.subject # p
      /\ pending' \subseteq pending /\ \A r \in pending' : r.subject # p
      /\ UNCHANGED <<today, event, named, items, log, last>>
    BY RowsAssumption DEF DeletePlace, Subjects, VisitsOf
<1>2. ArchiveTypeOK'
  <2>1. status' \in [Subjects -> Statuses \cup {"none"}]
        /\ interest' \in [Subjects -> Days \cup {NoDay}]
      BY <1>1 DEF ArchiveTypeOK
  <2>2. visits' \subseteq [id : 1..last.visit, subject : there', day : Days]
      BY <1>1 DEF ArchiveTypeOK
  <2>3. Events \cap there' = Events \cap there
      BY <1>1
  <2>4. pending' \subseteq [subject : there', from : Statuses \cup {"none"}, to : Statuses]
      BY <1>1 DEF ArchiveTypeOK
  <2> QED
      BY <1>1, <2>1, <2>2, <2>3, <2>4 DEF ArchiveTypeOK
<1>3. SubjectsExist'
    BY <1>1 DEF SubjectsExist, ArchiveTypeOK
<1>4. InterestLogged'
    BY <1>1 DEF InterestLogged, Unlogged, ArchiveTypeOK
<1>5. ItemsFit' /\ ItemsNumbered'
    BY <1>1 DEF ItemsFit, ItemsNumbered
<1> QED
    BY <1>2, <1>3, <1>4, <1>5

LEMMA DeleteEventKeeps ==
    ASSUME ArchiveInv, NEW e \in Events, DeleteEvent(e)
    PROVE  ArchiveInv'
<1> USE DEF ArchiveInv
<1>1. /\ there' = there \ {e} /\ e \in Subjects
      /\ status[e] = "none" /\ interest[e] = NoDay /\ VisitsOf(e) = {}
      /\ log' = {Unlinked(entry, e) : entry \in log}
      /\ pending' \subseteq pending /\ \A r \in pending' : r.subject # e
      /\ UNCHANGED <<today, event, named, status, overridden, interest, visits, items, last>>
    BY DEF DeleteEvent, Subjects, statusVars, otherVars
<1>2. \A entry \in log :
        /\ Unlinked(entry, e) \in [id : 1..last.entry, kind : Kinds,
                                    events : SUBSET (Events \cap there'), hit : BOOLEAN, day : Days]
        /\ Unlinked(entry, e).kind = entry.kind /\ Unlinked(entry, e).day = entry.day
        /\ Unlinked(entry, e).events = entry.events \ {e}
  <2> SUFFICES ASSUME NEW entry \in log
               PROVE  /\ Unlinked(entry, e) \in [id : 1..last.entry, kind : Kinds,
                                    events : SUBSET (Events \cap there'), hit : BOOLEAN, day : Days]
                      /\ Unlinked(entry, e).kind = entry.kind /\ Unlinked(entry, e).day = entry.day
                      /\ Unlinked(entry, e).events = entry.events \ {e}
      OBVIOUS
  <2>1. entry \in [id : 1..last.entry, kind : Kinds, events : SUBSET (Events \cap there),
                   hit : BOOLEAN, day : Days]
      BY DEF ArchiveTypeOK
  <2> QED
      BY <1>1, <2>1 DEF Unlinked
<1>3. ArchiveTypeOK'
  <2>1. visits \subseteq [id : 1..last.visit, subject : there', day : Days]
      BY <1>1 DEF ArchiveTypeOK, VisitsOf
  <2>2. pending' \subseteq [subject : there', from : Statuses \cup {"none"}, to : Statuses]
      BY <1>1 DEF ArchiveTypeOK
  <2> QED
      BY <1>1, <1>2, <2>1, <2>2 DEF ArchiveTypeOK
<1>4. InterestLogged'
  <2> SUFFICES ASSUME NEW f \in Events, interest[f] # NoDay, ~Unlogged(f)'
               PROVE  \E entry \in log' : /\ entry.kind = "interest_added" /\ f \in entry.events
                                          /\ entry.day = interest[f]
      BY <1>1 DEF InterestLogged
  <2>1. f # e /\ ~Unlogged(f)
      BY <1>1, <1>2 DEF Unlogged
  <2>2. PICK entry \in log : /\ entry.kind = "interest_added" /\ f \in entry.events
                             /\ entry.day = interest[f]
      BY <2>1 DEF InterestLogged
  <2>3. Unlinked(entry, e) \in log'
      BY <1>1
  <2> QED
      BY <1>2, <2>1, <2>2, <2>3
<1>5. SubjectsExist' /\ ItemsFit' /\ ItemsNumbered'
    BY <1>1 DEF SubjectsExist, ItemsFit, ItemsNumbered
<1> QED
    BY <1>3, <1>4, <1>5

LEMMA ArchiveRest ==
    ASSUME ArchiveInv, UNCHANGED archiveVars
    PROVE  ArchiveInv'
    BY DEF ArchiveInv, archiveVars, ArchiveTypeOK, SubjectsExist,
           InterestLogged, Unlogged, ItemsFit, ItemsNumbered

LEMMA ArchiveStep == ArchiveInv /\ [ArchiveNext]_archiveVars => ArchiveInv'
<1> SUFFICES ASSUME ArchiveInv, [ArchiveNext]_archiveVars PROVE ArchiveInv'
    OBVIOUS
<1>1. CASE \/ \E x \in Subjects : RemoveStatus(x)
           \/ \E r \in pending : CreateStatus(r) \/ PatchStatus(r)
    BY <1>1, StatusRequests, StatusSteps
<1>2. ASSUME NEW x \in Subjects, AddInterest(x) \/ RemoveInterest(x) PROVE ArchiveInv'
    BY <1>2, AddInterestKeeps, RemoveInterestKeeps
<1>3. ASSUME NEW x \in Subjects, NEW day \in Days, CompleteVisit(x, day) PROVE ArchiveInv'
    BY <1>3, CompleteVisitKeeps
<1>4. ASSUME NEW v \in visits, EraseVisit(v) \/ \E day \in Days : EditVisit(v, day)
      PROVE  ArchiveInv'
    BY <1>4, VisitChangesKeep
<1>5. ASSUME NEW shape \in ItemShapes, CreateItem(shape) \/ \E i \in items : ChangeItem(i, shape)
      PROVE  ArchiveInv'
    BY <1>5, CreateItemKeeps, ChangeItemKeeps
<1>6. ASSUME NEW i \in items, DeleteItem(i) PROVE ArchiveInv'
    BY <1>6, DeleteItemKeeps
<1>7. ASSUME NEW p \in Places, DeletePlace(p) PROVE ArchiveInv'
    BY <1>7, DeletePlaceKeeps
<1>8. ASSUME NEW e \in Events, DeleteEvent(e) PROVE ArchiveInv'
    BY <1>8, DeleteEventKeeps
<1>9. CASE \/ Midnight
           \/ \E x \in Subjects, titles \in {{}, Subjects} : Rename(x, titles)
           \/ \E e \in Events, shape \in EventShapes : EditEvent(e, shape)
           \/ \E p \in Places, titles \in {{}, Subjects} : CreatePlace(p, titles)
    BY <1>9, SubjectChangesKeep
<1>10. ASSUME NEW x \in Subjects, NEW s \in Statuses, AskStatus(x, s) PROVE ArchiveInv'
    BY <1>10, AskKeeps
<1>11. CASE UNCHANGED archiveVars
    BY <1>11, ArchiveRest
<1> QED
    BY <1>1, <1>2, <1>3, <1>4, <1>5, <1>6, <1>7, <1>8, <1>9, <1>10, <1>11 DEF ArchiveNext

\* Types and what the rows of an archive have in common hold in every state,
\* though a status is set on an answer that may be outdated by then: statuses and
\* interests refer to what exists, nothing is about to be set of what was
\* deleted, and an interest that the log tells of is told with its day.
THEOREM ArchiveInvariant == ArchiveSpec => []ArchiveInv
<1> QED
    BY InitArchive, ArchiveStep, PTL DEF ArchiveSpec

-----------------------------------------------------------------------------
(***************************************************************************)
(* The pages.                                                              *)
(***************************************************************************)

LEMMA SubjectsFinite ==
    /\ IsFiniteSet(Subjects)
    /\ \A S \in SUBSET Subjects : IsFiniteSet(S)
    BY RowsAssumption, FS_Union, FS_Subset DEF Subjects

\* A status is shown as visited exactly when it is stored so.
LEMMA ShownStatus ==
    ASSUME ArchiveInv, NEW x \in Tracked
    PROVE  /\ DerivedStatus(x) \in Statuses
           /\ DerivedStatus(x) = "visited" <=> status[x] = "visited"
    BY DEF ArchiveInv, ArchiveTypeOK, Tracked, DerivedStatus, Statuses

\* A set of numbers has a least one.
LEMMA LeastNumber ==
    ASSUME NEW T, T \subseteq Nat, T # {}
    PROVE  \E x \in T : \A y \in T : x <= y
<1> DEFINE R == OpToRel(<, Nat)
<1>1. IsWellFoundedOn(R, Nat)
    BY NatLessThanWellFounded
<1>2. \A x \in Nat, y \in Nat : x < y => <<x, y>> \in R
    BY DEF OpToRel
<1> HIDE DEF R
<1>3. PICK x \in T : \A y \in T : ~ (<<y, x>> \in R)
    BY <1>1, WFMin
<1>4. \A y \in T : x \in Nat /\ y \in Nat /\ ~ (y < x)
    BY <1>2, <1>3
<1> QED
    BY <1>4

\* A subject with records has a newest one.
LEMMA NewestExists ==
    ASSUME ArchiveTypeOK, NEW x, VisitsOf(x) # {}
    PROVE  Newest(x) # {}
<1> DEFINE Age(v) == LastDay - v.day
           Back(v) == last.visit - v.id
           S == {Age(v) : v \in VisitsOf(x)}
<1>1. \A v \in VisitsOf(x) : v.day \in Days /\ v.id \in 1..last.visit /\ Age(v) \in Nat /\ Back(v) \in Nat
    BY RowsAssumption DEF ArchiveTypeOK, VisitsOf, Days
<1>2. PICK a \in S : \A b \in S : a <= b
  <2>1. S \subseteq Nat /\ S # {}
      BY <1>1
  <2> HIDE DEF S
  <2> QED
      BY <2>1, LeastNumber
<1> DEFINE T == {Back(v) : v \in {v \in VisitsOf(x) : Age(v) = a}}
<1>3. PICK c \in T : \A d \in T : c <= d
  <2>1. T \subseteq Nat /\ T # {}
      BY <1>1
  <2> HIDE DEF T
  <2> QED
      BY <2>1, LeastNumber
<1>4. PICK v \in VisitsOf(x) : Age(v) = a /\ Back(v) = c
    OBVIOUS
<1>5. \A w \in VisitsOf(x) : ~Newer(w, v)
  <2> SUFFICES ASSUME NEW w \in VisitsOf(x), Newer(w, v) PROVE FALSE
      OBVIOUS
  <2>1. a <= Age(w)
      BY <1>2
  <2>2. Age(w) = a => c <= Back(w)
      BY <1>3
  <2> QED
      BY <1>1, <1>4, <2>1, <2>2, RowsAssumption DEF Newer, Days, ArchiveTypeOK
<1> QED
    BY <1>4, <1>5 DEF Newest

\* A row of the status page links to a record exactly when there is one.
LEMMA LinkTellsRecord ==
    ASSUME ArchiveTypeOK, NEW x
    PROVE  StatusRow(x).record = {} <=> VisitsOf(x) = {}
<1>1. CASE VisitsOf(x) = {}
    BY <1>1 DEF StatusRow, Newest
<1>2. CASE VisitsOf(x) # {}
    BY <1>2, NewestExists DEF StatusRow
<1> QED
    BY <1>1, <1>2

\* The three numbers of the account page add up to the rows.
LEMMA CountsAddUp ==
    ASSUME ArchiveInv
    PROVE  SavedCount = Cardinality(StatusList("all"))
<1> DEFINE Of(slug) == {x \in Tracked : DerivedStatus(x) = slug}
           A == Of("planned")
           B == Of("visited")
           C == Of("missed")
<1>1. Tracked \subseteq Subjects
    BY DEF Tracked
<1>2. IsFiniteSet(A) /\ IsFiniteSet(B) /\ IsFiniteSet(C) /\ IsFiniteSet(A \cup B)
    BY <1>1, SubjectsFinite
<1>3. StatusList("all") = (A \cup B) \cup C
    BY ShownStatus DEF StatusList, Statuses
<1>4. A \cap B = {} /\ (A \cup B) \cap C = {}
    OBVIOUS
<1>5. SavedCount = Cardinality(A) + Cardinality(B) + Cardinality(C)
    BY DEF SavedCount, StatusCount
<1> HIDE DEF A, B, C
<1>6. Cardinality({}) = 0
    BY FS_EmptySet
<1>7. /\ Cardinality(A) \in Nat /\ Cardinality(B) \in Nat /\ Cardinality(C) \in Nat
      /\ Cardinality(A \cup B) \in Nat
    BY <1>2, FS_CardinalityType
<1>8. Cardinality(A \cup B) = Cardinality(A) + Cardinality(B) - Cardinality({})
    BY <1>2, <1>4, FS_Union
<1>9. Cardinality((A \cup B) \cup C) = Cardinality(A \cup B) + Cardinality(C) - Cardinality({})
    BY <1>2, <1>4, FS_Union
<1> DEFINE a == Cardinality(A)
           b == Cardinality(B)
           c == Cardinality(C)
<1>10. a \in Nat /\ b \in Nat /\ c \in Nat
    BY <1>7
<1>11. Cardinality(StatusList("all")) = (a + b - 0) + c - 0
    BY <1>3, <1>6, <1>8, <1>9
<1>12. SavedCount = a + b + c
    BY <1>5
<1> HIDE DEF a, b, c
<1> QED
    BY <1>10, <1>11, <1>12

LEMMA StatusesHold ==
    ASSUME ArchiveInv
    PROVE  StatusesAgree
<1>1. ASSUME NEW x \in Tracked
      PROVE  /\ {slug \in Statuses : x \in StatusList(slug)} = {StatusRow(x).slug}
             /\ x \in Unrecorded <=> StatusRow(x).slug = "visited" /\ StatusRow(x).record = {}
  <2>1. StatusRow(x).slug = DerivedStatus(x)
      BY DEF StatusRow
  <2>2. StatusRow(x).record = {} <=> VisitsOf(x) = {}
      BY LinkTellsRecord DEF ArchiveInv
  <2>3. \A slug \in Statuses : x \in StatusList(slug) <=> DerivedStatus(x) = slug
      BY DEF StatusList
  <2> QED
      BY <2>1, <2>2, <2>3, ShownStatus DEF Unrecorded
<1>2. \A p \in Places \cap Tracked : PlaceRow(p).status = StatusRow(p).slug
    BY RowsAssumption DEF PlaceRow, StatusRow, DerivedStatus, Expired
<1> QED
    BY <1>1, <1>2, CountsAddUp DEF StatusesAgree

LEMMA OffersAreKept ==
    ASSUME ArchiveInv
    PROVE  OffersHold
<1>1. ASSUME NEW e \in Upcoming
      PROVE  DerivedStatus(e) = "planned" /\ Badge(e) \in {"none", "upcoming"}
  <2>1. /\ e \in Events /\ status[e] = "planned" /\ event[e].start > today
        /\ event[e] \in EventShapes /\ today \in Days
      BY DEF Upcoming, ArchiveInv, ArchiveTypeOK
  <2>2. /\ event[e].start \in Days \cup {NoDay} /\ event[e].end \in Days \cup {NoDay}
        /\ event[e].start # NoDay /\ event[e].end # NoDay => event[e].start <= event[e].end
      BY <2>1, RowsAssumption
  <2>3. event[e].start # NoDay /\ ~(event[e].end # NoDay /\ event[e].end < today)
      BY <2>1, <2>2, RowsAssumption DEF Days, NoDay
  <2> QED
      BY <2>1, <2>2, <2>3, RowsAssumption DEF DerivedStatus, Expired, Badge, Days, NoDay
<1>2. ASSUME NEW p \in Places, p \in Tracked \cup Interests \/ PlaceRow(p).linked
      PROVE  p \in Choices \cap Preselected
  <2>1. p \in there
      BY <1>2 DEF Tracked, Interests, PlaceRow, VisitsOf, ArchiveInv, ArchiveTypeOK, SubjectsExist,
                  Subjects
  <2> QED
      BY <2>1 DEF Choices, Preselected
<1> QED
    BY <1>1, <1>2 DEF OffersHold

LEMMA InterestsCount ==
    ASSUME ArchiveInv
    PROVE  InterestsAgree
<1> DEFINE rows == [x \in Interests |-> InterestRow(x)]
           official == Interests \cap Events
<1>1. \A e \in Events : /\ event[e].start \in Days \cup {NoDay} /\ event[e].end \in Days \cup {NoDay}
                        /\ event[e].start # NoDay /\ event[e].end # NoDay
                            => event[e].start <= event[e].end
    BY RowsAssumption DEF ArchiveInv, ArchiveTypeOK
<1>2. today \in Days
    BY DEF ArchiveInv, ArchiveTypeOK
<1>3. {e \in official : event[e].start # NoDay /\ event[e].start <= today /\ today <= event[e].end}
        = {x \in Interests : rows[x].badge \in {"ongoing", "closing_soon"}}
  <2>1. ASSUME NEW x \in Interests, x \in Events
        PROVE  rows[x].badge \in {"ongoing", "closing_soon"}
               <=> event[x].start # NoDay /\ event[x].start <= today /\ today <= event[x].end
    <3>1. rows[x].badge = Badge(x)
        BY <2>1 DEF InterestRow
    <3> QED
        BY <1>1, <1>2, <2>1, <3>1, RowsAssumption DEF Badge, Days, NoDay
  <2>2. ASSUME NEW x \in Interests, x \notin Events
        PROVE  rows[x].badge = "none"
      BY <2>2 DEF InterestRow
  <2> HIDE DEF rows
  <2> QED
      BY <2>1, <2>2
<1>4. {e \in official : DerivedStatus(e) = "planned"}
        = {x \in Interests : rows[x].mine = "planned"}
    BY DEF InterestRow
<1>5. ASSUME NEW x \in Interests, rows[x].mine = "missed", status[x] = "planned"
      PROVE  rows[x].badge \in {"none", "ended"}
  <2>1. x \in Events => rows[x].badge = Badge(x) /\ Expired(x)
      BY <1>5 DEF InterestRow, DerivedStatus
  <2>2. x \notin Events => rows[x].badge = "none"
      BY DEF InterestRow
  <2> QED
      BY <1>1, <1>2, <2>1, <2>2, RowsAssumption DEF Expired, Badge, Days, NoDay
<1>6. ASSUME NEW x \in Interests, rows[x].plan PROVE ~Expired(x) \/ event[x].start = NoDay
  <2>1. x \in Events /\ Badge(x) # "ended"
      BY <1>6 DEF InterestRow
  <2> QED
      BY <1>1, <1>2, <2>1, RowsAssumption DEF Expired, Badge, Days, NoDay
<1> QED
    BY <1>3, <1>4, <1>5, <1>6 DEF InterestsAgree, InterestCounts

LEMMA ChipsHold ==
    ASSUME ArchiveInv
    PROVE  ChipsAgree
    BY PagesAssumption DEF ChipsAgree, Chips, VisitList, HasLabel, Token

\* Every work with items has a first one.
LEMMA FirstItem ==
    ASSUME ArchiveTypeOK, NEW w \in Shown
    PROVE  \E i \in items : i.data.work = w /\ \A j \in items : j.data.work = w => i.id <= j.id
<1> DEFINE S == {i.id : i \in {i \in items : i.data.work = w}}
<1>1. S \subseteq Nat /\ S # {}
    BY DEF Shown, ArchiveTypeOK
<1>2. PICK n \in S : \A k \in S : n <= k
  <2> HIDE DEF S
  <2> QED
      BY <1>1, LeastNumber
<1> QED
    BY <1>2

\* The colours are handed out in the order of the first items.
LEMMA EarlierRanksLower ==
    ASSUME ArchiveTypeOK, NEW w \in Shown, NEW u \in Shown, NEW i \in items, NEW j \in items,
           i.data.work = w, \A k \in items : k.data.work = w => i.id <= k.id,
           j.data.work = u, \A k \in items : k.data.work = u => j.id <= k.id,
           i.id < j.id
    PROVE  Rank(w) < Rank(u)
<1> DEFINE A == {v \in Shown : Before(v, w)}
           B == {v \in Shown : Before(v, u)}
<1>1. \A k \in items : k.id \in Nat
    BY DEF ArchiveTypeOK
<1>2. IsFiniteSet(Shown)
    BY PagesAssumption, FS_Subset DEF Shown
<1>3. IsFiniteSet(A) /\ IsFiniteSet(B)
    BY <1>2, FS_Subset
<1>4. A \subseteq B
  <2> SUFFICES ASSUME NEW v \in A PROVE Before(v, u)
      OBVIOUS
  <2>1. PICK k \in items : k.data.work = v /\ k.id < i.id
      BY DEF Before
  <2> QED
      BY <1>1, <2>1 DEF Before
<1>5. w \in B
    BY <1>1 DEF Before
<1>6. w \notin A
    BY <1>1 DEF Before
<1>7. Rank(w) = Cardinality(A) /\ Rank(u) = Cardinality(B)
    BY DEF Rank
<1> HIDE DEF A, B
<1>8. Cardinality(A) < Cardinality(B)
  <2>1. /\ Cardinality(A) \in Nat /\ Cardinality(B) \in Nat
        /\ Cardinality(A) <= Cardinality(B) /\ (Cardinality(A) = Cardinality(B) => A = B)
      BY <1>3, <1>4, FS_Subset, FS_CardinalityType
  <2> QED
      BY <1>5, <1>6, <2>1
<1> QED
    BY <1>7, <1>8

\* A rank is below the number of works.
LEMMA RankIsBelow ==
    ASSUME ArchiveTypeOK, NEW w \in Shown
    PROVE  Rank(w) \in Nat /\ Rank(w) < Cardinality(Shown) /\ Cardinality(Shown) \in Nat
<1> DEFINE A == {v \in Shown : Before(v, w)}
<1>1. IsFiniteSet(Shown)
    BY PagesAssumption, FS_Subset DEF Shown
<1>2. A \subseteq Shown /\ Rank(w) = Cardinality(A)
    BY DEF Rank
<1>3. w \notin A
    BY DEF Before, ArchiveTypeOK
<1> HIDE DEF A
<1>4. /\ IsFiniteSet(A) /\ Cardinality(A) <= Cardinality(Shown)
      /\ (Cardinality(A) = Cardinality(Shown) => A = Shown)
    BY <1>1, <1>2, FS_Subset
<1>5. Cardinality(A) \in Nat /\ Cardinality(Shown) \in Nat
    BY <1>1, <1>4, FS_CardinalityType
<1> QED
    BY <1>2, <1>3, <1>4, <1>5

\* Every fifth colour of twelve: the first twelve ranks differ.
LEMMA WheelIsInjective ==
    \A r, s \in 0..11 : r # s => 1 + ((r * 5) % 12) # 1 + ((s * 5) % 12)
    OBVIOUS

LEMMA GoodsHold ==
    ASSUME ArchiveInv
    PROVE  GoodsAgree
<1>1. ASSUME NEW i \in items, "tradeable" \in Badges(i) PROVE "owned" \in Badges(i)
  <2>1. i.data \in ItemShapes /\ Fits(i.data)
      BY DEF ArchiveInv, ArchiveTypeOK, ItemsFit
  <2>2. i.data.quantity \in Int /\ i.data.trade \in Int
      BY <2>1, RowsAssumption
  <2>3. i.data.trade > 0
      BY <1>1 DEF Badges, ItemList
  <2>4. i.data.quantity > 0
      BY <2>1, <2>2, <2>3 DEF Fits
  <2> QED
      BY <2>4 DEF Badges, ItemList
<1>2. ASSUME Cardinality(Shown) <= InkCount, NEW w \in Shown, NEW u \in Shown, w # u
      PROVE  Ink(w) # Ink(u)
  <2> USE DEF ArchiveInv
  <2>1. PICK i \in items : i.data.work = w /\ \A k \in items : k.data.work = w => i.id <= k.id
      BY FirstItem
  <2>2. PICK j \in items : j.data.work = u /\ \A k \in items : k.data.work = u => j.id <= k.id
      BY FirstItem
  <2>3. i.id \in Nat /\ j.id \in Nat /\ i.id # j.id
      BY <1>2, <2>1, <2>2 DEF ArchiveTypeOK, ItemsNumbered
  <2>4. i.id < j.id => Rank(w) < Rank(u)
      BY <2>1, <2>2, EarlierRanksLower
  <2>5. j.id < i.id => Rank(u) < Rank(w)
      BY <2>1, <2>2, EarlierRanksLower
  <2>6. Rank(w) \in 0..11 /\ Rank(u) \in 0..11
    <3> DEFINE n == Cardinality(Shown)
    <3>1. n <= 12
        BY <1>2, PagesAssumption
    <3>2. /\ Rank(w) \in Nat /\ Rank(w) < n /\ n \in Nat
          /\ Rank(u) \in Nat /\ Rank(u) < n
        BY RankIsBelow
    <3> HIDE DEF n
    <3> QED
        BY <3>1, <3>2
  <2>7. Rank(w) # Rank(u)
      BY <2>3, <2>4, <2>5, <2>6
  <2> QED
      BY <2>6, <2>7, WheelIsInjective, PagesAssumption DEF Ink
<1> QED
    BY <1>1, <1>2 DEF GoodsAgree

\* Numbers, badges, links, chips and buttons of the pages of an archive agree,
\* also where a record stands next to a status that denies it (archive/queries.py,
\* web/views/archive.py, collection.py, account.py).
THEOREM PagesAreTrue == ArchiveSpec => []PagesAgree
<1>1. ArchiveInv => PagesAgree
    BY StatusesHold, OffersAreKept, InterestsCount, ChipsHold, GoodsHold DEF PagesAgree
<1> QED
    BY <1>1, ArchiveInvariant, PTL

-----------------------------------------------------------------------------
(***************************************************************************)
(* The calendar.                                                           *)
(***************************************************************************)

\* The groups of the legend, one by one.
LEMMA GroupsAre ==
    /\ Groups = {"schedule", "interest", "status", "visit", "goods"}
    /\ VisibleGroups = {"schedule", "interest", "visit", "goods"}
    /\ GroupKinds["schedule"] = {"schedule"}
    /\ GroupKinds["interest"] = {"interest_added", "interest_removed"}
    /\ GroupKinds["status"] = {"status_changed", "status_removed"}
    /\ GroupKinds["visit"] = {"visit"}
    /\ GroupKinds["goods"] = {"goods_acquired"}
    BY DEF Groups, VisibleGroups, GroupKinds

\* What the search looks for is what the calendar shows of the selection.
LEMMA SearchedIsShown ==
    ASSUME NEW types \in SUBSET Groups
    PROVE  SearchKinds(types)
             = {k \in KindsOf(types) : \E g \in VisibleGroups : k \in GroupKinds[g]}
<1> DEFINE searched == SearchGroups(types)
<1>1. /\ searched \subseteq VisibleGroups
      /\ types = {} => searched = VisibleGroups
      /\ types # {} => searched = types \cap VisibleGroups
    BY DEF SearchGroups, VisibleGroups
<1>2. \A g, h \in Groups : \A k : k \in GroupKinds[g] /\ k \in GroupKinds[h] => g = h
    BY GroupsAre
<1>3. \A g \in Groups : GroupKinds[g] \subseteq AllKinds
    BY GroupsAre DEF AllKinds, Kinds
<1>4. VisibleGroups \subseteq Groups
    BY DEF VisibleGroups
<1> HIDE DEF searched
<1>5. SearchKinds(types) = UNION {GroupKinds[g] : g \in searched}
    BY DEF SearchKinds, searched
<1>6. CASE types = {}
    BY <1>1, <1>3, <1>4, <1>5, <1>6 DEF KindsOf
<1>7. CASE types # {}
    BY <1>1, <1>2, <1>4, <1>5, <1>7 DEF KindsOf
<1> QED
    BY <1>6, <1>7

\* What an item of each source tells of its row.
OfSchedule(i, e, m) ==
    /\ e \in Events /\ status[e] = "planned" /\ event[e].start # NoDay
    /\ event[e].start <= LastOf(m) /\ End(e) >= FirstOf(m)
    /\ i.kind = "schedule" /\ i.first = event[e].start /\ i.last = End(e) /\ i.events = {e}
    /\ (i.hit <=> e \in named) /\ i.timed = FALSE

OfVisit(i, v, m) ==
    /\ v \in visits /\ v.day \in DaysOf(m)
    /\ i.kind = "visit" /\ i.first = v.day /\ i.last = v.day /\ i.events = {}
    /\ (i.hit <=> v.subject \in named) /\ i.timed = FALSE

OfGoods(i, j, m) ==
    /\ j \in items /\ GoodsDay(j) \in DaysOf(m)
    /\ i.kind = "goods_acquired" /\ i.first = GoodsDay(j) /\ i.last = GoodsDay(j) /\ i.events = {}
    /\ (i.hit <=> j.data.hit) /\ i.timed = FALSE

OfEntry(i, entry, m) ==
    /\ entry \in log /\ entry.day \in DaysOf(m)
    /\ i.kind = entry.kind /\ i.first = entry.day /\ i.last = entry.day
    /\ i.events = entry.events
    /\ (i.hit <=> entry.hit) /\ i.timed = TRUE

OfOldInterest(i, e, m) ==
    /\ e \in OldInterests /\ interest[e] \in DaysOf(m)
    /\ i.kind = "interest_added" /\ i.first = interest[e] /\ i.last = interest[e]
    /\ i.events = {e}
    /\ (i.hit <=> e \in named) /\ i.timed = FALSE

\* Every item is of one of the five sources.
LEMMA ItemsTellRows ==
    ASSUME NEW m, NEW kinds, NEW i \in MonthItems(m, kinds)
    PROVE  /\ i.kind \in kinds
           /\ \/ \E e : OfSchedule(i, e, m)
              \/ \E v : OfVisit(i, v, m)
              \/ \E j : OfGoods(i, j, m)
              \/ \E entry : OfEntry(i, entry, m)
              \/ \E e : OfOldInterest(i, e, m)
<1>1. ASSUME i \in ScheduleItems(m)
      PROVE  \E e : OfSchedule(i, e, m)
  <2>1. PICK e \in Events :
           /\ status[e] = "planned" /\ event[e].start # NoDay
           /\ event[e].start <= LastOf(m) /\ End(e) >= FirstOf(m)
           /\ i = [kind |-> "schedule", id |-> e, first |-> event[e].start, last |-> End(e),
                   events |-> {e}, hit |-> e \in named, timed |-> FALSE]
      BY <1>1 DEF ScheduleItems
  <2>2. OfSchedule(i, e, m)
      BY <2>1 DEF OfSchedule
  <2> QED
      BY <2>2
<1>2. ASSUME i \in VisitItems(m)
      PROVE  \E v : OfVisit(i, v, m)
  <2>1. PICK v \in visits :
           /\ v.day \in DaysOf(m)
           /\ i = OnDay("visit", v.id, v.day, {}, v.subject \in named, FALSE)
      BY <1>2 DEF VisitItems
  <2>2. OfVisit(i, v, m)
      BY <2>1 DEF OfVisit, OnDay
  <2> QED
      BY <2>2
<1>3. ASSUME i \in GoodsItems(m)
      PROVE  \E j : OfGoods(i, j, m)
  <2>1. PICK j \in items :
           /\ GoodsDay(j) \in DaysOf(m)
           /\ i = OnDay("goods_acquired", j.id, GoodsDay(j), {}, j.data.hit, FALSE)
      BY <1>3 DEF GoodsItems
  <2>2. OfGoods(i, j, m)
      BY <2>1 DEF OfGoods, OnDay
  <2> QED
      BY <2>2
<1>4. ASSUME i \in LogItems(m)
      PROVE  \E entry : OfEntry(i, entry, m)
  <2>1. PICK entry \in log :
           /\ entry.day \in DaysOf(m)
           /\ i = OnDay(entry.kind, entry.id, entry.day, entry.events, entry.hit, TRUE)
      BY <1>4 DEF LogItems
  <2>2. OfEntry(i, entry, m)
      BY <2>1 DEF OfEntry, OnDay
  <2> QED
      BY <2>2
<1>5. ASSUME i \in OldInterestItems(m)
      PROVE  \E e : OfOldInterest(i, e, m)
  <2>1. PICK e \in OldInterests :
           /\ interest[e] \in DaysOf(m)
           /\ i = OnDay("interest_added", e, interest[e], {e}, e \in named, FALSE)
      BY <1>5 DEF OldInterestItems
  <2>2. OfOldInterest(i, e, m)
      BY <2>1 DEF OfOldInterest, OnDay
  <2> QED
      BY <2>2
<1> QED
    BY <1>1, <1>2, <1>3, <1>4, <1>5 DEF MonthItems

\* Conversely, every row with a day in the month has its item.
LEMMA ScheduleOnCalendar ==
    ASSUME NEW m, NEW kinds, "schedule" \in kinds, NEW e \in Events,
           status[e] = "planned", event[e].start # NoDay,
           event[e].start <= LastOf(m), End(e) >= FirstOf(m)
    PROVE  \E i \in MonthItems(m, kinds) : OfSchedule(i, e, m)
<1> DEFINE i == [kind |-> "schedule", id |-> e, first |-> event[e].start, last |-> End(e),
                 events |-> {e}, hit |-> e \in named, timed |-> FALSE]
<1>1. i \in ScheduleItems(m)
    BY DEF ScheduleItems
<1>2. OfSchedule(i, e, m)
    BY DEF OfSchedule
<1>3. i.kind = "schedule"
    OBVIOUS
<1> HIDE DEF i
<1> QED
    BY <1>1, <1>2, <1>3 DEF MonthItems

LEMMA VisitOnCalendar ==
    ASSUME NEW m, NEW kinds, "visit" \in kinds, NEW v \in visits, v.day \in DaysOf(m)
    PROVE  \E i \in MonthItems(m, kinds) : OfVisit(i, v, m)
<1> DEFINE i == OnDay("visit", v.id, v.day, {}, v.subject \in named, FALSE)
<1>1. i \in VisitItems(m)
    BY DEF VisitItems
<1>2. OfVisit(i, v, m)
    BY DEF OfVisit, OnDay
<1>3. i.kind = "visit"
    BY DEF OnDay
<1> HIDE DEF i
<1> QED
    BY <1>1, <1>2, <1>3 DEF MonthItems

LEMMA GoodsOnCalendar ==
    ASSUME NEW m, NEW kinds, "goods_acquired" \in kinds, NEW j \in items,
           GoodsDay(j) \in DaysOf(m)
    PROVE  \E i \in MonthItems(m, kinds) : OfGoods(i, j, m)
<1> DEFINE i == OnDay("goods_acquired", j.id, GoodsDay(j), {}, j.data.hit, FALSE)
<1>1. i \in GoodsItems(m)
    BY DEF GoodsItems
<1>2. OfGoods(i, j, m)
    BY DEF OfGoods, OnDay
<1>3. i.kind = "goods_acquired"
    BY DEF OnDay
<1> HIDE DEF i
<1> QED
    BY <1>1, <1>2, <1>3 DEF MonthItems

LEMMA EntryOnCalendar ==
    ASSUME NEW m, NEW kinds, NEW entry \in log, entry.kind \in kinds, entry.day \in DaysOf(m)
    PROVE  \E i \in MonthItems(m, kinds) : OfEntry(i, entry, m)
<1> DEFINE i == OnDay(entry.kind, entry.id, entry.day, entry.events, entry.hit, TRUE)
<1>1. i \in LogItems(m)
    BY DEF LogItems
<1>2. OfEntry(i, entry, m)
    BY DEF OfEntry, OnDay
<1>3. i.kind = entry.kind
    BY DEF OnDay
<1> HIDE DEF i
<1> QED
    BY <1>1, <1>2, <1>3 DEF MonthItems

LEMMA OldInterestOnCalendar ==
    ASSUME NEW m, NEW kinds, "interest_added" \in kinds, NEW e \in OldInterests,
           interest[e] \in DaysOf(m)
    PROVE  \E i \in MonthItems(m, kinds) : OfOldInterest(i, e, m)
<1> DEFINE i == OnDay("interest_added", e, interest[e], {e}, e \in named, FALSE)
<1>1. i \in OldInterestItems(m)
    BY DEF OldInterestItems
<1>2. OfOldInterest(i, e, m)
    BY DEF OfOldInterest, OnDay
<1>3. i.kind = "interest_added"
    BY DEF OnDay
<1> HIDE DEF i
<1> QED
    BY <1>1, <1>2, <1>3 DEF MonthItems

\* The rows that make the items, with the days they can have.
LEMMA RowsAreTyped ==
    ASSUME ArchiveInv
    PROVE  /\ \A e \in Events : interest[e] \in Days \cup {NoDay}
           /\ \A e \in Events : event[e].start # NoDay =>
                event[e].start \in Days /\ End(e) \in Days /\ event[e].start <= End(e)
           /\ \A v \in visits : v.day \in Days
           /\ \A i \in items : GoodsDay(i) \in Days
           /\ \A entry \in log : entry.day \in Days /\ entry.kind \in Kinds
                                 /\ entry.events \subseteq Events \cap there
<1>1. \A e \in Events : interest[e] \in Days \cup {NoDay}
    BY DEF ArchiveInv, ArchiveTypeOK, Subjects
<1>2. \A e \in Events : event[e].start # NoDay =>
                event[e].start \in Days /\ End(e) \in Days /\ event[e].start <= End(e)
    BY RowsAssumption DEF ArchiveInv, ArchiveTypeOK, End, Days
<1>3. /\ \A v \in visits : v.day \in Days
      /\ \A entry \in log : entry.day \in Days /\ entry.kind \in Kinds
                            /\ entry.events \subseteq Events \cap there
    BY DEF ArchiveInv, ArchiveTypeOK
<1>4. \A i \in items : GoodsDay(i) \in Days
    BY RowsAssumption DEF ArchiveInv, ArchiveTypeOK, GoodsDay
<1> QED
    BY <1>1, <1>2, <1>3, <1>4

\* An item of a month is there on one of its days at least.
LEMMA ItemsMeetMonth ==
    ASSUME ArchiveInv, NEW m \in Months, NEW kinds, NEW i \in MonthItems(m, kinds)
    PROVE  /\ i.first \in Days
           /\ \E day \in DaysOf(m) : i.first <= day /\ day <= i.last
<1>1. FirstOf(m) \in Nat /\ LastOf(m) \in Nat /\ FirstOf(m) <= LastOf(m)
    BY RowsAssumption, CalendarAssumption DEF Months, FirstOf, LastOf
<1>2. ASSUME NEW e, OfSchedule(i, e, m)
      PROVE  /\ i.first \in Days
             /\ \E day \in DaysOf(m) : i.first <= day /\ day <= i.last
  <2>1. /\ e \in Events /\ event[e].start # NoDay
        /\ event[e].start <= LastOf(m) /\ End(e) >= FirstOf(m)
        /\ i.first = event[e].start /\ i.last = End(e)
      BY <1>2 DEF OfSchedule
  <2>2. i.first \in Days /\ i.last \in Days /\ i.first <= i.last
      BY <2>1, RowsAreTyped
  <2>3. i.first \in Int /\ i.last \in Int
      BY <2>2, RowsAssumption DEF Days
  <2>4. CASE i.first <= FirstOf(m)
    <3>1. FirstOf(m) \in DaysOf(m)
        BY <1>1 DEF DaysOf
    <3> QED
        BY <2>1, <2>2, <2>4, <3>1
  <2>5. CASE FirstOf(m) < i.first
    <3>1. i.first \in DaysOf(m)
        BY <1>1, <2>1, <2>3, <2>5 DEF DaysOf
    <3> QED
        BY <2>2, <2>3, <3>1
  <2> QED
      BY <1>1, <2>3, <2>4, <2>5
<1>3. ASSUME NEW day \in Days, day \in DaysOf(m), i.first = day, i.last = day
      PROVE  /\ i.first \in Days
             /\ \E d \in DaysOf(m) : i.first <= d /\ d <= i.last
    BY <1>3, RowsAssumption DEF Days
<1>4. CASE \E v : OfVisit(i, v, m)
    BY <1>3, <1>4, RowsAreTyped DEF OfVisit
<1>5. CASE \E j : OfGoods(i, j, m)
    BY <1>3, <1>5, RowsAreTyped DEF OfGoods
<1>6. CASE \E entry : OfEntry(i, entry, m)
    BY <1>3, <1>6, RowsAreTyped DEF OfEntry
<1>7. CASE \E e : OfOldInterest(i, e, m)
    BY <1>3, <1>7, RowsAreTyped DEF OfOldInterest, OldInterests
<1> QED
    BY <1>2, <1>4, <1>5, <1>6, <1>7, ItemsTellRows

\* A day of the month has a cell in the grid.
LEMMA DayHasCell ==
    ASSUME NEW f \in Nat, NEW n \in Nat \ {0}, NEW d \in f..(f + n - 1)
    PROVE  \E w \in 0..((((f % 7) + n + 7 - 1) \div 7) - 1), c \in 0..(7 - 1) :
             d = (f - (f % 7)) + w * 7 + c
<1> DEFINE k == (d - f) + (f % 7)
<1>1. k \in Nat /\ f % 7 \in 0..6 /\ k <= n - 1 + (f % 7)
    OBVIOUS
<1>2. /\ k \div 7 \in Nat /\ k % 7 \in 0..6 /\ k = 7 * (k \div 7) + (k % 7)
    BY <1>1
<1>3. k \div 7 <= (((f % 7) + n + 7 - 1) \div 7) - 1
    BY <1>1
<1>4. d = (f - (f % 7)) + (k \div 7) * 7 + (k % 7)
    BY <1>1, <1>2
<1>5. (((f % 7) + n + 7 - 1) \div 7) - 1 \in Int
    BY <1>1
<1> HIDE DEF k
<1>6. k \div 7 \in 0..((((f % 7) + n + 7 - 1) \div 7) - 1)
    BY <1>2, <1>3, <1>5
<1> QED
    BY <1>2, <1>4, <1>6

\* The whole weeks of the grid hold the month.
LEMMA GridHoldsMonth ==
    ASSUME NEW m \in Months
    PROVE  DaysOf(m) \subseteq GridDays(m)
<1> DEFINE f == FirstOf(m)
           n == MonthLength
<1>1. f \in Nat /\ n \in Nat \ {0}
    BY RowsAssumption, CalendarAssumption DEF Months, FirstOf
<1> SUFFICES ASSUME NEW d \in f..(f + n - 1) PROVE d \in GridDays(m)
    BY DEF DaysOf, LastOf
<1> HIDE DEF f, n
<1>2. PICK w \in 0..((((f % 7) + n + 7 - 1) \div 7) - 1), c \in 0..(7 - 1) :
             d = (f - (f % 7)) + w * 7 + c
    BY <1>1, DayHasCell
<1>3. /\ w \in 0..(Weeks(m) - 1) /\ c \in 0..(WeekLength - 1)
      /\ d = Cell(m, w, c)
    BY <1>2 DEF Weeks, Leading, Cell, WeekLength, f, n
<1> QED
    BY <1>3 DEF GridDays

LEMMA LegendHolds ==
    ASSUME ArchiveInv
    PROVE  LegendCounts
<1> SUFFICES ASSUME NEW m \in Months, NEW g \in VisibleGroups
             PROVE  {i \in MonthItems(m, AllKinds) : i.kind \in GroupKinds[g]}
                      = UNION {DayItems(m, {g}, day) : day \in GridDays(m) \cap DaysOf(m)}
    BY DEF LegendCounts, KindCount
<1>1. KindsOf({g}) = GroupKinds[g] /\ GroupKinds[g] \subseteq AllKinds
    BY GroupsAre DEF KindsOf, AllKinds, Kinds
<1>2. MonthItems(m, KindsOf({g})) = {i \in MonthItems(m, AllKinds) : i.kind \in GroupKinds[g]}
    BY <1>1 DEF MonthItems
<1>3. ASSUME NEW i \in MonthItems(m, KindsOf({g}))
      PROVE  \E day \in GridDays(m) \cap DaysOf(m) : i \in DayItems(m, {g}, day)
  <2>1. PICK day \in DaysOf(m) : i.first <= day /\ day <= i.last
      BY ItemsMeetMonth
  <2>2. Visible(i)
      BY <1>2 DEF Visible
  <2> QED
      BY <2>1, <2>2, GridHoldsMonth DEF DayItems
<1>4. \A day : DayItems(m, {g}, day) \subseteq MonthItems(m, KindsOf({g}))
    BY DEF DayItems
<1> QED
    BY <1>2, <1>3, <1>4

\* A set of days has a last one.
LEMMA LastDayOf ==
    ASSUME NEW T, T \subseteq Days, T # {}
    PROVE  \E x \in T : \A y \in T : y <= x
<1> DEFINE S == {LastDay - x : x \in T}
<1>1. S \subseteq Nat /\ S # {}
  <2>1. LastDay \in Nat
      BY RowsAssumption
  <2>2. \A x \in T : LastDay - x \in Nat
      BY <2>1 DEF Days
  <2> QED
      BY <2>2
<1>2. PICK n \in S : \A k \in S : n <= k
  <2> HIDE DEF S
  <2> QED
      BY <1>1, LeastNumber
<1>3. PICK x \in T : n = LastDay - x
    OBVIOUS
<1>4. ASSUME NEW y \in T PROVE y <= x
  <2>1. LastDay - x <= LastDay - y
      BY <1>2, <1>3
  <2>2. x \in Int /\ y \in Int /\ LastDay \in Int
      BY RowsAssumption DEF Days
  <2> QED
      BY <2>1, <2>2
<1> QED
    BY <1>4

\* The days of the search are days on which an item of a searched kind begins.
LEMMA MatchesAre ==
    ASSUME NEW kinds, NEW day
    PROVE  day \in Matches(kinds) <=>
             \/ "schedule" \in kinds /\ \E e \in Events \cap named :
                    status[e] = "planned" /\ event[e].start # NoDay /\ day = event[e].start
             \/ "visit" \in kinds /\ \E v \in visits : v.subject \in named /\ day = v.day
             \/ "goods_acquired" \in kinds /\ \E i \in items : i.data.hit /\ day = GoodsDay(i)
             \/ \E entry \in log : entry.hit /\ entry.kind \in kinds /\ day = entry.day
             \/ "interest_added" \in kinds /\ \E e \in OldInterests \cap named : day = interest[e]
    BY DEF Matches, ScheduleMatches, VisitMatches, GoodsMatches, LogMatches, OldInterestMatches

\* A day the search finds shows a match on the calendar.
LEMMA JumpShows ==
    ASSUME ArchiveInv, NEW types \in SUBSET Groups, NEW m \in Months,
           NEW day \in JumpDays(types) \cap DaysOf(m)
    PROVE  \E i \in DayItems(m, types, day) : i.hit
<1> DEFINE kinds == KindsOf(types)
           searched == SearchKinds(types)
<1>1. day \in Matches(searched)
    BY DEF JumpDays
<1>2. \A k \in searched : k \in kinds /\ \E g \in VisibleGroups : k \in GroupKinds[g]
    BY SearchedIsShown
<1>3. ASSUME NEW i, i \in MonthItems(m, kinds), i.kind \in searched, i.first <= day, day <= i.last,
             i.hit
      PROVE  \E j \in DayItems(m, types, day) : j.hit
    BY <1>2, <1>3 DEF DayItems, Visible
<1>4. FirstOf(m) \in Nat /\ LastOf(m) \in Nat /\ FirstOf(m) <= day /\ day <= LastOf(m) /\ day \in Int
    BY RowsAssumption, CalendarAssumption DEF Months, FirstOf, LastOf, DaysOf
<1> HIDE DEF kinds, searched
<1>5. ASSUME "schedule" \in searched, NEW e \in Events \cap named,
             status[e] = "planned", event[e].start # NoDay, day = event[e].start
      PROVE  \E j \in DayItems(m, types, day) : j.hit
  <2>1. day <= End(e) /\ End(e) \in Int
      BY <1>5, RowsAreTyped, RowsAssumption DEF Days
  <2>2. PICK i \in MonthItems(m, kinds) : OfSchedule(i, e, m)
    <3>1. event[e].start <= LastOf(m) /\ End(e) >= FirstOf(m)
        BY <1>4, <1>5, <2>1
    <3>2. "schedule" \in kinds /\ e \in Events
        BY <1>2, <1>5
    <3> QED
        BY <1>5, <3>1, <3>2, ScheduleOnCalendar
  <2>3. i.kind \in searched /\ i.first <= day /\ day <= i.last /\ i.hit
      BY <1>4, <1>5, <2>1, <2>2 DEF OfSchedule
  <2> QED
      BY <1>3, <2>3
<1>6. ASSUME "visit" \in searched, NEW v \in visits, v.subject \in named, day = v.day
      PROVE  \E j \in DayItems(m, types, day) : j.hit
  <2>1. PICK i \in MonthItems(m, kinds) : OfVisit(i, v, m)
      BY <1>2, <1>6, VisitOnCalendar
  <2>2. i.kind \in searched /\ i.first <= day /\ day <= i.last /\ i.hit
      BY <1>4, <1>6, <2>1 DEF OfVisit
  <2> QED
      BY <1>3, <2>2
<1>7. ASSUME "goods_acquired" \in searched, NEW j \in items, j.data.hit, day = GoodsDay(j)
      PROVE  \E k \in DayItems(m, types, day) : k.hit
  <2>1. PICK i \in MonthItems(m, kinds) : OfGoods(i, j, m)
      BY <1>2, <1>7, GoodsOnCalendar
  <2>2. i.kind \in searched /\ i.first <= day /\ day <= i.last /\ i.hit
      BY <1>4, <1>7, <2>1 DEF OfGoods
  <2> QED
      BY <1>3, <2>2
<1>8. ASSUME NEW entry \in log, entry.hit, entry.kind \in searched, day = entry.day
      PROVE  \E j \in DayItems(m, types, day) : j.hit
  <2>1. PICK i \in MonthItems(m, kinds) : OfEntry(i, entry, m)
      BY <1>2, <1>8, EntryOnCalendar
  <2>2. i.kind \in searched /\ i.first <= day /\ day <= i.last /\ i.hit
      BY <1>4, <1>8, <2>1 DEF OfEntry
  <2> QED
      BY <1>3, <2>2
<1>9. ASSUME "interest_added" \in searched, NEW e \in OldInterests \cap named, day = interest[e]
      PROVE  \E j \in DayItems(m, types, day) : j.hit
  <2>1. PICK i \in MonthItems(m, kinds) : OfOldInterest(i, e, m)
      BY <1>2, <1>9, OldInterestOnCalendar
  <2>2. i.kind \in searched /\ i.first <= day /\ day <= i.last /\ i.hit
      BY <1>4, <1>9, <2>1 DEF OfOldInterest
  <2> QED
      BY <1>3, <2>2
<1> QED
    BY <1>1, <1>5, <1>6, <1>7, <1>8, <1>9, MatchesAre

\* What is shown as a match begins on a day the search finds.
LEMMA ShownMatches ==
    ASSUME ArchiveInv, NEW types \in SUBSET Groups, NEW m \in Months,
           NEW i \in MonthItems(m, KindsOf(types)), Visible(i), i.hit
    PROVE  i.first \in Matches(SearchKinds(types))
<1> DEFINE kinds == KindsOf(types)
           searched == SearchKinds(types)
<1>1. i.kind \in searched
  <2>1. i.kind \in kinds
      BY ItemsTellRows
  <2> QED
      BY <2>1, SearchedIsShown DEF Visible
<1> SUFFICES i.first \in Matches(searched)
    OBVIOUS
<1> HIDE DEF searched
<1>2. CASE \E e : OfSchedule(i, e, m)
    BY <1>1, <1>2, MatchesAre DEF OfSchedule
<1>3. CASE \E v : OfVisit(i, v, m)
    BY <1>1, <1>3, MatchesAre DEF OfVisit
<1>4. CASE \E j : OfGoods(i, j, m)
    BY <1>1, <1>4, MatchesAre DEF OfGoods
<1>5. CASE \E entry : OfEntry(i, entry, m)
    BY <1>1, <1>5, MatchesAre DEF OfEntry
<1>6. CASE \E e : OfOldInterest(i, e, m)
    BY <1>1, <1>6, MatchesAre DEF OfOldInterest
<1> QED
    BY <1>2, <1>3, <1>4, <1>5, <1>6, ItemsTellRows

LEMMA MatchesAreDays ==
    ASSUME ArchiveInv, NEW kinds
    PROVE  Matches(kinds) \subseteq Days
    BY RowsAreTyped, MatchesAre DEF OldInterests

LEMMA JumpsHold ==
    ASSUME ArchiveInv
    PROVE  JumpsLand
<1>1. ASSUME NEW types \in SUBSET Groups, NEW m \in Months,
             NEW i \in MonthItems(m, KindsOf(types)), Visible(i), i.hit
      PROVE  \E day \in JumpDays(types) : i.first <= day
  <2>1. i.first \in Matches(SearchKinds(types))
      BY <1>1, ShownMatches
  <2>2. Matches(SearchKinds(types)) \subseteq Days
      BY MatchesAreDays
  <2>3. PICK day \in Matches(SearchKinds(types)) : \A other \in Matches(SearchKinds(types)) : other <= day
      BY <2>1, <2>2, LastDayOf
  <2> QED
      BY <2>1, <2>3 DEF JumpDays
<1> QED
    BY <1>1, JumpShows DEF JumpsLand

LEMMA InterestsShow ==
    ASSUME ArchiveInv
    PROVE  InterestsAppear
<1> SUFFICES ASSUME NEW e \in Events, NEW m \in Months
             PROVE  LET added == {i \in MonthItems(m, AllKinds) :
                                    i.kind = "interest_added" /\ e \in i.events}
                    IN  /\ interest[e] \in DaysOf(m) => \E i \in added : i.first = interest[e]
                        /\ \A i, j \in added : i.timed = j.timed
    BY DEF InterestsAppear
<1> DEFINE added == {i \in MonthItems(m, AllKinds) : i.kind = "interest_added" /\ e \in i.events}
<1>1. "interest_added" \in AllKinds
    BY DEF AllKinds, Kinds
<1>2. ASSUME interest[e] \in DaysOf(m) PROVE \E i \in added : i.first = interest[e]
  <2>1. interest[e] # NoDay
      BY <1>2, RowsAssumption, CalendarAssumption DEF Months, DaysOf, FirstOf, LastOf, NoDay
  <2>2. CASE Unlogged(e)
    <3>1. e \in OldInterests
        BY <2>1, <2>2 DEF OldInterests
    <3>2. PICK i \in MonthItems(m, AllKinds) : OfOldInterest(i, e, m)
        BY <1>1, <1>2, <3>1, OldInterestOnCalendar
    <3> QED
        BY <3>2 DEF OfOldInterest
  <2>3. CASE ~Unlogged(e)
    <3>1. PICK entry \in log : entry.kind = "interest_added" /\ e \in entry.events
                               /\ entry.day = interest[e]
        BY <2>1, <2>3 DEF ArchiveInv, InterestLogged
    <3>2. PICK i \in MonthItems(m, AllKinds) : OfEntry(i, entry, m)
        BY <1>1, <1>2, <3>1, EntryOnCalendar
    <3> QED
        BY <3>1, <3>2 DEF OfEntry
  <2> QED
      BY <2>2, <2>3
<1>3. ASSUME NEW i \in added
      PROVE  \/ Unlogged(e) /\ i.timed = FALSE
             \/ ~Unlogged(e) /\ i.timed = TRUE
  <2>1. i \in MonthItems(m, AllKinds) /\ i.kind = "interest_added" /\ e \in i.events
      OBVIOUS
  <2>2. CASE \E entry : OfEntry(i, entry, m)
      BY <2>1, <2>2 DEF OfEntry, Unlogged
  <2>3. CASE \E f : OfOldInterest(i, f, m)
      BY <2>1, <2>3 DEF OfOldInterest, OldInterests
  <2>4. CASE (\E f : OfSchedule(i, f, m)) \/ (\E v : OfVisit(i, v, m)) \/ (\E j : OfGoods(i, j, m))
      BY <2>1, <2>4 DEF OfSchedule, OfVisit, OfGoods
  <2> QED
      BY <2>1, <2>2, <2>3, <2>4, ItemsTellRows
<1> QED
    BY <1>2, <1>3

LEMMA LinksHold ==
    ASSUME ArchiveInv
    PROVE  LinksLead
<1> SUFFICES ASSUME NEW m \in Months, NEW i \in MonthItems(m, AllKinds)
             PROVE  i.events \subseteq there
    BY DEF LinksLead
<1>1. \A e \in Events : status[e] # "none" \/ interest[e] # NoDay => e \in there
    BY DEF ArchiveInv, SubjectsExist, Subjects
<1>2. CASE \E e : OfSchedule(i, e, m)
    BY <1>1, <1>2 DEF OfSchedule
<1>3. CASE \E e : OfOldInterest(i, e, m)
    BY <1>1, <1>3 DEF OfOldInterest, OldInterests
<1>4. CASE \E entry : OfEntry(i, entry, m)
    BY <1>4, RowsAreTyped DEF OfEntry
<1>5. CASE (\E v : OfVisit(i, v, m)) \/ (\E j : OfGoods(i, j, m))
    BY <1>5 DEF OfVisit, OfGoods
<1> QED
    BY <1>2, <1>3, <1>4, <1>5, ItemsTellRows

\* The legend, the search and the links of the activity calendar agree with the
\* items it shows (archive/activity_calendar_queries.py, web/views/activity.py).
THEOREM CalendarIsTrue == ArchiveSpec => []CalendarAgrees
<1>1. ArchiveInv => CalendarAgrees
    BY JumpsHold, LegendHolds, InterestsShow, LinksHold DEF CalendarAgrees
<1> QED
    BY <1>1, ArchiveInvariant, PTL
===============================================================================
