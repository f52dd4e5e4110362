--------------------------- MODULE AccountLifecycle ---------------------------
(***************************************************************************)
(* Accounts from the request for their deletion to the purge              *)
(* (accounts/services.py, accounts/signals.py, web/views/account.py,       *)
(* the command purge_deleted_accounts), with the sessions that log in and  *)
(* end meanwhile, and the flags a superuser sets (staff/views/accounts.py). *)
(*                                                                         *)
(* A login runs through three steps: the user is authenticated, the signal *)
(* cancels a pending deletion, and the session is saved with the answer.   *)
(* Times are the ages that matter: a request is fresh, then due.           *)
(***************************************************************************)
EXTENDS Integers, FiniteSets

CONSTANTS
    Accounts,
    Sessions,      \* browsers
    OwnerOf,       \* the account a browser logs in to
    Broken,        \* accounts whose deletion always fails
    Admins,        \* changes of flags at the same time
    Flagged        \* bound: accounts whose flags are changed

ASSUME AccountsAssumption ==
    /\ OwnerOf \in [Sessions -> Accounts]
    /\ Broken \subseteq Accounts /\ Flagged \subseteq Accounts

VARIABLES
    account,       \* the row of every account
    session,       \* how far the login of a browser is
    asking,        \* how far its request for deletion is
    late,          \* logins whose signal came before the sessions were ended
    told,          \* accounts whose owner was told that the deletion is off
    purge,         \* is the purge running, and what is left on its list?
    admin,         \* changes of flags in their transaction
    flagLog        \* the flags as the staff log tells them; was one logged twice?

accountVars == <<account, session, asking, late, told, purge, admin, flagLog>>

Flags == {"staff", "active"}
Ages == {"none", "fresh", "due"}

\* The shape of every variable.
AccountTypeOK ==
    /\ account \in [Accounts -> [exists : BOOLEAN, requested : Ages,
                                 staff : BOOLEAN, active : BOOLEAN]]
    /\ session \in [Sessions -> {"out", "authenticated", "signalled", "live"}]
    /\ asking \in [Sessions -> {"no", "checked", "saved"}]
    /\ late \subseteq Sessions
    /\ told \subseteq Accounts
    /\ purge.running \in BOOLEAN /\ purge.list \subseteq Accounts
    /\ ~purge.running => purge.list = {}
    /\ admin \in [Admins -> {[state |-> "idle"]}
                    \cup [state : {"holding"}, account : Accounts, flag : Flags,
                          enabled : BOOLEAN, changes : BOOLEAN]]
    /\ flagLog.twice \in BOOLEAN
    /\ flagLog.flags \in [Accounts -> [Flags -> BOOLEAN]]

AccountInit ==
    /\ \E ages \in [Accounts -> {"none", "fresh"}] :
        account = [a \in Accounts |->
                    [exists |-> TRUE, requested |-> ages[a], staff |-> FALSE, active |-> TRUE]]
    /\ session = [s \in Sessions |-> "out"]
    /\ asking = [s \in Sessions |-> "no"]
    /\ late = {} /\ told = {}
    /\ purge = [running |-> FALSE, list |-> {}]
    /\ admin = [m \in Admins |-> [state |-> "idle"]]
    /\ flagLog = [twice |-> FALSE,
                 flags |-> [a \in Accounts |-> [f \in Flags |-> f = "active"]]]

Locked(a) == \E m \in Admins : admin[m].state = "holding" /\ admin[m].account = a

(***************************************************************************)
(* Login.                                                                  *)
(***************************************************************************)
Authenticate(s) ==
    /\ session[s] = "out" /\ asking[s] = "no"
    /\ account[OwnerOf[s]].exists /\ account[OwnerOf[s]].active
    /\ session' = [session EXCEPT ![s] = "authenticated"]
    /\ UNCHANGED <<account, asking, late, told, purge, admin, flagLog>>

\* The conditional update waits for the row; what it changed is what the
\* message tells.
CancelDeletion(s) ==
    LET a == OwnerOf[s] IN
    /\ session[s] = "authenticated" /\ account[a].exists /\ ~Locked(a)
    /\ account' = [account EXCEPT ![a].requested = "none"]
    /\ told' = IF account[a].requested # "none" THEN told \cup {a} ELSE told
    /\ session' = [session EXCEPT ![s] = "signalled"]
    /\ UNCHANGED <<asking, late, purge, admin, flagLog>>

\* Without its row the login fails.
LoginFails(s) ==
    /\ session[s] = "authenticated" /\ ~account[OwnerOf[s]].exists
    /\ session' = [session EXCEPT ![s] = "out"]
    /\ UNCHANGED <<account, asking, late, told, purge, admin, flagLog>>

SaveSession(s) ==
    /\ session[s] = "signalled"
    /\ session' = [session EXCEPT ![s] = "live"]
    /\ UNCHANGED <<account, asking, late, told, purge, admin, flagLog>>

Logout(s) ==
    /\ session[s] = "live" /\ asking[s] = "no"
    /\ session' = [session EXCEPT ![s] = "out"]
    /\ late' = late \ {s}
    /\ UNCHANGED <<account, asking, told, purge, admin, flagLog>>

(***************************************************************************)
(* The request for deletion.                                               *)
(***************************************************************************)
\* The user is loaded with the session; staff are turned away, and so is a
\* wrong password.
AskDeletion(s) ==
    LET a == OwnerOf[s] IN
    /\ session[s] = "live" /\ asking[s] = "no"
    /\ account[a].exists /\ account[a].active /\ ~account[a].staff
    /\ asking' = [asking EXCEPT ![s] = "checked"]
    /\ UNCHANGED <<account, session, late, told, purge, admin, flagLog>>

\* A request begins the period of grace again.
SaveRequest(s) ==
    LET a == OwnerOf[s] IN
    /\ asking[s] = "checked"
    /\ \/ /\ account[a].exists /\ ~Locked(a)
          /\ account' = [account EXCEPT ![a].requested = "fresh"]
          /\ told' = told \ {a}
          /\ asking' = [asking EXCEPT ![s] = "saved"]
       \/ /\ ~account[a].exists
          /\ asking' = [asking EXCEPT ![s] = "no"]
          /\ UNCHANGED <<account, told>>
    /\ UNCHANGED <<session, late, purge, admin, flagLog>>

\* Mutant: only the session that asked is ended.
EndsOwn(s) == {s}

\* Every session that is in the table by now.
Ends(s) == {t \in Sessions : OwnerOf[t] = OwnerOf[s] /\ session[t] = "live"}

EndSessions(s) ==
    /\ asking[s] = "saved"
    /\ session' = [t \in Sessions |-> IF t \in Ends(s) THEN "out" ELSE session[t]]
    /\ late' = (late \ Ends(s))
               \cup {t \in Sessions : OwnerOf[t] = OwnerOf[s] /\ session[t] = "signalled"}
    /\ asking' = [asking EXCEPT ![s] = "no"]
    /\ UNCHANGED <<account, told, purge, admin, flagLog>>

(***************************************************************************)
(* The purge.                                                              *)
(***************************************************************************)
GraceEnds(a) ==
    /\ account[a].exists /\ account[a].requested = "fresh"
    /\ account' = [account EXCEPT ![a].requested = "due"]
    /\ UNCHANGED <<session, asking, late, told, purge, admin, flagLog>>

StartPurge ==
    /\ ~purge.running
    /\ purge' = [running |-> TRUE,
                 list |-> {a \in Accounts : account[a].exists /\ account[a].requested = "due"}]
    /\ UNCHANGED <<account, session, asking, late, told, admin, flagLog>>

\* Mutant: the list decides.
StillListed(a) == account[a].exists

\* The row is read again under its lock.
StillDue(a) == account[a].exists /\ account[a].requested = "due"

\* Mutant: a failure ends the purge of the others too.
AfterAccountOrAll(a) == IF a \in Broken /\ StillDue(a) THEN {} ELSE purge.list \ {a}

\* One account's failure leaves the rest of the list.
AfterAccount(a) == purge.list \ {a}

PurgeAccount(a) ==
    /\ a \in purge.list /\ ~Locked(a)
    /\ account' = IF StillDue(a) /\ a \notin Broken
                  THEN [account EXCEPT ![a].exists = FALSE, ![a].requested = "none"]
                  ELSE account
    /\ purge' = [purge EXCEPT !.list = AfterAccount(a)]
    /\ UNCHANGED <<session, asking, late, told, admin, flagLog>>

EndPurge ==
    /\ purge.running /\ purge.list = {}
    /\ purge' = [purge EXCEPT !.running = FALSE]
    /\ UNCHANGED <<account, session, asking, late, told, admin, flagLog>>

(***************************************************************************)
(* Flags.                                                                  *)
(***************************************************************************)
\* Mutant: the row is read without a lock.
MayLockAnyway(a) == TRUE
MayLock(a) == ~Locked(a)

\* The target is a state, not a toggle: under the lock it may be reached
\* already.
LockAccount(m, a, flag, enabled) ==
    /\ admin[m].state = "idle" /\ a \in Flagged
    /\ account[a].exists /\ MayLock(a)
    /\ admin' = [admin EXCEPT ![m] = [state |-> "holding", account |-> a, flag |-> flag,
                    enabled |-> enabled, changes |-> account[a][flag] # enabled]]
    /\ UNCHANGED <<account, session, asking, late, told, purge, flagLog>>

SetFlag(m) ==
    LET c == admin[m] IN
    /\ c.state = "holding"
    /\ account' = IF c.changes THEN [account EXCEPT ![c.account][c.flag] = c.enabled] ELSE account
    /\ flagLog' = IF c.changes
                 THEN [twice |-> flagLog.twice \/ flagLog.flags[c.account][c.flag] = c.enabled,
                       flags |-> [flagLog.flags EXCEPT ![c.account][c.flag] = c.enabled]]
                 ELSE flagLog
    /\ admin' = [admin EXCEPT ![m] = [state |-> "idle"]]
    /\ UNCHANGED <<session, asking, late, told, purge>>

AccountNext ==
    \/ StartPurge \/ EndPurge
    \/ \E s \in Sessions :
        \/ Authenticate(s) \/ CancelDeletion(s) \/ LoginFails(s) \/ SaveSession(s) \/ Logout(s)
        \/ AskDeletion(s) \/ SaveRequest(s) \/ EndSessions(s)
    \/ \E a \in Accounts :
        \/ GraceEnds(a) \/ PurgeAccount(a)
        \/ \E m \in Admins, flag \in Flags, enabled \in BOOLEAN : LockAccount(m, a, flag, enabled)
    \/ \E m \in Admins : SetFlag(m)

\* The purge is run again and again, and transactions end.
AccountFairness ==
    /\ WF_accountVars(StartPurge) /\ WF_accountVars(EndPurge)
    /\ \A a \in Accounts : SF_accountVars(PurgeAccount(a))
    /\ \A m \in Admins : WF_accountVars(SetFlag(m))

AccountSpec == AccountInit /\ [][AccountNext]_accountVars /\ AccountFairness

(***************************************************************************)
(* Properties.                                                             *)
(***************************************************************************)

\* Who was told that the deletion is off keeps the account until it is
\* requested again, although the purge has it on its list.
ToldIsKept == \A a \in told : account[a].exists

\* Once a request has ended the sessions of an account, the only ones that are
\* left are those of a login that was past its signal at that time.
SurvivorsAreLate ==
    \A s \in Sessions :
        LET a == OwnerOf[s] IN
        /\ account[a].exists /\ account[a].requested # "none"
        /\ session[s] = "live"
        /\ \A t \in Sessions : OwnerOf[t] = a => asking[t] # "saved"
        => s \in late

\* The staff log tells the flags of an account, and no change of them twice.
LogTellsFlags ==
    /\ ~flagLog.twice
    /\ \A a \in Accounts, f \in Flags : account[a][f] = flagLog.flags[a][f]

\* A due request is not due forever, whatever happens to the deletion of the
\* other accounts.
DueIsPurged ==
    \A a \in Accounts \ Broken :
        account[a].requested = "due" ~> account[a].requested # "due"
===============================================================================
