----------------------------- MODULE MCBelongings -----------------------------
(***************************************************************************)
(* Small values for the parts of Belongings, and beside them an account     *)
(* with two browsers and another one that cannot be deleted. Belongings and *)
(* accounts share no variable: each side moves while the other is at rest.  *)
(***************************************************************************)
EXTENDS Belongings, AccountLifecycle

CONSTANTS e1, e2, r1, r2, o1, o2, s1, s2

MCEvents == {e1, e2}
MCRecords == {r1, r2}

\* r1 is a visit to e1, r2 one to a private place.
VisitOf == [r \in MCRecords |-> IF r = r1 THEN e1 ELSE "none"]
Links == {[event |-> e] : e \in {e2, "none"}} \cup {[record |-> r] : r \in {r1, "none"}}
         \cup {[event |-> e2, record |-> r1]}
Amounts == {[quantity |-> 0], [trade |-> 1]}
Images == {[image |-> "new"]}
MCChanges == Links \cup Amounts \cup Images

SameOwner == [s \in {s1, s2} |-> o1]

VARIABLE side

sideVars == <<side, vars, accountVars>>

\* What is at rest has one initial state.
SidesInit ==
    /\ side \in {"belongings", "account"}
    /\ Init /\ AccountInit
    /\ side = "belongings" => \A a \in Accounts : account[a].requested = "none"
    /\ side = "account" => part = "items"

BelongingsNext ==
    /\ side = "belongings" /\ UNCHANGED <<side, accountVars>>
    /\ PhotosNext \/ ItemsNext \/ EntriesNext
LifecycleNext == side = "account" /\ AccountNext /\ UNCHANGED <<side, vars>>

SidesSpec ==
    /\ SidesInit
    /\ [][BelongingsNext \/ LifecycleNext]_sideVars
    /\ \/ side = "belongings" /\ Fairness
       \/ side = "account" /\ AccountFairness
===============================================================================
