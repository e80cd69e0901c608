----------------------------- MODULE SingleShot -----------------------------
(***************************************************************************)
(* What the Robot promises about an operation, without processes, crashes  *)
(* or a database: the authority to act is committed at most once, the      *)
(* world is changed at most once and only under that authority, and the    *)
(* account that is finally given of it is true and final.  The store's     *)
(* external_effect_adapter and database dummy both implement it.           *)
(***************************************************************************)
EXTENDS Naturals

CONSTANT Operations

VARIABLES
    phase,     \* open, committed, refused or ended
    effects,   \* how often the world was changed
    account    \* what was reported: none, DONE, NOT_DONE or UNKNOWN

state == <<phase, effects, account>>

Accounts(n) == {IF n = 0 THEN "NOT_DONE" ELSE "DONE", "UNKNOWN"}

\* A store may already hold operations that were begun, or ended, earlier.
Init ==
    /\ phase \in [Operations -> {"open", "committed", "ended"}]
    /\ effects \in [Operations -> 0..1]
    /\ account \in [Operations -> {"none", "DONE", "NOT_DONE", "UNKNOWN"}]
    /\ \A o \in Operations :
          /\ phase[o] = "open" => effects[o] = 0
          /\ IF phase[o] = "ended" THEN account[o] \in Accounts(effects[o])
             ELSE account[o] = "none"

Commit(o) ==
    /\ phase[o] = "open"
    /\ phase' = [phase EXCEPT ![o] = "committed"]
    /\ UNCHANGED <<effects, account>>

Refuse(o) ==
    /\ phase[o] = "open"
    /\ phase' = [phase EXCEPT ![o] = "refused"]
    /\ UNCHANGED <<effects, account>>

Act(o) ==
    /\ phase[o] = "committed"
    /\ effects[o] = 0
    /\ effects' = [effects EXCEPT ![o] = 1]
    /\ UNCHANGED <<phase, account>>

\* The account agrees with the world, or admits not to know.
End(o) ==
    /\ phase[o] = "committed"
    /\ phase' = [phase EXCEPT ![o] = "ended"]
    /\ \E a \in Accounts(effects[o]) : account' = [account EXCEPT ![o] = a]
    /\ UNCHANGED effects

\* The database dummy's effect is the record of it.
ActAndEnd(o) ==
    /\ phase[o] = "committed"
    /\ effects[o] = 0
    /\ effects' = [effects EXCEPT ![o] = 1]
    /\ phase' = [phase EXCEPT ![o] = "ended"]
    /\ account' = [account EXCEPT ![o] = "DONE"]

Next == \E o \in Operations :
    Commit(o) \/ Refuse(o) \/ Act(o) \/ End(o) \/ ActAndEnd(o)

Spec == Init /\ [][Next]_state
=============================================================================
