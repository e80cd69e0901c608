------------------------------ MODULE NodeStore ------------------------------
(***************************************************************************)
(* The inbox transactions of one endpoint's durable SQLite store, as       *)
(* operators on the inbox table.  The table is a function from message     *)
(* identifiers to their processing_state ("ABSENT" when there is no row);  *)
(* received_at gives the order in which rows were inserted.  Every         *)
(* operator is one BEGIN IMMEDIATE transaction of NodeStore: the services  *)
(* that use it take it as one atomic step.                                 *)
(***************************************************************************)
EXTENDS Naturals

InboxState == {"ABSENT", "RECEIVED", "PROCESSING", "PROCESSED", "FAILED"}

\* receive: persist before handling; an identical duplicate changes nothing.
Receive(inbox, m) ==
    IF inbox[m] = "ABSENT" THEN [inbox EXCEPT ![m] = "RECEIVED"] ELSE inbox

ClaimableAgain(inbox) == {m \in DOMAIN inbox : inbox[m] \notin {"ABSENT", "PROCESSING"}}
Claimable(inbox) == {m \in DOMAIN inbox : inbox[m] \in {"RECEIVED", "FAILED"}}

\* ORDER BY processing_state (RECEIVED first), received_at.
ClaimsBefore(inbox, received_at, m, n) ==
    \/ inbox[m] = "RECEIVED" /\ inbox[n] = "FAILED"
    \/ inbox[m] = inbox[n] /\ received_at[m] <= received_at[n]

\* claim_next_inbox: the row LIMIT 1 selects, as a set with at most one member.
NextInbox(inbox, received_at) ==
    {m \in Claimable(inbox) :
        \A n \in Claimable(inbox) : ClaimsBefore(inbox, received_at, m, n)}

\* claim_inbox and claim_next_inbox: the claimed row becomes PROCESSING.
Claim(inbox, m) == [inbox EXCEPT ![m] = "PROCESSING"]

\* fail_inbox and complete_inbox: both refuse a row that is not PROCESSING.
Held(inbox, m) == inbox[m] = "PROCESSING"
FailDrops(inbox, m) == [inbox EXCEPT ![m] = "PROCESSED"]
Fail(inbox, m) == [inbox EXCEPT ![m] = "FAILED"]
Complete(inbox, m) == [inbox EXCEPT ![m] = "PROCESSED"]

\* recover_interrupted_processing: what a crashed handler had claimed.
RecoverNothing(inbox) == inbox
RecoverEverything(inbox) ==
    [m \in DOMAIN inbox |-> IF inbox[m] = "ABSENT" THEN "ABSENT" ELSE "RECEIVED"]
RecoverInterrupted(inbox) ==
    [m \in DOMAIN inbox |->
        IF inbox[m] = "PROCESSING" THEN "RECEIVED" ELSE inbox[m]]
=============================================================================
