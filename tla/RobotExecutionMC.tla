-------------------------- MODULE RobotExecutionMC --------------------------
(***************************************************************************)
(* Instances of RobotExecution for TLC.  The functions between envelopes,  *)
(* contracts, assignments and operations that a configuration file cannot  *)
(* write are defined here.                                                 *)
(***************************************************************************)
EXTENDS RobotExecution, TLC

CONSTANTS c1, c2, c3, e1, e2, e3, e4, a1, a2, o1, o2

\* One contract, delivered in one envelope or in two.
SingleContractOf == e1 :> c1
OneContractOf == e1 :> c1 @@ e2 :> c1
OneAssignmentOf == c1 :> a1
OneOperationOf == c1 :> o1

\* Two contracts on one operation, and a third of its own that is delivered
\* twice.
RivalContractOf == e1 :> c1 @@ e2 :> c2 @@ e3 :> c3 @@ e4 :> c3
RivalAssignmentOf == c1 :> a1 @@ c2 :> a1 @@ c3 :> a1
RivalOperationOf == c1 :> o1 @@ c2 :> o1 @@ c3 :> o2
=============================================================================
