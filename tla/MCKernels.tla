------------------------------ MODULE MCKernels ------------------------------
(* The planner and the data path side by side: a behaviour plans one       *)
(* request or takes one of the host's jobs through the library.            *)
EXTENDS MCPlanner, MCDataPath

Init ==
  \/ PlanInit /\ DataIdle
  \/ PlanIdle /\ DataInit

Next ==
  \/ PlanNext /\ UNCHANGED dataVars
  \/ DataNext /\ UNCHANGED planVars

Spec == Init /\ [][Next]_<<planVars, dataVars>>
=============================================================================
