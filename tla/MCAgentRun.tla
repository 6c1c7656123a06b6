----------------------------- MODULE MCAgentRun -----------------------------
(***************************************************************************)
(* Model-checking instances of AgentRun.  The processes and the calls of   *)
(* one class are interchangeable: no definition names one of them.         *)
(***************************************************************************)
EXTENDS AgentRun, TLC

WorkerSymmetry == Permutations(Workers)
=============================================================================
