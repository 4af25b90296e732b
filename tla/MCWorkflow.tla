----------------------------- MODULE MCWorkflow -----------------------------
(* Workflow with five registered agents: h is a human, b is not capable. *)
EXTENDS Workflow

CONSTANTS a1, a2, a3, b, h

MCKeyOrder == <<a1, a2, a3, b, h>>
MCRequested == {<<>>, <<a2, a1>>, <<a1, a1>>, <<a3, h, a1, a2>>, <<a1, b>>}
MCWorkerCounts == {NoCount, 1, 2, 3}
=============================================================================
