---------------------------- MODULE MCPersistence ----------------------------
(* Persistence with two slugs of one topic, one context key and two creators. *)
EXTENDS Persistence

MCSlugs == <<"plan", "plan-2">>
CallerSymmetry == Permutations(Callers)
=============================================================================
