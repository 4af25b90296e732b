------------------------------ MODULE SealedRound -----------------------------
(***************************************************************************)
(* What a blind competition promises, with nothing of how requests are      *)
(* handled: a lineup is convened once, each of its workers seals one        *)
(* candidate, the reviewer opens the complete set once, and a viewer looks  *)
(* at its own sealed candidate or, once the set is open, at any.            *)
(***************************************************************************)
EXTENDS Optional

CONSTANTS Agents, Drafts

VARIABLES
    lineup,  \* the workers and the reviewer, or None
    sealed,  \* the candidate of each agent, or None
    opened,  \* who opened the set, or None
    seen     \* whose candidates a viewer has looked at

vars == <<lineup, sealed, opened, seen>>

Viewers == Agents \cup {None}
Sealers == {w \in Agents : sealed[w] # None}

Init ==
    /\ lineup = None
    /\ sealed = [w \in Agents |-> None]
    /\ opened = None
    /\ seen = [v \in Viewers |-> {}]

Convene ==
    /\ lineup = None
    /\ lineup' \in [workers: SUBSET Agents, reviewer: Agents]
    /\ lineup'.reviewer \notin lineup'.workers
    /\ UNCHANGED <<sealed, opened, seen>>

Seal(w, content) ==
    /\ lineup # None /\ w \in lineup.workers
    /\ sealed[w] = None /\ opened = None
    /\ sealed' = [sealed EXCEPT ![w] = content]
    /\ UNCHANGED <<lineup, opened, seen>>

Open ==
    /\ lineup # None /\ opened = None
    /\ Sealers = lineup.workers
    /\ opened' = lineup.reviewer
    /\ UNCHANGED <<lineup, sealed, seen>>

Look(v, shown) ==
    /\ shown \subseteq Sealers
    /\ opened = None => shown \subseteq {v}
    /\ seen' = [seen EXCEPT ![v] = @ \cup shown]
    /\ UNCHANGED <<lineup, sealed, opened>>

Next ==
    \/ Convene
    \/ \E w \in Agents, content \in Drafts : Seal(w, content)
    \/ Open
    \/ \E v \in Viewers, shown \in SUBSET Agents : Look(v, shown)

Spec == Init /\ [][Next]_vars
=============================================================================
