--------------------------- MODULE MCBlindCompetition -------------------------
(* BlindCompetition among three agents, one of them not registered, with    *)
(* two requests in flight.                                         *)
EXTENDS BlindCompetition, TLC

CONSTANTS a1, a2, a3, ghost, r1, r2, c1, c2

\* Too short, twice the same, an unregistered worker or all three.
MCLineups == {<<a1>>, <<a1, a1>>, <<a1, a2>>, <<a1, ghost>>, <<a1, a2, a3>>}

Symmetry == Permutations(BlindRequests)
=============================================================================
