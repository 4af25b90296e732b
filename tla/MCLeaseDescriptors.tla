------------------------- MODULE MCLeaseDescriptors -------------------------
(* LeaseDescriptors with one path, so that agents meet on it, and a handler  *)
(* whose clients ask for a shorter ttl than those of the other one.          *)
EXTENDS LeaseDescriptors, TLC

CONSTANTS r1, r2

ShortAndLong == r1 :> {1} @@ r2 :> {2}
=============================================================================
