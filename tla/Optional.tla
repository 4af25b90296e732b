------------------------------- MODULE Optional -------------------------------
(* The value of an absent field, argument or setting: Rust's Option::None.  *)
CONSTANT None
=============================================================================
