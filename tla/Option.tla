------------------------------- MODULE Option --------------------------------
(* Rust's Option, wherever one is kept: a value as it is, or None.          *)

CONSTANT None
=============================================================================
