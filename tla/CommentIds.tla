----------------------------- MODULE CommentIds ------------------------------
(* The review comments of a pull request are known by their ids.            *)

CONSTANT Ids
=============================================================================
