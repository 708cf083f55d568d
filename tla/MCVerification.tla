--------------------------- MODULE MCVerification ---------------------------
(* Two comments, two commits, two overlapping requests of a session and a  *)
(* run of the command line, before, during or after it.                    *)
EXTENDS Verification

CONSTANTS c1, c2

MCComments == {c1, c2}
=============================================================================
