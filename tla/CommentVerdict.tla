--------------------------- MODULE CommentVerdict ---------------------------
(***************************************************************************)
(* Whether a review comment has been resolved                              *)
(* (src/src/verification/service.rs).                                      *)
(*                                                                         *)
(* A comment is anchored to a line of the commit it was made on; the line  *)
(* is mapped to the target commit (LineMapping) and, where it is still     *)
(* there, its text is compared with what it was.  Git may fail at any of   *)
(* these steps.                                                            *)
(*                                                                         *)
(* A line's text is its position in the edit script: a diff keeps a line   *)
(* only as it is, and takes one that changed for a deletion and an         *)
(* addition.                                                               *)
(***************************************************************************)
EXTENDS LineMapping

CONSTANTS
  Placements   \* review comments, by what GitHub says of their place

Comment == [sha: BOOLEAN, path: BOOLEAN,
            original: Nat \cup {None}, line: Nat \cup {None}]

ASSUME CommentVerdictAssumption == Placements \subseteq Comment

VARIABLES
  comment,   \* the comment being verified
  verdict    \* its CommentVerificationResult

verdictVars == <<mappingVars, comment, verdict>>

Unverified(kind) == [status |-> "Unverified", kind |-> kind]
Verified(kind)   == [status |-> "Verified", kind |-> kind]

(* A comment may be on any line, and past the end.                         *)
VerdictInit ==
  /\ script \in Scripts
  /\ comment \in {c \in Placements :
                    \A l \in {c.original, c.line} \ {None} :
                      l <= OldLine(script, Len(script)) + 1}
  /\ target = None /\ calls = None
  /\ offset = 0 /\ deleted = FALSE /\ resolved = FALSE /\ inHunk = FALSE
  /\ result = None /\ verdict = None

(* Mutant: where the comment is now, before where it was made. *)
AnchorLineNow(c) ==
  IF c.line # None THEN c.line
  ELSE IF c.original # None THEN c.original ELSE 0

(* The line of anchor_for_comment; 0 for none. *)
AnchorLine(c) ==
  IF c.original # None THEN c.original
  ELSE IF c.line # None THEN c.line ELSE 0

Anchored(c) == c.sha /\ c.path /\ AnchorLine(c) # 0

(* anchor_for_comment *)
AnchorForComment ==
  /\ target = None /\ verdict = None
  /\ IF Anchored(comment)
       THEN target' = AnchorLine(comment) /\ UNCHANGED verdict
       ELSE /\ verdict' = Unverified("InsufficientMetadata")
            /\ UNCHANGED target
  /\ UNCHANGED <<script, calls, cells, result, comment>>

(* verify_line_mapping, step by step *)
MapLine ==
  /\ target # None /\ verdict = None
  /\ NextMapping
  /\ UNCHANGED <<comment, verdict>>

(* A commit, a tree, the diff or one of the two files is not to be had. *)
RepositoryFails ==
  /\ target # None /\ verdict = None
  /\ result # None => result.status # "Deleted"
  /\ verdict' = Unverified("RepositoryDataUnavailable")
  /\ UNCHANGED <<mappingVars, comment>>

LineRemoved ==
  /\ result # None /\ verdict = None
  /\ result.status = "Deleted"
  /\ verdict' = Verified("LineRemoved")
  /\ UNCHANGED <<mappingVars, comment>>

(* line_at: the text of a line of the file without the lines of `side'. *)
LineAt(side, line) ==
  LET kept == {i \in DOMAIN script : script[i] # side}
  IN IF line \in 1..Cardinality(kept)
       THEN CHOOSE i \in kept : Cardinality({j \in kept : j <= i}) = line
       ELSE None

(* classify_line_comparison *)
ClassifyLineComparison ==
  /\ result # None /\ verdict = None
  /\ result.status # "Deleted"
  /\ LET old == LineAt("add", target)
         new == LineAt("del", result.line)
     IN verdict' = IF old = None \/ new = None
                     THEN Unverified("LineOutOfBounds")
                   ELSE IF old = new THEN Unverified("LineUnchanged")
                   ELSE Verified("LineChanged")
  /\ UNCHANGED <<mappingVars, comment>>

VerdictNext ==
  \/ AnchorForComment \/ MapLine \/ RepositoryFails
  \/ LineRemoved \/ ClassifyLineComparison

VerdictSpec == VerdictInit /\ [][VerdictNext]_verdictVars

---------------------------------------------------------------------------
(* Every verdict is what the edit did to the line the comment was made on: *)
(* a comment counts as resolved only when that line is gone, as unresolved *)
(* for want of change only when it is there as it was, as out of bounds    *)
(* only when there never was such a line.                                  *)
VerdictFollowsEdit ==
  verdict # None =>
    LET line == IF comment.original # None THEN comment.original
                ELSE comment.line
        place == PositionOf(script, line)
    IN CASE verdict.status = "Verified" ->
              \/ FileEmptied(script)
              \/ (HasLine(script, line) /\ script[place] = "del")
         [] verdict.kind = "LineUnchanged" ->
              HasLine(script, line) /\ script[place] = "keep"
         [] verdict.kind = "LineOutOfBounds" -> ~HasLine(script, line)
         [] verdict.kind = "InsufficientMetadata" ->
              ~comment.sha \/ ~comment.path \/ line \in {None, 0}
         [] OTHER -> TRUE

=============================================================================
