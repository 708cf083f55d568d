---------------------------- MODULE LineMapping ----------------------------
(***************************************************************************)
(* Where a commented line is after later commits                           *)
(* (src/src/local/git_ops/helpers.rs and verify_line_mapping of            *)
(* git2_impl.rs).                                                          *)
(*                                                                         *)
(* libgit2 hands a diff over hunk by hunk and line by line; LineOffsetState*)
(* keeps, in four cells, what it has learnt of the target so far.  The     *)
(* model takes the diff of an arbitrary edit script, with context lines as *)
(* libgit2 shows them, and runs the same callbacks over it.                *)
(***************************************************************************)
EXTENDS Option, Integers, Sequences, FiniteSets, SequencesExt

CONSTANTS
  Scripts,   \* edits: sequences of "keep", "del" and "add"
  Context,   \* unchanged lines shown around a change
  MaxI32     \* i32::MAX

(* What libgit2 calls back with, and what the service answers.             *)
Call == [kind: {"hunk"}, start: Nat, old: Nat, new: Nat]
        \cup [kind: {"line"}, origin: {"keep", "del", "add"},
              old: Nat \cup {None}, new: Nat \cup {None}]

Mapping == [status: {"Exact", "Moved", "Deleted"},
            line: (Nat \ {0}) \cup {None}]

ASSUME LineMappingAssumption ==
  /\ Scripts \subseteq Seq({"keep", "del", "add"})
  /\ Context \in Nat \ {0}
  /\ MaxI32 \in Nat
  /\ None \notin Nat /\ None \notin Seq(Call) /\ None \notin Mapping

(* Positions of a script: those of the old file, those of the new one.     *)
OldLine(s, i) == Cardinality({j \in 1..i : s[j] # "add"})
NewLine(s, i) == Cardinality({j \in 1..i : s[j] # "del"})
PositionOf(s, line) ==
  CHOOSE i \in DOMAIN s : s[i] # "add" /\ OldLine(s, i) = line

HasLine(s, line) == line \in 1..OldLine(s, Len(s))

(* What the edit makes of a line, read off the script: the reference.  A   *)
(* line past the end goes with the file, or stays as far past its end.     *)
Mapped(line, new) ==
  [status |-> IF new = line THEN "Exact" ELSE "Moved", line |-> new]

Gone == [status |-> "Deleted", line |-> None]

FileEmptied(s) == \A i \in DOMAIN s : s[i] = "del"

Expected(s, line) ==
  IF HasLine(s, line)
    THEN LET i == PositionOf(s, line)
         IN {IF s[i] = "del" THEN Gone ELSE Mapped(line, NewLine(s, i))}
    ELSE {Mapped(line, line + NewLine(s, Len(s)) - OldLine(s, Len(s)))}
         \cup (IF FileEmptied(s) THEN {Gone} ELSE {})

---------------------------------------------------------------------------
(* libgit2: a hunk is a maximal run of positions close to a change; its    *)
(* header counts its lines in both files, and starts a hunk without old    *)
(* lines at the line before it.                                            *)

Changed(s) == {i \in DOMAIN s : s[i] # "keep"}
Shown(s)   == {i \in DOMAIN s :
                 \E j \in Changed(s) : j - i \in (-Context)..Context}

HunkFrom(s, first) ==
  {i \in Shown(s) : i >= first /\ first..i \subseteq Shown(s)}

Header(s, first) ==
  LET hunk == HunkFrom(s, first)
      old  == Cardinality({i \in hunk : s[i] # "add"})
  IN [kind |-> "hunk",
      start |-> OldLine(s, first - 1) + IF old = 0 THEN 0 ELSE 1,
      old |-> old, new |-> Cardinality({i \in hunk : s[i] # "del"})]

Line(s, i) ==
  [kind |-> "line", origin |-> s[i],
   old |-> IF s[i] = "add" THEN None ELSE OldLine(s, i),
   new |-> IF s[i] = "del" THEN None ELSE NewLine(s, i)]

(* The callbacks of Diff::foreach, in their order. *)
CallsAt(s, i) ==
  IF i \notin Shown(s) THEN <<>>
  ELSE IF i - 1 \in Shown(s) THEN <<Line(s, i)>>
  ELSE <<Header(s, i), Line(s, i)>>

Callbacks(s) == FlattenSeq([i \in DOMAIN s |-> CallsAt(s, i)])

---------------------------------------------------------------------------
VARIABLES
  script,    \* how the file changed between the two commits
  target,    \* the line asked about, on the old side
  calls,     \* callbacks to come; None before the diff is made
  offset,    \* line_offset
  deleted,   \* line_deleted
  resolved,  \* target_resolved
  inHunk,    \* target_in_current_hunk
  result     \* the LineMappingVerification answered

cells == <<offset, deleted, resolved, inHunk>>
mappingVars == <<script, target, calls, cells, result>>

InitMapping ==
  /\ script \in Scripts
  /\ target \in 1..(OldLine(script, Len(script)) + 1)
  /\ calls = None
  /\ offset = 0 /\ deleted = FALSE /\ resolved = FALSE /\ inHunk = FALSE
  /\ result = None

(* No diff is made of a file that is gone or of one that did not change.   *)
FileGone ==
  /\ calls = None /\ result = None
  /\ FileEmptied(script)
  /\ result' = Gone
  /\ UNCHANGED <<script, target, calls, cells>>

Unchanged ==
  /\ calls = None /\ result = None
  /\ Changed(script) = {}
  /\ result' = [status |-> "Exact", line |-> target]
  /\ UNCHANGED <<script, target, calls, cells>>

(* A file all of whose lines are deleted may also be there, empty.         *)
CreateFileDiff ==
  /\ calls = None /\ result = None
  /\ Changed(script) # {}
  /\ calls' = Callbacks(script)
  /\ UNCHANGED <<script, target, cells, result>>

(* classify_line *)
Past(hunk) == target >= hunk.start + hunk.old

Inside(hunk) == target >= hunk.start /\ ~Past(hunk)

ProcessHunk ==
  /\ calls # None /\ calls # <<>> /\ Head(calls).kind = "hunk"
  /\ calls' = Tail(calls)
  /\ LET hunk == Head(calls)
     IN IF resolved THEN UNCHANGED cells
        ELSE IF inHunk
          THEN /\ deleted' = TRUE /\ resolved' = TRUE /\ inHunk' = FALSE
               /\ UNCHANGED offset
        ELSE /\ offset' = IF Past(hunk) THEN offset + (hunk.new - hunk.old)
                          ELSE offset
             /\ inHunk' = Inside(hunk)
             /\ resolved' = (~Past(hunk) /\ ~Inside(hunk))
             /\ UNCHANGED deleted
  /\ UNCHANGED <<script, target, result>>

(* Mutant: the offset inside a hunk is added to that of the hunks before.  *)
ProcessLineAddingUp ==
  /\ calls # None /\ calls # <<>> /\ Head(calls).kind = "line"
  /\ calls' = Tail(calls)
  /\ LET line == Head(calls)
     IN IF resolved \/ ~inHunk \/ line.old # target THEN UNCHANGED cells
        ELSE /\ deleted' = (line.origin = "del")
             /\ offset' = IF line.new = None THEN offset
                          ELSE offset + (line.new - target)
             /\ resolved' = TRUE
             /\ inHunk' = FALSE
  /\ UNCHANGED <<script, target, result>>

ProcessLine ==
  /\ calls # None /\ calls # <<>> /\ Head(calls).kind = "line"
  /\ calls' = Tail(calls)
  /\ LET line == Head(calls)
     IN IF resolved \/ ~inHunk \/ line.old # target THEN UNCHANGED cells
        ELSE /\ deleted' = (line.origin = "del")
             /\ offset' = IF line.new = None THEN offset
                          ELSE line.new - target
             /\ resolved' = TRUE
             /\ inHunk' = FALSE
  /\ UNCHANGED <<script, target, result>>

(* create_line_mapping_result: a line or a sum out of range falls back.    *)
MappingResult(isDeleted) ==
  IF isDeleted THEN Gone
  ELSE LET sum == (IF target > MaxI32 THEN 0 ELSE target) + offset
           new == IF sum < 0 THEN target ELSE sum
       IN Mapped(target, new)

(* finalize, and the answer *)
Finalize ==
  /\ calls = <<>> /\ result = None
  /\ deleted' = (deleted \/ (inHunk /\ ~resolved))
  /\ result' = MappingResult(deleted')
  /\ UNCHANGED <<script, target, calls, offset, resolved, inHunk>>

NextMapping ==
  \/ FileGone \/ Unchanged \/ CreateFileDiff
  \/ ProcessHunk \/ ProcessLine \/ Finalize

SpecMapping == InitMapping /\ [][NextMapping]_mappingVars

---------------------------------------------------------------------------
MappingTypeOK ==
  /\ script \in Scripts
  /\ target \in (Nat \ {0}) \cup {None}
  /\ calls \in Seq(Call) \cup {None}
  /\ offset \in Int
  /\ deleted \in BOOLEAN /\ resolved \in BOOLEAN /\ inHunk \in BOOLEAN
  /\ result \in Mapping \cup {None}

(* The answer is what the edit did to the line, whatever hunks lie before  *)
(* it, after it and around it.                                             *)
MappingFollowsEdit == result # None => result \in Expected(script, target)

=============================================================================
