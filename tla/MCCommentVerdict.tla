-------------------------- MODULE MCCommentVerdict --------------------------
(* Every edit of up to MaxLength lines, deletions before insertions as in a*)
(* diff, and comments on every line of the old file and on the one past its*)
(* end, with and without each part of an anchor.                           *)
EXTENDS CommentVerdict

CONSTANTS MaxLength

MCScripts ==
  {s \in UNION {[1..n -> {"keep", "del", "add"}] : n \in 1..MaxLength} :
     \A i \in 1..(Len(s) - 1) : ~(s[i] = "add" /\ s[i + 1] = "del")}

MCPlacements ==
  {c \in [sha: BOOLEAN, path: BOOLEAN,
          original: 0..(MaxLength + 1) \cup {None}, line: {None, 0, 2}] :
     /\ ~c.sha \/ ~c.path => c.original = 1 /\ c.line = None
     /\ c.original \in {0, None} \/ c.line \in {None, 2}}
=============================================================================
