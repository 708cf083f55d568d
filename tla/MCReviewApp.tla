---------------------------- MODULE MCReviewApp -----------------------------
(* A comment on one file, and one on another with a reply; their hunks     *)
(* have the same text.  Snapshots in which the comment between the others  *)
(* comes and goes, and one with none.  Terminals that show one and two     *)
(* rows of them.                                                           *)
EXTENDS ReviewApp

Comment(id, reply) == [id |-> id, reply |-> reply, tag |-> "any"]

MCSnapshots ==
  { {},
    {Comment(1, None), Comment(3, 2)},
    {Comment(1, None), Comment(2, None), Comment(3, 2)} }

MCSizes   == {<<80, 3>>, <<120, 8>>}
MCFile    == <<1, 2, 2>>
MCLine    == <<7, 5, 0>>
MCText    == <<"x", "x", "x">>
MCWritten == <<1, 2, 3>>

Entry(root, severity) == [root |-> root, severity |-> severity, blank |-> FALSE]

(* Answers about the comments with and without the second. *)
MCAnswers ==
  {<<Entry(2, "high"), Entry(1, "low")>>, <<Entry(1, "low"), Entry(3, "low")>>}
=============================================================================
