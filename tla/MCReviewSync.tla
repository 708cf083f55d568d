---------------------------- MODULE MCReviewSync ----------------------------
(* Three comments on two pages, of which the first is deleted before the   *)
(* next is answered.  A terminal that shows two rows.                      *)
EXTENDS ReviewSync

Comment(id, reply, tag) == [id |-> id, reply |-> reply, tag |-> tag]

MCHistory ==
  << {Comment(1, None, "a"), Comment(2, None, "b"), Comment(3, None, "a")},
     {Comment(2, None, "b"), Comment(3, None, "a")},
     {Comment(2, None, "b"), Comment(3, None, "a"), Comment(4, 2, "b")} >>

MCSnapshots == SUBSET UNION {MCHistory[v] : v \in DOMAIN MCHistory}
=============================================================================
