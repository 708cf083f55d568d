-------------------------- MODULE DiscussionProofs --------------------------
(***************************************************************************)
(* What a summary of a discussion holds and shows, for every conversation  *)
(* and every answer of the model that is accepted: what it is made of,     *)
(* that each comment is in exactly one item, with those replies join it    *)
(* to, and that the row an item is looked up in is the one it is drawn in. *)
(***************************************************************************)
EXTENDS Discussion, ListLemmas, FiniteSetTheorems, SequenceTheorems, TLAPS

---------------------------------------------------------------------------
(* The discussion summary: what it is made of.                             *)

(* The comments of a request: each once, a reply after what it replies to. *)
Conversation(comments) ==
  /\ IsFiniteSet(comments) /\ \A c \in comments : c.id \in Ids
  /\ \A a, b \in comments : a.id = b.id => a = b
  /\ \A c \in comments : c.reply \in Ids => c.reply < c.id

(* The walk to the root of a thread ends at one of its comments            *)
(* (build_discussion_threads).                                             *)
LEMMA RootsUnfold ==
  ASSUME NEW comments, Conversation(comments), Ids \in SUBSET Nat
  PROVE  LET root == Roots(comments)
             P    == IdsOf(comments)
         IN /\ P \in SUBSET Ids /\ IsFiniteSet(P)
            /\ root \in [P -> P]
            /\ \A id \in P :
                 /\ ParentOf(id, comments) \in P
                      => ParentOf(id, comments) < id
                 /\ root[id] = IF ParentOf(id, comments) \in P
                                 THEN root[ParentOf(id, comments)] ELSE id
<1> DEFINE P == IdsOf(comments)
           root == Roots(comments)
           up == [id \in P |-> ParentOf(id, comments)]
<1>1. P \in SUBSET Ids /\ P = {c.id : c \in comments}
  BY DEF IdsOf, Conversation
<1>2. IsFiniteSet(P)
  <2> DEFINE f == [c \in comments |-> c.id]
  <2>1. \A y \in P : \E c \in comments : y = f[c]
    BY <1>1
  <2> HIDE DEF f, P
  <2> QED
    BY <2>1, ImageIsFinite DEF Conversation
<1>3. ASSUME NEW id \in P, up[id] \in P
      PROVE  up[id] < id
  <2>1. PICK c \in comments : c.id = id
    BY <1>1
  <2>2. (CHOOSE x \in comments : x.id = id) = c
    BY <2>1 DEF Conversation
  <2>3. up[id] = c.reply
    BY <2>2 DEF ParentOf
  <2> QED
    BY <1>1, <1>3, <2>1, <2>3 DEF Conversation
<1> HIDE DEF P
<1>4. PICK f \in [P -> P] :
        \A id \in P : f[id] = IF up[id] \in P THEN f[up[id]] ELSE id
  <2> HIDE DEF up
  <2>1. P \in SUBSET Nat /\ \A id \in P : up[id] \in P => up[id] < id
    BY <1>1, <1>3
  <2> QED
    BY <1>2, <2>1, ChainsEnd
<1>5. root = [id \in P |-> IF ParentOf(id, comments) \in P
                              THEN root[ParentOf(id, comments)] ELSE id]
  <2>1. f = [id \in P |-> IF ParentOf(id, comments) \in P
                            THEN f[ParentOf(id, comments)] ELSE id]
    BY <1>4
  <2>2. root = CHOOSE g :
                 g = [id \in P |-> IF ParentOf(id, comments) \in P
                                     THEN g[ParentOf(id, comments)] ELSE id]
    BY DEF Roots, P
  <2> HIDE DEF root
  <2> QED
    BY <2>1, <2>2
<1> HIDE DEF root
<1>6. \A id \in P : root[id] = IF up[id] \in P THEN root[up[id]] ELSE id
  BY <1>5
<1>7. \A id \in P : root[id] \in P
  <2> DEFINE Bad == {id \in P : root[id] \notin P}
  <2> SUFFICES ASSUME Bad # {} PROVE FALSE
    OBVIOUS
  <2>1. Bad \in SUBSET Nat
    BY <1>1
  <2>2. PICK m \in Bad : \A k \in Bad : m <= k
    <3> HIDE DEF Bad
    <3> QED
      BY <2>1, LeastOfSet
  <2>3. up[m] \in P /\ root[up[m]] \notin P
    BY <1>6, <2>2
  <2>4. up[m] < m /\ up[m] \in Bad /\ up[m] \in Nat /\ m \in Nat
    <3> HIDE DEF up
    <3> QED BY <1>1, <1>3, <2>3
  <2> HIDE DEF Bad, up
  <2> QED
    BY <2>2, <2>4
<1>8. root \in [P -> P]
  BY <1>5, <1>7
<1> HIDE DEF up
<1>9. \A id \in P : up[id] = ParentOf(id, comments)
  BY DEF up
<1> QED
  BY <1>1, <1>2, <1>3, <1>6, <1>8, <1>9 DEF P, root

(* The file groups, one per file, are sorted (compare_file_groups). *)
LEMMA GroupsInOrder ==
  ASSUME NEW S, IsFiniteSet(S), \A a \in S : a.file \in Nat,
         \A a, b \in S : a.file = b.file => a = b
  PROVE  ListsOnce(Sorted(S, FileBefore), S)
<1> DEFINE R == {p \in S \X S : p[1] # p[2] /\ FileBefore(p[1], p[2])}
<1>1. \A a, b \in S : <<a, b>> \in R <=> a # b /\ FileBefore(a, b)
  OBVIOUS
<1> HIDE DEF R
<1>2. IsOrder(S, R)
  BY <1>1 DEF IsOrder, FileBefore, General
<1>3. \A x \in S :
        Cardinality({y \in S \ {x} : FileBefore(y, x)}) = Rank(S, R, x)
  <2>1. \A x \in S :
          {y \in S \ {x} : FileBefore(y, x)} = {s \in S : <<s, x>> \in R}
    BY <1>1
  <2> QED
    BY <2>1 DEF Rank
<1>4. \A n : (CHOOSE x \in S :
                Cardinality({y \in S \ {x} : FileBefore(y, x)}) = n - 1)
             = CHOOSE x \in S : Rank(S, R, x) = n - 1
  BY <1>3
<1>5. Sorted(S, FileBefore) = Ranked(S, R)
  <2>1. Sorted(S, FileBefore)
          = [n \in 1..Cardinality(S) |->
               CHOOSE x \in S :
                 Cardinality({y \in S \ {x} : FileBefore(y, x)}) = n - 1]
    BY DEF Sorted
  <2> QED
    BY <1>4, <2>1 DEF Ranked
<1> QED
  BY <1>2, <1>5, RankedListsOnce

(* So are the items of a bucket, one per thread, *)
LEMMA ItemsInOrder ==
  ASSUME NEW S, IsFiniteSet(S), \A a \in S : a.root \in Nat,
         \A a, b \in S : a.root = b.root => a = b
  PROVE  ListsOnce(Sorted(S, RootBefore), S)
<1> DEFINE R == {p \in S \X S : p[1] # p[2] /\ RootBefore(p[1], p[2])}
<1>1. \A a, b \in S : <<a, b>> \in R <=> a # b /\ RootBefore(a, b)
  OBVIOUS
<1> HIDE DEF R
<1>2. IsOrder(S, R)
  BY <1>1 DEF IsOrder, RootBefore
<1>3. \A x \in S :
        Cardinality({y \in S \ {x} : RootBefore(y, x)}) = Rank(S, R, x)
  <2>1. \A x \in S :
          {y \in S \ {x} : RootBefore(y, x)} = {s \in S : <<s, x>> \in R}
    BY <1>1
  <2> QED
    BY <2>1 DEF Rank
<1>4. \A n : (CHOOSE x \in S :
                Cardinality({y \in S \ {x} : RootBefore(y, x)}) = n - 1)
             = CHOOSE x \in S : Rank(S, R, x) = n - 1
  BY <1>3
<1>5. Sorted(S, RootBefore) = Ranked(S, R)
  <2>1. Sorted(S, RootBefore)
          = [n \in 1..Cardinality(S) |->
               CHOOSE x \in S :
                 Cardinality({y \in S \ {x} : RootBefore(y, x)}) = n - 1]
    BY DEF Sorted
  <2> QED
    BY <1>4, <2>1 DEF Ranked
<1> QED
  BY <1>2, <1>5, RankedListsOnce

(* the buckets of a group, one per severity, *)
LEMMA BucketsInOrder ==
  ASSUME NEW S, IsFiniteSet(S),
         \A a \in S : a.severity \in DOMAIN SeverityRank,
         \A a, b \in S : a.severity = b.severity => a = b
  PROVE  ListsOnce(Sorted(S, SeverityBefore), S)
<1> DEFINE R == {p \in S \X S : p[1] # p[2] /\ SeverityBefore(p[1], p[2])}
<1>1. \A a, b \in S : <<a, b>> \in R <=> a # b /\ SeverityBefore(a, b)
  OBVIOUS
<1> HIDE DEF R
<1>2. IsOrder(S, R)
  BY <1>1 DEF IsOrder, SeverityBefore, SeverityRank
<1>3. \A x \in S :
        Cardinality({y \in S \ {x} : SeverityBefore(y, x)}) = Rank(S, R, x)
  <2>1. \A x \in S :
          {y \in S \ {x} : SeverityBefore(y, x)} = {s \in S : <<s, x>> \in R}
    BY <1>1
  <2> QED
    BY <2>1 DEF Rank
<1>4. \A n : (CHOOSE x \in S :
                Cardinality({y \in S \ {x} : SeverityBefore(y, x)}) = n - 1)
             = CHOOSE x \in S : Rank(S, R, x) = n - 1
  BY <1>3
<1>5. Sorted(S, SeverityBefore) = Ranked(S, R)
  <2>1. Sorted(S, SeverityBefore)
          = [n \in 1..Cardinality(S) |->
               CHOOSE x \in S :
                 Cardinality({y \in S \ {x} : SeverityBefore(y, x)}) = n - 1]
    BY DEF Sorted
  <2> QED
    BY <1>4, <2>1 DEF Ranked
<1> QED
  BY <1>2, <1>5, RankedListsOnce

(* and the comments of a thread (sort_by_key). *)
LEMMA CommentsInOrder ==
  ASSUME NEW S, IsFiniteSet(S), S \in SUBSET Ids,
         Ids \in SUBSET Nat, Written \in [Ids -> Nat]
  PROVE  ListsOnce(Sorted(S, WrittenBefore), S)
<1> DEFINE R == {p \in S \X S : p[1] # p[2] /\ WrittenBefore(p[1], p[2])}
<1>1. \A a, b \in S : <<a, b>> \in R <=> a # b /\ WrittenBefore(a, b)
  OBVIOUS
<1> HIDE DEF R
<1>2. IsOrder(S, R)
  BY <1>1 DEF IsOrder, WrittenBefore
<1>3. \A x \in S :
        Cardinality({y \in S \ {x} : WrittenBefore(y, x)}) = Rank(S, R, x)
  <2>1. \A x \in S :
          {y \in S \ {x} : WrittenBefore(y, x)} = {s \in S : <<s, x>> \in R}
    BY <1>1
  <2> QED
    BY <2>1 DEF Rank
<1>4. \A n : (CHOOSE x \in S :
                Cardinality({y \in S \ {x} : WrittenBefore(y, x)}) = n - 1)
             = CHOOSE x \in S : Rank(S, R, x) = n - 1
  BY <1>3
<1>5. Sorted(S, WrittenBefore) = Ranked(S, R)
  <2>1. Sorted(S, WrittenBefore)
          = [n \in 1..Cardinality(S) |->
               CHOOSE x \in S :
                 Cardinality({y \in S \ {x} : WrittenBefore(y, x)}) = n - 1]
    BY DEF Sorted
  <2> QED
    BY <1>4, <2>1 DEF Ranked
<1> QED
  BY <1>2, <1>5, RankedListsOnce

(* What a summary is made of.  No part of it is empty.                     *)
Severities     == DOMAIN SeverityRank
SummaryItem    == [root: Ids, related: Seq(Ids)]
SeverityBucket == [severity: Severities, items: Seq(SummaryItem) \ {<<>>}]
FileGroup      == [file: Nat, buckets: Seq(SeverityBucket) \ {<<>>}]

(* The threads of a conversation are rooted at one of its comments.        *)
LEMMA ThreadsTold ==
  ASSUME NEW comments, Conversation(comments)
  PROVE  \A t \in Threads(comments) :
           /\ t.root \in Ids /\ t.file \in Nat /\ t.related \in Seq(Ids)
           /\ ToSet(t.related) = {id \in IdsOf(comments) :
                                    Roots(comments)[id] = t.root}
<1> DEFINE root == Roots(comments)
           P == IdsOf(comments)
           Of(r) == {id \in P : root[id] = r}
<1>1. P \in SUBSET Ids /\ IsFiniteSet(P) /\ root \in [P -> P]
  BY RootsUnfold, DiscussionAssumption
<1> SUFFICES ASSUME NEW r \in P
             PROVE  File[r] \in Nat /\ r \in Ids
                    /\ Sorted(Of(r), WrittenBefore) \in Seq(Ids)
                    /\ ToSet(Sorted(Of(r), WrittenBefore)) = Of(r)
  <2> HIDE DEF P, root
  <2>1. \A id \in P : root[id] \in P
    BY <1>1
  <2>2. Threads(comments)
          = {[root |-> r, file |-> File[r],
              related |-> Sorted(Of(r), WrittenBefore)] :
               r \in {root[id] : id \in P}}
    BY DEF Threads, P, root
  <2>3. \A r : {id \in IdsOf(comments) : Roots(comments)[id] = r} = Of(r)
    BY DEF P, root
  <2> HIDE DEF Of
  <2>4. ASSUME NEW t \in Threads(comments)
        PROVE  /\ t.root \in Ids /\ t.file \in Nat /\ t.related \in Seq(Ids)
               /\ ToSet(t.related) = Of(t.root)
    <3>1. PICK r \in P :
            t = [root |-> r, file |-> File[r],
                 related |-> Sorted(Of(r), WrittenBefore)]
      BY <2>1, <2>2
    <3> QED
      BY <3>1
  <2> QED
    BY <2>3, <2>4
<1>2. File[r] \in Nat /\ r \in Ids
  BY <1>1, DiscussionAssumption
<1>3. IsFiniteSet(Of(r)) /\ Of(r) \in SUBSET Ids
  <2>1. Of(r) \in SUBSET P
    OBVIOUS
  <2> HIDE DEF Of, P
  <2> QED
    BY <1>1, <2>1, FS_Subset
<1>4. ListsOnce(Sorted(Of(r), WrittenBefore), Of(r))
  <2> HIDE DEF Of
  <2> QED
    BY <1>3, CommentsInOrder, DiscussionAssumption
<1>5. /\ Sorted(Of(r), WrittenBefore) \in Seq(Ids)
      /\ ToSet(Sorted(Of(r), WrittenBefore)) = Of(r)
  <2> DEFINE list == Sorted(Of(r), WrittenBefore)
  <2>1. ListsOnce(list, Of(r))
    BY <1>4
  <2> HIDE DEF list, Of
  <2>2. list \in Seq(Ids) /\ DOMAIN list = 1..Len(list)
    BY <1>3, <2>1 DEF ListsOnce
  <2>3. ToSet(list) = Of(r)
    BY <2>1, <2>2 DEF ListsOnce, ToSet
  <2> QED
    BY <2>2, <2>3 DEF list
<1> QED
  BY <1>2, <1>5

EntriesOf(answer) == {answer[i] : i \in DOMAIN answer}

(* Each entry of an answer that is accepted is about a thread.             *)
LEMMA EntriesTold ==
  ASSUME NEW comments, Conversation(comments), NEW answer \in Answers,
         Accepts(comments, answer),
         NEW entries, entries = EntriesOf(answer)
  PROVE  /\ IsFiniteSet(entries) /\ entries # {}
         /\ \A e \in entries :
              /\ e.severity \in Severities /\ e.root \in Ids
              /\ ThreadOf(e, comments) \in Threads(comments)
              /\ ThreadOf(e, comments).root = e.root
              /\ ThreadOf(e, comments).file \in Nat
              /\ ItemOf(e, comments) \in SummaryItem
         /\ \A d, e \in entries : d.root = e.root => d = e
<1> DEFINE threads == Threads(comments)
<1>0. entries = {answer[i] : i \in DOMAIN answer}
  BY DEF EntriesOf
<1>1. answer \in Seq([root: Nat, severity: STRING, blank: BOOLEAN])
  BY DiscussionAssumption
<1>2. IsFiniteSet(entries)
  <2>1. DOMAIN answer = 1..Len(answer) /\ Len(answer) \in Nat
    BY <1>1
  <2>2. IsFiniteSet(DOMAIN answer)
    BY <2>1, FS_Interval
  <2>3. \A e \in entries : \E i \in DOMAIN answer : e = answer[i]
    BY <1>0
  <2> QED
    BY <2>2, <2>3, ImageIsFinite
<1>3. \A t \in threads : t.root \in Ids /\ t.file \in Nat /\ t.related \in Seq(Ids)
  BY ThreadsTold
<1>4. {answer[i].root : i \in DOMAIN answer} = {t.root : t \in threads}
  BY DEF Accepts, ValidDrafts
<1>5. \A e \in entries : e.severity \in Severities
  BY <1>0 DEF Accepts, Parses, Severities
<1>6. threads # {}
  <2>1. PICK c \in comments : TRUE
    BY DEF Accepts
  <2>2. c.id \in IdsOf(comments)
    BY DEF IdsOf
  <2> DEFINE roots == {Roots(comments)[id] : id \in IdsOf(comments)}
             Thread(r) ==
               [root |-> r, file |-> File[r],
                related |-> Sorted({id \in IdsOf(comments) :
                                           Roots(comments)[id] = r},
                                        WrittenBefore)]
  <2>3. threads = {Thread(r) : r \in roots}
    BY DEF Threads
  <2>4. Roots(comments)[c.id] \in roots
    BY <2>2
  <2> HIDE DEF roots, Thread, threads
  <2> QED
    BY <2>3, <2>4
<1> HIDE DEF threads
<1>7. ASSUME NEW e \in entries
      PROVE  /\ e.root \in Ids
             /\ ThreadOf(e, comments) \in threads
             /\ ThreadOf(e, comments).root = e.root
             /\ ItemOf(e, comments) \in SummaryItem
  <2>0. PICK i \in DOMAIN answer : e = answer[i]
    BY <1>0
  <2>1. PICK thread \in threads : thread.root = e.root
    <3>1. e.root \in {answer[j].root : j \in DOMAIN answer}
      BY <2>0
    <3>2. e.root \in {t.root : t \in threads}
      BY <1>4, <3>1
    <3> QED
      BY <3>2
  <2>2. ThreadOf(e, comments) = CHOOSE t \in threads : t.root = e.root
    BY DEF ThreadOf, threads
  <2>3. /\ ThreadOf(e, comments) \in threads
        /\ ThreadOf(e, comments).root = e.root
    BY <2>1, <2>2
  <2>4. ThreadOf(e, comments).related \in Seq(Ids) /\ e.root \in Ids
    BY <1>3, <2>1, <2>3
  <2> QED
    BY <2>3, <2>4 DEF ItemOf, SummaryItem
<1>8. entries # {}
  <2> DEFINE roots == {t.root : t \in threads}
  <2>0. PICK thread \in threads : TRUE
    BY <1>6
  <2>1. thread.root \in roots
    OBVIOUS
  <2>2. {answer[i].root : i \in DOMAIN answer} = roots
    BY <1>4
  <2> HIDE DEF roots
  <2>3. \E i \in DOMAIN answer : TRUE
    BY <2>1, <2>2
  <2> QED
    BY <1>0, <2>3
<1>9. ASSUME NEW d \in entries, NEW e \in entries, d.root = e.root
      PROVE  d = e
  BY <1>0, <1>9 DEF Accepts, ValidDrafts
<1>10. \A e \in entries : ThreadOf(e, comments).file \in Nat
  BY <1>3, <1>7
<1> QED
  BY <1>2, <1>5, <1>7, <1>8, <1>9, <1>10 DEF threads

(* A list of items, one about each of these entries.                       *)
HoldsOnce(list, entries, comments) ==
  /\ list \in Seq(SummaryItem)
  /\ \A n \in 1..Len(list) : \E e \in entries : list[n] = ItemOf(e, comments)
  /\ \A e \in entries : \E n \in 1..Len(list) : list[n] = ItemOf(e, comments)
  /\ \A m, n \in 1..Len(list) : list[m] = list[n] => m = n

(* Lists about different entries make one about all of them.               *)
LEMMA PartsHoldAll ==
  ASSUME NEW comments, NEW entries, NEW about, NEW N \in Nat,
         NEW parts \in Seq(Seq(SummaryItem)), Len(parts) = N,
         \A i \in 1..N : /\ about[i] \subseteq entries
                        /\ HoldsOnce(parts[i], about[i], comments),
         \A e \in entries : \E i \in 1..N : e \in about[i],
         \A i, k \in 1..N : \A d \in about[i] : \A e \in about[k] :
           ItemOf(d, comments) = ItemOf(e, comments) => i = k
  PROVE  HoldsOnce(FlattenSeq(parts), entries, comments)
<1> DEFINE flat == FlattenSeq(parts)
           ends == Ends(parts)
           place(i, j) == ends[i - 1] + j
           item(e) == ItemOf(e, comments)
<1>1. /\ flat \in Seq(SummaryItem)
      /\ \A i \in 1..N : \A j \in 1..Len(parts[i]) :
           place(i, j) \in 1..Len(flat) /\ flat[place(i, j)] = parts[i][j]
      /\ \A n \in 1..Len(flat) :
           \E i \in 1..N : \E j \in 1..Len(parts[i]) : n = place(i, j)
  <2>1. /\ flat \in Seq(SummaryItem)
        /\ \A i \in 1..Len(parts) : \A j \in 1..Len(parts[i]) :
             /\ ends[i - 1] + j \in 1..Len(flat)
             /\ flat[ends[i - 1] + j] = parts[i][j]
        /\ \A n \in 1..Len(flat) :
             \E i \in 1..Len(parts) : \E j \in 1..Len(parts[i]) :
               n = ends[i - 1] + j
    BY FlattenPlaces
  <2> HIDE DEF flat, ends
  <2> QED
    BY <2>1
<1>2. /\ \A i \in 1..N : about[i] \subseteq entries
      /\ \A i \in 1..N : \A e \in about[i] :
           \E j \in 1..Len(parts[i]) : parts[i][j] = item(e)
  BY DEF HoldsOnce
<1>3. \A i \in 1..N : \A j \in 1..Len(parts[i]) :
        \E e \in about[i] : parts[i][j] = item(e)
  BY DEF HoldsOnce
<1>4. \A i \in 1..N : \A j, l \in 1..Len(parts[i]) :
        parts[i][j] = parts[i][l] => j = l
  BY DEF HoldsOnce
<1>5. /\ \A e \in entries : \E i \in 1..N : e \in about[i]
      /\ \A i, k \in 1..N : \A d \in about[i] : \A e \in about[k] :
           item(d) = item(e) => i = k
  OBVIOUS
<1> HIDE DEF flat, place, item
<1>6. \A n \in 1..Len(flat) : \E e \in entries : flat[n] = item(e)
  <2> SUFFICES ASSUME NEW n \in 1..Len(flat)
               PROVE  \E e \in entries : flat[n] = item(e)
    OBVIOUS
  <2>1. PICK i \in 1..N : \E j \in 1..Len(parts[i]) : n = place(i, j)
    BY <1>1
  <2>2. PICK j \in 1..Len(parts[i]) : n = place(i, j)
    BY <2>1
  <2>3. PICK e \in about[i] : parts[i][j] = item(e)
    BY <1>3
  <2>4. e \in entries
    BY <1>2
  <2>5. flat[n] = item(e)
    BY <1>1, <2>2, <2>3
  <2> QED
    BY <2>4, <2>5
<1>7. \A e \in entries : \E n \in 1..Len(flat) : flat[n] = item(e)
  <2> SUFFICES ASSUME NEW e \in entries
               PROVE  \E n \in 1..Len(flat) : flat[n] = item(e)
    OBVIOUS
  <2>1. PICK i \in 1..N : e \in about[i]
    BY <1>5
  <2>2. PICK j \in 1..Len(parts[i]) : parts[i][j] = item(e)
    BY <1>2, <2>1
  <2>3. place(i, j) \in 1..Len(flat) /\ flat[place(i, j)] = item(e)
    BY <1>1, <2>2
  <2> QED
    BY <2>3
<1>8. ASSUME NEW i \in 1..N, NEW j \in 1..Len(parts[i]),
             NEW k \in 1..N, NEW l \in 1..Len(parts[k]),
             parts[i][j] = parts[k][l]
      PROVE  i = k /\ j = l
  <2>1. PICK d \in about[i] : parts[i][j] = item(d)
    BY <1>3
  <2>2. PICK e \in about[k] : parts[k][l] = item(e)
    BY <1>3
  <2>3. i = k
    BY <1>5, <1>8, <2>1, <2>2
  <2>4. j = l
    BY <1>4, <1>8, <2>3
  <2> QED
    BY <2>3, <2>4
<1>9. ASSUME NEW m \in 1..Len(flat), NEW n \in 1..Len(flat), flat[m] = flat[n]
      PROVE  m = n
  <2>1. PICK i \in 1..N : \E j \in 1..Len(parts[i]) : m = place(i, j)
    BY <1>1
  <2>2. PICK j \in 1..Len(parts[i]) : m = place(i, j)
    BY <2>1
  <2>3. PICK k \in 1..N : \E l \in 1..Len(parts[k]) : n = place(k, l)
    BY <1>1
  <2>4. PICK l \in 1..Len(parts[k]) : n = place(k, l)
    BY <2>3
  <2>5. flat[m] = parts[i][j]
    BY <1>1, <2>2
  <2>6. flat[n] = parts[k][l]
    BY <1>1, <2>4
  <2>7. parts[i][j] = parts[k][l]
    BY <1>9, <2>5, <2>6, Zenon
  <2>8. i = k /\ j = l
    BY ONLY <1>8, <2>1, <2>2, <2>3, <2>4, <2>7
  <2> QED
    BY <2>2, <2>4, <2>8
<1> QED
  BY <1>1, <1>6, <1>7, <1>9 DEF HoldsOnce, flat, item

(* The entries about one file, and of one severity, make a bucket.         *)
LEMMA BucketTold ==
  ASSUME NEW comments, NEW entries, IsFiniteSet(entries), Ids \in SUBSET Nat,
         \A e \in entries : ItemOf(e, comments) \in SummaryItem,
         \A d, e \in entries : d.root = e.root => d = e,
         NEW entry \in entries, entry.severity \in Severities
  PROVE  /\ Bucket(entry.severity, entries, comments) \in SeverityBucket
         /\ Bucket(entry.severity, entries, comments).severity = entry.severity
         /\ HoldsOnce(Bucket(entry.severity, entries, comments).items,
                      {e \in entries : e.severity = entry.severity}, comments)
<1> DEFINE here == {e \in entries : e.severity = entry.severity}
           S == {ItemOf(e, comments) : e \in here}
           list == Sorted(S, RootBefore)
           item == [e \in here |-> ItemOf(e, comments)]
<1>1. IsFiniteSet(S)
  <2>1. here \in SUBSET entries
    OBVIOUS
  <2>2. IsFiniteSet(here)
    <3> HIDE DEF here
    <3> QED BY <2>1, FS_Subset
  <2>3. \A y \in S : \E e \in here : y = item[e]
    OBVIOUS
  <2> HIDE DEF S, here, item
  <2> QED
    BY <2>2, <2>3, ImageIsFinite
<1>2. S \in SUBSET SummaryItem /\ S # {}
  <2>1. entry \in here
    OBVIOUS
  <2>2. ItemOf(entry, comments) \in S
    BY <2>1
  <2> QED
    BY <2>2
<1>3. \A a \in S : a.root \in Nat
  BY <1>2 DEF SummaryItem
<1>4. \A a, b \in S : a.root = b.root => a = b
  <2>1. \A e \in here : ItemOf(e, comments).root = e.root
    BY DEF ItemOf
  <2> QED
    BY <2>1
<1>a. /\ \A x \in S : \E e \in here : x = ItemOf(e, comments)
      /\ \A e \in here : ItemOf(e, comments) \in S
  <2> HIDE DEF here
  <2> QED
    OBVIOUS
<1> HIDE DEF S
<1>5. ListsOnce(list, S) /\ list \in Seq(S) /\ Len(list) = Cardinality(S)
  BY <1>1, <1>3, <1>4, ItemsInOrder DEF ListsOnce
<1> HIDE DEF list
<1>6. list \in Seq(SummaryItem) \ {<<>>}
  BY <1>1, <1>2, <1>5, SortedIsFull
<1>7. Bucket(entry.severity, entries, comments)
        = [severity |-> entry.severity, items |-> list]
  BY DEF Bucket, list, S
<1>8. HoldsOnce(list, here, comments)
  <2> HIDE DEF here
  <2>1. \A n \in 1..Len(list) : list[n] \in S
    BY <1>5, ElementOfSeq
  <2>2. \A n \in 1..Len(list) : \E e \in here : list[n] = ItemOf(e, comments)
    BY <1>a, <2>1
  <2>3. \A e \in here : \E n \in 1..Len(list) : list[n] = ItemOf(e, comments)
    BY <1>a, <1>5 DEF ListsOnce
  <2>4. \A m, n \in 1..Len(list) : list[m] = list[n] => m = n
    BY <1>5 DEF ListsOnce
  <2> QED
    BY <1>6, <2>2, <2>3, <2>4 DEF HoldsOnce
<1> HIDE DEF here
<1>9. Bucket(entry.severity, entries, comments).items = list
  BY <1>7
<1>10. HoldsOnce(Bucket(entry.severity, entries, comments).items, here, comments)
  BY <1>8, <1>9
<1> QED
  BY <1>6, <1>7, <1>10 DEF SeverityBucket, here

(* The items of a file are those of its buckets.                           *)
ItemParts(group) == [i \in DOMAIN group.buckets |-> group.buckets[i].items]

GroupItems(group) == FlattenSeq(ItemParts(group))

(* The entries about one file make a group.                                *)
LEMMA GroupTold ==
  ASSUME NEW comments, NEW entries, IsFiniteSet(entries), Ids \in SUBSET Nat,
         \A e \in entries :
           /\ e.severity \in Severities
           /\ ThreadOf(e, comments).file \in Nat
           /\ ItemOf(e, comments) \in SummaryItem,
         \A d, e \in entries : d.root = e.root => d = e,
         NEW entry \in entries
  PROVE  LET file == ThreadOf(entry, comments).file
         IN /\ Group(file, entries, comments) \in FileGroup
            /\ Group(file, entries, comments).file = file
            /\ HoldsOnce(GroupItems(Group(file, entries, comments)),
                         {e \in entries : ThreadOf(e, comments).file = file},
                         comments)
<1> DEFINE file == ThreadOf(entry, comments).file
           here == {e \in entries : ThreadOf(e, comments).file = file}
           S == {Bucket(e.severity, here, comments) : e \in here}
           list == Sorted(S, SeverityBefore)
           bucket == [e \in here |-> Bucket(e.severity, here, comments)]
<1>1. IsFiniteSet(here) /\ here \in SUBSET entries /\ entry \in here
  <2>1. here \in SUBSET entries
    OBVIOUS
  <2>2. entry \in here
    OBVIOUS
  <2> HIDE DEF here
  <2> QED BY <2>1, <2>2, FS_Subset
<1>2. \A y \in S : \E e \in here : y = bucket[e]
  <2> HIDE DEF here
  <2> QED
    OBVIOUS
<1>3. \A y \in S : \E e \in here : y = Bucket(e.severity, here, comments)
  <2> HIDE DEF here
  <2> QED
    OBVIOUS
<1>4. Bucket(entry.severity, here, comments) \in S
  <2> HIDE DEF here
  <2> QED
    BY <1>1
<1> HIDE DEF here, bucket, S
<1>5. IsFiniteSet(S)
  BY <1>1, <1>2, ImageIsFinite
<1>6. ASSUME NEW e \in here
      PROVE  /\ Bucket(e.severity, here, comments) \in SeverityBucket
             /\ Bucket(e.severity, here, comments).severity = e.severity
             /\ HoldsOnce(Bucket(e.severity, here, comments).items,
                          {d \in here : d.severity = e.severity}, comments)
  <2>1. \A d \in here : ItemOf(d, comments) \in SummaryItem
    BY <1>1
  <2>2. \A c, d \in here : c.root = d.root => c = d
    BY <1>1
  <2>3. e.severity \in Severities
    BY <1>1
  <2> QED
    BY <1>1, <2>1, <2>2, <2>3, BucketTold
<1>7. S \in SUBSET SeverityBucket /\ S # {}
  BY <1>3, <1>4, <1>6
<1>8. \A a \in S : a.severity \in DOMAIN SeverityRank
  BY <1>7 DEF SeverityBucket, Severities
<1>9. ASSUME NEW a \in S, NEW b \in S, a.severity = b.severity
      PROVE  a = b
  <2>1. PICK d \in here : a = Bucket(d.severity, here, comments)
    BY <1>3
  <2>2. PICK e \in here : b = Bucket(e.severity, here, comments)
    BY <1>3
  <2>3. d.severity = e.severity
    BY <1>6, <1>9, <2>1, <2>2
  <2> QED
    BY <2>1, <2>2, <2>3
<1>10. ListsOnce(list, S) /\ list \in Seq(S) /\ Len(list) = Cardinality(S)
  BY <1>5, <1>8, <1>9, BucketsInOrder DEF ListsOnce
<1>a. \A e \in here : Bucket(e.severity, here, comments) \in S
  BY DEF S
<1> HIDE DEF list
<1>11. list \in Seq(SeverityBucket) \ {<<>>}
  BY <1>5, <1>7, <1>10, SortedIsFull
<1>12. Group(file, entries, comments) = [file |-> file, buckets |-> list]
  BY DEF Group, list, S, here
<1>13. file \in Nat
  OBVIOUS
<1>14. /\ Len(list) \in Nat /\ DOMAIN list = 1..Len(list)
       /\ \A n \in 1..Len(list) : list[n] \in S
  BY <1>10, ElementOfSeq, LenProperties
<1> DEFINE parts == [n \in DOMAIN list |-> list[n].items]
           about == [n \in 1..Len(list) |->
                       {d \in here : d.severity = list[n].severity}]
<1>15. \A n \in 1..Len(list) :
         /\ parts[n] = list[n].items
         /\ about[n] = {d \in here : d.severity = list[n].severity}
  BY <1>14
<1>16. parts \in Seq(Seq(SummaryItem)) /\ Len(parts) = Len(list)
  <2>1. \A n \in 1..Len(list) : list[n].items \in Seq(SummaryItem)
    BY <1>7, <1>14 DEF SeverityBucket
  <2>2. parts \in [1..Len(list) -> Seq(SummaryItem)]
    BY <1>14, <2>1
  <2> HIDE DEF parts
  <2> QED
    BY <1>14, <2>2, SeqDef, LenProperties
<1>17. ASSUME NEW n \in 1..Len(list)
       PROVE  about[n] \subseteq here /\ HoldsOnce(parts[n], about[n], comments)
  <2>1. PICK e \in here : list[n] = Bucket(e.severity, here, comments)
    BY <1>3, <1>14
  <2>2. list[n].severity = e.severity
    BY <1>6, <2>1
  <2>3. parts[n] = Bucket(e.severity, here, comments).items
    BY <1>15, <2>1
  <2>4. about[n] = {d \in here : d.severity = e.severity}
    BY <1>15, <2>2
  <2> HIDE DEF parts, about
  <2>5. HoldsOnce(parts[n], about[n], comments)
    BY <1>6, <2>3, <2>4
  <2> QED
    BY <2>4, <2>5
<1>18. ASSUME NEW e \in here
       PROVE  \E n \in 1..Len(list) : e \in about[n]
  <2>1. PICK n \in 1..Len(list) : list[n] = Bucket(e.severity, here, comments)
    BY <1>a, <1>10 DEF ListsOnce
  <2>2. list[n].severity = e.severity
    BY <1>6, <2>1
  <2> QED
    BY <1>15, <2>2
<1>19. ASSUME NEW m \in 1..Len(list), NEW n \in 1..Len(list),
              NEW d \in about[m], NEW e \in about[n],
              ItemOf(d, comments) = ItemOf(e, comments)
       PROVE  m = n
  <2>1. d \in here /\ e \in here
    BY <1>17
  <2>2. d.root = e.root
    BY <1>19 DEF ItemOf
  <2>3. d = e
    BY <1>1, <2>1, <2>2
  <2>4. list[m].severity = d.severity /\ list[n].severity = e.severity
    BY <1>15
  <2>5. list[m] = list[n]
    BY <1>9, <1>14, <2>3, <2>4
  <2> QED
    BY <1>10, <2>5 DEF ListsOnce
<1> HIDE DEF parts, about
<1>20. HoldsOnce(FlattenSeq(parts), here, comments)
  <2> DEFINE N == Len(list)
  <2>1. N \in Nat /\ Len(parts) = N
    BY <1>14, <1>16
  <2>2. \A i \in 1..N : /\ about[i] \subseteq here
                       /\ HoldsOnce(parts[i], about[i], comments)
    BY <1>17
  <2>3. \A e \in here : \E i \in 1..N : e \in about[i]
    BY <1>18
  <2>4. \A i, k \in 1..N : \A d \in about[i] : \A e \in about[k] :
          ItemOf(d, comments) = ItemOf(e, comments) => i = k
    BY <1>19
  <2> HIDE DEF N
  <2> QED
    BY <1>16, <2>1, <2>2, <2>3, <2>4, PartsHoldAll
<1>21. GroupItems(Group(file, entries, comments)) = FlattenSeq(parts)
  BY <1>12 DEF GroupItems, ItemParts, parts
<1> HIDE DEF file
<1>22. HoldsOnce(GroupItems(Group(file, entries, comments)), here, comments)
  BY <1>20, <1>21
<1> QED
  BY <1>11, <1>12, <1>13, <1>22 DEF FileGroup, file, here

(* A summary is made of groups, these of buckets, and these of items       *)
(* (group_summary_items, build_severity_buckets).                          *)
LEMMA SummaryTold ==
  ASSUME NEW comments, Conversation(comments), NEW answer \in Answers,
         Accepts(comments, answer)
  PROVE  /\ Summary(comments, answer) \in Seq(FileGroup) \ {<<>>}
         /\ HoldsOnce(Items(Summary(comments, answer)), EntriesOf(answer), comments)
<1> DEFINE entries == {answer[i] : i \in DOMAIN answer}
           File0(e) == ThreadOf(e, comments).file
           S == {Group(File0(e), entries, comments) : e \in entries}
           list == Sorted(S, FileBefore)
           group == [e \in entries |-> Group(File0(e), entries, comments)]
<1>1. Summary(comments, answer) = list
  BY DEF Summary
<1>0. entries = EntriesOf(answer)
  BY DEF EntriesOf
<1> HIDE DEF entries
<1>2. /\ IsFiniteSet(entries) /\ entries # {}
      /\ \A e \in entries :
           /\ e.severity \in Severities /\ e.root \in Ids
           /\ ThreadOf(e, comments) \in Threads(comments)
           /\ ThreadOf(e, comments).root = e.root
           /\ ThreadOf(e, comments).file \in Nat
           /\ ItemOf(e, comments) \in SummaryItem
      /\ \A d, e \in entries : d.root = e.root => d = e
  BY <1>0, EntriesTold
<1>3. \A y \in S : \E e \in entries :
        y = group[e] /\ y = Group(File0(e), entries, comments)
  OBVIOUS
<1>4. \A e \in entries : Group(File0(e), entries, comments) \in S
  OBVIOUS
<1>5. ASSUME NEW e \in entries
      PROVE  /\ Group(File0(e), entries, comments) \in FileGroup
             /\ Group(File0(e), entries, comments).file = File0(e)
             /\ HoldsOnce(GroupItems(Group(File0(e), entries, comments)),
                          {d \in entries : File0(d) = File0(e)}, comments)
  <2>1. IsFiniteSet(entries) /\ Ids \in SUBSET Nat
    BY <1>2, DiscussionAssumption
  <2>2. \A d \in entries : /\ d.severity \in Severities
                           /\ ThreadOf(d, comments).file \in Nat
                           /\ ItemOf(d, comments) \in SummaryItem
    BY <1>2
  <2>3. \A d, f \in entries : d.root = f.root => d = f
    BY <1>2
  <2> HIDE DEF S, list, group
  <2> QED
    BY <2>1, <2>2, <2>3, GroupTold
<1> HIDE DEF S, group
<1>6. IsFiniteSet(S)
  BY <1>2, <1>3, ImageIsFinite
<1>7. S \in SUBSET FileGroup /\ S # {}
  BY <1>2, <1>3, <1>4, <1>5
<1>8. \A a \in S : a.file \in Nat
  BY <1>7 DEF FileGroup
<1>9. ASSUME NEW a \in S, NEW b \in S, a.file = b.file
      PROVE  a = b
  <2>1. PICK d \in entries : a = Group(File0(d), entries, comments)
    BY <1>3
  <2>2. PICK e \in entries : b = Group(File0(e), entries, comments)
    BY <1>3
  <2>3. File0(d) = File0(e)
    BY <1>5, <1>9, <2>1, <2>2
  <2> QED
    BY <2>1, <2>2, <2>3
<1>10. ListsOnce(list, S) /\ list \in Seq(S) /\ Len(list) = Cardinality(S)
  BY <1>6, <1>8, <1>9, GroupsInOrder DEF ListsOnce
<1> HIDE DEF list
<1>11. list \in Seq(FileGroup) \ {<<>>}
  BY <1>6, <1>7, <1>10, SortedIsFull
<1>12. /\ Len(list) \in Nat /\ DOMAIN list = 1..Len(list)
       /\ \A n \in 1..Len(list) : list[n] \in S
  BY <1>10, ElementOfSeq, LenProperties
<1> DEFINE parts == [n \in DOMAIN list |-> GroupItems(list[n])]
           about == [n \in 1..Len(list) |->
                       {d \in entries : File0(d) = list[n].file}]
<1>13. \A n \in 1..Len(list) :
         /\ parts[n] = GroupItems(list[n])
         /\ about[n] = {d \in entries : File0(d) = list[n].file}
  BY <1>12
<1>14. ASSUME NEW n \in 1..Len(list)
       PROVE  about[n] \subseteq entries /\ HoldsOnce(parts[n], about[n], comments)
  <2>1. PICK e \in entries : list[n] = Group(File0(e), entries, comments)
    BY <1>3, <1>12
  <2>2. list[n].file = File0(e)
    BY <1>5, <2>1
  <2>3. parts[n] = GroupItems(Group(File0(e), entries, comments))
    BY <1>13, <2>1
  <2>4. about[n] = {d \in entries : File0(d) = File0(e)}
    BY <1>13, <2>2
  <2> HIDE DEF parts, about, File0
  <2>5. HoldsOnce(parts[n], about[n], comments)
    BY <1>5, <2>3, <2>4
  <2> QED
    BY <2>4, <2>5
<1>15. parts \in Seq(Seq(SummaryItem)) /\ Len(parts) = Len(list)
  <2>1. \A n \in 1..Len(list) : parts[n] \in Seq(SummaryItem)
    BY <1>14 DEF HoldsOnce
  <2>2. parts \in [1..Len(list) -> Seq(SummaryItem)]
    BY <1>12, <2>1
  <2> HIDE DEF parts
  <2> QED
    BY <1>12, <2>2, SeqDef, LenProperties
<1>16. ASSUME NEW e \in entries
       PROVE  \E n \in 1..Len(list) : e \in about[n]
  <2>1. PICK n \in 1..Len(list) : list[n] = Group(File0(e), entries, comments)
    BY <1>4, <1>10 DEF ListsOnce
  <2>2. list[n].file = File0(e)
    BY <1>5, <2>1
  <2> HIDE DEF File0
  <2> QED
    BY <1>13, <2>2
<1>17. ASSUME NEW m \in 1..Len(list), NEW n \in 1..Len(list),
              NEW d \in about[m], NEW e \in about[n],
              ItemOf(d, comments) = ItemOf(e, comments)
       PROVE  m = n
  <2>1. d \in entries /\ e \in entries
    BY <1>14
  <2>2. d.root = e.root
    BY <1>17 DEF ItemOf
  <2>3. d = e
    BY <1>2, <2>1, <2>2
  <2>4. list[m].file = File0(d) /\ list[n].file = File0(e)
    BY <1>13
  <2>5. list[m] = list[n]
    BY <1>9, <1>12, <2>3, <2>4
  <2> QED
    BY <1>10, <2>5 DEF ListsOnce
<1> HIDE DEF parts, about
<1>18. HoldsOnce(FlattenSeq(parts), entries, comments)
  <2> DEFINE N == Len(list)
  <2>1. N \in Nat /\ Len(parts) = N
    BY <1>12, <1>15
  <2>2. \A i \in 1..N : /\ about[i] \subseteq entries
                       /\ HoldsOnce(parts[i], about[i], comments)
    BY <1>14
  <2>3. \A e \in entries : \E i \in 1..N : e \in about[i]
    BY <1>16
  <2>4. \A i, k \in 1..N : \A d \in about[i] : \A e \in about[k] :
          ItemOf(d, comments) = ItemOf(e, comments) => i = k
    BY <1>17
  <2> HIDE DEF N
  <2> QED
    BY <1>15, <2>1, <2>2, <2>3, <2>4, PartsHoldAll
<1>19. Items(Summary(comments, answer)) = FlattenSeq(parts)
  BY <1>1 DEF Items, GroupItems, ItemParts, parts
<1> QED
  BY <1>0, <1>1, <1>11, <1>18, <1>19

(* Each comment is in one item, with the others of its thread.             *)
LEMMA ItemsTold ==
  ASSUME NEW comments, Conversation(comments), NEW answer \in Answers,
         Accepts(comments, answer)
  PROVE  LET items == Items(Summary(comments, answer))
             root  == Roots(comments)
             P     == IdsOf(comments)
         IN /\ items \in Seq(SummaryItem)
            /\ \A n \in 1..Len(items) :
                 ToSet(items[n].related) = {id \in P : root[id] = items[n].root}
            /\ \A id \in P : \E n \in 1..Len(items) : items[n].root = root[id]
            /\ \A m, n \in 1..Len(items) :
                 items[m].root = items[n].root => m = n
<1> DEFINE items == Items(Summary(comments, answer))
           entries == EntriesOf(answer)
           thread(e) == ThreadOf(e, comments)
           Of(r) == {id \in IdsOf(comments) : Roots(comments)[id] = r}
<1>1. /\ items \in Seq(SummaryItem)
      /\ \A n \in 1..Len(items) : \E e \in entries : items[n] = ItemOf(e, comments)
      /\ \A e \in entries : \E n \in 1..Len(items) : items[n] = ItemOf(e, comments)
      /\ \A m, n \in 1..Len(items) : items[m] = items[n] => m = n
  BY SummaryTold DEF HoldsOnce
<1>2. \A e \in entries : /\ thread(e) \in Threads(comments)
                         /\ thread(e).root = e.root
  BY EntriesTold
<1>3. \A d, e \in entries : d.root = e.root => d = e
  BY EntriesTold
<1>4. \A e \in entries : /\ ItemOf(e, comments).root = e.root
                         /\ ItemOf(e, comments).related = thread(e).related
  BY DEF ItemOf
<1>5. \A t \in Threads(comments) : ToSet(t.related) = Of(t.root)
  BY ThreadsTold
<1>6. ASSUME NEW id \in IdsOf(comments)
      PROVE  \E e \in entries : e.root = Roots(comments)[id]
  <2>1. \E t \in Threads(comments) : t.root = Roots(comments)[id]
    <3> DEFINE root == Roots(comments)
               Thread(r) ==
                 [root |-> r, file |-> File[r],
                  related |-> Sorted({at \in IdsOf(comments) : root[at] = r},
                                     WrittenBefore)]
    <3>1. Threads(comments) = {Thread(r) : r \in {root[at] : at \in IdsOf(comments)}}
      BY DEF Threads
    <3>2. Thread(root[id]).root = root[id]
      OBVIOUS
    <3> HIDE DEF Thread, root
    <3>3. Thread(root[id]) \in Threads(comments)
      BY <3>1
    <3> QED
      BY <3>2, <3>3 DEF root
  <2>2. {answer[i].root : i \in DOMAIN answer} = {t.root : t \in Threads(comments)}
    BY DEF Accepts, ValidDrafts
  <2>3. PICK i \in DOMAIN answer : answer[i].root = Roots(comments)[id]
    BY <2>1, <2>2
  <2>4. answer[i] \in entries
    BY DEF EntriesOf
  <2> QED
    BY <2>3, <2>4
<1> HIDE DEF items, entries, thread, Of
<1>7. \A n \in 1..Len(items) : ToSet(items[n].related) = Of(items[n].root)
  BY <1>1, <1>2, <1>4, <1>5
<1>8. \A id \in IdsOf(comments) :
        \E n \in 1..Len(items) : items[n].root = Roots(comments)[id]
  BY <1>1, <1>4, <1>6
<1>9. ASSUME NEW m \in 1..Len(items), NEW n \in 1..Len(items),
             items[m].root = items[n].root
      PROVE  m = n
  <2>1. PICK d \in entries : items[m] = ItemOf(d, comments)
    BY <1>1
  <2>2. PICK e \in entries : items[n] = ItemOf(e, comments)
    BY <1>1
  <2>3. d.root = e.root
    BY <1>4, <1>9, <2>1, <2>2
  <2>4. items[m] = items[n]
    BY <1>3, <2>1, <2>2, <2>3
  <2> QED
    BY <1>1, <2>4
<1> QED
  BY <1>1, <1>7, <1>8, <1>9 DEF items, Of

(* A group that is closed under replies has the roots of its comments.     *)
LEMMA ClosedGroupsHaveRoots ==
  ASSUME NEW comments, Conversation(comments),
         NEW group \in SUBSET IdsOf(comments), IsClosed(group, comments)
  PROVE  \A id \in group : Roots(comments)[id] \in group
<1> DEFINE root == Roots(comments)
           P == IdsOf(comments)
           up == [id \in P |-> ParentOf(id, comments)]
           Astray == {id \in group : root[id] \notin group}
<1>1. /\ P \in SUBSET Nat
      /\ \A id \in P : /\ up[id] \in P => up[id] < id
                       /\ root[id] = IF up[id] \in P THEN root[up[id]] ELSE id
  BY RootsUnfold, DiscussionAssumption
<1>2. \A id \in P : up[id] \in P => (id \in group <=> up[id] \in group)
  BY DEF IsClosed
<1> SUFFICES ASSUME Astray # {}
             PROVE  FALSE
  OBVIOUS
<1> HIDE DEF root, P, up
<1>3. group \in SUBSET P
  BY DEF P
<1>4. PICK m \in Astray : \A k \in Astray : m <= k
  <2>1. Astray \in SUBSET Nat
    BY <1>1, <1>3
  <2> HIDE DEF Astray
  <2> QED
    BY <2>1, LeastOfSet
<1>5. m \in P /\ m \in group /\ root[m] \notin group
  BY <1>3
<1>6. up[m] \in P /\ up[m] < m /\ root[m] = root[up[m]]
  <2> HIDE DEF Astray
  <2> QED
    BY <1>1, <1>5
<1>7. up[m] \in Astray
  BY <1>2, <1>5, <1>6
<1>8. m \in Nat /\ up[m] \in Nat
  BY <1>1, <1>5, <1>6
<1> HIDE DEF Astray
<1> QED
  BY <1>4, <1>6, <1>7, <1>8

(* Comments have the same root when replies lead from one to the other.    *)
LEMMA ThreadsAreJoined ==
  ASSUME NEW comments, Conversation(comments),
         NEW a \in IdsOf(comments), NEW b \in IdsOf(comments)
  PROVE  Joined(a, b, comments) <=> Roots(comments)[a] = Roots(comments)[b]
<1> DEFINE root == Roots(comments)
           P == IdsOf(comments)
<1>1. \A id \in P : ParentOf(id, comments) \in P =>
                     root[id] = root[ParentOf(id, comments)]
  BY RootsUnfold, DiscussionAssumption
<1>2. ASSUME Joined(a, b, comments)
      PROVE  root[a] = root[b]
  <2> DEFINE group == {id \in P : root[id] = root[a]}
  <2>1. group \in SUBSET P
    OBVIOUS
  <2>2. IsClosed(group, comments)
    BY <1>1 DEF IsClosed
  <2>3. a \in group <=> b \in group
    BY <1>2, <2>1, <2>2 DEF Joined
  <2> QED
    BY <2>3
<1>3. ASSUME root[a] = root[b], NEW group \in SUBSET P, IsClosed(group, comments)
      PROVE  a \in group <=> b \in group
  <2> DEFINE rest == P \ group
  <2>1. rest \in SUBSET P /\ IsClosed(rest, comments)
    BY <1>3 DEF IsClosed
  <2>2. \A id \in group : root[id] \in group
    BY <1>3, ClosedGroupsHaveRoots
  <2>3. \A id \in rest : root[id] \in rest
    <3> HIDE DEF rest
    <3> QED
      BY <2>1, ClosedGroupsHaveRoots
  <2> QED
    BY <1>3, <2>2, <2>3
<1> QED
  BY <1>2, <1>3 DEF Joined

(* So those comments, and no others, have an item together, and only one.  *)
LEMMA ItemsJoinThreads ==
  ASSUME NEW comments, Conversation(comments), NEW answer \in Answers,
         Accepts(comments, answer),
         NEW a \in IdsOf(comments), NEW b \in IdsOf(comments)
  PROVE  LET items == Items(Summary(comments, answer))
         IN Cardinality({i \in DOMAIN items :
                           {a, b} \subseteq ToSet(items[i].related)})
              = IF Joined(a, b, comments) THEN 1 ELSE 0
<1> DEFINE items == Items(Summary(comments, answer))
           root == Roots(comments)
           P == IdsOf(comments)
           Of(r) == {id \in P : root[id] = r}
           both == {i \in DOMAIN items : {a, b} \subseteq ToSet(items[i].related)}
<1>1. /\ items \in Seq(SummaryItem)
      /\ \A n \in 1..Len(items) : ToSet(items[n].related) = Of(items[n].root)
      /\ \A id \in P : \E n \in 1..Len(items) : items[n].root = root[id]
      /\ \A m, n \in 1..Len(items) : items[m].root = items[n].root => m = n
  BY ItemsTold
<1>2. \A r : a \in Of(r) /\ b \in Of(r) <=> r = root[a] /\ r = root[b]
  OBVIOUS
<1> HIDE DEF items, root, Of
<1>3. DOMAIN items = 1..Len(items)
  BY <1>1
<1>4. \A i : i \in both <=> /\ i \in 1..Len(items)
                            /\ items[i].root = root[a] /\ items[i].root = root[b]
  BY <1>1, <1>2, <1>3
<1>5. Joined(a, b, comments) <=> root[a] = root[b]
  BY ThreadsAreJoined DEF root
<1>6. CASE root[a] = root[b]
  <2>1. PICK n \in 1..Len(items) : items[n].root = root[a]
    BY <1>1
  <2>2. both = {n}
    BY <1>1, <1>4, <1>6, <2>1
  <2> QED
    BY <1>5, <1>6, <2>2, FS_Singleton DEF items
<1>7. CASE root[a] # root[b]
  <2>1. both = {}
    BY <1>4, <1>7
  <2> QED
    BY <1>5, <1>7, <2>1, FS_EmptySet DEF items
<1> QED
  BY <1>6, <1>7

---------------------------------------------------------------------------
(* How far row_index_for_item has counted.                                 *)
Tally(item) ==
  {at \in [row : Nat, items : Nat, found : Nat \cup {None}] :
     at.found = None => at.items <= item}

(* The count goes over these rows and items, or finds the item in them.    *)
Counted(item, at, next, lines, items) ==
  /\ next \in Tally(item)
  /\ at.found # None => next.found = at.found
  /\ at.found = None =>
       IF item < at.items + Len(items)
         THEN \E n \in 1..Len(lines) :
                /\ next.found = at.row + n - 1
                /\ lines[n] = <<"Item", items[item - at.items + 1].root>>
         ELSE /\ next.found = None
              /\ next.row = at.row + Len(lines)
              /\ next.items = at.items + Len(items)

(* Counting part by part counts them all.                                  *)
LEMMA RunCounted ==
  ASSUME NEW T, NEW U, NEW item \in Nat, NEW N \in Nat,
         NEW lines \in Seq(Seq(T)), NEW items \in Seq(Seq(U)),
         Len(lines) = N, Len(items) = N, None \notin Nat,
         NEW after \in [0..N -> Tally(item)],
         \A n \in 1..N :
           Counted(item, after[n - 1], after[n], lines[n], items[n])
  PROVE  Counted(item, after[0], after[N], FlattenSeq(lines), FlattenSeq(items))
<1> DEFINE el == Ends(lines)
           ei == Ends(items)
           L == FlattenSeq(lines)
           I == FlattenSeq(items)
           at == after[0]
<1>1. IsWalk(lines, el) /\ IsWalk(items, ei)
  BY FlattenWalks
<1> HIDE DEF el, ei
<1>2. /\ el \in [0..N -> Nat] /\ ei \in [0..N -> Nat]
      /\ el[0] = 0 /\ ei[0] = 0 /\ el[N] = Len(L) /\ ei[N] = Len(I)
  BY <1>1 DEF IsWalk
<1>3. ASSUME NEW n \in 1..N
      PROVE  /\ el[n] = el[n - 1] + Len(lines[n])
             /\ ei[n] = ei[n - 1] + Len(items[n])
             /\ \A j \in 1..Len(lines[n]) : L[el[n - 1] + j] = lines[n][j]
             /\ \A j \in 1..Len(items[n]) : I[ei[n - 1] + j] = items[n][j]
             /\ Len(lines[n]) \in Nat /\ Len(items[n]) \in Nat
             /\ n - 1 \in 0..N /\ n \in 0..N
             /\ el[n - 1] \in Nat /\ ei[n - 1] \in Nat
  <2>1. lines[n] \in Seq(T) /\ items[n] \in Seq(U)
    BY ElementOfSeq
  <2>2. n - 1 \in 0..N /\ n \in 0..N
    OBVIOUS
  <2>3. /\ el[n - 1] \in Nat /\ ei[n - 1] \in Nat
        /\ Len(lines[n]) \in Nat /\ Len(items[n]) \in Nat
    <3> DEFINE m == n - 1
    <3>1. m \in 0..N
      BY <2>2
    <3> HIDE DEF m
    <3>2. el[m] \in Nat /\ ei[m] \in Nat
      BY <1>2, <3>1
    <3> QED
      BY <2>1, <3>2 DEF m
  <2>4. n \in 1..Len(lines) /\ n \in 1..Len(items)
    OBVIOUS
  <2>5. /\ el[n] = el[n - 1] + Len(lines[n])
        /\ \A j \in 1..Len(lines[n]) : L[el[n - 1] + j] = lines[n][j]
    BY <1>1, <2>4 DEF IsWalk
  <2>6. /\ ei[n] = ei[n - 1] + Len(items[n])
        /\ \A j \in 1..Len(items[n]) : I[ei[n - 1] + j] = items[n][j]
    BY <1>1, <2>4 DEF IsWalk
  <2> HIDE DEF L, I
  <2> QED
    BY <2>2, <2>3, <2>5, <2>6
<1>4. /\ at.row \in Nat /\ at.items \in Nat
      /\ at.found = None => at.items <= item
  BY DEF Tally
<1> HIDE DEF L, I, at
<1> DEFINE r0 == at.row
           i0 == at.items
<1>a. /\ r0 \in Nat /\ i0 \in Nat /\ at.row = r0 /\ at.items = i0
      /\ at.found = None => i0 <= item
  BY <1>4
<1> HIDE DEF r0, i0
<1> DEFINE Found(n) ==
             \E k \in 1..el[n] :
               /\ after[n].found = r0 + k - 1
               /\ L[k] = <<"Item", I[item - i0 + 1].root>>
           Missed(n) == /\ after[n].found = None
                        /\ after[n].row = r0 + el[n]
                        /\ after[n].items = i0 + ei[n]
           So(n) ==
             /\ at.found # None => after[n].found = at.found
             /\ at.found = None =>
                  IF item < i0 + ei[n] THEN Found(n) ELSE Missed(n)
           S == {n \in 0..N : So(n)}
<1>5. 0 \in S
  BY <1>2, <1>a DEF at
<1>6. ASSUME NEW n \in 1..N, n - 1 \in S
      PROVE  n \in S
  <2> DEFINE m == n - 1
             part == lines[n]
             its == items[n]
  <2>1. So(m) /\ Counted(item, after[m], after[n], part, its)
    BY <1>6
  <2>2. /\ el[n] = el[m] + Len(part) /\ ei[n] = ei[m] + Len(its)
        /\ \A j \in 1..Len(part) : L[el[m] + j] = part[j]
        /\ \A j \in 1..Len(its) : I[ei[m] + j] = its[j]
        /\ Len(part) \in Nat /\ Len(its) \in Nat
        /\ el[m] \in Nat /\ ei[m] \in Nat
    BY <1>3
  <2>3. n \in 0..N
    BY <1>3
  <2> DEFINE e == el[m]
             f == ei[m]
             lp == Len(part)
             li == Len(its)
  <2>n. /\ e \in Nat /\ f \in Nat /\ lp \in Nat /\ li \in Nat
        /\ el[n] = e + lp /\ ei[n] = f + li
        /\ el[m] = e /\ ei[m] = f /\ Len(part) = lp /\ Len(its) = li
    BY <2>2
  <2> HIDE DEF e, f, lp, li
  <2> HIDE DEF m, part, its
  <2>4. CASE at.found # None
    BY <2>1, <2>3, <2>4 DEF Counted
  <2>5. CASE at.found = None /\ item < i0 + ei[m]
    <3>1. PICK k \in 1..el[m] :
            /\ after[m].found = r0 + k - 1
            /\ L[k] = <<"Item", I[item - i0 + 1].root>>
      BY <2>1, <2>5
    <3>2. after[m].found # None
      <4>1. r0 + k - 1 \in Nat
        BY <1>a, <2>n
      <4> QED
        BY <3>1, <4>1
    <3>3. after[n].found = r0 + k - 1
      BY <2>1, <3>1, <3>2 DEF Counted
    <3>4. k \in 1..el[n] /\ item < i0 + ei[n]
      BY <1>a, <2>n, <2>5
    <3>5. Found(n)
      BY <3>1, <3>3, <3>4
    <3> HIDE DEF Found, Missed
    <3> QED
      BY <2>3, <2>5, <3>4, <3>5
  <2>6. CASE at.found = None /\ ~(item < i0 + ei[m])
    <3>1. Missed(m)
      BY <2>1, <2>6
    <3>2. CASE item < i0 + ei[n]
      <4> DEFINE j == item - after[m].items + 1
      <4>1. item < after[m].items + Len(its) /\ j \in 1..Len(its)
            /\ ei[m] + j = item - i0 + 1
        BY <1>a, <2>n, <2>6, <3>1, <3>2
      <4>2. PICK k \in 1..Len(part) :
              /\ after[n].found = after[m].row + k - 1
              /\ part[k] = <<"Item", its[j].root>>
        BY <2>1, <3>1, <4>1 DEF Counted
      <4>3. its[j] = I[item - i0 + 1] /\ L[el[m] + k] = part[k]
        <5> HIDE DEF j
        <5> QED BY <2>2, <4>1
      <4>4. el[m] + k \in 1..el[n] /\ after[n].found = r0 + (el[m] + k) - 1
        <5> HIDE DEF j
        <5>1. k \in 1..lp
          BY <2>n, <4>2
        <5>2. e + k \in 1..(e + lp)
          BY <2>n, <5>1
        <5>3. after[n].found = r0 + e + k - 1
          BY <2>n, <3>1, <4>2
        <5>4. r0 + e + k - 1 = r0 + (e + k) - 1
          BY <1>a, <2>n, <5>1
        <5> QED BY <2>n, <5>2, <5>3, <5>4
      <4>5. Found(n)
        <5> HIDE DEF j
        <5> QED BY <4>2, <4>3, <4>4
      <4> HIDE DEF Found, Missed, j
      <4> QED
        BY <2>3, <2>6, <3>2, <4>5
    <3>3. CASE ~(item < i0 + ei[n])
      <4>1. ~(item < after[m].items + Len(its))
        BY <1>a, <2>n, <3>1, <3>3
      <4>2. /\ after[n].found = None
            /\ after[n].row = after[m].row + Len(part)
            /\ after[n].items = after[m].items + Len(its)
        BY <2>1, <3>1, <4>1 DEF Counted
      <4>3. Missed(n)
        BY <1>a, <2>n, <3>1, <4>2
      <4> HIDE DEF Found, Missed
      <4> QED
        BY <2>3, <2>6, <3>3, <4>3
    <3> QED
      BY <3>2, <3>3
  <2> QED
    BY <2>4, <2>5, <2>6
<1>7. S = 0..N
  <2> HIDE DEF S
  <2>1. S \in SUBSET (0..N)
    BY DEF S
  <2> QED
    BY <1>5, <1>6, <2>1, InductionUpTo
<1>8. So(N)
  <2>1. N \in S
    <3> HIDE DEF S
    <3> QED BY <1>7
  <2> HIDE DEF So
  <2> QED BY <2>1
<1>9. after[N] \in Tally(item)
  OBVIOUS
<1>10. Counted(item, at, after[N], L, I)
  BY <1>2, <1>a, <1>8, <1>9 DEF Counted
<1> QED
  BY <1>10 DEF at, L, I

(* The rows the view draws and the items among them (render_lines).        *)
Drawn == {"File", "Severity", "Item"} \X (Nat \cup Severities)

BucketLines(bucket) ==
  <<<<"Severity", bucket.severity>>>>
  \o [i \in DOMAIN bucket.items |-> <<"Item", bucket.items[i].root>>]

GroupLines(group) ==
  <<<<"File", group.file>>>>
  \o FlattenSeq([i \in DOMAIN group.buckets |-> BucketLines(group.buckets[i])])

LEMMA LinesUnfold ==
  ASSUME NEW groups
  PROVE  /\ Lines(groups)
              = FlattenSeq([i \in DOMAIN groups |-> GroupLines(groups[i])])
         /\ Items(groups)
              = FlattenSeq([i \in DOMAIN groups |-> GroupItems(groups[i])])
BY DEF Lines, Items, GroupLines, GroupItems, ItemParts, BucketLines

(* A bucket has a row for its severity, and one for each item.             *)
LEMMA BucketRows ==
  ASSUME NEW bucket \in SeverityBucket, Ids \in SUBSET Nat
  PROVE  LET n == Len(bucket.items)
         IN /\ n \in Nat \ {0} /\ bucket.items \in Seq(SummaryItem)
            /\ BucketLines(bucket) \in Seq(Drawn)
            /\ Len(BucketLines(bucket)) = 1 + n
            /\ \A i \in 1..n : BucketLines(bucket)[1 + i]
                                 = <<"Item", bucket.items[i].root>>
<1> DEFINE items == bucket.items
           n == Len(items)
           a == <<<<"Severity", bucket.severity>>>>
           b == [i \in DOMAIN items |-> <<"Item", items[i].root>>]
<1>1. items \in Seq(SummaryItem) /\ items # <<>> /\ bucket.severity \in Severities
  BY DEF SeverityBucket
<1> HIDE DEF items
<1>2. n \in Nat \ {0} /\ DOMAIN items = 1..n
  BY <1>1, EmptySeq, LenProperties
<1>3. a \in Seq(Drawn) /\ Len(a) = 1
  <2>1. <<"Severity", bucket.severity>> \in Drawn
    BY <1>1 DEF Drawn
  <2> QED
    BY <2>1
<1>4. b \in Seq(Drawn) /\ Len(b) = n
  <2>1. ASSUME NEW i \in 1..n PROVE items[i].root \in Nat
    <3>1. items[i] \in SummaryItem
      BY <1>1, ElementOfSeq
    <3>2. items[i].root \in Ids
      BY <3>1 DEF SummaryItem
    <3> QED
      BY <3>2
  <2>2. \A i \in 1..n : <<"Item", items[i].root>> \in Drawn
    BY <2>1 DEF Drawn
  <2> HIDE DEF n
  <2>3. b \in [1..n -> Drawn]
    BY <1>2, <2>2
  <2> HIDE DEF b
  <2> QED
    BY <1>2, <2>3, SeqDef, LenProperties
<1>5. \A i \in 1..n : b[i] = <<"Item", items[i].root>>
  BY <1>2
<1> HIDE DEF a, b, n
<1>6. /\ Len(a \o b) = 1 + n /\ a \o b \in Seq(Drawn)
      /\ \A i \in 1..n : (a \o b)[1 + i] = b[i]
  <2>1. /\ Len(a \o b) = Len(a) + Len(b)
        /\ \A j \in 1..Len(b) : (a \o b)[Len(a) + j] = b[j]
    <3>1. a \in Seq(Drawn) /\ b \in Seq(Drawn)
      BY <1>3, <1>4
    <3> QED
      BY <3>1, ConcatAt
  <2>2. a \o b \in Seq(Drawn)
    BY <1>3, <1>4, ConcatProperties
  <2> QED
    BY <1>3, <1>4, <2>1, <2>2
<1>7. BucketLines(bucket) = a \o b
  BY DEF BucketLines, a, b, items
<1> QED
  BY <1>1, <1>2, <1>5, <1>6, <1>7 DEF n, items

(* row_index_for_item_in_bucket                                            *)
LEMMA BucketCounted ==
  ASSUME NEW item \in Nat, NEW at \in Tally(item), NEW bucket \in SeverityBucket,
         Ids \in SUBSET Nat, None \notin Nat
  PROVE  Counted(item, at, InBucket(item, at, bucket),
                 BucketLines(bucket), bucket.items)
<1> DEFINE n == Len(bucket.items)
           next == InBucket(item, at, bucket)
           row == at.row
           count == at.items
<1>1. /\ n \in Nat /\ Len(BucketLines(bucket)) = 1 + n
      /\ \A i \in 1..n : BucketLines(bucket)[1 + i]
                           = <<"Item", bucket.items[i].root>>
  BY BucketRows
<1>2. /\ at \in [row : Nat, items : Nat, found : Nat \cup {None}]
      /\ row \in Nat /\ count \in Nat /\ (at.found = None => count <= item)
  BY DEF Tally
<1>3. next = IF at.found # None THEN at
             ELSE IF item < count + n
               THEN [at EXCEPT !.found = row + 1 + (item - count)]
               ELSE [at EXCEPT !.row = row + 1 + n, !.items = count + n]
  BY DEF InBucket
<1> HIDE DEF n, next, row, count
<1>4. CASE at.found # None
  BY <1>3, <1>4 DEF Counted, next
<1>5. CASE at.found = None /\ item < count + n
  <2> DEFINE i == item - count + 1
             place == row + 1 + (item - count)
  <2>1. i \in 1..n /\ 1 + i \in 1..(1 + n) /\ place = row + (1 + i) - 1
        /\ place \in Nat
    BY <1>1, <1>2, <1>5
  <2>2. next = [at EXCEPT !.found = place]
    BY <1>3, <1>5
  <2> HIDE DEF place
  <2>3. next \in [row : Nat, items : Nat, found : Nat \cup {None}]
        /\ next.found = place /\ next.found # None
    BY <1>2, <2>1, <2>2
  <2>4. BucketLines(bucket)[1 + i] = <<"Item", bucket.items[i].root>>
    BY <1>1, <2>1
  <2> DEFINE k == 1 + i
  <2>5. /\ k \in 1..Len(BucketLines(bucket)) /\ next.found = row + k - 1
        /\ BucketLines(bucket)[k] = <<"Item", bucket.items[item - count + 1].root>>
    BY <1>1, <2>1, <2>3, <2>4
  <2> HIDE DEF k
  <2>6. next \in Tally(item)
    BY <2>3 DEF Tally
  <2> QED
    BY <1>5, <2>5, <2>6 DEF Counted, n, row, count, next
<1>6. CASE at.found = None /\ ~(item < count + n)
  <2> DEFINE rows0 == row + 1 + n
             items0 == count + n
  <2>1. /\ rows0 \in Nat /\ items0 \in Nat /\ items0 <= item
        /\ rows0 = row + (1 + n)
    BY <1>1, <1>2, <1>6
  <2>2. next = [at EXCEPT !.row = rows0, !.items = items0]
    BY <1>3, <1>6
  <2> HIDE DEF rows0, items0
  <2>3. next \in [row : Nat, items : Nat, found : Nat \cup {None}]
        /\ next.found = None /\ next.row = rows0 /\ next.items = items0
    BY <1>2, <1>6, <2>1, <2>2
  <2>4. next \in Tally(item)
    BY <2>1, <2>3 DEF Tally
  <2>5. next.row = row + Len(BucketLines(bucket)) /\ next.items = count + n
    BY <1>1, <2>1, <2>3 DEF items0
  <2> QED
    BY <1>6, <2>3, <2>4, <2>5 DEF Counted, n, row, count, next
<1> QED
  BY <1>4, <1>5, <1>6

(* The rows of the buckets of a file, and their items.                     *)
BucketParts(group) ==
  [i \in DOMAIN group.buckets |-> BucketLines(group.buckets[i])]


LEMMA PartsTold ==
  ASSUME NEW group \in FileGroup, Ids \in SUBSET Nat
  PROVE  LET N == Len(group.buckets)
         IN /\ N \in Nat \ {0}
            /\ group.file \in Nat
            /\ \A i \in 1..N : /\ group.buckets[i] \in SeverityBucket
                               /\ BucketParts(group)[i]
                                    = BucketLines(group.buckets[i])
                               /\ ItemParts(group)[i] = group.buckets[i].items
            /\ BucketParts(group) \in Seq(Seq(Drawn))
            /\ Len(BucketParts(group)) = N
            /\ ItemParts(group) \in Seq(Seq(SummaryItem))
            /\ Len(ItemParts(group)) = N
<1> DEFINE buckets == group.buckets
           N == Len(buckets)
<1>1. buckets \in Seq(SeverityBucket) /\ buckets # <<>> /\ group.file \in Nat
  BY DEF FileGroup
<1> HIDE DEF buckets
<1>2. N \in Nat \ {0} /\ DOMAIN buckets = 1..N
  BY <1>1, EmptySeq, LenProperties
<1>3. \A i \in 1..N : buckets[i] \in SeverityBucket
  BY <1>1, ElementOfSeq
<1>4. \A i \in 1..N : /\ BucketLines(buckets[i]) \in Seq(Drawn)
                      /\ buckets[i].items \in Seq(SummaryItem)
  BY <1>3, BucketRows
<1> HIDE DEF N
<1> DEFINE parts == [i \in DOMAIN buckets |-> BucketLines(buckets[i])]
           its == [i \in DOMAIN buckets |-> buckets[i].items]
<1>5. parts \in [1..N -> Seq(Drawn)] /\ its \in [1..N -> Seq(SummaryItem)]
  BY <1>2, <1>4
<1>6. \A i \in 1..N : parts[i] = BucketLines(buckets[i])
                      /\ its[i] = buckets[i].items
  BY <1>2
<1> HIDE DEF parts, its
<1>7. parts \in Seq(Seq(Drawn)) /\ Len(parts) = N
  BY <1>2, <1>5, SeqDef, LenProperties
<1>8. its \in Seq(Seq(SummaryItem)) /\ Len(its) = N
  BY <1>2, <1>5, SeqDef, LenProperties
<1>9. parts = BucketParts(group) /\ its = ItemParts(group)
  BY DEF BucketParts, ItemParts, parts, its, buckets
<1> QED
  BY <1>1, <1>2, <1>3, <1>6, <1>7, <1>8, <1>9 DEF N, buckets

(* A file has a row of its own, and its first item is two rows below.      *)
LEMMA GroupRows ==
  ASSUME NEW group \in FileGroup, Ids \in SUBSET Nat
  PROVE  /\ GroupLines(group) \in Seq(Drawn)
         /\ GroupItems(group) \in Seq(SummaryItem) /\ GroupItems(group) # <<>>
         /\ LET flat == FlattenSeq(BucketParts(group))
            IN /\ flat \in Seq(Drawn)
               /\ Len(GroupLines(group)) = 1 + Len(flat)
               /\ \A j \in 1..Len(flat) : GroupLines(group)[1 + j] = flat[j]
         /\ Len(GroupLines(group)) >= 3
         /\ GroupLines(group)[3] = <<"Item", GroupItems(group)[1].root>>
<1> DEFINE parts == BucketParts(group)
           its == ItemParts(group)
           flat == FlattenSeq(parts)
           a == <<<<"File", group.file>>>>
           bucket == group.buckets[1]
           n == Len(bucket.items)
<1>1. /\ group.file \in Nat /\ bucket \in SeverityBucket
      /\ parts \in Seq(Seq(Drawn)) /\ parts # <<>>
      /\ its \in Seq(Seq(SummaryItem)) /\ its # <<>>
      /\ parts[1] = BucketLines(bucket) /\ its[1] = bucket.items
  <2>1. Len(<<>>) = 0
    OBVIOUS
  <2> QED
    BY <2>1, PartsTold
<1> HIDE DEF parts, its, bucket
<1>2. a \in Seq(Drawn) /\ Len(a) = 1
  <2>1. <<"File", group.file>> \in Drawn
    BY <1>1 DEF Drawn
  <2> QED
    BY <2>1
<1>3. /\ n \in Nat \ {0} /\ Len(BucketLines(bucket)) = 1 + n
      /\ \A i \in 1..n : BucketLines(bucket)[1 + i]
                           = <<"Item", bucket.items[i].root>>
  BY <1>1, BucketRows
<1>4. /\ Len(flat) >= Len(parts[1]) /\ flat \in Seq(Drawn)
      /\ \A j \in 1..Len(parts[1]) : flat[j] = parts[1][j]
  BY <1>1, FlattenHead
<1>5. /\ Len(FlattenSeq(its)) >= n /\ FlattenSeq(its) \in Seq(SummaryItem)
      /\ \A j \in 1..n : FlattenSeq(its)[j] = bucket.items[j]
  BY <1>1, FlattenHead
<1> HIDE DEF flat, a, n
<1>6. /\ Len(a \o flat) = 1 + Len(flat) /\ a \o flat \in Seq(Drawn)
      /\ Len(flat) \in Nat
      /\ \A j \in 1..Len(flat) : (a \o flat)[1 + j] = flat[j]
  <2>1. a \in Seq(Drawn) /\ flat \in Seq(Drawn)
    BY <1>2, <1>4
  <2>2. /\ Len(a \o flat) = Len(a) + Len(flat) /\ Len(flat) \in Nat
        /\ \A j \in 1..Len(flat) : (a \o flat)[Len(a) + j] = flat[j]
    BY <2>1, ConcatAt
  <2>3. a \o flat \in Seq(Drawn)
    BY <2>1, ConcatProperties
  <2> QED
    BY <1>2, <2>2, <2>3
<1>7. GroupLines(group) = a \o flat /\ GroupItems(group) = FlattenSeq(its)
  BY DEF GroupLines, GroupItems, a, flat, parts, its, BucketParts, ItemParts
<1>8. Len(flat) >= 2 /\ 2 \in 1..Len(parts[1]) /\ 1 \in 1..n
  BY <1>1, <1>3, <1>4, <1>6
<1>9. (a \o flat)[1 + 2] = flat[2]
  <2>1. 2 \in 1..Len(flat)
    BY <1>6, <1>8
  <2> QED
    BY <1>6, <2>1
<1>10. /\ flat[2] = BucketLines(bucket)[2]
       /\ BucketLines(bucket)[1 + 1] = <<"Item", bucket.items[1].root>>
  <2>1. flat[2] = parts[1][2]
    BY <1>4, <1>8
  <2>2. parts[1][2] = BucketLines(bucket)[2]
    BY <1>1
  <2>3. BucketLines(bucket)[1 + 1] = <<"Item", bucket.items[1].root>>
    BY <1>3, <1>8
  <2> QED
    BY <2>1, <2>2, <2>3
<1>11. FlattenSeq(its)[1] = bucket.items[1]
  BY <1>5, <1>8
<1>12. FlattenSeq(its) # <<>>
  BY <1>3, <1>5
<1>13. 1 + 2 = 3 /\ 1 + 1 = 2 /\ 1 + Len(flat) >= 3
  BY <1>6, <1>8
<1>14. GroupLines(group)[3] = <<"Item", GroupItems(group)[1].root>>
  BY <1>7, <1>9, <1>10, <1>11, <1>13
<1> QED
  BY <1>4, <1>5, <1>6, <1>7, <1>12, <1>13, <1>14 DEF flat, parts

(* row_index_for_item, for the buckets of a file                           *)
LEMMA FileCounted ==
  ASSUME NEW item \in Nat, NEW at \in Tally(item), NEW group \in FileGroup,
         Ids \in SUBSET Nat, None \notin Nat
  PROVE  Counted(item, at, InFile(item, at, group),
                 GroupLines(group), GroupItems(group))
<1> DEFINE buckets == group.buckets
           N == Len(buckets)
           parts == BucketParts(group)
           its == ItemParts(group)
           base == [at EXCEPT !.row = at.row + 1]
           Is(f) == f = [n \in 0..Len(group.buckets) |->
                            IF n = 0 THEN base
                            ELSE InBucket(item, f[n - 1], group.buckets[n])]
           after == CHOOSE f : Is(f)
<1>1. /\ N \in Nat \ {0}
      /\ \A i \in 1..N : /\ buckets[i] \in SeverityBucket
                         /\ parts[i] = BucketLines(buckets[i])
                         /\ its[i] = buckets[i].items
      /\ parts \in Seq(Seq(Drawn)) /\ Len(parts) = N
      /\ its \in Seq(Seq(SummaryItem)) /\ Len(its) = N
  BY PartsTold
<1>2. InFile(item, at, group) = after[N]
  BY DEF InFile
<1>3. base \in Tally(item) /\ at.row \in Nat
      /\ base.row = at.row + 1 /\ base.items = at.items /\ base.found = at.found
  BY DEF Tally
<1> HIDE DEF parts, its, base
<1> DEFINE Step(f, n) == InBucket(item, f, buckets[n])
           step == [pair \in Tally(item) \X (1..N) |-> Step(pair[1], pair[2])]
<1>4. ASSUME NEW f \in Tally(item), NEW n \in 1..N
      PROVE  Counted(item, f, Step(f, n), parts[n], its[n])
  BY <1>1, BucketCounted
<1>5. ASSUME NEW f \in Tally(item), NEW n \in 1..N
      PROVE  Step(f, n) \in Tally(item)
  BY <1>4 DEF Counted
<1>6. Is(after)
  <2> HIDE DEF N, Step
  <2>1. step \in [Tally(item) \X (1..N) -> Tally(item)]
    BY <1>5
  <2>2. \A f \in Tally(item), n \in 1..N : step[<<f, n>>] = Step(f, n)
    OBVIOUS
  <2> HIDE DEF step
  <2> DEFINE T == Tally(item)
  <2>3. PICK g \in [0..N -> T] : IsFold(g, N, base, step)
    <3>1. N \in Nat /\ base \in T
      BY <1>1, <1>3
    <3>2. step \in [T \X (1..N) -> T]
      BY <2>1
    <3> HIDE DEF T
    <3> QED
      BY <3>1, <3>2, FoldExists
  <2>4. \A n \in 0..N : n # 0 => n \in 1..N /\ g[n - 1] \in Tally(item)
    <3>1. \A n \in 0..N : n # 0 => n \in 1..N /\ n - 1 \in 0..N
      BY <1>1
    <3> QED
      BY <3>1
  <2>5. \A n \in 0..N : g[n] = IF n = 0 THEN base ELSE Step(g[n - 1], n)
    BY <2>2, <2>3, <2>4 DEF IsFold
  <2>6. g = [n \in 0..N |-> IF n = 0 THEN base ELSE Step(g[n - 1], n)]
    BY <2>5
  <2>7. Is(g)
    BY <2>6 DEF N, Step
  <2> HIDE DEF Is
  <2> QED
    BY <2>7
<1>7. \A n \in 0..N : after[n] = IF n = 0 THEN base ELSE Step(after[n - 1], n)
  <2>1. after = [n \in 0..N |-> IF n = 0 THEN base ELSE Step(after[n - 1], n)]
    BY <1>6
  <2> HIDE DEF after, N, Step
  <2> QED
    BY <2>1
<1>8. DOMAIN after = 0..N /\ after = [n \in 0..N |-> after[n]]
  <2>1. after = [n \in 0..N |-> IF n = 0 THEN base ELSE Step(after[n - 1], n)]
    BY <1>6
  <2> HIDE DEF after, N, Step
  <2> QED
    BY <2>1
<1> HIDE DEF after, N, Step
<1>9. after \in [0..N -> Tally(item)]
  <2> DEFINE S == {n \in 0..N : after[n] \in Tally(item)}
  <2>1. 0 \in S
    BY <1>1, <1>3, <1>7
  <2>2. ASSUME NEW n \in 1..N, n - 1 \in S PROVE n \in S
    <3>1. n \in 0..N /\ n # 0
      BY <1>1
    <3>2. after[n] = Step(after[n - 1], n)
      BY <1>7, <3>1
    <3> QED
      BY <1>5, <2>2, <3>1, <3>2
  <2> HIDE DEF S
  <2>3. S \in SUBSET (0..N)
    BY DEF S
  <2>4. S = 0..N
    BY <1>1, <2>1, <2>2, <2>3, InductionUpTo
  <2>5. \A n \in 0..N : after[n] \in Tally(item)
    BY <2>4 DEF S
  <2> QED
    BY <1>8, <2>5
<1>10. ASSUME NEW n \in 1..N
       PROVE  Counted(item, after[n - 1], after[n], parts[n], its[n])
  <2>1. n \in 0..N /\ n # 0 /\ n - 1 \in 0..N
    BY <1>1
  <2>2. after[n] = Step(after[n - 1], n) /\ after[n - 1] \in Tally(item)
    BY <1>7, <1>9, <2>1
  <2> QED
    BY <1>4, <2>2
<1>11. Counted(item, after[0], after[N], FlattenSeq(parts), FlattenSeq(its))
  BY <1>1, <1>9, <1>10, RunCounted
<1>12. after[0] = base
  <2>1. 0 \in 0..N
    BY <1>1
  <2> QED
    BY <1>7, <2>1
<1> DEFINE flat == FlattenSeq(parts)
           last == after[N]
<1>13. /\ flat \in Seq(Drawn) /\ Len(GroupLines(group)) = 1 + Len(flat)
       /\ \A j \in 1..Len(flat) : GroupLines(group)[1 + j] = flat[j]
  BY GroupRows DEF parts
<1>14. GroupItems(group) = FlattenSeq(its)
  BY DEF GroupItems, its, ItemParts
<1>15. Counted(item, base, last, flat, GroupItems(group))
  BY <1>11, <1>12, <1>14
<1> HIDE DEF flat, last
<1> DEFINE r0 == at.row
           len == Len(flat)
<1>16. /\ r0 \in Nat /\ len \in Nat /\ base.row = r0 + 1 /\ at.row = r0
       /\ Len(flat) = len
  BY <1>3, <1>13
<1> HIDE DEF r0, len
<1>17. ASSUME at.found = None, item < at.items + Len(GroupItems(group))
       PROVE  \E n \in 1..Len(GroupLines(group)) :
                /\ last.found = at.row + n - 1
                /\ GroupLines(group)[n]
                     = <<"Item", GroupItems(group)[item - at.items + 1].root>>
  <2>1. PICK j \in 1..Len(flat) :
          /\ last.found = base.row + j - 1
          /\ flat[j] = <<"Item", GroupItems(group)[item - at.items + 1].root>>
    BY <1>3, <1>15, <1>17 DEF Counted
  <2>2. 1 + j \in 1..Len(GroupLines(group))
    <3>1. j \in 1..len /\ Len(GroupLines(group)) = 1 + len
      BY <1>13, <1>16
    <3> QED
      BY <1>16, <3>1
  <2>3. base.row + j - 1 = at.row + (1 + j) - 1
    <3>1. r0 + 1 + j - 1 = r0 + (1 + j) - 1
      BY <1>16
    <3> QED
      BY <1>16, <3>1
  <2>4. GroupLines(group)[1 + j] = flat[j]
    BY <1>13
  <2> DEFINE n == 1 + j
  <2>5. /\ n \in 1..Len(GroupLines(group)) /\ last.found = at.row + n - 1
        /\ GroupLines(group)[n]
             = <<"Item", GroupItems(group)[item - at.items + 1].root>>
    BY <2>1, <2>2, <2>3, <2>4
  <2> HIDE DEF n
  <2> QED
    BY <2>5
<1>18. ASSUME at.found = None, ~(item < at.items + Len(GroupItems(group)))
       PROVE  /\ last.found = None
              /\ last.row = at.row + Len(GroupLines(group))
              /\ last.items = at.items + Len(GroupItems(group))
  <2>1. /\ last.found = None /\ last.row = base.row + Len(flat)
        /\ last.items = at.items + Len(GroupItems(group))
    BY <1>3, <1>15, <1>18 DEF Counted
  <2>2. base.row + Len(flat) = at.row + Len(GroupLines(group))
    BY <1>13, <1>16
  <2> QED
    BY <2>1, <2>2
<1>19. last \in Tally(item) /\ (at.found # None => last.found = at.found)
  BY <1>3, <1>15 DEF Counted
<1> QED
  BY <1>2, <1>17, <1>18, <1>19 DEF Counted, last

FileParts(groups) == [i \in DOMAIN groups |-> GroupLines(groups[i])]

FileItems(groups) == [i \in DOMAIN groups |-> GroupItems(groups[i])]

LEMMA FilesTold ==
  ASSUME NEW groups \in Seq(FileGroup) \ {<<>>}, Ids \in SUBSET Nat
  PROVE  LET N == Len(groups)
         IN /\ N \in Nat \ {0}
            /\ \A i \in 1..N : /\ groups[i] \in FileGroup
                               /\ FileParts(groups)[i] = GroupLines(groups[i])
                               /\ FileItems(groups)[i] = GroupItems(groups[i])
            /\ FileParts(groups) \in Seq(Seq(Drawn))
            /\ Len(FileParts(groups)) = N
            /\ FileItems(groups) \in Seq(Seq(SummaryItem))
            /\ Len(FileItems(groups)) = N
            /\ Lines(groups) = FlattenSeq(FileParts(groups))
            /\ Items(groups) = FlattenSeq(FileItems(groups))
<1> DEFINE N == Len(groups)
<1>1. groups \in Seq(FileGroup) /\ groups # <<>>
  OBVIOUS
<1>2. N \in Nat \ {0} /\ DOMAIN groups = 1..N
  BY <1>1, EmptySeq, LenProperties
<1>3. \A i \in 1..N : groups[i] \in FileGroup
  BY <1>1, ElementOfSeq
<1>4. \A i \in 1..N : /\ GroupLines(groups[i]) \in Seq(Drawn)
                      /\ GroupItems(groups[i]) \in Seq(SummaryItem)
  BY <1>3, GroupRows
<1> HIDE DEF N
<1> DEFINE parts == [i \in DOMAIN groups |-> GroupLines(groups[i])]
           its == [i \in DOMAIN groups |-> GroupItems(groups[i])]
<1>5. parts \in [1..N -> Seq(Drawn)] /\ its \in [1..N -> Seq(SummaryItem)]
  BY <1>2, <1>4
<1>6. \A i \in 1..N : parts[i] = GroupLines(groups[i])
                      /\ its[i] = GroupItems(groups[i])
  BY <1>2
<1> HIDE DEF parts, its
<1>7. parts \in Seq(Seq(Drawn)) /\ Len(parts) = N
  BY <1>2, <1>5, SeqDef, LenProperties
<1>8. its \in Seq(Seq(SummaryItem)) /\ Len(its) = N
  BY <1>2, <1>5, SeqDef, LenProperties
<1>9. parts = FileParts(groups) /\ its = FileItems(groups)
  BY DEF FileParts, FileItems, parts, its
<1>10. /\ Lines(groups) = FlattenSeq(FileParts(groups))
       /\ Items(groups) = FlattenSeq(FileItems(groups))
  BY LinesUnfold DEF FileParts, FileItems
<1> QED
  BY <1>2, <1>3, <1>6, <1>7, <1>8, <1>9, <1>10 DEF N

(* The first item is in the third row, under its two headings.             *)
LEMMA FirstItemRow ==
  ASSUME NEW groups \in Seq(FileGroup) \ {<<>>}, Ids \in SUBSET Nat
  PROVE  /\ Lines(groups) \in Seq(Drawn)
         /\ Items(groups) \in Seq(SummaryItem)
         /\ Len(Items(groups)) \in Nat \ {0}
         /\ Len(Lines(groups)) >= 3
         /\ Lines(groups)[3] = <<"Item", Items(groups)[1].root>>
<1> DEFINE parts == FileParts(groups)
           its == FileItems(groups)
           first == groups[1]
<1>1. /\ first \in FileGroup
      /\ parts \in Seq(Seq(Drawn)) /\ parts # <<>>
      /\ its \in Seq(Seq(SummaryItem)) /\ its # <<>>
      /\ parts[1] = GroupLines(first) /\ its[1] = GroupItems(first)
      /\ Lines(groups) = FlattenSeq(parts)
      /\ Items(groups) = FlattenSeq(its)
  <2>1. Len(<<>>) = 0
    OBVIOUS
  <2> QED
    BY <2>1, FilesTold
<1> HIDE DEF parts, its, first
<1>2. /\ GroupLines(first) \in Seq(Drawn)
      /\ GroupItems(first) \in Seq(SummaryItem) /\ GroupItems(first) # <<>>
      /\ Len(GroupLines(first)) >= 3
      /\ GroupLines(first)[3] = <<"Item", GroupItems(first)[1].root>>
  BY <1>1, GroupRows
<1>3. /\ Len(FlattenSeq(parts)) >= Len(parts[1])
      /\ FlattenSeq(parts) \in Seq(Drawn)
      /\ \A j \in 1..Len(parts[1]) : FlattenSeq(parts)[j] = parts[1][j]
  BY <1>1, FlattenHead
<1>4. /\ Len(FlattenSeq(its)) >= Len(its[1])
      /\ FlattenSeq(its) \in Seq(SummaryItem)
      /\ \A j \in 1..Len(its[1]) : FlattenSeq(its)[j] = its[1][j]
  BY <1>1, FlattenHead
<1>5. 3 \in 1..Len(parts[1]) /\ 1 \in 1..Len(its[1])
  <2>1. Len(GroupLines(first)) \in Nat /\ Len(GroupItems(first)) \in Nat \ {0}
    BY <1>2, EmptySeq, LenProperties
  <2> QED
    BY <1>1, <1>2, <2>1
<1>6. FlattenSeq(parts)[3] = GroupLines(first)[3]
      /\ FlattenSeq(its)[1] = GroupItems(first)[1]
  <2>1. FlattenSeq(parts)[3] = parts[1][3] /\ FlattenSeq(its)[1] = its[1][1]
    BY <1>3, <1>4, <1>5
  <2> QED
    BY <1>1, <2>1
<1>7. Len(FlattenSeq(parts)) >= 3 /\ Len(FlattenSeq(its)) \in Nat \ {0}
  <2>1. Len(FlattenSeq(parts)) \in Nat /\ Len(FlattenSeq(its)) \in Nat
    BY <1>3, <1>4, LenProperties
  <2>2. Len(parts[1]) \in Nat /\ Len(its[1]) \in Nat
    BY <1>1, <1>2, LenProperties
  <2> QED
    BY <1>3, <1>4, <1>5, <2>1, <2>2
<1> QED
  BY <1>1, <1>2, <1>3, <1>4, <1>6, <1>7

(* The row an item is said to be in (row_index_for_item) is the one it is  *)
(* drawn in (render_lines).                                                *)
LEMMA RowShowsItem ==
  ASSUME NEW groups \in Seq(FileGroup) \ {<<>>}, Ids \in SUBSET Nat,
         None \notin Nat,
         NEW item \in Nat, item < Len(Items(groups))
  PROVE  LET row == RowOfItem(groups, item)
         IN /\ row \in Nat /\ row + 1 \in 1..Len(Lines(groups))
            /\ Lines(groups)[row + 1]
                 = <<"Item", Items(groups)[item + 1].root>>
<1> DEFINE N == Len(groups)
           parts == FileParts(groups)
           its == FileItems(groups)
           base == [row |-> 0, items |-> 0, found |-> None]
           Is(f) == f = [n \in 0..Len(groups) |->
                            IF n = 0 THEN base
                            ELSE InFile(item, f[n - 1], groups[n])]
           after == CHOOSE f : Is(f)
<1>1. /\ N \in Nat \ {0}
      /\ \A i \in 1..N : /\ groups[i] \in FileGroup
                         /\ parts[i] = GroupLines(groups[i])
                         /\ its[i] = GroupItems(groups[i])
      /\ parts \in Seq(Seq(Drawn)) /\ Len(parts) = N
      /\ its \in Seq(Seq(SummaryItem)) /\ Len(its) = N
      /\ Lines(groups) = FlattenSeq(parts)
      /\ Items(groups) = FlattenSeq(its)
  BY FilesTold
<1>2. RowOfItem(groups, item) = after[N].found
  BY DEF RowOfItem
<1>3. base \in Tally(item) /\ base.row = 0 /\ base.items = 0 /\ base.found = None
  BY DEF Tally
<1> HIDE DEF parts, its, base
<1> DEFINE Step(f, n) == InFile(item, f, groups[n])
           step == [pair \in Tally(item) \X (1..N) |-> Step(pair[1], pair[2])]
<1>4. ASSUME NEW f \in Tally(item), NEW n \in 1..N
      PROVE  Counted(item, f, Step(f, n), parts[n], its[n])
  BY <1>1, FileCounted
<1>5. ASSUME NEW f \in Tally(item), NEW n \in 1..N
      PROVE  Step(f, n) \in Tally(item)
  BY <1>4 DEF Counted
<1>6. Is(after)
  <2> HIDE DEF N, Step
  <2>1. step \in [Tally(item) \X (1..N) -> Tally(item)]
    BY <1>5
  <2>2. \A f \in Tally(item), n \in 1..N : step[<<f, n>>] = Step(f, n)
    OBVIOUS
  <2> HIDE DEF step
  <2> DEFINE T == Tally(item)
  <2>3. PICK g \in [0..N -> T] : IsFold(g, N, base, step)
    <3>1. N \in Nat /\ base \in T
      BY <1>1, <1>3
    <3>2. step \in [T \X (1..N) -> T]
      BY <2>1
    <3> HIDE DEF T
    <3> QED
      BY <3>1, <3>2, FoldExists
  <2>4. \A n \in 0..N : n # 0 => n \in 1..N /\ g[n - 1] \in Tally(item)
    <3>1. \A n \in 0..N : n # 0 => n \in 1..N /\ n - 1 \in 0..N
      BY <1>1
    <3> QED
      BY <3>1
  <2>5. \A n \in 0..N : g[n] = IF n = 0 THEN base ELSE Step(g[n - 1], n)
    BY <2>2, <2>3, <2>4 DEF IsFold
  <2>6. g = [n \in 0..N |-> IF n = 0 THEN base ELSE Step(g[n - 1], n)]
    BY <2>5
  <2>7. Is(g)
    BY <2>6 DEF N, Step
  <2> HIDE DEF Is
  <2> QED
    BY <2>7
<1>7. \A n \in 0..N : after[n] = IF n = 0 THEN base ELSE Step(after[n - 1], n)
  <2>1. after = [n \in 0..N |-> IF n = 0 THEN base ELSE Step(after[n - 1], n)]
    BY <1>6
  <2> HIDE DEF after, N, Step
  <2> QED
    BY <2>1
<1>8. DOMAIN after = 0..N /\ after = [n \in 0..N |-> after[n]]
  <2>1. after = [n \in 0..N |-> IF n = 0 THEN base ELSE Step(after[n - 1], n)]
    BY <1>6
  <2> HIDE DEF after, N, Step
  <2> QED
    BY <2>1
<1> HIDE DEF after, N, Step
<1>9. after \in [0..N -> Tally(item)]
  <2> DEFINE S == {n \in 0..N : after[n] \in Tally(item)}
  <2>1. 0 \in S
    BY <1>1, <1>3, <1>7
  <2>2. ASSUME NEW n \in 1..N, n - 1 \in S PROVE n \in S
    <3>1. n \in 0..N /\ n # 0
      BY <1>1
    <3>2. after[n] = Step(after[n - 1], n)
      BY <1>7, <3>1
    <3> QED
      BY <1>5, <2>2, <3>1, <3>2
  <2> HIDE DEF S
  <2>3. S \in SUBSET (0..N)
    BY DEF S
  <2>4. S = 0..N
    BY <1>1, <2>1, <2>2, <2>3, InductionUpTo
  <2>5. \A n \in 0..N : after[n] \in Tally(item)
    BY <2>4 DEF S
  <2> QED
    BY <1>8, <2>5
<1>10. ASSUME NEW n \in 1..N
       PROVE  Counted(item, after[n - 1], after[n], parts[n], its[n])
  <2>1. n \in 0..N /\ n # 0 /\ n - 1 \in 0..N
    BY <1>1
  <2>2. after[n] = Step(after[n - 1], n) /\ after[n - 1] \in Tally(item)
    BY <1>7, <1>9, <2>1
  <2> QED
    BY <1>4, <2>2
<1>11. Counted(item, after[0], after[N], FlattenSeq(parts), FlattenSeq(its))
  BY <1>1, <1>9, <1>10, RunCounted
<1>12. after[0] = base
  <2>1. 0 \in 0..N
    BY <1>1
  <2> QED
    BY <1>7, <2>1
<1> DEFINE lines == Lines(groups)
           items == Items(groups)
           last == after[N]
<1>13. Counted(item, base, last, lines, items)
  BY <1>1, <1>11, <1>12
<1>14. Len(lines) \in Nat /\ Len(items) \in Nat /\ item < Len(items)
  BY FirstItemRow, LenProperties
<1> HIDE DEF lines, items, last
<1>15. item < base.items + Len(items) /\ item - base.items + 1 = item + 1
  BY <1>3, <1>14
<1>16. PICK n \in 1..Len(lines) :
         /\ last.found = base.row + n - 1
         /\ lines[n] = <<"Item", items[item - base.items + 1].root>>
  BY <1>3, <1>13, <1>15 DEF Counted
<1>17. last.found \in Nat /\ last.found + 1 = n
  BY <1>3, <1>14, <1>16
<1> QED
  BY <1>2, <1>15, <1>16, <1>17 DEF last, lines, items
===========================================================================
