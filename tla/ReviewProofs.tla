---------------------------- MODULE ReviewProofs ----------------------------
(***************************************************************************)
(* Proofs about the review list, on its own (ReviewList), under the        *)
(* background sync (ReviewSync) and under the keyboard (ReviewApp), for    *)
(* every list, history of the comments, page size and terminal.            *)
(*                                                                         *)
(* List: the rows of the cached filter result are counted without gaps, so *)
(* that the cursor is always on a comment, and the scroll offset never     *)
(* leaves it.  Sync: the loop never runs two fetches and never stops, what *)
(* is listed comes from the fetch, and a fetch that is read page by page   *)
(* while comments come misses none of those there were.  Keyboard: only    *)
(* the keys of the list move it, and the diff context shows the hunks of   *)
(* the list as it is.  The steps of both loops are those of ReviewList,    *)
(* whose theorems therefore hold of the synced list and in every view.     *)
(***************************************************************************)
EXTENDS ReviewSync, ReviewApp, DiscussionProofs, FiniteSetTheorems,
        SequenceTheorems, TLAPS

---------------------------------------------------------------------------
(* The list: counting.                                                     *)

(* RowOf, which the code gets as a position in filtered_indices, numbers   *)
(* the cached indices from 0 on without gaps.                              *)
LEMMA RowsOfCache ==
  ASSUME NEW cache \in SUBSET Nat, IsFiniteSet(cache)
  PROVE  /\ \A i \in cache : RowOf(i, cache) \in 0..(Cardinality(cache) - 1)
         /\ \A i, j \in cache : RowOf(i, cache) = RowOf(j, cache) => i = j
         /\ \A n \in 0..(Cardinality(cache) - 1) :
              \E i \in cache : RowOf(i, cache) = n
<1> DEFINE R == {p \in cache \X cache : p[1] < p[2]}
           rank == [i \in cache |-> Rank(cache, R, i)]
<1>1. IsOrder(cache, R)
  BY DEF IsOrder
<1>2. \A i \in cache : {j \in cache : <<j, i>> \in R} = {j \in cache : j < i}
  OBVIOUS
<1>3. \A i \in cache : rank[i] = RowOf(i, cache)
  BY <1>2 DEF RowOf, Rank
<1>4. rank \in Injection(cache, 0..(Cardinality(cache) - 1))
  <2> HIDE DEF R
  <2> QED BY <1>1, RanksAreRows
<1>5. \A n \in 0..(Cardinality(cache) - 1) :
        \E i \in cache : Rank(cache, R, i) = n
  <2> HIDE DEF R
  <2> QED BY <1>1, EveryRowIsTaken
<1>6. \A n \in 0..(Cardinality(cache) - 1) :
        \E i \in cache : RowOf(i, cache) = n
  <2>1. \A i \in cache : Rank(cache, R, i) = RowOf(i, cache)
    BY <1>2 DEF RowOf, Rank
  <2> HIDE DEF R
  <2> QED BY <1>5, <2>1
<1>7. /\ rank \in [cache -> 0..(Cardinality(cache) - 1)]
      /\ \A i, j \in cache : rank[i] = rank[j] => i = j
  <2> HIDE DEF rank
  <2>1. rank \in [cache -> 0..(Cardinality(cache) - 1)] /\ IsInjective(rank)
    BY <1>4 DEF Injection
  <2>2. DOMAIN rank = cache BY <2>1
  <2> QED BY <2>1, <2>2, Zenon DEF IsInjective
<1>8. \A i \in cache : RowOf(i, cache) \in 0..(Cardinality(cache) - 1)
  <2> HIDE DEF rank
  <2> QED BY <1>3, <1>7
<1>9. \A i, j \in cache : RowOf(i, cache) = RowOf(j, cache) => i = j
  <2> HIDE DEF rank
  <2> QED BY <1>3, <1>7
<1> QED BY <1>6, <1>8, <1>9

---------------------------------------------------------------------------
(* The list: what GitHub may send.                                         *)

(* Comments without two of the same id: what GitHub lists.                 *)
Distinct(S) ==
  /\ S \subseteq Review /\ IsFiniteSet(S)
  /\ \A r, s \in S : r.id = s.id => r = s

IsList(list) ==
  /\ list \in Seq(Review)
  /\ \A i, j \in DOMAIN list : list[i].id = list[j].id => i = j

(* A list in any order holds every comment once.                           *)
LEMMA OrdersAreLists ==
  ASSUME NEW S, Distinct(S), NEW list \in Orders(S)
  PROVE  IsList(list) /\ Len(list) = Cardinality(S)
<1>1. Cardinality(S) \in Nat BY FS_CardinalityType DEF Distinct
<1>2. list \in [1..Cardinality(S) -> S] BY DEF Orders
<1>3. list \in Seq(Review) /\ Len(list) = Cardinality(S)
  BY <1>1, <1>2, SeqDef, LenProperties DEF Distinct
<1>4. ASSUME NEW i \in DOMAIN list, NEW j \in DOMAIN list,
             list[i].id = list[j].id
      PROVE  i = j
  <2>1. list[i] \in S /\ list[j] \in S BY <1>2
  <2>2. list[i] = list[j] BY <1>4, <2>1 DEF Distinct
  <2> QED BY <2>2 DEF Orders
<1> QED BY <1>3, <1>4 DEF IsList

(* merge_reviews sorts by id: what it returns is an order of what was      *)
(* fetched, with nothing left out or doubled.                              *)
LEMMA MergeIsOrder ==
  ASSUME NEW S, Distinct(S)
  PROVE  MergeReviews(S) \in Orders(S)
<1> DEFINE R == {p \in S \X S : p[1].id < p[2].id}
           At(i) == CHOOSE r \in S :
                      Cardinality({s \in S : s.id < r.id}) = i - 1
           list == MergeReviews(S)
<1>1. IsOrder(S, R)
  <2>1. \A r \in S : r.id \in Nat
    BY ReviewListAssumption DEF Distinct, Review
  <2>2. \A r, s \in S : r.id = s.id => r = s
    BY DEF Distinct
  <2> QED BY <2>1, <2>2 DEF IsOrder
<1>2. \A r \in S : {s \in S : <<s, r>> \in R} = {s \in S : s.id < r.id}
  OBVIOUS
<1>3. Cardinality(S) \in Nat BY FS_CardinalityType DEF Distinct
<1>4. ASSUME NEW i \in 1..Cardinality(S)
      PROVE  /\ At(i) \in S
             /\ Cardinality({s \in S : s.id < At(i).id}) = i - 1
  <2>1. i - 1 \in 0..(Cardinality(S) - 1) BY <1>3
  <2>2. PICK r \in S : Rank(S, R, r) = i - 1
    <3> HIDE DEF R
    <3> QED BY <1>1, <2>1, EveryRowIsTaken DEF Distinct
  <2>3. Cardinality({s \in S : s.id < r.id}) = i - 1
    BY <1>2, <2>2 DEF Rank
  <2> QED BY <2>3
<1>5. list = [i \in 1..Cardinality(S) |-> At(i)] BY DEF MergeReviews
<1>6. list \in [1..Cardinality(S) -> S]
  <2> HIDE DEF At, list
  <2> QED BY <1>4, <1>5
<1>7. ASSUME NEW i \in DOMAIN list, NEW j \in DOMAIN list, list[i] = list[j]
      PROVE  i = j
  <2>1. i \in 1..Cardinality(S) /\ j \in 1..Cardinality(S)
    <3> HIDE DEF list
    <3> QED BY <1>6
  <2>2. At(i) = At(j)
    <3> HIDE DEF At, list
    <3> QED BY <1>5, <1>7, <2>1
  <2>3. i - 1 = j - 1
    <3>1. i - 1 = Cardinality({s \in S : s.id < At(i).id}) BY <1>4, <2>1
    <3>2. j - 1 = Cardinality({s \in S : s.id < At(j).id}) BY <1>4, <2>1
    <3> HIDE DEF At
    <3> QED BY <3>1, <3>2, <2>2
  <2> QED BY <2>1, <2>3
<1> HIDE DEF list
<1>8. list \in Orders(S) BY <1>6, <1>7 DEF Orders
<1> QED BY <1>8 DEF list

(* The cached indices are positions of the list, finitely many.            *)
LEMMA CacheIsFinite ==
  ASSUME NEW list, IsList(list), NEW f
  PROVE  /\ Matching(f, list) \in SUBSET Nat
         /\ IsFiniteSet(Matching(f, list))
         /\ Cardinality(Matching(f, list)) \in Nat
<1>1. DOMAIN list = 1..Len(list) /\ Len(list) \in Nat
  BY LenProperties DEF IsList
<1>2. IsFiniteSet(1..Len(list)) BY <1>1, FS_Interval
<1>3. Matching(f, list) \in SUBSET (1..Len(list)) BY <1>1 DEF Matching
<1>4. IsFiniteSet(Matching(f, list)) BY <1>2, <1>3, FS_Subset
<1> QED BY <1>1, <1>3, <1>4, FS_CardinalityType

(* What a row of the list shows, and that there is no comment on a row     *)
(* outside it.                                                             *)
LEMMA RowsShowComments ==
  ASSUME NEW list, IsList(list), NEW cache \in SUBSET (DOMAIN list),
         IsFiniteSet(cache), NEW row \in Nat
  PROVE  /\ (row < Cardinality(cache)) => (IdOnRow(row, cache, list) \in Ids)
         /\ (row >= Cardinality(cache)) => (IdOnRow(row, cache, list) = None)
         /\ \A i \in cache :
              IdOnRow(RowOf(i, cache), cache, list) = list[i].id
<1>1. cache \in SUBSET Nat /\ Cardinality(cache) \in Nat
  BY LenProperties, FS_CardinalityType DEF IsList
<1>2. /\ \A i \in cache : RowOf(i, cache) \in 0..(Cardinality(cache) - 1)
      /\ \A i, j \in cache : RowOf(i, cache) = RowOf(j, cache) => i = j
      /\ \A n \in 0..(Cardinality(cache) - 1) :
           \E i \in cache : RowOf(i, cache) = n
  BY <1>1, RowsOfCache
<1>3. \A i \in cache : list[i] \in Review
  BY ElementOfSeq, LenProperties DEF IsList
<1>4. ASSUME row < Cardinality(cache)
      PROVE  IdOnRow(row, cache, list) \in Ids
  <2>1. row \in 0..(Cardinality(cache) - 1) BY <1>1, <1>4
  <2>2. \E i \in cache : RowOf(i, cache) = row BY <1>2, <2>1
  <2>3. IdOnRow(row, cache, list)
          = list[CHOOSE i \in cache : RowOf(i, cache) = row].id
    BY <2>2 DEF IdOnRow
  <2>4. (CHOOSE i \in cache : RowOf(i, cache) = row) \in cache BY <2>2
  <2> HIDE DEF RowOf
  <2> QED BY <1>3, <2>3, <2>4 DEF Review
<1>5. ASSUME row >= Cardinality(cache)
      PROVE  IdOnRow(row, cache, list) = None
  <2>1. ~ \E i \in cache : RowOf(i, cache) = row
    <3>1. ASSUME NEW i \in cache PROVE RowOf(i, cache) # row
      <4>1. RowOf(i, cache) \in 0..(Cardinality(cache) - 1) BY <1>2
      <4> QED BY <1>1, <1>5, <4>1
    <3> QED BY <3>1
  <2> QED BY <2>1 DEF IdOnRow
<1>6. ASSUME NEW i \in cache
      PROVE  IdOnRow(RowOf(i, cache), cache, list) = list[i].id
  <2>1. (CHOOSE j \in cache : RowOf(j, cache) = RowOf(i, cache)) = i
    BY <1>2
  <2> QED BY <2>1 DEF IdOnRow
<1> QED BY <1>4, <1>5, <1>6

(* The height handed to the list is never 0, whatever the terminal.        *)
LEMMA HeightIsPositive ==
  \A count, height \in Nat : ListHeight(count, height) \in Nat \ {0}
BY DEF ListHeight, Larger, Smaller, Minus

(* adjust_scroll_to_cursor leaves the row on screen.                       *)
LEMMA ScrollShowsRow ==
  ASSUME NEW row \in Nat, NEW from \in Nat, NEW height \in Nat \ {0}
  PROVE  /\ ScrollTo(row, from, height) \in Nat
         /\ ScrollTo(row, from, height) <= row
         /\ row < ScrollTo(row, from, height) + height
BY DEF ScrollTo, Minus

---------------------------------------------------------------------------
(* The list: the invariant.                                                *)

(* The cache is that of the filter and the list, the height that of the    *)
(* cache and the terminal: all that the handlers owe Place.                *)
Loaded ==
  /\ \E S \in Snapshots : reviews \in Orders(S)
  /\ filter \in Filters /\ rows \in Rows
  /\ filtered = Matching(filter, reviews)
  /\ visible = ListHeight(Count, rows)

(* The cursor is on a row, on screen.                                      *)
Placed ==
  /\ cursor \in Nat /\ scroll \in Nat
  /\ cursor < Count \/ cursor = 0
  /\ scroll <= cursor /\ cursor < scroll + visible

(* The inductive invariant.                                                *)
IInv ==
  /\ Loaded
  /\ Placed
  /\ selected = IdOnRow(cursor, filtered, reviews)

(* Sizes and types of the list.                                            *)
ListSizes ==
  /\ IsList(reviews) /\ filtered \in SUBSET (DOMAIN reviews)
  /\ filtered \in SUBSET Nat /\ IsFiniteSet(filtered) /\ Count \in Nat
  /\ visible \in Nat \ {0} /\ rows \in Nat
  /\ visible <= Larger(Count, 1)

(* What Loaded says of sizes and types, whatever the row.                  *)
LEMMA LoadedFacts == Loaded => ListSizes
<1> SUFFICES ASSUME Loaded PROVE ListSizes OBVIOUS
<1>1. PICK S \in Snapshots : reviews \in Orders(S) BY DEF Loaded
<1>2. Distinct(S) BY ReviewListAssumption DEF Distinct
<1>3. IsList(reviews) BY <1>1, <1>2, OrdersAreLists
<1>4. filtered \in SUBSET (DOMAIN reviews) BY DEF Loaded, Matching
<1>5. filtered \in SUBSET Nat /\ IsFiniteSet(filtered) /\ Count \in Nat
  BY <1>3, CacheIsFinite DEF Loaded, Count
<1>6. rows \in Nat BY ReviewListAssumption DEF Loaded
<1>7. visible \in Nat \ {0}
  BY <1>5, <1>6, HeightIsPositive DEF Loaded
<1>8. visible <= Larger(Count, 1)
  BY <1>5, <1>6 DEF Loaded, ListHeight, Larger, Smaller, Minus
<1> QED BY <1>3, <1>4, <1>5, <1>6, <1>7, <1>8 DEF ListSizes

(* Cursor, scroll offset and selected id come out right when the row asked *)
(* for is one of the list, or the first.                                   *)
LEMMA PlaceKeepsIInv ==
  ASSUME Loaded', NEW row \in Nat, NEW first \in Nat,
         row < Count' \/ row = 0, Place(row, first)
  PROVE  IInv'
<1>1. visible' \in Nat \ {0}
  <2>1. Loaded' => ListSizes' BY LoadedFacts, PTL
  <2> QED BY <2>1 DEF ListSizes
<1>2. cursor' = row /\ scroll' = ScrollTo(row, first, visible')
  BY DEF Place
<1>3. Placed' BY <1>1, <1>2, ScrollShowsRow DEF Placed
<1>4. (selected = IdOnRow(cursor, filtered, reviews))' BY DEF Place
<1> QED BY <1>3, <1>4 DEF IInv

(* A filter, or a list, that is taken over with its cache and height.      *)
LEMMA RebuildLoads ==
  ASSUME NEW f, f \in Filters, filter' = f, rows' = rows, rows \in Rows,
         (\E S \in Snapshots : reviews \in Orders(S))',
         Rebuild(f, reviews')
  PROVE  Loaded'
BY DEF Loaded, Rebuild, Count

(* clamp_cursor leaves a row of the list, or the first.                    *)
LEMMA ClampedIsRow ==
  ASSUME NEW row \in Nat, NEW first \in Nat, NEW count \in Nat
  PROVE  /\ ClampedCursor(row, count) \in Nat
         /\ ClampedCursor(row, count) < count \/ ClampedCursor(row, count) = 0
         /\ ClampedScroll(first, count) \in Nat
BY DEF ClampedCursor, ClampedScroll, Smaller

(* The first list is kept as GitHub ordered it; the cursor starts on top.  *)
LEMMA InitIInv ==
  ASSUME Init
  PROVE  IInv
<1>1. PICK S \in Snapshots : reviews \in Orders(S) BY DEF Init
<1>2. Distinct(S) BY ReviewListAssumption DEF Distinct
<1>3. IsList(reviews) BY <1>1, <1>2, OrdersAreLists
<1>4. filtered = Matching(filter, reviews)
  BY DEF Init, Matching, Matches, AllFilter
<1>5. DOMAIN reviews = 1..Len(reviews) /\ Len(reviews) \in Nat
  BY <1>3, LenProperties DEF IsList
<1>6. Count = Len(reviews)
  <2>1. filtered = 1..Len(reviews)
    BY <1>5 DEF Init
  <2> DEFINE n == Len(reviews)
  <2>2. n \in Nat
    BY <1>5
  <2> HIDE DEF n
  <2>3. Cardinality(1..n) = n
    BY <2>2, FS_Interval
  <2> QED
    BY <2>1, <2>3 DEF Count, n
<1>7. AllFilter \in Filters BY DEF AllFilter, Filters
<1>8. Loaded
  <2>1. filter = AllFilter /\ rows \in Rows /\ visible = ListHeight(Count, rows)
    BY <1>6 DEF Init
  <2>2. \E T \in Snapshots : reviews \in Orders(T)
    BY <1>1
  <2> QED
    BY <1>4, <1>7, <2>1, <2>2, Zenon DEF Loaded
<1>9. Placed BY <1>8, LoadedFacts DEF Init, Placed, ListSizes
<1>10. selected = IdOnRow(cursor, filtered, reviews)
  <2>1. CASE reviews = <<>>
    <3>1. filtered = {} BY <1>5, <2>1 DEF Init
    <3> QED BY <2>1, <3>1 DEF Init, IdOnRow
  <2>2. CASE reviews # <<>>
    <3>1. 1 \in filtered
      <4>1. Len(reviews) # 0 BY <1>3, <2>2, EmptySeq DEF IsList
      <4> QED BY <1>5, <4>1 DEF Init
    <3>2. RowOf(1, filtered) = 0
      <4>1. {j \in filtered : j < 1} = {} BY <1>5 DEF Init
      <4> QED BY <4>1, FS_EmptySet DEF RowOf
    <3>3. IdOnRow(RowOf(1, filtered), filtered, reviews) = reviews[1].id
      BY <1>8, <3>1, LoadedFacts, RowsShowComments DEF ListSizes
    <3> QED BY <2>2, <3>2, <3>3 DEF Init
  <2> QED BY <2>1, <2>2
<1> QED BY <1>8, <1>9, <1>10 DEF IInv

---------------------------------------------------------------------------
(* The list: the steps.                                                    *)

(* A handler that moves the cursor and leaves list, cache and height.      *)
LEMMA MoveKeepsIInv ==
  ASSUME IInv, UNCHANGED <<reviews, filter, filtered, visible, rows>>,
         NEW row \in Nat, NEW first \in Nat, row < Count \/ row = 0,
         Place(row, first)
  PROVE  IInv'
<1>1. Loaded' BY DEF IInv, Loaded, Count
<1>2. Count' = Count BY DEF Count
<1> QED BY <1>1, <1>2, PlaceKeepsIInv

(* Up and down by a row or a page, to the top and to the end.              *)
LEMMA NavigationKeepsIInv ==
  ASSUME IInv, NEW step \in Nat,
         MoveUp(step) \/ MoveDown(step) \/ Home \/ GoToEnd
  PROVE  IInv'
<1>1. ListSizes BY LoadedFacts DEF IInv
<1>2. /\ Count \in Nat /\ visible \in Nat
      /\ cursor \in Nat /\ scroll \in Nat /\ (cursor < Count \/ cursor = 0)
  BY <1>1 DEF IInv, Placed, ListSizes
<1>3. CASE MoveUp(step)
  <2>1. Minus(cursor, step) \in Nat
        /\ (Minus(cursor, step) < Count \/ Minus(cursor, step) = 0)
    BY <1>2 DEF Minus
  <2> QED BY <1>2, <1>3, <2>1, MoveKeepsIInv DEF MoveUp
<1>4. CASE MoveDown(step)
  <2> DEFINE row == Smaller(cursor + step, Minus(Count, 1))
  <2>1. row \in Nat /\ (row < Count \/ row = 0)
    BY <1>2 DEF Minus, Smaller
  <2>2. Place(row, scroll) BY <1>4 DEF MoveDown
  <2> HIDE DEF row
  <2> QED BY <1>2, <1>4, <2>1, <2>2, MoveKeepsIInv DEF MoveDown
<1>5. CASE Home
  BY <1>2, <1>5, MoveKeepsIInv DEF Home
<1>6. CASE GoToEnd
  <2> DEFINE row == Minus(Count, 1)
             first == Minus(Minus(Count, 1), Minus(visible, 1))
  <2>1. row \in Nat /\ first \in Nat /\ (row < Count \/ row = 0)
    BY <1>2 DEF Minus
  <2>2. Place(row, first) BY <1>6 DEF GoToEnd
  <2> HIDE DEF row, first
  <2> QED BY <1>6, <2>1, <2>2, MoveKeepsIInv DEF GoToEnd
<1> QED BY <1>3, <1>4, <1>5, <1>6

(* The cursor keeps its row, within the new list: Rebuild and clamp.       *)
LEMMA ClampKeepsIInv ==
  ASSUME IInv, Loaded',
         Place(ClampedCursor(cursor, Cardinality(filtered')),
               ClampedScroll(scroll, Cardinality(filtered')))
  PROVE  IInv'
<1> DEFINE row == ClampedCursor(cursor, Cardinality(filtered'))
           first == ClampedScroll(scroll, Cardinality(filtered'))
<1>1. Count' = Cardinality(filtered') BY DEF Count
<1>2. Cardinality(filtered') \in Nat
  <2>1. Loaded' => ListSizes' BY LoadedFacts, PTL
  <2> QED BY <1>1, <2>1 DEF ListSizes
<1>3. cursor \in Nat /\ scroll \in Nat BY DEF IInv, Placed
<1>4. row \in Nat /\ first \in Nat /\ (row < Count' \/ row = 0)
  BY <1>1, <1>2, <1>3, ClampedIsRow
<1>5. Place(row, first) OBVIOUS
<1> HIDE DEF row, first
<1> QED BY <1>4, <1>5, PlaceKeepsIInv

(* The cursor goes to a comment of the new list: a link of the summary, a  *)
(* sync that still lists the selected comment.                             *)
LEMMA FollowKeepsIInv ==
  ASSUME IInv, Loaded', NEW i, i \in filtered',
         Place(RowOf(i, filtered'), scroll)
  PROVE  IInv' /\ selected' = reviews'[i].id
<1> DEFINE row == RowOf(i, filtered')
<1>1. ListSizes'
  <2>1. Loaded' => ListSizes' BY LoadedFacts, PTL
  <2> QED BY <2>1
<1>2. /\ IsList(reviews') /\ filtered' \in SUBSET (DOMAIN reviews')
      /\ filtered' \in SUBSET Nat /\ IsFiniteSet(filtered')
      /\ Cardinality(filtered') \in Nat /\ Count' = Cardinality(filtered')
  BY <1>1 DEF ListSizes, Count
<1>3. row \in 0..(Cardinality(filtered') - 1) BY <1>2, RowsOfCache
<1>4. row \in Nat /\ (row < Count' \/ row = 0) BY <1>2, <1>3
<1>5. IdOnRow(row, filtered', reviews') = reviews'[i].id
  BY <1>2, RowsShowComments
<1>6. Place(row, scroll) OBVIOUS
<1>7. scroll \in Nat BY DEF IInv, Placed
<1> HIDE DEF row
<1>8. IInv' BY <1>4, <1>6, <1>7, PlaceKeepsIInv
<1>9. selected' = reviews'[i].id BY <1>5, <1>6 DEF Place
<1> QED BY <1>8, <1>9

(* Every filter key, and the filters that arrive as messages.              *)
LEMMA SetFilterKeepsIInv ==
  ASSUME IInv, NEW f \in Filters, SetFilter(f)
  PROVE  IInv'
<1>1. Loaded'
  <2>1. rows \in Rows /\ \E S \in Snapshots : reviews \in Orders(S)
    BY DEF IInv, Loaded
  <2>2. reviews' = reviews /\ rows' = rows /\ filter' = f
        /\ Rebuild(f, reviews')
    BY DEF SetFilter
  <2> QED BY <2>1, <2>2, RebuildLoads
<1> QED BY <1>1, ClampKeepsIInv DEF SetFilter

(* handle_open_selected_pr_discussion_link, whether the comment is still   *)
(* there or not.                                                           *)
LEMMA OpenSummaryLinkKeepsIInv ==
  ASSUME IInv, NEW id \in Ids, OpenSummaryLink(id)
  PROVE  IInv'
<1>1. Loaded'
  <2>1. rows \in Rows /\ \E S \in Snapshots : reviews \in Orders(S)
    BY DEF IInv, Loaded
  <2>2. reviews' = reviews /\ rows' = rows /\ filter' = AllFilter
        /\ Rebuild(AllFilter, reviews')
    BY DEF OpenSummaryLink
  <2>3. AllFilter \in Filters BY DEF AllFilter, Filters
  <2> QED BY <2>1, <2>2, <2>3, RebuildLoads
<1>2. CASE \E i \in filtered' : reviews[i].id = id
  <2>1. PICK i \in filtered' : Place(RowOf(i, filtered'), scroll)
    BY <1>2 DEF OpenSummaryLink
  <2> QED BY <1>1, <2>1, FollowKeepsIInv
<1>3. CASE ~ \E i \in filtered' : reviews[i].id = id
  BY <1>1, <1>3, ClampKeepsIInv DEF OpenSummaryLink
<1> QED BY <1>2, <1>3

(* handle_resize: the cursor stays, the offset follows it.                 *)
LEMMA WindowResizedKeepsIInv ==
  ASSUME IInv, NEW height \in Rows, WindowResized(height)
  PROVE  IInv'
<1>1. Loaded' BY DEF IInv, Loaded, WindowResized, Count
<1>2. visible' \in Nat \ {0}
  <2>1. Loaded' => ListSizes' BY LoadedFacts, PTL
  <2> QED BY <1>1, <2>1 DEF ListSizes
<1>3. cursor \in Nat /\ scroll \in Nat BY DEF IInv, Placed
<1>4. Placed'
  BY <1>2, <1>3, ScrollShowsRow DEF WindowResized, Placed, IInv, Count
<1>5. (selected = IdOnRow(cursor, filtered, reviews))'
  BY DEF WindowResized, IInv
<1> QED BY <1>1, <1>4, <1>5 DEF IInv

(* apply_new_reviews: the cursor finds its comment again, or keeps its row *)
(* within the new list.  That the cursor is on top of an empty list is     *)
(* what makes its position right when comments first appear.               *)
LEMMA ApplyNewReviewsKeepsIInv ==
  ASSUME IInv, NEW S \in Snapshots, ApplyNewReviews(S)
  PROVE  /\ IInv'
         /\ (\E i \in filtered' : reviews'[i].id = selected)
              => selected' = selected
<1>1. Loaded'
  <2>1. rows \in Rows /\ filter \in Filters BY DEF IInv, Loaded
  <2>2. rows' = rows /\ filter' = filter /\ Rebuild(filter, reviews')
    BY DEF ApplyNewReviews
  <2>3. Distinct(S) BY ReviewListAssumption DEF Distinct
  <2>4. reviews' \in Orders(S) BY <2>3, MergeIsOrder DEF ApplyNewReviews
  <2> QED BY <2>1, <2>2, <2>4, RebuildLoads
<1>2. ListSizes'
  <2>1. Loaded' => ListSizes' BY LoadedFacts, PTL
  <2> QED BY <1>1, <2>1
<1>3. ListSizes BY LoadedFacts DEF IInv
<1>4. CASE selected = None
  <2>1. cursor = 0
    <3>1. ~(cursor < Count)
      <4>1. ASSUME cursor < Count PROVE FALSE
        <5>1. IdOnRow(cursor, filtered, reviews) \in Ids
          BY <1>3, <4>1, RowsShowComments DEF ListSizes, Count, IInv, Placed
        <5> QED BY <1>4, <5>1, ReviewListAssumption DEF IInv
      <4> QED BY <4>1
    <3> QED BY <3>1 DEF IInv, Placed
  <2>2. IInv'
    BY <1>1, <1>4, <2>1, PlaceKeepsIInv DEF ApplyNewReviews, IInv, Placed
  <2>3. \A i \in filtered' : reviews'[i].id # None
    <3>1. ASSUME NEW i \in filtered' PROVE reviews'[i].id \in Ids
      <4>1. i \in 1..Len(reviews') /\ reviews' \in Seq(Review)
        BY <1>2, LenProperties DEF ListSizes, IsList
      <4>2. reviews'[i] \in Review BY <4>1, ElementOfSeq
      <4> QED BY <4>2 DEF Review
    <3> QED BY <3>1, ReviewListAssumption
  <2> QED BY <1>4, <2>2, <2>3
<1>5. CASE selected # None /\ \E i \in filtered' : reviews'[i].id = selected
  <2>1. PICK i \in filtered' : /\ reviews'[i].id = selected
                              /\ Place(RowOf(i, filtered'), scroll)
    BY <1>5 DEF ApplyNewReviews
  <2> QED BY <1>1, <2>1, FollowKeepsIInv
<1>6. CASE selected # None /\ ~ \E i \in filtered' : reviews'[i].id = selected
  <2>1. IInv' BY <1>1, <1>6, ClampKeepsIInv DEF ApplyNewReviews
  <2> QED BY <1>6, <2>1
<1> QED BY <1>4, <1>5, <1>6

---------------------------------------------------------------------------
(* The list: the theorems.                                                 *)

(* Every key, message, resize and sync keeps the invariant.                *)
LEMMA NextKeepsIInv ==
  ASSUME IInv, [Next]_vars
  PROVE  IInv'
<1>1. visible \in Nat /\ 1 \in Nat BY LoadedFacts DEF IInv, ListSizes
<1>2. CASE \/ MoveUp(1) \/ MoveDown(1) \/ Home \/ GoToEnd
           \/ MoveUp(visible) \/ MoveDown(visible)
  <2>1. CASE MoveUp(1) \/ MoveDown(1) \/ Home \/ GoToEnd
    BY <1>1, <2>1, NavigationKeepsIInv
  <2>2. CASE MoveUp(visible) \/ MoveDown(visible)
    BY <1>1, <2>2, NavigationKeepsIInv
  <2> QED BY <1>2, <2>1, <2>2
<1>3. CASE ClearFilter \/ CycleFilter \/ \E f \in Filters : SetFilter(f)
  <2>1. AllFilter \in Filters /\ Unresolved \in Filters
    BY DEF AllFilter, Unresolved, Filters
  <2>2. PICK f \in Filters : SetFilter(f)
    BY <1>3, <2>1 DEF ClearFilter, CycleFilter
  <2> QED BY <2>2, SetFilterKeepsIInv
<1>4. CASE \E id \in Ids : OpenSummaryLink(id)
  BY <1>4, OpenSummaryLinkKeepsIInv
<1>5. CASE \E height \in Rows : WindowResized(height)
  BY <1>5, WindowResizedKeepsIInv
<1>6. CASE \E S \in Snapshots : ApplyNewReviews(S)
  BY <1>6, ApplyNewReviewsKeepsIInv
<1>7. CASE UNCHANGED vars
  BY <1>7 DEF vars, IInv, Loaded, Placed, Count
<1> QED BY <1>2, <1>3, <1>4, <1>5, <1>6, <1>7 DEF Next, Keys

(* Cache, height, cursor, scroll offset and selected id agree after every  *)
(* operation of the list, whatever the comments and the terminal.          *)
THEOREM ListInvariant == Spec => []IInv
<1>1. Init => IInv BY InitIInv
<1>2. IInv /\ [Next]_vars => IInv' BY NextKeepsIInv
<1> QED BY <1>1, <1>2, PTL DEF Spec

(* The list is always one of those GitHub may have sent, in some order,    *)
(* and every variable keeps its type.                                      *)
THEOREM ListTypeCorrect == Spec => []TypeOK
<1>1. ASSUME IInv PROVE TypeOK
  <2>1. ListSizes BY <1>1, LoadedFacts DEF IInv
  <2>2. selected \in Ids \cup {None}
    <3>1. cursor \in Nat BY <1>1 DEF IInv, Placed
    <3>2. IdOnRow(cursor, filtered, reviews) \in Ids \cup {None}
      BY <2>1, <3>1, RowsShowComments DEF ListSizes, Count
    <3> QED BY <1>1, <3>2 DEF IInv
  <2> QED BY <1>1, <2>1, <2>2 DEF IInv, Loaded, Placed, ListSizes, TypeOK
<1> QED BY <1>1, ListInvariant, PTL

(* The tracked id is that of the comment under the cursor, by the filter   *)
(* and the list of the moment: what drafts, diff context and time travel   *)
(* act on is what the user sees (update_selected_id).                      *)
THEOREM SelectionSafety == Spec => []SelectionFollowsCursor
<1>1. ASSUME IInv PROVE SelectionFollowsCursor
  <2>1. ListSizes BY <1>1, LoadedFacts DEF IInv
  <2>2. cursor \in Nat /\ (cursor < Count \/ cursor = 0)
    BY <1>1 DEF IInv, Placed
  <2>3. CASE Count = 0
    BY <1>1, <2>1, <2>2, <2>3, RowsShowComments
    DEF IInv, Loaded, ListSizes, Count, SelectionFollowsCursor
  <2>4. CASE Count # 0
    <3>1. cursor < Count BY <2>1, <2>2, <2>4 DEF ListSizes
    <3>2. IdOnRow(cursor, filtered, reviews) \in Ids
      BY <2>1, <2>2, <3>1, RowsShowComments DEF ListSizes, Count
    <3> QED BY <1>1, <2>4, <3>2, ReviewListAssumption
            DEF IInv, Loaded, SelectionFollowsCursor
  <2> QED BY <2>3, <2>4
<1> QED BY <1>1, ListInvariant, PTL

(* ReviewListComponent::view never slices past the end, and what it draws  *)
(* holds the cursor (adjust_scroll_to_cursor, calculate_list_height).      *)
THEOREM CursorSafety == Spec => []CursorOnScreen
<1>1. ASSUME IInv PROVE CursorOnScreen
  <2>1. Count \in Nat /\ visible \in Nat \ {0}
    BY <1>1, LoadedFacts DEF IInv, ListSizes
  <2>2. visible = ListHeight(Count, rows) BY <1>1 DEF IInv, Loaded
  <2> QED BY <1>1, <2>1, <2>2
          DEF IInv, Placed, CursorOnScreen, RenderedEnd, Smaller
<1> QED BY <1>1, ListInvariant, PTL

(* A sync leaves the cursor on its comment as long as that is still listed *)
(* (apply_new_reviews).                                                    *)
THEOREM SyncSafety == Spec => SyncKeepsSelection
<1> DEFINE Keeps == filter' = filter /\ reviews' # reviews
                      /\ (\E i \in filtered' : reviews'[i].id = selected)
                      => selected' = selected
<1>1. ASSUME IInv, Next PROVE Keeps
  <2>1. CASE \E S \in Snapshots : ApplyNewReviews(S)
    BY <1>1, <2>1, ApplyNewReviewsKeepsIInv
  <2>2. CASE Keys
    <3>1. reviews' = reviews
      BY <2>2 DEF Keys, MoveUp, MoveDown, Home, GoToEnd, ClearFilter,
         CycleFilter, SetFilter, OpenSummaryLink, WindowResized
    <3> QED BY <3>1
  <2> QED BY <1>1, <2>1, <2>2 DEF Next
<1>2. IInv /\ [Next]_vars => [Keeps]_vars BY <1>1
<1>3. SyncKeepsSelection <=> [][Keeps]_vars BY PTL DEF SyncKeepsSelection
<1> HIDE DEF Keeps
<1> QED BY <1>2, <1>3, ListInvariant, PTL DEF Spec

---------------------------------------------------------------------------
(* The background sync: the invariant.                                     *)

(* A fetch has read nothing before its first page, and since then only     *)
(* what the server held at some moment.                                    *)
FetchOK(f, now) ==
  /\ f \in Fetch
  /\ f.from <= now
  /\ (f.pages = 0 \/ f.from = 0)
       => (f.pages = 0 /\ f.from = 0 /\ f.got = {} /\ f.more)
  /\ \A r \in f.got : \E v \in f.from..now : r \in History[v]

(* Where GitHub lists a comment, and on which page.                        *)
PlaceAt(v, r) == Cardinality({q \in History[v] : q.id < r.id})
PageAt(v, r) == PlaceAt(v, r) \div PageSize

(* None was deleted between two versions.                                  *)
Grew(a, b) == \A v \in a..(b - 1) : IdsAt(v) \subseteq IdsAt(v + 1)

(* What there was when the fetch began is still there, on pages it has     *)
(* read or is still to read, unless something was deleted.                 *)
PagesOK(f, now) ==
  (f.from # 0 /\ Grew(f.from, now)) =>
    /\ History[f.from] \subseteq History[now]
    /\ \A r \in History[f.from] : PageAt(now, r) < f.pages => r \in f.got
    /\ ~f.more => History[f.from] \subseteq f.got

(* Fetches, timers and pages.                                              *)
LoopOK ==
  /\ initialized \in BOOLEAN /\ loading \in BOOLEAN /\ error \in BOOLEAN
  /\ timers \in Nat
  /\ server \in Versions
  /\ fetches = IF loading THEN <<fetches[1]>> ELSE <<>>
  /\ loading => (FetchOK(fetches[1], server) /\ PagesOK(fetches[1], server))
  /\ initialized => (loading \/ timers > 0)

(* The inductive invariant of the loop.                                    *)
SyncIInv ==
  /\ LoopOK
  /\ applied \in [from: Versions, to: Versions]
  /\ ListShowsApplied
  /\ MissedOnlyByDeletion

(* Versions are numbers.                                                   *)
LEMMA VersionFacts ==
  /\ Len(History) \in Nat /\ 1 \in Versions /\ Versions \subseteq Nat
<1>1. Len(History) \in Nat /\ Len(History) # 0
  BY ReviewSyncAssumption, LenProperties, EmptySeq
<1> QED BY <1>1 DEF Versions

(* from, the first version a fetch saw, is one or 0.                       *)
LEMMA FromIsNumber ==
  ASSUME NEW f \in Fetch
  PROVE  f.from \in Nat
<1>1. f.from = 0 \/ f.from \in Versions BY DEF Fetch
<1>2. CASE f.from = 0 BY <1>2
<1>3. CASE f.from \in Versions BY <1>3, VersionFacts, Zenon
<1> QED BY <1>1, <1>2, <1>3

(* Each is a snapshot, and so is any set of comments from them.            *)
LEMMA HistoryFacts ==
  /\ \A v \in Versions : Distinct(History[v])
  /\ \A S : (\A r \in S : \E v \in Versions : r \in History[v])
            => (S \in Snapshots /\ Distinct(S))
<1>1. ASSUME NEW S, \A r \in S : \E v \in Versions : r \in History[v]
      PROVE  S \in Snapshots /\ Distinct(S)
  <2>1. S \in SUBSET UNION {History[v] : v \in Versions} BY <1>1
  <2>2. S \in Snapshots BY <2>1, ReviewSyncAssumption
  <2> QED BY <2>2, ReviewListAssumption DEF Distinct
<1>2. ASSUME NEW v \in Versions PROVE Distinct(History[v])
  <2>1. \A r \in History[v] : \E w \in Versions : r \in History[w] OBVIOUS
  <2> QED BY <1>1, <2>1
<1> QED BY <1>1, <1>2

(* The one fetch there is.                                                 *)
LEMMA OneFetch ==
  ASSUME LoopOK, NEW i \in DOMAIN fetches
  PROVE  /\ i = 1 /\ loading /\ Without(i) = <<>>
         /\ FetchOK(fetches[1], server) /\ PagesOK(fetches[1], server)
<1>1. loading
  <2>1. CASE ~loading BY <2>1 DEF LoopOK
  <2> QED BY <2>1 DEF LoopOK
<1>2. fetches = <<fetches[1]>> BY <1>1 DEF LoopOK
<1>3. i = 1 /\ Len(fetches) = 1 BY <1>2
<1>4. Without(i) = <<>> BY <1>3 DEF Without
<1> QED BY <1>1, <1>3, <1>4 DEF LoopOK

---------------------------------------------------------------------------
(* The background sync: pages while comments come and go.                  *)

(* Multiplication keeps the order.                                         *)
LEMMA TimesKeepsOrder ==
  ASSUME NEW P \in Nat, NEW p \in Nat, NEW q \in Nat, p <= q
  PROVE  p * P <= P * q
OBVIOUS

(* Counting off pages: what is on none of those up to one is on the next,  *)
(* or further on.                                                          *)
LEMMA PageNumbers ==
  /\ \A a \in Nat : a \div PageSize \in Nat
  /\ \A a, b \in Nat : a <= b => a \div PageSize <= b \div PageSize
  /\ \A p \in Nat : (p * PageSize) \div PageSize = p /\ p * PageSize \in Nat
  /\ \A a, p \in Nat : p <= a \div PageSize => p * PageSize <= a
<1>1. PageSize \in Nat \ {0} BY ReviewSyncAssumption
<1>2. \A a \in Nat : a \div PageSize \in Nat BY <1>1
<1>3. ASSUME NEW a \in Nat, NEW b \in Nat, a <= b
      PROVE  a \div PageSize <= b \div PageSize
  BY <1>1, <1>3
<1>4. ASSUME NEW p \in Nat
      PROVE  (p * PageSize) \div PageSize = p /\ p * PageSize \in Nat
  BY <1>1
<1>5. ASSUME NEW a \in Nat, NEW p \in Nat, p <= a \div PageSize
      PROVE  p * PageSize <= a
  <2> DEFINE q == a \div PageSize
  <2>1. PageSize * q <= a /\ q \in Nat BY <1>1
  <2>2. p <= q BY <1>5
  <2> HIDE DEF q
  <2>3. p * PageSize <= PageSize * q BY <1>1, <2>1, <2>2, TimesKeepsOrder
  <2>4. p * PageSize \in Nat /\ PageSize * q \in Nat BY <1>1, <2>1
  <2> QED BY <2>1, <2>3, <2>4
<1> QED BY <1>2, <1>3, <1>4, <1>5

(* Places are numbers.                                                     *)
LEMMA PlacesAreNumbers ==
  ASSUME NEW v \in Versions, NEW r
  PROVE  /\ IsFiniteSet({q \in History[v] : q.id < r.id})
         /\ PlaceAt(v, r) \in Nat /\ PageAt(v, r) \in Nat
<1>1. IsFiniteSet(History[v]) BY HistoryFacts DEF Distinct
<1>2. {q \in History[v] : q.id < r.id} \in SUBSET History[v] OBVIOUS
<1>3. IsFiniteSet({q \in History[v] : q.id < r.id})
  BY <1>1, <1>2, FS_Subset
<1>4. PlaceAt(v, r) \in Nat BY <1>3, FS_CardinalityType DEF PlaceAt
<1> QED BY <1>3, <1>4, PageNumbers DEF PageAt

(* A page that is empty has none but empty pages behind it: there is no    *)
(* gap in the listing.                                                     *)
LEMMA NothingBehindEmptyPage ==
  ASSUME NEW v \in Versions, NEW p \in Nat, PageOf(History[v], p) = {},
         NEW r \in History[v]
  PROVE  PageAt(v, r) < p
<1> DEFINE S == History[v]
           R == {pair \in S \X S : pair[1].id < pair[2].id}
<1>1. Distinct(S) BY HistoryFacts
<1>2. IsOrder(S, R)
  <2>1. \A q \in S : q.id \in Nat
    BY <1>1, ReviewListAssumption DEF Distinct, Review
  <2>2. \A q, t \in S : q.id = t.id => q = t BY <1>1 DEF Distinct
  <2> QED BY <2>1, <2>2 DEF IsOrder
<1>3. \A q \in S : Rank(S, R, q) = PlaceAt(v, q)
  <2>1. \A q \in S : {t \in S : <<t, q>> \in R} = {t \in S : t.id < q.id}
    OBVIOUS
  <2> QED BY <2>1 DEF Rank, PlaceAt
<1>4. SUFFICES ASSUME ~(PageAt(v, r) < p) PROVE FALSE OBVIOUS
<1>5. PlaceAt(v, r) \in Nat /\ p <= PageAt(v, r)
  <2>1. PlaceAt(v, r) \in Nat /\ PageAt(v, r) \in Nat BY PlacesAreNumbers
  <2> QED BY <1>4, <2>1
<1>6. p * PageSize \in Nat /\ p * PageSize <= PlaceAt(v, r)
  BY <1>5, PageNumbers DEF PageAt
<1>7. PlaceAt(v, r) <= Cardinality(S) - 1 /\ Cardinality(S) \in Nat
  <2>1. [q \in S |-> Rank(S, R, q)] \in Injection(S, 0..(Cardinality(S) - 1))
    <3> HIDE DEF R, S
    <3> QED BY <1>1, <1>2, RanksAreRows DEF Distinct
  <2>2. Rank(S, R, r) \in 0..(Cardinality(S) - 1)
    <3> HIDE DEF R
    <3> QED BY <2>1 DEF Injection
  <2>3. Cardinality(S) \in Nat BY <1>1, FS_CardinalityType DEF Distinct
  <2> QED BY <1>3, <2>2, <2>3
<1>8. PICK q \in S : Rank(S, R, q) = p * PageSize
  <2>1. p * PageSize \in 0..(Cardinality(S) - 1) BY <1>5, <1>6, <1>7
  <2> HIDE DEF R, S
  <2> QED BY <1>1, <1>2, <2>1, EveryRowIsTaken DEF Distinct
<1>9. PlaceAt(v, q) \div PageSize = p BY <1>3, <1>8, PageNumbers
<1> QED BY <1>9 DEF PageOf, PlaceAt

(* A page more.                                                            *)
LEMMA PageKeepsPagesOK ==
  ASSUME NEW now \in Versions, NEW f, FetchOK(f, now), PagesOK(f, now),
         NEW g,
         g = [from |-> IF f.pages = 0 THEN now ELSE f.from,
              pages |-> f.pages + 1,
              got |-> f.got \cup PageOf(History[now], f.pages),
              more |-> PageOf(History[now], f.pages + 1) # {}]
  PROVE  PagesOK(g, now)
<1> SUFFICES ASSUME g.from # 0, Grew(g.from, now)
             PROVE  /\ History[g.from] \subseteq History[now]
                    /\ \A r \in History[g.from] :
                         PageAt(now, r) < g.pages => r \in g.got
                    /\ ~g.more => History[g.from] \subseteq g.got
  BY DEF PagesOK
<1>1. f.pages \in Nat /\ f \in Fetch BY DEF FetchOK, Fetch
<1>2. History[g.from] \subseteq History[now]
  <2>1. CASE f.pages = 0 BY <2>1
  <2>2. CASE f.pages # 0 BY <2>2 DEF PagesOK
  <2> QED BY <2>1, <2>2
<1>3. ASSUME NEW r \in History[g.from], PageAt(now, r) < g.pages
      PROVE  r \in g.got
  <2>1. PageAt(now, r) \in Nat BY PlacesAreNumbers
  <2>2. PageAt(now, r) < f.pages \/ PageAt(now, r) = f.pages
    BY <1>1, <1>3, <2>1
  <2>3. CASE PageAt(now, r) = f.pages
    <3>1. r \in PageOf(History[now], f.pages)
      BY <1>2, <2>3 DEF PageOf, PageAt, PlaceAt
    <3> QED BY <3>1
  <2>4. CASE PageAt(now, r) < f.pages
    <3>1. f.pages # 0 BY <1>1, <2>1, <2>4
    <3>2. r \in f.got BY <2>4, <3>1 DEF PagesOK
    <3> QED BY <3>2
  <2> QED BY <2>2, <2>3, <2>4
<1>4. ASSUME ~g.more PROVE History[g.from] \subseteq g.got
  <2>1. PageOf(History[now], f.pages + 1) = {} /\ g.pages = f.pages + 1
    BY <1>4
  <2>2. ASSUME NEW r \in History[g.from] PROVE r \in g.got
    <3>1. f.pages + 1 \in Nat /\ r \in History[now] BY <1>1, <1>2
    <3>2. PageAt(now, r) < f.pages + 1
      BY <2>1, <3>1, NothingBehindEmptyPage
    <3> QED BY <1>3, <2>1, <3>2
  <2> QED BY <2>2
<1> QED BY <1>2, <1>3, <1>4

(* A version more: without deletions, comments only move to later pages.   *)
LEMMA VersionKeepsPagesOK ==
  ASSUME NEW now \in Versions, now + 1 \in Versions, NEW f,
         FetchOK(f, now), PagesOK(f, now)
  PROVE  PagesOK(f, now + 1)
<1> SUFFICES ASSUME f.from # 0, Grew(f.from, now + 1)
             PROVE  /\ History[f.from] \subseteq History[now + 1]
                    /\ \A r \in History[f.from] :
                         PageAt(now + 1, r) < f.pages => r \in f.got
                    /\ ~f.more => History[f.from] \subseteq f.got
  BY DEF PagesOK
<1>1. now \in Nat /\ f.from \in Nat /\ f.from <= now /\ f.pages \in Nat
  <2>1. f \in Fetch /\ f.from <= now BY DEF FetchOK
  <2>2. f.pages \in Nat BY <2>1 DEF Fetch
  <2> QED BY <2>1, <2>2, FromIsNumber, VersionFacts
<1>2. Grew(f.from, now)
  <2>1. f.from..(now - 1) \subseteq f.from..((now + 1) - 1) BY <1>1
  <2> QED BY <2>1 DEF Grew
<1>3. IdsAt(now) \subseteq IdsAt(now + 1)
  <2>1. now \in f.from..((now + 1) - 1) BY <1>1
  <2> QED BY <2>1 DEF Grew
<1>4. History[now] \subseteq History[now + 1]
  <2> DEFINE both == History[now] \cup History[now + 1]
  <2>1. Distinct(both)
    <3>1. \A r \in both : \E v \in Versions : r \in History[v] OBVIOUS
    <3> HIDE DEF both
    <3> QED BY <3>1, HistoryFacts
  <2>2. ASSUME NEW r \in History[now] PROVE r \in History[now + 1]
    <3>1. PICK q \in History[now + 1] : q.id = r.id
      BY <1>3 DEF IdsAt
    <3>2. q = r BY <2>1, <3>1 DEF Distinct
    <3> QED BY <3>1, <3>2
  <2> QED BY <2>2
<1>5. ASSUME NEW r \in History[f.from], PageAt(now + 1, r) < f.pages
      PROVE  r \in f.got
  <2> DEFINE A == {q \in History[now] : q.id < r.id}
             B == {q \in History[now + 1] : q.id < r.id}
  <2>1. A \in SUBSET B BY <1>4
  <2>2. IsFiniteSet(B) BY PlacesAreNumbers
  <2>3. Cardinality(A) <= Cardinality(B)
    <3> HIDE DEF A, B
    <3> QED BY <2>1, <2>2, FS_Subset
  <2>4. PlaceAt(now, r) <= PlaceAt(now + 1, r) BY <2>3 DEF PlaceAt
  <2>5. PlaceAt(now, r) \in Nat /\ PlaceAt(now + 1, r) \in Nat
        /\ PageAt(now, r) \in Nat /\ PageAt(now + 1, r) \in Nat
    BY PlacesAreNumbers
  <2>6. PageAt(now, r) <= PageAt(now + 1, r)
    BY <2>4, <2>5, PageNumbers DEF PageAt
  <2>7. PageAt(now, r) < f.pages BY <1>1, <1>5, <2>5, <2>6
  <2> QED BY <1>2, <2>7 DEF PagesOK
<1> QED BY <1>2, <1>4, <1>5 DEF PagesOK

(* A list holds nothing but comments of what it was made from.             *)
LEMMA OrdersAreOf ==
  ASSUME NEW S, NEW list \in Orders(S), NEW j \in DOMAIN list
  PROVE  list[j] \in S
BY DEF Orders

(* And all of them.                                                        *)
LEMMA OrdersMissNothing ==
  ASSUME NEW S, Distinct(S), NEW list \in Orders(S), NEW r \in S
  PROVE  \E i \in DOMAIN list : list[i] = r
<1> DEFINE D == 1..Cardinality(S)
<1>1. Cardinality(S) \in Nat /\ IsFiniteSet(S)
  BY FS_CardinalityType DEF Distinct
<1>2. Cardinality(D) = Cardinality(S) BY <1>1, FS_Interval
<1>3. list \in [D -> S] /\ \A i, j \in D : list[i] = list[j] => i = j
  BY DEF Orders
<1> HIDE DEF D
<1>4. list \in Injection(D, S) BY <1>3 DEF Injection, IsInjective
<1>5. list \in Surjection(D, S) BY <1>1, <1>2, <1>4, FS_Injection
<1> QED BY <1>3, <1>5 DEF Surjection

---------------------------------------------------------------------------
(* The background sync: the steps.                                         *)

(* A fetch that has not read anything yet.                                 *)
LEMMA NewFetchOK ==
  ASSUME server \in Versions
  PROVE  FetchOK(NewFetch, server) /\ PagesOK(NewFetch, server)
<1>1. server \in Nat BY VersionFacts
<1>2. FetchOK(NewFetch, server) BY <1>1 DEF FetchOK, NewFetch, Fetch
<1>3. PagesOK(NewFetch, server) BY DEF PagesOK, NewFetch
<1> QED BY <1>2, <1>3

(* start_sync: nothing but a timer while a fetch is under way.             *)
LEMMA StartSyncKeepsLoop ==
  ASSUME LoopOK, NEW left \in Nat, StartSync(left), server' = server,
         initialized' = initialized
  PROVE  LoopOK'
<1>1. CASE loading
  <2>1. /\ timers' = left + 1 /\ loading' = loading /\ error' = error
        /\ fetches' = fetches
    BY <1>1 DEF StartSync
  <2> QED BY <1>1, <2>1 DEF LoopOK
<1>2. CASE ~loading
  <2>1. fetches = <<>> BY <1>2 DEF LoopOK
  <2>2. fetches' = <<NewFetch>> BY <1>2, <2>1 DEF StartSync
  <2>3. fetches' = <<fetches'[1]>> /\ fetches'[1] = NewFetch BY <2>2
  <2>4. FetchOK(fetches'[1], server') /\ PagesOK(fetches'[1], server')
    BY <2>3, NewFetchOK DEF LoopOK
  <2>5. loading' /\ loading' \in BOOLEAN /\ ~error' /\ error' \in BOOLEAN
        /\ timers' \in Nat
    BY <1>2 DEF StartSync
  <2> QED BY <2>3, <2>4, <2>5 DEF LoopOK
<1> QED BY <1>1, <1>2 DEF LoopOK

(* A page belongs to the version it was read in.                           *)
LEMMA FetchReadsKeepsLoop ==
  ASSUME LoopOK, NEW i \in DOMAIN fetches, FetchReads(i)
  PROVE  LoopOK' /\ UNCHANGED <<reviews, applied>>
<1> DEFINE f == fetches[1]
           page == PageOf(History[server], f.pages)
           g == [from |-> IF f.pages = 0 THEN server ELSE f.from,
                 pages |-> f.pages + 1,
                 got |-> f.got \cup page,
                 more |-> PageOf(History[server], f.pages + 1) # {}]
<1>1. i = 1 /\ loading /\ FetchOK(f, server) BY OneFetch
<1>2. fetches = <<f>> BY <1>1 DEF LoopOK
<1>3. fetches' = [fetches EXCEPT ![1] = g] BY <1>1 DEF FetchReads
<1>4. fetches' = <<g>>
  <2> HIDE DEF f, g
  <2> QED BY <1>2, <1>3
<1>5. server \in Versions /\ server \in Nat BY VersionFacts DEF LoopOK
<1>6. page \subseteq History[server] BY DEF PageOf
<1>7. History[server] \subseteq Review BY <1>5, HistoryFacts DEF Distinct
<1>8. f \in Fetch BY <1>1 DEF FetchOK
<1>9. g \in Fetch
  <2> HIDE DEF f, page
  <2> QED BY <1>5, <1>6, <1>7, <1>8 DEF Fetch
<1>10. ASSUME NEW r \in g.got
       PROVE  \E v \in g.from..server : r \in History[v]
  <2>1. g.from \in Nat /\ g.from <= server
    <3>1. f.from \in Nat /\ f.from <= server
      BY <1>1, <1>8, FromIsNumber DEF FetchOK
    <3> HIDE DEF f, page
    <3> QED BY <1>5, <3>1
  <2>2. CASE r \in page
    <3>1. server \in g.from..server BY <1>5, <2>1
    <3> QED BY <1>6, <2>2, <3>1
  <2>3. CASE r \in f.got
    <3>1. f.pages # 0 BY <1>1, <2>3 DEF FetchOK
    <3>2. g.from = f.from BY <3>1
    <3> QED BY <1>1, <2>3, <3>2 DEF FetchOK
  <2> QED BY <1>10, <2>2, <2>3
<1>11. g.from # 0 /\ g.pages # 0 /\ g.from <= server
  <2>1. f.pages \in Nat BY <1>8 DEF Fetch
  <2>2. server # 0 BY <1>5 DEF Versions
  <2> HIDE DEF f, page
  <2> QED BY <1>1, <1>5, <2>1, <2>2 DEF FetchOK
<1>12. FetchOK(g, server)
  <2> HIDE DEF g
  <2> QED BY <1>9, <1>10, <1>11 DEF FetchOK
<1>13. PagesOK(g, server)
  <2>1. PagesOK(f, server) BY OneFetch
  <2> QED BY <1>1, <1>5, <2>1, PageKeepsPagesOK
<1>14. UNCHANGED <<initialized, loading, timers, error, server, reviews,
                   applied>>
  BY DEF FetchReads, listVars, vars
<1> HIDE DEF f, g
<1>15. /\ FetchOK(fetches'[1], server') /\ PagesOK(fetches'[1], server')
       /\ fetches' = <<fetches'[1]>>
  BY <1>4, <1>12, <1>13, <1>14
<1>16. LoopOK' BY <1>1, <1>14, <1>15 DEF LoopOK
<1> QED BY <1>14, <1>16

(* Whether it succeeds or fails, the end of a fetch arms a timer.          *)
LEMMA EndKeepsLoop ==
  ASSUME LoopOK, fetches' = <<>>, loading' = FALSE, error' \in BOOLEAN,
         timers' = timers + 1, UNCHANGED <<initialized, server>>
  PROVE  LoopOK'
<1>1. timers' \in Nat /\ timers' > 0 BY DEF LoopOK
<1>2. initialized' \in BOOLEAN /\ loading' \in BOOLEAN /\ server' \in Versions
  BY DEF LoopOK
<1> QED BY <1>1, <1>2 DEF LoopOK

(* What a complete fetch brings is a snapshot; it is over then, and a      *)
(* timer armed.                                                            *)
LEMMA SyncCompleteKeepsLoop ==
  ASSUME LoopOK, NEW i \in DOMAIN fetches, SyncComplete(i)
  PROVE  /\ LoopOK' /\ applied' \in [from: Versions, to: Versions]
         /\ fetches[i].got \in Snapshots
         /\ ListShowsApplied' /\ MissedOnlyByDeletion'
<1> DEFINE f == fetches[1]
<1>1. i = 1 /\ Without(i) = <<>> /\ FetchOK(f, server) BY OneFetch
<1>2. LoopOK' BY <1>1, EndKeepsLoop DEF SyncComplete
<1>3. server \in Versions BY DEF LoopOK
<1>4. f.from \in Versions /\ f.from <= server
      /\ \A r \in f.got : \E v \in f.from..server : r \in History[v]
  BY <1>1 DEF SyncComplete, FetchOK, Fetch
<1>5. applied' = [from |-> f.from, to |-> server]
  BY <1>1 DEF SyncComplete
<1>6. f.got \in Snapshots /\ Distinct(f.got)
  <2>1. f.from..server \subseteq Versions
    BY <1>3, <1>4, VersionFacts DEF Versions
  <2>2. \A r \in f.got : \E v \in Versions : r \in History[v]
    BY <1>4, <2>1
  <2> HIDE DEF f
  <2> QED BY <2>2, HistoryFacts
<1>7. reviews' \in Orders(f.got)
  <2>1. reviews' = MergeReviews(f.got)
    BY <1>1 DEF SyncComplete, ApplyNewReviews
  <2> HIDE DEF f
  <2>2. MergeReviews(f.got) \in Orders(f.got) BY <1>6, MergeIsOrder
  <2> QED BY <2>1, <2>2
<1>8. applied'.from = f.from /\ applied'.to = server BY <1>5
<1>9. ListShowsApplied'
  <2> HIDE DEF f
  <2>1. \A j \in DOMAIN reviews' : reviews'[j] \in f.got
    BY <1>7, OrdersAreOf
  <2> QED BY <1>4, <1>8, <2>1 DEF ListShowsApplied
<1>10. MissedOnlyByDeletion'
  <2>1. SUFFICES ASSUME Grew(f.from, server)
                 PROVE  IdsAt(f.from) \subseteq
                          {reviews'[j].id : j \in DOMAIN reviews'}
    BY <1>8 DEF MissedOnlyByDeletion, Grew, IdsAt
  <2>2. f.from # 0 BY <1>4 DEF Versions
  <2>3. ~f.more /\ PagesOK(f, server) BY <1>1, OneFetch DEF SyncComplete
  <2>4. History[f.from] \subseteq f.got BY <2>1, <2>2, <2>3 DEF PagesOK
  <2>5. ASSUME NEW r \in History[f.from]
        PROVE  \E j \in DOMAIN reviews' : reviews'[j].id = r.id
    <3>1. r \in f.got BY <2>4
    <3>2. \E j \in DOMAIN reviews' : reviews'[j] = r
      <4> HIDE DEF f
      <4> QED BY <1>6, <1>7, <3>1, OrdersMissNothing
    <3> QED BY <3>2
  <2> QED BY <2>5 DEF IdsAt
<1> QED BY <1>1, <1>2, <1>3, <1>4, <1>5, <1>6, <1>9, <1>10

(* A failure ends the fetch and arms a timer as well.                      *)
LEMMA RefreshFailedKeepsLoop ==
  ASSUME LoopOK, NEW i \in DOMAIN fetches, RefreshFailed(i)
  PROVE  LoopOK'
<1>1. Without(i) = <<>> BY OneFetch
<1>2. error' \in BOOLEAN BY DEF RefreshFailed
<1> QED BY <1>1, <1>2, EndKeepsLoop DEF RefreshFailed

(* What changes on the server does not reach back into a fetch.            *)
LEMMA ServerChangesKeepsLoop ==
  ASSUME LoopOK, ServerChanges
  PROVE  LoopOK'
<1>1. server \in Nat /\ server' = server + 1 /\ server' \in Versions
  BY VersionFacts DEF LoopOK, ServerChanges, Versions
<1>2. ASSUME NEW f, FetchOK(f, server) PROVE FetchOK(f, server')
  <2>1. f.from \in Nat BY <1>2, FromIsNumber DEF FetchOK
  <2>2. f.from..server \subseteq f.from..server' BY <1>1, <2>1
  <2>3. f.from <= server' BY <1>1, <1>2, <2>1 DEF FetchOK
  <2>4. \A r \in f.got : \E v \in f.from..server' : r \in History[v]
    BY <1>2, <2>2 DEF FetchOK
  <2> QED BY <1>2, <2>3, <2>4 DEF FetchOK
<1>3. UNCHANGED loopVars BY DEF ServerChanges
<1>4. ASSUME loading
      PROVE  FetchOK(fetches[1], server') /\ PagesOK(fetches[1], server')
  <2>1. /\ FetchOK(fetches[1], server) /\ PagesOK(fetches[1], server)
        /\ server \in Versions
    BY <1>4 DEF LoopOK
  <2>2. PagesOK(fetches[1], server + 1)
    BY <1>1, <2>1, VersionKeepsPagesOK
  <2> QED BY <1>1, <1>2, <2>1, <2>2
<1> QED BY <1>1, <1>3, <1>4 DEF LoopOK, loopVars

---------------------------------------------------------------------------
(* The background sync: the theorems.                                      *)

(* Keys change neither the loop nor which comments there are.              *)
LEMMA KeysKeepReviews ==
  ASSUME Keys
  PROVE  reviews' = reviews
BY DEF Keys, MoveUp, MoveDown, Home, GoToEnd, ClearFilter, CycleFilter,
   SetFilter, OpenSummaryLink, WindowResized

(* The loop starts with the comments of the first version.                 *)
LEMMA InitSyncIInv ==
  ASSUME SyncInit
  PROVE  SyncIInv
<1>1. 1 \in Versions BY VersionFacts
<1>2. LoopOK BY <1>1 DEF SyncInit, LoopOK
<1>3. applied = [from |-> 1, to |-> 1] BY DEF SyncInit
<1>4. \A j \in DOMAIN reviews : reviews[j] \in History[1]
  BY DEF SyncInit, Orders
<1>5. ListShowsApplied
  <2>1. 1 \in applied.from..applied.to BY <1>3
  <2> QED BY <1>4, <2>1 DEF ListShowsApplied
<1>6. MissedOnlyByDeletion
  <2>1. Distinct(History[1]) /\ reviews \in Orders(History[1])
    BY <1>1, HistoryFacts DEF SyncInit
  <2>2. \A r \in History[1] : \E j \in DOMAIN reviews : reviews[j] = r
    BY <2>1, OrdersMissNothing
  <2> QED BY <1>3, <2>2 DEF MissedOnlyByDeletion, IdsAt
<1> QED BY <1>1, <1>2, <1>3, <1>5, <1>6 DEF SyncIInv

(* Every step of the loop keeps its invariant, and is a step of the list,  *)
(* or leaves it alone.                                                     *)
LEMMA NextKeepsSyncIInv ==
  ASSUME SyncIInv, [SyncNext]_syncVars
  PROVE  SyncIInv' /\ [Next]_vars
<1> USE DEF SyncIInv
<1>1. ASSUME LoopOK', UNCHANGED <<vars, applied>>
      PROVE  SyncIInv' /\ [Next]_vars
  BY <1>1 DEF vars, ListShowsApplied, MissedOnlyByDeletion
<1>2. CASE Initialized
  <2>1. LoopOK' BY <1>2 DEF Initialized, LoopOK
  <2> QED BY <1>1, <1>2, <2>1 DEF Initialized, listVars
<1>3. CASE SyncTick
  <2>1. timers - 1 \in Nat BY <1>3 DEF SyncTick, LoopOK
  <2>2. LoopOK' BY <1>3, <2>1, StartSyncKeepsLoop DEF SyncTick
  <2> QED BY <1>1, <1>3, <2>2 DEF SyncTick, listVars
<1>4. CASE RefreshRequested
  <2>1. timers \in Nat BY DEF LoopOK
  <2>2. LoopOK' BY <1>4, <2>1, StartSyncKeepsLoop DEF RefreshRequested
  <2> QED BY <1>1, <1>4, <2>2 DEF RefreshRequested, listVars
<1>5. ASSUME NEW i \in DOMAIN fetches, FetchReads(i)
      PROVE  SyncIInv' /\ [Next]_vars
  <2>1. LoopOK' BY <1>5, FetchReadsKeepsLoop
  <2> QED BY <1>1, <1>5, <2>1 DEF FetchReads, listVars
<1>6. ASSUME NEW i \in DOMAIN fetches, SyncComplete(i)
      PROVE  SyncIInv' /\ [Next]_vars
  <2>1. /\ LoopOK' /\ applied' \in [from: Versions, to: Versions]
        /\ fetches[i].got \in Snapshots /\ ListShowsApplied'
        /\ MissedOnlyByDeletion'
    BY <1>6, SyncCompleteKeepsLoop
  <2>2. ApplyNewReviews(fetches[i].got) BY <1>6 DEF SyncComplete
  <2> QED BY <2>1, <2>2 DEF Next
<1>7. ASSUME NEW i \in DOMAIN fetches, RefreshFailed(i)
      PROVE  SyncIInv' /\ [Next]_vars
  <2>1. LoopOK' BY <1>7, RefreshFailedKeepsLoop
  <2> QED BY <1>1, <1>7, <2>1 DEF RefreshFailed, listVars
<1>8. CASE ServerChanges
  <2>1. LoopOK' BY <1>8, ServerChangesKeepsLoop
  <2> QED BY <1>1, <1>8, <2>1 DEF ServerChanges, listVars
<1>9. CASE ListKeys
  <2>1. Keys /\ UNCHANGED <<loopVars, server, applied>>
    BY <1>9 DEF ListKeys
  <2>2. LoopOK' BY <2>1 DEF LoopOK, loopVars
  <2>3. reviews' = reviews BY <2>1, KeysKeepReviews
  <2>4. ListShowsApplied' BY <2>1, <2>3 DEF ListShowsApplied
  <2>5. MissedOnlyByDeletion'
    BY <2>1, <2>3 DEF MissedOnlyByDeletion
  <2> QED BY <2>1, <2>2, <2>4, <2>5 DEF Next
<1>10. CASE UNCHANGED syncVars
  <2>1. LoopOK' /\ UNCHANGED <<vars, applied>>
    BY <1>10 DEF syncVars, listVars, loopVars, LoopOK
  <2> QED BY <1>1, <2>1
<1> QED BY <1>2, <1>3, <1>4, <1>5, <1>6, <1>7, <1>8, <1>9, <1>10 DEF SyncNext

(* The loop's invariant, for every history, page size and terminal.        *)
THEOREM SyncInvariant == SyncSpec => []SyncIInv
<1>1. SyncInit => SyncIInv BY InitSyncIInv
<1>2. SyncIInv /\ [SyncNext]_syncVars => SyncIInv' BY NextKeepsSyncIInv
<1> QED BY <1>1, <1>2, PTL DEF SyncSpec

(* At most one fetch is under way, the loading indicator says whether one  *)
(* is, and the loop has it or a timer to go on with (start_sync, its       *)
(* completion and failure).                                                *)
THEOREM LoopSafety == SyncSpec => []OneFetchAtATime
<1>1. ASSUME SyncIInv PROVE OneFetchAtATime
  <2>1. Len(fetches) = IF loading THEN 1 ELSE 0
    BY <1>1 DEF SyncIInv, LoopOK
  <2>2. loading \in BOOLEAN /\ timers \in Nat
        /\ (initialized => (loading \/ timers > 0))
    BY <1>1 DEF SyncIInv, LoopOK
  <2>3. ASSUME initialized PROVE timers + Len(fetches) > 0
    <3>1. CASE loading BY <2>1, <2>2, <3>1
    <3>2. CASE ~loading BY <2>1, <2>2, <2>3, <3>2
    <3> QED BY <3>1, <3>2
  <2> QED BY <2>1, <2>3 DEF OneFetchAtATime
<1> QED BY <1>1, SyncInvariant, PTL

(* Every comment listed was on the server at some moment of the fetch it   *)
(* came with (fetch_review_comments, merge_reviews).                       *)
THEOREM ListedSafety == SyncSpec => []ListShowsApplied
<1>1. SyncIInv => ListShowsApplied BY DEF SyncIInv
<1> QED BY <1>1, SyncInvariant, PTL

(* Whatever the page size and the moments its pages are read at, a fetch   *)
(* misses a comment that was there throughout only if another was deleted  *)
(* (fetch_review_comments; GitHub lists by position).                      *)
THEOREM PagingSafety == SyncSpec => []MissedOnlyByDeletion
<1>1. SyncIInv => MissedOnlyByDeletion BY DEF SyncIInv
<1> QED BY <1>1, SyncInvariant, PTL

(* The synced list behaves as the list alone: every step of the loop is    *)
(* one of its operations or leaves it alone.                               *)
THEOREM ListBehaviour == SyncSpec => Spec
<1>1. SyncInit => Init BY DEF SyncInit
<1>2. SyncIInv /\ [SyncNext]_syncVars => [Next]_vars BY NextKeepsSyncIInv
<1> QED BY <1>1, <1>2, SyncInvariant, PTL DEF Spec, SyncSpec

(* Under syncs, too, the tracked id is that of the comment under the       *)
(* cursor, and the row of the cursor is drawn.                             *)
THEOREM SyncedListSafety ==
  SyncSpec => [](SelectionFollowsCursor /\ CursorOnScreen)
BY ListBehaviour, SelectionSafety, CursorSafety, PTL

(* Every variable of the loop and of the list keeps its type.              *)
THEOREM SyncTypeCorrect == SyncSpec => []SyncTypeOK
<1>1. ASSUME SyncIInv, TypeOK PROVE SyncTypeOK
  <2>1. fetches \in Seq(Fetch)
    <3>1. CASE loading
      <4>1. LoopOK /\ FetchOK(fetches[1], server)
        BY <1>1, <3>1 DEF SyncIInv, LoopOK
      <4>2. PICK f \in Fetch : fetches = <<f>>
        BY <3>1, <4>1 DEF LoopOK, FetchOK
      <4> QED BY <4>2
    <3>2. CASE ~loading
      <4>1. fetches = <<>> BY <1>1, <3>2 DEF SyncIInv, LoopOK
      <4> QED BY <4>1
    <3> QED BY <3>1, <3>2
  <2> QED BY <1>1, <2>1 DEF SyncIInv, LoopOK, SyncTypeOK
<1>2. Spec => []TypeOK BY ListTypeCorrect
<1> QED BY <1>1, <1>2, ListBehaviour, SyncInvariant, PTL

(* The loop implements ReviewList: what List names is, definition by       *)
(* definition, what ListBehaviour is about.                                *)
THEOREM ListRefined == SyncSpec => ImplementsReviewList
<1>0. \A S : List!Cardinality(S) = Cardinality(S)
  BY DEF List!Cardinality, Cardinality
<1>1. /\ \A a, b : List!Larger(a, b) = Larger(a, b)
      /\ \A a, b : List!Smaller(a, b) = Smaller(a, b)
      /\ \A a, b : List!Minus(a, b) = Minus(a, b)
  BY DEF List!Larger, List!Smaller, List!Minus, Larger, Smaller, Minus
<1>2. \A count, height :
        List!ListHeight(count, height) = ListHeight(count, height)
  BY <1>1 DEF List!ListHeight, ListHeight
<1>3. /\ List!AllFilter = AllFilter /\ List!Unresolved = Unresolved
      /\ List!Filters = Filters /\ List!Count = Count
  BY <1>0 DEF List!AllFilter, List!Unresolved, List!Filters, List!Count,
     AllFilter, Unresolved, Filters, Count
<1>4. \A S : List!Orders(S) = Orders(S) BY <1>0 DEF List!Orders, Orders
<1>5. Init <=> List!Init
  BY <1>2, <1>3, <1>4 DEF Init, List!Init
<1>6. \A f, list : List!Matching(f, list) = Matching(f, list)
  BY DEF List!Matching, Matching, List!Matches, Matches
<1>7. \A i, cache : List!RowOf(i, cache) = RowOf(i, cache)
  BY <1>0 DEF List!RowOf, RowOf
<1>8. \A row, cache, list :
        List!IdOnRow(row, cache, list) = IdOnRow(row, cache, list)
  BY <1>7 DEF List!IdOnRow, IdOnRow
<1>9. \A row, from, height :
        List!ScrollTo(row, from, height) = ScrollTo(row, from, height)
  BY <1>1 DEF List!ScrollTo, ScrollTo
<1>10. \A n, count : /\ List!ClampedCursor(n, count) = ClampedCursor(n, count)
                     /\ List!ClampedScroll(n, count) = ClampedScroll(n, count)
  BY <1>1 DEF List!ClampedCursor, ClampedCursor, List!ClampedScroll,
              ClampedScroll
<1>11. \A S : List!MergeReviews(S) = MergeReviews(S)
  BY DEF List!MergeReviews, MergeReviews, List!Cardinality, Cardinality
<1>12. \A row, first : List!Place(row, first) <=> Place(row, first)
  BY <1>8, <1>9 DEF List!Place, Place
<1>13. \A f, list : List!Rebuild(f, list) <=> Rebuild(f, list)
  BY <1>0, <1>2, <1>6 DEF List!Rebuild, Rebuild
<1>14. \A step : /\ List!MoveUp(step) <=> MoveUp(step)
                 /\ List!MoveDown(step) <=> MoveDown(step)
  BY <1>1, <1>3, <1>12 DEF List!MoveUp, List!MoveDown, MoveUp, MoveDown
<1>15. (List!Home <=> Home) /\ (List!GoToEnd <=> GoToEnd)
  BY <1>1, <1>3, <1>12 DEF List!Home, List!GoToEnd, Home, GoToEnd
<1>16. \A f : List!SetFilter(f) <=> SetFilter(f)
  BY <1>0, <1>10, <1>12, <1>13 DEF List!SetFilter, SetFilter
<1>17. \A id : List!OpenSummaryLink(id) <=> OpenSummaryLink(id)
  BY <1>0, <1>3, <1>7, <1>10, <1>12, <1>13
  DEF List!OpenSummaryLink, OpenSummaryLink
<1>18. \A height : List!WindowResized(height) <=> WindowResized(height)
  BY <1>2, <1>3, <1>9 DEF List!WindowResized, WindowResized
<1>19. \A S : List!ApplyNewReviews(S) <=> ApplyNewReviews(S)
  BY <1>0, <1>7, <1>10, <1>11, <1>12, <1>13
  DEF List!ApplyNewReviews, ApplyNewReviews
<1>20. List!Keys <=> Keys
  BY <1>3, <1>14, <1>15, <1>16, <1>17, <1>18
  DEF List!Keys, Keys, List!ClearFilter, ClearFilter, List!CycleFilter,
      CycleFilter
<1>21. [Next]_vars <=> [List!Next]_(List!vars)
  BY <1>19, <1>20 DEF List!Next, Next, List!vars, vars
<1> QED BY <1>5, <1>21, ListBehaviour, PTL DEF Spec, List!Spec,
        ImplementsReviewList

---------------------------------------------------------------------------
(* The keyboard: keys and messages.                                        *)

(* view_mode.                                                              *)
Views == {"ReviewList", "DiffContext", "TimeTravel", "PrDiscussionSummary"}

(* Where the list has the keyboard.                                        *)
ListHasKeys ==
  ~help /\ ~prompt /\ view = "ReviewList" /\ (draft = None \/ draft # Current)

(* No message of a draft or of the prompt reaches the list.                *)
LEMMA DraftMessages ==
  /\ \A binding \in ReplyDraftKeys : Category(binding[2]) = "ReplyDraft"
  /\ \A binding \in ResumePromptKeys :
       /\ Category(binding[2]) \in {"Codex", "Lifecycle"}
       /\ binding[2] # "EscapePressed"
<1>1. ASSUME NEW binding \in ReplyDraftKeys
      PROVE  Category(binding[2]) = "ReplyDraft"
  <2>1. binding[2] \in {"ReplyDraftRequestSend", "ReplyDraftBackspace",
                        "ReplyDraftCancel", "ReplyDraftRequestAiRewrite",
                        "ReplyDraftAiApply", "ReplyDraftAiDiscard",
                        "ReplyDraftInsertTemplate", "ReplyDraftInsertChar"}
    BY DEF ReplyDraftKeys
  <2> QED
    BY <2>1 DEF Category
<1>2. ASSUME NEW binding \in ResumePromptKeys
      PROVE  /\ Category(binding[2]) \in {"Codex", "Lifecycle"}
             /\ binding[2] # "EscapePressed"
  BY DEF ResumePromptKeys, Category
<1> QED
  BY <1>1, <1>2

(* The link of the summary is opened from the summary only.                *)
LEMMA LinkMessages ==
  ASSUME NEW context \in DOMAIN KeysOf, NEW binding \in KeysOf[context],
         binding[2] = "OpenSelectedPrDiscussionSummaryLink"
  PROVE  context = "PrDiscussionSummary"
<1>1. \A b \in SharedKeys : b[2] # "OpenSelectedPrDiscussionSummaryLink"
  BY DEF SharedKeys
<1>2. /\ binding \notin ReviewListKeys /\ binding \notin TimeTravelKeys
      /\ binding \notin DiffContextKeys
  BY <1>1 DEF ReviewListKeys, TimeTravelKeys, DiffContextKeys, WithShared
<1>3. binding \notin ResumePromptKeys
  BY DEF ResumePromptKeys
<1>4. binding \notin ReplyDraftKeys
  BY DEF ReplyDraftKeys
<1>5. context \in {"ReviewList", "ReplyDraft", "TimeTravel", "DiffContext",
                   "PrDiscussionSummary", "ResumePrompt"}
  BY DEF KeysOf
<1> QED
  BY <1>2, <1>3, <1>4, <1>5 DEF KeysOf

(* Where a message that moves the list is let through.                     *)
LEMMA RoutesToList ==
  ASSUME view \in Views, NEW msg,
         Route(msg) \in {"Navigation", "Filter", "ClearFilter"}
  PROVE  /\ view = "ReviewList"
         /\ Category(msg) \in {"Navigation", "Filter"} \/ msg = "EscapePressed"
BY DEF Views, Route, Category

(* Without the prompt the keys are those of the view, or of the draft of the *)
(* selected comment over the list (input_context).                         *)
LEMMA ContextFacts ==
  ASSUME view \in Views, ~prompt
  PROVE  /\ InputContext \in DOMAIN KeysOf
         /\ InputContext = IF view = "ReviewList" /\ draft # None /\ draft = Current
                             THEN "ReplyDraft" ELSE view
<1>1. DOMAIN KeysOf = {"ReviewList", "ReplyDraft", "TimeTravel", "DiffContext",
                       "PrDiscussionSummary", "ResumePrompt"}
  BY DEF KeysOf
<1> QED
  BY <1>1 DEF Views, InputContext

(* The handlers that touch the list at all.                                *)
LEMMA ListHandlers ==
  ASSUME NEW msg, HandleMessage(msg)
  PROVE  \/ UNCHANGED vars
         \/ Route(msg) = "Navigation" /\ NavigationMsg(msg)
         \/ Route(msg) = "Filter" /\ FilterMsg(msg)
         \/ Route(msg) = "ClearFilter" /\ FilterMsg("ClearFilter")
         \/ msg = "OpenSelectedPrDiscussionSummaryLink" /\ OpenLink
<1>1. CASE SummaryNavigationMsg(msg)
  BY <1>1 DEF SummaryNavigationMsg
<1>2. CASE DiffContextMsg(msg)
  BY <1>2 DEF DiffContextMsg
<1>3. CASE PrDiscussionSummaryMsg(msg)
  BY <1>3 DEF PrDiscussionSummaryMsg, GenerateSummary
<1>4. CASE TimeTravelMsg(msg) \/ CodexMsg(msg) \/ ReplyDraftMsg(msg)
  BY <1>4 DEF TimeTravelMsg, CodexMsg, ReplyDraftMsg
<1>5. CASE LifecycleMsg(msg) \/ UNCHANGED appVars
  BY <1>5 DEF LifecycleMsg, ToggleHelp, appVars
<1> QED
  BY <1>1, <1>2, <1>3, <1>4, <1>5 DEF HandleMessage

(* Only with the keyboard do keys move the list, and a link does.          *)
LEMMA KeysOfList ==
  ASSUME view \in Views, help \in BOOLEAN, prompt \in BOOLEAN,
         NEW key, Press(key)
  PROVE  \/ UNCHANGED vars
         \/ ListHasKeys /\ \E msg : NavigationMsg(msg) \/ FilterMsg(msg)
         \/ ~help /\ ~prompt /\ view = "PrDiscussionSummary" /\ OpenLink
<1>1. CASE help
  <2>1. HandleMessage("ToggleHelp")
    BY <1>1 DEF Press
  <2>2. Route("ToggleHelp") \notin {"Navigation", "Filter", "ClearFilter"}
    BY RoutesToList DEF Category
  <2> QED
    BY <2>1, <2>2, ListHandlers
<1>2. CASE ~help
  <2>1. PICK binding \in KeysOf[InputContext] : HandleMessage(binding[2])
    BY <1>2 DEF Press
  <2> DEFINE msg == binding[2]
  <2>2. CASE UNCHANGED vars
    BY <2>2
  <2>3. CASE Route(msg) \in {"Navigation", "Filter", "ClearFilter"}
             /\ (NavigationMsg(msg) \/ FilterMsg(msg) \/ FilterMsg("ClearFilter"))
    <3>1. /\ view = "ReviewList"
          /\ Category(msg) \in {"Navigation", "Filter"} \/ msg = "EscapePressed"
      BY <2>3, RoutesToList
    <3>2. Category("EscapePressed") = "Lifecycle"
      BY DEF Category
    <3>3. ~prompt
      <4>1. ASSUME prompt PROVE FALSE
        <5>1. binding \in ResumePromptKeys
          BY <2>1, <4>1 DEF InputContext, KeysOf
        <5> QED
          BY <3>1, <5>1, DraftMessages
      <4> QED
        BY <4>1
    <3>4. draft = None \/ draft # Current
      <4>1. ASSUME draft # None, draft = Current PROVE FALSE
        <5>1. binding \in ReplyDraftKeys
          BY <2>1, <3>1, <3>3, <4>1 DEF InputContext, KeysOf
        <5> QED
          BY <3>1, <3>2, <5>1, DraftMessages
      <4> QED
        BY <4>1
    <3> QED
      BY <1>2, <2>3, <3>1, <3>3, <3>4 DEF ListHasKeys
  <2>4. CASE msg = "OpenSelectedPrDiscussionSummaryLink" /\ OpenLink
    <3>1. InputContext \in DOMAIN KeysOf
      <4>1. CASE prompt
        BY <4>1 DEF InputContext, KeysOf
      <4> QED
        BY <4>1, ContextFacts
    <3>2. InputContext = "PrDiscussionSummary"
      BY <2>1, <2>4, <3>1, LinkMessages
    <3> QED
      BY <1>2, <2>4, <3>2 DEF InputContext
  <2> QED
    BY <2>1, <2>2, <2>3, <2>4, ListHandlers
<1> QED
  BY <1>1, <1>2

---------------------------------------------------------------------------
(* The keyboard: the list under the update loop.                           *)

(* The views and overlays there are.                                       *)
AppTypeOK ==
  /\ view \in Views
  /\ help \in BOOLEAN /\ prompt \in BOOLEAN

(* Moving, filtering, resizing, syncing and following a link are steps of  *)
(* the list.  A link to a comment there never was does what `clear' does.  *)
LEMMA LinkIsStep ==
  ASSUME IInv, NEW id, OpenSummaryLink(id)
  PROVE  Next
<1>1. CASE id \in Ids
  BY <1>1 DEF Next, Keys
<1>2. CASE id \notin Ids
  <2>1. \A i \in DOMAIN reviews : reviews[i].id \in Ids
    <3>1. IsList(reviews)
      BY LoadedFacts DEF IInv, ListSizes
    <3>2. \A i \in DOMAIN reviews : reviews[i] \in Review
      BY <3>1, ElementOfSeq, LenProperties DEF IsList
    <3> QED
      BY <3>2 DEF Review
  <2>2. filtered' \subseteq DOMAIN reviews
    BY DEF OpenSummaryLink, Rebuild, Matching
  <2>3. ~ \E i \in filtered' : reviews[i].id = id
    BY <1>2, <2>1, <2>2
  <2>4. ClearFilter
    BY <2>3 DEF OpenSummaryLink, ClearFilter, SetFilter
  <2> QED
    BY <2>4 DEF Next, Keys
<1> QED
  BY <1>1, <1>2

(* Every step of the program is a step of the list or leaves it alone.     *)
LEMMA StepOfList ==
  ASSUME IInv, AppTypeOK, [NextApp]_appVars
  PROVE  [Next]_vars
<1>1. ASSUME NEW key, Press(key)
      PROVE  [Next]_vars
  <2>1. CASE \E msg : NavigationMsg(msg) \/ FilterMsg(msg)
    BY <2>1 DEF NavigationMsg, FilterMsg, Next, Keys
  <2>2. CASE OpenLink
    BY <2>2, LinkIsStep DEF OpenLink
  <2> QED
    BY <1>1, <2>1, <2>2, KeysOfList DEF AppTypeOK
<1>2. ASSUME NEW size \in Sizes, Resize(size[1], size[2])
      PROVE  Next
  <2>1. size[2] \in Rows
    BY ReviewAppAssumption
  <2> QED
    BY <1>2, <2>1 DEF Resize, Next, Keys
<1>3. ASSUME NEW S \in Snapshots, SyncApplies(S)
      PROVE  Next
  BY <1>3 DEF SyncApplies, Next
<1>4. ASSUME NEW answer, SummaryReady(answer) \/ SummaryFailed
      PROVE  UNCHANGED vars
  BY <1>4 DEF SummaryReady, SummaryFailed
<1>5. CASE UNCHANGED appVars
  BY <1>5 DEF appVars
<1> QED
  BY <1>1, <1>2, <1>3, <1>4, <1>5 DEF NextApp

(* Each handler leaves one of the four views, and help and prompt shown or *)
(* not.                                                                    *)
LEMMA StepKeepsTypes ==
  ASSUME AppTypeOK, [NextApp]_appVars
  PROVE  AppTypeOK'
<1> USE DEF AppTypeOK, Views
<1>1. ASSUME NEW msg, HandleMessage(msg)
      PROVE  AppTypeOK'
  <2>1. CASE NavigationMsg(msg) \/ FilterMsg(msg) \/ FilterMsg("ClearFilter")
    BY <2>1 DEF NavigationMsg, FilterMsg, overlayVars
  <2>2. CASE SummaryNavigationMsg(msg)
    BY <2>2 DEF SummaryNavigationMsg
  <2>3. CASE DiffContextMsg(msg)
    BY <2>3 DEF DiffContextMsg
  <2>4. CASE PrDiscussionSummaryMsg(msg)
    BY <2>4 DEF PrDiscussionSummaryMsg, GenerateSummary, OpenLink
  <2>5. CASE TimeTravelMsg(msg)
    BY <2>5 DEF TimeTravelMsg
  <2>6. CASE CodexMsg(msg) \/ ReplyDraftMsg(msg)
    BY <2>6 DEF CodexMsg, ReplyDraftMsg
  <2>7. CASE LifecycleMsg(msg) \/ UNCHANGED appVars
    BY <2>7 DEF LifecycleMsg, ToggleHelp, appVars, overlayVars
  <2> QED
    BY <1>1, <2>1, <2>2, <2>3, <2>4, <2>5, <2>6, <2>7 DEF HandleMessage
<1>2. ASSUME NEW key, Press(key)
      PROVE  AppTypeOK'
  <2>1. \E msg : HandleMessage(msg)
    BY <1>2 DEF Press
  <2> QED
    BY <1>1, <2>1
<1>3. ASSUME NEW size \in Sizes, Resize(size[1], size[2])
      PROVE  AppTypeOK'
  BY <1>3 DEF Resize
<1>4. ASSUME NEW S \in Snapshots, SyncApplies(S)
      PROVE  AppTypeOK'
  BY <1>4 DEF SyncApplies
<1>5. ASSUME NEW answer, SummaryReady(answer) \/ SummaryFailed
      PROVE  AppTypeOK'
  BY <1>5 DEF SummaryReady, SummaryFailed
<1>6. CASE UNCHANGED appVars
  BY <1>6 DEF appVars, overlayVars
<1> QED
  BY <1>2, <1>3, <1>4, <1>5, <1>6 DEF NextApp

(* At the start.                                                           *)
LEMMA InitAppTypes == InitApp => IInv /\ AppTypeOK
BY InitIInv DEF InitApp, AppTypeOK, Views

(* What holds of the list alone holds of it in every view, whatever lies   *)
(* over it (routing.rs).                                                   *)
THEOREM AppInvariant == SpecApp => [](IInv /\ AppTypeOK)
<1>1. InitApp => IInv /\ AppTypeOK
  BY InitAppTypes
<1>2. (IInv /\ AppTypeOK) /\ [NextApp]_appVars => (IInv /\ AppTypeOK)'
  BY StepOfList, StepKeepsTypes, NextKeepsIInv
<1> QED
  BY <1>1, <1>2, PTL DEF SpecApp

(* Whatever keys, resizes, syncs and answers do, to the list it is one of  *)
(* its own operations (routing.rs, model_impl.rs).                         *)
THEOREM AppListBehaviour == SpecApp => Spec
<1>1. InitApp => Init
  BY DEF InitApp
<1>2. (IInv /\ AppTypeOK) /\ [NextApp]_appVars => [Next]_vars
  BY StepOfList
<1> QED
  BY <1>1, <1>2, AppInvariant, PTL DEF SpecApp, Spec

(* So a sync leaves the cursor on its comment in every view                *)
(* (apply_new_reviews).                                                    *)
THEOREM AppSyncSafety == SpecApp => SyncKeepsSelection
BY AppListBehaviour, SyncSafety, PTL

---------------------------------------------------------------------------
(* The keyboard: who moves the list.                                       *)

(* Neither cursor, filter, scroll offset nor selection changes.            *)
Stays == UNCHANGED <<cursor, filter, scroll, selected>>

(* A sync or a resize that changes nothing leaves the list where it is.    *)
LEMMA NothingNewStays ==
  /\ \A height : IInv /\ WindowResized(height) /\ rows' = rows => Stays
  /\ \A S \in Snapshots :
       IInv /\ IInv' /\ ApplyNewReviews(S) /\ reviews' = reviews => Stays
<1>1. ASSUME IInv, visible' = visible
      PROVE  ScrollTo(cursor, scroll, visible') = scroll
  <2>1. visible \in Nat \ {0}
    BY <1>1, LoadedFacts DEF IInv, ListSizes
  <2> QED
    BY <1>1, <2>1 DEF IInv, Placed, ScrollTo, Minus
<1>2. ASSUME NEW height, IInv, WindowResized(height), rows' = rows
      PROVE  Stays
  <2>1. visible' = visible
    BY <1>2 DEF WindowResized, IInv, Loaded
  <2> QED
    BY <1>1, <1>2, <2>1 DEF WindowResized, Stays
<1>3. ASSUME NEW S \in Snapshots, IInv, IInv', ApplyNewReviews(S),
             reviews' = reviews
      PROVE  Stays
  <2>1. filter' = filter /\ rows' = rows
    BY <1>3 DEF ApplyNewReviews
  <2>2. filtered' = filtered
    BY <1>3, <2>1 DEF IInv, Loaded
  <2>3. visible' = visible
    BY <1>3, <2>1, <2>2 DEF IInv, Loaded, Count
  <2>4. selected = IdOnRow(cursor, filtered, reviews)
    BY <1>3 DEF IInv
  <2>5. ASSUME cursor' = cursor, scroll' = ScrollTo(cursor, scroll, visible')
        PROVE  Stays
    <3>1. selected' = IdOnRow(cursor', filtered', reviews')
      BY <1>3 DEF IInv
    <3> QED
      BY <1>1, <1>3, <2>1, <2>2, <2>3, <2>4, <2>5, <3>1 DEF Stays
  <2>6. ListSizes
    BY <1>3, LoadedFacts DEF IInv
  <2>7. CASE selected = None
    BY <1>3, <2>5, <2>7 DEF ApplyNewReviews, Place
  <2>8. CASE selected # None
    <3>1. cursor \in Nat /\ Count \in Nat
      BY <1>3, <2>6 DEF IInv, Placed, ListSizes
    <3>2. cursor < Count
      <4>1. ASSUME cursor >= Count PROVE FALSE
        <5>1. IdOnRow(cursor, filtered, reviews) = None
          BY <2>6, <3>1, <4>1, RowsShowComments DEF ListSizes, Count
        <5> QED
          BY <2>4, <2>8, <5>1
      <4> QED
        BY <3>1, <4>1
    <3>3. PICK k \in filtered : RowOf(k, filtered) = cursor
      <4>1. cursor \in 0..(Cardinality(filtered) - 1)
        BY <3>1, <3>2 DEF Count
      <4> QED
        BY <2>6, <4>1, RowsOfCache DEF ListSizes
    <3>4. reviews[k].id = selected
      BY <2>4, <2>6, <3>1, <3>3, RowsShowComments DEF ListSizes
    <3>5. PICK i \in filtered : /\ reviews[i].id = selected
                               /\ Place(RowOf(i, filtered), scroll)
      BY <1>3, <2>2, <2>8, <3>4 DEF ApplyNewReviews
    <3>6. i = k
      BY <2>6, <3>4, <3>5 DEF ListSizes, IsList
    <3> QED
      BY <2>5, <3>3, <3>5, <3>6 DEF Place
  <2> QED
    BY <2>7, <2>8
<1> QED
  BY <1>2, <1>3

(* A link leads to its comment, or leaves the view when that is gone.      *)
LEMMA LinkLeads ==
  ASSUME IInv, IInv', NEW id, OpenSummaryLink(id)
  PROVE  (\E i \in DOMAIN reviews : reviews[i].id = id) => selected' = id
<1> SUFFICES ASSUME \E i \in DOMAIN reviews : reviews[i].id = id
             PROVE  selected' = id
  OBVIOUS
<1>1. filtered' = DOMAIN reviews /\ reviews' = reviews
  BY DEF OpenSummaryLink, Rebuild, Matching, Matches, AllFilter
<1>2. PICK i \in filtered' : /\ reviews[i].id = id
                            /\ Place(RowOf(i, filtered'), scroll)
  BY <1>1 DEF OpenSummaryLink
<1>3. Loaded'
  BY DEF IInv
<1>4. selected' = reviews'[i].id
  BY <1>2, <1>3, FollowKeepsIInv
<1> QED
  BY <1>1, <1>2, <1>4

(* Only where the list has the keyboard, and by a link, do keys move it:   *)
(* not in a draft, under the prompt or in a full-screen view               *)
(* (input_context in model_impl.rs, routing.rs).                           *)
THEOREM KeyboardSafety == SpecApp => OnlyListKeysMoveList
<1> DEFINE Moves ==
      <<cursor, filter, scroll, selected>>' # <<cursor, filter, scroll, selected>>
           Right ==
      Moves
       /\ reviews' = reviews /\ <<rows, columns>>' = <<rows, columns>>
       => /\ ~help /\ ~prompt
          /\ \/ view = "ReviewList" /\ (draft = None \/ draft # Current)
             \/ view = "PrDiscussionSummary"
          /\ view = "PrDiscussionSummary" =>
               LET id == Items(summary.groups)[summary.item + 1].root
               IN \/ view' = "ReviewList" /\ selected' = id
                  \/ /\ view' = view
                     /\ \A n \in DOMAIN reviews : reviews[n].id # id
<1>1. ASSUME IInv, AppTypeOK, IInv', NextApp, Moves,
             reviews' = reviews, <<rows, columns>>' = <<rows, columns>>
      PROVE  Right
  <2>1. ~Stays
    BY <1>1 DEF Stays
  <2>2. ASSUME NEW key, Press(key)
        PROVE  Right
    <3>1. CASE UNCHANGED vars
      BY <2>1, <3>1 DEF vars, Stays
    <3>2. CASE ListHasKeys
      BY <3>2 DEF ListHasKeys
    <3>3. CASE ~help /\ ~prompt /\ view = "PrDiscussionSummary" /\ OpenLink
      <4> DEFINE id == Items(summary.groups)[summary.item + 1].root
      <4>1. /\ OpenSummaryLink(id)
            /\ view' = IF \E i \in DOMAIN reviews : reviews[i].id = id
                         THEN "ReviewList" ELSE view
        BY <3>3 DEF OpenLink
      <4> HIDE DEF id
      <4>2. (\E i \in DOMAIN reviews : reviews[i].id = id) => selected' = id
        BY <1>1, <4>1, LinkLeads
      <4>3. \/ view' = "ReviewList" /\ selected' = id
            \/ view' = view /\ \A n \in DOMAIN reviews : reviews[n].id # id
        BY <4>1, <4>2
      <4> QED
        BY <3>3, <4>3 DEF id
    <3> QED
      BY <1>1, <2>2, <3>1, <3>2, <3>3, KeysOfList DEF AppTypeOK
  <2>3. ASSUME NEW size \in Sizes, Resize(size[1], size[2])
        PROVE  FALSE
    BY <1>1, <2>1, <2>3, NothingNewStays DEF Resize
  <2>4. ASSUME NEW S \in Snapshots, SyncApplies(S)
        PROVE  FALSE
    BY <1>1, <2>1, <2>4, NothingNewStays DEF SyncApplies
  <2>5. ASSUME NEW answer, SummaryReady(answer) \/ SummaryFailed
        PROVE  FALSE
    BY <2>1, <2>5 DEF SummaryReady, SummaryFailed, vars, Stays
  <2> QED
    BY <1>1, <2>2, <2>3, <2>4, <2>5 DEF NextApp
<1>2. ASSUME IInv, AppTypeOK, IInv', [NextApp]_appVars
      PROVE  [Right]_appVars
  BY <1>1, <1>2
<1>3. (IInv /\ AppTypeOK) /\ (IInv /\ AppTypeOK)' /\ [NextApp]_appVars
        => [Right]_appVars
  BY <1>2
<1>4. OnlyListKeysMoveList <=> [][Right]_appVars
  BY PTL DEF OnlyListKeysMoveList
<1> HIDE DEF Right
<1> QED
  BY <1>3, <1>4, AppInvariant, PTL DEF SpecApp

---------------------------------------------------------------------------
(* The diff context.                                                       *)

(* The comment at a position of the list has this hunk.                    *)
Hunk(list, i) == [file |-> File[list[i].id], line |-> Line[list[i].id],
                  text |-> Text[list[i].id]]

(* Those with a hunk, and those with the same.                             *)
WithHunk(list, cache) == {i \in cache : Text[list[i].id] # None}

SameHunk(list, i, j) == /\ File[list[i].id] = File[list[j].id]
                        /\ Text[list[i].id] = Text[list[j].id]

(* A finite set of numbers has a least one: that of row 0.                 *)
LEMMA LeastOfFinite ==
  ASSUME NEW S \in SUBSET Nat, IsFiniteSet(S), S # {}
  PROVE  \E k \in S : \A j \in S : k <= j
<1>1. Cardinality(S) \in Nat /\ Cardinality(S) # 0
  BY FS_CardinalityType, FS_EmptySet
<1>2. PICK k \in S : RowOf(k, S) = 0
  BY <1>1, RowsOfCache
<1>3. IsFiniteSet({j \in S : j < k}) /\ Cardinality({j \in S : j < k}) = 0
  BY <1>2, FS_Subset, {j \in S : j < k} \in SUBSET S DEF RowOf
<1>4. {j \in S : j < k} = {}
  BY <1>3, FS_EmptySet
<1>5. \A j \in S : ~(j < k)
  BY <1>4
<1> QED
  BY <1>5

(* The first of the comments that share a hunk.                            *)
FirstWith(list, cache) ==
  {i \in WithHunk(list, cache) :
     \A j \in WithHunk(list, cache) : SameHunk(list, i, j) => i <= j}

(* Each hunk that comments share is that of one of the first, and of one   *)
(* only.                                                                   *)
LEMMA FirstOfHunk ==
  ASSUME NEW list, NEW cache \in SUBSET Nat, IsFiniteSet(cache),
         NEW i \in WithHunk(list, cache)
  PROVE  /\ \E k \in FirstWith(list, cache) : SameHunk(list, k, i)
         /\ \A k, n \in FirstWith(list, cache) :
              SameHunk(list, k, i) /\ SameHunk(list, n, i) => k = n
<1> DEFINE Alike == {j \in WithHunk(list, cache) : SameHunk(list, j, i)}
<1>1. Alike \in SUBSET Nat /\ Alike # {}
  BY DEF WithHunk, SameHunk
<1>2. PICK k \in Alike : \A j \in Alike : k <= j
  <2>1. Alike \in SUBSET cache
    BY DEF WithHunk
  <2> HIDE DEF Alike
  <2> QED
    BY <1>1, <2>1, LeastOfFinite, FS_Subset
<1>3. k \in FirstWith(list, cache) /\ SameHunk(list, k, i)
  BY <1>2 DEF FirstWith, SameHunk
<1>4. ASSUME NEW m \in FirstWith(list, cache), NEW n \in FirstWith(list, cache),
             SameHunk(list, m, i), SameHunk(list, n, i)
      PROVE  m = n
  <2>1. m <= n /\ n <= m /\ m \in Nat /\ n \in Nat
    BY <1>4 DEF FirstWith, WithHunk, SameHunk
  <2> QED
    BY <2>1
<1> QED
  BY <1>3, <1>4

(* Where a comment comes before another: by file, by line, and as listed.  *)
HunkOrder(list, S) ==
  {p \in S \X S :
     /\ p[1] # p[2]
     /\ \/ File[list[p[1]].id] < File[list[p[2]].id]
        \/ /\ File[list[p[1]].id] = File[list[p[2]].id]
           /\ \/ Line[list[p[1]].id] < Line[list[p[2]].id]
              \/ Line[list[p[1]].id] = Line[list[p[2]].id] /\ p[1] <= p[2]}

(* sort_by orders them totally: no two have the same position.             *)
LEMMA HunksAreOrdered ==
  ASSUME NEW list, IsList(list), NEW S \in SUBSET (DOMAIN list)
  PROVE  IsOrder(S, HunkOrder(list, S))
<1> DEFINE F(i) == File[list[i].id]
           L(i) == Line[list[i].id]
           Before(a, b) == \/ F(a) < F(b)
                           \/ F(a) = F(b) /\ (L(a) < L(b) \/ (L(a) = L(b) /\ a <= b))
<1>1. ASSUME NEW i \in S
      PROVE  F(i) \in Nat /\ L(i) \in Nat /\ i \in Nat
  <2>1. list[i] \in Review /\ i \in Nat
    BY ElementOfSeq, LenProperties DEF IsList
  <2>2. list[i].id \in Ids
    BY <2>1 DEF Review
  <2> QED
    BY <2>1, <2>2, ReviewAppAssumption, DiscussionAssumption
<1>2. ASSUME NEW a \in S, NEW b \in S
      PROVE  <<a, b>> \in HunkOrder(list, S) <=> a # b /\ Before(a, b)
  <2> DEFINE p == <<a, b>>
  <2>1. p \in S \X S /\ p[1] = a /\ p[2] = b
    OBVIOUS
  <2>2. ASSUME NEW q \in S \X S
        PROVE  q \in HunkOrder(list, S) <=> q[1] # q[2] /\ Before(q[1], q[2])
    BY DEF HunkOrder
  <2> HIDE DEF p, Before
  <2> QED
    BY <2>1, <2>2 DEF p
<1> HIDE DEF F, L
<1>3. ASSUME NEW a \in S, NEW b \in S
      PROVE  a = b \/ Before(a, b) \/ Before(b, a)
  <2>1. /\ F(a) \in Nat /\ F(b) \in Nat /\ L(a) \in Nat /\ L(b) \in Nat
        /\ a \in Nat /\ b \in Nat
    BY <1>1
  <2>2. \A x, y \in Nat : x < y \/ x = y \/ y < x
    OBVIOUS
  <2>3. /\ F(a) < F(b) \/ F(a) = F(b) \/ F(b) < F(a)
        /\ L(a) < L(b) \/ L(a) = L(b) \/ L(b) < L(a)
        /\ a <= b \/ b <= a
    BY <2>1
  <2> QED
    BY <2>3
<1>4. ASSUME NEW a \in S, NEW b \in S, NEW c \in S,
             a # b, Before(a, b), b # c, Before(b, c)
      PROVE  a # c /\ Before(a, c)
  <2>1. /\ F(a) \in Nat /\ F(b) \in Nat /\ F(c) \in Nat
        /\ L(a) \in Nat /\ L(b) \in Nat /\ L(c) \in Nat
        /\ a \in Nat /\ b \in Nat /\ c \in Nat
    BY <1>1
  <2> QED
    BY <1>4, <2>1
<1> HIDE DEF Before
<1> QED
  BY <1>2, <1>3, <1>4 DEF IsOrder

(* A sequence in which the hunks of the comments shown are once each, and  *)
(* no others.                                                              *)
HunksOf(collected, list, cache) ==
  /\ collected \in Seq([file: Nat, line: Nat, text: {Text[id] : id \in Ids}])
  /\ \A n \in DOMAIN collected :
       \E i \in cache : IsHunkOf(collected[n], list[i].id)
  /\ \A i \in cache : Text[list[i].id] # None =>
       \E n \in DOMAIN collected :
         \A m \in DOMAIN collected :
           IsHunkOf(collected[m], list[i].id) <=> m = n

(* This is what collect_diff_hunks returns.                                *)
LEMMA CollectedOnce ==
  ASSUME NEW list, IsList(list), NEW cache \in SUBSET (DOMAIN list),
         IsFiniteSet(cache)
  PROVE  HunksOf(CollectHunks(list, cache), list, cache)
<1> DEFINE S == FirstWith(list, cache)
           R == HunkOrder(list, S)
           N == Cardinality(S)
           Before(i, j) ==
             \/ File[list[i].id] < File[list[j].id]
             \/ /\ File[list[i].id] = File[list[j].id]
                /\ \/ Line[list[i].id] < Line[list[j].id]
                   \/ Line[list[i].id] = Line[list[j].id] /\ i <= j
           order == Sorted(S, Before)
           collected == CollectHunks(list, cache)
<1>1. S \in SUBSET cache /\ S \in SUBSET (DOMAIN list) /\ IsFiniteSet(S)
  <2>1. S \in SUBSET cache
    BY DEF FirstWith, WithHunk
  <2> QED
    BY <2>1, FS_Subset
<1>2. IsOrder(S, R)
  BY <1>1, HunksAreOrdered
<1>3. order = Ranked(S, R)
  <2>1. \A x \in S : {y \in S \ {x} : Before(y, x)} = {y \in S : <<y, x>> \in R}
    BY DEF HunkOrder
  <2>2. \A x \in S : Cardinality({y \in S \ {x} : Before(y, x)}) = Rank(S, R, x)
    BY <2>1 DEF Rank
  <2>3. order = [n \in 1..N |->
                   CHOOSE x \in S : Cardinality({y \in S \ {x} : Before(y, x)}) = n - 1]
    BY DEF Sorted
  <2> HIDE DEF S, R, Before
  <2>4. \A n : (CHOOSE x \in S : Cardinality({y \in S \ {x} : Before(y, x)}) = n - 1)
               = CHOOSE x \in S : Rank(S, R, x) = n - 1
    BY <2>2
  <2> QED
    BY <2>3, <2>4 DEF Ranked
<1>4. collected = [n \in DOMAIN order |-> Hunk(list, order[n])]
  BY DEF CollectHunks, FirstWith, WithHunk, SameHunk, Hunk
<1> HIDE DEF order, collected, R, S
<1>5. /\ N \in Nat /\ order \in [1..N -> S]
      /\ \A i, j \in 1..N : order[i] = order[j] => i = j
      /\ \A x \in S : \E i \in 1..N : order[i] = x
  BY <1>1, <1>2, <1>3, RankedIsSorted
<1> HIDE DEF N
<1>6. DOMAIN collected = 1..N /\ \A n \in 1..N : collected[n] = Hunk(list, order[n])
  BY <1>4, <1>5
<1>7. ASSUME NEW i \in cache
      PROVE  list[i].id \in Ids /\ i \in Nat
  <2>1. list[i] \in Review /\ i \in Nat
    BY ElementOfSeq, LenProperties DEF IsList
  <2> QED
    BY <2>1 DEF Review
<1>8. collected \in Seq([file: Nat, line: Nat, text: {Text[id] : id \in Ids}])
  <2>1. ASSUME NEW n \in 1..N
        PROVE  collected[n] \in [file: Nat, line: Nat, text: {Text[id] : id \in Ids}]
    <3>1. list[order[n]].id \in Ids
      BY <1>1, <1>5, <1>7
    <3> DEFINE id == list[order[n]].id
    <3>2. File[id] \in Nat /\ Line[id] \in Nat
      BY <3>1, ReviewAppAssumption, DiscussionAssumption
    <3>3. collected[n] = [file |-> File[id], line |-> Line[id], text |-> Text[id]]
      BY <1>6 DEF Hunk
    <3> HIDE DEF id
    <3> QED
      BY <3>1, <3>2, <3>3 DEF id
  <2> HIDE DEF Hunk
  <2> DEFINE Hunks == [file: Nat, line: Nat, text: {Text[id] : id \in Ids}]
  <2> HIDE DEF Hunks
  <2>2. collected = [n \in 1..N |-> collected[n]]
    BY <1>4, <1>5
  <2>3. collected \in [1..N -> Hunks]
    BY <2>1, <2>2 DEF Hunks
  <2>4. collected \in Seq(Hunks)
    BY <1>5, <2>3, SeqDef
  <2> QED
    BY <2>4 DEF Hunks
<1>9. ASSUME NEW n \in DOMAIN collected
      PROVE  \E i \in cache : IsHunkOf(collected[n], list[i].id)
  <2>1. n \in 1..N /\ order[n] \in cache
    BY <1>1, <1>5, <1>6
  <2> QED
    BY <1>6, <2>1 DEF IsHunkOf, Hunk
<1>10. ASSUME NEW i \in cache, Text[list[i].id] # None
       PROVE  \E n \in DOMAIN collected :
                \A m \in DOMAIN collected :
                  IsHunkOf(collected[m], list[i].id) <=> m = n
  <2>1. i \in WithHunk(list, cache) /\ cache \in SUBSET Nat
    BY <1>7, <1>10 DEF WithHunk
  <2>2. PICK k \in S : SameHunk(list, k, i)
    BY <2>1, FirstOfHunk DEF S
  <2>3. PICK n \in 1..N : order[n] = k
    BY <1>5
  <2>4. ASSUME NEW m \in 1..N
        PROVE  IsHunkOf(collected[m], list[i].id) <=> SameHunk(list, order[m], i)
    BY <1>6 DEF IsHunkOf, Hunk, SameHunk
  <2>5. ASSUME NEW m \in 1..N
        PROVE  SameHunk(list, order[m], i) <=> m = n
    <3>1. order[m] \in S
      BY <1>5
    <3>2. SameHunk(list, order[m], i) => order[m] = k
      BY <2>1, <2>2, <3>1, FirstOfHunk DEF S
    <3> QED
      BY <1>5, <2>2, <2>3, <3>2
  <2> QED
    BY <1>6, <2>3, <2>4, <2>5
<1> QED
  BY <1>8, <1>9, <1>10 DEF collected, HunksOf

(* What there is to collect of the list as it is.                          *)
Collected == CollectHunks(reviews, filtered)

(* In its view, the hunks are those of the list as it is, and one of them  *)
(* is shown.                                                               *)
DiffOK ==
  view = "DiffContext" =>
    /\ hunks = Collected
    /\ hunk \in Nat /\ (hunks # <<>> => hunk < Len(hunks))

(* The hunks are in a sequence, and are those of the list.                 *)
CollectedOK ==
  /\ Len(Collected) \in Nat /\ DOMAIN Collected = 1..Len(Collected)
  /\ Collected # <<>> => Len(Collected) # 0
  /\ HunksOf(Collected, reviews, filtered)

(* Whatever the list, its hunks are a sequence without repetition.         *)
LEMMA ListCollected == Loaded => CollectedOK
<1> SUFFICES ASSUME Loaded PROVE CollectedOK
  OBVIOUS
<1>1. /\ IsList(reviews) /\ filtered \in SUBSET (DOMAIN reviews)
      /\ IsFiniteSet(filtered)
  BY LoadedFacts DEF ListSizes
<1>2. HunksOf(Collected, reviews, filtered)
  BY <1>1, CollectedOnce DEF Collected
<1>3. Len(Collected) \in Nat /\ DOMAIN Collected = 1..Len(Collected)
  BY <1>2, LenProperties DEF HunksOf
<1>4. Collected # <<>> => Len(Collected) # 0
  BY <1>2, EmptySeq DEF HunksOf
<1> QED
  BY <1>2, <1>3, <1>4 DEF CollectedOK

(* find_hunk_index and clamp_hunk_index lead to a hunk there is, and to    *)
(* that of the comment when it has one.                                    *)
LEMMA FoundHunk ==
  ASSUME NEW collected, Len(collected) \in Nat,
         DOMAIN collected = 1..Len(collected),
         collected # <<>> => Len(collected) # 0, NEW id
  PROVE  LET found == ClampedHunk(FindHunk(collected, id), Len(collected))
         IN /\ found \in Nat /\ (collected # <<>> => found < Len(collected))
            /\ (id # None /\ \E n \in DOMAIN collected : IsHunkOf(collected[n], id))
                 => IsHunkOf(collected[found + 1], id)
<1> DEFINE N == Len(collected)
           Has == id # None /\ \E n \in DOMAIN collected : IsHunkOf(collected[n], id)
           at == CHOOSE n \in DOMAIN collected : IsHunkOf(collected[n], id)
<1>1. CASE Has
  <2>1. at \in 1..N /\ IsHunkOf(collected[at], id)
    BY <1>1
  <2>2. FindHunk(collected, id) = at - 1
    BY <1>1 DEF FindHunk
  <2>0. N \in Nat
    OBVIOUS
  <2> HIDE DEF at, N
  <2>3. ClampedHunk(at - 1, N) = at - 1 /\ at - 1 \in Nat /\ at - 1 < N
        /\ (at - 1) + 1 = at
    BY <2>0, <2>1 DEF ClampedHunk, Smaller
  <2> QED
    BY <2>1, <2>2, <2>3 DEF N
<1>2. CASE ~Has
  <2>1. FindHunk(collected, id) = 0
    BY <1>2 DEF FindHunk
  <2>2. ClampedHunk(0, N) = 0
    BY DEF ClampedHunk, Smaller
  <2> QED
    BY <1>2, <2>1, <2>2
<1> QED
  BY <1>1, <1>2

(* rebuild_diff_context_state, on whatever list there is by then.          *)
LEMMA RebuildIsCurrent ==
  ASSUME Loaded', RebuildDiffContext
  PROVE  DiffOK'
<1>1. CollectedOK'
  <2>1. Loaded' => CollectedOK'
    BY ListCollected, PTL
  <2> QED
    BY <2>1
<1>2. hunks' = Collected'
  BY DEF RebuildDiffContext, Collected
<1>3. hunk' = ClampedHunk(FindHunk(hunks', IdOnRow(cursor', filtered', reviews')),
                          Len(hunks'))
  BY DEF RebuildDiffContext
<1>4. /\ Len(hunks') \in Nat /\ DOMAIN hunks' = 1..Len(hunks')
      /\ hunks' # <<>> => Len(hunks') # 0
  BY <1>1, <1>2 DEF CollectedOK
<1>5. hunk' \in Nat /\ (hunks' # <<>> => hunk' < Len(hunks'))
  BY <1>3, <1>4, FoundHunk
<1> QED
  BY <1>2, <1>5 DEF DiffOK

(* Who shows the diff context, and what is done in it.                     *)
DiffStep ==
  \/ view' # "DiffContext"
  \/ RebuildDiffContext
  \/ /\ view = "DiffContext"
     /\ UNCHANGED <<reviews, filtered, hunks>>
     /\ hunk' \in {hunk, ClampedHunk(hunk + 1, Len(hunks)), Minus(hunk, 1)}

(* Of all handlers, resizes, syncs and answers, those that end in the view *)
(* rebuild it or move among its hunks, and entering it leaves the list.    *)
LEMMA DiffSteps ==
  ASSUME AppTypeOK, NextApp
  PROVE  /\ DiffStep
         /\ (view # "DiffContext" /\ view' = "DiffContext")
              => (RebuildDiffContext /\ UNCHANGED vars)
<1> DEFINE Goal == /\ DiffStep
                   /\ (view # "DiffContext" /\ view' = "DiffContext")
                        => (RebuildDiffContext /\ UNCHANGED vars)
<1>1. ASSUME NEW msg, HandleMessage(msg), view = "DiffContext" => UNCHANGED vars
      PROVE  Goal
  <2>1. CASE NavigationMsg(msg) \/ FilterMsg(msg) \/ FilterMsg("ClearFilter")
    BY <1>1, <2>1 DEF NavigationMsg, FilterMsg, overlayVars, diffVars, vars, DiffStep
  <2>2. CASE SummaryNavigationMsg(msg)
    BY <2>2 DEF SummaryNavigationMsg, diffVars, vars, DiffStep
  <2>3. CASE DiffContextMsg(msg)
    BY <2>3 DEF DiffContextMsg, diffVars, vars, DiffStep
  <2>4. CASE PrDiscussionSummaryMsg(msg)
    <3>1. CASE GenerateSummary
      BY <3>1 DEF GenerateSummary, diffVars, vars, DiffStep
    <3>2. CASE OpenLink
      BY <1>1, <3>2 DEF OpenLink, diffVars, vars, DiffStep
    <3>3. CASE ~GenerateSummary /\ ~OpenLink
      BY <2>4, <3>3 DEF PrDiscussionSummaryMsg, DiffStep
    <3> QED
      BY <3>1, <3>2, <3>3
  <2>5. CASE TimeTravelMsg(msg)
    BY <2>5 DEF TimeTravelMsg, diffVars, vars, DiffStep
  <2>6. CASE CodexMsg(msg) \/ ReplyDraftMsg(msg)
    BY <2>6 DEF CodexMsg, ReplyDraftMsg, diffVars, vars, DiffStep
  <2>7. CASE LifecycleMsg(msg) \/ UNCHANGED appVars
    BY <2>7 DEF LifecycleMsg, ToggleHelp, appVars, overlayVars, diffVars, vars,
                DiffStep
  <2> QED
    BY <1>1, <2>1, <2>2, <2>3, <2>4, <2>5, <2>6, <2>7 DEF HandleMessage
<1>2. ASSUME NEW key, Press(key)
      PROVE  Goal
  <2>1. \E msg : HandleMessage(msg)
    BY <1>2 DEF Press
  <2>2. view = "DiffContext" => UNCHANGED vars
    BY <1>2, KeysOfList DEF AppTypeOK, ListHasKeys
  <2> QED
    BY <1>1, <2>1, <2>2
<1>3. ASSUME NEW size \in Sizes, Resize(size[1], size[2])
      PROVE  Goal
  BY <1>3 DEF Resize, WindowResized, diffVars, DiffStep
<1>4. ASSUME NEW S \in Snapshots, SyncApplies(S)
      PROVE  Goal
  BY <1>4 DEF SyncApplies, DiffStep
<1>5. ASSUME NEW answer, SummaryReady(answer) \/ SummaryFailed
      PROVE  Goal
  BY <1>5 DEF SummaryReady, SummaryFailed, diffVars, vars, DiffStep
<1> QED
  BY <1>2, <1>3, <1>4, <1>5 DEF NextApp

(* The hunks stay those of the list, and one of them shown.                *)
LEMMA StepKeepsDiff ==
  ASSUME IInv, AppTypeOK, IInv', DiffOK, [NextApp]_appVars
  PROVE  DiffOK'
<1>1. CASE UNCHANGED appVars
  BY <1>1 DEF appVars, vars, overlayVars, diffVars, DiffOK, Collected
<1>2. CASE view' # "DiffContext"
  BY <1>2 DEF DiffOK
<1>3. CASE RebuildDiffContext
  BY <1>3, RebuildIsCurrent DEF IInv
<1>4. CASE /\ view = "DiffContext"
           /\ UNCHANGED <<reviews, filtered, hunks>>
           /\ hunk' \in {hunk, ClampedHunk(hunk + 1, Len(hunks)), Minus(hunk, 1)}
  <2>1. hunks = Collected /\ hunk \in Nat
        /\ (hunks # <<>> => hunk < Len(hunks))
    BY <1>4 DEF DiffOK
  <2>2. Len(hunks) \in Nat /\ (hunks # <<>> => Len(hunks) # 0)
    BY <2>1, ListCollected DEF IInv, CollectedOK
  <2>3. hunk' \in Nat /\ (hunks # <<>> => hunk' < Len(hunks))
    BY <1>4, <2>1, <2>2 DEF ClampedHunk, Smaller, Minus
  <2> QED
    BY <1>4, <2>1, <2>3 DEF DiffOK, Collected
<1> QED
  BY <1>1, <1>2, <1>3, <1>4, DiffSteps DEF DiffStep

(* The diff context is over the hunks of the comments listed now, each of  *)
(* them once, whatever syncs and resizes do meanwhile                      *)
(* (rebuild_diff_context_state, apply_new_reviews).                        *)
THEOREM DiffContextSafety == SpecApp => []DiffContextIsCurrent
<1>1. InitApp => DiffOK
  BY DEF InitApp, DiffOK
<1>2. (IInv /\ AppTypeOK) /\ (IInv /\ AppTypeOK)' /\ DiffOK /\ [NextApp]_appVars
        => DiffOK'
  BY StepKeepsDiff
<1>3. SpecApp => []DiffOK
  BY <1>1, <1>2, AppInvariant, PTL DEF SpecApp
<1>4. ASSUME IInv, DiffOK, view = "DiffContext"
      PROVE  DiffContextIsCurrent
  <2>1. /\ hunks = Collected
        /\ hunks # <<>> => hunk < Len(hunks)
    BY <1>4 DEF DiffOK
  <2>2. /\ \A n \in DOMAIN hunks :
             \E i \in filtered : IsHunkOf(hunks[n], reviews[i].id)
        /\ \A i \in filtered : Text[reviews[i].id] # None =>
             \E n \in DOMAIN hunks :
               \A m \in DOMAIN hunks :
                 IsHunkOf(hunks[m], reviews[i].id) <=> m = n
    BY <1>4, <2>1, ListCollected DEF IInv, CollectedOK, HunksOf
  <2>3. ASSUME NEW i \in filtered, Text[reviews[i].id] # None
        PROVE  Cardinality({n \in DOMAIN hunks :
                              IsHunkOf(hunks[n], reviews[i].id)}) = 1
    <3>1. PICK n \in DOMAIN hunks :
            \A m \in DOMAIN hunks : IsHunkOf(hunks[m], reviews[i].id) <=> m = n
      BY <2>2, <2>3
    <3>2. {m \in DOMAIN hunks : IsHunkOf(hunks[m], reviews[i].id)} = {n}
      BY <3>1
    <3> QED
      BY <3>2, FS_Singleton
  <2> QED
    BY <2>1, <2>2, <2>3 DEF DiffContextIsCurrent
<1>5. IInv /\ DiffOK => DiffContextIsCurrent
  BY <1>4 DEF DiffContextIsCurrent
<1> QED
  BY <1>3, <1>5, AppInvariant, PTL

(* Entering it shows the hunk of the selected comment (find_hunk_index).   *)
THEOREM EntrySafety == SpecApp => EntryShowsSelected
<1> DEFINE Shows ==
      view' = "DiffContext" /\ view # "DiffContext"
       /\ Current # None /\ Text[Current] # None
       => IsHunkOf(hunks'[hunk' + 1], Current)
<1>1. ASSUME IInv, AppTypeOK, IInv', NextApp, view' = "DiffContext",
             view # "DiffContext", Current # None, Text[Current] # None
      PROVE  IsHunkOf(hunks'[hunk' + 1], Current)
  <2>1. RebuildDiffContext /\ UNCHANGED vars
    BY <1>1, DiffSteps
  <2> DEFINE C == Collected
             id == Current
  <2>2. /\ hunks' = C
        /\ hunk' = ClampedHunk(FindHunk(C, id), Len(C))
    BY <2>1 DEF RebuildDiffContext, Collected, Current, vars
  <2>3. PICK i \in filtered : reviews[i].id = id
    BY <1>1 DEF Current, IdOnRow
  <2>4. /\ Len(C) \in Nat /\ DOMAIN C = 1..Len(C)
        /\ C # <<>> => Len(C) # 0
        /\ \E n \in DOMAIN C : IsHunkOf(C[n], id)
    <3>1. /\ Len(C) \in Nat /\ DOMAIN C = 1..Len(C)
          /\ C # <<>> => Len(C) # 0
          /\ Text[reviews[i].id] # None =>
               \E n \in DOMAIN C :
                 \A m \in DOMAIN C : IsHunkOf(C[m], reviews[i].id) <=> m = n
      BY <1>1, ListCollected DEF IInv, CollectedOK, HunksOf
    <3> HIDE DEF C, id
    <3> QED
      BY <1>1, <2>3, <3>1 DEF id
  <2> HIDE DEF C, id
  <2>5. IsHunkOf(C[ClampedHunk(FindHunk(C, id), Len(C)) + 1], id)
    BY <1>1, <2>4, FoundHunk DEF id
  <2> QED
    BY <2>2, <2>5 DEF id
<1>2. (IInv /\ AppTypeOK) /\ (IInv /\ AppTypeOK)' /\ [NextApp]_appVars
        => [Shows]_appVars
  BY <1>1
<1>3. EntryShowsSelected <=> [][Shows]_appVars
  BY PTL DEF EntryShowsSelected
<1> HIDE DEF Shows
<1> QED
  BY <1>2, <1>3, AppInvariant, PTL DEF SpecApp

---------------------------------------------------------------------------
(* The discussion summary: its cursor.                                     *)

(* A summary at hand: not empty, the cursor on one of its items.           *)
SummaryState == [groups : Seq(FileGroup) \ {<<>>}, item : Nat, scroll : Nat]

IsSummary(s) == s \in SummaryState /\ s.item < Len(Items(s.groups))

(* The row of the item is among those the body shows.                      *)
ItemShown(s, height) ==
  LET lines == Lines(s.groups)
      end   == Smaller(s.scroll + height, Len(lines))
      root  == Items(s.groups)[s.item + 1].root
  IN \E n \in (s.scroll + 1)..end : lines[n] = <<"Item", root>>

(* adjust_scroll scrolls to the row the item is drawn in.                  *)
LEMMA MovedItemShown ==
  ASSUME NEW s, IsSummary(s), NEW height \in Nat \ {0},
         NEW item \in Nat, item < Len(Items(s.groups)),
         NEW t, t = [s EXCEPT
                       !.item = item,
                       !.scroll = SummaryScroll(s.groups, item, s.scroll, height)]
  PROVE  IsSummary(t) /\ ItemShown(t, height)
<1> DEFINE groups == s.groups
           row == RowOfItem(groups, item)
           from == s.scroll
           scroll0 == SummaryScroll(groups, item, from, height)
           lines == Lines(groups)
<1>1. /\ s \in SummaryState /\ groups \in Seq(FileGroup) \ {<<>>}
      /\ from \in Nat
  BY DEF IsSummary, SummaryState
<1>2. Ids \in SUBSET Nat /\ None \notin Nat
  BY DiscussionAssumption
<1>3. /\ row \in Nat /\ row + 1 \in 1..Len(lines)
      /\ lines[row + 1] = <<"Item", Items(groups)[item + 1].root>>
  <2>1. item < Len(Items(groups))
    OBVIOUS
  <2> HIDE DEF groups
  <2> QED
    BY <1>1, <1>2, <2>1, RowShowsItem
<1>4. Len(lines) \in Nat
  <2> HIDE DEF groups
  <2> QED
    BY <1>1, <1>2, FirstItemRow, LenProperties
<1>5. scroll0 = IF row < from THEN row
                ELSE IF row > from + height - 1 THEN Minus(row, height - 1)
                ELSE from
  <2>1. row # None
    BY <1>2, <1>3
  <2> QED
    BY <2>1 DEF SummaryScroll
<1> HIDE DEF row, lines, scroll0, from
<1>6. scroll0 \in Nat /\ scroll0 <= row /\ row < scroll0 + height
  <2>1. from \in Nat /\ row \in Nat
    BY <1>1, <1>3
  <2>2. CASE row < from
    BY <1>5, <2>1, <2>2
  <2>3. CASE ~(row < from) /\ row > from + height - 1
    <3>1. scroll0 = row - (height - 1)
      BY <1>5, <2>1, <2>3 DEF Minus
    <3> QED
      BY <2>1, <2>3, <3>1
  <2>4. CASE ~(row < from) /\ ~(row > from + height - 1)
    BY <1>5, <2>1, <2>4
  <2> QED
    BY <2>2, <2>3, <2>4
<1>7. /\ t \in SummaryState /\ t.groups = groups
      /\ t.item = item /\ t.scroll = scroll0
  <2>1. t = [s EXCEPT !.item = item, !.scroll = scroll0]
    BY DEF scroll0, from
  <2> QED
    BY <1>1, <1>6, <2>1 DEF SummaryState
<1>8. row + 1 \in (scroll0 + 1)..Smaller(scroll0 + height, Len(lines))
  BY <1>3, <1>4, <1>6 DEF Smaller
<1>9. ItemShown(t, height)
  <2> HIDE DEF groups
  <2> QED
    BY <1>3, <1>7, <1>8 DEF ItemShown, lines
<1>10. IsSummary(t)
  BY <1>7 DEF IsSummary
<1> QED
  BY <1>9, <1>10

(* On top there are two headings above the first item.                     *)
LEMMA TopItemShown ==
  ASSUME NEW s, IsSummary(s), NEW height \in Nat \ {0},
         NEW t, t = [s EXCEPT !.item = 0, !.scroll = 0]
  PROVE  IsSummary(t) /\ (height >= 3 => ItemShown(t, height))
<1> DEFINE groups == s.groups
           lines == Lines(groups)
<1>1. s \in SummaryState /\ groups \in Seq(FileGroup) \ {<<>>}
  BY DEF IsSummary, SummaryState
<1>2. Ids \in SUBSET Nat
  BY ReviewListAssumption
<1>3. /\ Len(Items(groups)) \in Nat \ {0}
      /\ lines \in Seq(Drawn) /\ Len(lines) >= 3
      /\ lines[3] = <<"Item", Items(groups)[1].root>>
  <2> HIDE DEF groups
  <2> QED
    BY <1>1, <1>2, FirstItemRow
<1>4. /\ t \in SummaryState /\ t.groups = groups
      /\ t.item = 0 /\ t.scroll = 0
  BY <1>1 DEF SummaryState
<1> HIDE DEF groups, lines
<1>5. Len(lines) \in Nat
  BY <1>3, LenProperties
<1>6. height >= 3 => 3 \in (0 + 1)..Smaller(0 + height, Len(lines))
  BY <1>3, <1>5 DEF Smaller
<1>7. 0 + 1 = 1
  OBVIOUS
<1>8. height >= 3 => ItemShown(t, height)
  BY <1>3, <1>4, <1>6, <1>7 DEF ItemShown, lines
<1>9. IsSummary(t)
  BY <1>3, <1>4 DEF IsSummary
<1> QED
  BY <1>8, <1>9

(* What summary requests ask about, and what is at hand.                   *)
SummaryOK ==
  /\ asked = None \/ Conversation(asked)
  /\ summary = None \/ IsSummary(summary)
  /\ view = "PrDiscussionSummary" => IsSummary(summary)

(* The comments listed are those of a snapshot.                            *)
LEMMA ListIsConversation ==
  ASSUME Loaded
  PROVE  Conversation({reviews[i] : i \in DOMAIN reviews})
<1> DEFINE S0 == {reviews[i] : i \in DOMAIN reviews}
<1>1. PICK S \in Snapshots : reviews \in Orders(S)
  BY DEF Loaded
<1>2. /\ S \subseteq Review /\ IsFiniteSet(S)
      /\ \A r, s \in S : r.id = s.id => r = s
  BY ReviewListAssumption
<1>3. \A c \in S : c.reply \in Ids => c.reply < c.id
  BY ReviewAppAssumption
<1>4. S0 \in SUBSET S
  BY <1>1 DEF Orders
<1> HIDE DEF S0
<1>5. IsFiniteSet(S0)
  BY <1>2, <1>4, FS_Subset
<1> QED
  BY <1>2, <1>3, <1>4, <1>5 DEF Conversation, S0, Review

(* The keys of the summary reach it only where it is shown.                *)
LEMMA RoutesToSummary ==
  ASSUME NEW msg, Route(msg) = "SummaryNavigation"
  PROVE  view = "PrDiscussionSummary"
BY DEF Route, Category

(* A key keeps the cursor on an item, and the item on screen.              *)
LEMMA NavigationShows ==
  ASSUME IsSummary(summary), rows \in Nat,
         NEW msg, SummaryNavigationMsg(msg)
  PROVE  /\ IsSummary(summary') /\ UNCHANGED <<asked, view, rows>>
         /\ summary'.item # 0 \/ BodyHeight(rows) >= 3
              => ItemShown(summary', BodyHeight(rows))
<1> DEFINE height == BodyHeight(rows)
           last == Minus(ItemCount, 1)
           count == ItemCount
<1>1. height \in Nat \ {0}
  BY DEF BodyHeight, Larger, Minus
<1>2. summary.item \in Nat /\ count \in Nat \ {0}
  <2> DEFINE groups == summary.groups
  <2>1. groups \in Seq(FileGroup) \ {<<>>} /\ summary.item \in Nat
    BY DEF IsSummary, SummaryState
  <2> HIDE DEF groups
  <2>2. Ids \in SUBSET Nat
    BY ReviewListAssumption
  <2>3. Len(Items(groups)) \in Nat \ {0}
    BY <2>1, <2>2, FirstItemRow
  <2> QED
    BY <2>1, <2>3 DEF ItemCount, groups
<1>3. summary.item < count
  BY DEF IsSummary, ItemCount
<1>4. UNCHANGED <<asked, view, rows>>
  BY DEF SummaryNavigationMsg, vars
<1>5. ASSUME NEW item \in Nat, item < count, SummaryMove(item)
      PROVE  IsSummary(summary') /\ ItemShown(summary', height)
  <2>1. summary' = [summary EXCEPT
                      !.item = item,
                      !.scroll = SummaryScroll(summary.groups, item,
                                               summary.scroll, height)]
    BY <1>5 DEF SummaryMove
  <2>2. item < Len(Items(summary.groups))
    BY <1>5 DEF ItemCount
  <2> HIDE DEF height
  <2> QED
    BY <1>1, <2>1, <2>2, MovedItemShown
<1>6. ASSUME summary' = [summary EXCEPT !.item = 0, !.scroll = 0]
      PROVE  IsSummary(summary') /\ (height >= 3 => ItemShown(summary', height))
             /\ summary'.item = 0
  <2> HIDE DEF height
  <2>1. IsSummary(summary') /\ (height >= 3 => ItemShown(summary', height))
    BY <1>1, <1>6, TopItemShown
  <2>2. summary'.item = 0
    BY <1>6 DEF IsSummary, SummaryState
  <2> QED
    BY <2>1, <2>2
<1>7. \/ summary' = [summary EXCEPT !.item = 0, !.scroll = 0]
      \/ \E item : item \in Nat /\ item < count /\ SummaryMove(item)
  <2>1. \/ SummaryMove(Minus(summary.item, 1))
        \/ SummaryMove(Smaller(summary.item + 1, last))
        \/ SummaryMove(Minus(summary.item, height))
        \/ SummaryMove(Smaller(summary.item + height, last))
        \/ summary' = [summary EXCEPT !.item = 0, !.scroll = 0]
        \/ SummaryMove(last)
    BY DEF SummaryNavigationMsg
  <2> HIDE DEF height, count
  <2>2. last = count - 1
    BY <1>2 DEF Minus, count
  <2> HIDE DEF last
  <2>3. /\ Minus(summary.item, 1) \in 0..(count - 1)
        /\ Minus(summary.item, height) \in 0..(count - 1)
        /\ Smaller(summary.item + 1, last) \in 0..(count - 1)
        /\ Smaller(summary.item + height, last) \in 0..(count - 1)
        /\ last \in 0..(count - 1)
    BY <1>1, <1>2, <1>3, <2>2 DEF Minus, Smaller
  <2>4. \A item \in 0..(count - 1) : item \in Nat /\ item < count
    BY <1>2
  <2> QED
    BY <2>1, <2>3, <2>4
<1> HIDE DEF height, count
<1>8. /\ IsSummary(summary')
      /\ summary'.item # 0 \/ height >= 3 => ItemShown(summary', height)
  <2>1. CASE summary' = [summary EXCEPT !.item = 0, !.scroll = 0]
    BY <1>6, <2>1
  <2>2. CASE \E item : item \in Nat /\ item < count /\ SummaryMove(item)
    BY <1>5, <2>2
  <2> QED
    BY <1>7, <2>1, <2>2
<1> QED
  BY <1>4, <1>8 DEF height
(* Who touches a summary: the keys of its view, and the answer to the      *)
(* latest request.                                                         *)
LEMMA SummaryHandlers ==
  ASSUME NEW msg, HandleMessage(msg)
  PROVE  \/ view = "PrDiscussionSummary" /\ SummaryNavigationMsg(msg)
         \/ GenerateSummary
         \/ /\ UNCHANGED summaryVars
            /\ view' \in (Views \ {"PrDiscussionSummary"}) \cup {view}
<1> USE DEF summaryVars, Views
<1>1. CASE Route(msg) = "SummaryNavigation" /\ SummaryNavigationMsg(msg)
  BY <1>1, RoutesToSummary
<1>2. CASE NavigationMsg(msg) \/ FilterMsg(msg) \/ FilterMsg("ClearFilter")
  BY <1>2 DEF NavigationMsg, FilterMsg, overlayVars
<1>3. CASE DiffContextMsg(msg)
  BY <1>3 DEF DiffContextMsg
<1>4. CASE PrDiscussionSummaryMsg(msg)
  BY <1>4 DEF PrDiscussionSummaryMsg, OpenLink
<1>5. CASE TimeTravelMsg(msg)
  BY <1>5 DEF TimeTravelMsg
<1>6. CASE CodexMsg(msg) \/ ReplyDraftMsg(msg)
  BY <1>6 DEF CodexMsg, ReplyDraftMsg
<1>7. CASE LifecycleMsg(msg) \/ UNCHANGED appVars
  BY <1>7 DEF LifecycleMsg, ToggleHelp, appVars, overlayVars
<1> QED
  BY <1>1, <1>2, <1>3, <1>4, <1>5, <1>6, <1>7 DEF HandleMessage

(* A request asks about the comments listed, and shows what is at hand.    *)
LEMMA GenerateKeepsSummary ==
  ASSUME IInv, SummaryOK, GenerateSummary
  PROVE  SummaryOK' /\ summary' = summary
<1>1. Conversation({reviews[i] : i \in DOMAIN reviews})
  BY ListIsConversation DEF IInv
<1> DEFINE listed == {reviews[i] : i \in DOMAIN reviews}
<1>2. \/ UNCHANGED <<view, asked>>
      \/ view' = "PrDiscussionSummary" /\ summary # None /\ UNCHANGED asked
      \/ asked' = listed /\ UNCHANGED view
  BY DEF GenerateSummary
<1>3. summary' = summary
  BY DEF GenerateSummary
<1>4. Conversation(listed)
  BY <1>1
<1> HIDE DEF listed
<1> QED
  BY <1>2, <1>3, <1>4 DEF SummaryOK

(* An answer that is accepted is about the conversation asked about.       *)
LEMMA AnswerIsSummary ==
  ASSUME SummaryOK, NEW answer \in Answers, SummaryReady(answer)
  PROVE  SummaryOK' /\ asked' # asked
<1> DEFINE groups == Summary(asked, answer)
<1>1. Conversation(asked) /\ Accepts(asked, answer)
  BY DEF SummaryReady, SummaryOK
<1>2. groups \in Seq(FileGroup) \ {<<>>}
  BY <1>1, SummaryTold, DiscussionAssumption
<1>3. summary' = [groups |-> groups, item |-> 0, scroll |-> 0]
  BY DEF SummaryReady
<1> HIDE DEF groups
<1>4. Len(Items(groups)) \in Nat \ {0}
  BY <1>2, FirstItemRow, ReviewListAssumption
<1>5. /\ summary' \in SummaryState /\ summary'.groups = groups
      /\ summary'.item = 0
  BY <1>2, <1>3 DEF SummaryState
<1>6. IsSummary(summary')
  BY <1>4, <1>5 DEF IsSummary
<1>7. asked' = None /\ asked # None
  BY DEF SummaryReady
<1> QED
  BY <1>6, <1>7 DEF SummaryOK

(* So every step keeps a summary, and the item on screen.                  *)
ItemStaysShown ==
  view = "PrDiscussionSummary" /\ summary' # summary /\ asked' = asked
       /\ (summary'.item # 0 \/ BodyHeight(rows) >= 3)
    => ItemShown(summary', BodyHeight(rows))

LEMMA StepKeepsSummary ==
  ASSUME IInv, AppTypeOK, SummaryOK, [NextApp]_appVars
  PROVE  SummaryOK' /\ ItemStaysShown
<1>1. rows \in Nat
  BY LoadedFacts DEF IInv, ListSizes
<1>2. ASSUME UNCHANGED summaryVars,
             view' \in (Views \ {"PrDiscussionSummary"}) \cup {view}
      PROVE  SummaryOK' /\ ItemStaysShown
  BY <1>2 DEF SummaryOK, ItemStaysShown, summaryVars
<1>3. ASSUME NEW msg, HandleMessage(msg)
      PROVE  SummaryOK' /\ ItemStaysShown
  <2>1. CASE view = "PrDiscussionSummary" /\ SummaryNavigationMsg(msg)
    <3>1. /\ IsSummary(summary') /\ UNCHANGED <<asked, view, rows>>
          /\ summary'.item # 0 \/ BodyHeight(rows) >= 3
               => ItemShown(summary', BodyHeight(rows))
      BY <1>1, <2>1, NavigationShows DEF SummaryOK
    <3> QED
      BY <3>1 DEF SummaryOK, ItemStaysShown
  <2>2. CASE GenerateSummary
    BY <2>2, GenerateKeepsSummary DEF ItemStaysShown
  <2> QED
    BY <1>2, <1>3, <2>1, <2>2, SummaryHandlers
<1>4. ASSUME NEW key, Press(key)
      PROVE  SummaryOK' /\ ItemStaysShown
  <2>1. \E msg : HandleMessage(msg)
    BY <1>4 DEF Press
  <2> QED
    BY <1>3, <2>1
<1>5. ASSUME NEW size \in Sizes, Resize(size[1], size[2])
      PROVE  SummaryOK' /\ ItemStaysShown
  BY <1>2, <1>5 DEF Resize
<1>6. ASSUME NEW S \in Snapshots, SyncApplies(S)
      PROVE  SummaryOK' /\ ItemStaysShown
  BY <1>2, <1>6 DEF SyncApplies
<1>7. ASSUME NEW answer \in Answers, SummaryReady(answer)
      PROVE  SummaryOK' /\ ItemStaysShown
  BY <1>7, AnswerIsSummary DEF ItemStaysShown
<1>8. CASE SummaryFailed
  BY <1>8 DEF SummaryFailed, SummaryOK, ItemStaysShown
<1>9. CASE UNCHANGED appVars
  BY <1>2, <1>9 DEF appVars, overlayVars
<1> QED
  BY <1>4, <1>5, <1>6, <1>7, <1>8, <1>9 DEF NextApp

(* The cursor of a summary is on one of its items while it is shown.       *)
THEOREM SummaryInvariant == SpecApp => []SummaryOK
<1>1. InitApp => SummaryOK
  BY DEF InitApp, SummaryOK
<1>2. IInv /\ AppTypeOK /\ SummaryOK /\ [NextApp]_appVars => SummaryOK'
  BY StepKeepsSummary
<1> QED
  BY <1>1, <1>2, AppInvariant, PTL DEF SpecApp

(* Moving in the summary keeps the item on screen                          *)
(* (pr_discussion_summary_state.rs, adjust_scroll).                        *)
THEOREM SummarySafety == SpecApp => CursorItemOnScreen
<1>1. IInv /\ AppTypeOK /\ SummaryOK /\ [NextApp]_appVars
        => [ItemStaysShown]_appVars
  BY StepKeepsSummary
<1> QED
  BY <1>1, AppInvariant, SummaryInvariant, PTL
  DEF SpecApp, CursorItemOnScreen, ItemStaysShown, ItemShown
=============================================================================
