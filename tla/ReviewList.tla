----------------------------- MODULE ReviewList -----------------------------
(***************************************************************************)
(* The review list of the TUI: comments, active filter, cached filter      *)
(* result, cursor, scroll offset and the id of the selected comment        *)
(* (src/src/tui/app/navigation.rs, filter_handlers.rs, layout.rs,          *)
(* sync_handlers.rs, state/filter_state.rs, tui/sync.rs).                  *)
(*                                                                         *)
(* These six are kept apart in the code and have to agree after every key, *)
(* resize and background sync: the list is rendered from the cache between *)
(* scroll and scroll + visible without further checks, and the selected id *)
(* is what drafts, diff context and time travel act on.                    *)
(***************************************************************************)
EXTENDS Option, CommentIds, Naturals, Sequences, FiniteSets

CONSTANTS
  Tags,       \* values of the attribute filters look at (file, author, sha)
  Snapshots,  \* the sets of comments the API may return
  Rows        \* terminal heights

Review == [id: Ids, reply: Ids \cup {None}, tag: Tags]

(* ByFile and ByReviewer accept one value, ByCommitRange both its ends     *)
(* (the range is never walked, so nothing between them).                   *)
Filters == [kind: {"All", "Unresolved"}, from: {None}, to: {None}]
           \cup [kind: {"Tagged"}, from: Tags, to: Tags]
AllFilter  == [kind |-> "All", from |-> None, to |-> None]
Unresolved == [kind |-> "Unresolved", from |-> None, to |-> None]

ASSUME ReviewListAssumption ==
  /\ Ids \subseteq Nat
  /\ None \notin Ids /\ None \notin Tags
  /\ Rows \subseteq Nat
  /\ \A S \in Snapshots :
       /\ S \subseteq Review /\ IsFiniteSet(S)
       /\ \A r, s \in S : r.id = s.id => r = s

VARIABLES
  reviews,   \* the comments, in list order
  filter,    \* active_filter
  filtered,  \* filtered_indices: the positions in reviews that match
  cursor,    \* cursor_position: a row of the filtered list, from 0
  scroll,    \* scroll_offset: the first row on screen
  visible,   \* visible_height of the list component
  rows,      \* terminal height
  selected   \* selected_comment_id

vars == <<reviews, filter, filtered, cursor, scroll, visible, rows, selected>>

Larger(a, b)  == IF a < b THEN b ELSE a
Smaller(a, b) == IF a < b THEN a ELSE b
Minus(a, b)   == IF a < b THEN 0 ELSE a - b   \* saturating_sub

---------------------------------------------------------------------------
(* Mutant: comments deleted on the server stay. *)
MergeReviewsKeepingDeleted(S) ==
  LET kept == {r \in {reviews[i] : i \in DOMAIN reviews} :
                 \A s \in S : s.id # r.id}
  IN [i \in 1..Cardinality(S \cup kept) |->
        CHOOSE r \in S \cup kept :
          Cardinality({s \in S \cup kept : s.id < r.id}) = i - 1]

(* merge_reviews: what was fetched, sorted by id *)
MergeReviews(S) ==
  [i \in 1..Cardinality(S) |->
     CHOOSE r \in S : Cardinality({s \in S : s.id < r.id}) = i - 1]

(* The first list is kept in the order the API returned it. *)
Orders(S) ==
  {list \in [1..Cardinality(S) -> S] :
     \A i, j \in DOMAIN list : list[i] = list[j] => i = j}

(* ReviewFilter::matches *)
Matches(f, list, i) ==
  CASE f.kind = "All" -> TRUE
    [] f.kind = "Unresolved" ->
         /\ list[i].reply = None
         /\ \A j \in DOMAIN list : list[j].reply # list[i].id
    [] f.kind = "Tagged" -> list[i].tag \in {f.from, f.to}

Matching(f, list) == {i \in DOMAIN list : Matches(f, list, i)}

(* The row of an index in the cached filter result, and the id on a row.   *)
RowOf(i, cache) == Cardinality({j \in cache : j < i})

IdOnRow(row, cache, list) ==
  IF \E i \in cache : RowOf(i, cache) = row
    THEN list[CHOOSE i \in cache : RowOf(i, cache) = row].id
    ELSE None

(* calculate_list_height, with CHROME_HEIGHT 4, MIN_DETAIL_HEIGHT 2 and    *)
(* MIN_LIST_HEIGHT 1.                                                      *)
ListHeight(count, height) ==
  Larger(Smaller(Larger(count, 1), Minus(Minus(height, 4), 2)), 1)

(* adjust_scroll_to_cursor *)
ScrollTo(row, from, height) ==
  IF row < from THEN row
  ELSE IF row >= from + height THEN Minus(row, Minus(height, 1))
  ELSE from

(* clamp_cursor *)
ClampedCursor(row, count)   == IF count = 0 THEN 0 ELSE Smaller(row, count - 1)
ClampedScroll(first, count) == IF count = 0 THEN 0 ELSE first

(* Moving the cursor always adjusts the scroll offset and then reads the   *)
(* selected id back from the cursor.                                       *)
(* Mutant: the selected id is left as it was. *)
PlaceWithoutUpdate(row, first) ==
  /\ cursor' = row
  /\ scroll' = ScrollTo(row, first, visible')
  /\ UNCHANGED selected

(* Mutant: the scroll offset is left as it was. *)
PlaceWithoutScroll(row, first) ==
  /\ cursor' = row
  /\ scroll' = first
  /\ selected' = IdOnRow(row, filtered', reviews')

Place(row, first) ==
  /\ cursor' = row
  /\ scroll' = ScrollTo(row, first, visible')
  /\ selected' = IdOnRow(row, filtered', reviews')

(* rebuild_filter_cache *)
Rebuild(f, list) ==
  /\ filtered' = Matching(f, list)
  /\ visible' = ListHeight(Cardinality(filtered'), rows)

Init ==
  /\ \E S \in Snapshots : reviews \in Orders(S)
  /\ filter = AllFilter
  /\ filtered = DOMAIN reviews
  /\ cursor = 0
  /\ scroll = 0
  /\ rows \in Rows
  /\ visible = ListHeight(Len(reviews), rows)
  /\ selected = IF reviews = <<>> THEN None ELSE reviews[1].id

---------------------------------------------------------------------------
(* Navigation keys.                                                        *)

Count == Cardinality(filtered)

MoveUp(step) ==
  /\ UNCHANGED <<reviews, filter, filtered, visible, rows>>
  /\ Place(Minus(cursor, step), scroll)

MoveDown(step) ==
  /\ UNCHANGED <<reviews, filter, filtered, visible, rows>>
  /\ Place(Smaller(cursor + step, Minus(Count, 1)), scroll)

Home ==
  /\ UNCHANGED <<reviews, filter, filtered, visible, rows>>
  /\ Place(0, 0)

GoToEnd ==
  /\ UNCHANGED <<reviews, filter, filtered, visible, rows>>
  /\ Place(Minus(Count, 1), Minus(Minus(Count, 1), Minus(visible, 1)))

---------------------------------------------------------------------------
(* Filters, terminal size, sync.                                           *)

(* The cursor keeps its row, within the new list. *)
SetFilter(f) ==
  /\ UNCHANGED <<reviews, rows>>
  /\ filter' = f
  /\ Rebuild(f, reviews)
  /\ LET count == Cardinality(filtered')
     IN Place(ClampedCursor(cursor, count), ClampedScroll(scroll, count))

ClearFilter == SetFilter(AllFilter)

CycleFilter == SetFilter(IF filter = AllFilter THEN Unresolved ELSE AllFilter)

(* A link of the discussion summary clears the filter and selects its      *)
(* comment, if it still exists.                                            *)
OpenSummaryLink(id) ==
  /\ UNCHANGED <<reviews, rows>>
  /\ filter' = AllFilter
  /\ Rebuild(AllFilter, reviews)
  /\ IF \E i \in filtered' : reviews[i].id = id
       THEN \E i \in filtered' :
              /\ reviews[i].id = id
              /\ Place(RowOf(i, filtered'), scroll)
       ELSE LET count == Cardinality(filtered')
            IN Place(ClampedCursor(cursor, count), ClampedScroll(scroll, count))

(* handle_resize *)
WindowResized(height) ==
  /\ rows' = height
  /\ visible' = ListHeight(Count, height)
  /\ cursor' = cursor
  /\ scroll' = ScrollTo(cursor, scroll, visible')
  /\ UNCHANGED <<reviews, filter, filtered, selected>>

(* Mutant: the cursor keeps its row when comments come and go above it. *)
ApplyNewReviewsByRow(S) ==
  /\ UNCHANGED <<filter, rows>>
  /\ reviews' = MergeReviews(S)
  /\ Rebuild(filter, reviews')
  /\ LET count == Cardinality(filtered')
     IN Place(ClampedCursor(cursor, count), ClampedScroll(scroll, count))

(* apply_new_reviews: the cursor follows the selected comment, and is      *)
(* clamped when that is no longer listed.                                  *)
ApplyNewReviews(S) ==
  /\ UNCHANGED <<filter, rows>>
  /\ reviews' = MergeReviews(S)
  /\ Rebuild(filter, reviews')
  /\ IF selected = None
       THEN Place(cursor, scroll)
       ELSE IF \E i \in filtered' : reviews'[i].id = selected
         THEN \E i \in filtered' :
                /\ reviews'[i].id = selected
                /\ Place(RowOf(i, filtered'), scroll)
         ELSE LET count == Cardinality(filtered')
              IN Place(ClampedCursor(cursor, count),
                       ClampedScroll(scroll, count))

Keys ==
  \/ MoveUp(1) \/ MoveDown(1)
  \/ MoveUp(visible) \/ MoveDown(visible)
  \/ Home \/ GoToEnd
  \/ ClearFilter \/ CycleFilter
  \/ \E f \in Filters : SetFilter(f)
  \/ \E id \in Ids : OpenSummaryLink(id)
  \/ \E height \in Rows : WindowResized(height)

Next == Keys \/ \E S \in Snapshots : ApplyNewReviews(S)

Spec == Init /\ [][Next]_vars

---------------------------------------------------------------------------
TypeOK ==
  /\ \E S \in Snapshots : reviews \in Orders(S)
  /\ filter \in Filters
  /\ filtered \subseteq DOMAIN reviews
  /\ cursor \in Nat /\ scroll \in Nat /\ visible \in Nat \ {0}
  /\ rows \in Rows
  /\ selected \in Ids \cup {None}

(* The tracked id is that of the comment a fresh evaluation of the filter  *)
(* on the current list puts under the cursor, never one that is no longer  *)
(* listed: drafts, diff context and time travel act on what the user sees. *)
SelectionFollowsCursor ==
  /\ filtered = Matching(filter, reviews)
  /\ selected = IdOnRow(cursor, filtered, reviews)
  /\ selected = None <=> Count = 0

(* The rows ReviewListComponent::view draws: the list height is worked out *)
(* again at that moment, and end - start must not be negative.             *)
RenderedEnd == Smaller(scroll + ListHeight(Count, rows), Count)

(* The row the cursor is on is drawn, in every view of the list.           *)
CursorOnScreen ==
  IF Count = 0 THEN cursor = 0
  ELSE scroll <= RenderedEnd /\ cursor \in scroll..(RenderedEnd - 1)

(* A sync never moves the user to another comment while the selected one   *)
(* is still listed.                                                        *)
SyncKeepsSelection ==
  [][filter' = filter /\ reviews' # reviews
       /\ (\E i \in filtered' : reviews'[i].id = selected)
       => selected' = selected]_vars
===========================================================================
