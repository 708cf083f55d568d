----------------------------- MODULE ReviewApp ------------------------------
(***************************************************************************)
(* The update loop of the TUI: what a key means where it is pressed, which *)
(* handler a message reaches in which view, and the views that lie over    *)
(* the review list (src/src/tui/input.rs, messages/classification.rs,      *)
(* app/routing.rs, app/model_impl.rs, app/lifecycle_handlers.rs,           *)
(* app/diff_context_handlers.rs, state/diff_context.rs,                    *)
(* app/pr_discussion_summary_handlers.rs, _state.rs).                      *)
(*                                                                         *)
(* The list is that of ReviewList, the summary that of Discussion.  Of the *)
(* reply draft, the resume prompt and time travel only their existence is  *)
(* kept here: they decide which keys mean what.  ReplyDraft, CodexSession  *)
(* and TimeTravel have the rest, with the requests under way.              *)
(***************************************************************************)
EXTENDS ReviewList, Discussion, Sorting

CONSTANTS
  Line,      \* line_number of a comment, 0 for none
  Text,      \* diff_hunk of a comment, None if absent or blank
  Sizes      \* terminal sizes: width and height

(* GitHub numbers comments as they come, a reply after what it replies to. *)
ASSUME ReviewAppAssumption ==
  /\ Line \in [Ids -> Nat]
  /\ DOMAIN Text = Ids
  /\ Sizes \subseteq Nat \X Rows
  /\ \A S \in Snapshots : \A c \in S : c.reply \in Ids => c.reply < c.id

VARIABLES
  view,      \* view_mode
  help,      \* show_help
  prompt,    \* resume_prompt is shown
  draft,     \* the comment reply_draft is for
  hunks,     \* diff_context_state: the hunks collected,
  hunk,      \*   current_index,
  hunkWidth, \*   and cached_width
  columns,   \* terminal width
  asked,     \* the comments of the latest summary request under way
  summary    \* pr_discussion_summary: groups, item_cursor, scroll_offset

diffVars    == <<hunks, hunk, hunkWidth>>
summaryVars == <<asked, summary>>
overlayVars == <<view, help, prompt, draft, diffVars, columns, summaryVars>>
appVars     == <<vars, overlayVars>>

(* selected_comment: the comment on the row of the cursor *)
Current == IdOnRow(cursor, filtered, reviews)

InitApp ==
  /\ Init
  /\ columns \in {size[1] : size \in Sizes} /\ <<columns, rows>> \in Sizes
  /\ view = "ReviewList" /\ help = FALSE /\ prompt = FALSE /\ draft = None
  /\ hunks = <<>> /\ hunk = 0 /\ hunkWidth = 0
  /\ asked = None /\ summary = None

---------------------------------------------------------------------------
(* Keys, each with its message.  One key stands for its synonyms (j for    *)
(* Down, g for Home).                                                      *)

SharedKeys ==
  {<<"q", "Quit">>, <<"j", "CursorDown">>, <<"k", "CursorUp">>,
   <<"PgDn", "PageDown">>, <<"PgUp", "PageUp">>, <<"g", "Home">>,
   <<"G", "End">>, <<"f", "CycleFilter">>, <<"Esc", "EscapePressed">>,
   <<"r", "RefreshRequested">>, <<"?", "ToggleHelp">>,
   <<"c", "ShowDiffContext">>, <<"t", "EnterTimeTravel">>,
   <<"[", "PreviousHunk">>, <<"]", "NextHunk">>}

(* A context's own keys, and the shared ones it has no use of its own for. *)
WithShared(own) ==
  own \cup {binding \in SharedKeys : \A other \in own : other[1] # binding[1]}

ReviewListKeys ==
  WithShared({<<"x", "StartCodexExecution">>,
              <<"s", "GeneratePrDiscussionSummary">>,
              <<"a", "StartReplyDraft">>, <<"v", "VerifySelectedComment">>,
              <<"V", "VerifyFilteredComments">>})

TimeTravelKeys ==
  WithShared({<<"h", "PreviousCommit">>, <<"l", "NextCommit">>,
              <<"Esc", "ExitTimeTravel">>})

DiffContextKeys == WithShared({<<"Esc", "HideDiffContext">>})

ResumePromptKeys ==
  {<<"y", "ResumeAccepted">>, <<"n", "ResumeDeclined">>,
   <<"Esc", "ResumeDeclined">>, <<"q", "Quit">>}

SummaryKeys ==
  {<<"Enter", "OpenSelectedPrDiscussionSummaryLink">>,
   <<"Esc", "HidePrDiscussionSummary">>}
  \cup {binding \in SharedKeys :
          binding[1] \in {"q", "j", "k", "PgDn", "PgUp", "g", "G", "?"}}

(* Every character but the commands is text. *)
ReplyDraftKeys ==
  {<<"Enter", "ReplyDraftRequestSend">>, <<"Backspace", "ReplyDraftBackspace">>,
   <<"Esc", "ReplyDraftCancel">>, <<"E", "ReplyDraftRequestAiRewrite">>,
   <<"Y", "ReplyDraftAiApply">>, <<"N", "ReplyDraftAiDiscard">>,
   <<"1", "ReplyDraftInsertTemplate">>}
  \cup {<<binding[1], "ReplyDraftInsertChar">> :
           binding \in {b \in ReviewListKeys :
                           b[1] \notin {"PgDn", "PgUp", "Esc"}}}

KeysOf ==
  [ReviewList |-> ReviewListKeys, ReplyDraft |-> ReplyDraftKeys,
   TimeTravel |-> TimeTravelKeys, DiffContext |-> DiffContextKeys,
   PrDiscussionSummary |-> SummaryKeys, ResumePrompt |-> ResumePromptKeys]

(* Mutant: the view decides before the prompt and the draft do. *)
InputContextOfView == view

(* input_context *)
InputContext ==
  IF prompt THEN "ResumePrompt"
  ELSE IF view = "ReviewList" /\ draft # None /\ draft = Current
    THEN "ReplyDraft"
  ELSE view

---------------------------------------------------------------------------
(* Messages and the handlers they reach.                                   *)

(* AppMsg::category *)
Category(msg) ==
  CASE msg \in {"CursorUp", "CursorDown", "PageUp", "PageDown", "Home",
                "End"} -> "Navigation"
    [] msg \in {"ClearFilter", "CycleFilter"} -> "Filter"
    [] msg \in {"ShowDiffContext", "HideDiffContext", "NextHunk",
                "PreviousHunk"} -> "DiffContext"
    [] msg \in {"EnterTimeTravel", "ExitTimeTravel", "NextCommit",
                "PreviousCommit"} -> "TimeTravel"
    [] msg \in {"StartCodexExecution", "ResumeAccepted", "ResumeDeclined"} ->
         "Codex"
    [] msg \in {"StartReplyDraft", "ReplyDraftRequestSend",
                "ReplyDraftBackspace", "ReplyDraftCancel",
                "ReplyDraftRequestAiRewrite", "ReplyDraftAiApply",
                "ReplyDraftAiDiscard", "ReplyDraftInsertTemplate",
                "ReplyDraftInsertChar"} -> "ReplyDraft"
    [] msg \in {"VerifySelectedComment", "VerifyFilteredComments"} ->
         "Verification"
    [] msg \in {"GeneratePrDiscussionSummary", "HidePrDiscussionSummary",
                "OpenSelectedPrDiscussionSummaryLink"} -> "PrDiscussionSummary"
    [] msg = "RefreshRequested" -> "Data"
    [] OTHER -> "Lifecycle"

(* route_by_view_mode, then dispatch_by_message_category *)
Route(msg) ==
  CASE view = "PrDiscussionSummary" /\ Category(msg) = "Navigation" ->
         "SummaryNavigation"
    [] view = "PrDiscussionSummary"
         /\ Category(msg) \in {"Filter", "DiffContext", "TimeTravel",
                               "ReplyDraft", "Verification"} -> "Dropped"
    [] view = "TimeTravel"
         /\ Category(msg) \in {"Navigation", "Filter", "DiffContext"} ->
         "Dropped"
    [] view = "DiffContext" /\ Category(msg) \in {"Navigation", "Filter"} ->
         "Dropped"
    [] view = "ReviewList" /\ msg = "EscapePressed" -> "ClearFilter"
    [] OTHER -> Category(msg)

NavigationMsg(msg) ==
  /\ \/ msg = "CursorUp" /\ MoveUp(1)
     \/ msg = "CursorDown" /\ MoveDown(1)
     \/ msg = "PageUp" /\ MoveUp(visible)
     \/ msg = "PageDown" /\ MoveDown(visible)
     \/ msg = "Home" /\ Home
     \/ msg = "End" /\ GoToEnd
  /\ UNCHANGED overlayVars

FilterMsg(msg) ==
  /\ \/ msg = "ClearFilter" /\ ClearFilter
     \/ msg = "CycleFilter" /\ CycleFilter
  /\ UNCHANGED overlayVars

---------------------------------------------------------------------------
(* The diff context: the hunks of the comments listed, one at a time.      *)

(* collect_diff_hunks: the first comment of each hunk of a file stands for *)
(* it; a stable sort by path and line.                                     *)
CollectHunks(list, cache) ==
  LET shown  == {i \in cache : Text[list[i].id] # None}
      Same(i, j) == /\ File[list[i].id] = File[list[j].id]
                    /\ Text[list[i].id] = Text[list[j].id]
      firsts == {i \in shown : \A j \in shown : Same(i, j) => i <= j}
      Before(i, j) ==
        \/ File[list[i].id] < File[list[j].id]
        \/ /\ File[list[i].id] = File[list[j].id]
           /\ \/ Line[list[i].id] < Line[list[j].id]
              \/ Line[list[i].id] = Line[list[j].id] /\ i <= j
      order  == Sorted(firsts, Before)
  IN [n \in DOMAIN order |->
        [file |-> File[list[order[n]].id], line |-> Line[list[order[n]].id],
         text |-> Text[list[order[n]].id]]]

IsHunkOf(h, id) == h.text = Text[id] /\ h.file = File[id]

(* Mutant: the file is not compared. *)
FindHunkByText(collected, id) ==
  IF id # None /\ \E n \in DOMAIN collected : collected[n].text = Text[id]
    THEN (CHOOSE n \in DOMAIN collected : collected[n].text = Text[id]) - 1
    ELSE 0

(* find_hunk_index, from 0 *)
FindHunk(collected, id) ==
  IF id # None /\ \E n \in DOMAIN collected : IsHunkOf(collected[n], id)
    THEN (CHOOSE n \in DOMAIN collected : IsHunkOf(collected[n], id)) - 1
    ELSE 0

ClampedHunk(index, count) ==
  IF count = 0 THEN 0 ELSE Smaller(index, count - 1)

(* rebuild_diff_context_state: from the list and the selection as they are *)
(* by now, back to the hunk of the selected comment.                       *)
RebuildDiffContext ==
  /\ hunks' = CollectHunks(reviews', filtered')
  /\ hunk' = ClampedHunk(FindHunk(hunks', IdOnRow(cursor', filtered', reviews')),
                         Len(hunks'))
  /\ hunkWidth' = columns'

DiffContextMsg(msg) ==
  /\ \/ /\ msg = "ShowDiffContext"
        /\ UNCHANGED columns
        /\ view' = "DiffContext"
        /\ UNCHANGED vars
        /\ RebuildDiffContext
     \/ /\ msg = "HideDiffContext"
        /\ view' = "ReviewList"
        /\ UNCHANGED <<vars, diffVars, columns>>
     \/ /\ msg = "NextHunk"
        /\ hunk' = IF hunks = <<>> THEN hunk
                   ELSE ClampedHunk(hunk + 1, Len(hunks))
        /\ UNCHANGED <<vars, view, hunks, hunkWidth, columns>>
     \/ /\ msg = "PreviousHunk"
        /\ hunk' = IF hunks = <<>> THEN hunk ELSE Minus(hunk, 1)
        /\ UNCHANGED <<vars, view, hunks, hunkWidth, columns>>
  /\ UNCHANGED <<help, prompt, draft, summaryVars>>

---------------------------------------------------------------------------
(* The discussion summary: items of a summary that may be of a list the    *)
(* syncs have changed since, with a link each.                             *)

ItemCount == Len(Items(summary.groups))

(* The rows a full-screen view has: all but header and status bar. *)
BodyHeight(height) == Larger(Minus(height, 2), 1)

(* Mutant: the row is that of the item, without the headings above it. *)
SummaryScrollToItem(groups, item, from, height) ==
  IF item < from THEN item
  ELSE IF item > from + height - 1 THEN Minus(item, height - 1)
  ELSE from

(* adjust_scroll *)
SummaryScroll(groups, item, from, height) ==
  LET row == RowOfItem(groups, item)
  IN IF row = None THEN 0
     ELSE IF row < from THEN row
     ELSE IF row > from + height - 1 THEN Minus(row, height - 1)
     ELSE from

SummaryMove(item) ==
  summary' = [summary EXCEPT
    !.item = item,
    !.scroll = SummaryScroll(summary.groups, item, @, BodyHeight(rows))]

(* handle_pr_discussion_summary_navigation *)
SummaryNavigationMsg(msg) ==
  /\ LET page == BodyHeight(rows)
         last == Minus(ItemCount, 1)
     IN \/ msg = "CursorUp" /\ SummaryMove(Minus(summary.item, 1))
        \/ msg = "CursorDown" /\ SummaryMove(Smaller(summary.item + 1, last))
        \/ msg = "PageUp" /\ SummaryMove(Minus(summary.item, page))
        \/ msg = "PageDown" /\ SummaryMove(Smaller(summary.item + page, last))
        \/ msg = "Home"
             /\ summary' = [summary EXCEPT !.item = 0, !.scroll = 0]
        \/ msg = "End" /\ SummaryMove(last)
  /\ UNCHANGED <<vars, view, help, prompt, draft, diffVars, columns, asked>>

(* Without a comment nothing is asked; a summary at hand is shown again,   *)
(* unless another is under way.                                            *)
GenerateSummary ==
  /\ IF reviews = <<>> THEN UNCHANGED <<view, asked>>
     ELSE IF asked = None /\ summary # None
       THEN view' = "PrDiscussionSummary" /\ UNCHANGED asked
     ELSE /\ asked' = {reviews[i] : i \in DOMAIN reviews}
          /\ UNCHANGED view
  /\ UNCHANGED <<vars, help, prompt, draft, diffVars, columns, summary>>

(* open_selected_pr_discussion_summary_link: the filter is cleared, and    *)
(* the view left if the comment is still there.                            *)
OpenLink ==
  /\ LET id == Items(summary.groups)[summary.item + 1].root
     IN /\ OpenSummaryLink(id)
        /\ view' = IF \E i \in DOMAIN reviews : reviews[i].id = id
                     THEN "ReviewList" ELSE view
  /\ UNCHANGED <<help, prompt, draft, diffVars, columns, summaryVars>>

PrDiscussionSummaryMsg(msg) ==
  \/ msg = "GeneratePrDiscussionSummary" /\ GenerateSummary
  \/ msg = "OpenSelectedPrDiscussionSummaryLink" /\ OpenLink
  \/ /\ msg = "HidePrDiscussionSummary"
     /\ view' = "ReviewList"
     /\ UNCHANGED <<vars, help, prompt, draft, diffVars, columns, summaryVars>>

(* The answer to the latest request; one the service refuses is an error. *)
SummaryReady(answer) ==
  /\ asked # None
  /\ Accepts(asked, answer)
  /\ summary' = [groups |-> Summary(asked, answer),
                 item |-> 0, scroll |-> 0]
  /\ asked' = None
  /\ view' = "PrDiscussionSummary"
  /\ UNCHANGED <<vars, help, prompt, draft, diffVars, columns>>

SummaryFailed ==
  /\ asked # None
  /\ asked' = None
  /\ UNCHANGED <<vars, view, help, prompt, draft, diffVars, columns, summary>>

---------------------------------------------------------------------------
(* The other handlers, as far as they decide what keys mean.               *)

(* Entering time travel is refused without a comment, a commit or a        *)
(* repository.                                                             *)
TimeTravelMsg(msg) ==
  /\ \/ /\ msg = "EnterTimeTravel"
        /\ view' \in {view} \cup IF Current = None THEN {} ELSE {"TimeTravel"}
     \/ msg = "ExitTimeTravel" /\ view' = "ReviewList"
     \/ msg \in {"NextCommit", "PreviousCommit"} /\ UNCHANGED view
  /\ UNCHANGED <<vars, help, prompt, draft, diffVars, columns, summaryVars>>

(* An interrupted session is found, or not; resuming it works, or not.     *)
CodexMsg(msg) ==
  /\ \/ msg \in {"StartCodexExecution", "ResumeAccepted"} /\ prompt' \in BOOLEAN
     \/ msg = "ResumeDeclined" /\ prompt' = FALSE
  /\ UNCHANGED <<vars, view, help, draft, diffVars, columns, summaryVars>>

ReplyDraftMsg(msg) ==
  /\ draft' = IF msg = "StartReplyDraft" /\ Current # None THEN Current
              ELSE IF msg = "ReplyDraftCancel" THEN None
              ELSE draft
  /\ UNCHANGED <<vars, view, help, prompt, diffVars, columns, summaryVars>>

ToggleHelp ==
  /\ help' = ~help
  /\ UNCHANGED <<vars, view, prompt, draft, diffVars, columns, summaryVars>>

(* Quit asks the runtime to end the program. *)
LifecycleMsg(msg) ==
  \/ msg = "ToggleHelp" /\ ToggleHelp
  \/ msg # "ToggleHelp" /\ UNCHANGED appVars

(* handle_message, for the messages keys are mapped to.  Verifying and     *)
(* refreshing start tasks.                                                 *)
HandleMessage(msg) ==
  \/ Route(msg) = "Navigation" /\ NavigationMsg(msg)
  \/ Route(msg) = "SummaryNavigation" /\ SummaryNavigationMsg(msg)
  \/ Route(msg) = "Filter" /\ FilterMsg(msg)
  \/ Route(msg) = "ClearFilter" /\ FilterMsg("ClearFilter")
  \/ Route(msg) = "DiffContext" /\ DiffContextMsg(msg)
  \/ Route(msg) = "PrDiscussionSummary" /\ PrDiscussionSummaryMsg(msg)
  \/ Route(msg) = "TimeTravel" /\ TimeTravelMsg(msg)
  \/ Route(msg) = "Codex" /\ CodexMsg(msg)
  \/ Route(msg) = "ReplyDraft" /\ ReplyDraftMsg(msg)
  \/ Route(msg) = "Lifecycle" /\ LifecycleMsg(msg)
  \/ Route(msg) \in {"Data", "Verification", "Dropped"} /\ UNCHANGED appVars

(* update, for a key: with the help open, any key closes it. *)
Press(key) ==
  IF help THEN HandleMessage("ToggleHelp")
  ELSE \E binding \in KeysOf[InputContext] :
         key = binding[1] /\ HandleMessage(binding[2])

(* handle_resize: the diff context is rendered again for another width;    *)
(* the summary keeps its scroll offset.                                    *)
Resize(width, height) ==
  /\ WindowResized(height)
  /\ columns' = width
  /\ IF view = "DiffContext" /\ hunkWidth # width
       THEN RebuildDiffContext ELSE UNCHANGED diffVars
  /\ UNCHANGED <<view, help, prompt, draft, summaryVars>>

(* Mutant: the diff context keeps the hunks of the list it was opened on. *)
SyncAppliesToList(S) == ApplyNewReviews(S) /\ UNCHANGED overlayVars

(* apply_new_reviews, in any view *)
SyncApplies(S) ==
  /\ ApplyNewReviews(S)
  /\ UNCHANGED columns
  /\ IF view = "DiffContext" THEN RebuildDiffContext ELSE UNCHANGED diffVars
  /\ UNCHANGED <<view, help, prompt, draft, summaryVars>>

AllKeys ==
  UNION {{binding[1] : binding \in KeysOf[context]} : context \in DOMAIN KeysOf}

NextApp ==
  \/ \E key \in AllKeys : Press(key)
  \/ \E size \in Sizes : Resize(size[1], size[2])
  \/ \E S \in Snapshots : SyncApplies(S)
  \/ \E answer \in Answers : SummaryReady(answer)
  \/ SummaryFailed

SpecApp == InitApp /\ [][NextApp]_appVars

---------------------------------------------------------------------------
(* Only where the list has the keyboard do keys move its cursor, change    *)
(* its filter or its scroll offset: not in a draft, under the prompt or in *)
(* a full-screen view.  The exception is a link of the summary, which      *)
(* leads to its own comment, or, when that is gone, stays where it is.     *)
OnlyListKeysMoveList ==
  [][<<cursor, filter, scroll, selected>>' # <<cursor, filter, scroll, selected>>
       /\ reviews' = reviews /\ <<rows, columns>>' = <<rows, columns>>
       => /\ ~help /\ ~prompt
          /\ \/ view = "ReviewList" /\ (draft = None \/ draft # Current)
             \/ view = "PrDiscussionSummary"
          /\ view = "PrDiscussionSummary" =>
               LET id == Items(summary.groups)[summary.item + 1].root
               IN \/ view' = "ReviewList" /\ selected' = id
                  \/ /\ view' = view
                     /\ \A n \in DOMAIN reviews : reviews[n].id # id
    ]_appVars

(* Moving in the summary keeps the item on screen: the row it scrolls to   *)
(* is the one the component draws it on (with Home, if there is room for   *)
(* the headings above the first).                                          *)
CursorItemOnScreen ==
  [][view = "PrDiscussionSummary" /\ summary' # summary /\ asked' = asked
       /\ (summary'.item # 0 \/ BodyHeight(rows) >= 3)
       => LET lines == Lines(summary'.groups)
              end   == Smaller(summary'.scroll + BodyHeight(rows), Len(lines))
              root  == Items(summary'.groups)[summary'.item + 1].root
          IN \E n \in (summary'.scroll + 1)..end : lines[n] = <<"Item", root>>]_appVars

(* The diff context is over the hunks of the comments listed now, each of  *)
(* them once, whatever syncs and resizes do meanwhile; entering it shows   *)
(* the hunk of the selected comment.                                       *)
DiffContextIsCurrent ==
  view = "DiffContext" =>
    /\ hunks # <<>> => hunk < Len(hunks)
    /\ \A n \in DOMAIN hunks : \E i \in filtered : IsHunkOf(hunks[n], reviews[i].id)
    /\ \A i \in filtered : Text[reviews[i].id] # None =>
         Cardinality({n \in DOMAIN hunks : IsHunkOf(hunks[n], reviews[i].id)}) = 1

EntryShowsSelected ==
  [][view' = "DiffContext" /\ view # "DiffContext"
       /\ Current # None /\ Text[Current] # None
       => IsHunkOf(hunks'[hunk' + 1], Current)]_appVars
===========================================================================
