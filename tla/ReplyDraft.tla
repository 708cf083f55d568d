---------------------------- MODULE ReplyDraft ----------------------------
(***************************************************************************)
(* Inline reply drafting and AI rewriting in the review TUI:               *)
(* src/src/tui/app/reply_draft_handlers.rs and tui/state/reply_draft.rs.   *)
(*                                                                         *)
(* The update loop handles one message at a time.  Keystrokes edit the     *)
(* draft; `E' and `W' start a rewrite on a background task that holds a    *)
(* copy of the text it was asked about and answers some messages later.    *)
(* Meanwhile the user keeps typing, cancels or starts other drafts, a      *)
(* background sync moves the selection, and a finished discussion summary  *)
(* takes over the screen.                                                  *)
(*                                                                         *)
(* A text is a sequence over Chars.  Message wording, rendering and the    *)
(* two rewrite modes (which only choose a prompt) are abstracted.          *)
(***************************************************************************)
EXTENDS Option, Naturals, Sequences

CONSTANTS
  CommentIds,   \* ids of review comments
  Chars,        \* characters the user may type
  BlankChars,   \* the white space among them
  MaxLength,    \* reply_max_length of the configuration
  Templates,    \* the texts configured templates render to
  Outputs,      \* the trimmed texts the rewriting model may answer with
  MaxRequests   \* bound: rewrite requests issued in one behaviour

Draft   == [comment: CommentIds, text: Seq(Chars), origin: BOOLEAN,
            ready: BOOLEAN]
Preview == [original: Seq(Chars), rewritten: Seq(Chars)]
Task    == [id: Nat, comment: CommentIds, source: Seq(Chars)]

ASSUME ReplyDraftAssumption ==
  /\ BlankChars \subseteq Chars
  /\ MaxLength \in Nat \ {0}
  /\ MaxRequests \in Nat
  /\ Templates \subseteq Seq(Chars)
  /\ Outputs \subseteq Seq(Chars)
  /\ None \notin CommentIds \cup Nat
  /\ None \notin Draft
  /\ None \notin Preview

VARIABLES
  visible,    \* ids in the filtered comment list
  selected,   \* id under the cursor, None when the list is empty
  view,       \* view_mode, diff context and time travel as one
  draft,      \* reply_draft
  preview,    \* reply_draft_ai_preview
  inFlight,   \* in_flight_ai_rewrite_request_id
  nextId,     \* next_ai_rewrite_request_id
  tasks,      \* rewrite tasks whose answer has not been handled yet
  summary,    \* the discussion summary: "Absent", "Due" from a task, "Held"
  error       \* whether an error banner is shown

draftVars == <<draft, preview, inFlight>>
listVars  == <<visible, selected, view, summary>>
vars      == <<listVars, draftVars, nextId, tasks, error>>

IsBlank(text) == \A i \in 1..Len(text) : text[i] \in BlankChars
Fits(text)    == Len(text) <= MaxLength

(* active_reply_draft_mut; input_context offers the drafting keys only then *)
HasActiveDraft == draft # None /\ draft.comment = selected
DraftKeys      == view = "ReviewList" /\ selected # None /\ HasActiveDraft
ListKeys       == view = "ReviewList" /\ ~(selected # None /\ HasActiveDraft)

Init ==
  /\ visible \in SUBSET CommentIds
  /\ selected \in IF visible = {} THEN {None} ELSE visible
  /\ view = "ReviewList"
  /\ draft = None
  /\ preview = None
  /\ inFlight = None
  /\ nextId = 1
  /\ tasks = {}
  /\ summary = "Absent"
  /\ error = FALSE

---------------------------------------------------------------------------
(* Keys of the reply-draft context.                                        *)

(* Mutants of CommitEdit: the old preview, or the old request, survives. *)
CommitEditKeepingPreview(d) ==
  draft' = d /\ inFlight' = None /\ error' = FALSE /\ UNCHANGED preview

CommitEditKeepingRequest(d) ==
  draft' = d /\ preview' = None /\ error' = FALSE /\ UNCHANGED inFlight

(* The success path shared by every edit: previews and answers to come     *)
(* were about the old text.                                                *)
CommitEdit(d) ==
  /\ draft' = d
  /\ preview' = None
  /\ inFlight' = None
  /\ error' = FALSE

RejectEdit ==
  /\ error' = TRUE
  /\ UNCHANGED draftVars

StartReplyDraft ==
  /\ ListKeys
  /\ IF selected = None
       THEN RejectEdit
       ELSE CommitEdit([comment |-> selected, text |-> <<>>,
                        origin |-> FALSE, ready |-> FALSE])
  /\ UNCHANGED <<listVars, nextId, tasks>>

(* Mutant: the label outlives the text it was made on. *)
ManualEditKeepingLabel(text) ==
  [draft EXCEPT !.text = text, !.ready = FALSE]

ManualEdit(text) ==
  [draft EXCEPT !.text = text, !.origin = FALSE, !.ready = FALSE]

(* append_text: an empty suffix succeeds without marking a manual edit *)
AppendText(suffix) ==
  IF suffix = <<>> THEN CommitEdit(draft)
  ELSE IF Fits(draft.text \o suffix)
         THEN CommitEdit(ManualEdit(draft.text \o suffix))
         ELSE RejectEdit

InsertChar(c) ==
  /\ DraftKeys
  /\ IF Fits(Append(draft.text, c))
       THEN CommitEdit(ManualEdit(Append(draft.text, c)))
       ELSE RejectEdit
  /\ UNCHANGED <<listVars, nextId, tasks>>

InsertTemplate(rendered) ==
  /\ DraftKeys
  /\ AppendText(rendered)
  /\ UNCHANGED <<listVars, nextId, tasks>>

(* an unconfigured slot, or a template that fails to render *)
InsertTemplateFails ==
  /\ DraftKeys
  /\ RejectEdit
  /\ UNCHANGED <<listVars, nextId, tasks>>

Backspace ==
  /\ DraftKeys
  /\ CommitEdit(ManualEdit(IF draft.text = <<>> THEN <<>>
                           ELSE SubSeq(draft.text, 1, Len(draft.text) - 1)))
  /\ UNCHANGED <<listVars, nextId, tasks>>

RequestSend ==
  /\ DraftKeys
  /\ IF ~IsBlank(draft.text) /\ Fits(draft.text)
       THEN CommitEdit([draft EXCEPT !.ready = TRUE])
       ELSE RejectEdit
  /\ UNCHANGED <<listVars, nextId, tasks>>

CancelReplyDraft ==
  /\ DraftKeys
  /\ CommitEdit(None)
  /\ UNCHANGED <<listVars, nextId, tasks>>

---------------------------------------------------------------------------
(* AI rewriting.                                                           *)

RequestAiRewrite ==
  /\ DraftKeys
  /\ nextId <= MaxRequests
  /\ IF IsBlank(draft.text)
       THEN RejectEdit /\ UNCHANGED <<nextId, tasks>>
       ELSE /\ tasks' = tasks \cup {[id |-> nextId, comment |-> selected,
                                     source |-> draft.text]}
            /\ nextId' = nextId + 1
            /\ inFlight' = nextId
            /\ preview' = None
            /\ error' = FALSE
            /\ UNCHANGED draft
  /\ UNCHANGED listVars

(* handle_ai_rewrite_ready, once the id is the one in flight *)
AcceptGenerated(output) ==
  /\ inFlight' = None
  /\ IF selected # None /\ HasActiveDraft
       THEN /\ preview' = [original |-> draft.text, rewritten |-> output]
            /\ error' = FALSE
       ELSE error' = TRUE /\ UNCHANGED preview
  /\ UNCHANGED draft

(* Mutant: a failed request is never closed. *)
AcceptFallbackStillWaiting ==
  preview' = None /\ error' = TRUE /\ UNCHANGED <<draft, inFlight>>

AcceptFallback ==
  /\ inFlight' = None
  /\ preview' = None
  /\ error' = TRUE
  /\ UNCHANGED draft

(* A task's answer is handled.  The summary view swallows reply-draft      *)
(* messages; elsewhere an answer to a superseded request is ignored.       *)
AiRewriteReady(t) ==
  /\ t \in tasks
  /\ tasks' = tasks \ {t}
  /\ IF view = "PrDiscussionSummary" \/ inFlight # t.id
       THEN UNCHANGED <<draftVars, error>>
       ELSE \/ \E output \in Outputs : AcceptGenerated(output)
            \/ AcceptFallback
  /\ UNCHANGED <<listVars, nextId>>

(* replace_text can refuse; the preview then stays *)
ApplyAiRewrite ==
  /\ DraftKeys
  /\ IF preview # None /\ Fits(preview.rewritten)
       THEN /\ draft' = [draft EXCEPT !.text = preview.rewritten,
                                      !.origin = TRUE, !.ready = FALSE]
            /\ preview' = None
            /\ error' = FALSE
            /\ UNCHANGED inFlight
       ELSE RejectEdit
  /\ UNCHANGED <<listVars, nextId, tasks>>

DiscardAiRewrite ==
  /\ DraftKeys
  /\ preview' = None
  /\ error' = FALSE
  /\ UNCHANGED <<draft, inFlight, listVars, nextId, tasks>>

---------------------------------------------------------------------------
(* The rest of the application, as drafting sees it.                       *)

(* The cursor is on some listed comment unless none is listed.             *)
Under(ids) == IF ids = {} THEN {None} ELSE ids

(* A completed sync replaces the list: apply_new_reviews keeps the         *)
(* selected comment when it is still listed, else clamps the cursor.       *)
SyncReplacesReviews ==
  /\ visible' \in SUBSET CommentIds
  /\ selected' \in IF selected \in visible' THEN {selected} ELSE Under(visible')
  /\ error' = FALSE
  /\ UNCHANGED <<view, summary, draftVars, nextId, tasks>>

(* Cursor keys work only outside the drafting context. *)
Navigate ==
  /\ ListKeys
  /\ selected' \in visible
  /\ UNCHANGED <<visible, view, summary, draftVars, nextId, tasks, error>>

(* So do the filter keys; the cursor keeps its row, not its comment. *)
ChangeFilter ==
  /\ ListKeys
  /\ visible' \in SUBSET CommentIds
  /\ selected' \in Under(visible')
  /\ UNCHANGED <<view, summary, draftVars, nextId, tasks, error>>

(* `c' opens the diff context, `t' on a comment opens time travel.         *)
OpenDetail ==
  /\ ListKeys
  /\ view' = "Detail"
  /\ \/ UNCHANGED error
     \/ selected # None /\ error' = FALSE
  /\ UNCHANGED <<visible, selected, summary, draftVars, nextId, tasks>>

CloseDetail ==
  /\ view = "Detail"
  /\ view' = "ReviewList"
  /\ UNCHANGED <<visible, selected, summary, draftVars, nextId, tasks, error>>

(* `s' asks a background task for a summary, or shows the one it has.      *)
RequestSummary ==
  /\ ListKeys
  /\ IF summary = "Held"
       THEN view' = "PrDiscussionSummary" /\ UNCHANGED summary
       ELSE summary' = "Due" /\ UNCHANGED view
  /\ error' = FALSE
  /\ UNCHANGED <<visible, selected, draftVars, nextId, tasks>>

(* A summary that is ready takes the screen, whatever is on it. *)
SummaryArrives ==
  /\ summary = "Due"
  /\ \/ summary' = "Held" /\ view' = "PrDiscussionSummary" /\ error' = FALSE
     \/ summary' = "Absent" /\ error' = TRUE /\ UNCHANGED view
  /\ UNCHANGED <<visible, selected, draftVars, nextId, tasks>>

HideSummary ==
  /\ view = "PrDiscussionSummary"
  /\ view' = "ReviewList"
  /\ error' = FALSE
  /\ UNCHANGED <<visible, selected, summary, draftVars, nextId, tasks>>

(* Enter on a summary item clears the filter, then selects its comment or, *)
(* when a sync has removed it, reports that and stays.                     *)
OpenSummaryLink ==
  /\ view = "PrDiscussionSummary"
  /\ visible' \in {ids \in SUBSET CommentIds : visible \subseteq ids}
  /\ selected' \in Under(visible')
  /\ \/ selected' # None /\ view' = "ReviewList" /\ error' = FALSE
     \/ error' = TRUE /\ UNCHANGED view
  /\ UNCHANGED <<summary, draftVars, nextId, tasks>>

DraftEdit ==
  \/ StartReplyDraft \/ Backspace \/ RequestSend \/ CancelReplyDraft
  \/ InsertTemplateFails
  \/ \E c \in Chars : InsertChar(c)
  \/ \E text \in Templates : InsertTemplate(text)

AiMessage ==
  \/ RequestAiRewrite \/ ApplyAiRewrite \/ DiscardAiRewrite
  \/ \E t \in tasks : AiRewriteReady(t)

Environment ==
  \/ SyncReplacesReviews \/ Navigate \/ ChangeFilter
  \/ OpenDetail \/ CloseDetail
  \/ RequestSummary \/ SummaryArrives \/ HideSummary \/ OpenSummaryLink

Next == DraftEdit \/ AiMessage \/ Environment

Spec == Init /\ [][Next]_vars

(* Every task ends in a message (a join error becomes a fallback), and the *)
(* update loop drains its queue.                                           *)
FairSpec == Spec /\ WF_vars(\E t \in tasks : AiRewriteReady(t))

---------------------------------------------------------------------------
TypeOK ==
  /\ visible \subseteq CommentIds
  /\ selected \in CommentIds \cup {None}
  /\ view \in {"ReviewList", "Detail", "PrDiscussionSummary"}
  /\ draft \in Draft \cup {None}
  /\ preview \in Preview \cup {None}
  /\ inFlight \in Nat \cup {None}
  /\ nextId \in Nat
  /\ tasks \subseteq Task
  /\ summary \in {"Absent", "Due", "Held"}
  /\ error \in BOOLEAN

(* A preview on screen compares the rewrite with the text the draft holds  *)
(* now: accepting it can never undo typing the user did after asking.      *)
PreviewIsCurrent ==
  preview # None => draft # None /\ preview.original = draft.text

(* The answer still awaited was asked about the draft as it is now, text   *)
(* and comment: a late answer for an edited, cancelled or restarted draft  *)
(* can no longer be accepted (request ids in handle_ai_rewrite_ready).     *)
AwaitedAnswerIsCurrent ==
  \A t \in tasks :
    inFlight = t.id => /\ draft # None
                       /\ t.source = draft.text
                       /\ t.comment = draft.comment

(* Waiting and previewing exclude each other. *)
AwaitingExcludesPreview == inFlight = None \/ preview = None

(* The AI-originated label is worn only by the unedited words of the       *)
(* model (mark_manual_edit drops it).                                      *)
LabelMeansModelOutput ==
  draft # None /\ draft.origin => draft.text \in Outputs

(* Whatever the source of the text (typing, template, model), the draft    *)
(* respects the limit, and a draft marked ready is worth sending.          *)
SendableDraft ==
  draft # None => /\ Fits(draft.text)
                  /\ draft.ready => ~IsBlank(draft.text)

(* Readiness never survives a change of the text it was given for, nor the *)
(* replacement of the draft by one for another comment.                    *)
ReadinessIsPerText ==
  [][(draft # None /\ draft' # None /\ draft'.ready) =>
       /\ draft'.text = draft.text
       /\ draft'.comment = draft.comment]_vars

(* An answer that is still to come arrives as long as the summary view     *)
(* stays closed.  While it is open the routing drops the answer, and the   *)
(* request then stays in flight until the next edit.                       *)
Awaited(id) == inFlight = id /\ \E t \in tasks : t.id = id

AwaitedAnswerArrives ==
  \A id \in 1..MaxRequests :
    [](Awaited(id) /\ [](view # "PrDiscussionSummary") => <>(inFlight # id))
===========================================================================
