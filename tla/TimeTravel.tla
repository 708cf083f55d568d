----------------------------- MODULE TimeTravel -----------------------------
(***************************************************************************)
(* Time travel and the other full-screen views of the review TUI:          *)
(* src/src/tui/app/time_travel_handlers/, routing.rs,                      *)
(* pr_discussion_summary_handlers.rs, diff_context_handlers.rs, and the    *)
(* library they drive, src/src/time_travel/.                               *)
(*                                                                         *)
(* `t' opens a session: a background task loads the commit a comment was   *)
(* made on and the history before it; `h' and `l' start tasks that load a  *)
(* neighbour.  Until they answer, the user may leave, enter again for      *)
(* another comment, or see the screen taken by a discussion summary.       *)
(*                                                                         *)
(* A commit stands for its snapshot of the file; git is the function Log.  *)
(***************************************************************************)
EXTENDS Option, Naturals, Integers, Sequences, SequencesExt

CONSTANTS
  Comments,     \* review comments
  Commits,      \* commits of the local repository
  CommitOf,     \* the commit of a comment; None when it lacks sha or path
  Log,          \* the commits reachable from a commit, most recent first
  Limit,        \* commit_history_limit
  MaxSessions,  \* bound: time-travel sessions
  MaxSummaries  \* bound: summary requests

Views == {"ReviewList", "DiffContext", "TimeTravel", "PrDiscussionSummary"}
Travellable == {c \in Comments : CommitOf[c] # None}

(* The direction of a navigation, as what it adds to the index.            *)
Next1     == -1
Previous1 == 1

State == [comment: Travellable, history: Seq(Commits), index: Nat,
          snapshot: Commits \cup {None}, loading: BOOLEAN, failed: BOOLEAN]

(* A load has no state to start from.                                      *)
Task == [session: Nat, comment: Travellable, from: State \cup {None},
         step: {Next1, Previous1}]

ASSUME TimeTravelAssumption ==
  /\ CommitOf \in [Comments -> Commits \cup {None}]
  /\ Log \in [Commits -> Seq(Commits)]
  /\ \A k \in Commits : /\ Log[k] # <<>> /\ Log[k][1] = k
                        /\ \A i, j \in 1..Len(Log[k]) :
                             Log[k][i] = Log[k][j] => i = j
  /\ Limit \in Nat
  /\ None \notin Commits \cup Comments
  /\ None \notin State
  /\ None \notin Nat
  /\ MaxSessions \in Nat /\ MaxSummaries \in Nat

VARIABLES
  view,         \* view_mode
  selected,     \* the comment under the cursor
  error,        \* whether an error banner is shown
  state,        \* time_travel_state
  active,       \* active_time_travel_session_id
  nextSession,  \* next_time_travel_session_id
  tasks,        \* loads and navigations that have not answered yet
  summary,      \* the request the discussion summary held came from
  inFlight,     \* in_flight_pr_discussion_summary_request_id
  nextSummary,  \* next_pr_discussion_summary_request_id
  summarizing   \* summary requests that have not answered yet

travelVars  == <<state, active, nextSession, tasks>>
summaryVars == <<summary, inFlight, nextSummary, summarizing>>
vars == <<view, selected, error, travelVars, summaryVars>>

Init ==
  /\ view = "ReviewList"
  /\ selected \in Comments \cup {None}
  /\ error = FALSE
  /\ state = None /\ active = None /\ nextSession = 1 /\ tasks = {}
  /\ summary = None /\ inFlight = None /\ nextSummary = 1
  /\ summarizing = {}

---------------------------------------------------------------------------
(* The library: src/src/time_travel/.                                      *)

(* synchronize_snapshot_index: where the snapshot is in the history, or    *)
(* the index asked for, with an error, when it is not there.               *)
Synchronized(commit, history, index) ==
  IF Contains(history, commit)
    THEN [index |-> (CHOOSE i \in 1..Len(history) : history[i] = commit) - 1,
          failed |-> FALSE]
    ELSE [index |-> IF history = <<>> THEN 0
                    ELSE IF index < Len(history) THEN index
                    ELSE Len(history) - 1,
          failed |-> history # <<>>]

NewState(comment, commit, history, index) ==
  LET place == Synchronized(commit, history, index)
  IN [comment |-> comment, history |-> history, index |-> place.index,
      snapshot |-> commit, loading |-> FALSE, failed |-> place.failed]

Placeholder(comment) ==
  [comment |-> comment, history |-> <<>>, index |-> 0, snapshot |-> None,
   loading |-> TRUE, failed |-> FALSE]

(* load_time_travel_state: at least one commit of history *)
Loaded(comment) ==
  LET log   == Log[CommitOf[comment]]
      limit == IF Limit = 0 THEN 1 ELSE Limit
  IN NewState(comment, CommitOf[comment],
              SubSeq(log, 1, IF Len(log) < limit THEN Len(log) ELSE limit), 0)

(* Mutants: going back past the oldest commit; moving while loading.       *)
CanNavigatePastEnd(s, step) ==
  /\ ~s.loading
  /\ s.index + step \in 0..Len(s.history)

CanNavigateLoading(s, step) == s.index + step \in 0..(Len(s.history) - 1)

(* can_go_next, can_go_previous *)
CanNavigate(s, step) ==
  /\ ~s.loading
  /\ s.index + step \in 0..(Len(s.history) - 1)

(* Mutant: the neighbour of the neighbour. *)
TargetOffByOne(s, step) ==
  IF s.index + 1 + 2 * step \in 1..Len(s.history)
    THEN s.history[s.index + 1 + 2 * step] ELSE None

(* next_commit_sha, previous_commit_sha *)
Target(s, step) ==
  IF s.index + 1 + step \in 1..Len(s.history)
    THEN s.history[s.index + 1 + step] ELSE None

---------------------------------------------------------------------------
(* Time-travel messages.                                                   *)

(* `t' in any view but the summary, time travel itself included.           *)
EnterTimeTravel ==
  /\ view \in {"ReviewList", "DiffContext", "TimeTravel"}
  /\ IF selected \in Travellable
       THEN /\ nextSession <= MaxSessions
            /\ nextSession' = nextSession + 1
            /\ active' = nextSession
            /\ state' = Placeholder(selected)
            /\ view' = "TimeTravel"
            /\ tasks' = tasks \cup
                 {[session |-> nextSession, comment |-> selected,
                   from |-> None, step |-> Previous1]}
            /\ UNCHANGED error
       ELSE error' = TRUE /\ UNCHANGED <<view, travelVars>>
  /\ UNCHANGED <<selected, summaryVars>>

ExitTimeTravel ==
  /\ view = "TimeTravel"
  /\ state' = None
  /\ active' = None
  /\ view' = "ReviewList"
  /\ UNCHANGED <<selected, error, nextSession, tasks, summaryVars>>

(* `h' and `l': the task gets the state as it was before it is marked.     *)
NavigateCommit(step) ==
  /\ view = "TimeTravel"
  /\ state # None /\ CanNavigate(state, step) /\ active # None
  /\ tasks' = tasks \cup {[session |-> active, comment |-> state.comment,
                            from |-> state, step |-> step]}
  /\ state' = [state EXCEPT !.loading = TRUE]
  /\ UNCHANGED <<view, selected, error, active, nextSession, summaryVars>>

(* is_active_time_travel_session; the summary view drops all answers *)
IsActive(t) == view = "TimeTravel" /\ active = t.session

(* Mutant: loads for the comment selected when the answer comes. *)
TaskSucceedsForSelected(t) ==
  /\ tasks' = tasks \ {t}
  /\ IF ~IsActive(t) THEN UNCHANGED state
     ELSE IF t.from = None /\ selected \in Travellable
       THEN state' = Loaded(selected)
     ELSE IF t.from = None \/ ~CanNavigate(t.from, t.step)
       THEN UNCHANGED state
       ELSE state' = NewState(t.comment, Target(t.from, t.step),
                              t.from.history, t.from.index + t.step)
  /\ UNCHANGED <<view, selected, error, active, nextSession, summaryVars>>

(* navigate_time_travel_state answers nothing when it cannot move.         *)
TaskSucceeds(t) ==
  /\ tasks' = tasks \ {t}
  /\ IF ~IsActive(t) THEN UNCHANGED state
     ELSE IF t.from = None THEN state' = Loaded(t.comment)
     ELSE IF ~CanNavigate(t.from, t.step) \/ Target(t.from, t.step) = None
       THEN UNCHANGED state
       ELSE state' = NewState(t.comment, Target(t.from, t.step),
                              t.from.history, t.from.index + t.step)
  /\ UNCHANGED <<view, selected, error, active, nextSession, summaryVars>>

(* A commit or file that is not there, or a task that panics.              *)
TaskFails(t) ==
  /\ tasks' = tasks \ {t}
  /\ IF ~IsActive(t) THEN UNCHANGED <<state, error, view>>
     ELSE IF state # None
       THEN /\ state' = [state EXCEPT !.failed = TRUE, !.loading = FALSE]
            /\ UNCHANGED <<error, view>>
       ELSE /\ error' = TRUE
            /\ view' = "ReviewList"
            /\ UNCHANGED state
  /\ UNCHANGED <<selected, active, nextSession, summaryVars>>

---------------------------------------------------------------------------
(* The discussion summary.                                                 *)

(* `s': the summary held is shown again unless a request is under way,     *)
(* which a new one supersedes.  Without comments there is only an error.   *)
GenerateSummary ==
  /\ view = "ReviewList"
  /\ \/ error' = TRUE /\ UNCHANGED <<view, summaryVars>>
     \/ /\ inFlight = None /\ summary # None
        /\ view' = "PrDiscussionSummary"
        /\ error' = FALSE
        /\ UNCHANGED summaryVars
     \/ /\ inFlight # None \/ summary = None
        /\ nextSummary <= MaxSummaries
        /\ nextSummary' = nextSummary + 1
        /\ inFlight' = nextSummary
        /\ summarizing' = summarizing \cup {nextSummary}
        /\ error' = FALSE
        /\ UNCHANGED <<view, summary>>
  /\ UNCHANGED <<selected, travelVars>>

(* Mutant: the answer to a superseded request is shown. *)
SummaryReadyUnchecked(id) ==
  /\ summarizing' = summarizing \ {id}
  /\ inFlight' = None
  /\ summary' = id
  /\ view' = "PrDiscussionSummary"
  /\ error' = FALSE
  /\ UNCHANGED <<selected, nextSummary, travelVars>>

(* The answer to the latest request takes the screen from any view.        *)
SummaryReady(id) ==
  /\ summarizing' = summarizing \ {id}
  /\ IF inFlight = id
       THEN /\ inFlight' = None
            /\ summary' = id
            /\ view' = "PrDiscussionSummary"
            /\ error' = FALSE
       ELSE UNCHANGED <<inFlight, summary, view, error>>
  /\ UNCHANGED <<selected, nextSummary, travelVars>>

SummaryFailed(id) ==
  /\ summarizing' = summarizing \ {id}
  /\ IF inFlight = id THEN inFlight' = None /\ error' = TRUE
     ELSE UNCHANGED <<inFlight, error>>
  /\ UNCHANGED <<view, selected, summary, nextSummary, travelVars>>

HideSummary ==
  /\ view = "PrDiscussionSummary"
  /\ view' = "ReviewList"
  /\ error' = FALSE
  /\ UNCHANGED <<selected, travelVars, summaryVars>>

(* Enter clears the filter and selects the comment linked to, if it exists.*)
OpenSummaryLink ==
  /\ view = "PrDiscussionSummary"
  /\ selected' \in Comments \cup {None}
  /\ \/ selected' # None /\ view' = "ReviewList" /\ error' = FALSE
     \/ error' = TRUE /\ UNCHANGED view
  /\ UNCHANGED <<travelVars, summaryVars>>

---------------------------------------------------------------------------
(* The rest of the application.                                            *)

ShowDiffContext ==
  /\ view \in {"ReviewList", "DiffContext"}
  /\ view' = "DiffContext"
  /\ UNCHANGED <<selected, error, travelVars, summaryVars>>

HideDiffContext ==
  /\ view = "DiffContext"
  /\ view' = "ReviewList"
  /\ UNCHANGED <<selected, error, travelVars, summaryVars>>

(* Cursor and filter keys reach the list only in its own view.             *)
MoveSelection ==
  /\ view = "ReviewList"
  /\ selected' \in Comments \cup {None}
  /\ UNCHANGED <<view, error, travelVars, summaryVars>>

(* A completed sync keeps the view, whatever it does to the selection.     *)
SyncCompletes ==
  /\ selected' \in Comments \cup {None}
  /\ error' = FALSE
  /\ UNCHANGED <<view, travelVars, summaryVars>>

Answers == \E t \in tasks : TaskSucceeds(t) \/ TaskFails(t)

Next ==
  \/ EnterTimeTravel \/ ExitTimeTravel
  \/ \E step \in {Next1, Previous1} : NavigateCommit(step)
  \/ Answers
  \/ GenerateSummary \/ HideSummary \/ OpenSummaryLink
  \/ \E id \in summarizing : SummaryReady(id) \/ SummaryFailed(id)
  \/ ShowDiffContext \/ HideDiffContext
  \/ MoveSelection \/ SyncCompletes

Spec == Init /\ [][Next]_vars

(* Every task ends, and its message is handled (git is local; a panic in a *)
(* task is a failure).                                                     *)
FairSpec == Spec /\ \A n \in 1..MaxSessions :
  WF_vars(\E t \in tasks : t.session = n /\ (TaskSucceeds(t) \/ TaskFails(t)))

---------------------------------------------------------------------------
TypeOK ==
  /\ view \in Views
  /\ selected \in Comments \cup {None}
  /\ error \in BOOLEAN
  /\ state \in State \cup {None}
  /\ active \in Nat \cup {None}
  /\ nextSession \in Nat
  /\ tasks \subseteq Task
  /\ summary \in Nat \cup {None}
  /\ inFlight \in Nat \cup {None}
  /\ nextSummary \in Nat
  /\ summarizing \subseteq Nat

(* While the time-travel view is on screen it has a state to show and a    *)
(* session to accept answers for, so that record_time_travel_error never   *)
(* has to fall back on leaving it.  The session waits for at most one      *)
(* answer, and only while it says it is loading; a navigation under way    *)
(* started from the commit on screen, so that its answer cannot take the   *)
(* user anywhere but one commit away.                                      *)
OneAnswerAwaited ==
  view = "TimeTravel" =>
    /\ state # None /\ active # None /\ active < nextSession
    /\ \A s, t \in tasks : s.session = active =>
         /\ state.loading
         /\ t.session = active => s = t
         /\ s.from # None => s.from = [state EXCEPT !.loading = FALSE]

(* The view never turns to another comment unless the user enters again:   *)
(* answers of earlier sessions are refused.                                *)
SessionKeepsComment ==
  [][active' = active /\ state # None /\ state' # None =>
       state'.comment = state.comment]_vars

(* Within a session, a loaded view moves by one commit of its history at a *)
(* time, in the direction asked for, its index and snapshot together; a    *)
(* failure leaves it where it is.                                          *)
NavigationIsOneStep ==
  [][(active' = active /\ state # None /\ state' # None) =>
       IF state.snapshot = None \/ state'.index = state.index
         THEN \/ state'.snapshot = state.snapshot
              \/ state' = Loaded(state.comment)
         ELSE /\ state'.history = state.history
              /\ \E t \in tasks \ tasks' :
                   state'.index = state.index + t.step
              /\ state'.snapshot = state.history[state'.index + 1]]_vars

(* Requests for the discussion summary, among everything else that goes on *)
(* on screen, are numbered requests of which the latest counts: a summary  *)
(* is only replaced by the answer to the request waited for, never by one  *)
(* asked for earlier (handle_summary_ready, handle_summary_failed).        *)
SummarySlot ==
  INSTANCE RequestSlot WITH
    Places <- {"summary"},
    issued <- nextSummary - 1,
    open   <- inFlight,
    shown  <- [p \in {"summary"} |-> summary]

SummaryRequestsAreNumbered == SummarySlot!SpecSlot

(* The view does not stay on "Loading...".                                 *)
LoadingEnds ==
  (view = "TimeTravel" /\ state.loading)
    ~> (view # "TimeTravel" \/ ~state.loading)
=============================================================================
