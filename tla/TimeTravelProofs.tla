-------------------------- MODULE TimeTravelProofs --------------------------
(***************************************************************************)
(* Time travel and the line mapping it shows, which verification shares.   *)
(*                                                                         *)
(* First the sessions of time travel, and the summary requests that        *)
(* compete with them for the screen: their safety for every set of         *)
(* comments, every repository, every limit of history and any number of    *)
(* sessions and requests.                                                  *)
(*                                                                         *)
(* Then lines: one is mapped to where the edit took it, and a comment gets *)
(* the verdict the edit deserves, for every edit script, however long,     *)
(* every line, every comment and every number of context lines.  The       *)
(* callbacks are a flattened sequence, a recursive function, so lines are  *)
(* counted first, then the callbacks put in their order, and then the      *)
(* cells of LineOffsetState carried through them.                          *)
(***************************************************************************)
EXTENDS TimeTravel, CommentVerdict, ListLemmas, FiniteSetTheorems,
        SequenceTheorems, TLAPS

---------------------------------------------------------------------------
(* Sessions.                                                               *)

(* A session has a state, an open view a session; sessions are numbered    *)
(* once.                                                                   *)
SessionsIssued ==
  /\ active = None <=> state = None
  /\ view = "TimeTravel" => active # None
  /\ active # None => active < nextSession
  /\ \A t \in tasks : t.session < nextSession

(* What has been asked for the present session: at most one thing, and     *)
(* about the state as it still is.                                         *)
AwaitedIn(now, t) ==
  /\ now.loading
  /\ t.comment = now.comment
  /\ IF t.from = None THEN now = Placeholder(t.comment)
     ELSE t.from = [now EXCEPT !.loading = FALSE]

AwaitedIsCurrent ==
  active # None =>
    \A s \in tasks : s.session = active =>
      /\ AwaitedIn(state, s)
      /\ \A t \in tasks : t.session = active => s = t

NoRepeats(history) ==
  \A i, j \in 1..Len(history) : history[i] = history[j] => i = j

(* What can be on screen: a history without repeats, and none as long as   *)
(* nothing is loaded.                                                      *)
Sound(s) ==
  /\ NoRepeats(s.history)
  /\ s.snapshot = None => s.history = <<>>

StateIsSound == state # None => Sound(state)

IInv ==
  /\ TypeOK
  /\ SessionsIssued
  /\ AwaitedIsCurrent
  /\ StateIsSound

---------------------------------------------------------------------------
(* The index of a commit in a history that holds it is where it stands;    *)
(* any other index is one (synchronize_snapshot_index).                    *)
LEMMA SynchronizedIndex ==
  ASSUME NEW commit, NEW history \in Seq(Commits), NEW index \in Nat
  PROVE  /\ Synchronized(commit, history, index).index \in Nat
         /\ Synchronized(commit, history, index).failed \in BOOLEAN
         /\ NoRepeats(history) =>
              \A i \in 1..Len(history) : commit = history[i] =>
                Synchronized(commit, history, index).index = i - 1
<1>1. CASE Contains(history, commit)
  <2> DEFINE at == CHOOSE i \in 1..Len(history) : history[i] = commit
  <2>1. at \in 1..Len(history) /\ history[at] = commit
    BY <1>1 DEF Contains
  <2>2. Synchronized(commit, history, index)
          = [index |-> at - 1, failed |-> FALSE]
    BY <1>1 DEF Synchronized
  <2> HIDE DEF at
  <2>3. at - 1 \in Nat
    BY <2>1, LenProperties
  <2> QED
    BY <2>1, <2>2, <2>3 DEF NoRepeats
<1>2. CASE ~Contains(history, commit)
  <2>1. Len(history) \in Nat /\ (history # <<>> => Len(history) > 0)
    BY LenProperties, EmptySeq
  <2> QED
    BY <1>2, <2>1 DEF Synchronized, Contains
<1> QED
  BY <1>1, <1>2

(* A state that is loaded is one (TimeTravelState::new). *)
LEMMA NewStateIsState ==
  ASSUME NEW about \in Travellable, NEW commit \in Commits,
         NEW history \in Seq(Commits), NEW index \in Nat
  PROVE  NewState(about, commit, history, index) \in State
BY SynchronizedIndex DEF NewState, State

(* The first state of a session is that of its comment, with the newest    *)
(* commits of the history (load_time_travel_state).                        *)
LEMMA LoadedIsState ==
  ASSUME NEW about \in Travellable
  PROVE  /\ Loaded(about) \in State
         /\ Loaded(about).comment = about
         /\ ~Loaded(about).loading
         /\ Sound(Loaded(about))
<1> DEFINE commit  == CommitOf[about]
           log     == Log[commit]
           limit   == IF Limit = 0 THEN 1 ELSE Limit
           n       == IF Len(log) < limit THEN Len(log) ELSE limit
           history == SubSeq(log, 1, n)
<1>1. commit \in Commits /\ about \in Comments
  BY TimeTravelAssumption DEF TimeTravelAssumption, Travellable
<1>2. log \in Seq(Commits) /\ NoRepeats(log)
  BY <1>1, TimeTravelAssumption DEF TimeTravelAssumption, NoRepeats
<1>3. n \in Nat /\ n <= Len(log)
  BY <1>2, LenProperties, TimeTravelAssumption DEF TimeTravelAssumption
<1>4. Loaded(about) = NewState(about, commit, history, 0)
  BY DEF Loaded
<1> HIDE DEF commit, log, n
<1>5. \A i \in 1..n : log[i] \in Commits
  BY <1>2, <1>3, LenProperties, ElementOfSeq
<1>6. /\ history \in Seq(Commits)
      /\ Len(history) = n
      /\ \A i \in 1..n : history[i] = log[i]
  BY <1>3, <1>5, SubSeqProperties
<1>7. NoRepeats(history)
  <2>1. Len(log) \in Nat
    BY <1>2, LenProperties
  <2> HIDE DEF history
  <2>2. SUFFICES ASSUME NEW i \in 1..n, NEW j \in 1..n,
                        history[i] = history[j]
                 PROVE  i = j
    BY <1>6 DEF NoRepeats
  <2>3. i \in 1..Len(log) /\ j \in 1..Len(log)
    BY <1>3, <2>1
  <2> QED
    BY <1>2, <1>6, <2>2, <2>3 DEF NoRepeats
<1> HIDE DEF history
<1>8. NewState(about, commit, history, 0) \in State
  BY <1>1, <1>6, NewStateIsState
<1>9. commit # None
  BY <1>1, TimeTravelAssumption DEF TimeTravelAssumption
<1> QED
  BY <1>4, <1>7, <1>8, <1>9 DEF NewState, Sound

(* A neighbour that exists is a commit of the history, one place from      *)
(* where one was, and leads to a state at that place (next_commit_sha,     *)
(* previous_commit_sha, navigate_time_travel_state).                       *)
LEMMA NavigationLeadsToNeighbour ==
  ASSUME NEW s \in State, NEW step \in {Next1, Previous1},
         CanNavigate(s, step), Target(s, step) # None, Sound(s)
  PROVE  LET next == NewState(s.comment, Target(s, step), s.history,
                              s.index + step)
         IN  /\ next \in State
             /\ Sound(next)
             /\ s.snapshot # None
             /\ next.index = s.index + step
             /\ next.snapshot = s.history[next.index + 1]
<1>1. s.history \in Seq(Commits) /\ s.index \in Nat /\ s.comment \in Travellable
  BY DEF State
<1>2. Len(s.history) \in Nat
  BY <1>1, LenProperties
<1>3. step \in Int /\ s.index + step \in 0..(Len(s.history) - 1)
  BY DEF CanNavigate, Next1, Previous1
<1>4. s.index + step \in Nat /\ s.index + step + 1 \in 1..Len(s.history)
  BY <1>1, <1>2, <1>3
<1>5. s.index + 1 + step = s.index + step + 1
  BY <1>1, <1>3
<1>6. Target(s, step) = s.history[s.index + step + 1]
  BY <1>4, <1>5 DEF Target
<1>7. Target(s, step) \in Commits
  BY <1>1, <1>4, <1>6, ElementOfSeq
<1> DEFINE next == NewState(s.comment, Target(s, step), s.history,
                            s.index + step)
<1>8. next \in State
  BY <1>1, <1>4, <1>7, NewStateIsState
<1>9. Synchronized(Target(s, step), s.history, s.index + step).index
        = s.index + step + 1 - 1
  BY <1>1, <1>4, <1>6, SynchronizedIndex DEF Sound
<1>10. next.index = s.index + step
  BY <1>4, <1>9 DEF NewState
<1>11. next.snapshot = Target(s, step)
  BY DEF NewState
<1>12. Sound(next)
  <2>1. next.snapshot # None
    BY <1>7, <1>11, TimeTravelAssumption DEF TimeTravelAssumption
  <2>2. next.history = s.history
    BY DEF NewState
  <2> QED
    BY <2>1, <2>2 DEF Sound
<1>13. s.snapshot # None
  BY <1>2, <1>4, EmptySeq DEF Sound
<1> QED
  BY <1>6, <1>8, <1>10, <1>11, <1>12, <1>13

---------------------------------------------------------------------------
(* Nothing is asked at the start.                                          *)
LEMMA InvInit == Init => IInv
<1> SUFFICES ASSUME Init PROVE IInv
  OBVIOUS
<1>1. TypeOK
  BY DEF Init, TypeOK, Views
<1>2. SessionsIssued /\ AwaitedIsCurrent /\ StateIsSound
  BY DEF Init, SessionsIssued, AwaitedIsCurrent, StateIsSound
<1> QED
  BY <1>1, <1>2 DEF IInv

(* The parts of the invariant that summaries, syncs and views do not       *)
(* touch: they leave time travel alone, and do not open its view.          *)
LEMMA OtherViewsKeepTravel ==
  ASSUME IInv, UNCHANGED travelVars, view' = "TimeTravel" => view = view'
  PROVE  SessionsIssued' /\ AwaitedIsCurrent' /\ StateIsSound'
<1>1. UNCHANGED <<state, active, nextSession, tasks>>
  BY DEF travelVars
<1> QED
  BY <1>1 DEF IInv, SessionsIssued, AwaitedIsCurrent, AwaitedIn,
              StateIsSound

(* Entering waits for one answer, under a number of its own, for the       *)
(* comment selected (handle_enter_time_travel). *)
LEMMA EnterKeepsInv ==
  ASSUME IInv, EnterTimeTravel
  PROVE  IInv'
<1>1. CASE selected \notin Travellable
  <2>1. UNCHANGED <<view, selected, travelVars, summaryVars>> /\ error' = TRUE
    BY <1>1 DEF EnterTimeTravel
  <2>2. TypeOK'
    BY <2>1 DEF IInv, TypeOK, travelVars, summaryVars
  <2> QED
    BY <2>1, <2>2, OtherViewsKeepTravel DEF IInv
<1>2. CASE selected \in Travellable
  <2> DEFINE task == [session |-> nextSession, comment |-> selected,
                      from |-> None, step |-> Previous1]
  <2>1. /\ nextSession' = nextSession + 1
        /\ active' = nextSession
        /\ state' = Placeholder(selected)
        /\ view' = "TimeTravel"
        /\ tasks' = tasks \cup {task}
        /\ UNCHANGED <<selected, error, summaryVars>>
    BY <1>2 DEF EnterTimeTravel
  <2>2. nextSession \in Nat
    BY DEF IInv, TypeOK
  <2>3. state' \in State /\ state' # None /\ Sound(state')
    <3>1. state' \in State
      BY <1>2, <2>1 DEF Placeholder, State
    <3>2. state'.history = <<>>
      BY <2>1 DEF Placeholder
    <3> QED
      BY <3>1, <3>2, TimeTravelAssumption
         DEF TimeTravelAssumption, Placeholder, Sound, NoRepeats
  <2>4. task \in Task
    BY <1>2, <2>2 DEF Task, Next1, Previous1
  <2>5. TypeOK'
    BY <2>1, <2>2, <2>3, <2>4 DEF IInv, TypeOK, Views, summaryVars
  <2>6. SessionsIssued'
    <3>1. \A t \in tasks : t.session \in Nat /\ t.session < nextSession
      BY DEF IInv, TypeOK, Task, SessionsIssued
    <3>2. \A t \in tasks' : t.session < nextSession'
      BY <2>1, <2>2, <3>1
    <3>3. active' # None /\ active' < nextSession'
      BY <2>1, <2>2, TimeTravelAssumption DEF TimeTravelAssumption
    <3> QED
      BY <2>3, <3>2, <3>3 DEF SessionsIssued
  <2>7. AwaitedIsCurrent'
    <3>1. \A t \in tasks' : t.session = active' => t = task
      <4>1. \A t \in tasks : t.session \in Nat /\ t.session < nextSession
        BY DEF IInv, TypeOK, Task, SessionsIssued
      <4> QED
        BY <2>1, <2>2, <4>1
    <3>2. AwaitedIn(state', task)
      BY <2>1 DEF AwaitedIn, Placeholder
    <3> QED
      BY <3>1, <3>2 DEF AwaitedIsCurrent
  <2> QED
    BY <2>3, <2>5, <2>6, <2>7 DEF IInv, StateIsSound
<1> QED
  BY <1>1, <1>2

(* A navigation is only asked for when nothing is awaited, from the state  *)
(* on screen (spawn_time_travel_navigation). *)
LEMMA NavigateKeepsInv ==
  ASSUME IInv, NEW step \in {Next1, Previous1}, NavigateCommit(step)
  PROVE  IInv'
<1> DEFINE task == [session |-> active, comment |-> state.comment,
                    from |-> state, step |-> step]
<1>1. /\ state # None /\ active # None /\ ~state.loading
      /\ tasks' = tasks \cup {task}
      /\ state' = [state EXCEPT !.loading = TRUE]
      /\ UNCHANGED <<view, selected, error, active, nextSession, summaryVars>>
  BY DEF NavigateCommit, CanNavigate
<1>2. state \in State /\ active \in Nat /\ active < nextSession
  BY <1>1 DEF IInv, TypeOK, SessionsIssued
<1>3. /\ state' \in State /\ state' # None
      /\ state'.loading /\ state'.comment = state.comment
      /\ state'.history = state.history
      /\ state = [state' EXCEPT !.loading = FALSE]
  <2>1. state' \in State
    BY <1>1, <1>2 DEF State
  <2>2. state = [state' EXCEPT !.loading = FALSE]
    BY <1>1, <1>2 DEF State
  <2> QED
    BY <1>1, <1>2, <2>1, <2>2, TimeTravelAssumption
       DEF TimeTravelAssumption, State
<1>4. TypeOK'
  <2>1. task \in Task
    BY <1>2 DEF Task, State
  <2> QED
    BY <1>1, <1>3, <2>1 DEF IInv, TypeOK, summaryVars
<1>5. SessionsIssued'
  BY <1>1, <1>2, <1>3 DEF IInv, SessionsIssued
<1>6. AwaitedIsCurrent'
  <2>1. \A t \in tasks : t.session # active
    <3>1. \A t \in tasks : t.session = active => AwaitedIn(state, t)
      BY <1>1 DEF IInv, AwaitedIsCurrent
    <3> QED
      BY <1>1, <3>1 DEF AwaitedIn
  <2>2. \A t \in tasks' : t.session = active' => t = task
    BY <1>1, <2>1
  <2>3. AwaitedIn(state', task)
    BY <1>1, <1>3 DEF AwaitedIn
  <2> QED
    BY <2>2, <2>3 DEF AwaitedIsCurrent
<1>7. StateIsSound'
  BY <1>1, <1>3 DEF IInv, StateIsSound, Sound, State
<1> QED
  BY <1>4, <1>5, <1>6, <1>7 DEF IInv

---------------------------------------------------------------------------
(* What an answer to the present session does: the first one loads the     *)
(* state of its comment, any other moves by one place.                     *)
Moved(t) ==
  \/ state' = state
  \/ state.snapshot = None /\ state' = Loaded(state.comment)
  \/ /\ t.step \in {Next1, Previous1}
     /\ state.snapshot # None
     /\ state'.history = state.history
     /\ state'.index = state.index + t.step
     /\ state'.snapshot = state.history[state'.index + 1]

(* An answer that is accepted is the one that is awaited; there is a state *)
(* for it, and nothing else is under way (is_active_time_travel_session). *)
LEMMA AcceptedIsAwaited ==
  ASSUME IInv, NEW t \in tasks, IsActive(t)
  PROVE  /\ active # None /\ state # None /\ state \in State
         /\ Sound(state)
         /\ AwaitedIn(state, t)
         /\ \A s \in tasks \ {t} : s.session # active
<1>1. active # None /\ active = t.session
  BY DEF IsActive, IInv, SessionsIssued
<1>2. state # None /\ state \in State /\ Sound(state)
  BY <1>1 DEF IInv, SessionsIssued, TypeOK, StateIsSound
<1> QED
  BY <1>1, <1>2 DEF IInv, AwaitedIsCurrent

(* A success keeps the comment, and moves by one place at most             *)
(* (handle_time_travel_loaded, handle_commit_navigated). *)
LEMMA SuccessMoves ==
  ASSUME IInv, NEW t \in tasks, TaskSucceeds(t), IsActive(t)
  PROVE  /\ state' \in State /\ state' # None
         /\ state'.comment = state.comment
         /\ Sound(state')
         /\ Moved(t)
<1>1. /\ state # None /\ state \in State
      /\ Sound(state)
      /\ AwaitedIn(state, t)
  BY AcceptedIsAwaited
<1>2. t.step \in {Next1, Previous1} /\ t.comment \in Travellable
  BY DEF IInv, TypeOK, Task
<1>3. \A s \in State : s # None
  BY TimeTravelAssumption DEF TimeTravelAssumption
<1>4. CASE t.from = None
  <2>1. state' = Loaded(t.comment)
    BY <1>4 DEF TaskSucceeds
  <2>2. state.snapshot = None /\ t.comment = state.comment
    BY <1>1, <1>4 DEF AwaitedIn, Placeholder
  <2> QED
    BY <1>2, <1>3, <2>1, <2>2, LoadedIsState DEF Moved
<1>5. CASE t.from # None /\ state' = state
  BY <1>1, <1>5 DEF Moved
<1>6. CASE t.from # None /\ state' # state
  <2>1. /\ CanNavigate(t.from, t.step) /\ Target(t.from, t.step) # None
        /\ state' = NewState(t.comment, Target(t.from, t.step),
                             t.from.history, t.from.index + t.step)
    BY <1>6 DEF TaskSucceeds
  <2>2. /\ t.from \in State
        /\ t.from.history = state.history /\ t.from.index = state.index
        /\ t.from.comment = state.comment /\ t.comment = state.comment
    BY <1>1, <1>6 DEF AwaitedIn, State
  <2>3. Sound(t.from) /\ t.from.snapshot = state.snapshot
    BY <1>1, <1>6, <2>2 DEF AwaitedIn, Sound, State
  <2>4. /\ state' \in State
        /\ Sound(state') /\ t.from.snapshot # None
        /\ state'.index = t.from.index + t.step
        /\ state'.snapshot = t.from.history[state'.index + 1]
    BY <1>2, <2>1, <2>2, <2>3, NavigationLeadsToNeighbour
  <2>5. state'.history = state.history /\ state'.comment = state.comment
    BY <2>1, <2>2 DEF NewState
  <2> QED
    BY <1>1, <1>2, <1>3, <2>2, <2>3, <2>4, <2>5 DEF Moved
<1> QED
  BY <1>4, <1>5, <1>6

(* After an answer nothing is awaited that was not awaited before: either  *)
(* it was refused and leaves the state alone, or it was the awaited one.   *)
LEMMA AnswerKeepsTravel ==
  ASSUME IInv, NEW t \in tasks, tasks' = tasks \ {t},
         UNCHANGED <<active, nextSession>>,
         view' = "TimeTravel" => view = "TimeTravel",
         \/ ~IsActive(t) /\ UNCHANGED state
         \/ IsActive(t) /\ state' # None /\ Sound(state')
  PROVE  SessionsIssued' /\ AwaitedIsCurrent' /\ StateIsSound'
<1>1. CASE ~IsActive(t) /\ UNCHANGED state
  BY <1>1 DEF IInv, SessionsIssued, AwaitedIsCurrent, StateIsSound
<1>2. CASE IsActive(t) /\ state' # None /\ Sound(state')
  <2>1. active # None /\ \A s \in tasks' : s.session # active
    BY <1>2, AcceptedIsAwaited
  <2>2. SessionsIssued'
    BY <1>2, <2>1 DEF IInv, SessionsIssued
  <2>3. AwaitedIsCurrent'
    BY <2>1 DEF AwaitedIsCurrent
  <2> QED
    BY <1>2, <2>2, <2>3 DEF StateIsSound
<1> QED
  BY <1>1, <1>2

(* A success keeps the invariant (handle_time_travel_loaded,               *)
(* handle_commit_navigated). *)
LEMMA SucceedsKeepsInv ==
  ASSUME IInv, NEW t \in tasks, TaskSucceeds(t)
  PROVE  IInv'
<1>1. /\ tasks' = tasks \ {t}
      /\ UNCHANGED <<view, selected, error, active, nextSession, summaryVars>>
      /\ ~IsActive(t) => UNCHANGED state
  BY DEF TaskSucceeds
<1>2. IsActive(t) =>
        state' \in State /\ state' # None /\ Sound(state')
  BY SuccessMoves
<1>3. TypeOK'
  BY <1>1, <1>2 DEF IInv, TypeOK, summaryVars
<1> QED
  BY <1>1, <1>2, <1>3, AnswerKeepsTravel DEF IInv

(* So does a failure, which never finds the view without a state           *)
(* (record_time_travel_error). *)
LEMMA FailsKeepsInv ==
  ASSUME IInv, NEW t \in tasks, TaskFails(t)
  PROVE  /\ IInv'
         /\ IsActive(t) =>
              state' = [state EXCEPT !.failed = TRUE, !.loading = FALSE]
<1>1. /\ tasks' = tasks \ {t}
      /\ UNCHANGED <<selected, active, nextSession, summaryVars>>
      /\ ~IsActive(t) => UNCHANGED <<state, error, view>>
  BY DEF TaskFails
<1>2. ASSUME IsActive(t)
      PROVE  /\ state \in State /\ state # None
             /\ Sound(state)
             /\ state' = [state EXCEPT !.failed = TRUE, !.loading = FALSE]
             /\ UNCHANGED <<error, view>>
  BY <1>2, AcceptedIsAwaited DEF TaskFails
<1>3. ASSUME IsActive(t)
      PROVE  state' \in State /\ state' # None /\ Sound(state')
  <2>1. /\ state' \in State
        /\ state'.history = state.history /\ state'.snapshot = state.snapshot
    BY <1>2, <1>3 DEF State
  <2> QED
    BY <1>2, <1>3, <2>1, TimeTravelAssumption
       DEF TimeTravelAssumption, Sound
<1>4. TypeOK'
  BY <1>1, <1>2, <1>3 DEF IInv, TypeOK, summaryVars
<1>5. view' = view
  BY <1>1, <1>2
<1> QED
  BY <1>1, <1>2, <1>3, <1>4, <1>5, AnswerKeepsTravel DEF IInv

(* Nothing else touches time travel (routing.rs and the handlers of the    *)
(* other views). *)
LEMMA StepKeepsInv ==
  ASSUME IInv, [Next]_vars
  PROVE  IInv'
<1>1. CASE EnterTimeTravel
  BY <1>1, EnterKeepsInv
<1>2. CASE ExitTimeTravel
  BY <1>2 DEF ExitTimeTravel, IInv, TypeOK, Views, SessionsIssued,
              AwaitedIsCurrent, StateIsSound, summaryVars
<1>3. ASSUME NEW step \in {Next1, Previous1}, NavigateCommit(step)
      PROVE  IInv'
  BY <1>3, NavigateKeepsInv
<1>4. ASSUME NEW t \in tasks, TaskSucceeds(t) \/ TaskFails(t)
      PROVE  IInv'
  BY <1>4, SucceedsKeepsInv, FailsKeepsInv
<1>5. CASE GenerateSummary
  <2>1. TypeOK'
    <3>1. /\ nextSummary \in Nat /\ summarizing \subseteq Nat
          /\ inFlight \in Nat \cup {None}
      BY DEF IInv, TypeOK
    <3>2. /\ view' \in Views /\ error' \in BOOLEAN
          /\ UNCHANGED <<selected, state, active, nextSession, tasks, summary>>
      BY <1>5 DEF GenerateSummary, IInv, TypeOK, Views, travelVars, summaryVars
    <3>3. \/ UNCHANGED <<inFlight, nextSummary, summarizing>>
          \/ /\ nextSummary' = nextSummary + 1 /\ inFlight' = nextSummary
             /\ summarizing' = summarizing \cup {nextSummary}
      BY <1>5 DEF GenerateSummary, summaryVars
    <3>4. /\ nextSummary' \in Nat /\ inFlight' \in Nat \cup {None}
          /\ summarizing' \subseteq Nat
      <4>1. CASE UNCHANGED <<inFlight, nextSummary, summarizing>>
        BY <3>1, <4>1
      <4>2. CASE /\ nextSummary' = nextSummary + 1
                 /\ inFlight' = nextSummary
                 /\ summarizing' = summarizing \cup {nextSummary}
        BY <3>1, <4>2
      <4> QED
        BY <3>3, <4>1, <4>2
    <3> QED
      BY <3>2, <3>4 DEF IInv, TypeOK
  <2>2. UNCHANGED travelVars /\ view' # "TimeTravel"
    BY <1>5 DEF GenerateSummary
  <2> QED
    BY <2>1, <2>2, OtherViewsKeepTravel DEF IInv
<1>6. ASSUME NEW id \in summarizing, SummaryReady(id)
      PROVE  IInv'
  <2>1. TypeOK'
    BY <1>6 DEF SummaryReady, IInv, TypeOK, Views, travelVars
  <2>2. UNCHANGED travelVars /\ (view' = "TimeTravel" => view = view')
    BY <1>6 DEF SummaryReady
  <2> QED
    BY <2>1, <2>2, OtherViewsKeepTravel DEF IInv
<1>7. ASSUME NEW id \in summarizing, SummaryFailed(id)
      PROVE  IInv'
  <2>1. TypeOK'
    BY <1>7 DEF SummaryFailed, IInv, TypeOK, travelVars
  <2>2. UNCHANGED <<view, travelVars>>
    BY <1>7 DEF SummaryFailed
  <2> QED
    BY <2>1, <2>2, OtherViewsKeepTravel DEF IInv
<1>8. CASE HideSummary \/ OpenSummaryLink \/ ShowDiffContext
           \/ HideDiffContext
  <2> USE <1>8 DEF HideSummary, OpenSummaryLink, ShowDiffContext,
                   HideDiffContext
  <2>1. TypeOK'
    BY DEF IInv, TypeOK, Views, travelVars, summaryVars
  <2>2. UNCHANGED travelVars /\ view' # "TimeTravel"
    OBVIOUS
  <2> QED
    BY <2>1, <2>2, OtherViewsKeepTravel DEF IInv
<1>9. CASE MoveSelection \/ SyncCompletes \/ UNCHANGED vars
  <2> USE <1>9 DEF MoveSelection, SyncCompletes, vars
  <2>1. TypeOK'
    BY DEF IInv, TypeOK, travelVars, summaryVars
  <2>2. UNCHANGED <<view, travelVars>>
    OBVIOUS
  <2> QED
    BY <2>1, <2>2, OtherViewsKeepTravel DEF IInv
<1> QED
  BY <1>1, <1>2, <1>3, <1>4, <1>5, <1>6, <1>7, <1>8, <1>9
     DEF Next, Answers

(* The types, the numbering of sessions and what each awaits always hold   *)
(* (src/src/tui/app/time_travel_handlers). *)
THEOREM TravelInvariant == Spec => []IInv
<1>1. IInv /\ [Next]_vars => IInv'
  BY StepKeepsInv
<1> QED
  BY InvInit, <1>1, PTL DEF Spec

(* Every variable keeps its type (TimeTravelState and the fields of        *)
(* ReviewApp about time travel and summaries). *)
THEOREM TravelTypeCorrect == Spec => []TypeOK
<1>1. IInv => TypeOK
  BY DEF IInv
<1> QED
  BY TravelInvariant, <1>1, PTL

(* While time travel is on screen it awaits at most one answer, about the  *)
(* state it shows; it never falls back on leaving the view                 *)
(* (spawn_time_travel_navigation, record_time_travel_error). *)
THEOREM OneAnswerSafety == Spec => []OneAnswerAwaited
<1>1. IInv => OneAnswerAwaited
  <2> SUFFICES ASSUME IInv, view = "TimeTravel"
               PROVE  OneAnswerAwaited
    BY DEF OneAnswerAwaited
  <2>1. state # None /\ active # None /\ active < nextSession
    BY DEF IInv, SessionsIssued
  <2>2. \A s \in tasks : s.session = active =>
          AwaitedIn(state, s) /\ \A t \in tasks : t.session = active => s = t
    BY <2>1 DEF IInv, AwaitedIsCurrent
  <2>3. ASSUME NEW s \in tasks, s.session = active
        PROVE  /\ state.loading
               /\ s.from # None => s.from = [state EXCEPT !.loading = FALSE]
    BY <2>2, <2>3 DEF AwaitedIn
  <2> QED
    BY <2>1, <2>2, <2>3 DEF OneAnswerAwaited
<1> QED
  BY TravelInvariant, <1>1, PTL

---------------------------------------------------------------------------
(* A step within a session leaves its state alone, marks it, or is the     *)
(* answer it awaits.                                                       *)
LEMMA SessionStep ==
  ASSUME IInv, [Next]_vars, active' = active, state # None, state' # None
  PROVE  \/ /\ state'.comment = state.comment
            /\ state'.history = state.history
            /\ state'.index = state.index
            /\ state'.snapshot = state.snapshot
         \/ /\ state'.comment = state.comment
            /\ \E t \in tasks \ tasks' : Moved(t)
<1> DEFINE Same ==
      /\ state'.comment = state.comment
      /\ state'.history = state.history
      /\ state'.index = state.index
      /\ state'.snapshot = state.snapshot
<1>1. state \in State /\ active # None /\ active \in Nat
      /\ active < nextSession
  BY DEF IInv, TypeOK, SessionsIssued
<1>2. CASE EnterTimeTravel
  <2>1. active' # nextSession \/ UNCHANGED state
    BY <1>1, <1>2 DEF IInv, TypeOK
  <2>2. active' = nextSession \/ UNCHANGED state
    BY <1>2 DEF EnterTimeTravel, travelVars
  <2> QED
    BY <2>1, <2>2
<1>3. CASE ExitTimeTravel
  BY <1>3 DEF ExitTimeTravel
<1>4. ASSUME NEW step \in {Next1, Previous1}, NavigateCommit(step)
      PROVE  Same
  <2>1. state' = [state EXCEPT !.loading = TRUE]
    BY <1>4 DEF NavigateCommit
  <2> QED
    BY <1>1, <2>1 DEF State
<1>5. ASSUME NEW t \in tasks, TaskSucceeds(t)
      PROVE  Same \/ (state'.comment = state.comment /\ Moved(t))
  <2>1. CASE ~IsActive(t)
    BY <1>5, <2>1 DEF TaskSucceeds
  <2>2. CASE IsActive(t)
    BY <1>5, <2>2, SuccessMoves
  <2> QED
    BY <2>1, <2>2
<1>6. ASSUME NEW t \in tasks, TaskFails(t)
      PROVE  Same
  <2>1. CASE ~IsActive(t)
    BY <1>6, <2>1 DEF TaskFails
  <2>2. CASE IsActive(t)
    <3>1. state' = [state EXCEPT !.failed = TRUE, !.loading = FALSE]
      BY <1>6, <2>2, FailsKeepsInv
    <3> QED
      BY <1>1, <3>1 DEF State
  <2> QED
    BY <2>1, <2>2
<1>7. ASSUME NEW t \in tasks, TaskSucceeds(t) \/ TaskFails(t)
      PROVE  t \in tasks \ tasks'
  BY <1>7 DEF TaskSucceeds, TaskFails
<1>8. CASE ~(EnterTimeTravel \/ ExitTimeTravel \/ Answers)
           /\ ~\E step \in {Next1, Previous1} : NavigateCommit(step)
  <2>1. UNCHANGED travelVars
    BY <1>8 DEF Next, GenerateSummary, HideSummary, OpenSummaryLink,
                SummaryReady, SummaryFailed, ShowDiffContext,
                HideDiffContext, MoveSelection, SyncCompletes, vars
  <2> QED
    BY <2>1 DEF travelVars
<1> QED
  BY <1>2, <1>3, <1>4, <1>5, <1>6, <1>7, <1>8 DEF Answers

(* The view never turns to another comment within a session: answers of    *)
(* earlier sessions are refused (is_active_time_travel_session). *)
THEOREM SessionSafety == Spec => SessionKeepsComment
<1> DEFINE Keeps == active' = active /\ state # None /\ state' # None =>
                      state'.comment = state.comment
<1>1. IInv /\ [Next]_vars => [Keeps]_vars
  BY SessionStep
<1> QED
  BY TravelInvariant, <1>1, PTL DEF Spec, SessionKeepsComment

(* Within a session a loaded view moves by one commit at a time, index and *)
(* snapshot together (can_go_next, next_commit_sha,                        *)
(* synchronize_snapshot_index, handle_commit_navigated). *)
THEOREM NavigationSafety == Spec => NavigationIsOneStep
<1> DEFINE OneStep ==
      (active' = active /\ state # None /\ state' # None) =>
        IF state.snapshot = None \/ state'.index = state.index
          THEN \/ state'.snapshot = state.snapshot
               \/ state' = Loaded(state.comment)
          ELSE /\ state'.history = state.history
               /\ \E t \in tasks \ tasks' :
                    state'.index = state.index + t.step
               /\ state'.snapshot = state.history[state'.index + 1]
<1>1. ASSUME IInv, [Next]_vars
      PROVE  [OneStep]_vars
  <2> SUFFICES ASSUME active' = active, state # None, state' # None
               PROVE  OneStep
    OBVIOUS
  <2>1. CASE state'.index = state.index /\ state'.snapshot = state.snapshot
    BY <2>1
  <2>2. ASSUME NEW t \in tasks \ tasks', Moved(t)
        PROVE  OneStep
    <3>1. CASE state' = state
      BY <3>1
    <3>2. CASE state.snapshot = None /\ state' = Loaded(state.comment)
      BY <3>2
    <3>3. CASE /\ t.step \in {Next1, Previous1}
               /\ state.snapshot # None
               /\ state'.history = state.history
               /\ state'.index = state.index + t.step
               /\ state'.snapshot = state.history[state'.index + 1]
      <4>1. state.index \in Nat
        BY <1>1 DEF IInv, TypeOK, State
      <4>2. state'.index # state.index
        BY <3>3, <4>1 DEF Next1, Previous1
      <4> QED
        BY <2>2, <3>3, <4>2
    <3> QED
      BY <2>2, <3>1, <3>2, <3>3 DEF Moved
  <2> QED
    BY <1>1, <2>1, <2>2, SessionStep
<1>2. IInv /\ [Next]_vars => [OneStep]_vars
  BY <1>1
<1> QED
  BY TravelInvariant, <1>2, PTL DEF Spec, NavigationIsOneStep

---------------------------------------------------------------------------
(* Each step makes, answers or fails one numbered request, or none         *)
(* (generate_pr_discussion_summary, handle_summary_ready,                  *)
(* handle_summary_failed). *)
LEMMA StepOfSlot ==
  ASSUME IInv, [Next]_vars
  PROVE  [SummarySlot!NextSlot]_(SummarySlot!slotVars)
<1> DEFINE Stutters == UNCHANGED <<summary, inFlight, nextSummary>>
<1>1. nextSummary \in Nat /\ summarizing \subseteq Nat
  BY DEF IInv, TypeOK
<1>2. ASSUME Stutters
      PROVE  UNCHANGED SummarySlot!slotVars
  BY <1>2 DEF SummarySlot!slotVars
<1>3. CASE GenerateSummary
  <2>1. CASE Stutters
    BY <1>2, <2>1
  <2>2. CASE /\ nextSummary' = nextSummary + 1 /\ inFlight' = nextSummary
             /\ UNCHANGED summary
    BY <1>1, <2>2 DEF SummarySlot!NextSlot, SummarySlot!Ask
  <2> QED
    BY <1>3, <2>1, <2>2 DEF GenerateSummary, summaryVars
<1>4. ASSUME NEW id \in summarizing, SummaryReady(id)
      PROVE  SummarySlot!NextSlot \/ Stutters
  <2>1. CASE inFlight = id
    <3>1. inFlight # None
      BY <1>1, <2>1, TimeTravelAssumption DEF TimeTravelAssumption
    <3>2. inFlight' = None /\ summary' = inFlight /\ UNCHANGED nextSummary
      BY <1>4, <2>1 DEF SummaryReady
    <3>3. SummarySlot!Answer({"summary"})
      BY <3>1, <3>2 DEF SummarySlot!Answer
    <3> QED
      BY <3>3 DEF SummarySlot!NextSlot
  <2>2. CASE inFlight # id
    BY <1>4, <2>2 DEF SummaryReady
  <2> QED
    BY <2>1, <2>2
<1>5. ASSUME NEW id \in summarizing, SummaryFailed(id)
      PROVE  SummarySlot!NextSlot \/ Stutters
  <2>1. CASE inFlight = id
    <3>1. inFlight # None
      BY <1>1, <2>1, TimeTravelAssumption DEF TimeTravelAssumption
    <3> QED
      BY <1>5, <2>1, <3>1
         DEF SummaryFailed, SummarySlot!NextSlot, SummarySlot!FailRequest
  <2>2. CASE inFlight # id
    BY <1>5, <2>2 DEF SummaryFailed
  <2> QED
    BY <2>1, <2>2
<1>6. CASE /\ ~GenerateSummary
           /\ ~\E id \in summarizing : SummaryReady(id) \/ SummaryFailed(id)
  <2>1. Stutters
    BY <1>6 DEF Next, Answers, EnterTimeTravel, ExitTimeTravel,
                NavigateCommit, TaskSucceeds, TaskFails, HideSummary,
                OpenSummaryLink, ShowDiffContext, HideDiffContext,
                MoveSelection, SyncCompletes, vars, summaryVars
  <2> QED
    BY <1>2, <2>1
<1> QED
  BY <1>2, <1>3, <1>4, <1>5, <1>6

(* Summary requests are numbered requests of which the latest counts       *)
(* (in_flight_pr_discussion_summary_request_id). *)
THEOREM SummarySlotRefined == Spec => SummaryRequestsAreNumbered
<1>1. Init => SummarySlot!InitSlot
  BY DEF Init, SummarySlot!InitSlot
<1>2. IInv /\ [Next]_vars => [SummarySlot!NextSlot]_(SummarySlot!slotVars)
  BY StepOfSlot
<1> QED
  BY TravelInvariant, <1>1, <1>2, PTL
     DEF Spec, SummaryRequestsAreNumbered, SummarySlot!SpecSlot
---------------------------------------------------------------------------
(* What the slot promises, in the variables of the TUI: the request under  *)
(* way is the latest, and later than the one answered on screen.           *)
SlotInv ==
  /\ nextSummary # 0
  /\ summary \in Nat \cup {None}
  /\ inFlight # None => inFlight = nextSummary - 1
  /\ summary # None =>
       summary < nextSummary /\ (inFlight # None => summary < inFlight)

NotOlder == summary # None /\ summary' # None => summary' >= summary

(* Each step keeps the open request the latest, and shows none that is     *)
(* older (handle_summary_ready, handle_summary_failed).                    *)
LEMMA NotOlderStep ==
  ASSUME IInv, SlotInv, [Next]_vars
  PROVE  SlotInv' /\ NotOlder
<1> USE DEF SlotInv, NotOlder
<1>1. /\ nextSummary \in Nat /\ summarizing \subseteq Nat /\ None \notin Nat
      /\ inFlight \in Nat \cup {None}
  BY TimeTravelAssumption DEF IInv, TypeOK, TimeTravelAssumption
<1>2. CASE UNCHANGED <<summary, inFlight, nextSummary>>
  BY <1>1, <1>2
<1>3. CASE GenerateSummary
  BY <1>1, <1>2, <1>3 DEF GenerateSummary, summaryVars
<1>4. ASSUME NEW id \in summarizing, SummaryReady(id)
      PROVE  SlotInv' /\ NotOlder
  BY <1>1, <1>2, <1>4 DEF SummaryReady
<1>5. ASSUME NEW id \in summarizing, SummaryFailed(id)
      PROVE  SlotInv' /\ NotOlder
  BY <1>1, <1>2, <1>5 DEF SummaryFailed
<1>6. CASE /\ ~GenerateSummary
           /\ ~\E id \in summarizing : SummaryReady(id) \/ SummaryFailed(id)
  <2>1. UNCHANGED <<summary, inFlight, nextSummary>>
    BY <1>6 DEF Next, Answers, EnterTimeTravel, ExitTimeTravel,
                NavigateCommit, TaskSucceeds, TaskFails, HideSummary,
                OpenSummaryLink, ShowDiffContext, HideDiffContext,
                MoveSelection, SyncCompletes, vars, summaryVars
  <2> QED
    BY <1>2, <2>1
<1> QED
  BY <1>3, <1>4, <1>5, <1>6

(* The summary on screen is never replaced by one that was asked for       *)
(* earlier, whatever order answers come in (handle_summary_ready).         *)
THEOREM SummaryNeverOlder == Spec => SummarySlot!ShownNeverOlder
<1> DEFINE onShow == [p \in {"summary"} |-> summary]
           Keeps ==
             (nextSummary - 1)' >= nextSummary - 1 =>
               \A p \in {"summary"} :
                 onShow[p] # None /\ onShow'[p] # None => onShow'[p] >= onShow[p]
<1>1. Init => SlotInv
  BY TimeTravelAssumption DEF Init, SlotInv, TimeTravelAssumption
<1>2. IInv /\ SlotInv /\ [Next]_vars => SlotInv'
  BY NotOlderStep
<1>3. ASSUME IInv, SlotInv, [Next]_vars
      PROVE  Keeps
  <2>1. NotOlder
    BY <1>3, NotOlderStep
  <2>2. onShow["summary"] = summary /\ onShow'["summary"] = summary'
    OBVIOUS
  <2> HIDE DEF onShow
  <2> QED
    BY <2>1, <2>2 DEF NotOlder
<1>4. IInv /\ SlotInv /\ [Next]_vars => [Keeps]_(SummarySlot!slotVars)
  BY <1>3
<1> HIDE DEF Keeps
<1>5. Spec => [][Keeps]_(SummarySlot!slotVars)
  BY TravelInvariant, <1>1, <1>2, <1>4, PTL DEF Spec
<1> QED
  BY <1>5 DEF SummarySlot!ShownNeverOlder, Keeps

---------------------------------------------------------------------------
(* Lines up to a position of an edit, without those of one kind.           *)
Count(s, side, i) == Cardinality({j \in 1..i : s[j] # side})

(* The count goes up by one at a line that is not of that kind.            *)
LEMMA CountStep ==
  ASSUME NEW s, NEW side, NEW i \in Nat
  PROVE  /\ Count(s, side, i) \in Nat
         /\ Count(s, side, 0) = 0
         /\ Count(s, side, i + 1) =
              Count(s, side, i) + IF s[i + 1] # side THEN 1 ELSE 0
<1> DEFINE Upto(n) == {j \in 1..n : s[j] # side}
<1>1. ASSUME NEW n \in Nat
      PROVE  IsFiniteSet(Upto(n)) /\ Cardinality(Upto(n)) \in Nat
  <2>1. IsFiniteSet(1..n)
    BY FS_Interval
  <2>2. Upto(n) \in SUBSET (1..n)
    OBVIOUS
  <2> QED
    BY <2>1, <2>2, FS_Subset, FS_CardinalityType
<1>2. Upto(0) = {}
  OBVIOUS
<1>3. Upto(i + 1) = IF s[i + 1] # side THEN Upto(i) \cup {i + 1} ELSE Upto(i)
  OBVIOUS
<1>4. i + 1 \notin Upto(i)
  OBVIOUS
<1> HIDE DEF Upto
<1>5. Cardinality(Upto(i) \cup {i + 1}) = Cardinality(Upto(i)) + 1
  BY <1>1, <1>4, FS_AddElement
<1>6. Cardinality(Upto(0)) = 0
  BY <1>2, FS_EmptySet
<1>7. Count(s, side, i) = Cardinality(Upto(i))
  BY DEF Count, Upto
<1>8. Count(s, side, i + 1) = Cardinality(Upto(i + 1))
  BY DEF Count, Upto
<1>9. Count(s, side, 0) = 0
  BY <1>6 DEF Count, Upto
<1>10. Cardinality(Upto(i)) \in Nat
  BY <1>1
<1> QED
  BY <1>3, <1>5, <1>7, <1>8, <1>9, <1>10

(* Such lines after one position, up to another.                           *)
Among(s, side, a, b) == Cardinality({j \in (a + 1)..b : s[j] # side})

(* A count is that up to a position before, and what is between (a hunk    *)
(* header counts the lines between its ends).                              *)
LEMMA CountSplit ==
  ASSUME NEW s, NEW side, NEW a \in Nat, NEW b \in Nat, a <= b
  PROVE  /\ Among(s, side, a, b) \in Nat
         /\ Count(s, side, b) = Count(s, side, a) + Among(s, side, a, b)
<1> DEFINE low == {j \in 1..a : s[j] # side}
           high == {j \in (a + 1)..b : s[j] # side}
<1>1. IsFiniteSet(low) /\ IsFiniteSet(high)
  <2>1. IsFiniteSet(1..a) /\ IsFiniteSet((a + 1)..b)
    BY FS_Interval
  <2>2. low \in SUBSET (1..a) /\ high \in SUBSET ((a + 1)..b)
    OBVIOUS
  <2> QED
    BY <2>1, <2>2, FS_Subset
<1>2. low \cap high = {}
  OBVIOUS
<1>3. {j \in 1..b : s[j] # side} = low \cup high
  OBVIOUS
<1> HIDE DEF low, high
<1>4. Cardinality(low \cup high) = Cardinality(low) + Cardinality(high) - 0
  BY <1>1, <1>2, FS_Union, FS_EmptySet
<1>5. Cardinality(low) \in Nat /\ Cardinality(high) \in Nat
  BY <1>1, FS_CardinalityType
<1>6. Count(s, side, b) = Cardinality(low \cup high)
  BY <1>3 DEF Count
<1>7. Count(s, side, a) = Cardinality(low)
  BY DEF Count, low
<1>8. Among(s, side, a, b) = Cardinality(high)
  BY DEF Among, high
<1> QED
  BY <1>4, <1>5, <1>6, <1>7, <1>8

(* Where no line is of that kind, the count is that of the positions.      *)
LEMMA CountKept ==
  ASSUME NEW s, NEW side, NEW a \in Nat, NEW b \in Nat, a <= b,
         \A j \in (a + 1)..b : s[j] # side
  PROVE  Count(s, side, b) = Count(s, side, a) + (b - a)
<1>1. {j \in (a + 1)..b : s[j] # side} = (a + 1)..b
  OBVIOUS
<1>2. a + 1 \in Int /\ b \in Int
  OBVIOUS
<1>3. Cardinality((a + 1)..b) = IF a + 1 > b THEN 0 ELSE b - (a + 1) + 1
  BY <1>2, FS_Interval
<1>4. Cardinality((a + 1)..b) = b - a
  BY <1>3
<1>5. Among(s, side, a, b) = b - a
  BY <1>1, <1>4, Zenon DEF Among
<1> QED
  BY <1>5, CountSplit

(* A count never goes down.                                                *)
LEMMA CountMonotone ==
  ASSUME NEW s, NEW side, NEW a \in Nat, NEW b \in Nat, a <= b
  PROVE  Count(s, side, a) <= Count(s, side, b)
<1>1. Count(s, side, a) \in Nat
  BY CountStep
<1>2. Among(s, side, a, b) \in Nat
  BY CountSplit
<1>3. Count(s, side, b) = Count(s, side, a) + Among(s, side, a, b)
  BY CountSplit
<1> QED
  BY <1>1, <1>2, <1>3

(* No two lines of a file have the same number.                            *)
LEMMA CountInjective ==
  ASSUME NEW s, NEW side, NEW i \in Nat \ {0}, NEW j \in Nat \ {0},
         s[i] # side, s[j] # side, Count(s, side, i) = Count(s, side, j)
  PROVE  i = j
<1>1. ASSUME NEW k \in Nat, NEW m \in Nat \ {0}, k < m, s[m] # side
      PROVE  Count(s, side, k) < Count(s, side, m)
  <2> DEFINE p == m - 1
  <2>1. p \in Nat /\ m = p + 1 /\ k <= p
    BY <1>1
  <2> HIDE DEF p
  <2>2. Count(s, side, p + 1) = Count(s, side, p) + 1 /\ Count(s, side, p) \in Nat
    BY <1>1, <2>1, CountStep
  <2>3. Count(s, side, k) <= Count(s, side, p) /\ Count(s, side, k) \in Nat
    BY <2>1, CountMonotone, CountStep
  <2> QED
    BY <2>1, <2>2, <2>3
<1>2. Count(s, side, i) \in Nat /\ Count(s, side, j) \in Nat
  BY CountStep
<1> QED
  BY <1>1, <1>2

(* Every number up to the last is that of a line.                          *)
LEMMA CountReached ==
  ASSUME NEW s, NEW side, NEW n \in Nat, NEW line \in 1..Count(s, side, n)
  PROVE  \E i \in 1..n : s[i] # side /\ Count(s, side, i) = line
<1> DEFINE Far == {i \in Nat : Count(s, side, i) >= line}
<1>0. \A i \in Nat : Count(s, side, i) \in Nat
  BY CountStep
<1>1. n \in Far
  BY <1>0
<1>2. PICK m \in Far : \A k \in Far : m <= k
  <2>1. Far \in SUBSET Nat /\ Far # {}
    BY <1>1
  <2> HIDE DEF Far
  <2> QED
    BY <2>1, LeastOfSet
<1>3. m # 0
  BY CountStep, <1>0
<1> DEFINE p == m - 1
<1>4. p \in Nat /\ m = p + 1 /\ m <= n
  BY <1>1, <1>2, <1>3
<1>5. p \notin Far
  <2> HIDE DEF Far
  <2> QED
    BY <1>2, <1>4
<1>6. Count(s, side, p) < line
  <2> HIDE DEF p
  <2> QED
    BY <1>0, <1>4, <1>5
<1>7. Count(s, side, p + 1) =
        Count(s, side, p) + IF s[p + 1] # side THEN 1 ELSE 0
  <2> HIDE DEF p
  <2> QED
    BY <1>4, CountStep
<1>8. Count(s, side, m) >= line
  OBVIOUS
<1> HIDE DEF p, Far
<1>9. Count(s, side, p) \in Nat /\ Count(s, side, m) \in Nat
  BY <1>0, <1>4
<1>10. s[m] # side /\ Count(s, side, m) = line
  BY <1>4, <1>6, <1>7, <1>8, <1>9
<1> QED
  BY <1>4, <1>10

---------------------------------------------------------------------------
Script == Seq({"keep", "del", "add"})

(* How far a position has moved from the old file to the new one: what the *)
(* cell line_offset is to hold.                                            *)
Shift(s, i) == NewLine(s, i) - OldLine(s, i)

(* The position of the old line asked about, past the end if there is none.*)
Place(s, line) == IF HasLine(s, line) THEN PositionOf(s, line) ELSE Len(s) + 1

(* The numbers of lines on both sides are such counts.                     *)
LEMMA LinesAreCounts ==
  ASSUME NEW s, NEW i \in Nat
  PROVE  /\ OldLine(s, i) = Count(s, "add", i)
         /\ NewLine(s, i) = Count(s, "del", i)
         /\ OldLine(s, i) \in Nat /\ NewLine(s, i) \in Nat
<1>1. OldLine(s, i) = Count(s, "add", i) /\ NewLine(s, i) = Count(s, "del", i)
  BY DEF OldLine, NewLine, Count
<1>2. Count(s, "add", i) \in Nat /\ Count(s, "del", i) \in Nat
  BY CountStep
<1> QED
  BY <1>1, <1>2

(* Comparing line numbers is comparing positions (classify_line compares a *)
(* hunk's old lines with the target).                                      *)
LEMMA PlaceOfLine ==
  ASSUME NEW s \in Script, NEW t \in 1..(OldLine(s, Len(s)) + 1)
  PROVE  /\ Place(s, t) \in 1..(Len(s) + 1)
         /\ HasLine(s, t) <=> Place(s, t) # Len(s) + 1
         /\ HasLine(s, t) => /\ Place(s, t) = PositionOf(s, t)
                            /\ s[Place(s, t)] # "add"
                            /\ OldLine(s, Place(s, t)) = t
         /\ \A i \in 0..Len(s) : OldLine(s, i) < t <=> i < Place(s, t)
         /\ \A i \in 1..Len(s) :
              s[i] # "add" /\ OldLine(s, i) = t => i = Place(s, t)
<1> DEFINE N == Len(s)
           p == Place(s, t)
<1>0. N \in Nat /\ DOMAIN s = 1..N
  BY DEF Script
<1>1. \A i \in Nat : OldLine(s, i) = Count(s, "add", i) /\ OldLine(s, i) \in Nat
  BY LinesAreCounts
<1>2. \A i, j \in Nat : i <= j => OldLine(s, i) <= OldLine(s, j)
  BY <1>1, CountMonotone
<1>3. ASSUME HasLine(s, t)
      PROVE  p \in 1..N /\ s[p] # "add" /\ OldLine(s, p) = t
  <2>1. t \in 1..Count(s, "add", N)
    BY <1>0, <1>1, <1>3 DEF HasLine
  <2>2. PICK i \in 1..N : s[i] # "add" /\ Count(s, "add", i) = t
    <3> HIDE DEF N
    <3> QED
      BY <1>0, <2>1, CountReached
  <2>3. i \in DOMAIN s /\ s[i] # "add" /\ OldLine(s, i) = t
    BY <1>0, <1>1, <2>2
  <2>4. /\ PositionOf(s, t) \in DOMAIN s
        /\ s[PositionOf(s, t)] # "add" /\ OldLine(s, PositionOf(s, t)) = t
    BY <2>3 DEF PositionOf
  <2> QED
    BY <1>0, <1>3, <2>4 DEF Place
<1>4. ~HasLine(s, t) => p = N + 1 /\ t = OldLine(s, N) + 1
  <2> DEFINE top == OldLine(s, N)
  <2>1. top \in Nat /\ t \in 1..(top + 1) /\ (HasLine(s, t) <=> t \in 1..top)
    BY <1>0, <1>1 DEF HasLine
  <2> HIDE DEF top
  <2>2. ~HasLine(s, t) => t = top + 1
    BY <2>1
  <2> QED
    BY <2>2 DEF Place, top
<1>5. p \in 1..(N + 1) /\ (HasLine(s, t) <=> p # N + 1)
  <2> HIDE DEF p, N
  <2> QED
    BY <1>0, <1>3, <1>4
<1>6. ASSUME NEW i \in 1..N, s[i] # "add", OldLine(s, i) = t
      PROVE  i = p
  <2>1. OldLine(s, i) <= OldLine(s, N)
    BY <1>0, <1>2
  <2>2. HasLine(s, t)
    BY <1>0, <1>1, <1>6, <2>1 DEF HasLine
  <2>3. Count(s, "add", i) = Count(s, "add", p) /\ i \in Nat \ {0} /\ p \in Nat \ {0}
    <3>1. p \in 1..N /\ OldLine(s, p) = t
      BY <1>3, <2>2
    <3>2. i \in Nat \ {0} /\ p \in Nat \ {0}
      BY <1>0, <3>1
    <3> HIDE DEF p, N
    <3>3. OldLine(s, i) = Count(s, "add", i) /\ OldLine(s, p) = Count(s, "add", p)
      BY <3>2, LinesAreCounts
    <3> QED
      BY <1>6, <3>1, <3>2, <3>3
  <2> HIDE DEF p, N
  <2> QED
    BY <1>3, <1>6, <2>2, <2>3, CountInjective
<1>7. ASSUME NEW i \in 0..N
      PROVE  OldLine(s, i) < t <=> i < p
  <2>1. i \in Nat /\ OldLine(s, i) \in Nat
    BY <1>0, <1>1
  <2>2. CASE HasLine(s, t)
    <3> DEFINE q == p - 1
    <3>1. p \in 1..N /\ OldLine(s, p) = t /\ s[p] # "add"
      BY <1>3, <2>2
    <3> HIDE DEF p
    <3>2. q \in Nat /\ p = q + 1
      BY <1>0, <3>1
    <3> HIDE DEF q
    <3>3. Count(s, "add", q + 1) = Count(s, "add", q) + 1
      <4>1. s[q + 1] # "add"
        BY <3>1, <3>2
      <4>2. Count(s, "add", q + 1) =
              Count(s, "add", q) + IF s[q + 1] # "add" THEN 1 ELSE 0
        BY <3>2, CountStep
      <4> QED
        BY <4>1, <4>2
    <3>4. OldLine(s, q) = t - 1
      <4>1. OldLine(s, q) = Count(s, "add", q) /\ OldLine(s, q) \in Nat
        BY <1>1, <3>2
      <4>2. OldLine(s, q + 1) = Count(s, "add", q + 1)
        BY <3>2, LinesAreCounts
      <4>3. t = OldLine(s, q + 1)
        BY <3>1, <3>2
      <4> QED
        BY <3>3, <4>1, <4>2, <4>3
    <3>5. i < p => OldLine(s, i) <= OldLine(s, q)
      BY <1>2, <2>1, <3>2
    <3>6. i >= p => OldLine(s, i) >= t
      BY <1>2, <2>1, <3>1, <3>2
    <3> QED
      BY <2>1, <3>2, <3>4, <3>5, <3>6
  <2>3. CASE ~HasLine(s, t)
    <3>1. OldLine(s, i) <= OldLine(s, N) /\ OldLine(s, N) \in Nat /\ i <= N
      BY <1>0, <1>1, <1>2
    <3> HIDE DEF p, N
    <3> QED
      BY <1>0, <1>4, <2>1, <2>3, <3>1
  <2> QED
    BY <2>2, <2>3
<1> QED
  BY <1>3, <1>5, <1>6, <1>7 DEF Place

(* A diff shows every change, and a hunk starts and ends with unchanged    *)
(* lines unless the file does there.                                       *)
LEMMA ShownEdges ==
  ASSUME NEW s \in Script, Context \in Nat \ {0}
  PROVE  /\ Shown(s) \in SUBSET (1..Len(s))
         /\ \A i \in 1..Len(s) : i \notin Shown(s) => s[i] = "keep"
         /\ \A i \in Shown(s) : i - 1 \notin Shown(s) => i = 1 \/ s[i] = "keep"
         /\ \A i \in Shown(s) : i + 1 \notin Shown(s) => i = Len(s) \/ s[i] = "keep"
<1>1. DOMAIN s = 1..Len(s) /\ Len(s) \in Nat
  BY DEF Script
<1>2. -1 \in (-Context)..Context /\ 0 \in (-Context)..Context /\ 1 \in (-Context)..Context
  OBVIOUS
<1>3. ASSUME NEW i \in 1..Len(s), s[i] # "keep"
      PROVE  i \in Changed(s)
  BY <1>1, <1>3 DEF Changed
<1>4. ASSUME NEW i \in 1..Len(s), NEW j \in Changed(s), j - i \in (-Context)..Context
      PROVE  i \in Shown(s)
  BY <1>1, <1>4 DEF Shown
<1>5. Shown(s) \in SUBSET (1..Len(s))
  BY <1>1 DEF Shown
<1>6. ASSUME NEW i \in 1..Len(s), s[i] # "keep"
      PROVE  /\ i \in Shown(s)
             /\ i # 1 => i - 1 \in Shown(s)
             /\ i # Len(s) => i + 1 \in Shown(s)
  <2>1. i \in Changed(s)
    BY <1>3, <1>6
  <2>2. i - i = 0 /\ i - (i - 1) = 1 /\ i - (i + 1) = -1
    OBVIOUS
  <2>3. (i # 1 => i - 1 \in 1..Len(s)) /\ (i # Len(s) => i + 1 \in 1..Len(s))
    <3> DEFINE n == Len(s)
    <3>1. n \in Nat /\ i \in 1..n
      BY <1>1
    <3> HIDE DEF n
    <3>2. (i # 1 => i - 1 \in 1..n) /\ (i # n => i + 1 \in 1..n)
      BY <3>1
    <3> QED
      BY <3>2 DEF n
  <2> QED
    BY <1>2, <1>4, <2>1, <2>2, <2>3
<1> QED
  BY <1>5, <1>6

(* Between hunks nothing moves.                                            *)
LEMMA UnshownKeepsShift ==
  ASSUME NEW s \in Script, Context \in Nat \ {0},
         NEW a \in Nat, NEW b \in a..Len(s), \A i \in (a + 1)..b : i \notin Shown(s)
  PROVE  Shift(s, b) = Shift(s, a)
<1>1. Len(s) \in Nat /\ b \in Nat
  BY DEF Script
<1>2. \A i \in (a + 1)..b : s[i] = "keep"
  BY <1>1, ShownEdges
<1>3. Count(s, "add", b) = Count(s, "add", a) + (b - a)
  BY <1>1, <1>2, CountKept
<1>4. Count(s, "del", b) = Count(s, "del", a) + (b - a)
  BY <1>1, <1>2, CountKept
<1>5. Count(s, "del", a) \in Nat /\ Count(s, "add", a) \in Nat
  BY CountStep
<1> QED
  BY <1>1, <1>3, <1>4, <1>5, LinesAreCounts DEF Shift

(* A hunk's header says where its last line is: the target is past the     *)
(* header's old lines when it is past that line, not before them when it is*)
(* past the line before the first, and the difference of the header's      *)
(* counts is how far the hunk moves what comes after it (classify_line).   *)
LEMMA HunkSpan ==
  ASSUME NEW s \in Script, Context \in Nat \ {0},
         NEW f \in Shown(s), f - 1 \notin Shown(s)
  PROVE  \E l \in f..Len(s) :
           /\ \A i \in f..l : i \in Shown(s)
           /\ l + 1 \notin Shown(s)
           /\ Header(s, f).old \in Nat /\ Header(s, f).new \in Nat
           /\ Header(s, f).start \in Nat
           /\ Shift(s, l) = Shift(s, f - 1)
                            + (Header(s, f).new - Header(s, f).old)
           /\ \A t \in Nat \ {0} :
                /\ t >= Header(s, f).start + Header(s, f).old
                     <=> ~(t <= OldLine(s, l))
                /\ t >= Header(s, f).start <=> OldLine(s, f - 1) < t
<1> DEFINE N == Len(s)
           Stops == {n \in Nat : n >= f /\ n + 1 \notin Shown(s)}
<1>0. N \in Nat /\ f \in 1..N /\ N + 1 \notin Shown(s) /\ Shown(s) \in SUBSET (1..N)
  BY ShownEdges DEF Script
<1>1. PICK l \in Stops : \A k \in Stops : l <= k
  <2>1. N \in Stops /\ Stops \in SUBSET Nat
    BY <1>0
  <2> HIDE DEF Stops
  <2> QED
    BY <2>1, LeastOfSet
<1>2. l \in f..N /\ l + 1 \notin Shown(s) /\ l \in Nat
  BY <1>0, <1>1
<1>3. ASSUME NEW i \in f..l
      PROVE  i \in Shown(s)
  <2> SUFFICES ASSUME i # f
               PROVE  i \in Shown(s)
    OBVIOUS
  <2>1. i - 1 \in Nat /\ i - 1 >= f /\ i - 1 < l
    BY <1>0, <1>2
  <2>2. i - 1 \notin Stops
    <3> HIDE DEF Stops
    <3> QED
      BY <1>1, <1>2, <2>1
  <2> QED
    BY <2>1, <2>2
<1>4. HunkFrom(s, f) = f..l
  <2>1. ASSUME NEW i \in HunkFrom(s, f)
        PROVE  i \in f..l
    <3>1. i \in Shown(s) /\ i >= f /\ f..i \subseteq Shown(s) /\ i \in 1..N
      BY <1>0 DEF HunkFrom
    <3>2. i > l => l + 1 \in f..i
      BY <1>0, <1>2, <3>1
    <3> QED
      BY <1>0, <1>2, <3>1, <3>2
  <2>2. ASSUME NEW i \in f..l
        PROVE  i \in HunkFrom(s, f)
    <3>1. f..i \subseteq Shown(s)
      BY <1>0, <1>2, <1>3
    <3> QED
      BY <1>0, <1>3, <3>1 DEF HunkFrom
  <2> QED
    BY <2>1, <2>2
<1> DEFINE a == f - 1
<1>5. a \in Nat /\ a + 1 = f /\ a <= l
  BY <1>0, <1>2
<1> HIDE DEF a, N, Stops
<1>6. /\ Header(s, f).old = Among(s, "add", a, l)
      /\ Header(s, f).new = Among(s, "del", a, l)
      /\ Header(s, f).start =
           OldLine(s, f - 1) + IF Among(s, "add", a, l) = 0 THEN 0 ELSE 1
  BY <1>4, <1>5 DEF Header, Among
<1>7. /\ Among(s, "add", a, l) \in Nat /\ Among(s, "del", a, l) \in Nat
      /\ OldLine(s, l) = OldLine(s, a) + Among(s, "add", a, l)
      /\ NewLine(s, l) = NewLine(s, a) + Among(s, "del", a, l)
      /\ OldLine(s, a) \in Nat /\ NewLine(s, a) \in Nat
  BY <1>2, <1>5, CountSplit, LinesAreCounts
<1>8. Among(s, "add", a, l) = 0 => OldLine(s, a) = 0
  <2> SUFFICES ASSUME Among(s, "add", a, l) = 0, f # 1
               PROVE  FALSE
    <3>1. f = 1 => a = 0
      BY DEF a
    <3>2. OldLine(s, 0) = 0
      BY LinesAreCounts, CountStep
    <3> QED
      BY <3>1, <3>2
  <2>1. s[f] = "keep"
    BY ShownEdges
  <2>2. f \in {j \in (a + 1)..l : s[j] # "add"}
    BY <1>2, <1>5, <2>1
  <2>3. IsFiniteSet({j \in (a + 1)..l : s[j] # "add"})
    <3>1. IsFiniteSet((a + 1)..l)
      BY <1>2, <1>5, FS_Interval
    <3>2. {j \in (a + 1)..l : s[j] # "add"} \in SUBSET ((a + 1)..l)
      OBVIOUS
    <3> QED
      BY <3>1, <3>2, FS_Subset
  <2> QED
    BY <2>2, <2>3, FS_EmptySet DEF Among
<1>9. f - 1 = a
  BY DEF a
<1> DEFINE m == Among(s, "add", a, l)
<1>10. ASSUME NEW t \in Nat \ {0}
       PROVE  /\ t >= Header(s, f).start + Header(s, f).old
                   <=> ~(t <= OldLine(s, l))
              /\ t >= Header(s, f).start <=> OldLine(s, f - 1) < t
  <2>1. /\ Header(s, f).old = m /\ m \in Nat
        /\ Header(s, f).start = OldLine(s, a) + IF m = 0 THEN 0 ELSE 1
        /\ OldLine(s, l) = OldLine(s, a) + m
        /\ m = 0 => OldLine(s, a) = 0
    BY <1>6, <1>7, <1>8, <1>9
  <2> DEFINE o == OldLine(s, a)
  <2>2. o \in Nat
    BY <1>7
  <2>3. m = 0 => o = 0
    BY <2>1
  <2> HIDE DEF m, o
  <2>4. t >= (o + IF m = 0 THEN 0 ELSE 1) + m <=> ~(t <= o + m)
    BY <2>1, <2>2, <2>3
  <2>5. t >= (o + IF m = 0 THEN 0 ELSE 1) <=> o < t
    BY <2>1, <2>2, <2>3
  <2> QED
    BY <1>9, <2>1, <2>4, <2>5 DEF o
<1>11. Shift(s, l) = Shift(s, f - 1) + (Header(s, f).new - Header(s, f).old)
  BY <1>6, <1>7, <1>9 DEF Shift
<1>12. Header(s, f).start \in Nat
  BY <1>6, <1>7, <1>9
<1> QED
  BY <1>2, <1>3, <1>6, <1>7, <1>10, <1>11, <1>12 DEF N

---------------------------------------------------------------------------
CallsOf(s) == [i \in DOMAIN s |-> CallsAt(s, i)]

(* How many callbacks have been made when a position is done.              *)
LineEnd(s) == Ends(CallsOf(s))

(* What a callback is handed (DiffHunk and DiffLine).                      *)
LEMMA CallTypes ==
  ASSUME NEW s \in Script, Context \in Nat \ {0}, NEW i \in 1..Len(s)
  PROVE  /\ Line(s, i) \in Call /\ Line(s, i).kind = "line"
         /\ i \in Shown(s) /\ i - 1 \notin Shown(s) =>
              Header(s, i) \in Call /\ Header(s, i).kind = "hunk"
<1>1. i \in Nat /\ s[i] \in {"keep", "del", "add"}
  BY DEF Script
<1>2. OldLine(s, i) \in Nat /\ NewLine(s, i) \in Nat
  BY <1>1, LinesAreCounts
<1>3. Line(s, i) \in Call /\ Line(s, i).kind = "line"
  BY <1>1, <1>2 DEF Line, Call
<1>4. ASSUME i \in Shown(s), i - 1 \notin Shown(s)
      PROVE  Header(s, i) \in Call /\ Header(s, i).kind = "hunk"
  <2>1. /\ Header(s, i).old \in Nat /\ Header(s, i).new \in Nat
        /\ Header(s, i).start \in Nat
    BY <1>4, HunkSpan
  <2>2. Header(s, i) = [kind |-> "hunk", start |-> Header(s, i).start,
                        old |-> Header(s, i).old, new |-> Header(s, i).new]
    BY DEF Header
  <2> QED
    BY <2>1, <2>2 DEF Call
<1> QED
  BY <1>3, <1>4

(* Diff::foreach calls back for the positions shown, in their order, and   *)
(* for a hunk before its first line.                                       *)
LEMMA CallbacksInOrder ==
  ASSUME NEW s \in Script, Context \in Nat \ {0}
  PROVE  /\ Callbacks(s) \in Seq(Call)
         /\ LineEnd(s) \in [0..Len(s) -> Nat]
         /\ LineEnd(s)[0] = 0 /\ LineEnd(s)[Len(s)] = Len(Callbacks(s))
         /\ \A i, j \in 0..Len(s) : i <= j => LineEnd(s)[i] <= LineEnd(s)[j]
         /\ \A i \in 1..Len(s) :
              \/ i \notin Shown(s) /\ LineEnd(s)[i] = LineEnd(s)[i - 1]
              \/ /\ i \in Shown(s) /\ i - 1 \in Shown(s)
                 /\ LineEnd(s)[i] = LineEnd(s)[i - 1] + 1
                 /\ Callbacks(s)[LineEnd(s)[i - 1] + 1] = Line(s, i)
              \/ /\ i \in Shown(s) /\ i - 1 \notin Shown(s)
                 /\ LineEnd(s)[i] = LineEnd(s)[i - 1] + 2
                 /\ Callbacks(s)[LineEnd(s)[i - 1] + 1] = Header(s, i)
                 /\ Callbacks(s)[LineEnd(s)[i - 1] + 2] = Line(s, i)
<1> DEFINE N == Len(s)
           calls0 == CallsOf(s)
           e == LineEnd(s)
<1>1. N \in Nat /\ DOMAIN s = 1..N
  BY DEF Script
<1>2. ASSUME NEW i \in 1..N
      PROVE  CallsAt(s, i) \in Seq(Call)
  BY <1>2, CallTypes DEF CallsAt
<1>3. calls0 \in Seq(Seq(Call)) /\ Len(calls0) = N /\ \A i \in 1..N : calls0[i] = CallsAt(s, i)
  <2> HIDE DEF N
  <2>1. calls0 = [i \in 1..N |-> CallsAt(s, i)]
    BY <1>1 DEF CallsOf
  <2>2. calls0 \in [1..N -> Seq(Call)]
    BY <1>2, <2>1
  <2>3. calls0 \in Seq(Seq(Call))
    BY <1>1, <2>2
  <2> HIDE DEF calls0
  <2> QED
    BY <1>1, <2>1, <2>2, <2>3
<1>4. Callbacks(s) = FlattenSeq(calls0)
  BY DEF Callbacks, CallsOf
<1>5. FlattenSeq(calls0) \in Seq(Call) /\ IsWalk(calls0, e)
  <2> HIDE DEF calls0
  <2> QED
    BY <1>3, FlattenWalks DEF LineEnd, calls0
<1> HIDE DEF N, calls0, e
<1>6. /\ e \in [0..N -> Nat] /\ e[0] = 0 /\ e[N] = Len(Callbacks(s))
      /\ \A i, j \in 0..N : i <= j => e[i] <= e[j]
      /\ \A i \in 1..N :
           /\ e[i] = e[i - 1] + Len(CallsAt(s, i))
           /\ \A j \in 1..Len(CallsAt(s, i)) :
                Callbacks(s)[e[i - 1] + j] = CallsAt(s, i)[j]
  BY <1>3, <1>4, <1>5 DEF IsWalk
<1>7. ASSUME NEW i \in 1..N
      PROVE  \/ i \notin Shown(s) /\ e[i] = e[i - 1]
             \/ /\ i \in Shown(s) /\ i - 1 \in Shown(s)
                /\ e[i] = e[i - 1] + 1
                /\ Callbacks(s)[e[i - 1] + 1] = Line(s, i)
             \/ /\ i \in Shown(s) /\ i - 1 \notin Shown(s)
                /\ e[i] = e[i - 1] + 2
                /\ Callbacks(s)[e[i - 1] + 1] = Header(s, i)
                /\ Callbacks(s)[e[i - 1] + 2] = Line(s, i)
  <2>1. e[i - 1] \in Nat
    BY <1>1, <1>6
  <2> DEFINE calls1 == CallsAt(s, i)
  <2>5. /\ e[i] = e[i - 1] + Len(calls1)
        /\ \A j \in 1..Len(calls1) :
             Callbacks(s)[e[i - 1] + j] = calls1[j]
    BY <1>6
  <2>2. CASE i \notin Shown(s)
    <3>1. CallsAt(s, i) = <<>>
      BY <2>2 DEF CallsAt
    <3> QED
      BY <1>6, <2>1, <2>2, <3>1
  <2>3. CASE i \in Shown(s) /\ i - 1 \in Shown(s)
    <3>1. CallsAt(s, i) = <<Line(s, i)>>
      BY <2>3 DEF CallsAt
    <3>2. Len(calls1) = 1 /\ calls1[1] = Line(s, i)
      BY <3>1
    <3> HIDE DEF calls1
    <3>3. e[i] = e[i - 1] + 1 /\ Callbacks(s)[e[i - 1] + 1] = Line(s, i)
      BY <2>5, <3>2
    <3> QED
      BY <2>3, <3>3
  <2>4. CASE i \in Shown(s) /\ i - 1 \notin Shown(s)
    <3>1. CallsAt(s, i) = <<Header(s, i), Line(s, i)>>
      BY <2>4 DEF CallsAt
    <3>2. Len(calls1) = 2 /\ calls1[1] = Header(s, i) /\ calls1[2] = Line(s, i)
      BY <3>1
    <3> HIDE DEF calls1
    <3>3. /\ e[i] = e[i - 1] + 2
          /\ Callbacks(s)[e[i - 1] + 1] = Header(s, i)
          /\ Callbacks(s)[e[i - 1] + 2] = Line(s, i)
      BY <2>5, <3>2
    <3> QED
      BY <2>4, <3>3
  <2> QED
    BY <2>2, <2>3, <2>4
<1> QED
  BY <1>4, <1>5, <1>6, <1>7 DEF N, e

(* Callbacks made when the lines up to a position are done, and the header *)
(* of the next one if a hunk has been opened.                              *)
Done(s, i, opened) == LineEnd(s)[i] + IF opened THEN 1 ELSE 0

CanBeAt(s, i, opened) ==
  /\ i \in 0..Len(s)
  /\ opened \in BOOLEAN
  /\ opened => i + 1 \in Shown(s) /\ i \notin Shown(s)

(* The next callback is the header of the next position shown, unless a    *)
(* hunk is open: then it is the line of the next position.                 *)
LEMMA CallToCome ==
  ASSUME NEW s \in Script, Context \in Nat \ {0},
         NEW i, NEW opened, CanBeAt(s, i, opened)
  PROVE  /\ Done(s, i, opened) \in 0..Len(Callbacks(s))
         /\ Done(s, i, opened) = Len(Callbacks(s)) =>
              ~opened /\ \A j \in (i + 1)..Len(s) : j \notin Shown(s)
         /\ Done(s, i, opened) < Len(Callbacks(s)) =>
              \E f \in Shown(s) :
                /\ f > i /\ \A j \in (i + 1)..(f - 1) : j \notin Shown(s)
                /\ IF ~opened /\ f - 1 \notin Shown(s)
                     THEN /\ Callbacks(s)[Done(s, i, opened) + 1] = Header(s, f)
                          /\ Done(s, i, opened) + 1 = Done(s, f - 1, TRUE)
                     ELSE /\ Callbacks(s)[Done(s, i, opened) + 1] = Line(s, f)
                          /\ Done(s, i, opened) + 1 = Done(s, f, FALSE)
                          /\ f = i + 1
<1> DEFINE N == Len(s)
           e == LineEnd(s)
           k == Done(s, i, opened)
           Beyond == {n \in Nat : n <= N /\ e[n] > k}
<1>1. N \in Nat /\ i \in 0..N /\ opened \in BOOLEAN
  BY DEF Script, CanBeAt
<1>2. Shown(s) \in SUBSET (1..N)
  BY ShownEdges
<1> HIDE DEF N, e, k
<1>3. /\ e \in [0..N -> Nat] /\ e[N] = Len(Callbacks(s))
      /\ \A m, n \in 0..N : m <= n => e[m] <= e[n]
      /\ \A n \in 1..N :
           \/ n \notin Shown(s) /\ e[n] = e[n - 1]
           \/ /\ n \in Shown(s) /\ n - 1 \in Shown(s)
              /\ e[n] = e[n - 1] + 1
              /\ Callbacks(s)[e[n - 1] + 1] = Line(s, n)
           \/ /\ n \in Shown(s) /\ n - 1 \notin Shown(s)
              /\ e[n] = e[n - 1] + 2
              /\ Callbacks(s)[e[n - 1] + 1] = Header(s, n)
              /\ Callbacks(s)[e[n - 1] + 2] = Line(s, n)
  BY CallbacksInOrder DEF N, e
<1>4. k = e[i] + IF opened THEN 1 ELSE 0
  BY DEF k, e, Done
<1>5. opened => /\ i + 1 \in 1..N /\ i + 1 \in Shown(s) /\ i \notin Shown(s)
                /\ e[i + 1] = e[i] + 2
                /\ Callbacks(s)[e[i] + 2] = Line(s, i + 1)
  <2> SUFFICES ASSUME opened
               PROVE  /\ i + 1 \in 1..N /\ i + 1 \in Shown(s) /\ i \notin Shown(s)
                      /\ e[i + 1] = e[i] + 2
                      /\ Callbacks(s)[e[i] + 2] = Line(s, i + 1)
    OBVIOUS
  <2> DEFINE n == i + 1
  <2>1. n \in Shown(s) /\ i \notin Shown(s)
    BY DEF CanBeAt
  <2>2. n \in 1..N /\ n - 1 = i
    BY <1>1, <1>2, <2>1
  <2> HIDE DEF n
  <2>3. e[n] = e[i] + 2 /\ Callbacks(s)[e[i] + 2] = Line(s, n)
    BY <1>3, <2>1, <2>2
  <2> QED
    BY <2>1, <2>2, <2>3 DEF n
<1>6. k \in Nat /\ e[i] \in Nat /\ e[N] \in Nat
  BY <1>1, <1>3, <1>4
<1>7. k <= e[N] /\ (opened => k < e[N])
  <2>1. e[i] <= e[N] /\ (opened => e[i + 1] <= e[N])
    BY <1>1, <1>3, <1>5
  <2> QED
    BY <1>1, <1>4, <1>5, <1>6, <2>1
<1>8. ASSUME k = e[N]
      PROVE  ~opened /\ \A j \in (i + 1)..N : j \notin Shown(s)
  <2>1. ~opened /\ k = e[i]
    BY <1>4, <1>6, <1>7, <1>8
  <2>2. ASSUME NEW j \in (i + 1)..N
        PROVE  j \notin Shown(s)
    <3>1. j \in 1..N /\ j - 1 \in 0..N /\ j \in 0..N /\ i <= j - 1
      BY <1>1
    <3>2. e[i] <= e[j - 1] /\ e[j] <= e[N] /\ e[j - 1] \in Nat /\ e[j] \in Nat
      BY <1>1, <1>3, <3>1
    <3>3. e[j] = e[j - 1] \/ e[j] = e[j - 1] + 1 \/ e[j] = e[j - 1] + 2
      BY <1>3, <3>1
    <3>4. e[j] = e[j - 1]
      BY <1>6, <1>8, <2>1, <3>2, <3>3
    <3>5. e[j] # e[j - 1] + 1 /\ e[j] # e[j - 1] + 2
      BY <3>2, <3>4
    <3> QED
      BY <1>3, <3>1, <3>5
  <2> QED
    BY <2>1, <2>2
<1>9. ASSUME k < e[N]
      PROVE  \E f \in Shown(s) :
                /\ f > i /\ \A j \in (i + 1)..(f - 1) : j \notin Shown(s)
                /\ IF ~opened /\ f - 1 \notin Shown(s)
                     THEN Callbacks(s)[k + 1] = Header(s, f) /\ k = e[f - 1]
                     ELSE /\ Callbacks(s)[k + 1] = Line(s, f)
                          /\ k + 1 = e[f] /\ f = i + 1
  <2>1. PICK f \in Beyond : \A n \in Beyond : f <= n
    <3>1. N \in Beyond /\ Beyond \in SUBSET Nat
      BY <1>1, <1>9
    <3> HIDE DEF Beyond
    <3> QED
      BY <3>1, LeastOfSet
  <2>2. f \in 0..N /\ e[f] > k /\ e[f] \in Nat
    BY <1>1, <1>3, <2>1
  <2>3. f > i
    <3>1. f <= i => e[f] <= e[i]
      BY <1>1, <1>3, <2>2
    <3> QED
      BY <1>1, <1>4, <1>6, <2>2, <3>1
  <2>4. f \in 1..N /\ f - 1 \in 0..N /\ i <= f - 1
    BY <1>1, <2>2, <2>3
  <2>5. e[f - 1] <= k /\ e[i] <= e[f - 1] /\ e[f - 1] \in Nat
    <3>1. f - 1 \notin Beyond
      <4> HIDE DEF Beyond
      <4> QED
        BY <1>1, <2>1, <2>4
    <3>2. e[f - 1] \in Nat /\ e[i] <= e[f - 1]
      BY <1>1, <1>3, <2>4
    <3> QED
      BY <1>1, <1>6, <2>4, <3>1, <3>2
  <2>6. CASE opened
    <3>1. i + 1 \in Beyond
      BY <1>1, <1>4, <1>5, <1>6, <2>6
    <3>2. f = i + 1
      <4> HIDE DEF Beyond
      <4> QED
        BY <1>1, <2>1, <2>3, <2>4, <3>1
    <3>3. f - 1 = i
      BY <1>1, <3>2
    <3>4. k = e[i] + 1 /\ k + 1 = e[i] + 2
      BY <1>4, <1>6, <2>6
    <3>5. /\ f \in Shown(s) /\ Callbacks(s)[k + 1] = Line(s, f) /\ k + 1 = e[f]
      BY <1>5, <2>6, <3>2, <3>4
    <3>6. (i + 1)..(f - 1) = {}
      BY <1>1, <3>2
    <3> QED
      BY <2>3, <2>6, <3>2, <3>5, <3>6
  <2>7. CASE ~opened
    <3>1. k = e[i] /\ e[f - 1] = k
      BY <1>4, <1>6, <2>5, <2>7
    <3>2. ASSUME NEW j \in (i + 1)..(f - 1)
          PROVE  j \notin Shown(s)
      <4>1. j \in 1..N /\ j - 1 \in 0..N /\ j \in 0..N /\ i <= j - 1 /\ j <= f - 1
        BY <1>1, <2>4
      <4>2. e[i] <= e[j - 1] /\ e[j] <= e[f - 1] /\ e[j - 1] \in Nat /\ e[j] \in Nat
        BY <1>1, <1>3, <2>4, <4>1
      <4>3. e[j] = e[j - 1] \/ e[j] = e[j - 1] + 1 \/ e[j] = e[j - 1] + 2
        BY <1>3, <4>1
      <4>4. e[j] # e[j - 1] + 1 /\ e[j] # e[j - 1] + 2
        BY <1>6, <3>1, <4>2, <4>3
      <4> QED
        BY <1>3, <4>1, <4>4
    <3>3. e[f] # e[f - 1]
      BY <1>6, <2>2, <3>1
    <3>4. f \in Shown(s)
      BY <1>3, <2>4, <3>3
    <3>5. CASE f - 1 \in Shown(s)
      <4>1. f = i + 1
        <5>1. f # i + 1 => f - 1 \in (i + 1)..(f - 1)
          BY <1>1, <2>3, <2>4
        <5> QED
          BY <3>2, <3>5, <5>1
      <4>2. e[f] = e[f - 1] + 1 /\ Callbacks(s)[e[f - 1] + 1] = Line(s, f)
        BY <1>3, <2>4, <3>4, <3>5
      <4> QED
        BY <2>3, <2>7, <3>1, <3>2, <3>4, <3>5, <4>1, <4>2
    <3>6. CASE f - 1 \notin Shown(s)
      <4>1. Callbacks(s)[e[f - 1] + 1] = Header(s, f)
        BY <1>3, <2>4, <3>4, <3>6
      <4> QED
        BY <2>3, <2>7, <3>1, <3>2, <3>4, <3>6, <4>1
    <3> QED
      BY <3>5, <3>6
  <2> QED
    BY <1>1, <2>6, <2>7
<1>10. k \in 0..Len(Callbacks(s))
  BY <1>3, <1>6, <1>7
<1>11. \A f : Done(s, f, FALSE) = e[f] + 0 /\ Done(s, f, TRUE) = e[f] + 1
  BY DEF Done, e
<1>12. \A f \in Shown(s) : e[f] + 0 = e[f]
  <2>1. \A f \in Shown(s) : e[f] \in Nat
    BY <1>2, <1>3
  <2> QED
    BY <2>1
<1> HIDE DEF Beyond
<1> QED
  BY <1>3, <1>6, <1>7, <1>8, <1>9, <1>10, <1>11, <1>12 DEF N, k

---------------------------------------------------------------------------
(* What the cells of LineOffsetState know after the lines up to position i:*)
(* either the target is further on, and the offset is that of the end of   *)
(* the hunk being read ...                                                 *)
Ahead(i, opened) ==
  /\ ~resolved /\ ~inHunk /\ ~deleted
  /\ \E e \in i..Len(script) :
       /\ offset = Shift(script, e) /\ e < Place(script, target)
       /\ e \in Shown(script) => e + 1 \notin Shown(script)
       /\ opened => e > i
       /\ \A j \in (i + 1)..e :
            /\ j \in Shown(script)
            /\ j - 1 \in Shown(script) \/ (opened /\ j = i + 1)

(* ... or it is a line to come of the hunk being read ...                  *)
Within(i, opened) ==
  /\ ~resolved /\ inHunk /\ ~deleted /\ offset \in Int
  /\ i < Place(script, target) /\ Place(script, target) <= Len(script)
  /\ \A j \in (i + 1)..Place(script, target) : j \in Shown(script)
  /\ opened \/ i \in Shown(script)

(* ... or it has been seen, or passed between two hunks.                   *)
Settled ==
  LET p == Place(script, target)
  IN /\ resolved /\ ~inHunk /\ offset \in Int
     /\ p <= Len(script)
     /\ deleted => script[p] = "del"
     /\ ~deleted => script[p] # "del" /\ target + offset = NewLine(script, p)

Reading(i, opened) ==
  /\ CanBeAt(script, i, opened)
  /\ calls = SubSeq(Callbacks(script), Done(script, i, opened) + 1,
                    Len(Callbacks(script)))
  /\ Ahead(i, opened) \/ Within(i, opened) \/ Settled

(* The inductive invariant of a line mapping.                              *)
MapInv ==
  /\ script \in Scripts /\ script \in Script
  /\ target \in 1..(OldLine(script, Len(script)) + 1)
  /\ calls = None => /\ offset = 0 /\ ~deleted /\ ~resolved /\ ~inHunk
  /\ calls # None => calls \in Seq(Call)
  /\ calls # None /\ result = None =>
       \E i \in 0..Len(script), opened \in BOOLEAN : Reading(i, opened)
  /\ MappingFollowsEdit

(* Line numbers are in the range of an i32 (create_line_mapping_result     *)
(* falls back beyond it).                                                  *)
ScriptsFit == \A s \in Scripts : Len(s) < MaxI32

(* Before the first callback nothing is known (LineOffsetState::new).      *)
LEMMA MappingStarts ==
  ASSUME LineMappingAssumption, MapInv, CreateFileDiff
  PROVE  MapInv'
<1> DEFINE N == Len(script)
           p == Place(script, target)
<1>0. /\ script' = script /\ target' = target /\ result' = result /\ result = None
      /\ UNCHANGED cells /\ calls' = Callbacks(script) /\ calls = None
  BY DEF CreateFileDiff
<1>1. script \in Script /\ Context \in Nat \ {0} /\ N \in Nat
  BY DEF MapInv, LineMappingAssumption, Script
<1>2. /\ Callbacks(script) \in Seq(Call) /\ LineEnd(script)[0] = 0
  BY <1>1, CallbacksInOrder
<1>3. p \in 1..(N + 1)
  BY <1>1, PlaceOfLine DEF MapInv
<1>4. CanBeAt(script, 0, FALSE)
  BY <1>1 DEF CanBeAt
<1>5. Callbacks(script) = SubSeq(Callbacks(script), Done(script, 0, FALSE) + 1,
                                 Len(Callbacks(script)))
  <2>1. Done(script, 0, FALSE) + 1 = 1
    BY <1>2 DEF Done
  <2> QED
    BY <1>2, <2>1, SubSeqFull
<1>6. Shift(script, 0) = 0
  <2>1. OldLine(script, 0) = 0 /\ NewLine(script, 0) = 0
    BY LinesAreCounts, CountStep
  <2> QED
    BY <2>1 DEF Shift
<1>7. 0 \notin Shown(script)
  BY <1>1, ShownEdges
<1>8. offset = 0 /\ ~deleted /\ ~resolved /\ ~inHunk
  BY <1>0 DEF MapInv
<1>9. Ahead(0, FALSE)'
  <2>1. 0 \in 0..N /\ (0 + 1)..0 = {}
    BY <1>1
  <2> HIDE DEF N, p
  <2>2. 0 < p
    BY <1>1, <1>3
  <2> QED
    BY <1>0, <1>6, <1>7, <1>8, <2>1, <2>2 DEF Ahead, cells, N, p
<1>10. Reading(0, FALSE)'
  BY <1>0, <1>4, <1>5, <1>9 DEF Reading
<1>11. 0 \in 0..Len(script')
  BY <1>0, <1>1
<1>12. \E i \in 0..Len(script'), opened \in BOOLEAN : Reading(i, opened)'
  BY <1>10, <1>11
<1>13. calls' # None
  BY <1>0, <1>2 DEF LineMappingAssumption
<1>14. MappingFollowsEdit'
  BY <1>0 DEF MappingFollowsEdit
<1> QED
  BY <1>0, <1>2, <1>12, <1>13, <1>14 DEF MapInv

(* The callback a handler is given is the one to come.                     *)
LEMMA NextCall ==
  ASSUME LineMappingAssumption, MapInv,
         calls # None, calls # <<>>,
         NEW i \in 0..Len(script), NEW opened \in BOOLEAN, Reading(i, opened)
  PROVE  /\ Tail(calls) \in Seq(Call)
         /\ \E f \in Shown(script) :
                /\ f > i /\ \A j \in (i + 1)..(f - 1) : j \notin Shown(script)
                /\ \/ /\ ~opened /\ f - 1 \notin Shown(script)
                      /\ Head(calls) = Header(script, f)
                      /\ Tail(calls) = SubSeq(Callbacks(script), Done(script, f - 1, TRUE) + 1,
                                              Len(Callbacks(script)))
                      /\ CanBeAt(script, f - 1, TRUE)
                   \/ /\ opened \/ f - 1 \in Shown(script)
                      /\ Head(calls) = Line(script, f)
                      /\ Tail(calls) = SubSeq(Callbacks(script), Done(script, f, FALSE) + 1,
                                              Len(Callbacks(script)))
                      /\ f = i + 1
                      /\ CanBeAt(script, f, FALSE)
<1> DEFINE k == Done(script, i, opened)
           C == Callbacks(script)
<1>1. script \in Script /\ Context \in Nat \ {0} /\ Len(script) \in Nat
  BY DEF MapInv, LineMappingAssumption, Script
<1>2. C \in Seq(Call)
  BY <1>1, CallbacksInOrder
<1>3. CanBeAt(script, i, opened) /\ calls = SubSeq(C, k + 1, Len(C))
  BY DEF Reading
<1>4. k \in 0..Len(C)
  BY <1>1, <1>3, CallToCome
<1> HIDE DEF k, C
<1>5. Len(C) \in Nat
  BY <1>2
<1>6. k < Len(C)
  <2> SUFFICES ASSUME k = Len(C)
               PROVE  FALSE
    BY <1>4, <1>5
  <2>1. k + 1 \in Int /\ Len(C) \in Int /\ Len(C) < k + 1
    BY <1>5
  <2> QED
    BY <1>3, <2>1, SubSeqEmpty
<1>7. Head(calls) = C[k + 1] /\ Tail(calls) = SubSeq(C, k + 2, Len(C))
  <2>1. k + 1 \in 1..Len(C) /\ Len(C) \in (k + 1)..Len(C) /\ k + 1 + 1 = k + 2
    BY <1>4, <1>5, <1>6
  <2>2. /\ Head(SubSeq(C, k + 1, Len(C))) = C[k + 1]
        /\ Tail(SubSeq(C, k + 1, Len(C))) = SubSeq(C, k + 1 + 1, Len(C))
    BY <1>2, <2>1, HeadTailOfSubSeq
  <2> QED
    BY <1>3, <2>1, <2>2
<1>8. PICK f \in Shown(script) :
        /\ f > i /\ \A j \in (i + 1)..(f - 1) : j \notin Shown(script)
        /\ IF ~opened /\ f - 1 \notin Shown(script)
             THEN C[k + 1] = Header(script, f) /\ k + 1 = Done(script, f - 1, TRUE)
             ELSE /\ C[k + 1] = Line(script, f) /\ k + 1 = Done(script, f, FALSE)
                  /\ f = i + 1
  <2>1. Done(script, i, opened) < Len(Callbacks(script))
    BY <1>6 DEF k, C
  <2>2. \E f \in Shown(script) :
          /\ f > i /\ \A j \in (i + 1)..(f - 1) : j \notin Shown(script)
          /\ IF ~opened /\ f - 1 \notin Shown(script)
               THEN /\ Callbacks(script)[Done(script, i, opened) + 1] = Header(script, f)
                    /\ Done(script, i, opened) + 1 = Done(script, f - 1, TRUE)
               ELSE /\ Callbacks(script)[Done(script, i, opened) + 1] = Line(script, f)
                    /\ Done(script, i, opened) + 1 = Done(script, f, FALSE)
                    /\ f = i + 1
    BY <1>1, <1>3, <2>1, CallToCome
  <2> QED
    BY <2>2 DEF k, C
<1>9. f \in 1..Len(script) /\ f - 1 \in 0..Len(script) /\ f - 1 + 1 = f /\ f \in 0..Len(script)
  BY <1>1, ShownEdges
<1>10. Tail(calls) = SubSeq(C, k + 1 + 1, Len(C))
  BY <1>4, <1>7
<1>11. Tail(calls) \in Seq(Call)
  BY HeadTailProperties DEF MapInv
<1>12. CASE ~opened /\ f - 1 \notin Shown(script)
  <2>1. CanBeAt(script, f - 1, TRUE)
    BY <1>9, <1>12 DEF CanBeAt
  <2> QED
    BY <1>7, <1>8, <1>10, <1>11, <1>12, <2>1 DEF C
<1>13. CASE ~(~opened /\ f - 1 \notin Shown(script))
  <2>1. CanBeAt(script, f, FALSE)
    BY <1>9 DEF CanBeAt
  <2> QED
    BY <1>7, <1>8, <1>10, <1>11, <1>13, <2>1 DEF C
<1> QED
  BY <1>12, <1>13

(* A hunk header keeps the cells right (process_hunk): a hunk before the   *)
(* target adds its difference, one around it opens, and one after it       *)
(* settles the offset.  That the target's hunk ends without its line, which*)
(* the code takes for a deletion, never happens.                           *)
LEMMA HunkFollows ==
  ASSUME LineMappingAssumption, MapInv, ProcessHunk
  PROVE  MapInv'
<1> DEFINE s == script
           N == Len(s)
           p == Place(s, target)
<1>0. /\ UNCHANGED <<script, target, result>> /\ calls' = Tail(calls)
      /\ calls # None /\ calls # <<>> /\ Head(calls).kind = "hunk"
  BY DEF ProcessHunk
<1>1. s \in Script /\ Context \in Nat \ {0} /\ N \in Nat
  BY DEF MapInv, LineMappingAssumption, Script
<1>2. calls' \in Seq(Call)
  BY <1>0, HeadTailProperties DEF MapInv
<1>3. calls' # None
  BY <1>2 DEF LineMappingAssumption
<1>4. MappingFollowsEdit'
  BY <1>0 DEF MapInv, MappingFollowsEdit
<1> SUFFICES ASSUME result = None
             PROVE  \E i \in 0..Len(script'), opened \in BOOLEAN : Reading(i, opened)'
  BY <1>0, <1>2, <1>3, <1>4 DEF MapInv
<1>5. PICK i \in 0..N, opened \in BOOLEAN : Reading(i, opened)
  BY <1>0 DEF MapInv
<1>6. PICK f \in Shown(s) :
        /\ f > i /\ \A j \in (i + 1)..(f - 1) : j \notin Shown(s)
        /\ ~opened /\ f - 1 \notin Shown(s)
        /\ Head(calls) = Header(s, f)
        /\ Tail(calls) = SubSeq(Callbacks(s), Done(s, f - 1, TRUE) + 1, Len(Callbacks(s)))
        /\ CanBeAt(s, f - 1, TRUE)
  <2>1. \A f \in Shown(s) : Line(s, f).kind # "hunk"
    BY DEF Line
  <2> QED
    BY <1>0, <1>5, <2>1, NextCall
<1>7. f \in 1..N /\ f - 1 \in 0..N /\ f - 1 \in Nat /\ i \in Nat /\ i <= f - 1
  BY <1>1, <1>6, ShownEdges
<1>8. PICK l \in f..N :
        /\ \A j \in f..l : j \in Shown(s)
        /\ l + 1 \notin Shown(s)
        /\ Header(s, f).old \in Nat /\ Header(s, f).new \in Nat
        /\ Header(s, f).start \in Nat
        /\ Shift(s, l) = Shift(s, f - 1) + (Header(s, f).new - Header(s, f).old)
        /\ \A t \in Nat \ {0} :
             /\ t >= Header(s, f).start + Header(s, f).old
                  <=> ~(t <= OldLine(s, l))
             /\ t >= Header(s, f).start <=> OldLine(s, f - 1) < t
  BY <1>1, <1>6, HunkSpan
<1>9. /\ p \in 1..(N + 1) /\ target \in Nat \ {0}
      /\ \A n \in 0..N : OldLine(s, n) < target <=> n < p
  <2>1. target \in 1..(OldLine(s, N) + 1) /\ OldLine(s, N) \in Nat
    BY <1>1, LinesAreCounts DEF MapInv
  <2> QED
    BY <1>1, <2>1, PlaceOfLine
<1>10. OldLine(s, l) \in Nat /\ OldLine(s, f - 1) \in Nat /\ l \in 0..N
  BY <1>1, <1>7, <1>8, LinesAreCounts
<1> HIDE DEF N, p
<1>11. Past(Head(calls)) <=> l < p
  <2>1. target >= Header(s, f).start + Header(s, f).old <=> ~(target <= OldLine(s, l))
    BY <1>8, <1>9
  <2>2. OldLine(s, l) < target <=> l < p
    BY <1>9, <1>10
  <2> QED
    BY <1>6, <1>9, <1>10, <2>1, <2>2 DEF Past
<1>12. Inside(Head(calls)) <=> f - 1 < p /\ p <= l
  <2>1. target >= Header(s, f).start <=> OldLine(s, f - 1) < target
    BY <1>8, <1>9
  <2>2. OldLine(s, f - 1) < target <=> f - 1 < p
    BY <1>7, <1>9
  <2> QED
    BY <1>1, <1>6, <1>7, <1>8, <1>9, <1>11, <2>1, <2>2 DEF Inside
<1>13. Shift(s, f - 1) = Shift(s, i) /\ \A n \in i..(f - 1) : Shift(s, n) = Shift(s, i)
  <2>1. ASSUME NEW n \in i..(f - 1)
        PROVE  Shift(s, n) = Shift(s, i)
    <3>1. n \in i..Len(s) /\ \A j \in (i + 1)..n : j \notin Shown(s)
      BY <1>1, <1>6, <1>7 DEF N
    <3> QED
      BY <1>1, <1>7, <3>1, UnshownKeepsShift
  <2> QED
    BY <1>7, <2>1
<1>14. /\ CanBeAt(script, f - 1, TRUE)'
       /\ calls' = SubSeq(Callbacks(script'), Done(script', f - 1, TRUE) + 1,
                          Len(Callbacks(script')))
  BY <1>0, <1>6 DEF CanBeAt
<1>15. CASE Ahead(i, opened)
  <2>1. PICK e \in i..N :
          /\ offset = Shift(s, e) /\ e < p
          /\ e \in Shown(s) => e + 1 \notin Shown(s)
          /\ \A j \in (i + 1)..e :
               /\ j \in Shown(s)
               /\ j - 1 \in Shown(s) \/ (opened /\ j = i + 1)
    BY <1>15 DEF Ahead, N, p
  <2>2. ~resolved /\ ~inHunk /\ ~deleted
    BY <1>15 DEF Ahead
  <2>3. e = i
    <3> SUFFICES ASSUME e # i
                 PROVE  FALSE
      OBVIOUS
    <3>1. i + 1 \in (i + 1)..e
      BY <1>7, <2>1
    <3>2. i + 1 \in Shown(s) /\ (i + 1) - 1 \in Shown(s)
      BY <1>6, <2>1, <3>1
    <3>3. i + 1 # f => i + 1 \in (i + 1)..(f - 1)
      BY <1>7
    <3>4. i + 1 = f
      BY <1>6, <3>2, <3>3
    <3> QED
      BY <1>6, <3>2, <3>4
  <2>4. offset = Shift(s, f - 1) /\ i < p
    BY <1>13, <2>1, <2>3
  <2>5. CASE l < p
    <3>1. /\ offset' = offset + (Header(s, f).new - Header(s, f).old)
          /\ inHunk' = Inside(Head(calls)) /\ resolved' = (~Past(Head(calls)) /\ ~Inside(Head(calls)))
          /\ deleted' = deleted
      BY <1>6, <1>11, <2>2, <2>5 DEF ProcessHunk
    <3>2. ~Inside(Head(calls))
      BY <1>7, <1>8, <1>9, <1>12, <2>5
    <3>3. ~resolved' /\ ~inHunk' /\ ~deleted' /\ offset' = Shift(s, l)
      BY <1>8, <1>11, <2>2, <2>4, <2>5, <3>1, <3>2
    <3>4. l \in (f - 1)..N /\ l > f - 1 /\ (f - 1) + 1 = f
      BY <1>7, <1>8
    <3>5. ASSUME NEW j \in ((f - 1) + 1)..l
          PROVE  j \in Shown(s) /\ (j - 1 \in Shown(s) \/ j = (f - 1) + 1)
      <4>1. j \in f..l /\ (j # f => j - 1 \in f..l)
        BY <1>7, <1>8, <3>4
      <4> QED
        BY <1>8, <3>4, <4>1
    <3>6. Ahead(f - 1, TRUE)'
      BY <1>0, <1>8, <2>5, <3>3, <3>4, <3>5 DEF Ahead, N, p
    <3>7. Reading(f - 1, TRUE)'
      BY <1>14, <3>6 DEF Reading
    <3> QED
      BY <1>0, <1>7, <3>7 DEF N
  <2>6. CASE p <= l /\ f - 1 < p
    <3>1. ~Past(Head(calls)) /\ Inside(Head(calls))
      BY <1>7, <1>8, <1>9, <1>11, <1>12, <2>6
    <3>2. /\ offset' = offset /\ inHunk' = Inside(Head(calls))
          /\ resolved' = (~Past(Head(calls)) /\ ~Inside(Head(calls)))
          /\ deleted' = deleted
      BY <1>6, <2>2, <3>1 DEF ProcessHunk
    <3>3. ~resolved' /\ inHunk' /\ ~deleted'
      BY <2>2, <3>1, <3>2
    <3>4. offset' \in Int
      <4>1. NewLine(s, f - 1) \in Nat /\ OldLine(s, f - 1) \in Nat
        BY <1>7, LinesAreCounts
      <4> QED
        BY <2>4, <3>2, <4>1 DEF Shift
    <3>5. p <= N /\ \A j \in ((f - 1) + 1)..p : j \in Shown(s)
      BY <1>1, <1>7, <1>8, <1>9, <2>6
    <3>6. Within(f - 1, TRUE)'
      BY <1>0, <2>6, <3>3, <3>4, <3>5 DEF Within, N, p
    <3>7. Reading(f - 1, TRUE)'
      BY <1>14, <3>6 DEF Reading
    <3> QED
      BY <1>0, <1>7, <3>7 DEF N
  <2>7. CASE p <= f - 1
    <3>1. ~Past(Head(calls)) /\ ~Inside(Head(calls))
      BY <1>7, <1>8, <1>9, <1>11, <1>12, <2>7
    <3>2. /\ offset' = offset /\ inHunk' = Inside(Head(calls))
          /\ resolved' = (~Past(Head(calls)) /\ ~Inside(Head(calls)))
          /\ deleted' = deleted
      BY <1>6, <2>2, <3>1 DEF ProcessHunk
    <3>3. resolved' /\ ~inHunk' /\ ~deleted'
      BY <2>2, <3>1, <3>2
    <3>4. p \in i..(f - 1) /\ p \in (i + 1)..(f - 1) /\ p <= N /\ p \in 1..N
      BY <1>1, <1>7, <1>9, <2>4, <2>7
    <3>5. offset = Shift(s, p) /\ s[p] = "keep"
      BY <1>1, <1>6, <1>13, <2>4, <3>4, ShownEdges DEF N
    <3>6. OldLine(s, p) = target
      <4>1. p # Len(s) + 1
        BY <1>1, <3>4 DEF N
      <4> QED
        BY <1>1, <4>1, PlaceOfLine DEF p, MapInv
    <3>7. target + offset' = NewLine(s, p) /\ offset' \in Int
      <4>1. NewLine(s, p) \in Nat /\ OldLine(s, p) \in Nat
        BY <3>4, LinesAreCounts
      <4> QED
        BY <3>2, <3>5, <3>6, <4>1 DEF Shift
    <3>8. Settled'
      BY <1>0, <3>3, <3>4, <3>5, <3>7 DEF Settled, N, p
    <3>9. Reading(f - 1, TRUE)'
      BY <1>14, <3>8 DEF Reading
    <3> QED
      BY <1>0, <1>7, <3>9 DEF N
  <2> QED
    BY <1>7, <1>8, <1>9, <2>5, <2>6, <2>7
<1>16. CASE Within(i, opened)
  <2>1. i < p /\ \A j \in (i + 1)..p : j \in Shown(s)
    BY <1>16 DEF Within, p
  <2>2. i \in Shown(s)
    BY <1>6, <1>16 DEF Within
  <2>3. i + 1 \in Shown(s)
    BY <1>7, <1>9, <2>1
  <2>4. i + 1 # f => i + 1 \in (i + 1)..(f - 1)
    BY <1>7
  <2>5. i + 1 = f
    BY <1>6, <2>3, <2>4
  <2> QED
    BY <1>6, <1>7, <2>2, <2>5
<1>17. CASE Settled
  <2>1. UNCHANGED cells
    BY <1>17 DEF ProcessHunk, Settled
  <2>2. Settled'
    BY <1>0, <1>17, <2>1 DEF Settled, cells
  <2>3. Reading(f - 1, TRUE)'
    BY <1>14, <2>2 DEF Reading
  <2> QED
    BY <1>0, <1>7, <2>3 DEF N
<1> QED
  BY <1>5, <1>15, <1>16, <1>17 DEF Reading

(* A line that is there has a number from one on.                          *)
LEMMA CountFromOne ==
  ASSUME NEW s, NEW side, NEW n \in Nat \ {0}, s[n] # side
  PROVE  Count(s, side, n) \in Nat \ {0}
<1> DEFINE q == n - 1
<1>1. q \in Nat /\ q + 1 = n
  OBVIOUS
<1> HIDE DEF q
<1>2. /\ Count(s, side, q) \in Nat
      /\ Count(s, side, q + 1) = Count(s, side, q) + IF s[q + 1] # side THEN 1 ELSE 0
  BY <1>1, CountStep
<1>3. Count(s, side, n) = Count(s, side, q) + 1
  BY <1>1, <1>2
<1> QED
  BY <1>2, <1>3

(* A line keeps the cells right (process_line).                            *)
LEMMA LineFollows ==
  ASSUME LineMappingAssumption, MapInv, ProcessLine
  PROVE  MapInv'
<1> DEFINE s == script
           N == Len(s)
           p == Place(s, target)
<1>0. /\ UNCHANGED <<script, target, result>> /\ calls' = Tail(calls)
      /\ calls # None /\ calls # <<>> /\ Head(calls).kind = "line"
  BY DEF ProcessLine
<1>1. s \in Script /\ Context \in Nat \ {0} /\ N \in Nat
  BY DEF MapInv, LineMappingAssumption, Script
<1>2. calls' \in Seq(Call)
  BY <1>0, HeadTailProperties DEF MapInv
<1>3. calls' # None
  BY <1>2 DEF LineMappingAssumption
<1>4. MappingFollowsEdit'
  BY <1>0 DEF MapInv, MappingFollowsEdit
<1> SUFFICES ASSUME result = None
             PROVE  \E i \in 0..Len(script'), opened \in BOOLEAN : Reading(i, opened)'
  BY <1>0, <1>2, <1>3, <1>4 DEF MapInv
<1>5. PICK i \in 0..N, opened \in BOOLEAN : Reading(i, opened)
  BY <1>0 DEF MapInv
<1> DEFINE f == i + 1
<1>6. /\ f \in Shown(s) /\ (opened \/ i \in Shown(s))
      /\ Head(calls) = Line(s, f)
      /\ Tail(calls) = SubSeq(Callbacks(s), Done(s, f, FALSE) + 1, Len(Callbacks(s)))
      /\ CanBeAt(s, f, FALSE)
  <2>1. \A n \in Shown(s) : Header(s, n).kind # "line"
    BY DEF Header
  <2>2. (i + 1) - 1 = i
    BY <1>1
  <2> QED
    BY <1>0, <1>5, <2>1, <2>2, NextCall
<1>7. f \in 1..N /\ i \in Nat /\ f \in Nat /\ f > i /\ f - 1 = i
  BY <1>1, <1>6, ShownEdges
<1>8. target \in 1..(OldLine(s, N) + 1) /\ target \in Nat /\ p \in 1..(N + 1)
  <2>1. target \in 1..(OldLine(s, N) + 1) /\ OldLine(s, N) \in Nat
    BY <1>1, LinesAreCounts DEF MapInv
  <2> QED
    BY <1>1, <2>1, PlaceOfLine
<1>9. /\ CanBeAt(script, f, FALSE)'
      /\ calls' = SubSeq(Callbacks(script'), Done(script', f, FALSE) + 1,
                         Len(Callbacks(script')))
  BY <1>0, <1>6 DEF CanBeAt
<1>13. ASSUME Reading(f, FALSE)'
       PROVE  \E n \in 0..Len(script'), open \in BOOLEAN : Reading(n, open)'
  <2>1. f \in 0..Len(script') /\ FALSE \in BOOLEAN
    BY <1>0, <1>1, <1>7
  <2> HIDE DEF f
  <2> QED
    BY <1>13, <2>1
<1>10. CASE Ahead(i, opened)
  <2>1. PICK e \in i..N :
          /\ offset = Shift(s, e) /\ e < p
          /\ e \in Shown(s) => e + 1 \notin Shown(s)
          /\ opened => e > i
          /\ \A j \in (i + 1)..e :
               /\ j \in Shown(s)
               /\ j - 1 \in Shown(s) \/ (opened /\ j = i + 1)
    BY <1>10 DEF Ahead, N, p
  <2>2. ~resolved /\ ~inHunk /\ ~deleted
    BY <1>10 DEF Ahead
  <2>3. UNCHANGED cells
    BY <2>2 DEF ProcessLine
  <2>4. e # i
    BY <1>6, <2>1
  <2>5. e \in f..N
    BY <1>7, <2>1, <2>4
  <2>6. ASSUME NEW j \in (f + 1)..e
        PROVE  j \in Shown(s) /\ j - 1 \in Shown(s)
    <3>1. j \in (i + 1)..e /\ j # i + 1
      BY <1>7, <2>5
    <3> QED
      BY <2>1, <3>1
  <2> HIDE DEF f, N, p
  <2>7. Ahead(f, FALSE)'
    BY <1>0, <2>1, <2>2, <2>3, <2>5, <2>6 DEF Ahead, cells, N, p
  <2>8. Reading(f, FALSE)'
    BY <1>9, <2>7 DEF Reading
  <2> QED
    BY <1>13, <2>8
<1>11. CASE Within(i, opened)
  <2>1. /\ ~resolved /\ inHunk /\ ~deleted /\ offset \in Int
        /\ i < p /\ p <= N /\ \A j \in (i + 1)..p : j \in Shown(s)
    BY <1>11 DEF Within, p
  <2>2. /\ HasLine(s, target) /\ s[p] # "add" /\ OldLine(s, p) = target
        /\ \A n \in 1..N : s[n] # "add" /\ OldLine(s, n) = target => n = p
    <3>1. p # N + 1
      BY <1>1, <1>8, <2>1
    <3> QED
      BY <1>1, <1>8, <3>1, PlaceOfLine
  <2>3. Line(s, f).old = target <=> f = p
    <3>1. Line(s, f).old = IF s[f] = "add" THEN None ELSE OldLine(s, f)
      BY DEF Line
    <3>2. None # target
      BY <1>8 DEF LineMappingAssumption
    <3> HIDE DEF f, p, N
    <3> QED
      BY <1>7, <2>2, <3>1, <3>2
  <2>4. CASE f # p
    <3>1. UNCHANGED cells
      BY <1>6, <2>3, <2>4 DEF ProcessLine
    <3>2. f < p /\ \A j \in (f + 1)..p : j \in Shown(s)
      BY <1>7, <1>8, <2>1, <2>4
    <3> HIDE DEF f, p, N
    <3>3. Within(f, FALSE)'
      BY <1>0, <1>6, <2>1, <3>1, <3>2 DEF Within, cells, N, p
    <3>4. Reading(f, FALSE)'
      BY <1>9, <3>3 DEF Reading
    <3> QED
      BY <1>13, <3>4
  <2>5. CASE f = p
    <3> HIDE DEF f, p, N
    <3>1. /\ deleted' = (Line(s, f).origin = "del")
          /\ offset' = IF Line(s, f).new = None THEN offset ELSE Line(s, f).new - target
          /\ resolved' = TRUE /\ inHunk' = FALSE
      BY <1>6, <2>1, <2>3, <2>5 DEF ProcessLine
    <3>2. /\ Line(s, f).origin = s[p]
          /\ Line(s, f).new = IF s[p] = "del" THEN None ELSE NewLine(s, p)
      BY <2>5 DEF Line
    <3>3. NewLine(s, p) \in Nat /\ NewLine(s, p) # None
      BY <1>7, <2>5, LinesAreCounts DEF LineMappingAssumption
    <3>4. deleted' = (s[p] = "del") /\ offset' \in Int
      BY <1>8, <2>1, <3>1, <3>2, <3>3
    <3>5. s[p] # "del" => target + offset' = NewLine(s, p)
      BY <1>8, <2>1, <3>1, <3>2, <3>3
    <3>6. Settled'
      BY <1>0, <2>1, <3>1, <3>4, <3>5 DEF Settled, N, p
    <3>7. Reading(f, FALSE)'
      BY <1>9, <3>6 DEF Reading
    <3> QED
      BY <1>13, <3>7
  <2> QED
    BY <2>4, <2>5
<1>12. CASE Settled
  <2>1. UNCHANGED cells
    BY <1>12 DEF ProcessLine, Settled
  <2>2. Settled'
    BY <1>0, <1>12, <2>1 DEF Settled, cells
  <2> HIDE DEF f
  <2>3. Reading(f, FALSE)'
    BY <1>9, <2>2 DEF Reading
  <2> QED
    BY <1>13, <2>3
<1> QED
  BY <1>5, <1>10, <1>11, <1>12 DEF Reading

(* The old file is never longer than the edit.                             *)
LEMMA LinesFit ==
  ASSUME NEW s \in Script
  PROVE  OldLine(s, Len(s)) \in 0..Len(s)
<1>1. Len(s) \in Nat
  BY DEF Script
<1>2. IsFiniteSet(1..Len(s)) /\ Cardinality(1..Len(s)) = Len(s)
  <2> DEFINE n == Len(s)
  <2>1. n \in Nat /\ n \in Int /\ 1 \in Int
    BY <1>1
  <2> HIDE DEF n
  <2>2. IsFiniteSet(1..n) /\ Cardinality(1..n) = IF 1 > n THEN 0 ELSE n - 1 + 1
    BY <2>1, FS_Interval
  <2>3. Cardinality(1..n) = n
    BY <2>1, <2>2
  <2> QED
    BY <2>2, <2>3 DEF n
<1>3. {j \in 1..Len(s) : s[j] # "add"} \in SUBSET (1..Len(s))
  OBVIOUS
<1>4. OldLine(s, Len(s)) <= Len(s)
  BY <1>2, <1>3, FS_Subset DEF OldLine
<1> QED
  BY <1>1, <1>4, LinesAreCounts

(* After the last callback, the answer is what the edit did to the line    *)
(* (finalize, create_line_mapping_result).                                 *)
LEMMA AnswerFollows ==
  ASSUME LineMappingAssumption, ScriptsFit, MapInv, Finalize
  PROVE  MapInv'
<1> DEFINE s == script
           N == Len(s)
           p == Place(s, target)
<1>0. /\ UNCHANGED <<script, target, calls, offset, resolved, inHunk>>
      /\ calls = <<>> /\ result = None
      /\ deleted' = (deleted \/ (inHunk /\ ~resolved))
      /\ result' = MappingResult(deleted')
  BY DEF Finalize
<1>1. s \in Script /\ s \in Scripts /\ Context \in Nat \ {0} /\ N \in Nat
  BY DEF MapInv, LineMappingAssumption, Script
<1>2. calls # None
  <2>1. <<>> \in Seq(Call)
    OBVIOUS
  <2> QED
    BY <1>0, <2>1 DEF LineMappingAssumption
<1>3. PICK i \in 0..N, opened \in BOOLEAN : Reading(i, opened)
  BY <1>0, <1>2 DEF MapInv
<1> DEFINE k == Done(s, i, opened)
           total == Len(Callbacks(s))
<1>4. ~opened /\ \A j \in (i + 1)..N : j \notin Shown(s)
  <2>1. CanBeAt(s, i, opened) /\ calls = SubSeq(Callbacks(s), k + 1, total)
    BY <1>3 DEF Reading
  <2>2. Callbacks(s) \in Seq(Call)
    BY <1>1, CallbacksInOrder
  <2>3. k \in 0..total /\ total \in Nat
    <3>1. Done(s, i, opened) \in 0..Len(Callbacks(s))
      BY <1>1, <2>1, CallToCome
    <3> QED
      BY <2>2, <3>1
  <2>4. k = total
    <3> SUFFICES ASSUME k # total
                 PROVE  FALSE
      OBVIOUS
    <3> HIDE DEF k, total
    <3>1. k + 1 \in 1..total /\ total \in (k + 1)..total
      BY <2>3
    <3>2. \A j \in (k + 1)..total : Callbacks(s)[j] \in Call
      BY <2>2, <2>3 DEF total
    <3>3. Len(SubSeq(Callbacks(s), k + 1, total)) =
            IF k + 1 <= total THEN total - (k + 1) + 1 ELSE 0
      BY <2>3, <3>2, SubSeqProperties
    <3>4. Len(SubSeq(Callbacks(s), k + 1, total)) = total - k
      BY <2>3, <3>1, <3>3
    <3>5. Len(calls) = 0
      BY <1>0
    <3> QED
      BY <2>1, <2>3, <3>1, <3>4, <3>5
  <2> QED
    BY <1>1, <2>1, <2>4, CallToCome
<1>5. /\ target \in 1..(OldLine(s, N) + 1) /\ target \in Nat \ {0} /\ p \in 1..(N + 1)
      /\ target <= MaxI32 /\ OldLine(s, N) \in Nat /\ NewLine(s, N) \in Nat
  <2>1. /\ target \in 1..(OldLine(s, N) + 1) /\ OldLine(s, N) \in Nat
        /\ OldLine(s, N) <= N /\ NewLine(s, N) \in Nat
    BY <1>1, LinesAreCounts, LinesFit DEF MapInv
  <2>2. N < MaxI32 /\ MaxI32 \in Nat
    BY <1>1 DEF ScriptsFit, LineMappingAssumption
  <2>3. p \in 1..(N + 1)
    BY <1>1, <2>1, PlaceOfLine
  <2> HIDE DEF N
  <2> QED
    BY <1>1, <2>1, <2>2, <2>3
<1>6. /\ ~HasLine(s, target) => p = N + 1 /\ target = OldLine(s, N) + 1
      /\ HasLine(s, target) => /\ p \in 1..N /\ OldLine(s, p) = target
                               /\ p = PositionOf(s, target)
  <2>1. HasLine(s, target) <=> target \in 1..OldLine(s, N)
    BY DEF HasLine
  <2>2. /\ HasLine(s, target) <=> p # N + 1
        /\ HasLine(s, target) => p = PositionOf(s, target) /\ OldLine(s, p) = target
    BY <1>1, <1>5, PlaceOfLine
  <2> HIDE DEF N, p
  <2> QED
    BY <1>1, <1>5, <2>1, <2>2
<1> HIDE DEF N, p, k, total
<1>7. ASSUME NEW new \in Nat, target + offset = new, ~deleted'
      PROVE  result' = Mapped(target, new)
  BY <1>0, <1>5, <1>7 DEF MappingResult, Mapped
<1>11. ASSUME result' \in Expected(s, target),
              result' = Gone \/ \E new \in Nat \ {0} : result' = Mapped(target, new)
       PROVE  MapInv'
  <2>1. result' \in Mapping
    BY <1>11 DEF Gone, Mapped, Mapping
  <2>2. result' # None
    BY <2>1 DEF LineMappingAssumption
  <2> QED
    BY <1>0, <1>2, <1>11, <2>2 DEF MapInv, MappingFollowsEdit
<1>8. CASE Ahead(i, opened)
  <2>1. PICK e \in i..N :
          /\ offset = Shift(s, e) /\ e < p
          /\ \A j \in (i + 1)..e : j \in Shown(s)
    BY <1>8 DEF Ahead, N, p
  <2>2. ~resolved /\ ~inHunk /\ ~deleted /\ ~deleted'
    BY <1>0, <1>8 DEF Ahead
  <2>3. e = i /\ i \in Nat
    <3>1. e # i => i + 1 \in (i + 1)..e /\ i + 1 \in (i + 1)..N
      BY <1>1, <2>1
    <3> QED
      BY <1>1, <1>4, <2>1, <3>1
  <2>4. ASSUME NEW n \in i..N
        PROVE  Shift(s, n) = offset
    <3>1. n \in i..Len(s) /\ \A j \in (i + 1)..n : j \notin Shown(s)
      BY <1>1, <1>4, <2>3 DEF N
    <3> QED
      BY <1>1, <2>1, <2>3, <3>1, UnshownKeepsShift
  <2>5. CASE HasLine(s, target)
    <3>1. p \in (i + 1)..N /\ p \in i..N
      BY <1>1, <1>6, <2>1, <2>3, <2>5
    <3>2. s[p] = "keep" /\ offset = Shift(s, p)
      BY <1>1, <1>4, <1>6, <2>4, <2>5, <3>1, ShownEdges DEF N
    <3>3. NewLine(s, p) \in Nat \ {0} /\ OldLine(s, p) \in Nat
      BY <1>6, <2>5, <3>2, LinesAreCounts, CountFromOne
    <3>4. target + offset = NewLine(s, p)
      BY <1>6, <2>5, <3>2, <3>3 DEF Shift
    <3>5. result' = Mapped(target, NewLine(s, p))
      BY <1>7, <2>2, <3>3, <3>4
    <3>6. result' \in Expected(s, target)
      BY <1>6, <2>5, <3>2, <3>5 DEF Expected
    <3> QED
      BY <1>11, <3>3, <3>5, <3>6
  <2>6. CASE ~HasLine(s, target)
    <3>1. offset = Shift(s, N)
      BY <1>1, <2>1, <2>3, <2>4
    <3>2. target + offset = NewLine(s, N) + 1
      BY <1>5, <1>6, <2>6, <3>1 DEF Shift
    <3>3. result' = Mapped(target, NewLine(s, N) + 1)
      BY <1>5, <1>7, <2>2, <3>2
    <3>4. target + NewLine(s, N) - OldLine(s, N) = NewLine(s, N) + 1
      BY <1>5, <1>6, <2>6
    <3>5. result' \in Expected(s, target)
      BY <2>6, <3>3, <3>4 DEF Expected, N
    <3>6. NewLine(s, N) + 1 \in Nat \ {0}
      BY <1>5
    <3> QED
      BY <1>11, <3>3, <3>5, <3>6
  <2> QED
    BY <2>5, <2>6
<1>9. CASE Within(i, opened)
  <2>1. i < p /\ p <= N /\ \A j \in (i + 1)..p : j \in Shown(s)
    BY <1>9 DEF Within, N, p
  <2>2. i + 1 \in (i + 1)..p /\ i + 1 \in (i + 1)..N
    BY <1>1, <1>5, <2>1
  <2> QED
    BY <1>4, <2>1, <2>2
<1>10. CASE Settled
  <2>1. /\ resolved /\ ~inHunk /\ offset \in Int /\ p <= N
        /\ deleted => s[p] = "del"
        /\ ~deleted => s[p] # "del" /\ target + offset = NewLine(s, p)
    BY <1>10 DEF Settled, N, p
  <2>2. (deleted => deleted') /\ (~deleted => ~deleted')
    BY <1>0, <2>1
  <2>3. HasLine(s, target)
    BY <1>1, <1>5, <1>6, <2>1
  <2>4. CASE deleted
    <3>1. result' = Gone
      BY <1>0, <2>2, <2>4 DEF MappingResult
    <3>2. result' \in Expected(s, target)
      BY <1>6, <2>1, <2>3, <2>4, <3>1 DEF Expected
    <3> QED
      BY <1>11, <3>1, <3>2
  <2>5. CASE ~deleted
    <3>1. NewLine(s, p) \in Nat \ {0}
      BY <1>6, <2>1, <2>3, <2>5, LinesAreCounts, CountFromOne
    <3>2. result' = Mapped(target, NewLine(s, p))
      BY <1>7, <2>1, <2>2, <2>5, <3>1
    <3>3. result' \in Expected(s, target)
      BY <1>6, <2>1, <2>3, <2>5, <3>2 DEF Expected
    <3> QED
      BY <1>11, <3>1, <3>2, <3>3
  <2> QED
    BY <2>4, <2>5
<1> QED
  BY <1>3, <1>8, <1>9, <1>10 DEF Reading

(* So it is without a diff (verify_line_mapping).                          *)
LEMMA NoDiffFollows ==
  ASSUME LineMappingAssumption, MapInv, FileGone \/ Unchanged
  PROVE  MapInv'
<1> DEFINE s == script
           p == Place(s, target)
<1>0. /\ UNCHANGED <<script, target, calls, cells>>
      /\ calls = None /\ result = None
  BY DEF FileGone, Unchanged
<1>1. s \in Script /\ Len(s) \in Nat /\ DOMAIN s = 1..Len(s)
  BY DEF MapInv, Script
<1>2. /\ target \in 1..(OldLine(s, Len(s)) + 1) /\ target \in Nat \ {0}
      /\ OldLine(s, Len(s)) \in Nat
  <2>1. target \in 1..(OldLine(s, Len(s)) + 1) /\ OldLine(s, Len(s)) \in Nat
    BY <1>1, LinesAreCounts DEF MapInv
  <2> QED
    BY <2>1
<1>3. HasLine(s, target) => p \in 1..Len(s) /\ p = PositionOf(s, target) /\ OldLine(s, p) = target
  <2>1. HasLine(s, target) => p \in 1..(Len(s) + 1) /\ p # Len(s) + 1
    BY <1>1, <1>2, PlaceOfLine
  <2>2. HasLine(s, target) => p = PositionOf(s, target) /\ OldLine(s, p) = target
    BY <1>1, <1>2, PlaceOfLine
  <2> HIDE DEF p
  <2> QED
    BY <1>1, <2>1, <2>2
<1> HIDE DEF p
<1>4. result' \in Expected(s, target)
  <2>1. CASE FileGone
    <3>1. result' = Gone /\ FileEmptied(s)
      BY <2>1 DEF FileGone
    <3>2. HasLine(s, target) => s[PositionOf(s, target)] = "del"
      BY <1>1, <1>3, <3>1 DEF FileEmptied
    <3> QED
      BY <3>1, <3>2 DEF Expected
  <2>2. CASE Unchanged
    <3>1. result' = Mapped(target, target) /\ Changed(s) = {}
      BY <2>2 DEF Unchanged, Mapped
    <3>2. \A i \in 1..Len(s) : s[i] = "keep"
      BY <1>1, <3>1 DEF Changed
    <3>3. ASSUME NEW i \in 0..Len(s)
          PROVE  NewLine(s, i) = OldLine(s, i)
      <4>1. i \in Nat /\ 0 <= i /\ \A j \in (0 + 1)..i : s[j] = "keep"
        BY <1>1, <3>2
      <4>2. Count(s, "add", i) = Count(s, "add", 0) + (i - 0)
        BY <4>1, CountKept
      <4>3. Count(s, "del", i) = Count(s, "del", 0) + (i - 0)
        BY <4>1, CountKept
      <4>4. Count(s, "add", 0) = 0 /\ Count(s, "del", 0) = 0
        BY CountStep
      <4> QED
        BY <4>1, <4>2, <4>3, <4>4, LinesAreCounts
    <3>4. CASE HasLine(s, target)
      <4>1. p \in 0..Len(s) /\ s[p] = "keep"
        BY <1>1, <1>3, <3>2, <3>4
      <4>2. NewLine(s, p) = target
        BY <1>3, <3>3, <3>4, <4>1
      <4> QED
        BY <1>3, <3>1, <3>4, <4>1, <4>2 DEF Expected
    <3>5. CASE ~HasLine(s, target)
      <4>1. Len(s) \in 0..Len(s)
        BY <1>1
      <4>2. NewLine(s, Len(s)) = OldLine(s, Len(s))
        BY <3>3, <4>1
      <4>3. target + NewLine(s, Len(s)) - OldLine(s, Len(s)) = target
        BY <1>2, <4>2
      <4> QED
        BY <3>1, <3>5, <4>3 DEF Expected
    <3> QED
      BY <3>4, <3>5
  <2> QED
    BY <2>1, <2>2
<1> QED
  BY <1>0, <1>4 DEF MapInv, MappingFollowsEdit, cells

(* Every step of verify_line_mapping keeps the invariant.                  *)
LEMMA MapInvStep ==
  ASSUME LineMappingAssumption, ScriptsFit, MapInv, NextMapping
  PROVE  MapInv'
BY NoDiffFollows, MappingStarts, HunkFollows, LineFollows, AnswerFollows DEF NextMapping

(* It holds before.                                                        *)
LEMMA MapInvInit ==
  ASSUME LineMappingAssumption, InitMapping
  PROVE  MapInv
<1>1. <<>> \in Seq(Call)
  OBVIOUS
<1> QED
  BY <1>1 DEF InitMapping, MapInv, MappingFollowsEdit, LineMappingAssumption, Script

(* It only speaks of the mapping's own state.                              *)
LEMMA MapInvStutter ==
  ASSUME MapInv, UNCHANGED mappingVars
  PROVE  MapInv'
<1>1. /\ script' = script /\ target' = target /\ calls' = calls
      /\ offset' = offset /\ deleted' = deleted /\ resolved' = resolved
      /\ inHunk' = inHunk /\ result' = result
  BY DEF mappingVars, cells
<1>2. MappingFollowsEdit'
  BY <1>1 DEF MapInv, MappingFollowsEdit
<1>3. ASSUME NEW i \in 0..Len(script), NEW opened \in BOOLEAN,
             Reading(i, opened)
      PROVE  Reading(i, opened)'
  <2>1. Ahead(i, opened) => Ahead(i, opened)'
    BY <1>1 DEF Ahead
  <2>2. Within(i, opened) => Within(i, opened)'
    BY <1>1 DEF Within
  <2>3. Settled => Settled'
    BY <1>1 DEF Settled
  <2> QED
    BY <1>1, <1>3, <2>1, <2>2, <2>3 DEF Reading
<1>4. ASSUME calls' # None, result' = None
      PROVE  \E i \in 0..Len(script'), opened \in BOOLEAN : Reading(i, opened)'
  <2>1. PICK i \in 0..Len(script), opened \in BOOLEAN : Reading(i, opened)
    BY <1>1, <1>4 DEF MapInv
  <2> QED
    BY <1>1, <1>3, <2>1
<1> QED
  BY <1>1, <1>2, <1>4 DEF MapInv

(* A line is mapped to where the edit took it, for every edit, every line  *)
(* and every number of context lines (verify_line_mapping).                *)
THEOREM LineMappingFollowsEdit ==
  ASSUME LineMappingAssumption, ScriptsFit
  PROVE  SpecMapping => []MappingFollowsEdit
<1>1. InitMapping => MapInv
  BY MapInvInit
<1>2. MapInv /\ [NextMapping]_mappingVars => MapInv'
  <2> SUFFICES ASSUME MapInv, [NextMapping]_mappingVars
               PROVE  MapInv'
    OBVIOUS
  <2>1. CASE NextMapping
    BY <2>1, MapInvStep
  <2>2. CASE UNCHANGED mappingVars
    BY <2>2, MapInvStutter
  <2> QED
    BY <2>1, <2>2
<1>3. MapInv => MappingFollowsEdit
  BY DEF MapInv
<1> QED
  BY <1>1, <1>2, <1>3, PTL DEF SpecMapping

(* The text of a line is that of its position (line_at).                   *)
LEMMA LineAtPosition ==
  ASSUME script \in Script, NEW side, NEW i \in 1..Len(script), script[i] # side
  PROVE  LineAt(side, Count(script, side, i)) = i
<1> DEFINE N == Len(script)
           kept == {j \in DOMAIN script : script[j] # side}
           n == Count(script, side, i)
<1>1. N \in Nat /\ DOMAIN script = 1..N
  BY DEF Script
<1>2. kept = {j \in 1..N : script[j] # side}
  BY <1>1
<1>3. Cardinality(kept) = Count(script, side, N)
  BY <1>2 DEF Count
<1>4. ASSUME NEW k \in 1..N
      PROVE  Cardinality({j \in kept : j <= k}) = Count(script, side, k)
  <2>1. {j \in kept : j <= k} = {j \in 1..k : script[j] # side}
    BY <1>1
  <2> HIDE DEF kept
  <2> QED
    BY <2>1 DEF Count
<1>5. n \in 1..Cardinality(kept)
  <2>1. i \in Nat \ {0} /\ i <= N
    BY <1>1
  <2> HIDE DEF N, kept
  <2>2. n \in Nat \ {0}
    BY <2>1, CountFromOne
  <2>3. n <= Count(script, side, N) /\ Count(script, side, N) \in Nat
    BY <1>1, <2>1, CountMonotone, CountStep
  <2> QED
    BY <1>3, <2>2, <2>3
<1>6. i \in kept /\ Cardinality({j \in kept : j <= i}) = n
  BY <1>1, <1>4
<1>7. ASSUME NEW k \in kept, Cardinality({j \in kept : j <= k}) = n
      PROVE  k = i
  <2>1. k \in 1..N /\ script[k] # side
    BY <1>2
  <2>2. Count(script, side, k) = Count(script, side, i)
    BY <1>4, <1>7, <2>1
  <2>3. k \in Nat \ {0} /\ i \in Nat \ {0}
    BY <1>1, <2>1
  <2> QED
    BY <2>1, <2>2, <2>3, CountInjective
<1>8. LineAt(side, n) = CHOOSE k \in kept : Cardinality({j \in kept : j <= k}) = n
  BY <1>5 DEF LineAt
<1> HIDE DEF kept, n
<1>9. (CHOOSE k \in kept : Cardinality({j \in kept : j <= k}) = n) = i
  BY <1>6, <1>7
<1> QED
  BY <1>8, <1>9 DEF n

(* The inductive invariant of a verification: the line mapped is the one   *)
(* the comment is anchored to.                                             *)
VerdictInv ==
  /\ script \in Scripts /\ script \in Script /\ comment \in Comment
  /\ \A l \in {comment.original, comment.line} \ {None} :
       l <= OldLine(script, Len(script)) + 1
  /\ target = None =>
       /\ calls = None /\ result = None
       /\ offset = 0 /\ ~deleted /\ ~resolved /\ ~inHunk
  /\ target # None =>
       MapInv /\ target = AnchorLine(comment) /\ AnchorLine(comment) # 0
  /\ VerdictFollowsEdit

(* Nothing is known before (verify_comment).                               *)
LEMMA VerdictInvInit ==
  ASSUME LineMappingAssumption, CommentVerdictAssumption, VerdictInit
  PROVE  VerdictInv
BY DEF VerdictInit, VerdictInv, VerdictFollowsEdit, LineMappingAssumption,
       CommentVerdictAssumption, Script

(* Every step of verify_comment keeps the invariant.                       *)
LEMMA VerdictInvStep ==
  ASSUME LineMappingAssumption, ScriptsFit, VerdictInv, VerdictNext
  PROVE  VerdictInv'
<1> DEFINE s == script
           p == Place(s, target)
           line == IF comment.original # None THEN comment.original ELSE comment.line
<1>1. /\ s \in Script /\ Len(s) \in Nat /\ DOMAIN s = 1..Len(s) /\ OldLine(s, Len(s)) \in Nat
      /\ comment.original \in Nat \cup {None} /\ comment.line \in Nat \cup {None}
  BY LinesAreCounts DEF VerdictInv, Script, Comment
<1>2. CASE AnchorForComment
  <2>1. /\ UNCHANGED <<script, calls, cells, result, comment>> /\ target = None /\ verdict = None
    BY <1>2 DEF AnchorForComment
  <2>2. CASE Anchored(comment)
    <3>1. target' = AnchorLine(comment) /\ verdict' = verdict /\ AnchorLine(comment) # 0
      BY <1>2, <2>2 DEF AnchorForComment, Anchored
    <3>2. AnchorLine(comment) = line /\ line \in Nat \ {0}
      BY <1>1, <3>1 DEF AnchorLine
    <3>3. line <= OldLine(s, Len(s)) + 1
      BY <1>1, <3>2 DEF VerdictInv
    <3>4. target' # None /\ target' \in 1..(OldLine(s, Len(s)) + 1)
      <4> HIDE DEF line
      <4> QED
        BY <1>1, <3>1, <3>2, <3>3 DEF LineMappingAssumption
    <3>5. MapInv'
      BY <2>1, <3>4 DEF VerdictInv, MapInv, MappingFollowsEdit, cells
    <3>6. VerdictFollowsEdit'
      BY <2>1, <3>1 DEF VerdictFollowsEdit
    <3> QED
      BY <2>1, <3>1, <3>4, <3>5, <3>6 DEF VerdictInv
  <2>3. CASE ~Anchored(comment)
    <3>1. target' = target /\ verdict' = Unverified("InsufficientMetadata")
      BY <1>2, <2>3 DEF AnchorForComment
    <3>2. ~comment.sha \/ ~comment.path \/ line \in {None, 0}
      BY <1>1, <2>3 DEF Anchored, AnchorLine
    <3>3. VerdictFollowsEdit'
      BY <2>1, <3>1, <3>2 DEF VerdictFollowsEdit, Unverified
    <3> QED
      BY <2>1, <3>1, <3>3 DEF VerdictInv, cells
  <2> QED
    BY <2>2, <2>3
<1>3. CASE MapLine
  <2>1. UNCHANGED <<comment, verdict>> /\ target # None /\ verdict = None /\ NextMapping
    BY <1>3 DEF MapLine
  <2>2. MapInv'
    BY <2>1, MapInvStep DEF VerdictInv
  <2>3. script' = script /\ target' = target
    BY <2>1 DEF NextMapping, FileGone, Unchanged, CreateFileDiff, ProcessHunk, ProcessLine, Finalize
  <2> QED
    BY <2>1, <2>2, <2>3 DEF VerdictInv, VerdictFollowsEdit
<1> SUFFICES ASSUME RepositoryFails \/ LineRemoved \/ ClassifyLineComparison
             PROVE  VerdictFollowsEdit'
  <2>1. CASE RepositoryFails \/ LineRemoved \/ ClassifyLineComparison
    <3>1. UNCHANGED <<mappingVars, comment>>
      BY <2>1 DEF RepositoryFails, LineRemoved, ClassifyLineComparison
    <3>2. VerdictFollowsEdit'
      BY <2>1
    <3>3. MapInv => MapInv'
      BY <3>1, MapInvStutter
    <3> QED
      BY <3>1, <3>2, <3>3 DEF VerdictInv, mappingVars, cells
  <2> QED
    BY <1>2, <1>3, <2>1 DEF VerdictNext
<1>4. UNCHANGED <<script, comment>>
  BY DEF RepositoryFails, LineRemoved, ClassifyLineComparison, mappingVars
<1>5. CASE RepositoryFails
  BY <1>5 DEF RepositoryFails, VerdictFollowsEdit, Unverified
<1>6. CASE result # None
  <2>1. target # None /\ MapInv /\ target = line /\ result \in Expected(s, target)
    <3>1. target # None
      BY <1>6 DEF VerdictInv
    <3>2. MapInv /\ target = AnchorLine(comment) /\ AnchorLine(comment) # 0
      BY <3>1 DEF VerdictInv
    <3>3. target = line
      BY <3>2 DEF AnchorLine
    <3> QED
      BY <1>6, <3>1, <3>2, <3>3 DEF MapInv, MappingFollowsEdit
  <2>2. target \in 1..(OldLine(s, Len(s)) + 1)
    BY <2>1 DEF MapInv
  <2>3. /\ p \in 1..(Len(s) + 1) /\ (HasLine(s, target) <=> p # Len(s) + 1)
        /\ HasLine(s, target) => /\ p = PositionOf(s, target) /\ s[p] # "add"
                                 /\ OldLine(s, p) = target
    BY <1>1, <2>2, PlaceOfLine
  <2> HIDE DEF p, line
  <2>4. HasLine(s, target) => p \in 1..Len(s)
    BY <1>1, <2>3
  <2>5. HasLine(s, target) =>
          result = IF s[p] = "del" THEN Gone ELSE Mapped(target, NewLine(s, p))
    BY <2>1, <2>3 DEF Expected
  <2>6. ~HasLine(s, target) =>
          result.status # "Deleted" \/ FileEmptied(s)
    BY <2>1 DEF Expected, Mapped
  <2>7. CASE LineRemoved
    <3>1. result.status = "Deleted" /\ verdict' = Verified("LineRemoved")
      BY <2>7 DEF LineRemoved
    <3>2. FileEmptied(s) \/ (HasLine(s, line) /\ s[PositionOf(s, line)] = "del")
      BY <2>1, <2>3, <2>5, <2>6, <3>1 DEF Mapped
    <3> QED
      BY <1>4, <3>1, <3>2 DEF VerdictFollowsEdit, Verified, line
  <2>8. CASE ClassifyLineComparison
    <3> DEFINE old == LineAt("add", target)
               new == LineAt("del", result.line)
    <3>1. /\ result.status # "Deleted"
          /\ verdict' = IF old = None \/ new = None THEN Unverified("LineOutOfBounds")
                        ELSE IF old = new THEN Unverified("LineUnchanged")
                        ELSE Verified("LineChanged")
      BY <2>8 DEF ClassifyLineComparison
    <3>2. CASE HasLine(s, target)
      <4>1. s[p] # "del" /\ result.line = NewLine(s, p)
        BY <2>5, <3>1, <3>2 DEF Gone, Mapped
      <4>2. s[p] = "keep"
        BY <1>1, <2>3, <2>4, <3>2, <4>1 DEF Script
      <4>3. OldLine(s, p) = Count(s, "add", p) /\ NewLine(s, p) = Count(s, "del", p)
        BY <1>1, <2>4, <3>2, LinesAreCounts
      <4>4. old = p /\ new = p
        BY <1>1, <2>3, <2>4, <3>2, <4>1, <4>3, LineAtPosition
      <4>5. p # None
        BY <1>1, <2>4, <3>2 DEF LineMappingAssumption
      <4>6. verdict' = Unverified("LineUnchanged")
        BY <3>1, <4>4, <4>5
      <4> HIDE DEF old, new
      <4> QED
        BY <1>4, <2>1, <2>3, <3>2, <4>2, <4>6 DEF VerdictFollowsEdit, Unverified, line
    <3>3. CASE ~HasLine(s, target)
      <4>1. Cardinality({i \in DOMAIN s : s[i] # "add"}) = OldLine(s, Len(s))
        BY <1>1 DEF OldLine
      <4>2. old = None
        BY <3>3, <4>1 DEF LineAt, HasLine
      <4>3. verdict' = Unverified("LineOutOfBounds")
        BY <3>1, <4>2
      <4> HIDE DEF old, new
      <4> QED
        BY <1>4, <2>1, <3>3, <4>3 DEF VerdictFollowsEdit, Unverified, line
    <3> QED
      BY <3>2, <3>3
  <2> QED
    BY <1>5, <2>7, <2>8
<1> QED
  BY <1>5, <1>6 DEF LineRemoved, ClassifyLineComparison

(* The invariant always holds.                                             *)
THEOREM VerdictIsInvariant ==
  ASSUME LineMappingAssumption, CommentVerdictAssumption, ScriptsFit
  PROVE  VerdictSpec => []VerdictInv
<1>1. VerdictInit => VerdictInv
  BY VerdictInvInit
<1>2. VerdictInv /\ [VerdictNext]_verdictVars => VerdictInv'
  <2> SUFFICES ASSUME VerdictInv, [VerdictNext]_verdictVars
               PROVE  VerdictInv'
    OBVIOUS
  <2>1. CASE VerdictNext
    BY <2>1, VerdictInvStep
  <2>2. CASE UNCHANGED verdictVars
    <3>1. MapInv => MapInv'
      BY <2>2, MapInvStutter DEF verdictVars
    <3>2. VerdictFollowsEdit'
      BY <2>2 DEF verdictVars, mappingVars, VerdictInv, VerdictFollowsEdit
    <3> QED
      BY <2>2, <3>1, <3>2 DEF verdictVars, mappingVars, cells, VerdictInv
  <2> QED
    BY <2>1, <2>2
<1> QED
  BY <1>1, <1>2, PTL DEF VerdictSpec

(* Whatever the edit and the comment, the line is mapped to where the edit *)
(* took it, and the verdict is what became of it (verify_comment in        *)
(* src/src/verification/service.rs).                                       *)
THEOREM VerdictsFollowEdits ==
  ASSUME LineMappingAssumption, CommentVerdictAssumption, ScriptsFit
  PROVE  VerdictSpec => [](MappingFollowsEdit /\ VerdictFollowsEdit)
<1>1. VerdictInv => MappingFollowsEdit /\ VerdictFollowsEdit
  BY DEF VerdictInv, MapInv, MappingFollowsEdit
<1> QED
  BY <1>1, VerdictIsInvariant, PTL
===========================================================================
