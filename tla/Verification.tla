---------------------------- MODULE Verification ----------------------------
(***************************************************************************)
(* Verification requests and the cache of verdicts:                        *)
(* src/src/tui/app/verification_handlers.rs, verification_state.rs,        *)
(* src/src/persistence/review_comment_verification_cache/ and              *)
(* src/src/cli/verify_resolutions.rs.                                      *)
(*                                                                         *)
(* `v' and `V' start a blocking task that verifies comments at the HEAD    *)
(* Frankie was started at, stores the verdicts in one transaction and      *)
(* answers.  A newer request supersedes an older one on screen, not in the *)
(* database; frankie --verify-resolutions writes to the same database from *)
(* another process, and whoever finds it locked fails at once.             *)
(*                                                                         *)
(* Comments change on GitHub now and then; which form of them a verdict    *)
(* was made of stands for the verdict.                                     *)
(***************************************************************************)
EXTENDS Option, Naturals, Integers, FiniteSets

CONSTANTS
  Comments,     \* review comments
  MaxHead,      \* bound: commits HEAD goes through
  MaxEdits,     \* bound: changes of the comments on GitHub
  MaxRequests,  \* bound: requests of a session
  MaxRuns,      \* bound: runs of frankie --verify-resolutions
  MaxSessions,  \* bound: starts of the TUI
  MaxTasks      \* bound: verifications under way at once

(* On screen a verdict has the number of its request, one read from the    *)
(* cache 0.                                                                *)
Forms   == Nat
Verdict == [form: Forms, target: Nat, request: Nat]

(* In the database it has the number of the commit that put it there, which*)
(* is history: nothing reads it.                                           *)
StoredVerdict == [form: Forms, stamp: Nat]

ASSUME VerificationAssumption ==
  /\ IsFiniteSet(Comments)
  /\ None \notin Nat \cup Verdict \cup StoredVerdict
  /\ MaxHead \in Nat \ {0}
  /\ {MaxEdits, MaxRequests, MaxRuns, MaxSessions, MaxTasks} \subseteq Nat

(* A task of the TUI has its request's number, a run of the command line   *)
(* one of its own.  A task that could store its verdicts has the number of *)
(* that commit, any other 0.                                               *)
TaskId == {"tui", "cli"} \X Nat

Task == [id: TaskId, target: Nat, batch: SUBSET Comments, form: Forms,
         phase: {"verified", "writing", "done"}, written: SUBSET Comments,
         saved: Nat]

VARIABLES
  head,         \* HEAD of the local repository
  server,       \* the form of the comments on GitHub
  reviews,      \* their form in the review list
  running,      \* whether the TUI runs
  sessions,     \* starts of the TUI so far
  headSha,      \* head_sha: HEAD at its start; None: cannot verify
  toLoad,       \* comments whose cached verdict is still to be read
  summaryOpen,  \* the discussion summary has the screen
  results,      \* verification.results
  nextRequest,  \* verification.next_request_id
  inFlight,     \* verification.in_flight_request_id
  error,        \* whether an error banner is shown
  tasks,        \* verifications under way, of both processes
  runs,         \* runs of the command line so far
  lock,         \* who holds SQLite's write lock
  db,           \* review_comment_verifications
  commits       \* transactions committed so far (history)

world   == <<head, server>>
app     == <<running, sessions, headSha, toLoad, summaryOpen>>
request == <<results, nextRequest, inFlight, error>>
database == <<lock, db, commits>>
vars == <<world, reviews, app, request, tasks, runs, database>>

NoVerdicts == [c \in Comments |-> None]

Init ==
  /\ head = 1
  /\ server = 0 /\ reviews = 0
  /\ running = FALSE /\ sessions = 0 /\ headSha = None /\ toLoad = {}
  /\ summaryOpen = FALSE
  /\ results = NoVerdicts /\ nextRequest = 1 /\ inFlight = None
  /\ error = FALSE
  /\ tasks = {} /\ runs = 0 /\ lock = None
  /\ db = [c \in Comments |-> [h \in 1..MaxHead |-> None]]
  /\ commits = 0

---------------------------------------------------------------------------
(* The world.                                                              *)

Commit ==
  /\ head < MaxHead
  /\ head' = head + 1
  /\ UNCHANGED <<server, reviews, app, request, tasks, runs, database>>

GithubEdits ==
  /\ server < MaxEdits
  /\ server' = server + 1
  /\ UNCHANGED <<head, reviews, app, request, tasks, runs, database>>

(* The list takes the server's comments; ReviewSync has the details.       *)
Sync ==
  /\ running
  /\ reviews' = server
  /\ UNCHANGED <<world, app, request, tasks, runs, database>>

---------------------------------------------------------------------------
(* Start, quit and the views of the TUI.                                   *)

OfTUI == {t \in tasks : t.id[1] = "tui"}

(* init: a new ReviewApp, whose cached verdicts are read comment by        *)
(* comment; without a repository or a database there is nothing to verify  *)
(* with, which headSha = None stands for.  One TUI runs at a time.         *)
Start ==
  /\ ~running /\ OfTUI = {} /\ sessions < MaxSessions
  /\ running' = TRUE /\ sessions' = sessions + 1
  /\ headSha' \in {head, None}
  /\ toLoad' = IF headSha' = None THEN {} ELSE Comments
  /\ reviews' = server
  /\ UNCHANGED <<world, summaryOpen, request, tasks, runs, database>>

(* Mutant: the row of any target is taken. *)
LoadRowOfAny ==
  /\ \E c \in toLoad :
       /\ toLoad' = toLoad \ {c}
       /\ \E h \in {headSha} \cup {k \in 1..MaxHead : db[c][k] # None} :
            results' = [results EXCEPT ![c] =
              IF db[c][h] = None THEN None
              ELSE [form |-> db[c][h].form, target |-> h, request |-> 0]]
  /\ UNCHANGED <<world, reviews, running, sessions, headSha, summaryOpen,
                 nextRequest, inFlight, error, tasks, runs, database>>

(* One SELECT of get_for_comments. *)
LoadRow ==
  /\ \E c \in toLoad :
       /\ toLoad' = toLoad \ {c}
       /\ results' = [results EXCEPT ![c] =
            IF db[c][headSha] = None THEN None
            ELSE [form |-> db[c][headSha].form, target |-> headSha,
                  request |-> 0]]
  /\ UNCHANGED <<world, reviews, running, sessions, headSha, summaryOpen,
                 nextRequest, inFlight, error, tasks, runs, database>>

LoadFails ==
  /\ toLoad # {}
  /\ toLoad' = {}
  /\ results' = NoVerdicts
  /\ error' = TRUE
  /\ UNCHANGED <<world, reviews, running, sessions, headSha, summaryOpen,
                 nextRequest, inFlight, tasks, runs, database>>

AppGone ==
  /\ running' = FALSE /\ headSha' = None /\ toLoad' = {}
  /\ reviews' = 0 /\ summaryOpen' = FALSE
  /\ results' = NoVerdicts /\ nextRequest' = 1 /\ inFlight' = None
  /\ error' = FALSE
  /\ UNCHANGED <<world, sessions, runs, db, commits>>

(* The user quits: the runtime drops the tasks no thread has begun, and    *)
(* waits for the others, whose answers nobody hears.                       *)
Quit ==
  /\ running
  /\ \E begun \in SUBSET OfTUI :
       /\ \A t \in OfTUI : t.phase # "verified" => t \in begun
       /\ tasks' = (tasks \ OfTUI) \cup begun
  /\ AppGone
  /\ UNCHANGED lock

(* The process is killed, its memory and its threads with it; SQLite rolls *)
(* back what they had not committed.                                       *)
Killed ==
  /\ running \/ OfTUI # {}
  /\ tasks' = tasks \ OfTUI
  /\ lock' = IF lock # None /\ lock[1] = "tui" THEN None ELSE lock
  /\ AppGone

ToggleSummary ==
  /\ running /\ toLoad = {}
  /\ summaryOpen' = ~summaryOpen
  /\ UNCHANGED <<world, reviews, running, sessions, headSha, toLoad,
                 request, tasks, runs, database>>

---------------------------------------------------------------------------
(* Requests.                                                               *)

NewTask(id, target, batch, form) ==
  [id |-> id, target |-> target, batch |-> batch, form |-> form,
   phase |-> "verified", written |-> {}, saved |-> 0]

Keys == running /\ toLoad = {} /\ ~summaryOpen

(* spawn_verification without a repository or a database. *)
VerifyRefused ==
  /\ Keys /\ headSha = None
  /\ error' = TRUE
  /\ UNCHANGED <<world, reviews, app, results, nextRequest, inFlight, tasks,
                 runs, database>>

(* `v' and `V': the comments as they are in the list. *)
SpawnVerification ==
  /\ Keys
  /\ nextRequest <= MaxRequests /\ Cardinality(tasks) < MaxTasks
  /\ headSha # None
  /\ \E batch \in SUBSET Comments \ {{}} :
       tasks' = tasks \cup
         {NewTask(<<"tui", nextRequest>>, headSha, batch, reviews)}
  /\ nextRequest' = nextRequest + 1
  /\ inFlight' = nextRequest
  /\ UNCHANGED <<world, reviews, app, results, error, runs, database>>

(* run: every comment GitHub has, at HEAD. *)
VerifyResolutions ==
  /\ runs < MaxRuns /\ Cardinality(tasks) < MaxTasks
  /\ runs' = runs + 1
  /\ tasks' = tasks \cup {NewTask(<<"cli", runs>>, head, Comments, server)}
  /\ UNCHANGED <<world, reviews, app, request, database>>

---------------------------------------------------------------------------
(* upsert_all                                                              *)

Becomes(t, u) == tasks' = (tasks \ {t}) \cup {u}

(* BEGIN IMMEDIATE *)
Begin(t) ==
  /\ t.phase = "verified" /\ lock = None
  /\ lock' = t.id
  /\ Becomes(t, [t EXCEPT !.phase = "writing"])
  /\ UNCHANGED <<db, commits>>

(* The database is locked by another, or cannot be opened. *)
BeginFails(t) ==
  /\ t.phase = "verified"
  /\ Becomes(t, [t EXCEPT !.phase = "done"])
  /\ UNCHANGED database

(* What a task commits to a row. *)
RowOf(t) == [form |-> t.form, stamp |-> commits + 1]

(* Mutant: each row is committed as it is written. *)
WriteRowInPlace(t) ==
  /\ t.phase = "writing"
  /\ \E c \in t.batch \ t.written :
       /\ Becomes(t, [t EXCEPT !.written = @ \cup {c}])
       /\ db' = [db EXCEPT ![c][t.target] = RowOf(t)]
  /\ commits' = commits + 1
  /\ UNCHANGED lock

(* upsert_with_connection: seen by others only once committed. *)
WriteRow(t) ==
  /\ t.phase = "writing"
  /\ \E c \in t.batch \ t.written :
       Becomes(t, [t EXCEPT !.written = @ \cup {c}])
  /\ UNCHANGED database

(* A row or the COMMIT fails: the transaction is rolled back, at the       *)
(* latest when the connection is closed.                                   *)
WriteFails(t) ==
  /\ t.phase = "writing"
  /\ lock' = None
  /\ Becomes(t, [t EXCEPT !.phase = "done", !.written = {}])
  /\ UNCHANGED <<db, commits>>

RowsCommitted(t) ==
  db' = [c \in Comments |->
           IF c \in t.written
             THEN [db[c] EXCEPT ![t.target] = RowOf(t)] ELSE db[c]]

(* Mutant: a failed COMMIT counts as one. *)
CommitUnchecked(t) ==
  /\ t.phase = "writing" /\ t.written = t.batch
  /\ lock' = None
  /\ commits' = commits + 1
  /\ Becomes(t, [t EXCEPT !.phase = "done", !.written = {},
                          !.saved = commits + 1])
  /\ RowsCommitted(t) \/ UNCHANGED db

CommitRows(t) ==
  /\ t.phase = "writing" /\ t.written = t.batch
  /\ lock' = None
  /\ commits' = commits + 1
  /\ Becomes(t, [t EXCEPT !.phase = "done", !.written = {},
                          !.saved = commits + 1])
  /\ RowsCommitted(t)

Store(t) ==
  /\ Begin(t) \/ BeginFails(t) \/ WriteRow(t) \/ WriteFails(t)
     \/ CommitRows(t)
  /\ UNCHANGED <<world, reviews, app, request, runs>>

---------------------------------------------------------------------------
(* Answers.                                                                *)

Ends(t) ==
  /\ tasks' = tasks \ {t}
  /\ UNCHANGED <<world, reviews, app, nextRequest, runs, db, commits>>

(* Mutant: whatever is ready is shown. *)
VerificationReadyUnchecked(t) ==
  /\ running /\ t.phase = "done" /\ t.id[1] = "tui" /\ ~summaryOpen
  /\ inFlight' = None
  /\ results' = [c \in Comments |->
       IF c \in t.batch
         THEN [form |-> t.form, target |-> t.target, request |-> t.id[2]]
         ELSE results[c]]
  /\ error' = (t.saved = 0)
  /\ Ends(t) /\ UNCHANGED lock

(* handle_verification_ready, with the error of the store. *)
VerificationReady(t) ==
  /\ t.phase = "done" /\ t.id[1] = "tui" /\ ~summaryOpen
  /\ inFlight = t.id[2]
  /\ inFlight' = None
  /\ results' = [c \in Comments |->
       IF c \in t.batch
         THEN [form |-> t.form, target |-> t.target, request |-> t.id[2]]
         ELSE results[c]]
  /\ error' = (t.saved = 0)
  /\ Ends(t) /\ UNCHANGED lock

(* Mutant: a panic is not answered. *)
VerificationFailedSilently(t) ==
  /\ t.phase # "done" /\ t.id[1] = "tui" /\ ~summaryOpen
  /\ inFlight = t.id[2]
  /\ lock' = IF lock = t.id THEN None ELSE lock
  /\ Ends(t) /\ UNCHANGED <<results, inFlight, error>>

(* handle_verification_failed: the task panicked, whatever it was at. *)
VerificationFailed(t) ==
  /\ t.phase # "done" /\ t.id[1] = "tui" /\ ~summaryOpen
  /\ inFlight = t.id[2]
  /\ inFlight' = None /\ error' = TRUE
  /\ lock' = IF lock = t.id THEN None ELSE lock
  /\ Ends(t) /\ UNCHANGED results

(* An answer is superseded, or comes while the summary has the screen; the *)
(* command line's run is over, or killed.                                  *)
AnswerIgnored(t) ==
  /\ t.id[1] = "tui" => summaryOpen \/ inFlight # t.id[2]
  /\ lock' = IF lock = t.id THEN None ELSE lock
  /\ Ends(t) /\ UNCHANGED <<results, inFlight, error>>

TaskStep(t) ==
  \/ Store(t)
  \/ VerificationReady(t) \/ VerificationFailed(t) \/ AnswerIgnored(t)

Next ==
  \/ Commit \/ GithubEdits \/ Sync
  \/ Start \/ LoadRow \/ LoadFails \/ Quit \/ Killed \/ ToggleSummary
  \/ VerifyRefused \/ SpawnVerification \/ VerifyResolutions
  \/ \E t \in tasks : TaskStep(t)

(* Blocking threads run, whatever the user does. *)
Fairness == WF_vars(\E t \in tasks : TaskStep(t))

Spec == Init /\ [][Next]_vars /\ Fairness

---------------------------------------------------------------------------
TypeOK ==
  /\ head \in Nat
  /\ server \in Forms /\ reviews \in Forms
  /\ running \in BOOLEAN /\ sessions \in Nat
  /\ headSha \in Nat \cup {None}
  /\ toLoad \subseteq Comments /\ summaryOpen \in BOOLEAN
  /\ results \in [Comments -> Verdict \cup {None}]
  /\ nextRequest \in Nat /\ inFlight \in Nat \cup {None}
  /\ error \in BOOLEAN
  /\ tasks \subseteq Task
  /\ runs \in Nat
  /\ lock \in TaskId \cup {None}
  /\ db \in [Comments -> [1..MaxHead -> StoredVerdict \cup {None}]]
  /\ commits \in Nat

(* The verdicts on screen are about the HEAD Frankie was started at, those *)
(* another process stored for another HEAD notwithstanding.                *)
VerdictsAreForHead ==
  \A c \in Comments : results[c] # None => results[c].target = headSha

(* The database changes by whole batches: no failure, crash or other       *)
(* writer ever leaves a part of one, or rows of two.                       *)
StoredAsAWhole ==
  [][\A c \in Comments : db'[c] # db[c] =>
       \E t \in tasks : /\ c \in t.batch
                        /\ \A d \in t.batch :
                             db'[d][t.target] = RowOf(t)]_vars

(* Verdicts that come on screen without a complaint about the database are *)
(* those of a transaction that was committed: each row holds the verdict   *)
(* shown, or one that another writer has committed since.                  *)
AcknowledgedIsStored ==
  [][\A c \in Comments :
       /\ results'[c] # results[c] /\ results'[c] # None
       /\ toLoad = {} /\ ~error'
       => \E t \in tasks :
            LET stored == db[c][headSha] IN
            /\ t.id = <<"tui", results'[c].request>>
            /\ t.saved \in 1..commits
            /\ stored # None /\ stored.stamp >= t.saved
            /\ stored.stamp = t.saved => stored.form = results'[c].form]_vars

(* Answers arrive in any order, are superseded, fall to the summary or to  *)
(* a quit: on screen they are numbered requests of which the latest        *)
(* counts, so that no comment goes back to the verdict of an older one     *)
(* (handle_verification_ready, handle_verification_failed).                *)
VerdictSlot ==
  INSTANCE RequestSlot WITH
    Places <- Comments,
    issued <- nextRequest - 1,
    open   <- inFlight,
    shown  <- [c \in Comments |->
                 IF results[c] = None \/ results[c].request = 0 THEN None
                 ELSE results[c].request]

RequestsAreNumbered == VerdictSlot!SpecSlot

(* A request does not stay under way: it is answered, superseded, or its   *)
(* answer falls to the discussion summary.                                 *)
RequestEnds ==
  \A r \in 1..MaxRequests :
    (inFlight = r /\ \E t \in tasks : t.id = <<"tui", r>>)
      ~> (~running \/ inFlight # r \/ summaryOpen)
=============================================================================
