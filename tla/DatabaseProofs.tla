--------------------------- MODULE DatabaseProofs ---------------------------
(***************************************************************************)
(* Proofs about what Frankie keeps in its database, for any number of      *)
(* processes that share it, whatever fails or stops in between: the        *)
(* verdicts of resolution verification (Verification), and the metadata of *)
(* a pull request (MetadataCache).                                         *)
(*                                                                         *)
(* Verdicts: a running TUI verifies at the HEAD it was started at, and     *)
(* what it says is stored was committed, and stands until a later commit   *)
(* replaces it.  Metadata: a call notes the time before it asks GitHub, so *)
(* whatever it was sent was published last at that time or later, and      *)
(* stays true of the time noted however                                    *)
(* long the call takes.  A 304 says so of the entry the call had read,     *)
(* because an entry carries the validator of its own metadata or none.     *)
(***************************************************************************)
EXTENDS Verification, MetadataCache, TLAPS

---------------------------------------------------------------------------
(* Verdicts.                                                               *)

(* A TUI that does not run has left nothing behind but its database; while *)
(* it reads that, it has asked for nothing.                                *)
SessionInv ==
  /\ ~running => results = NoVerdicts /\ inFlight = None
  /\ toLoad # {} =>
       /\ running /\ inFlight = None /\ headSha # None
       /\ \A c \in Comments : results[c] # None => results[c].request = 0
  /\ \A c \in toLoad : results[c] = None
  /\ nextRequest >= 1 /\ (inFlight # None => inFlight >= 1)

(* What is verified is verified at a HEAD there was, in the TUI at the one *)
(* it was started at.                                                      *)
TasksInv ==
  /\ head \in 1..MaxHead /\ headSha \in (1..MaxHead) \cup {None}
  /\ \A t \in tasks :
       /\ t.target \in 1..MaxHead
       /\ t.id[1] = "tui" /\ running => t.target = headSha

(* What a task has committed stands, row by row, until a later commit      *)
(* replaces it: nothing deletes a row, or puts an earlier one back.        *)
StandsIn(t, stored) ==
  /\ stored # None /\ stored.stamp >= t.saved
  /\ stored.stamp = t.saved => stored.form = t.form

SavedIsStored ==
  \A t \in tasks : t.saved # 0 =>
    /\ t.saved <= commits
    /\ \A c \in t.batch : StandsIn(t, db[c][t.target])

IInv ==
  /\ TypeOK
  /\ SessionInv
  /\ TasksInv
  /\ VerdictsAreForHead
  /\ SavedIsStored

---------------------------------------------------------------------------
(* Nothing is verified at the start.                                       *)
LEMMA InvInit == Init => IInv
<1> SUFFICES ASSUME Init PROVE IInv
  OBVIOUS
<1> USE VerificationAssumption DEF VerificationAssumption, Init
<1>1. TypeOK
  BY DEF TypeOK, Forms, NoVerdicts
<1>2. SessionInv /\ VerdictsAreForHead
  BY DEF SessionInv, VerdictsAreForHead, NoVerdicts
<1>3. TasksInv /\ SavedIsStored
  BY DEF TasksInv, SavedIsStored
<1> QED
  BY <1>1, <1>2, <1>3 DEF IInv

(* The world, the summary view and refused keys touch nothing of this      *)
(* (spawn_verification without a repository). *)
LEMMA WorldKeepsInv ==
  ASSUME IInv,
         Commit \/ GithubEdits \/ Sync \/ ToggleSummary \/ VerifyRefused
           \/ UNCHANGED vars
  PROVE  IInv'
<1>1. /\ UNCHANGED <<running, sessions, headSha, toLoad, results, nextRequest,
                     inFlight, tasks, runs, lock, db, commits>>
      /\ head' = head \/ (head < MaxHead /\ head' = head + 1)
      /\ server' = server \/ server' = server + 1
      /\ reviews' \in {reviews, server}
      /\ summaryOpen' = summaryOpen \/ summaryOpen' = ~summaryOpen
      /\ error' = error \/ error' = TRUE
  BY DEF Commit, GithubEdits, Sync, ToggleSummary, VerifyRefused, vars,
         world, app, request, database
<1>2. head' \in 1..MaxHead
  BY <1>1, VerificationAssumption DEF VerificationAssumption, IInv, TasksInv
<1>3. TypeOK'
  <2>1. head' \in Nat /\ server' \in Forms /\ reviews' \in Forms
    BY <1>1 DEF IInv, TypeOK, Forms
  <2>2. summaryOpen' \in BOOLEAN /\ error' \in BOOLEAN
    BY <1>1 DEF IInv, TypeOK
  <2> QED
    BY <1>1, <2>1, <2>2 DEF IInv, TypeOK
<1>4. SessionInv' /\ VerdictsAreForHead' /\ SavedIsStored'
  BY <1>1 DEF IInv, SessionInv, VerdictsAreForHead, SavedIsStored, StandsIn
<1>5. TasksInv'
  BY <1>1, <1>2 DEF IInv, TasksInv
<1> QED
  BY <1>3, <1>4, <1>5 DEF IInv

(* A start finds no verdicts on screen and no task of its own under way    *)
(* (init).                                                                 *)
LEMMA StartKeepsInv ==
  ASSUME IInv, Start
  PROVE  IInv'
<1> USE DEF IInv, Start
<1>1. UNCHANGED <<head, server, request, tasks, runs, lock, db, commits>>
  BY DEF world, database
<1>2. UNCHANGED <<results, nextRequest, inFlight, error>>
  BY <1>1 DEF request
<1>3. headSha' \in (1..MaxHead) \cup {None} /\ toLoad' \subseteq Comments
  BY DEF TasksInv
<1>4. TypeOK'
  <2>1. headSha' \in Nat \cup {None}
    BY DEF TypeOK
  <2> QED
    BY <1>1, <1>2, <1>3, <2>1 DEF TypeOK
<1>5. results' = NoVerdicts /\ inFlight' = None
  BY <1>2 DEF SessionInv
<1>6. SessionInv'
  BY <1>2, <1>3, <1>5 DEF SessionInv, NoVerdicts
<1>7. TasksInv'
  BY <1>1, <1>3 DEF TasksInv, OfTUI
<1>8. VerdictsAreForHead' /\ SavedIsStored'
  BY <1>1, <1>5 DEF VerdictsAreForHead, SavedIsStored, StandsIn, NoVerdicts
<1> QED
  BY <1>4, <1>6, <1>7, <1>8

(* A row read is for the HEAD of this session (get_for_comments). *)
LEMMA LoadKeepsInv ==
  ASSUME IInv, LoadRow
  PROVE  IInv'
<1> USE DEF IInv
<1>1. PICK c \in toLoad :
        /\ toLoad' = toLoad \ {c}
        /\ results' = [results EXCEPT ![c] =
             IF db[c][headSha] = None THEN None
             ELSE [form |-> db[c][headSha].form, target |-> headSha,
                   request |-> 0]]
  BY DEF LoadRow
<1>2. UNCHANGED <<world, reviews, running, sessions, headSha, summaryOpen,
                  nextRequest, inFlight, error, tasks, runs, lock, db, commits>>
  BY DEF LoadRow, database
<1> DEFINE loaded ==
             IF db[c][headSha] = None THEN None
             ELSE [form |-> db[c][headSha].form, target |-> headSha,
                   request |-> 0]
<1>3. c \in Comments /\ results \in [Comments -> Verdict \cup {None}]
  BY <1>1 DEF TypeOK
<1>4. loaded \in Verdict \cup {None}
  <2>1. headSha \in 1..MaxHead /\ headSha \in Nat
    BY <1>1 DEF SessionInv, TasksInv, TypeOK
  <2>2. db[c][headSha] \in StoredVerdict \cup {None}
    BY <1>3, <2>1 DEF TypeOK
  <2> QED
    BY <2>1, <2>2 DEF Verdict, StoredVerdict, Forms
<1> HIDE DEF loaded
<1>5. /\ results' \in [Comments -> Verdict \cup {None}]
      /\ results'[c] = loaded
      /\ \A d \in Comments \ {c} : results'[d] = results[d]
  BY <1>1, <1>3, <1>4 DEF loaded
<1>6. UNCHANGED <<head, server, runs>>
  BY <1>2 DEF world
<1>7. TypeOK'
  BY <1>1, <1>2, <1>5, <1>6 DEF TypeOK
<1>8. loaded # None => loaded.request = 0 /\ loaded.target = headSha
  BY DEF loaded
<1>9. SessionInv'
  BY <1>1, <1>2, <1>3, <1>5, <1>8 DEF SessionInv, TypeOK
<1>10. TasksInv' /\ SavedIsStored'
  BY <1>2, <1>6 DEF TasksInv, SavedIsStored, StandsIn
<1>11. VerdictsAreForHead'
  BY <1>2, <1>5, <1>8 DEF VerdictsAreForHead
<1> QED
  BY <1>7, <1>9, <1>10, <1>11

(* Without its cache, or at its end, the TUI has no verdict on screen; at  *)
(* its end its tasks are dropped, or go on unheard (Frankie stops). *)
LEMMA ForgetKeepsInv ==
  ASSUME IInv, LoadFails \/ Quit \/ Killed
  PROVE  IInv'
<1> USE DEF IInv
<1>1. CASE LoadFails
  <2>1. /\ toLoad # {} /\ toLoad' = {} /\ results' = NoVerdicts
        /\ error' = TRUE
        /\ UNCHANGED <<head, server, reviews, running, sessions, headSha,
                       summaryOpen, nextRequest, inFlight, tasks, runs, lock,
                       db, commits>>
    BY <1>1 DEF LoadFails, world, database
  <2>2. TypeOK'
    BY <2>1 DEF TypeOK, NoVerdicts
  <2>3. SessionInv' /\ VerdictsAreForHead'
    BY <2>1 DEF SessionInv, VerdictsAreForHead, NoVerdicts
  <2> QED
    BY <2>1, <2>2, <2>3 DEF TasksInv, SavedIsStored, StandsIn
<1>2. CASE Quit \/ Killed
  <2>1. /\ running' = FALSE /\ headSha' = None /\ toLoad' = {}
        /\ reviews' = 0 /\ summaryOpen' = FALSE /\ error' = FALSE
        /\ results' = NoVerdicts /\ nextRequest' = 1 /\ inFlight' = None
        /\ UNCHANGED <<head, server, sessions, runs, db, commits>>
    BY <1>2 DEF Quit, Killed, AppGone, world
  <2>2. tasks' \subseteq tasks
    BY <1>2 DEF Quit, Killed, OfTUI
  <2>3. lock' \in TaskId \cup {None}
    BY <1>2 DEF Quit, Killed, TypeOK
  <2>4. TypeOK'
    BY <2>1, <2>2, <2>3 DEF TypeOK, NoVerdicts, Forms
  <2>5. SessionInv' /\ VerdictsAreForHead'
    BY <2>1 DEF SessionInv, VerdictsAreForHead, NoVerdicts
  <2>6. TasksInv' /\ SavedIsStored'
    BY <2>1, <2>2 DEF TasksInv, SavedIsStored, StandsIn
  <2> QED
    BY <2>4, <2>5, <2>6
<1> QED
  BY <1>1, <1>2

---------------------------------------------------------------------------
(* A new task has stored nothing, and is of its TUI if it is of one        *)
(* (spawn_verification, frankie --verify-resolutions). *)
LEMMA RequestKeepsInv ==
  ASSUME IInv, SpawnVerification \/ VerifyResolutions
  PROVE  IInv'
<1> USE DEF IInv
<1>1. CASE SpawnVerification
  <2>1. PICK batch \in SUBSET Comments \ {{}} :
          tasks' = tasks \cup
            {NewTask(<<"tui", nextRequest>>, headSha, batch, reviews)}
    BY <1>1 DEF SpawnVerification
  <2> DEFINE task == NewTask(<<"tui", nextRequest>>, headSha, batch, reviews)
  <2>2. /\ running /\ toLoad = {} /\ headSha # None
        /\ nextRequest' = nextRequest + 1 /\ inFlight' = nextRequest
        /\ UNCHANGED <<head, server, reviews, running, sessions, headSha,
                       toLoad, summaryOpen, results, error, runs, lock, db,
                       commits>>
    BY <1>1 DEF SpawnVerification, Keys, world, app, database
  <2>3. headSha \in 1..MaxHead /\ headSha \in Nat /\ nextRequest \in Nat
    BY <2>2 DEF TasksInv, TypeOK
  <2>4. /\ task \in Task /\ task.id[1] = "tui" /\ task.target = headSha
        /\ task.saved = 0
    BY <2>3 DEF NewTask, Task, TaskId, TypeOK
  <2> HIDE DEF task
  <2>5. tasks' = tasks \cup {task}
    BY <2>1 DEF task
  <2>6. TypeOK'
    BY <2>2, <2>3, <2>4, <2>5 DEF TypeOK
  <2>7. SessionInv'
    BY <2>2, <2>3 DEF SessionInv
  <2>8. TasksInv' /\ VerdictsAreForHead' /\ SavedIsStored'
    BY <2>2, <2>3, <2>4, <2>5
       DEF TasksInv, VerdictsAreForHead, SavedIsStored, StandsIn
  <2> QED
    BY <2>6, <2>7, <2>8
<1>2. CASE VerifyResolutions
  <2> DEFINE task == NewTask(<<"cli", runs>>, head, Comments, server)
  <2>1. /\ tasks' = tasks \cup {task} /\ runs' = runs + 1
        /\ UNCHANGED <<head, server, reviews, running, sessions, headSha,
                       toLoad, summaryOpen, results, nextRequest, inFlight,
                       error, lock, db, commits>>
    BY <1>2 DEF VerifyResolutions, world, app, request, database
  <2>2. /\ task \in Task /\ task.id[1] = "cli" /\ task.target = head
        /\ task.saved = 0
    BY DEF NewTask, Task, TaskId, TypeOK
  <2> HIDE DEF task
  <2>3. TypeOK'
    BY <2>1, <2>2 DEF TypeOK
  <2>4. SessionInv' /\ VerdictsAreForHead'
    BY <2>1 DEF SessionInv, VerdictsAreForHead
  <2>5. TasksInv' /\ SavedIsStored'
    BY <2>1, <2>2 DEF TasksInv, SavedIsStored, StandsIn
  <2> QED
    BY <2>3, <2>4, <2>5
<1> QED
  BY <1>1, <1>2

---------------------------------------------------------------------------
(* What storing a task leaves of it (upsert_all). *)
Stored(t, u) ==
  /\ u \in Task
  /\ u.id = t.id /\ u.target = t.target /\ u.batch = t.batch
  /\ u.form = t.form

(* The whole batch of a task is committed (upsert_all). *)
BatchCommitted(t) ==
  /\ commits' = commits + 1
  /\ db' = [c \in Comments |->
              IF c \in t.batch
                THEN [db[c] EXCEPT ![t.target] = RowOf(t)] ELSE db[c]]

(* The database after a step of a store: as it was, or with the whole      *)
(* batch in it (upsert_all, upsert_with_connection). *)
LEMMA StoreStep ==
  ASSUME IInv, NEW t \in tasks, Store(t)
  PROVE  /\ UNCHANGED <<head, server, reviews, running, sessions, headSha,
                        toLoad, summaryOpen, results, nextRequest, inFlight,
                        error, runs>>
         /\ lock' \in TaskId \cup {None}
         /\ \E u : /\ tasks' = (tasks \ {t}) \cup {u}
                   /\ Stored(t, u)
                   /\ \/ UNCHANGED <<db, commits>> /\ u.saved = t.saved
                      \/ BatchCommitted(t) /\ u.saved = commits'
<1>1. t \in Task /\ commits \in Nat
  BY DEF IInv, TypeOK
<1>2. UNCHANGED <<head, server, reviews, running, sessions, headSha, toLoad,
                  summaryOpen, results, nextRequest, inFlight, error, runs>>
  BY DEF Store, world, app, request
<1>3. lock \in TaskId \cup {None} /\ t.id \in TaskId
  BY <1>1 DEF IInv, TypeOK, Task
<1>4. CASE Begin(t)
  <2> DEFINE u == [t EXCEPT !.phase = "writing"]
  <2>1. Stored(t, u) /\ u.saved = t.saved
    BY <1>1 DEF Stored, Task
  <2>2. /\ tasks' = (tasks \ {t}) \cup {u} /\ lock' = t.id
        /\ UNCHANGED <<db, commits>>
    BY <1>4 DEF Begin, Becomes
  <2> HIDE DEF u
  <2> QED
    BY <1>2, <1>3, <2>1, <2>2
<1>5. CASE BeginFails(t)
  <2> DEFINE u == [t EXCEPT !.phase = "done"]
  <2>1. Stored(t, u) /\ u.saved = t.saved
    BY <1>1 DEF Stored, Task
  <2>2. tasks' = (tasks \ {t}) \cup {u} /\ UNCHANGED <<lock, db, commits>>
    BY <1>5 DEF BeginFails, Becomes, database
  <2> HIDE DEF u
  <2> QED
    BY <1>2, <1>3, <2>1, <2>2
<1>6. CASE WriteRow(t)
  <2>1. PICK c \in t.batch : Becomes(t, [t EXCEPT !.written = @ \cup {c}])
    BY <1>6 DEF WriteRow
  <2> DEFINE u == [t EXCEPT !.written = @ \cup {c}]
  <2>2. Stored(t, u) /\ u.saved = t.saved
    BY <1>1, <2>1 DEF Stored, Task
  <2>3. tasks' = (tasks \ {t}) \cup {u} /\ UNCHANGED <<lock, db, commits>>
    BY <1>6, <2>1 DEF WriteRow, Becomes, database
  <2> HIDE DEF u
  <2> QED
    BY <1>2, <1>3, <2>2, <2>3
<1>7. CASE WriteFails(t)
  <2> DEFINE u == [t EXCEPT !.phase = "done", !.written = {}]
  <2>1. Stored(t, u) /\ u.saved = t.saved
    BY <1>1 DEF Stored, Task
  <2>2. /\ tasks' = (tasks \ {t}) \cup {u} /\ lock' = None
        /\ UNCHANGED <<db, commits>>
    BY <1>7 DEF WriteFails, Becomes
  <2> HIDE DEF u
  <2> QED
    BY <1>2, <2>1, <2>2
<1>8. CASE CommitRows(t)
  <2> DEFINE u == [t EXCEPT !.phase = "done", !.written = {},
                            !.saved = commits + 1]
  <2>1. commits + 1 \in Nat /\ {} \in SUBSET Comments
    BY <1>1
  <2>2. u \in Task
    BY <1>1, <2>1 DEF Task
  <2>3. Stored(t, u) /\ u.saved = commits + 1
    BY <1>1, <2>2 DEF Stored, Task
  <2>4. /\ tasks' = (tasks \ {t}) \cup {u} /\ lock' = None
        /\ commits' = commits + 1
        /\ BatchCommitted(t)
    BY <1>8 DEF CommitRows, RowsCommitted, Becomes, BatchCommitted
  <2> HIDE DEF u
  <2> QED
    BY <1>2, <2>3, <2>4
<1> QED
  BY <1>4, <1>5, <1>6, <1>7, <1>8 DEF Store

(* A batch that is stored is in the database, one row for each of its      *)
(* comments, beside what was there (ReviewCommentVerificationCache). *)
LEMMA BatchInDatabase ==
  ASSUME IInv, NEW t \in tasks, BatchCommitted(t)
  PROVE  /\ db' \in [Comments -> [1..MaxHead -> StoredVerdict \cup {None}]]
         /\ commits' \in Nat /\ RowOf(t) # None
         /\ \A c \in t.batch : db'[c][t.target] = RowOf(t)
         /\ \A c \in Comments \ t.batch : db'[c] = db[c]
         /\ \A c \in Comments, h \in 1..MaxHead :
              db'[c][h] \in {db[c][h], RowOf(t)}
<1>1. /\ t.batch \subseteq Comments /\ t.form \in Forms
      /\ t.target \in 1..MaxHead /\ commits \in Nat
      /\ db \in [Comments -> [1..MaxHead -> StoredVerdict \cup {None}]]
  BY DEF IInv, TypeOK, TasksInv, Task
<1> DEFINE mine == RowOf(t)
<1>2. mine \in StoredVerdict /\ mine # None
  BY <1>1, VerificationAssumption DEF VerificationAssumption, RowOf, StoredVerdict
<1> HIDE DEF mine
<1>3. db' = [c \in Comments |->
              IF c \in t.batch
                THEN [db[c] EXCEPT ![t.target] = mine] ELSE db[c]]
  BY DEF BatchCommitted, mine
<1>4. ASSUME NEW c \in t.batch
      PROVE  /\ db'[c] \in [1..MaxHead -> StoredVerdict \cup {None}]
             /\ db'[c][t.target] = mine
             /\ \A h \in 1..MaxHead : db'[c][h] \in {db[c][h], mine}
  <2>1. db'[c] = [db[c] EXCEPT ![t.target] = mine]
    BY <1>1, <1>3
  <2>2. db[c] \in [1..MaxHead -> StoredVerdict \cup {None}]
    BY <1>1
  <2> QED
    BY <1>1, <1>2, <2>1, <2>2
<1>5. \A c \in Comments \ t.batch : db'[c] = db[c]
  BY <1>3
<1>6. \A c \in Comments : db'[c] \in [1..MaxHead -> StoredVerdict \cup {None}]
  BY <1>1, <1>4, <1>5
<1>7. db' \in [Comments -> [1..MaxHead -> StoredVerdict \cup {None}]]
  BY <1>3, <1>6
<1>8. commits' \in Nat
  BY <1>1 DEF BatchCommitted
<1> QED
  BY <1>2, <1>4, <1>5, <1>7, <1>8 DEF mine

(* A commit leaves what stood before it, or puts its own rows in its place.*)
LEMMA EarlierStands ==
  ASSUME IInv, NEW t \in tasks, BatchCommitted(t),
         NEW s \in tasks, s.saved # 0, NEW c \in s.batch
  PROVE  StandsIn(s, db'[c][s.target])
<1>1. /\ c \in Comments /\ s.target \in 1..MaxHead
      /\ s.saved \in Nat /\ commits \in Nat
  BY DEF IInv, TypeOK, TasksInv, Task
<1>2. s.saved <= commits /\ StandsIn(s, db[c][s.target])
  BY DEF IInv, SavedIsStored
<1>3. db'[c][s.target] \in {db[c][s.target], RowOf(t)}
  BY <1>1, BatchInDatabase
<1>4. RowOf(t).stamp > s.saved
  BY <1>1, <1>2 DEF RowOf
<1>5. StandsIn(s, RowOf(t))
  BY <1>1, <1>2, <1>4, BatchInDatabase DEF StandsIn, RowOf
<1> QED
  BY <1>2, <1>3, <1>5

(* Storing keeps the invariant. *)
LEMMA StoreKeepsInv ==
  ASSUME IInv, NEW t \in tasks, Store(t)
  PROVE  IInv'
<1>1. PICK u :
        /\ tasks' = (tasks \ {t}) \cup {u}
        /\ Stored(t, u)
        /\ \/ UNCHANGED <<db, commits>> /\ u.saved = t.saved
           \/ BatchCommitted(t) /\ u.saved = commits'
  BY StoreStep
<1>2. /\ UNCHANGED <<head, server, reviews, running, sessions, headSha, toLoad,
                     summaryOpen, results, nextRequest, inFlight, error, runs>>
      /\ lock' \in TaskId \cup {None}
  BY StoreStep
<1>3. db' \in [Comments -> [1..MaxHead -> StoredVerdict \cup {None}]] /\ commits' \in Nat
  BY <1>1, BatchInDatabase DEF IInv, TypeOK
<1>4. TypeOK'
  BY <1>1, <1>2, <1>3 DEF IInv, TypeOK, Stored
<1>5. SessionInv' /\ VerdictsAreForHead'
  BY <1>2 DEF IInv, SessionInv, VerdictsAreForHead
<1>6. TasksInv'
  BY <1>1, <1>2 DEF IInv, TasksInv, Stored
<1>7. SavedIsStored'
  <2>1. CASE UNCHANGED <<db, commits>> /\ u.saved = t.saved
    BY <1>1, <2>1 DEF IInv, SavedIsStored, StandsIn, Stored
  <2>2. CASE BatchCommitted(t) /\ u.saved = commits'
    <3>1. commits \in Nat /\ commits' = commits + 1
      BY <2>2 DEF BatchCommitted, IInv, TypeOK
    <3>2. ASSUME NEW s \in tasks, s.saved # 0
          PROVE  /\ s.saved <= commits'
                 /\ \A c \in s.batch : StandsIn(s, db'[c][s.target])
      <4>1. s.saved \in Nat /\ s.saved <= commits
        BY <3>2 DEF IInv, SavedIsStored, TypeOK, Task
      <4> QED
        BY <2>2, <3>1, <3>2, <4>1, EarlierStands
    <3>3. ASSUME NEW c \in u.batch
          PROVE  StandsIn(u, db'[c][u.target])
      <4>1. db'[c][u.target] = RowOf(t)
        BY <1>1, <2>2, <3>3, BatchInDatabase DEF Stored
      <4>2. RowOf(t) # None
        BY <2>2, BatchInDatabase
      <4>3. RowOf(t).form = u.form /\ RowOf(t).stamp = u.saved
        BY <1>1, <2>2, <3>1 DEF RowOf, Stored
      <4> QED
        BY <2>2, <3>1, <4>1, <4>2, <4>3 DEF StandsIn
    <3> QED
      BY <1>1, <2>2, <3>1, <3>2, <3>3 DEF SavedIsStored
  <2> QED
    BY <1>1, <2>1, <2>2
<1> QED
  BY <1>4, <1>5, <1>6, <1>7 DEF IInv

---------------------------------------------------------------------------
Answered(t) == VerificationReady(t) \/ VerificationFailed(t) \/ AnswerIgnored(t)

(* What an answer leaves alone, and what it does to the verdicts on        *)
(* screen: those of its batch are of the request, and of the HEAD they     *)
(* are for (handle_verification_ready, handle_verification_failed). *)
LEMMA AnswerStep ==
  ASSUME IInv, NEW t \in tasks, Answered(t)
  PROVE  /\ tasks' = tasks \ {t}
         /\ UNCHANGED <<head, server, reviews, running, sessions, headSha,
                        toLoad, summaryOpen, nextRequest, runs, db, commits>>
         /\ lock' \in {lock, None}
         /\ error' \in BOOLEAN
         /\ \/ UNCHANGED <<results, inFlight>>
            \/ /\ inFlight # None /\ inFlight' = None /\ running
               /\ results' = results
            \/ /\ inFlight # None /\ inFlight' = None /\ running
               /\ t.id = <<"tui", inFlight>>
               /\ t.target = headSha /\ (~error' => t.saved # 0)
               /\ results' = [c \in Comments |->
                    IF c \in t.batch
                      THEN [form |-> t.form, target |-> headSha,
                            request |-> inFlight]
                      ELSE results[c]]
<1>1. /\ t \in Task /\ t.id \in TaskId
      /\ (t.id[1] = "tui" /\ running => t.target = headSha)
      /\ (inFlight # None => running)
      /\ error \in BOOLEAN
  BY DEF IInv, TypeOK, TasksInv, SessionInv, Task
<1>2. t.id[2] # None
  BY <1>1, VerificationAssumption DEF VerificationAssumption, TaskId
<1>3. t.id = <<t.id[1], t.id[2]>>
  BY <1>1 DEF TaskId
<1>4. CASE VerificationReady(t)
  BY <1>1, <1>2, <1>3, <1>4
     DEF VerificationReady, Ends, world, app
<1>5. CASE VerificationFailed(t)
  BY <1>1, <1>2, <1>5 DEF VerificationFailed, Ends, world, app
<1>6. CASE AnswerIgnored(t)
  BY <1>1, <1>6 DEF AnswerIgnored, Ends, world, app
<1> QED
  BY <1>4, <1>5, <1>6 DEF Answered

(* An answer keeps the invariant, whether it is shown or not. *)
LEMMA AnswerKeepsInv ==
  ASSUME IInv, NEW t \in tasks, Answered(t)
  PROVE  IInv'
<1>1. /\ tasks' = tasks \ {t}
      /\ UNCHANGED <<head, server, reviews, running, sessions, headSha,
                     toLoad, summaryOpen, nextRequest, runs, db, commits>>
      /\ lock' \in {lock, None} /\ error' \in BOOLEAN
  BY AnswerStep
<1>2. TasksInv' /\ SavedIsStored'
  BY <1>1 DEF IInv, TasksInv, SavedIsStored, StandsIn
<1>3. CASE UNCHANGED results /\ inFlight' \in {inFlight, None}
  <2>1. TypeOK'
    BY <1>1, <1>3 DEF IInv, TypeOK
  <2>2. SessionInv' /\ VerdictsAreForHead'
    BY <1>1, <1>3 DEF IInv, SessionInv, VerdictsAreForHead
  <2> QED
    BY <1>2, <2>1, <2>2 DEF IInv
<1>4. CASE /\ inFlight # None /\ inFlight' = None /\ running
           /\ t.target = headSha
           /\ results' = [c \in Comments |->
                IF c \in t.batch
                  THEN [form |-> t.form, target |-> headSha,
                        request |-> inFlight]
                  ELSE results[c]]
  <2>1. toLoad = {}
    BY <1>4 DEF IInv, SessionInv
  <2>2. t.form \in Forms /\ t.target \in Nat /\ inFlight \in Nat
    BY <1>4 DEF IInv, TypeOK, Task
  <2>3. results' \in [Comments -> Verdict \cup {None}]
    BY <1>4, <2>2 DEF IInv, TypeOK, Verdict
  <2>4. TypeOK'
    BY <1>1, <1>4, <2>3 DEF IInv, TypeOK
  <2>5. SessionInv'
    BY <1>1, <1>4, <2>1 DEF IInv, SessionInv
  <2>6. VerdictsAreForHead'
    BY <1>1, <1>4 DEF IInv, VerdictsAreForHead
  <2> QED
    BY <1>2, <2>4, <2>5, <2>6 DEF IInv
<1> QED
  BY <1>3, <1>4, AnswerStep

LEMMA StepKeepsInv ==
  ASSUME IInv, [Next]_vars
  PROVE  IInv'
<1>1. ASSUME NEW t \in tasks, TaskStep(t)
      PROVE  IInv'
  BY <1>1, StoreKeepsInv, AnswerKeepsInv DEF TaskStep, Answered
<1> QED
  BY <1>1, WorldKeepsInv, StartKeepsInv, LoadKeepsInv, ForgetKeepsInv,
     RequestKeepsInv DEF Next

(* The types, what is under way and what is stored always fit together     *)
(* (src/src/tui/app/verification_handlers.rs). *)
THEOREM VerificationInvariant == Spec => []IInv
<1>1. IInv /\ [Next]_vars => IInv'
  BY StepKeepsInv
<1> QED
  BY InvInit, <1>1, PTL DEF Spec

(* Verdicts on screen are about the HEAD Frankie was started at            *)
(* (load_cached_verifications, handle_verification_ready). *)
THEOREM VerdictsSafety == Spec => []VerdictsAreForHead
<1>1. IInv => VerdictsAreForHead
  BY DEF IInv
<1> QED
  BY VerificationInvariant, <1>1, PTL

---------------------------------------------------------------------------
(* Only a commit changes the database, and by its whole batch              *)
(* (upsert_all). *)
THEOREM BatchesAreAtomic == Spec => StoredAsAWhole
<1> DEFINE Whole ==
      \A c \in Comments : db'[c] # db[c] =>
        \E t \in tasks : /\ c \in t.batch
                         /\ \A d \in t.batch : db'[d][t.target] = RowOf(t)
<1>1. ASSUME IInv, [Next]_vars
      PROVE  [Whole]_vars
  <2>1. ASSUME NEW t \in tasks, Store(t)
        PROVE  Whole
    <3>1. db' = db \/ BatchCommitted(t)
      BY <1>1, <2>1, StoreStep
    <3>2. CASE BatchCommitted(t)
      <4>1. /\ \A c \in t.batch : db'[c][t.target] = RowOf(t)
            /\ \A c \in Comments \ t.batch : db'[c] = db[c]
        BY <1>1, <3>2, BatchInDatabase
      <4> QED
        BY <4>1
    <3> QED
      BY <3>1, <3>2
  <2>2. ASSUME NEW t \in tasks, Answered(t)
        PROVE  Whole
    BY <1>1, <2>2, AnswerStep
  <2>3. CASE ~\E t \in tasks : TaskStep(t)
    <3>1. UNCHANGED db
      BY <1>1, <2>3
         DEF Next, Commit, GithubEdits, Sync, Start, LoadRow, LoadFails,
             Quit, Killed, AppGone, ToggleSummary, VerifyRefused,
             SpawnVerification, VerifyResolutions, vars, database
    <3> QED
      BY <3>1
  <2> QED
    BY <2>1, <2>2, <2>3 DEF TaskStep, Answered
<1>2. IInv /\ [Next]_vars => [Whole]_vars
  BY <1>1
<1> QED
  BY VerificationInvariant, <1>2, PTL DEF Spec, StoredAsAWhole

(* Verdicts that come on screen without a complaint about the database     *)
(* were committed: each row holds the verdict shown, or one that another   *)
(* writer has committed since (handle_verification_ready with its          *)
(* persistence error, upsert_all). *)
THEOREM ShownIsStored == Spec => AcknowledgedIsStored
<1> DEFINE Committed(c) ==
             \E t \in tasks :
               LET stored == db[c][headSha] IN
               /\ t.id = <<"tui", results'[c].request>>
               /\ t.saved \in 1..commits
               /\ stored # None /\ stored.stamp >= t.saved
               /\ stored.stamp = t.saved => stored.form = results'[c].form
           Stands ==
             \A c \in Comments :
               /\ results'[c] # results[c] /\ results'[c] # None
               /\ toLoad = {} /\ ~error'
               => Committed(c)
<1>1. ASSUME IInv, [Next]_vars
      PROVE  [Stands]_vars
  <2>1. ASSUME NEW t \in tasks, Answered(t)
        PROVE  Stands
    <3>1. CASE UNCHANGED results
      BY <3>1
    <3>2. CASE /\ t.id = <<"tui", inFlight>>
               /\ t.target = headSha /\ (~error' => t.saved # 0)
               /\ results' = [c \in Comments |->
                    IF c \in t.batch
                      THEN [form |-> t.form, target |-> headSha,
                            request |-> inFlight]
                      ELSE results[c]]
      <4>1. ASSUME NEW c \in Comments, results'[c] # results[c], ~error'
            PROVE  Committed(c)
        <5>1. /\ c \in t.batch /\ t.saved # 0
              /\ results'[c].form = t.form
              /\ results'[c].request = inFlight
          BY <3>2, <4>1
        <5>2. t.saved \in Nat /\ commits \in Nat
          BY <1>1 DEF IInv, TypeOK, Task
        <5>3. t.saved <= commits /\ StandsIn(t, db[c][headSha])
          BY <1>1, <3>2, <5>1 DEF IInv, SavedIsStored
        <5>4. t.saved \in 1..commits
          BY <5>1, <5>2, <5>3
        <5> QED
          BY <3>2, <5>1, <5>3, <5>4 DEF StandsIn
      <4> QED
        BY <4>1
    <3> QED
      BY <1>1, <2>1, <3>1, <3>2, AnswerStep
  <2>2. ASSUME NEW t \in tasks, Store(t)
        PROVE  Stands
    BY <1>1, <2>2, StoreStep
  <2>3. CASE LoadRow \/ LoadFails
    BY <2>3 DEF LoadRow, LoadFails
  <2>4. CASE Quit \/ Killed
    BY <2>4 DEF Quit, Killed, AppGone, NoVerdicts
  <2>5. CASE ~(LoadRow \/ LoadFails \/ Quit \/ Killed
               \/ \E t \in tasks : TaskStep(t))
    <3>1. UNCHANGED results
      BY <1>1, <2>5
         DEF Next, Commit, GithubEdits, Sync, Start, ToggleSummary,
             VerifyRefused, SpawnVerification, VerifyResolutions, vars,
             request
    <3> QED
      BY <3>1
  <2> QED
    BY <2>1, <2>2, <2>3, <2>4, <2>5 DEF TaskStep, Answered
<1>2. IInv /\ [Next]_vars => [Stands]_vars
  BY <1>1
<1> QED
  BY VerificationInvariant, <1>2, PTL DEF Spec, AcknowledgedIsStored

---------------------------------------------------------------------------
(* Each step makes, answers or fails one numbered request, starts again,   *)
(* or none of these (verification.in_flight_request_id). *)
LEMMA StepOfSlot ==
  ASSUME IInv, [Next]_vars
  PROVE  [VerdictSlot!NextSlot]_(VerdictSlot!slotVars)
<1> DEFINE Shown == [c \in Comments |->
                      IF results[c] = None \/ results[c].request = 0 THEN None
                      ELSE results[c].request]
<1>1. nextRequest \in Nat /\ (inFlight # None => inFlight >= 1)
      /\ results \in [Comments -> Verdict \cup {None}]
  BY DEF IInv, TypeOK, SessionInv
<1>2. ASSUME Shown' = Shown, UNCHANGED <<nextRequest, inFlight>>
      PROVE  UNCHANGED VerdictSlot!slotVars
  BY <1>2 DEF VerdictSlot!slotVars
<1>3. ASSUME UNCHANGED <<results, nextRequest, inFlight>>
      PROVE  UNCHANGED VerdictSlot!slotVars
  BY <1>2, <1>3
<1>4. CASE Commit \/ GithubEdits \/ Sync \/ Start \/ ToggleSummary
           \/ VerifyRefused \/ VerifyResolutions \/ UNCHANGED vars
  BY <1>3, <1>4 DEF Commit, GithubEdits, Sync, Start, ToggleSummary,
                    VerifyRefused, VerifyResolutions, vars, request
<1>5. CASE LoadRow
  <2>1. PICK c \in toLoad :
          results' = [results EXCEPT ![c] =
            IF db[c][headSha] = None THEN None
            ELSE [form |-> db[c][headSha].form, target |-> headSha,
                  request |-> 0]]
    BY <1>5 DEF LoadRow
  <2>2. results[c] = None
    BY DEF IInv, SessionInv
  <2>3. results'[c] = None \/ results'[c].request = 0
    BY <1>1, <2>1 DEF IInv, TypeOK
  <2>4. \A d \in Comments \ {c} : results'[d] = results[d]
    BY <1>1, <2>1
  <2>5. Shown' = Shown
    BY <2>2, <2>3, <2>4
  <2>6. UNCHANGED <<nextRequest, inFlight>>
    BY <1>5 DEF LoadRow
  <2> QED
    BY <1>2, <2>5, <2>6
<1>6. CASE LoadFails
  <2>1. /\ \A c \in Comments : results[c] # None => results[c].request = 0
        /\ results' = NoVerdicts
        /\ UNCHANGED <<nextRequest, inFlight>>
    BY <1>6 DEF LoadFails, IInv, SessionInv
  <2>2. Shown' = Shown
    BY <2>1 DEF NoVerdicts
  <2> QED
    BY <1>2, <2>1, <2>2
<1>7. CASE Quit \/ Killed
  <2>1. nextRequest' = 1 /\ inFlight' = None /\ results' = NoVerdicts
    BY <1>7 DEF Quit, Killed, AppGone
  <2>2. Shown' = [c \in Comments |-> None] /\ nextRequest' - 1 = 0
    BY <2>1 DEF NoVerdicts
  <2>3. VerdictSlot!Restart
    BY <2>1, <2>2 DEF VerdictSlot!Restart
  <2> QED
    BY <2>3 DEF VerdictSlot!NextSlot
<1>8. CASE SpawnVerification
  <2>1. nextRequest' = nextRequest + 1 /\ inFlight' = nextRequest
        /\ UNCHANGED results
    BY <1>8 DEF SpawnVerification
  <2>2. VerdictSlot!Ask
    BY <1>1, <2>1 DEF VerdictSlot!Ask
  <2> QED
    BY <2>2 DEF VerdictSlot!NextSlot
<1>9. ASSUME NEW t \in tasks, Store(t)
      PROVE  UNCHANGED VerdictSlot!slotVars
  BY <1>3, <1>9, StoreStep
<1>10. ASSUME NEW t \in tasks, Answered(t)
       PROVE  [VerdictSlot!NextSlot]_(VerdictSlot!slotVars)
  <2>1. UNCHANGED nextRequest
    BY <1>10, AnswerStep
  <2>2. CASE UNCHANGED <<results, inFlight>>
    BY <1>3, <2>1, <2>2
  <2>3. CASE inFlight # None /\ inFlight' = None /\ results' = results
    <3>1. VerdictSlot!FailRequest
      BY <2>1, <2>3 DEF VerdictSlot!FailRequest
    <3> QED
      BY <3>1 DEF VerdictSlot!NextSlot
  <2>4. CASE /\ inFlight # None /\ inFlight' = None
             /\ t.target = headSha
             /\ results' = [c \in Comments |->
                  IF c \in t.batch
                    THEN [form |-> t.form, target |-> headSha,
                          request |-> inFlight]
                    ELSE results[c]]
    <3>1. t.batch \in SUBSET Comments
      BY DEF IInv, TypeOK, Task
    <3>2. \A c \in t.batch :
            results'[c] # None /\ results'[c].request = inFlight
      <4>1. \A c \in t.batch :
              results'[c] = [form |-> t.form, target |-> headSha,
                             request |-> inFlight]
        BY <2>4, <3>1
      <4>2. [form |-> t.form, target |-> headSha, request |-> inFlight]
              \in Verdict
        <5>1. t \in Task /\ (inFlight # None => inFlight \in Nat)
          BY DEF IInv, TypeOK
        <5>2. headSha \in Nat
          BY <2>4, <5>1 DEF Task
        <5> QED
          BY <2>4, <5>1, <5>2 DEF Verdict, Task
      <4> QED
        BY <4>1, <4>2, VerificationAssumption DEF VerificationAssumption
    <3>3. \A c \in Comments \ t.batch : results'[c] = results[c]
      BY <2>4
    <3>4. inFlight # 0
      BY <1>1, <2>4
    <3>5. Shown' = [c \in Comments |->
                      IF c \in t.batch THEN inFlight ELSE Shown[c]]
      BY <3>1, <3>2, <3>3, <3>4
    <3>6. VerdictSlot!Answer(t.batch)
      BY <2>1, <2>4, <3>5 DEF VerdictSlot!Answer
    <3> QED
      BY <3>1, <3>6 DEF VerdictSlot!NextSlot
  <2> QED
    BY <1>10, <2>2, <2>3, <2>4, AnswerStep
<1> QED
  BY <1>4, <1>5, <1>6, <1>7, <1>8, <1>9, <1>10
     DEF Next, TaskStep, Answered

(* Requests to verify are numbered requests of which the latest counts     *)
(* (verification.in_flight_request_id). *)
THEOREM VerdictSlotRefined == Spec => RequestsAreNumbered
<1>1. Init => VerdictSlot!InitSlot
  BY DEF Init, NoVerdicts, VerdictSlot!InitSlot
<1>2. IInv /\ [Next]_vars => [VerdictSlot!NextSlot]_(VerdictSlot!slotVars)
  BY StepOfSlot
<1> QED
  BY VerificationInvariant, <1>1, <1>2, PTL
     DEF Spec, RequestsAreNumbered, VerdictSlot!SpecSlot
(* The types of the slot, and that the open request is the latest.         *)
SlotInv == VerdictSlot!SlotTypeOK /\ VerdictSlot!OpenIsLatest

(* Each step of a slot keeps the open request the latest.                  *)
LEMMA SlotInvStep ==
  ASSUME SlotInv, [VerdictSlot!NextSlot]_(VerdictSlot!slotVars)
  PROVE  SlotInv'
<1> USE VerificationAssumption DEF VerificationAssumption, SlotInv, VerdictSlot!SlotTypeOK, VerdictSlot!OpenIsLatest
<1>1. CASE VerdictSlot!Ask
  BY <1>1 DEF VerdictSlot!Ask
<1>2. CASE VerdictSlot!FailRequest
  BY <1>2 DEF VerdictSlot!FailRequest
<1>3. CASE VerdictSlot!Restart
  BY <1>3 DEF VerdictSlot!Restart
<1>4. ASSUME NEW about \in SUBSET Comments, VerdictSlot!Answer(about)
      PROVE  SlotInv'
  BY <1>4 DEF VerdictSlot!Answer
<1>5. CASE UNCHANGED VerdictSlot!slotVars
  BY <1>5 DEF VerdictSlot!slotVars
<1> QED
  BY <1>1, <1>2, <1>3, <1>4, <1>5 DEF VerdictSlot!NextSlot

(* No comment goes back to the verdict of an earlier request, whatever     *)
(* order answers come in (handle_verification_ready).                      *)
THEOREM VerdictNeverOlder == Spec => VerdictSlot!ShownNeverOlder
<1> DEFINE onShow == [c \in Comments |->
             IF results[c] = None \/ results[c].request = 0 THEN None
             ELSE results[c].request]
           Keeps ==
             (nextRequest - 1)' >= nextRequest - 1 =>
               \A p \in Comments :
                 onShow[p] # None /\ onShow'[p] # None => onShow'[p] >= onShow[p]
<1>1. VerdictSlot!InitSlot => SlotInv
  BY VerificationAssumption DEF VerificationAssumption, VerdictSlot!InitSlot, SlotInv, VerdictSlot!SlotTypeOK, VerdictSlot!OpenIsLatest
<1>2. SlotInv /\ [VerdictSlot!NextSlot]_(VerdictSlot!slotVars) => SlotInv'
  BY SlotInvStep
<1>3. ASSUME SlotInv, [VerdictSlot!NextSlot]_(VerdictSlot!slotVars)
      PROVE  [Keeps]_(VerdictSlot!slotVars)
  <2> USE <1>3, VerificationAssumption DEF VerificationAssumption, SlotInv, VerdictSlot!SlotTypeOK, VerdictSlot!OpenIsLatest
  <2>1. CASE VerdictSlot!Ask
    BY <2>1 DEF VerdictSlot!Ask
  <2>2. CASE VerdictSlot!FailRequest
    BY <2>2 DEF VerdictSlot!FailRequest
  <2>3. CASE VerdictSlot!Restart
    BY <2>3 DEF VerdictSlot!Restart
  <2>4. ASSUME NEW about \in SUBSET Comments, VerdictSlot!Answer(about)
        PROVE  Keeps
    BY <2>4 DEF VerdictSlot!Answer
  <2> QED
    BY <1>3, <2>1, <2>2, <2>3, <2>4 DEF VerdictSlot!NextSlot
<1>4. SlotInv /\ [VerdictSlot!NextSlot]_(VerdictSlot!slotVars) => [Keeps]_(VerdictSlot!slotVars)
  BY <1>3
<1>5. VerdictSlot!SpecSlot => VerdictSlot!ShownNeverOlder
  BY <1>1, <1>2, <1>4, PTL DEF VerdictSlot!SpecSlot, VerdictSlot!ShownNeverOlder
<1> QED
  BY <1>5, VerdictSlotRefined DEF RequestsAreNumbered

---------------------------------------------------------------------------
(* Metadata.                                                               *)

(* Nothing was published in the future. *)
PublishedIsPast == \A v \in 1..Server : published[v] <= clock

(* A call's time is past; what it is about to store was GitHub's since     *)
(* then; its validators are those of their metadata; and a row it has read *)
(* is still there, whatever has become of it.                              *)
HonestCall(call) ==
  /\ call.now <= clock
  /\ call.at = "storing" =>
       IF call.response = None
         THEN /\ call.cached # None
              /\ CurrentSince(call.cached.version, call.now)
         ELSE CurrentSince(call.response.version, call.now)
  /\ call.cached # None =>
       /\ row # None
       /\ call.cached.etag \in {call.cached.version, None}
  /\ call.response # None =>
       call.response.etag \in {call.response.version, None}

CacheIInv == /\ CacheTypeOK /\ PublishedIsPast /\ ValidatorIsOfData
        /\ \A p \in Processes : HonestCall(calls[p])

(* The latest version has been current since whatever time is not ahead.   *)
LEMMA LatestIsCurrent ==
  ASSUME published \in Seq(Nat), NEW time
  PROVE  CurrentSince(Server, time)
BY DEF CurrentSince, Server

(* A version stays current since a past time when another one appears.     *)
LEMMA CurrentStaysCurrent ==
  ASSUME published \in Seq(Nat), clock \in Nat,
         published' = Append(published, clock),
         NEW version \in Nat \ {0},
         NEW time \in Nat, time <= clock, CurrentSince(version, time)
  PROVE  CurrentSince(version, time)'
<1>1. CASE version < Server
  <2>1. published'[version + 1] = published[version + 1]
    BY <1>1 DEF Server
  <2> QED BY <1>1, <2>1 DEF CurrentSince, Server
<1>2. CASE version = Server
  <2>1. published'[version + 1] = clock
    BY <1>2 DEF Server
  <2> QED BY <1>2, <2>1 DEF CurrentSince, Server
<1> QED BY <1>1, <1>2 DEF CurrentSince, Server

(* The invariant holds at the start: no row, no call. *)
LEMMA InitCacheIInv == InitCache => CacheIInv
BY MetadataCacheAssumption
DEF InitCache, CacheIInv, CacheTypeOK, PublishedIsPast, HonestCall,
    ValidatorIsOfData, Idle, Call, Server, Versions

(* Time passes: what was past stays past. *)
LEMMA TickKeepsIInv == CacheIInv /\ Tick => CacheIInv'
BY DEF CacheIInv, Tick, CacheTypeOK, PublishedIsPast, HonestCall,
       ValidatorIsOfData, Call, Row, Response, Server, CurrentSince

(* A new version appears: no time noted by a call is ahead of it.          *)
LEMMA PublishKeepsIInv == CacheIInv /\ Publish => CacheIInv'
<1> SUFFICES ASSUME CacheIInv, Publish PROVE CacheIInv'
  OBVIOUS
<1> USE DEF CacheIInv, Publish
<1>1. CacheTypeOK'
  <2>1. published \in Seq(Nat) /\ clock \in Nat
    BY DEF CacheTypeOK
  <2>2. published' \in Seq(Nat) /\ Len(published') = Len(published) + 1
    BY <2>1
  <2>3. Len(published') \in Versions
    BY <2>2, MetadataCacheAssumption DEF CacheTypeOK, Server, Versions
  <2> QED BY <2>2, <2>3 DEF CacheTypeOK
<1>2. PublishedIsPast'
  BY DEF CacheTypeOK, PublishedIsPast, Server
<1>3. ValidatorIsOfData'
  BY DEF ValidatorIsOfData
<1>4. ASSUME NEW p \in Processes PROVE HonestCall(calls[p])'
  <2>1. /\ HonestCall(calls[p]) /\ calls[p] \in Call
        /\ calls' = calls /\ row' = row /\ clock' = clock
    BY DEF CacheTypeOK
  <2>2. ASSUME NEW version \in Versions,
               CurrentSince(version, calls[p].now)
        PROVE  CurrentSince(version, calls[p].now)'
    BY <2>1, <2>2, CurrentStaysCurrent
    DEF HonestCall, CacheTypeOK, Call, Versions
  <2> QED
    BY <2>1, <2>2 DEF HonestCall, Call, Row, Response
<1> QED BY <1>1, <1>2, <1>3, <1>4

(* A step of one call: the others stay honest, since a row stays a row.    *)
LEMMA CallKeepsIInv ==
  ASSUME CacheIInv, UNCHANGED <<clock, published>>,
         NEW p \in Processes, NEW call \in Call, Goes(p, call),
         HonestCall(call)',
         row' \in Row \cup {None}, row # None => row' # None,
         ValidatorIsOfData',
         returned' \in [Processes -> Versions \cup {None}]
  PROVE  CacheIInv'
<1> USE DEF CacheIInv, Goes
<1>1. CacheTypeOK' /\ PublishedIsPast'
  BY DEF CacheTypeOK, PublishedIsPast, Server
<1>2. ASSUME NEW q \in Processes PROVE HonestCall(calls[q])'
  <2>1. CASE q = p
    BY <2>1 DEF CacheTypeOK
  <2>2. CASE q # p
    BY <2>2 DEF CacheTypeOK, HonestCall, CurrentSince, Server
  <2> QED BY <2>1, <2>2
<1> QED BY <1>1, <1>2

(* A call that returns forgets what it has read and been answered.         *)
LEMMA ReturnKeepsIInv ==
  ASSUME CacheIInv, UNCHANGED <<clock, published>>,
         NEW p \in Processes, NEW version \in Versions \cup {None},
         Returns(p, version),
         row' \in Row \cup {None}, row # None => row' # None,
         ValidatorIsOfData'
  PROVE  CacheIInv'
<1>1. Idle \in Call /\ HonestCall(Idle)'
  BY DEF Idle, Call, HonestCall, CacheIInv, CacheTypeOK
<1> QED BY <1>1, CallKeepsIInv DEF Returns, CacheIInv, CacheTypeOK

(* A call begins by noting the time. *)
LEMMA PullRequestKeepsIInv ==
  ASSUME CacheIInv, NEW p \in Processes, PullRequest(p)
  PROVE  CacheIInv'
<1>0. PICK call : call = [Idle EXCEPT !.at = "reading", !.now = clock]
  OBVIOUS
<1>a. call = [at |-> "reading", now |-> clock,
              cached |-> None, response |-> None]
  BY <1>0 DEF Idle
<1>b. clock \in Nat /\ clock' = clock
  BY DEF CacheIInv, CacheTypeOK, PullRequest
<1>1. call \in Call /\ HonestCall(call)'
  BY <1>a, <1>b DEF Call, HonestCall
<1>2. ValidatorIsOfData' /\ row' \in Row \cup {None}
      /\ returned' \in [Processes -> Versions \cup {None}]
  BY DEF CacheIInv, CacheTypeOK, PullRequest, ValidatorIsOfData
<1> QED BY <1>0, <1>1, <1>2, CallKeepsIInv DEF PullRequest

(* It returns the row, or remembers it with its validator. *)
LEMMA ReadCacheKeepsIInv ==
  ASSUME CacheIInv, NEW p \in Processes, ReadCache(p)
  PROVE  CacheIInv'
<1>0. PICK call :
        call = [calls[p] EXCEPT !.at = "fetching", !.cached = row]
  OBVIOUS
<1>1. ValidatorIsOfData' /\ row' \in Row \cup {None}
  BY DEF CacheIInv, CacheTypeOK, ReadCache, ValidatorIsOfData
<1>2. CASE row # None /\ ~IsExpired(row, calls[p].now)
  <2>1. row.version \in Versions
    BY <1>2 DEF CacheIInv, CacheTypeOK, Row
  <2> QED BY <1>1, <1>2, <2>1, ReturnKeepsIInv DEF ReadCache
<1>3. CASE ~(row # None /\ ~IsExpired(row, calls[p].now))
  <2>1. call \in Call /\ HonestCall(call)'
    BY <1>0, <1>3
    DEF CacheIInv, CacheTypeOK, Call, HonestCall, ReadCache, ValidatorIsOfData
  <2>2. /\ Goes(p, call) /\ UNCHANGED <<clock, published, row>>
        /\ returned' \in [Processes -> Versions \cup {None}]
    BY <1>0, <1>3 DEF ReadCache, CacheIInv, CacheTypeOK
  <2> QED BY <1>1, <2>1, <2>2, CallKeepsIInv
<1> QED BY <1>2, <1>3

(* GitHub's answer is about its latest version: a 304 too, as the entry    *)
(* has the validator of its own metadata.                                  *)
LEMMA FetchKeepsIInv ==
  ASSUME CacheIInv, NEW p \in Processes, FetchPullRequest(p)
  PROVE  CacheIInv'
<1>1. PICK response \in Answers(calls[p].cached) :
        Goes(p, [calls[p] EXCEPT !.at = "storing", !.response = response])
  BY DEF FetchPullRequest
<1>a. PICK call :
        call = [calls[p] EXCEPT !.at = "storing", !.response = response]
  OBVIOUS
<1>2. /\ calls[p] \in Call /\ HonestCall(calls[p])
      /\ Server \in Versions /\ published \in Seq(Nat)
      /\ UNCHANGED <<clock, published, row, returned>>
  BY DEF CacheIInv, CacheTypeOK, Server, FetchPullRequest
<1>3. CurrentSince(Server, calls[p].now)'
  BY <1>2, LatestIsCurrent DEF CurrentSince, Server
<1>b. /\ call.at = "storing" /\ call.now = calls[p].now
      /\ call.cached = calls[p].cached /\ call.response = response
  BY <1>2, <1>a DEF Call
<1>4. call \in Call /\ HonestCall(call)'
  <2>1. CASE calls[p].cached # None /\ calls[p].cached.etag = Server
    <3>1. response = None
      BY <2>1 DEF Answers
    <3>2. calls[p].cached.version = Server
      BY <1>2, <2>1, MetadataCacheAssumption DEF HonestCall, Versions
    <3>3. call \in Call
      BY <1>2, <1>a, <3>1 DEF Call
    <3>4. CurrentSince(call.cached.version, call.now)'
      BY <1>3, <1>b, <1>2, <3>2 DEF CurrentSince, Server
    <3>5. HonestCall(call)'
      BY <1>b, <1>2, <2>1, <3>1, <3>4 DEF HonestCall
    <3> QED BY <3>3, <3>5
  <2>2. CASE ~(calls[p].cached # None /\ calls[p].cached.etag = Server)
    <3>1. PICK etag \in {Server, None} :
            response = [version |-> Server, etag |-> etag]
      BY <2>2 DEF Answers
    <3>2. response \in Response /\ response # None
      BY <1>2, <3>1, MetadataCacheAssumption DEF Response
    <3>3. call \in Call
      BY <1>2, <1>a, <3>2 DEF Call
    <3>4. CurrentSince(call.response.version, call.now)'
      BY <1>3, <1>b, <1>2, <3>1 DEF CurrentSince, Server
    <3>5. HonestCall(call)'
      BY <1>b, <1>2, <3>1, <3>2, <3>4 DEF HonestCall
    <3> QED BY <3>3, <3>5
  <2> QED BY <2>1, <2>2
<1>5. ValidatorIsOfData' /\ row' \in Row \cup {None}
      /\ returned' \in [Processes -> Versions \cup {None}]
  BY <1>2 DEF CacheIInv, CacheTypeOK, ValidatorIsOfData
<1> QED BY <1>1, <1>2, <1>a, <1>4, <1>5, CallKeepsIInv

(* The row a 304 touches is there, and keeps its metadata and validator.   *)
LEMMA NotModifiedKeepsIInv ==
  ASSUME CacheIInv, NEW p \in Processes, NotModified(p)
  PROVE  CacheIInv'
<1>1. /\ calls[p] \in Call /\ calls[p].cached \in Row /\ row \in Row
      /\ Ttl[p] \in Nat
  BY MetadataCacheAssumption
  DEF CacheIInv, CacheTypeOK, HonestCall, NotModified, Call
<1>2. row' = [row EXCEPT !.fetched = calls[p].now,
                         !.expires = calls[p].now + Ttl[p]]
  BY DEF NotModified, ExpiryWindow
<1>3. /\ row' \in Row /\ row'.etag = row.etag
      /\ row'.version = row.version
  <2>1. row' = [version |-> row.version, etag |-> row.etag,
                fetched |-> calls[p].now,
                expires |-> calls[p].now + Ttl[p]]
    BY <1>1, <1>2 DEF Row
  <2>2. /\ calls[p].now \in Nat /\ calls[p].now + Ttl[p] \in Nat
        /\ row.version \in Versions /\ row.etag \in Versions \cup {None}
    BY <1>1 DEF Row, Call
  <2> QED BY <2>1, <2>2 DEF Row
<1>4. row # None /\ row' # None
  BY <1>1, <1>3, MetadataCacheAssumption
<1>5. ValidatorIsOfData'
  BY <1>3, <1>4 DEF CacheIInv, ValidatorIsOfData
<1>6. calls[p].cached.version \in Versions
  BY <1>1 DEF Row
<1>7. /\ UNCHANGED <<clock, published>>
      /\ Returns(p, calls[p].cached.version)
  BY DEF NotModified
<1> QED BY <1>3, <1>4, <1>5, <1>6, <1>7, ReturnKeepsIInv

(* New metadata are stored with the validator they came with.              *)
LEMMA ModifiedKeepsIInv ==
  ASSUME CacheIInv, NEW p \in Processes, Modified(p)
  PROVE  CacheIInv'
<1>1. /\ calls[p] \in Call /\ calls[p].response \in Response
      /\ calls[p].response # None /\ Ttl[p] \in Nat
  BY MetadataCacheAssumption DEF CacheIInv, CacheTypeOK, Modified, Call
<1>2. row' = [version |-> calls[p].response.version,
              etag |-> calls[p].response.etag,
              fetched |-> calls[p].now,
              expires |-> calls[p].now + Ttl[p]]
  BY DEF Modified, ExpiryWindow
<1>3. row' \in Row
  BY <1>1, <1>2 DEF Row, Response, Call
<1>4. row' # None
  BY <1>3, MetadataCacheAssumption
<1>5. ValidatorIsOfData'
  BY <1>1, <1>2 DEF CacheIInv, HonestCall, ValidatorIsOfData
<1>6. calls[p].response.version \in Versions
  BY <1>1 DEF Response
<1>7. /\ UNCHANGED <<clock, published>>
      /\ Returns(p, calls[p].response.version)
  BY DEF Modified
<1> QED BY <1>3, <1>4, <1>5, <1>6, <1>7, ReturnKeepsIInv

(* A call that fails leaves the row alone. *)
LEMMA FailsKeepsIInv ==
  ASSUME CacheIInv, NEW p \in Processes, Fails(p)
  PROVE  CacheIInv'
<1>1. /\ UNCHANGED <<clock, published, row>> /\ Returns(p, None)
      /\ row' \in Row \cup {None} /\ ValidatorIsOfData'
  BY DEF CacheIInv, CacheTypeOK, Fails, ValidatorIsOfData
<1> QED BY <1>1, ReturnKeepsIInv

(* Every step keeps the invariant. *)
LEMMA NextKeepsIInv == CacheIInv /\ [NextCache]_cacheVars => CacheIInv'
<1> SUFFICES ASSUME CacheIInv, [NextCache]_cacheVars PROVE CacheIInv'
  OBVIOUS
<1>1. CASE Tick
  BY <1>1, TickKeepsIInv
<1>2. CASE Publish
  BY <1>2, PublishKeepsIInv
<1>3. ASSUME NEW p \in Processes, PullRequest(p) PROVE CacheIInv'
  BY <1>3, PullRequestKeepsIInv
<1>4. ASSUME NEW p \in Processes, ReadCache(p) PROVE CacheIInv'
  BY <1>4, ReadCacheKeepsIInv
<1>5. ASSUME NEW p \in Processes, FetchPullRequest(p) PROVE CacheIInv'
  BY <1>5, FetchKeepsIInv
<1>6. ASSUME NEW p \in Processes, NotModified(p) PROVE CacheIInv'
  BY <1>6, NotModifiedKeepsIInv
<1>7. ASSUME NEW p \in Processes, Modified(p) PROVE CacheIInv'
  BY <1>7, ModifiedKeepsIInv
<1>8. ASSUME NEW p \in Processes, Fails(p) PROVE CacheIInv'
  BY <1>8, FailsKeepsIInv
<1>9. CASE UNCHANGED cacheVars
  BY <1>9 DEF cacheVars, CacheIInv, CacheTypeOK, PublishedIsPast, HonestCall,
              ValidatorIsOfData, CurrentSince, Server
<1> QED
  BY <1>1, <1>2, <1>3, <1>4, <1>5, <1>6, <1>7, <1>8, <1>9 DEF NextCache

---------------------------------------------------------------------------
(* The inductive invariant holds in every reachable state. *)
THEOREM InductiveInvariant == SpecCache => []CacheIInv
<1> QED BY InitCacheIInv, NextKeepsIInv, PTL DEF SpecCache

(* Clock, row and calls keep their types: no row expires before the epoch. *)
THEOREM TypeCorrect == SpecCache => []CacheTypeOK
<1>1. CacheIInv => CacheTypeOK
  BY DEF CacheIInv
<1> QED BY <1>1, InductiveInvariant, PTL

(* GitHub is never asked about one version with the validator of another.  *)
THEOREM ValidatorSafety == SpecCache => []ValidatorIsOfData
<1>1. CacheIInv => ValidatorIsOfData
  BY DEF CacheIInv
<1> QED BY <1>1, InductiveInvariant, PTL

(* What RevalidatedIsCurrent says of one step. *)
RevalidatedStep ==
  \A p \in Processes :
    calls[p].at = "storing" /\ calls'[p].at = "idle" =>
      \/ returned'[p] = None
      \/ CurrentSince(returned'[p], calls[p].now)

(* A call that asked GitHub returns an error or what was true meanwhile.   *)
LEMMA StepRevalidates == CacheIInv /\ [NextCache]_cacheVars => [RevalidatedStep]_cacheVars
<1> SUFFICES ASSUME CacheIInv, NextCache, NEW p \in Processes,
                    calls[p].at = "storing", calls'[p].at = "idle"
             PROVE  \/ returned'[p] = None
                    \/ CurrentSince(returned'[p], calls[p].now)
  BY DEF RevalidatedStep
<1>1. HonestCall(calls[p]) /\ calls[p] \in Call
      /\ calls \in [Processes -> Call]
      /\ returned \in [Processes -> Versions \cup {None}]
  BY DEF CacheIInv, CacheTypeOK
<1>2. ASSUME NEW q \in Processes, NEW call, Goes(q, call), q # p
      PROVE  FALSE
  BY <1>1, <1>2 DEF Goes
<1>3. ASSUME NEW version, Returns(p, version)
      PROVE  returned'[p] = version
  BY <1>1, <1>3 DEF Returns
<1>4. CASE Tick \/ Publish
  BY <1>4, <1>1 DEF Tick, Publish
<1>5. ASSUME NEW q \in Processes, PullRequest(q) PROVE FALSE
  BY <1>5, <1>2, <1>1 DEF PullRequest
<1>6. ASSUME NEW q \in Processes, ReadCache(q) PROVE FALSE
  BY <1>6, <1>2, <1>1 DEF ReadCache, Returns
<1>7. ASSUME NEW q \in Processes, FetchPullRequest(q) PROVE FALSE
  BY <1>7, <1>2, <1>1 DEF FetchPullRequest
<1>8. ASSUME NEW q \in Processes, NotModified(q)
      PROVE  CurrentSince(returned'[p], calls[p].now)
  <2>1. q = p
    BY <1>8, <1>2 DEF NotModified, Returns
  <2>2. returned'[p] = calls[p].cached.version
    BY <1>8, <2>1, <1>3 DEF NotModified
  <2> QED BY <1>8, <2>1, <2>2, <1>1 DEF NotModified, HonestCall
<1>9. ASSUME NEW q \in Processes, Modified(q)
      PROVE  CurrentSince(returned'[p], calls[p].now)
  <2>1. q = p
    BY <1>9, <1>2 DEF Modified, Returns
  <2>2. returned'[p] = calls[p].response.version
    BY <1>9, <2>1, <1>3 DEF Modified
  <2> QED BY <1>9, <2>1, <2>2, <1>1 DEF Modified, HonestCall
<1>10. ASSUME NEW q \in Processes, Fails(q) PROVE returned'[p] = None
  <2>1. q = p
    BY <1>10, <1>2 DEF Fails, Returns
  <2> QED BY <1>10, <2>1, <1>3 DEF Fails
<1> QED
  BY <1>4, <1>5, <1>6, <1>7, <1>8, <1>9, <1>10 DEF NextCache

(* An answer that took a request was true at some moment of the call.      *)
THEOREM Revalidated == SpecCache => RevalidatedIsCurrent
<1> QED
  BY InductiveInvariant, StepRevalidates, PTL
  DEF SpecCache, RevalidatedIsCurrent, RevalidatedStep

(* What WriteIsHonest says of one step. *)
HonestWriteStep ==
  \A p \in Processes :
    /\ calls[p].at = "storing" /\ row' # row
    /\ calls[p].response # None \/ row.version = calls[p].cached.version
    /\ calls'[p].at = "idle"
    => CurrentSince(row'.version, row'.fetched)

(* A row written is dated by the time noted before the request.            *)
LEMMA StepWritesHonestly == CacheIInv /\ [NextCache]_cacheVars => [HonestWriteStep]_cacheVars
<1> SUFFICES ASSUME CacheIInv, NextCache, NEW p \in Processes,
                    calls[p].at = "storing", row' # row,
                    \/ calls[p].response # None
                    \/ row.version = calls[p].cached.version,
                    calls'[p].at = "idle"
             PROVE  CurrentSince(row'.version, row'.fetched)
  BY DEF HonestWriteStep
<1>1. HonestCall(calls[p]) /\ calls[p] \in Call
      /\ calls \in [Processes -> Call] /\ row \in Row \cup {None}
  BY DEF CacheIInv, CacheTypeOK
<1>2. ASSUME NEW q \in Processes, NEW call, Goes(q, call), q # p
      PROVE  FALSE
  BY <1>1, <1>2 DEF Goes
<1>3. ASSUME NEW q \in Processes, NotModified(q)
      PROVE  CurrentSince(row'.version, row'.fetched)
  <2>1. q = p
    BY <1>3, <1>2 DEF NotModified, Returns
  <2>2. /\ calls[p].cached # None /\ row \in Row
        /\ CurrentSince(calls[p].cached.version, calls[p].now)
        /\ row.version = calls[p].cached.version
    BY <1>1, <1>3, <2>1 DEF NotModified, HonestCall
  <2>3. row' = [row EXCEPT !.fetched = calls[p].now,
                           !.expires = calls[p].now + Ttl[p]]
    BY <1>3, <2>1 DEF NotModified, ExpiryWindow
  <2>4. row'.version = row.version /\ row'.fetched = calls[p].now
    BY <2>2, <2>3 DEF Row
  <2> QED BY <2>2, <2>4
<1>4. ASSUME NEW q \in Processes, Modified(q)
      PROVE  CurrentSince(row'.version, row'.fetched)
  <2>1. q = p
    BY <1>4, <1>2 DEF Modified, Returns
  <2>2. /\ row'.version = calls[p].response.version
        /\ row'.fetched = calls[p].now
    BY <1>4, <2>1 DEF Modified, ExpiryWindow
  <2> QED BY <1>1, <1>4, <2>1, <2>2 DEF Modified, HonestCall
<1>5. ASSUME UNCHANGED row PROVE FALSE
  BY <1>5
<1> QED
  BY <1>3, <1>4, <1>5
  DEF NextCache, Tick, Publish, PullRequest, ReadCache, FetchPullRequest, Fails

(* What is written is fresh for no longer than the time to live.           *)
THEOREM HonestWrites == SpecCache => WriteIsHonest
<1> QED
  BY InductiveInvariant, StepWritesHonestly, PTL
  DEF SpecCache, WriteIsHonest, HonestWriteStep
=============================================================================
