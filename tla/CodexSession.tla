--------------------------- MODULE CodexSession ---------------------------
(***************************************************************************)
(* Codex runs started from the review TUI: the handlers of                 *)
(* src/src/tui/app/codex_handlers.rs, the worker thread of                 *)
(* src/src/ai/codex_process/, the child it drives, and the sidecar files   *)
(* of src/src/ai/session.rs that let a later run resume an interrupted one.*)
(*                                                                         *)
(* The update loop, the worker and the child interleave.  The loop holds   *)
(* the receiver of a channel (`running') and polls it on timers; Frankie   *)
(* itself may stop at any point, leaving only the sidecars behind.         *)
(*                                                                         *)
(* A file stands for a transcript and the sidecar beside it; its name is   *)
(* the second in which the run started.  Progress lines, which only move   *)
(* the status line, prompts and transcript contents are abstracted.        *)
(***************************************************************************)
EXTENDS Option, Naturals

CONSTANTS
  Threads,      \* server-side thread ids
  Torn,         \* a sidecar that does not parse
  MaxSeconds,   \* bound: seconds the clock passes
  MaxRuns,      \* bound: runs started, fresh or resumed
  MaxFaults,    \* bound: sidecar writes and threads that fail
  MaxTimers     \* bound: poll timers the user adds by pressing `x'

Files    == 1..MaxSeconds
Statuses == {"Running", "Completed", "Interrupted", "Failed"}
Sidecar  == [status: Statuses, thread: Threads \cup {None}, startedAt: Nat]
Finished == [file: Files, success: BOOLEAN]
Offer    == [file: Files, state: Sidecar]

(* How the stream ended: a protocol message, end of output, or an error.   *)
End == [via: {"AppServer", "ProcessExit", "RunError"},
        status: Statuses \cup {None}]

(* The program counter of the worker names what it does next.              *)
Stages == {"Create", "Announce", "Reopen", "Reannounce", "Spawn", "Stream",
           "Ask", "Persist", "Wait", "Settle", "Terminate", "Report"}
Writing == {"Announce", "Reannounce", "Persist", "Settle"}

Worker == [file: Files, stage: Stages, state: Sidecar, resumed: BOOLEAN,
           stamp: Nat, session: BOOLEAN, turn: BOOLEAN,
           thread: Threads \cup {None}, end: End]

ChildStates == {"None", "Alive", "Succeeded", "Failed"}

ASSUME CodexSessionAssumption ==
  /\ MaxSeconds \in Nat \ {0} /\ MaxRuns \in Nat
  /\ MaxFaults \in Nat /\ MaxTimers \in Nat
  /\ None \notin Threads
  /\ None \notin Worker \cup Sidecar \cup Finished \cup Offer
  /\ Torn \notin Sidecar \cup {None}

VARIABLES
  running,  \* codex_handle is Some
  prompt,   \* resume_prompt
  timers,   \* CodexPollTick timers outstanding
  error,    \* whether an error banner is shown
  channel,  \* the Finished update waiting in the channel
  worker,   \* the worker thread, None once it has returned
  child,    \* the process of that worker
  stdout,   \* whether the output being read may have more to come
  stderr,   \* whether its stderr reader thread is still reading
  disk,     \* the sidecar of each file
  lost,     \* files whose last sidecar write failed (history)
  clock,    \* the second of Utc::now()
  runs,     \* runs started
  faults    \* faults so far

tuiVars    == <<running, prompt, timers, error>>
childVars  == <<child, stdout, stderr>>
workerVars == <<worker, childVars>>
diskVars   == <<disk, lost, faults>>
vars == <<tuiVars, channel, workerVars, diskVars, clock, runs>>

Unended == [via |-> "RunError", status |-> None]

Init ==
  /\ running = FALSE /\ prompt = None /\ timers = 0 /\ error = FALSE
  /\ channel = None
  /\ worker = None
  /\ child = "None" /\ stdout = FALSE /\ stderr = FALSE
  /\ disk = [f \in Files |-> None]
  /\ lost = {}
  /\ clock = 1
  /\ runs = 0
  /\ faults = 0

Recorded(sidecar) == sidecar \notin {None, Torn}

---------------------------------------------------------------------------
(* The update loop.                                                        *)

Resumable == {f \in Files : /\ Recorded(disk[f])
                            /\ disk[f].status = "Interrupted"
                            /\ disk[f].thread # None}

(* Mutant: failed sessions are offered too. *)
MostRecentResumableOrFailed(f) ==
  /\ Recorded(disk[f]) /\ disk[f].thread # None
  /\ disk[f].status \in {"Interrupted", "Failed"}

(* find_interrupted_session *)
MostRecentResumable(f) ==
  /\ f \in Resumable
  /\ \A g \in Resumable : disk[g].startedAt <= disk[f].startedAt

(* The worker and the loop let go of the process, its pipes with it.       *)
ChildForgotten == child' = "None" /\ stdout' = FALSE /\ stderr' = FALSE

Launch(w) ==
  /\ runs < MaxRuns
  /\ runs' = runs + 1
  /\ worker' = w
  /\ ChildForgotten
  /\ running' = TRUE
  /\ timers' = timers + 1
  /\ error' = FALSE

FreshWorker ==
  [file |-> clock, stage |-> "Create", resumed |-> FALSE, stamp |-> runs + 1,
   state |-> [status |-> "Running", thread |-> None, startedAt |-> runs + 1],
   session |-> FALSE, turn |-> FALSE, thread |-> None, end |-> Unended]

ResumedWorker(offer) ==
  [file |-> offer.file, stage |-> "Reopen", resumed |-> TRUE,
   stamp |-> runs + 1, state |-> offer.state, session |-> FALSE,
   turn |-> FALSE, thread |-> None, end |-> Unended]

(* No comments, pull request or state directory to run with. *)
CannotStart ==
  /\ error' = TRUE
  /\ UNCHANGED <<running, timers, workerVars, runs>>

StartFresh == CannotStart \/ Launch(FreshWorker)

(* `x': while a run is on, a further poll timer starts all the same.       *)
StartCodexExecution ==
  /\ prompt = None
  /\ IF running
       THEN /\ timers < MaxTimers
            /\ timers' = timers + 1
            /\ UNCHANGED <<running, prompt, error, workerVars, runs>>
       ELSE IF \E f \in Files : MostRecentResumable(f)
         THEN /\ \E f \in Files :
                   /\ MostRecentResumable(f)
                   /\ prompt' = [file |-> f, state |-> disk[f]]
              /\ UNCHANGED <<running, timers, error, workerVars, runs>>
         ELSE StartFresh /\ UNCHANGED prompt
  /\ UNCHANGED <<channel, diskVars, clock>>

(* `y': the prompt stays when the run cannot be prepared. *)
ResumeAccepted ==
  /\ prompt # None
  /\ \/ CannotStart /\ UNCHANGED prompt
     \/ Launch(ResumedWorker(prompt)) /\ prompt' = None
  /\ UNCHANGED <<channel, diskVars, clock>>

(* `n' *)
ResumeDeclined ==
  /\ prompt # None
  /\ prompt' = None
  /\ StartFresh
  /\ UNCHANGED <<channel, diskVars, clock>>

(* Mutants: a poll that finds nothing does not arm the next one; only a    *)
(* closed channel ends a run, whose last update is never taken from it.    *)
CodexPollTickOnce ==
  /\ timers > 0
  /\ timers' = timers - 1
  /\ IF running /\ (channel # None \/ worker = None)
       THEN /\ running' = FALSE
            /\ error' = (channel = None \/ ~channel.success)
            /\ channel' = None
       ELSE UNCHANGED <<running, error, channel>>
  /\ UNCHANGED <<prompt, workerVars, diskVars, clock, runs>>

CodexPollTickWithoutDraining ==
  /\ timers > 0
  /\ IF running /\ ~(worker = None /\ channel = None)
       THEN UNCHANGED <<running, error, timers>>
       ELSE /\ timers' = timers - 1
            /\ running' = FALSE
            /\ error' = (error \/ running)
  /\ UNCHANGED <<prompt, channel, workerVars, diskVars, clock, runs>>

(* A poll timer fires.  The handle is dropped on Finished, and on a channel*)
(* that closed without one; otherwise the timer is armed again.            *)
CodexPollTick ==
  /\ timers > 0
  /\ IF running
       THEN IF channel # None \/ worker = None
              THEN /\ running' = FALSE
                   /\ error' = (channel = None \/ ~channel.success)
                   /\ channel' = None
                   /\ timers' = timers - 1
              ELSE UNCHANGED <<running, error, channel, timers>>
       ELSE timers' = timers - 1 /\ UNCHANGED <<running, error, channel>>
  /\ UNCHANGED <<prompt, workerVars, diskVars, clock, runs>>

---------------------------------------------------------------------------
(* The worker.                                                             *)

At(stage) == worker # None /\ worker.stage = stage
Go(stage) == worker' = [worker EXCEPT !.stage = stage]

WriteSucceeds(sidecar) ==
  /\ disk' = [disk EXCEPT ![worker.file] = sidecar]
  /\ lost' = lost \ {worker.file}
  /\ UNCHANGED faults

(* Opening the file fails, or truncating it succeeds and writing fails.    *)
WriteFails ==
  /\ faults < MaxFaults
  /\ faults' = faults + 1
  /\ lost' = lost \cup {worker.file}
  /\ \/ UNCHANGED disk
     \/ disk' = [disk EXCEPT ![worker.file] = Torn]

(* A failed write is logged, and the worker carries on. *)
Write(sidecar) == WriteSucceeds(sidecar) \/ WriteFails

(* The last thing a worker does (a fresh one then kills what is left of    *)
(* its child).                                                             *)
SendFinished(success) ==
  /\ channel' = [file |-> worker.file, success |-> success]
  /\ worker' = None
  /\ ChildForgotten

CreateTranscript ==
  /\ At("Create")
  /\ \/ Go("Announce") /\ UNCHANGED <<channel, childVars>>
     \/ SendFinished(FALSE)
  /\ UNCHANGED <<tuiVars, diskVars, clock, runs>>

AnnounceRun ==
  /\ At("Announce")
  /\ Write(worker.state)
  /\ Go("Spawn")
  /\ UNCHANGED <<tuiVars, channel, childVars, clock, runs>>

ReopenTranscript ==
  /\ At("Reopen")
  /\ \/ Go("Reannounce") /\ UNCHANGED <<channel, childVars>>
     \/ SendFinished(FALSE)
  /\ UNCHANGED <<tuiVars, diskVars, clock, runs>>

Restarted == [worker.state EXCEPT !.status = "Running",
                                  !.startedAt = worker.stamp]

(* Unlike a fresh run, a resumed one gives up when it cannot write. *)
ReannounceRun ==
  /\ At("Reannounce")
  /\ \/ /\ WriteSucceeds(Restarted)
        /\ worker' = [worker EXCEPT !.state = Restarted, !.stage = "Spawn"]
        /\ UNCHANGED <<channel, childVars>>
     \/ WriteFails /\ SendFinished(FALSE)
  /\ UNCHANGED <<tuiVars, clock, runs>>

(* Starting the child, then the thread that reads its stderr (which panics *)
(* when the system has no thread left), then the handshake, without which  *)
(* the run is a plain process.                                             *)
SpawnCodex ==
  /\ At("Spawn")
  /\ \/ /\ worker' = [worker EXCEPT !.stage = "Settle",
                                    !.end.status = "Failed"]
        /\ UNCHANGED <<childVars, faults>>
     \/ /\ \E shaken \in BOOLEAN :
             worker' = [worker EXCEPT !.stage = "Stream", !.session = shaken,
                          !.thread = IF shaken THEN worker.state.thread
                                     ELSE None]
        /\ child' = "Alive" /\ stdout' = TRUE /\ stderr' = TRUE
        /\ UNCHANGED faults
     \/ /\ faults < MaxFaults
        /\ faults' = faults + 1
        /\ worker' = None /\ ChildForgotten
  /\ UNCHANGED <<tuiVars, channel, disk, lost, clock, runs>>

(* The stream is over: its end of the pipes is dropped.                    *)
Ends(via, status) ==
  /\ worker' = [worker EXCEPT !.stage = "Persist",
                              !.end = [via |-> via, status |-> status]]
  /\ stdout' = FALSE
  /\ UNCHANGED <<child, stderr>>

(* The response to thread/start or thread/resume (they share a request id) *)
(* names the thread, and any name is taken: a resumed run may be answered  *)
(* with another thread than the one it asked for.                          *)
ThreadStarted ==
  /\ At("Stream") /\ worker.session /\ ~worker.turn
  /\ \E t \in Threads :
       worker' = [worker EXCEPT !.thread = t, !.stage = "Ask"]
  /\ UNCHANGED <<tuiVars, channel, childVars, diskVars, clock, runs>>

(* The prompt is written to the child, which may not read it for as long as*)
(* it likes; writing it can fail, and then no turn has been asked for.     *)
TurnRequested ==
  /\ At("Ask")
  /\ \/ /\ worker' = [worker EXCEPT !.turn = TRUE, !.stage = "Stream"]
        /\ UNCHANGED childVars
     \/ \E status \in {"Interrupted", "Failed"} : Ends("RunError", status)
  /\ UNCHANGED <<tuiVars, channel, diskVars, clock, runs>>

(* An error response, or one without a thread id. *)
ProtocolFails ==
  /\ At("Stream") /\ worker.session
  /\ Ends("AppServer", "Failed")
  /\ UNCHANGED <<tuiVars, channel, diskVars, clock, runs>>

(* turn/completed, whatever came before it *)
TurnCompleted ==
  /\ At("Stream") /\ worker.session
  /\ \E status \in {"Completed", "Interrupted", "Failed"} :
       Ends("AppServer", status)
  /\ UNCHANGED <<tuiVars, channel, diskVars, clock, runs>>

(* Reading a line, or appending it to the transcript, fails. *)
StreamFails ==
  /\ At("Stream")
  /\ \E status \in {"Interrupted", "Failed"} : Ends("RunError", status)
  /\ UNCHANGED <<tuiVars, channel, diskVars, clock, runs>>

(* Nothing is left that could write to the child's output: not the child,  *)
(* nor a process it started, which may outlive it.                         *)
EndOfOutput ==
  /\ At("Stream") /\ ~stdout
  /\ Ends("ProcessExit", None)
  /\ UNCHANGED <<tuiVars, channel, diskVars, clock, runs>>

(* Mutant: an error is reported with the record open. *)
NextAfterStreamUnsettled(end) ==
  CASE end.via = "RunError"    -> "Report"
    [] end.via = "AppServer"   -> "Settle"
    [] end.via = "ProcessExit" -> "Wait"

NextAfterStream(end) == IF end.via = "ProcessExit" THEN "Wait" ELSE "Settle"

(* capture_and_persist_thread_id, then the transcript is flushed (not after*)
(* an error), which can fail.                                              *)
PersistThread ==
  /\ At("Persist")
  /\ LET known == worker.thread # None
         state == IF known THEN [worker.state EXCEPT !.thread = worker.thread]
                  ELSE worker.state
         flushFails == IF worker.end.via = "RunError" THEN {}
                       ELSE {[via |-> "RunError", status |-> "Failed"]}
     IN /\ IF known THEN Write(state) ELSE UNCHANGED diskVars
        /\ \E end \in {worker.end} \cup flushFails :
             worker' = [worker EXCEPT !.state = state, !.end = end,
                                      !.stage = NextAfterStream(end)]
  /\ UNCHANGED <<tuiVars, channel, childVars, clock, runs>>

(* complete_with_exit: only an exit with success completes the run.        *)
WaitForExit ==
  /\ At("Wait") /\ child # "Alive"
  /\ \E status \in IF child = "Succeeded" THEN {"Completed", "Failed"}
                    ELSE {"Failed"} :
       worker' = [worker EXCEPT !.end.status = status, !.stage = "Settle"]
  /\ UNCHANGED <<tuiVars, channel, childVars, diskVars, clock, runs>>

Settled == [worker.state EXCEPT !.status = worker.end.status]
AfterSettling == IF worker.end.via = "AppServer" THEN "Terminate" ELSE "Report"

(* Mutant: the terminal record forgets the thread. *)
SettleForgettingThread ==
  /\ At("Settle")
  /\ Write([Settled EXCEPT !.thread = None])
  /\ worker' = [worker EXCEPT !.state = Settled, !.stage = AfterSettling]
  /\ UNCHANGED <<tuiVars, channel, childVars, clock, runs>>

(* update_session_status *)
Settle ==
  /\ At("Settle")
  /\ Write(Settled)
  /\ worker' = [worker EXCEPT !.state = Settled, !.stage = AfterSettling]
  /\ UNCHANGED <<tuiVars, channel, childVars, clock, runs>>

(* terminate_child: after a protocol message the child is killed and waited*)
(* for before the outcome is sent.  What it started is not killed with it. *)
Terminate ==
  /\ At("Terminate")
  /\ child' = IF child = "Alive" THEN "Failed" ELSE child
  /\ Go("Report")
  /\ UNCHANGED <<tuiVars, channel, stdout, stderr, diskVars, clock, runs>>

(* A failure is sent with what was read of stderr: append_to waits for the *)
(* reader, that is for stderr to be closed or to reach its limit.          *)
Report ==
  /\ At("Report")
  /\ worker.end.status = "Completed" \/ ~stderr
  /\ SendFinished(worker.end.status = "Completed")
  /\ UNCHANGED <<tuiVars, diskVars, clock, runs>>

---------------------------------------------------------------------------
(* The child and the rest of the world.                                    *)

(* Its pipes may outlive it, in the hands of a process it started.         *)
ChildExits ==
  /\ child = "Alive"
  /\ child' \in {"Succeeded", "Failed"}
  /\ UNCHANGED <<tuiVars, channel, worker, stdout, stderr, diskVars, clock,
                 runs>>

OutputCloses ==
  /\ stdout /\ stdout' = FALSE
  /\ UNCHANGED <<tuiVars, channel, worker, child, stderr, diskVars, clock,
                 runs>>

(* The reader of stderr stops: at its end, at a line that is not text, or  *)
(* at its limit, with the child still alive.                               *)
StderrCloses ==
  /\ stderr /\ stderr' = FALSE
  /\ UNCHANGED <<tuiVars, channel, worker, child, stdout, diskVars, clock,
                 runs>>

(* Frankie stops (the user quits, a crash) and is started again.  A sidecar*)
(* being written may be torn.                                              *)
Restart ==
  /\ running' = FALSE /\ prompt' = None /\ timers' = 0 /\ error' = FALSE
  /\ channel' = None
  /\ worker' = None /\ ChildForgotten
  /\ \/ UNCHANGED <<disk, lost>>
     \/ /\ worker # None /\ worker.stage \in Writing
        /\ disk' = [disk EXCEPT ![worker.file] = Torn]
        /\ lost' = lost \cup {worker.file}
  /\ UNCHANGED <<clock, runs, faults>>

SecondPasses ==
  /\ clock < MaxSeconds
  /\ clock' = clock + 1
  /\ UNCHANGED <<tuiVars, channel, workerVars, diskVars, runs>>

(* What the worker does by itself, and what it does when the child talks,  *)
(* reads, or lets it down.                                                 *)
WorkerStep ==
  \/ CreateTranscript \/ AnnounceRun \/ ReopenTranscript \/ ReannounceRun
  \/ SpawnCodex \/ EndOfOutput \/ PersistThread \/ WaitForExit \/ Settle
  \/ Terminate \/ Report

StreamStep ==
  \/ ThreadStarted \/ TurnRequested \/ ProtocolFails \/ TurnCompleted
  \/ StreamFails

Next ==
  \/ StartCodexExecution \/ ResumeAccepted \/ ResumeDeclined
  \/ CodexPollTick
  \/ WorkerStep \/ StreamStep
  \/ ChildExits \/ OutputCloses \/ StderrCloses \/ Restart \/ SecondPasses

Spec == Init /\ [][Next]_vars

(* The update loop serves its timers and the worker thread is scheduled.   *)
(* Nothing is assumed of the child: it may stay silent, never read, never  *)
(* exit, and leave its pipes open for ever.                                *)
FairSpec ==
  /\ Spec
  /\ WF_vars(CodexPollTick)
  /\ WF_vars(WorkerStep)

---------------------------------------------------------------------------
ChildOK ==
  child \in ChildStates /\ stdout \in BOOLEAN /\ stderr \in BOOLEAN

TypeOK ==
  /\ running \in BOOLEAN /\ error \in BOOLEAN
  /\ prompt \in Offer \cup {None}
  /\ timers \in Nat
  /\ channel \in Finished \cup {None}
  /\ worker \in Worker \cup {None}
  /\ ChildOK
  /\ disk \in [Files -> Sidecar \cup {None, Torn}]
  /\ lost \subseteq Files
  /\ clock \in Nat /\ runs \in Nat /\ faults \in Nat

(* A prompt offers what is on disk: no run that could still write to that  *)
(* sidecar is under way, so accepting it resumes an interrupted session at *)
(* a thread the server knows.                                              *)
PromptIsCurrent ==
  prompt # None => /\ disk[prompt.file] = prompt.state
                   /\ prompt.state.status = "Interrupted"
                   /\ prompt.state.thread # None

(* There is one run at a time and its channel has a reader: a worker that  *)
(* has not reported belongs to the handle the update loop holds, a poll of *)
(* that handle is on its way, and no prompt could start another beside it. *)
RunHasReader ==
  /\ worker # None => running /\ channel = None
  /\ running => prompt = None /\ timers > 0

(* What the user is told about the latest run is what its sidecar says,    *)
(* unless writing that sidecar failed: it is closed before the outcome is  *)
(* sent (finalize, run_stream_with_context).                               *)
OutcomeMatchesSidecar ==
  channel # None /\ channel.file \notin lost =>
    LET sidecar == disk[channel.file] IN
    Recorded(sidecar) /\ sidecar.startedAt = runs =>
      /\ sidecar.status # "Running"
      /\ channel.success <=> sidecar.status = "Completed"

(* A sidecar only moves along its life cycle.  Within a run it is closed   *)
(* once, and its thread changes only while it is open, to the one the      *)
(* server named in this run: a known thread is never forgotten.  A later   *)
(* run starts from no thread, or resumes an interrupted record with its    *)
(* thread.  (A write that failed in between may have skipped a stage.)     *)
SidecarLifeCycle ==
  [][\A f \in Files :
       LET old == disk[f]
           new == disk'[f]
       IN Recorded(old) /\ Recorded(new) /\ new # old /\ f \notin lost =>
            IF new.startedAt = old.startedAt
              THEN /\ old.status = "Running"
                   /\ \/ new.thread = old.thread
                      \/ /\ new.thread = worker.thread /\ new.thread # None
                         /\ new.status = "Running"
              ELSE /\ new.startedAt > old.startedAt
                   /\ new.status = "Running"
                   /\ IF worker.resumed
                        THEN old.status = "Interrupted" /\ old.thread = new.thread
                        ELSE new.thread = None
    ]_vars

(* The waits that only the child can end, none of which has a timeout: for *)
(* a line, for the prompt to be read, for its exit, for its stderr.        *)
BlockedOnChild ==
  \/ At("Stream") /\ stdout
  \/ At("Ask")
  \/ At("Wait") /\ child = "Alive"
  \/ At("Report") /\ worker.end.status # "Completed" /\ stderr

(* A run that is shown as running comes to an end, unless from some point  *)
(* on it waits for its child for ever.                                     *)
RunEnds == running ~> (~running \/ []BlockedOnChild)

(* adr-003: a thread id is stored as soon as it is received. *)
ThreadIdStoredOnReceipt ==
  At("Stream") /\ worker.turn /\ worker.file \notin lost =>
    disk[worker.file].thread = worker.thread

===========================================================================
