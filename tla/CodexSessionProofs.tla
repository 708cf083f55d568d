------------------------- MODULE CodexSessionProofs -------------------------
(***************************************************************************)
(* The safety of Codex runs for any number of threads, files, runs, timers *)
(* and faults, and Frankie stopping at any point.                          *)
(***************************************************************************)
EXTENDS CodexSession, TLAPS

(* A worker has a reader, an outcome too, and a prompt has neither.        *)
LoopInv ==
  /\ RunHasReader
  /\ channel # None => running
  /\ PromptIsCurrent

(* Runs are stamped in the order they start.                               *)
DiskInv ==
  /\ clock \in Files
  /\ \A f \in Files : Recorded(disk[f]) => disk[f].startedAt <= runs

Beginning == {"Create", "Announce", "Reopen", "Reannounce"}
Settling  == {"Terminate", "Report"}
Terminal  == Statuses \ {"Running"}

(* Before it has written anything, a run's file holds an older record: for *)
(* a resumed run the one that was offered.                                 *)
BeginningInv ==
  worker # None =>
    /\ worker.stamp = runs
    /\ worker.stage \in Beginning =>
         \A f \in Files : Recorded(disk[f]) => disk[f].startedAt < runs
    /\ worker.stage \in {"Create", "Announce"} =>
         /\ ~worker.resumed
         /\ worker.state = [status |-> "Running", thread |-> None,
                            startedAt |-> runs]
    /\ worker.stage \in {"Reopen", "Reannounce"} =>
         /\ worker.resumed
         /\ worker.state.status = "Interrupted"
         /\ disk[worker.file] = worker.state

(* From then on it holds what the worker knows, unless a write was lost:   *)
(* a record that is open until the run is settled.                         *)
RecordInv ==
  worker # None /\ worker.stage \notin Beginning =>
    /\ worker.state.startedAt = runs
    /\ worker.file \notin lost => disk[worker.file] = worker.state
    /\ worker.stage \notin Settling => worker.state.status = "Running"

(* A run that is settled has an outcome.                                   *)
EndInv ==
  worker # None =>
    /\ worker.stage = "Persist" /\ worker.end.via # "ProcessExit" =>
         worker.end.status \in Terminal
    /\ worker.stage \in {"Settle"} \cup Settling =>
         worker.end.status \in Terminal
    /\ worker.stage \in Settling => worker.state.status = worker.end.status

WorkerInv == BeginningInv /\ RecordInv /\ EndInv

IInv ==
  /\ TypeOK
  /\ LoopInv
  /\ DiskInv
  /\ WorkerInv
  /\ OutcomeMatchesSidecar

---------------------------------------------------------------------------
(* At the start there is no run and no record.                             *)
LEMMA InvInit == Init => IInv
<1> SUFFICES ASSUME Init PROVE IInv
  OBVIOUS
<1>1. TypeOK
  BY CodexSessionAssumption
     DEF CodexSessionAssumption, Init, TypeOK, ChildOK, ChildStates
<1>2. LoopInv /\ WorkerInv /\ OutcomeMatchesSidecar
  BY DEF Init, LoopInv, RunHasReader, PromptIsCurrent, WorkerInv,
         BeginningInv, RecordInv, EndInv, OutcomeMatchesSidecar
<1>3. DiskInv
  BY CodexSessionAssumption
     DEF CodexSessionAssumption, Init, DiskInv, Recorded, Files
<1> QED
  BY <1>1, <1>2, <1>3 DEF IInv

(* What is on disk and read as a record is one. *)
LEMMA RecordedIsSidecar ==
  ASSUME TypeOK, NEW f \in Files, Recorded(disk[f])
  PROVE  disk[f] \in Sidecar
BY DEF TypeOK, Recorded

(* No run is under way when the loop holds no handle. *)
LEMMA IdleHasNoWorker ==
  ASSUME IInv, ~running
  PROVE  worker = None /\ channel = None
BY DEF IInv, LoopInv, RunHasReader

(* The child is gone, or as it was. *)
LEMMA ChildKept ==
  ASSUME ChildForgotten \/ (ChildOK /\ UNCHANGED childVars)
  PROVE  ChildOK'
BY DEF ChildForgotten, ChildOK, childVars, ChildStates

---------------------------------------------------------------------------
(* A new run is stamped later than every record, whether it is fresh or    *)
(* resumes the record offered (start_fresh_codex_execution,                *)
(* handle_resume_accepted). *)
LEMMA LaunchKeepsInv ==
  ASSUME IInv, ~running, prompt' = None, NEW w, Launch(w),
         UNCHANGED <<channel, diskVars, clock>>,
         \/ w = FreshWorker
         \/ prompt # None /\ w = ResumedWorker(prompt)
  PROVE  IInv'
<1>1. worker = None /\ channel = None
  BY IdleHasNoWorker
<1>2. /\ runs' = runs + 1 /\ worker' = w
      /\ ChildForgotten /\ running' = TRUE /\ timers' = timers + 1
      /\ error' = FALSE
      /\ UNCHANGED <<channel, disk, lost, faults, clock>>
  BY DEF Launch, diskVars
<1>3. runs \in Nat /\ timers \in Nat
  BY DEF IInv, TypeOK
<1>4. \A f \in Files : Recorded(disk'[f]) => disk'[f].startedAt < runs'
  <2>1. ASSUME NEW f \in Files, Recorded(disk[f])
        PROVE  disk[f].startedAt < runs'
    <3>1. disk[f].startedAt \in Nat
      BY <2>1, RecordedIsSidecar DEF IInv, Sidecar
    <3> QED
      BY <1>2, <1>3, <2>1, <3>1 DEF IInv, DiskInv
  <2> QED
    BY <1>2, <2>1 DEF Recorded
<1>5. /\ w \in Worker /\ w # None /\ w.stamp = runs'
      /\ w.stage \in {"Create", "Reopen"}
      /\ w.stage = "Create" =>
           /\ ~w.resumed
           /\ w.state = [status |-> "Running", thread |-> None,
                         startedAt |-> runs']
      /\ w.stage = "Reopen" =>
           /\ w.resumed /\ w.state.status = "Interrupted"
           /\ disk[w.file] = w.state
  <2>1. Unended \in End
    BY DEF Unended, End
  <2>2. CASE w = FreshWorker
    <3>1. w \in Worker
      BY <1>3, <2>1, <2>2
         DEF FreshWorker, Worker, Stages, Sidecar, Statuses, IInv, DiskInv
    <3>2. /\ w.stamp = runs' /\ w.stage = "Create" /\ ~w.resumed
          /\ w.state = [status |-> "Running", thread |-> None,
                        startedAt |-> runs']
      BY <1>2, <2>2 DEF FreshWorker
    <3> QED
      BY <3>1, <3>2, CodexSessionAssumption DEF CodexSessionAssumption
  <2>3. CASE prompt # None /\ w = ResumedWorker(prompt)
    <3>1. prompt \in Offer
      BY <2>3 DEF IInv, TypeOK
    <3>2. w \in Worker
      BY <1>3, <2>1, <2>3, <3>1
         DEF ResumedWorker, Worker, Stages, Offer
    <3>3. /\ w.stamp = runs' /\ w.stage = "Reopen" /\ w.resumed
          /\ w.file = prompt.file /\ w.state = prompt.state
      BY <1>2, <2>3 DEF ResumedWorker
    <3> QED
      BY <2>3, <3>2, <3>3, CodexSessionAssumption
         DEF CodexSessionAssumption, IInv, LoopInv, PromptIsCurrent
  <2> QED
    BY <2>2, <2>3
<1>6. TypeOK'
  <2>1. running' \in BOOLEAN /\ error' \in BOOLEAN
    BY <1>2
  <2>2. runs' \in Nat /\ timers' \in Nat /\ ChildOK'
    BY <1>2, <1>3, ChildKept
  <2> QED
    BY <1>2, <1>5, <2>1, <2>2 DEF IInv, TypeOK
<1>7. LoopInv' /\ OutcomeMatchesSidecar'
  BY <1>1, <1>2, <1>3
     DEF LoopInv, RunHasReader, PromptIsCurrent, OutcomeMatchesSidecar
<1>8. DiskInv'
  <2>1. ASSUME NEW f \in Files, Recorded(disk'[f])
        PROVE  disk'[f].startedAt <= runs'
    <3>1. disk'[f].startedAt \in Nat
      BY <1>6, <2>1 DEF TypeOK, Recorded, Sidecar
    <3> QED
      BY <1>2, <1>3, <1>4, <2>1, <3>1
  <2> QED
    BY <1>2, <2>1 DEF IInv, DiskInv, Recorded
<1>9. WorkerInv'
  <2>1. BeginningInv'
    BY <1>2, <1>4, <1>5 DEF BeginningInv, Recorded
  <2>2. RecordInv' /\ EndInv'
    BY <1>2, <1>5 DEF RecordInv, EndInv, Beginning, Settling
  <2> QED
    BY <2>1, <2>2 DEF WorkerInv
<1> QED
  BY <1>6, <1>7, <1>8, <1>9 DEF IInv

(* What leaves the worker and its files alone keeps what is known of them. *)
LEMMA WorkerUntouched ==
  ASSUME IInv, UNCHANGED <<worker, disk, lost, clock, runs>>
  PROVE  DiskInv' /\ WorkerInv'
BY DEF IInv, DiskInv, WorkerInv, BeginningInv, RecordInv, EndInv,
       Recorded

(* `x' offers what is on disk, starts a run, or polls once more            *)
(* (handle_start_codex_execution). *)
LEMMA StartKeepsInv ==
  ASSUME IInv, StartCodexExecution
  PROVE  IInv'
<1>1. prompt = None /\ UNCHANGED <<channel, diskVars, clock>>
  BY DEF StartCodexExecution
<1>2. UNCHANGED <<channel, disk, lost, faults, clock>>
  BY <1>1 DEF diskVars
<1>3. CASE running
  <2>1. /\ timers' = timers + 1
        /\ UNCHANGED <<running, prompt, error, worker, childVars, runs>>
    BY <1>3 DEF StartCodexExecution, workerVars
  <2>2. TypeOK'
    BY <1>2, <2>1, ChildKept DEF IInv, TypeOK
  <2>3. LoopInv' /\ OutcomeMatchesSidecar'
    <3>1. timers \in Nat
      BY DEF IInv, TypeOK
    <3> QED
      BY <1>1, <1>2, <2>1, <3>1
         DEF IInv, LoopInv, RunHasReader, PromptIsCurrent,
             OutcomeMatchesSidecar, Recorded
  <2> QED
    BY <1>2, <2>1, <2>2, <2>3, WorkerUntouched DEF IInv
<1>4. ASSUME ~running, NEW f \in Files, MostRecentResumable(f),
             prompt' = [file |-> f, state |-> disk[f]],
             UNCHANGED <<running, timers, error, workerVars, runs>>
      PROVE  IInv'
  <2>1. UNCHANGED <<running, timers, error, worker, childVars, runs>>
    BY <1>4 DEF workerVars
  <2>2. /\ disk[f] \in Sidecar
        /\ disk[f].status = "Interrupted" /\ disk[f].thread # None
    BY <1>4, RecordedIsSidecar DEF IInv, MostRecentResumable, Resumable
  <2>3. prompt' \in Offer
    BY <1>4, <2>2 DEF Offer
  <2>4. TypeOK'
    BY <1>2, <2>1, <2>3, ChildKept DEF IInv, TypeOK
  <2>5. LoopInv' /\ OutcomeMatchesSidecar'
    BY <1>2, <1>4, <2>1, <2>2, IdleHasNoWorker
       DEF LoopInv, RunHasReader, PromptIsCurrent, OutcomeMatchesSidecar
  <2> QED
    BY <1>2, <2>1, <2>4, <2>5, WorkerUntouched DEF IInv
<1>5. CASE ~running /\ CannotStart /\ UNCHANGED prompt
  <2>1. error' = TRUE /\ UNCHANGED <<running, timers, worker, childVars,
                                     runs>>
    BY <1>5 DEF CannotStart, workerVars
  <2>2. TypeOK'
    BY <1>2, <1>5, <2>1, ChildKept DEF IInv, TypeOK
  <2>3. LoopInv' /\ OutcomeMatchesSidecar'
    BY <1>1, <1>2, <1>5, <2>1, IdleHasNoWorker
       DEF LoopInv, RunHasReader, PromptIsCurrent, OutcomeMatchesSidecar
  <2> QED
    BY <1>2, <2>1, <2>2, <2>3, WorkerUntouched DEF IInv
<1>6. CASE ~running /\ Launch(FreshWorker) /\ UNCHANGED prompt
  BY <1>1, <1>6, LaunchKeepsInv
<1> QED
  BY <1>3, <1>4, <1>5, <1>6 DEF StartCodexExecution, StartFresh

(* `y' and `n' start a run, or leave things as they are but for the prompt *)
(* (handle_resume_accepted, handle_resume_declined). *)
LEMMA AnswerKeepsInv ==
  ASSUME IInv, ResumeAccepted \/ ResumeDeclined
  PROVE  IInv'
<1>1. prompt # None /\ UNCHANGED <<channel, diskVars, clock>>
  BY DEF ResumeAccepted, ResumeDeclined
<1>2. UNCHANGED <<channel, disk, lost, faults, clock>>
  BY <1>1 DEF diskVars
<1>3. ~running
  BY <1>1 DEF IInv, LoopInv, RunHasReader
<1>4. CASE CannotStart /\ prompt' \in {prompt, None}
  <2>1. error' = TRUE /\ UNCHANGED <<running, timers, worker, childVars,
                                     runs>>
    BY <1>4 DEF CannotStart, workerVars
  <2>2. TypeOK'
    BY <1>2, <1>4, <2>1, ChildKept DEF IInv, TypeOK
  <2>3. LoopInv' /\ OutcomeMatchesSidecar'
    BY <1>2, <1>3, <1>4, <2>1, IdleHasNoWorker
       DEF IInv, LoopInv, RunHasReader, PromptIsCurrent,
           OutcomeMatchesSidecar
  <2> QED
    BY <1>2, <2>1, <2>2, <2>3, WorkerUntouched DEF IInv
<1>5. CASE prompt' = None /\ (Launch(FreshWorker)
                               \/ Launch(ResumedWorker(prompt)))
  BY <1>1, <1>3, <1>5, LaunchKeepsInv
<1> QED
  BY <1>4, <1>5 DEF ResumeAccepted, ResumeDeclined, StartFresh

(* A handle is dropped when its worker has reported or returned            *)
(* (handle_codex_poll_tick). *)
LEMMA PollKeepsInv ==
  ASSUME IInv, CodexPollTick
  PROVE  IInv'
<1>1. UNCHANGED <<prompt, worker, childVars, disk, lost, faults, clock,
                  runs>>
  BY DEF CodexPollTick, workerVars, diskVars
<1>2. timers \in Nat /\ timers > 0
  BY DEF CodexPollTick, IInv, TypeOK
<1>3. CASE running /\ (channel # None \/ worker = None)
  <2>1. /\ running' = FALSE /\ channel' = None /\ timers' = timers - 1
        /\ error' = (channel = None \/ ~channel.success)
    BY <1>3 DEF CodexPollTick
  <2>2. error' \in BOOLEAN /\ running' \in BOOLEAN
    BY <2>1
  <2>3. TypeOK'
    BY <1>1, <1>2, <2>1, <2>2, ChildKept DEF IInv, TypeOK
  <2>4. worker = None /\ prompt = None
    BY <1>3 DEF IInv, LoopInv, RunHasReader
  <2>5. LoopInv' /\ OutcomeMatchesSidecar'
    BY <1>1, <2>1, <2>4
       DEF LoopInv, RunHasReader, PromptIsCurrent, OutcomeMatchesSidecar
  <2> QED
    BY <1>1, <2>3, <2>5, WorkerUntouched DEF IInv
<1>4. CASE running /\ channel = None /\ worker # None
  <2>1. UNCHANGED <<running, error, channel, timers>>
    BY <1>4 DEF CodexPollTick
  <2>2. TypeOK'
    BY <1>1, <2>1, ChildKept DEF IInv, TypeOK
  <2>3. LoopInv' /\ OutcomeMatchesSidecar'
    BY <1>1, <1>4, <2>1
       DEF IInv, LoopInv, RunHasReader, PromptIsCurrent,
           OutcomeMatchesSidecar
  <2> QED
    BY <1>1, <2>2, <2>3, WorkerUntouched DEF IInv
<1>5. CASE ~running
  <2>1. timers' = timers - 1 /\ UNCHANGED <<running, error, channel>>
    BY <1>5 DEF CodexPollTick
  <2>2. TypeOK'
    BY <1>1, <1>2, <2>1, ChildKept DEF IInv, TypeOK
  <2>3. LoopInv' /\ OutcomeMatchesSidecar'
    BY <1>1, <1>5, <2>1, IdleHasNoWorker
       DEF IInv, LoopInv, RunHasReader, PromptIsCurrent,
           OutcomeMatchesSidecar
  <2> QED
    BY <1>1, <2>2, <2>3, WorkerUntouched DEF IInv
<1> QED
  BY <1>3, <1>4, <1>5

(* The child and the clock have no part in this; a restart leaves nothing  *)
(* but the records, of which it may tear one.                              *)
LEMMA WorldKeepsInv ==
  ASSUME IInv,
         ChildExits \/ OutputCloses \/ StderrCloses \/ Restart
           \/ SecondPasses \/ UNCHANGED vars
  PROVE  IInv'
<1>1. CASE ChildExits \/ OutputCloses \/ StderrCloses \/ UNCHANGED vars
  <2>1. UNCHANGED <<running, prompt, timers, error, channel, worker, disk,
                    lost, faults, clock, runs>>
    BY <1>1 DEF ChildExits, OutputCloses, StderrCloses, vars, tuiVars,
                diskVars, workerVars
  <2>2. ChildOK'
    BY <1>1, ChildKept
       DEF ChildExits, OutputCloses, StderrCloses, vars, workerVars, ChildOK,
           ChildStates, IInv, TypeOK
  <2>3. TypeOK'
    BY <2>1, <2>2, ChildKept DEF IInv, TypeOK
  <2>4. LoopInv' /\ OutcomeMatchesSidecar'
    BY <2>1 DEF IInv, LoopInv, RunHasReader, PromptIsCurrent,
                OutcomeMatchesSidecar, Recorded
  <2> QED
    BY <2>1, <2>3, <2>4, WorkerUntouched DEF IInv
<1>2. CASE SecondPasses
  <2>1. /\ UNCHANGED <<running, prompt, timers, error, channel, worker,
                       childVars, disk, lost, faults, runs>>
        /\ clock < MaxSeconds /\ clock' = clock + 1
    BY <1>2 DEF SecondPasses, tuiVars, diskVars, workerVars
  <2>2. clock' \in Files /\ clock' \in Nat
    BY <2>1, CodexSessionAssumption
       DEF CodexSessionAssumption, IInv, DiskInv, Files
  <2>3. TypeOK'
    BY <2>1, <2>2, ChildKept DEF IInv, TypeOK
  <2>4. LoopInv' /\ OutcomeMatchesSidecar'
    BY <2>1 DEF IInv, LoopInv, RunHasReader, PromptIsCurrent,
                OutcomeMatchesSidecar, Recorded
  <2>5. DiskInv' /\ WorkerInv'
    BY <2>1, <2>2
       DEF IInv, DiskInv, WorkerInv, BeginningInv, RecordInv, EndInv,
           Recorded
  <2> QED
    BY <2>3, <2>4, <2>5 DEF IInv
<1>3. CASE Restart
  <2>1. /\ running' = FALSE /\ prompt' = None /\ timers' = 0 /\ error' = FALSE
        /\ channel' = None /\ worker' = None /\ ChildForgotten
        /\ UNCHANGED <<clock, runs, faults>>
    BY <1>3 DEF Restart
  <2>2. /\ disk' \in [Files -> Sidecar \cup {None, Torn}]
        /\ lost' \subseteq Files
        /\ \A f \in Files : disk'[f] \in {disk[f], Torn}
    <3>1. CASE UNCHANGED <<disk, lost>>
      BY <3>1 DEF IInv, TypeOK
    <3>2. CASE /\ worker # None
               /\ disk' = [disk EXCEPT ![worker.file] = Torn]
               /\ lost' = lost \cup {worker.file}
      <4>1. worker.file \in Files
        BY <3>2 DEF IInv, TypeOK, Worker
      <4> QED
        BY <3>2, <4>1 DEF IInv, TypeOK
    <3> QED
      BY <1>3, <3>1, <3>2 DEF Restart
  <2>3. TypeOK'
    BY <2>1, <2>2, ChildKept DEF IInv, TypeOK
  <2>4. LoopInv' /\ OutcomeMatchesSidecar' /\ WorkerInv'
    BY <2>1 DEF LoopInv, RunHasReader, PromptIsCurrent,
                OutcomeMatchesSidecar, WorkerInv, BeginningInv, RecordInv,
                EndInv
  <2>5. DiskInv'
    BY <2>1, <2>2 DEF IInv, DiskInv, Recorded
  <2> QED
    BY <2>3, <2>4, <2>5 DEF IInv
<1> QED
  BY <1>1, <1>2, <1>3

---------------------------------------------------------------------------
(* A write changes one sidecar, to what is written unless it is lost       *)
(* (write_sidecar). *)
LEMMA WriteStep ==
  ASSUME IInv, worker # None, NEW sidecar \in Sidecar, Write(sidecar)
  PROVE  /\ worker.file \in Files
         /\ disk' \in [Files -> Sidecar \cup {None, Torn}]
         /\ lost' \subseteq Files /\ faults' \in Nat
         /\ \A f \in Files \ {worker.file} : disk'[f] = disk[f]
         /\ disk'[worker.file] \in {sidecar, disk[worker.file], Torn}
         /\ worker.file \notin lost' => disk'[worker.file] = sidecar
<1>1. /\ worker.file \in Files
      /\ disk \in [Files -> Sidecar \cup {None, Torn}]
      /\ lost \subseteq Files /\ faults \in Nat
  BY DEF IInv, TypeOK, Worker
<1>2. CASE WriteSucceeds(sidecar)
  BY <1>1, <1>2 DEF WriteSucceeds
<1>3. CASE WriteFails
  <2>1. lost' = lost \cup {worker.file} /\ faults' = faults + 1
    BY <1>3 DEF WriteFails
  <2>2. disk' = disk \/ disk' = [disk EXCEPT ![worker.file] = Torn]
    BY <1>3 DEF WriteFails
  <2>3. faults' \in Nat /\ lost' \subseteq Files /\ worker.file \in lost'
    BY <1>1, <2>1
  <2>4. CASE disk' = disk
    BY <1>1, <2>3, <2>4
  <2>5. CASE disk' = [disk EXCEPT ![worker.file] = Torn]
    BY <1>1, <2>3, <2>5
  <2> QED
    BY <2>2, <2>4, <2>5
<1> QED
  BY <1>2, <1>3 DEF Write

(* As long as there is a worker the loop waits for it, and what is left to *)
(* prove of a step is about the worker and its files.                      *)
LEMMA WorkerMoves ==
  ASSUME IInv, worker # None, worker' \in Worker,
         UNCHANGED <<tuiVars, channel, clock, runs>>,
         ChildOK',
         disk' \in [Files -> Sidecar \cup {None, Torn}],
         lost' \subseteq Files, faults' \in Nat,
         \A f \in Files : Recorded(disk'[f]) => disk'[f].startedAt <= runs,
         WorkerInv'
  PROVE  IInv'
<1>1. UNCHANGED <<running, prompt, timers, error, channel, clock, runs>>
  BY DEF tuiVars
<1>2. running /\ channel = None /\ prompt = None /\ timers > 0
  BY DEF IInv, LoopInv, RunHasReader
<1>3. TypeOK'
  BY <1>1 DEF IInv, TypeOK
<1>4. LoopInv' /\ OutcomeMatchesSidecar'
  BY <1>1, <1>2
     DEF LoopInv, RunHasReader, PromptIsCurrent, OutcomeMatchesSidecar
<1>5. DiskInv'
  BY <1>1 DEF IInv, DiskInv, Recorded
<1> QED
  BY <1>3, <1>4, <1>5 DEF IInv

LEMMA WorkerLeaves ==
  ASSUME IInv, worker # None, worker' = None, ChildForgotten,
         channel' \in Finished \cup {None},
         UNCHANGED <<tuiVars, clock, runs>>,
         disk' \in [Files -> Sidecar \cup {None, Torn}],
         lost' \subseteq Files, faults' \in Nat,
         \A f \in Files : Recorded(disk'[f]) => disk'[f].startedAt <= runs,
         OutcomeMatchesSidecar'
  PROVE  IInv'
<1>1. UNCHANGED <<running, prompt, timers, error, clock, runs>>
  BY DEF tuiVars
<1>2. running /\ prompt = None /\ timers > 0
  BY DEF IInv, LoopInv, RunHasReader
<1>3. TypeOK'
  BY <1>1, ChildKept DEF IInv, TypeOK
<1>4. LoopInv' /\ WorkerInv'
  BY <1>1, <1>2
     DEF LoopInv, RunHasReader, PromptIsCurrent, WorkerInv, BeginningInv,
         RecordInv, EndInv
<1>5. DiskInv'
  BY <1>1 DEF IInv, DiskInv, Recorded
<1> QED
  BY <1>3, <1>4, <1>5 DEF IInv

(* A run that gives up before it wrote anything reports a failure; the     *)
(* records on disk are older ones (create_transcript, reopen_transcript,   *)
(* prepare_resume). *)
LEMMA GivesUp ==
  ASSUME IInv, worker # None, worker.stage \in Beginning,
         SendFinished(FALSE), UNCHANGED <<tuiVars, clock, runs>>,
         UNCHANGED diskVars \/ WriteFails
  PROVE  IInv'
<1>1. worker.file \in Files /\ runs \in Nat /\ faults \in Nat
      /\ disk \in [Files -> Sidecar \cup {None, Torn}] /\ lost \subseteq Files
  BY DEF IInv, TypeOK, Worker
<1>2. /\ channel' = [file |-> worker.file, success |-> FALSE]
      /\ worker' = None /\ ChildForgotten
  BY DEF SendFinished
<1>3. /\ channel' \in Finished /\ channel'.file = worker.file
  BY <1>1, <1>2 DEF Finished
<1>4. \/ UNCHANGED <<disk, lost, faults>>
      \/ /\ faults' = faults + 1 /\ lost' = lost \cup {worker.file}
         /\ disk' = disk \/ disk' = [disk EXCEPT ![worker.file] = Torn]
  BY DEF diskVars, WriteFails
<1>5. /\ disk' \in [Files -> Sidecar \cup {None, Torn}]
      /\ lost' \subseteq Files /\ faults' \in Nat
      /\ \A f \in Files : disk'[f] \in {disk[f], Torn}
      /\ worker.file \notin lost' => disk' = disk
  BY <1>1, <1>4
<1>6. \A f \in Files : Recorded(disk'[f]) =>
        /\ disk'[f].startedAt <= runs
        /\ disk'[f].startedAt # runs
  <2>1. ASSUME NEW f \in Files, Recorded(disk[f])
        PROVE  disk[f].startedAt <= runs /\ disk[f].startedAt # runs
    <3>1. disk[f].startedAt \in Nat /\ disk[f].startedAt < runs
      BY <2>1, RecordedIsSidecar
         DEF IInv, WorkerInv, BeginningInv, Sidecar
    <3> QED
      BY <1>1, <3>1
  <2> QED
    BY <1>5, <2>1 DEF Recorded
<1>7. OutcomeMatchesSidecar'
  BY <1>1, <1>3, <1>6 DEF OutcomeMatchesSidecar, Recorded, tuiVars
<1> QED
  BY <1>2, <1>3, <1>5, <1>6, <1>7, WorkerLeaves

---------------------------------------------------------------------------
(* Steps of the worker that write nothing: what remains is what they make  *)
(* of the worker.                                                          *)
Quiet ==
  /\ worker # None
  /\ UNCHANGED <<tuiVars, channel, disk, lost, clock, runs>>
  /\ ChildOK' /\ faults' \in Nat

LEMMA QuietStep ==
  ASSUME IInv, Quiet, worker' \in Worker, WorkerInv'
  PROVE  IInv'
<1>1. /\ disk' = disk /\ lost' = lost
      /\ disk \in [Files -> Sidecar \cup {None, Torn}] /\ lost \subseteq Files
  BY DEF Quiet, IInv, TypeOK
<1>2. \A f \in Files : Recorded(disk'[f]) => disk'[f].startedAt <= runs
  BY <1>1 DEF IInv, DiskInv
<1> QED
  BY <1>1, <1>2, WorkerMoves DEF Quiet

(* The file is there (create_transcript, reopen_transcript). *)
LEMMA FileOpened ==
  ASSUME IInv, CreateTranscript \/ ReopenTranscript
  PROVE  IInv'
<1>1. /\ worker # None /\ worker \in Worker
      /\ worker.stage \in {"Create", "Reopen"}
      /\ UNCHANGED <<tuiVars, diskVars, clock, runs>>
  BY DEF CreateTranscript, ReopenTranscript, At, IInv, TypeOK
<1>2. CASE SendFinished(FALSE)
  BY <1>1, <1>2, GivesUp DEF Beginning
<1>3. CASE /\ \/ worker.stage = "Create" /\ Go("Announce")
              \/ worker.stage = "Reopen" /\ Go("Reannounce")
           /\ UNCHANGED <<channel, childVars>>
  <2>1. Quiet
    BY <1>1, <1>3, ChildKept DEF Quiet, diskVars, IInv, TypeOK
  <2>2. /\ worker' \in Worker
        /\ worker'.file = worker.file /\ worker'.stamp = worker.stamp
        /\ worker'.resumed = worker.resumed /\ worker'.state = worker.state
        /\ \/ worker.stage = "Create" /\ worker'.stage = "Announce"
           \/ worker.stage = "Reopen" /\ worker'.stage = "Reannounce"
    BY <1>1, <1>3 DEF Go, Worker, Stages
  <2>3. UNCHANGED <<disk, lost, runs>>
    BY <2>1 DEF Quiet
  <2>4. BeginningInv'
    BY <1>1, <2>2, <2>3
       DEF IInv, WorkerInv, BeginningInv, Beginning, Recorded
  <2>5. RecordInv' /\ EndInv'
    BY <2>2 DEF RecordInv, EndInv, Beginning, Settling
  <2> QED
    BY <2>1, <2>2, <2>4, <2>5, QuietStep DEF WorkerInv
<1> QED
  BY <1>2, <1>3 DEF CreateTranscript, ReopenTranscript, At

(* A sidecar that is written is stamped with this run. *)
LEMMA StampedWrite ==
  ASSUME IInv, worker # None, NEW sidecar \in Sidecar, Write(sidecar),
         sidecar.startedAt = runs
  PROVE  \A f \in Files : Recorded(disk'[f]) => disk'[f].startedAt <= runs
<1>1. runs \in Nat
  BY DEF IInv, TypeOK
<1>2. ASSUME NEW f \in Files, Recorded(disk'[f])
      PROVE  disk'[f].startedAt <= runs
  <2>1. CASE disk'[f] = disk[f]
    BY <1>2, <2>1 DEF IInv, DiskInv
  <2>2. CASE disk'[f] = sidecar
    BY <1>1, <2>2
  <2>3. disk'[f] # Torn
    BY <1>2 DEF Recorded
  <2> QED
    BY <2>1, <2>2, <2>3, WriteStep
<1> QED
  BY <1>2

(* The record of a run that starts is open, and stamped with it            *)
(* (write_sidecar of a fresh run, prepare_resume). *)
LEMMA RunAnnounced ==
  ASSUME IInv, AnnounceRun \/ ReannounceRun
  PROVE  IInv'
<1>1. /\ worker # None /\ worker \in Worker
      /\ worker.stage \in {"Announce", "Reannounce"}
      /\ worker.stamp = runs /\ runs \in Nat
      /\ UNCHANGED <<tuiVars, clock, runs>>
  BY DEF AnnounceRun, ReannounceRun, At, IInv, TypeOK, WorkerInv,
         BeginningInv
<1>2. CASE WriteFails /\ SendFinished(FALSE)
  BY <1>1, <1>2, GivesUp DEF Beginning
<1>3. ASSUME NEW state \in Sidecar, Write(state),
             state.startedAt = runs, state.status = "Running",
             worker' = [worker EXCEPT !.state = state, !.stage = "Spawn"],
             UNCHANGED <<channel, childVars>>
      PROVE  IInv'
  <2>1. /\ worker' \in Worker /\ worker'.file = worker.file
        /\ worker'.stamp = runs /\ worker'.resumed = worker.resumed
        /\ worker'.state = state /\ worker'.stage = "Spawn"
    BY <1>1, <1>3 DEF Worker, Stages
  <2>2. BeginningInv' /\ EndInv'
    BY <1>1, <1>3, <2>1 DEF BeginningInv, EndInv, Beginning,
                           Settling
  <2>3. RecordInv'
    BY <1>1, <1>3, <2>1, WriteStep DEF RecordInv
  <2>4. ChildOK'
    BY <1>3, ChildKept DEF IInv, TypeOK
  <2> QED
    BY <1>1, <1>3, <2>1, <2>2, <2>3, <2>4, WriteStep, StampedWrite,
       WorkerMoves DEF WorkerInv
<1>4. CASE AnnounceRun
  <2>1. /\ worker.state \in Sidecar /\ worker.state.startedAt = runs
        /\ worker.state.status = "Running" /\ worker.state.thread = None
    BY <1>4 DEF AnnounceRun, At, IInv, TypeOK, Worker, WorkerInv,
                BeginningInv
  <2>2. worker' = [worker EXCEPT !.state = worker.state, !.stage = "Spawn"]
    BY <1>1, <1>4 DEF AnnounceRun, Go, Worker
  <2> QED
    BY <1>3, <1>4, <2>1, <2>2 DEF AnnounceRun
<1>5. CASE /\ ReannounceRun /\ WriteSucceeds(Restarted)
           /\ worker' = [worker EXCEPT !.state = Restarted, !.stage = "Spawn"]
           /\ UNCHANGED <<channel, childVars>>
  <2>1. /\ Restarted \in Sidecar /\ Restarted.startedAt = runs
        /\ Restarted.status = "Running"
    BY <1>1 DEF Restarted, Worker, Sidecar, Statuses
  <2>2. worker.resumed
    BY <1>5 DEF ReannounceRun, At, IInv, WorkerInv, BeginningInv
  <2> QED
    BY <1>3, <1>5, <2>1, <2>2 DEF Write
<1> QED
  BY <1>2, <1>4, <1>5 DEF ReannounceRun

---------------------------------------------------------------------------
(* While a run is on, whatever it learns but does not write leaves its     *)
(* record open.                                                            *)
LEMMA OpenMoves ==
  ASSUME IInv, Quiet, worker' \in Worker,
         worker.stage \notin Beginning \cup Settling,
         worker'.stage \notin Beginning \cup Settling,
         worker'.file = worker.file, worker'.stamp = worker.stamp,
         worker'.state = worker.state, EndInv'
  PROVE  IInv'
<1>1. UNCHANGED <<disk, lost, runs>> /\ worker # None
  BY DEF Quiet
<1>2. BeginningInv'
  BY <1>1 DEF IInv, WorkerInv, BeginningInv, Beginning
<1>3. RecordInv'
  BY <1>1 DEF IInv, WorkerInv, RecordInv
<1> QED
  BY <1>2, <1>3, QuietStep DEF WorkerInv

(* The child starts or not, or the worker panics over the thread that      *)
(* reads its stderr (spawn_codex). *)
LEMMA ChildSpawned ==
  ASSUME IInv, SpawnCodex
  PROVE  IInv'
<1>1. /\ worker # None /\ worker \in Worker /\ worker.stage = "Spawn"
      /\ UNCHANGED <<tuiVars, channel, disk, lost, clock, runs>>
      /\ faults \in Nat /\ ChildOK
  BY DEF SpawnCodex, At, IInv, TypeOK
<1>2. CASE /\ worker' = [worker EXCEPT !.stage = "Settle",
                                       !.end.status = "Failed"]
           /\ UNCHANGED <<childVars, faults>>
  <2>1. /\ worker' \in Worker
        /\ worker'.file = worker.file /\ worker'.stamp = worker.stamp
        /\ worker'.state = worker.state
        /\ worker'.stage = "Settle" /\ worker'.end.status = "Failed"
    BY <1>1, <1>2 DEF Worker, Stages, End, Statuses
  <2>2. EndInv'
    BY <2>1 DEF EndInv, Settling, Terminal, Statuses
  <2> QED
    BY <1>1, <1>2, <2>1, <2>2, ChildKept, OpenMoves
       DEF Quiet, Beginning, Settling
<1>3. ASSUME NEW shaken \in BOOLEAN,
             worker' = [worker EXCEPT !.stage = "Stream", !.session = shaken,
                          !.thread = IF shaken THEN worker.state.thread
                                     ELSE None],
             child' = "Alive", stdout' = TRUE, stderr' = TRUE,
             UNCHANGED faults
      PROVE  IInv'
  <2>1. worker.state.thread \in Threads \cup {None}
    BY <1>1 DEF Worker, Sidecar
  <2>2. /\ worker' \in Worker
        /\ worker'.file = worker.file /\ worker'.stamp = worker.stamp
        /\ worker'.state = worker.state /\ worker'.stage = "Stream"
    BY <1>1, <1>3, <2>1 DEF Worker, Stages
  <2>3. EndInv'
    BY <2>2 DEF EndInv, Settling
  <2>4. Quiet
    BY <1>1, <1>3 DEF Quiet, ChildOK, ChildStates
  <2> QED
    BY <1>1, <2>2, <2>3, <2>4, OpenMoves DEF Beginning, Settling
<1>4. CASE /\ faults' = faults + 1
           /\ worker' = None /\ ChildForgotten
  <2>1. channel' = None
    BY <1>1 DEF IInv, LoopInv, RunHasReader
  <2>2. OutcomeMatchesSidecar'
    BY <2>1 DEF OutcomeMatchesSidecar
  <2>3. /\ disk' \in [Files -> Sidecar \cup {None, Torn}]
        /\ lost' \subseteq Files /\ faults' \in Nat
    BY <1>1, <1>4 DEF IInv, TypeOK
  <2>4. \A f \in Files : Recorded(disk'[f]) => disk'[f].startedAt <= runs
    BY <1>1 DEF IInv, DiskInv
  <2> QED
    BY <1>1, <1>4, <2>1, <2>2, <2>3, <2>4, WorkerLeaves
<1> QED
  BY <1>2, <1>3, <1>4 DEF SpawnCodex

(* The thread of a session becomes known, or the stream ends; how, tells   *)
(* the outcome unless the exit of the child will                           *)
(* (app_server.rs, stream.rs). *)
LEMMA StreamMoves ==
  ASSUME IInv, StreamStep \/ EndOfOutput
  PROVE  IInv'
<1>1. /\ worker # None /\ worker \in Worker
      /\ worker.stage \in {"Stream", "Ask"}
      /\ UNCHANGED <<tuiVars, channel, diskVars, clock, runs>>
  BY DEF StreamStep, ThreadStarted, TurnRequested, ProtocolFails,
         TurnCompleted, StreamFails, EndOfOutput, At, IInv, TypeOK
<1>2. ASSUME ChildOK'
      PROVE  Quiet
  BY <1>1, <1>2 DEF Quiet, diskVars, IInv, TypeOK
<1>3. ASSUME NEW via \in {"AppServer", "ProcessExit", "RunError"},
             NEW status \in Statuses \cup {None}, Ends(via, status),
             via # "ProcessExit" => status \in Terminal
      PROVE  IInv'
  <2>1. /\ worker' \in Worker
        /\ worker'.file = worker.file /\ worker'.stamp = worker.stamp
        /\ worker'.state = worker.state /\ worker'.stage = "Persist"
        /\ worker'.end = [via |-> via, status |-> status]
    BY <1>1, <1>3 DEF Ends, Worker, Stages, End
  <2>2. EndInv'
    BY <1>3, <2>1 DEF EndInv, Settling
  <2>3. ChildOK'
    BY <1>3 DEF Ends, ChildOK, IInv, TypeOK
  <2> QED
    BY <1>1, <1>2, <2>1, <2>2, <2>3, OpenMoves DEF Beginning, Settling
<1>4. CASE ProtocolFails \/ TurnCompleted \/ StreamFails \/ EndOfOutput
  BY <1>3, <1>4 DEF ProtocolFails, TurnCompleted, StreamFails, EndOfOutput,
                    Terminal, Statuses
<1>5. ASSUME UNCHANGED childVars, worker' \in Worker,
             worker'.file = worker.file, worker'.stamp = worker.stamp,
             worker'.state = worker.state,
             worker'.stage \in {"Stream", "Ask"}
      PROVE  IInv'
  <2>1. EndInv'
    BY <1>5 DEF EndInv, Settling
  <2>2. ChildOK'
    BY <1>5, ChildKept DEF IInv, TypeOK
  <2> QED
    BY <1>1, <1>2, <1>5, <2>1, <2>2, OpenMoves DEF Beginning, Settling
<1>6. CASE ThreadStarted
  <2>1. PICK t \in Threads :
          worker' = [worker EXCEPT !.thread = t, !.stage = "Ask"]
    BY <1>6 DEF ThreadStarted
  <2>2. /\ worker' \in Worker
        /\ worker'.file = worker.file /\ worker'.stamp = worker.stamp
        /\ worker'.state = worker.state /\ worker'.stage = "Ask"
    BY <1>1, <2>1 DEF Worker, Stages
  <2> QED
    BY <1>5, <1>6, <2>2 DEF ThreadStarted
<1>7. CASE TurnRequested
  <2>1. CASE /\ worker' = [worker EXCEPT !.turn = TRUE, !.stage = "Stream"]
             /\ UNCHANGED childVars
    <3>1. /\ worker' \in Worker
          /\ worker'.file = worker.file /\ worker'.stamp = worker.stamp
          /\ worker'.state = worker.state /\ worker'.stage = "Stream"
      BY <1>1, <2>1 DEF Worker, Stages
    <3> QED
      BY <1>5, <2>1, <3>1
  <2>2. ASSUME NEW status \in {"Interrupted", "Failed"},
               Ends("RunError", status)
        PROVE  IInv'
    BY <1>3, <2>2 DEF Terminal, Statuses
  <2> QED
    BY <1>7, <2>1, <2>2 DEF TurnRequested
<1> QED
  BY <1>4, <1>6, <1>7 DEF StreamStep

(* The exit of the child tells the outcome (complete_with_exit). *)
LEMMA ExitSeen ==
  ASSUME IInv, WaitForExit
  PROVE  IInv'
<1>1. /\ worker # None /\ worker \in Worker /\ worker.stage = "Wait"
      /\ UNCHANGED <<tuiVars, channel, childVars, diskVars, clock, runs>>
  BY DEF WaitForExit, At, IInv, TypeOK
<1>2. PICK status \in {"Completed", "Failed"} :
        worker' = [worker EXCEPT !.end.status = status, !.stage = "Settle"]
  BY DEF WaitForExit
<1>3. /\ worker' \in Worker
      /\ worker'.file = worker.file /\ worker'.stamp = worker.stamp
      /\ worker'.state = worker.state
      /\ worker'.stage = "Settle" /\ worker'.end.status = status
  BY <1>1, <1>2 DEF Worker, Stages, End, Statuses
<1>4. EndInv'
  BY <1>2, <1>3 DEF EndInv, Settling, Terminal, Statuses
<1> QED
  BY <1>1, <1>3, <1>4, ChildKept, OpenMoves
     DEF Quiet, Beginning, Settling, diskVars, IInv, TypeOK

(* Writing the record of an open run keeps it that of the run              *)
(* (capture_and_persist_thread_id, update_session_status). *)
LEMMA RecordWritten ==
  ASSUME IInv, worker # None, worker.stage \notin Beginning,
         worker' # None, worker' \in Worker,
         worker'.stage \notin Beginning,
         worker'.file = worker.file, worker'.stamp = worker.stamp,
         worker'.state.startedAt = runs,
         worker'.stage \notin Settling => worker'.state.status = "Running",
         Write(worker'.state)
           \/ (UNCHANGED diskVars /\ worker'.state = worker.state),
         UNCHANGED <<tuiVars, channel, childVars, clock, runs>>,
         EndInv'
  PROVE  IInv'
<1>1. worker'.state \in Sidecar /\ worker.stamp = runs
  BY DEF Worker, IInv, WorkerInv, BeginningInv
<1>2. BeginningInv'
  BY <1>1 DEF BeginningInv, Beginning
<1>3. ChildOK'
  BY ChildKept DEF IInv, TypeOK
<1>4. CASE Write(worker'.state)
  <2>1. RecordInv'
    BY <1>1, <1>4, WriteStep DEF RecordInv
  <2> QED
    BY <1>1, <1>2, <1>3, <1>4, <2>1, WriteStep, StampedWrite, WorkerMoves
       DEF WorkerInv
<1>5. CASE UNCHANGED diskVars /\ worker'.state = worker.state
  <2>1. UNCHANGED <<disk, lost, faults>>
    BY <1>5 DEF diskVars
  <2>2. RecordInv'
    BY <1>5, <2>1 DEF IInv, WorkerInv, RecordInv
  <2>3. Quiet
    BY <1>3, <2>1 DEF Quiet, IInv, TypeOK
  <2> QED
    BY <1>2, <2>2, <2>3, QuietStep DEF WorkerInv
<1> QED
  BY <1>4, <1>5

(* The thread is stored, and the run goes on to its end                    *)
(* (capture_and_persist_thread_id). *)
LEMMA ThreadPersisted ==
  ASSUME IInv, PersistThread
  PROVE  /\ IInv'
         /\ worker # None /\ worker' # None
         /\ worker.stage = "Persist"
         /\ UNCHANGED diskVars \/ Write(worker'.state)
         /\ worker'.state.startedAt = worker.state.startedAt
         /\ worker'.state.thread # worker.state.thread =>
              worker'.state.thread = worker.thread /\ worker.thread # None
         /\ worker'.state.status = "Running"
<1>1. /\ worker # None /\ worker \in Worker /\ worker.stage = "Persist"
      /\ UNCHANGED <<tuiVars, channel, childVars, clock, runs>>
  BY DEF PersistThread, At, IInv, TypeOK
<1> DEFINE known == worker.thread # None
           state == IF known
                      THEN [worker.state EXCEPT !.thread = worker.thread]
                      ELSE worker.state
           flushFails == IF worker.end.via = "RunError" THEN {}
                         ELSE {[via |-> "RunError", status |-> "Failed"]}
<1>2. /\ IF known THEN Write(state) ELSE UNCHANGED diskVars
      /\ \E end \in {worker.end} \cup flushFails :
           worker' = [worker EXCEPT !.state = state, !.end = end,
                                    !.stage = NextAfterStream(end)]
  BY DEF PersistThread
<1>3. PICK end \in {worker.end} \cup flushFails :
        worker' = [worker EXCEPT !.state = state, !.end = end,
                                 !.stage = NextAfterStream(end)]
  BY <1>2
<1>4. /\ worker.state \in Sidecar /\ worker.state.status = "Running"
      /\ worker.state.startedAt = runs
      /\ worker.thread \in Threads \cup {None}
  BY <1>1 DEF Worker, IInv, WorkerInv, RecordInv, Beginning,
              Settling
<1>5. /\ state \in Sidecar /\ state.status = "Running"
      /\ state.startedAt = runs
      /\ ~known => state = worker.state
      /\ known => state.thread = worker.thread
  BY <1>4 DEF Sidecar
<1> HIDE DEF state
<1>6. /\ end \in End
      /\ end.via # "ProcessExit" => end.status \in Terminal
  BY <1>1 DEF IInv, WorkerInv, EndInv, Worker, End, Statuses, Terminal
<1>7. /\ worker' \in Worker /\ worker' # None
      /\ worker'.file = worker.file /\ worker'.stamp = worker.stamp
      /\ worker'.state = state /\ worker'.end = end
      /\ worker'.stage \in {"Wait", "Settle"}
      /\ worker'.stage = "Settle" => end.via # "ProcessExit"
  <2>1. /\ NextAfterStream(end) \in {"Wait", "Settle"}
        /\ NextAfterStream(end) = "Settle" => end.via # "ProcessExit"
    BY DEF NextAfterStream
  <2>2. worker' \in Worker /\ worker'.stage = NextAfterStream(end)
    BY <1>1, <1>3, <1>5, <1>6, <2>1 DEF Worker, Stages
  <2> QED
    BY <1>1, <1>3, <2>1, <2>2, CodexSessionAssumption
       DEF CodexSessionAssumption, Worker
<1>8. EndInv'
  BY <1>6, <1>7 DEF EndInv, Settling
<1>9. Write(worker'.state)
         \/ (UNCHANGED diskVars /\ worker'.state = worker.state)
  BY <1>2, <1>5, <1>7
<1>10. IInv'
  BY <1>1, <1>5, <1>7, <1>8, <1>9, RecordWritten DEF Beginning
<1> QED
  BY <1>1, <1>4, <1>5, <1>7, <1>9, <1>10

(* The record is closed with the outcome (update_session_status). *)
LEMMA RunSettled ==
  ASSUME IInv, Settle
  PROVE  /\ IInv'
         /\ worker # None /\ worker' # None
         /\ worker.stage = "Settle"
         /\ Write(worker'.state)
         /\ worker'.state.startedAt = worker.state.startedAt
         /\ worker.state.thread = worker'.state.thread
<1>1. /\ worker # None /\ worker \in Worker /\ worker.stage = "Settle"
      /\ Write(Settled)
      /\ worker' = [worker EXCEPT !.state = Settled, !.stage = AfterSettling]
      /\ UNCHANGED <<tuiVars, channel, childVars, clock, runs>>
  BY DEF Settle, At, IInv, TypeOK
<1>2. /\ worker.state \in Sidecar /\ worker.state.startedAt = runs
      /\ worker.end.status \in Terminal
  BY <1>1 DEF Worker, IInv, WorkerInv, RecordInv, EndInv, Beginning
<1>3. /\ Settled \in Sidecar /\ Settled.startedAt = runs
      /\ Settled.status = worker.end.status
      /\ Settled.thread = worker.state.thread
  BY <1>2 DEF Settled, Sidecar, Terminal
<1>4. /\ worker' \in Worker /\ worker' # None
      /\ worker'.file = worker.file /\ worker'.stamp = worker.stamp
      /\ worker'.state = Settled /\ worker'.end = worker.end
      /\ worker'.stage \in Settling
  <2>1. worker' \in Worker
    BY <1>1, <1>3 DEF Worker, Stages, AfterSettling
  <2>2. /\ worker'.file = worker.file /\ worker'.stamp = worker.stamp
        /\ worker'.state = Settled /\ worker'.end = worker.end
        /\ worker'.stage \in Settling
    BY <1>1 DEF Worker, AfterSettling, Settling
  <2> QED
    BY <2>1, <2>2, CodexSessionAssumption DEF CodexSessionAssumption
<1>5. EndInv'
  BY <1>2, <1>3, <1>4 DEF EndInv, Settling
<1>6. IInv'
  BY <1>1, <1>3, <1>4, <1>5, RecordWritten DEF Beginning, Settling
<1> QED
  BY <1>1, <1>2, <1>3, <1>4, <1>6

(* The child is killed, or has exited (terminate_child). *)
LEMMA ChildTerminated ==
  ASSUME IInv, Terminate
  PROVE  IInv'
<1>1. /\ worker # None /\ worker \in Worker /\ worker.stage = "Terminate"
      /\ child' = IF child = "Alive" THEN "Failed" ELSE child
      /\ worker' = [worker EXCEPT !.stage = "Report"]
      /\ UNCHANGED <<tuiVars, channel, stdout, stderr, diskVars, clock, runs>>
  BY DEF Terminate, At, Go, IInv, TypeOK
<1>2. Quiet
  <2>1. ChildOK'
    BY <1>1 DEF ChildOK, ChildStates, IInv, TypeOK
  <2> QED
    BY <1>1, <2>1 DEF Quiet, diskVars, IInv, TypeOK
<1>3. /\ worker' \in Worker
      /\ worker'.file = worker.file /\ worker'.stamp = worker.stamp
      /\ worker'.state = worker.state /\ worker'.end = worker.end
      /\ worker'.stage = "Report"
  BY <1>1 DEF Worker, Stages
<1>4. BeginningInv' /\ RecordInv' /\ EndInv'
  <2>1. UNCHANGED <<disk, lost, runs>>
    BY <1>2 DEF Quiet
  <2> QED
    BY <1>1, <1>3, <2>1
       DEF IInv, WorkerInv, BeginningInv, RecordInv, EndInv, Beginning,
           Settling
<1> QED
  BY <1>2, <1>3, <1>4, QuietStep DEF WorkerInv

(* What is reported is what was recorded (finalize). *)
LEMMA RunReported ==
  ASSUME IInv, Report
  PROVE  IInv'
<1>1. /\ worker # None /\ worker \in Worker /\ worker.stage = "Report"
      /\ SendFinished(worker.end.status = "Completed")
      /\ UNCHANGED <<tuiVars, diskVars, clock, runs>>
  BY DEF Report, At, IInv, TypeOK
<1>2. /\ worker.end.status \in Terminal
      /\ worker.state.status = worker.end.status
      /\ worker.file \notin lost => disk[worker.file] = worker.state
      /\ worker.file \in Files
  BY <1>1 DEF IInv, WorkerInv, RecordInv, EndInv, Beginning,
              Settling, Worker
<1>3. /\ worker' = None /\ ChildForgotten
      /\ channel' = [file |-> worker.file,
                     success |-> (worker.end.status = "Completed")]
      /\ UNCHANGED <<disk, lost, faults, runs>>
  BY <1>1 DEF SendFinished, diskVars
<1>4. /\ channel' \in Finished /\ channel'.file = worker.file
      /\ channel'.success <=> worker.end.status = "Completed"
  <2>1. (worker.end.status = "Completed") \in BOOLEAN
    OBVIOUS
  <2> QED
    BY <1>2, <1>3, <2>1 DEF Finished
<1>5. OutcomeMatchesSidecar'
  <2>1. ASSUME worker.file \notin lost
        PROVE  /\ disk[worker.file].status # "Running"
               /\ channel'.success <=> disk[worker.file].status = "Completed"
    BY <1>2, <1>4, <2>1 DEF Terminal
  <2> QED
    BY <1>3, <1>4, <2>1 DEF OutcomeMatchesSidecar
<1>6. /\ disk' \in [Files -> Sidecar \cup {None, Torn}]
      /\ lost' \subseteq Files /\ faults' \in Nat
      /\ \A f \in Files : Recorded(disk'[f]) => disk'[f].startedAt <= runs
  <2>1. /\ disk' \in [Files -> Sidecar \cup {None, Torn}]
        /\ lost' \subseteq Files /\ faults' \in Nat
    BY <1>3 DEF IInv, TypeOK
  <2>2. \A f \in Files : Recorded(disk'[f]) => disk'[f].startedAt <= runs
    BY <1>3 DEF IInv, DiskInv
  <2> QED
    BY <2>1, <2>2
<1> QED
  BY <1>1, <1>3, <1>4, <1>5, <1>6, WorkerLeaves

LEMMA StepKeepsInv ==
  ASSUME IInv, [Next]_vars
  PROVE  IInv'
<1>1. CASE WorkerStep
  BY <1>1, FileOpened, RunAnnounced, ChildSpawned, StreamMoves,
     ThreadPersisted, ExitSeen, RunSettled, ChildTerminated, RunReported
     DEF WorkerStep
<1> QED
  BY <1>1, StartKeepsInv, AnswerKeepsInv, PollKeepsInv, StreamMoves,
     WorldKeepsInv DEF Next

(* The types, what a run has recorded, and what the update loop holds      *)
(* always fit together (codex_handlers.rs, codex_process/). *)
THEOREM CodexInvariant == Spec => []IInv
<1>1. IInv /\ [Next]_vars => IInv'
  BY StepKeepsInv
<1> QED
  BY InvInit, <1>1, PTL DEF Spec

(* A prompt offers what is on disk: an interrupted session with a thread,  *)
(* that nothing writes to any more (find_interrupted_session). *)
THEOREM PromptSafety == Spec => []PromptIsCurrent
<1>1. IInv => PromptIsCurrent
  BY DEF IInv, LoopInv
<1> QED
  BY CodexInvariant, <1>1, PTL

(* There is one run at a time, its channel is polled, and no prompt could  *)
(* start another beside it (handle_codex_poll_tick). *)
THEOREM ReaderSafety == Spec => []RunHasReader
<1>1. IInv => RunHasReader
  BY DEF IInv, LoopInv
<1> QED
  BY CodexInvariant, <1>1, PTL

(* The outcome the user is told is that of the sidecar, unless writing it  *)
(* failed (finalize, run_stream_with_context). *)
THEOREM OutcomeSafety == Spec => []OutcomeMatchesSidecar
<1>1. IInv => OutcomeMatchesSidecar
  BY DEF IInv
<1> QED
  BY CodexInvariant, <1>1, PTL

---------------------------------------------------------------------------
(* A sidecar only moves along its life cycle: open, closed once, and only  *)
(* an interrupted one opened again, with its thread.  A thread changes only*)
(* in an open record, to the one the server named in that run, and is never*)
(* forgotten within a run (write_sidecar, capture_and_persist_thread_id,   *)
(* update_session_status, prepare_session_for_resume). *)
THEOREM LifeCycleSafety == Spec => SidecarLifeCycle
<1> DEFINE Moves(f) ==
      LET old == disk[f]
          new == disk'[f]
      IN Recorded(old) /\ Recorded(new) /\ new # old /\ f \notin lost =>
           IF new.startedAt = old.startedAt
             THEN /\ old.status = "Running"
                  /\ \/ new.thread = old.thread
                     \/ /\ new.thread = worker.thread /\ new.thread # None
                        /\ new.status = "Running"
             ELSE /\ new.startedAt > old.startedAt
                  /\ new.status = "Running"
                  /\ IF worker.resumed
                       THEN old.status = "Interrupted" /\ old.thread = new.thread
                       ELSE new.thread = None
<1>1. ASSUME IInv, [Next]_vars, NEW f \in Files,
             Recorded(disk[f]), Recorded(disk'[f]), disk'[f] # disk[f],
             f \notin lost
      PROVE  Moves(f)
  <2>1. runs \in Nat /\ disk[f].startedAt \in Nat
    BY <1>1, RecordedIsSidecar DEF IInv, TypeOK, Sidecar
  (* Only a write makes a record another one. *)
  <2>2. ASSUME NEW sidecar \in Sidecar, Write(sidecar), worker # None
        PROVE  f = worker.file /\ disk'[f] = sidecar
    BY <1>1, <2>2, WriteStep DEF Recorded
  <2>3. CASE AnnounceRun
    <3>1. /\ worker # None /\ worker.stage = "Announce"
          /\ Write(worker.state)
      BY <2>3 DEF AnnounceRun, At
    <3>2. /\ worker.state \in Sidecar /\ worker.state.status = "Running"
          /\ worker.state.thread = None /\ worker.state.startedAt = runs
          /\ ~worker.resumed /\ disk[f].startedAt < runs
      BY <1>1, <3>1
         DEF IInv, TypeOK, Worker, WorkerInv, BeginningInv, Beginning
    <3>3. disk'[f] = worker.state
      BY <2>2, <3>1, <3>2
    <3> QED
      BY <2>1, <3>2, <3>3
  <2>4. CASE ReannounceRun
    <3>1. /\ worker # None /\ worker.stage = "Reannounce"
          /\ WriteSucceeds(Restarted) \/ WriteFails
      BY <2>4 DEF ReannounceRun, At
    <3>2. Write(Restarted)
      BY <3>1 DEF Write
    <3>3. /\ worker.resumed /\ worker.state.status = "Interrupted"
          /\ disk[worker.file] = worker.state /\ worker.stamp = runs
          /\ disk[f].startedAt < runs /\ worker.state \in Sidecar
      BY <1>1, <3>1
         DEF IInv, TypeOK, Worker, WorkerInv, BeginningInv, Beginning
    <3>4. /\ Restarted \in Sidecar /\ Restarted.status = "Running"
          /\ Restarted.startedAt = runs
          /\ Restarted.thread = worker.state.thread
      BY <2>1, <3>3 DEF Restarted, Sidecar, Statuses
    <3>5. f = worker.file /\ disk'[f] = Restarted
      BY <2>2, <3>1, <3>2, <3>4
    <3> QED
      BY <2>1, <3>3, <3>4, <3>5
  <2>5. ASSUME worker # None, worker.stage \in {"Persist", "Settle"},
               worker' # None, worker' \in Worker,
               UNCHANGED diskVars \/ Write(worker'.state),
               worker'.state.startedAt = worker.state.startedAt,
               \/ worker'.state.thread = worker.state.thread
               \/ /\ worker'.state.thread = worker.thread
                  /\ worker.thread # None
                  /\ worker'.state.status = "Running"
        PROVE  Moves(f)
    <3>1. Write(worker'.state)
      BY <1>1, <2>5 DEF diskVars
    <3>2. f = worker.file /\ disk'[f] = worker'.state
      BY <2>2, <2>5, <3>1 DEF Worker
    <3>3. disk[f] = worker.state /\ worker.state.status = "Running"
      BY <1>1, <2>5, <3>2 DEF IInv, WorkerInv, RecordInv, Beginning,
             Settling
    <3> QED
      BY <2>5, <3>2, <3>3
  <2>6. CASE PersistThread
    <3>1. worker' \in Worker
      BY <1>1, <2>6, ThreadPersisted DEF IInv, TypeOK
    <3> QED
      BY <1>1, <2>5, <2>6, <3>1, ThreadPersisted
  <2>7. CASE Settle
    <3>1. worker' \in Worker
      BY <1>1, <2>7, RunSettled DEF IInv, TypeOK
    <3> QED
      BY <1>1, <2>5, <2>7, <3>1, RunSettled
  <2>8. CASE Restart
    <3>1. disk' = disk \/ disk' = [disk EXCEPT ![worker.file] = Torn]
      BY <2>8 DEF Restart
    <3>2. disk'[f] \in {disk[f], Torn}
      BY <1>1, <3>1 DEF IInv, TypeOK
    <3> QED
      BY <1>1, <3>2 DEF Recorded
  <2>9. CASE ~(AnnounceRun \/ ReannounceRun \/ PersistThread \/ Settle
               \/ Restart)
    <3>1. UNCHANGED disk
      BY <1>1, <2>9
         DEF Next, WorkerStep, StartCodexExecution, ResumeAccepted,
             ResumeDeclined, CodexPollTick, CreateTranscript,
             ReopenTranscript, SpawnCodex, StreamStep, ThreadStarted,
             TurnRequested, ProtocolFails, TurnCompleted, StreamFails,
             EndOfOutput, WaitForExit, Terminate, Report,
             ChildExits, OutputCloses, StderrCloses, SecondPasses, vars, diskVars
    <3> QED
      BY <1>1, <3>1
  <2> QED
    BY <2>3, <2>4, <2>6, <2>7, <2>8, <2>9
<1>2. ASSUME IInv, [Next]_vars
      PROVE  \A f \in Files : Moves(f)
  BY <1>1, <1>2
<1>3. IInv /\ [Next]_vars => [\A f \in Files : Moves(f)]_vars
  BY <1>2
<1> QED
  BY CodexInvariant, <1>3, PTL DEF Spec, SidecarLifeCycle
=============================================================================
