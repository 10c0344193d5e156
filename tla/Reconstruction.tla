--------------------------- MODULE Reconstruction ---------------------------
(***************************************************************************)
(* The scene reconstruction job (packages/reconstruction/colmap.py): one   *)
(* background task per process that takes a video through the stages of    *)
(* COLMAP, a status in memory, and its copy in status.json.                *)
(*                                                                         *)
(* The tools are external: a stage ends well, or raises.  The status file  *)
(* is written in place, so the death of the process or an error of the     *)
(* file system can leave it as it was, or unreadable.  Run ids are the     *)
(* starting times of the runs and are taken to be distinct.                *)
(***************************************************************************)
EXTENDS Naturals, Sequences

CONSTANTS
    Videos,
    MaxRuns,      \* bound on jobs started
    MaxCrashes,   \* bound on crashes and shutdowns
    MaxErrors     \* bound on errors of the file system and failures without a message

ASSUME ReconstructionAssumption ==
    MaxRuns \in Nat /\ MaxCrashes \in Nat /\ MaxErrors \in Nat

VARIABLES
    up,          \* the process runs
    binary,      \* COLMAP is installed
    status,      \* _status: [phase, run, video, ready, model]
    file,        \* status.json: such a record, or Unreadable
    job,         \* _task: [stage, video]; stage "none" when there is none or it is done
    models,      \* point clouds on disk: [run, video] they were made in and from
    runs, crashes, errors,
    silent,      \* a job of this process ended without a word (history)
    wanted,      \* videos uploaded since the last crash (history)
    tried        \* videos a job was started for (history)

bounds == <<runs, crashes, errors>>
history == <<silent, wanted, tried>>
vars == <<up, binary, status, file, job, models, bounds, history>>

NoVideo == "none"
Unreadable == [phase |-> "unreadable"]
NoModel == [run |-> 0, video |-> NoVideo]
Initial ==
    [phase |-> "idle", run |-> 0, video |-> NoVideo, ready |-> FALSE, model |-> NoModel]
NoJob == [stage |-> "none", video |-> NoVideo]

\* The stages of _run, each with the phase shown while it lasts.
Stages == <<"extracting", "features", "matching", "mapping", "exporting">>
ActivePhases == {Stages[i] : i \in 1..Len(Stages)}
After(stage) ==
    Stages[CHOOSE i \in 2..Len(Stages) : Stages[i - 1] = stage]

Running == job.stage # "none"

Init ==
    /\ up = TRUE /\ binary \in BOOLEAN
    /\ status = Initial /\ file = Unreadable
    /\ job = NoJob /\ models = {}
    /\ runs = 0 /\ crashes = 0 /\ errors = 0
    /\ silent = FALSE /\ wanted = {} /\ tried = {}

\* _update: memory, then the file.
Update(new) == status' = new /\ file' = new

FileError == errors < MaxErrors /\ errors' = errors + 1

\* An error of the file system, after memory has changed: before the file is
\* opened, or while it is written.
UpdateUnsaved(new) ==
    /\ FileError
    /\ status' = new /\ file' \in {file, Unreadable}

-----------------------------------------------------------------------------
(* start, called by the route and after every upload *)

MayStart == ~Running

StartJob(v) ==
    /\ up /\ MayStart /\ binary /\ runs < MaxRuns
    /\ job' = [stage |-> "begin", video |-> v]
    /\ runs' = runs + 1
    /\ tried' = tried \cup {v} /\ wanted' = wanted \cup {v}
    /\ UNCHANGED <<up, binary, status, file, models, crashes, errors, silent>>

\* While a job runs the call returns its status and nothing else happens.
StartIgnored(v) ==
    /\ up /\ ~MayStart
    /\ wanted' = wanted \cup {v}
    /\ UNCHANGED <<up, binary, status, file, job, models, bounds, silent, tried>>

\* Mutant: a missing binary clears the status.
UnavailableAfresh ==
    /\ up /\ MayStart /\ ~binary
    /\ Update([Initial EXCEPT !.phase = "unavailable"])
    /\ UNCHANGED <<up, binary, job, models, bounds, history>>

StartUnavailable ==
    /\ up /\ MayStart /\ ~binary
    /\ LET new == [status EXCEPT !.phase = "unavailable"]
       IN  \/ Update(new) /\ UNCHANGED errors
           \/ UpdateUnsaved(new)
    /\ UNCHANGED <<up, binary, job, models, runs, crashes, history>>

BinaryChanges ==
    /\ binary' = ~binary
    /\ UNCHANGED <<up, status, file, job, models, bounds, history>>

-----------------------------------------------------------------------------
(* _run *)

\* Mutant: the name of the video is not brought up to date.
BegunUnnamed == [status EXCEPT !.phase = "extracting", !.run = runs, !.ready = FALSE]

Begun ==
    [status EXCEPT !.phase = "extracting", !.run = runs, !.video = job.video, !.ready = FALSE]

\* Workspace and first status, before the handlers of the job are in place:
\* an error here, in making the directories or in writing the file, ends the
\* job and is reported nowhere.
BeginJob ==
    /\ up /\ job.stage = "begin"
    /\ \/ Update(Begun) /\ job' = [job EXCEPT !.stage = "extracting"] /\ UNCHANGED <<errors, silent>>
       \/ /\ UpdateUnsaved(Begun) \/ (FileError /\ UNCHANGED <<status, file>>)
          /\ job' = NoJob /\ silent' = TRUE
    /\ UNCHANGED <<up, binary, models, runs, crashes, wanted, tried>>

\* _extract_frames or a run of COLMAP succeeds.
StageSucceeds ==
    /\ up /\ job.stage \in ActivePhases \ {"exporting"}
    /\ Update([status EXCEPT !.phase = After(job.stage)])
    /\ job' = [job EXCEPT !.stage = After(job.stage)]
    /\ UNCHANGED <<up, binary, models, bounds, history>>

\* What the job makes: its directory is named for its run and its video.
Made == [run |-> runs, video |-> job.video]

\* The last stage leaves a point cloud that is not empty.
Exported ==
    /\ up /\ job.stage = "exporting"
    /\ models' = models \cup {Made}
    /\ Update([status EXCEPT !.phase = "complete", !.ready = TRUE, !.model = Made])
    /\ job' = NoJob
    /\ UNCHANGED <<up, binary, bounds, history>>

Failed == [status EXCEPT !.phase = "failed", !.ready = FALSE]

JobFails ==
    /\ up /\ job.stage \in ActivePhases
    /\ \/ Update(Failed) /\ UNCHANGED errors
       \/ UpdateUnsaved(Failed)
    /\ job' = NoJob
    /\ UNCHANGED <<up, binary, models, runs, crashes, history>>

\* The handler takes the last line of the message; where there is none it
\* raises itself.
JobFailsSilently ==
    /\ up /\ job.stage \in ActivePhases
    /\ errors < MaxErrors /\ errors' = errors + 1
    /\ job' = NoJob /\ silent' = TRUE
    /\ UNCHANGED <<up, binary, status, file, models, runs, crashes, wanted, tried>>

Work == BeginJob \/ StageSucceeds \/ Exported \/ JobFails \/ JobFailsSilently

-----------------------------------------------------------------------------
(* The life of the process *)

Down ==
    /\ up /\ crashes < MaxCrashes /\ crashes' = crashes + 1
    /\ up' = FALSE /\ job' = NoJob
    /\ silent' = FALSE /\ wanted' = {}
    /\ UNCHANGED <<binary, models, runs, errors, tried>>

\* shutdown cancels the job, which says so; before its first status there is
\* nothing to say.
Shutdown ==
    /\ Down
    /\ IF job.stage \in ActivePhases
       THEN Update([status EXCEPT !.phase = "interrupted"])
       ELSE UNCHANGED <<status, file>>

Crash == Down /\ UNCHANGED <<status, file>>

\* ... in the middle of _save_status.
CrashWhileSaving ==
    /\ Down
    /\ Running \/ ~binary
    /\ file' = Unreadable /\ UNCHANGED status

\* Mutant: a file that cannot be read is not expected.
LoadedUnchecked(saved) ==
    IF saved.phase \in ActivePhases THEN [saved EXCEPT !.phase = "interrupted"] ELSE saved

\* Mutant: the phase is taken over as it was saved.
LoadedAsSaved(saved) == IF saved = Unreadable THEN Initial ELSE saved

\* _load_status: no job survives its process.
Loaded(saved) ==
    IF saved = Unreadable THEN Initial
    ELSE IF saved.phase \in ActivePhases THEN [saved EXCEPT !.phase = "interrupted"]
    ELSE saved

Restart ==
    /\ ~up
    /\ up' = TRUE /\ status' = Loaded(file)
    /\ UNCHANGED <<binary, file, job, models, bounds, history>>

Next ==
    \/ \E v \in Videos : StartJob(v) \/ StartIgnored(v)
    \/ StartUnavailable \/ BinaryChanges
    \/ Work
    \/ Shutdown \/ Crash \/ CrashWhileSaving \/ Restart

Spec == Init /\ [][Next]_vars

\* The event loop goes on with the job, and every tool ends, although the code
\* sets no timeout.
FairSpec == Spec /\ WF_vars(Work)

-----------------------------------------------------------------------------
ModelType == [run : Nat, video : Videos \cup {NoVideo}]
StatusType ==
    [phase : {"idle", "unavailable", "complete", "failed", "interrupted"} \cup ActivePhases,
     run : Nat, video : Videos \cup {NoVideo}, ready : BOOLEAN, model : ModelType]

TypeOK ==
    /\ up \in BOOLEAN /\ binary \in BOOLEAN /\ silent \in BOOLEAN
    /\ status \in StatusType /\ file \in StatusType \cup {Unreadable}
    /\ job \in [stage : {"none", "begin"} \cup ActivePhases, video : Videos \cup {NoVideo}]
    /\ models \subseteq [run : 1..runs, video : Videos]
    /\ runs \in Nat /\ crashes \in Nat /\ errors \in Nat
    /\ wanted \subseteq Videos /\ tried \subseteq Videos

\* What status and point_cloud show, or will after the next start.
Shown == IF up THEN status ELSE Loaded(file)

\* A point cloud is only offered under the run id it was made in and the name
\* of the video it was made from, and it is on disk; so through failures,
\* restarts and a lost status file.  (_run, point_cloud.)
CloudIsOfTheRun ==
    Shown.ready => /\ Shown.model = [run |-> Shown.run, video |-> Shown.video]
                   /\ Shown.model \in models

\* The status shows a stage under way only while a job is in that stage: not
\* after a failure, a shutdown or a restart.  A job that ended without a word
\* is excepted.  (_run, shutdown, _load_status.)
ActiveMeansRunning ==
    (up /\ ~silent /\ Shown.phase \in ActivePhases) => job.stage = Shown.phase

\* A finished reconstruction stays on show until the next job begins, over
\* restarts too unless one of them finds the status file damaged.
\* (_save_status, _load_status.)
ResultStays ==
    [][(Shown.ready /\ file' # Unreadable /\ ~BeginJob)
          => Shown'.ready /\ Shown'.model = Shown.model]_vars

-----------------------------------------------------------------------------
(* What the documentation says and the code does not keep. *)

\* "Start visual review and COLMAP" after an upload: every uploaded video gets
\* a job, unless the process dies.
UploadsReconstructed == \A v \in Videos : v \in wanted ~> (v \in tried \/ v \notin wanted)
=============================================================================
