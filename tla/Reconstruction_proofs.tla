------------------------ MODULE Reconstruction_proofs ------------------------
(***************************************************************************)
(* Proofs about Reconstruction, for any videos and any number of jobs,     *)
(* crashes and errors.                                                     *)
(***************************************************************************)
EXTENDS Reconstruction, TLAPS

\* The job has a stage only in a process that runs, after it was counted and
\* for a video.  In the stages of COLMAP the status shows the stage, the run
\* and the video of the job, and nothing ready.
JobShown ==
    /\ Running => up /\ runs >= 1 /\ job.video \in Videos
    /\ job.stage \in ActivePhases =>
          /\ status.phase = job.stage /\ ~status.ready
          /\ status.run = runs /\ status.video = job.video

\* What a status, in memory or in the file, may offer.
Honest(s) ==
    s.ready => s.model = [run |-> s.run, video |-> s.video] /\ s.model \in models

Offered ==
    /\ Honest(status)
    /\ file # Unreadable => Honest(file)

\* What the running process offers, a file that can be read offers too.
Saved ==
    (up /\ status.ready /\ file # Unreadable) => file.ready /\ file.model = status.model

IInv == TypeOK /\ JobShown /\ Offered /\ Saved /\ ActiveMeansRunning

-----------------------------------------------------------------------------
LEMMA Phases ==
    /\ ActivePhases = {"extracting", "features", "matching", "mapping", "exporting"}
    /\ \A stage \in ActivePhases \ {"exporting"} : After(stage) \in ActivePhases
<1>1. /\ Len(Stages) = 5
      /\ Stages[1] = "extracting" /\ Stages[2] = "features" /\ Stages[3] = "matching"
      /\ Stages[4] = "mapping" /\ Stages[5] = "exporting"
  BY DEF Stages
<1>2. ActivePhases = {"extracting", "features", "matching", "mapping", "exporting"}
  BY <1>1 DEF ActivePhases
<1>3. ASSUME NEW stage \in ActivePhases \ {"exporting"}
      PROVE  After(stage) \in ActivePhases
  <2>1. \E i \in 2..Len(Stages) : Stages[i - 1] = stage
    <3>1. /\ 2 \in 2..Len(Stages) /\ 3 \in 2..Len(Stages)
          /\ 4 \in 2..Len(Stages) /\ 5 \in 2..Len(Stages)
          /\ 2 - 1 = 1 /\ 3 - 1 = 2 /\ 4 - 1 = 3 /\ 5 - 1 = 4
      BY <1>1
    <3> QED
      BY <1>1, <1>2, <1>3, <3>1
  <2>2. (CHOOSE i \in 2..Len(Stages) : Stages[i - 1] = stage) \in 2..Len(Stages)
    BY <2>1
  <2>3. \A i \in 2..Len(Stages) : Stages[i] \in ActivePhases
    BY <1>1 DEF ActivePhases
  <2> QED
    BY <2>2, <2>3 DEF After
<1> QED
  BY <1>2, <1>3

\* A status file that was read offers what was saved and shows no stage.
LEMMA LoadedStatus ==
    ASSUME NEW saved \in StatusType \cup {Unreadable}
    PROVE  /\ Loaded(saved) \in StatusType /\ Loaded(saved).phase \notin ActivePhases
           /\ saved # Unreadable =>
                 /\ Loaded(saved).ready = saved.ready /\ Loaded(saved).model = saved.model
                 /\ Loaded(saved).run = saved.run /\ Loaded(saved).video = saved.video
           /\ saved = Unreadable => ~Loaded(saved).ready
<1>1. CASE saved = Unreadable
  BY <1>1, Phases DEF Loaded, Initial, NoModel, StatusType, ModelType
<1>2. CASE saved # Unreadable
  BY <1>2, Phases DEF Loaded, StatusType
<1> QED
  BY <1>1, <1>2

LEMMA InvariantInit == Init => IInv
<1> SUFFICES ASSUME Init
             PROVE  IInv
  OBVIOUS
<1>1. TypeOK
  BY DEF Init, TypeOK, StatusType, ModelType, Initial, NoModel, NoJob
<1>2. status.phase = "idle" /\ ~status.ready /\ job.stage = "none" /\ file = Unreadable
  BY DEF Init, Initial, NoJob
<1> QED
  BY <1>1, <1>2, Phases DEF IInv, JobShown, Running, Offered, Honest, Saved,
                            ActiveMeansRunning, Shown, Init

LEMMA InvariantStep == IInv /\ [Next]_vars => IInv'
<1> SUFFICES ASSUME IInv, [Next]_vars
             PROVE  IInv'
  OBVIOUS
<1>0. /\ TypeOK /\ JobShown /\ Offered /\ Saved /\ ActiveMeansRunning
      /\ status \in StatusType /\ file \in StatusType \cup {Unreadable}
  BY DEF IInv, TypeOK
<1>a. \A s \in StatusType : s # Unreadable
  BY Phases DEF StatusType, Unreadable
<1> USE DEF Running
<1>1. CASE UNCHANGED vars
  BY <1>0, <1>1 DEF vars, bounds, history, IInv, TypeOK, JobShown, Offered, Honest, Saved,
                    ActiveMeansRunning, Shown
<1>2. ASSUME NEW v \in Videos, StartJob(v)
      PROVE  IInv'
  <2>1. TypeOK'
    BY <1>0, <1>2 DEF StartJob, TypeOK
  <2>2. status.phase \notin ActivePhases \/ silent
    BY <1>0, <1>2, Phases DEF StartJob, MayStart, ActiveMeansRunning, Shown
  <2>3. job' = [stage |-> "begin", video |-> v] /\ runs' >= 1 /\ up' /\ UNCHANGED <<status, file, models, silent, up>>
    BY <1>0, <1>2 DEF StartJob, TypeOK
  <2> QED
    BY <1>0, <2>1, <2>2, <2>3, Phases DEF IInv, JobShown, Offered, Honest, Saved,
       ActiveMeansRunning, Shown
<1>3. ASSUME NEW v \in Videos, StartIgnored(v)
      PROVE  IInv'
  BY <1>0, <1>3 DEF StartIgnored, bounds, IInv, TypeOK, JobShown, Offered, Honest, Saved,
                    ActiveMeansRunning, Shown
<1>4. CASE StartUnavailable
  <2>1. /\ status' = [status EXCEPT !.phase = "unavailable"]
        /\ file' \in {status', file, Unreadable} /\ errors' \in Nat
        /\ job.stage = "none"
        /\ UNCHANGED <<up, binary, job, models, runs, crashes, silent, wanted, tried>>
    BY <1>0, <1>4 DEF StartUnavailable, MayStart, Update, UpdateUnsaved, FileError, history, TypeOK
  <2>2. /\ status' \in StatusType /\ status'.phase = "unavailable"
        /\ status'.ready = status.ready /\ status'.model = status.model
        /\ status'.run = status.run /\ status'.video = status.video
    BY <1>0, <2>1 DEF StatusType
  <2>3. TypeOK'
    BY <1>0, <2>1, <2>2 DEF TypeOK
  <2>4. Offered'
    <3>1. Honest(status)'
      BY <1>0, <2>1, <2>2 DEF Offered, Honest
    <3>2. file' # Unreadable => Honest(file)'
      <4>1. CASE file' = status'
        BY <3>1, <4>1 DEF Honest
      <4>2. CASE file' = file
        BY <1>0, <2>1, <4>2 DEF Offered, Honest
      <4> QED
        BY <2>1, <4>1, <4>2
    <3> QED
      BY <3>1, <3>2 DEF Offered
  <2>5. Saved'
    BY <1>0, <2>1, <2>2 DEF Saved
  <2>6. JobShown' /\ ActiveMeansRunning'
    <3>1. job'.stage = "none" /\ (up' => Shown'.phase \notin ActivePhases)
      BY <2>1, <2>2, Phases DEF Shown
    <3> QED
      BY <3>1, Phases DEF JobShown, ActiveMeansRunning
  <2> QED
    BY <2>3, <2>4, <2>5, <2>6 DEF IInv
<1>5. CASE BinaryChanges
  BY <1>0, <1>5 DEF BinaryChanges, bounds, history, IInv, TypeOK, JobShown, Offered, Honest,
                    Saved, ActiveMeansRunning, Shown
<1>6. CASE BeginJob
  <2>1. /\ runs \in Nat /\ runs >= 1 /\ job.video \in Videos
        /\ up /\ UNCHANGED <<up, binary, models, runs, crashes, wanted, tried>>
    BY <1>0, <1>6 DEF BeginJob, TypeOK, JobShown
  <2>2. /\ Begun \in StatusType /\ Begun.phase = "extracting" /\ ~Begun.ready
        /\ Begun.run = runs /\ Begun.video = job.video
    BY <1>0, <2>1, Phases DEF Begun, StatusType
  <2>3. CASE Update(Begun) /\ job' = [job EXCEPT !.stage = "extracting"]
             /\ UNCHANGED <<errors, silent>>
    <3>1. TypeOK'
      BY <1>0, <2>1, <2>2, <2>3, Phases DEF TypeOK, Update
    <3>2. /\ job'.stage = "extracting" /\ job'.video = job.video
          /\ status' = Begun /\ file' = Begun
      BY <1>0, <2>3 DEF TypeOK, Update
    <3> QED
      BY <2>1, <2>2, <3>1, <3>2, Phases DEF IInv, JobShown, Offered, Honest, Saved,
         ActiveMeansRunning, Shown
  <2>4. ASSUME UpdateUnsaved(Begun) \/ (FileError /\ UNCHANGED <<status, file>>),
               job' = NoJob, silent' = TRUE
        PROVE  IInv'
    <3>1. /\ status' \in {status, Begun} /\ file' \in {file, Unreadable}
          /\ errors' \in Nat /\ job'.stage = "none"
          /\ status' \in StatusType
      BY <1>0, <2>2, <2>4 DEF UpdateUnsaved, FileError, NoJob, TypeOK
    <3>2. TypeOK'
      BY <1>0, <2>1, <2>4, <3>1 DEF TypeOK, NoJob
    <3>3. Offered'
      BY <1>0, <2>1, <2>2, <3>1 DEF Offered, Honest
    <3>4. Saved'
      BY <1>0, <2>1, <2>2, <3>1 DEF Saved
    <3> QED
      BY <2>4, <3>1, <3>2, <3>3, <3>4, Phases DEF IInv, JobShown, ActiveMeansRunning
  <2> QED
    BY <1>6, <2>3, <2>4 DEF BeginJob
<1>7. CASE StageSucceeds
  <2>1. After(job.stage) \in ActivePhases
    BY <1>7, Phases DEF StageSucceeds
  <2>2. /\ status' \in StatusType /\ status'.phase = After(job.stage)
        /\ status'.ready = status.ready /\ status'.model = status.model
        /\ status'.run = status.run /\ status'.video = status.video /\ file' = status'
        /\ job' \in [stage : {"none", "begin"} \cup ActivePhases, video : Videos \cup {NoVideo}]
        /\ job'.stage = After(job.stage) /\ job'.video = job.video
        /\ job.stage \in ActivePhases /\ up
        /\ UNCHANGED <<up, models, runs, silent>>
    BY <1>0, <1>7, <2>1 DEF StageSucceeds, Update, StatusType, TypeOK, bounds, history
  <2>3. TypeOK'
    BY <1>0, <1>7, <2>2 DEF StageSucceeds, TypeOK, bounds, history
  <2> QED
    BY <1>0, <2>1, <2>2, <2>3, Phases DEF IInv, JobShown, Offered, Honest, Saved,
       ActiveMeansRunning, Shown
<1>8. CASE Exported
  <2>1. /\ job.stage \in ActivePhases /\ runs \in 1..runs /\ runs \in Nat
        /\ job.video \in Videos
    BY <1>0, <1>8, Phases DEF Exported, JobShown, TypeOK
  <2>2. /\ Made \in ModelType /\ Made \in [run : 1..runs, video : Videos]
        /\ Made = [run |-> status.run, video |-> status.video]
    BY <1>0, <2>1 DEF Made, ModelType, JobShown
  <2>3. /\ status' \in StatusType /\ status'.phase = "complete"
        /\ status'.model = Made /\ status'.run = status.run /\ status'.video = status.video
        /\ file' = status' /\ models' = models \cup {Made}
        /\ job' = NoJob /\ job'.stage = "none" /\ UNCHANGED <<up, runs, silent>>
    BY <1>0, <1>8, <2>2 DEF Exported, Update, StatusType, bounds, history, NoJob
  <2>4. TypeOK'
    BY <1>0, <1>8, <2>2, <2>3 DEF Exported, TypeOK, bounds, history, NoJob
  <2>5. Offered'
    BY <2>2, <2>3 DEF Offered, Honest
  <2> QED
    BY <1>0, <2>3, <2>4, <2>5, Phases DEF IInv, JobShown, Saved, ActiveMeansRunning, Shown
<1>9. CASE JobFails
  <2>1. /\ Failed \in StatusType /\ Failed.phase = "failed" /\ ~Failed.ready
        /\ status' = Failed /\ file' \in {file, Failed, Unreadable}
        /\ job' = NoJob /\ job'.stage = "none" /\ UNCHANGED <<up, models, runs, silent>>
    BY <1>0, <1>9 DEF JobFails, Failed, Update, UpdateUnsaved, StatusType, history, NoJob
  <2>2. TypeOK'
    BY <1>0, <1>9, <2>1 DEF JobFails, Update, UpdateUnsaved, FileError, TypeOK, history, NoJob
  <2> QED
    BY <1>0, <2>1, <2>2, Phases DEF IInv, JobShown, Offered, Honest, Saved,
       ActiveMeansRunning, Shown
<1>10. CASE JobFailsSilently
  <2>1. /\ UNCHANGED <<status, file, up, models, runs>> /\ silent' = TRUE
        /\ job' = NoJob /\ job'.stage = "none"
    BY <1>10 DEF JobFailsSilently, NoJob
  <2>2. TypeOK'
    BY <1>0, <1>10, <2>1 DEF JobFailsSilently, TypeOK, NoJob
  <2> QED
    BY <1>0, <2>1, <2>2, Phases DEF IInv, JobShown, Offered, Honest, Saved,
       ActiveMeansRunning, Shown
<1>11. CASE Shutdown \/ Crash \/ CrashWhileSaving
  <2>1. /\ ~up' /\ job'.stage = "none" /\ UNCHANGED <<models, runs>>
        /\ status' \in StatusType /\ file' \in StatusType \cup {Unreadable}
        /\ status' = status \/ status' = [status EXCEPT !.phase = "interrupted"]
        /\ file' = file \/ file' = status' \/ file' = Unreadable
    <3>1. [status EXCEPT !.phase = "interrupted"] \in StatusType
      BY <1>0 DEF StatusType
    <3>2. CASE Shutdown
      <4>1. (Update([status EXCEPT !.phase = "interrupted"]) \/ UNCHANGED <<status, file>>) /\ Down
        BY <3>2 DEF Shutdown
      <4> QED
        BY <1>0, <3>1, <4>1 DEF Down, Update, NoJob
    <3>3. CASE Crash \/ CrashWhileSaving
      BY <1>0, <3>3 DEF Crash, CrashWhileSaving, Down, NoJob
    <3> QED
      BY <1>11, <3>2, <3>3
  <2>2. TypeOK'
    <3>1. Down /\ job' = NoJob
      BY <1>11 DEF Shutdown, Crash, CrashWhileSaving, Down
    <3>2. /\ UNCHANGED <<binary, models, runs, errors, tried>> /\ up' = FALSE
          /\ silent' = FALSE /\ wanted' = {} /\ crashes' = crashes + 1
      BY <3>1 DEF Down
    <3>3. status' \in StatusType /\ file' \in StatusType \cup {Unreadable}
      BY <2>1
    <3>4. /\ binary \in BOOLEAN /\ models \subseteq [run : 1..runs, video : Videos] /\ tried \subseteq Videos
          /\ runs \in Nat /\ errors \in Nat /\ crashes + 1 \in Nat
      BY <1>0 DEF TypeOK
    <3>5. NoJob \in [stage : {"none", "begin"} \cup ActivePhases,
                     video : Videos \cup {NoVideo}]
      BY DEF NoJob
    <3> HIDE DEF Running
    <3> QED
      BY <3>1, <3>2, <3>3, <3>4, <3>5 DEF TypeOK
  <2>3. Honest(status)' /\ (file' # Unreadable => Honest(file)')
    BY <1>0, <2>1 DEF Offered, Honest, StatusType
  <2> QED
    BY <2>1, <2>2, <2>3, Phases DEF IInv, JobShown, Offered, Saved, ActiveMeansRunning
<1>12. CASE Restart
  <2>1. /\ status' = Loaded(file) /\ status' \in StatusType
        /\ status'.phase \notin ActivePhases
        /\ UNCHANGED <<file, job, models, runs>> /\ ~up /\ job.stage = "none"
    BY <1>0, <1>12, LoadedStatus DEF Restart, bounds, JobShown
  <2>2. TypeOK'
    BY <1>0, <1>12, <2>1 DEF Restart, TypeOK, bounds, history
  <2>3. Honest(status)'
    BY <1>0, <2>1, LoadedStatus DEF Offered, Honest
  <2>4. Saved'
    BY <1>0, <2>1, LoadedStatus DEF Saved
  <2> QED
    BY <1>0, <2>1, <2>2, <2>3, <2>4, Phases DEF IInv, JobShown, Offered, Honest,
       ActiveMeansRunning, Shown
<1> QED
  BY <1>1, <1>2, <1>3, <1>4, <1>5, <1>6, <1>7, <1>8, <1>9, <1>10, <1>11, <1>12
     DEF Next, Work

THEOREM ReconstructionInvariant == Spec => []IInv
BY InvariantInit, InvariantStep, PTL DEF Spec

\* Types, and with them that the clouds on disk are of runs that were started.
THEOREM TypeCorrect == Spec => []TypeOK
BY ReconstructionInvariant, PTL DEF IInv

\* A point cloud is only offered under the run it was made in and the video it
\* was made from, and is on disk, in memory and after every restart.  (_run, point_cloud, _load_status.)
THEOREM CloudIsOfTheRunHolds == Spec => []CloudIsOfTheRun
<1>1. IInv => CloudIsOfTheRun
  <2> SUFFICES ASSUME IInv
               PROVE  CloudIsOfTheRun
    OBVIOUS
  <2>1. file \in StatusType \cup {Unreadable} /\ Offered
    BY DEF IInv, TypeOK
  <2> QED
    BY <2>1, LoadedStatus DEF CloudIsOfTheRun, Shown, Offered, Honest
<1> QED
  BY <1>1, ReconstructionInvariant, PTL

\* The status shows a stage under way only while the job is in it.  (_run,
\* shutdown, _load_status.)
THEOREM ActiveMeansRunningHolds == Spec => []ActiveMeansRunning
BY ReconstructionInvariant, PTL DEF IInv

\* A finished reconstruction stays on show until the next job begins.
\* (_save_status, _load_status.)
THEOREM ResultStaysHolds == Spec => ResultStays
<1> DEFINE Stays == (Shown.ready /\ file' # Unreadable /\ ~BeginJob)
                       => Shown'.ready /\ Shown'.model = Shown.model
<1>1. IInv /\ [Next]_vars => [Stays]_vars
  <2> SUFFICES ASSUME IInv, Next, Shown.ready, file' # Unreadable, ~BeginJob
               PROVE  Shown'.ready /\ Shown'.model = Shown.model
    OBVIOUS
  <2>0. /\ TypeOK /\ JobShown /\ Saved /\ status \in StatusType
        /\ file \in StatusType \cup {Unreadable}
    BY DEF IInv, TypeOK
  <2>1. CASE UNCHANGED <<up, status, file>>
    BY <2>1 DEF Shown
  <2>2. CASE StartUnavailable
    <3>1. status' = [status EXCEPT !.phase = "unavailable"] /\ up /\ up' = up
      BY <2>2 DEF StartUnavailable, Update, UpdateUnsaved
    <3> QED
      BY <2>0, <3>1 DEF Shown, StatusType
  <2>3. CASE StageSucceeds
    BY <2>0, <2>3 DEF StageSucceeds, JobShown, Shown
  <2>4. CASE Exported \/ JobFails
    BY <2>0, <2>4, Phases DEF Exported, JobFails, JobShown, Shown
  <2>5. CASE Shutdown \/ Crash \/ CrashWhileSaving
    <3>1. up /\ ~up' /\ (file' = file \/ file' = [status EXCEPT !.phase = "interrupted"])
      BY <2>5 DEF Shutdown, Crash, CrashWhileSaving, Down, Update
    <3>2. file'.ready /\ file'.model = status.model
          /\ file' \in StatusType \cup {Unreadable}
      BY <2>0, <3>1 DEF Saved, Shown, StatusType
    <3> QED
      BY <3>1, <3>2, LoadedStatus DEF Shown
  <2>6. CASE Restart
    BY <2>6 DEF Restart, Shown
  <2> QED
    BY <2>1, <2>2, <2>3, <2>4, <2>5, <2>6
       DEF Next, Work, StartJob, StartIgnored, BinaryChanges, JobFailsSilently
<1>2. Spec => [][Stays]_vars
  BY <1>1, ReconstructionInvariant, PTL DEF Spec
<1> QED
  BY <1>2 DEF ResultStays
=============================================================================
