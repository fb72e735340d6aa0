----------------------------- MODULE StatusProofs -----------------------------
(***************************************************************************)
(* Proofs about the status command: what it reports, read piece by piece   *)
(* beside a daemon and a Codex that go on, for every value of the bounds.  *)
(***************************************************************************)
EXTENDS Status, IssueLifeProofs

allVars == <<vars, readerVars>>

(* The reader changes nothing of the job.                                   *)
LEMMA ReaderChangesNothing == [StatusNext]_allVars => [Next]_vars
  <1> SUFFICES ASSUME [StatusNext]_allVars PROVE [Next]_vars
    OBVIOUS
  <1>1. CASE Reader
    BY <1>1 DEF Reader, ReadState, ReadLabel, ReadWindow, DetectConflicts, ReportRuntime
  <1>2. CASE ~Reader
    BY <1>2 DEF StatusNext, Next, allVars
  <1>3. QED
    BY <1>1, <1>2

LEMMA StatusIsJob == StatusSpec => Spec
  BY ReaderChangesNothing, PTL DEF StatusSpec, StatusInit, Spec, allVars

(* What the command has read, from the first read to the last report.       *)
HasSeen == reader # "file" \/ runtime # "none"

(* The types of the reader.  A job that is looked at has a state that is    *)
(* also a label.                                                            *)
SeenJob == HasSeen => seen.job.state \in ManagedLabels

LEMMA SeenEdits ==
  ASSUME ReaderTypeOK, NEW state \in ManagedLabels, NEW window \in BOOLEAN
  PROVE  /\ [seen EXCEPT !.job.state = state] \in [job : Jobs, window : BOOLEAN]
         /\ [seen EXCEPT !.job.state = state].job.state = state
         /\ [seen EXCEPT !.job.state = state].job.phase = seen.job.phase
         /\ [seen EXCEPT !.job.state = state].window = seen.window
         /\ [seen EXCEPT !.window = window] \in [job : Jobs, window : BOOLEAN]
         /\ [seen EXCEPT !.window = window].job = seen.job
         /\ [seen EXCEPT !.window = window].window = window
  <1>1. seen \in [job : Jobs, window : BOOLEAN] /\ seen.job \in Jobs
    BY DEF ReaderTypeOK
  <1>2. [seen.job EXCEPT !.state = state] \in Jobs
    BY <1>1 DEF Jobs, ManagedLabels
  <1>3. QED
    BY <1>1, <1>2 DEF Jobs

LEMMA GitHubType == GitHubState \in ManagedLabels \cup {"none"}
  BY DEF GitHubState, ManagedLabels

LEMMA RuntimeType ==
  ASSUME seen.job.state \in ManagedLabels
  PROVE  RuntimeState \in RuntimeStates
  BY DEF RuntimeState, RuntimeStates, ManagedLabels, Running

LEMMA ReaderTypeStep ==
  TypeOK /\ ReaderTypeOK /\ SeenJob /\ [StatusNext]_allVars => (ReaderTypeOK /\ SeenJob)'
  <1> SUFFICES ASSUME TypeOK, ReaderTypeOK, SeenJob, [StatusNext]_allVars
               PROVE  ReaderTypeOK' /\ SeenJob'
    OBVIOUS
  <1>1. CASE ReadState
    <2>1. file.state \in ManagedLabels /\ file \in Jobs
      BY <1>1 DEF ReadState, TypeOK, Jobs, ManagedLabels
    <2>2. seen' \in [job : Jobs, window : BOOLEAN] /\ seen'.job = file
      BY <1>1, <2>1 DEF ReadState
    <2>3. /\ reader' = "label" /\ conflicts' = {} /\ runtime' = "none"
          /\ quiet' = (pc = "idle")
      BY <1>1 DEF ReadState
    <2>4. quiet' \in BOOLEAN
      BY <2>3
    <2>5. QED
      BY <2>1, <2>2, <2>3, <2>4 DEF ReaderTypeOK, SeenJob, HasSeen, RuntimeStates
  <1>2. CASE ReadLabel
    <2>1. reader' = "window" /\ UNCHANGED <<runtime, quiet>> /\ seen.job.state \in ManagedLabels
          /\ conflicts' \in SUBSET Conflicts
      BY <1>2 DEF ReadLabel, ReaderTypeOK, SeenJob, HasSeen, Conflicts
    <2>2. CASE seen' = seen
      BY <2>1, <2>2 DEF ReaderTypeOK, SeenJob
    <2>3. CASE GitHubState # "none" /\ seen' = [seen EXCEPT !.job.state = GitHubState]
      <3>1. GitHubState \in ManagedLabels
        BY <2>3, GitHubType
      <3>2. seen' \in [job : Jobs, window : BOOLEAN] /\ seen'.job.state = GitHubState
        BY <2>3, <3>1, SeenEdits
      <3>3. QED
        BY <2>1, <3>1, <3>2 DEF ReaderTypeOK, SeenJob
    <2>4. QED
      BY <1>2, <2>2, <2>3 DEF ReadLabel
  <1>3. CASE ReadWindow
    <2>1. WindowExists \in BOOLEAN
      BY DEF WindowExists
    <2>2. reader' = "conflicts" /\ UNCHANGED <<conflicts, runtime, quiet>>
          /\ seen' = [seen EXCEPT !.window = WindowExists] /\ seen.job.state \in ManagedLabels
      BY <1>3 DEF ReadWindow, SeenJob, HasSeen
    <2>3. seen' \in [job : Jobs, window : BOOLEAN] /\ seen'.job = seen.job
      BY <2>1, <2>2, SeenEdits DEF ManagedLabels
    <2>4. QED
      BY <2>2, <2>3 DEF ReaderTypeOK, SeenJob
  <1>4. CASE DetectConflicts
    <2>1. conflicts' \subseteq Conflicts
      BY <1>4 DEF DetectConflicts, ReaderTypeOK, Conflicts
    <2>2. QED
      BY <1>4, <2>1 DEF DetectConflicts, ReaderTypeOK, SeenJob, HasSeen
  <1>5. CASE ReportRuntime
    BY <1>5, RuntimeType DEF ReportRuntime, ReaderTypeOK, SeenJob, HasSeen
  <1>6. CASE UNCHANGED <<reader, seen, conflicts, runtime>> /\ quiet' \in {quiet, FALSE}
    BY <1>6 DEF ReaderTypeOK, SeenJob, HasSeen
  <1>7. QED
    BY <1>1, <1>2, <1>3, <1>4, <1>5, <1>6 DEF StatusNext, Reader, allVars, readerVars

LEMMA InitReader == StatusInit => ReaderTypeOK /\ SeenJob
  <1> SUFFICES ASSUME StatusInit PROVE ReaderTypeOK /\ SeenJob
    OBVIOUS
  <1>1. /\ reader = "file" /\ seen = NothingSeen /\ conflicts = {} /\ runtime = "none"
        /\ quiet = FALSE
    BY DEF StatusInit
  <1>2. NothingSeen \in [job : Jobs, window : BOOLEAN]
    BY JobType DEF NothingSeen, NoJob
  <1>3. QED
    BY <1>1, <1>2 DEF ReaderTypeOK, SeenJob, HasSeen, RuntimeStates, Conflicts

(* The command keeps its types beside every behaviour of the job.           *)
THEOREM ReaderTypeCorrect == StatusSpec => [](ReaderTypeOK /\ SeenJob)
  BY StatusIsJob, TypeCorrect, InitReader, ReaderTypeStep, PTL DEF StatusSpec, allVars
-----------------------------------------------------------------------------
(* While the daemon rests, what the command has read of the job is still    *)
(* so, and on WSL a window that was gone stays gone: only the daemon opens  *)
(* one, and without a session Codex writes no file either.                  *)
SeenIdle == HasSeen /\ quiet => pc = "idle" /\ seen.job.phase = file.phase
WindowStaysGone ==
  HasSeen /\ quiet /\ reader \notin {"label", "window"} /\ ~seen.window => live = {}
SeenQuietly == SeenIdle /\ WindowStaysGone /\ NextPollAgrees

(* What a report of a running job says of the files that Codex left.        *)
LEMMA RuntimeTells ==
  ASSUME seen.job.state \in ManagedLabels
  PROVE  /\ RuntimeState = "codex_completed" => ~seen.window /\ MessageThere
         /\ RuntimeState = "rate_limited_waiting" => ~seen.window /\ ~MessageThere /\ RateLimited
  BY DEF RuntimeState, CodexCompleted, ManagedLabels, Running

LEMMA ReaderQuietly ==
  ASSUME TypeOK, ReaderTypeOK, SeenJob, SeenQuietly, Target = "wsl", Reader
  PROVE  SeenQuietly'
  <1> USE DEF SeenQuietly
  <1>0. /\ UNCHANGED <<pc, file, live, lastMessage, log>>
        /\ WindowExists' = WindowExists /\ (WindowExists <=> live # {})
    BY DEF Reader, ReadState, ReadLabel, ReadWindow, DetectConflicts, ReportRuntime, vars,
       daemonVars, codexVars, WindowExists
  <1>1. CASE ReadState
    <2>1. reader' = "label" /\ seen'.job = file /\ quiet' = (pc = "idle")
      BY <1>1 DEF ReadState
    <2>2. QED
      BY <1>0, <2>1 DEF SeenIdle, WindowStaysGone, NextPollAgrees, Reported
  <1>2. CASE ReadLabel
    <2>1. seen'.job.phase = seen.job.phase
      <3>1. CASE seen' = seen
        BY <3>1
      <3>2. CASE GitHubState # "none" /\ seen' = [seen EXCEPT !.job.state = GitHubState]
        BY <3>2, GitHubType, SeenEdits
      <3>3. QED
        BY <1>2, <3>1, <3>2 DEF ReadLabel
    <2>2. reader = "label" /\ reader' = "window" /\ quiet' = quiet
      BY <1>2 DEF ReadLabel
    <2>3. QED
      BY <1>0, <2>1, <2>2 DEF SeenIdle, WindowStaysGone, NextPollAgrees, Reported, HasSeen
  <1>3. CASE ReadWindow
    <2>0. WindowExists \in BOOLEAN /\ seen.job.state \in ManagedLabels
      BY <1>3 DEF WindowExists, ReadWindow, SeenJob, HasSeen
    <2>1. seen'.job = seen.job /\ seen'.window = WindowExists
      BY <1>3, <2>0, SeenEdits DEF ReadWindow
    <2>2. reader = "window" /\ reader' = "conflicts" /\ quiet' = quiet
      BY <1>3 DEF ReadWindow
    <2>3. QED
      BY <1>0, <2>1, <2>2 DEF SeenIdle, WindowStaysGone, NextPollAgrees, Reported, HasSeen
  <1>4. CASE DetectConflicts
    BY <1>0, <1>4 DEF DetectConflicts, SeenIdle, WindowStaysGone, NextPollAgrees, Reported, HasSeen
  <1>5. CASE ReportRuntime
    <2>1. /\ reader = "runtime" /\ reader' = "file" /\ UNCHANGED <<seen, quiet>>
          /\ runtime' = RuntimeState /\ seen.job.state \in ManagedLabels
      BY <1>5 DEF ReportRuntime, SeenJob, HasSeen
    <2>2. SeenIdle' /\ WindowStaysGone'
      BY <1>0, <2>1 DEF SeenIdle, WindowStaysGone, HasSeen
    <2>3. NextPollAgrees'
      <3> SUFFICES ASSUME quiet PROVE NextPollAgrees'
        BY <2>1 DEF NextPollAgrees
      <3>1. seen.job.phase = file.phase /\ (~seen.window => ~WindowExists)
        BY <1>0, <2>1 DEF SeenIdle, WindowStaysGone, HasSeen
      <3>2. QED
        BY <1>0, <2>1, <3>1, RuntimeTells DEF NextPollAgrees, MessageThere, RateLimited
    <2>4. QED
      BY <2>2, <2>3
  <1>6. QED
    BY <1>1, <1>2, <1>3, <1>4, <1>5 DEF Reader

LEMMA OthersQuietly ==
  ASSUME SeenQuietly, Target = "wsl", UNCHANGED readerVars,
         Codex \/ BaseMoves \/ Rerun \/ UNCHANGED vars
  PROVE  SeenQuietly'
  <1>1. UNCHANGED <<pc, file>>
    BY DEF Codex, BaseMoves, Rerun, vars, daemonVars
  <1>2. live = {} => UNCHANGED <<live, lastMessage, log>>
    BY DEF Codex, BaseMoves, Rerun, vars, codexVars
  <1>3. SeenIdle' /\ WindowStaysGone'
    BY <1>1, <1>2 DEF SeenQuietly, SeenIdle, WindowStaysGone, HasSeen, readerVars
  <1>4. NextPollAgrees'
    BY <1>1, <1>2 DEF SeenQuietly, NextPollAgrees, Reported, WindowExists, readerVars
  <1>5. QED
    BY <1>3, <1>4 DEF SeenQuietly

LEMMA QuietlyStep ==
  ASSUME Target = "wsl"
  PROVE  TypeOK /\ ReaderTypeOK /\ SeenJob /\ SeenQuietly /\ [StatusNext]_allVars => SeenQuietly'
  <1> SUFFICES ASSUME TypeOK, ReaderTypeOK, SeenJob, SeenQuietly, [StatusNext]_allVars
               PROVE  SeenQuietly'
    OBVIOUS
  <1>1. CASE quiet' = FALSE
    BY <1>1 DEF SeenQuietly, SeenIdle, WindowStaysGone, NextPollAgrees
  <1>2. QED
    BY <1>1, ReaderQuietly, OthersQuietly DEF StatusNext, allVars

(* On WSL the next poll finds what status reported of a session while the   *)
(* daemon rested, whatever failed before and however Codex ends.  Windows   *)
(* has no window to tell that the session is over: there a message may      *)
(* still come after the report.                                             *)
THEOREM PollAgrees ==
  ASSUME Target = "wsl"
  PROVE  StatusSpec => []NextPollAgrees
  <1>1. StatusInit => SeenQuietly
    BY DEF StatusInit, SeenQuietly, SeenIdle, WindowStaysGone, NextPollAgrees
  <1>2. SeenQuietly => NextPollAgrees
    BY DEF SeenQuietly
  <1>3. QED
    BY <1>1, <1>2, StatusIsJob, TypeCorrect, ReaderTypeCorrect, QuietlyStep, PTL
       DEF StatusSpec, allVars
-----------------------------------------------------------------------------
(* Before the first mishap and the first re-run: what the daemon has at     *)
(* each stage when it meets the issue for the first and only time.          *)
FirstAttempt ==
    /\ file.state = "none" => file = NoJob
    /\ pc \in {"claim"} \cup Beginning => file = NoJob
    /\ pc \in Beginning => mem.phase = ""
    /\ pc \in Blocking \cup {"save"} => file.state # "blocked"
    /\ mem.phase = "conflict-resolve" => resolvers = 1
    /\ file.phase = "conflict-resolve" => resolvers = 1

LEMMA InitFirst == Init => FirstAttempt
  BY JobFields DEF Init, FirstAttempt, Beginning, Blocking

LEMMA FirstDaemon ==
  ASSUME TypeOK, Calm, FirstAttempt, reruns = 0, ~Mishap, Daemon
  PROVE  FirstAttempt'
  <1> USE DEF FirstAttempt, Calm, Goto, Block, Judging, Completing, Beginning, Blocking, NoMishap
  <1>1. CASE Poll
    BY <1>1, JobFields DEF Poll, Running
  <1>2. CASE CheckRateLimit \/ CheckStartup \/ CheckReady
    BY <1>2 DEF CheckRateLimit, CheckStartup, CheckReady, FileBehind
  <1>3. CASE ListReadyIssues
    <2>1. pc = "list" /\ UNCHANGED <<mem, file, resolvers>>
          /\ pc' = IF labels = {} THEN "claim" ELSE "idle"
      BY <1>3 DEF ListReadyIssues
    <2>2. labels = {} => file.state = "none"
      <3>1. labels = {file.state} \cap ManagedLabels
        BY <2>1 DEF LabelsTell, Tells
      <3>2. file.state \in ManagedLabels \cup {"none"}
        BY <2>1 DEF FileBehind, TypeOK, Jobs, ManagedLabels
      <3>3. QED
        BY ONLY <3>1, <3>2
    <2>3. QED
      BY <2>1, <2>2
  <1>4. CASE ResumeCodex
    BY <1>4 DEF ResumeCodex, FileBehind
  <1>5. CASE ValidateResolution
    <2>1. mem' = mem \/ mem'.phase = ""
      <3>1. mem' = mem \/ mem' = [mem EXCEPT !.phase = ""]
        BY <1>5, Zenon DEF ValidateResolution
      <3>2. mem \in Jobs
        BY DEF TypeOK
      <3>3. [mem EXCEPT !.phase = ""].phase = ""
        BY <3>2, JobEdits
      <3>4. QED
        BY <3>1, <3>3, Zenon
    <2>2. pc = "validate" /\ UNCHANGED <<file, resolvers>> /\ pc' \in {"commit", "strip_for_blocked"}
      BY <1>5 DEF ValidateResolution
    <2>3. QED
      BY <2>1, <2>2 DEF FileBehind
  <1>6. CASE CommitAll \/ MergeBase \/ PushBranch \/ CreateDraftPR
    BY <1>6 DEF CommitAll, MergeBase, PushBranch, CreateDraftPR, FileBehind
  <1>7. CASE ResolveConflict
    <2>1. pc = "conflict" /\ file' = file /\ file.state = "running"
          /\ resolvers = mem.conflicts /\ mem.conflicts \in Nat
      BY <1>7 DEF ResolveConflict, FileBehind, ResolversCounted, TypeOK, Jobs
    <2>2. CASE pc' = "strip_for_blocked" /\ UNCHANGED <<mem, resolvers>>
      BY <2>1, <2>2
    <2>3. CASE pc' = "save" /\ resolvers' = resolvers + 1 /\ mem.conflicts < 1
      BY <2>1, <2>3
    <2>4. QED
      BY <1>7, <2>2, <2>3 DEF ResolveConflict, ConflictRetryLeft
  <1>8. CASE SaveJob
    BY <1>8 DEF SaveJob, WriteState, JobHeld
  <1>9. CASE StripForDone \/ StripForBlocked
    BY <1>9 DEF StripForDone, StripForBlocked, FileBehind
  <1>10. CASE PutDone
    <2>1. mem'.phase = mem.phase
      BY <1>10 DEF PutDone, TypeOK, Jobs
    <2>2. QED
      BY <1>10, <2>1 DEF PutDone, FileBehind
  <1>11. CASE PutBlocked
    BY <1>11, JobFields DEF PutBlocked
  <1>12. CASE ClaimIssue
    BY <1>12, JobFields DEF ClaimIssue
  <1>13. CASE PrepareWorktree
    BY <1>13, JobFields DEF PrepareWorktree
  <1>14. CASE StartJob
    BY <1>14, JobFields DEF StartJob
  <1>15. CASE SaveStartedJob
    BY <1>15 DEF SaveStartedJob, JobHeld
  <1>16. QED
    BY <1>1, <1>2, <1>3, <1>4, <1>5, <1>6, <1>7, <1>8, <1>9, <1>10, <1>11, <1>12, <1>13, <1>14,
       <1>15 DEF Daemon

LEMMA FirstStep ==
  /\ TypeOK /\ (mishaps = 0 => Calm) /\ (mishaps = 0 /\ reruns = 0 => FirstAttempt)
  /\ [Next]_vars
  => (mishaps = 0 /\ reruns = 0 => FirstAttempt)'
  <1> SUFFICES ASSUME TypeOK, mishaps = 0 => Calm, mishaps = 0 /\ reruns = 0 => FirstAttempt,
                      [Next]_vars, mishaps' = 0, reruns' = 0
               PROVE  FirstAttempt'
    OBVIOUS
  <1>1. mishaps = 0 /\ ~Mishap /\ ~Crash
    BY MishapsGrow DEF Mishap, TypeOK, Crash
  <1>2. reruns = 0 /\ ~Rerun
    BY RerunsGrow DEF TypeOK, Rerun
  <1>3. CASE Daemon
    BY <1>1, <1>2, <1>3, FirstDaemon
  <1>4. CASE Codex \/ BaseMoves \/ UNCHANGED vars
    <2>1. UNCHANGED <<pc, mem, file, resolvers>>
      BY <1>4 DEF Codex, BaseMoves, vars, daemonVars
    <2>2. QED
      BY <1>1, <1>2, <2>1 DEF FirstAttempt
  <1>5. QED
    BY <1>1, <1>2, <1>3, <1>4 DEF Next

LEMMA FirstAlways == Spec => [](mishaps = 0 /\ reruns = 0 => FirstAttempt)
  <1>1. Init => (mishaps = 0 /\ reruns = 0 => FirstAttempt)
    BY InitFirst
  <1>2. QED
    BY <1>1, InitType, TypeStep, CalmWithoutMishap, FirstStep, PTL DEF Spec
-----------------------------------------------------------------------------
(* What a command that began while the daemon rested has read is the state  *)
(* file as it still is, and the labels say the same.                        *)
SeenSame ==
  HasSeen /\ quiet =>
    pc = "idle" /\ seen.job = file /\ "github_label_mismatch" \notin conflicts

(* At rest the first label of githubLabelState is the one of the job.       *)
LEMMA LabelOfJob ==
  ASSUME Calm, reruns = 0, pc = "idle", file.state \in ManagedLabels
  PROVE  GitHubState = file.state
  <1>1. labels = {file.state}
    BY DEF Calm, LabelsTell, Tells
  <1>2. QED
    BY <1>1 DEF GitHubState, ManagedLabels

LEMMA SameStep ==
  /\ TypeOK /\ ReaderTypeOK /\ SeenJob /\ (mishaps = 0 => Calm)
  /\ (mishaps = 0 /\ reruns = 0 => SeenSame) /\ [StatusNext]_allVars
  => (mishaps = 0 /\ reruns = 0 => SeenSame)'
  <1> SUFFICES ASSUME TypeOK, ReaderTypeOK, SeenJob, mishaps = 0 => Calm,
                      mishaps = 0 /\ reruns = 0 => SeenSame,
                      [StatusNext]_allVars, mishaps' = 0, reruns' = 0
               PROVE  SeenSame'
    OBVIOUS
  <1>0. [Next]_vars
    BY ReaderChangesNothing
  <1>1. mishaps = 0 /\ Calm
    BY <1>0, MishapsGrow DEF Mishap, TypeOK
  <1>2. reruns = 0 /\ ~Rerun
    BY <1>0, RerunsGrow DEF TypeOK, Rerun
  <1>3. SeenSame
    BY <1>1, <1>2
  <1>4. CASE Reader
    <2>0. UNCHANGED <<pc, file>>
      BY <1>4 DEF Reader, ReadState, ReadLabel, ReadWindow, DetectConflicts, ReportRuntime, vars,
         daemonVars
    <2>1. CASE ReadState
      BY <2>0, <2>1 DEF ReadState, SeenSame
    <2>2. CASE ReadLabel
      <3>1. HasSeen /\ seen.job.state \in ManagedLabels /\ quiet' = quiet
        BY <2>2 DEF ReadLabel, HasSeen, SeenJob
      <3>2. quiet => pc = "idle" /\ seen.job = file /\ "github_label_mismatch" \notin conflicts
        BY <1>3, <3>1 DEF SeenSame
      <3>3. quiet => GitHubState = seen.job.state
        BY <1>1, <1>2, <3>1, <3>2, LabelOfJob
      <3>4. quiet => seen' = seen /\ conflicts' \in {conflicts, {"github_unavailable"}}
        BY <2>2, <3>3 DEF ReadLabel
      <3>5. QED
        BY <2>0, <3>1, <3>2, <3>4 DEF SeenSame
    <2>3. CASE ReadWindow
      <3>1. WindowExists \in BOOLEAN /\ seen.job.state \in ManagedLabels
        BY <2>3 DEF WindowExists, ReadWindow, SeenJob, HasSeen
      <3>2. seen'.job = seen.job /\ UNCHANGED <<conflicts, quiet>> /\ HasSeen
        BY <2>3, <3>1, SeenEdits DEF ReadWindow, HasSeen
      <3>3. QED
        BY <1>3, <2>0, <3>2 DEF SeenSame
    <2>4. CASE DetectConflicts
      BY <1>3, <2>0, <2>4 DEF DetectConflicts, SeenSame, HasSeen
    <2>5. CASE ReportRuntime
      BY <1>3, <2>0, <2>5 DEF ReportRuntime, SeenSame, HasSeen
    <2>6. QED
      BY <1>4, <2>1, <2>2, <2>3, <2>4, <2>5 DEF Reader
  <1>5. CASE quiet' = FALSE
    BY <1>5 DEF SeenSame
  <1>6. CASE (Codex \/ BaseMoves \/ UNCHANGED vars) /\ UNCHANGED readerVars
    <2>1. UNCHANGED <<pc, file>>
      BY <1>6 DEF Codex, BaseMoves, vars, daemonVars
    <2>2. QED
      BY <1>3, <1>6, <2>1 DEF SeenSame, HasSeen, readerVars
  <1>7. QED
    BY <1>2, <1>4, <1>5, <1>6 DEF StatusNext, allVars

LEMMA SameAlways == StatusSpec => [](mishaps = 0 /\ reruns = 0 => SeenSame)
  <1>1. StatusInit => SeenSame
    BY DEF StatusInit, SeenSame, HasSeen
  <1>2. QED
    BY <1>1, StatusIsJob, TypeCorrect, ReaderTypeCorrect, CalmWithoutMishap, SameStep, PTL
       DEF StatusSpec, allVars
-----------------------------------------------------------------------------
(* The traces of a session: how it ended, or that it is still there.  A     *)
(* session that has finished or stopped has left its trace already.         *)
Ended(phase) == phase \in lastMessage \/ log[phase] # {}
Covered(phase) == Ended(phase) \/ \E s \in live : s.phase = phase
StagesTold ==
  \A s \in live : /\ s.stage = "finished" => s.phase \in lastMessage
                  /\ s.stage = "stopped" => log[s.phase] # {}

(* No trace of the phase is lost.                                           *)
Keeps(phase) ==
  /\ Covered(phase) => Covered(phase)'
  /\ Ended(phase) => Ended(phase)'
  /\ log[phase] \subseteq log'[phase]

LEMMA CodexTells ==
  ASSUME TypeOK, StagesTold, CodexMayFail = FALSE, Codex
  PROVE  StagesTold' /\ \A phase \in Phases : Keeps(phase)
  <1> USE DEF StagesTold, Keeps, Covered, Ended
  <1>1. PICK s \in live : \/ CodexWorks(s) \/ CodexFinishes(s) \/ CodexHitsRateLimit(s)
                         \/ CodexNotFound(s) \/ CodexExits(s)
    BY DEF Codex
  <1>2. /\ s \in Sessions /\ s.phase \in Phases
        /\ log \in [Phases -> SUBSET LogLines]
    BY DEF TypeOK, Sessions
  <1>3. \A stage : [s EXCEPT !.stage = stage].phase = s.phase
                   /\ [s EXCEPT !.stage = stage].stage = stage
    BY <1>2 DEF Sessions
  <1>4. CASE CodexWorks(s)
    BY <1>2, <1>3, <1>4 DEF CodexWorks, Becomes
  <1>5. CASE CodexFinishes(s)
    BY <1>2, <1>3, <1>5 DEF CodexFinishes, Becomes
  <1>6. CASE CodexHitsRateLimit(s) \/ CodexNotFound(s)
    <2>1. PICK line : log' = [log EXCEPT ![s.phase] = log[s.phase] \cup {line}]
      BY <1>6 DEF CodexHitsRateLimit, CodexNotFound
    <2>2. /\ log'[s.phase] # {}
          /\ \A phase \in Phases : log[phase] \subseteq log'[phase]
      BY <1>2, <2>1
    <2>3. lastMessage' = lastMessage /\ Becomes(s, "stopped")
      BY <1>6 DEF CodexHitsRateLimit, CodexNotFound
    <2>4. \A t \in live : t.phase \in Phases
      BY DEF TypeOK, Sessions
    <2>5. StagesTold'
      <3> SUFFICES ASSUME NEW t \in live'
                   PROVE  /\ t.stage = "finished" => t.phase \in lastMessage
                          /\ t.stage = "stopped" => log'[t.phase] # {}
        BY <2>3
      <3>1. CASE t \in live
        BY <2>2, <2>4, <3>1
      <3>2. CASE t = [s EXCEPT !.stage = "stopped"]
        <4>1. t.phase = s.phase /\ t.stage = "stopped"
          BY <1>3, <3>2
        <4>2. QED
          BY <2>2, <4>1
      <3>3. QED
        BY <2>3, <3>1, <3>2 DEF Becomes
    <2>6. QED
      BY <1>3, <2>2, <2>3, <2>5 DEF Becomes
  <1>7. CASE CodexExits(s)
    BY <1>2, <1>7 DEF CodexExits
  <1>8. QED
    BY <1>1, <1>4, <1>5, <1>6, <1>7

(* A new session is started when no other is alive.                         *)
LEMMA StartTells ==
  ASSUME TypeOK, live = {}, NEW phase \in Phases, NEW resume \in BOOLEAN,
         StartCodex(phase, resume)
  PROVE  /\ StagesTold' /\ Covered(phase)'
         /\ \A other \in Phases : other # phase \/ resume => Keeps(other)
  <1> USE DEF StartCodex
  <1>1. PICK id \in FreeIds : live' = {[id |-> id, phase |-> phase, stage |-> "started"]}
    OBVIOUS
  <1>2. StagesTold' /\ (\E s \in live' : s.phase = phase)
    BY <1>1 DEF StagesTold
  <1>3. /\ \A other \in Phases : other # phase \/ resume => log'[other] = log[other]
        /\ lastMessage' = lastMessage
    BY DEF TypeOK
  <1>4. QED
    BY <1>2, <1>3 DEF Keeps, Covered, Ended

(* A phase some running job is in, or is about to be written as: it has a   *)
(* session, or a trace of one.                                              *)
Current(phase) == \/ Running(file) /\ file.phase = phase
                  \/ pc = "save_start" /\ phase = ""
                  \/ pc = "save" /\ Running(mem) /\ mem.phase = phase
JobsCovered ==
  /\ StagesTold
  /\ \A phase \in Phases : Current(phase) => Covered(phase)

\* The two steps that empty a log: the start of a job and of a resolver.
Clears(phase) == \/ phase = "" /\ pc = "start" /\ file = NoJob
                 \/ phase = "conflict-resolve" /\ resolvers = 0

LEMMA UntouchedKeeps ==
  ASSUME StagesTold, UNCHANGED codexVars
  PROVE  StagesTold' /\ \A phase \in Phases : Keeps(phase)
  BY DEF StagesTold, Keeps, Covered, Ended, codexVars

LEMMA DaemonKeeps ==
  ASSUME TypeOK, Calm, FirstAttempt, Guarded, StagesTold, ~Mishap, Daemon
  PROVE  StagesTold' /\ \A phase \in Phases : Keeps(phase) \/ Clears(phase)
  <1> USE DEF Phases
  <1>1. CASE UNCHANGED codexVars
    BY <1>1, UntouchedKeeps
  <1>2. CASE ResumeCodex /\ StartCodex(mem.phase, TRUE)
    <2>1. live = {} /\ mem.phase \in Phases
      BY <1>2 DEF Guarded, ResumeCodex, TypeOK, Jobs
    <2>2. QED
      BY <1>2, <2>1, StartTells
  <1>3. CASE ResolveConflict /\ StartCodex("conflict-resolve", FALSE) /\ ConflictRetryLeft
    <2>1. live = {}
      BY <1>3 DEF Guarded, ResolveConflict, Completing
    <2>2. resolvers = 0
      <3>1. resolvers = mem.conflicts
        BY <1>3 DEF Calm, ResolversCounted, Completing, ResolveConflict
      <3>2. mem.conflicts \in Nat
        BY DEF TypeOK, Jobs
      <3>3. QED
        BY <1>3, <3>1, <3>2 DEF ConflictRetryLeft
    <2>3. QED
      BY <1>3, <2>1, <2>2, StartTells DEF Clears
  <1>4. CASE StartJob /\ StartCodex("", FALSE)
    <2>1. live = {} /\ pc = "start" /\ file = NoJob
      BY <1>4 DEF Guarded, StartJob, FirstAttempt, Beginning
    <2>2. QED
      BY <1>4, <2>1, StartTells DEF Clears
  <1>5. ASSUME ~UNCHANGED codexVars
        PROVE  \/ ResumeCodex /\ StartCodex(mem.phase, TRUE)
               \/ ResolveConflict /\ StartCodex("conflict-resolve", FALSE) /\ ConflictRetryLeft
               \/ StartJob /\ StartCodex("", FALSE)
    <2>1. ResumeCodex \/ ResolveConflict \/ StartJob
      BY <1>5, Zenon DEF Daemon, Poll, CheckRateLimit, SaveJob, CheckStartup, CheckReady,
         ValidateResolution, CommitAll, MergeBase, PushBranch, CreateDraftPR, StripForDone,
         PutDone, StripForBlocked, PutBlocked, ListReadyIssues, ClaimIssue, PrepareWorktree,
         SaveStartedJob, codexVars
    <2>2. QED
      BY <1>5, <2>1, Zenon DEF ResumeCodex, ResolveConflict, StartJob, codexVars
  <1>6. QED
    BY <1>1, <1>2, <1>3, <1>4, <1>5

LEMMA NextKeeps ==
  ASSUME TypeOK, Calm, FirstAttempt, Guarded, StagesTold, CodexMayFail = FALSE,
         ~Mishap, ~Rerun, [Next]_vars
  PROVE  StagesTold' /\ \A phase \in Phases : Keeps(phase) \/ Clears(phase)
  <1>1. ~Crash
    BY DEF Crash
  <1>2. QED
    BY <1>1, DaemonKeeps, CodexTells, UntouchedKeeps DEF Next, BaseMoves, vars

(* A resolver is not started again for a job that counts one.               *)
LEMMA NotCleared ==
  ASSUME NEW phase \in Phases, phase = "conflict-resolve" => resolvers = 1, Clears(phase)
  PROVE  pc = "start" /\ file = NoJob
  <1>1. CASE phase = "" /\ pc = "start" /\ file = NoJob
    BY <1>1
  <1>2. CASE phase = "conflict-resolve" /\ resolvers = 0
    BY <1>2
  <1>3. QED
    BY <1>1, <1>2 DEF Clears

(* The steps that make a phase the current one, apart from its start.       *)
LEMMA CurrentBefore ==
  ASSUME TypeOK, Calm, FirstAttempt, ~Mishap, ~Crash, [Next]_vars,
         NEW phase \in Phases, Current(phase)', ~Current(phase)
  PROVE  \/ ResolveConflict /\ pc' = "save" /\ phase = "conflict-resolve"
         \/ StartJob /\ pc' = "save_start" /\ phase = ""
  <1> USE DEF Current, Running, Goto, Block
  <1>1. CASE UNCHANGED <<pc, mem, file>>
    BY <1>1
  <1>2. CASE file' = file /\ pc' \notin {"save", "save_start"}
    BY <1>2
  <1>3. CASE SaveJob
    BY <1>3 DEF SaveJob, WriteState
  <1>4. CASE SaveStartedJob
    BY <1>4 DEF SaveStartedJob, FirstAttempt, Beginning
  <1>5. CASE ResumeCodex
    BY <1>5 DEF ResumeCodex, Calm, JobHeld, Judging
  <1>6. CASE ResolveConflict /\ pc' = "save"
    <2>1. /\ file' = file
          /\ mem' = [mem EXCEPT !.phase = "conflict-resolve", !.conflicts = mem.conflicts + 1]
      BY <1>6 DEF ResolveConflict
    <2>2. mem \in Jobs
      BY DEF TypeOK
    <2>3. mem'.phase = "conflict-resolve"
      BY ONLY <2>1, <2>2, JobEdits
    <2>4. QED
      BY <1>6, <2>1, <2>3
  <1>7. CASE StartJob /\ pc' = "save_start"
    BY <1>7 DEF StartJob
  <1>8. CASE PutDone
    <2>1. file' = file /\ pc' = "save" /\ mem'.state = "done"
      BY <1>8, JobEdits DEF PutDone, TypeOK
    <2>2. QED
      BY <2>1
  <1>9. CASE PutBlocked
    <2>1. file' = file /\ pc' \in {"idle", "save"} /\ mem'.state # "running"
      BY <1>9, JobFields DEF PutBlocked
    <2>2. QED
      BY <2>1
  <1>10. CASE Daemon
    BY <1>2, <1>3, <1>4, <1>5, <1>6, <1>7, <1>8, <1>9, <1>10 DEF Daemon, Poll, CheckRateLimit,
       CheckStartup, CheckReady, ValidateResolution, CommitAll, MergeBase, ResolveConflict,
       PushBranch, CreateDraftPR, StripForDone, StripForBlocked, ListReadyIssues, ClaimIssue,
       PrepareWorktree, StartJob
  <1>11. QED
    BY <1>1, <1>10 DEF Next, Codex, BaseMoves, Rerun, vars, daemonVars

LEMMA CurrentKept ==
  ASSUME TypeOK, FirstAttempt, NEW phase \in Phases, Current(phase)
  PROVE  ~Clears(phase)
  <1> SUFFICES ASSUME Clears(phase) PROVE FALSE
    OBVIOUS
  <1>1. CASE pc = "save_start" /\ phase = ""
    BY <1>1, NotCleared
  <1>2. CASE Running(file) /\ file.phase = phase
    BY <1>2, NotCleared, JobFields DEF FirstAttempt, Running
  <1>3. CASE pc = "save" /\ mem.phase = phase
    BY <1>3, NotCleared DEF FirstAttempt
  <1>4. QED
    BY <1>1, <1>2, <1>3 DEF Current

LEMMA CoveredStep ==
  ASSUME TypeOK, Calm, FirstAttempt, Guarded, JobsCovered, CodexMayFail = FALSE,
         ~Mishap, ~Rerun, [Next]_vars
  PROVE  JobsCovered'
  <1>1. StagesTold' /\ \A phase \in Phases : Keeps(phase) \/ Clears(phase)
    BY NextKeeps DEF JobsCovered
  <1>2. SUFFICES ASSUME NEW phase \in Phases, Current(phase)' PROVE Covered(phase)'
    BY <1>1 DEF JobsCovered
  <1>3. CASE Current(phase)
    BY <1>1, <1>3, CurrentKept DEF JobsCovered, Keeps
  <1>4. CASE ResolveConflict /\ pc' = "save" /\ phase = "conflict-resolve"
    <2>1. live = {} /\ StartCodex(phase, FALSE)
      BY <1>4 DEF ResolveConflict, Guarded, Completing, Block
    <2>2. QED
      BY <2>1, StartTells
  <1>5. CASE StartJob /\ pc' = "save_start" /\ phase = ""
    <2>1. live = {} /\ StartCodex(phase, FALSE)
      BY <1>5 DEF StartJob, Guarded, Block
    <2>2. QED
      BY <2>1, StartTells
  <1>6. QED
    BY <1>2, <1>3, <1>4, <1>5, CurrentBefore DEF Crash

LEMMA CoveredAlways ==
  ASSUME Target = "wsl", CodexMayFail = FALSE
  PROVE  Spec => [](mishaps = 0 /\ reruns = 0 => JobsCovered)
  <1>1. Init => JobsCovered
    BY JobFields DEF Init, JobsCovered, StagesTold, Current, Running
  <1>2. /\ TypeOK /\ (mishaps = 0 => Calm) /\ (mishaps = 0 /\ reruns = 0 => FirstAttempt)
        /\ (mishaps <= 1 => OneLive /\ Guarded) /\ (mishaps = 0 /\ reruns = 0 => JobsCovered)
        /\ [Next]_vars
        => (mishaps = 0 /\ reruns = 0 => JobsCovered)'
    <2> SUFFICES ASSUME TypeOK, mishaps = 0 => Calm, mishaps = 0 /\ reruns = 0 => FirstAttempt,
                        mishaps <= 1 => OneLive /\ Guarded,
                        mishaps = 0 /\ reruns = 0 => JobsCovered,
                        [Next]_vars, mishaps' = 0, reruns' = 0
                 PROVE  JobsCovered'
      OBVIOUS
    <2>1. mishaps = 0 /\ ~Mishap
      BY MishapsGrow DEF Mishap, TypeOK
    <2>2. reruns = 0 /\ ~Rerun
      BY RerunsGrow DEF TypeOK, Rerun
    <2>3. Calm /\ FirstAttempt /\ Guarded /\ JobsCovered
      BY <2>1, <2>2
    <2>4. QED
      BY <2>1, <2>2, <2>3, CoveredStep
  <1>3. QED
    BY <1>1, <1>2, InitType, TypeStep, CalmWithoutMishap, FirstAlways, AloneAlways, PTL DEF Spec
-----------------------------------------------------------------------------
(* The reader beside it: the phase it looks at has a trace as long as it    *)
(* takes the job for a running one, and an alarm has a line in the log.     *)
Alarm == "running_job_without_tmux_window" \in conflicts
SeenCovered ==
  HasSeen =>
    /\ file.state # "none"
    /\ seen.job.phase = "conflict-resolve" => resolvers = 1
    /\ seen.job.state \in {"done", "blocked"} /\ reader = "label"
          => pc \in {"idle", "list"} /\ labels = {seen.job.state}
    /\ Running(seen.job) => Covered(seen.job.phase)
    /\ Running(seen.job) /\ ~seen.window /\ reader \notin {"label", "window"}
          => Ended(seen.job.phase)
    /\ Alarm => "command not found" \in log[seen.job.phase]

(* The steps of the job leave alone what a waiting reader relies on.        *)
LEMMA FileStays ==
  ASSUME TypeOK, Calm, ~Mishap, [Next]_vars, file.state # "none"
  PROVE  file'.state # "none"
  <1>1. CASE UNCHANGED file
    BY <1>1
  <1>2. CASE SaveJob
    BY <1>2 DEF SaveJob, WriteState, Goto, Calm, JobHeld
  <1>3. CASE SaveStartedJob
    BY <1>3 DEF SaveStartedJob, Calm, JobHeld, Beginning
  <1>4. CASE Daemon
    BY <1>1, <1>2, <1>3, <1>4 DEF Daemon, Poll, CheckRateLimit, ResumeCodex, CheckStartup,
       CheckReady, ValidateResolution, CommitAll, MergeBase, ResolveConflict, PushBranch,
       CreateDraftPR, StripForDone, PutDone, StripForBlocked, PutBlocked, ListReadyIssues,
       ClaimIssue, PrepareWorktree, StartJob
  <1>5. QED
    BY <1>1, <1>4 DEF Next, Crash, Codex, BaseMoves, Rerun, vars, daemonVars

LEMMA ResolverStays ==
  ASSUME TypeOK, Calm, FirstAttempt, [Next]_vars, file.state # "none", resolvers = 1
  PROVE  resolvers' = 1
  <1>1. CASE UNCHANGED resolvers
    BY <1>1
  <1>2. CASE StartJob
    <2>1. pc = "start"
      BY <1>2 DEF StartJob
    <2>2. QED
      BY <2>1, JobFields DEF FirstAttempt, Beginning
  <1>3. CASE ResolveConflict
    <2>1. resolvers = mem.conflicts
      BY <1>3 DEF ResolveConflict, Calm, ResolversCounted, Completing
    <2>2. ~ConflictRetryLeft
      BY <2>1 DEF ConflictRetryLeft
    <2>3. QED
      BY <1>1, <1>3, <2>2, Zenon DEF ResolveConflict
  <1>4. CASE Daemon
    BY <1>1, <1>2, <1>3, <1>4 DEF Daemon, Poll, CheckRateLimit, ResumeCodex, SaveJob,
       CheckStartup, CheckReady, ValidateResolution, CommitAll, MergeBase, PushBranch,
       CreateDraftPR, StripForDone, PutDone, StripForBlocked, PutBlocked, ListReadyIssues,
       ClaimIssue, PrepareWorktree, SaveStartedJob
  <1>5. QED
    BY <1>1, <1>4 DEF Next, Crash, Codex, BaseMoves, Rerun, vars

(* An issue that is done or blocked is left alone.                          *)
LEMMA EndStays ==
  ASSUME TypeOK, Calm, reruns = 0, ~Mishap, ~Rerun, [Next]_vars,
         pc \in {"idle", "list"}, NEW end \in {"done", "blocked"}, labels = {end}
  PROVE  pc' \in {"idle", "list"} /\ labels' = labels
  <1>1. ~Running(file)
    BY DEF Calm, LabelsTell, Tells, Running, ManagedLabels
  <1>2. CASE Poll
    BY <1>1, <1>2 DEF Poll
  <1>3. CASE ListReadyIssues
    BY <1>3 DEF ListReadyIssues, Goto
  <1>4. CASE Codex \/ BaseMoves \/ UNCHANGED vars
    BY <1>4 DEF Codex, BaseMoves, vars, daemonVars
  <1>5. Daemon => Poll \/ ListReadyIssues
    BY DEF Daemon, CheckRateLimit, ResumeCodex, SaveJob, CheckStartup, CheckReady,
       ValidateResolution, CommitAll, MergeBase, ResolveConflict, PushBranch, CreateDraftPR,
       StripForDone, PutDone, StripForBlocked, PutBlocked, ClaimIssue, PrepareWorktree,
       StartJob, SaveStartedJob, Goto
  <1>6. QED
    BY <1>2, <1>3, <1>4, <1>5 DEF Next, Crash

LEMMA JobSeen ==
  ASSUME TypeOK, ReaderTypeOK, Calm, FirstAttempt, Guarded, JobsCovered, SeenCovered,
         CodexMayFail = FALSE, reruns = 0, ~Mishap, ~Rerun, [Next]_vars,
         UNCHANGED <<reader, seen, conflicts, runtime>>
  PROVE  SeenCovered'
  <1> SUFFICES ASSUME HasSeen PROVE SeenCovered'
    BY DEF SeenCovered, HasSeen
  <1>1. PICK phase \in Phases : phase = seen.job.phase
    BY DEF ReaderTypeOK, Jobs
  <1>2. /\ file.state # "none" /\ file # NoJob
        /\ phase = "conflict-resolve" => resolvers = 1
    BY <1>1, JobFields DEF SeenCovered
  <1>3. Keeps(phase)
    BY <1>2, NotCleared, NextKeeps DEF JobsCovered
  <1>4. file'.state # "none"
    BY <1>2, FileStays
  <1>5. phase = "conflict-resolve" => resolvers' = 1
    BY <1>2, ResolverStays
  <1>6. seen.job.state \in {"done", "blocked"} /\ reader = "label"
          => pc' \in {"idle", "list"} /\ labels' = {seen.job.state}
    <2> SUFFICES ASSUME seen.job.state \in {"done", "blocked"}, reader = "label"
                 PROVE  pc' \in {"idle", "list"} /\ labels' = {seen.job.state}
      OBVIOUS
    <2>1. PICK end \in {"done", "blocked"} : end = seen.job.state
      OBVIOUS
    <2>2. pc \in {"idle", "list"} /\ labels = {end}
      BY <2>1 DEF SeenCovered
    <2>3. QED
      BY <2>1, <2>2, EndStays
  <1>7. /\ Running(seen.job) => Covered(phase)'
        /\ Running(seen.job) /\ ~seen.window /\ reader \notin {"label", "window"}
              => Ended(phase)'
        /\ Alarm => "command not found" \in log'[phase]
    BY <1>1, <1>3 DEF SeenCovered, Keeps
  <1>8. seen' = seen /\ reader' = reader /\ Alarm' = Alarm
    BY DEF Alarm
  <1>9. QED
    BY <1>1, <1>4, <1>5, <1>6, <1>7, <1>8 DEF SeenCovered, Running, Covered, Ended

(* The steps of the reader.                                                 *)
LEMMA ReaderSeen ==
  ASSUME TypeOK, ReaderTypeOK, SeenJob, Calm, FirstAttempt, JobsCovered, SeenCovered,
         Target = "wsl", reruns = 0, Reader
  PROVE  SeenCovered'
  <1>0. /\ UNCHANGED <<pc, file, labels, live, lastMessage, log, resolvers>>
        /\ \A phase \in Phases : Covered(phase)' = Covered(phase) /\ Ended(phase)' = Ended(phase)
    BY DEF Reader, ReadState, ReadLabel, ReadWindow, DetectConflicts, ReportRuntime, vars,
       daemonVars, codexVars, Covered, Ended
  <1>1. CASE ReadState
    <2>1. /\ reader' = "label" /\ seen'.job = file /\ ~Alarm'
          /\ file.state \notin {"none", "unreadable"}
      BY <1>1 DEF ReadState, Alarm
    <2>2. PICK phase \in Phases : phase = file.phase
      BY DEF TypeOK, Jobs
    <2>3. Running(file) => Covered(phase)
      BY <2>2 DEF JobsCovered, Current
    <2>4. file.state \in {"done", "blocked"} => pc \in {"idle", "list"} /\ labels = {file.state}
      <3> SUFFICES ASSUME file.state \in {"done", "blocked"}
                   PROVE  pc \in {"idle", "list"} /\ labels = {file.state}
        OBVIOUS
      <3>1. file # NoJob
        BY JobFields
      <3>2. pc \in {"idle", "list"}
        BY <3>1 DEF Calm, FileBehind, FirstAttempt, TypeOK, PCs, Judging, Completing, Beginning,
           Blocking
      <3>3. labels = {file.state} \cap ManagedLabels
        BY <3>2 DEF Calm, LabelsTell, Tells
      <3>4. QED
        BY <3>2, <3>3 DEF ManagedLabels
    <2>5. phase = "conflict-resolve" => resolvers = 1
      BY <2>2 DEF FirstAttempt
    <2>6. QED
      BY <1>0, <2>1, <2>2, <2>3, <2>4, <2>5 DEF SeenCovered, Running, Covered
  <1>2. CASE ReadLabel
    <2>1. /\ HasSeen /\ reader = "label" /\ reader' = "window" /\ seen.job.state \in ManagedLabels
          /\ Alarm' => Alarm
      BY <1>2 DEF ReadLabel, HasSeen, SeenJob, Alarm
    <2>2. CASE seen' = seen
      BY <1>0, <2>1, <2>2 DEF SeenCovered, Running, Covered, Ended
    <2>3. CASE /\ GitHubState \notin {"none", seen.job.state}
               /\ seen' = [seen EXCEPT !.job.state = GitHubState]
      <3>1. seen'.job.phase = seen.job.phase /\ seen'.job.state = GitHubState
        BY <2>3, GitHubType, SeenEdits
      <3>2. seen.job.state \in {"done", "blocked"} => GitHubState = seen.job.state
        BY <2>1 DEF SeenCovered, GitHubState
      <3>3. Running(seen.job)
        BY <2>1, <2>3, <3>2 DEF ManagedLabels, Running
      <3>4. QED
        BY <1>0, <2>1, <3>1, <3>3 DEF SeenCovered, Running, Covered, Ended
    <2>4. QED
      BY <1>2, <2>2, <2>3 DEF ReadLabel
  <1>3. CASE ReadWindow
    <2>1. /\ HasSeen /\ reader = "window" /\ reader' = "conflicts" /\ Alarm' = Alarm
          /\ WindowExists \in BOOLEAN /\ seen.job.state \in ManagedLabels
      BY <1>3 DEF ReadWindow, WindowExists, HasSeen, SeenJob, Alarm
    <2>2. seen'.job = seen.job /\ seen'.window = WindowExists
      BY <1>3, <2>1, SeenEdits DEF ReadWindow
    <2>3. Running(seen.job) /\ ~WindowExists => Ended(seen.job.phase)
      BY <2>1 DEF SeenCovered, Covered, WindowExists
    <2>4. QED
      BY <1>0, <2>1, <2>2, <2>3 DEF SeenCovered, Running, Covered, Ended
  <1>4. CASE DetectConflicts
    <2>1. /\ HasSeen /\ reader = "conflicts" /\ reader' = "runtime" /\ seen' = seen
          /\ Alarm' => Alarm \/ WindowLost
      BY <1>4 DEF DetectConflicts, HasSeen, Alarm
    <2>2. WindowLost => "command not found" \in log[seen.job.phase]
      <3> SUFFICES ASSUME WindowLost PROVE "command not found" \in log[seen.job.phase]
        OBVIOUS
      <3>1. log[seen.job.phase] # {}
        BY <2>1 DEF WindowLost, MessageThere, SeenCovered, Ended
      <3>2. log[seen.job.phase] \subseteq LogLines
        BY DEF TypeOK, ReaderTypeOK, Jobs
      <3>3. QED
        BY <3>1, <3>2 DEF WindowLost, RateLimited, LogLines
    <2>3. QED
      BY <1>0, <2>1, <2>2 DEF SeenCovered, Running, Covered, Ended
  <1>5. CASE ReportRuntime
    <2>1. HasSeen /\ reader = "runtime" /\ reader' = "file" /\ seen' = seen /\ Alarm' = Alarm
      BY <1>5 DEF ReportRuntime, HasSeen, Alarm
    <2>2. QED
      BY <1>0, <2>1 DEF SeenCovered, Running, Covered, Ended
  <1>6. QED
    BY <1>1, <1>2, <1>3, <1>4, <1>5 DEF Reader

LEMMA SeenStep ==
  ASSUME Target = "wsl", CodexMayFail = FALSE
  PROVE  /\ TypeOK /\ ReaderTypeOK /\ SeenJob /\ (mishaps = 0 => Calm)
         /\ (mishaps <= 1 => OneLive /\ Guarded)
         /\ (mishaps = 0 /\ reruns = 0 => FirstAttempt)
         /\ (mishaps = 0 /\ reruns = 0 => JobsCovered)
         /\ (mishaps = 0 /\ reruns = 0 => SeenCovered) /\ [StatusNext]_allVars
         => (mishaps = 0 /\ reruns = 0 => SeenCovered)'
  <1> SUFFICES ASSUME TypeOK, ReaderTypeOK, SeenJob, mishaps = 0 => Calm,
                      mishaps <= 1 => OneLive /\ Guarded,
                      mishaps = 0 /\ reruns = 0 => FirstAttempt,
                      mishaps = 0 /\ reruns = 0 => JobsCovered,
                      mishaps = 0 /\ reruns = 0 => SeenCovered,
                      [StatusNext]_allVars, mishaps' = 0, reruns' = 0
               PROVE  SeenCovered'
    OBVIOUS
  <1>1. [Next]_vars
    BY ReaderChangesNothing
  <1>2. mishaps = 0 /\ ~Mishap
    BY <1>1, MishapsGrow DEF Mishap, TypeOK
  <1>3. reruns = 0 /\ ~Rerun
    BY <1>1, RerunsGrow DEF TypeOK, Rerun
  <1>4. Calm /\ Guarded /\ FirstAttempt /\ JobsCovered /\ SeenCovered
    BY <1>2, <1>3
  <1>5. CASE Reader
    BY <1>3, <1>4, <1>5, ReaderSeen
  <1>6. CASE UNCHANGED <<reader, seen, conflicts, runtime>>
    BY <1>1, <1>2, <1>3, <1>4, <1>6, JobSeen
  <1>7. QED
    BY <1>5, <1>6 DEF StatusNext, allVars, readerVars

(* An alarm about a window has a reason in Codex' log.  On Windows none is  *)
(* ever raised.                                                             *)
AlarmHasReason == HasSeen /\ Alarm => "command not found" \in log[seen.job.phase]

LEMMA AlarmOnWSL ==
  ASSUME Target = "wsl", CodexMayFail = FALSE
  PROVE  StatusSpec => [](mishaps = 0 /\ reruns = 0 => AlarmHasReason)
  <1>1. StatusInit => SeenCovered
    BY DEF StatusInit, SeenCovered, HasSeen
  <1>2. SeenCovered => AlarmHasReason
    BY DEF SeenCovered, AlarmHasReason
  <1>3. QED
    BY <1>1, <1>2, StatusIsJob, TypeCorrect, ReaderTypeCorrect, CalmWithoutMishap, AloneAlways,
       FirstAlways, CoveredAlways, SeenStep, PTL DEF StatusSpec, allVars

LEMMA NoAlarmOnWindows ==
  ASSUME Target # "wsl"
  PROVE  StatusSpec => []~Alarm
  <1>1. StatusInit => ~Alarm
    BY DEF StatusInit, Alarm
  <1>2. ~Alarm /\ [StatusNext]_allVars => ~Alarm'
    <2> SUFFICES ASSUME ~Alarm, [StatusNext]_allVars PROVE ~Alarm'
      OBVIOUS
    <2>1. CASE UNCHANGED conflicts
      BY <2>1 DEF Alarm
    <2>2. CASE DetectConflicts
      BY <2>2 DEF DetectConflicts, WindowLost, Alarm
    <2>3. CASE ReadState \/ ReadLabel
      BY <2>3 DEF ReadState, ReadLabel, Alarm
    <2>4. QED
      BY <2>1, <2>2, <2>3 DEF StatusNext, Reader, ReadWindow, ReportRuntime, allVars, readerVars
  <1>3. QED
    BY <1>1, <1>2, PTL DEF StatusSpec, allVars

(* Status cries wolf only for a reason, between whichever steps of daemon,  *)
(* Codex and base it reads, as long as Codex always leaves a message or a   *)
(* known line: label and state file differ only if the daemon was at work,  *)
(* and a window is missed only of a Codex that was not found.  It holds     *)
(* until a call fails or the operator hands the issue back.                 *)
THEOREM AlarmsHaveReasons ==
  ASSUME CodexMayFail = FALSE
  PROVE  StatusSpec => [](mishaps = 0 /\ reruns = 0 => AlarmsAreReal)
  <1>1. SeenSame /\ AlarmHasReason => AlarmsAreReal
    BY DEF SeenSame, AlarmHasReason, AlarmsAreReal, Reported, HasSeen, Alarm
  <1>2. CASE Target = "wsl"
    BY <1>1, <1>2, SameAlways, AlarmOnWSL, PTL
  <1>3. CASE Target # "wsl"
    <2>1. ~Alarm => AlarmHasReason
      BY DEF AlarmHasReason
    <2>2. QED
      BY <1>1, <1>3, <2>1, SameAlways, NoAlarmOnWindows, PTL
  <1>4. QED
    BY <1>2, <1>3
=============================================================================
