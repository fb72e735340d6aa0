--------------------------- MODULE IssueLifeProofs ---------------------------
(***************************************************************************)
(* Further proofs about the life of one issue.  Without a mishap: labels   *)
(* and state file tell the same, a job has one resolver, the daemon        *)
(* publishes no markers it committed, the job follows its lifecycle.  With *)
(* one mishap: no two Codex sessions work at once.                         *)
(***************************************************************************)
EXTENDS IssueJobProofs, FiniteSetTheorems

(* The stages of a poll: what becomes of the session, the completion of its *)
(* work, the start of a new job, the way out of every failed stage.         *)
Judging == {"resume?", "resume", "startup?", "ready?"}
Completing == {"validate", "commit", "merge", "conflict", "push", "pr",
               "strip_for_done", "put_done"}
Beginning == {"prepare", "start", "save_start"}
Blocking == {"strip_for_blocked", "put_blocked"}

(* The labels tell the state of a job, or the operator has handed it back.  *)
Tells(job) == \/ labels = {job.state} \cap ManagedLabels
              \/ reruns > 0 /\ job.state = "blocked" /\ labels = {}

(* Where the three records of a job stand at each stage: the daemon's, the  *)
(* state file, which is written last, and the labels; and how many resolvers *)
(* they count.                                                              *)
JobHeld ==
    /\ pc \in Judging \cup Completing \cup Beginning \cup Blocking => mem.state = "running"
    /\ pc \in Judging => mem = file
    /\ pc = "save" => mem.state \in {"running", "done", "blocked"}
FileBehind ==
    /\ file.state # "unreadable"
    /\ pc \in Judging \cup Completing => file.state = "running"
    /\ pc = "list" => file.state # "running"
    /\ pc \in Beginning \cup {"claim"} => file.state \in {"none", "blocked"}
    /\ pc \in Blocking => file.state # "done"
    /\ pc = "save" => file.state # "done" /\ (mem.state # "blocked" => file.state = "running")
LabelsTell ==
    /\ pc \in {"idle", "list"} => Tells(file)
    /\ pc = "save" => Tells(mem)
    /\ pc \in Judging \cup Completing \cup Beginning \cup {"strip_for_blocked"} =>
          labels = IF pc = "put_done" THEN {} ELSE {"running"}
    /\ pc \in {"put_blocked", "claim"} => labels = {}
PRLast ==
    pr => \/ pc \in {"strip_for_done", "put_done"}
          \/ pc = "save" /\ mem.state = "done"
          \/ pc \in {"idle", "list"} /\ file.state = "done"
ResolversCounted ==
    /\ resolvers <= 1
    /\ pc \in Judging \cup Completing \/ (pc = "save" /\ mem.state = "running")
          => resolvers = mem.conflicts
    /\ pc \in Beginning => mem.conflicts = 0
    /\ pc = "save_start" => resolvers = 0
    /\ pc = "idle" /\ Running(file) => resolvers = file.conflicts

Calm == JobHeld /\ FileBehind /\ LabelsTell /\ PRLast /\ ResolversCounted

LEMMA JobFields ==
  /\ \A state : /\ Job(state).state = state /\ Job(state).phase = ""
                /\ Job(state).conflicts = 0
  /\ NoJob = Job("none") /\ Unreadable = Job("unreadable")
  BY DEF Job, NoJob, Unreadable

LEMMA JobEdits ==
  ASSUME NEW j \in Jobs
  PROVE  /\ \A phase : /\ [j EXCEPT !.phase = phase].state = j.state
                       /\ [j EXCEPT !.phase = phase].phase = phase
                       /\ [j EXCEPT !.phase = phase].conflicts = j.conflicts
         /\ [j EXCEPT !.state = "done"].state = "done"
         /\ \A phase, n :
              /\ [j EXCEPT !.phase = phase, !.conflicts = n].state = j.state
              /\ [j EXCEPT !.phase = phase, !.conflicts = n].phase = phase
              /\ [j EXCEPT !.phase = phase, !.conflicts = n].conflicts = n
  BY DEF Jobs

LEMMA MishapsGrow == [Next]_vars => mishaps' = mishaps \/ Mishap
  <1> SUFFICES ASSUME [Next]_vars PROVE mishaps' = mishaps \/ Mishap
    OBVIOUS
  <1> USE DEF envVars, NoMishap
  <1>1. CASE Poll \/ CheckRateLimit \/ CheckStartup \/ CheckReady \/ ValidateResolution \/ CommitAll
    BY <1>1 DEF Poll, CheckRateLimit, CheckStartup, CheckReady, ValidateResolution, CommitAll
  <1>2. CASE MergeBase \/ ResolveConflict \/ PushBranch \/ CreateDraftPR \/ ListReadyIssues
             \/ PrepareWorktree \/ StartJob
    BY <1>2 DEF MergeBase, ResolveConflict, PushBranch, CreateDraftPR, ListReadyIssues,
                PrepareWorktree, StartJob
  <1>3. CASE ResumeCodex \/ SaveJob \/ StripForDone \/ PutDone \/ StripForBlocked
    BY <1>3 DEF ResumeCodex, SaveJob, WriteState, StripForDone, PutDone, StripForBlocked,
                RemoveLabels
  <1>4. CASE PutBlocked \/ ClaimIssue \/ SaveStartedJob \/ Crash
    BY <1>4 DEF PutBlocked, ClaimIssue, SaveStartedJob, Crash
  <1>5. CASE Codex \/ BaseMoves \/ Rerun \/ UNCHANGED vars
    BY <1>5 DEF Codex, BaseMoves, Rerun, vars
  <1>6. QED
    BY <1>1, <1>2, <1>3, <1>4, <1>5 DEF Next, Daemon

LEMMA RerunsGrow == [Next]_vars => reruns' = reruns \/ Rerun
  <1> SUFFICES ASSUME [Next]_vars PROVE reruns' = reruns \/ Rerun
    OBVIOUS
  <1> USE DEF envVars
  <1>1. CASE Poll \/ CheckRateLimit \/ CheckStartup \/ CheckReady \/ ValidateResolution \/ CommitAll
    BY <1>1 DEF Poll, CheckRateLimit, CheckStartup, CheckReady, ValidateResolution, CommitAll
  <1>2. CASE MergeBase \/ ResolveConflict \/ PushBranch \/ CreateDraftPR \/ ListReadyIssues
             \/ PrepareWorktree \/ StartJob
    BY <1>2 DEF MergeBase, ResolveConflict, PushBranch, CreateDraftPR, ListReadyIssues,
                PrepareWorktree, StartJob
  <1>3. CASE ResumeCodex \/ SaveJob \/ StripForDone \/ PutDone \/ StripForBlocked
    BY <1>3 DEF ResumeCodex, SaveJob, StripForDone, PutDone, StripForBlocked
  <1>4. CASE PutBlocked \/ ClaimIssue \/ SaveStartedJob \/ Crash
    BY <1>4 DEF PutBlocked, ClaimIssue, SaveStartedJob, Crash
  <1>5. CASE Codex \/ BaseMoves \/ UNCHANGED vars
    BY <1>5 DEF Codex, BaseMoves, vars
  <1>6. QED
    BY <1>1, <1>2, <1>3, <1>4, <1>5 DEF Next, Daemon

LEMMA InitCalm == Init => Calm
  <1> SUFFICES ASSUME Init PROVE Calm
    OBVIOUS
  <1>1. /\ pc = "idle" /\ file.state = "none" /\ labels = {} /\ pr = FALSE /\ resolvers = 0
    BY JobFields DEF Init
  <1>2. QED
    BY <1>1 DEF Calm, JobHeld, FileBehind, LabelsTell, PRLast, ResolversCounted, Judging,
       Completing, Beginning, Blocking, Tells, Running, ManagedLabels

(* Steps that only decide what the poll does next.                          *)
LEMMA JudgingCalm ==
  ASSUME TypeOK, Calm,
         Poll \/ CheckRateLimit \/ CheckStartup \/ CheckReady \/ ListReadyIssues
  PROVE  Calm'
  <1> USE DEF Calm, Goto, Block, Judging, Completing, Beginning, Blocking, envVars
  <1>1. CASE Poll
    <2> USE <1>1, JobFields DEF Poll, Running
    <2>1. JobHeld'
      BY DEF JobHeld
    <2>2. FileBehind'
      BY DEF FileBehind
    <2>3. LabelsTell'
      BY DEF LabelsTell, Tells, ManagedLabels
    <2>4. PRLast'
      BY DEF PRLast, FileBehind
    <2>5. ResolversCounted'
      BY DEF ResolversCounted
    <2>6. QED
      BY <2>1, <2>2, <2>3, <2>4, <2>5
  <1>2. CASE CheckRateLimit \/ CheckStartup \/ CheckReady
    <2> USE <1>2 DEF CheckRateLimit, CheckStartup, CheckReady, Running
    <2>1. JobHeld'
      BY DEF JobHeld
    <2>2. FileBehind'
      BY DEF FileBehind
    <2>3. LabelsTell'
      BY DEF LabelsTell, Tells, ManagedLabels, FileBehind
    <2>4. PRLast'
      BY DEF PRLast
    <2>5. ResolversCounted'
      BY DEF ResolversCounted, JobHeld
    <2>6. QED
      BY <2>1, <2>2, <2>3, <2>4, <2>5
  <1>3. CASE ListReadyIssues
    <2> USE <1>3 DEF ListReadyIssues, Running
    <2>1. JobHeld'
      BY DEF JobHeld
    <2>2. FileBehind'
      BY DEF FileBehind, LabelsTell, Tells, ManagedLabels, TypeOK, Jobs
    <2>3. LabelsTell'
      BY DEF LabelsTell, Tells
    <2>4. PRLast'
      BY DEF PRLast, LabelsTell, Tells, ManagedLabels
    <2>5. ResolversCounted'
      BY DEF ResolversCounted, FileBehind
    <2>6. QED
      BY <2>1, <2>2, <2>3, <2>4, <2>5
  <1>4. QED
    BY <1>1, <1>2, <1>3

(* The rest of a poll for a running job.                                    *)
LEMMA CompletingCalm ==
  ASSUME TypeOK, Calm, ~Mishap,
         \/ ResumeCodex \/ ValidateResolution \/ CommitAll \/ MergeBase \/ ResolveConflict
         \/ PushBranch \/ CreateDraftPR
  PROVE  Calm'
  <1> USE DEF Calm, Goto, Block, Judging, Completing, Beginning, Blocking, envVars
  <1>1. CASE ResumeCodex
    <2> USE <1>1 DEF ResumeCodex
    <2>1. JobHeld'
      BY DEF JobHeld, FileBehind
    <2>2. FileBehind'
      BY DEF FileBehind, JobHeld
    <2>3. LabelsTell'
      BY DEF LabelsTell, Tells, ManagedLabels, JobHeld
    <2>4. PRLast'
      BY DEF PRLast
    <2>5. ResolversCounted'
      BY DEF ResolversCounted, JobHeld, Running
    <2>6. QED
      BY <2>1, <2>2, <2>3, <2>4, <2>5
  <1>2. CASE ValidateResolution
    <2>1. mem'.state = mem.state /\ mem'.conflicts = mem.conflicts
      <3>1. mem' = mem \/ mem' = [mem EXCEPT !.phase = ""]
        BY <1>2, Zenon DEF ValidateResolution
      <3>2. mem \in Jobs
        BY DEF TypeOK
      <3>3. /\ [mem EXCEPT !.phase = ""].state = mem.state
            /\ [mem EXCEPT !.phase = ""].conflicts = mem.conflicts
        BY <3>2, JobEdits
      <3>4. QED
        BY <3>1, <3>3, Zenon
    <2> USE <1>2, <2>1 DEF ValidateResolution
    <2>2. JobHeld'
      BY DEF JobHeld
    <2>3. FileBehind'
      BY DEF FileBehind
    <2>4. LabelsTell'
      BY DEF LabelsTell
    <2>5. PRLast'
      BY DEF PRLast
    <2>6. ResolversCounted'
      BY DEF ResolversCounted
    <2>7. QED
      BY <2>2, <2>3, <2>4, <2>5, <2>6
  <1>3. CASE CommitAll \/ MergeBase \/ PushBranch \/ CreateDraftPR
    <2> USE <1>3 DEF CommitAll, MergeBase, PushBranch, CreateDraftPR
    <2>1. JobHeld'
      BY DEF JobHeld
    <2>2. FileBehind'
      BY DEF FileBehind
    <2>3. LabelsTell'
      BY DEF LabelsTell
    <2>4. PRLast'
      BY DEF PRLast
    <2>5. ResolversCounted'
      BY DEF ResolversCounted
    <2>6. QED
      BY <2>1, <2>2, <2>3, <2>4, <2>5
  <1>4. CASE ResolveConflict
    <2> DEFINE resolving == [mem EXCEPT !.phase = "conflict-resolve",
                                        !.conflicts = mem.conflicts + 1]
    <2>0. \/ pc' = "strip_for_blocked" /\ UNCHANGED <<mem, resolvers>>
          \/ /\ pc' = "save" /\ resolvers' = resolvers + 1
             /\ mem' = resolving /\ mem.conflicts < 1
      BY <1>4 DEF ResolveConflict, ConflictRetryLeft
    <2>1. resolving.state = mem.state /\ resolving.conflicts = mem.conflicts + 1
      <3>1. mem \in Jobs
        BY DEF TypeOK
      <3>2. QED
        BY <3>1, JobEdits
    <2> HIDE DEF resolving
    <2>2. /\ mem'.state = mem.state
          /\ \/ pc' = "strip_for_blocked" /\ UNCHANGED <<mem, resolvers>>
             \/ /\ pc' = "save" /\ resolvers' = resolvers + 1
                /\ mem'.conflicts = mem.conflicts + 1 /\ mem.conflicts < 1
      BY <2>0, <2>1
    <2>3. pc = "conflict" /\ UNCHANGED <<file, labels, pr, reruns>>
      BY <1>4 DEF ResolveConflict
    <2> USE <2>2, <2>3
    <2>4. JobHeld'
      BY DEF JobHeld
    <2>5. FileBehind'
      BY DEF FileBehind
    <2>6. LabelsTell'
      BY DEF LabelsTell, Tells, JobHeld, ManagedLabels
    <2>7. PRLast'
      BY DEF PRLast
    <2>8. ResolversCounted'
      <3>1. resolvers = mem.conflicts /\ mem.conflicts \in Nat
        BY DEF ResolversCounted, TypeOK, Jobs
      <3>2. QED
        BY <3>1 DEF ResolversCounted
    <2>9. QED
      BY <2>4, <2>5, <2>6, <2>7, <2>8
  <1>5. QED
    BY <1>1, <1>2, <1>3, <1>4

(* The writes at the end of a poll.                                         *)
LEMMA EndingCalm ==
  ASSUME TypeOK, Calm, ~Mishap,
         SaveJob \/ StripForDone \/ PutDone \/ StripForBlocked \/ PutBlocked
  PROVE  Calm'
  <1> USE DEF Calm, Goto, Block, Judging, Completing, Beginning, Blocking, envVars
  <1>1. CASE SaveJob
    <2> USE <1>1 DEF SaveJob, WriteState
    <2>1. JobHeld'
      BY DEF JobHeld
    <2>2. FileBehind'
      BY DEF FileBehind, JobHeld
    <2>3. LabelsTell'
      BY DEF LabelsTell, Tells
    <2>4. PRLast'
      BY DEF PRLast
    <2>5. ResolversCounted'
      BY DEF ResolversCounted, Running, JobHeld
    <2>6. QED
      BY <2>1, <2>2, <2>3, <2>4, <2>5
  <1>2. CASE StripForDone \/ StripForBlocked
    <2> USE <1>2 DEF StripForDone, StripForBlocked, RemoveLabels
    <2>1. JobHeld'
      BY DEF JobHeld
    <2>2. FileBehind'
      BY DEF FileBehind
    <2>3. LabelsTell'
      BY DEF LabelsTell
    <2>4. PRLast'
      BY DEF PRLast
    <2>5. ResolversCounted'
      BY DEF ResolversCounted
    <2>6. QED
      BY <2>1, <2>2, <2>3, <2>4, <2>5
  <1>3. CASE PutDone
    <2>1. /\ pc' = "save" /\ mem'.state = "done" /\ labels' = labels \cup {"done"}
          /\ pc = "put_done" /\ UNCHANGED <<file, pr, reruns, resolvers>>
      BY <1>3, JobEdits DEF PutDone, TypeOK
    <2> USE <2>1
    <2>2. JobHeld'
      BY DEF JobHeld
    <2>3. FileBehind'
      BY DEF FileBehind
    <2>4. LabelsTell'
      BY DEF LabelsTell, Tells, ManagedLabels
    <2>5. PRLast'
      BY DEF PRLast
    <2>6. ResolversCounted'
      BY DEF ResolversCounted
    <2>7. QED
      BY <2>2, <2>3, <2>4, <2>5, <2>6
  <1>4. CASE PutBlocked
    <2>1. mem # NoJob
      BY <1>4, JobFields DEF PutBlocked, JobHeld
    <2>2. /\ pc' = "save" /\ mem'.state = "blocked" /\ labels' = labels \cup {"blocked"}
          /\ pc = "put_blocked" /\ UNCHANGED <<file, pr, reruns, resolvers>>
      BY <1>4, <2>1, JobFields DEF PutBlocked
    <2> USE <2>2
    <2>3. JobHeld'
      BY DEF JobHeld
    <2>4. FileBehind'
      BY DEF FileBehind
    <2>5. LabelsTell'
      BY DEF LabelsTell, Tells, ManagedLabels
    <2>6. PRLast'
      BY DEF PRLast
    <2>7. ResolversCounted'
      BY DEF ResolversCounted
    <2>8. QED
      BY <2>3, <2>4, <2>5, <2>6, <2>7
  <1>5. QED
    BY <1>1, <1>2, <1>3, <1>4

(* A new job.                                                               *)
LEMMA BeginningCalm ==
  ASSUME TypeOK, Calm, ~Mishap,
         ClaimIssue \/ PrepareWorktree \/ StartJob \/ SaveStartedJob
  PROVE  Calm'
  <1> USE DEF Calm, Goto, Block, Judging, Completing, Beginning, Blocking, envVars
  <1>1. CASE ClaimIssue
    <2> USE <1>1, JobFields DEF ClaimIssue
    <2>1. JobHeld'
      BY DEF JobHeld
    <2>2. FileBehind'
      BY DEF FileBehind
    <2>3. LabelsTell'
      BY DEF LabelsTell
    <2>4. PRLast'
      BY DEF PRLast
    <2>5. ResolversCounted'
      BY DEF ResolversCounted
    <2>6. QED
      BY <2>1, <2>2, <2>3, <2>4, <2>5
  <1>2. CASE PrepareWorktree
    <2> USE <1>2 DEF PrepareWorktree
    <2>1. JobHeld'
      BY DEF JobHeld
    <2>2. FileBehind'
      BY DEF FileBehind
    <2>3. LabelsTell'
      BY DEF LabelsTell
    <2>4. PRLast'
      BY DEF PRLast
    <2>5. ResolversCounted'
      BY DEF ResolversCounted
    <2>6. QED
      BY <2>1, <2>2, <2>3, <2>4, <2>5
  <1>3. CASE StartJob
    <2> USE <1>3 DEF StartJob
    <2>1. JobHeld'
      BY DEF JobHeld
    <2>2. FileBehind'
      BY DEF FileBehind
    <2>3. LabelsTell'
      BY DEF LabelsTell
    <2>4. PRLast'
      BY DEF PRLast
    <2>5. ResolversCounted'
      <3>1. /\ pc = "start" /\ UNCHANGED <<mem, file>>
            /\ \/ pc' = "save_start" /\ resolvers' = 0
               \/ pc' = "strip_for_blocked" /\ resolvers' = resolvers
        OBVIOUS
      <3>2. QED
        BY ONLY <3>1, Calm DEF Calm, Judging, Completing, Beginning, ResolversCounted
    <2>6. QED
      BY <2>1, <2>2, <2>3, <2>4, <2>5
  <1>4. CASE SaveStartedJob
    <2> USE <1>4 DEF SaveStartedJob, Running
    <2>1. JobHeld'
      BY DEF JobHeld
    <2>2. FileBehind'
      BY DEF FileBehind, JobHeld
    <2>3. LabelsTell'
      BY DEF LabelsTell, Tells, JobHeld, ManagedLabels
    <2>4. PRLast'
      BY DEF PRLast
    <2>5. ResolversCounted'
      BY DEF ResolversCounted
    <2>6. QED
      BY <2>1, <2>2, <2>3, <2>4, <2>5
  <1>5. QED
    BY <1>1, <1>2, <1>3, <1>4

(* Codex, those who push to the base, the operator.                         *)
LEMMA OthersCalm ==
  ASSUME TypeOK, Calm, Codex \/ BaseMoves \/ Rerun \/ UNCHANGED vars
  PROVE  Calm'
  <1> USE DEF Calm, JobHeld, FileBehind, LabelsTell, PRLast, ResolversCounted
  <1>1. CASE UNCHANGED <<pc, mem, file, labels, pr, resolvers, reruns>>
    BY <1>1 DEF Tells, Running
  <1>2. CASE Rerun
    <2>1. UNCHANGED <<pc, mem, file, pr, resolvers>> /\ labels' = {} /\ reruns' > 0
          /\ "blocked" \in labels
      BY <1>2 DEF Rerun, daemonVars, TypeOK
    <2>2. LabelsTell'
      BY <2>1 DEF Tells, ManagedLabels
    <2>3. QED
      BY <2>1, <2>2 DEF Running
  <1>3. QED
    BY <1>1, <1>2 DEF Codex, BaseMoves, vars, daemonVars, envVars

(* As long as no mishap has happened.                                       *)
LEMMA CalmStep ==
  TypeOK /\ (mishaps = 0 => Calm) /\ [Next]_vars => (mishaps = 0 => Calm)'
  <1> SUFFICES ASSUME TypeOK, mishaps = 0 => Calm, [Next]_vars, mishaps' = 0
               PROVE  Calm'
    OBVIOUS
  <1>1. mishaps = 0 /\ ~Mishap
    BY MishapsGrow DEF Mishap, TypeOK
  <1>2. Calm
    BY <1>1
  <1>3. ~Crash
    BY <1>1 DEF Crash
  <1>4. QED
    BY <1>1, <1>2, <1>3, JudgingCalm, CompletingCalm, EndingCalm, BeginningCalm, OthersCalm
       DEF Next, Daemon

THEOREM CalmWithoutMishap == Spec => [](mishaps = 0 => Calm)
  <1>1. Init => (mishaps = 0 => Calm)
    BY InitCalm
  <1>2. QED
    BY <1>1, InitType, TypeStep, CalmStep, PTL DEF Spec
-----------------------------------------------------------------------------
LEMMA AtMostOne ==
  ASSUME NEW S, \A x, y \in S : x = y
  PROVE  Cardinality(S) <= 1
  <1>1. CASE S = {}
    BY <1>1, FS_EmptySet
  <1>2. CASE S # {}
    <2>1. PICK x \in S : TRUE
      BY <1>2
    <2>2. S = {x}
      BY <2>1
    <2>3. QED
      BY <2>2, FS_Singleton
  <1>3. QED
    BY <1>1, <1>2

(* The labels of the issue and the state file tell the same between polls,  *)
(* and at no time does the issue have two of the labels, until a call fails *)
(* or the operator takes a label off.                                       *)
THEOREM LabelsTellTheState == Spec => [](mishaps = 0 /\ reruns = 0 => LabelsMatchFile)
  <1>1. TypeOK /\ Calm /\ reruns = 0 => LabelsMatchFile
    <2> SUFFICES ASSUME TypeOK, Calm, reruns = 0 PROVE LabelsMatchFile
      OBVIOUS
    <2>1. \A x, y \in labels : x = y
      <3>1. CASE pc \in {"idle", "list", "save"}
        BY <3>1 DEF Calm, LabelsTell, Tells
      <3>2. CASE pc \in Judging \cup Completing \cup Beginning \cup {"strip_for_blocked"}
        BY <3>2 DEF Calm, LabelsTell
      <3>3. CASE pc \in {"put_blocked", "claim"}
        BY <3>3 DEF Calm, LabelsTell
      <3>4. QED
        BY <3>1, <3>2, <3>3 DEF TypeOK, PCs, Judging, Completing, Beginning
    <2>2. pc = "idle" => labels = {file.state} \cap ManagedLabels
      BY DEF Calm, LabelsTell, Tells
    <2>3. QED
      BY <2>1, <2>2, AtMostOne DEF LabelsMatchFile
  <1>2. QED
    BY <1>1, InitType, TypeStep, CalmWithoutMishap, PTL DEF Spec

(* A job starts one resolver at most, even when the base moves again and    *)
(* when the operator has handed the issue back before, until a call fails:  *)
(* the count is in the state file.                                          *)
THEOREM OneResolver == Spec => [](mishaps = 0 => OneResolverPerJob)
  <1>1. Calm => OneResolverPerJob
    BY DEF Calm, ResolversCounted, OneResolverPerJob
  <1>2. QED
    BY <1>1, CalmWithoutMishap, PTL
-----------------------------------------------------------------------------
(* Where conflict markers can be: in the worktree of a job that is being    *)
(* resolved, or of a blocked one.                                           *)
Resolving(job) == job.state = "running" /\ job.phase = "conflict-resolve"
MarkersSeen ==
    /\ tree.head # "marked" /\ pushed # "marked"
    /\ tree.markers =>
          \/ pc \in Judging \cup {"validate"} /\ Resolving(mem)
          \/ pc \in Blocking \cup {"conflict"}
          \/ pc = "save" /\ (Resolving(mem) \/ mem.state = "blocked")
          \/ pc = "idle" /\ (Resolving(file) \/ file.state = "blocked")
          \/ pc = "list" /\ file.state = "blocked"

LEMMA TreeEdits ==
  ASSUME NEW t \in Trees
  PROVE  /\ t.head \in Heads /\ t.markers \in BOOLEAN
         /\ \A b : /\ [t EXCEPT !.current = b].head = t.head
                   /\ [t EXCEPT !.current = b].markers = t.markers
                   /\ [t EXCEPT !.exists = TRUE, !.current = b].head = t.head
                   /\ [t EXCEPT !.exists = TRUE, !.current = b].markers = t.markers
         /\ [t EXCEPT !.current = TRUE, !.dirty = TRUE, !.unmerged = TRUE,
                      !.markers = TRUE].head = t.head
  BY DEF Trees, Heads

LEMMA InitMarkers == Init => MarkersSeen
  BY DEF Init, MarkersSeen

(* The steps that leave worktree and remote branch alone.                   *)
LEMMA MarkersKept ==
  ASSUME TypeOK, Calm, MarkersSeen, reruns = 0, ~Mishap, UNCHANGED <<tree, pushed>>,
         \/ Poll \/ CheckRateLimit \/ ResumeCodex \/ SaveJob \/ CheckStartup \/ CheckReady
         \/ ValidateResolution \/ ResolveConflict \/ CreateDraftPR \/ StripForDone \/ PutDone
         \/ StripForBlocked \/ PutBlocked \/ ListReadyIssues \/ ClaimIssue \/ StartJob
         \/ SaveStartedJob
  PROVE  MarkersSeen'
  <1> USE DEF MarkersSeen, Goto, Block, Judging, Completing, Beginning, Blocking, Resolving
  <1>1. CASE ~tree.markers
    BY <1>1
  <1>2. CASE tree.markers
    <2> USE <1>2
    <2>1. CASE Poll
      BY <2>1 DEF Poll, Running
    <2>2. CASE CheckRateLimit \/ CheckStartup \/ CheckReady
      BY <2>2 DEF CheckRateLimit, CheckStartup, CheckReady, Calm, JobHeld
    <2>3. CASE ResumeCodex
      BY <2>3 DEF ResumeCodex, Calm, JobHeld
    <2>4. CASE SaveJob
      BY <2>4 DEF SaveJob, WriteState
    <2>5. CASE ValidateResolution
      BY <2>5 DEF ValidateResolution, ResolutionValid
    <2>6. CASE ResolveConflict
      <3>1. mem.state = "running" /\ mem \in Jobs
        BY <2>6 DEF ResolveConflict, Calm, JobHeld, TypeOK
      <3>2. CASE pc' = "strip_for_blocked"
        BY <3>2
      <3>3. CASE /\ pc' = "save"
                 /\ mem' = [mem EXCEPT !.phase = "conflict-resolve",
                                       !.conflicts = mem.conflicts + 1]
        BY <3>1, <3>3, JobEdits
      <3>4. QED
        BY <2>6, <3>2, <3>3 DEF ResolveConflict
    <2>7. CASE CreateDraftPR \/ StripForDone \/ PutDone \/ ClaimIssue \/ StartJob \/ SaveStartedJob
      BY <2>7 DEF CreateDraftPR, StripForDone, PutDone, ClaimIssue, StartJob, SaveStartedJob
    <2>8. CASE StripForBlocked
      BY <2>8 DEF StripForBlocked
    <2>9. CASE PutBlocked
      <3>1. mem # NoJob
        <4>1. pc = "put_blocked"
          BY <2>9 DEF PutBlocked
        <4>2. mem.state = "running"
          BY <4>1 DEF Calm, JobHeld
        <4>3. NoJob.state = "none"
          BY JobFields
        <4>4. QED
          BY <4>2, <4>3
      <3>2. pc' = "save" /\ mem'.state = "blocked"
        BY <2>9, <3>1, JobFields DEF PutBlocked
      <3>3. QED
        BY <3>2
    <2>10. CASE ListReadyIssues
      <3>1. pc = "list" /\ file.state = "blocked" /\ file' = file
        BY <2>10 DEF ListReadyIssues
      <3>2. labels # {}
        BY <3>1 DEF Calm, LabelsTell, Tells, ManagedLabels
      <3>3. QED
        BY <2>10, <3>1, <3>2 DEF ListReadyIssues
    <2>11. QED
      BY <2>1, <2>2, <2>3, <2>4, <2>5, <2>6, <2>7, <2>8, <2>9, <2>10
  <1>3. QED
    BY <1>1, <1>2

(* The steps of the daemon that touch worktree or remote branch.            *)
LEMMA MarkersTouched ==
  ASSUME TypeOK, Calm, MarkersSeen, CommitAll \/ MergeBase \/ PushBranch \/ PrepareWorktree
  PROVE  MarkersSeen'
  <1> USE DEF MarkersSeen, Goto, Block, Judging, Completing, Beginning, Blocking, Resolving
  <1>0. tree \in Trees
    BY DEF TypeOK
  <1>1. CASE CommitAll
    BY <1>0, <1>1, CommittedType DEF CommitAll
  <1>2. CASE MergeBase
    <2>1. pc = "merge" /\ ~tree.markers /\ UNCHANGED pushed
      BY <1>2 DEF MergeBase
    <2>2. \/ pc' \in {"push", "strip_for_blocked"} /\ tree' = tree
          \/ pc' = "push" /\ tree' = [tree EXCEPT !.current = TRUE]
          \/ /\ pc' \in {"conflict", "strip_for_blocked"}
             /\ tree' = [tree EXCEPT !.current = TRUE, !.dirty = TRUE,
                                     !.unmerged = TRUE, !.markers = TRUE]
      BY <1>2, Zenon DEF MergeBase
    <2>3. tree'.head = tree.head /\ (tree'.markers => pc' \in Blocking \cup {"conflict"})
      <3>0. CASE tree' = tree
        BY <2>1, <3>0
      <3>1. CASE tree' = [tree EXCEPT !.current = TRUE]
        BY <1>0, <2>1, <3>1, TreeEdits
      <3>2. CASE /\ pc' \in {"conflict", "strip_for_blocked"}
                 /\ tree' = [tree EXCEPT !.current = TRUE, !.dirty = TRUE,
                                         !.unmerged = TRUE, !.markers = TRUE]
        BY <1>0, <3>2, TreeEdits
      <3>3. QED
        BY <2>2, <3>0, <3>1, <3>2
    <2>4. QED
      BY <2>1, <2>3
  <1>3. CASE PushBranch
    BY <1>3 DEF PushBranch
  <1>4. CASE PrepareWorktree
    BY <1>0, <1>4, TreeEdits DEF PrepareWorktree
  <1>5. QED
    BY <1>1, <1>2, <1>3, <1>4

(* Codex brings no markers into the tree, nor do pushes to the base.        *)
LEMMA MarkersOthers ==
  ASSUME TypeOK, MarkersSeen, Codex \/ BaseMoves \/ UNCHANGED vars
  PROVE  MarkersSeen'
  <1>0. tree \in Trees
    BY DEF TypeOK
  <1>1. tree'.head # "marked" /\ (tree'.markers => tree.markers)
    <2>1. CASE BaseMoves
      BY <1>0, <2>1, TreeEdits DEF BaseMoves, MarkersSeen
    <2>2. CASE \E s \in live : CodexWorks(s)
      BY <2>2, WorksTree DEF MarkersSeen
    <2>3. CASE UNCHANGED tree
      BY <2>3 DEF MarkersSeen
    <2>4. QED
      BY <2>1, <2>2, <2>3 DEF Codex, CodexFinishes, CodexHitsRateLimit, CodexNotFound,
         CodexExits, vars
  <1>2. UNCHANGED <<pc, mem, file, pushed>>
    BY DEF Codex, BaseMoves, vars, daemonVars
  <1>3. QED
    BY <1>1, <1>2 DEF MarkersSeen, Resolving

LEMMA MarkersStep ==
  /\ TypeOK /\ (mishaps = 0 => Calm) /\ (mishaps = 0 /\ reruns = 0 => MarkersSeen)
  /\ [Next]_vars
  => (mishaps = 0 /\ reruns = 0 => MarkersSeen)'
  <1> SUFFICES ASSUME TypeOK, mishaps = 0 => Calm, mishaps = 0 /\ reruns = 0 => MarkersSeen,
                      [Next]_vars, mishaps' = 0, reruns' = 0
               PROVE  MarkersSeen'
    OBVIOUS
  <1>1. mishaps = 0 /\ ~Mishap /\ ~Crash
    BY MishapsGrow DEF Mishap, TypeOK, Crash
  <1>2. reruns = 0 /\ ~Rerun
    BY RerunsGrow DEF TypeOK, Rerun
  <1>3. Calm /\ MarkersSeen
    BY <1>1, <1>2
  <1>4. CASE CommitAll \/ MergeBase \/ PushBranch \/ PrepareWorktree
    BY <1>3, <1>4, MarkersTouched
  <1>5. CASE Codex \/ BaseMoves \/ UNCHANGED vars
    BY <1>3, <1>5, MarkersOthers
  <1>6. CASE Daemon /\ ~(CommitAll \/ MergeBase \/ PushBranch \/ PrepareWorktree)
    <2>1. UNCHANGED <<tree, pushed>>
      BY <1>6 DEF Daemon, Poll, CheckRateLimit, ResumeCodex, SaveJob, CheckStartup, CheckReady,
         ValidateResolution, ResolveConflict, CreateDraftPR, StripForDone, PutDone,
         StripForBlocked, PutBlocked, ListReadyIssues, ClaimIssue, StartJob, SaveStartedJob
    <2>2. QED
      BY <1>1, <1>2, <1>3, <1>6, <2>1, MarkersKept DEF Daemon
  <1>7. QED
    BY <1>1, <1>2, <1>4, <1>5, <1>6 DEF Next

(* No pull request carries markers of an open merge that the daemon         *)
(* committed, whatever the resolver and the base do, until a call fails or  *)
(* the operator hands the issue back.                                       *)
THEOREM NoMarkersInPR == Spec => [](mishaps = 0 /\ reruns = 0 => NoMarkersPublished)
  <1>1. MarkersSeen => NoMarkersPublished
    BY DEF MarkersSeen, NoMarkersPublished
  <1>2. Init => (mishaps = 0 /\ reruns = 0 => MarkersSeen)
    BY InitMarkers
  <1>3. QED
    BY <1>1, <1>2, InitType, TypeStep, CalmWithoutMishap, MarkersStep, PTL DEF Spec
-----------------------------------------------------------------------------
(* For any number of mishaps: a poll that looks after a job holds what the  *)
(* state file has, one that begins a job has labelled the issue.            *)
Seated ==
    /\ pc \in Judging \cup Completing => Running(mem) /\ Running(file)
    /\ pc \in Beginning => Running(mem) /\ labels = {"running"}

LEMMA InitSeated == Init => Seated
  BY DEF Init, Seated, Judging, Completing, Beginning

LEMMA SeatedStep == TypeOK /\ Seated /\ [Next]_vars => Seated'
  <1> SUFFICES ASSUME TypeOK, Seated, [Next]_vars PROVE Seated'
    OBVIOUS
  <1> USE DEF Seated, Judging, Completing, Beginning, Goto, Block
  <1>1. CASE Poll \/ CheckRateLimit \/ CheckStartup \/ CheckReady \/ ListReadyIssues
    BY <1>1 DEF Poll, CheckRateLimit, CheckStartup, CheckReady, ListReadyIssues, Running
  <1>2. CASE pc' \in {"idle", "save", "strip_for_blocked", "put_blocked", "list", "claim"}
    BY <1>2
  <1>3. CASE ValidateResolution
    <2>1. mem' = mem \/ mem' = [mem EXCEPT !.phase = ""]
      BY <1>3, Zenon DEF ValidateResolution
    <2>2. [mem EXCEPT !.phase = ""].state = mem.state
      BY JobEdits DEF TypeOK
    <2>3. mem'.state = mem.state
      BY <2>1, <2>2, Zenon
    <2>4. QED
      BY <1>3, <2>3 DEF ValidateResolution, Running
  <1>4. CASE CommitAll \/ MergeBase \/ PushBranch \/ CreateDraftPR \/ StripForDone
    BY <1>4 DEF CommitAll, MergeBase, PushBranch, CreateDraftPR, StripForDone, Running
  <1>5. CASE ResumeCodex \/ SaveJob \/ ResolveConflict \/ PutDone \/ StripForBlocked \/ PutBlocked
             \/ Crash
    BY <1>2, <1>5 DEF ResumeCodex, SaveJob, ResolveConflict, PutDone, StripForBlocked, PutBlocked,
       Crash
  <1>6. CASE ClaimIssue
    <2>1. pc' = "idle" \/ (pc' = "prepare" /\ mem' = Job("running") /\ labels' = {"running"})
      BY <1>6 DEF ClaimIssue
    <2>2. QED
      BY <2>1, JobFields DEF Running
  <1>7. CASE PrepareWorktree \/ StartJob \/ SaveStartedJob
    BY <1>7 DEF PrepareWorktree, StartJob, SaveStartedJob, Running
  <1>8. CASE Rerun
    BY <1>8 DEF Rerun, daemonVars, Running
  <1>9. CASE Codex \/ BaseMoves \/ UNCHANGED vars
    BY <1>9 DEF Codex, BaseMoves, vars, daemonVars, Running
  <1>10. QED
    BY <1>1, <1>3, <1>4, <1>5, <1>6, <1>7, <1>8, <1>9 DEF Next, Daemon

(* One session at most, and as long as there is one something stands in the *)
(* way of another: the state file, the labels, or the poll that is going to *)
(* write them.                                                              *)
OneLive == \A s, t \in live : s = t
Guarded ==
  live # {} =>
    /\ pc \notin {"resume", "claim", "prepare", "start"} \cup Completing
    /\ pc = "idle" => Running(file) \/ file = Unreadable \/ labels # {}
    /\ pc = "list" => labels # {}
    /\ pc = "save" => Running(mem) /\ Running(file)
    /\ pc \in Blocking => mem = NoJob /\ mishaps > 0

LEMMA StartCodexAlone ==
  ASSUME live = {}, NEW phase, NEW resume, StartCodex(phase, resume)
  PROVE  OneLive'
  BY DEF StartCodex, OneLive

LEMMA CodexAlone ==
  ASSUME OneLive, Codex
  PROVE  OneLive'
  <1>1. PICK s \in live : \/ CodexWorks(s) \/ CodexFinishes(s) \/ CodexHitsRateLimit(s)
                         \/ CodexNotFound(s) \/ CodexExits(s)
    BY DEF Codex
  <1>2. live \ {s} = {}
    BY DEF OneLive
  <1>3. live' = {} \/ \E t : live' = {t}
    BY <1>1, <1>2 DEF CodexWorks, CodexFinishes, CodexHitsRateLimit, CodexNotFound, CodexExits,
       Becomes
  <1>4. QED
    BY <1>3 DEF OneLive

(* The steps that start a session find none.                                *)
LEMMA StartsAlone ==
  ASSUME TypeOK, Seated, OneLive, Guarded, ResumeCodex \/ ResolveConflict \/ StartJob
  PROVE  OneLive' /\ Guarded'
  <1> USE DEF Seated, Judging, Completing, Beginning, Blocking
  <1>1. live = {}
    BY DEF Guarded, ResumeCodex, ResolveConflict, StartJob
  <1>2. CASE ResumeCodex
    <2>1. OneLive'
      BY <1>1, <1>2, StartCodexAlone DEF ResumeCodex, OneLive, codexVars
    <2>2. Guarded'
      BY <1>1, <1>2 DEF ResumeCodex, Guarded, Running, codexVars
    <2>3. QED
      BY <2>1, <2>2
  <1>3. CASE ResolveConflict
    <2>1. OneLive'
      BY <1>1, <1>3, StartCodexAlone DEF ResolveConflict, OneLive, codexVars
    <2>2. CASE live' = {}
      BY <2>1, <2>2 DEF Guarded
    <2>3. CASE live' # {}
      <3>1. /\ pc' = "save" /\ file' = file /\ pc = "conflict"
            /\ mem' = [mem EXCEPT !.phase = "conflict-resolve",
                                  !.conflicts = mem.conflicts + 1]
        BY <1>1, <1>3, <2>3 DEF ResolveConflict, codexVars
      <3>2. mem'.state = mem.state
        BY <3>1, JobEdits DEF TypeOK
      <3>3. QED
        BY <2>1, <3>1, <3>2 DEF Guarded, Running
    <2>4. QED
      BY <2>2, <2>3
  <1>4. CASE StartJob
    <2>1. OneLive'
      BY <1>1, <1>4, StartCodexAlone DEF StartJob, OneLive, codexVars
    <2>2. Guarded'
      BY <1>1, <1>4 DEF StartJob, Guarded, Block, codexVars
    <2>3. QED
      BY <2>1, <2>2
  <1>5. QED
    BY <1>2, <1>3, <1>4

(* The other steps of the daemon, while a session is alive.                 *)
LEMMA DaemonGuarded ==
  ASSUME TypeOK, Seated, Guarded, Target = "wsl", live # {}, UNCHANGED live,
         mishaps \in {0, 1}, mishaps' \in {0, 1},
         Daemon \/ Crash
  PROVE  Guarded'
  <1> USE DEF Seated, Judging, Completing, Beginning, Blocking, Goto, Block
  <1>0. WindowExists /\ pc \notin {"resume", "claim", "prepare", "start"} \cup Completing
    BY DEF WindowExists, Guarded
  <1>1. CASE Poll
    BY <1>1 DEF Poll, Guarded
  <1>2. CASE CheckRateLimit \/ CheckStartup \/ CheckReady
    BY <1>0, <1>2 DEF CheckRateLimit, CheckStartup, CheckReady, Interrupted, CompletionReady, Guarded,
       Running
  <1>3. CASE SaveJob
    BY <1>3 DEF SaveJob, WriteState, Guarded, Running
  <1>4. CASE StripForBlocked
    BY <1>4 DEF StripForBlocked, RemoveLabels, Guarded, Mishap, NoMishap
  <1>5. CASE PutBlocked
    <2>1. mem = NoJob /\ mishaps = 1
      BY <1>5 DEF PutBlocked, Guarded
    <2>2. ~Mishap
      BY <2>1 DEF Mishap
    <2>3. pc' = "idle" /\ labels' # {}
      BY <1>5, <2>1, <2>2 DEF PutBlocked
    <2>4. QED
      BY <2>3 DEF Guarded
  <1>6. CASE ListReadyIssues
    BY <1>6 DEF ListReadyIssues, Guarded
  <1>7. CASE SaveStartedJob
    BY <1>7 DEF SaveStartedJob, Guarded, Mishap, Running
  <1>8. CASE Crash
    <2>1. pc \notin Blocking
      BY <1>8 DEF Crash, Mishap, Guarded
    <2>2. CASE pc \in Judging \cup {"save"}
      BY <1>8, <2>2 DEF Crash, Guarded, Running
    <2>3. CASE pc \in {"list", "save_start"}
      BY <1>8, <2>3 DEF Crash, Guarded
    <2>4. QED
      BY <1>0, <1>8, <2>1, <2>2, <2>3 DEF Crash, TypeOK, PCs
  <1>9. ~( \/ ResumeCodex \/ ValidateResolution \/ CommitAll \/ MergeBase \/ ResolveConflict
           \/ PushBranch \/ CreateDraftPR \/ StripForDone \/ PutDone \/ ClaimIssue
           \/ PrepareWorktree \/ StartJob)
    BY <1>0 DEF ResumeCodex, ValidateResolution, CommitAll, MergeBase, ResolveConflict,
       PushBranch, CreateDraftPR, StripForDone, PutDone, ClaimIssue, PrepareWorktree, StartJob
  <1>10. QED
    BY <1>1, <1>2, <1>3, <1>4, <1>5, <1>6, <1>7, <1>8, <1>9 DEF Daemon

LEMMA AloneStep ==
  ASSUME Target = "wsl"
  PROVE  /\ TypeOK /\ Seated /\ (mishaps <= 1 => OneLive /\ Guarded) /\ [Next]_vars
         => (mishaps <= 1 => OneLive /\ Guarded)'
  <1> SUFFICES ASSUME TypeOK, Seated, mishaps <= 1 => OneLive /\ Guarded, [Next]_vars,
                      mishaps' <= 1
               PROVE  OneLive' /\ Guarded'
    OBVIOUS
  <1>1. mishaps \in {0, 1} /\ mishaps' \in {0, 1}
    BY MishapsGrow DEF Mishap, TypeOK
  <1>2. OneLive /\ Guarded
    BY <1>1
  <1>3. CASE ResumeCodex \/ ResolveConflict \/ StartJob
    BY <1>2, <1>3, StartsAlone
  <1>4. CASE (Daemon \/ Crash) /\ ~(ResumeCodex \/ ResolveConflict \/ StartJob)
    <2>1. UNCHANGED live
      BY <1>4 DEF Daemon, Crash, Poll, CheckRateLimit, SaveJob, CheckStartup, CheckReady,
         ValidateResolution, CommitAll, MergeBase, PushBranch, CreateDraftPR, StripForDone,
         PutDone, StripForBlocked, PutBlocked, ListReadyIssues, ClaimIssue, PrepareWorktree,
         SaveStartedJob, codexVars
    <2>2. OneLive'
      BY <1>2, <2>1 DEF OneLive
    <2>3. CASE live = {}
      BY <2>1, <2>2, <2>3 DEF Guarded
    <2>4. CASE live # {}
      BY <1>1, <1>2, <1>4, <2>1, <2>2, <2>4, DaemonGuarded
    <2>5. QED
      BY <2>3, <2>4
  <1>5. CASE Codex
    <2>1. OneLive'
      BY <1>2, <1>5, CodexAlone
    <2>2. UNCHANGED <<pc, mem, file, labels, mishaps>> /\ live # {}
      BY <1>5 DEF Codex, daemonVars
    <2>3. QED
      BY <1>2, <2>1, <2>2 DEF Guarded, Running
  <1>6. CASE Rerun
    BY <1>2, <1>6 DEF Rerun, OneLive, Guarded, codexVars
  <1>7. CASE BaseMoves \/ UNCHANGED vars
    BY <1>2, <1>7 DEF BaseMoves, vars, daemonVars, codexVars, envVars, OneLive, Guarded, Running
  <1>8. QED
    BY <1>3, <1>4, <1>5, <1>6, <1>7 DEF Next

LEMMA AloneAlways ==
  ASSUME Target = "wsl"
  PROVE  Spec => [](mishaps <= 1 => OneLive /\ Guarded)
  <1>1. Init => OneLive /\ Guarded
    BY DEF Init, OneLive, Guarded
  <1>2. QED
    BY <1>1, InitType, TypeStep, InitSeated, SeatedStep, AloneStep, PTL DEF Spec

(* On WSL no two Codex sessions work in the worktree at once, whichever one *)
(* call fails and wherever the daemon crashes, however often the issue is   *)
(* handed back.  A second mishap can undo it: the state file is not written *)
(* and then the `blocked' label is not put on.                              *)
THEOREM OneSession ==
  ASSUME Target = "wsl"
  PROVE  Spec => [](mishaps <= 1 => AtMostOneSession)
  <1>1. OneLive => AtMostOneSession
    <2>1. OneLive => \A s, t \in AtWork : s = t
      BY DEF OneLive, AtWork
    <2>2. QED
      BY <2>1, AtMostOne DEF AtMostOneSession
  <1>2. QED
    BY <1>1, AloneAlways, PTL
-----------------------------------------------------------------------------
(* The refinement: three steps write what the lifecycle shows, the others   *)
(* are stutters of it.                                                      *)
LEMMA InitLifecycle == Init => Lifecycle!Init
  BY JobFields DEF Init, Lifecycle!Init, Status

(* The last write of a poll: done with a pull request, blocked without, or  *)
(* nothing new.                                                             *)
LEMMA SaveLifecycle ==
  ASSUME TypeOK, Order, Calm, ~Mishap, SaveJob
  PROVE  [Lifecycle!Next]_(Lifecycle!vars)
  <1>1. file' = mem /\ pr' = pr /\ pc = "save"
    BY DEF SaveJob, WriteState, Goto
  <1>2. CASE mem.state = "running"
    <2>1. file.state = "running"
      BY <1>1, <1>2 DEF Calm, FileBehind
    <2>2. QED
      BY <1>1, <1>2, <2>1 DEF Lifecycle!vars, Status
  <1>3. CASE mem.state = "done"
    <2>1. file.state = "running" /\ pr
      BY <1>1, <1>3 DEF Calm, FileBehind, Order, Remembered
    <2>2. Lifecycle!Finish
      BY <1>1, <1>3, <2>1 DEF Lifecycle!Finish, Status
    <2>3. QED
      BY <2>2 DEF Lifecycle!Next
  <1>4. CASE mem.state = "blocked"
    <2>1. ~pr /\ file.state \in {"none", "running", "blocked"}
      BY <1>1, <1>4 DEF Calm, FileBehind, PRLast, TypeOK, Jobs, Judging, Completing
    <2>2. CASE file.state = "blocked"
      BY <1>1, <1>4, <2>2 DEF Lifecycle!vars, Status
    <2>3. CASE file.state \in {"none", "running"}
      <3>1. Lifecycle!Block
        BY <1>1, <1>4, <2>1, <2>3 DEF Lifecycle!Block, Status, TypeOK
      <3>2. QED
        BY <3>1 DEF Lifecycle!Next
    <2>4. QED
      BY <2>1, <2>2, <2>3
  <1>5. QED
    BY <1>1, <1>2, <1>3, <1>4 DEF Calm, JobHeld

LEMMA SaveStartedLifecycle ==
  ASSUME TypeOK, Calm, ~Mishap, SaveStartedJob
  PROVE  Lifecycle!Start
  <1>1. file' = mem /\ pr' = pr /\ pc = "save_start"
    BY DEF SaveStartedJob
  <1>2. mem.state = "running" /\ file.state \in {"none", "blocked"} /\ ~pr
    BY <1>1 DEF Calm, JobHeld, FileBehind, PRLast, Beginning
  <1>3. QED
    BY <1>1, <1>2 DEF Lifecycle!Start, Status, TypeOK

LEMMA CreatePRLifecycle ==
  ASSUME TypeOK, Calm, CreateDraftPR
  PROVE  [Lifecycle!Next]_(Lifecycle!vars)
  <1>1. file.state = "running" /\ file' = file
    BY DEF CreateDraftPR, Calm, FileBehind, Completing
  <1>2. CASE pr' = pr
    BY <1>1, <1>2 DEF Lifecycle!vars, Status
  <1>3. CASE ~pr /\ pr' = TRUE
    <2>1. Lifecycle!OpenPR
      BY <1>1, <1>3 DEF Lifecycle!OpenPR, Status
    <2>2. QED
      BY <2>1 DEF Lifecycle!Next
  <1>4. QED
    BY <1>2, <1>3 DEF CreateDraftPR

LEMMA LifecycleStep ==
  TypeOK /\ Order /\ Calm /\ ~Mishap /\ [Next]_vars => [Lifecycle!Next]_(Lifecycle!vars)
  <1> SUFFICES ASSUME TypeOK, Order, Calm, ~Mishap, [Next]_vars
               PROVE  [Lifecycle!Next]_(Lifecycle!vars)
    OBVIOUS
  <1>1. CASE UNCHANGED <<file, pr>>
    BY <1>1 DEF Lifecycle!vars, Status
  <1>2. CASE SaveStartedJob
    BY <1>2, SaveStartedLifecycle DEF Lifecycle!Next
  <1>3. CASE SaveJob
    BY <1>3, SaveLifecycle
  <1>4. CASE CreateDraftPR
    BY <1>4, CreatePRLifecycle
  <1>5. CASE Daemon /\ ~SaveStartedJob /\ ~SaveJob /\ ~CreateDraftPR
    <2>1. UNCHANGED <<file, pr>>
      BY <1>5 DEF Daemon, Poll, CheckRateLimit, ResumeCodex, CheckStartup, CheckReady,
         ValidateResolution, CommitAll, MergeBase, ResolveConflict, PushBranch, StripForDone,
         PutDone, StripForBlocked, PutBlocked, ListReadyIssues, ClaimIssue, PrepareWorktree,
         StartJob
    <2>2. QED
      BY <1>1, <2>1
  <1>6. CASE Codex \/ BaseMoves \/ Rerun \/ UNCHANGED vars
    BY <1>1, <1>6 DEF Codex, BaseMoves, Rerun, vars, daemonVars
  <1>7. ~Crash
    BY DEF Crash
  <1>8. QED
    BY <1>2, <1>3, <1>4, <1>5, <1>6, <1>7 DEF Next

(* The job, as state file and pull request show it, follows the lifecycle   *)
(* of JobLifecycle in every behaviour without a mishap, however often the   *)
(* issue is handed back.                                                    *)
THEOREM FollowsLifecycle == Spec /\ [](mishaps = 0) => ImplementsLifecycle
  <1>1. mishaps = 0 /\ (mishaps = 0)' => ~Mishap
    BY DEF Mishap
  <1>2. QED
    BY <1>1, InitType, TypeStep, InitOrder, OrderStep, CalmWithoutMishap, InitLifecycle,
       LifecycleStep, PTL DEF Spec, ImplementsLifecycle, Lifecycle!Spec
=============================================================================
