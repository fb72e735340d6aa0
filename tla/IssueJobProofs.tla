--------------------------- MODULE IssueJobProofs ---------------------------
(***************************************************************************)
(* Proofs about the life of one issue for every value of the bounds: any   *)
(* number of crashes, bookkeeping failures, rate limits, base moves and    *)
(* re-runs, on either target, with or without a Codex that fails.          *)
(***************************************************************************)
EXTENDS IssueJob, TLAPS

(* What DoneHasPR rests on at each point of a poll: the work is committed   *)
(* before the merge, pushed before the pull request and published before    *)
(* anything is called done; none of that is ever taken back.                *)
Committing == pc \in {"merge", "conflict", "push"} => tree.head # "base"
Pushing == pc \in {"pr", "strip_for_done", "put_done"} => pushed # "base"
Publishing == pc \in {"strip_for_done", "put_done"} => pr
Remembered == \A job \in {mem, file} : job.state = "done" => pr /\ pushed # "base"
Labelled == "done" \in labels => pr /\ pushed # "base"
Order == Committing /\ Pushing /\ Publishing /\ Remembered /\ Labelled

LEMMA InitType == Init => TypeOK
  <1> SUFFICES ASSUME Init PROVE TypeOK
    OBVIOUS
  <1> USE DEF Init
  <1>1. pc \in PCs /\ mem \in Jobs /\ file \in Jobs
    BY DEF PCs, Jobs, Job, NoJob, Phases
  <1>2. tree \in Trees /\ pushed \in Heads /\ pr \in BOOLEAN
    BY DEF Trees, Heads
  <1>3. labels \subseteq ManagedLabels /\ live \subseteq Sessions
        /\ lastMessage \subseteq Phases
    OBVIOUS
  <1>4. log \in [Phases -> SUBSET LogLines]
    OBVIOUS
  <1>5. resolvers \in Nat /\ limits \in Nat /\ baseMoves \in Nat /\ reruns \in Nat
        /\ mishaps \in Nat
    OBVIOUS
  <1>6. QED
    BY <1>1, <1>2, <1>3, <1>4, <1>5 DEF TypeOK

(* Jobs stay jobs when they are made or when a field of them is set.        *)
LEMMA JobType ==
  /\ NoJob \in Jobs /\ Unreadable \in Jobs
  /\ Job("running") \in Jobs /\ Job("blocked") \in Jobs
  /\ \A j \in Jobs : /\ j.phase \in Phases /\ j.conflicts \in Nat
                     /\ [j EXCEPT !.phase = ""] \in Jobs
                     /\ [j EXCEPT !.state = "done"] \in Jobs
                     /\ [j EXCEPT !.phase = "conflict-resolve",
                                  !.conflicts = j.conflicts + 1] \in Jobs
  <1>1. /\ NoJob \in Jobs /\ Unreadable \in Jobs
        /\ Job("running") \in Jobs /\ Job("blocked") \in Jobs
    BY DEF Jobs, Job, NoJob, Unreadable, Phases
  <1>2. ASSUME NEW j \in Jobs
        PROVE  /\ j.phase \in Phases /\ j.conflicts \in Nat
               /\ [j EXCEPT !.phase = ""] \in Jobs
               /\ [j EXCEPT !.state = "done"] \in Jobs
    BY DEF Jobs, Phases
  <1>3. ASSUME NEW j \in Jobs
        PROVE  [j EXCEPT !.phase = "conflict-resolve",
                         !.conflicts = j.conflicts + 1] \in Jobs
    <2>1. j.conflicts + 1 \in Nat
      BY DEF Jobs
    <2>2. \A n \in Nat : [j EXCEPT !.phase = "conflict-resolve", !.conflicts = n] \in Jobs
      BY DEF Jobs, Phases
    <2>3. QED
      BY <2>1, <2>2
  <1>4. QED
    BY <1>1, <1>2, <1>3

(* The counters count.                                                      *)
LEMMA CounterType ==
  ASSUME TypeOK
  PROVE  /\ Mishap \/ NoMishap => mishaps' \in Nat
         /\ resolvers + 1 \in Nat /\ limits + 1 \in Nat
         /\ baseMoves + 1 \in Nat /\ reruns + 1 \in Nat
  BY DEF TypeOK, Mishap, NoMishap

(* A session that is started, or moves on, is a session again.              *)
LEMMA StartCodexType ==
  ASSUME TypeOK, NEW phase \in Phases, NEW resume \in BOOLEAN,
         StartCodex(phase, resume)
  PROVE  /\ live' \subseteq Sessions
         /\ lastMessage' \subseteq Phases
         /\ log' \in [Phases -> SUBSET LogLines]
  BY DEF TypeOK, StartCodex, FreeIds, Sessions

LEMMA BecomesType ==
  ASSUME TypeOK, NEW s \in live, NEW stage \in {"worked", "finished", "stopped"},
         Becomes(s, stage)
  PROVE  live' \subseteq Sessions
  BY DEF TypeOK, Becomes, Sessions

LEMMA CommittedType ==
  ASSUME NEW t \in Trees, NEW marked \in {"unseen", "marked"}
  PROVE  /\ Committed(t, marked) \in Trees
         /\ Committed(t, marked).head # "base"
         /\ Committed(t, marked).markers = FALSE
         /\ t.head # "marked" /\ (t.markers => marked = "unseen")
              => Committed(t, marked).head # "marked"
  BY DEF Committed, Trees, Heads

(* A session never takes a commit off the branch, never brings markers into *)
(* the files, and what it commits is not the daemon's.                      *)
LEMMA WorksTree ==
  ASSUME TypeOK, NEW s \in live, CodexWorks(s)
  PROVE  /\ tree' \in Trees
         /\ tree.head # "base" => tree'.head # "base"
         /\ tree.head # "marked" => tree'.head # "marked"
         /\ tree'.markers => tree.markers
  <1>0. tree \in Trees
    BY DEF TypeOK
  <1>1. PICK unmerged \in BOOLEAN, markers \in BOOLEAN, more \in BOOLEAN :
          /\ markers => tree.markers
          /\ tree' \in {Edited(unmerged, markers),
                        [Committed(Edited(unmerged, markers), "unseen")
                            EXCEPT !.dirty = more]}
    BY DEF CodexWorks
  <1> DEFINE edited == Edited(unmerged, markers)
             committed == Committed(edited, "unseen")
  <1>2. edited \in Trees /\ edited.head = tree.head /\ edited.markers = markers
    BY <1>0 DEF Edited, Trees
  <1>3. /\ committed \in Trees /\ committed.head # "base" /\ committed.markers = FALSE
        /\ edited.head # "marked" => committed.head # "marked"
    BY <1>2, CommittedType
  <1> HIDE DEF edited, committed
  <1>4. CASE tree' = edited
    BY <1>1, <1>2, <1>4
  <1>5. CASE tree' = [committed EXCEPT !.dirty = more]
    <2>1. tree' \in Trees /\ tree'.head = committed.head /\ tree'.markers = FALSE
      BY <1>3, <1>5 DEF Trees
    <2>2. QED
      BY <1>2, <1>3, <2>1
  <1>6. QED
    BY <1>1, <1>4, <1>5 DEF edited, committed

(* The steps of a poll keep the types.                                      *)
LEMMA DaemonType ==
  ASSUME TypeOK, Daemon
  PROVE  TypeOK'
  <1> USE CounterType DEF TypeOK, Goto, Block, PCs, codexVars, envVars
  <1>1. CASE Poll
    BY <1>1, JobType DEF Poll
  <1>2. CASE CheckRateLimit
    BY <1>2 DEF CheckRateLimit
  <1>3. CASE ResumeCodex
    <2>1. CASE UNCHANGED codexVars
      BY <1>3, <2>1 DEF ResumeCodex
    <2>2. CASE StartCodex(mem.phase, TRUE)
      <3>1. mem.phase \in Phases
        BY JobType
      <3>2. /\ live' \subseteq Sessions /\ lastMessage' \subseteq Phases
            /\ log' \in [Phases -> SUBSET LogLines]
        BY <2>2, <3>1, StartCodexType
      <3>3. QED
        BY <1>3, <3>2 DEF ResumeCodex
    <2>3. QED
      BY <1>3, <2>1, <2>2 DEF ResumeCodex
  <1>4. CASE SaveJob
    <2>1. file' \in Jobs /\ mishaps' \in Nat
      BY <1>4, JobType DEF SaveJob, WriteState
    <2>2. QED
      BY <1>4, <2>1 DEF SaveJob
  <1>5. CASE CheckStartup
    BY <1>5 DEF CheckStartup
  <1>6. CASE CheckReady
    BY <1>6 DEF CheckReady
  <1>7. CASE ValidateResolution
    BY <1>7, JobType DEF ValidateResolution
  <1>8. CASE CommitAll
    BY <1>8, CommittedType DEF CommitAll
  <1>9. CASE MergeBase
    BY <1>9 DEF MergeBase, Trees
  <1>10. CASE ResolveConflict
    <2>1. CASE UNCHANGED <<mem, codexVars, resolvers>>
      BY <1>10, <2>1 DEF ResolveConflict
    <2>2. CASE StartCodex("conflict-resolve", FALSE)
      <3>1. /\ live' \subseteq Sessions /\ lastMessage' \subseteq Phases
            /\ log' \in [Phases -> SUBSET LogLines]
        BY <2>2, StartCodexType DEF Phases
      <3>2. mem' \in Jobs
        BY <1>10, JobType DEF ResolveConflict
      <3>3. pc' \in PCs /\ resolvers' \in Nat
        BY <1>10 DEF ResolveConflict
      <3>4. QED
        BY <1>10, <3>1, <3>2, <3>3 DEF ResolveConflict
    <2>3. QED
      BY <1>10, <2>1, <2>2 DEF ResolveConflict
  <1>11. CASE PushBranch
    BY <1>11 DEF PushBranch, Trees
  <1>12. CASE CreateDraftPR
    BY <1>12 DEF CreateDraftPR
  <1>13. CASE StripForDone
    BY <1>13 DEF StripForDone, RemoveLabels
  <1>14. CASE PutDone
    <2>1. mem' \in Jobs
      BY <1>14, JobType DEF PutDone
    <2>2. labels' \subseteq ManagedLabels /\ pc' \in PCs /\ mishaps' \in Nat
      BY <1>14 DEF PutDone, ManagedLabels
    <2>3. QED
      BY <1>14, <2>1, <2>2 DEF PutDone
  <1>15. CASE StripForBlocked
    BY <1>15 DEF StripForBlocked, RemoveLabels
  <1>16. CASE PutBlocked
    <2>1. mem' \in Jobs
      BY <1>16, JobType DEF PutBlocked
    <2>2. labels' \subseteq ManagedLabels /\ pc' \in PCs /\ mishaps' \in Nat
      BY <1>16 DEF PutBlocked, ManagedLabels
    <2>3. QED
      BY <1>16, <2>1, <2>2 DEF PutBlocked
  <1>17. CASE ListReadyIssues
    BY <1>17 DEF ListReadyIssues
  <1>18. CASE ClaimIssue
    <2>1. mem' \in Jobs
      BY <1>18, JobType DEF ClaimIssue
    <2>2. labels' \subseteq ManagedLabels /\ pc' \in PCs /\ mishaps' \in Nat
      BY <1>18 DEF ClaimIssue, ManagedLabels
    <2>3. QED
      BY <1>18, <2>1, <2>2 DEF ClaimIssue
  <1>19. CASE PrepareWorktree
    BY <1>19 DEF PrepareWorktree, Trees
  <1>20. CASE StartJob
    <2>1. CASE UNCHANGED <<codexVars, resolvers>>
      BY <1>20, <2>1 DEF StartJob
    <2>2. CASE StartCodex("", FALSE)
      <3>1. /\ live' \subseteq Sessions /\ lastMessage' \subseteq Phases
            /\ log' \in [Phases -> SUBSET LogLines]
        BY <2>2, StartCodexType DEF Phases
      <3>2. pc' \in PCs
        BY <1>20 DEF StartJob
      <3>3. resolvers' = 0 \/ resolvers' = resolvers
        BY <1>20 DEF StartJob
      <3>4. resolvers' \in Nat
        BY <3>3
      <3>5. QED
        BY <1>20, <3>1, <3>2, <3>4 DEF StartJob
    <2>3. QED
      BY <1>20, <2>1, <2>2 DEF StartJob
  <1>21. CASE SaveStartedJob
    <2>1. mem' \in Jobs /\ file' \in Jobs
      BY <1>21, JobType DEF SaveStartedJob
    <2>2. pc' \in PCs /\ mishaps' \in Nat
      BY <1>21 DEF SaveStartedJob
    <2>3. QED
      BY <1>21, <2>1, <2>2 DEF SaveStartedJob
  <1>22. QED
    BY <1>1, <1>2, <1>3, <1>4, <1>5, <1>6, <1>7, <1>8, <1>9, <1>10, <1>11, <1>12,
       <1>13, <1>14, <1>15, <1>16, <1>17, <1>18, <1>19, <1>20, <1>21, Daemon
       DEF Daemon

(* So do the steps of Codex.                                                *)
LEMMA CodexType ==
  ASSUME TypeOK, Codex
  PROVE  TypeOK'
  <1> PICK s \in live : \/ CodexWorks(s) \/ CodexFinishes(s) \/ CodexHitsRateLimit(s)
                        \/ CodexNotFound(s) \/ CodexExits(s)
    BY DEF Codex
  <1>1. s \in Sessions
    BY DEF TypeOK
  <1>2. live' \subseteq Sessions
    <2>1. CASE CodexExits(s)
      BY <2>1 DEF CodexExits, TypeOK
    <2>2. CASE ~CodexExits(s)
      BY <2>2, BecomesType
         DEF CodexWorks, CodexFinishes, CodexHitsRateLimit, CodexNotFound
    <2>3. QED
      BY <2>1, <2>2
  <1>3. tree' \in Trees
    <2>1. CASE CodexWorks(s)
      BY <2>1, WorksTree
    <2>2. CASE ~CodexWorks(s)
      BY <2>2 DEF CodexFinishes, CodexHitsRateLimit, CodexNotFound, CodexExits, TypeOK
    <2>3. QED
      BY <2>1, <2>2
  <1>4. /\ lastMessage' \subseteq Phases /\ limits' \in Nat
        /\ log' \in [Phases -> SUBSET LogLines]
    <2>1. s.phase \in Phases
      BY <1>1 DEF Sessions
    <2>2. CASE CodexWorks(s) \/ CodexExits(s)
      BY <2>2 DEF CodexWorks, CodexExits, TypeOK
    <2>3. CASE CodexFinishes(s)
      BY <2>1, <2>3 DEF CodexFinishes, TypeOK
    <2>4. CASE CodexHitsRateLimit(s) \/ CodexNotFound(s)
      <3>1. limits' \in Nat /\ lastMessage' \subseteq Phases
        BY <2>4, CounterType DEF CodexHitsRateLimit, CodexNotFound, TypeOK
      <3>2. PICK line \in LogLines : log' = [log EXCEPT ![s.phase] = @ \cup {line}]
        BY <2>4 DEF CodexHitsRateLimit, CodexNotFound, LogLines
      <3>3. log' \in [Phases -> SUBSET LogLines]
        BY <2>1, <3>2 DEF TypeOK
      <3>4. QED
        BY <3>1, <3>3
    <2>5. QED
      BY <2>2, <2>3, <2>4
  <1>5. QED
    BY <1>2, <1>3, <1>4 DEF Codex, TypeOK, daemonVars

LEMMA TypeStep == TypeOK /\ [Next]_vars => TypeOK'
  <1> SUFFICES ASSUME TypeOK, [Next]_vars PROVE TypeOK'
    OBVIOUS
  <1>1. CASE Daemon
    BY <1>1, DaemonType
  <1>2. CASE Crash
    <2>1. mem' \in Jobs /\ file' \in Jobs
      BY <1>2, JobType DEF Crash, TypeOK
    <2>2. pc' \in PCs /\ mishaps' \in Nat
      BY <1>2, CounterType DEF Crash, TypeOK, PCs
    <2>3. QED
      BY <1>2, <2>1, <2>2 DEF Crash, TypeOK, codexVars
  <1>3. CASE Codex
    BY <1>3, CodexType
  <1>4. CASE BaseMoves
    <2>1. tree' \in Trees
      BY <1>4 DEF BaseMoves, TypeOK, Trees
    <2>2. QED
      BY <1>4, <2>1, CounterType DEF BaseMoves, TypeOK, daemonVars, codexVars
  <1>5. CASE Rerun
    BY <1>5, CounterType DEF Rerun, TypeOK, daemonVars, codexVars
  <1>6. CASE UNCHANGED vars
    BY <1>6 DEF vars, TypeOK, daemonVars, codexVars, envVars
  <1>7. QED
    BY <1>1, <1>2, <1>3, <1>4, <1>5, <1>6 DEF Next

(* Every variable keeps its type, on either target and for all bounds.      *)
THEOREM TypeCorrect == Spec => []TypeOK
  BY InitType, TypeStep, PTL DEF Spec

-----------------------------------------------------------------------------
(* No job that is made anew is done.                                        *)
LEMMA NotDone ==
  /\ NoJob.state # "done" /\ Unreadable.state # "done"
  /\ Job("running").state # "done" /\ Job("blocked").state # "done"
  BY DEF NoJob, Unreadable, Job

(* A step either leaves alone what Order speaks of, or is one of the few    *)
(* below. First the steps that reach none of it.                            *)
LEMMA OrderKept ==
  ASSUME TypeOK, Order, UNCHANGED <<tree, pushed, pr>>,
         labels' \subseteq labels, mem'.state # "done" \/ mem' = mem,
         file' \in {file, mem} \/ file'.state # "done",
         \/ pc' = pc
         \/ pc' \notin {"merge", "conflict", "push", "pr", "strip_for_done", "put_done"}
  PROVE  Order'
  BY DEF Order, Committing, Pushing, Publishing, Remembered, Labelled

LEMMA InitOrder == Init => Order
  <1> SUFFICES ASSUME Init PROVE Order
    OBVIOUS
  <1>1. pc = "idle" /\ labels = {} /\ mem = NoJob /\ file = NoJob
    BY DEF Init
  <1>2. QED
    BY <1>1, NotDone DEF Order, Committing, Pushing, Publishing, Remembered, Labelled

LEMMA OrderDaemon ==
  ASSUME TypeOK, Order, Daemon
  PROVE  Order'
  <1> USE DEF Goto, Block
  <1>1. CASE \/ Poll \/ CheckRateLimit \/ ResumeCodex \/ SaveJob \/ CheckStartup
             \/ CheckReady \/ ListReadyIssues
    <2>1. UNCHANGED <<tree, pushed, pr, labels>>
      BY <1>1 DEF Poll, CheckRateLimit, ResumeCodex, SaveJob, CheckStartup,
                  CheckReady, ListReadyIssues
    <2>2. mem' = mem \/ mem'.state # "done"
      BY <1>1, NotDone DEF Poll, CheckRateLimit, ResumeCodex, SaveJob, CheckStartup,
                           CheckReady, ListReadyIssues, Running
    <2>3. file' \in {file, mem} \/ file'.state # "done"
      BY <1>1, NotDone DEF Poll, CheckRateLimit, ResumeCodex, SaveJob, WriteState,
                           CheckStartup, CheckReady, ListReadyIssues
    <2>4. pc' \notin {"merge", "conflict", "push", "pr", "strip_for_done", "put_done"}
      BY <1>1 DEF Poll, CheckRateLimit, ResumeCodex, SaveJob, CheckStartup,
                  CheckReady, ListReadyIssues
    <2>5. QED
      BY <2>1, <2>2, <2>3, <2>4, OrderKept
  <1>2. CASE ValidateResolution
    <2>1. mem'.state = mem.state
      BY <1>2 DEF ValidateResolution, TypeOK, Jobs
    <2>2. QED
      BY <1>2, <2>1 DEF ValidateResolution, Order, Committing, Pushing, Publishing,
                        Remembered, Labelled
  <1>3. CASE CommitAll
    <2>1. tree.dirty => tree'.head # "base" \/ pc' = "strip_for_blocked"
      BY <1>3, CommittedType DEF CommitAll, TypeOK
    <2>2. pc' = "strip_for_blocked" \/ (pc' = "merge" /\ tree'.head # "base")
      BY <1>3, <2>1, CommittedType DEF CommitAll, TypeOK
    <2>3. QED
      BY <1>3, <2>2 DEF CommitAll, Order, Committing, Pushing, Publishing,
                        Remembered, Labelled
  <1>4. CASE MergeBase
    <2>1. tree'.head = tree.head
      BY <1>4 DEF MergeBase, TypeOK, Trees
    <2>2. QED
      BY <1>4, <2>1 DEF MergeBase, Order, Committing, Pushing, Publishing,
                        Remembered, Labelled
  <1>5. CASE ResolveConflict
    <2>1. mem'.state = mem.state
      BY <1>5 DEF ResolveConflict, TypeOK, Jobs
    <2>2. QED
      BY <1>5, <2>1 DEF ResolveConflict, Order, Committing, Pushing, Publishing,
                        Remembered, Labelled
  <1>6. CASE PushBranch
    BY <1>6 DEF PushBranch, Order, Committing, Pushing, Publishing, Remembered, Labelled
  <1>7. CASE CreateDraftPR
    BY <1>7 DEF CreateDraftPR, Order, Committing, Pushing, Publishing, Remembered, Labelled
  <1>8. CASE StripForDone
    BY <1>8 DEF StripForDone, RemoveLabels, Order, Committing, Pushing, Publishing,
                Remembered, Labelled
  <1>9. CASE PutDone
    BY <1>9 DEF PutDone, Order, Committing, Pushing, Publishing, Remembered, Labelled
  <1>10. CASE StripForBlocked
    BY <1>10, OrderKept DEF StripForBlocked, RemoveLabels
  <1>11. CASE PutBlocked
    <2>1. mem'.state # "done"
      BY <1>11, NotDone DEF PutBlocked
    <2>2. pc' \in {"idle", "save"}
      BY <1>11 DEF PutBlocked
    <2>3. "done" \in labels' => "done" \in labels
      BY <1>11 DEF PutBlocked
    <2>4. QED
      BY <1>11, <2>1, <2>2, <2>3
         DEF PutBlocked, Order, Committing, Pushing, Publishing, Remembered, Labelled
  <1>12. CASE ClaimIssue
    <2>1. mem'.state # "done" \/ mem' = mem
      BY <1>12, NotDone DEF ClaimIssue
    <2>2. pc' \in {"idle", "prepare"}
      BY <1>12 DEF ClaimIssue
    <2>3. "done" \in labels' => "done" \in labels
      BY <1>12 DEF ClaimIssue
    <2>4. QED
      BY <1>12, <2>1, <2>2, <2>3
         DEF ClaimIssue, Order, Committing, Pushing, Publishing, Remembered, Labelled
  <1>13. CASE PrepareWorktree
    BY <1>13 DEF PrepareWorktree, Order, Committing, Pushing, Publishing,
                 Remembered, Labelled
  <1>14. CASE StartJob
    BY <1>14, OrderKept DEF StartJob
  <1>15. CASE SaveStartedJob
    <2>1. mem' = mem \/ mem'.state # "done"
      BY <1>15, NotDone DEF SaveStartedJob
    <2>2. file' \in {file, mem} \/ file'.state # "done"
      BY <1>15, NotDone DEF SaveStartedJob
    <2>3. QED
      BY <1>15, <2>1, <2>2, OrderKept DEF SaveStartedJob
  <1>16. QED
    BY <1>1, <1>2, <1>3, <1>4, <1>5, <1>6, <1>7, <1>8, <1>9, <1>10, <1>11, <1>12,
       <1>13, <1>14, <1>15, Daemon DEF Daemon

(* Neither Codex nor the others who push can undo a commit on the branch.   *)
LEMMA OrderOthers ==
  ASSUME TypeOK, Order, Codex \/ BaseMoves
  PROVE  Order'
  <1>1. tree.head # "base" => tree'.head # "base"
    <2>1. CASE BaseMoves
      BY <2>1 DEF BaseMoves, TypeOK, Trees
    <2>2. CASE Codex
      <3>1. PICK s \in live : \/ CodexWorks(s) \/ CodexFinishes(s)
                             \/ CodexHitsRateLimit(s) \/ CodexNotFound(s) \/ CodexExits(s)
        BY <2>2 DEF Codex
      <3>2. CASE CodexWorks(s)
        BY <3>2, WorksTree
      <3>3. CASE ~CodexWorks(s)
        BY <3>1, <3>3 DEF CodexFinishes, CodexHitsRateLimit, CodexNotFound, CodexExits
      <3>4. QED
        BY <3>2, <3>3
    <2>3. QED
      BY <2>1, <2>2
  <1>2. UNCHANGED <<pc, mem, file, labels, pushed, pr>>
    BY DEF Codex, BaseMoves, daemonVars
  <1>3. QED
    BY <1>1, <1>2 DEF Order, Committing, Pushing, Publishing, Remembered, Labelled

LEMMA OrderStep == TypeOK /\ Order /\ [Next]_vars => Order'
  <1> SUFFICES ASSUME TypeOK, Order, [Next]_vars PROVE Order'
    OBVIOUS
  <1>1. CASE Daemon
    BY <1>1, OrderDaemon
  <1>2. CASE Crash
    BY <1>2, OrderKept, NotDone DEF Crash
  <1>3. CASE Codex \/ BaseMoves
    BY <1>3, OrderOthers
  <1>4. CASE Rerun
    BY <1>4, OrderKept DEF Rerun, daemonVars
  <1>5. CASE UNCHANGED vars
    BY <1>5, OrderKept DEF vars, daemonVars
  <1>6. QED
    BY <1>1, <1>2, <1>3, <1>4, <1>5 DEF Next

(* `done', on the issue or in the state file, stands for a pull request of  *)
(* a branch with commits, for any number of crashes and failures.           *)
THEOREM DoneMeansPR == Spec => []DoneHasPR
  <1>1. TypeOK /\ Order => DoneHasPR
    BY DEF Order, Remembered, Labelled, DoneHasPR
  <1>2. QED
    BY InitType, TypeStep, InitOrder, OrderStep, <1>1, PTL DEF Spec
=============================================================================
