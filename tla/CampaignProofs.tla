---------------------------- MODULE CampaignProofs ----------------------------
(***************************************************************************)
(* Proofs about a campaign: for any number of tasks, any decisions and     *)
(* plans, any number of campaign issues and of polls that are cut.         *)
(***************************************************************************)
EXTENDS Campaign, FiniteSetTheorems, TLAPS

LEMMA JobType ==
  /\ NoJob \in Jobs /\ RegularJob \in Jobs
  /\ \A t \in Tasks \cup {NoTask} : BlockedJob(t) \in Jobs
  /\ \A t \in Tasks, phase \in Pipeline \cup {"conflict-resolve"} : RunningJob(t, phase) \in Jobs
  BY DEF NoJob, RegularJob, BlockedJob, RunningJob, Jobs

LEMMA NextPhaseType ==
  ASSUME NEW phase, NextPhase(phase) # ""
  PROVE  NextPhase(phase) \in Pipeline
  BY DEF NextPhase, Pipeline

LEMMA PlansType ==
  /\ NoPlan \in Plans
  /\ FlawedPlans \subseteq Plans
  /\ \A asked \in SUBSET Decisions : \A constraints : PlanOf(asked, constraints) \in Plans
  <1>1. NoPlan \in Plans
    BY DEF NoPlan, Plans
  <1>2. ASSUME NEW t \in Tasks, NEW u \in Tasks \cup {NoTask}
        PROVE  [NoPlan EXCEPT !.deps[t] = {u}] \in Plans
    BY <1>2 DEF NoPlan, Plans
  <1>3. ASSUME NEW d \in Decisions
        PROVE  [NoPlan EXCEPT !.asked = {d}, !.canContinue[d] = {NoTask}] \in Plans
    BY <1>3 DEF NoPlan, Plans
  <1>4. ASSUME NEW asked \in SUBSET Decisions, NEW constraints
        PROVE  PlanOf(asked, constraints) \in Plans
    BY DEF PlanOf, Plans
  <1>5. FlawedPlans \subseteq Plans
    <2> SUFFICES ASSUME NEW p \in FlawedPlans PROVE p \in Plans
      OBVIOUS
    <2>1. CASE \E t \in Tasks : p = [NoPlan EXCEPT !.deps[t] = {t}]
      BY <1>2, <2>1
    <2>2. CASE \E t \in Tasks : p = [NoPlan EXCEPT !.deps[t] = {NoTask}]
      BY <1>2, <2>2
    <2>3. CASE \E d \in Decisions :
                 p = [NoPlan EXCEPT !.asked = {d}, !.canContinue[d] = {NoTask}]
      BY <1>3, <2>3
    <2>4. QED
      BY <2>1, <2>2, <2>3, Zenon DEF FlawedPlans
  <1>6. QED
    BY <1>1, <1>4, <1>5

LEMMA OfferedType == OfferedPlans \subseteq Plans
  <1>1. ASSUME NEW bound PROVE PlansWithin(bound) \subseteq Plans
    BY PlansType DEF PlansWithin
  <1>2. ASSUME NEW p \in PlansWithin(1), NEW d \in p.asked
        PROVE  [p EXCEPT !.readable = @ \ {d}] \in Plans
    <2>1. p \in Plans
      BY <1>1
    <2>2. QED
      BY <2>1 DEF Plans
  <1>3. ASSUME NEW q \in UnreadablePlans PROVE q \in Plans
    <2>1. PICK p \in PlansWithin(1) : q \in {[p EXCEPT !.readable = @ \ {d}] : d \in p.asked}
      BY <1>3, Zenon DEF UnreadablePlans
    <2>2. PICK d \in p.asked : q = [p EXCEPT !.readable = @ \ {d}]
      BY <2>1
    <2>3. QED
      BY <1>2, <2>2
  <1>4. QED
    BY <1>1, <1>3, PlansType, Zenon DEF OfferedPlans, FirstPlans, LaterPlans

LEMMA MarkType ==
  ASSUME NEW labels \in SUBSET ManagedLabels
  PROVE  /\ MarkBlocked(labels) \in SUBSET ManagedLabels
         /\ MarkDone(labels) \in SUBSET ManagedLabels
         /\ MarkBlockedCut(labels) \subseteq SUBSET ManagedLabels
         /\ MarkDoneCut(labels) \subseteq SUBSET ManagedLabels
  BY DEF MarkBlocked, MarkDone, MarkBlockedCut, MarkDoneCut, ManagedLabels

LEMMA MishapType ==
  ASSUME TypeOK, Mishap \/ UNCHANGED mishaps
  PROVE  mishaps' \in 0..MaxMishaps /\ mishaps <= mishaps'
  BY MishapsAssumption DEF TypeOK, Mishap

LEMMA ParentType ==
  ASSUME TypeOK, NEW labels \in SUBSET ManagedLabels,
         ParentBlocked(labels) \/ ParentDone(labels)
  PROVE  parent' \in SUBSET ManagedLabels /\ mishaps' \in 0..MaxMishaps
  BY MarkType, MishapType DEF ParentBlocked, ParentDone

(* What is read from the state file and the comments for a dispatch.        *)
LEMMA DispatchType ==
  ASSUME TypeOK
  PROVE  /\ Answers \subseteq Decisions /\ answered \subseteq Answers
         /\ Labels \in SUBSET ManagedLabels /\ Resumed \in Statuses
         /\ StackBase \in Tasks \cup {NoTask}
  <1>1. Answers \subseteq Decisions /\ answered \subseteq Answers
    BY DEF TypeOK, Answers, NewAnswers
  <1>2. Labels \in SUBSET ManagedLabels
    BY DEF TypeOK, Labels, ManagedLabels
  <1>3. Resumed \in Statuses
    BY DEF TypeOK, Resumed, Statuses
  <1>4. StackBase \in Tasks \cup {NoTask}
    BY DEF TypeOK, StackBase
  <1>5. QED
    BY <1>1, <1>2, <1>3, <1>4

LEMMA BlockTaskType ==
  ASSUME TypeOK, NEW t \in Tasks, NEW blockedJob \in Jobs, BlockTask(t, blockedJob)
  PROVE  /\ task' \in [Tasks -> TaskStatuses] /\ status' \in Statuses /\ job' \in Jobs
         /\ codex' \in CodexStates
         /\ child' \in [Tasks -> SUBSET ManagedLabels] /\ mishaps' \in 0..MaxMishaps
  <1>1. child[t] \in SUBSET ManagedLabels
    BY DEF TypeOK
  <1>2. child' \in [Tasks -> SUBSET ManagedLabels]
    BY <1>1, MarkType DEF BlockTask, TypeOK
  <1>3. task' \in [Tasks -> TaskStatuses]
    BY DEF BlockTask, TypeOK, TaskStatuses
  <1>4. status' \in Statuses /\ job' \in Jobs
        /\ codex' \in CodexStates
    BY DispatchType DEF BlockTask, TypeOK, Statuses, CodexStates
  <1>5. mishaps' \in 0..MaxMishaps
    BY MishapType DEF BlockTask
  <1>6. QED
    BY <1>2, <1>3, <1>4, <1>5
-----------------------------------------------------------------------------
LEMMA InitType == Init => TypeOK
  <1> SUFFICES ASSUME Init PROVE TypeOK
    OBVIOUS
  <1>1. job \in Jobs /\ plan \in Plans
    BY JobType, PlansType DEF Init
  <1>2. waiting \in 0..Campaigns + MaxMishaps /\ mishaps \in 0..MaxMishaps
    BY CampaignsAssumption, MishapsAssumption DEF Init
  <1>3. QED
    BY <1>1, <1>2 DEF Init, TypeOK, Statuses, TaskStatuses, CodexStates

(* Only a cut poll puts a campaign issue on the list again.                 *)
Relisted == waiting + (IF status = "done" /\ parent = {} THEN 1 ELSE 0) <= Campaigns + mishaps

LEMMA InitRelisted == Init => Relisted
  BY CampaignsAssumption DEF Init, Relisted

(* Planning leaves at most one set of child issues behind at a time.        *)
LEMMA OrphansGrow ==
  ASSUME TypeOK, CompletePlanning
  PROVE  \/ orphans' = orphans
         \/ /\ orphans' \in orphans..orphans + NTasks
            /\ status' = "blocked" \/ mishaps' = mishaps + 1
  <1>1. orphans \in Nat /\ NTasks \in Nat
    BY NTasksAssumption DEF TypeOK
  <1>2. CASE AcceptPlan
    BY <1>2 DEF AcceptPlan
  <1>3. CASE PlanUnsaved
    BY <1>1, <1>3 DEF PlanUnsaved, Mishap
  <1>4. CASE BlockPlanning
    <2>1. PICK created \in CreatedInVain : orphans' = orphans + created
      BY <1>4 DEF BlockPlanning
    <2>2. created \in 0..NTasks
      BY <1>1, <2>1 DEF CreatedInVain
    <2>3. status' = "blocked" \/ mishaps' = mishaps + 1
      BY <1>4 DEF BlockPlanning, Mishap
    <2>4. QED
      BY <1>1, <2>1, <2>2, <2>3
  <1>5. QED
    BY <1>2, <1>3, <1>4 DEF CompletePlanning

LEMMA PlanningType ==
  ASSUME TypeOK, StartPlanning \/ CompletePlanning
  PROVE  TypeOK'
  <1> USE DEF TypeOK, Statuses
  <1>1. CASE StartPlanning
    <2>1. job' \in Jobs /\ plan' \in Plans /\ mishaps' \in 0..MaxMishaps
      BY <1>1, JobType, PlansType, MishapType DEF StartPlanning
    <2>2. waiting' \in 0..Campaigns + MaxMishaps
      BY <1>1, CampaignsAssumption, MishapsAssumption DEF StartPlanning
    <2>3. status' \in Statuses /\ codex' \in CodexStates
          /\ parent' \subseteq ManagedLabels
      BY <1>1 DEF StartPlanning, ManagedLabels, CodexStates
    <2>4. /\ task' \in [Tasks -> TaskStatuses] /\ completed' \in Seq(Tasks)
          /\ answered' \subseteq Decisions /\ child' \in [Tasks -> SUBSET ManagedLabels]
          /\ comments' \subseteq Decisions /\ people' \subseteq Decisions
          /\ base' \in [Tasks -> Tasks \cup {NoTask}]
          /\ prs' \subseteq Tasks
      BY <1>1 DEF StartPlanning, TaskStatuses
    <2>5. regular' \in {"ready", "running", "over"} /\ orphans' \in Nat
      BY <1>1 DEF StartPlanning
    <2>6. QED
      BY <2>1, <2>2, <2>3, <2>4, <2>5
  <1>2. CASE CompletePlanning
    <2>1. parent' \subseteq ManagedLabels /\ mishaps' \in 0..MaxMishaps
      <3>1. \/ ParentBlocked(parent) \/ UNCHANGED <<parent, mishaps>>
            \/ Mishap /\ parent' \in {parent, MarkBlocked(parent)}
        BY <1>2 DEF CompletePlanning, AcceptPlan, PlanUnsaved, BlockPlanning
      <3>2. QED
        BY <3>1, ParentType, MarkType, MishapType
    <2>2. status' \in Statuses /\ codex' \in CodexStates
      BY <1>2 DEF CompletePlanning, AcceptPlan, PlanUnsaved, BlockPlanning, CodexStates
    <2>3. orphans' \in Nat
      BY <1>2, OrphansGrow, NTasksAssumption
    <2>4. comments' \subseteq Decisions
      BY <1>2 DEF CompletePlanning, AcceptPlan, PlanUnsaved, BlockPlanning, Plans
    <2>5. QED
      BY <1>2, <2>1, <2>2, <2>3, <2>4 DEF CompletePlanning, history
  <1>3. QED
    BY <1>1, <1>2

LEMMA DispatchingType ==
  ASSUME TypeOK, KeepWaiting \/ RefreshCut \/ RequireDecision \/ FinishCampaign
  PROVE  TypeOK'
  <1> USE DEF TypeOK, talk, otherIssues, history
  <1>1. parent' \subseteq ManagedLabels /\ mishaps' \in 0..MaxMishaps
    <2>1. CASE KeepWaiting \/ RefreshCut
      BY <2>1, DispatchType, MishapType DEF KeepWaiting, RefreshCut, ManagedLabels
    <2>2. CASE RequireDecision \/ FinishCampaign
      BY <2>2, DispatchType, ParentType DEF RequireDecision, FinishCampaign
    <2>3. QED
      BY <2>1, <2>2
  <1>2. answered' \subseteq Decisions /\ status' \in Statuses
    BY DispatchType
       DEF KeepWaiting, RefreshCut, RequireDecision, FinishCampaign, NewAnswers, Statuses
  <1>3. QED
    BY <1>1, <1>2 DEF KeepWaiting, RefreshCut, RequireDecision, FinishCampaign

LEMMA StartTaskType ==
  ASSUME TypeOK, NEW t \in Tasks, StartTask(t)
  PROVE  TypeOK'
  <1>1. /\ task' \in [Tasks -> TaskStatuses] /\ status' \in Statuses /\ job' \in Jobs
        /\ codex' \in CodexStates
        /\ child' \in [Tasks -> SUBSET ManagedLabels] /\ mishaps' \in 0..MaxMishaps
    <2>1. CASE BlockTask(t, BlockedJob(NoTask))
      BY <2>1, BlockTaskType, JobType
    <2>2. CASE ~BlockTask(t, BlockedJob(NoTask))
      <3>1. task' \in [Tasks -> TaskStatuses]
        BY <2>2 DEF StartTask, TypeOK, TaskStatuses
      <3>2. child' \in [Tasks -> SUBSET ManagedLabels]
        BY <2>2 DEF StartTask, TypeOK, ManagedLabels
      <3>3. status' \in Statuses /\ job' \in Jobs
            /\ codex' \in CodexStates
        BY <2>2, DispatchType, JobType DEF StartTask, TypeOK, Statuses, Pipeline, CodexStates
      <3>4. mishaps' \in 0..MaxMishaps
        BY <2>2, MishapType DEF StartTask
      <3>5. QED
        BY <3>1, <3>2, <3>3, <3>4
    <2>3. QED
      BY <2>1, <2>2
  <1>2. base' \in [Tasks -> Tasks \cup {NoTask}]
    BY DispatchType DEF StartTask, TypeOK
  <1>3. answered' \subseteq Decisions /\ parent' \subseteq ManagedLabels
    BY DispatchType DEF StartTask
  <1>4. QED
    BY <1>1, <1>2, <1>3 DEF StartTask, TypeOK, talk, otherIssues

LEMMA TaskOverType == TypeOK /\ TaskOver => job.task \in Tasks /\ job.phase \in Pipeline \cup {"", "conflict-resolve"}
  BY DEF TypeOK, TaskOver, Jobs

LEMMA CompletionType ==
  ASSUME TypeOK,
         AdvancePhase \/ ResolveConflict \/ BlockCompletion \/ BlockOutsideCampaign
  PROVE  TypeOK'
  <1> USE DEF TypeOK, talk, otherIssues, history
  <1>1. job.task \in Tasks /\ BlockedJob(job.task) \in Jobs /\ BlockedJob(NoTask) \in Jobs
    BY TaskOverType, JobType
       DEF AdvancePhase, ResolveConflict, BlockCompletion, BlockOutsideCampaign
  <1>2. CASE BlockTask(job.task, BlockedJob(job.task)) /\ (AdvancePhase \/ BlockCompletion)
    BY <1>1, <1>2, BlockTaskType DEF AdvancePhase, BlockCompletion
  <1>3. CASE SessionUnrecorded /\ (AdvancePhase \/ ResolveConflict)
    <2>1. mishaps' \in 0..MaxMishaps
      BY <1>3, MishapType DEF SessionUnrecorded
    <2>2. QED
      BY <1>3, <2>1 DEF SessionUnrecorded, AdvancePhase, ResolveConflict, CodexStates
  <1>4. CASE AdvancePhase /\ ~BlockTask(job.task, BlockedJob(job.task)) /\ ~SessionUnrecorded
    <2>1. job' \in Jobs
      BY <1>1, <1>4, NextPhaseType, JobType DEF AdvancePhase
    <2>2. QED
      BY <1>4, <2>1 DEF AdvancePhase, Statuses, CodexStates
  <1>5. CASE ResolveConflict /\ ~SessionUnrecorded
    BY <1>1, <1>5, JobType DEF ResolveConflict, CodexStates
  <1>6. CASE BlockOutsideCampaign
    <2>1. child' \in [Tasks -> SUBSET ManagedLabels]
      BY <1>1, <1>6, MarkType DEF BlockOutsideCampaign
    <2>2. job' \in Jobs /\ codex' \in CodexStates
      BY <1>1, <1>6 DEF BlockOutsideCampaign, CodexStates
    <2>3. mishaps' \in 0..MaxMishaps
      BY <1>6, MishapType DEF BlockOutsideCampaign
    <2>4. QED
      BY <1>6, <2>1, <2>2, <2>3 DEF BlockOutsideCampaign
  <1>7. QED
    BY <1>2, <1>3, <1>4, <1>5, <1>6 DEF BlockCompletion

LEMMA CompleteTaskType ==
  ASSUME TypeOK, CompleteTask
  PROVE  TypeOK'
  <1>1. job.task \in Tasks /\ child[job.task] \in SUBSET ManagedLabels /\ parent \in SUBSET ManagedLabels
    BY TaskOverType DEF CompleteTask, TypeOK
  <1>2. child' \in [Tasks -> SUBSET ManagedLabels]
    BY <1>1, MarkType DEF CompleteTask, TypeOK
  <1>3. parent' \in SUBSET ManagedLabels /\ mishaps' \in 0..MaxMishaps
    BY <1>1, MarkType, ParentType, MishapType DEF CompleteTask
  <1>4. task' \in [Tasks -> TaskStatuses] /\ completed' \in Seq(Tasks)
    <2>1. CASE UNCHANGED <<task, completed>>
      BY <2>1 DEF TypeOK
    <2>2. CASE /\ task' = [task EXCEPT ![job.task] = "completed"]
               /\ completed' = Append(completed, job.task)
      <3>1. completed' \in Seq(Tasks)
        BY <1>1, <2>2 DEF TypeOK
      <3>2. task' \in [Tasks -> TaskStatuses]
        BY <2>2 DEF TypeOK, TaskStatuses
      <3>3. QED
        BY <3>1, <3>2
    <2>3. QED
      BY <2>1, <2>2 DEF CompleteTask
  <1>5. status' \in Statuses
    BY DEF CompleteTask, CampaignAfter, TypeOK, Statuses
  <1>6. job' \in Jobs /\ codex' \in CodexStates /\ prs' \subseteq Tasks
    BY <1>1, JobType DEF CompleteTask, TypeOK, CodexStates
  <1>7. QED
    BY <1>2, <1>3, <1>4, <1>5, <1>6 DEF CompleteTask, TypeOK, talk, otherIssues

LEMMA RegularType ==
  ASSUME TypeOK, Relisted, StartRegular \/ CompleteRegular
  PROVE  TypeOK'
  <1> USE DEF TypeOK, talk, history
  <1>1. CASE StartRegular
    <2>1. job' \in Jobs
      BY <1>1, JobType DEF StartRegular
    <2>2. waiting' \in 0..Campaigns + MaxMishaps
      BY <1>1, CampaignsAssumption, MishapsAssumption
         DEF StartRegular, CampaignInNewState, Relisted
    <2>3. status' \in Statuses /\ regular' \in {"ready", "running", "over"} /\ orphans' = orphans
          /\ codex' \in CodexStates
      BY <1>1 DEF StartRegular, CampaignInNewState, Statuses, CodexStates
    <2>4. QED
      BY <1>1, <2>1, <2>2, <2>3 DEF StartRegular
  <1>2. CASE CompleteRegular
    BY <1>2, JobType DEF CompleteRegular, CodexStates
  <1>3. QED
    BY <1>1, <1>2

LEMMA TypeStep == TypeOK /\ Relisted /\ [Next]_vars => TypeOK'
  <1> SUFFICES ASSUME TypeOK, Relisted, [Next]_vars PROVE TypeOK'
    OBVIOUS
  <1>1. CASE Daemon
    BY <1>1, PlanningType, DispatchingType, StartTaskType, CompletionType, CompleteTaskType,
       RegularType DEF Daemon
  <1>2. CASE PlannerEnds
    <2>1. plan' \in Plans
      BY <1>2, OfferedType DEF PlannerEnds, TypeOK
    <2>2. QED
      BY <1>2, <2>1 DEF PlannerEnds, TypeOK, CodexStates, fileVars, talk, otherIssues, history
  <1>3. CASE SessionEnds
    BY <1>3 DEF SessionEnds, TypeOK, CodexStates, fileVars, talk, otherIssues, history
  <1>4. ASSUME NEW d \in Decisions, Answer(d) PROVE TypeOK'
    BY <1>4 DEF Answer, TypeOK, Plans, fileVars, otherIssues, history
  <1>5. CASE UNCHANGED vars
    BY <1>5 DEF vars, TypeOK, fileVars, talk, otherIssues, history
  <1>6. QED
    BY <1>1, <1>2, <1>3, <1>4, <1>5 DEF Next

LEMMA RelistedStep == TypeOK /\ Relisted /\ [Next]_vars => Relisted'
  <1> SUFFICES ASSUME TypeOK, Relisted, [Next]_vars PROVE Relisted'
    OBVIOUS
  <1>0. waiting \in Nat /\ mishaps \in Nat /\ Campaigns \in Nat
    BY CampaignsAssumption, MishapsAssumption DEF TypeOK
  <1>1. CASE mishaps' = mishaps + 1 /\ waiting' = waiting
    BY <1>0, <1>1 DEF Relisted
  <1>2. CASE mishaps' = mishaps /\ waiting' = waiting /\ (status' # "done" \/ parent' # {})
    BY <1>0, <1>2 DEF Relisted
  <1>3. CASE UNCHANGED <<mishaps, waiting, status, parent>>
    BY <1>3 DEF Relisted
  <1>4. CASE StartPlanning
    BY <1>0, <1>4 DEF StartPlanning, Relisted, Mishap
  <1>5. CASE CompletePlanning
    BY <1>1, <1>2, <1>3, <1>5 DEF CompletePlanning, AcceptPlan, PlanUnsaved, BlockPlanning,
       ParentBlocked, Mishap
  <1>6. CASE KeepWaiting \/ RefreshCut \/ RequireDecision
    BY <1>1, <1>2, <1>6 DEF KeepWaiting, RefreshCut, RequireDecision, ParentBlocked, Mishap, otherIssues
  <1>7. CASE FinishCampaign
    BY <1>1, <1>2, <1>7 DEF FinishCampaign, ParentDone, MarkDone, Mishap, otherIssues
  <1>8. ASSUME NEW t \in Tasks, StartTask(t) PROVE Relisted'
    <2>1. waiting' = waiting /\ Resumed # "done"
      BY <1>8 DEF StartTask, Resumed, CanDispatch, AllCompleted, CompletedTasks, ReadyTasks, otherIssues
    <2>2. mishaps' = mishaps + 1 \/ (mishaps' = mishaps /\ status' # "done")
      BY <1>8, <2>1 DEF StartTask, BlockTask, Mishap
    <2>3. QED
      BY <1>1, <1>2, <2>1, <2>2
  <1>9. CASE AdvancePhase \/ BlockCompletion
    BY <1>1, <1>2, <1>9 DEF AdvancePhase, BlockCompletion, BlockTask, SessionUnrecorded, Mishap, otherIssues
  <1>10. CASE ResolveConflict
    BY <1>1, <1>3, <1>10 DEF ResolveConflict, SessionUnrecorded, Mishap, otherIssues
  <1>11. CASE BlockOutsideCampaign
    BY <1>1, <1>3, <1>11 DEF BlockOutsideCampaign, Mishap, otherIssues
  <1>12. CASE CompleteTask
    <2>1. waiting' = waiting /\ CampaignAfter(CompletedTasks \cup {job.task} = Tasks) \in
            {"planned", "done", "decision_required"}
      BY <1>12 DEF CompleteTask, otherIssues, CampaignAfter
    <2>2. mishaps' = mishaps + 1 \/ (mishaps' = mishaps /\ (status' # "done" \/ parent' # {}))
      BY <1>12, <2>1 DEF CompleteTask, ParentDone, ParentBlocked, MarkDone, Mishap
    <2>3. QED
      BY <1>1, <1>2, <2>1, <2>2
  <1>13. CASE StartRegular
    BY <1>0, <1>13 DEF StartRegular, CampaignInNewState, Relisted
  <1>14. CASE CompleteRegular \/ PlannerEnds \/ SessionEnds \/ UNCHANGED vars \/ \E d \in Decisions : Answer(d)
    BY <1>3, <1>14 DEF CompleteRegular, PlannerEnds, SessionEnds, Answer, vars, fileVars, otherIssues
  <1>15. QED
    BY <1>4, <1>5, <1>6, <1>7, <1>8, <1>9, <1>10, <1>11, <1>12, <1>13, <1>14 DEF Next, Daemon

(* The campaign, its labels and the other issues keep their types.          *)
THEOREM TypeCorrect == Spec => []TypeOK
  BY InitType, InitRelisted, TypeStep, RelistedStep, PTL DEF Spec
-----------------------------------------------------------------------------
LEMMA Smallest ==
  ASSUME NEW S \in SUBSET Nat, S # {}
  PROVE  \E x \in S : \A y \in S : x <= y
  <1> DEFINE T == {0..x : x \in S}
  <1>1. T \subseteq FiniteSubsetsOf(Nat)
    <2>1. \A x \in Nat : 0..x \subseteq Nat /\ IsFiniteSet(0..x)
      BY FS_Interval
    <2>2. QED
      BY <2>1 DEF FiniteSubsetsOf
  <1>2. T # {}
    OBVIOUS
  <1>3. \E U \in T : \A V \in T : ~(<<V, U>> \in StrictSubsetOrdering(Nat))
    BY <1>1, <1>2, FS_StrictSubsetOrderingWellFounded, WFMin
  <1>4. PICK x \in S : \A y \in S : ~(<<0..y, 0..x>> \in StrictSubsetOrdering(Nat))
    BY <1>3
  <1>5. ASSUME NEW y \in S, y < x PROVE FALSE
    <2>1. 0..y \subseteq 0..x /\ 0..y \in SUBSET Nat /\ 0..x \in SUBSET Nat
      BY <1>5
    <2>2. x \in 0..x /\ x \notin 0..y
      BY <1>5
    <2>3. <<0..y, 0..x>> \in StrictSubsetOrdering(Nat)
      BY <2>1, <2>2 DEF StrictSubsetOrdering
    <2>4. QED
      BY <2>3, <1>4
  <1>6. QED
    BY <1>5

(* nextCampaignTaskIndex finds a ready task.                                *)
LEMMA NextIsReady ==
  ASSUME ReadyTasks # {}
  PROVE  NextTask \in ReadyTasks
  <1>1. \E t \in ReadyTasks : \A u \in ReadyTasks : t <= u
    <2>1. ReadyTasks \in SUBSET Nat
      BY NTasksAssumption DEF ReadyTasks, Tasks
    <2>2. QED
      BY <2>1, Smallest
  <1>2. QED
    BY <1>1 DEF NextTask

(* A list of the tasks without a repetition has as many entries as tasks.   *)
LEMMA ListOfAll ==
  ASSUME NEW s \in Seq(Tasks),
         \A i, j \in DOMAIN s : s[i] = s[j] => i = j,
         \A t \in Tasks : \E i \in DOMAIN s : s[i] = t
  PROVE  Len(s) = NTasks
  <1>1. Len(s) \in Nat /\ DOMAIN s = 1..Len(s) /\ s \in [1..Len(s) -> Tasks]
    OBVIOUS
  <1>2. s \in Bijection(1..Len(s), Tasks)
    BY <1>1 DEF Bijection, Injection, Surjection, IsInjective
  <1>3. Cardinality(Tasks) = Cardinality(1..Len(s))
    BY <1>1, <1>2, FS_Interval, FS_Bijection DEF ExistsBijection
  <1>4. QED
    <2>1. Cardinality(1..Len(s)) = Len(s) /\ Cardinality(1..NTasks) = NTasks
      <3>1. Len(s) \in Int /\ NTasks \in Int /\ 1 \in Int /\ NTasks > 0 /\ Len(s) >= 0
        BY <1>1, NTasksAssumption
      <3>2. /\ Cardinality(1..Len(s)) = IF 1 > Len(s) THEN 0 ELSE Len(s) - 1 + 1
            /\ Cardinality(1..NTasks) = IF 1 > NTasks THEN 0 ELSE NTasks - 1 + 1
        BY <3>1, FS_Interval
      <3>3. QED
        BY <3>1, <3>2
    <2>2. QED
      BY <1>3, <2>1 DEF Tasks
-----------------------------------------------------------------------------
(* What holds between the parts of the campaign's state, and is needed to   *)
(* see that a task is begun, blocked and completed only once.               *)
JobIsItsTask ==
    JobRuns /\ job.task # NoTask =>
        task[job.task] = "running" /\ status = "running" /\ base[job.task] = StackBase
PlanningIsFresh ==
    status = "planning" =>
        (\A t \in Tasks : task[t] = "pending") /\ ~JobRuns /\ "done" \notin parent
CompletedIsListed ==
    /\ \A i \in DOMAIN completed : task[completed[i]] = "completed"
    /\ \A t \in CompletedTasks : \E i \in DOMAIN completed : completed[i] = t
    /\ CompletedTasks \subseteq prs

Work == /\ JobIsItsTask /\ PlanningIsFresh /\ CompletedIsListed
        /\ DecisionsGateTasks /\ DependenciesFirst /\ StackIsAChain
        /\ DoneIsComplete /\ BlockedTogether

(* The ways in which a step treats the tasks.                               *)
Keeps == /\ UNCHANGED <<task, completed, base>>
         /\ plan' = plan \/ status = "planning"
Begins(t) ==
    /\ ~JobRuns /\ t \in ReadyTasks /\ AllowedByDecisions(t, answered')
    /\ task' = [task EXCEPT ![t] = "running"]
    /\ base' = [base EXCEPT ![t] = StackBase]
    /\ status' = "running"
    /\ UNCHANGED <<completed, plan>>
Blocks(t) ==
    /\ task[t] \in {"pending", "running"}
    /\ task' = [task EXCEPT ![t] = "blocked"]
    /\ status' = "blocked" /\ job'.state = "blocked"
    /\ mishaps' = 0 => child' = [child EXCEPT ![t] = {"blocked"}]
    /\ UNCHANGED <<completed, base, plan>>
Completes(t) ==
    /\ TaskOver /\ t = job.task
    /\ task' = [task EXCEPT ![t] = "completed"]
    /\ completed' = Append(completed, t)
    /\ UNCHANGED <<base, plan>>
    /\ prs' = prs \cup {t}
    /\ status' # "blocked"

LEMMA BlockTaskEffect ==
  ASSUME TypeOK, NEW t \in Tasks, NEW blockedJob, blockedJob.state = "blocked",
         task[t] \in {"pending", "running"}, BlockTask(t, blockedJob),
         UNCHANGED <<completed, base, plan>>
  PROVE  Keeps \/ Blocks(t)
  <1>1. CASE task' = task
    BY <1>1 DEF Keeps
  <1>2. CASE task' # task
    <2>1. /\ task' = [task EXCEPT ![t] = "blocked"]
          /\ status' = "blocked" /\ job' = blockedJob
      BY <1>2 DEF BlockTask
    <2>2. ASSUME mishaps' = 0 PROVE child' = [child EXCEPT ![t] = {"blocked"}]
      <3>1. ~Mishap
        BY <2>2 DEF Mishap, TypeOK
      <3>2. MarkBlocked(child[t]) = {"blocked"}
        BY DEF TypeOK, MarkBlocked, ManagedLabels
      <3>3. QED
        BY <3>1, <3>2 DEF BlockTask
    <2>3. QED
      BY <2>1, <2>2 DEF Blocks
  <1>3. QED
    BY <1>1, <1>2

LEMMA JobFields ==
  /\ NoJob.state # "running" /\ NoJob.task = NoTask /\ RegularJob.task = NoTask
  /\ \A t : BlockedJob(t).state = "blocked" /\ BlockedJob(t).task = t
  /\ \A t, phase : RunningJob(t, phase).task = t
  BY DEF NoJob, RegularJob, BlockedJob, RunningJob

LEMMA StartTaskEffect ==
  ASSUME TypeOK, NEW t \in Tasks, StartTask(t)
  PROVE  /\ Keeps \/ Begins(t) \/ Blocks(t)
         /\ answered \subseteq answered'
  <1>1. t \in ReadyTasks /\ task[t] = "pending" /\ ~JobRuns
        /\ answered' = Answers /\ AllowedByDecisions(t, Answers)
    BY NextIsReady DEF StartTask, ReadyTasks, CanDispatch
  <1>2. answered \subseteq answered'
    BY <1>1, DispatchType
  <1>3. CASE BlockTask(t, BlockedJob(NoTask)) /\ UNCHANGED <<completed, base, plan>>
    BY <1>1, <1>2, <1>3, BlockTaskEffect, JobFields
  <1>4. CASE UNCHANGED <<task, completed, base, plan>>
    BY <1>2, <1>4 DEF Keeps
  <1>5. CASE /\ task' = [task EXCEPT ![t] = "running"]
             /\ base' = [base EXCEPT ![t] = StackBase]
             /\ status' = "running"
             /\ UNCHANGED <<completed, plan>>
    BY <1>1, <1>2, <1>5 DEF Begins
  <1>6. QED
    BY <1>3, <1>4, <1>5 DEF StartTask

(* Every step but the start of a campaign treats the tasks in one of these  *)
(* ways, and takes no answer back.                                          *)
LEMMA TaskChanges ==
  ASSUME TypeOK, Work, [Next]_vars
  PROVE  \/ StartPlanning
         \/ /\ Keeps \/ \E t \in Tasks : Begins(t) \/ Blocks(t) \/ Completes(t)
            /\ answered \subseteq answered' /\ prs \subseteq prs'
  <1> USE DEF history
  <1>1. CASE CompletePlanning
    BY <1>1 DEF CompletePlanning, Keeps
  <1>2. CASE KeepWaiting \/ RefreshCut \/ RequireDecision \/ FinishCampaign
    BY <1>2, DispatchType DEF KeepWaiting, RefreshCut, RequireDecision, FinishCampaign, Keeps
  <1>3. ASSUME NEW t \in Tasks, StartTask(t)
        PROVE  /\ Keeps \/ Begins(t) \/ Blocks(t)
               /\ answered \subseteq answered' /\ prs \subseteq prs'
    BY <1>3, StartTaskEffect DEF StartTask
  <1>4. CASE AdvancePhase \/ BlockCompletion
    <2>1. job.task \in Tasks /\ task[job.task] = "running"
      BY <1>4, TaskOverType
         DEF AdvancePhase, BlockCompletion, Work, JobIsItsTask, TaskOver, SessionOver
    <2>2. CASE BlockTask(job.task, BlockedJob(job.task))
      BY <1>4, <2>1, <2>2, BlockTaskEffect, JobFields DEF AdvancePhase, BlockCompletion
    <2>3. CASE ~BlockTask(job.task, BlockedJob(job.task))
      BY <1>4, <2>3 DEF AdvancePhase, BlockCompletion, SessionUnrecorded, Keeps
    <2>4. QED
      BY <2>2, <2>3
  <1>5. CASE ResolveConflict \/ BlockOutsideCampaign
    BY <1>5 DEF ResolveConflict, SessionUnrecorded, BlockOutsideCampaign, Keeps
  <1>6. CASE CompleteTask
    <2>1. job.task \in Tasks
      BY <1>6, TaskOverType DEF CompleteTask
    <2>2. Keeps \/ Completes(job.task)
      BY <1>6 DEF CompleteTask, CampaignAfter, Keeps, Completes
    <2>3. QED
      BY <1>6, <2>1, <2>2 DEF CompleteTask
  <1>7. CASE StartRegular \/ CompleteRegular
    BY <1>7 DEF StartRegular, CompleteRegular, Keeps
  <1>8. CASE PlannerEnds \/ SessionEnds \/ UNCHANGED vars \/ \E d \in Decisions : Answer(d)
    BY <1>8 DEF PlannerEnds, SessionEnds, Answer, vars, fileVars, Keeps
  <1>9. QED
    BY <1>1, <1>2, <1>3, <1>4, <1>5, <1>6, <1>7, <1>8 DEF Next, Daemon

(* No task has been touched yet. *)
Fresh == /\ \A t \in Tasks : task[t] = "pending"
         /\ completed = <<>> /\ ~JobRuns
         /\ status \in {"none", "planning"} /\ "done" \notin parent

LEMMA FreshWork == Fresh => Work
  <1> SUFFICES ASSUME Fresh PROVE Work
    OBVIOUS
  <1>1. Started = {} /\ CompletedTasks = {} /\ DOMAIN completed = {}
    BY DEF Fresh, Started, CompletedTasks
  <1>2. DecisionsGateTasks /\ DependenciesFirst
    BY <1>1 DEF DecisionsGateTasks, DependenciesFirst
  <1>3. StackIsAChain /\ CompletedIsListed
    BY <1>1 DEF StackIsAChain, CompletedIsListed
  <1>4. DoneIsComplete /\ BlockedTogether
    BY DEF Fresh, DoneIsComplete, BlockedTogether
  <1>5. JobIsItsTask /\ PlanningIsFresh
    BY DEF Fresh, JobIsItsTask, PlanningIsFresh
  <1>6. QED
    BY <1>2, <1>3, <1>4, <1>5 DEF Work

LEMMA InitWork == Init => Work
  <1> SUFFICES ASSUME Init PROVE Fresh
    BY FreshWork
  <1>1. ~JobRuns /\ "done" \notin parent /\ \A t \in Tasks : task[t] = "pending"
    BY DEF Init, JobRuns, NoJob
  <1>2. QED
    BY <1>1 DEF Init, Fresh

LEMMA StartPlanningWork == StartPlanning => Work'
  <1>1. ASSUME StartPlanning PROVE Fresh'
    <2>1. /\ \A t \in Tasks : task'[t] = "pending"
          /\ completed' = <<>> /\ job' = NoJob
          /\ status' \in {"none", "planning"} /\ "done" \notin parent'
      BY <1>1 DEF StartPlanning
    <2>2. QED
      BY <2>1 DEF Fresh, JobRuns, NoJob
  <1>2. QED
    BY <1>1, FreshWork, PTL

-----------------------------------------------------------------------------
(* Each conjunct of Work, over the steps that begin no campaign.            *)
LEMMA StartTaskJob ==
  ASSUME TypeOK, NEW t \in Tasks, StartTask(t)
  PROVE  JobIsItsTask' /\ status' # "planning"
  <1>1. ~JobRuns /\ Resumed # "planning" /\ StackBase' = StackBase
    BY DEF StartTask, CanDispatch, Resumed, Refreshed, StackBase
  <1>2. ASSUME job' = job \/ job' = BlockedJob(NoTask)
        PROVE  JobIsItsTask'
    <2>1. ~JobRuns'
      BY <1>1, <1>2, JobFields DEF JobRuns
    <2>2. QED
      BY <2>1 DEF JobIsItsTask
  <1>3. ASSUME /\ job' = RunningJob(t, "plan") /\ status' = "running"
               /\ task' = [task EXCEPT ![t] = "running"]
               /\ base' = [base EXCEPT ![t] = StackBase]
        PROVE  JobIsItsTask'
    <2>1. task'[t] = "running" /\ base'[t] = StackBase /\ job'.task = t
      BY <1>3 DEF TypeOK, RunningJob
    <2>2. QED
      BY <1>1, <1>3, <2>1 DEF JobIsItsTask
  <1>4. JobIsItsTask'
    BY <1>2, <1>3 DEF StartTask, BlockTask
  <1>5. status' # "planning"
    BY <1>1 DEF StartTask, BlockTask
  <1>6. QED
    BY <1>4, <1>5

LEMMA BlockTaskJob ==
  ASSUME TypeOK, JobIsItsTask, TaskOver, BlockTask(job.task, BlockedJob(job.task)),
         UNCHANGED <<completed, base>>
  PROVE  JobIsItsTask' /\ status' # "planning"
  <1>1. status = "running" /\ Resumed = "running" /\ StackBase' = StackBase
    BY DEF JobIsItsTask, TaskOver, SessionOver, Resumed, Refreshed, StackBase
  <1>2. CASE job' = BlockedJob(job.task) /\ status' = "blocked"
    BY <1>2 DEF JobIsItsTask, JobRuns, BlockedJob
  <1>3. CASE UNCHANGED <<task, job>> /\ status' = "running"
    BY <1>1, <1>3 DEF JobIsItsTask, JobRuns
  <1>4. QED
    BY <1>1, <1>2, <1>3 DEF BlockTask

LEMMA UnrecordedJob ==
  ASSUME JobIsItsTask, TaskOver, SessionUnrecorded, UNCHANGED <<completed, base>>
  PROVE  JobIsItsTask' /\ status' = status
  BY DEF JobIsItsTask, TaskOver, SessionOver, SessionUnrecorded, JobRuns, StackBase

LEMMA JobStep ==
  ASSUME TypeOK, Work, [Next]_vars
  PROVE  JobIsItsTask' \/ StartPlanning
  <1> USE DEF Work, history
  <1>1. CASE CompletePlanning
    BY <1>1 DEF CompletePlanning, PlanningIsFresh, JobIsItsTask, JobRuns
  <1>2. CASE KeepWaiting \/ RefreshCut \/ RequireDecision \/ FinishCampaign
    BY <1>2 DEF KeepWaiting, RefreshCut, RequireDecision, FinishCampaign, CanDispatch,
                JobIsItsTask, JobRuns
  <1>3. ASSUME NEW t \in Tasks, StartTask(t) PROVE JobIsItsTask'
    BY <1>3, StartTaskJob
  <1>4. CASE AdvancePhase
    <2>1. CASE BlockTask(job.task, BlockedJob(job.task))
      BY <1>4, <2>1, BlockTaskJob DEF AdvancePhase
    <2>2. CASE SessionUnrecorded
      BY <1>4, <2>2, UnrecordedJob DEF AdvancePhase
    <2>3. CASE ~BlockTask(job.task, BlockedJob(job.task)) /\ ~SessionUnrecorded
      <3>1. /\ job'.task = job.task /\ status' = "running"
            /\ UNCHANGED <<task, completed, base>>
        <4>1. /\ job' = RunningJob(job.task, NextPhase(job.phase)) /\ status' = "running"
              /\ UNCHANGED <<task, completed, base>>
          BY <1>4, <2>3, Zenon DEF AdvancePhase
        <4>2. QED
          BY <4>1 DEF RunningJob
      <3>2. QED
        BY <1>4, <3>1 DEF AdvancePhase, TaskOver, SessionOver, JobIsItsTask, StackBase
    <2>4. QED
      BY <2>1, <2>2, <2>3
  <1>5. CASE ResolveConflict
    BY <1>5, UnrecordedJob DEF ResolveConflict, TaskOver, SessionOver, JobIsItsTask, JobRuns,
                               RunningJob, StackBase
  <1>6. CASE BlockCompletion
    BY <1>6, BlockTaskJob DEF BlockCompletion
  <1>7. CASE BlockOutsideCampaign
    <2>1. ~JobRuns' \/ UNCHANGED job
      <3>1. job' = BlockedJob(NoTask) \/ UNCHANGED job
        BY <1>7, Zenon DEF BlockOutsideCampaign
      <3>2. QED
        BY <3>1, JobFields DEF JobRuns
    <2>2. UNCHANGED <<status, task, completed, base>>
      BY <1>7 DEF BlockOutsideCampaign
    <2>3. QED
      BY <2>1, <2>2 DEF JobIsItsTask, JobRuns, StackBase
  <1>8. CASE CompleteTask
    <2>1. ~JobRuns' \/ UNCHANGED <<status, task, completed, job, base>>
      <3>1. job' = NoJob \/ UNCHANGED <<status, task, completed, job, base>>
        BY <1>8, Zenon DEF CompleteTask
      <3>2. QED
        BY <3>1, JobFields DEF JobRuns
    <2>2. QED
      BY <2>1 DEF JobIsItsTask, JobRuns, StackBase
  <1>9. CASE StartRegular \/ CompleteRegular
    <2>1. job' \in {NoJob, RegularJob, BlockedJob(NoTask)}
      BY <1>9 DEF StartRegular, CompleteRegular
    <2>2. job'.task = NoTask
      BY <2>1, JobFields
    <2>3. QED
      BY <2>2 DEF JobIsItsTask
  <1>10. CASE PlannerEnds \/ SessionEnds \/ UNCHANGED vars \/ \E d \in Decisions : Answer(d)
    BY <1>10 DEF PlannerEnds, SessionEnds, Answer, vars, fileVars, JobIsItsTask, JobRuns,
                 StackBase
  <1>11. QED
    BY <1>1, <1>2, <1>3, <1>4, <1>5, <1>6, <1>7, <1>8, <1>9, <1>10 DEF Next, Daemon

LEMMA PlanningStep ==
  ASSUME TypeOK, Work, [Next]_vars
  PROVE  PlanningIsFresh' \/ StartPlanning
  <1> USE DEF Work, history
  <1>1. CASE status' # "planning"
    BY <1>1 DEF PlanningIsFresh
  <1>2. CASE status = "planning" /\ UNCHANGED <<task, job, parent>>
    BY <1>2 DEF PlanningIsFresh, JobRuns
  <1>3. CASE JobRuns /\ status' = status
    BY <1>1, <1>3 DEF PlanningIsFresh
  <1>4. CASE CompletePlanning
    <2>1. UNCHANGED <<task, job>> /\ status = "planning"
      BY <1>4 DEF CompletePlanning
    <2>2. status' # "planning" \/ parent' = parent \/ parent' = MarkBlocked(parent)
      BY <1>4 DEF CompletePlanning, AcceptPlan, PlanUnsaved, BlockPlanning
    <2>3. QED
      BY <1>1, <2>1, <2>2 DEF PlanningIsFresh, JobRuns, MarkBlocked
  <1>5. CASE KeepWaiting \/ RefreshCut \/ RequireDecision \/ FinishCampaign
    BY <1>1, <1>5 DEF KeepWaiting, RefreshCut, RequireDecision, FinishCampaign, Resumed
  <1>6. ASSUME NEW t \in Tasks, StartTask(t) PROVE PlanningIsFresh' \/ StartPlanning
    BY <1>1, <1>6, StartTaskJob
  <1>7. CASE AdvancePhase \/ BlockCompletion
    BY <1>1, <1>3, <1>7, BlockTaskJob DEF AdvancePhase, BlockCompletion, SessionUnrecorded,
                                          TaskOver, SessionOver
  <1>8. CASE ResolveConflict \/ BlockOutsideCampaign \/ CompleteRegular \/ SessionEnds
    BY <1>3, <1>8 DEF ResolveConflict, SessionUnrecorded, BlockOutsideCampaign, CompleteRegular, SessionEnds,
                      TaskOver, SessionOver, fileVars
  <1>9. CASE CompleteTask
    BY <1>1, <1>3, <1>9 DEF CompleteTask, CampaignAfter, TaskOver, SessionOver
  <1>10. CASE StartRegular
    BY <1>1, <1>10 DEF StartRegular, CampaignLetsPass, CampaignInNewState
  <1>11. CASE PlannerEnds \/ UNCHANGED vars
    BY <1>1, <1>2, <1>11 DEF PlannerEnds, vars, fileVars
  <1>12. CASE \E d \in Decisions : Answer(d)
    BY <1>1, <1>12 DEF Answer, fileVars
  <1>13. QED
    BY <1>4, <1>5, <1>6, <1>7, <1>8, <1>9, <1>10, <1>11, <1>12 DEF Next, Daemon

(* What the ways of treating the tasks mean for the sets of tasks.          *)
LEMMA TaskSets ==
  ASSUME TypeOK, NEW t \in Tasks
  PROVE  /\ UNCHANGED task => UNCHANGED <<CompletedTasks, Started>>
         /\ Begins(t) => /\ CompletedTasks' = CompletedTasks
                         /\ Started' = Started \cup {t} /\ task[t] = "pending"
         /\ Blocks(t) => /\ CompletedTasks' = CompletedTasks
                         /\ Started' = Started \ {t}
         /\ Completes(t) => /\ CompletedTasks' = CompletedTasks \cup {t}
                            /\ Started' = Started \cup {t}
  BY DEF TypeOK, CompletedTasks, Started, Begins, Blocks, Completes, ReadyTasks

LEMMA PlanKept ==
  ASSUME Work, Keeps \/ \E t \in Tasks : Begins(t) \/ Blocks(t) \/ Completes(t),
         plan' # plan
  PROVE  Keeps /\ Started = {} /\ CompletedTasks = {}
  BY DEF Work, Keeps, Begins, Blocks, Completes, PlanningIsFresh, Started, CompletedTasks

LEMMA TasksStep ==
  ASSUME TypeOK, Work, [Next]_vars, ~StartPlanning
  PROVE  (DependenciesFirst /\ DecisionsGateTasks)'
  <1> USE TaskChanges DEF Work
  <1>1. CASE plan' # plan
    <2>1. Started' = {}
      BY <1>1, PlanKept DEF Keeps, Started
    <2>2. QED
      BY <2>1 DEF DependenciesFirst, DecisionsGateTasks
  <1>2. CASE plan' = plan /\ Keeps
    BY <1>2 DEF Keeps, DependenciesFirst, DecisionsGateTasks, Started, CompletedTasks
  <1>3. ASSUME NEW t \in Tasks, Begins(t) PROVE (DependenciesFirst /\ DecisionsGateTasks)'
    <2>1. CompletedTasks' = CompletedTasks /\ Started' = Started \cup {t} /\ plan' = plan
      BY <1>3, TaskSets DEF Begins
    <2>2. plan.deps[t] \subseteq CompletedTasks
      BY <1>3 DEF Begins, ReadyTasks
    <2>3. \A d \in plan.asked \ answered' : t \in plan.canContinue[d]
      BY <1>3 DEF Begins, AllowedByDecisions, Pending
    <2>4. QED
      BY <2>1, <2>2, <2>3 DEF DependenciesFirst, DecisionsGateTasks
  <1>4. ASSUME NEW t \in Tasks, Blocks(t) PROVE (DependenciesFirst /\ DecisionsGateTasks)'
    <2>1. CompletedTasks' = CompletedTasks /\ Started' \subseteq Started /\ plan' = plan
      BY <1>4, TaskSets DEF Blocks
    <2>2. QED
      BY <2>1 DEF DependenciesFirst, DecisionsGateTasks
  <1>5. ASSUME NEW t \in Tasks, Completes(t) PROVE (DependenciesFirst /\ DecisionsGateTasks)'
    <2>1. t \in Started
      BY <1>5 DEF Completes, TaskOver, SessionOver, JobIsItsTask, Started
    <2>2. /\ CompletedTasks' = CompletedTasks \cup {t} /\ Started' = Started \cup {t}
          /\ plan' = plan
      BY <1>5, TaskSets DEF Completes
    <2>3. CompletedTasks \subseteq CompletedTasks' /\ Started' = Started
      BY <2>1, <2>2
    <2>4. QED
      BY <2>2, <2>3 DEF DependenciesFirst, DecisionsGateTasks
  <1>6. QED
    BY <1>1, <1>2, <1>3, <1>4, <1>5 DEF Begins, Blocks, Completes

LEMMA ListStep ==
  ASSUME TypeOK, Work, [Next]_vars, ~StartPlanning
  PROVE  (CompletedIsListed /\ StackIsAChain)'
  <1> USE TaskChanges DEF Work, TypeOK
  <1>0. completed \in [1..Len(completed) -> Tasks] /\ Len(completed) \in Nat
        /\ DOMAIN completed = 1..Len(completed)
    OBVIOUS
  <1>1. CASE Keeps
    BY <1>1 DEF Keeps, CompletedIsListed, StackIsAChain, CompletedTasks
  <1>2. ASSUME NEW t \in Tasks, Begins(t) \/ Blocks(t) PROVE (CompletedIsListed /\ StackIsAChain)'
    <2>1. CompletedTasks' = CompletedTasks /\ task[t] \in {"pending", "running"}
          /\ completed' = completed
      BY <1>2, TaskSets DEF Begins, Blocks
    <2>2. \A u \in Tasks \ {t} : task'[u] = task[u] /\ base'[u] = base[u]
      BY <1>2 DEF Begins, Blocks
    <2>3. \A i \in DOMAIN completed : completed[i] \in Tasks \ {t}
      BY <1>0, <2>1 DEF CompletedIsListed
    <2>4. QED
      BY <2>1, <2>2, <2>3 DEF CompletedIsListed, StackIsAChain
  <1>3. ASSUME NEW t \in Tasks, Completes(t) PROVE (CompletedIsListed /\ StackIsAChain)'
    <2> DEFINE n == Len(completed)
    <2>1. task[t] = "running" /\ base[t] = StackBase
      BY <1>3 DEF Completes, TaskOver, SessionOver, JobIsItsTask
    <2>2. /\ DOMAIN completed' = 1..n + 1 /\ completed'[n + 1] = t
          /\ \A i \in 1..n : completed'[i] = completed[i] /\ completed[i] \in Tasks \ {t}
      BY <1>0, <1>3, <2>1 DEF Completes, CompletedIsListed
    <2>3. /\ CompletedTasks' = CompletedTasks \cup {t} /\ base' = base /\ prs' = prs \cup {t}
          /\ task'[t] = "completed" /\ \A u \in Tasks \ {t} : task'[u] = task[u]
      BY <1>3, TaskSets DEF Completes
    <2>4. CompletedIsListed'
      <3>1. \A i \in DOMAIN completed' : task'[completed'[i]] = "completed"
        BY <1>0, <2>2, <2>3 DEF CompletedIsListed
      <3>2. ASSUME NEW u \in CompletedTasks'
            PROVE  \E i \in DOMAIN completed' : completed'[i] = u
        <4>1. CASE u = t
          BY <1>0, <2>2, <4>1
        <4>2. CASE u \in CompletedTasks
          <5>1. PICK i \in 1..n : completed[i] = u
            BY <1>0, <4>2 DEF CompletedIsListed
          <5>2. QED
            BY <1>0, <2>2, <5>1
        <4>3. QED
          BY <2>3, <3>2, <4>1, <4>2
      <3>3. QED
        BY <2>3, <3>1, <3>2 DEF CompletedIsListed
    <2>5. StackIsAChain'
      <3>1. ASSUME NEW i \in 1..n + 1
            PROVE  base'[completed'[i]] = IF i = 1 THEN NoTask ELSE completed'[i - 1]
        <4>1. CASE i \in 1..n
          <5>1. i # 1 => i - 1 \in 1..n
            BY <1>0, <4>1
          <5>2. QED
            BY <1>0, <2>2, <2>3, <4>1, <5>1 DEF StackIsAChain
        <4>2. CASE i = n + 1
          <5>1. n = 0 <=> completed = <<>>
            BY <1>0
          <5>2. n # 0 => i # 1 /\ i - 1 = n /\ n \in 1..n
            BY <1>0, <4>2
          <5>3. QED
            BY <1>0, <2>1, <2>2, <2>3, <4>2, <5>1, <5>2 DEF StackBase
        <4>3. QED
          BY <1>0, <3>1, <4>1, <4>2
      <3>2. ASSUME NEW i \in 1..n + 1, NEW j \in 1..n + 1, completed'[i] = completed'[j]
            PROVE  i = j
        <4>1. CASE i \in 1..n /\ j \in 1..n
          <5>1. completed[i] = completed[j] /\ i \in DOMAIN completed /\ j \in DOMAIN completed
            BY <1>0, <2>2, <3>2, <4>1
          <5>2. QED
            BY <5>1 DEF StackIsAChain
        <4>2. i \in 1..n => completed'[i] # t
          BY <2>2
        <4>3. j \in 1..n => completed'[j] # t
          BY <2>2
        <4>4. (i \in 1..n \/ i = n + 1) /\ (j \in 1..n \/ j = n + 1)
          BY <1>0, <3>2
        <4>5. QED
          BY <2>2, <3>2, <4>1, <4>2, <4>3, <4>4
      <3>3. QED
        BY <2>2, <3>1, <3>2 DEF StackIsAChain
    <2>6. QED
      BY <2>4, <2>5
  <1>4. QED
    BY <1>1, <1>2, <1>3

(* A blocked campaign has stopped: what is left to happen is an answer that *)
(* nothing reads.                                                           *)
LEMMA BlockedIsFinal ==
  ASSUME TypeOK, BlockedTogether, [Next]_vars, status = "blocked"
  PROVE  UNCHANGED <<status, task, job, child, orphans, mishaps>>
  <1>1. ~JobRuns /\ ~CanDispatch /\ ~SessionOver /\ ~Refreshed /\ ~CampaignLetsPass
    BY DEF BlockedTogether, CanDispatch, SessionOver, Refreshed, CampaignLetsPass
  <1>2. CASE Daemon
    BY <1>1, <1>2 DEF Daemon, StartPlanning, CompletePlanning, KeepWaiting, RefreshCut,
       RequireDecision, FinishCampaign, StartTask, AdvancePhase, ResolveConflict,
       BlockCompletion, BlockOutsideCampaign, CompleteTask, StartRegular, CompleteRegular, TaskOver
  <1>3. CASE PlannerEnds \/ SessionEnds \/ UNCHANGED vars \/ \E d \in Decisions : Answer(d)
    BY <1>1, <1>3 DEF PlannerEnds, SessionEnds, Answer, vars, fileVars, otherIssues
  <1>4. QED
    BY <1>2, <1>3 DEF Next

(* A campaign is blocked by its planning or by one of its tasks.            *)
LEMMA WhatBlocks ==
  ASSUME TypeOK, Work, [Next]_vars, ~StartPlanning, Keeps, status' = "blocked"
  PROVE  status = "blocked" \/ (CompletePlanning /\ UNCHANGED <<task, job>>)
  <1> USE DEF history
  <1>1. CASE UNCHANGED status
    BY <1>1
  <1>2. CASE CompletePlanning
    BY <1>2 DEF CompletePlanning
  <1>3. CASE KeepWaiting \/ RefreshCut \/ RequireDecision \/ FinishCampaign
    BY <1>1, <1>3 DEF KeepWaiting, RefreshCut, RequireDecision, FinishCampaign, Resumed
  <1>4. ASSUME NEW t \in Tasks, BlockTask(t, BlockedJob(NoTask)) \/ BlockTask(t, BlockedJob(job.task)),
               task[t] # "blocked"
        PROVE  status = "blocked"
    <2>1. task' = task
      BY DEF Keeps
    <2>2. status' = Resumed
      BY <1>4, <2>1 DEF BlockTask, TypeOK
    <2>3. QED
      BY <2>2 DEF Resumed
  <1>5. ASSUME NEW t \in Tasks, StartTask(t) PROVE status = "blocked"
    <2>1. task[t] = "pending"
      BY <1>5, NextIsReady DEF StartTask, ReadyTasks
    <2>2. CASE BlockTask(t, BlockedJob(NoTask))
      BY <1>4, <2>1, <2>2
    <2>3. CASE status' = Resumed \/ status' = "running"
      BY <2>3 DEF Resumed
    <2>4. QED
      BY <1>5, <2>2, <2>3 DEF StartTask
  <1>6. CASE AdvancePhase \/ BlockCompletion
    <2>1. job.task \in Tasks /\ task[job.task] = "running"
      BY <1>6, TaskOverType
         DEF AdvancePhase, BlockCompletion, Work, JobIsItsTask, TaskOver, SessionOver
    <2>2. CASE BlockTask(job.task, BlockedJob(job.task))
      BY <1>4, <2>1, <2>2
    <2>3. QED
      BY <1>1, <1>6, <2>2 DEF AdvancePhase, BlockCompletion, SessionUnrecorded
  <1>7. CASE ResolveConflict \/ BlockOutsideCampaign \/ CompleteRegular
    BY <1>1, <1>7 DEF ResolveConflict, SessionUnrecorded, BlockOutsideCampaign, CompleteRegular
  <1>8. CASE CompleteTask
    BY <1>1, <1>8 DEF CompleteTask, CampaignAfter
  <1>9. CASE StartRegular
    BY <1>1, <1>9 DEF StartRegular, CampaignInNewState
  <1>10. CASE PlannerEnds \/ SessionEnds \/ UNCHANGED vars \/ \E d \in Decisions : Answer(d)
    BY <1>1, <1>10 DEF PlannerEnds, SessionEnds, Answer, vars, fileVars
  <1>11. QED
    BY <1>2, <1>3, <1>5, <1>6, <1>7, <1>8, <1>9, <1>10 DEF Next, Daemon

LEMMA BlockedStep ==
  ASSUME TypeOK, Work, [Next]_vars, ~StartPlanning
  PROVE  BlockedTogether'
  <1>1. CASE status = "blocked"
    BY <1>1, BlockedIsFinal DEF Work, BlockedTogether, JobRuns
  <1>2. CASE status # "blocked"
    <2>0. \A t \in Tasks : task[t] # "blocked"
      BY <1>2 DEF Work, BlockedTogether
    <2>1. CASE Keeps
      <3>1. CASE status' = "blocked"
        <4>1. status = "planning" /\ UNCHANGED <<task, job>>
          BY <1>2, <2>1, <3>1, WhatBlocks DEF CompletePlanning
        <4>2. ~JobRuns' /\ \A t \in Tasks : task'[t] = "pending"
          BY <4>1 DEF Work, PlanningIsFresh, JobRuns
        <4>3. QED
          BY <4>2 DEF BlockedTogether
      <3>2. CASE status' # "blocked"
        BY <2>0, <2>1, <3>2 DEF Keeps, BlockedTogether
      <3>3. QED
        BY <3>1, <3>2
    <2>2. ASSUME NEW t \in Tasks, Begins(t) \/ Completes(t) PROVE BlockedTogether'
      <3>1. \A u \in Tasks : task'[u] # "blocked"
        BY <2>0, <2>2 DEF Begins, Completes, TypeOK
      <3>2. status' # "blocked"
        BY <2>2 DEF Begins, Completes
      <3>3. QED
        BY <3>1, <3>2 DEF BlockedTogether
    <2>3. ASSUME NEW t \in Tasks, Blocks(t) PROVE BlockedTogether'
      <3>1. {u \in Tasks : task'[u] = "blocked"} = {t}
        BY <2>0, <2>3 DEF Blocks, TypeOK
      <3>2. mishaps' = 0 => child'[t] = {"blocked"}
        BY <2>3 DEF Blocks, TypeOK
      <3>3. status' = "blocked" /\ job'.state = "blocked" /\ ~JobRuns'
        BY <2>3 DEF Blocks, JobRuns
      <3>4. QED
        BY <3>1, <3>2, <3>3 DEF BlockedTogether
    <2>4. QED
      BY <2>1, <2>2, <2>3, TaskChanges
  <1>3. QED
    BY <1>1, <1>2

LEMMA AllListed ==
  TypeOK /\ CompletedIsListed /\ StackIsAChain /\ AllCompleted =>
      Len(completed) = NTasks /\ prs = Tasks
  BY ListOfAll DEF TypeOK, CompletedIsListed, StackIsAChain, AllCompleted

(* The campaign of the state file is done when all tasks are completed.     *)
LEMMA DoneStatusStep ==
  ASSUME TypeOK, Work, [Next]_vars, ~StartPlanning, status' = "done"
  PROVE  AllCompleted' /\ plan'.asked \subseteq answered'
  <1> USE DEF history
  <1>1. CASE status = "done" /\ UNCHANGED <<task, plan, answered>>
    BY <1>1 DEF Work, DoneIsComplete, AllCompleted, CompletedTasks
  <1>2. CASE CompletePlanning \/ KeepWaiting \/ RequireDecision
    BY <1>2 DEF CompletePlanning, AcceptPlan, PlanUnsaved, BlockPlanning, KeepWaiting,
                RequireDecision
  <1>3. CASE RefreshCut \/ FinishCampaign
    BY <1>3 DEF RefreshCut, FinishCampaign, Refreshed, Resumed, Answers, Pending,
                AllCompleted, CompletedTasks
  <1>4. ASSUME NEW t \in Tasks, StartTask(t) PROVE FALSE
    <2>1. Resumed # "done"
      BY <1>4 DEF StartTask, CanDispatch, Resumed, AllCompleted, CompletedTasks, ReadyTasks
    <2>2. QED
      BY <1>4, <2>1 DEF StartTask, BlockTask
  <1>5. ASSUME TaskOver PROVE status = "running"
    BY <1>5 DEF Work, JobIsItsTask, TaskOver, SessionOver
  <1>6. CASE AdvancePhase \/ BlockCompletion
    BY <1>5, <1>6 DEF AdvancePhase, BlockCompletion, BlockTask, SessionUnrecorded, Resumed,
                      Refreshed
  <1>7. CASE ResolveConflict \/ BlockOutsideCampaign
    BY <1>5, <1>7 DEF ResolveConflict, SessionUnrecorded, BlockOutsideCampaign
  <1>8. CASE CompleteTask
    <2>1. /\ Completes(job.task) /\ job.task \in Tasks
          /\ status' = CampaignAfter(CompletedTasks \cup {job.task} = Tasks)
      BY <1>5, <1>8, TaskOverType DEF CompleteTask, CampaignAfter, Completes
    <2>2. CompletedTasks \cup {job.task} = Tasks /\ Pending(answered) = {}
      BY <2>1 DEF CampaignAfter
    <2>3. QED
      BY <1>8, <2>1, <2>2, TaskSets DEF CompleteTask, AllCompleted, Pending
  <1>9. CASE StartRegular
    BY <1>1, <1>9 DEF StartRegular, CampaignInNewState
  <1>10. CASE PlannerEnds
    BY <1>10 DEF PlannerEnds, fileVars
  <1>11. CASE CompleteRegular \/ SessionEnds \/ UNCHANGED vars \/ \E d \in Decisions : Answer(d)
    BY <1>1, <1>11 DEF CompleteRegular, SessionEnds, Answer, vars, fileVars
  <1>12. QED
    BY <1>2, <1>3, <1>4, <1>6, <1>7, <1>8, <1>9, <1>10, <1>11 DEF Next, Daemon

(* The campaign issue is done when all tasks have their pull request.       *)
LEMMA DoneLabelStep ==
  ASSUME TypeOK, Work, [Next]_vars, ~StartPlanning, "done" \in parent'
  PROVE  prs' = Tasks /\ plan'.asked \subseteq answered'
  <1> USE DEF history
  <1>0. answered \subseteq answered' /\ prs \subseteq prs'
    BY TaskChanges
  <1>1. CASE "done" \in parent /\ UNCHANGED <<plan, prs>>
    BY <1>0, <1>1 DEF Work, DoneIsComplete
  <1>2. CASE CompletePlanning \/ PlannerEnds
    BY <1>2 DEF CompletePlanning, AcceptPlan, PlanUnsaved, BlockPlanning, PlannerEnds, Work,
                PlanningIsFresh, ParentBlocked, MarkBlocked, MarkBlockedCut
  <1>3. CASE KeepWaiting \/ RefreshCut \/ RequireDecision
    <2>1. "done" \in parent
      BY <1>3 DEF KeepWaiting, RefreshCut, RequireDecision, Labels, ParentBlocked, MarkBlocked,
                  MarkBlockedCut
    <2>2. QED
      BY <1>1, <1>3, <2>1 DEF KeepWaiting, RefreshCut, RequireDecision
  <1>4. CASE FinishCampaign
    BY <1>4 DEF FinishCampaign, Pending, AllCompleted, Work, CompletedIsListed, TypeOK
  <1>5. ASSUME NEW t \in Tasks, StartTask(t) PROVE prs' = Tasks /\ plan'.asked \subseteq answered'
    <2>1. "done" \in parent
      BY <1>5 DEF StartTask, Labels
    <2>2. QED
      BY <1>1, <1>5, <2>1 DEF StartTask
  <1>6. CASE AdvancePhase \/ BlockCompletion \/ ResolveConflict \/ BlockOutsideCampaign
    BY <1>1, <1>6 DEF AdvancePhase, BlockCompletion, ResolveConflict, BlockOutsideCampaign
  <1>7. CASE CompleteTask
    <2> DEFINE after == CampaignAfter(CompletedTasks \cup {job.task} = Tasks)
    <2>1. prs' = prs \cup {job.task} /\ UNCHANGED <<plan, answered>> /\ job.task \in Tasks
      BY <1>7, TaskOverType DEF CompleteTask
    <2>2. CASE "done" \in parent
      BY <2>1, <2>2 DEF Work, DoneIsComplete, TypeOK
    <2>3. CASE after = "done"
      <3>1. CompletedTasks \cup {job.task} = Tasks /\ Pending(answered) = {}
        BY <2>3 DEF CampaignAfter
      <3>2. QED
        BY <2>1, <3>1 DEF Work, CompletedIsListed, Pending, TypeOK
    <2>4. CASE after # "done"
      <3>1. parent' = parent \/ parent' = MarkBlocked(parent) \/ parent' \in MarkBlockedCut(parent)
        BY <1>7, <2>4 DEF CompleteTask, ParentBlocked
      <3>2. QED
        BY <2>2, <3>1 DEF MarkBlocked, MarkBlockedCut
    <2>5. QED
      BY <2>3, <2>4
  <1>8. CASE StartRegular \/ CompleteRegular \/ SessionEnds \/ UNCHANGED vars
             \/ \E d \in Decisions : Answer(d)
    BY <1>1, <1>8 DEF StartRegular, CompleteRegular, SessionEnds, Answer, vars, fileVars
  <1>9. QED
    BY <1>2, <1>3, <1>4, <1>5, <1>6, <1>7, <1>8 DEF Next, Daemon

LEMMA WorkStep == TypeOK /\ TypeOK' /\ Work /\ [Next]_vars => Work'
  <1> SUFFICES ASSUME TypeOK, TypeOK', Work, [Next]_vars, ~StartPlanning PROVE Work'
    BY StartPlanningWork
  <1>1. (JobIsItsTask /\ PlanningIsFresh)'
    BY JobStep, PlanningStep
  <1>2. (DependenciesFirst /\ DecisionsGateTasks)'
    BY TasksStep
  <1>3. (CompletedIsListed /\ StackIsAChain)'
    BY ListStep
  <1>4. BlockedTogether'
    BY BlockedStep
  <1>5. AllCompleted' => (Len(completed) = NTasks /\ prs = Tasks)'
    BY <1>3, AllListed, PTL
  <1>6. DoneIsComplete'
    BY <1>5, DoneStatusStep, DoneLabelStep DEF DoneIsComplete
  <1>7. QED
    BY <1>1, <1>2, <1>3, <1>4, <1>6 DEF Work

THEOREM CampaignWorks == Spec => []Work
  BY InitType, InitRelisted, TypeStep, RelistedStep, InitWork, WorkStep, PTL DEF Spec

(* No task is started before the decisions that hold it back are answered,  *)
(* for every plan and every order of answers.                               *)
THEOREM DecisionsFirst == Spec => []DecisionsGateTasks
  <1>1. Work => DecisionsGateTasks
    BY DEF Work
  <1>2. QED
    BY <1>1, CampaignWorks, PTL

(* No task is started before the tasks it depends on are completed.         *)
THEOREM DependenciesAreFirst == Spec => []DependenciesFirst
  <1>1. Work => DependenciesFirst
    BY DEF Work
  <1>2. QED
    BY <1>1, CampaignWorks, PTL

(* The pull requests of the completed tasks form one chain.                 *)
THEOREM OneStack == Spec => []StackIsAChain
  <1>1. Work => StackIsAChain
    BY DEF Work
  <1>2. QED
    BY <1>1, CampaignWorks, PTL

(* A campaign is done only with all its pull requests and answers, wherever *)
(* polls were cut.                                                          *)
THEOREM DoneMeansComplete == Spec => []DoneIsComplete
  <1>1. Work => DoneIsComplete
    BY DEF Work
  <1>2. QED
    BY <1>1, CampaignWorks, PTL

(* A blocked campaign has nothing running and one blocked task, or never    *)
(* got past its planning; a blocked task blocks campaign, job and issue.    *)
THEOREM BlocksTogether == Spec => []BlockedTogether
  <1>1. Work => BlockedTogether
    BY DEF Work
  <1>2. QED
    BY <1>1, CampaignWorks, PTL

(* n issues for each of f failures. *)
LEMMA SetsOfIssues ==
  ASSUME NEW n \in Nat, NEW f \in Nat, NEW g \in Nat, NEW o \in Nat, NEW p \in Nat,
         o <= n * f,
         \/ p = o /\ f <= g
         \/ p \in o..o + n /\ f + 1 <= g
  PROVE  p <= n * g
  <1>1. CASE p = o /\ f <= g
    <2>1. n * f <= n * g
      BY <1>1
    <2>2. n * f \in Nat /\ n * g \in Nat
      OBVIOUS
    <2>3. QED
      BY <1>1, <2>1, <2>2
  <1>2. CASE p \in o..o + n /\ f + 1 <= g
    <2>1. n * f + n = n * (f + 1) /\ n * (f + 1) <= n * g
      BY <1>2
    <2>2. n * f \in Nat /\ n * g \in Nat
      OBVIOUS
    <2>3. QED
      BY <1>2, <2>1, <2>2
  <1>3. QED
    BY <1>1, <1>2

LEMMA MoreMishaps ==
  ASSUME NEW m \in Nat, NEW n \in Nat, m <= n
  PROVE  n + 1 \in Nat /\ m <= n + 1 /\ m + 1 <= n + 1
  OBVIOUS

LEMMA OthersLeaveOrphans ==
  ASSUME TypeOK, [Next]_vars, ~CompletePlanning
  PROVE  orphans' = orphans /\ mishaps <= mishaps'
  <1> USE DEF otherIssues, Mishap
  <1>0. mishaps \in Nat
    BY MishapsAssumption DEF TypeOK
  <1>1. CASE StartPlanning \/ StartRegular \/ CompleteRegular
    BY <1>0, <1>1 DEF StartPlanning, StartRegular, CompleteRegular
  <1>2. CASE KeepWaiting \/ RefreshCut \/ RequireDecision \/ FinishCampaign
    BY <1>0, <1>2 DEF KeepWaiting, RefreshCut, RequireDecision, FinishCampaign, ParentBlocked,
                      ParentDone
  <1>3. CASE \E t \in Tasks : StartTask(t)
    BY <1>0, <1>3 DEF StartTask, BlockTask
  <1>4. CASE AdvancePhase \/ ResolveConflict
    <2>1. orphans' = orphans
      BY <1>4 DEF AdvancePhase, ResolveConflict
    <2>2. UNCHANGED mishaps \/ SessionUnrecorded \/ BlockTask(job.task, BlockedJob(job.task))
      BY <1>4, Zenon DEF AdvancePhase, ResolveConflict
    <2>3. mishaps <= mishaps'
      BY <1>0, <2>2 DEF SessionUnrecorded, BlockTask
    <2>4. QED
      BY <2>1, <2>3
  <1>5. CASE BlockCompletion \/ BlockOutsideCampaign
    BY <1>0, <1>5 DEF BlockCompletion, BlockOutsideCampaign, BlockTask
  <1>6. CASE CompleteTask
    BY <1>0, <1>6 DEF CompleteTask, ParentBlocked, ParentDone
  <1>7. CASE PlannerEnds \/ SessionEnds \/ UNCHANGED vars \/ \E d \in Decisions : Answer(d)
    BY <1>0, <1>7 DEF PlannerEnds, SessionEnds, Answer, vars
  <1>8. QED
    BY <1>1, <1>2, <1>3, <1>4, <1>5, <1>6, <1>7 DEF Next, Daemon

LEMMA OrphansStep ==
  ASSUME TypeOK, TypeOK', Work, OrphansHaveAFailure, [Next]_vars
  PROVE  OrphansHaveAFailure'
  <1>1. /\ orphans \in Nat /\ orphans' \in Nat /\ NTasks \in Nat
        /\ mishaps \in Nat /\ mishaps' \in Nat
    BY NTasksAssumption, MishapsAssumption DEF TypeOK
  <1>2. /\ status = "blocked" => Failures = mishaps + 1
        /\ status # "blocked" => Failures = mishaps
        /\ status' = "blocked" => Failures' = mishaps' + 1
        /\ status' # "blocked" => Failures' = mishaps'
    BY DEF Failures
  <1>3. mishaps <= mishaps'
    BY <1>1, OthersLeaveOrphans DEF CompletePlanning, AcceptPlan, PlanUnsaved, BlockPlanning,
                                    ParentBlocked, Mishap
  <1>4. Failures \in Nat /\ Failures' \in Nat
    BY <1>1, <1>2, <1>3, MoreMishaps
  <1>5. CASE orphans' = orphans /\ Failures <= Failures'
    BY <1>1, <1>4, <1>5, SetsOfIssues DEF OrphansHaveAFailure
  <1>6. CASE CompletePlanning
    <2>1. Failures = mishaps /\ Failures <= Failures'
      BY <1>1, <1>2, <1>3, <1>6, MoreMishaps DEF CompletePlanning
    <2>2. CASE orphans' = orphans
      BY <1>5, <2>1, <2>2
    <2>3. CASE /\ orphans' \in orphans..orphans + NTasks
               /\ status' = "blocked" \/ mishaps' = mishaps + 1
      <3>1. Failures + 1 <= Failures'
        BY <1>1, <1>2, <1>3, <2>1, <2>3, MoreMishaps
      <3>2. QED
        BY <1>1, <1>4, <2>3, <3>1, SetsOfIssues DEF OrphansHaveAFailure
    <2>4. QED
      BY <1>6, <2>2, <2>3, OrphansGrow
  <1>7. CASE status = "blocked"
    <2>1. UNCHANGED <<status, orphans, mishaps>>
      BY <1>7, BlockedIsFinal DEF Work
    <2>2. QED
      BY <1>1, <1>2, <1>4, <1>5, <1>7, <2>1
  <1>8. CASE status # "blocked" /\ ~CompletePlanning
    <2>1. Failures <= Failures'
      BY <1>1, <1>2, <1>3, <1>8, MoreMishaps
    <2>2. QED
      BY <1>5, <1>8, <2>1, OthersLeaveOrphans
  <1>9. QED
    BY <1>6, <1>7, <1>8

(* Child issues without a task come from a planning that failed, at most one *)
(* set of them from each failure: only such a planning is repeated.         *)
THEOREM OrphansOnlyFromFailures == Spec => []OrphansHaveAFailure
  <1>1. Init => OrphansHaveAFailure
    <2>1. NTasks * 0 = 0
      BY NTasksAssumption
    <2>2. QED
      BY <2>1 DEF Init, Failures, OrphansHaveAFailure
  <1>2. QED
    BY <1>1, TypeCorrect, CampaignWorks, OrphansStep, PTL DEF Spec
=============================================================================
