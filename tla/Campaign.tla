------------------------------- MODULE Campaign -------------------------------
(***************************************************************************)
(* A campaign (src/internal/cli/campaign.go and the campaign branches of   *)
(* completion.go): a planner session turns a parent issue into a graph of  *)
(* tasks, each a child issue, and into decisions for a human; the          *)
(* dispatcher then takes the tasks one at a time through the phases of the *)
(* pipeline to a stacked pull request.                                     *)
(*                                                                         *)
(* One action is one poll of the daemon (processOneIssue up to its         *)
(* return), with the stage of it that fails; Codex and the human act       *)
(* between polls.  A mishap is a poll that is cut between its write of the *)
(* state file and its calls to GitHub: the daemon crashes, or the one or   *)
(* the other fails.  How a poll interleaves with Codex inside is the       *)
(* subject of IssueJob, rate limits included.                              *)
(*                                                                         *)
(* Beside the campaign the repository has an ordinary issue and further    *)
(* campaign issues, which have to wait.  The campaign variables are about  *)
(* the campaign issue claimed last; a campaign that the state file has     *)
(* dropped (status "none") keeps its values until then.                    *)
(*                                                                         *)
(* The target is WSL: a planner that leaves no message is noticed by its   *)
(* missing tmux window.  campaignStackDependencies cannot fail: the branch *)
(* it looks up was recorded together with the completed task.              *)
(***************************************************************************)
EXTENDS Naturals, Sequences, FiniteSetsExt

CONSTANTS NTasks,      \* tasks of the plan, numbered in the planner's order
          Decisions,   \* decisions the planner may ask for
          Campaigns,   \* campaign issues that people have labelled ready
          MaxConstraints,   \* bound: dependencies and held-back tasks of the first
                            \* campaign's plan; later ones have one of them
          MaxMishaps   \* bound: polls that are cut half-way

ASSUME NTasksAssumption == NTasks \in Nat \ {0}
ASSUME CampaignsAssumption == Campaigns \in Nat
ASSUME MishapsAssumption == MaxMishaps \in Nat

Tasks == 1..NTasks
NoTask == 0   \* also: a task ID the planner made up

VARIABLES status,    \* of the campaign, in the state file
          task,      \* status of each task
          completed, \* campaign.CompletedTasks, in order
          answered,  \* decisions that the state file has as answered
          job,       \* the state file's job
          plan,      \* the planner's JSON: dependencies, decisions, their gates
          parent,    \* managed labels of the campaign issue
          child,     \* managed labels of each task's issue
          comments,  \* decisions for which a comment on the campaign issue has a
                     \* line that decisionAnswerRE reads as one of the options
          people,    \* history: decisions that a human has answered
          codex,     \* the Codex session of the planner or of the job
          waiting,   \* campaign issues that ListCampaignIssues returns
          regular,   \* the ordinary issue
          orphans,   \* open child issues that no task of the state file has
          base,      \* history: the task whose branch each task was started on
          prs,       \* history: tasks with an open pull request
          mishaps

fileVars == <<status, task, completed, answered, job>>
otherIssues == <<waiting, regular, orphans>>
history == <<base, prs>>
talk == <<comments, people>>
vars == <<fileVars, plan, parent, child, talk, codex, otherIssues, history, mishaps>>

Statuses == {"none", "planning", "planned", "running", "decision_required",
             "blocked", "done"}
TaskStatuses == {"pending", "running", "completed", "blocked"}
Pipeline == {"plan", "implement", "review", "verify"}
ManagedLabels == {"running", "done", "blocked"}

Jobs == [state: {"none", "running", "blocked"}, task: Tasks \cup {NoTask},
         phase: Pipeline \cup {"", "conflict-resolve"}]
NoJob == [state |-> "none", task |-> NoTask, phase |-> ""]
RunningJob(t, phase) == [state |-> "running", task |-> t, phase |-> phase]

(* The job of the ordinary issue has no CampaignTaskID, and a job that was  *)
(* blocked by writeBlockedState has lost it.                                *)
RegularJob == [state |-> "running", task |-> NoTask, phase |-> ""]
BlockedJob(t) == [state |-> "blocked", task |-> t, phase |-> ""]

(* unrecorded: a session for the next phase runs, the state file has the    *)
(* phase before.                                                            *)
CodexStates == {"none", "working", "unrecorded", "finished", "failed"}

(* canContinue is {} for a decision that is not asked for. readable: those  *)
(* whose id and one option at least fit decisionAnswerRE; the parser takes  *)
(* any text.                                                                *)
Plans == [deps: [Tasks -> SUBSET (Tasks \cup {NoTask})],
          asked: SUBSET Decisions, readable: SUBSET Decisions,
          canContinue: [Decisions -> SUBSET (Tasks \cup {NoTask})]]
NoPlan == [deps |-> [t \in Tasks |-> {}], asked |-> {}, readable |-> {},
           canContinue |-> [d \in Decisions |-> {}]]

TypeOK ==
    /\ status \in Statuses
    /\ task \in [Tasks -> TaskStatuses]
    /\ completed \in Seq(Tasks)
    /\ answered \subseteq Decisions
    /\ job \in Jobs
    /\ plan \in Plans
    /\ parent \subseteq ManagedLabels
    /\ child \in [Tasks -> SUBSET ManagedLabels]
    /\ comments \subseteq Decisions
    /\ people \subseteq Decisions
    /\ codex \in CodexStates
    /\ waiting \in 0..Campaigns + MaxMishaps
    /\ regular \in {"ready", "running", "over"}
    /\ orphans \in Nat
    /\ base \in [Tasks -> Tasks \cup {NoTask}]
    /\ prs \subseteq Tasks
    /\ mishaps \in 0..MaxMishaps

Init ==
    /\ status = "none"
    /\ task = [t \in Tasks |-> "pending"]
    /\ completed = <<>>
    /\ answered = {}
    /\ job = NoJob
    /\ plan = NoPlan
    /\ parent = {}
    /\ child = [t \in Tasks |-> {}]
    /\ comments = {}
    /\ people = {}
    /\ codex = "none"
    /\ waiting = Campaigns
    /\ regular = "ready"
    /\ orphans = 0
    /\ base = [t \in Tasks |-> NoTask]
    /\ prs = {}
    /\ mishaps = 0

-----------------------------------------------------------------------------
(* Operators of the code *)

(* markBlocked and markDone take the other labels off and put theirs on;    *)
(* cut, they have only done the first or nothing.                           *)
MarkBlocked(labels) == (labels \ {"running", "done"}) \cup {"blocked"}
MarkBlockedCut(labels) == {labels, labels \ {"running", "done"}}
MarkDone(labels) == (labels \ {"running", "blocked"}) \cup {"done"}
MarkDoneCut(labels) == {labels, labels \ {"running", "blocked"}}

(* parseCampaignPlannerOutput: dependencies and decisions name known tasks  *)
(* and no task depends on itself. Longer cycles pass.                       *)
ValidPlan(p) ==
    /\ \A t \in Tasks : p.deps[t] \subseteq Tasks \ {t}
    /\ \A d \in p.asked : p.canContinue[d] \subseteq Tasks

CompletedTasks == {t \in Tasks : task[t] = "completed"}
AllCompleted == CompletedTasks = Tasks
Pending(answers) == plan.asked \ answers

(* Variant with a defect: one completed dependency is enough. *)
ReadyTasks_AnyDependency ==
    {t \in Tasks : task[t] = "pending"
        /\ (plan.deps[t] = {} \/ plan.deps[t] \cap CompletedTasks # {})}

(* The pending tasks all of whose dependencies are completed.               *)
ReadyTasks == {t \in Tasks : task[t] = "pending" /\ plan.deps[t] \subseteq CompletedTasks}

(* nextCampaignTaskIndex: the first of them in the plan's order.            *)
NextTask == CHOOSE t \in ReadyTasks : \A u \in ReadyTasks : t <= u

(* Variant with a defect: one pending decision that lists the task is enough. *)
AllowedByDecisions_AnyDecision(t, answers) ==
    Pending(answers) = {} \/ \E d \in Pending(answers) : t \in plan.canContinue[d]

(* campaignTaskAllowedByDecisions: every pending decision lists the task.   *)
AllowedByDecisions(t, answers) ==
    \A d \in Pending(answers) : t \in plan.canContinue[d]

(* Variant with a defect: a phase that no prompt exists for. *)
NextPhase_Misnamed(phase) == CASE phase = "plan" -> "implementation"
                               [] phase = "implement" -> "review"
                               [] phase = "review" -> "verify"
                               [] OTHER -> ""

(* nextCampaignPipelinePhase *)
NextPhase(phase) == CASE phase = "plan" -> "implement"
                      [] phase = "implement" -> "review"
                      [] phase = "review" -> "verify"
                      [] OTHER -> ""

(* Variant with a defect: the branch of the first completed task. *)
StackBase_First == IF completed = <<>> THEN NoTask ELSE completed[1]

(* campaignStackDependencies: the branch of the last completed task.        *)
StackBase == IF completed = <<>> THEN NoTask ELSE completed[Len(completed)]

Mishap == mishaps < MaxMishaps /\ mishaps' = mishaps + 1

(* The last calls of a poll leave these labels on the campaign issue.       *)
ParentBlocked(labels) ==
    \/ parent' = MarkBlocked(labels) /\ UNCHANGED mishaps
    \/ parent' \in MarkBlockedCut(labels) /\ Mishap
ParentDone(labels) ==
    \/ parent' = MarkDone(labels) /\ UNCHANGED mishaps
    \/ parent' \in MarkDoneCut(labels) /\ Mishap

JobRuns == job.state = "running"

-----------------------------------------------------------------------------
(* Planning *)

(* processCampaign without a campaign: claim the first issue that is        *)
(* listed, start its planner, begin a new campaign in the state file.  An   *)
(* issue that has lost its label again is listed once more.                 *)
StartPlanning ==
    /\ status = "none" /\ ~JobRuns /\ waiting > 0
    /\ \/ /\ status' = "planning" /\ codex' = "working"
          /\ parent' = {"running"} /\ waiting' = waiting - 1
          /\ UNCHANGED mishaps
       \/ /\ parent' = {"blocked"}          \* worktree, Doppler, prompt or runner
          /\ waiting' = waiting - 1
          /\ UNCHANGED <<status, codex, mishaps>>
       \/ /\ parent' \in {{}, {"running"}, {"blocked"}}   \* the claim or the state file
          /\ waiting' = IF parent' = {} THEN waiting ELSE waiting - 1
          /\ Mishap
          /\ UNCHANGED <<status, codex>>
    /\ task' = [t \in Tasks |-> "pending"] /\ completed' = <<>> /\ answered' = {}
    /\ child' = [t \in Tasks |-> {}]
    /\ job' = NoJob /\ plan' = NoPlan /\ comments' = {} /\ people' = {}
    /\ base' = [t \in Tasks |-> NoTask] /\ prs' = {}
    /\ UNCHANGED <<regular, orphans>>

(* createCampaignStateFromPlan: one child issue for each task, one comment  *)
(* for each decision.  The comment ends with a line for every option, to be *)
(* copied as an answer (decisionQuickReplyLines).                           *)
AcceptPlan ==
    LET stuck == plan.asked # {}
                 /\ (ReadyTasks = {} \/ ~AllowedByDecisions(NextTask, {}))
    IN  /\ codex = "finished" /\ ValidPlan(plan)
        /\ status' = IF stuck THEN "decision_required" ELSE "planned"
        /\ IF stuck THEN ParentBlocked(parent) ELSE UNCHANGED <<parent, mishaps>>
        /\ comments' = comments \cup plan.readable
        /\ codex' = "none"
        /\ UNCHANGED orphans

(* The child issues are there but the state file was not written: the next  *)
(* poll finds the same message and creates them all again.                  *)
PlanUnsaved ==
    /\ codex = "finished" /\ ValidPlan(plan)
    /\ orphans' = orphans + NTasks
    /\ comments' = comments \cup plan.readable
    /\ Mishap
    /\ UNCHANGED <<status, parent, codex>>

(* The child issues that a GitHub call failed behind.                       *)
CreatedInVain == IF codex = "finished" /\ ValidPlan(plan) THEN 0..NTasks ELSE {0}

(* Variant with a defect: the campaign is not blocked, planning is repeated. *)
BlockPlanning_Retries ==
    /\ \E created \in CreatedInVain : orphans' = orphans + created
    /\ ParentBlocked(parent)
    /\ UNCHANGED <<status, codex, comments>>

(* blockCampaignPlanning: no last message, an invalid plan, or a GitHub     *)
(* call that fails.  An error of the write is dropped, the issue is marked  *)
(* all the same.  The decisions posted by then nobody reads, or the next    *)
(* poll posts them again.                                                   *)
BlockPlanning ==
    /\ \E created \in CreatedInVain : orphans' = orphans + created
    /\ \/ status' = "blocked" /\ codex' = "none" /\ ParentBlocked(parent)
       \/ parent' = MarkBlocked(parent) /\ Mishap /\ UNCHANGED <<status, codex>>
    /\ UNCHANGED comments

CompletePlanning ==
    /\ status = "planning" /\ codex # "working"
    /\ AcceptPlan \/ PlanUnsaved \/ BlockPlanning
    /\ UNCHANGED <<task, completed, answered, job, plan, child, people, waiting, regular, history>>

-----------------------------------------------------------------------------
(* dispatchCampaignTask *)

(* Variant with a defect: comments are read only for a task to go on with. *)
NewAnswers_ForReadyTask == IF ReadyTasks = {} THEN {} ELSE comments \ answered

(* campaignDecisionAnswerFromComments takes every comment of the issue for  *)
(* an answer, the daemon's own request too.                                 *)
NewAnswers == comments \ answered

(* A campaign that waits reads the comments. Some answers may be new while  *)
(* others are still missing: they are kept, the labels go back to running,  *)
(* the campaign goes on waiting.                                            *)
KeepWaiting ==
    /\ status = "decision_required" /\ ~JobRuns
    /\ NewAnswers # {}
    /\ Pending(answered \cup NewAnswers) # {}
    /\ answered' = answered \cup NewAnswers
    /\ \/ parent' = (parent \ {"blocked"}) \cup {"running"} /\ UNCHANGED mishaps
       \/ parent' \in {parent, parent \ {"blocked"}} /\ Mishap
    /\ UNCHANGED <<status, task, completed, job, plan, child, talk, codex, otherIssues, history>>

(* What dispatching sees: the answers and labels after that refresh.        *)
Refreshed == status = "decision_required" /\ NewAnswers # {}
             /\ Pending(answered \cup NewAnswers) = {}
CanDispatch == ~JobRuns /\ (status \in {"planned", "running"} \/ Refreshed)
Answers == IF Refreshed THEN answered \cup NewAnswers ELSE answered
Labels == IF Refreshed THEN (parent \ {"blocked"}) \cup {"running"} ELSE parent
Resumed == IF ~Refreshed THEN status ELSE IF AllCompleted THEN "done" ELSE "planned"

(* The refreshed campaign is written, and the poll ends there.              *)
RefreshCut ==
    /\ ~JobRuns /\ Refreshed
    /\ status' = Resumed /\ answered' = Answers
    /\ parent' \in {parent, parent \ {"blocked"}, Labels}
    /\ Mishap
    /\ UNCHANGED <<task, completed, job, plan, child, talk, codex, otherIssues, history>>

(* No task to start, or the first ready one has to wait for a decision.     *)
RequireDecision ==
    /\ CanDispatch
    /\ \/ ReadyTasks = {} /\ (~AllCompleted \/ Pending(Answers) # {})
       \/ ReadyTasks # {} /\ ~AllowedByDecisions(NextTask, Answers)
    /\ status' = "decision_required"
    /\ answered' = Answers
    /\ ParentBlocked(Labels)
    /\ UNCHANGED <<task, completed, job, plan, child, talk, codex, otherIssues, history>>

FinishCampaign ==
    /\ CanDispatch
    /\ AllCompleted /\ Pending(Answers) = {}
    /\ status' = "done"
    /\ answered' = Answers
    /\ ParentDone(Labels)
    /\ UNCHANGED <<task, completed, job, plan, child, talk, codex, otherIssues, history>>

(* Variant with a defect: the campaign is not told. *)
BlockTask_CampaignGoesOn(t, blockedJob) ==
    /\ task' = [task EXCEPT ![t] = "blocked"]
    /\ status' = Resumed
    /\ job' = blockedJob
    /\ child' = [child EXCEPT ![t] = MarkBlocked(@)]
    /\ codex' = "none"
    /\ UNCHANGED mishaps

(* blockCampaignTaskStart and blockCampaignTaskPhase: task, campaign, job   *)
(* and child issue are all blocked.  The file is written first, a failure   *)
(* to write is not looked at.                                               *)
BlockTask(t, blockedJob) ==
    \/ /\ task' = [task EXCEPT ![t] = "blocked"]
       /\ status' = "blocked"
       /\ job' = blockedJob
       /\ codex' = "none"
       /\ \/ child' = [child EXCEPT ![t] = MarkBlocked(@)] /\ UNCHANGED mishaps
          \/ Mishap /\ \E cut \in MarkBlockedCut(child[t]) : child' = [child EXCEPT ![t] = cut]
    \/ /\ child' = [child EXCEPT ![t] = MarkBlocked(@)]
       /\ status' = Resumed
       /\ Mishap
       /\ UNCHANGED <<task, job, codex>>

StartTask(t) ==
    /\ CanDispatch
    /\ ReadyTasks # {} /\ t = NextTask
    /\ AllowedByDecisions(t, Answers)
    /\ answered' = Answers /\ parent' = Labels
    /\ \/ /\ child[t] = {}                         \* claimed and started
          /\ child' = [child EXCEPT ![t] = {"running"}]
          /\ task' = [task EXCEPT ![t] = "running"]
          /\ status' = "running"
          /\ job' = RunningJob(t, "plan")
          /\ codex' = "working"
          /\ base' = [base EXCEPT ![t] = StackBase]
          /\ UNCHANGED mishaps
       \/ /\ child[t] = {}                         \* claimed, not started
          /\ BlockTask(t, BlockedJob(NoTask))
          /\ UNCHANGED base
       \/ /\ child[t] # {}                         \* claim skipped
          /\ status' = Resumed
          /\ UNCHANGED <<task, job, child, codex, base, mishaps>>
       \/ /\ child[t] = {}                         \* claimed, not recorded
          /\ child' = [child EXCEPT ![t] = {"running"}]
          /\ status' = Resumed
          /\ Mishap
          /\ UNCHANGED <<task, job, codex, base>>
    /\ UNCHANGED <<completed, plan, talk, otherIssues, prs>>

-----------------------------------------------------------------------------
(* completeCurrentJob for a campaign task *)

SessionOver == JobRuns /\ codex \in {"finished", "failed"}
TaskOver == SessionOver /\ job.task # NoTask

(* CommitAll has something to commit; behind the pull request it has not.   *)
Committable == codex = "finished" /\ job.task \notin prs

(* The session for the next phase is started, the state file not written.   *)
(* It has the old phase, whose last message counts again once the window,   *)
(* the same for all phases, is gone.                                        *)
SessionUnrecorded ==
    /\ codex' = "unrecorded"
    /\ Mishap
    /\ UNCHANGED <<status, task, job, child>>

(* advanceCampaignPipeline *)
AdvancePhase ==
    /\ TaskOver /\ codex = "finished"
    /\ NextPhase(job.phase) # ""
    /\ \/ /\ job' = RunningJob(job.task, NextPhase(job.phase))
          /\ codex' = "working"
          /\ status' = "running"
          /\ UNCHANGED <<task, child, mishaps>>
       \/ SessionUnrecorded
       \/ BlockTask(job.task, BlockedJob(job.task))   \* Doppler, prompt or runner
    /\ UNCHANGED <<completed, answered, plan, parent, talk, otherIssues, history>>

(* startConflictResolutionIfNeeded: the base conflicts for the first time.  *)
ResolveConflict ==
    /\ TaskOver /\ Committable
    /\ job.phase = "verify"
    /\ \/ /\ job' = RunningJob(job.task, "conflict-resolve")
          /\ codex' = "working"
          /\ UNCHANGED <<status, task, child, mishaps>>
       \/ SessionUnrecorded
    /\ UNCHANGED <<completed, answered, plan, parent, talk, otherIssues, history>>

(* blockCompletionJob: a fetch or merge that fails, a high-risk or a second *)
(* conflict, an invalid resolution.                                         *)
BlockCompletion ==
    /\ TaskOver /\ Committable
    /\ job.phase \in {"verify", "conflict-resolve"}
    /\ BlockTask(job.task, BlockedJob(job.task))
    /\ UNCHANGED <<completed, answered, plan, parent, talk, otherIssues, history>>

(* writeBlockedState: Codex could not be started, nothing was committed, or *)
(* commit, push or pull request failed. Only child issue and job are told,  *)
(* the issue first.                                                         *)
BlockOutsideCampaign ==
    /\ TaskOver
    /\ codex = "finished" => job.phase \in {"verify", "conflict-resolve"}
    /\ \/ /\ child' = [child EXCEPT ![job.task] = MarkBlocked(@)]
          /\ job' = BlockedJob(NoTask)
          /\ codex' = "none"
          /\ UNCHANGED mishaps
       \/ /\ \E cut \in MarkBlockedCut(child[job.task]) \cup {MarkBlocked(child[job.task])} :
                child' = [child EXCEPT ![job.task] = cut]
          /\ Mishap
          /\ UNCHANGED <<job, codex>>
    /\ UNCHANGED <<status, task, completed, answered, plan, parent, talk, otherIssues, history>>

(* Variant with a defect: pending decisions are not looked at. *)
CampaignAfter_IgnoresDecisions(all) == IF all THEN "done" ELSE "planned"

(* markCampaignTaskCompleted: the campaign when a task is completed.        *)
CampaignAfter(all) == IF ~all THEN "planned"
                      ELSE IF Pending(answered) = {} THEN "done" ELSE "decision_required"

(* The pull request is open: markDone for the child, then the labels of the *)
(* campaign, then the state file.  An error of markDone ends the poll.      *)
CompleteTask ==
    LET after == CampaignAfter(CompletedTasks \cup {job.task} = Tasks)
        done == [child EXCEPT ![job.task] = MarkDone(@)]
        ParentAfter == CASE after = "done" -> ParentDone(parent)
                         [] after = "decision_required" -> ParentBlocked(parent)
                         [] OTHER -> UNCHANGED <<parent, mishaps>>
    IN  /\ TaskOver /\ Committable
        /\ job.phase \in {"verify", "conflict-resolve"}
        /\ prs' = prs \cup {job.task}
        /\ \/ /\ child' = done /\ ParentAfter
              /\ task' = [task EXCEPT ![job.task] = "completed"]
              /\ completed' = Append(completed, job.task)
              /\ status' = after
              /\ job' = NoJob /\ codex' = "none"
           \/ /\ Mishap
              /\ \/ /\ \E cut \in MarkDoneCut(child[job.task]) :
                          child' = [child EXCEPT ![job.task] = cut]
                    /\ UNCHANGED parent
                 \/ /\ child' = done
                    /\ parent' = CASE after = "done" -> MarkDone(parent)
                                   [] after = "decision_required" -> MarkBlocked(parent)
                                   [] OTHER -> parent
              /\ UNCHANGED <<status, task, completed, job, codex>>
        /\ UNCHANGED <<answered, plan, talk, otherIssues, base>>

-----------------------------------------------------------------------------
(* Issues beside the campaign *)

(* Variant with a defect: a done campaign handles the poll too. *)
CampaignLetsPass_NotWhenDone == status = "none" /\ waiting = 0

(* processCampaign has not handled the poll: there is no campaign issue, or *)
(* the campaign of the state file is done.                                  *)
CampaignLetsPass == (status = "none" /\ waiting = 0) \/ status = "done"

(* The state that processOneIssue writes has the job and the completed      *)
(* issues, no campaign.  A campaign whose issue lost its labels and did not *)
(* get `done' is listed again from then on.                                 *)
CampaignInNewState ==
    /\ status' = "none"
    /\ waiting' = IF status = "done" /\ parent = {} THEN waiting + 1 ELSE waiting

(* ListReadyIssues leaves out campaigns and their child issues.             *)
StartRegular ==
    /\ ~JobRuns /\ CampaignLetsPass
    /\ regular = "ready"
    /\ \/ /\ job' = RegularJob /\ regular' = "running" /\ codex' = "working"
          /\ CampaignInNewState
       \/ /\ job' = BlockedJob(NoTask) /\ regular' = "over"   \* worktree, Doppler, prompt, runner
          /\ UNCHANGED <<status, waiting, codex>>
    /\ UNCHANGED <<task, completed, answered, plan, parent, child, talk, orphans, history, mishaps>>

(* completeCurrentJob for the ordinary issue: done or blocked.              *)
CompleteRegular ==
    /\ SessionOver /\ job.task = NoTask
    /\ job' \in {NoJob, BlockedJob(NoTask)}
    /\ regular' = "over"
    /\ codex' = "none"
    /\ UNCHANGED <<status, task, completed, answered, plan, parent, child, talk,
                   waiting, orphans, history, mishaps>>

-----------------------------------------------------------------------------
(* Codex and the human (external) *)

(* The planner writes any JSON: every valid plan, and one plan for each of  *)
(* the flaws that the parser refuses.                                       *)
FlawedPlans ==
    {[NoPlan EXCEPT !.deps[t] = {t}] : t \in Tasks}
    \cup {[NoPlan EXCEPT !.deps[t] = {NoTask}] : t \in Tasks}
    \cup {[NoPlan EXCEPT !.asked = {d}, !.canContinue[d] = {NoTask}] : d \in Decisions}

(* A constraint <<t, u>> makes t depend on u, <<d, t>> makes t wait for d.  *)
Constraints(asked) == {c \in Tasks \X Tasks : c[1] # c[2]} \cup (asked \X Tasks)
PlanOf(asked, constraints) ==
    [deps |-> [t \in Tasks |-> {u \in Tasks : <<t, u>> \in constraints}],
     asked |-> asked, readable |-> asked,
     canContinue |-> [d \in Decisions |->
         IF d \in asked THEN {t \in Tasks : <<d, t>> \notin constraints} ELSE {}]]

PlansWithin(bound) ==
    UNION {{PlanOf(asked, constraints) : constraints \in
               UNION {kSubset(k, Constraints(asked)) : k \in 0..bound}} :
           asked \in SUBSET Decisions}

(* The planner is asked for ids of small letters, digits and hyphens only   *)
(* by example; one of the decisions has another.                            *)
UnreadablePlans ==
    UNION {{[p EXCEPT !.readable = @ \ {d}] : d \in p.asked} : p \in PlansWithin(1)}

FirstPlans == FlawedPlans \cup PlansWithin(MaxConstraints) \cup UnreadablePlans
LaterPlans == FlawedPlans \cup PlansWithin(1) \cup UnreadablePlans
OfferedPlans == IF waiting >= Campaigns - 1 THEN FirstPlans ELSE LaterPlans

(* The session of a planner or of a job ends with a last message or fails   *)
(* to start.                                                                *)
PlannerEnds ==
    /\ status = "planning" /\ codex = "working"
    /\ \/ codex' = "finished" /\ plan' \in OfferedPlans
       \/ codex' = "failed" /\ UNCHANGED plan
    /\ UNCHANGED <<fileVars, parent, child, talk, otherIssues, history, mishaps>>

SessionEnds ==
    /\ JobRuns
    /\ \/ codex = "working" /\ codex' \in {"finished", "failed"}
       \/ codex = "unrecorded" /\ codex' = "finished"
    /\ UNCHANGED <<fileVars, plan, parent, child, talk, otherIssues, history, mishaps>>

(* A human answers with one of the options, by comment or by the command    *)
(* `decision answer', which posts the same comment.  An answer that comes   *)
(* when the state file has one already changes nothing.                     *)
Answer(d) ==
    /\ status \notin {"none", "planning"}
    /\ d \in plan.asked \ (people \cup answered)
    /\ people' = people \cup {d}
    /\ comments' = comments \cup ({d} \cap plan.readable)
    /\ UNCHANGED <<fileVars, plan, parent, child, codex, otherIssues, history, mishaps>>

Daemon ==
    \/ StartPlanning \/ CompletePlanning
    \/ KeepWaiting \/ RefreshCut \/ RequireDecision \/ FinishCampaign \/ \E t \in Tasks : StartTask(t)
    \/ AdvancePhase \/ ResolveConflict \/ BlockCompletion \/ BlockOutsideCampaign
    \/ CompleteTask
    \/ StartRegular \/ CompleteRegular

Next == Daemon \/ PlannerEnds \/ SessionEnds \/ \E d \in Decisions : Answer(d)

Spec == Init /\ [][Next]_vars

(* The daemon polls and sessions end.  Nobody has to answer anything.       *)
Fairness == WF_vars(Daemon) /\ WF_vars(PlannerEnds) /\ WF_vars(SessionEnds)

FairSpec == Spec /\ Fairness

-----------------------------------------------------------------------------
Started == {t \in Tasks : task[t] \in {"running", "completed"}}

(* No task is started before the state file has an answer to the decisions  *)
(* that hold it back (campaign.go:509-518).                                 *)
DecisionsGateTasks ==
    \A t \in Started : \A d \in plan.asked \ answered : t \in plan.canContinue[d]

(* docs/architecture.md:36: while a decision waits for the human's answer   *)
(* only the tasks of its `can continue' list are executed.                  *)
PeopleGateTasks ==
    \A t \in Started : \A d \in plan.asked \ people : t \in plan.canContinue[d]

(* No task is started before the tasks it depends on are completed, so none *)
(* of a cycle ever is.                                                      *)
DependenciesFirst == \A t \in Started : plan.deps[t] \subseteq CompletedTasks

(* The pull requests form one chain, in the order of completion, although   *)
(* tasks may be abandoned in between.                                       *)
StackIsAChain ==
    /\ \A i \in DOMAIN completed :
          base[completed[i]] = IF i = 1 THEN NoTask ELSE completed[i - 1]
    /\ \A i, j \in DOMAIN completed : completed[i] = completed[j] => i = j

(* A campaign is done, in the state file and on its issue, only when every  *)
(* task has its pull request and every decision its answer, wherever polls  *)
(* were cut.                                                                *)
DoneIsComplete ==
    /\ status = "done" \/ "done" \in parent
          => prs = Tasks /\ plan.asked \subseteq answered
    /\ status = "done" => AllCompleted /\ Len(completed) = NTasks

(* A blocked campaign has no running job and one blocked task, or none when *)
(* its planning failed; a blocked task blocks campaign and job with it, and *)
(* its issue says so unless a poll was cut (docs/github-issue-flow.md:210). *)
BlockedTogether ==
    LET blocked == {t \in Tasks : task[t] = "blocked"}
    IN  /\ status = "blocked" =>
              /\ ~JobRuns
              /\ (\E t \in Tasks : blocked = {t}) \/ \A t \in Tasks : task[t] = "pending"
        /\ blocked # {} => status = "blocked" /\ job.state = "blocked"
        /\ mishaps = 0 => \A t \in blocked : child[t] = {"blocked"}

(* Every campaign ends, even when polls are cut, unless it waits for an     *)
(* answer that decisionAnswerRE cannot read, for a task that was abandoned  *)
(* outside of the campaign or for tasks that wait for each other, or a      *)
(* claim was left half-way: that task is tried at every poll.               *)
Abandoned == {t \in Tasks : task[t] = "running" /\ ~(JobRuns /\ job.task = t)}
Cyclic == \E group \in (SUBSET Tasks) \ {{}} :
              \A t \in group : plan.deps[t] \cap group # {}
WaitsForEver == /\ status = "decision_required"
                /\ Pending(answered) \cap plan.readable = {}
                /\ Pending(answered) # {} \/ Abandoned # {} \/ Cyclic
HalfClaimed == \E t \in Tasks : task[t] = "pending" /\ child[t] # {}
CampaignEnds ==
    (status = "planning") ~> status \in {"done", "blocked"} \/ WaitsForEver \/ HalfClaimed

(* The other issues get their turn: the ordinary issue is taken, and no     *)
(* campaign issue stays listed, unless the campaign before them is one of   *)
(* those that do not end, or is blocked: a blocked campaign holds up all    *)
(* work.  A done campaign leaves the state file only when an ordinary issue *)
(* is started; when that fails, or there is none, the next campaign is      *)
(* never looked at.                                                         *)
Held == status = "blocked" \/ WaitsForEver \/ HalfClaimed
NothingReplacesIt == status = "done" /\ regular = "over"
OthersGetTheirTurn ==
    /\ regular = "ready" ~> regular # "ready" \/ Held
    /\ waiting > 0 ~> waiting = 0 \/ Held \/ NothingReplacesIt

(* Child issues without a task come from a planning that failed, and a      *)
(* failure leaves one set of them at most: a plan is turned into issues     *)
(* again only when its state file was not written (campaign.go:156-160).    *)
Failures == IF status = "blocked" THEN mishaps + 1 ELSE mishaps
OrphansHaveAFailure == orphans <= NTasks * Failures
=============================================================================
