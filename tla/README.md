# run-weaver: TLA+ specifications, model checking and proofs

run-weaver is a daemon that watches the issues of GitHub repositories, runs
Codex CLI on one issue at a time in a git worktree, and turns the result into a
draft pull request. It keeps no database: what it knows is spread over the
labels and comments of an issue, one `state.json` per repository, worktrees,
tmux windows and the files Codex leaves behind. Nearly every hard question
about it is whether these stay in agreement while daemons, Codex sessions,
GitHub and people act in orders nobody planned. That is what this directory
models.

Paths below are relative to `src/internal/cli/` unless they start with `docs/`.

## 1. The system

### Components, their state and operations

| component | code | state | operations |
|---|---|---|---|
| Claim protocol | `claim.go`, `labels.go`, `github.go` | labels and claim comments of an issue | `claimIssueWithID`, `markDone`, `markBlocked` |
| Regular issue job | `daemon.go`, `completion.go`, `worktree.go`, `runner.go` | `state.Job`; worktree; remote branch; PR; tmux window; `codex.jsonl`; `last-message.txt` | `processOneIssue`, `completeCurrentJob`, resume after a rate limit, conflict resolution |
| Ready queue | `queue.go` | issue bodies, labels and comments; `state.CompletedIssues` | `selectReadyIssue`, `detectIssueDependencies`, `resolveIssueDependencies` |
| Campaign | `campaign.go`, `completion.go` | `state.Campaign` (tasks, decisions, completed tasks), parent and child issues | planning, `dispatchCampaignTask`, the pipeline plan, implement, review, verify, `markCampaignTaskCompleted` |
| Decision answers | `decision.go`, `campaign.go` | answer comments | `decision answer`, `campaignDecisionAnswerFromComments`, `refreshCampaignDecisionAnswers` |
| State file | `state.go` | `state.json` | read, write in place |
| Daemon loop | `cli.go`, `daemon.go` | the list of the start and of the round; one goroutine and one state file per repository; one tmux session | `runDaemon`, `runMultiRepoDaemonLoop`, `processRegisteredReposOnce`, `ensureSession` |
| Repository configuration | `repo_config.go`, `repo.go` | `repos.json` | `addRepoConfigEntry`, `removeRepoConfigEntry`, `readRepoConfig` |
| Self-update | `update.go`, `update_restart_unix.go`, `cli.go` | `update-request.json`, the binary, `<binary>.new` | check, request, safe point, install, restart |
| Status | `status.go` | none of its own | `collectStatusForRepo`, `detectStatusConflicts`, `jobRuntimeState` |
| Doctor, install | `doctor.go`, `doppler.go`, `install.go` | none of their own | probe and print; write service files |
| Command line, scripts | `cli.go`, `scripts/` | none | flag parsing; install and release scripts |

### How they interact

* The daemon polls. A poll first completes the running job
  (`completeCurrentJob`), then handles a campaign issue if there is one
  (`processCampaign`), then looks for an executable regular issue
  (`selectReadyIssue`), claims it and starts Codex.
* Codex runs in a tmux window of its own (WSL) or as a detached process
  (Windows). The daemon learns about it from whether the window exists, from
  `last-message.txt` and from lines in the log.
* Daemons of one repository on different machines share nothing but GitHub.
  Labels have no compare-and-swap.
* Commands beside the daemon (`repo add`, `update`, `status`) share files with it
  and no lock: `repos.json`, the update request, the binary, `state.json`.
* People edit issues, push to the base branch, answer decisions by comment, and
  hand blocked issues back by removing the label.

### What is hard about it

Two claimants that read before either has written; a crash between any two of
the calls of a poll; calls that fail half-way through a label change; a resumed
session that appends to a log which is read as if it were new; a merge left open
in a worktree that is used again; a base branch that moves while Codex resolves
a conflict; dependencies read one by one while others change them; answers that
arrive one by one; a task that fails at a stage that only tells half of the
records about it; two installs that meet at one file; a command that rewrites a
file which the daemon is about to read. `PROJECT.json` lists each with its line under `hazards`.

### What makes each component correct

* Claim: whoever works on an issue is covered by the `running` label; a double
  win needs two agents that raced on the label check; a race is never lost by
  everybody.
* Job: no two Codex sessions in one worktree; the daemon publishes no
  conflict markers of an open merge; `done` stands for a pull request; labels and state file
  agree between polls; a job ends; a conflict starts one resolver only.
* Queue: an issue is stacked on finished work only; the stacks have no circle;
  an issue that waits does not hold up the others.
* Campaign: dependencies first; pending decisions hold back the tasks that are
  not in their `can continue` list; the pull requests form one chain; `done`
  means complete; a blocked campaign has nothing running and one blocked task; a
  campaign ends; issues beside it get their turn; child issues without a task have
  a failure behind them.
* Update: the binary is never half a file unless two installs met; a request is
  removed only when it was served; the daemon follows a command.
* Repositories: a command loses nobody else's entry; the daemon follows the list
  as it changes, survives a torn one, and replaces itself only at rest.
* Status: an alarm has a reason; status and the next poll judge a session alike.

## 2. The modules

```
Claim  <- MCClaim                      JobLifecycle
  ^                                         | refined by
ClaimProofs                    IssueJob <- MCIssueJob
                                ^     ^
                   IssueJobProofs     Status <- MCStatus
                                ^           ^
                   IssueLifeProofs <- StatusProofs

Campaign <- MCCampaign         ReadyQueue <- MCReadyQueue
  ^                               ^
CampaignProofs                 ReadyQueueProofs

Update <- MCUpdate             Repositories <- MCRepositories
  ^                               ^
UpdateProofs                   RepositoriesProofs
```

The models are cuts of the system at different depths, not disjoint parts.
`Claim` has every GitHub call of a claim; in the others a claim is one step with
the outcomes that `Claim` shows to be possible for one agent. `IssueJob` has
every stage of a poll; in `Campaign` a poll is one step, in `ReadyQueue` a job
is, and in `Repositories` a poll only starts Codex or does not. `Status` composes
a reader with all of `IssueJob`. A definition named `X_Y` next to `X` is `X` with a plausible
bug `Y`; no specification uses it, `PROJECT.json` (`mutants`) says which
property it violates.

**Claim** (`claim.go`). One action is one GitHub call of `claimIssueWithID`, of
`markDone` or of `markBlocked`: `CheckLabels` is the fresh `ViewIssue` and
`hasManagedLabel`, `AddRunning` the `AddLabel`, `RemoveStale` the two
`RemoveLabel` calls whose error the code drops, `PostClaim` the comment,
`Refresh` the second `ViewIssue` with `latestClaimID`. `Faults` lets calls fail
and agents crash. A claim ID is the agent and the number of its claim; the time
stamp and random suffix of the code make it unique, which is all that is used.
`before` and `released` are history variables, read by properties only.

**IssueJob** (`daemon.go`, `completion.go`, `worktree.go`, `runner.go`). `pc`
walks through one poll; `mem` is the job in memory, `file` the job in
`state.json`, so that a crash loses `mem` and keeps `file`. Stages that fail go
to `strip_for_blocked` (`writeBlockedState` and `markBlocked`), as in the code.
`tree` keeps the five facts about a worktree that decide what git does: it
exists, is dirty, has an open merge, holds conflict markers, contains the
current base. The branch has no commit of its own, clean ones, one of the daemon
with conflict markers (`marked`), or one that a session made itself with markers
in it (`unseen`): `validateConflictResolution` looks at unmerged files and at
files that differ from `HEAD` (`completion.go:223-240`), hence not at the last.
`log` is per phase and is appended to, as in the code, so an old rate-limit line
stays visible. A resume that cannot be started changes nothing and may fail at
every poll, as in `completion.go:355-373`; it is no mishap. Git, tmux and Codex are external and modelled
from how the code uses them: `git add -A` with `git commit` settles an open
merge with whatever the files hold; a tmux window exists as long as its session
is alive; on Windows there is no window to look for. The operator hands a blocked
issue back only when no session of it is alive any more (`Rerun`): the code does
not check that, so it is an assumption about the operator.

**JobLifecycle** is what `docs/github-issue-flow.md` promises about one issue:
ready, running, done, blocked; one pull request, opened while running; done has
it and is final.

**Status** (`status.go`) EXTENDS `IssueJob` with one status command that reads,
in this order and each in a step of its own: the state file (`ReadState`), the
issue's label (`ReadLabel`), the tmux window (`ReadWindow`), the files of Codex
for the conflicts (`DetectConflicts`) and again for the runtime state
(`ReportRuntime`). Daemon, Codex and base branch go on in between. `quiet`
records whether the daemon rested meanwhile: what a report says is compared with
the world only where the report had a chance.

**Campaign** (`campaign.go` and the campaign branches of `completion.go`). One
action is one poll together with the stage that fails in it. A *mishap* is a poll
that is cut between its write of the state file and its calls to GitHub, in
whichever order that poll has them: the actions with a `Mishap` branch, and
`RefreshCut` and `PlanUnsaved`. The planner may write any plan over the tasks and
decisions, cyclic dependencies included, and one plan for each flaw that
`parseCampaignPlannerOutput` refuses. That parser takes any text for an id or an
option, `decisionAnswerRE` (`campaign.go:38`) only `[a-z0-9-]+` and
`[A-Za-z0-9_-]+`: `readable` are the decisions whose answers the daemon can read.
`comments` are the decisions for which an answer can be found among the comments
of the campaign issue, and `people` those that a human has answered. The two
differ: the daemon's own request ends with an answer line for every option
(`decisionQuickReplyLines`), and an answer to an unreadable decision is there and
not found. `codex = "unrecorded"` is a session that runs although the state file
that tells of it was not written. The answers a waiting campaign reads at the
start of a dispatch are part of the dispatch (`Refreshed`). Beside the campaign
there are further campaign issues (`waiting`), an ordinary issue (`regular`) and
child issues that planning left behind (`orphans`). Starting the ordinary issue
writes a state file without the campaign (`CampaignInNewState`), which is what
lets the next campaign in. Retry counters and `currentTaskId` are written and
reported but decide nothing, and are left out.

**ReadyQueue** (`queue.go`). `selectReadyIssue` is modelled issue by issue, so
that other agents and people act between two of them. `Verdict` is
`detectIssueDependencies` and `resolveIssueDependencies`; `mentions` is what the
regular expressions extract from the body: the numbers in order, or an ambiguous
text. A number may belong to no issue: `ViewIssue` fails and ends the poll.

**Update** (`update.go`, `runUpdate`, the safe point). The daemon and commands
walk through the same install: `RemoveNew`, `OpenNew` and `CopyEnds` at
`<binary>.new`, `Rename`, `Exec`. A file is the release last written into it from
its beginning, its writer, and whether it is partial, whole or a mixture;
`writer` follows the open file through an unlink and a rename, as the kernel
does. `Exec` fails while somebody has the binary open for writing (ETXTBSY).
On Windows the process ends and a detached script moves and starts (`Detach`,
`ScriptMove`, `ScriptStart`). `raced`, `regressed` and `overlapped` are history
variables that name the three ways in which updates can be lost.

**Repositories** (`repo_config.go`, `repo.go`, the daemon loop). A command reads,
truncates and writes `repos.json` in three steps; writing over what
another command has written may leave a torn file, even for the same repositories,
as the texts can differ in the Doppler mode. The loop is safe point, list of the round,
goroutines, wait. A goroutine's poll is `Poll` (starts Codex or does not) and the
three tmux calls of `ensureSession`. A daemon that finds no list at its start
exits and is restarted by its service.

## 3. The runs

| run | question | bounds |
|---|---|---|
| `claim_safe` | Is a worker covered by the label, do only racers double-win, does a race have a winner? | 3 agents, 2 claims each, failing calls, crashes; symmetry over agents |
| `claim_race` * | Does only one of simultaneous claimants work? | 2 agents, 1 claim each, no fault |
| `job_clean` | No markers published, labels agree with the file, one resolver, follows `JobLifecycle`; are status alarms real and does the next poll agree? | WSL, 2 live sessions, 2 rate limits, 2 base moves, a status command; every stage may fail; no crash |
| `job_mishap` | Never two sessions at work, done has its pull request and a pull request gets its `done`, a recorded job ends? | WSL, 1 crash or bookkeeping failure anywhere, 2 re-runs, 2 rate limits, 1 base move |
| `job_rerun` * | Are markers kept out of pull requests when an issue is handed back? | 1 re-run, 1 base move |
| `job_codex_failure` * | Is a failed Codex run reported as blocked? | `CodexMayFail` |
| `job_windows` * | One session at a time on Windows? | 1 rate limit |
| `campaign` | Gates, dependencies, chain, completeness, common blocking, child issues without a task, termination, turns of other issues | 3 tasks, 2 decisions, plans with up to 2 constraints (a later campaign or an unreadable decision: 1), 2 campaign issues, 1 ordinary issue, 1 poll cut half-way |
| `campaign_gate` * | Is a task that a decision holds back started only when a human has answered? | 2 tasks, 1 decision, plans with 1 constraint, no poll cut |
| `queue` | Stacked on finished work, no circles, executable issues taken | 3 issues, every dependency list over `Numbers` and every order, 1 edit by people, 1 failing call |
| `update` | Whole binary, requests served, daemon follows, command ends | 1 daemon, 1 command typed twice, 3 releases, 2 crashes or failing calls, Unix and Windows |
| `repositories` | Entries survive, torn only by overlap, rest at the safe point, shared session, the list is followed | 3 repositories, 2 commands of any kind, 1 crash, restart or killed tmux server |

Runs marked * state what the documentation says and TLC refutes it; see
section 6. All others pass.

**Why the bounds are enough.** Two agents are needed for a race, the third for
somebody who joins while one wins and another loses; the second claim of an
agent reaches issues that already carry claim comments and left-over labels. In
a job two live sessions are one more than is correct, so a second session is
reachable; two rate limits cover a limit before and one after a resume (or one
in each phase); two base moves cover one that conflicts and one while the
conflict is resolved, which is where the retry counter bites. One mishap at
every point is a crash followed by an undisturbed recovery; what recovery leaves
behind is again a state from which an unbounded number of mishaps is covered by
the proof of `DoneHasPR`. In the second re-run and at the second rate limit of
`job_mishap` a log has both of its lines, which is the case `RecordedJobEnds`
excepts by name (`ResumesForEver`). A constraint is a dependency or a
task that a decision holds back. Three tasks and two constraints give chains,
forks, joins, a cycle of two beside a task that is ready, an abandoned task
between two completed ones, and a decision that holds back a task which another
depends on;
two decisions give an answer that arrives while another one is missing. What a
later campaign adds is that it comes after another, so its plans are kept small. Three issues give a lower
one that waits, one that is ambiguous or unviewable and one that is executable.
Three releases are one to start from, one to ask for and one that comes out
meanwhile; a command typed twice and a daemon are enough for two installs at one
file, and the second mishap is a crash during the recovery from the first. Of
three repositories one is registered by a command, one removed by it and one
left alone; two commands are what it takes to lose an update.

**Deadlock** is checked in the four job runs in which nothing is lost:
`job_clean`, `job_rerun`, `job_codex_failure` and `job_windows` (in `job_clean`
the status command can always go on while a job is recorded, so that the check
concerns the rest; that a recorded job goes on is `RecordedJobEnds` in
`job_mishap`). It is switched off where the system may come to rest for good:
claims are bounded by `MaxTries`; a torn state file or an exhausted re-run leaves a job nobody takes
up; a campaign that is done or blocked, and a queue whose issues are all done or
blocked, have nothing left to do; an update ends with the last release and no
process left to start; a daemon over an empty or torn `repos.json` does not start.

**Fairness.** `WF(Daemon)`, `WF(Poll)`: the ticker of `runDaemonRepo` polls
again after every result, and the service manager restarts the process. That
holds for the generated systemd unit (`Restart=always`); the task that is
registered on Windows starts the daemon again at a logon only. `WF(Codex)`, `WF(SessionEnds)`,
`WF(PlannerEnds)`, `WF(Job)`: a Codex session does not run for ever; nothing in
the code enforces that, so it is an assumption about Codex. Nobody has to answer
a decision: the daemon does it itself where its request can be read, see section
6. `RecordedJobEnds` and `OpenPRGetsDone` have a hypothesis, `ResumesGetThrough`: a
resume that is tried at every poll succeeds at some point. Nothing in the code
ensures it, no attempt is the last one; TLC refutes both without it. In
`Update`, `WF(StartDaemon)` is `Restart=always` of the unit, `WF(ClearRequest)`
and `WF(Step(p))` let a process that can go on do so; in `Repositories`,
`WF(Loop)` is the ticker and the service manager, `WF(Goroutine(r))` and
`WF(Command(c))` the Go scheduler and the operating system, and that no external
call hangs: calls of `git`, `gh` and `tmux` have no time limit, and a round waits
for all its polls (`daemon.go:106`), so that one hanging poll holds up the other
repositories, which `docs/cli.md:461` calls independent loops. No fairness is
assumed of the status command (`StatusSpec` has none at all). Nothing is assumed of crashes, releases, base
moves, re-runs, other agents or of people who type commands or edit issues. No
fairness is assumed of any single stage but the resume in that hypothesis:
whether it succeeds is free.

## 4. What is proved

Every invariant and every action property that a passing run checks is a theorem of
TLAPS, and so is the refinement. They hold for every value of the constants, from
the assumptions on the constants alone (`MaxTries`, `Campaigns` and the `Max...`
bounds are naturals, `NTasks` and `N` positive ones, `Numbers` are naturals,
`Faults` and `CodexMayFail` are Booleans, `Target` is one of two). `Agents` is any
set, finite or not. A theorem that asks for more says so in its statement: no
mishap so far (`mishaps = 0`), no re-run so far (`reruns = 0`), WSL, or a Codex
that always leaves a trace. TLC refutes each of the last three groups below
without what it asks for.

* **ClaimProofs**. `TypeCorrect`, `HolderIsProtected`, `DoubleWinIsARace`,
  `LatestClaimantStays`. The inductive invariant is `Inv`: the types,
  `HeldIssueIsLabelled`, `LatestClaimantNeverLoses` and the strengthening
  `NobodyBefore`. `OnlyRacersDoubleWin` alone is not inductive, as it speaks of
  winners while the reason lies at the label check: as long as nobody took
  `running` off, a holder implies the label (`HeldIssueIsLabelled`), the label
  makes the check fail, so a check that passed saw no holder and `before` is
  empty. `LatestClaimantNeverLoses` rests on `AppendedIsLatest` (the last
  comment is the one appended) and on claim IDs naming their agent. `before` is
  recorded until `released` is set, beyond which no property reads it.
* **IssueJobProofs**. `TypeCorrect` and `DoneMeansPR` (`[]DoneHasPR`) with any
  number of crashes, failed label calls, torn writes, rate limits, base moves
  and re-runs, on both targets and with a Codex that may fail. `DoneHasPR` is
  about states; it becomes inductive with `Order`, one conjunct per part of the
  completion: past the commit the branch has a commit of its own, past the push
  the remote branch has it, past the pull request there is one, and neither the
  memory, the file nor the labels say `done` before. Nothing ever takes a
  commit, a push or a pull request back, hence crashes cannot break it.
* **IssueLifeProofs**, on the same model. Until the first crash or failing
  bookkeeping call the three records of a job differ in one way only at each
  stage, which is `Calm`: the daemon holds what the file has until a phase changes
  (`JobHeld`), the file is written last (`FileBehind`), the labels follow the
  stage (`LabelsTell`), a pull request is opened after everything else
  (`PRLast`), the number of resolvers is in the file (`ResolversCounted`). None of
  the five is inductive alone. From `CalmWithoutMishap` follow
  `LabelsTellTheState`, `OneResolver`, and, with `MarkersSeen` (where in a poll
  markers can be in the worktree), `NoMarkersInPR`: the daemon commits none; of
  what a session has committed itself (`unseen`) it does not speak. The latter and the labels ask
  for `reruns = 0` as well: the run `job_rerun` refutes the one, and taking a
  label off changes it beside the file. `FollowsLifecycle` takes the steps one by
  one: `SaveStartedJob` is the start, `CreateDraftPR` opens the pull request,
  `SaveJob` is the finish, the block or a stutter, all others are stutters; it
  holds for re-runs as well. `OneSession` allows one mishap anywhere and any
  number of re-runs, on WSL: while a session is alive the file, the labels or the
  poll that is going to write them stand in the way of another (`Guarded`), and
  the window stands in the way of a resume. Two mishaps break it (the state file
  is not written, then the `blocked` label is not put on); on Windows there is no
  window, and `job_windows` refutes it.
* **StatusProofs**. Each step of the reader is a stutter of the job, so all of the
  above holds beside it (`StatusIsJob`). `PollAgrees` is about a resting daemon:
  phase and file are still those that were read, and a window that was gone stays
  gone because only the daemon opens one and a Codex that is not alive writes
  nothing (`WindowStaysGone`). It asks for WSL and for nothing else, crashes and
  re-runs included; on Windows the message can come after the report.
  `AlarmsHaveReasons` is the hard one, as the session may end and the daemon go on
  between any two reads. What was read stays meaningful because no log is emptied
  any more for a phase a reader may look at (`Clears`, `NotCleared`): a job is
  started only where there was none (`FirstAttempt`), a resolver only once. So a
  running job that is recorded has a session or a trace of one (`JobsCovered`,
  with `StagesTold` for Codex), and one whose window was gone has a trace
  (`SeenCovered`); without a message and a rate limit it is `command not found`.
  TLC refutes it with one re-run, with one mishap and with a Codex that may fail.
* **CampaignProofs**, for any number of tasks, any decisions and plans, any number
  of campaign issues and of cut polls. `TypeCorrect` needs `Relisted`: only a cut
  poll puts a campaign issue on the list again. The five safety invariants are
  proved together (`Work`), with three facts that tie the parts of the state: the
  running job is that of a running task and stands on the last completed one
  (`JobIsItsTask`), a plan that is being made has started nothing
  (`PlanningIsFresh`), completed tasks are listed and have their pull request
  (`CompletedIsListed`). `TaskChanges` says once what every step does to the tasks
  (it keeps them, begins, blocks or completes one); the invariants are proved from
  that and not from the actions. `DoneMeansComplete` counts: a list of the tasks
  without repetition is as long as there are tasks (`ListOfAll`).
  `BlocksTogether` rests on what makes a campaign blocked and on nothing leaving
  that state but a new campaign (`WhatBlocks`, `BlockedIsFinal`).
  `OrphansOnlyFromFailures` counts what each step adds to the child issues without
  a task (`OrphansGrow`, `OthersLeaveOrphans`) against the failures so far.
* **ReadyQueueProofs**, for any number of issues and any lists of numbers in them.
  `StackedOnDone` needs `Stacks`: what a job here stands on was done when it was
  looked at, `done` is final, and of the issues a poll still has to look at (and
  may mark as blocked by what it knew when it listed them) none is finished here
  or carries something that is. `NoCircles` adds the issue that is finished next:
  nothing that is finished stands on it, as it has only been running.
* **UpdateProofs**, from `UpdateAssumption` (the daemon is none of the commands,
  the bounds are naturals, there is a release). `TypeCorrect` needs `Looked`:
  who asks, installs or cleans up has looked at GitHub, so that `found` is a
  release. `RequestsAreServed` rests on `Served`: nobody knows of a release that
  is not out (`OutAlready`), and the daemon only cleans up when it runs what it
  has found (`UpToDate`). With a release out since the look, `raced` records it;
  without one, the request is at most `latest`, which is `found`, which the daemon
  runs. `BinaryIsReplacedWhole` has two halves. As long as no two installs have
  overlapped there is one at most, and it passes an absent, then a partial file of
  its own, then a whole one from step to step (`InTurn`), crashes and failures
  included. After an overlap, and as long as nothing failed, whoever emptied an
  incomplete file still writes it, wherever a rename has moved it
  (`PartialIsWritten`). `InStep` ties the open files and the scripts to the
  processes.
* **RepositoriesProofs**, from `RepositoriesAssumption`, for any set of
  repositories and commands. `NobodyElseIsLost`: what a command has in memory has
  every repository no command was typed for (`MemoryHasUntouched`), and a file that
  does not exist had none (`AbsentIsEmpty`); the property speaks of the file alone
  and is not inductive without them. `TornIsExplained`: while one command writes
  alone, the file is as that command truncated it (`Truncated`).
  `RestartsAtRest`: during a round only repositories of its list are polled, and
  none while the daemon is down (`Resting`). `SessionIsShared`: who lost the race
  for the tmux session finds the winner's (`LoserHasSession`).

Each lemma has one step per action, and under it one per conjunct the action can
disturb.

**Only model-checked**: the liveness properties (`OpenPRGetsDone`,
`RecordedJobEnds`, `CampaignEnds`, `OthersGetTheirTurn`, `ExecutableIsTaken`,
`DaemonFollowsCommand`, `UpdateEnds`, `DaemonFollowsConfig`,
`DaemonOutlivesTornConfig`), which rest on fairness and on what is enabled, both
outside what TLAPS proves; and that what the five refuted runs show is really
reachable, which takes a behaviour and not a proof.

## 5. What is not modelled, and why

* **In the modelled parts.** The text of prompts, comments and logs, beyond what
  the daemon tells apart in them. In `Campaign`, a crash between two arbitrary
  calls of one poll (polls are cut at the write of the state file and inside the
  label changes), and a planner on Windows, which would be waited for without
  limit when it leaves no message. Claims left half-way are reached in `Claim`,
  but no property is stated of them: nothing in the code finds such an issue
  again.
* **Issues keep their title, clones are whole.** The branch name follows the
  title while an existing worktree keeps its branch (`worktree.go:55`), and a
  killed `git clone` passes for a clone (`worktree.go:137`). Both are listed as
  hazards; `IssueJob` knows a worktree that is made or is not.
* **Repositories with one slug.** `a/b-c` and `a-b/c` share state file, clone and
  worktrees (`repo_config.go:188`). `Repositories` has one goroutine per
  repository and does not look into their files.
* **Daemon over a single repository** (`runDaemonLoop`): the same loop with one
  repository that is given on the command line and no list to follow.
* **Status** of the campaign and of the ready queue, the table over several
  repositories, the legacy state file. The daemon's PID is compared by the code,
  but nothing ever records one: `running_job_without_process` cannot occur.
* **Update**: archives, checksums and version strings are a release number; on
  Windows no liveness is claimed, as `move` fails while any process runs the
  binary and a command then starts itself again.
* **Doctor, Doppler, install, command line, scripts.** Pure input and output or
  one-shot commands. A failing Doppler check is one of the stages that fail, the
  service's restart is fairness.

## 6. Where the documentation promises more than the code does

Each is a run that TLC refutes; `PROJECT.json` (`findings`) quotes the lines.

1. `claim_race`: both claimants can confirm their own claim (`claim.go:58`), as
   each looks only whether its comment is the latest when *it* reads.
2. `job_rerun`: a block on a high-risk conflict leaves the merge open in the
   worktree (`worktree.go:56`); after a re-run it is committed unvalidated.
3. `job_codex_failure`: a Codex that exits without a message or a known log line
   keeps the job running for ever (`completion.go:37`).
4. `job_windows`: the rate-limit line stays in the log, so every poll resumes
   again (`completion.go:329`).
5. `campaign_gate`: the daemon looks for answers in every comment of the campaign
   issue (`campaign.go:744`), its own request among them, which ends with a line
   to copy for every option; the next poll takes the last of them for the answer
   and starts what the decision holds back, where `docs/architecture.md:36` and
   `docs/decision-log.md:20` have it wait for a human.

Further weaknesses the models show; the properties name them as exceptions:

* Completion starts again at the commit: after a crash behind the pull request
  the next poll finds nothing to commit and blocks the issue, its pull request
  open (`completion.go:65`), where `docs/github-issue-flow.md:111` has `done`
  follow the pull request. `OpenPRGetsDone` therefore lets an issue end `blocked`
  after a mishap, and only then.
* A resume that cannot be started (prompt, Doppler, tmux) returns an error and is
  tried at every poll; no retry is counted against a limit and nothing is blocked
  (`completion.go:355-373`), where `docs/github-issue-flow.md:148` lists a missing
  Doppler and `docs/cli.md:456` a failing one under `blocked`: the hypothesis
  `ResumesGetThrough`.
* A job whose log says both `rate limit` and `command not found` is resumed at
  every poll without end (`completion.go:288`, `325`): `ResumesForEver`.
* Conflict markers that a session has committed itself are not looked for
  (`completion.go:223-240`): `unseen` in `NoMarkersPublished`.
* A decision whose id or options are outside the character classes of
  `campaign.go:38` waits for an answer that is never read, contrary to
  `docs/cli.md:422`; and a comment for
  the option `yes, later` is read as `yes` where that is an option too.
  `WaitsForEver` in `CampaignEnds`. The same names tasks that wait for each other
  and tasks that were abandoned.
* Only the first ready task is asked whether it may continue (`campaign.go:511`),
  where `docs/github-issue-flow.md:237` has the dispatcher run the tasks that can
  continue and stop when there is none: a campaign waits beside a task it could
  start. No run states it.
* A claim of a campaign task that is left half-way is tried and skipped at every
  poll (`campaign.go:535`): `HalfClaimed`.
* One number that cannot be viewed ends every poll before the issues behind it
  (`daemon.go:141`), where `docs/github-issue-flow.md:49` has the daemon go on to
  the next executable issue: `Derailed` in `ExecutableIsTaken`.
* A blocked campaign holds up all work of the repository, and a done campaign
  makes room for the next one only when an ordinary issue is started: `Held` and
  `NothingReplacesIt` in `OthersGetTheirTurn`.
* A request can be removed with an earlier one (`raced`), a slow installer can
  put an older release back (`regressed`), and an installer that dies after
  another has published its file leaves a torn binary: the exceptions of
  `DaemonFollowsCommand` and `BinaryStaysWhole`.
* Two commands that write at once, or one that dies while it writes, leave a
  `repos.json` that does not parse; a daemon restarted then has no repository.
  The entry of the losing command is gone as well: `UntouchedSurvive` speaks of
  the repositories nobody typed, in a file that parses.

## 7. Plan

Done, in this order: `Claim` with its proofs; `IssueJob`, `JobLifecycle` and
their proofs; `Campaign`; `ReadyQueue`; `Update`; `Repositories`; `Status`; polls
cut half-way, further campaigns and ordinary issues in `Campaign`; the proofs of
`Update` and `Repositories`; the proofs of `Campaign`, `ReadyQueue`, `Status` and
of the rest of `IssueJob`, the refinement included.

Left to model: a composition of two daemons (`Claim` for two agents, each running
a job), to show what a double win does to branch and pull request; worktrees
with their branches and clones; repositories that share a slug.

Left to prove: the safety that the liveness properties rest on (what a poll
that neither ends nor blocks a job leaves as it was), and how far `AtMostOneSession`
and the labels can be kept after a second mishap, by which exceptions.

## 8. Running

`tlc -config MCClaimSafe.cfg MCClaim` checks one run (module and configuration
of each are in `PROJECT.json`), `tlapm ClaimProofs.tla` the proofs of one module
(each module named `...Proofs` likewise). The largest runs are `campaign`
(1,204,000 distinct states, about a minute), `job_clean` (668,000), `job_mishap`
(519,000) and `repositories` (423,000).
