------------------------------- MODULE IssueJob -------------------------------
(***************************************************************************)
(* One daemon and one regular issue: the poll of processOneIssue and       *)
(* completeCurrentJob (src/internal/cli/daemon.go, completion.go), step by *)
(* step.  The daemon interleaves with the Codex sessions it starts, with   *)
(* commits on the base branch and with the operator.  What survives a      *)
(* daemon crash is the state file, the issue's labels, the worktree, the   *)
(* remote branch, the pull request, and the Codex sessions themselves.     *)
(*                                                                         *)
(* A stage (git, gh pr, tmux, Doppler, prompt file) may fail at any time   *)
(* and any number of times; the code answers by blocking the job, except   *)
(* when it resumes a rate-limited session: then the next poll tries again. *)
(* A mishap is a crash of the daemon or a failure in the bookkeeping       *)
(* itself (a label call, a write of the state file), at most MaxMishaps.   *)
(*                                                                         *)
(* The claim is one step here; module Claim has its calls.                 *)
(***************************************************************************)
EXTENDS Naturals, FiniteSets

CONSTANTS Target,         \* "wsl" (tmux windows) or "windows" (no tmux)
          MaxLive,        \* bound: Codex sessions alive at once
          MaxLimits,      \* bound: rate limits that Codex hits
          MaxBaseMoves,   \* bound: pushes by others to the base branch
          MaxReruns,      \* bound: times the operator hands a blocked issue back
          MaxMishaps,     \* bound: crashes and bookkeeping failures
          CodexMayFail    \* may Codex exit without a last message or a known log line?

ASSUME TargetAssumption == Target \in {"wsl", "windows"}
ASSUME BoundsAssumption ==
    MaxLive \in Nat /\ MaxLimits \in Nat /\ MaxBaseMoves \in Nat
    /\ MaxReruns \in Nat /\ MaxMishaps \in Nat
ASSUME CodexMayFailAssumption == CodexMayFail \in BOOLEAN

VARIABLES pc,          \* the daemon: what it does next in this poll
          mem,         \* the job the daemon holds in memory during a poll
          file,        \* the state file
          labels,      \* the managed labels on the issue
          tree,        \* the issue's worktree
          pushed,      \* what the remote branch holds
          pr,          \* is there a draft pull request?
          live,        \* the Codex sessions alive
          lastMessage, \* the phases whose last-message.txt exists
          log,         \* per phase: the telling lines in codex.jsonl
          resolvers,   \* history: conflict-resolve sessions of the current job
          limits, baseMoves, reruns, mishaps   \* bounded environment events

daemonVars == <<pc, mem, file>>
codexVars == <<live, lastMessage, log>>
envVars == <<limits, baseMoves, reruns, mishaps>>
vars == <<daemonVars, labels, tree, pushed, pr, codexVars, resolvers, envVars>>

ManagedLabels == {"running", "done", "blocked"}

(* The empty phase of a regular job, and conflictResolvePhase. *)
Phases == {"", "conflict-resolve"}

(* stateJob: LabelState, PipelinePhase, ConflictRetryCount. A blocked job   *)
(* has no Codex paths; those of a running one follow from its phase.        *)
(* "unreadable" is a state file that readStateFile cannot parse.            *)
Jobs == [state: {"none", "running", "done", "blocked", "unreadable"},
         phase: Phases, conflicts: Nat]
Job(state) == [state |-> state, phase |-> "", conflicts |-> 0]
NoJob == Job("none")
Unreadable == Job("unreadable")

Sessions == [id: 1..MaxLive, phase: Phases,
             stage: {"started", "worked", "finished", "stopped"}]

(* head: "base" when the branch has no commit of its own, "marked" when a   *)
(* commit the daemon made holds conflict markers, "unseen" when only one    *)
(* that a session made itself does.                                         *)
Heads == {"base", "clean", "unseen", "marked"}
Trees == [exists: BOOLEAN, dirty: BOOLEAN, unmerged: BOOLEAN, markers: BOOLEAN,
          current: BOOLEAN, head: Heads]

LogLines == {"rate limit", "command not found"}

PCs == {"idle", "resume?", "resume", "save", "startup?", "ready?", "validate",
        "commit", "merge", "conflict", "push", "pr", "strip_for_done",
        "put_done", "strip_for_blocked", "put_blocked", "list", "claim",
        "prepare", "start", "save_start"}

TypeOK ==
    /\ pc \in PCs
    /\ mem \in Jobs
    /\ file \in Jobs
    /\ labels \subseteq ManagedLabels
    /\ tree \in Trees
    /\ pushed \in Heads
    /\ pr \in BOOLEAN
    /\ live \subseteq Sessions
    /\ lastMessage \subseteq Phases
    /\ log \in [Phases -> SUBSET LogLines]
    /\ resolvers \in Nat
    /\ limits \in Nat /\ baseMoves \in Nat /\ reruns \in Nat /\ mishaps \in Nat

Init ==
    /\ pc = "idle" /\ mem = NoJob /\ file = NoJob
    /\ labels = {}
    /\ tree = [exists |-> FALSE, dirty |-> FALSE, unmerged |-> FALSE,
               markers |-> FALSE, current |-> FALSE, head |-> "base"]
    /\ pushed = "base"
    /\ pr = FALSE
    /\ live = {} /\ lastMessage = {} /\ log = [p \in Phases |-> {}]
    /\ resolvers = 0
    /\ limits = 0 /\ baseMoves = 0 /\ reruns = 0 /\ mishaps = 0

Running(job) == job.state = "running"

-----------------------------------------------------------------------------
(* Building blocks *)

Goto(here, there) == pc = here /\ pc' = there

(* A stage error: the job is blocked, label first, state file last.         *)
Block == pc' = "strip_for_blocked"

Mishap == mishaps < MaxMishaps /\ mishaps' = mishaps + 1
NoMishap == UNCHANGED mishaps

(* Variant with a defect: the window is never looked for. *)
WindowExists_Never == FALSE

(* tmuxState = "window_exists": never on Windows, where tmux does not apply. *)
WindowExists == Target = "wsl" /\ live # {}

(* codexCompletionReady for the job's Codex paths. *)
LastMessageExists == mem.phase \in lastMessage
CompletionReady == LastMessageExists /\ ~WindowExists

(* What resumeRateLimitedCodex and blockFailedCodexStartup look for. *)
Interrupted(line) ==
    ~WindowExists /\ ~LastMessageExists /\ line \in log[mem.phase]

FreeIds == (1..MaxLive) \ {s.id : s \in live}

(* StartCodex: a new session; `>' truncates the log, a resume appends.      *)
(* Nothing removes the last message of an earlier session.                  *)
StartCodex(phase, resume) ==
    \E id \in FreeIds :
        /\ live' = live \cup {[id |-> id, phase |-> phase, stage |-> "started"]}
        /\ log' = IF resume THEN log ELSE [log EXCEPT ![phase] = {}]
        /\ UNCHANGED lastMessage

(* writeStateFile is not atomic: when it fails the old contents may be gone. *)
WriteState(job) ==
    \/ file' = job /\ NoMishap
    \/ file' \in {file, Unreadable} /\ Mishap

(* A label call whose error the code drops. *)
RemoveLabels(gone) ==
    \/ labels' = labels \ gone /\ NoMishap
    \/ \E kept \in SUBSET gone : labels' = labels \ (gone \ kept) /\ Mishap

-----------------------------------------------------------------------------
(* completeCurrentJob *)

(* A state file that cannot be parsed ends every poll with the same error:  *)
(* nothing changes any more, so no action is taken for it.                  *)
Poll ==
    /\ pc = "idle"
    /\ file # Unreadable
    /\ IF Running(file)
       THEN pc' = "resume?" /\ mem' = file
       ELSE pc' = "list" /\ mem' = NoJob
    /\ UNCHANGED <<file, labels, tree, pushed, pr, codexVars, resolvers, envVars>>

CheckRateLimit ==
    /\ Goto("resume?", IF Interrupted("rate limit") THEN "resume" ELSE "startup?")
    /\ UNCHANGED <<mem, file, labels, tree, pushed, pr, codexVars, resolvers, envVars>>

(* resumeRateLimitedCodex: the comment's failure is only noted. The prompt, *)
(* Doppler or tmux may fail at every attempt; unlike in the other stages    *)
(* nothing is blocked then: the job is saved as it is (or, for a failure    *)
(* before StartCodex, not at all) and the next poll tries again.            *)
ResumeCodex ==
    /\ pc = "resume"
    /\ \/ StartCodex(mem.phase, TRUE) /\ pc' = "save"
       \/ pc' \in {"save", "idle"} /\ UNCHANGED codexVars
    /\ UNCHANGED <<mem, file, labels, tree, pushed, pr, resolvers, envVars>>

(* The last write of a poll, by which a job goes on, is done or is blocked. *)
SaveJob ==
    /\ Goto("save", "idle")
    /\ WriteState(mem)
    /\ UNCHANGED <<mem, labels, tree, pushed, pr, codexVars, resolvers, limits, baseMoves, reruns>>

(* Variant with a defect: a Codex that cannot start is not noticed. *)
CheckStartup_Never ==
    /\ Goto("startup?", "ready?")
    /\ UNCHANGED <<mem, file, labels, tree, pushed, pr, codexVars, resolvers, envVars>>

(* blockFailedCodexStartup *)
CheckStartup ==
    /\ pc = "startup?"
    /\ IF Interrupted("command not found") THEN Block ELSE pc' = "ready?"
    /\ UNCHANGED <<mem, file, labels, tree, pushed, pr, codexVars, resolvers, envVars>>

CheckReady ==
    /\ Goto("ready?", IF ~CompletionReady THEN "idle"
                      ELSE IF mem.phase = "conflict-resolve" THEN "validate"
                      ELSE "commit")
    /\ UNCHANGED <<mem, file, labels, tree, pushed, pr, codexVars, resolvers, envVars>>

(* Variant with a defect: only the index is asked for unmerged files. *)
ResolutionValid_IndexOnly == ~tree.unmerged

(* validateConflictResolution: unmerged files, then markers in the files    *)
(* that differ from HEAD, then `git diff --check' (or a git error).         *)
ResolutionValid == ~tree.unmerged /\ ~tree.markers

(* Variant with a defect: the phase a campaign task would go on with. *)
ValidateResolution_CampaignPhase ==
    /\ pc = "validate"
    /\ \/ /\ ResolutionValid
          /\ pc' = "commit"
          /\ mem' = [mem EXCEPT !.phase = "verify"]
       \/ Block /\ UNCHANGED mem
    /\ UNCHANGED <<file, labels, tree, pushed, pr, codexVars, resolvers, envVars>>

ValidateResolution ==
    /\ pc = "validate"
    /\ \/ /\ ResolutionValid
          /\ pc' = "commit"
          /\ mem' = [mem EXCEPT !.phase = ""]
       \/ Block /\ UNCHANGED mem
    /\ UNCHANGED <<file, labels, tree, pushed, pr, codexVars, resolvers, envVars>>

(* `git add -A' and `git commit': whatever was unmerged counts as settled.  *)
(* marked tells whose commit it is, should it hold markers.                 *)
Committed(t, marked) ==
    [t EXCEPT !.dirty = FALSE, !.unmerged = FALSE, !.markers = FALSE,
              !.head = CASE t.markers /\ t.head # "marked" -> marked
                         [] ~t.markers /\ t.head = "base" -> "clean"
                         [] OTHER -> t.head]

CommitAll ==
    /\ pc = "commit"
    /\ \/ /\ tree.dirty
          /\ pc' = "merge"
          /\ tree' = Committed(tree, "marked")
       \/ Block /\ UNCHANGED tree      \* nothing to commit, or git fails
    /\ UNCHANGED <<mem, file, labels, pushed, pr, codexVars, resolvers, envVars>>

(* FetchOrigin and MergeBase. A conflict leaves the merge open in the tree; *)
(* in a high-risk file it blocks the job at once.                           *)
MergeBase ==
    /\ pc = "merge"
    /\ \/ tree.current /\ pc' = "push" /\ UNCHANGED tree
       \/ /\ ~tree.current
          /\ pc' = "push"
          /\ tree' = [tree EXCEPT !.current = TRUE]
       \/ /\ ~tree.current
          /\ pc' \in {"conflict", "strip_for_blocked"}
          /\ tree' = [tree EXCEPT !.current = TRUE, !.dirty = TRUE,
                                  !.unmerged = TRUE, !.markers = TRUE]
       \/ Block /\ UNCHANGED tree      \* fetch or merge fails otherwise
    /\ UNCHANGED <<mem, file, labels, pushed, pr, codexVars, resolvers, envVars>>

(* Variant with a defect: one resolver too many. *)
ConflictRetryLeft_OffByOne == mem.conflicts <= 1

(* The rest of startConflictResolutionIfNeeded: one resolver per job.       *)
ConflictRetryLeft == mem.conflicts < 1

ResolveConflict ==
    /\ pc = "conflict"
    /\ \/ /\ ConflictRetryLeft
          /\ StartCodex("conflict-resolve", FALSE)
          /\ resolvers' = resolvers + 1
          /\ mem' = [mem EXCEPT !.phase = "conflict-resolve", !.conflicts = @ + 1]
          /\ pc' = "save"
       \/ Block /\ UNCHANGED <<mem, codexVars, resolvers>>
    /\ UNCHANGED <<file, labels, tree, pushed, pr, envVars>>

PushBranch ==
    /\ pc = "push"
    /\ \/ pc' = "pr" /\ pushed' = tree.head
       \/ Block /\ UNCHANGED pushed
    /\ UNCHANGED <<mem, file, labels, tree, pr, codexVars, resolvers, envVars>>

(* Variant with a defect: the error of gh pr create is dropped. *)
CreateDraftPR_DropsError ==
    /\ pc = "pr"
    /\ pr' \in {pr, TRUE}
    /\ pc' = "strip_for_done"
    /\ UNCHANGED <<mem, file, labels, tree, pushed, codexVars, resolvers, envVars>>

(* gh pr create fails when the branch already has a pull request.           *)
CreateDraftPR ==
    /\ pc = "pr"
    /\ \/ ~pr /\ pr' = TRUE /\ pc' = "strip_for_done"
       \/ Block /\ UNCHANGED pr
    /\ UNCHANGED <<mem, file, labels, tree, pushed, codexVars, resolvers, envVars>>

(* Variant with a defect: the new label is forgotten. *)
StripForDone_Only ==
    /\ Goto("strip_for_done", "save")
    /\ RemoveLabels({"running", "blocked"})
    /\ UNCHANGED <<mem, file, tree, pushed, pr, codexVars, resolvers, limits, baseMoves, reruns>>

(* markDone, then the state file. *)
StripForDone ==
    /\ Goto("strip_for_done", "put_done")
    /\ RemoveLabels({"running", "blocked"})
    /\ UNCHANGED <<mem, file, tree, pushed, pr, codexVars, resolvers, limits, baseMoves, reruns>>

PutDone ==
    /\ pc = "put_done"
    /\ \/ /\ labels' = labels \cup {"done"}
          /\ mem' = [mem EXCEPT !.state = "done"]
          /\ pc' = "save"
          /\ NoMishap
       \/ /\ labels' \in {labels, labels \cup {"done"}}  \* the label or the comment fails
          /\ pc' = "idle"
          /\ Mishap
          /\ UNCHANGED mem
    /\ UNCHANGED <<file, tree, pushed, pr, codexVars, resolvers, limits, baseMoves, reruns>>

(* Variant with a defect: `running' stays beside `blocked'. *)
StripForBlocked_KeepsRunning ==
    /\ Goto("strip_for_blocked", "put_blocked")
    /\ RemoveLabels({"done"})
    /\ UNCHANGED <<mem, file, tree, pushed, pr, codexVars, resolvers, limits, baseMoves, reruns>>

(* markBlocked, then writeBlockedState: errors of either are dropped. A job *)
(* whose first state write failed is marked blocked but not written.        *)
StripForBlocked ==
    /\ Goto("strip_for_blocked", "put_blocked")
    /\ RemoveLabels({"running", "done"})
    /\ UNCHANGED <<mem, file, tree, pushed, pr, codexVars, resolvers, limits, baseMoves, reruns>>

PutBlocked ==
    /\ Goto("put_blocked", IF mem = NoJob THEN "idle" ELSE "save")
    /\ \/ labels' = labels \cup {"blocked"} /\ NoMishap
       \/ labels' = labels /\ Mishap
    /\ mem' = IF mem = NoJob THEN NoJob
              ELSE Job("blocked")
    /\ UNCHANGED <<file, tree, pushed, pr, codexVars, resolvers, limits, baseMoves, reruns>>

-----------------------------------------------------------------------------
(* processOneIssue: a new job *)

(* Variant with a defect: issues that were dealt with are listed too. *)
ListReadyIssues_All ==
    /\ Goto("list", "claim")
    /\ UNCHANGED <<mem, file, labels, tree, pushed, pr, codexVars, resolvers, envVars>>

(* ListReadyIssues drops issues with a managed label. *)
ListReadyIssues ==
    /\ Goto("list", IF labels = {} THEN "claim" ELSE "idle")
    /\ UNCHANGED <<mem, file, labels, tree, pushed, pr, codexVars, resolvers, envVars>>

(* claimIssue, alone on the issue: it wins, or a call of it fails.          *)
ClaimIssue ==
    /\ pc = "claim"
    /\ \/ /\ labels' = {"running"}
          /\ pc' = "prepare" /\ mem' = Job("running")
          /\ NoMishap
       \/ /\ labels' \in {labels, labels \cup {"running"}}
          /\ pc' = "idle"
          /\ Mishap
          /\ UNCHANGED mem
    /\ UNCHANGED <<file, tree, pushed, pr, codexVars, resolvers, limits, baseMoves, reruns>>

(* PrepareForRepoWithBase: an existing worktree is used as it stands.       *)
PrepareWorktree ==
    /\ pc = "prepare"
    /\ \/ /\ pc' = "start"
          /\ tree' = IF tree.exists THEN tree
                     ELSE [tree EXCEPT !.exists = TRUE, !.current = TRUE]
       \/ Block /\ UNCHANGED tree
    /\ UNCHANGED <<mem, file, labels, pushed, pr, codexVars, resolvers, envVars>>

(* prepareCodexRunSpec, writePromptFile and StartCodex.                     *)
StartJob ==
    /\ pc = "start"
    /\ \/ /\ StartCodex("", FALSE)
          /\ pc' = "save_start"
          /\ resolvers' = 0
       \/ Block /\ UNCHANGED <<codexVars, resolvers>>
    /\ UNCHANGED <<mem, file, labels, tree, pushed, pr, envVars>>

SaveStartedJob ==
    /\ pc = "save_start"
    /\ \/ file' = mem /\ pc' = "idle" /\ NoMishap /\ UNCHANGED mem
       \/ file' \in {file, Unreadable} /\ Block /\ Mishap /\ mem' = NoJob
    /\ UNCHANGED <<labels, tree, pushed, pr, codexVars, resolvers, limits, baseMoves, reruns>>

Crash ==
    /\ pc # "idle"
    /\ Mishap
    /\ pc' = "idle" /\ mem' = NoJob
    /\ \/ UNCHANGED file
       \/ pc \in {"save", "save_start"} /\ file' = Unreadable
    /\ UNCHANGED <<labels, tree, pushed, pr, codexVars, resolvers, limits, baseMoves, reruns>>

-----------------------------------------------------------------------------
(* Codex (external): modelled from buildCodexCommand and from the files the *)
(* daemon reads.                                                            *)

Becomes(s, stage) == live' = (live \ {s}) \cup {[s EXCEPT !.stage = stage]}

(* What a session leaves in the worktree. The resolver may settle some      *)
(* conflicts, all or none; a session on an open merge it was not told about *)
(* may too.                                                                 *)
Edited(unmerged, markers) ==
    [tree EXCEPT !.dirty = TRUE, !.unmerged = unmerged, !.markers = markers]

(* Nothing in the prompt keeps it from committing what it did, with markers *)
(* or without, and from going on after that.                                *)
CodexWorks(s) ==
    /\ s.stage = "started"
    /\ Becomes(s, "worked")
    /\ \E unmerged, markers, more \in BOOLEAN :
          /\ unmerged => tree.unmerged
          /\ markers => tree.markers
          /\ tree' \in {Edited(unmerged, markers),
                        [Committed(Edited(unmerged, markers), "unseen")
                            EXCEPT !.dirty = more]}
    /\ UNCHANGED <<lastMessage, log, limits>>

CodexFinishes(s) ==
    /\ s.stage \in {"started", "worked"}
    /\ Becomes(s, "finished")
    /\ lastMessage' = lastMessage \cup {s.phase}
    /\ UNCHANGED <<tree, log, limits>>

CodexHitsRateLimit(s) ==
    /\ s.stage \in {"started", "worked"}
    /\ limits < MaxLimits
    /\ limits' = limits + 1
    /\ Becomes(s, "stopped")
    /\ log' = [log EXCEPT ![s.phase] = @ \cup {"rate limit"}]
    /\ UNCHANGED <<tree, lastMessage>>

CodexNotFound(s) ==
    /\ s.stage = "started"
    /\ Becomes(s, "stopped")
    /\ log' = [log EXCEPT ![s.phase] = @ \cup {"command not found"}]
    /\ UNCHANGED <<tree, lastMessage, limits>>

CodexExits(s) ==
    /\ s.stage \in {"finished", "stopped"} \/ CodexMayFail
    /\ live' = live \ {s}
    /\ UNCHANGED <<tree, lastMessage, log, limits>>

Codex ==
    /\ \E s \in live : \/ CodexWorks(s) \/ CodexFinishes(s) \/ CodexHitsRateLimit(s)
                       \/ CodexNotFound(s) \/ CodexExits(s)
    /\ UNCHANGED <<daemonVars, labels, pushed, pr, resolvers, baseMoves, reruns, mishaps>>

(* Others push to the base branch. *)
BaseMoves ==
    /\ baseMoves < MaxBaseMoves
    /\ baseMoves' = baseMoves + 1
    /\ tree' = [tree EXCEPT !.current = FALSE]
    /\ UNCHANGED <<daemonVars, labels, pushed, pr, codexVars, resolvers, limits, reruns, mishaps>>

(* The operator hands a blocked issue back once no session of it is alive.  *)
Rerun ==
    /\ reruns < MaxReruns
    /\ reruns' = reruns + 1
    /\ live = {}
    /\ "blocked" \in labels
    /\ labels' = {}
    /\ UNCHANGED <<daemonVars, tree, pushed, pr, codexVars, resolvers, limits, baseMoves, mishaps>>

Daemon ==
    \/ Poll \/ CheckRateLimit \/ ResumeCodex \/ SaveJob \/ CheckStartup \/ CheckReady
    \/ ValidateResolution \/ CommitAll \/ MergeBase \/ ResolveConflict \/ PushBranch
    \/ CreateDraftPR \/ StripForDone \/ PutDone \/ StripForBlocked \/ PutBlocked
    \/ ListReadyIssues \/ ClaimIssue \/ PrepareWorktree \/ StartJob \/ SaveStartedJob

Next == Daemon \/ Crash \/ Codex \/ BaseMoves \/ Rerun

Spec == Init /\ [][Next]_vars

(* The ticker keeps the daemon polling (systemd restarts it), and a Codex   *)
(* session does not run for ever.                                           *)
Fairness == WF_vars(Daemon) /\ WF_vars(Codex)

FairSpec == Spec /\ Fairness

-----------------------------------------------------------------------------
(* A pull request never carries conflict markers of an open merge that the  *)
(* daemon committed: it validated what it commits or was not in a merge     *)
(* (completion.go:43-60, worktree.go:119-134). Without re-runs and mishaps. *)
(* Markers in a commit of the session itself are not looked for             *)
(* (completion.go:223-240) and not spoken of here: those are "unseen".      *)
NoMarkersPublished == pr => pushed # "marked"

(* Between polls the issue's labels say what the state file says, and no    *)
(* poll ever leaves the issue with two of the three labels.                 *)
LabelsMatchFile ==
    /\ Cardinality(labels) <= 1
    /\ pc = "idle" => labels = {file.state} \cap ManagedLabels

(* Codex is started once to resolve a conflict of a job, even when the base *)
(* moves again while it resolves (completion.go:157-161).                   *)
OneResolverPerJob == resolvers <= 1

(* No two Codex sessions work in the worktree at once, whatever single call *)
(* fails or wherever the daemon crashes: the window, the `running' label    *)
(* and the state file stand in for each other.                              *)
AtWork == {s \in live : s.stage \in {"started", "worked"}}
AtMostOneSession == Cardinality(AtWork) <= 1

(* `done', on the issue or in the state file, stands for a pull request of  *)
(* a branch with commits, whatever failed or crashed on the way.            *)
DoneHasPR ==
    ("done" \in labels \/ file.state = "done")
        => pr /\ pushed # "base"

(* A resume that is tried at every poll does not fail for ever. The code    *)
(* does nothing to ensure it: no attempt is the last one, and nothing is    *)
(* blocked (completion.go:355-373).                                         *)
ResumeStarts == ResumeCodex /\ live' # live
ResumesGetThrough == SF_vars(ResumeStarts)

(* A job that was written to the state file ends, crashes and re-tries      *)
(* included, if resumes get through, and unless a torn write left the state *)
(* file unreadable or a resumed Codex is no longer found: the rate-limit    *)
(* line of the first attempt stays in the log and each poll resumes it      *)
(* again.                                                                   *)
ResumesForEver == \E phase \in Phases : log[phase] = LogLines
RecordedJobEnds ==
    ResumesGetThrough => (Running(file) ~> ~Running(file) \/ ResumesForEver)

(* A draft pull request is followed by the `done' label, even when the      *)
(* daemon dies or fails between `gh pr create' and the last write and       *)
(* completes the job a second time (completion.go:88-121). Only then may    *)
(* the issue end up `blocked' instead: the second time there is nothing to  *)
(* commit.                                                                  *)
OpenPRGetsDone ==
    ResumesGetThrough =>
        (pr ~> \/ "done" \in labels
               \/ mishaps > 0 /\ "blocked" \in labels
               \/ ResumesForEver)

(* docs/github-issue-flow.md:150: a failed Codex run blocks the issue.      *)
FailedCodexIsBlocked ==
    (Running(file) /\ live = {} /\ file.phase \notin lastMessage)
        ~> (live # {} \/ "blocked" \in labels \/ file = Unreadable)

(* The job, as its state file and its pull request show it, follows the     *)
(* lifecycle the documentation describes.                                   *)
Status == IF file.state = "none" THEN "ready" ELSE file.state
Lifecycle == INSTANCE JobLifecycle WITH status <- Status, hasPR <- pr
ImplementsLifecycle == Lifecycle!Spec
=============================================================================
