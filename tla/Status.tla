------------------------------- MODULE Status -------------------------------
(***************************************************************************)
(* `run-weaver status' (collectStatusForRepo in status.go) beside the job  *)
(* of IssueJob.  It reads the state file, the issue's labels, the tmux     *)
(* window and the files Codex leaves, one after the other and without a    *)
(* lock, while daemon and Codex go on, and reports a runtime state and the *)
(* conflicts it sees.                                                      *)
(***************************************************************************)
EXTENDS IssueJob

VARIABLES reader,     \* what the status command reads next
          seen,       \* the job and window it has read
          conflicts,  \* reconciliation.conflicts
          runtime,    \* the runtime state it reported
          quiet       \* history: has the daemon rested since it began to read?

readerVars == <<reader, seen, conflicts, runtime, quiet>>

Conflicts == {"github_label_mismatch", "github_unavailable",
              "running_job_without_tmux_window"}
RuntimeStates == {"none", "needs_attention", "blocked", "done", "codex_completed",
                  "rate_limited_waiting", "codex_running", "running"}

NothingSeen == [job |-> NoJob, window |-> FALSE]

ReaderTypeOK ==
  /\ reader \in {"file", "label", "window", "conflicts", "runtime"}
  /\ seen \in [job : Jobs, window : BOOLEAN]
  /\ seen = NothingSeen \/ seen.job.state \in ManagedLabels
  /\ conflicts \subseteq Conflicts
  /\ runtime \in RuntimeStates
  /\ quiet \in BOOLEAN

StatusInit ==
  /\ Init
  /\ reader = "file"
  /\ seen = NothingSeen
  /\ conflicts = {}
  /\ runtime = "none"
  /\ quiet = FALSE

-----------------------------------------------------------------------------
(* The five reads.                                                           *)

\* Without a readable file, or without a job in it, there is nothing to compare.
ReadState ==
  /\ reader = "file"
  /\ file.state \notin {"none", "unreadable"}
  /\ reader' = "label"
  /\ seen' = [job |-> file, window |-> FALSE]
  /\ conflicts' = {}
  /\ runtime' = "none"
  /\ quiet' = (pc = "idle")
  /\ UNCHANGED vars

\* githubLabelState: the first label of the issue in this order.
GitHubState ==
  CASE "running" \in labels -> "running"
    [] "running" \notin labels /\ "done" \in labels -> "done"
    [] labels = {"blocked"} -> "blocked"
    [] OTHER -> "none"

\* A label that says otherwise is a conflict and takes precedence over the file.
ReadLabel ==
  /\ reader = "label"
  /\ reader' = "window"
  /\ \/ /\ GitHubState \in {"none", seen.job.state}
        /\ UNCHANGED <<conflicts, seen>>
     \/ /\ GitHubState \notin {"none", seen.job.state}
        /\ conflicts' = {"github_label_mismatch"}
        /\ seen' = [seen EXCEPT !.job.state = GitHubState]
     \/ conflicts' = {"github_unavailable"} /\ UNCHANGED seen
  /\ UNCHANGED <<runtime, quiet, vars>>

ReadWindow ==
  /\ reader = "window"
  /\ reader' = "conflicts"
  /\ seen' = [seen EXCEPT !.window = WindowExists]
  /\ UNCHANGED <<conflicts, runtime, quiet, vars>>

MessageThere == seen.job.phase \in lastMessage
RateLimited == "rate limit" \in log[seen.job.phase]

\* running_job_without_tmux_window; no window is looked for on Windows.
WindowLost_AnyLog ==
  Target = "wsl" /\ Running(seen.job) /\ ~seen.window /\ ~MessageThere
WindowLost ==
  Target = "wsl" /\ Running(seen.job) /\ ~seen.window /\ ~MessageThere /\ ~RateLimited

CodexCompleted_AnyWindow == MessageThere
CodexCompleted == MessageThere /\ ~seen.window

\* detectStatusConflicts.  No process is ever recorded, so none is missed.
DetectConflicts ==
  /\ reader = "conflicts"
  /\ reader' = "runtime"
  /\ conflicts' = conflicts \cup IF WindowLost THEN {"running_job_without_tmux_window"} ELSE {}
  /\ UNCHANGED <<seen, runtime, quiet, vars>>

RuntimeState ==
  CASE conflicts \ {"github_unavailable"} # {} -> "needs_attention"
    [] conflicts \subseteq {"github_unavailable"} /\ ~Running(seen.job) -> seen.job.state
    [] OTHER -> IF CodexCompleted THEN "codex_completed"
                ELSE IF RateLimited /\ ~seen.window THEN "rate_limited_waiting"
                ELSE IF seen.window THEN "codex_running" ELSE "running"

\* jobRuntimeState looks at the files of Codex a second time.
ReportRuntime ==
  /\ reader = "runtime"
  /\ reader' = "file"
  /\ runtime' = RuntimeState
  /\ UNCHANGED <<seen, conflicts, quiet, vars>>

Reader == ReadState \/ ReadLabel \/ ReadWindow \/ DetectConflicts \/ ReportRuntime

-----------------------------------------------------------------------------
StatusNext ==
  \/ Reader
  \/ /\ Daemon \/ Crash
     /\ quiet' = FALSE
     /\ UNCHANGED <<reader, seen, conflicts, runtime>>
  \/ (Codex \/ BaseMoves \/ Rerun) /\ UNCHANGED readerVars

StatusSpec == StatusInit /\ [][StatusNext]_<<vars, readerVars>>

\* A report is on the table.
Reported == reader = "file" /\ runtime # "none"

(* Properties. *)

\* status.go:83-97, 515-527.  Status cries wolf only for a reason: labels and
\* state file differ only if the daemon was at work during the read, and a window
\* is missed only of a Codex that could not be started, although the session may
\* have ended, and the daemon gone on, between any two of the reads.
AlarmsAreReal ==
  Reported =>
    /\ "github_label_mismatch" \in conflicts => ~quiet
    /\ "running_job_without_tmux_window" \in conflicts
         => "command not found" \in log[seen.job.phase]

\* status.go:395-421, completion.go:325-337, 577.  Status and the daemon judge a
\* session alike: what was reported as completed is completed by the next poll,
\* what was reported as waiting for the rate limit is resumed by it.
NextPollAgrees ==
  Reported /\ quiet =>
    /\ runtime = "codex_completed"
         => ~WindowExists /\ file.phase \in lastMessage
    /\ runtime = "rate_limited_waiting"
         => ~WindowExists /\ file.phase \notin lastMessage /\ "rate limit" \in log[file.phase]
=============================================================================
