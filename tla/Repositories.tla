---------------------------- MODULE Repositories ----------------------------
(***************************************************************************)
(* The registered repositories (repo_config.go, repo.go) and the daemon    *)
(* loop over them (runDaemon in cli.go, runMultiRepoDaemonLoop in          *)
(* daemon.go).  Commands read, change and rewrite repos.json without a     *)
(* lock; the daemon reads it before each round and polls every repository  *)
(* in a goroutine of its own.  The goroutines share one tmux session.      *)
(***************************************************************************)
EXTENDS Integers, FiniteSets

CONSTANTS Repos,       \* repositories that may be registered
          Registered,  \* those that are at first, unless there is no repos.json yet
          Commands,    \* `run-weaver repo add', `repo remove' and `install'
          MaxMishaps   \* bound: crashes, restarts and killed tmux servers

ASSUME RepositoriesAssumption ==
  /\ Registered \subseteq Repos
  /\ MaxMishaps \in Nat

VARIABLES
  initial,    \* the list the model starts with
  file,       \* repos.json: whether it is there and parses, and what it lists
  cmd,        \* what each command does next
  change,     \* what each command was typed for
  mem,        \* the list each command has read
  loop,       \* where the daemon loop is
  started,    \* the list the daemon was started with
  current,    \* the list of its present round
  go,         \* the goroutine of each repository
  session,    \* whether the tmux session exists
  mishaps,
  touched,    \* history: repositories some command was typed for
  overlapped, \* history: two commands were between truncating and writing at once
  broken,     \* history: a command died between truncating and writing
  killed,     \* history: the tmux server was killed
  refused     \* history: a Codex start failed for want of a session

vars == <<initial, file, cmd, change, mem, loop, started, current, go, session, mishaps,
          touched, overlapped, broken, killed, refused>>
commandVars == <<initial, file, cmd, change, mem, touched, overlapped, broken>>
daemonVars == <<loop, started, current, go, session, killed, refused>>

Changes == [kind : {"add", "remove"}, repo : Repos]
Files == [state : {"absent", "torn", "ready"}, repos : SUBSET Repos]
Ready(repos) == [state |-> "ready", repos |-> repos]
Torn == [state |-> "torn", repos |-> {}]

TypeOK ==
  /\ initial \subseteq Repos
  /\ file \in Files
  /\ cmd \in [Commands -> {"untyped", "reading", "truncating", "writing", "over"}]
  /\ change \in [Commands -> Changes]
  /\ mem \in [Commands -> SUBSET Repos]
  /\ loop \in {"down", "safe_point", "reading", "round", "restarting"}
  /\ started \subseteq Repos
  /\ loop # "down" => started # {}
  /\ current \subseteq Repos
  /\ go \in [Repos -> {"idle", "polling", "has", "new", "again", "ended"}]
  /\ session \in BOOLEAN
  /\ mishaps \in 0..MaxMishaps
  /\ touched \subseteq Repos
  /\ overlapped \in BOOLEAN /\ broken \in BOOLEAN
  /\ killed \in BOOLEAN /\ refused \in BOOLEAN

Init ==
  /\ initial \in {{}, Registered}
  /\ file = IF initial = {} THEN [state |-> "absent", repos |-> {}] ELSE Ready(initial)
  /\ cmd = [c \in Commands |-> "untyped"]
  /\ change \in [Commands -> Changes]
  /\ mem = [c \in Commands |-> {}]
  /\ loop = "down"
  /\ started = {}
  /\ current = {}
  /\ go = [r \in Repos |-> "idle"]
  /\ session = FALSE
  /\ mishaps = 0
  /\ touched = {}
  /\ overlapped = FALSE
  /\ broken = FALSE
  /\ killed = FALSE
  /\ refused = FALSE

-----------------------------------------------------------------------------
(* Commands.                                                                 *)

CommandGoto(c, label) == cmd' = [cmd EXCEPT ![c] = label]

TypeCommand(c) ==
  /\ cmd[c] = "untyped"
  /\ CommandGoto(c, "reading")
  /\ touched' = touched \cup {change[c].repo}
  /\ UNCHANGED <<initial, file, change, mem, overlapped, broken, mishaps, daemonVars>>

\* The list a command goes on with: only `add' starts one of its own, and only
\* when there is no file; a file that does not parse ends both.
Readable_OrNew(c) ==
  file.state = "ready" \/ change[c].kind = "add"
Readable(c) ==
  file.state = "ready" \/ (file.state = "absent" /\ change[c].kind = "add")

\* `remove' of a repository that is not listed writes nothing.
NothingToDo(c) == change[c].kind = "remove" /\ change[c].repo \notin file.repos

ReadConfig(c) ==
  /\ cmd[c] = "reading"
  /\ IF Readable(c) /\ ~NothingToDo(c)
       THEN CommandGoto(c, "truncating") /\ mem' = [mem EXCEPT ![c] = file.repos]
       ELSE CommandGoto(c, "over") /\ UNCHANGED mem
  /\ UNCHANGED <<initial, file, change, touched, overlapped, broken, mishaps, daemonVars>>

Changed(c) ==
  IF change[c].kind = "add" THEN mem[c] \cup {change[c].repo} ELSE mem[c] \ {change[c].repo}

\* os.WriteFile empties the file, then writes.
TruncateConfig_InPlace(c) ==
  /\ cmd[c] = "truncating"
  /\ CommandGoto(c, "writing")
  /\ UNCHANGED <<initial, file, change, mem, touched, overlapped, broken, mishaps, daemonVars>>

TruncateConfig(c) ==
  /\ cmd[c] = "truncating"
  /\ file' = Torn
  /\ CommandGoto(c, "writing")
  /\ overlapped' = (overlapped \/ \E d \in Commands \ {c} : cmd[d] = "writing")
  /\ UNCHANGED <<initial, change, mem, touched, broken, mishaps, daemonVars>>

\* Over a text that another command has written meanwhile only as much is
\* overwritten as the own text is long, and what is left behind it may not parse:
\* even the same repositories can have another text (Doppler mode, AddedAt).
WriteConfig(c) ==
  /\ cmd[c] = "writing"
  /\ CommandGoto(c, "over")
  /\ \/ file' = Ready(Changed(c))
     \/ file.state = "ready" /\ file' = Torn
  /\ UNCHANGED <<initial, change, mem, touched, overlapped, broken, mishaps, daemonVars>>

\* The command is killed, or its WriteFile fails, on a full disk for instance.
CommandDies(c) ==
  /\ mishaps < MaxMishaps
  /\ cmd[c] \in {"truncating", "writing"}
  /\ mishaps' = mishaps + 1
  /\ CommandGoto(c, "over")
  /\ broken' = (broken \/ cmd[c] = "writing")
  /\ UNCHANGED <<initial, file, change, mem, touched, overlapped, daemonVars>>

-----------------------------------------------------------------------------
(* The daemon.                                                               *)

\* Without a readable, non-empty list the process looks for a repository of its
\* own, which the service has not got, and exits.
StartDaemon_AnyList ==
  /\ loop \in {"down", "restarting"}
  /\ file.state = "ready"
  /\ loop' = "safe_point"
  /\ started' = file.repos
  /\ UNCHANGED <<current, go, session, killed, refused, mishaps, commandVars>>

StartDaemon ==
  /\ loop \in {"down", "restarting"}
  /\ file.state = "ready" /\ file.repos # {}
  /\ loop' = "safe_point"
  /\ started' = file.repos
  /\ UNCHANGED <<current, go, session, killed, refused, mishaps, commandVars>>

SafePoint ==
  /\ loop = "safe_point"
  /\ loop' = "reading"
  /\ UNCHANGED <<started, current, go, session, killed, refused, mishaps, commandVars>>

\* An update request is served: the process replaces itself.
RestartForUpdate ==
  /\ loop = "safe_point" /\ mishaps < MaxMishaps
  /\ mishaps' = mishaps + 1
  /\ loop' = "restarting"
  /\ UNCHANGED <<started, current, go, session, killed, refused, commandVars>>

\* A list that cannot be read is replaced by the one of the start.
ListOfRound_AsStarted == started
ListOfRound_AsRead == file.repos
ListOfRound == IF file.state = "ready" THEN file.repos ELSE started

StartRound ==
  /\ loop = "reading"
  /\ current' = ListOfRound
  /\ go' = [r \in Repos |-> IF r \in ListOfRound THEN "polling" ELSE go[r]]
  /\ loop' = "round"
  /\ UNCHANGED <<started, session, killed, refused, mishaps, commandVars>>

\* wg.Wait, then the ticker.
EndRound_Unwaited ==
  /\ loop = "round"
  /\ loop' = "safe_point"
  /\ UNCHANGED <<started, current, go, session, killed, refused, mishaps, commandVars>>

EndRound ==
  /\ loop = "round"
  /\ \A r \in current : go[r] = "ended"
  /\ go' = [r \in Repos |-> "idle"]
  /\ loop' = "safe_point"
  /\ UNCHANGED <<started, current, session, killed, refused, mishaps, commandVars>>

CrashDaemon ==
  /\ loop # "down" /\ mishaps < MaxMishaps
  /\ mishaps' = mishaps + 1
  /\ loop' = "down"
  /\ go' = [r \in Repos |-> "idle"]
  /\ UNCHANGED <<started, current, session, killed, refused, commandVars>>

-----------------------------------------------------------------------------
(* The goroutine of one repository: a poll that starts Codex or does not.    *)

GoTo(r, label) == go' = [go EXCEPT ![r] = label]

Poll(r) ==
  /\ go[r] = "polling"
  /\ GoTo(r, "ended") \/ GoTo(r, "has")
  /\ UNCHANGED <<loop, started, current, session, killed, refused, mishaps, commandVars>>

HasSession(r) ==
  /\ go[r] = "has"
  /\ GoTo(r, IF session THEN "ended" ELSE "new")
  /\ UNCHANGED <<loop, started, current, session, killed, refused, mishaps, commandVars>>

NewSession_Once(r) ==
  /\ go[r] = "new"
  /\ GoTo(r, "ended")
  /\ session' = TRUE
  /\ refused' = (refused \/ session)
  /\ UNCHANGED <<loop, started, current, killed, mishaps, commandVars>>

\* tmux refuses a second session of the same name.
NewSession(r) ==
  /\ go[r] = "new"
  /\ GoTo(r, IF session THEN "again" ELSE "ended")
  /\ session' = TRUE
  /\ UNCHANGED <<loop, started, current, killed, refused, mishaps, commandVars>>

HasSessionAgain(r) ==
  /\ go[r] = "again"
  /\ GoTo(r, "ended")
  /\ refused' = (refused \/ ~session)
  /\ UNCHANGED <<loop, started, current, session, killed, mishaps, commandVars>>

KillServer ==
  /\ session /\ mishaps < MaxMishaps
  /\ mishaps' = mishaps + 1
  /\ session' = FALSE
  /\ killed' = TRUE
  /\ UNCHANGED <<loop, started, current, go, refused, commandVars>>

Goroutine(r) == Poll(r) \/ HasSession(r) \/ NewSession(r) \/ HasSessionAgain(r)
Loop == StartDaemon \/ SafePoint \/ StartRound \/ EndRound
Command(c) == ReadConfig(c) \/ TruncateConfig(c) \/ WriteConfig(c)

Next ==
  \/ Loop \/ RestartForUpdate \/ CrashDaemon \/ KillServer
  \/ \E r \in Repos : Goroutine(r)
  \/ \E c \in Commands : TypeCommand(c) \/ Command(c) \/ CommandDies(c)

\* The loop and its goroutines go on, the service is restarted (by systemd; the
\* Windows task starts at a logon only), and a command that was typed comes to its
\* end.  A poll that hangs in a call to git or GitHub, which have no timeouts, would
\* hold up the round and all the other repositories.
Fairness ==
  /\ WF_vars(Loop)
  /\ \A r \in Repos : WF_vars(Goroutine(r))
  /\ \A c \in Commands : WF_vars(Command(c))

Spec == Init /\ [][Next]_vars /\ Fairness

-----------------------------------------------------------------------------
(* Properties.                                                               *)

Busy(r) == go[r] \in {"polling", "has", "new", "again"}
Quiet == \A c \in Commands : cmd[c] # "writing"

\* repo_config.go:83-144.  However commands overlap, a repos.json that parses
\* has every repository that none of them was typed for.
UntouchedSurvive ==
  file.state = "ready" => (initial \ touched) \subseteq file.repos

\* repo_config.go:70-81.  When no command is writing, repos.json parses, unless
\* two commands wrote at the same time or one died or failed while it wrote.
TornOnlyByOverlap ==
  Quiet /\ file.state = "torn" => overlapped \/ broken

\* daemon.go:62-106.  The daemon is at its safe point, where it may replace
\* itself, and begins a new round only when no repository is being polled.
SafePointIsSafe ==
  loop \in {"safe_point", "reading", "restarting"} => \A r \in Repos : ~Busy(r)

\* runner.go:116-127.  Repositories that start Codex at the same time do not fail
\* for want of the shared tmux session, unless somebody kills the server.
SessionRaceIsHarmless == refused => killed

\* daemon.go:69-73, docs/github-issue-flow.md:13.  A repository that stays
\* registered is polled again and again, one that was removed for good is left
\* alone, without a restart of the daemon.
DaemonFollowsConfig ==
  \A r \in Repos :
    /\ <>[](file.state = "ready" /\ r \in file.repos) => []<>(go[r] = "polling")
    /\ <>[](file.state = "ready" /\ r \notin file.repos) => <>[](go[r] = "idle")

\* daemon.go:69-72.  A daemon that runs keeps to the repositories it was started
\* with when repos.json stays unreadable.
DaemonOutlivesTornConfig ==
  \A r \in Repos :
    <>[](file.state = "torn" /\ loop \notin {"down", "restarting"} /\ r \in started)
      => []<>(go[r] = "polling")
=============================================================================
