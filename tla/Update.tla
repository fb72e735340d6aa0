------------------------------- MODULE Update -------------------------------
(***************************************************************************)
(* Self-update (update.go, runUpdate in cli.go, the safe point of the      *)
(* daemon loop in daemon.go).  The daemon and any number of `run-weaver    *)
(* update' commands replace the same binary through the same path          *)
(* `<binary>.new', and a command asks the daemon to follow by leaving an   *)
(* update request that the daemon reads between two polls.                 *)
(***************************************************************************)
EXTENDS Integers, FiniteSets

CONSTANTS Commands,     \* `run-weaver update' processes
          Daemon,       \* the daemon process
          MaxRelease,   \* releases are 1..MaxRelease, the first is installed
          MaxUpdates,   \* bound: how often each command is typed
          MaxMishaps    \* bound: crashes and failing calls

ASSUME UpdateAssumption ==
  /\ Daemon \notin Commands
  /\ MaxRelease \in Nat \ {0}
  /\ MaxUpdates \in Nat
  /\ MaxMishaps \in Nat

Processes == Commands \cup {Daemon}
Releases == 1..MaxRelease

\* An executable on disk: the release that was last written into it from its
\* beginning, who did that, and whether all of it is there.  A file two
\* different releases were written into at once is a mixture of both.
Files == [ver : Releases, by : Processes, state : {"partial", "whole", "mixed"}]
NoFile == [ver |-> 0, by |-> Daemon, state |-> "absent"]

VARIABLES
  target,     \* "wsl" (any Unix) or "windows"
  latest,     \* the latest release on GitHub
  bin,        \* the binary
  new,        \* `<binary>.new'
  request,    \* target version of update-request.json, 0 when there is none
  pc,         \* what each process does next
  ver,        \* the release each process was started from
  found,      \* the release it saw at its last check
  writer,     \* where the file is now that it has open for writing
  script,     \* Windows: the detached `cmd' that outlives the process
  typed,      \* how often each command was typed
  mishaps,    \* crashes and failed calls so far
  overlapped, \* history: an install began while another was under way
  raced,      \* history: a release came out between the daemon's look and its clean-up
  regressed   \* history: an install put an older release over a newer one

vars == <<target, latest, bin, new, request, pc, ver, found, writer, script,
          typed, mishaps, overlapped, raced, regressed>>
files == <<bin, new, writer>>
ghosts == <<overlapped, raced, regressed>>

PCs == {"off", "checking", "requesting", "removing", "opening", "copying",
        "renaming", "execing", "polling", "clearing"}

TypeOK ==
  /\ target \in {"wsl", "windows"}
  /\ latest \in Releases
  /\ bin \in Files
  /\ new \in Files \cup {NoFile}
  /\ request \in 0..MaxRelease
  /\ pc \in [Processes -> PCs]
  /\ ver \in [Processes -> Releases]
  /\ found \in [Processes -> 0..MaxRelease]
  /\ writer \in [Processes -> {"none", "new", "bin", "unlinked"}]
  /\ script \in [Processes -> {"none", "move", "start"}]
  /\ typed \in [Commands -> 0..MaxUpdates]
  /\ mishaps \in 0..MaxMishaps
  /\ overlapped \in BOOLEAN
  /\ raced \in BOOLEAN
  /\ regressed \in BOOLEAN

Init ==
  /\ target \in {"wsl", "windows"}
  /\ latest = 1
  /\ bin = [ver |-> 1, by |-> Daemon, state |-> "whole"]
  /\ new = NoFile
  /\ request = 0
  /\ pc = [p \in Processes |-> "off"]
  /\ ver = [p \in Processes |-> 1]
  /\ found = [p \in Processes |-> 0]
  /\ writer = [p \in Processes |-> "none"]
  /\ script = [p \in Processes |-> "none"]
  /\ typed = [c \in Commands |-> 0]
  /\ mishaps = 0
  /\ overlapped = FALSE
  /\ raced = FALSE
  /\ regressed = FALSE

Open(where) == {p \in Processes : writer[p] = where}
Installing == {p \in Processes : pc[p] \in {"opening", "copying", "renaming"}
                                 \/ script[p] = "move"}
Goto(p, label) == pc' = [pc EXCEPT ![p] = label]

\* Where a process goes on when it does not restart: the daemon polls with the
\* binary it has, a command is over.
NoNews(p) == IF p = Daemon THEN "polling" ELSE "off"
GiveUp(p) == Goto(p, NoNews(p))

-----------------------------------------------------------------------------
(* Starting.  systemd restarts the daemon (Restart=always), the operator or *)
(* the logon task does on Windows.  A binary that is not whole does not run. *)

Runnable == bin.state = "whole"

Start(p) ==
  /\ pc[p] = "off" /\ script[p] = "none" /\ Runnable
  /\ Goto(p, "checking")
  /\ ver' = [ver EXCEPT ![p] = bin.ver]
  /\ found' = [found EXCEPT ![p] = 0]
  /\ UNCHANGED <<target, latest, files, request, script, mishaps, ghosts>>

StartDaemon == Start(Daemon) /\ UNCHANGED typed

\* Somebody types `run-weaver update'.
TypeUpdate(c) ==
  /\ typed[c] < MaxUpdates
  /\ typed' = [typed EXCEPT ![c] = @ + 1]
  /\ Start(c)

-----------------------------------------------------------------------------
(* The check: GET releases/latest and compare with the running version.      *)

Newer_OrSame(release, current) == release >= current
Newer(release, current) == release > current

\* A daemon asks at its start, and at a safe point when there is a request.
AtCheck(p) ==
  \/ pc[p] = "checking"
  \/ p = Daemon /\ pc[p] = "polling" /\ request # 0

AfterCheck_ClearFirst(p) ==
  CASE p = Daemon /\ pc[p] = "polling" -> "clearing"
    [] Newer(latest, ver[p]) -> IF p = Daemon THEN "removing" ELSE "requesting"
    [] OTHER -> NoNews(p)

AfterCheck_AskLast(p) ==
  CASE Newer(latest, ver[p]) -> "removing"
    [] ~Newer(latest, ver[p]) /\ p = Daemon /\ pc[p] = "polling" -> "clearing"
    [] OTHER -> NoNews(p)

\* A command that finds a newer release asks the daemon before it installs.
AfterCheck(p) ==
  CASE Newer(latest, ver[p]) -> IF p = Daemon THEN "removing" ELSE "requesting"
    [] ~Newer(latest, ver[p]) /\ p = Daemon /\ pc[p] = "polling" -> "clearing"
    [] OTHER -> NoNews(p)

CheckRelease(p) ==
  /\ AtCheck(p)
  /\ found' = [found EXCEPT ![p] = latest]
  /\ Goto(p, AfterCheck(p))
  /\ UNCHANGED <<target, latest, files, request, ver, script, typed, mishaps, ghosts>>

WriteRequest(c) ==
  /\ pc[c] = "requesting"
  /\ request' = found[c]
  /\ Goto(c, "removing")
  /\ UNCHANGED <<target, latest, files, ver, found, script, typed, mishaps, ghosts>>

ClearRequest ==
  /\ pc[Daemon] = "clearing"
  /\ request' = 0
  /\ raced' = (raced \/ found[Daemon] < latest)
  /\ Goto(Daemon, "polling")
  /\ UNCHANGED <<target, latest, files, ver, found, script, typed, mishaps, overlapped, regressed>>

-----------------------------------------------------------------------------
(* The install.  The download into a directory of its own is part of the     *)
(* first step; only what happens at `<binary>.new' is shared.                *)

\* os.Remove, its error dropped: Windows does not remove a file that is open.
RemoveNew(p) ==
  /\ pc[p] = "removing"
  /\ Goto(p, "opening")
  /\ overlapped' = (overlapped \/ Installing # {})
  /\ IF target = "windows" /\ Open("new") # {}
       THEN UNCHANGED <<new, writer>>
       ELSE /\ new' = NoFile
            /\ writer' = [q \in Processes |-> IF writer[q] = "new" THEN "unlinked" ELSE writer[q]]
  /\ UNCHANGED <<target, latest, bin, request, ver, found, script, typed, mishaps, raced, regressed>>

\* O_CREATE|O_TRUNC: a file that somebody else still writes is emptied and shared.
OpenNew_InPlace(p) ==
  /\ pc[p] = "opening"
  /\ bin' = [ver |-> found[p], by |-> p, state |-> "partial"]
  /\ writer' = [writer EXCEPT ![p] = "bin"]
  /\ Goto(p, "copying")
  /\ UNCHANGED <<target, latest, new, request, ver, found, script, typed, mishaps, ghosts>>

OpenNew(p) ==
  /\ pc[p] = "opening"
  /\ new' = [ver |-> found[p], by |-> p,
             state |-> IF \A q \in Open("new") : found[q] = found[p] THEN "partial" ELSE "mixed"]
  /\ writer' = [writer EXCEPT ![p] = "new"]
  /\ Goto(p, "copying")
  /\ UNCHANGED <<target, latest, bin, request, ver, found, script, typed, mishaps, ghosts>>

\* The file is whole when the one that emptied it last has written all of it.
Completed(f, p) == IF f.by = p /\ f.state = "partial" THEN [f EXCEPT !.state = "whole"] ELSE f

CopyEnds(p) ==
  /\ pc[p] = "copying"
  /\ bin' = IF writer[p] = "bin" THEN Completed(bin, p) ELSE bin
  /\ new' = IF writer[p] = "new" THEN Completed(new, p) ELSE new
  /\ writer' = [writer EXCEPT ![p] = "none"]
  /\ Goto(p, "renaming")
  /\ UNCHANGED <<target, latest, request, ver, found, script, typed, mishaps, ghosts>>

\* What os.Rename and `move' publish is whatever is at `<binary>.new' by then.
Publish ==
  /\ bin' = new
  /\ new' = NoFile
  /\ writer' = [q \in Processes |-> CASE writer[q] = "new" -> "bin"
                                      [] writer[q] = "bin" -> "unlinked"
                                      [] OTHER -> writer[q]]
  /\ regressed' = (regressed \/ new.ver < bin.ver)

Rename_Unchecked(p) ==
  /\ pc[p] = "renaming" /\ target = "wsl"
  /\ Goto(p, "execing") /\ Publish
  /\ UNCHANGED <<target, latest, request, ver, found, script, typed, mishaps, overlapped, raced>>

Rename(p) ==
  /\ pc[p] = "renaming" /\ target = "wsl"
  /\ IF new = NoFile
       THEN GiveUp(p) /\ UNCHANGED <<files, regressed>>
       ELSE Goto(p, "execing") /\ Publish
  /\ UNCHANGED <<target, latest, request, ver, found, script, typed, mishaps, overlapped, raced>>

\* syscall.Exec fails as long as somebody has the binary open for writing.
Exec(p) ==
  /\ pc[p] = "execing"
  /\ IF Open("bin") # {} THEN GiveUp(p) /\ UNCHANGED ver
     ELSE IF Runnable
       THEN Goto(p, "checking") /\ ver' = [ver EXCEPT ![p] = bin.ver]
       ELSE Goto(p, "off") /\ UNCHANGED ver
  /\ UNCHANGED <<target, latest, files, request, found, script, typed, mishaps, ghosts>>

-----------------------------------------------------------------------------
(* Windows: the process ends and leaves `ping & move & start' behind.        *)

Detach(p) ==
  /\ pc[p] = "renaming" /\ target = "windows"
  /\ Goto(p, "off")
  /\ script' = [script EXCEPT ![p] = "move"]
  /\ UNCHANGED <<target, latest, files, request, ver, found, typed, mishaps, ghosts>>

\* `move' needs a binary nobody runs and a new file nobody has open; `start'
\* follows whether it worked or not.
ScriptMove(p) ==
  /\ script[p] = "move"
  /\ script' = [script EXCEPT ![p] = "start"]
  /\ IF new # NoFile /\ Open("new") = {} /\ \A q \in Processes : pc[q] = "off"
       THEN Publish
       ELSE UNCHANGED <<files, regressed>>
  /\ UNCHANGED <<target, latest, request, pc, ver, found, typed, mishaps, overlapped, raced>>

ScriptStart(p) ==
  /\ script[p] = "start"
  /\ script' = [script EXCEPT ![p] = "none"]
  /\ IF Runnable
       THEN Goto(p, "checking") /\ ver' = [ver EXCEPT ![p] = bin.ver]
       ELSE UNCHANGED <<pc, ver>>
  /\ UNCHANGED <<target, latest, files, request, found, typed, mishaps, ghosts>>

-----------------------------------------------------------------------------
(* What goes wrong, and what happens outside.                                *)

\* A failing request to GitHub, download, open, copy, rename, exec or start of
\* the script; what it leaves at `<binary>.new' stays there.
CallFails(p) ==
  /\ mishaps < MaxMishaps
  /\ AtCheck(p) \/ pc[p] \in {"requesting", "removing", "opening", "copying",
                              "renaming", "execing"}
  /\ mishaps' = mishaps + 1
  /\ GiveUp(p)
  /\ writer' = [writer EXCEPT ![p] = "none"]
  /\ UNCHANGED <<target, latest, bin, new, request, ver, found, script, typed, ghosts>>

Crash(p) ==
  /\ mishaps < MaxMishaps
  /\ pc[p] # "off"
  /\ mishaps' = mishaps + 1
  /\ Goto(p, "off")
  /\ writer' = [writer EXCEPT ![p] = "none"]
  /\ UNCHANGED <<target, latest, bin, new, request, ver, found, script, typed, ghosts>>

Release ==
  /\ latest < MaxRelease
  /\ latest' = latest + 1
  /\ UNCHANGED <<target, files, request, pc, ver, found, script, typed, mishaps, ghosts>>

Install(p) == RemoveNew(p) \/ OpenNew(p) \/ CopyEnds(p) \/ Rename(p) \/ Exec(p) \/ Detach(p)
Scripts(p) == ScriptMove(p) \/ ScriptStart(p)
Step(p) == CheckRelease(p) \/ Install(p) \/ Scripts(p)

Next ==
  \/ StartDaemon \/ ClearRequest \/ Release
  \/ \E p \in Processes : Step(p) \/ CallFails(p) \/ Crash(p)
  \/ \E c \in Commands : TypeUpdate(c) \/ WriteRequest(c)

\* The service manager restarts the daemon, the ticker brings it back to its
\* safe point, and a process or script that can go on does.
Fairness ==
  /\ WF_vars(StartDaemon) /\ WF_vars(ClearRequest)
  /\ \A p \in Processes : WF_vars(Step(p))
  /\ \A c \in Commands : WF_vars(WriteRequest(c))

Spec == Init /\ [][Next]_vars /\ Fairness

-----------------------------------------------------------------------------
(* Properties.                                                               *)

\* update.go:246-257.  The binary is replaced in one piece: it is torn only when
\* two installs overlapped at `<binary>.new', and then only while the one whose
\* file the other has published still writes, or when some process died or some
\* call failed, or when the two wrote different releases into one file.
BinaryStaysWhole ==
  bin.state # "whole" =>
    /\ overlapped
    /\ Open("bin") # {} \/ mishaps > 0 \/ bin.state = "mixed"

\* update.go:149-160.  The daemon removes a request only when it runs the release
\* that was asked for, unless a release came out after its look at GitHub.
OnlyServedRequestsRemoved ==
  [][request # 0 /\ request' = 0 => ver[Daemon] >= request \/ raced']_vars

\* cli.go:84-96, docs/cli.md:385.  The daemon follows a command: on Unix, when a
\* command is about to publish a release, the daemon gets to run it (or a later
\* one), whatever overlaps or fails, unless the request was lost to that race,
\* a slower install put an older release back, or the binary is torn.
DaemonFollowsCommand ==
  \A c \in Commands, v \in Releases :
    (target = "wsl" /\ pc[c] = "renaming" /\ found[c] = v)
      ~> (ver[Daemon] >= v \/ raced \/ regressed \/ ~Runnable)

\* cli.go:64-99.  `run-weaver update' comes to an end on Unix, where it runs
\* itself again after each install.
UpdateEnds ==
  \A c \in Commands : (target = "wsl" /\ pc[c] # "off") ~> (pc[c] = "off")
=============================================================================
