-------------------------- MODULE RepositoriesProofs --------------------------
(***************************************************************************)
(* Proofs about the registered repositories and the daemon loop: for any   *)
(* set of repositories, any number of commands and any number of crashes,  *)
(* restarts and killed tmux servers.                                       *)
(***************************************************************************)
EXTENDS Repositories, TLAPS

LEMMA InitType == Init => TypeOK
  <1> SUFFICES ASSUME Init PROVE TypeOK
    OBVIOUS
  <1>1. initial \subseteq Repos /\ file \in Files
    BY RepositoriesAssumption DEF Init, Files, Ready
  <1>2. mishaps \in 0..MaxMishaps
    BY RepositoriesAssumption DEF Init
  <1>3. QED
    BY <1>1, <1>2 DEF Init, TypeOK

(* A command reads and writes lists of repositories.                        *)
LEMMA CommandType ==
  ASSUME TypeOK, NEW c \in Commands, TypeCommand(c) \/ Command(c) \/ CommandDies(c)
  PROVE  TypeOK'
  <1> USE DEF TypeOK, CommandGoto, daemonVars
  <1>1. CASE TypeCommand(c)
    BY <1>1 DEF TypeCommand, Changes
  <1>2. CASE ReadConfig(c)
    BY <1>2 DEF ReadConfig, Files
  <1>3. CASE TruncateConfig(c)
    BY <1>3 DEF TruncateConfig, Torn, Files
  <1>4. CASE WriteConfig(c)
    <2>1. Changed(c) \subseteq Repos
      BY DEF Changed, Changes
    <2>2. file' \in Files
      BY <1>4, <2>1 DEF WriteConfig, Ready, Torn, Files
    <2>3. QED
      BY <1>4, <2>2 DEF WriteConfig
  <1>5. CASE CommandDies(c)
    BY <1>5, RepositoriesAssumption DEF CommandDies
  <1>6. QED
    BY <1>1, <1>2, <1>3, <1>4, <1>5 DEF Command

LEMMA ListType == TypeOK => ListOfRound \subseteq Repos
  BY DEF TypeOK, ListOfRound, Files

LEMMA LoopType ==
  ASSUME TypeOK, Loop \/ RestartForUpdate \/ CrashDaemon \/ KillServer
  PROVE  TypeOK'
  <1> USE DEF TypeOK, commandVars
  <1>1. CASE StartDaemon
    BY <1>1 DEF StartDaemon, Files
  <1>2. CASE SafePoint
    BY <1>2 DEF SafePoint
  <1>3. CASE StartRound
    BY <1>3, ListType DEF StartRound
  <1>4. CASE EndRound
    BY <1>4 DEF EndRound
  <1>5. CASE RestartForUpdate
    BY <1>5, RepositoriesAssumption DEF RestartForUpdate
  <1>6. CASE CrashDaemon
    BY <1>6, RepositoriesAssumption DEF CrashDaemon
  <1>7. CASE KillServer
    <2>1. session' \in BOOLEAN /\ killed' \in BOOLEAN
      BY <1>7 DEF KillServer
    <2>2. mishaps' \in 0..MaxMishaps
      BY <1>7, RepositoriesAssumption DEF KillServer
    <2>3. QED
      BY <1>7, <2>1, <2>2 DEF KillServer
  <1>8. QED
    BY <1>1, <1>2, <1>3, <1>4, <1>5, <1>6, <1>7 DEF Loop

LEMMA GoroutineType ==
  ASSUME TypeOK, NEW r \in Repos, Goroutine(r)
  PROVE  TypeOK'
  <1> USE DEF TypeOK, GoTo, commandVars
  <1>1. CASE Poll(r)
    BY <1>1 DEF Poll
  <1>2. CASE HasSession(r)
    BY <1>2 DEF HasSession
  <1>3. CASE NewSession(r)
    BY <1>3 DEF NewSession
  <1>4. CASE HasSessionAgain(r)
    BY <1>4 DEF HasSessionAgain
  <1>5. QED
    BY <1>1, <1>2, <1>3, <1>4 DEF Goroutine

LEMMA TypeStep == TypeOK /\ [Next]_vars => TypeOK'
  <1> SUFFICES ASSUME TypeOK, [Next]_vars PROVE TypeOK'
    OBVIOUS
  <1>1. CASE Loop \/ RestartForUpdate \/ CrashDaemon \/ KillServer
    BY <1>1, LoopType
  <1>2. CASE \E r \in Repos : Goroutine(r)
    BY <1>2, GoroutineType
  <1>3. CASE \E c \in Commands : TypeCommand(c) \/ Command(c) \/ CommandDies(c)
    BY <1>3, CommandType
  <1>4. CASE UNCHANGED vars
    BY <1>4 DEF vars, TypeOK
  <1>5. QED
    BY <1>1, <1>2, <1>3, <1>4 DEF Next

(* Lists, loop, goroutines and commands keep their types.                   *)
THEOREM TypeCorrect == Spec => []TypeOK
  BY InitType, TypeStep, PTL DEF Spec

(* The daemon writes nothing of the commands', nor they of the daemon's.    *)
LEMMA DaemonLeavesCommands ==
  ASSUME Loop \/ RestartForUpdate \/ CrashDaemon \/ KillServer \/ \E r \in Repos : Goroutine(r)
  PROVE  UNCHANGED commandVars
  BY DEF Loop, StartDaemon, SafePoint, StartRound, EndRound, RestartForUpdate, CrashDaemon,
         KillServer, Goroutine, Poll, HasSession, NewSession, HasSessionAgain

LEMMA CommandsLeaveDaemon ==
  ASSUME NEW c \in Commands, TypeCommand(c) \/ Command(c) \/ CommandDies(c)
  PROVE  UNCHANGED daemonVars
  BY DEF TypeCommand, Command, ReadConfig, TruncateConfig, WriteConfig, CommandDies

-----------------------------------------------------------------------------
(* Commands.                                                                 *)

(* What a command has read, and so what it will write, has every repository *)
(* that no command was typed for; without a file there was none.            *)
TypedIsTouched == \A c \in Commands : cmd[c] # "untyped" => change[c].repo \in touched
MemoryHasUntouched ==
  \A c \in Commands : cmd[c] \in {"truncating", "writing"} => (initial \ touched) \subseteq mem[c]
AbsentIsEmpty == file.state = "absent" => initial = {}
Kept == TypedIsTouched /\ MemoryHasUntouched /\ AbsentIsEmpty /\ UntouchedSurvive

LEMMA InitKept == Init => Kept
  BY DEF Init, Kept, TypedIsTouched, MemoryHasUntouched, AbsentIsEmpty, UntouchedSurvive, Ready

LEMMA KeptStep == TypeOK /\ Kept /\ [Next]_vars => Kept'
  <1> SUFFICES ASSUME TypeOK, Kept, [Next]_vars PROVE Kept'
    OBVIOUS
  <1> USE DEF Kept, TypedIsTouched, MemoryHasUntouched, AbsentIsEmpty, UntouchedSurvive
  <1>1. ASSUME NEW c \in Commands, TypeCommand(c) PROVE Kept'
    BY <1>1 DEF TypeCommand, CommandGoto, TypeOK
  <1>2. ASSUME NEW c \in Commands, ReadConfig(c) PROVE Kept'
    <2>1. CASE Readable(c) /\ ~NothingToDo(c)
      <3>1. (initial \ touched) \subseteq file.repos
        <4>1. CASE file.state = "ready"
          BY <4>1
        <4>2. CASE file.state = "absent"
          BY <4>2
        <4>3. QED
          BY <2>1, <4>1, <4>2 DEF Readable
      <3>2. QED
        BY <1>2, <2>1, <3>1 DEF ReadConfig, CommandGoto, TypeOK
    <2>2. CASE ~(Readable(c) /\ ~NothingToDo(c))
      BY <1>2, <2>2 DEF ReadConfig, CommandGoto, TypeOK
    <2>3. QED
      BY <2>1, <2>2
  <1>3. ASSUME NEW c \in Commands, TruncateConfig(c) PROVE Kept'
    BY <1>3 DEF TruncateConfig, CommandGoto, Torn, TypeOK
  <1>4. ASSUME NEW c \in Commands, WriteConfig(c) PROVE Kept'
    <2>1. (initial \ touched) \subseteq Changed(c)
      BY <1>4 DEF WriteConfig, Changed
    <2>2. file' = Ready(Changed(c)) \/ file' = Torn
      BY <1>4 DEF WriteConfig
    <2>3. AbsentIsEmpty' /\ UntouchedSurvive'
      BY <1>4, <2>1, <2>2 DEF WriteConfig, Ready, Torn
    <2>4. QED
      BY <1>4, <2>3 DEF WriteConfig, CommandGoto, TypeOK
  <1>5. ASSUME NEW c \in Commands, CommandDies(c) PROVE Kept'
    BY <1>5 DEF CommandDies, CommandGoto, TypeOK
  <1>6. CASE UNCHANGED commandVars
    BY <1>6 DEF commandVars
  <1>7. QED
    BY <1>1, <1>2, <1>3, <1>4, <1>5, <1>6, DaemonLeavesCommands DEF Next, Command, vars, commandVars

(* No command, however many overlap, die or tear the file, ever loses a     *)
(* repository that none of them was typed for.                              *)
THEOREM NobodyElseIsLost == Spec => []UntouchedSurvive
  <1>1. Kept => UntouchedSurvive
    BY DEF Kept
  <1>2. QED
    BY InitType, TypeStep, InitKept, KeptStep, <1>1, PTL DEF Spec

(* While one command writes alone the file is as it truncated it.           *)
WritersOverlap ==
  \A c, d \in Commands : cmd[c] = "writing" /\ cmd[d] = "writing" /\ c # d => overlapped
WriterHasTruncated ==
  \A c \in Commands : cmd[c] = "writing" => file.state = "torn" \/ overlapped
Truncated == WritersOverlap /\ WriterHasTruncated /\ TornOnlyByOverlap

LEMMA InitTruncated == Init => Truncated
  BY DEF Init, Truncated, WritersOverlap, WriterHasTruncated, TornOnlyByOverlap, Ready

LEMMA TruncatedStep == TypeOK /\ Truncated /\ [Next]_vars => Truncated'
  <1> SUFFICES ASSUME TypeOK, Truncated, [Next]_vars PROVE Truncated'
    OBVIOUS
  <1> USE DEF Truncated, WritersOverlap, WriterHasTruncated, TornOnlyByOverlap, Quiet
  <1>1. ASSUME NEW c \in Commands, TypeCommand(c) \/ ReadConfig(c) PROVE Truncated'
    BY <1>1 DEF TypeCommand, ReadConfig, CommandGoto, TypeOK
  <1>2. ASSUME NEW c \in Commands, TruncateConfig(c) PROVE Truncated'
    BY <1>2 DEF TruncateConfig, CommandGoto, Torn, TypeOK
  <1>3. ASSUME NEW c \in Commands, WriteConfig(c) PROVE Truncated'
    BY <1>3 DEF WriteConfig, CommandGoto, Ready, Torn, TypeOK
  <1>4. ASSUME NEW c \in Commands, CommandDies(c) PROVE Truncated'
    BY <1>4 DEF CommandDies, CommandGoto, TypeOK
  <1>5. CASE UNCHANGED commandVars
    BY <1>5 DEF commandVars
  <1>6. QED
    BY <1>1, <1>2, <1>3, <1>4, <1>5, DaemonLeavesCommands DEF Next, Command, vars, commandVars

(* A file that does not parse, with nobody writing, is the work of two that *)
(* wrote at once or of one that died.                                       *)
THEOREM TornIsExplained == Spec => []TornOnlyByOverlap
  <1>1. Truncated => TornOnlyByOverlap
    BY DEF Truncated
  <1>2. QED
    BY InitType, TypeStep, InitTruncated, TruncatedStep, <1>1, PTL DEF Spec

-----------------------------------------------------------------------------
(* The daemon.                                                               *)

(* During a round only repositories of its list are polled.                 *)
RoundIsListed == loop = "round" => \A r \in Repos : Busy(r) => r \in current
DownIsIdle == loop = "down" => \A r \in Repos : ~Busy(r)
Resting == RoundIsListed /\ DownIsIdle /\ SafePointIsSafe

LEMMA InitResting == Init => Resting
  BY DEF Init, Resting, RoundIsListed, DownIsIdle, SafePointIsSafe, Busy

LEMMA RestingStep == TypeOK /\ Resting /\ [Next]_vars => Resting'
  <1> SUFFICES ASSUME TypeOK, Resting, [Next]_vars PROVE Resting'
    OBVIOUS
  <1> USE DEF Resting, RoundIsListed, DownIsIdle, SafePointIsSafe, Busy
  <1>1. CASE StartDaemon \/ SafePoint \/ RestartForUpdate
    BY <1>1 DEF StartDaemon, SafePoint, RestartForUpdate
  <1>2. CASE StartRound
    BY <1>2 DEF StartRound, TypeOK
  <1>3. CASE EndRound \/ CrashDaemon
    BY <1>3 DEF EndRound, CrashDaemon
  <1>4. ASSUME NEW r \in Repos, Goroutine(r) PROVE Resting'
    <2>1. Busy(r) /\ UNCHANGED <<loop, current>> /\ \E label : GoTo(r, label)
      BY <1>4 DEF Goroutine, Poll, HasSession, NewSession, HasSessionAgain
    <2>2. loop = "round" /\ r \in current
      BY <2>1 DEF TypeOK
    <2>3. QED
      BY <2>1, <2>2 DEF GoTo, TypeOK
  <1>5. CASE UNCHANGED <<loop, current, go>>
    BY <1>5
  <1>6. QED
    BY <1>1, <1>2, <1>3, <1>4, <1>5, CommandsLeaveDaemon DEF Next, Loop, KillServer, vars, daemonVars

(* The daemon replaces itself, and begins a round, with no poll under way.  *)
THEOREM RestartsAtRest == Spec => []SafePointIsSafe
  <1>1. Resting => SafePointIsSafe
    BY DEF Resting
  <1>2. QED
    BY InitType, TypeStep, InitResting, RestingStep, <1>1, PTL DEF Spec

(* Who lost the race for the session finds the winner's.                    *)
LoserHasSession == \A r \in Repos : go[r] = "again" => session \/ killed
Shared == LoserHasSession /\ SessionRaceIsHarmless

LEMMA InitShared == Init => Shared
  BY DEF Init, Shared, LoserHasSession, SessionRaceIsHarmless

LEMMA SharedStep == TypeOK /\ Shared /\ [Next]_vars => Shared'
  <1> SUFFICES ASSUME TypeOK, Shared, [Next]_vars PROVE Shared'
    OBVIOUS
  <1> USE DEF Shared, LoserHasSession, SessionRaceIsHarmless
  <1>1. CASE Loop \/ RestartForUpdate \/ CrashDaemon
    BY <1>1 DEF Loop, StartDaemon, SafePoint, StartRound, EndRound, RestartForUpdate, CrashDaemon
  <1>2. CASE KillServer
    BY <1>2 DEF KillServer
  <1>3. ASSUME NEW r \in Repos, Goroutine(r) PROVE Shared'
    BY <1>3 DEF Goroutine, Poll, HasSession, NewSession, HasSessionAgain, GoTo, TypeOK
  <1>4. CASE UNCHANGED daemonVars
    BY <1>4 DEF daemonVars
  <1>5. QED
    BY <1>1, <1>2, <1>3, <1>4, CommandsLeaveDaemon DEF Next, vars, daemonVars

(* For any number of repositories that start Codex at the same time, none   *)
(* fails for want of the session they share unless somebody kills it.       *)
THEOREM SessionIsShared == Spec => []SessionRaceIsHarmless
  <1>1. Shared => SessionRaceIsHarmless
    BY DEF Shared
  <1>2. QED
    BY InitType, TypeStep, InitShared, SharedStep, <1>1, PTL DEF Spec
=============================================================================
