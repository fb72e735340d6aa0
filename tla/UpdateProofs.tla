----------------------------- MODULE UpdateProofs -----------------------------
(***************************************************************************)
(* Proofs about self-update for any number of commands, releases, updates, *)
(* crashes and failing calls, on either target.                            *)
(***************************************************************************)
EXTENDS Update, TLAPS

LEMMA InitType == Init => TypeOK
  <1> SUFFICES ASSUME Init PROVE TypeOK
    OBVIOUS
  <1>1. 1 \in Releases /\ 0 \in 0..MaxRelease /\ 0 \in 0..MaxUpdates /\ 0 \in 0..MaxMishaps
    BY UpdateAssumption DEF Releases
  <1>2. bin \in Files /\ new = NoFile
    BY <1>1 DEF Init, Files, Processes
  <1>3. pc \in [Processes -> PCs]
    BY DEF Init, PCs
  <1>4. QED
    BY <1>1, <1>2, <1>3 DEF Init, TypeOK

(* A process goes on somewhere, and a file that is published or finished is *)
(* a file.                                                                  *)
LEMMA GotoType ==
  ASSUME TypeOK, NEW p \in Processes, NEW label \in PCs, Goto(p, label)
  PROVE  pc' \in [Processes -> PCs]
  BY DEF TypeOK, Goto

LEMMA GiveUpType ==
  ASSUME TypeOK, NEW p \in Processes, GiveUp(p)
  PROVE  pc' \in [Processes -> PCs]
  BY GotoType DEF GiveUp, NoNews, PCs

LEMMA MishapType == TypeOK /\ mishaps < MaxMishaps => mishaps + 1 \in 0..MaxMishaps
  BY UpdateAssumption DEF TypeOK

LEMMA PublishType ==
  ASSUME TypeOK, new # NoFile, Publish
  PROVE  /\ bin' \in Files /\ new' \in Files \cup {NoFile}
         /\ writer' \in [Processes -> {"none", "new", "bin", "unlinked"}]
         /\ regressed' \in BOOLEAN
  BY DEF TypeOK, Publish

LEMMA CompletedType ==
  ASSUME NEW p \in Processes
  PROVE  /\ \A f \in Files : Completed(f, p) \in Files
         /\ Completed(NoFile, p) = NoFile
  BY DEF Completed, Files, NoFile

LEMMA FoundType ==
  ASSUME TypeOK
  PROVE  latest \in 0..MaxRelease /\ 0 \in 0..MaxRelease /\ latest \in Nat
  BY UpdateAssumption DEF TypeOK, Releases

LEMMA StartType ==
  ASSUME TypeOK, NEW p \in Processes, Start(p), typed' \in [Commands -> 0..MaxUpdates]
  PROVE  TypeOK'
  <1>1. pc' \in [Processes -> PCs]
    BY GotoType DEF Start, PCs
  <1>2. ver' \in [Processes -> Releases]
    BY DEF Start, TypeOK, Files
  <1>3. found' \in [Processes -> 0..MaxRelease]
    BY FoundType DEF Start, TypeOK
  <1>4. QED
    BY <1>1, <1>2, <1>3 DEF Start, TypeOK, files, ghosts

LEMMA InstallType ==
  ASSUME TypeOK, NEW p \in Processes, pc[p] = "opening" => found[p] \in Releases, Install(p)
  PROVE  TypeOK'
  <1> USE DEF TypeOK, files, ghosts
  <1>1. CASE RemoveNew(p)
    <2>1. pc' \in [Processes -> PCs]
      BY <1>1, GotoType DEF RemoveNew, PCs
    <2>2. overlapped' \in BOOLEAN
      BY <1>1 DEF RemoveNew
    <2>3. new' \in Files \cup {NoFile} /\ writer' \in [Processes -> {"none", "new", "bin", "unlinked"}]
      BY <1>1 DEF RemoveNew
    <2>4. QED
      BY <1>1, <2>1, <2>2, <2>3 DEF RemoveNew
  <1>2. CASE OpenNew(p)
    <2>1. pc' \in [Processes -> PCs]
      BY <1>2, GotoType DEF OpenNew, PCs
    <2>2. new' \in Files
      BY <1>2 DEF OpenNew, Files
    <2>3. QED
      BY <1>2, <2>1, <2>2 DEF OpenNew
  <1>3. CASE CopyEnds(p)
    <2>1. pc' \in [Processes -> PCs]
      BY <1>3, GotoType DEF CopyEnds, PCs
    <2>2. bin' \in Files /\ new' \in Files \cup {NoFile}
      BY <1>3, CompletedType DEF CopyEnds
    <2>3. QED
      BY <1>3, <2>1, <2>2 DEF CopyEnds
  <1>4. CASE Rename(p)
    <2>1. CASE new = NoFile
      BY <1>4, <2>1, GiveUpType DEF Rename
    <2>2. CASE new # NoFile
      <3>1. pc' \in [Processes -> PCs]
        BY <1>4, <2>2, GotoType DEF Rename, PCs
      <3>2. QED
        BY <1>4, <2>2, <3>1, PublishType DEF Rename
    <2>3. QED
      BY <2>1, <2>2
  <1>5. CASE Exec(p)
    <2>1. pc' \in [Processes -> PCs]
      BY <1>5, GotoType, GiveUpType DEF Exec, PCs
    <2>2. ver' \in [Processes -> Releases]
      BY <1>5 DEF Exec, Files
    <2>3. QED
      BY <1>5, <2>1, <2>2 DEF Exec
  <1>6. CASE Detach(p)
    <2>1. pc' \in [Processes -> PCs]
      BY <1>6, GotoType DEF Detach, PCs
    <2>2. QED
      BY <1>6, <2>1 DEF Detach
  <1>7. QED
    BY <1>1, <1>2, <1>3, <1>4, <1>5, <1>6 DEF Install

LEMMA ScriptsType ==
  ASSUME TypeOK, NEW p \in Processes, Scripts(p)
  PROVE  TypeOK'
  <1> USE DEF TypeOK, files, ghosts
  <1>1. CASE ScriptMove(p)
    <2>1. CASE new # NoFile /\ Publish
      BY <1>1, <2>1, PublishType DEF ScriptMove
    <2>2. CASE UNCHANGED <<files, regressed>>
      BY <1>1, <2>2 DEF ScriptMove
    <2>3. QED
      BY <1>1, <2>1, <2>2 DEF ScriptMove
  <1>2. CASE ScriptStart(p)
    <2>1. pc' \in [Processes -> PCs] /\ ver' \in [Processes -> Releases]
      BY <1>2, GotoType DEF ScriptStart, PCs, Files
    <2>2. QED
      BY <1>2, <2>1 DEF ScriptStart
  <1>3. QED
    BY <1>1, <1>2 DEF Scripts

LEMMA FaultType ==
  ASSUME TypeOK, NEW p \in Processes, CallFails(p) \/ Crash(p)
  PROVE  TypeOK'
  <1>1. pc' \in [Processes -> PCs]
    BY GotoType, GiveUpType DEF CallFails, Crash, PCs
  <1>2. mishaps' \in 0..MaxMishaps
    BY MishapType DEF CallFails, Crash
  <1>3. QED
    BY <1>1, <1>2 DEF CallFails, Crash, TypeOK, ghosts

LEMMA CheckType ==
  ASSUME TypeOK, NEW p \in Processes, CheckRelease(p)
  PROVE  TypeOK'
  <1>1. pc' \in [Processes -> PCs]
    BY GotoType DEF CheckRelease, AfterCheck, NoNews, PCs
  <1>2. found' \in [Processes -> 0..MaxRelease]
    BY FoundType DEF CheckRelease, TypeOK
  <1>3. QED
    BY <1>1, <1>2 DEF CheckRelease, TypeOK, files, ghosts

LEMMA RequestType ==
  ASSUME TypeOK, ClearRequest \/ Release \/ \E c \in Commands : WriteRequest(c)
  PROVE  TypeOK'
  <1> USE DEF TypeOK, files, ghosts
  <1>1. CASE ClearRequest
    <2>1. pc' \in [Processes -> PCs] /\ request' \in 0..MaxRelease
      BY <1>1, GotoType, FoundType DEF ClearRequest, PCs, Processes
    <2>2. raced' \in BOOLEAN
      BY <1>1 DEF ClearRequest
    <2>3. QED
      BY <1>1, <2>1, <2>2 DEF ClearRequest
  <1>2. CASE Release
    BY <1>2, UpdateAssumption DEF Release, Releases
  <1>3. ASSUME NEW c \in Commands, WriteRequest(c) PROVE TypeOK'
    <2>1. pc' \in [Processes -> PCs] /\ request' \in 0..MaxRelease
      BY <1>3, GotoType DEF WriteRequest, PCs, Processes
    <2>2. QED
      BY <1>3, <2>1 DEF WriteRequest
  <1>4. QED
    BY <1>1, <1>2, <1>3

(* A process that asks, installs or cleans up has looked at GitHub.         *)
Looked ==
  \A p \in Processes :
    pc[p] \in {"requesting", "removing", "opening", "copying", "renaming", "clearing"}
      => found[p] \in Releases

LEMMA TypeStep == TypeOK /\ Looked /\ [Next]_vars => TypeOK'
  <1> SUFFICES ASSUME TypeOK, Looked, [Next]_vars PROVE TypeOK'
    OBVIOUS
  <1>1. CASE StartDaemon
    BY <1>1, StartType DEF StartDaemon, Processes, TypeOK
  <1>2. CASE ClearRequest \/ Release
    BY <1>2, RequestType
  <1>3. ASSUME NEW p \in Processes, Step(p) PROVE TypeOK'
    BY <1>3, CheckType, InstallType, ScriptsType DEF Step, Looked
  <1>4. ASSUME NEW p \in Processes, CallFails(p) \/ Crash(p) PROVE TypeOK'
    BY <1>4, FaultType
  <1>5. ASSUME NEW c \in Commands, TypeUpdate(c) PROVE TypeOK'
    <2>1. typed' \in [Commands -> 0..MaxUpdates]
      BY <1>5, UpdateAssumption DEF TypeUpdate, TypeOK
    <2>2. QED
      BY <1>5, <2>1, StartType DEF TypeUpdate, Processes
  <1>6. ASSUME NEW c \in Commands, WriteRequest(c) PROVE TypeOK'
    BY <1>6, RequestType
  <1>7. CASE UNCHANGED vars
    BY <1>7 DEF vars, TypeOK, files, ghosts
  <1>8. QED
    BY <1>1, <1>2, <1>3, <1>4, <1>5, <1>6, <1>7 DEF Next

LEMMA LookedStep == TypeOK /\ Looked /\ [Next]_vars => Looked'
  <1> SUFFICES ASSUME TypeOK, Looked, [Next]_vars PROVE Looked'
    OBVIOUS
  <1> USE DEF TypeOK, Looked, Goto, GiveUp, NoNews
  <1>1. CASE StartDaemon \/ \E c \in Commands : TypeUpdate(c)
    BY <1>1 DEF StartDaemon, TypeUpdate, Start
  <1>2. CASE ClearRequest \/ Release
    BY <1>2 DEF ClearRequest, Release
  <1>3. ASSUME NEW p \in Processes, CheckRelease(p) PROVE Looked'
    BY <1>3 DEF CheckRelease
  <1>4. ASSUME NEW p \in Processes, Install(p) PROVE Looked'
    BY <1>4 DEF Install, RemoveNew, OpenNew, CopyEnds, Rename, Exec, Detach
  <1>5. ASSUME NEW p \in Processes, Scripts(p) \/ CallFails(p) \/ Crash(p) PROVE Looked'
    BY <1>5 DEF Scripts, ScriptMove, ScriptStart, CallFails, Crash
  <1>6. ASSUME NEW c \in Commands, WriteRequest(c) PROVE Looked'
    BY <1>6 DEF WriteRequest
  <1>7. CASE UNCHANGED vars
    BY <1>7 DEF vars
  <1>8. QED
    BY <1>1, <1>2, <1>3, <1>4, <1>5, <1>6, <1>7 DEF Next, Step

LEMMA InitLooked == Init => Looked
  BY DEF Init, Looked

(* Files, releases and processes keep their types.                          *)
THEOREM TypeCorrect == Spec => []TypeOK
  BY InitType, InitLooked, TypeStep, LookedStep, PTL DEF Spec

-----------------------------------------------------------------------------
(* Requests.                                                                 *)

(* Nobody knows of a release that is not out, and the daemon only cleans up *)
(* when it runs what it has found.                                          *)
OutAlready == request <= latest /\ \A p \in Processes : found[p] <= latest
UpToDate == pc[Daemon] = "clearing" => found[Daemon] <= ver[Daemon]
Served == OutAlready /\ UpToDate

LEMMA InitServed == Init => Served
  BY DEF Init, Served, OutAlready, UpToDate, Processes

LEMMA ServedStep == TypeOK /\ Served /\ [Next]_vars => Served'
  <1> SUFFICES ASSUME TypeOK, Served, [Next]_vars PROVE Served'
    OBVIOUS
  <1>0. Daemon \in Processes /\ latest \in Nat /\ latest' >= latest
    <2>1. latest \in Nat
      BY UpdateAssumption DEF TypeOK, Releases
    <2>2. latest' = latest \/ latest' = latest + 1
      BY DEF Next, StartDaemon, TypeUpdate, Start, ClearRequest, Release, Step, CheckRelease, Install,
             RemoveNew, OpenNew, CopyEnds, Rename, Exec, Detach, Scripts, ScriptMove, ScriptStart,
             CallFails, Crash, WriteRequest, vars
    <2>3. QED
      BY <2>1, <2>2 DEF Processes
  <1> USE <1>0 DEF TypeOK, Served, OutAlready, UpToDate, Goto, GiveUp, NoNews, Releases
  <1>1. CASE StartDaemon \/ \E c \in Commands : TypeUpdate(c)
    BY <1>1 DEF StartDaemon, TypeUpdate, Start, Processes
  <1>2. CASE ClearRequest
    BY <1>2 DEF ClearRequest
  <1>3. CASE Release
    BY <1>3 DEF Release
  <1>4. ASSUME NEW p \in Processes, CheckRelease(p) PROVE Served'
    BY <1>4 DEF CheckRelease, AfterCheck, Newer
  <1>5. ASSUME NEW p \in Processes, Install(p) PROVE Served'
    BY <1>5 DEF Install, RemoveNew, OpenNew, CopyEnds, Rename, Exec, Detach
  <1>6. ASSUME NEW p \in Processes, Scripts(p) \/ CallFails(p) \/ Crash(p) PROVE Served'
    BY <1>6 DEF Scripts, ScriptMove, ScriptStart, CallFails, Crash
  <1>7. ASSUME NEW c \in Commands, WriteRequest(c) PROVE Served'
    BY <1>7 DEF WriteRequest, Processes
  <1>8. CASE UNCHANGED vars
    BY <1>8 DEF vars
  <1>9. QED
    BY <1>1, <1>2, <1>3, <1>4, <1>5, <1>6, <1>7, <1>8 DEF Next, Step

(* Of the actions only the daemon's clean-up takes a request away.          *)
LEMMA OnlyClearRemoves ==
  ASSUME TypeOK, Looked, [Next]_vars, request # 0, request' = 0
  PROVE  ClearRequest
  <1>1. ASSUME NEW c \in Commands, WriteRequest(c) PROVE FALSE
    BY <1>1 DEF WriteRequest, Looked, Processes, Releases
  <1>2. QED
    BY <1>1 DEF Next, StartDaemon, TypeUpdate, Start, Release, Step, CheckRelease, Install, RemoveNew,
           OpenNew, CopyEnds, Rename, Exec, Detach, Scripts, ScriptMove, ScriptStart, CallFails,
           Crash, vars

(* The daemon removes a request only when it runs the release that was      *)
(* asked for, unless a release came out after its look.                     *)
THEOREM RequestsAreServed == Spec => OnlyServedRequestsRemoved
  <1>1. TypeOK /\ Looked /\ Served /\ [Next]_vars
          => [request # 0 /\ request' = 0 => ver[Daemon] >= request \/ raced']_vars
    <2> SUFFICES ASSUME TypeOK, Looked, Served, [Next]_vars, request # 0, request' = 0
                 PROVE  ver[Daemon] >= request \/ raced'
      OBVIOUS
    <2>1. ClearRequest
      BY OnlyClearRemoves
    <2>2. request \in Nat /\ latest \in Nat /\ found[Daemon] \in Nat /\ ver[Daemon] \in Nat
      BY UpdateAssumption DEF TypeOK, Releases, Processes
    <2>3. CASE found[Daemon] < latest
      BY <2>1, <2>3 DEF ClearRequest
    <2>4. CASE ~(found[Daemon] < latest)
      BY <2>1, <2>2, <2>4 DEF ClearRequest, Served, OutAlready, UpToDate
    <2>5. QED
      BY <2>3, <2>4
  <1>2. QED
    BY InitType, InitLooked, InitServed, TypeStep, LookedStep, ServedStep, <1>1, PTL
       DEF Spec, OnlyServedRequestsRemoved

-----------------------------------------------------------------------------
(* The binary.                                                               *)

(* Who has a file open is copying; a script outlives its process.           *)
WriterCopies == \A p \in Processes : writer[p] # "none" <=> pc[p] = "copying"
ScriptOutlives == \A p \in Processes : script[p] # "none" => pc[p] = "off"
InStep == WriterCopies /\ ScriptOutlives

LEMMA InitInStep == Init => InStep
  BY DEF Init, InStep, WriterCopies, ScriptOutlives

LEMMA PublishKeepsOpen ==
  ASSUME TypeOK, Publish
  PROVE  \A q \in Processes : writer'[q] # "none" <=> writer[q] # "none"
  BY DEF Publish, TypeOK

LEMMA InStepStep == TypeOK /\ InStep /\ [Next]_vars => InStep'
  <1> SUFFICES ASSUME TypeOK, InStep, [Next]_vars PROVE InStep'
    OBVIOUS
  <1> USE DEF TypeOK, InStep, WriterCopies, ScriptOutlives, Goto, GiveUp, NoNews, files
  <1>1. CASE StartDaemon \/ \E c \in Commands : TypeUpdate(c)
    BY <1>1 DEF StartDaemon, TypeUpdate, Start
  <1>2. CASE ClearRequest \/ Release
    BY <1>2 DEF ClearRequest, Release
  <1>3. ASSUME NEW p \in Processes, CheckRelease(p) PROVE InStep'
    BY <1>3 DEF CheckRelease, AtCheck, AfterCheck
  <1>4. ASSUME NEW p \in Processes, RemoveNew(p) \/ OpenNew(p) \/ CopyEnds(p) PROVE InStep'
    BY <1>4 DEF RemoveNew, OpenNew, CopyEnds
  <1>5. ASSUME NEW p \in Processes, Rename(p) PROVE InStep'
    BY <1>5, PublishKeepsOpen DEF Rename
  <1>6. ASSUME NEW p \in Processes, Exec(p) \/ Detach(p) PROVE InStep'
    BY <1>6 DEF Exec, Detach
  <1>7. ASSUME NEW p \in Processes, ScriptMove(p) PROVE InStep'
    BY <1>7, PublishKeepsOpen DEF ScriptMove
  <1>8. ASSUME NEW p \in Processes, ScriptStart(p) PROVE InStep'
    BY <1>8 DEF ScriptStart
  <1>9. ASSUME NEW p \in Processes, CallFails(p) \/ Crash(p) PROVE InStep'
    BY <1>9 DEF CallFails, Crash, AtCheck
  <1>10. ASSUME NEW c \in Commands, WriteRequest(c) PROVE InStep'
    BY <1>10 DEF WriteRequest
  <1>11. CASE UNCHANGED vars
    BY <1>11 DEF vars
  <1>12. QED
    BY <1>1, <1>2, <1>3, <1>4, <1>5, <1>6, <1>7, <1>8, <1>9, <1>10, <1>11
       DEF Next, Step, Install, Scripts

(* As long as nothing failed, who emptied a file that is not complete is    *)
(* still writing it, wherever it has been moved.                            *)
PartialIsWritten ==
  mishaps = 0 =>
    /\ bin.state = "partial" => writer[bin.by] = "bin"
    /\ new.state = "partial" => writer[new.by] = "new"

LEMMA InitPartial == Init => PartialIsWritten
  BY DEF Init, PartialIsWritten, NoFile

LEMMA ByType == TypeOK => bin.by \in Processes /\ new.by \in Processes
  BY DEF TypeOK, Files, NoFile, Processes

LEMMA PublishPartial ==
  ASSUME TypeOK, PartialIsWritten, Publish, mishaps' = mishaps
  PROVE  PartialIsWritten'
  BY ByType DEF TypeOK, PartialIsWritten, Publish, NoFile

LEMMA PartialStep == TypeOK /\ InStep /\ PartialIsWritten /\ [Next]_vars => PartialIsWritten'
  <1> SUFFICES ASSUME TypeOK, InStep, PartialIsWritten, [Next]_vars PROVE PartialIsWritten'
    OBVIOUS
  <1>1. CASE UNCHANGED <<files, mishaps>>
    BY <1>1 DEF PartialIsWritten, files
  <1>2. ASSUME NEW p \in Processes, RemoveNew(p) PROVE PartialIsWritten'
    BY <1>2, ByType DEF RemoveNew, PartialIsWritten, TypeOK, NoFile
  <1>3. ASSUME NEW p \in Processes, OpenNew(p) PROVE PartialIsWritten'
    <2>1. writer[p] = "none"
      BY <1>3 DEF OpenNew, InStep, WriterCopies
    <2>2. new'.by = p /\ writer'[p] = "new"
      BY <1>3 DEF OpenNew, TypeOK
    <2>3. mishaps = 0 /\ bin.state = "partial" => writer'[bin.by] = "bin"
      BY <1>3, <2>1, ByType DEF OpenNew, PartialIsWritten, TypeOK
    <2>4. QED
      BY <1>3, <2>2, <2>3 DEF OpenNew, PartialIsWritten
  <1>4. ASSUME NEW p \in Processes, CopyEnds(p) PROVE PartialIsWritten'
    <2>1. mishaps = 0 /\ bin'.state = "partial" => writer'[bin'.by] = "bin"
      BY <1>4, ByType DEF CopyEnds, Completed, PartialIsWritten, TypeOK, Files
    <2>2. mishaps = 0 /\ new'.state = "partial" => writer'[new'.by] = "new"
      BY <1>4, ByType DEF CopyEnds, Completed, PartialIsWritten, TypeOK, Files, NoFile
    <2>3. QED
      BY <1>4, <2>1, <2>2 DEF CopyEnds, PartialIsWritten
  <1>5. ASSUME NEW p \in Processes, Rename(p) \/ ScriptMove(p) PROVE PartialIsWritten'
    BY <1>1, <1>5, PublishPartial DEF Rename, ScriptMove
  <1>6. ASSUME NEW p \in Processes, CallFails(p) \/ Crash(p) PROVE PartialIsWritten'
    BY <1>6, UpdateAssumption DEF CallFails, Crash, PartialIsWritten, TypeOK
  <1>7. QED
    BY <1>1, <1>2, <1>3, <1>4, <1>5, <1>6
       DEF Next, StartDaemon, TypeUpdate, Start, ClearRequest, Release, Step, CheckRelease, Install,
           Exec, Detach, Scripts, ScriptStart, WriteRequest, vars, files

(* While no two installs have overlapped there is one at most, the new file *)
(* is its own, and it is published whole.                                   *)
OneInstall == \A p, q \in Installing : p = q
Opening(p) == pc[p] = "opening" => new = NoFile
Copying(p) == pc[p] = "copying" => writer[p] = "new" /\ new.by = p /\ new.state = "partial"
Holding(p) == pc[p] = "renaming" \/ script[p] = "move" => new.state = "whole"
InTurn ==
  ~overlapped =>
    /\ OneInstall
    /\ \A p \in Processes : Opening(p) /\ Copying(p) /\ Holding(p)
    /\ bin.state = "whole"

LEMMA InitInTurn == Init => InTurn
  BY DEF Init, InTurn, OneInstall, Installing, Opening, Copying, Holding

(* An install that began by itself goes on by itself.                       *)
LEMMA OthersIdle ==
  ASSUME TypeOK, InStep, InTurn, ~overlapped, NEW p \in Installing
  PROVE  /\ \A q \in Processes \ {p} : /\ pc[q] \notin {"opening", "copying", "renaming"}
                                       /\ script[q] # "move"
                                       /\ writer[q] = "none"
  BY DEF InStep, WriterCopies, InTurn, OneInstall, Installing

(* Steps that touch no file and begin no install.                           *)
LEMMA InTurnKept ==
  ASSUME InTurn, UNCHANGED <<bin, new, overlapped>>,
         \A p \in Processes : writer'[p] = writer[p] \/ pc'[p] # "copying",
         \A p \in Processes : /\ pc'[p] = pc[p] \/ pc'[p] \notin {"opening", "copying", "renaming"}
                              /\ script'[p] = script[p] \/ script'[p] # "move"
  PROVE  InTurn'
  <1> USE DEF InTurn, OneInstall, Installing, Opening, Copying, Holding
  <1>1. Installing' \subseteq Installing
    OBVIOUS
  <1>2. QED
    BY <1>1

LEMMA InTurnRemove ==
  ASSUME TypeOK, InStep, InTurn, NEW p \in Processes, RemoveNew(p)
  PROVE  InTurn'
  <1> SUFFICES ASSUME ~overlapped' PROVE InTurn'
    BY DEF InTurn
  <1>1. ~overlapped /\ Installing = {}
    BY DEF RemoveNew
  <1>2. /\ pc' = [pc EXCEPT ![p] = "opening"] /\ UNCHANGED <<bin, script>>
        /\ \A q \in Processes : /\ pc[q] \notin {"opening", "copying", "renaming"}
                                /\ script[q] # "move" /\ writer[q] = "none"
    BY <1>1 DEF RemoveNew, Goto, Installing, InStep, WriterCopies
  <1>3. new' = NoFile
    BY <1>2 DEF RemoveNew, Open
  <1>4. \A q \in Processes :
          q # p => pc'[q] \notin {"opening", "copying", "renaming"} /\ script'[q] # "move"
    BY <1>2 DEF TypeOK
  <1>5. pc'[p] = "opening" /\ script'[p] # "move"
    BY <1>2 DEF TypeOK
  <1>6. bin'.state = "whole"
    BY <1>1, <1>2 DEF InTurn
  <1>7. QED
    BY <1>3, <1>4, <1>5, <1>6 DEF InTurn, OneInstall, Installing, Opening, Copying, Holding

LEMMA InTurnOpen ==
  ASSUME TypeOK, InStep, InTurn, NEW p \in Processes, OpenNew(p)
  PROVE  InTurn'
  <1> SUFFICES ASSUME ~overlapped PROVE InTurn'
    BY DEF OpenNew, InTurn, ghosts
  <1>1. p \in Installing
    BY DEF OpenNew, Installing
  <1>2. \A q \in Processes \ {p} : /\ pc[q] \notin {"opening", "copying", "renaming"}
                                   /\ script[q] # "move" /\ writer[q] = "none"
    BY <1>1, OthersIdle
  <1>3. writer[p] = "none" /\ script[p] = "none"
    BY DEF OpenNew, InStep, WriterCopies, ScriptOutlives
  <1>4. Open("new") = {}
    BY <1>2, <1>3 DEF Open
  <1>5. new'.by = p /\ new'.state = "partial" /\ writer'[p] = "new"
    BY <1>4 DEF OpenNew, TypeOK
  <1>6. pc'[p] = "copying" /\ script' = script /\ bin'.state = "whole"
    BY DEF OpenNew, Goto, TypeOK, InTurn
  <1>7. \A q \in Processes \ {p} : pc'[q] = pc[q]
    BY DEF OpenNew, Goto, TypeOK
  <1>8. QED
    BY <1>2, <1>3, <1>5, <1>6, <1>7 DEF InTurn, OneInstall, Installing, Opening, Copying, Holding

LEMMA InTurnCopy ==
  ASSUME TypeOK, InStep, InTurn, NEW p \in Processes, CopyEnds(p)
  PROVE  InTurn'
  <1> SUFFICES ASSUME ~overlapped PROVE InTurn'
    BY DEF CopyEnds, InTurn, ghosts
  <1>1. p \in Installing /\ writer[p] = "new" /\ new.by = p /\ new.state = "partial"
    BY DEF CopyEnds, Installing, InTurn, Copying
  <1>2. \A q \in Processes \ {p} : /\ pc[q] \notin {"opening", "copying", "renaming"}
                                   /\ script[q] # "move"
    BY <1>1, OthersIdle
  <1>3. script[p] = "none"
    BY DEF CopyEnds, InStep, ScriptOutlives
  <1>4. new \in Files
    BY <1>1 DEF TypeOK, NoFile
  <1>5. new'.state = "whole"
    BY <1>1, <1>4 DEF CopyEnds, Completed, Files
  <1>6. pc'[p] = "renaming" /\ script' = script /\ bin'.state = "whole"
    BY <1>1 DEF CopyEnds, Goto, TypeOK, InTurn
  <1>7. \A q \in Processes \ {p} : pc'[q] = pc[q]
    BY DEF CopyEnds, Goto, TypeOK
  <1>8. QED
    BY <1>2, <1>3, <1>5, <1>6, <1>7 DEF InTurn, OneInstall, Installing, Opening, Copying, Holding

(* What is published in turn is whole, and then nobody installs.            *)
LEMMA InTurnPublish ==
  ASSUME TypeOK, InStep, InTurn, NEW p \in Processes, Publish,
         pc[p] = "renaming" \/ script[p] = "move", UNCHANGED overlapped,
         pc'[p] \notin {"opening", "copying", "renaming"}, script'[p] # "move",
         \A q \in Processes \ {p} : pc'[q] = pc[q] /\ script'[q] = script[q]
  PROVE  InTurn'
  <1> SUFFICES ASSUME ~overlapped PROVE InTurn'
    BY DEF InTurn
  <1>1. p \in Installing /\ new.state = "whole"
    BY DEF Installing, InTurn, Holding
  <1>2. \A q \in Processes \ {p} : /\ pc[q] \notin {"opening", "copying", "renaming"}
                                   /\ script[q] # "move"
    BY <1>1, OthersIdle
  <1>3. \A q \in Processes : /\ pc'[q] \notin {"opening", "copying", "renaming"}
                             /\ script'[q] # "move"
    BY <1>2
  <1>4. bin'.state = "whole"
    BY <1>1 DEF Publish
  <1>5. QED
    BY <1>3, <1>4 DEF InTurn, OneInstall, Installing, Opening, Copying, Holding

LEMMA InTurnRename ==
  ASSUME TypeOK, InStep, InTurn, NEW p \in Processes, Rename(p)
  PROVE  InTurn'
  <1>1. pc'[p] \notin {"opening", "copying", "renaming"} /\ script' = script
    BY DEF Rename, Goto, GiveUp, NoNews, TypeOK
  <1>2. script[p] = "none" /\ UNCHANGED overlapped
    BY DEF Rename, InStep, ScriptOutlives
  <1>3. \A q \in Processes \ {p} : pc'[q] = pc[q]
    BY DEF Rename, Goto, GiveUp, TypeOK
  <1>4. CASE Publish
    BY <1>1, <1>2, <1>3, <1>4, InTurnPublish DEF Rename
  <1>5. CASE UNCHANGED files
    BY <1>1, <1>2, <1>3, <1>5, InTurnKept DEF files
  <1>6. QED
    BY <1>4, <1>5 DEF Rename

LEMMA InTurnScript ==
  ASSUME TypeOK, InStep, InTurn, NEW p \in Processes, ScriptMove(p)
  PROVE  InTurn'
  <1>1. UNCHANGED <<pc, overlapped>> /\ pc[p] = "off"
    BY DEF ScriptMove, InStep, ScriptOutlives
  <1>2. script'[p] = "start" /\ \A q \in Processes \ {p} : script'[q] = script[q]
    BY DEF ScriptMove, TypeOK
  <1>3. CASE Publish
    BY <1>1, <1>2, <1>3, InTurnPublish DEF ScriptMove
  <1>4. CASE UNCHANGED files
    BY <1>1, <1>2, <1>4, InTurnKept DEF files
  <1>5. QED
    BY <1>3, <1>4 DEF ScriptMove

LEMMA InTurnDetach ==
  ASSUME TypeOK, InStep, InTurn, NEW p \in Processes, Detach(p)
  PROVE  InTurn'
  <1>1. pc'[p] = "off" /\ script'[p] = "move" /\ pc[p] = "renaming"
    BY DEF Detach, Goto, TypeOK
  <1>2. \A q \in Processes \ {p} : pc'[q] = pc[q] /\ script'[q] = script[q]
    BY DEF Detach, Goto, TypeOK
  <1>3. UNCHANGED <<bin, new, writer, overlapped>>
    BY DEF Detach, files, ghosts
  <1>4. Installing' = Installing
    BY <1>1, <1>2 DEF Installing
  <1>5. QED
    BY <1>1, <1>2, <1>3, <1>4 DEF InTurn, OneInstall, Installing, Opening, Copying, Holding

LEMMA InTurnStep == TypeOK /\ InStep /\ InTurn /\ [Next]_vars => InTurn'
  <1> SUFFICES ASSUME TypeOK, InStep, InTurn, [Next]_vars PROVE InTurn'
    OBVIOUS
  <1> USE DEF TypeOK, Goto, GiveUp, NoNews, files, ghosts
  <1>1. CASE StartDaemon \/ \E c \in Commands : TypeUpdate(c)
    BY <1>1, InTurnKept DEF StartDaemon, TypeUpdate, Start
  <1>2. CASE ClearRequest \/ Release
    BY <1>2, InTurnKept DEF ClearRequest, Release
  <1>3. ASSUME NEW p \in Processes, CheckRelease(p) PROVE InTurn'
    BY <1>3, InTurnKept DEF CheckRelease, AfterCheck
  <1>4. ASSUME NEW p \in Processes, Install(p) PROVE InTurn'
    <2>1. CASE Exec(p)
      BY <2>1, InTurnKept DEF Exec
    <2>2. QED
      BY <1>4, <2>1, InTurnRemove, InTurnOpen, InTurnCopy, InTurnRename, InTurnDetach DEF Install
  <1>5. ASSUME NEW p \in Processes, Scripts(p) PROVE InTurn'
    <2>1. CASE ScriptStart(p)
      BY <2>1, InTurnKept DEF ScriptStart
    <2>2. QED
      BY <1>5, <2>1, InTurnScript DEF Scripts
  <1>6. ASSUME NEW p \in Processes, CallFails(p) \/ Crash(p) PROVE InTurn'
    BY <1>6, InTurnKept DEF CallFails, Crash
  <1>7. ASSUME NEW c \in Commands, WriteRequest(c) PROVE InTurn'
    BY <1>7, InTurnKept DEF WriteRequest
  <1>8. CASE UNCHANGED vars
    BY <1>8, InTurnKept DEF vars
  <1>9. QED
    BY <1>1, <1>2, <1>3, <1>4, <1>5, <1>6, <1>7, <1>8 DEF Next, Step

(* The binary is torn only when installs overlapped, and then only while    *)
(* somebody writes it, after a failure, or as a mixture of two releases.    *)
THEOREM BinaryIsReplacedWhole == Spec => []BinaryStaysWhole
  <1>1. TypeOK /\ InTurn /\ PartialIsWritten => BinaryStaysWhole
    <2> SUFFICES ASSUME TypeOK, InTurn, PartialIsWritten, bin.state # "whole"
                 PROVE  overlapped /\ (Open("bin") # {} \/ mishaps > 0 \/ bin.state = "mixed")
      BY DEF BinaryStaysWhole
    <2>1. bin.state \in {"partial", "mixed"} /\ mishaps \in Nat
      BY UpdateAssumption DEF TypeOK, Files
    <2>2. mishaps = 0 /\ bin.state = "partial" => bin.by \in Open("bin")
      BY ByType DEF PartialIsWritten, Open
    <2>3. QED
      BY <2>1, <2>2 DEF InTurn
  <1>2. QED
    BY InitType, InitLooked, InitInStep, InitInTurn, InitPartial, TypeStep, LookedStep, InStepStep,
       InTurnStep, PartialStep, <1>1, PTL DEF Spec
=============================================================================
