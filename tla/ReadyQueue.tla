------------------------------ MODULE ReadyQueue ------------------------------
(***************************************************************************)
(* Which regular issue a daemon takes next (src/internal/cli/queue.go and  *)
(* its use in daemon.go): the listed issues are looked at in the order of  *)
(* their numbers; an issue may name others it depends on, waits until they *)
(* are done, and is then stacked on the branch of the last one it names.   *)
(*                                                                         *)
(* One action looks at one issue and at the issues it depends on. Between  *)
(* two of them another agent of the repository and the people who write    *)
(* the issues go on.  The claim and the job are one step each here; they   *)
(* are the subject of Claim and IssueJob.                                  *)
(***************************************************************************)
EXTENDS Naturals, Sequences, SequencesExt

CONSTANTS N,          \* the issues are numbered 1..N
          Numbers,    \* the numbers that people write into an issue
          MaxEdits,   \* bound: edits that change what an issue depends on
          MaxMishaps  \* bound: GitHub calls that fail once

ASSUME NAssumption == N \in Nat \ {0}
ASSUME NumbersAssumption == Numbers \subseteq Nat
ASSUME BoundsAssumption == MaxEdits \in Nat /\ MaxMishaps \in Nat

Issues == 1..N
None == 0

(* A number that gh cannot view: no issue has it, or it was deleted.        *)
Viewable(number) == number \in Issues

VARIABLES label,     \* of each issue: its managed label, or "ready"
          mentions,  \* what each issue names as its dependencies, in order
          told,      \* issues with a readable completion comment
          job,       \* the state file: the issue that runs here
          completed, \* the state file's completedIssues
          stack,     \* the dependencies each issue was last selected with
          pc, listed, candidate,   \* the poll
          edits, mishaps

githubVars == <<label, mentions, told>>
fileVars == <<job, completed>>
pollVars == <<pc, listed, candidate, stack>>
vars == <<githubVars, fileVars, pollVars, edits, mishaps>>

(* extractDependencyNumbers: the numbers in the order of the text, each     *)
(* once (two at most here), or a wording of dependence without a number.    *)
NumberLists == {<<>>} \cup {<<d>> : d \in Numbers}
               \cup {s \in Numbers \X Numbers : s[1] # s[2]}
Mentions == [numbers: NumberLists, ambiguous: {FALSE}]
            \cup {[numbers |-> <<>>, ambiguous |-> TRUE]}

Labels == {"ready", "running", "done", "blocked"}

TypeOK ==
    /\ label \in [Issues -> Labels]
    /\ mentions \in [Issues -> Mentions]
    /\ told \subseteq Issues
    /\ job \in Issues \cup {None}
    /\ completed \subseteq Issues
    /\ stack \in [Issues -> Seq(Issues)]
    /\ pc \in {"idle", "select", "claim"}
    /\ listed \subseteq Issues
    /\ candidate \in Issues \cup {None}
    /\ edits \in Nat /\ mishaps \in Nat

Init ==
    /\ label = [i \in Issues |-> "ready"]
    /\ mentions \in [Issues -> Mentions]
    /\ told = {}
    /\ job = None
    /\ completed = {}
    /\ stack = [i \in Issues |-> <<>>]
    /\ pc = "idle" /\ listed = {} /\ candidate = None
    /\ edits = 0 /\ mishaps = 0

-----------------------------------------------------------------------------
(* Operators of the code *)

(* The dependency has no `done' label.                                      *)
Undone(d) == label[d] # "done"

(* completedIssueForNumber, else completedIssueFromComments: the branch and *)
(* the pull request of the dependency can be told.                          *)
Resolvable(d) == d \in completed \cup told

(* Variants with a defect: a number without an issue is passed over; an     *)
(* open dependency is.                                                      *)
Fine_PassesUnviewable(d) == ~Viewable(d) \/ (~Undone(d) /\ Resolvable(d))
Fine_PassesOpen(d) == Viewable(d)

Fine(d) == Viewable(d) /\ ~Undone(d) /\ Resolvable(d)

(* Variant with a defect: only the dependency that gives the base counts. *)
Verdict_LastOnly(i) ==
    IF mentions[i].ambiguous THEN "blocked"
    ELSE IF mentions[i].numbers = <<>> \/ Fine(Last(mentions[i].numbers)) THEN "ready"
    ELSE "waiting"

(* detectIssueDependencies and resolveIssueDependencies: the first          *)
(* dependency that is not fine decides.                                     *)
Verdict(i) ==
    LET numbers == mentions[i].numbers
        bad == {k \in DOMAIN numbers : ~Fine(numbers[k])}
        first == numbers[Min(bad)]
    IN  IF mentions[i].ambiguous THEN "blocked"
        ELSE IF bad = {} THEN "ready"
        ELSE IF ~Viewable(first) THEN "error"
        ELSE IF Undone(first) THEN "waiting"
        ELSE "blocked"

-----------------------------------------------------------------------------
(* One poll *)

(* A running job is waited for; otherwise ListReadyIssues.                  *)
ListReadyIssues ==
    /\ pc = "idle" /\ job = None
    /\ listed' = {i \in Issues : label[i] = "ready"}
    /\ listed' # {}
    /\ pc' = "select"
    /\ UNCHANGED <<githubVars, fileVars, candidate, stack, edits, mishaps>>

(* The listed issue with the lowest number.                                 *)
NextListed(i) == i \in listed /\ \A j \in listed : i <= j

EndPoll == pc' = "idle" /\ listed' = {} /\ candidate' = None

(* Variant with a defect: the first issue that is not ready ends the search. *)
LookOn_Stops(i) == EndPoll

(* The search goes on behind issue i, if any is left.                       *)
LookOn(i) ==
    IF listed = {i} THEN EndPoll
    ELSE listed' = listed \ {i} /\ UNCHANGED <<pc, candidate>>

(* One round of selectReadyIssue. An error of a GitHub call ends the poll:  *)
(* processOneIssue drops it and reports that there is no executable issue.  *)
(* What is marked blocked is the issue as it is now, whatever it was when   *)
(* it was listed.                                                           *)
LookAt(i) ==
    /\ pc = "select" /\ NextListed(i)
    /\ \/ /\ Verdict(i) = "ready"
          /\ pc' = "claim" /\ candidate' = i
          /\ stack' = [stack EXCEPT ![i] = mentions[i].numbers]
          /\ UNCHANGED <<label, listed, mishaps>>
       \/ Verdict(i) = "waiting" /\ LookOn(i) /\ UNCHANGED <<label, stack, mishaps>>
       \/ /\ Verdict(i) = "blocked"
          /\ label' = [label EXCEPT ![i] = "blocked"]
          /\ LookOn(i)
          /\ UNCHANGED <<stack, mishaps>>
       \/ Verdict(i) = "error" /\ EndPoll /\ UNCHANGED <<label, stack, mishaps>>
       \/ /\ mishaps < MaxMishaps /\ mishaps' = mishaps + 1
          /\ EndPoll
          /\ UNCHANGED <<label, stack>>
    /\ UNCHANGED <<mentions, told, fileVars, edits>>

(* claimIssue looks at the labels again, not at the dependencies.           *)
ClaimAndStart ==
    /\ pc = "claim"
    /\ IF label[candidate] = "ready"
       THEN label' = [label EXCEPT ![candidate] = "running"] /\ job' = candidate
       ELSE UNCHANGED <<label, job>>
    /\ EndPoll
    /\ UNCHANGED <<mentions, told, completed, stack, edits, mishaps>>

(* The job of this daemon ends with a draft pull request: markDone writes   *)
(* its branch and URL into a comment, recordCompletedIssue into the file.   *)
CompleteJob ==
    /\ pc = "idle" /\ job # None
    /\ label' = [label EXCEPT ![job] = "done"]
    /\ told' = told \cup {job}
    /\ completed' = completed \cup {job}
    /\ job' = None
    /\ UNCHANGED <<mentions, pollVars, edits, mishaps>>

BlockJob ==
    /\ pc = "idle" /\ job # None
    /\ label' = [label EXCEPT ![job] = "blocked"]
    /\ job' = None
    /\ UNCHANGED <<mentions, told, completed, pollVars, edits, mishaps>>

-----------------------------------------------------------------------------
(* Others (external) *)

(* Another agent of the repository works on issue i and leaves its comment. *)
OtherAgent(i) ==
    /\ \/ /\ label[i] = "ready" /\ Verdict(i) = "ready"
          /\ label' = [label EXCEPT ![i] = "running"]
          /\ UNCHANGED told
       \/ /\ label[i] = "running" /\ job # i
          /\ \/ label' = [label EXCEPT ![i] = "done"] /\ told' = told \cup {i}
             \/ label' = [label EXCEPT ![i] = "blocked"] /\ UNCHANGED told
    /\ UNCHANGED <<mentions, fileVars, pollVars, edits, mishaps>>

(* People change what a waiting issue depends on, do an issue themselves,   *)
(* or hand a blocked one back.                                              *)
People(i) ==
    /\ edits < MaxEdits /\ edits' = edits + 1
    /\ \/ /\ label[i] = "ready"
          /\ \E m \in Mentions : mentions' = [mentions EXCEPT ![i] = m]
          /\ UNCHANGED label
       \/ /\ \/ label[i] = "ready" /\ label' = [label EXCEPT ![i] = "done"]
             \/ label[i] = "blocked" /\ label' = [label EXCEPT ![i] = "ready"]
          /\ UNCHANGED mentions
    /\ UNCHANGED <<told, fileVars, pollVars, mishaps>>

Poll == ListReadyIssues \/ \E i \in Issues : LookAt(i) \/ ClaimAndStart
Job == CompleteJob \/ BlockJob

Next == Poll \/ Job \/ \E i \in Issues : OtherAgent(i) \/ People(i)

Spec == Init /\ [][Next]_vars

(* The daemon polls and its jobs end.                                       *)
FairSpec == Spec /\ WF_vars(Poll) /\ WF_vars(Job)

-----------------------------------------------------------------------------
(* The issues an issue was stacked on when it was started here are done and *)
(* their pull requests known, although they are looked at one by one, other *)
(* agents go on meanwhile, and the claim does not look at them again        *)
(* (queue.go:159-184).                                                      *)
Here == completed \cup ({job} \ {None})
StackedOnFinished ==
    \A i \in Here : \A d \in ToSet(stack[i]) :
        Viewable(d) /\ label[d] = "done" /\ Resolvable(d)

(* Following the branches that the issues finished here were stacked on     *)
(* leads to the default branch: there is no circle of pull requests.        *)
Under(i) == IF stack[i] = <<>> THEN {} ELSE {Last(stack[i])} \cap completed
StacksEnd ==
    \A ring \in (SUBSET completed) \ {{}} : \E i \in ring : Under(i) \cap ring = {}

(* Issues that wait or cannot be started do not hold up an issue with a     *)
(* higher number: one that can be executed is, sooner or later, unless a    *)
(* number in a lower one cannot be viewed (queue.go:36-87).                 *)
Executable(i) == label[i] = "ready" /\ Verdict(i) = "ready"
Derailed(i) == \E j \in Issues : j < i /\ label[j] = "ready" /\ Verdict(j) = "error"
ExecutableIsTaken == \A i \in Issues : []<>(~Executable(i) \/ Derailed(i))
=============================================================================
