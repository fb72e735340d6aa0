-------------------------------- MODULE Claim --------------------------------
(***************************************************************************)
(* The claim protocol of run-weaver (src/internal/cli/claim.go): several   *)
(* daemons ("agents", e.g. the WSL and the Windows target of one           *)
(* repository) poll the same GitHub issue and agree, through labels and    *)
(* comments only, on who works on it.  One action is one GitHub API call,  *)
(* so the calls of different agents interleave.  The protocol ends in the  *)
(* work of the winner, which later replaces the `running' label by `done'  *)
(* or `blocked' (markDone, markBlocked).                                   *)
(*                                                                         *)
(* GitHub has no compare-and-swap on labels: what an agent read may be     *)
(* stale when it writes.  `Faults' lets every call fail and every agent    *)
(* crash between two calls.                                                *)
(***************************************************************************)
EXTENDS Naturals, Sequences

CONSTANTS Agents,     \* the daemons that poll the issue
          MaxTries,   \* bound: claims per agent that get past the label check
          Faults      \* may GitHub calls fail and agents crash?

ASSUME MaxTriesAssumption == MaxTries \in Nat
ASSUME FaultsAssumption == Faults \in BOOLEAN

VARIABLES labels,    \* the managed labels on the issue
          claims,    \* the claim comments on the issue, oldest first
          pc,        \* where each agent is in claimIssueWithID or after it
          tries,     \* how many claims of each agent got past the label check
          before,    \* history, kept until `released': who held the label when
                     \* an agent's check passed
          released   \* history: has any agent taken `running' off again?

vars == <<labels, claims, pc, tries, before, released>>

ManagedLabels == {"running", "done", "blocked"}

ClaimIDs == Agents \X Nat

(* Between an agent's AddLabel(running) and its outcome. *)
Claiming == {"remove_done", "remove_blocked", "comment", "refresh"}

(* An agent that won runs Codex until it marks the issue done or blocked. *)
Ending == {"done", "blocked"}

(* "idle": no claim under way, the last one skipped, failed or finished.    *)
PCs == {"idle", "view", "ensure", "add_running", "lost", "won"} \cup Claiming
       \cup {"strip_for_done", "strip_for_blocked", "put_done", "put_blocked"}

Working == {a \in Agents : pc[a] = "won"}
Holding == {a \in Agents : pc[a] \in Claiming \cup {"won"}}

OwnID(a) == <<a, tries[a]>>

(* latestClaimID: the last comment that carries a claim marker. *)
LatestClaim(comments) == comments[Len(comments)]

IsLatest(a) == claims # <<>> /\ LatestClaim(claims) = OwnID(a)

TypeOK ==
    /\ labels \subseteq ManagedLabels
    /\ claims \in Seq(ClaimIDs)
    /\ pc \in [Agents -> PCs]
    /\ tries \in [Agents -> Nat]
    /\ before \in [Agents -> SUBSET Agents]
    /\ released \in BOOLEAN

Init ==
    /\ labels = {}
    /\ claims = <<>>
    /\ pc = [a \in Agents |-> "idle"]
    /\ tries = [a \in Agents |-> 0]
    /\ before = [a \in Agents |-> {}]
    /\ released = FALSE

Goto(a, here, there) ==
    /\ pc[a] = here
    /\ pc' = [pc EXCEPT ![a] = there]

-----------------------------------------------------------------------------
(* A poll picks the issue. Its claim ID is fresh: the number of the claims  *)
(* this agent has begun stands for the time stamp and the random suffix.    *)
StartClaim(a) ==
    /\ pc[a] \in {"idle", "lost"}
    /\ pc' = [pc EXCEPT ![a] = "view"]
    /\ UNCHANGED <<labels, claims, tries, before, released>>

(* Variant with a defect: only the ending labels count as managed. *)
HasManagedLabel_IgnoresRunning == labels \cap Ending # {}

(* hasManagedLabel on a fresh ViewIssue. *)
HasManagedLabel == labels \cap ManagedLabels # {}

CheckLabels(a) ==
    /\ IF HasManagedLabel
       THEN Goto(a, "view", "idle") /\ UNCHANGED <<tries, before>>
       ELSE /\ Goto(a, "view", "ensure")
            /\ tries[a] < MaxTries
            /\ tries' = [tries EXCEPT ![a] = @ + 1]
            /\ before' = IF released THEN before ELSE [before EXCEPT ![a] = Holding]
    /\ UNCHANGED <<labels, claims, released>>

(* ensureManagedLabels creates the labels in the repository, not on the issue. *)
EnsureManagedLabels(a) ==
    /\ Goto(a, "ensure", "add_running")
    /\ UNCHANGED <<labels, claims, tries, before, released>>

(* Variant with a defect: a label outside the managed ones. *)
AddRunning_WrongLabel(a) ==
    /\ Goto(a, "add_running", "remove_done")
    /\ labels' = labels \cup {"run-weaver:ready"}
    /\ UNCHANGED <<claims, tries, before, released>>

AddRunning(a) ==
    /\ Goto(a, "add_running", "remove_done")
    /\ labels' = labels \cup {"running"}
    /\ UNCHANGED <<claims, tries, before, released>>

(* Variant with a defect: the clean-up strips every managed label. *)
RemoveStale_StripsAll(a, here, label, there) ==
    /\ Goto(a, here, there)
    /\ labels' = {}
    /\ UNCHANGED <<claims, tries, before, released>>

(* The two RemoveLabel calls of a claim: a failure is ignored. *)
RemoveStale(a, here, label, there) ==
    /\ Goto(a, here, there)
    /\ \/ labels' = labels \ {label}
       \/ Faults /\ UNCHANGED labels
    /\ UNCHANGED <<claims, tries, before, released>>

PostClaim(a) ==
    /\ Goto(a, "comment", "refresh")
    /\ claims' = Append(claims, OwnID(a))
    /\ UNCHANGED <<labels, tries, before, released>>

(* Variant with a defect: any earlier claim comment counts as a competitor. *)
Refresh_AnyOtherClaim(a) ==
    /\ Goto(a, "refresh", IF claims = <<OwnID(a)>> THEN "won" ELSE "lost")
    /\ UNCHANGED <<labels, claims, tries, before, released>>

Refresh(a) ==
    /\ Goto(a, "refresh", IF IsLatest(a) THEN "won" ELSE "lost")
    /\ UNCHANGED <<labels, claims, tries, before, released>>

(* ViewIssue, EnsureLabel, AddLabel or Comment returns an error: the claim  *)
(* is given up where it stands, nothing is undone.                          *)
CallFails(a) ==
    /\ Faults
    /\ pc[a] \in {"view", "ensure", "add_running", "comment", "refresh"}
    /\ pc' = [pc EXCEPT ![a] = "idle"]
    /\ UNCHANGED <<labels, claims, tries, before, released>>

-----------------------------------------------------------------------------
(* markDone and markBlocked by the agent that worked on the issue.         *)
RemoveRunning(a) ==
    /\ \/ Goto(a, "won", "strip_for_done")
       \/ Goto(a, "won", "strip_for_blocked")
    /\ \/ labels' = labels \ {"running"}
       \/ Faults /\ UNCHANGED labels
    /\ released' = TRUE
    /\ UNCHANGED <<claims, tries, before>>

RemoveOpposite(a) ==
    \/ RemoveStale(a, "strip_for_done", "blocked", "put_done")
    \/ RemoveStale(a, "strip_for_blocked", "done", "put_blocked")

PutEnding(a) ==
    /\ \E label \in Ending :
          /\ Goto(a, IF label = "done" THEN "put_done" ELSE "put_blocked", "idle")
          /\ \/ labels' = labels \cup {label}
             \/ Faults /\ UNCHANGED labels
    /\ UNCHANGED <<claims, tries, before, released>>

(* The daemon process dies: what it knew of its claim is gone.             *)
Crash(a) ==
    /\ Faults
    /\ pc[a] \notin {"idle", "lost"}
    /\ pc' = [pc EXCEPT ![a] = "idle"]
    /\ UNCHANGED <<labels, claims, tries, before, released>>

Claim(a) ==
    \/ CheckLabels(a)
    \/ EnsureManagedLabels(a)
    \/ AddRunning(a)
    \/ RemoveStale(a, "remove_done", "done", "remove_blocked")
    \/ RemoveStale(a, "remove_blocked", "blocked", "comment")
    \/ PostClaim(a)
    \/ Refresh(a)

Mark(a) == RemoveOpposite(a) \/ PutEnding(a)

Next == \E a \in Agents :
    \/ StartClaim(a)
    \/ Claim(a)
    \/ RemoveRunning(a)
    \/ Mark(a)
    \/ CallFails(a)
    \/ Crash(a)

Spec == Init /\ [][Next]_vars

-----------------------------------------------------------------------------
(* While no winner has begun to take `running' off, every agent between its *)
(* AddLabel(running) and the end of its work is covered by the label: no    *)
(* claimant's clean-up removes the label another one relies on              *)
(* (claim.go:47-48 removes `done' and `blocked' only).                      *)
HeldIssueIsLabelled == (~released /\ Holding # {}) => "running" \in labels

(* Two agents can be at work on the same issue, but as long as nobody took  *)
(* `running' off, only if each of them read the labels (claim.go:35) before *)
(* the other one had added `running': an agent that reads later is turned   *)
(* away by the check, however late the others' comments arrive.             *)
OnlyRacersDoubleWin ==
    ~released => \A a, b \in Working : a # b => a \notin before[b]

(* The author of the latest claim comment never reports that it lost, so    *)
(* agents that race cannot all give up: whoever commented last and reads    *)
(* the issue back works on it (claim.go:54-62).                             *)
LatestClaimantNeverLoses == \A a \in Agents : pc[a] = "lost" => ~IsLatest(a)

(* What docs/github-issue-flow.md:105 promises: of the agents that claim an *)
(* issue at the same time only one works on it.                             *)
AtMostOneWorker == \A a, b \in Working : a = b
=============================================================================
