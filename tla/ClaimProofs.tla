----------------------------- MODULE ClaimProofs -----------------------------
(***************************************************************************)
(* Proofs about the claim protocol for any set of agents, any bound on the *)
(* number of claims, with and without faults.  The inductive invariant adds*)
(* to the three checked invariants that before[a] stays empty until the    *)
(* label is first taken off.                                               *)
(***************************************************************************)
EXTENDS Claim, TLAPS

(* The check that lets an agent pass found no holder: the part that makes   *)
(* OnlyRacersDoubleWin inductive.                                           *)
NobodyBefore == ~released => \A a \in Agents : before[a] = {}

Inv == TypeOK /\ HeldIssueIsLabelled /\ NobodyBefore /\ LatestClaimantNeverLoses

(* Every definition a step is made of. *)
StepNext(a) == StartClaim(a) \/ Claim(a) \/ RemoveRunning(a) \/ Mark(a)
               \/ CallFails(a) \/ Crash(a)

(* The initial state satisfies the inductive invariant. *)
LEMMA InitInv == Init => Inv
  <1> SUFFICES ASSUME Init PROVE Inv
    OBVIOUS
  <1>1. TypeOK
    <2>1. claims \in Seq(ClaimIDs)
      BY DEF Init
    <2>2. pc \in [Agents -> PCs] /\ tries \in [Agents -> Nat]
      BY DEF Init, PCs
    <2>3. before \in [Agents -> SUBSET Agents]
      BY DEF Init
    <2>4. QED
      BY <2>1, <2>2, <2>3 DEF Init, TypeOK
  <1>2. HeldIssueIsLabelled
    BY DEF Init, HeldIssueIsLabelled, Holding, Claiming
  <1>3. NobodyBefore /\ LatestClaimantNeverLoses
    BY DEF Init, NobodyBefore, LatestClaimantNeverLoses
  <1>4. QED
    BY <1>1, <1>2, <1>3 DEF Inv

(* Every step of every agent keeps the types: labels stay managed labels,   *)
(* claim comments stay claim IDs, counters stay naturals.                   *)
LEMMA TypeStep ==
  ASSUME TypeOK, [Next]_vars
  PROVE  TypeOK'
  <1>1. CASE UNCHANGED vars
    BY <1>1 DEF TypeOK, vars
  <1>2. ASSUME NEW a \in Agents, StepNext(a) PROVE TypeOK'
    <2>1. CASE StartClaim(a)
      BY <2>1 DEF StartClaim, TypeOK, PCs
    <2>2. CASE CheckLabels(a)
      <3>1. Holding \in SUBSET Agents
        BY DEF Holding
      <3>2. pc' \in [Agents -> PCs]
        BY <2>2 DEF CheckLabels, Goto, TypeOK, PCs
      <3>3. QED
        BY <2>2, <3>1, <3>2 DEF CheckLabels, TypeOK
    <2>3. CASE EnsureManagedLabels(a)
      BY <2>3 DEF EnsureManagedLabels, Goto, TypeOK, PCs
    <2>4. CASE AddRunning(a)
      BY <2>4 DEF AddRunning, Goto, TypeOK, PCs, Claiming, ManagedLabels
    <2>5. CASE \E here, label : \E there \in PCs : RemoveStale(a, here, label, there)
      BY <2>5 DEF RemoveStale, Goto, TypeOK
    <2>6. CASE PostClaim(a)
      BY <2>6 DEF PostClaim, Goto, TypeOK, PCs, Claiming, ClaimIDs, OwnID
    <2>7. CASE Refresh(a)
      BY <2>7 DEF Refresh, Goto, TypeOK, PCs
    <2>8. CASE RemoveRunning(a)
      BY <2>8 DEF RemoveRunning, Goto, TypeOK, PCs, ManagedLabels
    <2>9. CASE PutEnding(a)
      BY <2>9 DEF PutEnding, Goto, TypeOK, PCs, ManagedLabels, Ending
    <2>10. CASE CallFails(a) \/ Crash(a)
      BY <2>10 DEF CallFails, Crash, TypeOK, PCs
    <2>11. QED
      BY <1>2, <2>1, <2>2, <2>3, <2>4, <2>5, <2>6, <2>7, <2>8, <2>9, <2>10
         DEF StepNext, Claim, Mark, RemoveOpposite, PCs, Claiming
  <1>3. QED
    BY <1>1, <1>2 DEF Next, StepNext

(* No step takes the label from under a holder before `released' is set.    *)
LEMMA HeldStep ==
  ASSUME TypeOK, HeldIssueIsLabelled, [Next]_vars
  PROVE  HeldIssueIsLabelled'
  <1>1. CASE UNCHANGED vars
    BY <1>1 DEF HeldIssueIsLabelled, Holding, vars
  <1>2. ASSUME NEW a \in Agents, StepNext(a) PROVE HeldIssueIsLabelled'
    <2> USE DEF HeldIssueIsLabelled, Holding, Claiming, Goto, TypeOK
    <2>1. CASE StartClaim(a) \/ CallFails(a) \/ Crash(a)
      BY <2>1 DEF StartClaim, CallFails, Crash
    <2>2. CASE CheckLabels(a) \/ EnsureManagedLabels(a)
      BY <2>2 DEF CheckLabels, EnsureManagedLabels
    <2>3. CASE AddRunning(a)
      BY <2>3 DEF AddRunning
    <2>4. CASE \/ RemoveStale(a, "remove_done", "done", "remove_blocked")
               \/ RemoveStale(a, "remove_blocked", "blocked", "comment")
      BY <2>4 DEF RemoveStale
    <2>5. CASE PostClaim(a) \/ Refresh(a)
      BY <2>5 DEF PostClaim, Refresh
    <2>6. CASE RemoveRunning(a)
      BY <2>6 DEF RemoveRunning
    <2>7. CASE RemoveOpposite(a)
      BY <2>7 DEF RemoveOpposite, RemoveStale
    <2>8. CASE PutEnding(a)
      BY <2>8 DEF PutEnding
    <2>9. QED
      BY <1>2, <2>1, <2>2, <2>3, <2>4, <2>5, <2>6, <2>7, <2>8
         DEF StepNext, Claim, Mark
  <1>3. QED
    BY <1>1, <1>2 DEF Next, StepNext

(* Only a passed check changes `before', and a check passes only when the   *)
(* issue has no label, hence (HeldIssueIsLabelled) no holder.               *)
LEMMA BeforeStep ==
  ASSUME TypeOK, HeldIssueIsLabelled, NobodyBefore, [Next]_vars
  PROVE  NobodyBefore'
  <1>1. CASE UNCHANGED vars
    BY <1>1 DEF NobodyBefore, vars
  <1>2. ASSUME NEW a \in Agents, StepNext(a) PROVE NobodyBefore'
    <2>1. CASE CheckLabels(a)
      <3>1. ~HasManagedLabel /\ ~released => Holding = {}
        BY DEF HasManagedLabel, HeldIssueIsLabelled, ManagedLabels
      <3>2. QED
        BY <2>1, <3>1 DEF CheckLabels, NobodyBefore, TypeOK
    <2>2. CASE ~CheckLabels(a)
      <3>1. before' = before /\ (released' = released \/ released')
        BY <1>2, <2>2 DEF StepNext, StartClaim, Claim, EnsureManagedLabels,
           AddRunning, RemoveStale, PostClaim, Refresh, RemoveRunning, Mark,
           RemoveOpposite, PutEnding, CallFails, Crash
      <3>2. QED
        BY <3>1 DEF NobodyBefore
    <2>3. QED
      BY <2>1, <2>2
  <1>3. QED
    BY <1>1, <1>2 DEF Next, StepNext

(* A claim comment makes its own author the latest claimant and nobody else.*)
LEMMA AppendedIsLatest ==
  ASSUME NEW seq \in Seq(ClaimIDs), NEW id \in ClaimIDs
  PROVE  /\ Append(seq, id) # <<>>
         /\ LatestClaim(Append(seq, id)) = id
  BY DEF LatestClaim

(* An agent that lost is not made the latest claimant by anybody's comment, *)
(* and leaves "lost" before it makes a new claim ID.                        *)
LEMMA LoserStep ==
  ASSUME TypeOK, LatestClaimantNeverLoses, [Next]_vars
  PROVE  LatestClaimantNeverLoses'
  <1>1. CASE UNCHANGED vars
    BY <1>1 DEF LatestClaimantNeverLoses, IsLatest, OwnID, vars
  <1>2. ASSUME NEW a \in Agents, StepNext(a),
               NEW l \in Agents, pc'[l] = "lost", IsLatest(l)'
        PROVE  FALSE
    <2>1. CASE PostClaim(a)
      <3>1. OwnID(a) \in ClaimIDs
        BY DEF OwnID, ClaimIDs, TypeOK
      <3>2. LatestClaim(claims') = OwnID(a)
        BY <2>1, <3>1, AppendedIsLatest DEF PostClaim, TypeOK
      <3>3. l # a
        BY <1>2, <2>1 DEF PostClaim, Goto, TypeOK
      <3>4. QED
        BY <1>2, <2>1, <3>2, <3>3 DEF PostClaim, IsLatest, OwnID
    <2>2. CASE Refresh(a)
      BY <1>2, <2>2 DEF Refresh, Goto, LatestClaimantNeverLoses, IsLatest, OwnID, TypeOK
    <2>3. CASE CheckLabels(a)
      BY <1>2, <2>3 DEF CheckLabels, Goto, LatestClaimantNeverLoses, IsLatest, OwnID, TypeOK
    <2>4. CASE ~PostClaim(a) /\ ~Refresh(a) /\ ~CheckLabels(a)
      <3>1. UNCHANGED <<claims, tries>>
        BY <1>2, <2>4 DEF StepNext, StartClaim, Claim, EnsureManagedLabels,
           AddRunning, RemoveStale, RemoveRunning, Mark, RemoveOpposite,
           PutEnding, CallFails, Crash
      <3>2. pc[l] = "lost"
        BY <1>2, <2>4 DEF StepNext, StartClaim, Claim, EnsureManagedLabels,
           AddRunning, RemoveStale, RemoveRunning, Mark, RemoveOpposite,
           PutEnding, CallFails, Crash, Goto, TypeOK
      <3>3. QED
        BY <1>2, <3>1, <3>2 DEF LatestClaimantNeverLoses, IsLatest, OwnID
    <2>5. QED
      BY <2>1, <2>2, <2>3, <2>4
  <1>3. QED
    BY <1>1, <1>2 DEF Next, StepNext, LatestClaimantNeverLoses

(* The inductive invariant holds in every reachable state. *)
THEOREM Invariance == Spec => []Inv
  <1>1. Inv /\ [Next]_vars => Inv'
    BY TypeStep, HeldStep, BeforeStep, LoserStep DEF Inv
  <1>2. QED
    BY InitInv, <1>1, PTL DEF Spec

(* Types, for any number of agents. *)
THEOREM TypeCorrect == Spec => []TypeOK
  BY Invariance, PTL DEF Inv

(* As long as nobody took `running' off, the label covers every holder.     *)
THEOREM HolderIsProtected == Spec => []HeldIssueIsLabelled
  BY Invariance, PTL DEF Inv

(* Two agents work on one issue only if both read it unlabelled.            *)
THEOREM DoubleWinIsARace == Spec => []OnlyRacersDoubleWin
  <1>1. Inv => OnlyRacersDoubleWin
    BY DEF Inv, NobodyBefore, OnlyRacersDoubleWin, Working
  <1>2. QED
    BY Invariance, <1>1, PTL

(* The author of the latest claim comment never gives up as a loser.        *)
THEOREM LatestClaimantStays == Spec => []LatestClaimantNeverLoses
  BY Invariance, PTL DEF Inv
=============================================================================
