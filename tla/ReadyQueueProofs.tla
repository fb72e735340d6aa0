--------------------------- MODULE ReadyQueueProofs ---------------------------
(***************************************************************************)
(* Proofs about the ready queue: for any number of issues, whatever people *)
(* write into them, and any number of edits and failing calls.             *)
(***************************************************************************)
EXTENDS ReadyQueue, TLAPS

(* What people write into an issue is a list of numbers.                    *)
LEMMA NumberListsType == NumberLists \subseteq Seq(Numbers)
  <1>1. <<>> \in Seq(Numbers) /\ \A d \in Numbers : <<d>> \in Seq(Numbers)
    OBVIOUS
  <1>2. \A d, e \in Numbers : <<d, e>> \in Seq(Numbers)
    OBVIOUS
  <1>3. \A s \in Numbers \X Numbers : \E d, e \in Numbers : s = <<d, e>>
    OBVIOUS
  <1>4. \A s \in Numbers \X Numbers : s \in Seq(Numbers)
    BY <1>2, <1>3
  <1>5. QED
    BY <1>1, <1>4 DEF NumberLists

LEMMA MentionsType ==
  ASSUME NEW m \in Mentions
  PROVE  m.numbers \in Seq(Numbers) /\ m.ambiguous \in BOOLEAN
  <1>1. CASE m \in [numbers: NumberLists, ambiguous: {FALSE}]
    BY <1>1, NumberListsType
  <1>2. CASE m = [numbers |-> <<>>, ambiguous |-> TRUE]
    BY <1>2
  <1>3. QED
    BY <1>1, <1>2 DEF Mentions

(* An issue is started on what it names, all of it done and known.          *)
LEMMA ReadyIsFine ==
  ASSUME TypeOK, NEW i \in Issues, Verdict(i) = "ready"
  PROVE  /\ mentions[i].numbers \in Seq(Issues)
         /\ \A d \in ToSet(mentions[i].numbers) : Fine(d)
  <1>1. mentions[i].numbers \in Seq(Numbers)
    BY MentionsType DEF TypeOK
  <1>2. \A k \in DOMAIN mentions[i].numbers : Fine(mentions[i].numbers[k])
    BY DEF Verdict
  <1>3. \A k \in DOMAIN mentions[i].numbers : mentions[i].numbers[k] \in Issues
    BY <1>2 DEF Fine, Viewable
  <1>4. QED
    BY <1>1, <1>2, <1>3 DEF ToSet

LEMMA InitType == Init => TypeOK
  BY DEF Init, TypeOK, Labels

LEMMA PollType ==
  ASSUME TypeOK, Poll
  PROVE  TypeOK'
  <1> USE DEF TypeOK, githubVars, fileVars, Labels, EndPoll
  <1>1. CASE ListReadyIssues
    BY <1>1 DEF ListReadyIssues
  <1>2. ASSUME NEW i \in Issues, LookAt(i) PROVE TypeOK'
    <2>1. stack' \in [Issues -> Seq(Issues)]
      BY <1>2, ReadyIsFine DEF LookAt
    <2>2. label' \in [Issues -> Labels]
      BY <1>2 DEF LookAt
    <2>3. /\ pc' \in {"idle", "select", "claim"} /\ listed' \subseteq Issues
          /\ candidate' \in Issues \cup {None}
      BY <1>2 DEF LookAt, LookOn
    <2>4. mishaps' \in Nat
      BY <1>2 DEF LookAt
    <2>5. QED
      BY <1>2, <2>1, <2>2, <2>3, <2>4 DEF LookAt
  <1>3. CASE ClaimAndStart
    BY <1>3 DEF ClaimAndStart
  <1>4. QED
    BY <1>1, <1>2, <1>3 DEF Poll

LEMMA TypeStep == TypeOK /\ [Next]_vars => TypeOK'
  <1> SUFFICES ASSUME TypeOK, [Next]_vars PROVE TypeOK'
    OBVIOUS
  <1> USE DEF TypeOK, githubVars, fileVars, pollVars, Labels
  <1>1. CASE Poll
    BY <1>1, PollType
  <1>2. CASE Job
    BY <1>2 DEF Job, CompleteJob, BlockJob
  <1>3. ASSUME NEW i \in Issues, OtherAgent(i) PROVE TypeOK'
    BY <1>3 DEF OtherAgent
  <1>4. ASSUME NEW i \in Issues, People(i) PROVE TypeOK'
    <2>1. mentions' \in [Issues -> Mentions]
      BY <1>4 DEF People
    <2>2. label' \in [Issues -> Labels]
      BY <1>4 DEF People
    <2>3. edits' \in Nat
      BY <1>4 DEF People
    <2>4. QED
      BY <1>4, <2>1, <2>2, <2>3 DEF People
  <1>5. CASE UNCHANGED vars
    BY <1>5 DEF vars
  <1>6. QED
    BY <1>1, <1>2, <1>3, <1>4, <1>5 DEF Next

(* Labels, lists and the poll keep their types.                             *)
THEOREM TypeCorrect == Spec => []TypeOK
  BY InitType, TypeStep, PTL DEF Spec

-----------------------------------------------------------------------------
(* Stacks.                                                                   *)

(* The daemon polls while no job runs here, and a job's issue is `running'; *)
(* what is finished here is done and is not looked at again.                *)
OneJob == job # None => pc = "idle" /\ label[job] = "running"
ListedInPoll == pc = "idle" => listed = {}
ChosenIsAnIssue == pc = "claim" => candidate \in Issues
FinishedIsDone == \A i \in completed : label[i] = "done" /\ i \notin listed

(* The issue chosen, like those that run or are finished here, stands on    *)
(* finished work, and of the latter none is still to be looked at: a poll   *)
(* marks an issue blocked by what it was when it was listed.                *)
Chosen == IF pc = "claim" THEN {candidate} ELSE {}
Settled == \A i \in Here \cup Chosen : \A d \in ToSet(stack[i]) : Fine(d)
SettledIsNotListed == \A i \in Here : \A d \in ToSet(stack[i]) : d \notin listed

Stacks == /\ OneJob /\ ListedInPoll /\ ChosenIsAnIssue /\ FinishedIsDone
          /\ Settled /\ SettledIsNotListed

LEMMA InitStacks == Init => Stacks
  BY DEF Init, Stacks, OneJob, ListedInPoll, ChosenIsAnIssue, FinishedIsDone, Chosen, Settled,
         SettledIsNotListed, Here

LEMMA HereType == TypeOK => Here \subseteq Issues
  BY DEF TypeOK, Here

LEMMA StackType ==
  ASSUME TypeOK, NEW i \in Issues
  PROVE  ToSet(stack[i]) \subseteq Issues
  BY DEF TypeOK, ToSet

(* What others do leaves a done issue done and an announced one announced.  *)
LEMMA StacksKept ==
  ASSUME TypeOK, Stacks, UNCHANGED <<fileVars, pollVars>>, told \subseteq told',
         \A i \in Issues : label[i] = "done" => label'[i] = "done",
         job # None => label'[job] = "running"
  PROVE  Stacks'
  <1>1. UNCHANGED <<Here, Chosen>> /\ Here \cup Chosen \subseteq Issues
    BY HereType DEF Here, Chosen, fileVars, pollVars, Stacks, ChosenIsAnIssue
  <1>2. \A d \in Issues : Fine(d) => Fine(d)'
    BY DEF Fine, Undone, Resolvable, fileVars
  <1>3. Settled'
    BY <1>1, <1>2, StackType DEF Stacks, Settled, pollVars
  <1>4. FinishedIsDone'
    BY DEF Stacks, FinishedIsDone, TypeOK, fileVars, pollVars
  <1>5. QED
    BY <1>1, <1>3, <1>4
       DEF Stacks, OneJob, ListedInPoll, ChosenIsAnIssue, SettledIsNotListed, fileVars, pollVars

LEMMA StacksList ==
  ASSUME TypeOK, Stacks, ListReadyIssues
  PROVE  Stacks'
  <1>1. UNCHANGED <<label, told, completed, job, stack>> /\ pc' = "select" /\ pc = "idle"
    BY DEF ListReadyIssues, githubVars, fileVars
  <1>2. UNCHANGED Here /\ Chosen' = {}
    BY <1>1 DEF Here, Chosen
  <1>3. Settled'
    BY <1>1, <1>2 DEF Stacks, Settled, Fine, Undone, Resolvable
  <1>4. SettledIsNotListed'
    BY <1>1, <1>2 DEF Stacks, Settled, SettledIsNotListed, ListReadyIssues, Fine, Undone
  <1>5. FinishedIsDone'
    BY <1>1 DEF Stacks, FinishedIsDone, ListReadyIssues
  <1>6. QED
    BY <1>1, <1>3, <1>4, <1>5 DEF Stacks, OneJob, ListedInPoll, ChosenIsAnIssue, ListReadyIssues

(* Looking at an issue.  Only what is listed is touched: neither the issues *)
(* that are here nor what they stand on.                                    *)
LEMMA StacksLook ==
  ASSUME TypeOK, Stacks, NEW i \in Issues, LookAt(i)
  PROVE  Stacks'
  <1>1. /\ UNCHANGED <<told, completed, job>> /\ pc = "select" /\ job = None
        /\ i \in listed
    BY DEF LookAt, githubVars, fileVars, NextListed, Stacks, OneJob
  <1>2. UNCHANGED Here /\ Here = completed /\ Here \subseteq Issues /\ i \notin Here
    BY <1>1, HereType DEF Here, Stacks, FinishedIsDone
  <1>3. \A j \in Issues : j # i => label'[j] = label[j] /\ stack'[j] = stack[j]
    BY DEF LookAt, TypeOK
  <1>4. listed' \subseteq listed
    BY DEF LookAt, EndPoll, LookOn
  <1>5. FinishedIsDone'
    BY <1>1, <1>2, <1>3, <1>4 DEF Stacks, FinishedIsDone
  <1>6. SettledIsNotListed'
    BY <1>2, <1>3, <1>4 DEF Stacks, SettledIsNotListed
  <1>7. ASSUME NEW j \in Here, NEW d \in ToSet(stack'[j]) PROVE Fine(d)'
    <2>1. d \in ToSet(stack[j]) /\ d # i /\ d \in Issues
      BY <1>1, <1>2, <1>3, <1>7, StackType DEF Stacks, SettledIsNotListed
    <2>2. QED
      BY <1>1, <1>2, <1>3, <2>1 DEF Stacks, Settled, Fine, Undone, Resolvable
  <1>8. ASSUME pc' = "claim" PROVE candidate' = i /\ \A d \in ToSet(stack'[i]) : Fine(d)'
    <2>1. /\ Verdict(i) = "ready" /\ candidate' = i
          /\ stack' = [stack EXCEPT ![i] = mentions[i].numbers] /\ label' = label
      BY <1>8, <1>1 DEF LookAt, EndPoll, LookOn
    <2>2. stack'[i] = mentions[i].numbers
      BY <2>1 DEF TypeOK
    <2>3. QED
      BY <1>1, <2>1, <2>2, ReadyIsFine DEF Fine, Undone, Resolvable
  <1>9. Settled'
    BY <1>2, <1>7, <1>8 DEF Settled, Chosen
  <1>10. pc' = "idle" => listed' = {}
    BY <1>1 DEF LookAt, EndPoll, LookOn
  <1>11. QED
    BY <1>1, <1>5, <1>6, <1>8, <1>9, <1>10 DEF Stacks, OneJob, ListedInPoll, ChosenIsAnIssue

LEMMA StacksClaim ==
  ASSUME TypeOK, Stacks, ClaimAndStart
  PROVE  Stacks'
  <1>1. /\ UNCHANGED <<told, completed, stack>> /\ pc' = "idle" /\ listed' = {} /\ pc = "claim"
        /\ candidate \in Issues /\ job = None
    BY DEF ClaimAndStart, EndPoll, Stacks, ChosenIsAnIssue, OneJob
  <1>2. Chosen = {candidate} /\ Chosen' = {} /\ Here = completed /\ Here \subseteq Issues
    BY <1>1, HereType DEF Chosen, Here
  <1>3. Here' \subseteq Here \cup Chosen
    BY <1>1, <1>2 DEF ClaimAndStart, Here
  <1>4. \A d \in Issues : label[d] = "done" => label'[d] = "done"
    BY <1>1 DEF ClaimAndStart, TypeOK
  <1>5. Settled'
    <2>1. \A d \in Issues : Fine(d) => Fine(d)'
      BY <1>1, <1>4 DEF Fine, Undone, Resolvable
    <2>2. QED
      BY <1>1, <1>2, <1>3, <2>1, StackType DEF Stacks, Settled
  <1>6. FinishedIsDone'
    BY <1>1, <1>2, <1>4 DEF Stacks, FinishedIsDone
  <1>7. job' # None => label'[job'] = "running"
    BY <1>1 DEF ClaimAndStart, TypeOK
  <1>8. QED
    BY <1>1, <1>5, <1>6, <1>7
       DEF Stacks, OneJob, ListedInPoll, ChosenIsAnIssue, SettledIsNotListed

LEMMA StacksJob ==
  ASSUME TypeOK, Stacks, Job
  PROVE  Stacks'
  <1>1. /\ UNCHANGED <<pollVars, mentions>> /\ pc = "idle" /\ listed = {} /\ job \in Issues
        /\ job' = None /\ label[job] = "running"
    BY DEF Job, CompleteJob, BlockJob, TypeOK, Stacks, OneJob, ListedInPoll
  <1>2. Here' \subseteq Here /\ Here \subseteq Issues /\ Chosen' = {}
    BY <1>1, HereType DEF Job, CompleteJob, BlockJob, Here, Chosen, pollVars
  <1>3. \A d \in Issues : label[d] = "done" => label'[d] = "done"
    BY <1>1 DEF Job, CompleteJob, BlockJob, TypeOK
  <1>4. Settled'
    <2>1. \A d \in Issues : Fine(d) => Fine(d)'
      BY <1>3 DEF Fine, Undone, Resolvable, Job, CompleteJob, BlockJob
    <2>2. QED
      BY <1>1, <1>2, <2>1, StackType DEF Stacks, Settled, pollVars
  <1>5. FinishedIsDone'
    <2>1. completed \subseteq Issues /\ \A i \in completed : label'[i] = "done"
      BY <1>3 DEF TypeOK, Stacks, FinishedIsDone
    <2>2. completed' = completed \/ (completed' = completed \cup {job} /\ label'[job] = "done")
      BY <1>1 DEF Job, CompleteJob, BlockJob, TypeOK
    <2>3. QED
      BY <1>1, <2>1, <2>2 DEF FinishedIsDone, pollVars
  <1>6. QED
    BY <1>1, <1>4, <1>5
       DEF Stacks, OneJob, ListedInPoll, ChosenIsAnIssue, SettledIsNotListed, pollVars

LEMMA StacksStep == TypeOK /\ Stacks /\ [Next]_vars => Stacks'
  <1> SUFFICES ASSUME TypeOK, Stacks, [Next]_vars PROVE Stacks'
    OBVIOUS
  <1>1. CASE Poll
    BY <1>1, StacksList, StacksLook, StacksClaim DEF Poll
  <1>2. CASE Job
    BY <1>2, StacksJob
  <1>3. ASSUME NEW i \in Issues, OtherAgent(i) \/ People(i) PROVE Stacks'
    <2>1. UNCHANGED <<fileVars, pollVars>> /\ told \subseteq told'
      BY <1>3 DEF OtherAgent, People
    <2>2. \A j \in Issues : label[j] = "done" => label'[j] = "done"
      BY <1>3 DEF OtherAgent, People, TypeOK
    <2>3. job # None => label'[job] = "running"
      BY <1>3 DEF OtherAgent, People, TypeOK, Stacks, OneJob
    <2>4. QED
      BY <2>1, <2>2, <2>3, StacksKept
  <1>4. CASE UNCHANGED vars
    BY <1>4, StacksKept DEF vars, githubVars, Stacks, OneJob
  <1>5. QED
    BY <1>1, <1>2, <1>3, <1>4 DEF Next

(* The issues an issue was stacked on are done and their pull requests      *)
(* known, from its selection on, whatever others do meanwhile.              *)
THEOREM StackedOnDone == Spec => []StackedOnFinished
  <1>1. Stacks => StackedOnFinished
    BY DEF Stacks, Settled, StackedOnFinished, Fine, Undone
  <1>2. QED
    BY InitType, InitStacks, TypeStep, StacksStep, <1>1, PTL DEF Spec

-----------------------------------------------------------------------------
(* Circles.                                                                  *)

LEMMA UnderIsDone ==
  ASSUME TypeOK, Stacks, NEW i \in Here, NEW d \in Under(i)
  PROVE  d \in ToSet(stack[i]) /\ label[d] = "done"
  <1>1. stack[i] \in Seq(Issues) /\ stack[i] # <<>> /\ d = stack[i][Len(stack[i])]
    BY HereType DEF Under, Last, TypeOK
  <1>2. d \in ToSet(stack[i])
    BY <1>1 DEF ToSet
  <1>3. QED
    BY <1>2 DEF Stacks, Settled, Fine, Undone

(* The issue that is finished next stands on issues that are done, and none *)
(* of those that are finished stands on it, as it has only been running.    *)
LEMMA EndsComplete ==
  ASSUME TypeOK, Stacks, StacksEnd, CompleteJob
  PROVE  StacksEnd'
  <1>1. /\ job \in Here /\ completed \subseteq Here /\ label[job] = "running" /\ stack' = stack
        /\ completed' = completed \cup {job}
    BY DEF CompleteJob, Here, Stacks, OneJob, pollVars
  <1>2. \A i \in Here : Under(i)' = Under(i)
    <2> SUFFICES ASSUME NEW i \in Here, stack[i] # <<>> PROVE Under(i)' = Under(i)
      BY <1>1 DEF Under
    <2>1. Last(stack[i]) # job
      <3>1. stack[i] \in Seq(Issues)
        BY HereType DEF TypeOK
      <3>2. Last(stack[i]) \in ToSet(stack[i])
        BY <3>1 DEF Last, ToSet
      <3>3. label[Last(stack[i])] = "done"
        BY <3>2 DEF Stacks, Settled, Fine, Undone
      <3>4. QED
        BY <3>3, <1>1
    <2>2. QED
      BY <1>1, <2>1 DEF Under
  <1>3. \A i \in Here : job \notin Under(i)
    BY <1>1, UnderIsDone
  <1>4. ASSUME NEW ring \in SUBSET completed', ring # {}
        PROVE  \E i \in ring : Under(i)' \cap ring = {}
    <2>1. CASE ring = {job}
      BY <1>1, <1>2, <1>3, <2>1
    <2>2. CASE ring # {job}
      <3>1. ring \ {job} \in (SUBSET completed) \ {{}} /\ ring \ {job} \subseteq Here
        BY <1>1, <1>4, <2>2
      <3>2. PICK i \in ring \ {job} : Under(i) \cap (ring \ {job}) = {}
        BY <3>1 DEF StacksEnd
      <3>3. i \in Here
        BY <3>1, <3>2
      <3>4. QED
        BY <1>2, <1>3, <3>2, <3>3
    <2>3. QED
      BY <2>1, <2>2
  <1>5. QED
    BY <1>4 DEF StacksEnd

LEMMA EndsStep == TypeOK /\ Stacks /\ StacksEnd /\ [Next]_vars => StacksEnd'
  <1> SUFFICES ASSUME TypeOK, Stacks, StacksEnd, [Next]_vars PROVE StacksEnd'
    OBVIOUS
  <1>1. CASE CompleteJob
    BY <1>1, EndsComplete
  <1>2. CASE ~CompleteJob
    <2>1. completed' = completed
      BY <1>2 DEF Next, Poll, Job, ListReadyIssues, LookAt, ClaimAndStart, BlockJob, OtherAgent,
                  People, vars, fileVars
    <2>2. \A i \in completed : stack'[i] = stack[i]
      <3>1. ASSUME NEW i \in Issues, LookAt(i) PROVE \A j \in completed : stack'[j] = stack[j]
        BY <3>1 DEF LookAt, NextListed, TypeOK, Stacks, FinishedIsDone
      <3>2. stack' = stack \/ \E i \in Issues : LookAt(i)
        BY <1>2 DEF Next, Poll, Job, ListReadyIssues, ClaimAndStart, BlockJob, OtherAgent,
                    People, vars, pollVars
      <3>3. QED
        BY <3>1, <3>2
    <2>3. \A i \in completed : Under(i)' = Under(i)
      BY <2>1, <2>2 DEF Under
    <2>4. QED
      BY <2>1, <2>3 DEF StacksEnd
  <1>3. QED
    BY <1>1, <1>2

LEMMA InitEnds == Init => StacksEnd
  BY DEF Init, StacksEnd

(* No circle of pull requests: among any finished issues there is one that  *)
(* stands on none of the others.                                            *)
THEOREM NoCircles == Spec => []StacksEnd
  BY InitType, InitStacks, InitEnds, TypeStep, StacksStep, EndsStep, PTL DEF Spec
=============================================================================
