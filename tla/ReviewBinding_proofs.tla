------------------------ MODULE ReviewBinding_proofs ------------------------
(***************************************************************************)
(* Proofs about ReviewBinding and the collector it extends, for every set  *)
(* of files, texts, targets, heads and writers and every bound.            *)
(***************************************************************************)
EXTENDS ReviewBinding, FiniteSetTheorems, TLAPS

-----------------------------------------------------------------------------
(* The slot.  Custody is granted to the review once, as it begins, so that *)
(* a review that still has it has had it ever since: who is verified after *)
(* the second collection was never without.                                *)

SlotInv ==
    /\ phase = "idle" => wrote = {} /\ custody # Review
    /\ "managed" \in wrote => custody # Review
    /\ phase = "bind" => "managed" \notin wrote
    /\ outcome = "bound" => phase = "done" /\ "managed" \notin wrote

(* The collection.  What has been observed in an attempt that nothing has  *)
(* disturbed so far is what was there as the attempt began.                *)

Start == course[1]

Undisturbed == Len(course) = 1

PastStatus == coll.pc \notin {"off", "custody", "status"}
PastTarget == PastStatus /\ coll.pc # "target"
PastHead == PastTarget /\ coll.pc # "head"
PastFiles == PastHead /\ coll.pc # "files"

Changed(r) == {p \in Paths : r.tree[p] # Clean}

CollectionInv ==
    /\ PastStatus => course[Len(course)] = repo
    /\ PastStatus /\ Undisturbed => coll.status = Changed(Start)
    /\ Running /\ ~PastHead => \A p \in Paths : coll.files[p] = Clean
    /\ PastTarget /\ Undisturbed => coll.target = Start.target
    /\ PastHead /\ Undisturbed => coll.head = Start.head
    /\ PastHead /\ Undisturbed => \A p \in Paths \ coll.todo : coll.files[p] = Start.tree[p]
    /\ PastFiles => coll.todo = {}
    /\ Exact /\ Undisturbed => Collected = Identity(Start)
    /\ coll.answer # "none" => ~Running

SubjectInv ==
    /\ phase \in {"reverify", "bind"} \/ outcome = "bound" =>
         Exact /\ before = Collected
    /\ outcome = "bound" => phase = "done"

(* Blame.  While nobody has written since the admission, what a review was  *)
(* shown is what is there, and no two looks of a collection can differ.    *)

BlameInv ==
    /\ Running => phase \in {"before", "after"}
    /\ coll.reading # None => coll.pc = "files"
    /\ coll.torn => wrote # {}
    /\ PastStatus /\ wrote = {} => Undisturbed
    /\ phase \in {"verify", "after"} => before # None
    /\ phase = "before" /\ Exact /\ wrote = {} => Collected = Identity(repo)
    /\ phase \in {"review", "verify", "after"} /\ InInterval /\ wrote = {} =>
         before \in {None, Identity(repo)}
    /\ phase = "after" /\ Exact /\ wrote = {} => Collected = before
    /\ MutationIsReal

IInv == TypeOK /\ SlotInv /\ CollectionInv /\ SubjectInv /\ BlameInv

USE CollectorAssumption

-----------------------------------------------------------------------------
(* Types.                                                                  *)

LEMMA BlankIsCollection == Blank \in Collection
<1>1. [p \in Paths |-> Clean] \in [Paths -> Texts \union {Clean}] /\ 1 \in 1..MaxAttempts
  OBVIOUS
<1>2. QED
  BY <1>1 DEF Blank, Collection, Steps, Answers

LEMMA BlankType == ASSUME NEW a \in Answers PROVE [Blank EXCEPT !.answer = a] \in Collection
BY BlankIsCollection DEF Collection

LEMMA BeginType == ASSUME NEW h \in BOOLEAN, Begin(h) PROVE coll' \in Collection
BY BlankIsCollection DEF Begin, Collection, Steps

LEMMA AnswerType == ASSUME NEW a \in Answers, Answer(a) PROVE coll' \in Collection
BY BlankType DEF Answer

LEMMA UnstableType == ASSUME coll \in Collection, Unstable PROVE coll' \in Collection
<1>1. CASE coll.attempt < MaxAttempts
  <2>1. coll' = NextAttempt(coll) /\ coll.held \in BOOLEAN /\ coll.attempt + 1 \in 1..MaxAttempts
    BY <1>1 DEF Unstable, Collect, Collection
  <2>2. QED
    BY <2>1, BlankIsCollection DEF NextAttempt, Collection, Steps
<1>2. CASE ~(coll.attempt < MaxAttempts)
  BY <1>2, AnswerType DEF Unstable, Answers
<1>3. QED
  BY <1>1, <1>2

LEMMA CompareType ==
    ASSUME coll \in Collection, NEW step, NEW same, NEW next \in Steps, Compare(step, same, next)
    PROVE  coll' \in Collection
BY UnstableType DEF Compare, Collect, Collection

LEMMA CollectorStepType ==
    ASSUME CollectorTypeOK, CollectorStep
    PROVE  /\ coll' \in Collection /\ UNCHANGED <<repo, custody, writes>>
           /\ course' \in {course, <<repo>>}
<1>1. UNCHANGED <<repo, custody, writes>> /\ course' \in {course, <<repo>>}
  BY DEF CollectorStep, VerifyCustodyExpectation, ReadStatusSnapshot, ResolveTargetContext,
         ReadCleanSubmoduleHeads, StatFile, DigestFile, FilesRead, ReadStatusAgain,
         ResolveTargetAgain, ReadHeadsAgain, Refuse, Expire, Compare, Unstable, Collect, Answer
<1> SUFFICES coll' \in Collection
  BY <1>1
<1>2. coll \in Collection /\ repo \in Repository
  BY DEF CollectorTypeOK
<1>3. repo.target \in Targets /\ repo.head \in Heads /\ Status \subseteq Paths
      /\ \A p \in Paths : repo.tree[p] \in Texts \union {Clean}
  BY <1>2 DEF Repository, Status
<1>4. CASE VerifyCustodyExpectation
  <2>1. Answer("lost") \/ Answer("busy") \/ coll' = [coll EXCEPT !.pc = "status"]
    BY <1>4 DEF VerifyCustodyExpectation, Collect
  <2>2. CASE coll' = [coll EXCEPT !.pc = "status"]
    BY <1>2, <2>2 DEF Collection, Steps
  <2>3. "lost" \in Answers /\ "busy" \in Answers
    BY DEF Answers
  <2>4. QED
    BY <2>1, <2>2, <2>3, AnswerType
<1>5. CASE ReadStatusSnapshot
  BY <1>2, <1>3, <1>5 DEF ReadStatusSnapshot, Collection, Steps
<1>6. CASE ResolveTargetContext
  BY <1>2, <1>3, <1>6 DEF ResolveTargetContext, Collect, Collection, Steps
<1>7. CASE ReadCleanSubmoduleHeads
  BY <1>2, <1>3, <1>7 DEF ReadCleanSubmoduleHeads, Collect, Collection, Steps
<1>8. ASSUME NEW p \in Paths, StatFile(p) PROVE coll' \in Collection
  BY <1>2, <1>8 DEF StatFile, Collect, Collection
<1>9. ASSUME NEW p \in Paths, DigestFile(p) PROVE coll' \in Collection
  <2>1. CASE coll' = [coll EXCEPT !.files[p] = repo.tree[p], !.todo = @ \ {p},
                                  !.reading = None, !.again = FALSE]
    BY <1>2, <1>3, <2>1 DEF Collection
  <2>2. CASE coll' = [coll EXCEPT !.torn = FALSE, !.again = TRUE]
    BY <1>2, <2>2 DEF Collection
  <2>3. CASE Unstable
    BY <1>2, <2>3, UnstableType
  <2>4. QED
    BY <1>9, <2>1, <2>2, <2>3 DEF DigestFile, Collect
<1>10. CASE FilesRead
  BY <1>2, <1>10 DEF FilesRead, Collect, Collection, Steps
<1>11. CASE ReadStatusAgain \/ ResolveTargetAgain
  <2>1. \/ Compare("status again", Status = coll.status, "target again")
        \/ Compare("target again", repo.target = coll.target, "head again")
    BY <1>11 DEF ReadStatusAgain, ResolveTargetAgain
  <2>2. "target again" \in Steps /\ "head again" \in Steps
    BY DEF Steps
  <2>3. CASE Compare("status again", Status = coll.status, "target again")
    BY <1>2, <2>2, <2>3, CompareType
  <2>4. CASE Compare("target again", repo.target = coll.target, "head again")
    BY <1>2, <2>2, <2>4, CompareType
  <2>5. QED
    BY <2>1, <2>3, <2>4
<1>12. CASE ReadHeadsAgain
  <2>1. Unstable \/ coll' = [coll EXCEPT !.pc = "off", !.answer = "exact"]
    BY <1>12 DEF ReadHeadsAgain, Collect
  <2>2. CASE coll' = [coll EXCEPT !.pc = "off", !.answer = "exact"]
    BY <1>2, <2>2 DEF Collection, Steps, Answers
  <2>3. QED
    BY <1>2, <2>1, <2>2, UnstableType
<1>13. CASE Refuse \/ Expire
  <2>1. "refused" \in Answers /\ "expired" \in Answers
    BY DEF Answers
  <2>2. QED
    BY <1>13, <2>1, AnswerType DEF Refuse, Expire
<1>14. QED
  BY <1>4, <1>5, <1>6, <1>7, <1>8, <1>9, <1>10, <1>11, <1>12, <1>13 DEF CollectorStep

LEMMA ChangeType ==
    ASSUME CollectorTypeOK, AnyChange
    PROVE  CollectorTypeOK'
<1>1. PICK new \in Repository : Change(new) /\ (coll' = coll \/ \E b \in BOOLEAN : coll' = [coll EXCEPT !.torn = b])
  <2>1. repo \in Repository /\ coll \in Collection
    BY DEF CollectorTypeOK
  <2>2. CASE \E p \in Paths, text \in Texts \union {Clean} : WriteFile(p, text)
    <3>1. PICK p \in Paths, text \in Texts \union {Clean} : WriteFile(p, text)
      BY <2>2
    <3>2. [repo EXCEPT !.tree[p] = text] \in Repository
      BY <2>1 DEF Repository
    <3>3. (coll.torn \/ coll.reading = p) \in BOOLEAN
      BY <2>1 DEF Collection
    <3>4. QED
      BY <3>1, <3>2, <3>3 DEF WriteFile
  <2>3. CASE (\E t \in Targets : MoveTarget(t)) \/ (\E h \in Heads : MoveHead(h))
    BY <2>1, <2>3 DEF MoveTarget, MoveHead, Repository
  <2>4. QED
    BY <2>2, <2>3 DEF AnyChange
<1>2. coll' \in Collection
  BY <1>1 DEF CollectorTypeOK, Collection
<1>3. repo' \in Repository /\ custody' = custody /\ writes' \in 0..MaxWrites
  BY <1>1 DEF Change, CollectorTypeOK
<1>4. course' \in Seq(Repository) /\ Len(course') > 0
  BY <1>1 DEF Change, CollectorTypeOK
<1>5. QED
  BY <1>2, <1>3, <1>4 DEF CollectorTypeOK

LEMMA CollectedType ==
    ASSUME coll \in Collection
    PROVE  Collected \in [status : SUBSET Paths, target : Targets \union {None},
                          head : Heads \union {None}, files : [Paths -> Texts \union {Clean}]]
BY DEF Collected, Collection

LEMMA InitType == Init => TypeOK
<1> SUFFICES ASSUME Init PROVE TypeOK
  OBVIOUS
<1>1. coll \in Collection
  BY BlankIsCollection DEF Init, CollectorInit
<1>2. CollectorTypeOK
  BY <1>1 DEF Init, CollectorInit, CollectorTypeOK
<1>3. QED
  BY <1>2 DEF Init, TypeOK, Phases, Outcomes

LEMMA FinishType ==
    ASSUME TypeOK, NEW how \in Outcomes, Finish(how)
    PROVE  TypeOK'
BY DEF Finish, BinderStays, TypeOK, CollectorTypeOK, Phases

LEMMA ProceedType ==
    ASSUME TypeOK, NEW step \in Phases, Proceed(step)
    PROVE  TypeOK'
BY DEF Proceed, BinderStays, TypeOK, CollectorTypeOK

LEMMA NextType == TypeOK /\ [Next]_vars => TypeOK'
<1> SUFFICES ASSUME TypeOK, [Next]_vars PROVE TypeOK'
  OBVIOUS
<1>1. CASE \E who \in {"managed", "external"} : Write(who)
  BY <1>1, ChangeType DEF Write, TypeOK
<1>2. CASE WriterSlot \/ Misjudge
  BY <1>2 DEF WriterSlot, WriterTakesCustody, WriterReturnsCustody, Misjudge, TypeOK, CollectorTypeOK
<1>3. CASE Admit \/ AdmitAndLose
  <2>1. held' \in BOOLEAN /\ \E h \in BOOLEAN : Begin(h)
    BY <1>3 DEF Admit, AdmitAndLose, TypeOK
  <2>2. coll' \in Collection
    BY <2>1, BeginType
  <2>3. QED
    BY <1>3, <2>1, <2>2 DEF Admit, AdmitAndLose, TypeOK, CollectorTypeOK, Phases
<1>4. CASE BeforeEnds
  <2>1. before' \in {None, Collected}
    BY <1>4 DEF BeforeEnds
  <2>2. QED
    BY <1>4, <2>1, CollectedType DEF BeforeEnds, BinderStays, TypeOK, CollectorTypeOK, Phases
<1>5. CASE ReviewEnds
  BY <1>5, FinishType, ProceedType DEF ReviewEnds, Outcomes, Phases
<1>6. CASE VerifyHeld
  <2>1. CASE Finish("lost")
    BY <2>1, FinishType DEF Outcomes
  <2>2. CASE ~Finish("lost")
    BY <1>6, <2>2, BeginType DEF VerifyHeld, TypeOK, CollectorTypeOK, Phases
  <2>3. QED
    BY <2>1, <2>2
<1>7. CASE AfterEnds \/ VerifyHeldAgain \/ Bind
  <2>1. \/ \E step \in {"reverify", "bind"} : Proceed(step)
        \/ \E how \in {"after indeterminate", "mutated", "lost", "bound", "out of scope",
                        "not persisted"} : Finish(how)
    BY <1>7 DEF AfterEnds, VerifyHeldAgain, Bind
  <2>2. {"reverify", "bind"} \subseteq Phases
    BY DEF Phases
  <2>3. {"after indeterminate", "mutated", "lost", "bound", "out of scope", "not persisted"}
          \subseteq Outcomes
    BY DEF Outcomes
  <2>4. QED
    BY <2>1, <2>2, <2>3, FinishType, ProceedType
<1>8. CASE Stop
  <2>1. coll' \in Collection
    BY <1>8, BlankType DEF Stop, TypeOK, CollectorTypeOK, Answers
  <2>2. QED
    BY <1>8, <2>1 DEF Stop, TypeOK, CollectorTypeOK, Phases, Outcomes
<1>9. CASE Collecting
  <2>0. CollectorTypeOK /\ CollectorStep
    BY <1>9 DEF Collecting, TypeOK
  <2>1. CollectorTypeOK'
    <3>1. /\ coll' \in Collection /\ UNCHANGED <<repo, custody, writes>>
          /\ course' \in {course, <<repo>>}
      BY <2>0, CollectorStepType
    <3>2. course' \in Seq(Repository) /\ Len(course') > 0
      <4>1. repo \in Repository /\ course \in Seq(Repository) /\ Len(course) > 0
        BY <2>0 DEF CollectorTypeOK
      <4>2. <<repo>> \in Seq(Repository) /\ Len(<<repo>>) = 1
        BY <4>1
      <4>3. CASE course' = course
        BY <4>1, <4>3
      <4>4. CASE course' = <<repo>>
        BY <4>2, <4>4
      <4>5. QED
        BY <3>1, <4>3, <4>4
    <3>3. QED
      BY <2>0, <3>1, <3>2 DEF CollectorTypeOK
  <2>2. QED
    BY <1>9, <2>1 DEF Collecting, TypeOK
<1>10. CASE UNCHANGED vars
  BY <1>10 DEF vars, collectorVars, TypeOK, CollectorTypeOK
<1>11. QED
  BY <1>1, <1>2, <1>3, <1>4, <1>5, <1>6, <1>7, <1>8, <1>9, <1>10 DEF Next, BinderStep

-----------------------------------------------------------------------------
(* The slot.                                                               *)

LEMMA InitSlot == Init => SlotInv
BY DEF Init, CollectorInit, SlotInv

LEMMA NextKeepsSlotInv == SlotInv /\ [Next]_vars => SlotInv'
<1> SUFFICES ASSUME SlotInv, [Next]_vars PROVE SlotInv'
  OBVIOUS
<1> USE DEF SlotInv
<1>1. CASE \E who \in {"managed", "external"} : Write(who)
  <2>1. PICK who \in {"managed", "external"} : Write(who)
    BY <1>1
  <2>2. UNCHANGED <<phase, outcome, custody>>
    BY <2>1 DEF Write, AnyChange, WriteFile, MoveTarget, MoveHead, Change
  <2>3. "managed" \in wrote' => "managed" \in wrote \/ (who = "managed" /\ InInterval)
    BY <2>1 DEF Write
  <2>4. phase = "idle" => wrote' = wrote
    BY <2>1 DEF Write, InInterval
  <2>5. phase \in {"bind", "done"} => wrote' = wrote
    BY <2>1 DEF Write, InInterval
  <2>6. who = "managed" => custody # Review
    BY <2>1 DEF Write
  <2>7. QED
    BY <2>2, <2>3, <2>4, <2>5, <2>6
<1>2. CASE WriterSlot
  BY <1>2 DEF WriterSlot, WriterTakesCustody, WriterReturnsCustody
<1>3. CASE Misjudge
  BY <1>3 DEF Misjudge
<1>4. CASE Admit \/ AdmitAndLose
  BY <1>4 DEF Admit, AdmitAndLose
<1>5. CASE BeforeEnds
  BY <1>5 DEF BeforeEnds, BinderStays
<1>6. CASE ReviewEnds
  BY <1>6 DEF ReviewEnds, Finish, Proceed, BinderStays
<1>7. CASE VerifyHeld
  BY <1>7 DEF VerifyHeld, Finish, BinderStays
<1>8. CASE AfterEnds
  BY <1>8 DEF AfterEnds, Finish, Proceed, BinderStays
<1>9. CASE VerifyHeldAgain
  BY <1>9 DEF VerifyHeldAgain, StillHeld, Finish, Proceed, BinderStays
<1>10. CASE Bind
  BY <1>10 DEF Bind, Finish, BinderStays
<1>11. CASE Stop
  BY <1>11 DEF Stop
<1>12. CASE Collecting
  <2>1. UNCHANGED custody
    BY <1>12 DEF Collecting, CollectorStep, VerifyCustodyExpectation, ReadStatusSnapshot,
         ResolveTargetContext, ReadCleanSubmoduleHeads, StatFile, DigestFile, FilesRead,
         ReadStatusAgain, ResolveTargetAgain, ReadHeadsAgain, Refuse, Expire, Compare, Unstable,
         Collect, Answer
  <2>2. QED
    BY <1>12, <2>1 DEF Collecting
<1>13. CASE UNCHANGED vars
  BY <1>13 DEF vars, collectorVars
<1>14. QED
  BY <1>1, <1>2, <1>3, <1>4, <1>5, <1>6, <1>7, <1>8, <1>9, <1>10, <1>11, <1>12, <1>13
     DEF Next, BinderStep

-----------------------------------------------------------------------------
(* The collection.                                                         *)

\* A collection that has just begun, or has ended without an identity, has
\* observed nothing.
LEMMA FreshKeeps ==
    ASSUME coll'.pc \in {"off", "custody", "status"}, ~Exact',
           coll'.files = [p \in Paths |-> Clean], coll'.answer # "none" => coll'.pc = "off"
    PROVE  CollectionInv'
BY DEF CollectionInv, PastStatus, PastTarget, PastHead, PastFiles, Exact, Running

LEMMA AnswerKeeps == ASSUME NEW a, a # "exact", Answer(a) PROVE CollectionInv'
<1>1. /\ coll'.pc = "off" /\ coll'.answer = a /\ coll'.files = [p \in Paths |-> Clean]
  BY DEF Answer, Blank
<1>2. QED
  BY <1>1, FreshKeeps DEF Exact

LEMMA BeginKeeps == ASSUME NEW h, Begin(h) PROVE CollectionInv'
<1>1. coll'.pc = "custody" /\ coll'.answer = "none" /\ coll'.files = [p \in Paths |-> Clean]
  BY DEF Begin, Blank
<1>2. QED
  BY <1>1, FreshKeeps DEF Exact

LEMMA UnstableKeeps == ASSUME Unstable PROVE CollectionInv'
<1>1. CASE Collect(NextAttempt(coll))
  <2>1. coll'.pc = "status" /\ coll'.answer = "none" /\ coll'.files = [p \in Paths |-> Clean]
    BY <1>1 DEF Collect, NextAttempt, Blank
  <2>2. QED
    BY <2>1, FreshKeeps DEF Exact
<1>2. CASE Answer("unstable")
  BY <1>2, AnswerKeeps
<1>3. QED
  BY <1>1, <1>2 DEF Unstable

\* While nothing runs, changes leave the identity alone; while something runs,
\* they are recorded.
LEMMA ChangeKeeps ==
    ASSUME TypeOK, CollectionInv, AnyChange
    PROVE  CollectionInv'
<1>1. coll \in Collection /\ course \in Seq(Repository) /\ Len(course) > 0 /\ repo \in Repository
  BY DEF TypeOK, CollectorTypeOK
<1>2. PICK new \in Repository : Change(new)
  <2>1. CASE \E p \in Paths, text \in Texts \union {Clean} : WriteFile(p, text)
    BY <1>1, <2>1 DEF WriteFile, Repository
  <2>2. CASE (\E t \in Targets : MoveTarget(t)) \/ (\E h \in Heads : MoveHead(h))
    BY <1>1, <2>2 DEF MoveTarget, MoveHead, Repository
  <2>3. QED
    BY <2>1, <2>2 DEF AnyChange
<1>3. /\ coll'.pc = coll.pc /\ coll'.status = coll.status /\ coll'.target = coll.target
      /\ coll'.head = coll.head /\ coll'.files = coll.files /\ coll'.todo = coll.todo
      /\ coll'.answer = coll.answer
  BY <1>1 DEF AnyChange, WriteFile, MoveTarget, MoveHead, Collection
<1>4. CASE Running
  <2>1. course' = Append(course, new) /\ repo' = new
    BY <1>2, <1>4 DEF Change
  <2>2. Len(course') = Len(course) + 1 /\ course'[Len(course')] = new
    BY <1>1, <1>2, <2>1
  <2>3. ~Undisturbed' /\ course'[Len(course')] = repo'
    BY <1>1, <2>1, <2>2 DEF Undisturbed
  <2>4. QED
    BY <1>3, <2>3 DEF CollectionInv, PastStatus, PastTarget, PastHead, PastFiles, Running, Exact
<1>5. CASE ~Running
  <2>1. course' = course
    BY <1>2, <1>5 DEF Change
  <2>2. ~PastStatus /\ ~PastStatus' /\ ~Running'
    BY <1>3, <1>5 DEF PastStatus, Running
  <2>3. QED
    BY <1>3, <2>1, <2>2 DEF CollectionInv, PastTarget, PastHead, PastFiles, Exact, Collected,
                            Identity, Undisturbed, Start
<1>6. QED
  BY <1>4, <1>5

LEMMA CollectorKeeps ==
    ASSUME TypeOK, CollectionInv, CollectorStep
    PROVE  CollectionInv'
<1>1. coll \in Collection /\ course \in Seq(Repository) /\ Len(course) > 0 /\ repo \in Repository
  BY DEF TypeOK, CollectorTypeOK
<1>2. ~Exact /\ coll.answer = "none" /\ Running
  BY DEF CollectorStep, VerifyCustodyExpectation, ReadStatusSnapshot, ResolveTargetContext,
         ReadCleanSubmoduleHeads, StatFile, DigestFile, FilesRead, ReadStatusAgain,
         ResolveTargetAgain, ReadHeadsAgain, Refuse, Expire, Compare, At, Running,
         CollectionInv, Exact
<1>3. PastStatus /\ Undisturbed => Start = repo
  BY DEF CollectionInv, Undisturbed, Start
<1>4. CASE VerifyCustodyExpectation
  <2>1. Answer("lost") \/ Answer("busy") \/ Collect([coll EXCEPT !.pc = "status"])
    BY <1>4 DEF VerifyCustodyExpectation
  <2>2. CASE Collect([coll EXCEPT !.pc = "status"])
    <3>1. /\ coll'.pc = "status" /\ coll'.files = coll.files /\ coll'.answer = "none"
          /\ coll.pc = "custody"
      BY <1>1, <1>2, <1>4, <2>2 DEF VerifyCustodyExpectation, At, Collect, Collection
    <3>2. QED
      BY <1>2, <3>1 DEF CollectionInv, PastStatus, PastTarget, PastHead, PastFiles, Running, Exact
  <2>3. QED
    BY <2>1, <2>2, AnswerKeeps
<1>5. CASE ReadStatusSnapshot
  <2>1. /\ coll'.pc = "target" /\ coll'.status = Changed(repo) /\ coll'.files = coll.files
        /\ coll'.answer = "none" /\ coll.pc = "status" /\ course' = <<repo>> /\ repo' = repo
    BY <1>1, <1>2, <1>5 DEF ReadStatusSnapshot, At, Collection, Status, Changed
  <2>2. Start' = repo /\ course'[Len(course')] = repo'
    BY <2>1 DEF Start
  <2>3. QED
    BY <1>2, <2>1, <2>2 DEF CollectionInv, PastStatus, PastTarget, PastHead, PastFiles, Running,
                            Exact
<1>6. CASE ResolveTargetContext
  <2>1. /\ coll'.pc = "head" /\ coll'.status = coll.status /\ coll'.files = coll.files
        /\ coll'.target = repo.target
        /\ coll'.answer = "none" /\ coll.pc = "target" /\ UNCHANGED <<course, repo>>
    BY <1>1, <1>2, <1>6 DEF ResolveTargetContext, At, Collect, Collection
  <2>2. QED
    BY <1>2, <1>3, <2>1 DEF CollectionInv, PastStatus, PastTarget, PastHead, PastFiles, Running,
                            Exact, Start, Undisturbed
<1>7. CASE ReadCleanSubmoduleHeads
  <2>1. /\ coll'.pc = "files" /\ coll'.status = coll.status /\ coll'.files = coll.files
        /\ coll'.target = coll.target /\ coll'.head = repo.head /\ coll'.todo = coll.status
        /\ coll'.answer = "none" /\ coll.pc = "head" /\ UNCHANGED <<course, repo>>
    BY <1>1, <1>2, <1>7 DEF ReadCleanSubmoduleHeads, At, Collect, Collection
  <2>2. PastStatus /\ PastTarget /\ ~PastHead
    BY <2>1 DEF PastStatus, PastTarget, PastHead
  <2>3. Undisturbed => \A p \in Paths \ coll.status : coll.files[p] = Start.tree[p]
    BY <1>2, <2>2 DEF CollectionInv, Changed
  <2>4. QED
    BY <1>2, <1>3, <2>1, <2>2, <2>3 DEF CollectionInv, PastStatus, PastTarget, PastHead, PastFiles,
                                        Running, Exact, Start, Undisturbed
<1>8. CASE \E p \in Paths : StatFile(p)
  <2>1. /\ coll'.pc = "files" /\ coll'.status = coll.status /\ coll'.files = coll.files
        /\ coll'.target = coll.target /\ coll'.head = coll.head /\ coll'.todo = coll.todo
        /\ coll'.answer = "none" /\ coll.pc = "files" /\ UNCHANGED <<course, repo>>
    BY <1>1, <1>2, <1>8 DEF StatFile, At, Collect, Collection
  <2>2. QED
    BY <2>1 DEF CollectionInv, PastStatus, PastTarget, PastHead, PastFiles, Running, Exact, Start,
                Undisturbed
<1>9. CASE \E p \in Paths : DigestFile(p)
  <2>1. PICK p \in Paths : DigestFile(p)
    BY <1>9
  <2>2. CASE Collect([coll EXCEPT !.files[p] = repo.tree[p], !.todo = @ \ {p},
                                  !.reading = None, !.again = FALSE])
    <3>1. /\ coll'.pc = "files" /\ coll'.status = coll.status
          /\ coll'.files = [coll.files EXCEPT ![p] = repo.tree[p]]
          /\ coll'.target = coll.target /\ coll'.head = coll.head /\ coll'.todo = coll.todo \ {p}
          /\ coll'.answer = "none" /\ coll.pc = "files" /\ UNCHANGED <<course, repo>>
      BY <1>1, <1>2, <2>1, <2>2 DEF DigestFile, At, Collect, Collection
    <3>2. coll.files \in [Paths -> Texts \union {Clean}]
      BY <1>1 DEF Collection
    <3>3. PastHead /\ PastStatus
      BY <3>1 DEF PastHead, PastTarget, PastStatus
    <3>4. Undisturbed => \A q \in Paths \ coll'.todo : coll'.files[q] = Start.tree[q]
      BY <1>3, <3>1, <3>2, <3>3 DEF CollectionInv
    <3>5. QED
      BY <3>1, <3>3, <3>4 DEF CollectionInv, PastStatus, PastTarget, PastHead, PastFiles, Running,
                              Exact, Start, Undisturbed
  <2>3. CASE Collect([coll EXCEPT !.torn = FALSE, !.again = TRUE])
    <3>1. /\ coll'.pc = "files" /\ coll'.status = coll.status /\ coll'.files = coll.files
          /\ coll'.target = coll.target /\ coll'.head = coll.head /\ coll'.todo = coll.todo
          /\ coll'.answer = "none" /\ coll.pc = "files" /\ UNCHANGED <<course, repo>>
      BY <1>1, <1>2, <2>1, <2>3 DEF DigestFile, At, Collect, Collection
    <3>2. QED
      BY <3>1 DEF CollectionInv, PastStatus, PastTarget, PastHead, PastFiles, Running, Exact, Start,
                  Undisturbed
  <2>4. QED
    BY <2>1, <2>2, <2>3, UnstableKeeps DEF DigestFile
<1>10. CASE FilesRead
  <2>1. /\ coll'.pc = "status again" /\ coll'.status = coll.status /\ coll'.files = coll.files
        /\ coll'.target = coll.target /\ coll'.head = coll.head /\ coll'.todo = coll.todo
        /\ coll'.answer = "none" /\ coll.pc = "files" /\ coll.todo = {} /\ UNCHANGED <<course, repo>>
    BY <1>1, <1>2, <1>10 DEF FilesRead, At, Collect, Collection
  <2>2. QED
    BY <2>1 DEF CollectionInv, PastStatus, PastTarget, PastHead, PastFiles, Running, Exact, Start,
                Undisturbed
<1>11. CASE ReadStatusAgain \/ ResolveTargetAgain
  <2>1. CASE Unstable
    BY <2>1, UnstableKeeps
  <2>2. CASE ~Unstable
    <3>1. /\ coll.pc \in {"status again", "target again"}
          /\ coll'.pc \in {"target again", "head again"}
          /\ coll'.status = coll.status /\ coll'.files = coll.files
          /\ coll'.target = coll.target /\ coll'.head = coll.head /\ coll'.todo = coll.todo
          /\ coll'.answer = "none" /\ UNCHANGED <<course, repo>>
      BY <1>1, <1>2, <1>11, <2>2 DEF ReadStatusAgain, ResolveTargetAgain, Compare, At, Collect,
                                     Collection
    <3>2. QED
      BY <3>1 DEF CollectionInv, PastStatus, PastTarget, PastHead, PastFiles, Running, Exact, Start,
                  Undisturbed
  <2>3. QED
    BY <2>1, <2>2
<1>12. CASE ReadHeadsAgain
  <2>1. CASE Unstable
    BY <2>1, UnstableKeeps
  <2>2. CASE ~Unstable
    <3>1. /\ coll.pc = "head again" /\ coll'.pc = "off"
          /\ coll'.status = coll.status /\ coll'.files = coll.files
          /\ coll'.target = coll.target /\ coll'.head = coll.head
          /\ UNCHANGED <<course, repo>>
      BY <1>1, <1>12, <2>2 DEF ReadHeadsAgain, At, Collect, Collection
    <3>2. /\ PastStatus /\ PastTarget /\ PastHead /\ PastFiles
      BY <3>1 DEF PastStatus, PastTarget, PastHead, PastFiles
    <3>3. Undisturbed => Collected = Identity(Start)
      <4>1. SUFFICES ASSUME Undisturbed PROVE Collected = Identity(Start)
        OBVIOUS
      <4>2. /\ coll.status = {p \in Paths : Start.tree[p] # Clean}
            /\ coll.target = Start.target /\ coll.head = Start.head
            /\ \A p \in Paths : coll.files[p] = Start.tree[p]
        BY <3>2, <4>1 DEF CollectionInv, Changed
      <4>3. coll.files = [p \in Paths |-> Start.tree[p]]
        BY <1>1, <4>2 DEF Collection
      <4>4. QED
        BY <4>2, <4>3 DEF Collected, Identity
    <3>4. Collected' = Collected /\ Start' = Start /\ (Undisturbed' <=> Undisturbed)
      BY <3>1 DEF Collected, Start, Undisturbed
    <3>5. Identity(Start)' = Identity(Start)
      BY <3>4 DEF Identity
    <3>6. QED
      BY <3>1, <3>3, <3>4, <3>5 DEF CollectionInv, PastStatus, PastTarget, PastHead, PastFiles,
                                    Running
  <2>3. QED
    BY <2>1, <2>2
<1>13. CASE Refuse \/ Expire
  BY <1>13, AnswerKeeps DEF Refuse, Expire
<1>14. QED
  BY <1>4, <1>5, <1>6, <1>7, <1>8, <1>9, <1>10, <1>11, <1>12, <1>13 DEF CollectorStep

-----------------------------------------------------------------------------
(* The subject.                                                            *)

LEMMA NextKeepsSubjectInv ==
    ASSUME TypeOK, CollectionInv, SubjectInv, [Next]_vars
    PROVE  SubjectInv'
<1> USE DEF SubjectInv
<1>1. Exact => ~Running
  BY DEF CollectionInv, Exact
<1>2. CASE \E who \in {"managed", "external"} : Write(who)
  <2>1. UNCHANGED <<phase, before, outcome>>
    BY <1>2 DEF Write
  <2>2. coll \in Collection
    BY DEF TypeOK, CollectorTypeOK
  <2>3. /\ coll'.status = coll.status /\ coll'.target = coll.target /\ coll'.head = coll.head
        /\ coll'.files = coll.files /\ coll'.answer = coll.answer
    BY <1>2, <2>2 DEF Write, AnyChange, WriteFile, MoveTarget, MoveHead, Collection
  <2>4. QED
    BY <2>1, <2>3 DEF Exact, Collected
<1>3. CASE WriterSlot \/ Misjudge
  BY <1>3 DEF WriterSlot, WriterTakesCustody, WriterReturnsCustody, Misjudge, Exact, Collected
<1>4. CASE Admit \/ AdmitAndLose
  BY <1>4 DEF Admit, AdmitAndLose
<1>5. CASE BeforeEnds
  BY <1>5 DEF BeforeEnds, BinderStays
<1>6. CASE ReviewEnds
  BY <1>6 DEF ReviewEnds, Finish, Proceed, BinderStays
<1>7. CASE VerifyHeld
  BY <1>7 DEF VerifyHeld, Finish, BinderStays
<1>8. CASE AfterEnds
  BY <1>8 DEF AfterEnds, Finish, Proceed, BinderStays, Exact, Collected
<1>9. CASE VerifyHeldAgain
  BY <1>9 DEF VerifyHeldAgain, Finish, Proceed, BinderStays, Exact, Collected
<1>10. CASE Bind
  BY <1>10 DEF Bind, Finish, BinderStays, Exact, Collected
<1>11. CASE Stop
  BY <1>11 DEF Stop, Active
<1>12. CASE Collecting
  <2>1. Running
    BY <1>12 DEF Collecting, CollectorStep, VerifyCustodyExpectation, ReadStatusSnapshot,
         ResolveTargetContext, ReadCleanSubmoduleHeads, StatFile, DigestFile, FilesRead,
         ReadStatusAgain, ResolveTargetAgain, ReadHeadsAgain, Refuse, Expire, Compare, At, Running
  <2>2. QED
    BY <1>1, <1>12, <2>1 DEF Collecting
<1>13. CASE UNCHANGED vars
  BY <1>13 DEF vars, collectorVars, Exact, Collected
<1>14. QED
  BY <1>2, <1>3, <1>4, <1>5, <1>6, <1>7, <1>8, <1>9, <1>10, <1>11, <1>12, <1>13
     DEF Next, BinderStep

LEMMA NextKeepsCollectionInv ==
    ASSUME TypeOK, CollectionInv, [Next]_vars
    PROVE  CollectionInv'
<1>1. CASE \E who \in {"managed", "external"} : Write(who)
  BY <1>1, ChangeKeeps DEF Write
<1>2. CASE UNCHANGED <<repo, coll, course>>
  BY <1>2 DEF CollectionInv, PastStatus, PastTarget, PastHead, PastFiles, Running, Exact,
              Collected, Identity, Undisturbed, Start, Changed
<1>3. CASE Admit \/ AdmitAndLose
  BY <1>3, BeginKeeps DEF Admit, AdmitAndLose
<1>4. CASE VerifyHeld
  BY <1>2, <1>4, BeginKeeps DEF VerifyHeld, Finish, BinderStays
<1>5. CASE Stop
  <2>1. CASE Running
    <3>1. coll'.pc = "off" /\ coll'.answer = "expired" /\ coll'.files = [p \in Paths |-> Clean]
      BY <1>5, <2>1 DEF Stop, Blank
    <3>2. QED
      BY <3>1, FreshKeeps DEF Exact
  <2>2. CASE ~Running
    BY <1>2, <1>5, <2>2 DEF Stop
  <2>3. QED
    BY <2>1, <2>2
<1>6. CASE Collecting
  BY <1>6, CollectorKeeps DEF Collecting
<1>7. QED
  BY <1>1, <1>2, <1>3, <1>4, <1>5, <1>6
     DEF Next, BinderStep, WriterSlot, WriterTakesCustody, WriterReturnsCustody, Misjudge,
         BeforeEnds, ReviewEnds, AfterEnds, VerifyHeldAgain, Bind, Finish, Proceed, BinderStays,
         vars, collectorVars

-----------------------------------------------------------------------------
(* Blame.                                                                  *)

\* A collection nobody disturbs finds everything as it was.
LEMMA QuietCollection ==
    ASSUME TypeOK, CollectionInv, BlameInv, CollectorStep, wrote = {}
    PROVE  /\ ~coll'.torn /\ coll'.answer # "unstable"
           /\ PastStatus' => Undisturbed'
           /\ Exact' => PastStatus /\ UNCHANGED <<repo, course>>
<1>1. coll \in Collection
  BY DEF TypeOK, CollectorTypeOK
<1>2. ~coll.torn /\ ~Exact /\ coll.answer = "none" /\ (PastStatus => Undisturbed)
  BY <1>1 DEF BlameInv, CollectorStep, VerifyCustodyExpectation, ReadStatusSnapshot,
         ResolveTargetContext, ReadCleanSubmoduleHeads, StatFile, DigestFile, FilesRead,
         ReadStatusAgain, ResolveTargetAgain, ReadHeadsAgain, Refuse, Expire, Compare, At, Running,
         CollectionInv, Exact, Collection
<1>3. PastStatus => Start = repo
  BY <1>2 DEF CollectionInv, Undisturbed, Start
<1>4. CASE \E a \in {"lost", "busy", "refused", "expired"} : Answer(a)
  <2>1. ~coll'.torn /\ coll'.answer \in {"lost", "busy", "refused", "expired"} /\ coll'.pc = "off"
    BY <1>4 DEF Answer, Blank
  <2>2. QED
    BY <2>1 DEF PastStatus, Exact
<1>5. CASE ReadStatusSnapshot
  BY <1>1, <1>2, <1>5 DEF ReadStatusSnapshot, Collection, Undisturbed, Exact
<1>6. CASE \/ Collect([coll EXCEPT !.pc = "status"])
           \/ ResolveTargetContext \/ ReadCleanSubmoduleHeads \/ FilesRead
           \/ \E p \in Paths : StatFile(p)
  <2>1. /\ coll'.torn = coll.torn /\ coll'.answer = coll.answer /\ course' = course
        /\ coll'.pc = "status" \/ PastStatus
    BY <1>1, <1>6 DEF ResolveTargetContext, ReadCleanSubmoduleHeads, FilesRead, StatFile, At,
                      Collect, Collection, PastStatus
  <2>2. QED
    BY <1>2, <2>1 DEF PastStatus, Undisturbed, Exact
<1>7. CASE \E p \in Paths : DigestFile(p)
  <2>1. PICK p \in Paths : DigestFile(p)
    BY <1>7
  <2>2. /\ At("files")
        /\ Collect([coll EXCEPT !.files[p] = repo.tree[p], !.todo = @ \ {p},
                                !.reading = None, !.again = FALSE])
    BY <1>2, <2>1 DEF DigestFile
  <2>3. /\ coll'.torn = coll.torn /\ coll'.answer = coll.answer /\ course' = course /\ PastStatus
    BY <1>1, <2>2 DEF At, Collect, Collection, PastStatus
  <2>4. QED
    BY <1>2, <2>3 DEF Undisturbed, Exact
<1>8. CASE ReadStatusAgain \/ ResolveTargetAgain \/ ReadHeadsAgain
  <2>1. PastStatus /\ PastTarget /\ PastHead
    BY <1>8 DEF ReadStatusAgain, ResolveTargetAgain, ReadHeadsAgain, Compare, At, PastStatus,
                PastTarget, PastHead
  <2>2. Status = coll.status /\ repo.target = coll.target /\ repo.head = coll.head
    BY <1>2, <1>3, <2>1 DEF CollectionInv, Status, Changed
  <2>3. /\ UNCHANGED <<repo, course>> /\ coll'.torn = coll.torn
        /\ coll'.answer \in {coll.answer, "exact"}
    BY <1>1, <1>8, <2>2 DEF ReadStatusAgain, ResolveTargetAgain, ReadHeadsAgain, Compare, Collect,
                            Collection
  <2>4. QED
    BY <1>2, <2>1, <2>3 DEF Undisturbed
<1>9. QED
  BY <1>4, <1>5, <1>6, <1>7, <1>8 DEF CollectorStep, VerifyCustodyExpectation, Refuse, Expire

LEMMA CollectingKeepsBlame ==
    ASSUME TypeOK, CollectionInv, CollectionInv', BlameInv, Collecting
    PROVE  BlameInv'
<1>1. CollectorStep /\ UNCHANGED <<phase, held, before, outcome, wrote>> /\ coll \in Collection
  BY DEF Collecting, TypeOK, CollectorTypeOK
<1>2. Running /\ UNCHANGED repo
  BY <1>1 DEF CollectorStep, VerifyCustodyExpectation, ReadStatusSnapshot,
         ResolveTargetContext, ReadCleanSubmoduleHeads, StatFile, DigestFile, FilesRead,
         ReadStatusAgain, ResolveTargetAgain, ReadHeadsAgain, Refuse, Expire, Compare, Unstable,
         Collect, Answer, At, Running
<1>3. coll'.reading # None => coll'.pc = "files"
  <2>1. CASE \E p \in Paths : StatFile(p) \/ DigestFile(p)
    BY <1>1, <2>1 DEF StatFile, DigestFile, Unstable, Collect, Answer, NextAttempt, Blank, At,
                      Collection
  <2>2. CASE Unstable \/ \E a \in Answers : Answer(a)
    BY <2>2 DEF Unstable, Collect, Answer, NextAttempt, Blank
  <2>3. CASE ~(\E p \in Paths : StatFile(p) \/ DigestFile(p)) /\ ~Unstable
               /\ ~\E a \in Answers : Answer(a)
    <3>1. coll.reading = None
      BY <1>1, <2>3 DEF CollectorStep, VerifyCustodyExpectation, ReadStatusSnapshot,
         ResolveTargetContext, ReadCleanSubmoduleHeads, FilesRead, ReadStatusAgain,
         ResolveTargetAgain, ReadHeadsAgain, Refuse, Expire, Compare, At, BlameInv, Answers
    <3>2. coll'.reading = coll.reading
      BY <1>1, <2>3 DEF CollectorStep, VerifyCustodyExpectation, ReadStatusSnapshot,
         ResolveTargetContext, ReadCleanSubmoduleHeads, FilesRead, ReadStatusAgain,
         ResolveTargetAgain, ReadHeadsAgain, Refuse, Expire, Compare, Collect, Collection, Answers
    <3>3. QED
      BY <3>1, <3>2
  <2>4. QED
    BY <2>1, <2>2, <2>3
<1>4. CASE wrote # {}
  BY <1>1, <1>2, <1>3, <1>4 DEF BlameInv, MutationIsReal
<1>5. CASE wrote = {}
  <2>1. /\ ~coll'.torn /\ coll'.answer # "unstable" /\ (PastStatus' => Undisturbed')
        /\ Exact' => PastStatus /\ UNCHANGED <<repo, course>>
    BY <1>1, <1>5, QuietCollection
  <2>2. Exact' => Collected' = Identity(repo)
    <3>1. SUFFICES ASSUME Exact' PROVE Collected' = Identity(repo)
      OBVIOUS
    <3>2. Undisturbed /\ Start = repo /\ Undisturbed' /\ Start' = repo
      BY <1>5, <2>1, <3>1 DEF BlameInv, CollectionInv, Undisturbed, Start
    <3>3. Collected' = Identity(Start)'
      BY <3>1, <3>2 DEF CollectionInv
    <3>4. QED
      BY <3>2, <3>3 DEF Identity
  <2>3. phase = "after" => before = Identity(repo)
    BY <1>2, <1>5 DEF BlameInv, InInterval
  <2>4. Identity(repo)' = Identity(repo)
    BY <1>2 DEF Identity
  <2>5. outcome # "mutated"
    BY <1>5 DEF BlameInv, MutationIsReal
  <2>6. phase \in {"before", "after"}
    BY <1>2 DEF BlameInv
  <2>7. QED
    BY <1>1, <1>2, <1>3, <1>5, <2>1, <2>2, <2>3, <2>4, <2>5, <2>6
       DEF BlameInv, MutationIsReal, InInterval
<1>6. QED
  BY <1>4, <1>5

LEMMA WriteKeepsBlame ==
    ASSUME TypeOK, CollectionInv, BlameInv, NEW who, Write(who)
    PROVE  BlameInv'
<1>1. /\ UNCHANGED <<phase, held, before, outcome>> /\ coll \in Collection
      /\ wrote' = IF InInterval THEN wrote \union {who} ELSE wrote
  BY DEF Write, TypeOK, CollectorTypeOK
<1>2. /\ coll'.pc = coll.pc /\ coll'.status = coll.status /\ coll'.target = coll.target
      /\ coll'.head = coll.head /\ coll'.files = coll.files /\ coll'.answer = coll.answer
      /\ coll'.reading = coll.reading
      /\ coll'.torn => coll.torn \/ coll.reading \in Paths
  BY <1>1 DEF Write, AnyChange, WriteFile, MoveTarget, MoveHead, Collection
<1>3. CASE InInterval
  BY <1>1, <1>2, <1>3 DEF BlameInv, Running, MutationIsReal
<1>4. CASE ~InInterval
  <2>1. ~Running /\ phase \notin {"before", "review", "verify"}
    BY <1>4 DEF BlameInv, InInterval
  <2>2. coll'.torn => coll.torn
    BY <1>2, <2>1 DEF BlameInv, Running
  <2>3. QED
    BY <1>1, <1>2, <1>4, <2>1, <2>2
       DEF BlameInv, Running, MutationIsReal, PastStatus, InInterval, Exact, Collected
<1>5. QED
  BY <1>3, <1>4

LEMMA NextKeepsBlameInv ==
    ASSUME TypeOK, CollectionInv, CollectionInv', BlameInv, [Next]_vars
    PROVE  BlameInv'
<1>1. CASE \E who \in {"managed", "external"} : Write(who)
  BY <1>1, WriteKeepsBlame
<1>2. CASE WriterSlot \/ Misjudge \/ UNCHANGED vars
  BY <1>2 DEF WriterSlot, WriterTakesCustody, WriterReturnsCustody, Misjudge, vars, collectorVars,
     BlameInv, Running, MutationIsReal, PastStatus, InInterval, Exact, Collected, Identity,
     Undisturbed
<1>3. ASSUME NEW h, Begin(h)
      PROVE  /\ coll'.pc = "custody" /\ coll'.reading = None /\ ~coll'.torn /\ coll'.answer = "none"
             /\ ~PastStatus' /\ ~Exact' /\ Running'
  BY <1>3 DEF Begin, Blank, PastStatus, Exact, Running
<1>4. CASE Admit \/ AdmitAndLose
  <2>1. /\ phase' = "before" /\ UNCHANGED <<repo, outcome, wrote>>
        /\ \E h : Begin(h)
    BY <1>4 DEF Admit, AdmitAndLose
  <2>2. QED
    BY <1>3, <2>1 DEF BlameInv, MutationIsReal
<1>5. CASE BeforeEnds
  <2>1. /\ phase = "before" /\ phase' = "review" /\ ~Running /\ outcome' = outcome
        /\ before' = (IF Exact THEN Collected ELSE None) /\ UNCHANGED <<repo, coll, course, wrote>>
    BY <1>5 DEF BeforeEnds, BinderStays, CollectionInv
  <2>2. wrote = {} => before' \in {None, Identity(repo)'}
    BY <2>1 DEF BlameInv, Identity
  <2>3. QED
    BY <2>1, <2>2 DEF BlameInv, MutationIsReal, Running, PastStatus, Undisturbed
<1>6. ASSUME NEW how, how # "mutated" \/ wrote # {}, ~Running, Finish(how)
      PROVE  BlameInv'
  BY <1>6 DEF Finish, BinderStays, BlameInv, Running, MutationIsReal, PastStatus, Undisturbed
<1>7. ASSUME NEW step, step \in {"verify", "reverify", "bind"}, ~Running, Proceed(step),
             step = "verify" => phase = "review" /\ before # None
      PROVE  BlameInv'
  BY <1>7 DEF Proceed, BinderStays, BlameInv, Running, MutationIsReal, PastStatus, Undisturbed,
              InInterval, Identity
<1>8. CASE ReviewEnds
  <2>1. ~Running
    BY <1>8 DEF ReviewEnds, BlameInv
  <2>2. \/ \E how \in Outcomes \ {"mutated"} : Finish(how)
        \/ phase = "review" /\ before # None /\ Proceed("verify")
    BY <1>8 DEF ReviewEnds, Outcomes
  <2>3. QED
    BY <1>6, <1>7, <2>1, <2>2
<1>9. CASE VerifyHeld
  <2>1. ~Running
    BY <1>9 DEF VerifyHeld, BlameInv
  <2>2. CASE Finish("lost")
    BY <1>6, <2>1, <2>2
  <2>3. CASE ~Finish("lost")
    <3>1. /\ phase = "verify" /\ phase' = "after" /\ UNCHANGED <<repo, before, outcome, wrote>>
          /\ Begin(TRUE)
      BY <1>9, <2>3 DEF VerifyHeld
    <3>2. /\ before # None /\ (wrote = {} => before \in {None, Identity(repo)})
      BY <3>1 DEF BlameInv, InInterval
    <3>3. Identity(repo)' = Identity(repo)
      BY <3>1 DEF Identity
    <3>4. QED
      BY <1>3, <3>1, <3>2, <3>3 DEF BlameInv, MutationIsReal
  <2>4. QED
    BY <2>2, <2>3
<1>10. CASE AfterEnds
  <2>1. ~Running /\ phase = "after"
    BY <1>10 DEF AfterEnds, CollectionInv
  <2>2. \/ Finish("after indeterminate") \/ Proceed("reverify")
        \/ Exact /\ Collected # before /\ Finish("mutated")
    BY <1>10 DEF AfterEnds
  <2>3. Exact /\ Collected # before => wrote # {}
    BY <2>1 DEF BlameInv
  <2>4. QED
    BY <1>6, <1>7, <2>1, <2>2, <2>3
<1>11. CASE VerifyHeldAgain \/ Bind
  <2>1. ~Running
    BY <1>11 DEF VerifyHeldAgain, Bind, BlameInv
  <2>2. \/ \E how \in {"lost", "bound", "out of scope", "not persisted"} : Finish(how)
        \/ Proceed("bind")
    BY <1>11 DEF VerifyHeldAgain, Bind
  <2>3. QED
    BY <1>6, <1>7, <2>1, <2>2
<1>12. CASE Stop
  <2>1. phase' = "done" /\ outcome' = "stopped" /\ UNCHANGED <<repo, course, wrote>>
        /\ IF Running THEN coll' = [Blank EXCEPT !.answer = "expired"] ELSE UNCHANGED coll
    BY <1>12 DEF Stop
  <2>2. CASE Running
    <3>1. coll'.pc = "off" /\ coll'.reading = None /\ ~coll'.torn /\ coll'.answer = "expired"
      BY <2>1, <2>2 DEF Blank
    <3>2. QED
      BY <2>1, <3>1 DEF BlameInv, MutationIsReal, Running, PastStatus
  <2>3. CASE ~Running
    BY <2>1, <2>3 DEF BlameInv, MutationIsReal, Running, PastStatus, Undisturbed
  <2>4. QED
    BY <2>2, <2>3
<1>13. CASE Collecting
  BY <1>13, CollectingKeepsBlame
<1>14. QED
  BY <1>1, <1>2, <1>4, <1>5, <1>8, <1>9, <1>10, <1>11, <1>12, <1>13 DEF Next, BinderStep

-----------------------------------------------------------------------------
(* The theorems.                                                           *)

LEMMA InitIsIInv == Init => IInv
<1> SUFFICES ASSUME Init PROVE IInv
  OBVIOUS
<1>1. /\ coll.pc = "off" /\ coll.answer = "none" /\ coll.reading = None /\ ~coll.torn
      /\ coll.files = [p \in Paths |-> Clean]
  BY DEF Init, CollectorInit, Blank
<1>2. CollectionInv
  BY <1>1 DEF CollectionInv, PastStatus, PastTarget, PastHead, PastFiles, Exact, Running
<1>3. SubjectInv /\ BlameInv
  BY <1>1 DEF Init, SubjectInv, BlameInv, PastStatus, Exact, Running, MutationIsReal
<1>4. QED
  BY <1>2, <1>3, InitType, InitSlot DEF IInv

LEMMA NextKeepsIInv == IInv /\ [Next]_vars => IInv'
BY NextType, NextKeepsSlotInv, NextKeepsCollectionInv, NextKeepsSubjectInv, NextKeepsBlameInv
   DEF IInv

LEMMA SpecIInv == Spec => []IInv
BY InitIsIInv, NextKeepsIInv, PTL DEF Spec

\* Every variable keeps to its type; in particular no collection makes more than
\* MAX_COLLECTION_ATTEMPTS attempts.
THEOREM TypeCorrectness == Spec => []TypeOK
BY SpecIInv, PTL DEF IInv

\* A receipt is bound only if no managed writer changed the repository between
\* the admission of the review and the end of its collection AFTER, even if its
\* custody was wrongly taken from it at any point: verifyStillHeld cannot be
\* fooled by a slot that was lost and is free again.
THEOREM BoundReviewWasAlone == Spec => []BoundIntervalHeld
BY SpecIInv, PTL DEF IInv, SlotInv, BoundIntervalHeld

\* A bound receipt is of what the reviewer was shown, and that is what the
\* repository said when the attempt that collected it began, unless somebody
\* changed the repository since.
THEOREM SubjectIsCurrent == Spec => []BoundSubjectIsCurrent
<1>1. TypeOK /\ CollectionInv /\ SubjectInv => BoundSubjectIsCurrent
  <2>1. SUFFICES ASSUME CollectionInv, SubjectInv, outcome = "bound", course = <<repo>>
                 PROVE  before = Identity(repo)
    BY DEF BoundSubjectIsCurrent
  <2>2. Undisturbed /\ Start = repo
    BY <2>1 DEF Undisturbed, Start
  <2>3. QED
    BY <2>1, <2>2 DEF CollectionInv, SubjectInv
<1>2. QED
  BY <1>1, SpecIInv, PTL DEF IInv

\* A review is called mutated, and a collection unstable, only if somebody wrote.
THEOREM NobodyIsBlamed == Spec => []MutationIsReal
<1>1. BlameInv => MutationIsReal
  BY DEF BlameInv
<1>2. QED
  BY <1>1, SpecIInv, PTL DEF IInv

-----------------------------------------------------------------------------
(* The instant.  Each look of an exact collection is of some moment of its  *)
(* last attempt, and the moments are in the order of the looks.  What is    *)
(* looked at twice and changed at most once between did not change at all,  *)
(* and of what changed once every look shows the one or the other; one of   *)
(* the two was there when everything else was as collected.                 *)

\* Whatever differs between two moments changed at some moment between them.
Steady(f, n) ==
    \A i, j \in 1..n : i <= j /\ f[i] # f[j] => \E k \in i..(j - 1) : f[k] # f[k + 1]

Trees == [i \in 1..Len(course) |-> course[i].tree]
Aims == [i \in 1..Len(course) |-> course[i].target]
Tips == [i \in 1..Len(course) |-> course[i].head]

Looked == PastStatus \/ Exact

\* No change is of two files.
OneFileEach ==
    \A k \in 1..(Len(course) - 1) : \A p, q \in Paths :
        \/ p = q
        \/ course[k].tree[p] = course[k + 1].tree[p]
        \/ course[k].tree[q] = course[k + 1].tree[q]

ShowsStatusOf(i) == \A p \in Paths : p \in coll.status <=> course[i].tree[p] # Clean

\* The moments of the looks, in the order of collector.mjs: the target at a, the
\* head at b, each file from b to c, the status again at c, the target at d and
\* the head at e.  A look that is still to come may have any moment yet.
Seen(a, b, c, d, e) ==
    /\ a <= b /\ b <= c /\ c <= d /\ d <= e
    /\ Looked => ShowsStatusOf(1)
    /\ PastTarget \/ Exact => course[a].target = coll.target
    /\ PastHead \/ Exact =>
         /\ course[b].head = coll.head
         /\ \A p \in Paths :
              \/ p \in coll.todo
              \/ p \notin coll.status /\ coll.files[p] = Clean
              \/ \E i \in b..c : course[i].tree[p] = coll.files[p]
    /\ coll.pc \in {"target again", "head again"} \/ Exact => ShowsStatusOf(c)
    /\ coll.pc = "head again" \/ Exact => course[d].target = coll.target
    /\ Exact => course[e].head = coll.head /\ coll.todo = {}

SteadyCourse ==
    Steady(Trees, Len(course)) /\ Steady(Aims, Len(course)) /\ Steady(Tips, Len(course))

SeenInv ==
    /\ Looked => OneFileEach
    /\ \E a, b, c, d, e \in 1..Len(course) : Seen(a, b, c, d, e)

InstantInv == SteadyCourse /\ SeenInv

LEMMA SteadyGrows ==
    ASSUME NEW n \in Nat, NEW f, NEW g, Steady(f, n), \A i \in 1..n : g[i] = f[i]
    PROVE  Steady(g, n + 1)
<1> SUFFICES ASSUME NEW i \in 1..(n + 1), NEW j \in 1..(n + 1), i <= j, g[i] # g[j]
             PROVE  \E k \in i..(j - 1) : g[k] # g[k + 1]
  BY DEF Steady
<1>1. i < j /\ i \in 1..n
  OBVIOUS
<1>2. ASSUME NEW l \in 1..n, i <= l, g[i] # g[l]
      PROVE  \E k \in i..(l - 1) : g[k] # g[k + 1]
  <2>1. PICK k \in i..(l - 1) : f[k] # f[k + 1]
    BY <1>1, <1>2 DEF Steady
  <2>2. k \in 1..n /\ k + 1 \in 1..n
    BY <1>1, <1>2, <2>1
  <2>3. QED
    BY <2>1, <2>2
<1>3. CASE j <= n
  BY <1>2, <1>3
<1>4. CASE j = n + 1 /\ g[n] # g[n + 1]
  <2>1. n \in i..(j - 1)
    BY <1>1, <1>4
  <2>2. QED
    BY <1>4, <2>1
<1>5. CASE j = n + 1 /\ g[n] = g[n + 1]
  <2>1. n \in 1..n /\ i <= n /\ g[i] # g[n]
    BY <1>1, <1>5
  <2>2. PICK k \in i..(n - 1) : g[k] # g[k + 1]
    BY <1>2, <2>1
  <2>3. k \in i..(j - 1)
    BY <1>5, <2>2
  <2>4. QED
    BY <2>2, <2>3
<1>6. QED
  BY <1>3, <1>4, <1>5

LEMMA OneChange ==
    ASSUME NEW n \in Nat, NEW f, Cardinality({k \in 1..(n - 1) : f[k] # f[k + 1]}) <= 1,
           NEW i \in 1..(n - 1), NEW j \in 1..(n - 1), f[i] # f[i + 1], f[j] # f[j + 1]
    PROVE  i = j
<1> DEFINE S == {k \in 1..(n - 1) : f[k] # f[k + 1]}
<1>1. IsFiniteSet(S)
  <2>1. IsFiniteSet(1..(n - 1))
    BY FS_Interval
  <2>2. QED
    BY <2>1, FS_Subset
<1>2. {i, j} \subseteq S
  OBVIOUS
<1>3. SUFFICES ASSUME i # j PROVE FALSE
  OBVIOUS
<1>4. IsFiniteSet({i}) /\ Cardinality({i}) = 1
  BY FS_Singleton
<1>5. Cardinality({i} \union {j}) = 2
  <2>1. j \notin {i}
    BY <1>3
  <2>2. Cardinality({i} \union {j}) = IF j \in {i} THEN Cardinality({i}) ELSE Cardinality({i}) + 1
    BY <1>4, FS_AddElement, Zenon
  <2>3. Cardinality({i} \union {j}) = Cardinality({i}) + 1
    BY <2>1, <2>2, Zenon
  <2>4. QED
    BY <1>4, <2>3
<1>6. {i} \union {j} \subseteq S /\ Cardinality(S) \in Nat
  BY <1>1, <1>2, FS_CardinalityType
<1>7. Cardinality({i} \union {j}) <= Cardinality(S)
  BY <1>1, <1>6, FS_Subset
<1>8. QED
  BY <1>5, <1>6, <1>7

\* In between there is nothing else: what changed once is first the one, then
\* the other.
LEMMA FirstOneThenOther ==
    ASSUME NEW n \in Nat, NEW f, Steady(f, n),
           Cardinality({k \in 1..(n - 1) : f[k] # f[k + 1]}) <= 1
    PROVE  \A i, j, l \in 1..n : i <= j /\ j <= l => f[j] = f[i] \/ f[j] = f[l]
<1> SUFFICES ASSUME NEW i \in 1..n, NEW j \in 1..n, NEW l \in 1..n, i <= j, j <= l,
                    f[j] # f[i], f[j] # f[l]
             PROVE  FALSE
  OBVIOUS
<1>1. PICK k \in i..(j - 1) : f[k] # f[k + 1]
  BY DEF Steady
<1>2. PICK m \in j..(l - 1) : f[m] # f[m + 1]
  BY DEF Steady
<1>3. k \in 1..(n - 1) /\ m \in 1..(n - 1) /\ k # m
  BY <1>1, <1>2
<1>4. QED
  BY <1>1, <1>2, <1>3, OneChange

LEMMA TheChange ==
    ASSUME NEW n \in Nat, NEW f, Steady(f, n),
           Cardinality({k \in 1..(n - 1) : f[k] # f[k + 1]}) <= 1
    PROVE  \A i, j \in 1..n : i <= j /\ f[i] # f[j] =>
             \E k \in 1..(n - 1) : f[k] = f[i] /\ f[k + 1] = f[j]
<1> SUFFICES ASSUME NEW i \in 1..n, NEW j \in 1..n, i <= j, f[i] # f[j]
             PROVE  \E k \in 1..(n - 1) : f[k] = f[i] /\ f[k + 1] = f[j]
  OBVIOUS
<1>1. PICK k \in i..(j - 1) : f[k] # f[k + 1]
  BY DEF Steady
<1>2. k \in 1..(n - 1) /\ k \in 1..n /\ k + 1 \in 1..n /\ i <= k /\ k + 1 <= j
  BY <1>1
<1>3. f[k] = f[i]
  <2>1. SUFFICES ASSUME f[i] # f[k] PROVE FALSE
    OBVIOUS
  <2>2. PICK m \in i..(k - 1) : f[m] # f[m + 1]
    BY <1>2, <2>1 DEF Steady
  <2>3. m \in 1..(n - 1) /\ m # k
    BY <1>2, <2>2
  <2>4. QED
    BY <1>1, <1>2, <2>2, <2>3, OneChange
<1>4. f[k + 1] = f[j]
  <2>1. SUFFICES ASSUME f[k + 1] # f[j] PROVE FALSE
    OBVIOUS
  <2>2. PICK m \in (k + 1)..(j - 1) : f[m] # f[m + 1]
    BY <1>2, <2>1 DEF Steady
  <2>3. m \in 1..(n - 1) /\ m # k
    BY <1>2, <2>2
  <2>4. QED
    BY <1>1, <1>2, <2>2, <2>3, OneChange
<1>5. QED
  BY <1>2, <1>3, <1>4

LEMMA SeenExisted ==
    ASSUME TypeOK, InstantInv, Exact, NEW n, n = Len(course),
           Cardinality({k \in 1..(n - 1) : course[k].tree # course[k + 1].tree}) <= 1,
           Cardinality({k \in 1..(n - 1) : course[k].target # course[k + 1].target}) <= 1,
           Cardinality({k \in 1..(n - 1) : course[k].head # course[k + 1].head}) <= 1
    PROVE  \E i \in 1..n : Collected = Identity(course[i])
<1>1. /\ coll.files \in [Paths -> Texts \union {Clean}] /\ coll.status \subseteq Paths /\ course \in Seq(Repository)
      /\ n \in Nat /\ n > 0
  BY DEF TypeOK, CollectorTypeOK, Collection
<1>2. n \in Nat
  BY <1>1
<1>3. \A k \in 1..n : Trees[k] = course[k].tree /\ Aims[k] = course[k].target
                        /\ Tips[k] = course[k].head
  BY DEF Trees, Aims, Tips
<1>4. /\ Cardinality({k \in 1..(n - 1) : Trees[k] # Trees[k + 1]}) <= 1
      /\ Cardinality({k \in 1..(n - 1) : Aims[k] # Aims[k + 1]}) <= 1
      /\ Cardinality({k \in 1..(n - 1) : Tips[k] # Tips[k + 1]}) <= 1
  <2>1. \A k \in 1..(n - 1) : k \in 1..n /\ k + 1 \in 1..n
    BY <1>1
  <2>2. /\ {k \in 1..(n - 1) : Trees[k] # Trees[k + 1]}
             = {k \in 1..(n - 1) : course[k].tree # course[k + 1].tree}
        /\ {k \in 1..(n - 1) : Aims[k] # Aims[k + 1]}
             = {k \in 1..(n - 1) : course[k].target # course[k + 1].target}
        /\ {k \in 1..(n - 1) : Tips[k] # Tips[k + 1]}
             = {k \in 1..(n - 1) : course[k].head # course[k + 1].head}
    BY <1>3, <2>1
  <2>3. QED
    BY <2>2
<1>5. Steady(Trees, n) /\ Steady(Aims, n) /\ Steady(Tips, n) /\ OneFileEach
  BY DEF InstantInv, SteadyCourse, SeenInv, Looked
<1>t. /\ \A i, j, l \in 1..n : i <= j /\ j <= l => Trees[j] = Trees[i] \/ Trees[j] = Trees[l]
      /\ \A i, j \in 1..n : i <= j /\ Trees[i] # Trees[j] =>
           \E k \in 1..(n - 1) : Trees[k] = Trees[i] /\ Trees[k + 1] = Trees[j]
  <2>1. Steady(Trees, n) /\ Cardinality({k \in 1..(n - 1) : Trees[k] # Trees[k + 1]}) <= 1
    BY <1>4, <1>5
  <2>2. \A i, j, l \in 1..n : i <= j /\ j <= l => Trees[j] = Trees[i] \/ Trees[j] = Trees[l]
    BY <1>2, <2>1, FirstOneThenOther
  <2>3. \A i, j \in 1..n : i <= j /\ Trees[i] # Trees[j] =>
          \E k \in 1..(n - 1) : Trees[k] = Trees[i] /\ Trees[k + 1] = Trees[j]
    BY <1>2, <2>1, TheChange
  <2>4. QED
    BY <2>2, <2>3
<1>a. \A i, j, l \in 1..n : i <= j /\ j <= l => Aims[j] = Aims[i] \/ Aims[j] = Aims[l]
  BY <1>2, <1>4, <1>5, FirstOneThenOther
<1>h. \A i, j, l \in 1..n : i <= j /\ j <= l => Tips[j] = Tips[i] \/ Tips[j] = Tips[l]
  BY <1>2, <1>4, <1>5, FirstOneThenOther
<1>6. PICK a, b, c, d, e \in 1..n : Seen(a, b, c, d, e)
  BY DEF InstantInv, SeenInv
<1>7. /\ a <= b /\ b <= c /\ c <= d /\ d <= e
      /\ ShowsStatusOf(1) /\ ShowsStatusOf(c)
      /\ course[a].target = coll.target /\ course[d].target = coll.target
      /\ course[b].head = coll.head /\ course[e].head = coll.head
      /\ \A p \in Paths : \/ p \notin coll.status /\ coll.files[p] = Clean
                          \/ \E i \in b..c : course[i].tree[p] = coll.files[p]
  BY <1>6 DEF Seen, Looked
<1>8. \A i \in 1..n : b <= i /\ i <= c => course[i].target = coll.target /\ course[i].head = coll.head
  <2>1. SUFFICES ASSUME NEW i \in 1..n, b <= i, i <= c
                 PROVE  course[i].target = coll.target /\ course[i].head = coll.head
    OBVIOUS
  <2>2. a <= i /\ i <= d /\ i <= e
    BY <1>7, <2>1
  <2>3. Aims[i] = Aims[a] \/ Aims[i] = Aims[d]
    BY <2>2, <1>a
  <2>4. Tips[i] = Tips[b] \/ Tips[i] = Tips[e]
    BY <2>1, <2>2, <1>h
  <2>5. QED
    BY <1>3, <1>7, <2>3, <2>4
<1>9. \A i \in 1..n : b <= i /\ i <= c => course[i].tree = course[b].tree \/ course[i].tree = course[c].tree
  <2>1. SUFFICES ASSUME NEW i \in 1..n, b <= i, i <= c
                 PROVE  course[i].tree = course[b].tree \/ course[i].tree = course[c].tree
    OBVIOUS
  <2>2. Trees[i] = Trees[b] \/ Trees[i] = Trees[c]
    BY <2>1, <1>t
  <2>3. QED
    BY <1>3, <2>2
<1>10. ShowsStatusOf(b)
  <2>1. 1 \in 1..n /\ 1 <= b
    BY <1>1
  <2>2. Trees[b] = Trees[1] \/ Trees[b] = Trees[c]
    <3>1. b <= c
      BY <1>7
    <3>2. QED
      BY <2>1, <3>1, <1>t
  <2>3. course[b].tree = course[1].tree \/ course[b].tree = course[c].tree
    BY <1>3, <2>1, <2>2
  <2>4. QED
    BY <1>7, <2>3 DEF ShowsStatusOf
<1>11. \A p \in Paths : coll.files[p] = course[b].tree[p] \/ coll.files[p] = course[c].tree[p]
  <2>1. SUFFICES ASSUME NEW p \in Paths
                 PROVE  coll.files[p] = course[b].tree[p] \/ coll.files[p] = course[c].tree[p]
    OBVIOUS
  <2>2. CASE p \notin coll.status /\ coll.files[p] = Clean
    BY <1>10, <2>2 DEF ShowsStatusOf
  <2>3. CASE \E i \in b..c : course[i].tree[p] = coll.files[p]
    <3>1. PICK i \in b..c : course[i].tree[p] = coll.files[p]
      BY <2>3
    <3>2. i \in 1..n /\ b <= i /\ i <= c
      BY <1>1, <3>1
    <3>3. QED
      BY <1>9, <3>1, <3>2
  <2>4. QED
    BY <1>7, <2>2, <2>3
<1>12. \A p, q \in Paths : p = q \/ course[b].tree[p] = course[c].tree[p]
                                  \/ course[b].tree[q] = course[c].tree[q]
  <2>1. CASE course[b].tree = course[c].tree
    BY <2>1
  <2>2. CASE course[b].tree # course[c].tree
    <3>1. Trees[b] # Trees[c]
      BY <1>3, <2>2
    <3>2. PICK k \in 1..(n - 1) : Trees[k] = Trees[b] /\ Trees[k + 1] = Trees[c]
      <4>1. b <= c
        BY <1>7
      <4>2. QED
        BY <3>1, <4>1, <1>t
    <3>3. k \in 1..n /\ k + 1 \in 1..n
      BY <1>1, <3>2
    <3>4. course[k].tree = course[b].tree /\ course[k + 1].tree = course[c].tree
      BY <1>3, <3>2, <3>3
    <3>5. QED
      BY <1>5, <3>2, <3>4 DEF OneFileEach
  <2>3. QED
    BY <2>1, <2>2
<1>13. \E m \in {b, c} : \A p \in Paths : coll.files[p] = course[m].tree[p]
  <2>1. CASE \A p \in Paths : coll.files[p] = course[c].tree[p]
    BY <2>1
  <2>2. CASE \E p \in Paths : coll.files[p] # course[c].tree[p]
    <3>1. PICK p \in Paths : coll.files[p] # course[c].tree[p]
      BY <2>2
    <3>2. \A q \in Paths : coll.files[q] = course[b].tree[q]
      BY <1>11, <1>12, <3>1
    <3>3. QED
      BY <3>2
  <2>3. QED
    BY <2>1, <2>2
<1>14. PICK m \in {b, c} : \A p \in Paths : coll.files[p] = course[m].tree[p]
  BY <1>13
<1>15. m \in 1..n /\ b <= m /\ m <= c
  BY <1>7, <1>14
<1>16. /\ course[m].target = coll.target /\ course[m].head = coll.head
       /\ coll.status = {p \in Paths : course[m].tree[p] # Clean}
  <2>1. ShowsStatusOf(m) /\ coll.status \subseteq Paths
    BY <1>1, <1>7, <1>10, <1>14
  <2>2. QED
    BY <1>8, <1>15, <2>1 DEF ShowsStatusOf
<1>17. coll.files = [p \in Paths |-> course[m].tree[p]]
  BY <1>1, <1>14
<1>18. Collected = Identity(course[m])
  BY <1>16, <1>17 DEF Collected, Identity
<1>19. QED
  BY <1>15, <1>18

LEMMA InstantIsExactExisted ==
    ASSUME TypeOK, InstantInv PROVE ExactExisted
<1>1. SUFFICES ASSUME Exact, Changes(LAMBDA r : r.tree) <= 1, Changes(LAMBDA r : r.target) <= 1,
                      Changes(LAMBDA r : r.head) <= 1
               PROVE  \E i \in 1..Len(course) : Collected = Identity(course[i])
  BY DEF ExactExisted
<1>2. Cardinality({i \in 1..(Len(course) - 1) : course[i].tree # course[i + 1].tree}) <= 1
  BY <1>1 DEF Changes
<1>3. Cardinality({i \in 1..(Len(course) - 1) : course[i].target # course[i + 1].target}) <= 1
  BY <1>1 DEF Changes
<1>4. Cardinality({i \in 1..(Len(course) - 1) : course[i].head # course[i + 1].head}) <= 1
  BY <1>1 DEF Changes
<1>5. QED
  BY <1>1, <1>2, <1>3, <1>4, SeenExisted

\* Every step leaves the course, starts it again or adds to it.
LEMMA CourseMoves ==
    ASSUME TypeOK, [Next]_vars
    PROVE  \/ course' = course \/ course' = <<repo>>
           \/ \E new \in Repository : course' = Append(course, new)
<1>1. repo \in Repository
  BY DEF TypeOK, CollectorTypeOK
<1>2. CASE \E who \in {"managed", "external"} : Write(who)
  <2>1. CASE \E p \in Paths, text \in Texts \union {Clean} : WriteFile(p, text)
    BY <1>1, <2>1 DEF WriteFile, Change, Repository
  <2>2. CASE (\E t \in Targets : MoveTarget(t)) \/ (\E h \in Heads : MoveHead(h))
    BY <1>1, <2>2 DEF MoveTarget, MoveHead, Change, Repository
  <2>3. QED
    BY <1>2, <2>1, <2>2 DEF Write, AnyChange
<1>3. CASE Collecting
  BY <1>3 DEF Collecting, CollectorStep, VerifyCustodyExpectation, ReadStatusSnapshot,
         ResolveTargetContext, ReadCleanSubmoduleHeads, StatFile, DigestFile, FilesRead,
         ReadStatusAgain, ResolveTargetAgain, ReadHeadsAgain, Refuse, Expire, Compare, Unstable,
         Collect, Answer
<1>4. CASE ~Collecting /\ ~\E who \in {"managed", "external"} : Write(who)
  BY <1>4 DEF Next, WriterSlot, WriterTakesCustody, WriterReturnsCustody, Misjudge, Admit,
     AdmitAndLose, BinderStep, BeforeEnds, ReviewEnds, VerifyHeld, AfterEnds, VerifyHeldAgain, Bind,
     Finish, Proceed, BinderStays, Stop, vars, collectorVars
<1>5. QED
  BY <1>2, <1>3, <1>4

LEMMA NextKeepsSteady ==
    ASSUME TypeOK, SteadyCourse, [Next]_vars
    PROVE  SteadyCourse'
<1>1. course \in Seq(Repository) /\ Len(course) \in Nat
  BY DEF TypeOK, CollectorTypeOK
<1>2. CASE course' = course
  BY <1>2 DEF SteadyCourse, Trees, Aims, Tips
<1>3. CASE course' = <<repo>>
  <2>1. Len(course') = 1
    BY <1>3
  <2>2. \A f : Steady(f, 1)
    BY DEF Steady
  <2>3. QED
    BY <2>1, <2>2 DEF SteadyCourse
<1>4. CASE \E new \in Repository : course' = Append(course, new)
  <2>1. /\ Len(course') = Len(course) + 1
        /\ \A i \in 1..Len(course) : i \in 1..Len(course') /\ course'[i] = course[i]
    BY <1>1, <1>4
  <2>2. \A i \in 1..Len(course) : Trees'[i] = Trees[i] /\ Aims'[i] = Aims[i] /\ Tips'[i] = Tips[i]
    BY <2>1 DEF Trees, Aims, Tips
  <2>3. Steady(Trees', Len(course) + 1)
    BY <1>1, <2>2, SteadyGrows DEF SteadyCourse
  <2>4. Steady(Aims', Len(course) + 1)
    BY <1>1, <2>2, SteadyGrows DEF SteadyCourse
  <2>5. Steady(Tips', Len(course) + 1)
    BY <1>1, <2>2, SteadyGrows DEF SteadyCourse
  <2>6. QED
    BY <2>1, <2>3, <2>4, <2>5 DEF SteadyCourse
<1>5. QED
  BY <1>2, <1>3, <1>4, CourseMoves

\* Before its status an attempt has seen nothing.
LEMMA NothingSeen ==
    ASSUME TypeOK', ~PastStatus', ~Exact'
    PROVE  SeenInv'
<1>1. PICK m \in Nat : m \in 1..Len(course')
  <2>1. 1 \in 1..Len(course')
    BY DEF TypeOK, CollectorTypeOK
  <2>2. QED
    BY <2>1
<1>2. ~Looked' /\ ~PastTarget' /\ ~PastHead' /\ ~Exact'
  BY DEF Looked, PastTarget, PastHead
<1>3. coll'.pc # "target again" /\ coll'.pc # "head again"
  BY DEF PastStatus
<1>4. Seen(m, m, m, m, m)'
  <2>1. m <= m
    OBVIOUS
  <2>2. (coll.pc \in {"target again", "head again"} => ShowsStatusOf(m))'
    BY <1>3
  <2>3. (coll.pc = "head again" => course[m].target = coll.target)'
    BY <1>3
  <2>4. QED
    BY <1>2, <2>1, <2>2, <2>3 DEF Seen
<1>5. QED
  BY <1>1, <1>2, <1>4 DEF SeenInv

LEMMA ChangeKeepsSeen ==
    ASSUME TypeOK, TypeOK', CollectionInv, SeenInv, AnyChange
    PROVE  SeenInv'
<1>1. coll \in Collection /\ course \in Seq(Repository) /\ Len(course) > 0 /\ repo \in Repository
  BY DEF TypeOK, CollectorTypeOK
<1>2. PICK new \in Repository :
        /\ Change(new)
        /\ \A p, q \in Paths : p = q \/ new.tree[p] = repo.tree[p] \/ new.tree[q] = repo.tree[q]
  <2>1. CASE \E p \in Paths, text \in Texts \union {Clean} : WriteFile(p, text)
    <3>1. PICK p \in Paths, text \in Texts \union {Clean} : WriteFile(p, text)
      BY <2>1
    <3>2. PICK new : new = [repo EXCEPT !.tree[p] = text]
      OBVIOUS
    <3>3. new \in Repository /\ \A q \in Paths : q # p => new.tree[q] = repo.tree[q]
      BY <1>1, <3>2 DEF Repository
    <3>4. Change(new)
      BY <3>1, <3>2 DEF WriteFile
    <3>5. QED
      BY <3>3, <3>4
  <2>2. CASE \E t \in Targets : MoveTarget(t)
    <3>1. PICK t \in Targets : MoveTarget(t)
      BY <2>2
    <3>2. PICK new : new = [repo EXCEPT !.target = t]
      OBVIOUS
    <3>3. new \in Repository /\ new.tree = repo.tree
      BY <1>1, <3>2 DEF Repository
    <3>4. Change(new)
      BY <3>1, <3>2 DEF MoveTarget
    <3>5. QED
      BY <3>3, <3>4
  <2>3. CASE \E h \in Heads : MoveHead(h)
    <3>1. PICK h \in Heads : MoveHead(h)
      BY <2>3
    <3>2. PICK new : new = [repo EXCEPT !.head = h]
      OBVIOUS
    <3>3. new \in Repository /\ new.tree = repo.tree
      BY <1>1, <3>2 DEF Repository
    <3>4. Change(new)
      BY <3>1, <3>2 DEF MoveHead
    <3>5. QED
      BY <3>3, <3>4
  <2>4. QED
    BY <2>1, <2>2, <2>3 DEF AnyChange
<1>3. /\ coll'.pc = coll.pc /\ coll'.status = coll.status /\ coll'.target = coll.target
      /\ coll'.head = coll.head /\ coll'.files = coll.files /\ coll'.todo = coll.todo
      /\ coll'.answer = coll.answer
  BY <1>1 DEF AnyChange, WriteFile, MoveTarget, MoveHead, Collection
<1>4. CASE ~Running
  <2>1. course' = course
    BY <1>2, <1>4 DEF Change
  <2>2. /\ Looked' <=> Looked
        /\ (PastTarget \/ Exact)' <=> PastTarget \/ Exact
        /\ (PastHead \/ Exact)' <=> PastHead \/ Exact
        /\ Exact' <=> Exact
    BY <1>3 DEF Looked, PastStatus, PastTarget, PastHead, Exact
  <2>3. PICK a, b, c, d, e \in 1..Len(course) : Seen(a, b, c, d, e)
    BY DEF SeenInv
  <2>4. Seen(a, b, c, d, e)'
    BY <1>3, <2>1, <2>2, <2>3 DEF Seen, ShowsStatusOf
  <2>5. OneFileEach' <=> OneFileEach
    BY <2>1 DEF OneFileEach
  <2>6. QED
    BY <2>1, <2>2, <2>3, <2>4, <2>5 DEF SeenInv
<1>5. CASE Running /\ ~PastStatus
  <2>1. ~PastStatus' /\ ~Exact'
    BY <1>3, <1>5 DEF CollectionInv, PastStatus, Exact
  <2>2. QED
    BY <2>1, NothingSeen
<1>6. CASE PastStatus
  <2>1. ~Exact /\ ~Exact' /\ course' = Append(course, new) /\ course[Len(course)] = repo
    BY <1>2, <1>3, <1>6 DEF CollectionInv, PastStatus, Running, Exact, Change
  <2>2. /\ Len(course') = Len(course) + 1 /\ course'[Len(course) + 1] = new
        /\ \A i \in 1..Len(course) : i \in 1..Len(course') /\ course'[i] = course[i]
    BY <1>1, <2>1
  <2>3. OneFileEach'
    <3>1. SUFFICES ASSUME NEW k \in 1..(Len(course') - 1), NEW p \in Paths, NEW q \in Paths, p # q,
                          course'[k].tree[p] # course'[k + 1].tree[p]
                   PROVE  course'[k].tree[q] = course'[k + 1].tree[q]
      BY DEF OneFileEach
    <3>2. CASE k = Len(course)
      <4>1. course'[k] = repo /\ course'[k + 1] = new
        BY <1>1, <2>1, <2>2, <3>2
      <4>2. QED
        BY <1>2, <3>1, <4>1
    <3>3. CASE k # Len(course)
      <4>1. k \in 1..(Len(course) - 1) /\ course'[k] = course[k] /\ course'[k + 1] = course[k + 1]
        BY <1>1, <2>2, <3>1, <3>3
      <4>2. QED
        BY <1>6, <3>1, <4>1 DEF SeenInv, Looked, OneFileEach
    <3>4. QED
      BY <3>2, <3>3
  <2>4. PICK a, b, c, d, e \in 1..Len(course) : Seen(a, b, c, d, e)
    BY DEF SeenInv
  <2>5. \A i \in b..c : i \in 1..Len(course) /\ course'[i] = course[i]
    BY <1>1, <2>2
  <2>6. /\ course'[a] = course[a] /\ course'[b] = course[b] /\ course'[c] = course[c]
        /\ course'[d] = course[d] /\ course'[e] = course[e] /\ course'[1] = course[1]
    BY <1>1, <2>2
  <2>7. Seen(a, b, c, d, e)'
    <3>1. /\ Looked' <=> Looked
          /\ (PastTarget \/ Exact)' <=> PastTarget \/ Exact
          /\ (PastHead \/ Exact)' <=> PastHead \/ Exact
      BY <1>3 DEF Looked, PastStatus, PastTarget, PastHead, Exact
    <3>2. /\ a <= b /\ b <= c /\ c <= d /\ d <= e
          /\ (Looked => ShowsStatusOf(1))'
          /\ (PastTarget \/ Exact => course[a].target = coll.target)'
          /\ (PastHead \/ Exact => course[b].head = coll.head)'
          /\ (coll.pc \in {"target again", "head again"} => ShowsStatusOf(c))'
          /\ (coll.pc = "head again" => course[d].target = coll.target)'
      BY <1>3, <2>1, <2>4, <2>6, <3>1 DEF Seen, ShowsStatusOf
    <3>3. ASSUME (PastHead \/ Exact)', NEW p \in Paths
          PROVE  \/ p \in coll'.todo
                 \/ p \notin coll'.status /\ coll'.files[p] = Clean
                 \/ \E i \in b..c : course'[i].tree[p] = coll'.files[p]
      BY <1>3, <2>4, <2>5, <3>1, <3>3 DEF Seen
    <3>4. QED
      BY <2>1, <3>2, <3>3 DEF Seen
  <2>8. QED
    BY <2>2, <2>3, <2>4, <2>7 DEF SeenInv
<1>7. QED
  BY <1>4, <1>5, <1>6 DEF Running, PastStatus

\* Where the looks that are still to come may have any moment, they may have
\* the present one.
LEMMA CollectorKeepsSeen ==
    ASSUME TypeOK, TypeOK', CollectionInv, SeenInv, CollectorStep
    PROVE  SeenInv'
<1>1. coll \in Collection /\ course \in Seq(Repository) /\ Len(course) > 0 /\ repo \in Repository
  BY DEF TypeOK, CollectorTypeOK
<1>2. coll.answer = "none" /\ ~Exact
  BY DEF CollectorStep, VerifyCustodyExpectation, ReadStatusSnapshot, ResolveTargetContext,
         ReadCleanSubmoduleHeads, StatFile, DigestFile, FilesRead, ReadStatusAgain,
         ResolveTargetAgain, ReadHeadsAgain, Refuse, Expire, Compare, At, Running,
         CollectionInv, Exact
<1>3. PICK a, b, c, d, e \in 1..Len(course) : Seen(a, b, c, d, e)
  BY DEF SeenInv
<1>4. PICK n \in 1..Len(course) : n = Len(course)
  BY <1>1
<1>5. /\ PastStatus => course[n] = repo /\ OneFileEach
      /\ n \in Nat /\ a \in Nat /\ b \in Nat /\ c \in Nat /\ d \in Nat /\ e \in Nat
      /\ a <= b /\ b <= c /\ c <= d /\ d <= e /\ e <= n
  <2>1. PastStatus => course[n] = repo /\ OneFileEach
    BY <1>4 DEF CollectionInv, SeenInv, Looked
  <2>2. a <= b /\ b <= c /\ c <= d /\ d <= e
    BY <1>3 DEF Seen
  <2>3. /\ n \in Nat /\ a \in Nat /\ b \in Nat /\ c \in Nat /\ d \in Nat /\ e \in Nat
        /\ e <= n
    BY <1>1, <1>4
  <2>4. QED
    BY <2>1, <2>2, <2>3
<1>6. ASSUME PastStatus, course' = course,
             NEW h \in 1..Len(course), NEW i \in 1..Len(course), NEW j \in 1..Len(course),
             NEW k \in 1..Len(course), NEW l \in 1..Len(course), Seen(h, i, j, k, l)'
      PROVE  SeenInv'
  <2>1. OneFileEach'
    BY <1>5, <1>6 DEF OneFileEach
  <2>2. QED
    BY <1>6, <2>1 DEF SeenInv
<1>7. CASE \E how \in {"lost", "busy", "refused", "expired"} : Answer(how)
  <2>1. coll'.pc = "off" /\ coll'.answer \in {"lost", "busy", "refused", "expired"}
    BY <1>7 DEF Answer, Blank
  <2>2. QED
    BY <2>1, NothingSeen DEF PastStatus, Exact
<1>8. CASE Unstable
  <2>1. coll'.pc \in {"off", "status"} /\ coll'.answer # "exact"
    BY <1>8 DEF Unstable, Collect, NextAttempt, Answer, Blank
  <2>2. QED
    BY <2>1, NothingSeen DEF PastStatus, Exact
<1>9. CASE Collect([coll EXCEPT !.pc = "status"])
  <2>1. coll'.pc = "status" /\ coll'.answer = "none"
    BY <1>1, <1>2, <1>9 DEF Collect, Collection
  <2>2. QED
    BY <2>1, NothingSeen DEF PastStatus, Exact
<1>10. CASE ReadStatusSnapshot
  <2>1. /\ coll'.pc = "target" /\ coll'.status = Status /\ coll'.answer = "none"
        /\ course' = <<repo>>
    BY <1>1, <1>2, <1>10 DEF ReadStatusSnapshot, Collection
  <2>2. PICK m \in Nat : m = 1
    OBVIOUS
  <2>3. Len(course') = 1 /\ course'[m] = repo /\ m \in 1..Len(course') /\ m <= m
    BY <2>1, <2>2
  <2>4. ~PastTarget' /\ ~PastHead' /\ ~Exact'
    BY <2>1 DEF PastTarget, PastHead, Exact
  <2>5. ShowsStatusOf(1)'
    BY <2>1, <2>2, <2>3 DEF ShowsStatusOf, Status
  <2>6. /\ (coll.pc \in {"target again", "head again"} => ShowsStatusOf(m))'
        /\ (coll.pc = "head again" => course[m].target = coll.target)'
    BY <2>1
  <2>7. Seen(m, m, m, m, m)'
    BY <2>3, <2>4, <2>5, <2>6 DEF Seen
  <2>8. OneFileEach'
    BY <2>3 DEF OneFileEach
  <2>9. QED
    BY <2>3, <2>7, <2>8 DEF SeenInv
<1>11. CASE ResolveTargetContext
  <2>1. /\ coll.pc = "target" /\ coll'.pc = "head" /\ coll'.answer = "none"
        /\ coll'.status = coll.status /\ coll'.target = repo.target /\ course' = course
    BY <1>1, <1>2, <1>11 DEF ResolveTargetContext, At, Collect, Collection
  <2>2. PastStatus /\ ~PastHead' /\ ~Exact'
    BY <2>1 DEF PastStatus, PastHead, Exact
  <2>3. ShowsStatusOf(1)' /\ (course[n].target = coll.target)'
    BY <1>3, <1>5, <2>1, <2>2 DEF Seen, ShowsStatusOf, Looked
  <2>4. /\ (coll.pc \in {"target again", "head again"} => ShowsStatusOf(n))'
        /\ (coll.pc = "head again" => course[n].target = coll.target)'
    BY <2>1
  <2>5. n <= n
    BY <1>5
  <2>6. Seen(n, n, n, n, n)'
    BY <2>2, <2>3, <2>4, <2>5 DEF Seen
  <2>7. QED
    BY <1>4, <1>6, <2>1, <2>2, <2>6
<1>12. CASE ReadCleanSubmoduleHeads
  <2>1. /\ coll.pc = "head" /\ coll'.pc = "files" /\ coll'.answer = "none"
        /\ coll'.status = coll.status /\ coll'.target = coll.target /\ coll'.head = repo.head
        /\ coll'.files = coll.files /\ coll'.todo = coll.status /\ course' = course
    BY <1>1, <1>2, <1>12 DEF ReadCleanSubmoduleHeads, At, Collect, Collection
  <2>2. PastStatus /\ PastTarget /\ ~PastHead /\ Running /\ ~Exact'
    BY <2>1 DEF PastStatus, PastTarget, PastHead, Exact, Running
  <2>3. /\ ShowsStatusOf(1)' /\ (course[a].target = coll.target)'
        /\ (course[n].head = coll.head)'
    BY <1>3, <1>5, <2>1, <2>2 DEF Seen, ShowsStatusOf, Looked
  <2>4. \A p \in Paths : p \in coll'.todo \/ (p \notin coll'.status /\ coll'.files[p] = Clean)
    BY <2>1, <2>2 DEF CollectionInv
  <2>5. /\ (coll.pc \in {"target again", "head again"} => ShowsStatusOf(n))'
        /\ (coll.pc = "head again" => course[n].target = coll.target)'
    BY <2>1
  <2>6. a <= n /\ n <= n
    BY <1>5
  <2>7. Seen(a, n, n, n, n)'
    BY <2>2, <2>3, <2>4, <2>5, <2>6 DEF Seen
  <2>8. QED
    BY <1>4, <1>6, <2>1, <2>2, <2>7
<1>13. ASSUME coll.pc = "files", PastHead', ~Exact',
              coll'.status = coll.status, coll'.target = coll.target, coll'.head = coll.head,
              coll'.files = coll.files, coll'.todo = coll.todo, course' = course,
              coll'.pc \in {"files", "status again"}
       PROVE  SeenInv'
  <2>1. PastStatus /\ PastTarget /\ PastHead
    BY <1>13 DEF PastStatus, PastTarget, PastHead
  <2>2. /\ ShowsStatusOf(1)' /\ (course[a].target = coll.target)'
        /\ (course[b].head = coll.head)'
    BY <1>3, <1>13, <2>1 DEF Seen, ShowsStatusOf, Looked
  <2>3. \A p \in Paths : \/ p \in coll'.todo
                         \/ p \notin coll'.status /\ coll'.files[p] = Clean
                         \/ \E i \in b..c : course'[i].tree[p] = coll'.files[p]
    BY <1>3, <1>13, <2>1 DEF Seen
  <2>4. /\ (coll.pc \in {"target again", "head again"} => ShowsStatusOf(c))'
        /\ (coll.pc = "head again" => course[d].target = coll.target)'
    BY <1>13
  <2>5. Seen(a, b, c, d, e)'
    BY <1>5, <1>13, <2>2, <2>3, <2>4 DEF Seen
  <2>6. QED
    BY <1>3, <1>6, <1>13, <2>1, <2>5
<1>14. CASE FilesRead \/ \E p \in Paths : StatFile(p)
  <2>1. /\ coll.pc = "files" /\ coll'.pc \in {"files", "status again"} /\ coll'.answer = "none"
        /\ coll'.status = coll.status /\ coll'.target = coll.target /\ coll'.head = coll.head
        /\ coll'.files = coll.files /\ coll'.todo = coll.todo /\ course' = course
    BY <1>1, <1>2, <1>14 DEF FilesRead, StatFile, At, Collect, Collection
  <2>2. PastHead' /\ ~Exact'
    BY <2>1 DEF PastStatus, PastTarget, PastHead, Exact
  <2>3. QED
    BY <1>13, <2>1, <2>2
<1>15. CASE \E p \in Paths : DigestFile(p)
  <2>1. PICK p \in Paths : DigestFile(p)
    BY <1>15
  <2>2. CASE Collect([coll EXCEPT !.torn = FALSE, !.again = TRUE])
    <3>1. /\ coll.pc = "files" /\ coll'.pc = "files" /\ coll'.answer = "none"
          /\ coll'.status = coll.status /\ coll'.target = coll.target /\ coll'.head = coll.head
          /\ coll'.files = coll.files /\ coll'.todo = coll.todo /\ course' = course
      BY <1>1, <1>2, <2>1, <2>2 DEF DigestFile, At, Collect, Collection
    <3>2. PastHead' /\ ~Exact'
      BY <3>1 DEF PastStatus, PastTarget, PastHead, Exact
    <3>3. QED
      BY <1>13, <3>1, <3>2
  <2>3. CASE Collect([coll EXCEPT !.files[p] = repo.tree[p], !.todo = @ \ {p},
                                  !.reading = None, !.again = FALSE])
    <3>1. /\ coll.pc = "files" /\ coll'.pc = "files" /\ coll'.answer = "none"
          /\ coll'.status = coll.status /\ coll'.target = coll.target /\ coll'.head = coll.head
          /\ coll'.files = [coll.files EXCEPT ![p] = repo.tree[p]]
          /\ coll'.todo = coll.todo \ {p} /\ course' = course
      BY <1>1, <1>2, <2>1, <2>3 DEF DigestFile, At, Collect, Collection
    <3>2. PastStatus /\ PastTarget /\ PastHead /\ ~Exact'
      BY <3>1 DEF PastStatus, PastTarget, PastHead, Exact
    <3>3. /\ ShowsStatusOf(1)' /\ (course[a].target = coll.target)'
          /\ (course[b].head = coll.head)'
      BY <1>3, <3>1, <3>2 DEF Seen, ShowsStatusOf, Looked
    <3>4. b <= n /\ n <= n /\ a <= b /\ n \in b..n /\ \A i \in b..c : i \in b..n
      BY <1>5
    <3>5. ASSUME NEW q \in Paths
          PROVE  \/ q \in coll'.todo
                 \/ q \notin coll'.status /\ coll'.files[q] = Clean
                 \/ \E i \in b..n : course'[i].tree[q] = coll'.files[q]
      <4>1. CASE q = p
        <5>1. coll'.files[q] = course'[n].tree[q]
          BY <1>1, <1>5, <3>1, <3>2, <4>1 DEF Collection
        <5>2. QED
          BY <3>4, <5>1
      <4>2. CASE q # p
        <5>1. coll'.files[q] = coll.files[q] /\ (q \in coll.todo => q \in coll'.todo)
          BY <1>1, <3>1, <4>2 DEF Collection
        <5>2. \/ q \in coll.todo
              \/ q \notin coll.status /\ coll.files[q] = Clean
              \/ \E i \in b..c : course[i].tree[q] = coll.files[q]
          BY <1>3, <3>2 DEF Seen
        <5>3. QED
          BY <3>1, <3>4, <5>1, <5>2
      <4>3. QED
        BY <4>1, <4>2
    <3>6. /\ (coll.pc \in {"target again", "head again"} => ShowsStatusOf(n))'
          /\ (coll.pc = "head again" => course[n].target = coll.target)'
      BY <3>1
    <3>7. Seen(a, b, n, n, n)'
      BY <3>2, <3>3, <3>4, <3>5, <3>6 DEF Seen
    <3>8. QED
      BY <1>4, <1>6, <3>1, <3>2, <3>7
  <2>4. QED
    BY <1>8, <2>1, <2>2, <2>3 DEF DigestFile
<1>16. CASE (ReadStatusAgain \/ ResolveTargetAgain \/ ReadHeadsAgain) /\ ~Unstable
  <2>1. /\ coll'.status = coll.status /\ coll'.target = coll.target /\ coll'.head = coll.head
        /\ coll'.files = coll.files /\ coll'.todo = coll.todo /\ course' = course
        /\ coll.pc \in {"status again", "target again", "head again"}
    BY <1>1, <1>16 DEF ReadStatusAgain, ResolveTargetAgain, ReadHeadsAgain, Compare, At, Collect,
                       Collection
  <2>2. PastStatus /\ PastTarget /\ PastHead /\ coll.todo = {}
    BY <2>1 DEF PastStatus, PastTarget, PastHead, PastFiles, CollectionInv
  <2>3. /\ ShowsStatusOf(1)' /\ (course[a].target = coll.target)'
        /\ (course[b].head = coll.head)'
    BY <1>3, <2>1, <2>2 DEF Seen, ShowsStatusOf, Looked
  <2>4. b <= n /\ c <= n /\ d <= n /\ n <= n /\ \A i \in b..c : i \in b..n
    BY <1>5
  <2>5. \A p \in Paths : \/ p \notin coll'.status /\ coll'.files[p] = Clean
                         \/ \E i \in b..c : course'[i].tree[p] = coll'.files[p]
    BY <1>3, <2>1, <2>2 DEF Seen
  <2>6. CASE ReadStatusAgain
    <3>1. coll'.pc = "target again" /\ coll'.answer = "none" /\ Status = coll.status
      BY <1>1, <1>2, <1>16, <2>6 DEF ReadStatusAgain, Compare, Collect, Collection
    <3>2. ShowsStatusOf(n)' /\ ~Exact' /\ coll'.pc # "head again"
      BY <1>5, <2>1, <2>2, <3>1 DEF ShowsStatusOf, Status, Exact
    <3>3. \A p \in Paths : \/ p \notin coll'.status /\ coll'.files[p] = Clean
                           \/ \E i \in b..n : course'[i].tree[p] = coll'.files[p]
      BY <2>4, <2>5
    <3>4. Seen(a, b, n, n, n)'
      BY <1>5, <2>3, <2>4, <3>2, <3>3 DEF Seen
    <3>5. QED
      BY <1>4, <1>6, <2>1, <2>2, <3>4
  <2>7. CASE ResolveTargetAgain
    <3>1. coll.pc = "target again" /\ coll'.answer = "none" /\ repo.target = coll.target
      BY <1>1, <1>2, <1>16, <2>7 DEF ResolveTargetAgain, Compare, At, Collect, Collection
    <3>2. ShowsStatusOf(c)' /\ ~Exact' /\ (course[n].target = coll.target)'
      BY <1>3, <1>5, <2>1, <2>2, <3>1 DEF Seen, ShowsStatusOf, Exact
    <3>3. Seen(a, b, c, n, n)'
      BY <1>5, <2>3, <2>4, <2>5, <3>2 DEF Seen
    <3>4. QED
      BY <1>4, <1>6, <2>1, <2>2, <3>3
  <2>8. CASE ReadHeadsAgain
    <3>1. coll.pc = "head again" /\ repo.head = coll.head
      BY <1>16, <2>8 DEF ReadHeadsAgain, At
    <3>2. /\ ShowsStatusOf(c)' /\ (course[d].target = coll.target)'
          /\ (course[n].head = coll.head)' /\ coll'.todo = {}
      BY <1>3, <1>5, <2>1, <2>2, <3>1 DEF Seen, ShowsStatusOf
    <3>3. Seen(a, b, c, d, n)'
      BY <1>5, <2>3, <2>4, <2>5, <3>2 DEF Seen
    <3>4. QED
      BY <1>4, <1>6, <2>1, <2>2, <3>3
  <2>9. QED
    BY <1>16, <2>6, <2>7, <2>8
<1>17. QED
  BY <1>7, <1>8, <1>9, <1>10, <1>11, <1>12, <1>14, <1>15, <1>16
     DEF CollectorStep, VerifyCustodyExpectation, Refuse, Expire

LEMMA NextKeepsSeen ==
    ASSUME TypeOK, TypeOK', CollectionInv, SeenInv, [Next]_vars
    PROVE  SeenInv'
<1>1. CASE \E who \in {"managed", "external"} : Write(who)
  BY <1>1, ChangeKeepsSeen DEF Write
<1>2. CASE Collecting
  BY <1>2, CollectorKeepsSeen DEF Collecting
<1>3. CASE UNCHANGED <<coll, course>>
  <2>1. /\ Looked' <=> Looked
        /\ (PastTarget \/ Exact)' <=> PastTarget \/ Exact
        /\ (PastHead \/ Exact)' <=> PastHead \/ Exact
        /\ Exact' <=> Exact
    BY <1>3 DEF Looked, PastStatus, PastTarget, PastHead, Exact
  <2>2. PICK a, b, c, d, e \in 1..Len(course) : Seen(a, b, c, d, e)
    BY DEF SeenInv
  <2>3. Seen(a, b, c, d, e)'
    BY <1>3, <2>1, <2>2 DEF Seen, ShowsStatusOf
  <2>4. OneFileEach' <=> OneFileEach
    BY <1>3 DEF OneFileEach
  <2>5. QED
    BY <1>3, <2>1, <2>2, <2>3, <2>4 DEF SeenInv
<1>4. CASE \E h \in BOOLEAN : Begin(h)
  <2>1. coll'.pc = "custody" /\ coll'.answer = "none"
    BY <1>4 DEF Begin, Blank
  <2>2. QED
    BY <2>1, NothingSeen DEF PastStatus, Exact
<1>5. CASE coll' = [Blank EXCEPT !.answer = "expired"]
  <2>1. coll'.pc = "off" /\ coll'.answer = "expired"
    BY <1>5 DEF Blank
  <2>2. QED
    BY <2>1, NothingSeen DEF PastStatus, Exact
<1>6. CASE ~Collecting /\ ~\E who \in {"managed", "external"} : Write(who)
  <2>1. \/ UNCHANGED <<coll, course>> \/ \E h \in BOOLEAN : Begin(h)
        \/ coll' = [Blank EXCEPT !.answer = "expired"]
    BY <1>6 DEF Next, WriterSlot, WriterTakesCustody, WriterReturnsCustody, Misjudge, Admit,
       AdmitAndLose, BinderStep, BeforeEnds, ReviewEnds, VerifyHeld, AfterEnds, VerifyHeldAgain,
       Bind, Finish, Proceed, BinderStays, Stop, vars, collectorVars
  <2>2. QED
    BY <1>3, <1>4, <1>5, <2>1
<1>7. QED
  BY <1>1, <1>2, <1>6

LEMMA SpecInstantInv == Spec => []InstantInv
<1>1. Init => InstantInv
  <2>1. SUFFICES ASSUME Init PROVE InstantInv
    OBVIOUS
  <2>2. Len(course) = 1 /\ coll.pc = "off" /\ coll.answer = "none"
    BY <2>1 DEF Init, CollectorInit, Blank
  <2>3. \A f : Steady(f, 1)
    BY DEF Steady
  <2>4. SteadyCourse
    BY <2>2, <2>3 DEF SteadyCourse
  <2>5. ~Looked /\ ~PastTarget /\ ~PastHead /\ ~Exact
    BY <2>2 DEF Looked, PastStatus, PastTarget, PastHead, Exact
  <2>6. PICK m \in Nat : m = 1
    OBVIOUS
  <2>7. m \in 1..Len(course) /\ m <= m
    BY <2>2, <2>6
  <2>8. Seen(m, m, m, m, m)
    BY <2>2, <2>5, <2>7 DEF Seen
  <2>9. QED
    BY <2>4, <2>5, <2>7, <2>8 DEF InstantInv, SeenInv
<1>2. IInv /\ IInv' /\ InstantInv /\ [Next]_vars => InstantInv'
  BY NextKeepsSteady, NextKeepsSeen DEF InstantInv, IInv
<1>3. QED
  BY <1>1, <1>2, SpecIInv, PTL DEF Spec

\* An exact identity is that of a repository that existed at one instant of the
\* attempt that collected it, however the looks and the writes fall, if meanwhile
\* at most one file was written and target and head moved at most once each: the
\* order of the looks in collector.mjs:36-48 is enough for that.
THEOREM ExactIdentityExisted == Spec => []ExactExisted
<1>1. IInv /\ InstantInv => ExactExisted
  BY InstantIsExactExisted DEF IInv
<1>2. QED
  BY <1>1, SpecIInv, SpecInstantInv, PTL

\* So is what a receipt is bound to: the reviewer was shown a repository that
\* existed, and it is that of the last collection, under the same proviso.
THEOREM BoundSubjectExisted ==
    Spec => [](outcome = "bound" /\ Changes(LAMBDA r : r.tree) <= 1
                 /\ Changes(LAMBDA r : r.target) <= 1 /\ Changes(LAMBDA r : r.head) <= 1
               => \E i \in 1..Len(course) : before = Identity(course[i]))
<1>1. IInv /\ ExactExisted =>
        (outcome = "bound" /\ Changes(LAMBDA r : r.tree) <= 1
           /\ Changes(LAMBDA r : r.target) <= 1 /\ Changes(LAMBDA r : r.head) <= 1
         => \E i \in 1..Len(course) : before = Identity(course[i]))
  <2>1. IInv /\ outcome = "bound" => Exact /\ before = Collected
    BY DEF IInv, SubjectInv
  <2>2. QED
    BY <2>1 DEF ExactExisted, Changes
<1>2. QED
  BY <1>1, SpecIInv, ExactIdentityExisted, PTL
=============================================================================
