---------------------- MODULE SupervisedProcess_proofs ----------------------
(***************************************************************************)
(* Proofs about SupervisedProcess, for every length of the grace and of    *)
(* the time reserved in it.                                                *)
(***************************************************************************)
EXTENDS SupervisedProcess, TLAPS

-----------------------------------------------------------------------------
(* How far termination has come ties the query, the requests, the helper   *)
(* and its watcher to each other.                                          *)

GateInv ==
    /\ gate = "idle" <=> ~interrupted
    /\ gate # "done" => kills = 0 /\ helper = "none"
    /\ gate = "comparing" => identity

WatcherInv ==
    /\ watcher = "off" <=> helper = "none"
    /\ watcher = "watching" => kills = 0 /\ ~Settled /\ HelperActs
    /\ watcher = "failing" => ~Settled /\ HelperActs
    /\ watcher = "quiescent" => ~HelperActs
    /\ kills <= 1

\* What is known of the child: before it exists nothing has begun, only a child that
\* ran has an identity and meets a helper, and an unanswered call whose child closed
\* was interrupted.
ChildInv ==
    /\ child = "none" => ~interrupted /\ ~executionTimer
    /\ identity \/ helper # "none" => child \in {"running", "exited", "closed"}
    /\ child = "closed" /\ ~interrupted => Settled

\* A report that calls the command over is true.
ReportInv == ToldOver => child = "closed" /\ ~HelperActs

IInv == TypeOK /\ GateInv /\ WatcherInv /\ ChildInv /\ ReportInv

LEMMA InitIsIInv == Init => IInv
<1> SUFFICES ASSUME Init PROVE IInv
  OBVIOUS
<1>1. report.kind = "pending" /\ report.target = FALSE /\ report \in Reports
  BY DEF Init, Pending, Reports
<1>2. TypeOK
  <2>1. /\ aborted \in BOOLEAN /\ identity \in BOOLEAN
        /\ interrupted \in BOOLEAN /\ executionTimer \in BOOLEAN
    BY DEF Init
  <2>2. left \in 0..TerminationTimeout /\ kills \in Nat
    BY TimeoutAssumption DEF Init
  <2>3. /\ child \in ChildStates /\ helper \in HelperStates /\ watcher \in WatcherStates
        /\ gate \in {"idle", "comparing", "done"}
    BY DEF Init, ChildStates, HelperStates, WatcherStates
  <2>4. QED
    BY <1>1, <2>1, <2>2, <2>3 DEF TypeOK
<1>3. GateInv /\ WatcherInv /\ ChildInv /\ ReportInv
  BY <1>1 DEF Init, GateInv, WatcherInv, ChildInv, ReportInv, ToldOver, HelperActs
<1>4. QED
  BY <1>2, <1>3 DEF IInv

\* What settle is given is a report.
LEMMA AnswersAreReports ==
    /\ \A kind \in {"refused", "spawn-failed", "completed", "failed"} :
          Answer(kind) \in Reports
    /\ \A c, h, w : Interruption(c, h, w) \in Reports
<1>1. ASSUME NEW kind \in {"refused", "spawn-failed", "completed", "failed"}
      PROVE  Answer(kind) \in Reports
  BY <1>1 DEF Answer, Reports
<1>2. ASSUME NEW c, NEW h, NEW w
      PROVE  Interruption(c, h, w) \in Reports
  <2>1. (c = "closed") \in BOOLEAN /\ (h = "none" \/ w = "quiescent") \in BOOLEAN
    OBVIOUS
  <2>2. QED
    BY <2>1 DEF Interruption, Reports
<1>3. QED
  BY <1>1, <1>2

\* The call begins, or is refused.
LEMMA CallKeeps ==
    ASSUME IInv, Refuse \/ SpawnThrows \/ Spawn \/ CaptureIdentity
    PROVE  IInv'
<1> USE DEF IInv, TypeOK, GateInv, WatcherInv, ChildInv, ReportInv, Settled, ToldOver,
            HelperActs, Reports, ChildStates, HelperStates, WatcherStates
<1>1. CASE Refuse
  BY <1>1 DEF Refuse, Settle, SettleWith, Answer
<1>2. CASE SpawnThrows
  BY <1>2 DEF SpawnThrows, Settle, SettleWith, Answer
<1>3. CASE Spawn
  BY <1>3 DEF Spawn
<1>4. CASE CaptureIdentity
  BY <1>4 DEF CaptureIdentity
<1>5. QED
  BY <1>1, <1>2, <1>3, <1>4

\* Forced termination begins, is decided, and runs out of time.
LEMMA TerminationKeeps ==
    ASSUME IInv,
           \/ ExecutionTimeout \/ OutputFault \/ AbortBeforeSpawn \/ Abort
           \/ GateDenies \/ GateAuthorizes \/ Tick \/ TerminalTimeout
    PROVE  IInv'
<1> USE DEF IInv, TypeOK, GateInv, WatcherInv, ChildInv, ReportInv, Settled, ToldOver,
            HelperActs, Reports, ChildStates, HelperStates, WatcherStates
<1>1. ASSUME Interrupt, aborted' \in BOOLEAN, child # "none"
      PROVE  IInv'
  <2>1. gate = "idle" /\ kills = 0 /\ helper = "none" /\ watcher = "off"
    BY <1>1 DEF Interrupt, AskExactHandle
  <2>2. TypeOK'
    <3>1. kills' \in Nat /\ gate' \in {"idle", "comparing", "done"}
      BY <1>1, <2>1 DEF Interrupt, AskExactHandle
    <3>2. interrupted' \in BOOLEAN /\ executionTimer' \in BOOLEAN
      BY <1>1 DEF Interrupt, AskExactHandle
    <3>3. QED
      BY <1>1, <3>1, <3>2 DEF Interrupt, AskExactHandle
  <2>3. GateInv'
    BY <1>1, <2>1 DEF Interrupt, AskExactHandle, CanRequestExactHandle
  <2>4. WatcherInv'
    BY <1>1, <2>1 DEF Interrupt, AskExactHandle
  <2>5. ChildInv' /\ ReportInv'
    BY <1>1, <2>1 DEF Interrupt, AskExactHandle
  <2>6. QED
    BY <2>2, <2>3, <2>4, <2>5
<1>2. CASE ExecutionTimeout
  BY <1>2, <1>1 DEF ExecutionTimeout
<1>3. CASE OutputFault
  BY <1>3, <1>1 DEF OutputFault
<1>4. CASE AbortBeforeSpawn
  BY <1>4 DEF AbortBeforeSpawn
<1>5. CASE Abort
  BY <1>5, <1>1 DEF Abort
<1>6. CASE GateDenies
  BY <1>6 DEF GateDenies, AskExactHandle, CanRequestExactHandle, Ended
<1>7. CASE GateAuthorizes
  BY <1>7
  DEF GateAuthorizes, LaunchHelper, AskExactHandle, CanRequestExactHandle, Ended
<1>8. CASE Tick
  BY <1>8, TimeoutAssumption DEF Tick
<1>9. CASE TerminalTimeout
  BY <1>9 DEF TerminalTimeout, Settle, SettleWith, Interruption
<1>10. QED
  BY <1>2, <1>3, <1>4, <1>5, <1>6, <1>7, <1>8, <1>9

\* The child's own events.
LEMMA ChildKeeps ==
    ASSUME IInv, ChildExits \/ ChildErrors \/ ChildCloses
    PROVE  IInv'
<1> USE DEF IInv, TypeOK, GateInv, WatcherInv, ChildInv, ReportInv, Settled, ToldOver,
            HelperActs, Reports, ChildStates, HelperStates, WatcherStates
<1>1. CASE ChildExits
  BY <1>1 DEF ChildExits
<1>2. CASE ChildErrors
  <2>1. TypeOK'
    <3>1. executionTimer' \in BOOLEAN /\ watcher' \in WatcherStates /\ report' \in Reports
      BY <1>2, AnswersAreReports DEF ChildErrors, Settle, SettleWith
    <3>2. QED
      BY <1>2, <3>1 DEF ChildErrors
  <2>2. GateInv'
    BY <1>2 DEF ChildErrors, Settle, SettleWith, Answer
  <2>3. WatcherInv'
    BY <1>2 DEF ChildErrors, Settle, SettleWith, Answer
  <2>4. ChildInv'
    BY <1>2 DEF ChildErrors, Settle, SettleWith, Answer
  <2>5. ReportInv'
    BY <1>2 DEF ChildErrors, Settle, SettleWith, Answer
  <2>6. QED
    BY <2>1, <2>2, <2>3, <2>4, <2>5
<1>3. CASE ChildCloses
  <2>1. TypeOK'
    <3>1. executionTimer' \in BOOLEAN /\ watcher' \in WatcherStates /\ report' \in Reports
      <4>1. CASE UNCHANGED <<executionTimer, watcher, report>>
        BY <4>1
      <4>2. ASSUME NEW r \in Reports, Settle(r)
            PROVE  /\ executionTimer' \in BOOLEAN /\ watcher' \in WatcherStates
                   /\ report' \in Reports
        BY <4>2 DEF Settle, SettleWith
      <4>3. Interruption("closed", helper, watcher) \in Reports
        BY AnswersAreReports
      <4>4. CASE \E kind \in {"completed", "failed"} : Settle(Answer(kind))
        BY <4>2, <4>4, AnswersAreReports
      <4>5. QED
        BY <1>3, <4>1, <4>2, <4>3, <4>4 DEF ChildCloses
    <3>2. QED
      BY <1>3, <3>1 DEF ChildCloses
  <2>2. GateInv'
    BY <1>3 DEF ChildCloses, Settle, SettleWith, Answer, Interruption
  <2>3. WatcherInv'
    BY <1>3 DEF ChildCloses, Settle, SettleWith, Answer, Interruption
  <2>4. ChildInv'
    BY <1>3 DEF ChildCloses, Settle, SettleWith, Answer, Interruption
  <2>5. ReportInv'
    BY <1>3 DEF ChildCloses, Settle, SettleWith, Answer, Interruption
  <2>6. QED
    BY <2>1, <2>2, <2>3, <2>4, <2>5
<1>4. QED
  BY <1>1, <1>2, <1>3

\* The helper's events and the timers of its watcher.
LEMMA HelperKeeps ==
    ASSUME IInv,
           \/ HelperErrors \/ HelperStopTimeout \/ HelperExits
           \/ HelperCloses \/ HelperCloseTimeout
    PROVE  IInv'
<1> USE DEF IInv, TypeOK, GateInv, WatcherInv, ChildInv, ReportInv, Settled, ToldOver,
            HelperActs, Reports, ChildStates, HelperStates, WatcherStates
<1>1. CASE HelperErrors
  BY <1>1 DEF HelperErrors, RequestStop, Watching, FallBack, AskExactHandle, Ended
<1>2. CASE HelperStopTimeout
  BY <1>2
  DEF HelperStopTimeout, RequestStop, Watching, FallBack, AskExactHandle, Ended
<1>3. CASE HelperExits
  BY <1>3 DEF HelperExits, RequestStop, Watching, FallBack, AskExactHandle, Ended
<1>4. CASE HelperCloses
  <2>1. TypeOK'
    <3>1. executionTimer' \in BOOLEAN /\ watcher' \in WatcherStates /\ report' \in Reports
      <4>1. Interruption(child, helper, "quiescent") \in Reports
        BY AnswersAreReports
      <4>2. CASE UNCHANGED <<executionTimer, report>>
        BY <1>4, <4>2 DEF HelperCloses, SettleWith
      <4>3. CASE SettleWith("quiescent", Interruption(child, helper, "quiescent"))
        BY <4>1, <4>3 DEF SettleWith
      <4>4. QED
        BY <1>4, <4>2, <4>3 DEF HelperCloses
    <3>2. kills' \in Nat /\ helper' \in HelperStates
      BY <1>4 DEF HelperCloses, FallBack, AskExactHandle
    <3>3. QED
      BY <1>4, <3>1, <3>2 DEF HelperCloses
  <2>2. GateInv'
    BY <1>4
    DEF HelperCloses, Watching, FallBack, AskExactHandle, Ended, SettleWith,
        Interruption
  <2>3. WatcherInv'
    BY <1>4
    DEF HelperCloses, Watching, FallBack, AskExactHandle, Ended, SettleWith,
        Interruption
  <2>4. ChildInv'
    BY <1>4
    DEF HelperCloses, Watching, FallBack, AskExactHandle, Ended, SettleWith,
        Interruption
  <2>5. ReportInv'
    BY <1>4
    DEF HelperCloses, Watching, FallBack, AskExactHandle, Ended, SettleWith,
        Interruption
  <2>6. QED
    BY <2>1, <2>2, <2>3, <2>4, <2>5
<1>5. CASE HelperCloseTimeout
  BY <1>5 DEF HelperCloseTimeout, Watching, FallBack, AskExactHandle, Ended
<1>6. QED
  BY <1>1, <1>2, <1>3, <1>4, <1>5

LEMMA StutterKeeps == IInv /\ UNCHANGED vars => IInv'
  BY DEF vars, IInv, TypeOK, GateInv, WatcherInv, ChildInv, ReportInv, Settled, ToldOver,
         HelperActs

LEMMA IInvHolds == Spec => []IInv
<1>1. IInv /\ [Next]_vars => IInv'
  BY CallKeeps, TerminationKeeps, ChildKeeps, HelperKeeps, StutterKeeps DEF Next
<1>2. QED
  BY InitIsIInv, <1>1, PTL DEF Spec

-----------------------------------------------------------------------------
\* Every variable has its type in every run of a supervised command.
THEOREM TypeCorrect == Spec => []TypeOK
<1>1. IInv => TypeOK
  BY DEF IInv
<1>2. QED
  BY IInvHolds, <1>1, PTL

\* The exact handle is asked at most once, however gate, helper and timers interleave.
THEOREM OneRequest == Spec => []AskedAtMostOnce
<1>1. IInv => AskedAtMostOnce
  BY DEF IInv, WatcherInv, AskedAtMostOnce
<1>2. QED
  BY IInvHolds, <1>1, PTL

-----------------------------------------------------------------------------
\* An interrupted command that is waited for was asked to end by someone, as long as
\* the grace lasts.
THEOREM SomeoneAsked == Spec => []NeverLeftUnasked
<1>1. Init => NeverLeftUnasked
  BY DEF Init, NeverLeftUnasked
<1>2. ASSUME IInv, NeverLeftUnasked, [Next]_vars
      PROVE  NeverLeftUnasked'
  <2> USE <1>2 DEF IInv, GateInv, WatcherInv, NeverLeftUnasked, Ended, Settled, HelperActs
  <2>1. CASE Refuse \/ SpawnThrows \/ Spawn \/ CaptureIdentity
    BY <2>1
    DEF Refuse, SpawnThrows, Spawn, CaptureIdentity, ChildInv, Settle,
        SettleWith, Answer
  <2>2. CASE ExecutionTimeout \/ OutputFault \/ Abort
    BY <2>2
    DEF ExecutionTimeout, OutputFault, Abort, Interrupt, AskExactHandle,
        CanRequestExactHandle, TypeOK
  <2>3. CASE AbortBeforeSpawn \/ Tick
    <3>1. CASE AbortBeforeSpawn
      BY <3>1 DEF AbortBeforeSpawn
    <3>2. CASE Tick
      <4>1. left # 0 /\ UNCHANGED <<child, interrupted, gate, kills, helper, watcher, report>>
        BY <3>2 DEF Tick, TypeOK
      <4>2. QED
        BY <4>1
    <3>3. QED
      BY <2>3, <3>1, <3>2
  <2>4. CASE GateDenies \/ GateAuthorizes
    <3>1. CASE GateDenies
      BY <3>1 DEF GateDenies, AskExactHandle, CanRequestExactHandle, TypeOK
    <3>2. CASE GateAuthorizes
      BY <3>2 DEF GateAuthorizes, LaunchHelper, AskExactHandle, TypeOK
    <3>3. QED
      BY <2>4, <3>1, <3>2
  <2>5. CASE TerminalTimeout
    BY <2>5 DEF TerminalTimeout, Settle, SettleWith, Interruption
  <2>6. CASE ChildExits \/ ChildCloses
    BY <2>6 DEF ChildExits, ChildCloses
  <2>7. CASE ChildErrors
    BY <2>7 DEF ChildErrors, Settle, SettleWith, Answer
  <2>8. CASE HelperErrors \/ HelperStopTimeout \/ HelperExits
    <3>1. ASSUME RequestStop, UNCHANGED <<child, interrupted, left, gate, report>>
          PROVE  NeverLeftUnasked'
      BY <3>1 DEF RequestStop, Watching, FallBack, AskExactHandle, TypeOK
    <3>2. CASE HelperErrors \/ HelperStopTimeout
      BY <3>1, <3>2 DEF HelperErrors, HelperStopTimeout
    <3>3. CASE HelperExits
      BY <3>1, <3>3 DEF HelperExits
    <3>4. QED
      BY <2>8, <3>2, <3>3
  <2>9. CASE HelperCloses
    BY <2>9
    DEF HelperCloses, Watching, FallBack, AskExactHandle, SettleWith,
        Interruption
  <2>10. CASE HelperCloseTimeout
    BY <2>10 DEF HelperCloseTimeout, Watching, FallBack, AskExactHandle
  <2>11. CASE UNCHANGED vars
    BY <2>11 DEF vars
  <2>12. QED
    BY <2>1, <2>2, <2>3, <2>4, <2>5, <2>6, <2>7, <2>8, <2>9, <2>10, <2>11 DEF Next
<1>3. QED
  BY IInvHolds, <1>1, <1>2, PTL DEF Spec

\* After the answer the exact handle is not asked again, nor is a taskkill launched.
THEOREM AnswerEndsRequests == Spec => NothingAskedAfterAnswer
<1>1. [Next]_vars => [Settled => kills' = kills /\ (helper = "none" => helper' = "none")]_vars
  BY DEF Next, vars, Refuse, SpawnThrows, Spawn, CaptureIdentity, ExecutionTimeout,
         OutputFault, AbortBeforeSpawn, Abort, Interrupt, GateDenies, GateAuthorizes,
         CanRequestExactHandle, Tick, TerminalTimeout, ChildExits, ChildErrors,
         ChildCloses, HelperErrors, HelperStopTimeout, HelperExits, HelperCloses,
         HelperCloseTimeout, RequestStop, FallBack, AskExactHandle
<1>2. QED
  BY <1>1, PTL DEF Spec, NothingAskedAfterAnswer

-----------------------------------------------------------------------------
(* The refinement.                                                         *)

\* A step that starts no process, ends none, and answers nothing is not seen.
LEMMA NotSeen ==
    ASSUME UNCHANGED <<helper, report>>,
           \/ child' = child
           \/ child \notin {"none", "closed"} /\ child' \notin {"none", "closed"}
    PROVE  UNCHANGED Bounded!vars
BY DEF Bounded!vars, Started, Over, Processes, HelperActs, Settled, ToldOver

\* An answer that does not call the command over starts and ends nothing.
LEMMA AnswersUnproven ==
    ASSUME UNCHANGED helper, ~Settled, Settled', ~ToldOver',
           \/ child' = child
           \/ child \notin {"none", "closed"} /\ child' \notin {"none", "closed"}
    PROVE  Bounded!AnswerUnproven
BY DEF Bounded!AnswerUnproven, Started, Over, Processes, HelperActs

\* An answer that does finds everything over that was started.
LEMMA AnswersOver ==
    ASSUME IInv', ~Settled, Settled', ToldOver', Started' = Started
    PROVE  Bounded!AnswerOver
<1>1. (Over = Started)'
  BY DEF IInv, ReportInv, Over, Started, Processes
<1> QED
  BY <1>1 DEF Bounded!AnswerOver

\* A process is started before the answer.
LEMMA StartsProcess ==
    ASSUME UNCHANGED report, ~Settled,
           \/ child = "none" /\ child' \notin {"none", "closed"} /\ helper' = helper
           \/ child' = child /\ helper = "none" /\ helper' = "running"
    PROVE  \E p \in Processes : Bounded!Start(p)
<1>1. CASE child = "none" /\ child' \notin {"none", "closed"} /\ helper' = helper
  <2>1. Bounded!Start("child")
    BY <1>1 DEF Bounded!Start, Started, Over, Processes, HelperActs, Settled
  <2> QED
    BY <2>1 DEF Processes
<1>2. CASE child' = child /\ helper = "none" /\ helper' = "running"
  <2>1. Bounded!Start("taskkill")
    BY <1>2 DEF Bounded!Start, Started, Over, Processes, HelperActs, Settled
  <2> QED
    BY <2>1 DEF Processes
<1> QED
  BY <1>1, <1>2

\* A process ends, and nothing is answered.
LEMMA EndsProcess ==
    ASSUME UNCHANGED report,
           \/ child \notin {"none", "closed"} /\ child' = "closed" /\ helper' = helper
           \/ child' = child /\ HelperActs /\ helper' \in {"closed", "failed"}
    PROVE  \E p \in Processes : Bounded!End(p)
<1>1. CASE child \notin {"none", "closed"} /\ child' = "closed" /\ helper' = helper
  <2>1. Bounded!End("child")
    BY <1>1 DEF Bounded!End, Started, Over, Processes, HelperActs, Settled, ToldOver
  <2> QED
    BY <2>1 DEF Processes
<1>2. CASE child' = child /\ HelperActs /\ helper' \in {"closed", "failed"}
  <2>1. Bounded!End("taskkill")
    BY <1>2 DEF Bounded!End, Started, Over, Processes, HelperActs, Settled, ToldOver
  <2> QED
    BY <2>1 DEF Processes
<1> QED
  BY <1>1, <1>2

\* Every step of the supervision is a step of the bounded command, or none.
LEMMA StepSimulation ==
    ASSUME IInv, IInv', Next
    PROVE  [Bounded!Next]_(Bounded!vars)
<1> USE DEF Bounded!Next
<1>1. CASE Refuse \/ SpawnThrows
  BY <1>1, AnswersUnproven DEF Refuse, SpawnThrows, Settle, SettleWith, Answer, Settled, ToldOver
<1>2. CASE Spawn
  BY <1>2, StartsProcess DEF Spawn, Settled
<1>3. CASE CaptureIdentity \/ AbortBeforeSpawn \/ GateDenies \/ Tick
  BY <1>3, NotSeen DEF CaptureIdentity, AbortBeforeSpawn, GateDenies, Tick
<1>4. CASE ExecutionTimeout \/ OutputFault \/ Abort
  BY <1>4, NotSeen DEF ExecutionTimeout, OutputFault, Abort, Interrupt
<1>5. CASE GateAuthorizes
  <2>1. helper = "none" /\ ~Settled /\ UNCHANGED <<child, report>>
    BY <1>5 DEF GateAuthorizes, CanRequestExactHandle, IInv, GateInv
  <2>2. CASE UNCHANGED helper
    BY <2>1, <2>2, NotSeen
  <2>3. CASE LaunchHelper
    BY <2>1, <2>3, StartsProcess DEF LaunchHelper
  <2> QED
    BY <1>5, <2>2, <2>3 DEF GateAuthorizes
<1>6. CASE TerminalTimeout
  <2>1. ~Settled /\ Settled' /\ UNCHANGED <<child, helper>>
    BY <1>6 DEF TerminalTimeout, Settle, SettleWith, Interruption, Settled
  <2>2. Started' = Started
    BY <2>1 DEF Started
  <2> QED
    BY <2>1, <2>2, AnswersUnproven, AnswersOver
<1>7. CASE ChildExits
  BY <1>7, NotSeen DEF ChildExits
<1>8. CASE ChildErrors
  <2>1. child = "stillborn" /\ child' = "errored" /\ helper' = helper
    BY <1>8 DEF ChildErrors
  <2>2. CASE UNCHANGED report
    BY <2>1, <2>2, NotSeen
  <2>3. CASE ~Settled /\ Settle(Answer("spawn-failed"))
    BY <2>1, <2>3, AnswersUnproven DEF Settle, SettleWith, Answer, Settled, ToldOver
  <2> QED
    BY <1>8, <2>2, <2>3 DEF ChildErrors
<1>9. CASE ChildCloses
  <2>1. child \notin {"none", "closed"} /\ child' = "closed" /\ helper' = helper
    BY <1>9 DEF ChildCloses
  <2>2. Started' = Started
    BY <2>1 DEF Started
  <2>3. CASE UNCHANGED report
    BY <2>1, <2>3, EndsProcess
  <2>4. ASSUME NEW kind \in {"completed", "failed"}, ~Settled, Settle(Answer(kind))
        PROVE  Bounded!AnswerOver
    BY <2>2, <2>4, AnswersOver DEF Settle, SettleWith, Answer, Settled, ToldOver
  <2>5. ASSUME ~Settled, helper = "none" \/ watcher = "quiescent",
               Settle(Interruption("closed", helper, watcher))
        PROVE  Bounded!AnswerOver
    BY <2>2, <2>5, AnswersOver DEF Settle, SettleWith, Interruption, Settled, ToldOver
  <2> QED
    BY <1>9, <2>3, <2>4, <2>5 DEF ChildCloses
<1>10. CASE HelperErrors \/ HelperStopTimeout \/ HelperCloseTimeout
  BY <1>10, NotSeen DEF HelperErrors, HelperStopTimeout, HelperCloseTimeout, RequestStop
<1>11. CASE HelperExits
  <2>1. /\ helper = "running" /\ helper' \in {"exited", "crashed"}
        /\ UNCHANGED <<child, report>>
    BY <1>11 DEF HelperExits
  <2> QED
    BY <2>1 DEF Bounded!vars, Started, Over, Processes, HelperActs, Settled, ToldOver
<1>12. CASE HelperCloses
  <2>1. HelperActs /\ helper' \in {"closed", "failed"} /\ child' = child
    BY <1>12 DEF HelperCloses, HelperActs
  <2>2. Started' = Started
    BY <2>1 DEF Started, HelperActs
  <2>3. CASE UNCHANGED report
    BY <2>1, <2>3, EndsProcess
  <2>4. CASE /\ ~Settled /\ child = "closed"
             /\ report' = Interruption(child, helper, "quiescent")
    BY <2>2, <2>4, AnswersOver DEF Interruption, Settled, ToldOver
  <2> QED
    BY <1>12, <2>3, <2>4 DEF HelperCloses, SettleWith
<1> QED
  BY <1>1, <1>2, <1>3, <1>4, <1>5, <1>6, <1>7, <1>8, <1>9, <1>10, <1>11, <1>12 DEF Next

\* The supervision implements a bounded command: one answer, neither the command nor
\* a taskkill started after it, and "over" told only when both are over.
THEOREM SupervisionIsBounded == Spec => ImplementsBoundedCommand
<1>1. Init => Bounded!Init
  BY DEF Init, Bounded!Init, Started, Over, Processes, Settled, Pending
<1>2. IInv /\ IInv' /\ [Next]_vars => [Bounded!Next]_(Bounded!vars)
  <2>1. CASE Next
    BY <2>1, StepSimulation
  <2>2. CASE UNCHANGED vars
    BY <2>2, NotSeen DEF vars
  <2>3. QED
    BY <2>1, <2>2
<1>3. QED
  BY IInvHolds, <1>1, <1>2, PTL DEF Spec, ImplementsBoundedCommand, Bounded!Spec
=============================================================================
