------------------------- MODULE SupervisedProcess -------------------------
(***************************************************************************)
(* One supervised external command, in the code every git command:         *)
(* runSupervisedProcess (src/src/supervised-process.mjs) with the Windows  *)
(* termination primitives (process/windows-termination.mjs) and the        *)
(* deadlines (process/deadlines.mjs) below it.                             *)
(*                                                                         *)
(* A callback of the event loop is one action: an event of the child or of *)
(* the taskkill helper, a timer, an abort, the answer of the identity      *)
(* query.  They come in any order, and a timer as late as the loop likes.  *)
(* Only the grace that forced termination is given is counted, from the    *)
(* interruption on; the useful-work deadline may pass at any moment before *)
(* it.  A platform other than Windows is the case in which no identity is  *)
(* ever captured.  Output is reduced to whether it breaks a limit.         *)
(***************************************************************************)
EXTENDS Integers

CONSTANTS
    TerminationTimeout,   \* terminationTimeoutMs (5000)
    CloseReserve          \* TASKKILL_CLOSE_RESERVE_MS (1000)

ASSUME TimeoutAssumption ==
    TerminationTimeout \in Nat \ {0} /\ CloseReserve \in Nat \ {0}

VARIABLES
    aborted,          \* abortSignal.aborted
    child,            \* the child process, as far as its events went
    identity,         \* whether the durable identity of the child was captured
    interrupted,      \* whether forced termination began
    executionTimer,   \* whether the timer of the useful-work deadline is armed
    left,             \* what is left of the grace for proof of death
    gate,             \* the identity query before taskkill
    kills,            \* how often the exact handle was asked to end
    helper,           \* the taskkill process
    watcher,          \* the supervision of the helper
    report            \* what the promise was settled with

vars == <<aborted, child, identity, interrupted, executionTimer, left, gate,
          kills, helper, watcher, report>>

\* "stillborn" and "errored" is a child that could not be started, before and after
\* its error event; "exited" a child whose pipes are still held by a descendant.
ChildStates == {"none", "stillborn", "errored", "running", "exited", "closed"}

\* "crashed" is an exit with a nonzero status, "failed" a close with one.
HelperStates == {"none", "running", "exited", "crashed", "closed", "failed"}

\* "failing" is a watcher that reported the failure of its helper and asked it to
\* stop; "quiescent" and "unproven" have settled, with and without the helper's close.
WatcherStates == {"off", "watching", "failing", "quiescent", "unproven"}

Pending == [kind |-> "pending", target |-> FALSE, helper |-> FALSE]

Init ==
    /\ aborted = FALSE /\ child = "none" /\ identity = FALSE
    /\ interrupted = FALSE /\ executionTimer = FALSE /\ left = TerminationTimeout
    /\ gate = "idle" /\ kills = 0 /\ helper = "none" /\ watcher = "off"
    /\ report = Pending

Settled == report.kind # "pending"

\* hasLifecycleEnded: "exit" is no proof of anything, but ends the requests.
Ended == child \in {"exited", "closed"}

Watching == watcher \in {"watching", "failing"}

\* What deadlineWithReserve keeps of the grace for the exact handle.
AuthorizationReserve ==
    LET half == (TerminationTimeout + 1) \div 2
    IN  IF CloseReserve < half THEN CloseReserve ELSE half

\* Mutant: what was true before the await is not looked at again after it.
CanRequestUnlessEnded == ~Ended

CanRequestExactHandle == ~Settled /\ ~Ended /\ left > 0

\* requestExactHandleTermination, if it may: a request, never proof.
AskExactHandle(may) == kills' = IF may THEN kills + 1 ELSE kills

Answer(kind) == [kind |-> kind, target |-> FALSE, helper |-> FALSE]

\* What failInterrupted reports with child c, helper h and watcher w: whether the
\* target closed, and whether a helper that was launched did.
Interruption(c, h, w) ==
    [kind |-> "interrupted", target |-> c = "closed",
     helper |-> h = "none" \/ w = "quiescent"]

\* settle, with watcher w: the first answer counts, and a helper still watched is
\* asked to stop and given up.
SettleWith(w, r) ==
    /\ report' = r
    /\ executionTimer' = FALSE
    /\ watcher' = (IF w \in {"watching", "failing"} THEN "unproven" ELSE w)

Settle(r) == SettleWith(watcher, r)

-----------------------------------------------------------------------------
(* The call.                                                               *)

\* A signal that is aborted already refuses the command before it is started.
Refuse ==
    /\ child = "none" /\ ~Settled /\ aborted
    /\ Settle(Answer("refused"))
    /\ UNCHANGED <<aborted, child, identity, interrupted, left, gate, kills, helper>>

SpawnThrows ==
    /\ child = "none" /\ ~Settled /\ ~aborted
    /\ Settle(Answer("spawn-failed"))
    /\ UNCHANGED <<aborted, child, identity, interrupted, left, gate, kills, helper>>

\* The child is there, or will report that it could not be started.
Spawn ==
    /\ child = "none" /\ ~Settled /\ ~aborted
    /\ child' \in {"running", "stillborn"}
    /\ executionTimer' = TRUE
    /\ UNCHANGED <<aborted, identity, interrupted, left, gate, kills, helper, watcher, report>>

\* The first observation of the identity, discarded once the child's end was seen.
CaptureIdentity ==
    /\ child = "running" /\ ~identity
    /\ identity' = TRUE
    /\ UNCHANGED <<aborted, child, interrupted, executionTimer, left, gate, kills,
                   helper, watcher, report>>

-----------------------------------------------------------------------------
(* Forced termination.                                                     *)

\* interrupt, with requestTermination up to its only await: a child whose end was
\* seen is left alone, one without a captured identity is asked through its handle,
\* and for any other the identity is read again.
Interrupt ==
    /\ ~Settled /\ ~interrupted
    /\ interrupted' = TRUE
    /\ executionTimer' = FALSE
    /\ IF CanRequestExactHandle /\ identity
          THEN gate' = "comparing" /\ UNCHANGED kills
          ELSE gate' = "done" /\ AskExactHandle(CanRequestExactHandle)
    /\ UNCHANGED <<child, identity, left, helper, watcher, report>>

ExecutionTimeout ==
    /\ executionTimer
    /\ Interrupt
    /\ UNCHANGED aborted

\* More output than the limit, or a failing stream; neither after the close.
OutputFault ==
    /\ child \in {"running", "exited"}
    /\ Interrupt
    /\ UNCHANGED aborted

AbortBeforeSpawn ==
    /\ child = "none" /\ ~Settled /\ ~aborted
    /\ aborted' = TRUE
    /\ UNCHANGED <<child, identity, interrupted, executionTimer, left, gate, kills,
                   helper, watcher, report>>

Abort ==
    /\ child # "none" /\ ~aborted
    /\ aborted' = TRUE
    /\ Interrupt

\* The comparison does not prove the same process, fails, or is out of time: the
\* exact handle is asked, if it still may be.
GateDenies ==
    /\ gate = "comparing"
    /\ gate' = "done"
    /\ AskExactHandle(CanRequestExactHandle)
    /\ UNCHANGED <<aborted, child, identity, interrupted, executionTimer, left,
                   helper, watcher, report>>

\* taskkill against the process tree of the PID, with its watcher armed.
LaunchHelper == helper' = "running" /\ watcher' = "watching"

\* Mutant: what was true before the query is not looked at again after it.
LaunchOnceAuthorized ==
    /\ gate = "comparing"
    /\ gate' = "done"
    /\ \/ LaunchHelper /\ UNCHANGED kills
       \/ AskExactHandle(CanRequestExactHandle) /\ UNCHANGED <<helper, watcher>>
    /\ UNCHANGED <<aborted, child, identity, interrupted, executionTimer, left, report>>

\* The same process, in time: taskkill is launched and watched in the same turn, and
\* when it cannot be launched the exact handle is asked.
GateAuthorizes ==
    /\ gate = "comparing"
    /\ CanRequestExactHandle /\ left > AuthorizationReserve
    /\ gate' = "done"
    /\ \/ LaunchHelper /\ UNCHANGED kills
       \/ AskExactHandle(TRUE) /\ UNCHANGED <<helper, watcher>>
    /\ UNCHANGED <<aborted, child, identity, interrupted, executionTimer, left, report>>

\* Mutant: remainingMs without its lower bound.
TickPast ==
    /\ interrupted /\ left >= 0
    /\ left' = left - 1
    /\ UNCHANGED <<aborted, child, identity, interrupted, executionTimer, gate, kills,
                   helper, watcher, report>>

\* The grace runs out whatever the event loop does.
Tick ==
    /\ interrupted /\ left > 0
    /\ left' = left - 1
    /\ UNCHANGED <<aborted, child, identity, interrupted, executionTimer, gate, kills,
                   helper, watcher, report>>

\* Mutant: the terminal timer too waits for the close.
TerminalTimeoutAwaitsClose ==
    /\ interrupted /\ ~Settled /\ left = 0 /\ child = "closed"
    /\ Settle(Interruption(child, helper, watcher))
    /\ UNCHANGED <<aborted, child, identity, interrupted, left, gate, kills, helper>>

\* The grace is over: the interruption is reported with what was proven by now.
TerminalTimeout ==
    /\ interrupted /\ ~Settled /\ left = 0
    /\ Settle(Interruption(child, helper, watcher))
    /\ UNCHANGED <<aborted, child, identity, interrupted, left, gate, kills, helper>>

-----------------------------------------------------------------------------
(* Events of the child.                                                    *)

ChildExits ==
    /\ child = "running"
    /\ child' = "exited"
    /\ UNCHANGED <<aborted, identity, interrupted, executionTimer, left, gate, kills,
                   helper, watcher, report>>

\* The error of a child that could not be started; after an interruption it is only
\* noted.
ChildErrors ==
    /\ child = "stillborn"
    /\ child' = "errored"
    /\ IF Settled \/ interrupted
          THEN UNCHANGED <<executionTimer, watcher, report>>
          ELSE Settle(Answer("spawn-failed"))
    /\ UNCHANGED <<aborted, identity, interrupted, left, gate, kills, helper>>

\* A close settles a command nobody interrupted by its status.  An interrupted one is
\* reported now only if no helper is left to close.
ChildCloses ==
    /\ child \in {"running", "exited", "errored"}
    /\ child' = "closed"
    /\ \/ /\ Settled
          /\ UNCHANGED <<executionTimer, watcher, report>>
       \/ /\ ~Settled /\ ~interrupted
          /\ \E kind \in {"completed", "failed"} : Settle(Answer(kind))
       \/ /\ ~Settled /\ interrupted
          /\ IF helper = "none" \/ watcher = "quiescent"
                THEN Settle(Interruption("closed", helper, watcher))
                ELSE UNCHANGED <<executionTimer, watcher, report>>
    /\ UNCHANGED <<aborted, identity, interrupted, left, gate, kills, helper>>

-----------------------------------------------------------------------------
(* The taskkill helper and its watcher (superviseTaskkillHelper).          *)

\* Mutant: every failure of the helper is notified.
FallBackEveryTime == AskExactHandle(~Settled /\ ~Ended)

\* notifyFailure: the first failure of the helper asks the exact handle instead.
FallBack == AskExactHandle(watcher = "watching" /\ ~Settled /\ ~Ended)

\* Mutant: the helper is stopped, the child forgotten.
RequestStopOnly ==
    /\ Watching
    /\ UNCHANGED kills
    /\ watcher' = "failing"

RequestStop ==
    /\ Watching
    /\ FallBack
    /\ watcher' = "failing"

\* The helper's error, or the timer of the time reserved for the exact handle.
HelperErrors ==
    /\ helper \in {"running", "exited", "crashed"} /\ watcher = "watching"
    /\ RequestStop
    /\ UNCHANGED <<aborted, child, identity, interrupted, executionTimer, left, gate,
                   helper, report>>

HelperStopTimeout ==
    /\ left <= AuthorizationReserve /\ watcher = "watching"
    /\ RequestStop
    /\ UNCHANGED <<aborted, child, identity, interrupted, executionTimer, left, gate,
                   helper, report>>

HelperExits ==
    /\ helper = "running"
    /\ helper' \in {"exited", "crashed"}
    /\ IF helper' = "crashed" /\ Watching
          THEN RequestStop
          ELSE UNCHANGED <<kills, watcher>>
    /\ UNCHANGED <<aborted, child, identity, interrupted, executionTimer, left, gate, report>>

\* The close of a watched helper proves it quiet, and settles the command if the
\* child closed before.  A watcher that has settled no longer listens.
HelperCloses ==
    /\ helper \in {"running", "exited", "crashed"}
    /\ helper' = IF helper = "exited" THEN "closed" ELSE "failed"
    /\ IF ~Watching
          THEN UNCHANGED <<kills, watcher, executionTimer, report>>
          ELSE /\ IF helper = "exited" THEN UNCHANGED kills ELSE FallBack
               /\ IF ~Settled /\ child = "closed"
                     THEN SettleWith("quiescent", Interruption(child, helper, "quiescent"))
                     ELSE watcher' = "quiescent" /\ UNCHANGED <<executionTimer, report>>
    /\ UNCHANGED <<aborted, child, identity, interrupted, left, gate>>

\* The grace is over for the helper: the watcher gives it up.
HelperCloseTimeout ==
    /\ Watching /\ left = 0
    /\ FallBack
    /\ watcher' = "unproven"
    /\ UNCHANGED <<aborted, child, identity, interrupted, executionTimer, left, gate,
                   helper, report>>

-----------------------------------------------------------------------------
Next ==
    \/ Refuse \/ SpawnThrows \/ Spawn \/ CaptureIdentity
    \/ ExecutionTimeout \/ OutputFault \/ AbortBeforeSpawn \/ Abort
    \/ GateDenies \/ GateAuthorizes \/ Tick \/ TerminalTimeout
    \/ ChildExits \/ ChildErrors \/ ChildCloses
    \/ HelperErrors \/ HelperStopTimeout \/ HelperExits \/ HelperCloses \/ HelperCloseTimeout

Spec == Init /\ [][Next]_vars

\* Time passes, and a timer that is due is dispatched in the end: both deadlines keep
\* the event loop alive.  Neither process need ever end.
Fairness ==
    /\ WF_vars(ExecutionTimeout) /\ WF_vars(Tick) /\ WF_vars(TerminalTimeout)

FairSpec == Spec /\ Fairness

-----------------------------------------------------------------------------
Reports ==
    [kind : {"pending", "refused", "spawn-failed", "completed", "failed", "interrupted"},
     target : BOOLEAN, helper : BOOLEAN]

\* Every variable has its type, of supervised-process.mjs:322-345.
TypeOK ==
    /\ aborted \in BOOLEAN /\ child \in ChildStates /\ identity \in BOOLEAN
    /\ interrupted \in BOOLEAN /\ executionTimer \in BOOLEAN
    /\ left \in 0..TerminationTimeout
    /\ gate \in {"idle", "comparing", "done"} /\ kills \in Nat
    /\ helper \in HelperStates /\ watcher \in WatcherStates
    /\ report \in Reports

HelperActs == helper \in {"running", "exited", "crashed"}

\* The caller is told that the command is over: it closed by itself, or it was
\* interrupted and both terminations are proven (terminationProven).
ToldOver ==
    \/ report.kind \in {"completed", "failed"}
    \/ report.kind = "interrupted" /\ report.target /\ report.helper

\* The processes of a command: the child, and the taskkill launched against it.
\* A child that could not be started is over when its handle closes.
Processes == {"child", "taskkill"}
Started == {p \in Processes : IF p = "child" THEN child # "none" ELSE helper # "none"}
Over == {p \in Started : IF p = "child" THEN child = "closed" ELSE ~HelperActs}

Bounded == INSTANCE BoundedCommand WITH
    started <- Started, ended <- Over,
    answer <- IF ~Settled THEN "awaited" ELSE IF ToldOver THEN "over" ELSE "unproven"

\* The supervision implements a bounded command: once its promise is settled no
\* process is started for it, a taskkill whose authorization comes late included,
\* and it reports a command closed or a termination proven only when the child and
\* a taskkill that was launched against it are both over
\* (supervised-process.mjs:178-213 and 367-398, the proof git custody is cleaned up
\* on).
ImplementsBoundedCommand == Bounded!Spec

\* The exact handle is asked to end at most once, whichever of the gate, the helper's
\* error, its exit, its close and its two timers asks first: the child has one error
\* listener (supervised-process.mjs:470), so the failure of a second request could
\* bring down the coordinator.
AskedAtMostOnce == kills <= 1

\* While an interrupted command is waited for, someone has been asked to end it: its
\* end was seen, or its handle was asked, or the query is out, or a taskkill that has
\* not failed is at work or done.  Nothing waits out the grace for a child no one
\* touched (supervised-process.mjs:157-245).
NeverLeftUnasked ==
    interrupted /\ ~Settled =>
        \/ Ended \/ kills > 0 \/ left = 0
        \/ gate = "comparing"
        \/ watcher = "watching" \/ helper = "closed"

\* After the answer nothing is asked of the child any more, neither through its
\* handle nor by a taskkill: late timers, identity answers and helper events find
\* the command decided (supervised-process.mjs:149-153, 178-213 and 213-217).
NothingAskedAfterAnswer ==
    [][Settled => kills' = kills /\ (helper = "none" => helper' = "none")]_vars

\* Every call that started a child is answered, though neither the child nor the
\* helper need ever end and the identity query need never be answered.
EveryCallIsAnswered == child # "none" ~> Settled
=============================================================================
