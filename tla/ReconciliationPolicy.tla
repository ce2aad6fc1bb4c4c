------------------------ MODULE ReconciliationPolicy ------------------------
(***************************************************************************)
(* What a live coordinator may conclude about a record it finds in the     *)
(* slot (src/src/custody/reconciliation-policy.mjs).  A pure decision over *)
(* the record and the comparison statuses of the processes it names.       *)
(***************************************************************************)
EXTENDS CustodyRecord

SameProcess == "same-process-alive"
Dead == "dead"
PidReused == "pid-reused"
Ambiguous == "ambiguous"
Unobserved == "unobserved"    \* no comparison was made

MatchStatuses == {SameProcess, Dead, PidReused, Ambiguous, Unobserved}

CoordinatorIsGone(status) == status \notin {SameProcess, Ambiguous}

NeedsGitObservation(r, coordinator) == CoordinatorIsGone(coordinator) /\ r.git
NeedsClaudeObservation(r, coordinator) == CoordinatorIsGone(coordinator) /\ ~r.git /\ r.claude

Actions == {"retain", "orphan", "complete-terminal-release", "terminalize-and-release"}
Reasons == {"live", "ambiguous", "terminal-record", "preparation-unproven",
            "forced-termination-unproven", "both-dead", "dead-reservation"}
Decisions == [action : Actions, reason : Reasons]

Decision(action, reason) == [action |-> action, reason |-> reason]

\* A record that names a mutating Git child never releases on its absence.
DecideGit(git) ==
    IF git = SameProcess THEN Decision("orphan", "live")
    ELSE IF git \in {Ambiguous, Unobserved} THEN Decision("orphan", "ambiguous")
    ELSE Decision("orphan", "preparation-unproven")

\* Mutant: the absence of the child releases whatever was done to end it.
DecideClaudeOnAbsence(r, claude) ==
    IF claude = SameProcess THEN Decision("orphan", "live")
    ELSE IF claude \in {Ambiguous, Unobserved} THEN Decision("orphan", "ambiguous")
    ELSE Decision("terminalize-and-release", "both-dead")

\* A record that names a Claude child releases on its absence, unless forced
\* termination had begun.
DecideClaude(r, claude) ==
    IF claude = SameProcess THEN Decision("orphan", "live")
    ELSE IF claude \in {Ambiguous, Unobserved} THEN Decision("orphan", "ambiguous")
    ELSE IF r.state \in ForcedTerminationStates
      THEN Decision("orphan", "forced-termination-unproven")
    ELSE Decision("terminalize-and-release", "both-dead")

\* Mutant: a record that names no child is taken to have none.
DecideUnnamedAsUnstarted(r) ==
    CASE r.state \in SafeUnstartedStates -> Decision("terminalize-and-release", "dead-reservation")
      [] r.state = "ORPHANED" -> Decision("retain", "ambiguous")
      [] OTHER -> Decision("orphan", "ambiguous")

\* A record that names no process releases only as a bare reservation.
DecideUnnamed(r) ==
    CASE r.state = "RESERVED" -> Decision("terminalize-and-release", "dead-reservation")
      [] r.state = "ORPHANED" -> Decision("retain", "ambiguous")
      [] OTHER -> Decision("orphan", "ambiguous")

DecideReconciliation(r, coordinator, git, claude) ==
    IF coordinator = SameProcess THEN Decision("retain", "live")
    ELSE IF coordinator = Ambiguous THEN Decision("retain", "ambiguous")
    ELSE IF r.state \in DurableTerminalStates
      THEN Decision("complete-terminal-release", "terminal-record")
    ELSE IF r.git THEN DecideGit(git)
    ELSE IF r.claude THEN DecideClaude(r, claude)
    ELSE DecideUnnamed(r)
=============================================================================
