--------------------------- MODULE CustodyRecord ---------------------------
(***************************************************************************)
(* The durable ownership record of one repository: what it may hold, how   *)
(* its lifecycle may advance, and which of its states carry which          *)
(* authority (src/src/custody/record-schema.mjs).                          *)
(*                                                                         *)
(* A record keeps the fields the custody rules read.  A process identity   *)
(* (PID and start time) is abstracted to whether the record holds one; the *)
(* time stamps and the transition history are abstracted to the revision,  *)
(* which every publication advances together with them.                    *)
(***************************************************************************)
EXTENDS Integers

CONSTANTS
    Executions,        \* executionIds: one delegation each
    ReviewExecutions,  \* those whose custodyKind is "coherent-review"
    None               \* no execution, no process

ASSUME CustodyAssumption ==
    /\ ReviewExecutions \subseteq Executions
    /\ None \notin Executions

States == {"RESERVED", "PREPARING_WORKTREE", "SPAWNING", "ACTIVE", "TERMINATING",
           "ORPHANED", "TERMINAL_PROVEN", "HANDOFF_READY", "RELEASED"}

TRANSITIONS ==
    [RESERVED           |-> {"PREPARING_WORKTREE", "SPAWNING", "ORPHANED", "TERMINAL_PROVEN"},
     PREPARING_WORKTREE |-> {"SPAWNING", "ORPHANED", "TERMINAL_PROVEN"},
     SPAWNING           |-> {"ACTIVE", "ORPHANED", "TERMINAL_PROVEN"},
     ACTIVE             |-> {"TERMINATING", "ORPHANED", "TERMINAL_PROVEN"},
     TERMINATING        |-> {"ORPHANED", "TERMINAL_PROVEN"},
     ORPHANED           |-> {"TERMINAL_PROVEN"},
     TERMINAL_PROVEN    |-> {"HANDOFF_READY"},
     HANDOFF_READY      |-> {"RELEASED"},
     RELEASED           |-> {}]

SafeUnstartedStates == {"RESERVED", "PREPARING_WORKTREE", "SPAWNING"}
ForcedTerminationStates == {"TERMINATING", "ORPHANED"}
DurableTerminalStates == {"TERMINAL_PROVEN", "HANDOFF_READY"}

(***************************************************************************)
(* What a termination reported about a destructive taskkill helper: no     *)
(* report, none was launched, its close was proven, it was launched and    *)
(* can be observed again by identity, or it was launched and cannot.       *)
(***************************************************************************)
HelperEvidence == {"unknown", "never-launched", "close-proven", "identified", "unidentified"}
Launched(evidence) == evidence \in {"close-proven", "identified", "unidentified"}

Record == [exec : Executions, state : States, revision : Nat,
           claude : BOOLEAN, git : BOOLEAN, helper : HelperEvidence]

(***************************************************************************)
(* The slot holds at most one record; with no ownership/ directory there   *)
(* is none.                                                                *)
(***************************************************************************)
NoRecord == [exec |-> None, state |-> "RELEASED", revision |-> 0,
             claude |-> FALSE, git |-> FALSE, helper |-> "unknown"]
Slot == Record \union {NoRecord}

Reservation(e) == [NoRecord EXCEPT !.exec = e, !.state = "RESERVED"]

\* validateDurableOwnershipRecord, over the fields kept here.
ValidRecord(r) ==
    /\ r.state \in {"ACTIVE", "TERMINATING"} => r.claude
    /\ r.exec \in ReviewExecutions => r.state # "PREPARING_WORKTREE" /\ ~r.git

MayAdvance(r, state) == state \in TRANSITIONS[r.state]

\* The record a transition publishes.  Every publication advances the revision.
Advance(r, state) == [r EXCEPT !.state = state, !.revision = @ + 1]

(***************************************************************************)
(* The compare half of a checked publication.                              *)
(***************************************************************************)
SamePublicationAuthority(current, expected) ==
    /\ current.exec # None
    /\ current.exec = expected.exec
    /\ current.revision = expected.revision
    /\ current.state = expected.state
=============================================================================
