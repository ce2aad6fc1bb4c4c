-------------------------- MODULE ExclusiveCustody --------------------------
(***************************************************************************)
(* What the durable custody of a repository promises the processes that    *)
(* work in it: one execution at a time holds the repository, only the      *)
(* holder's processes run there, custody is returned only once all of them *)
(* are quiet, and an execution that returned it never holds it again.      *)
(***************************************************************************)
CONSTANTS Executions, None

VARIABLES
    holder,   \* the execution that holds the repository, or None
    busy,     \* executions that have a process at work
    past      \* executions that have returned custody

vars == <<holder, busy, past>>

Init == holder = None /\ busy = {} /\ past = {}

Take(e) ==
    /\ holder = None /\ e \notin past
    /\ holder' = e
    /\ UNCHANGED <<busy, past>>

StartWork(e) ==
    /\ holder = e
    /\ busy' = busy \union {e}
    /\ UNCHANGED <<holder, past>>

EndWork(e) ==
    /\ busy' = busy \ {e}
    /\ UNCHANGED <<holder, past>>

Return(e) ==
    /\ holder = e /\ e \notin busy
    /\ holder' = None
    /\ past' = past \union {e}
    /\ UNCHANGED busy

Next == \E e \in Executions : Take(e) \/ StartWork(e) \/ EndWork(e) \/ Return(e)

Spec == Init /\ [][Next]_vars
=============================================================================
