--------------------------- MODULE BoundedCommand ---------------------------
(***************************************************************************)
(* What a supervised external command promises its caller: one answer,     *)
(* after which no process is started for it, neither the command itself    *)
(* nor one to end it, and which calls the command over only when every     *)
(* process that was started for it is over.                                *)
(***************************************************************************)
CONSTANT Processes

VARIABLES
    started,    \* the processes handed to the system so far
    ended,      \* those of them that are over
    answer      \* what the caller was told: nothing yet, "over" or "unproven"

vars == <<started, ended, answer>>

Init == started = {} /\ ended = {} /\ answer = "awaited"

Start(p) ==
    /\ answer = "awaited" /\ p \notin started
    /\ started' = started \union {p}
    /\ UNCHANGED <<ended, answer>>

End(p) ==
    /\ p \in started \ ended
    /\ ended' = ended \union {p}
    /\ UNCHANGED <<started, answer>>

\* The answer may come with the end of the last of them.
AnswerOver ==
    /\ answer = "awaited"
    /\ answer' = "over"
    /\ ended' = started
    /\ UNCHANGED started

AnswerUnproven ==
    /\ answer = "awaited"
    /\ answer' = "unproven"
    /\ UNCHANGED <<started, ended>>

Next == AnswerOver \/ AnswerUnproven \/ \E p \in Processes : Start(p) \/ End(p)

Spec == Init /\ [][Next]_vars
=============================================================================
