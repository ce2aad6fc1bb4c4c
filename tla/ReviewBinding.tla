--------------------------- MODULE ReviewBinding ---------------------------
(***************************************************************************)
(* A coherent review (src/src/review/review-binding.mjs, and the part of   *)
(* delegate-agent.mjs that drives it): the change set is collected before  *)
(* the reviewer runs and again after, under the write slot of the          *)
(* repository, and a receipt is bound only if both are exact and the same  *)
(* and the slot was never lost.  A review that was denied the slot runs    *)
(* all the same, only observes, and binds nothing.                         *)
(*                                                                         *)
(* ReviewPublication has what becomes of the receipt.                      *)
(***************************************************************************)
EXTENDS ChangeSetCollector

VARIABLES
    phase,     \* how far the review has come
    held,      \* reviewCoherence is COHERENCE.HELD
    before,    \* the identity the reviewer was shown, or None
    outcome,   \* bound, or why not
    wrote      \* who changed the repository from the admission to the end of the
               \* collection after the review: for the properties only

vars == <<collectorVars, phase, held, before, outcome, wrote>>

Phases == {"idle", "before", "review", "verify", "after", "reverify", "bind", "done"}

Outcomes == {"none", "bound", "not completed", "denied", "before indeterminate", "lost",
             "after indeterminate", "mutated", "out of scope", "not persisted", "stopped"}

Init ==
    /\ CollectorInit
    /\ phase = "idle" /\ held = FALSE /\ before = None /\ outcome = "none" /\ wrote = {}

Active == phase \notin {"idle", "done"}

\* The interval a receipt claims.
InInterval == phase \in {"before", "review", "verify"} \/ (phase = "after" /\ Running)

-----------------------------------------------------------------------------
(* Others.                                                                 *)

\* Somebody edits: through custody, or past it, as an editor or a shell does.
Write(who) ==
    /\ who = "managed" => custody \in Writers
    /\ AnyChange
    /\ wrote' = IF InInterval THEN wrote \union {who} ELSE wrote
    /\ UNCHANGED <<phase, held, before, outcome>>

WriterSlot ==
    /\ \E w \in Writers : WriterTakesCustody(w) \/ WriterReturnsCustody(w)
    /\ UNCHANGED <<phase, held, before, outcome, wrote>>

\* A coordinator wrongly judged dead has its record reconciled away.
Misjudge ==
    /\ custody = Review /\ custody' = None
    /\ UNCHANGED <<repo, writes, coll, course, phase, held, before, outcome, wrote>>

-----------------------------------------------------------------------------
(* The review.                                                             *)

\* coherentAdmission.admit, then the collection of reviewBinder.before.
Admit ==
    /\ phase = "idle" /\ phase' = "before"
    /\ held' = (custody = None)
    /\ custody' = IF custody = None THEN Review ELSE custody
    /\ Begin(held')
    /\ UNCHANGED <<repo, writes, course, before, outcome, wrote>>

\* A review whose lifecycle update fails only observes, and has given the slot
\* back unless that failed too.
AdmitAndLose ==
    /\ phase = "idle" /\ phase' = "before"
    /\ custody = None /\ custody' \in {None, Review}
    /\ Begin(FALSE)
    /\ UNCHANGED <<repo, writes, course, held, before, outcome, wrote>>

BinderStays == UNCHANGED <<repo, writes, coll, course, wrote>>

\* The end of the review, with which custody goes back.
Finish(how) ==
    /\ phase' = "done" /\ outcome' = how
    /\ custody' = IF custody = Review THEN None ELSE custody
    /\ BinderStays /\ UNCHANGED <<held, before>>

Proceed(step) ==
    phase' = step /\ BinderStays /\ UNCHANGED <<custody, held, before, outcome>>

\* Mutant: what was collected counts, exact or not.
BeforeEndsRegardless ==
    /\ phase = "before" /\ coll.answer # "none" /\ phase' = "review"
    /\ before' = Collected
    /\ BinderStays /\ UNCHANGED <<custody, held, outcome>>

BeforeEnds ==
    /\ phase = "before" /\ coll.answer # "none" /\ phase' = "review"
    /\ before' = IF Exact THEN Collected ELSE None
    /\ BinderStays /\ UNCHANGED <<custody, held, outcome>>

\* The reviewer is done: reviewBinder.after up to its first verification.
ReviewEnds ==
    /\ phase = "review"
    /\ \/ Finish("not completed")
       \/ IF ~held THEN Finish("denied")
          ELSE IF before = None THEN Finish("before indeterminate") ELSE Proceed("verify")

\* verifyStillHeld.
StillHeld == custody = Review

VerifyHeld ==
    /\ phase = "verify"
    /\ \/ ~StillHeld /\ Finish("lost")
       \/ /\ StillHeld /\ phase' = "after" /\ Begin(TRUE)
          /\ UNCHANGED <<repo, custody, writes, course, held, before, outcome, wrote>>

\* Mutant: the two identities are not compared.
AfterEndsUncompared ==
    /\ phase = "after" /\ coll.answer # "none"
    /\ IF Exact THEN Proceed("reverify") ELSE Finish("after indeterminate")

AfterEnds ==
    /\ phase = "after" /\ coll.answer # "none"
    /\ IF ~Exact THEN Finish("after indeterminate")
       ELSE IF Collected # before THEN Finish("mutated") ELSE Proceed("reverify")

\* Mutant: the slot is not verified a second time.
VerifiedBefore == phase = "reverify" /\ Proceed("bind")

VerifyHeldAgain ==
    /\ phase = "reverify"
    /\ IF StillHeld THEN Proceed("bind") ELSE Finish("lost")

\* The evidence may not cover the change set, and the store may refuse.
Bind ==
    phase = "bind" /\ \E how \in {"bound", "out of scope", "not persisted"} : Finish(how)

\* The request is cancelled or runs out of time; the collection is aborted.
Stop ==
    /\ Active /\ phase' = "done" /\ outcome' = "stopped"
    /\ custody' = IF custody = Review THEN None ELSE custody
    /\ IF Running THEN coll' = [Blank EXCEPT !.answer = "expired"] ELSE UNCHANGED coll
    /\ UNCHANGED <<repo, writes, course, held, before, wrote>>

Collecting == CollectorStep /\ UNCHANGED <<phase, held, before, outcome, wrote>>

BinderStep ==
    BeforeEnds \/ ReviewEnds \/ VerifyHeld \/ AfterEnds \/ VerifyHeldAgain \/ Bind

Next ==
    \/ Write("managed") \/ Write("external") \/ WriterSlot \/ Misjudge
    \/ Admit \/ AdmitAndLose \/ BinderStep \/ Stop \/ Collecting

Spec == Init /\ [][Next]_vars

-----------------------------------------------------------------------------
(* Properties.                                                             *)

TypeOK ==
    /\ CollectorTypeOK
    /\ phase \in Phases /\ held \in BOOLEAN /\ outcome \in Outcomes
    /\ before = None \/ before \in [status : SUBSET Paths, target : Targets \union {None},
                                    head : Heads \union {None}, files : [Paths -> Texts \union {Clean}]]
    /\ wrote \subseteq {"managed", "external"}

\* No managed writer touched the repository from the admission of a review to
\* the end of its collection AFTER, even if the review was taken for dead in
\* between (review-binding.mjs:434-436, 502-504).
BoundIntervalHeld == outcome = "bound" => "managed" \notin wrote

\* What a bound receipt is of, and what the reviewer was shown, is what the
\* repository says, unless it changed since the last collection began.
BoundSubjectIsCurrent ==
    outcome = "bound" /\ course = <<repo>> => before = Identity(repo)

\* A review is not told that the work tree moved under it when nobody moved it.
MutationIsReal ==
    outcome = "mutated" \/ coll.answer = "unstable" => wrote # {}
=============================================================================
