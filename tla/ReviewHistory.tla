--------------------------- MODULE ReviewHistory ---------------------------
(***************************************************************************)
(* The receipts of a repository and the search for one that still applies  *)
(* (src/src/review/receipt-store.mjs, review-binding.mjs and the           *)
(* reconcile_only request of src/src/delegate-agent.mjs).                  *)
(*                                                                         *)
(* A receipt becomes durable after the artifact with its result, and is    *)
(* then entered in an index of its scope, which is pruned: after custody   *)
(* has been returned, one file at a time, and without anybody waiting.     *)
(* Whatever fails there fails silently.  So a search reads the index and   *)
(* then sweeps all receipts, within bounds, and says whether what it found *)
(* is complete.  Only then may a single receipt be taken for the answer.   *)
(*                                                                         *)
(* ReviewPublication has the fence and the retries of a publication.       *)
(***************************************************************************)
EXTENDS Integers, FiniteSets

CONSTANTS
    Reviews,        \* reviews, numbered in the order their receipts sort by age
    ChangeSets,
    Current,        \* the change set the searcher has collected
    Scopes,         \* what an agent reviews against which target
    Scope,          \* the scope of each review
    Ours,           \* the scope of the searcher
    Result,         \* what each review says
    Evidenced,      \* reviews whose receipt records the committed change they saw
    MaxReceipts,    \* MAX_RECEIPTS_PER_CHANGE_SET (64)
    MaxPointers,    \* MAX_POINTERS_PER_SCOPE (32)
    MaxDiscovered,  \* MAX_DISCOVERED_RECEIPTS (16)
    MaxChangeSets,  \* MAX_RECOVERY_CHANGE_SETS (256)
    MaxLoads        \* MAX_RECOVERY_RECEIPT_LOADS (256)

ASSUME HistoryAssumption ==
    /\ Reviews \subseteq Nat /\ IsFiniteSet(Reviews) /\ Current \in ChangeSets /\ Ours \in Scopes
    /\ Scope \in [Reviews -> Scopes] /\ Evidenced \subseteq Reviews
    /\ {MaxReceipts, MaxPointers, MaxDiscovered, MaxChangeSets, MaxLoads} \subseteq Nat \ {0}

VARIABLES
    changeSet,  \* what each review is of
    artifacts,  \* results under reviews/artifacts
    receipts,   \* reviews whose receipt is under reviews/cs
    pointers,   \* reviews with a pointer under reviews/sc
    written,    \* reviews that ever had one: for the properties only
    put,        \* how far the store has come with each review
    doomed,     \* pointers a prune has listed and not yet removed
    search,     \* the search
    before      \* the receipts when the search began: for the properties only

vars == <<changeSet, artifacts, receipts, pointers, written, put, doomed, search, before>>
store == <<changeSet, artifacts, receipts, pointers, written, put, doomed>>

Puts == {"idle", "artifact", "rename", "pointer", "prune", "unlink", "over"}

Searches == {"idle", "index", "root", "directories", "receipts", "select", "over"}

Selections == {"none", "evidence-unproven", "ambiguous", "completeness-unproven", "fresh"}

Search ==
    [pc : Searches,
     names : SUBSET Reviews,           \* pointers listed and not yet followed
     found : SUBSET Reviews,
     directories : SUBSET ChangeSets,  \* listed and not yet swept
     files : SUBSET Reviews,           \* listed in the directory being swept
     loads : 0..MaxLoads,
     truncated : BOOLEAN,
     unreadable : BOOLEAN,
     status : {"none", "complete", "partial", "indeterminate"},
     committed : BOOLEAN,              \* what is there is a committed change
     selection : Selections,
     selected : SUBSET Reviews]

Blank == [pc |-> "idle", names |-> {}, found |-> {}, directories |-> {}, files |-> {},
          loads |-> 0, truncated |-> FALSE, unreadable |-> FALSE, status |-> "none",
          committed |-> FALSE, selection |-> "none", selected |-> {}]

Init ==
    /\ changeSet \in [Reviews -> ChangeSets]
    /\ artifacts = {} /\ receipts = {} /\ pointers = {} /\ written = {} /\ before = {}
    /\ put = [r \in Reviews |-> "idle"] /\ doomed = [r \in Reviews |-> {}]
    /\ search = Blank

Directory(cs) == {r \in receipts : changeSet[r] = cs}
Index(scope) == {r \in pointers : Scope[r] = scope}

\* The n newest of a set of receipts or pointers.
Newest(S, n) == {r \in S : Cardinality({q \in S : q > r}) < n}

-----------------------------------------------------------------------------
(* put.                                                                    *)

Step(r, from, to) == put[r] = from /\ put' = [put EXCEPT ![r] = to]

\* Only the review that has custody binds a receipt.
Begin(r) ==
    /\ \A q \in Reviews : put[q] \notin {"artifact", "rename"}
    /\ Step(r, "idle", IF Cardinality(Directory(changeSet[r])) < MaxReceipts
                         THEN "artifact" ELSE "over")
    /\ UNCHANGED <<changeSet, artifacts, receipts, pointers, written, doomed, search, before>>

\* Mutant: an artifact that cannot be written is passed over.
PersistResultArtifactMaybe(r) ==
    /\ Step(r, "artifact", "rename")
    /\ artifacts' \in {artifacts, artifacts \union {Result[r]}}
    /\ UNCHANGED <<changeSet, receipts, pointers, written, doomed, search, before>>

\* An artifact is named after its content, and an identical one is left alone.
PersistAndVerifyResultArtifact(r) ==
    /\ Step(r, "artifact", "rename")
    /\ artifacts' = artifacts \union {Result[r]}
    /\ UNCHANGED <<changeSet, receipts, pointers, written, doomed, search, before>>

RenameReceipt(r) ==
    /\ Step(r, "rename", "pointer")
    /\ receipts' = receipts \union {r}
    /\ UNCHANGED <<changeSet, artifacts, pointers, written, doomed, search, before>>

RecordPointer(r) ==
    /\ Step(r, "pointer", "prune")
    /\ pointers' = pointers \union {r} /\ written' = written \union {r}
    /\ UNCHANGED <<changeSet, artifacts, receipts, doomed, search, before>>

\* Mutant: a prune makes room for one more.
PruneOneMore(r) ==
    /\ put[r] = "prune"
    /\ LET names == Index(Scope[r])
           oldest == names \ Newest(names, MaxPointers - 1)
       IN  /\ doomed' = [doomed EXCEPT ![r] = oldest]
           /\ put' = [put EXCEPT ![r] = IF oldest = {} THEN "over" ELSE "unlink"]
    /\ UNCHANGED <<changeSet, artifacts, receipts, pointers, written, search, before>>

PrunePointers(r) ==
    /\ put[r] = "prune"
    /\ LET names == Index(Scope[r])
           oldest == names \ Newest(names, MaxPointers)
       IN  /\ doomed' = [doomed EXCEPT ![r] = oldest]
           /\ put' = [put EXCEPT ![r] = IF oldest = {} THEN "over" ELSE "unlink"]
    /\ UNCHANGED <<changeSet, artifacts, receipts, pointers, written, search, before>>

\* An unlink that fails is passed over.
Unlink(r, q) ==
    /\ put[r] = "unlink" /\ q \in doomed[r]
    /\ doomed' = [doomed EXCEPT ![r] = @ \ {q}]
    /\ put' = [put EXCEPT ![r] = IF doomed[r] = {q} THEN "over" ELSE @]
    /\ pointers' \in {pointers, pointers \ {q}}
    /\ UNCHANGED <<changeSet, artifacts, receipts, written, search, before>>

\* The coordinator crashes, the request stops or a file operation fails: what is
\* left to do is not done.
Abandon(r) ==
    /\ put[r] \notin {"idle", "over"}
    /\ put' = [put EXCEPT ![r] = "over"] /\ doomed' = [doomed EXCEPT ![r] = {}]
    /\ UNCHANGED <<changeSet, artifacts, receipts, pointers, written, search, before>>

Put(r) ==
    \/ Begin(r) \/ PersistAndVerifyResultArtifact(r) \/ RenameReceipt(r) \/ RecordPointer(r)
    \/ PrunePointers(r) \/ (\E q \in Reviews : Unlink(r, q)) \/ Abandon(r)

-----------------------------------------------------------------------------
(* discoverForScope.                                                       *)

Searching(step) == search.pc = step

Go(new) == search' = new /\ UNCHANGED <<store, before>>

\* A directory of pointers that cannot be read ends the search.
ListIndex ==
    /\ Searching("idle")
    /\ before' = receipts /\ UNCHANGED store
    /\ search' \in {[search EXCEPT !.pc = "index", !.names = Newest(Index(Ours), MaxPointers)],
                    [search EXCEPT !.pc = "select", !.status = "indeterminate"]}

\* The pointer may be gone by now, and the receipt may not be readable.
FollowPointer(r) ==
    /\ Searching("index") /\ r \in search.names
    /\ \E readable \in BOOLEAN :
         /\ readable => r \in pointers
         /\ Go([search EXCEPT !.names = @ \ {r},
                              !.found = IF readable THEN @ \union {r} ELSE @])

\* The sweep, #recoverScopeFromReceipts, does not depend on the index.  put makes
\* the directory of a change set before there is a receipt to go into it.
ListRoot ==
    /\ Searching("index") /\ search.names = {}
    /\ LET all == {changeSet[r] : r \in {q \in Reviews : put[q] # "idle"}}
       IN  \/ \E some \in SUBSET all :
                /\ Cardinality(some) = IF Cardinality(all) > MaxChangeSets
                                         THEN MaxChangeSets ELSE Cardinality(all)
                /\ Go([search EXCEPT !.pc = "directories", !.directories = some,
                                     !.truncated = some # all])
           \/ Go([search EXCEPT !.pc = "select", !.status = "indeterminate"])

ListDirectory(cs) ==
    /\ Searching("directories") /\ cs \in search.directories
    /\ search.loads < MaxLoads
    /\ \/ Go([search EXCEPT !.pc = "receipts", !.directories = @ \ {cs},
                            !.files = Directory(cs)])
       \/ Go([search EXCEPT !.directories = @ \ {cs}, !.unreadable = TRUE])

\* Mutant: loads are counted, and not bounded within a directory.
LoadUnbounded(r) ==
    /\ Searching("receipts") /\ r \in search.files
    /\ LET loaded == [search EXCEPT !.files = @ \ {r}, !.loads = @ + 1]
       IN  Go([loaded EXCEPT !.found = IF Scope[r] = Ours THEN @ \union {r} ELSE @])

\* A receipt that cannot be read may be one of this scope.
LoadReceipt(r) ==
    /\ Searching("receipts") /\ r \in search.files
    /\ search.loads < MaxLoads
    /\ LET loaded == [search EXCEPT !.files = @ \ {r}, !.loads = @ + 1]
       IN  \/ Go([loaded EXCEPT !.found = IF Scope[r] = Ours THEN @ \union {r} ELSE @])
           \/ Go([loaded EXCEPT !.unreadable = TRUE])

EndDirectory ==
    /\ Searching("receipts")
    /\ search.files = {} \/ search.loads = MaxLoads
    /\ Go([search EXCEPT !.pc = "directories", !.files = {},
                         !.truncated = @ \/ search.files # {}])

\* Mutant: what could not be read does not count.
EndSweepUnread ==
    /\ Searching("directories")
    /\ search.directories = {} \/ search.loads = MaxLoads
    /\ LET truncated == search.truncated \/ search.directories # {}
       IN  Go([Blank EXCEPT !.pc = "select", !.found = search.found,
                            !.status = IF truncated THEN "partial" ELSE "complete"])

\* `limit` bounds what is listed to the caller; a list cut short is partial.
EndSweep ==
    /\ Searching("directories")
    /\ search.directories = {} \/ search.loads = MaxLoads
    /\ LET truncated == search.truncated \/ search.directories # {}
           complete == /\ ~truncated /\ ~search.unreadable
                       /\ Cardinality(search.found) <= MaxDiscovered
       IN  Go([Blank EXCEPT !.pc = "select", !.found = search.found,
                            !.status = IF complete THEN "complete" ELSE "partial"])

\* FRESH: the receipt is of what is there.  Of a committed change it must say so.
Fresh == {r \in search.found : changeSet[r] = Current}
Applicable(committed) == IF committed THEN Evidenced ELSE Reviews

Conclude(committed, selection, selected) ==
    Go([Blank EXCEPT !.pc = "over", !.committed = committed,
                     !.selection = selection, !.selected = selected])

\* Mutant: the only receipt that applies is the answer, the history complete or not.
SelectAnyway ==
    /\ Searching("select")
    /\ \E committed \in BOOLEAN :
         LET usable == Fresh \intersect Applicable(committed)
         IN  CASE Cardinality(usable) > 1 -> Conclude(committed, "ambiguous", {})
               [] Cardinality(usable) = 1 -> Conclude(committed, "fresh", usable)
               [] OTHER -> Conclude(committed, "none", {})

\* Mutant: a receipt that does not apply is no receipt.
SelectUsable ==
    /\ Searching("select")
    /\ \E committed \in BOOLEAN :
         LET usable == Fresh \intersect Applicable(committed)
         IN  IF Cardinality(usable) > 1 THEN Conclude(committed, "ambiguous", {})
             ELSE IF search.status # "complete"
               THEN Conclude(committed, "completeness-unproven", {})
             ELSE IF usable = {} THEN Conclude(committed, "none", {})
             ELSE Conclude(committed, "fresh", usable)

\* reconcile_only without a review_id.  The evidence of a committed change is
\* collected once the history has been.
Select ==
    /\ Searching("select")
    /\ \E committed \in BOOLEAN :
         LET usable == Fresh \intersect Applicable(committed)
         IN  IF usable = {} /\ Fresh # {} THEN Conclude(committed, "evidence-unproven", {})
             ELSE IF Cardinality(usable) > 1 THEN Conclude(committed, "ambiguous", {})
             ELSE IF search.status # "complete"
               THEN Conclude(committed, "completeness-unproven", {})
             ELSE IF usable = {} THEN Conclude(committed, "none", {})
             ELSE Conclude(committed, "fresh", usable)

SearchStep ==
    \/ ListIndex \/ (\E r \in Reviews : FollowPointer(r) \/ LoadReceipt(r))
    \/ ListRoot \/ (\E cs \in ChangeSets : ListDirectory(cs))
    \/ EndDirectory \/ EndSweep \/ Select

Next == SearchStep \/ \E r \in Reviews : Put(r)

Spec == Init /\ [][Next]_vars

-----------------------------------------------------------------------------
(* Properties.                                                             *)

TypeOK ==
    /\ changeSet \in [Reviews -> ChangeSets]
    /\ artifacts \subseteq {Result[r] : r \in Reviews}
    /\ receipts \subseteq Reviews /\ pointers \subseteq Reviews
    /\ written \subseteq Reviews /\ before \subseteq Reviews
    /\ put \in [Reviews -> Puts] /\ doomed \in [Reviews -> SUBSET Reviews]
    /\ search \in Search

\* A history that is called complete has every receipt of the scope that was
\* durable when the search began, whatever became of the index (README.md:247,
\* receipt-store.mjs:667-679).
CompleteHistoryMissesNothing ==
    search.status = "complete" =>
        {r \in before : Scope[r] = Ours} \subseteq search.found

\* A receipt is taken for the answer only if it was the only one there was that
\* can answer.  A receipt of the same scope and change set that cannot, for want
\* of evidence of the committed change, does not stand in its way
\* (delegate-agent.mjs:1361-1374).
SelectedAlone ==
    search.selection = "fresh" =>
        LET usable == Applicable(search.committed)
        IN  \E r \in receipts \intersect usable :
               /\ search.selected = {r}
               /\ \A q \in before \intersect usable :
                     Scope[q] = Ours /\ changeSet[q] = Current => q = r

\* A request that is told there is no receipt had none to find, not even one
\* that could not answer it.
NoneFoundIsNone ==
    search.pc = "over" /\ search.selection = "none" =>
        \A q \in before : Scope[q] = Ours => changeSet[q] # Current

\* Nobody finds a receipt without the result it vouches for.
ReceiptHasArtifact == \A r \in receipts : Result[r] \in artifacts

\* Prunes that overlap, each from a listing of its own, never remove one of the
\* newest pointers ever written to an index.
NewestPointersSurvive ==
    \A scope \in Scopes :
       Newest({r \in written : Scope[r] = scope}, MaxPointers) \subseteq pointers
=============================================================================
