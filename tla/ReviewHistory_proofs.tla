------------------------ MODULE ReviewHistory_proofs ------------------------
(***************************************************************************)
(* Proofs about ReviewHistory, for every set of reviews, every assignment  *)
(* of change sets, scopes and results, and every value of the bounds.      *)
(***************************************************************************)
EXTENDS ReviewHistory, FiniteSetTheorems, TLAPS

-----------------------------------------------------------------------------
(* The store.  A receipt follows its artifact and precedes its pointer.    *)

PutInv ==
    /\ \A r \in receipts : put[r] \notin {"idle", "artifact", "rename"}
    /\ \A r \in Reviews : put[r] = "rename" => Result[r] \in artifacts
    /\ \A r \in Reviews : put[r] = "pointer" => r \in receipts
    /\ pointers \subseteq receipts
    /\ ReceiptHasArtifact

(* The search.  What it has missed so far it can still come to, or has      *)
(* recorded a reason not to call itself complete.                          *)

Missed == {r \in before : Scope[r] = Ours} \ search.found

Pending(r) ==
    \/ changeSet[r] \in search.directories \/ r \in search.files
    \/ search.truncated \/ search.unreadable

SweepInv ==
    /\ before \subseteq receipts /\ search.found \subseteq receipts
    /\ search.files \subseteq receipts
    /\ search.pc \in {"directories", "receipts"} => \A r \in Missed : Pending(r)
    /\ search.pc \in {"idle", "index", "directories"} => search.files = {}
    /\ search.pc # "select" => search.status = "none"
    /\ search.pc # "over" => search.selection = "none"

IInv == TypeOK /\ PutInv /\ SweepInv /\ CompleteHistoryMissesNothing /\ SelectedAlone
        /\ NoneFoundIsNone

USE HistoryAssumption

LEMMA NewestIsSubset == \A S, n : Newest(S, n) \subseteq S
BY DEF Newest

LEMMA BlankIsSearch == Blank \in Search
BY DEF Blank, Search, Searches, Selections

LEMMA InitIsIInv == Init => IInv
<1> SUFFICES ASSUME Init PROVE IInv
  OBVIOUS
<1>1. TypeOK
  BY BlankIsSearch DEF Init, TypeOK, Puts
<1>2. PutInv
  BY DEF Init, PutInv, ReceiptHasArtifact
<1>3. search.pc = "idle" /\ search.found = {} /\ search.files = {}
      /\ search.status = "none" /\ search.selection = "none"
  BY DEF Init, Blank
<1>4. SweepInv
  BY <1>3 DEF Init, SweepInv
<1>5. CompleteHistoryMissesNothing /\ SelectedAlone /\ NoneFoundIsNone
  BY <1>3 DEF CompleteHistoryMissesNothing, SelectedAlone, NoneFoundIsNone
<1>6. QED
  BY <1>1, <1>2, <1>4, <1>5 DEF IInv

-----------------------------------------------------------------------------
(* Types.                                                                  *)

LEMMA PutType == ASSUME TypeOK, NEW r \in Reviews, Put(r) PROVE TypeOK'
<1>1. search' = search /\ before' = before /\ changeSet' = changeSet
  BY DEF Put, Begin, PersistAndVerifyResultArtifact, RenameReceipt, RecordPointer, PrunePointers,
         Unlink, Abandon
<1>2. artifacts' \subseteq {Result[q] : q \in Reviews}
  BY DEF Put, Begin, PersistAndVerifyResultArtifact, RenameReceipt, RecordPointer, PrunePointers,
         Unlink, Abandon, TypeOK
<1>3. receipts' \subseteq Reviews /\ pointers' \subseteq Reviews /\ written' \subseteq Reviews
  BY DEF Put, Begin, PersistAndVerifyResultArtifact, RenameReceipt, RecordPointer, PrunePointers,
         Unlink, Abandon, TypeOK
<1>4. put' \in [Reviews -> Puts]
  BY DEF Put, Step, Begin, PersistAndVerifyResultArtifact, RenameReceipt, RecordPointer,
         PrunePointers, Unlink, Abandon, TypeOK, Puts
<1>5. doomed' \in [Reviews -> SUBSET Reviews]
  <2>1. CASE PrunePointers(r)
    <3>1. Index(Scope[r]) \ Newest(Index(Scope[r]), MaxPointers) \subseteq Reviews
      BY DEF Index, TypeOK
    <3>2. QED
      BY <2>1, <3>1 DEF PrunePointers, TypeOK
  <2>2. CASE Abandon(r) \/ (\E q \in Reviews : Unlink(r, q))
    BY <2>2 DEF Abandon, Unlink, TypeOK
  <2>3. CASE doomed' = doomed
    BY <2>3 DEF TypeOK
  <2>4. QED
    BY <2>1, <2>2, <2>3 DEF Put, Begin, PersistAndVerifyResultArtifact, RenameReceipt, RecordPointer
<1>6. QED
  BY <1>1, <1>2, <1>3, <1>4, <1>5 DEF TypeOK

LEMMA FollowedIsSearch ==
    ASSUME NEW s \in Search, NEW N \in SUBSET Reviews, NEW F \in SUBSET Reviews
    PROVE  [s EXCEPT !.names = N, !.found = F] \in Search
BY DEF Search

LEMMA LoadedIsSearch ==
    ASSUME NEW s \in Search, NEW N \in SUBSET Reviews, NEW n \in 0..MaxLoads,
           NEW F \in SUBSET Reviews, NEW u \in BOOLEAN
    PROVE  [s EXCEPT !.files = N, !.loads = n, !.found = F, !.unreadable = u] \in Search
BY DEF Search

LEMMA SelectingIsSearch ==
    ASSUME NEW F \in SUBSET Reviews, NEW status \in {"complete", "partial"}
    PROVE  [Blank EXCEPT !.pc = "select", !.found = F, !.status = status] \in Search
BY BlankIsSearch DEF Search, Searches

LEMMA OverIsSearch ==
    ASSUME NEW committed \in BOOLEAN, NEW selection \in Selections, NEW S \in SUBSET Reviews
    PROVE  [Blank EXCEPT !.pc = "over", !.committed = committed,
                         !.selection = selection, !.selected = S] \in Search
BY BlankIsSearch DEF Search, Searches

\* The selection concludes with none, with a reason not to select, or with the
\* one receipt of a complete history that applies.
LEMMA SelectConcludes ==
    ASSUME TypeOK, Select
    PROVE  \E committed \in BOOLEAN, selection \in Selections, S \in SUBSET Reviews :
              /\ Conclude(committed, selection, S)
              /\ selection = "fresh" =>
                    /\ S = Fresh \intersect Applicable(committed)
                    /\ S # {} /\ ~(Cardinality(S) > 1) /\ search.status = "complete"
              /\ selection = "none" => Fresh = {} /\ search.status = "complete"
<1>1. PICK committed \in BOOLEAN :
         LET usable == Fresh \intersect Applicable(committed)
         IN  IF usable = {} /\ Fresh # {} THEN Conclude(committed, "evidence-unproven", {})
             ELSE IF Cardinality(usable) > 1 THEN Conclude(committed, "ambiguous", {})
             ELSE IF search.status # "complete"
               THEN Conclude(committed, "completeness-unproven", {})
             ELSE IF usable = {} THEN Conclude(committed, "none", {})
             ELSE Conclude(committed, "fresh", usable)
  BY DEF Select
<1> DEFINE usable == Fresh \intersect Applicable(committed)
<1>2. usable \in SUBSET Reviews
  BY DEF Fresh, TypeOK, Search
<1> HIDE DEF usable
<1>3. CASE usable = {} /\ Fresh # {} /\ Conclude(committed, "evidence-unproven", {})
  BY <1>3 DEF Selections
<1>4. CASE Conclude(committed, "ambiguous", {}) \/ Conclude(committed, "completeness-unproven", {})
  BY <1>4 DEF Selections
<1>5. CASE Fresh = {} /\ search.status = "complete" /\ Conclude(committed, "none", {})
  BY <1>5 DEF Selections
<1>6. CASE /\ usable # {} /\ ~(Cardinality(usable) > 1) /\ search.status = "complete"
           /\ Conclude(committed, "fresh", usable)
  BY <1>2, <1>6 DEF Selections, usable
<1>7. QED
  BY <1>1, <1>3, <1>4, <1>5, <1>6 DEF usable

LEMMA SearchType == ASSUME TypeOK, SearchStep PROVE TypeOK'
<1>1. UNCHANGED store
  BY DEF SearchStep, ListIndex, FollowPointer, LoadReceipt, ListRoot, ListDirectory,
         EndDirectory, EndSweep, Select, Conclude, Go
<1>2. before' \subseteq Reviews
  BY DEF SearchStep, ListIndex, FollowPointer, LoadReceipt, ListRoot, ListDirectory,
         EndDirectory, EndSweep, Select, Conclude, Go, TypeOK
<1>3. search' \in Search
  <2>1. CASE ListIndex
    <3>1. Newest(Index(Ours), MaxPointers) \subseteq Reviews
      BY NewestIsSubset DEF Index, TypeOK
    <3>2. search \in Search /\ search.found \in SUBSET Reviews
      BY DEF TypeOK, Search
    <3>3. CASE search' = [search EXCEPT !.pc = "index", !.names = Newest(Index(Ours), MaxPointers)]
      BY <3>1, <3>2, <3>3 DEF Search, Searches
    <3>4. CASE search' = [search EXCEPT !.pc = "select", !.status = "indeterminate"]
      BY <3>2, <3>4 DEF Search, Searches
    <3>5. QED
      BY <2>1, <3>3, <3>4 DEF ListIndex
  <2>2. CASE \E r \in Reviews : FollowPointer(r)
    <3>1. PICK r \in Reviews : FollowPointer(r)
      BY <2>2
    <3>2. PICK F \in SUBSET Reviews :
             search' = [search EXCEPT !.names = @ \ {r}, !.found = F]
      <4>1. search.found \in SUBSET Reviews /\ search.found \union {r} \in SUBSET Reviews
        BY DEF TypeOK, Search
      <4>2. PICK readable \in BOOLEAN :
               search' = [search EXCEPT !.names = @ \ {r},
                             !.found = IF readable THEN @ \union {r} ELSE @]
        BY <3>1 DEF FollowPointer, Go
      <4>3. QED
        BY <4>1, <4>2
    <3>3. search.names \ {r} \in SUBSET Reviews /\ search \in Search
      BY DEF TypeOK, Search
    <3>4. QED
      BY <3>2, <3>3, FollowedIsSearch
  <2>3. CASE \E r \in Reviews : LoadReceipt(r)
    <3>1. search.loads + 1 \in 0..MaxLoads
      BY <2>3 DEF LoadReceipt, TypeOK, Search
    <3>2. PICK r \in Reviews : LoadReceipt(r)
      BY <2>3
    <3>3. /\ search.found \in SUBSET Reviews /\ search.found \union {r} \in SUBSET Reviews
          /\ search.files \ {r} \in SUBSET Reviews /\ search.unreadable \in BOOLEAN
          /\ search \in Search
      BY DEF TypeOK, Search
    <3>4. PICK F \in SUBSET Reviews, u \in BOOLEAN :
             search' = [search EXCEPT !.files = @ \ {r}, !.loads = @ + 1, !.found = F,
                                      !.unreadable = u]
      <4>1. \/ search' = [[search EXCEPT !.files = @ \ {r}, !.loads = @ + 1]
                            EXCEPT !.found = IF Scope[r] = Ours THEN @ \union {r} ELSE @]
            \/ search' = [[search EXCEPT !.files = @ \ {r}, !.loads = @ + 1]
                            EXCEPT !.unreadable = TRUE]
        BY <3>2 DEF LoadReceipt, Go
      <4>2. \/ search' = [search EXCEPT !.files = @ \ {r}, !.loads = @ + 1,
                             !.found = IF Scope[r] = Ours THEN @ \union {r} ELSE @,
                             !.unreadable = search.unreadable]
            \/ search' = [search EXCEPT !.files = @ \ {r}, !.loads = @ + 1,
                             !.found = search.found, !.unreadable = TRUE]
        BY <4>1, <3>3 DEF Search
      <4>3. QED
        BY <4>2, <3>3
    <3>5. QED
      BY <3>1, <3>3, <3>4, LoadedIsSearch
  <2>4. CASE ListRoot
    <3>1. \A some \in SUBSET {changeSet[r] : r \in {q \in Reviews : put[q] # "idle"}} :
             some \subseteq ChangeSets
      BY DEF TypeOK
    <3>2. search \in Search /\ search.directories \in SUBSET ChangeSets
      BY DEF TypeOK, Search
    <3>3. CASE search' = [search EXCEPT !.pc = "select", !.status = "indeterminate"]
      BY <3>2, <3>3 DEF Search, Searches
    <3>4. CASE \E some \in SUBSET {changeSet[r] : r \in {q \in Reviews : put[q] # "idle"}} :
                  search' = [search EXCEPT !.pc = "directories", !.directories = some,
                               !.truncated = some # {changeSet[r] : r \in
                                                       {q \in Reviews : put[q] # "idle"}}]
      <4>1. PICK D \in SUBSET ChangeSets, t \in BOOLEAN :
               search' = [search EXCEPT !.pc = "directories", !.directories = D, !.truncated = t]
        BY <3>1, <3>4
      <4>2. QED
        BY <4>1, <3>2 DEF Search, Searches
    <3>5. QED
      BY <2>4, <3>3, <3>4 DEF ListRoot, Go
  <2>5. CASE \E cs \in ChangeSets : ListDirectory(cs)
    <3>1. \A cs \in ChangeSets : Directory(cs) \subseteq Reviews
      BY DEF Directory, TypeOK
    <3>2. PICK cs \in ChangeSets : ListDirectory(cs)
      BY <2>5
    <3>3. search \in Search /\ search.directories \ {cs} \in SUBSET ChangeSets
      BY DEF TypeOK, Search
    <3>4. \/ search' = [search EXCEPT !.pc = "receipts", !.directories = @ \ {cs},
                                      !.files = Directory(cs)]
          \/ search' = [search EXCEPT !.directories = @ \ {cs}, !.unreadable = TRUE]
      BY <3>2 DEF ListDirectory, Go
    <3>5. QED
      BY <3>1, <3>3, <3>4 DEF Search, Searches
  <2>6. CASE EndDirectory
    BY <2>6 DEF EndDirectory, Go, TypeOK, Search, Searches
  <2>7. CASE EndSweep
    <3>1. search.found \subseteq Reviews
      BY DEF TypeOK, Search
    <3>2. PICK status \in {"complete", "partial"} :
             search' = [Blank EXCEPT !.pc = "select", !.found = search.found, !.status = status]
      <4>1. \E complete \in BOOLEAN :
               search' = [Blank EXCEPT !.pc = "select", !.found = search.found,
                            !.status = IF complete THEN "complete" ELSE "partial"]
        BY <2>7 DEF EndSweep, Go
      <4>2. PICK complete \in BOOLEAN :
               search' = [Blank EXCEPT !.pc = "select", !.found = search.found,
                            !.status = IF complete THEN "complete" ELSE "partial"]
        BY <4>1
      <4>3. (IF complete THEN "complete" ELSE "partial") \in {"complete", "partial"}
        OBVIOUS
      <4>4. QED
        BY <4>2, <4>3
    <3>3. QED
      BY <3>1, <3>2, SelectingIsSearch
  <2>8. CASE Select
    <3>1. PICK committed \in BOOLEAN, selection \in Selections, S \in SUBSET Reviews :
             Conclude(committed, selection, S)
      BY <2>8, SelectConcludes
    <3>2. QED
      BY <3>1, OverIsSearch DEF Conclude, Go
  <2>9. QED
    BY <2>1, <2>2, <2>3, <2>4, <2>5, <2>6, <2>7, <2>8 DEF SearchStep
<1>4. QED
  BY <1>1, <1>2, <1>3 DEF TypeOK, store

-----------------------------------------------------------------------------
(* The invariants, step by step.                                           *)

LEMMA PutKeepsIInv == ASSUME IInv, NEW r \in Reviews, Put(r) PROVE IInv'
<1>1. TypeOK'
  BY PutType DEF IInv
<1>2. /\ search' = search /\ before' = before /\ changeSet' = changeSet
      /\ receipts \subseteq receipts'
  BY DEF Put, Begin, PersistAndVerifyResultArtifact, RenameReceipt, RecordPointer, PrunePointers,
         Unlink, Abandon
<1>3. PutInv'
  <2>1. TypeOK /\ PutInv
    BY DEF IInv
  <2>2. CASE Begin(r)
    BY <2>1, <2>2 DEF Begin, Step, PutInv, ReceiptHasArtifact, TypeOK
  <2>3. CASE PersistAndVerifyResultArtifact(r)
    BY <2>1, <2>3 DEF PersistAndVerifyResultArtifact, Step, PutInv, ReceiptHasArtifact, TypeOK
  <2>4. CASE RenameReceipt(r)
    BY <2>1, <2>4 DEF RenameReceipt, Step, PutInv, ReceiptHasArtifact, TypeOK
  <2>5. CASE RecordPointer(r)
    BY <2>1, <2>5 DEF RecordPointer, Step, PutInv, ReceiptHasArtifact, TypeOK
  <2>6. CASE PrunePointers(r)
    BY <2>1, <2>6 DEF PrunePointers, PutInv, ReceiptHasArtifact, TypeOK
  <2>7. CASE \E q \in Reviews : Unlink(r, q)
    BY <2>1, <2>7 DEF Unlink, PutInv, ReceiptHasArtifact, TypeOK
  <2>8. CASE Abandon(r)
    BY <2>1, <2>8 DEF Abandon, PutInv, ReceiptHasArtifact, TypeOK
  <2>9. QED
    BY <2>2, <2>3, <2>4, <2>5, <2>6, <2>7, <2>8 DEF Put
<1>4. SweepInv'
  <2>1. SweepInv
    BY DEF IInv
  <2>2. QED
    BY <1>2, <2>1 DEF SweepInv, Missed, Pending
<1>5. CompleteHistoryMissesNothing' /\ SelectedAlone' /\ NoneFoundIsNone'
  BY <1>2 DEF IInv, CompleteHistoryMissesNothing, SelectedAlone, NoneFoundIsNone
<1>6. QED
  BY <1>1, <1>3, <1>4, <1>5 DEF IInv

LEMMA SearchKeepsSweepInv == ASSUME IInv, SearchStep PROVE SweepInv'
<1> USE DEF Missed, Pending
<1>1. TypeOK /\ PutInv /\ SweepInv /\ search \in Search
  BY DEF IInv, TypeOK
<1>2. UNCHANGED <<receipts, changeSet, pointers>>
  BY DEF SearchStep, ListIndex, FollowPointer, LoadReceipt, ListRoot, ListDirectory,
         EndDirectory, EndSweep, Select, Conclude, Go, store
<1>3. CASE ListIndex
  <2>1. /\ search'.found = search.found /\ search'.files = search.files
        /\ search'.selection = search.selection /\ search.pc = "idle" /\ before' = receipts
    BY <1>1, <1>3 DEF ListIndex, Searching, Search
  <2>2. \/ search'.pc = "index" /\ search'.status = search.status
        \/ search'.pc = "select"
    BY <1>1, <1>3 DEF ListIndex, Search
  <2>3. QED
    BY <1>1, <1>2, <2>1, <2>2 DEF SweepInv
<1>4. CASE \E r \in Reviews : FollowPointer(r)
  <2>1. /\ before' = before /\ search'.pc = "index" /\ search'.files = search.files
        /\ search'.status = search.status /\ search'.selection = search.selection
    BY <1>1, <1>4 DEF FollowPointer, Searching, Go, Search
  <2>2. search'.found \subseteq search.found \union pointers
    <3>1. PICK r \in Reviews, readable \in BOOLEAN :
             /\ readable => r \in pointers
             /\ search' = [search EXCEPT !.names = @ \ {r},
                                         !.found = IF readable THEN @ \union {r} ELSE @]
      BY <1>4 DEF FollowPointer, Go
    <3>2. search'.found = IF readable THEN search.found \union {r} ELSE search.found
      BY <1>1, <3>1 DEF Search
    <3>3. QED
      BY <3>1, <3>2
  <2>3. search.pc = "index"
    BY <1>4 DEF FollowPointer, Searching
  <2>4. QED
    BY <1>1, <1>2, <2>1, <2>2, <2>3 DEF SweepInv, PutInv
<1>5. CASE \E r \in Reviews : LoadReceipt(r)
  <2>1. PICK r \in Reviews : LoadReceipt(r)
    BY <1>5
  <2>2. /\ before' = before /\ search'.pc = "receipts" /\ search'.files = search.files \ {r}
        /\ search'.status = search.status /\ search'.selection = search.selection
        /\ search'.directories = search.directories /\ search'.truncated = search.truncated
    BY <1>1, <2>1 DEF LoadReceipt, Searching, Go, Search
  <2>3. \/ search'.found = IF Scope[r] = Ours THEN search.found \union {r} ELSE search.found
        \/ search'.found = search.found /\ search'.unreadable
    BY <1>1, <2>1 DEF LoadReceipt, Go, Search
  <2>4. search.pc = "receipts" /\ (search.unreadable => search'.unreadable)
    BY <1>1, <2>1 DEF LoadReceipt, Go, Searching, Search
  <2>5. r \in receipts
    BY <1>1, <2>1 DEF LoadReceipt, SweepInv
  <2>6. search'.found \subseteq receipts'
    BY <1>1, <1>2, <2>3, <2>5 DEF SweepInv
  <2>7. \A q \in Missed' : Pending(q)'
    BY <1>1, <1>2, <2>2, <2>3, <2>4 DEF SweepInv
  <2>8. QED
    BY <1>1, <1>2, <2>2, <2>4, <2>6, <2>7 DEF SweepInv
<1>6. CASE ListRoot
  <2>1. /\ before' = before /\ search'.found = search.found /\ search'.files = search.files
        /\ search'.selection = search.selection /\ search.pc = "index"
    BY <1>1, <1>6 DEF ListRoot, Searching, Go, Search
  <2>2. \A q \in receipts : changeSet[q] \in {changeSet[r] : r \in {p \in Reviews : put[p] # "idle"}}
    BY <1>1 DEF PutInv, TypeOK
  <2>3. \/ /\ search'.pc = "directories" /\ search'.status = search.status
           /\ search'.directories = {changeSet[r] : r \in {p \in Reviews : put[p] # "idle"}}
              \/ search'.truncated
        \/ search'.pc = "select"
    BY <1>1, <1>6 DEF ListRoot, Go, Search
  <2>4. QED
    BY <1>1, <1>2, <2>1, <2>2, <2>3 DEF SweepInv
<1>7. CASE \E cs \in ChangeSets : ListDirectory(cs)
  <2>1. PICK cs \in ChangeSets : ListDirectory(cs)
    BY <1>7
  <2>2. /\ before' = before /\ search'.found = search.found
        /\ search'.directories = search.directories \ {cs} /\ search.pc = "directories"
        /\ search'.status = search.status /\ search'.selection = search.selection
        /\ search'.truncated = search.truncated
        /\ search.unreadable => search'.unreadable
    BY <1>1, <2>1 DEF ListDirectory, Searching, Go, Search
  <2>0. Directory(cs) \subseteq receipts
    BY DEF Directory
  <2>3. \/ search'.pc = "receipts" /\ search'.files = Directory(cs)
        \/ search'.pc = "directories" /\ search'.files = search.files /\ search'.unreadable
    BY <1>1, <2>1 DEF ListDirectory, Searching, Go, Search
  <2>4. \A q \in Missed' : Pending(q)'
    BY <1>1, <1>2, <2>2, <2>3 DEF SweepInv, Directory
  <2>5. QED
    BY <1>1, <1>2, <2>0, <2>2, <2>3, <2>4 DEF SweepInv
<1>8. CASE EndDirectory
  <2>1. /\ before' = before /\ search'.found = search.found
        /\ search'.directories = search.directories /\ search.pc = "receipts"
        /\ search'.status = search.status /\ search'.selection = search.selection
        /\ search'.pc = "directories" /\ search'.files = {}
        /\ search'.unreadable = search.unreadable
        /\ search'.truncated = (search.truncated \/ search.files # {})
    BY <1>1, <1>8 DEF EndDirectory, Searching, Go, Search
  <2>2. QED
    BY <1>1, <1>2, <2>1 DEF SweepInv
<1>9. CASE EndSweep
  <2>1. /\ before' = before /\ search'.found = search.found
        /\ search'.pc = "select" /\ search'.selection = "none" /\ search'.files = {}
    BY <1>9 DEF EndSweep, Blank, Go
  <2>2. QED
    BY <1>1, <1>2, <2>1 DEF SweepInv
<1>10. CASE Select
  <2>1. /\ before' = before /\ search'.found = {} /\ search'.files = {}
        /\ search'.pc = "over" /\ search'.status = "none"
    BY <1>10 DEF Select, Conclude, Blank, Go
  <2>2. QED
    BY <1>1, <1>2, <2>1 DEF SweepInv
<1>11. QED
  BY <1>3, <1>4, <1>5, <1>6, <1>7, <1>8, <1>9, <1>10 DEF SearchStep

LEMMA SearchKeepsPutInv == ASSUME IInv, SearchStep PROVE PutInv'
<1>1. UNCHANGED store
  BY DEF SearchStep, ListIndex, FollowPointer, LoadReceipt, ListRoot, ListDirectory,
         EndDirectory, EndSweep, Select, Conclude, Go
<1>2. QED
  BY <1>1 DEF IInv, PutInv, ReceiptHasArtifact, store

LEMMA SearchKeepsComplete == ASSUME IInv, SearchStep PROVE CompleteHistoryMissesNothing'
<1>1. TypeOK /\ SweepInv /\ SweepInv' /\ TypeOK'
  BY SearchKeepsSweepInv, SearchType DEF IInv
<1>2. CASE EndSweep
  <2>1. search'.status = "complete" =>
          ~search.truncated /\ ~search.unreadable /\ search.directories = {}
    BY <1>2 DEF EndSweep, Go, Blank
  <2>2. /\ before' = before /\ search'.found = search.found /\ search.pc = "directories"
    BY <1>2 DEF EndSweep, Go, Blank, Searching
  <2>3. search'.status = "complete" => Missed = {}
    BY <1>1, <2>1, <2>2 DEF SweepInv, Pending
  <2>4. QED
    BY <2>2, <2>3 DEF CompleteHistoryMissesNothing, Missed
<1>3. CASE ListIndex \/ ListRoot
  <2>0. search.status = "none" /\ search \in Search
    BY <1>1, <1>3 DEF ListIndex, ListRoot, Searching, SweepInv, TypeOK
  <2>1. search'.status # "complete"
    <3>1. CASE ListIndex
      BY <2>0, <3>1 DEF ListIndex, Search
    <3>2. CASE ListRoot
      BY <2>0, <3>2 DEF ListRoot, Go, Search
    <3>3. QED
      BY <1>3, <3>1, <3>2
  <2>2. QED
    BY <2>1 DEF CompleteHistoryMissesNothing
<1>4. CASE search'.pc # "select"
  BY <1>1, <1>4 DEF SweepInv, CompleteHistoryMissesNothing
<1>5. QED
  <2>0. search \in Search
    BY <1>1 DEF TypeOK
  <2>1. search'.pc # "select" \/ ListIndex \/ ListRoot \/ EndSweep
    <3>1. CASE \E r \in Reviews : FollowPointer(r) \/ LoadReceipt(r)
      BY <2>0, <3>1 DEF FollowPointer, LoadReceipt, Searching, Go, Search
    <3>2. CASE \E cs \in ChangeSets : ListDirectory(cs)
      BY <2>0, <3>2 DEF ListDirectory, Searching, Go, Search
    <3>3. CASE EndDirectory
      BY <2>0, <3>3 DEF EndDirectory, Searching, Go, Search
    <3>4. CASE Select
      BY <3>4 DEF Select, Conclude, Go, Blank
    <3>5. QED
      BY <3>1, <3>2, <3>3, <3>4 DEF SearchStep
  <2>2. QED
    BY <1>2, <1>3, <1>4, <2>1

\* Of the cardinality of a finite set, not more than one says that it has at most
\* one element.
LEMMA AtMostOne ==
    ASSUME NEW S, IsFiniteSet(S), S # {}, ~(Cardinality(S) > 1)
    PROVE  \E x : S = {x}
<1>1. Cardinality(S) \in Nat
  BY FS_CardinalityType
<1>2. Cardinality(S) # 0
  BY FS_EmptySet
<1>3. Cardinality(S) = 1
  BY <1>1, <1>2
<1>4. QED
  BY <1>3, FS_Singleton

LEMMA SearchKeepsSelected ==
    ASSUME IInv, SearchStep
    PROVE  SelectedAlone' /\ NoneFoundIsNone'
<1>1. TypeOK /\ SweepInv /\ SweepInv' /\ CompleteHistoryMissesNothing
  BY SearchKeepsSweepInv DEF IInv
<1>2. CASE ~Select
  <2>1. search'.pc # "over"
    BY <1>1, <1>2 DEF SearchStep, ListIndex, FollowPointer, LoadReceipt, ListRoot, ListDirectory,
         EndDirectory, EndSweep, Searching, Go, Blank, TypeOK, Search
  <2>2. QED
    BY <1>1, <2>1 DEF SweepInv, SelectedAlone, NoneFoundIsNone
<1>3. CASE Select
  <2>1. PICK committed \in BOOLEAN, selection \in Selections, S \in SUBSET Reviews :
           /\ Conclude(committed, selection, S)
           /\ selection = "fresh" =>
                 /\ S = Fresh \intersect Applicable(committed)
                 /\ S # {} /\ ~(Cardinality(S) > 1) /\ search.status = "complete"
           /\ selection = "none" => Fresh = {} /\ search.status = "complete"
    BY <1>1, <1>3, SelectConcludes
  <2>2. /\ search'.selection = selection /\ search'.selected = S
        /\ search'.committed = committed
        /\ before' = before /\ receipts' = receipts /\ changeSet' = changeSet
    BY <2>1 DEF Conclude, Go, Blank, store
  <2>3. search.status = "complete" =>
           \A q \in before : Scope[q] = Ours /\ changeSet[q] = Current => q \in Fresh
    BY <1>1 DEF CompleteHistoryMissesNothing, Fresh
  <2>4. NoneFoundIsNone'
    BY <2>1, <2>2, <2>3 DEF NoneFoundIsNone
  <2>5. ASSUME selection = "fresh" PROVE SelectedAlone'
    <3>1. IsFiniteSet(S)
      BY FS_Subset
    <3>2. PICK r : S = {r}
      BY <2>1, <2>5, <3>1, AtMostOne
    <3>3. r \in receipts /\ r \in Applicable(committed)
      BY <1>1, <2>1, <2>5, <3>2 DEF Fresh, SweepInv
    <3>4. \A q \in before \intersect Applicable(committed) :
             Scope[q] = Ours /\ changeSet[q] = Current => q = r
      BY <2>1, <2>3, <2>5, <3>2
    <3>5. QED
      BY <2>2, <3>2, <3>3, <3>4 DEF SelectedAlone, Applicable
  <2>6. QED
    BY <2>2, <2>4, <2>5 DEF SelectedAlone
<1>4. QED
  BY <1>2, <1>3

LEMMA NextKeepsIInv == IInv /\ [Next]_vars => IInv'
<1> SUFFICES ASSUME IInv, [Next]_vars PROVE IInv'
  OBVIOUS
<1>1. CASE SearchStep
  BY <1>1, SearchType, SearchKeepsPutInv, SearchKeepsSweepInv, SearchKeepsComplete,
     SearchKeepsSelected DEF IInv
<1>2. CASE \E r \in Reviews : Put(r)
  BY <1>2, PutKeepsIInv
<1>3. CASE UNCHANGED vars
  BY <1>3 DEF vars, IInv, TypeOK, PutInv, SweepInv, Missed, Pending, ReceiptHasArtifact,
              CompleteHistoryMissesNothing, SelectedAlone, NoneFoundIsNone
<1>4. QED
  BY <1>1, <1>2, <1>3 DEF Next

-----------------------------------------------------------------------------
(* The theorems.                                                           *)

LEMMA SpecIInv == Spec => []IInv
BY InitIsIInv, NextKeepsIInv, PTL DEF Spec

\* Every variable keeps to its type; in particular no search loads more receipts
\* than its bound.
THEOREM TypeCorrectness == Spec => []TypeOK
BY SpecIInv, PTL DEF IInv

\* discoverForScope calls a history complete only if it has every receipt of the
\* scope that was durable when it began, however the index was pruned or left
\* behind meanwhile and whichever bound was met.
THEOREM CompletenessIsHonest == Spec => []CompleteHistoryMissesNothing
BY SpecIInv, PTL DEF IInv

\* A reconcile_only request that names no review is answered with a receipt only
\* if it can answer it, and no other receipt of its scope and change set that can
\* was durable when it looked.
THEOREM SelectionIsUnambiguous == Spec => []SelectedAlone
BY SpecIInv, PTL DEF IInv

\* It is told that there is none only if no receipt of its scope and change set,
\* one that can answer it or not, was durable when it looked.
THEOREM AbsenceIsProven == Spec => []NoneFoundIsNone
BY SpecIInv, PTL DEF IInv

\* put never makes a receipt durable whose result is not.
THEOREM ArtifactsComeFirst == Spec => []ReceiptHasArtifact
BY SpecIInv, PTL DEF IInv, PutInv

-----------------------------------------------------------------------------
(* The index.  A prune lists what is there, which may be less than what was *)
(* ever written: whatever it then finds too old is too old for good.        *)

\* The pointers ever written to the index of a scope, and those newer than r.
Written(scope) == {r \in written : Scope[r] = scope}
Newer(S, r) == {q \in S : q > r}

\* r is not among the newest of its index, nor ever will be.
Outdated(r) == Cardinality(Newer(Written(Scope[r]), r)) >= MaxPointers

IndexInv ==
    /\ pointers \subseteq written
    /\ \A r \in Reviews : \A q \in doomed[r] : Outdated(q)
    /\ \A r \in written \ pointers : Outdated(r)

\* More pointers are newer than r in a larger index.
LEMMA NewerGrows ==
    ASSUME NEW S, NEW T, S \subseteq T, T \subseteq Reviews, NEW r
    PROVE  /\ Cardinality(Newer(S, r)) \in Nat
           /\ Cardinality(Newer(S, r)) <= Cardinality(Newer(T, r))
<1>1. Newer(S, r) \subseteq Newer(T, r) /\ Newer(T, r) \subseteq Reviews
  BY DEF Newer
<1>2. IsFiniteSet(Newer(T, r)) /\ IsFiniteSet(Newer(S, r))
  BY <1>1, FS_Subset, HistoryAssumption
<1> QED
  BY <1>1, <1>2, FS_Subset, FS_CardinalityType

\* What is outdated stays so as pointers are written.
LEMMA OutdatedForGood ==
    ASSUME written \subseteq written', written' \subseteq Reviews, NEW r, Outdated(r)
    PROVE  Outdated(r)'
<1> DEFINE S == Written(Scope[r])
<1>1. PICK T : T = S'
  OBVIOUS
<1>2. S \subseteq T /\ T \subseteq Reviews
  BY <1>1 DEF Written
<1>3. Cardinality(Newer(S, r)) \in Nat /\ Cardinality(Newer(T, r)) \in Nat
        /\ Cardinality(Newer(S, r)) <= Cardinality(Newer(T, r))
  BY <1>2, NewerGrows
<1>4. Cardinality(Newer(T, r)) >= MaxPointers
  BY <1>3, HistoryAssumption DEF Outdated
<1> QED
  BY <1>1, <1>4 DEF Outdated, Newer

\* A pointer that is not among the newest of those a prune lists is outdated.
LEMMA ListedOldIsOutdated ==
    ASSUME TypeOK, IndexInv, NEW scope, NEW q \in Index(scope) \ Newest(Index(scope), MaxPointers)
    PROVE  Outdated(q)
<1>1. Index(scope) \subseteq Written(scope) /\ Written(scope) \subseteq Reviews /\ Scope[q] = scope
  BY DEF TypeOK, IndexInv, Index, Written
<1>2. Cardinality(Newer(Index(scope), q)) \in Nat /\ Cardinality(Newer(Written(scope), q)) \in Nat
        /\ Cardinality(Newer(Index(scope), q)) <= Cardinality(Newer(Written(scope), q))
  BY <1>1, NewerGrows
<1>3. ~(Cardinality(Newer(Index(scope), q)) < MaxPointers)
  BY DEF Newest, Newer
<1> QED
  BY <1>1, <1>2, <1>3, HistoryAssumption DEF Outdated

LEMMA PutKeepsIndexInv == ASSUME TypeOK, IndexInv, NEW r \in Reviews, Put(r), TypeOK' PROVE IndexInv'
<1>1. written \subseteq written' /\ written' \subseteq Reviews
  BY DEF TypeOK, Put, Begin, PersistAndVerifyResultArtifact, RenameReceipt, RecordPointer,
     PrunePointers, Unlink, Abandon
<1>2. \A q : Outdated(q) => Outdated(q)'
  BY <1>1, OutdatedForGood
<1>3. CASE Begin(r) \/ PersistAndVerifyResultArtifact(r) \/ RenameReceipt(r) \/ RecordPointer(r)
  BY <1>2, <1>3 DEF Begin, PersistAndVerifyResultArtifact, RenameReceipt, RecordPointer, IndexInv
<1>4. CASE PrunePointers(r)
  <2>1. \A q \in Index(Scope[r]) \ Newest(Index(Scope[r]), MaxPointers) : Outdated(q)
    BY ListedOldIsOutdated
  <2>2. /\ UNCHANGED <<written, pointers>>
        /\ \A x \in Reviews : doomed'[x] = IF x = r
              THEN Index(Scope[r]) \ Newest(Index(Scope[r]), MaxPointers) ELSE doomed[x]
    BY <1>4 DEF PrunePointers, TypeOK
  <2> QED
    BY <1>2, <2>1, <2>2 DEF IndexInv
<1>5. CASE \E q \in Reviews : Unlink(r, q)
  <2>1. PICK q \in Reviews : Unlink(r, q)
    BY <1>5
  <2>2. /\ q \in doomed[r] /\ written' = written /\ pointers' \in {pointers, pointers \ {q}}
        /\ \A x \in Reviews : doomed'[x] \subseteq doomed[x]
    BY <2>1 DEF Unlink, TypeOK
  <2> QED
    BY <1>2, <2>2 DEF IndexInv
<1>6. CASE Abandon(r)
  <2>1. /\ UNCHANGED <<written, pointers>>
        /\ \A x \in Reviews : doomed'[x] \subseteq doomed[x]
    BY <1>6 DEF Abandon, TypeOK
  <2> QED
    BY <1>2, <2>1 DEF IndexInv
<1> QED
  BY <1>3, <1>4, <1>5, <1>6 DEF Put

LEMMA SpecIndexInv == Spec => []IndexInv
<1>1. Init => IndexInv
  BY DEF Init, IndexInv
<1>2. IInv /\ IInv' /\ IndexInv /\ [Next]_vars => IndexInv'
  <2> SUFFICES ASSUME IInv, IInv', IndexInv, [Next]_vars PROVE IndexInv'
    OBVIOUS
  <2>1. CASE \E r \in Reviews : Put(r)
    BY <2>1, PutKeepsIndexInv DEF IInv
  <2>2. CASE SearchStep \/ UNCHANGED vars
    <3>1. UNCHANGED <<written, pointers, doomed>>
      BY <2>2 DEF SearchStep, ListIndex, FollowPointer, LoadReceipt, ListRoot, ListDirectory,
         EndDirectory, EndSweep, Select, Conclude, Go, store, vars
    <3> QED
      BY <3>1 DEF IndexInv, Outdated, Written
  <2> QED
    BY <2>1, <2>2 DEF Next
<1> QED
  BY <1>1, <1>2, SpecIInv, PTL DEF Spec

\* Prunes that overlap, each from a listing of its own, and pass over what they
\* cannot remove or are abandoned half way, never remove one of the newest
\* pointers ever written to the index of a scope.
THEOREM NewestPointersStay == Spec => []NewestPointersSurvive
<1>1. IInv /\ IndexInv => NewestPointersSurvive
  <2> SUFFICES ASSUME IInv, IndexInv, NEW scope \in Scopes,
                      NEW r \in Newest(Written(scope), MaxPointers)
               PROVE  r \in pointers
    BY DEF NewestPointersSurvive, Written
  <2>1. r \in written /\ Scope[r] = scope
    BY DEF Newest, Written
  <2>2. Written(scope) \subseteq Reviews
    BY DEF IInv, TypeOK, Written
  <2>3. Cardinality(Newer(Written(scope), r)) < MaxPointers
    BY DEF Newest, Newer
  <2>4. Cardinality(Newer(Written(scope), r)) \in Nat
    BY <2>2, NewerGrows
  <2>5. ~Outdated(r)
    BY <2>1, <2>3, <2>4, HistoryAssumption DEF Outdated
  <2> QED
    BY <2>1, <2>5 DEF IndexInv
<1> QED
  BY <1>1, SpecIInv, SpecIndexInv, PTL
=============================================================================
