----------------------- MODULE DocumentLifecycleProofs -----------------------
(***************************************************************************)
(* For every set of documents, users and requests, every bound and every   *)
(* combination of faults: the type invariant of DocumentLifecycle, the     *)
(* inductive invariant DocInv, the safety properties it implies, and the   *)
(* refinement of Catalogue.                                                *)
(***************************************************************************)
EXTENDS DocumentLifecycle, TLAPS

\* The requests that hold, or have held, the row of d.
Holds(r, d) == del[r].doc = d /\ del[r].pc \in {"loaded", "purged", "broken", "done"}

\* A row and a task exist only once the upload has committed, the row until a
\* delete commits, and the file is whole from save_upload's return until a
\* delete removes it.
FilePart(d) ==
    /\ upl[d] # "done" => row[d] = "none" /\ task[d] = "none"
    /\ upl[d] = "done" /\ ~Purged(d) => row[d] # "none"
    /\ (row[d] # "none" \/ upl[d] = "stored") /\ ~Purged(d) => file[d] = "whole"

\* Chunks appear only in the last two stages of the task, and the status moves
\* only in its last step.
IndexPart(d) ==
    /\ task[d] \in {"none", "queued", "loaded", "embedding", "failing"} => index[d] = 0
    /\ task[d] \in {"embedding", "indexed"} => text[d] > 0
    /\ task[d] = "indexed" /\ ~Purged(d) => index[d] = text[d]
    /\ row[d] \in {"ready", "error"} => task[d] = "done"
    /\ row[d] = "error" => index[d] = 0
    /\ row[d] = "ready" /\ ~noted[d] /\ ~Purged(d) => index[d] = count[d] /\ count[d] > 0

\* A request that holds a document found its row: the upload has committed,
\* and if the row was settled the task is over.
DeletePart(r, d) ==
    Holds(r, d) =>
      /\ upl[d] = "done"
      /\ del[r].seen \in Statuses
      /\ del[r].seen # "processing" => task[d] = "done"
      /\ del[r].seen # "processing" /\ del[r].pc \in {"purged", "done"} => index[d] = 0
      /\ del[r].pc # "loaded" => file[d] = "none"

DocInv == /\ TypeOK
          /\ \A d \in Docs : FilePart(d) /\ IndexPart(d)
          /\ \A r \in Deletes : /\ \A d \in Docs : DeletePart(r, d)
                                /\ del[r].pc \notin {"idle", "refused"} => del[r].doc \in Docs

------------------------------------------------------------------------------
\* Every step keeps every variable within its type: type correctness of
\* document_service.py's state, for all values of the constants.
LEMMA TypeStep == TypeOK /\ [Next]_vars => TypeOK'
<1> USE ConstantsAssumption DEF FaultKinds, Statuses, NotSeen, TaskLive
<1> SUFFICES ASSUME TypeOK, [Next]_vars PROVE TypeOK'
  OBVIOUS
<1> USE DEF TypeOK, stores
<1>1. ASSUME NEW d \in Docs, UploadAccept(d) PROVE TypeOK'
  BY <1>1 DEF UploadAccept
<1>2. ASSUME NEW d \in Docs, UploadOpen(d) PROVE TypeOK'
  BY <1>2 DEF UploadOpen
<1>3. ASSUME NEW d \in Docs, UploadSaved(d) PROVE TypeOK'
  BY <1>3 DEF UploadSaved
<1>4. ASSUME NEW d \in Docs, UploadDiskFails(d) PROVE TypeOK'
  BY <1>4 DEF UploadDiskFails
<1>5. ASSUME NEW d \in Docs, UploadCommit(d) PROVE TypeOK'
  BY <1>5 DEF UploadCommit
<1>6. ASSUME NEW d \in Docs, UploadDbFails(d) PROVE TypeOK'
  BY <1>6 DEF UploadDbFails
<1>7. ASSUME NEW d \in Docs, TaskLoad(d) PROVE TypeOK'
  BY <1>7 DEF TaskLoad
<1>8. ASSUME NEW d \in Docs, TaskParse(d) PROVE TypeOK'
  BY <1>8 DEF TaskParse
<1>9. ASSUME NEW d \in Docs, TaskIndex(d) PROVE TypeOK'
  BY <1>9 DEF TaskIndex
<1>10. ASSUME NEW d \in Docs, TaskIndexFails(d) PROVE TypeOK'
  BY <1>10 DEF TaskIndexFails
<1>11. ASSUME NEW d \in Docs, TaskMarkReady(d) PROVE TypeOK'
  BY <1>11 DEF TaskMarkReady, Finish
<1>12. ASSUME NEW d \in Docs, TaskMarkNoted(d) PROVE TypeOK'
  BY <1>12 DEF TaskMarkNoted, Finish
<1>13. ASSUME NEW d \in Docs, TaskMarkError(d) PROVE TypeOK'
  BY <1>13 DEF TaskMarkError, Finish
<1>14. ASSUME NEW d \in Docs, TaskRowGone(d) PROVE TypeOK'
  BY <1>14 DEF TaskRowGone
<1>15. ASSUME NEW d \in Docs, TaskDbFails(d) PROVE TypeOK'
  BY <1>15 DEF TaskDbFails
<1>16. ASSUME NEW r \in Deletes, NEW u \in Users, NEW d \in Docs, DeleteLoad(r, u, d) PROVE TypeOK'
  BY <1>16 DEF DeleteLoad
<1>17. ASSUME NEW r \in Deletes, NEW d \in Docs, DeletePurge(r, d) PROVE TypeOK'
  BY <1>17 DEF DeletePurge
<1>18. ASSUME NEW r \in Deletes, NEW d \in Docs, DeleteChromaFails(r, d) PROVE TypeOK'
  BY <1>18 DEF DeleteChromaFails
<1>19. ASSUME NEW r \in Deletes, NEW d \in Docs, DeleteCommit(r, d) PROVE TypeOK'
  BY <1>19 DEF DeleteCommit
<1>20. ASSUME NEW r \in Deletes, DeleteDbFails(r) PROVE TypeOK'
  BY <1>20 DEF DeleteDbFails
<1>21. CASE Crash
  <2> USE <1>21 DEF Crash
  <2>1. upl' \in [Docs -> {"idle", "drafted", "writing", "stored", "done", "failed"}]
    OBVIOUS
  <2>2. task' \in [Docs -> TaskLive \cup {"none", "done", "lost"}]
    OBVIOUS
  <2>3. del' \in [Deletes -> [pc   : {"idle", "loaded", "purged", "done", "refused", "broken"},
                              doc  : Docs \cup {NoDoc},
                              seen : Statuses \cup {NotSeen}]]
    <3>1. SUFFICES ASSUME NEW r \in Deletes
                   PROVE del'[r] \in [pc   : {"idle", "loaded", "purged", "done", "refused", "broken"},
                                      doc  : Docs \cup {NoDoc},
                                      seen : Statuses \cup {NotSeen}]
      OBVIOUS
    <3>2. QED
      OBVIOUS
  <2>4. QED
    BY <2>1, <2>2, <2>3
<1>22. CASE UNCHANGED vars
  BY <1>22 DEF vars
<1>23. QED
  BY <1>1, <1>2, <1>3, <1>4, <1>5, <1>6, <1>7, <1>8, <1>9, <1>10, <1>11, <1>12, <1>13, <1>14, <1>15, <1>16, <1>17, <1>18, <1>19, <1>20, <1>21, <1>22 DEF Next, UploadStep, TaskStep, DeleteStep

\* The stores and every request and task in progress stay within their types.
THEOREM Typing == Spec => []TypeOK
<1>1. Init => TypeOK
  BY ConstantsAssumption DEF Init, TypeOK, Statuses, NotSeen, TaskLive
<1>2. QED
  BY <1>1, TypeStep, PTL DEF Spec

------------------------------------------------------------------------------
DeletesPart == \A r \in Deletes :
                 /\ \A d \in Docs : DeletePart(r, d)
                 /\ del[r].pc \notin {"idle", "refused"} => del[r].doc \in Docs

\* The inductive invariant holds before the first upload.
LEMMA InvInit == Init => DocInv
<1> SUFFICES ASSUME Init PROVE DocInv
  OBVIOUS
<1>1. TypeOK
  BY ConstantsAssumption DEF Init, TypeOK, Statuses, NotSeen, TaskLive
<1>2. ASSUME NEW d \in Docs PROVE FilePart(d) /\ IndexPart(d)
  BY <1>2 DEF Init, FilePart, IndexPart
<1>3. DeletesPart
  BY DEF Init, DeletesPart, DeletePart, Holds
<1>4. QED
  BY <1>1, <1>2, <1>3 DEF DocInv, DeletesPart

\* Every step of an upload, a task, a delete or the environment preserves it.
LEMMA InvStep == DocInv /\ [Next]_vars => DocInv'
<1> SUFFICES ASSUME DocInv, [Next]_vars PROVE DocInv'
  OBVIOUS
<1>0. TypeOK /\ TypeOK'
  BY TypeStep DEF DocInv
<1> USE <1>0 DEF DocInv, TypeOK, FilePart, IndexPart, DeletePart, DeletesPart, Holds, Purged, stores, Statuses, NotSeen, TaskLive
<1>1. ASSUME NEW d \in Docs, UploadAccept(d) PROVE DocInv'
  <2>1. \A e \in Docs : FilePart(e)' /\ IndexPart(e)'
    BY <1>1 DEF UploadAccept
  <2>2. DeletesPart'
    BY <1>1 DEF UploadAccept
  <2>3. QED
    BY <2>1, <2>2
<1>2. ASSUME NEW d \in Docs, UploadOpen(d) PROVE DocInv'
  <2>1. \A e \in Docs : FilePart(e)' /\ IndexPart(e)'
    BY <1>2 DEF UploadOpen
  <2>2. DeletesPart'
    BY <1>2 DEF UploadOpen
  <2>3. QED
    BY <2>1, <2>2
<1>3. ASSUME NEW d \in Docs, UploadSaved(d) PROVE DocInv'
  <2>1. \A e \in Docs : FilePart(e)' /\ IndexPart(e)'
    BY <1>3 DEF UploadSaved
  <2>2. DeletesPart'
    BY <1>3 DEF UploadSaved
  <2>3. QED
    BY <2>1, <2>2
<1>4. ASSUME NEW d \in Docs, UploadDiskFails(d) PROVE DocInv'
  <2>1. \A e \in Docs : FilePart(e)' /\ IndexPart(e)'
    BY <1>4 DEF UploadDiskFails
  <2>2. DeletesPart'
    BY <1>4 DEF UploadDiskFails
  <2>3. QED
    BY <2>1, <2>2
<1>5. ASSUME NEW d \in Docs, UploadCommit(d) PROVE DocInv'
  <2>1. \A e \in Docs : FilePart(e)' /\ IndexPart(e)'
    BY <1>5 DEF UploadCommit
  <2>2. DeletesPart'
    BY <1>5 DEF UploadCommit
  <2>3. QED
    BY <2>1, <2>2
<1>6. ASSUME NEW d \in Docs, UploadDbFails(d) PROVE DocInv'
  <2>1. \A e \in Docs : FilePart(e)' /\ IndexPart(e)'
    BY <1>6 DEF UploadDbFails
  <2>2. DeletesPart'
    BY <1>6 DEF UploadDbFails
  <2>3. QED
    BY <2>1, <2>2
<1>7. ASSUME NEW d \in Docs, TaskLoad(d) PROVE DocInv'
  <2>1. \A e \in Docs : FilePart(e)' /\ IndexPart(e)'
    BY <1>7 DEF TaskLoad
  <2>2. DeletesPart'
    BY <1>7 DEF TaskLoad
  <2>3. QED
    BY <2>1, <2>2
<1>8. ASSUME NEW d \in Docs, TaskParse(d) PROVE DocInv'
  <2>1. \A e \in Docs : FilePart(e)' /\ IndexPart(e)'
    BY <1>8 DEF TaskParse
  <2>2. DeletesPart'
    BY <1>8 DEF TaskParse
  <2>3. QED
    BY <2>1, <2>2
<1>9. ASSUME NEW d \in Docs, TaskIndex(d) PROVE DocInv'
  <2>1. \A e \in Docs : FilePart(e)' /\ IndexPart(e)'
    BY <1>9 DEF TaskIndex
  <2>2. DeletesPart'
    BY <1>9 DEF TaskIndex
  <2>3. QED
    BY <2>1, <2>2
<1>10. ASSUME NEW d \in Docs, TaskIndexFails(d) PROVE DocInv'
  <2>1. \A e \in Docs : FilePart(e)' /\ IndexPart(e)'
    BY <1>10 DEF TaskIndexFails
  <2>2. DeletesPart'
    BY <1>10 DEF TaskIndexFails
  <2>3. QED
    BY <2>1, <2>2
<1>11. ASSUME NEW d \in Docs, TaskMarkReady(d) PROVE DocInv'
  <2>1. \A e \in Docs : FilePart(e)' /\ IndexPart(e)'
    BY <1>11 DEF TaskMarkReady, Finish
  <2>2. DeletesPart'
    BY <1>11 DEF TaskMarkReady, Finish
  <2>3. QED
    BY <2>1, <2>2
<1>12. ASSUME NEW d \in Docs, TaskMarkNoted(d) PROVE DocInv'
  <2>1. \A e \in Docs : FilePart(e)' /\ IndexPart(e)'
    BY <1>12 DEF TaskMarkNoted, Finish
  <2>2. DeletesPart'
    BY <1>12 DEF TaskMarkNoted, Finish
  <2>3. QED
    BY <2>1, <2>2
<1>13. ASSUME NEW d \in Docs, TaskMarkError(d) PROVE DocInv'
  <2>1. \A e \in Docs : FilePart(e)' /\ IndexPart(e)'
    BY <1>13 DEF TaskMarkError, Finish
  <2>2. DeletesPart'
    BY <1>13 DEF TaskMarkError, Finish
  <2>3. QED
    BY <2>1, <2>2
<1>14. ASSUME NEW d \in Docs, TaskRowGone(d) PROVE DocInv'
  <2>1. \A e \in Docs : FilePart(e)' /\ IndexPart(e)'
    BY <1>14 DEF TaskRowGone
  <2>2. DeletesPart'
    BY <1>14 DEF TaskRowGone
  <2>3. QED
    BY <2>1, <2>2
<1>15. ASSUME NEW d \in Docs, TaskDbFails(d) PROVE DocInv'
  <2>1. \A e \in Docs : FilePart(e)' /\ IndexPart(e)'
    BY <1>15 DEF TaskDbFails
  <2>2. DeletesPart'
    BY <1>15 DEF TaskDbFails
  <2>3. QED
    BY <2>1, <2>2
<1>16. ASSUME NEW r \in Deletes, NEW u \in Users, NEW d \in Docs, DeleteLoad(r, u, d) PROVE DocInv'
  <2>1. \A e \in Docs : FilePart(e)' /\ IndexPart(e)'
    BY <1>16 DEF DeleteLoad
  <2>2. DeletesPart'
    BY <1>16 DEF DeleteLoad
  <2>3. QED
    BY <2>1, <2>2
<1>17. ASSUME NEW r \in Deletes, NEW d \in Docs, DeletePurge(r, d) PROVE DocInv'
  <2>1. \A e \in Docs : FilePart(e)' /\ IndexPart(e)'
    BY <1>17 DEF DeletePurge
  <2>2. DeletesPart'
    BY <1>17 DEF DeletePurge
  <2>3. QED
    BY <2>1, <2>2
<1>18. ASSUME NEW r \in Deletes, NEW d \in Docs, DeleteChromaFails(r, d) PROVE DocInv'
  <2>1. \A e \in Docs : FilePart(e)' /\ IndexPart(e)'
    BY <1>18 DEF DeleteChromaFails
  <2>2. DeletesPart'
    BY <1>18 DEF DeleteChromaFails
  <2>3. QED
    BY <2>1, <2>2
<1>19. ASSUME NEW r \in Deletes, NEW d \in Docs, DeleteCommit(r, d) PROVE DocInv'
  <2>1. \A e \in Docs : FilePart(e)' /\ IndexPart(e)'
    BY <1>19 DEF DeleteCommit
  <2>2. DeletesPart'
    BY <1>19 DEF DeleteCommit
  <2>3. QED
    BY <2>1, <2>2
<1>20. ASSUME NEW r \in Deletes, DeleteDbFails(r) PROVE DocInv'
  <2>1. \A e \in Docs : FilePart(e)' /\ IndexPart(e)'
    BY <1>20 DEF DeleteDbFails
  <2>2. DeletesPart'
    BY <1>20 DEF DeleteDbFails
  <2>3. QED
    BY <2>1, <2>2
<1>21. CASE Crash
  <2>1. \A e \in Docs : Purged(e) => Purged(e)'
    <3>1. SUFFICES ASSUME NEW r \in Deletes,
                          del[r].pc \in {"purged", "broken", "done"}
                   PROVE  del'[r].doc = del[r].doc /\ del'[r].pc \in {"purged", "broken", "done"}
      OBVIOUS
    <3>2. QED
      BY <1>21, <3>1 DEF Crash
  <2>2. \A e \in Docs : FilePart(e)' /\ IndexPart(e)'
    <3> HIDE DEF Purged
    <3>1. QED
      BY <1>21, <2>1 DEF Crash
  <2>3. DeletesPart'
    BY <1>21 DEF Crash
  <2>4. QED
    BY <2>2, <2>3
<1>22. CASE UNCHANGED vars
  <2>1. \A e \in Docs : FilePart(e)' /\ IndexPart(e)'
    BY <1>22 DEF vars
  <2>2. DeletesPart'
    BY <1>22 DEF vars
  <2>3. QED
    BY <2>1, <2>2
<1>23. QED
  BY <1>1, <1>2, <1>3, <1>4, <1>5, <1>6, <1>7, <1>8, <1>9, <1>10, <1>11, <1>12, <1>13, <1>14, <1>15, <1>16, <1>17, <1>18, <1>19, <1>20, <1>21, <1>22 DEF Next, UploadStep, TaskStep, DeleteStep

\* The inductive invariant that the safety properties below follow from.
THEOREM Invariance == Spec => []DocInv
<1>1. QED
  BY InvInit, InvStep, PTL DEF Spec

\* A listed document has its whole file until a delete removes it, whatever
\* failed in between.
THEOREM ListedHasFile == Spec => []RowHasFile
<1>1. DocInv => RowHasFile
  BY DEF DocInv, FilePart, RowHasFile
<1>2. QED
  BY <1>1, Invariance, PTL

\* READY without the "indexing is unavailable" message means indexed, with the
\* chunk_count the row shows.
THEOREM ReadyIndexed == Spec => []ReadyIsIndexed
<1>1. DocInv => ReadyIsIndexed
  BY DEF DocInv, IndexPart, ReadyIsIndexed
<1>2. QED
  BY <1>1, Invariance, PTL

\* A document shown as ERROR holds no chunk in the collection.
THEOREM ErrorNotIndexed == Spec => []ErrorNeverIndexed
<1>1. DocInv => ErrorNeverIndexed
  BY DEF DocInv, IndexPart, ErrorNeverIndexed
<1>2. QED
  BY <1>1, Invariance, PTL

\* A completed DELETE leaves no file behind, whatever it overtook.
THEOREM DeletedIsGone == Spec => []DeletedHasNoFile
<1>1. DocInv => DeletedHasNoFile
  BY DEF DocInv, DeletePart, Holds, DeletedHasNoFile
<1>2. QED
  BY <1>1, Invariance, PTL

\* A DELETE that found the background task over leaves no chunk in the
\* collection once it is answered.
THEOREM DeleteDeindexed == Spec => []SettledDeleteDeindexes
<1>1. DocInv => SettledDeleteDeindexes
  BY DEF DocInv, DeletePart, Holds, SettledDeleteDeindexes
<1>2. QED
  BY <1>1, Invariance, PTL

\* An upload that has committed has its task, which leaves the status settled
\* unless something failed under it.
TaskPart(d) ==
    /\ upl[d] = "done" => task[d] # "none"
    /\ task[d] = "done" => row[d] # "processing"
    /\ task[d] = "lost" => row[d] = "none" \/ Faults \cap {"db", "crash"} # {}

\* A document is shown as PROCESSING only while its task is on the way to
\* settling it, or after the process or the database has failed under the task;
\* disk, embedding and Chroma failures and deletes never leave it so.
THEOREM ProcessingAccounted == Spec => []ProcessingIsUnderWay
<1> DEFINE TaskInv == \A d \in Docs : TaskPart(d)
<1>1. Init => TaskInv
  BY DEF Init, TaskPart
<1>2. DocInv /\ TaskInv /\ [Next]_vars => TaskInv'
  <2> SUFFICES ASSUME DocInv, TaskInv, [Next]_vars, NEW e \in Docs PROVE TaskPart(e)'
    OBVIOUS
  <2>1. TypeOK /\ FilePart(e) /\ IndexPart(e) /\ TaskPart(e)
    BY DEF DocInv
  <2> HIDE DEF TaskInv
  <2> USE <2>1 DEF TypeOK, TaskPart, stores
  <2>2. CASE \E d \in Docs : \/ UploadAccept(d) \/ UploadOpen(d) \/ UploadSaved(d)
                             \/ UploadDiskFails(d) \/ UploadDbFails(d)
    BY <2>2 DEF UploadAccept, UploadOpen, UploadSaved, UploadDiskFails, UploadDbFails
  <2>3. CASE \E d \in Docs : UploadCommit(d)
    BY <2>3 DEF UploadCommit, FilePart
  <2>4. CASE \E d \in Docs : \/ TaskLoad(d) \/ TaskParse(d) \/ TaskIndex(d) \/ TaskIndexFails(d)
                             \/ TaskRowGone(d) \/ TaskDbFails(d)
    BY <2>4 DEF TaskLoad, TaskParse, TaskIndex, TaskIndexFails, TaskRowGone, TaskDbFails
  <2>5. CASE \E d \in Docs : TaskMarkReady(d) \/ TaskMarkNoted(d) \/ TaskMarkError(d)
    BY <2>5 DEF TaskMarkReady, TaskMarkNoted, TaskMarkError, Finish
  <2>6. CASE \E r \in Deletes, d \in Docs : DeleteCommit(r, d)
    BY <2>6 DEF DeleteCommit
  <2>7. CASE Crash
    BY <2>7 DEF Crash, TaskLive
  <2>8. CASE UNCHANGED <<row, upl, task>>
    BY <2>8
  <2>9. QED
    BY <2>2, <2>3, <2>4, <2>5, <2>6, <2>7, <2>8
    DEF Next, vars, UploadStep, TaskStep, DeleteStep, DeleteLoad, DeletePurge,
        DeleteChromaFails, DeleteDbFails
<1>3. DocInv /\ TaskInv => ProcessingIsUnderWay
  BY DEF DocInv, TypeOK, FilePart, TaskPart, ProcessingIsUnderWay
<1>4. QED
  BY <1>1, <1>2, <1>3, Invariance, PTL DEF Spec

\* No step moves a document's status backwards or brings a deleted row back.
THEOREM StatusForward == Spec => StatusMovesForward
<1>1. DocInv /\ [Next]_vars =>
        [\A d \in Docs : row'[d] # row[d] =>
           \/ row'[d] = "none"
           \/ row[d] = "none" /\ row'[d] = "processing" /\ ~Purged(d)
           \/ row[d] = "processing" /\ row'[d] \in {"ready", "error"}]_vars
  <2> SUFFICES ASSUME DocInv, [Next]_vars, NEW e \in Docs, row'[e] # row[e]
               PROVE  \/ row'[e] = "none"
                      \/ row[e] = "none" /\ row'[e] = "processing" /\ ~Purged(e)
                      \/ row[e] = "processing" /\ row'[e] \in {"ready", "error"}
    OBVIOUS
  <2> USE DEF DocInv, TypeOK, Statuses
  <2>1. CASE \E d \in Docs : UploadCommit(d)
    BY <2>1 DEF UploadCommit, FilePart, DeletePart, Holds, Purged
  <2>2. CASE \E d \in Docs : TaskMarkReady(d) \/ TaskMarkNoted(d) \/ TaskMarkError(d)
    BY <2>2 DEF TaskMarkReady, TaskMarkNoted, TaskMarkError, Finish, IndexPart
  <2>3. CASE \E r \in Deletes, d \in Docs : DeleteCommit(r, d)
    BY <2>3 DEF DeleteCommit
  <2>4. CASE UNCHANGED row
    BY <2>4
  <2>5. QED
    BY <2>1, <2>2, <2>3, <2>4
    DEF Next, vars, stores, UploadStep, TaskStep, DeleteStep, UploadAccept, UploadOpen,
        UploadSaved, UploadDiskFails, UploadDbFails, TaskLoad, TaskParse, TaskIndex,
        TaskIndexFails, TaskRowGone, TaskDbFails, DeleteLoad, DeletePurge,
        DeleteChromaFails, DeleteDbFails, Crash
<1>2. QED
  BY <1>1, Invariance, PTL DEF Spec, StatusMovesForward

------------------------------------------------------------------------------
(* DocumentLifecycle implements Catalogue: under DocInv each step of an      *)
(* upload, a task, a delete or the environment is a step of the catalogue or *)
(* leaves it as it is.                                                       *)

\* What a step that concerns one document leaves of every other one.
Elsewhere(d) ==
    \A e \in Docs \ {d} : Shelf(e)' = Shelf(e) /\ row'[e] = row[e] /\ index'[e] = index[e]

\* A step that concerns one document changes one place of the catalogue.
LEMMA OnePlace ==
    ASSUME NEW d \in Docs, Elsewhere(d)
    PROVE  /\ Shelves' = [Shelves EXCEPT ![d] = Shelf(d)']
           /\ Listed' = [Listed EXCEPT ![d] = row'[d] # "none"]
           /\ Found' = [Found EXCEPT ![d] = index'[d] # 0]
<1>1. Shelves' = [Shelves EXCEPT ![d] = Shelf(d)']
  BY DEF Elsewhere, Shelves
<1>2. Listed' = [Listed EXCEPT ![d] = row'[d] # "none"]
  BY DEF Elsewhere, Listed
<1>3. Found' = [Found EXCEPT ![d] = index'[d] # 0]
  BY DEF Elsewhere, Found
<1>4. QED
  BY <1>1, <1>2, <1>3

\* A step that moves no document leaves the catalogue as it is.
LEMMA SamePlace ==
    ASSUME \A e \in Docs : Shelf(e)' = Shelf(e), UNCHANGED <<row, index>>
    PROVE  UNCHANGED Catalogue!vars
BY DEF Catalogue!vars, Shelves, Listed, Found

\* Where a document stands while its task runs.
LEMMA LiveShelf ==
    ASSUME DocInv, NEW d \in Docs, task[d] \in TaskLive
    PROVE  /\ upl[d] = "done"
           /\ Purged(d)  => Shelf(d) = "doomed"
           /\ ~Purged(d) => Shelf(d) = "processing" /\ row[d] = "processing"
<1> USE DEF TaskLive
<1>1. upl[d] = "done"
  BY DEF DocInv, FilePart
<1>2. ~Purged(d) => row[d] = "processing"
  BY <1>1 DEF DocInv, FilePart, IndexPart, TypeOK, Statuses
<1>3. QED
  BY <1>1, <1>2 DEF Shelf

\* The empty stores are the empty catalogue.
LEMMA MapsInit == Init => Catalogue!Init
<1> SUFFICES ASSUME Init PROVE Catalogue!Init
  OBVIOUS
<1>1. \A d \in Docs : ~Purged(d)
  BY DEF Init, Purged
<1>2. \A d \in Docs : Shelf(d) = "absent"
  BY <1>1 DEF Init, Shelf
<1>3. Shelves = [d \in Docs |-> "absent"]
  BY <1>2 DEF Shelves
<1>4. Listed = [d \in Docs |-> FALSE]
  BY DEF Listed, Init
<1>5. Found = [d \in Docs |-> FALSE]
  BY DEF Found, Init
<1>6. QED
  BY <1>3, <1>4, <1>5 DEF Catalogue!Init

------------------------------------------------------------------------------
\* The place of a document depends on its row, on whether its task runs and on
\* whether a delete has begun.
LEMMA KeepsShelf ==
    ASSUME NEW e \in Docs, Purged(e)' <=> Purged(e), row'[e] = row[e], noted'[e] = noted[e],
           task'[e] \in TaskLive <=> task[e] \in TaskLive
    PROVE  Shelf(e)' = Shelf(e)
BY DEF Shelf

\* A step of an upload or of a task that leaves the requests alone withdraws
\* nothing.
LEMMA SamePurged == ASSUME UNCHANGED del PROVE \A e \in Docs : Purged(e)' <=> Purged(e)
BY DEF Purged

\* Uploads in progress and requests that have withdrawn nothing do not show.
LEMMA UploadInvisible ==
    ASSUME UNCHANGED <<row, noted, index, task, del>> PROVE UNCHANGED Catalogue!vars
<1>1. \A e \in Docs : Shelf(e)' = Shelf(e)
  BY SamePurged, KeepsShelf
<1>2. QED
  BY <1>1, SamePlace

\* A step of an upload or of a task concerns the one document.
LEMMA TaskLocal ==
    ASSUME NEW d \in Docs, UNCHANGED del,
           \A e \in Docs \ {d} : /\ row'[e] = row[e] /\ noted'[e] = noted[e]
                                 /\ index'[e] = index[e] /\ task'[e] = task[e]
    PROVE  Elsewhere(d)
BY SamePurged, KeepsShelf DEF Elsewhere

\* The end of an upload lists the document as being processed.
LEMMA MapsCommit ==
    ASSUME DocInv, NEW d \in Docs, UploadCommit(d) PROVE Catalogue!Accept(d)
<1> USE DEF UploadCommit
<1>1. upl[d] # "done" /\ row[d] = "none" /\ task[d] = "none"
  BY DEF DocInv, FilePart
<1>2. ~Purged(d) /\ ~Purged(d)'
  BY <1>1 DEF DocInv, DeletePart, Holds, Purged
<1>3. Shelf(d) = "absent"
  BY <1>1, <1>2 DEF Shelf
<1>4. row'[d] = "processing" /\ task'[d] = "queued"
  BY DEF DocInv, TypeOK
<1>5. Shelf(d)' = "processing"
  BY <1>2, <1>4 DEF Shelf, TaskLive
<1>6. Elsewhere(d)
  BY TaskLocal DEF DocInv, TypeOK
<1>7. QED
  BY <1>3, <1>4, <1>5, <1>6, OnePlace DEF Catalogue!Accept, Shelves, Listed, Found

\* Parsing does not show: the task goes on.
LEMMA MapsParse ==
    ASSUME DocInv, NEW d \in Docs, TaskParse(d) PROVE UNCHANGED Catalogue!vars
<1> USE DEF TaskParse, stores
<1>1. \A e \in Docs : task'[e] \in TaskLive <=> task[e] \in TaskLive
  BY DEF DocInv, TypeOK, TaskLive
<1>2. \A e \in Docs : Shelf(e)' = Shelf(e)
  BY <1>1, SamePurged, KeepsShelf
<1>3. QED
  BY <1>2, SamePlace

\* While its task goes on, a document may become findable and nothing else.
LEMMA MapsIndex ==
    ASSUME DocInv, NEW d \in Docs, task[d] = "embedding",
           task'[d] \in TaskLive, \A e \in Docs \ {d} : task'[e] = task[e],
           index' \in {index, [index EXCEPT ![d] = text[d]]},
           UNCHANGED <<row, noted, del>>
    PROVE  Catalogue!Index(d) \/ UNCHANGED Catalogue!vars
<1>1. task[d] \in TaskLive
  BY DEF TaskLive
<1>2. \A e \in Docs : Shelf(e)' = Shelf(e)
  BY <1>1, SamePurged, KeepsShelf
<1>3. CASE index' = index
  BY <1>2, <1>3, SamePlace
<1>4. CASE index' = [index EXCEPT ![d] = text[d]]
  <2>1. text[d] # 0
    BY DEF DocInv, IndexPart, TypeOK
  <2>2. index'[d] # 0 /\ \A e \in Docs \ {d} : index'[e] = index[e]
    BY <1>4, <2>1 DEF DocInv, TypeOK
  <2>3. Found' = [Found EXCEPT ![d] = TRUE]
    BY <2>2 DEF Found
  <2>4. UNCHANGED <<Shelves, Listed>>
    BY <1>2 DEF Shelves, Listed
  <2>5. Shelves[d] \in {"processing", "doomed"}
    BY <1>1, LiveShelf DEF Shelves
  <2>6. QED
    BY <2>3, <2>4, <2>5 DEF Catalogue!Index
<1>5. QED
  BY <1>3, <1>4

\* A task that ends when a delete has begun only closes the catalogue's book.
LEMMA MapsDoomedEnd ==
    ASSUME DocInv, NEW d \in Docs, task[d] \in TaskLive, Purged(d),
           task'[d] \notin TaskLive, \A e \in Docs \ {d} : task'[e] = task[e],
           row'[d] # "none" <=> row[d] # "none",
           \A e \in Docs \ {d} : row'[e] = row[e] /\ noted'[e] = noted[e],
           UNCHANGED <<index, del>>
    PROVE  Catalogue!Settle(d)
<1>1. Shelf(d) = "doomed" /\ Shelf(d)' = "withdrawn"
  BY LiveShelf, SamePurged DEF Shelf
<1>2. Elsewhere(d)
  BY TaskLocal
<1>3. UNCHANGED <<Listed, Found>>
  BY <1>2 DEF Elsewhere, Listed, Found
<1>4. QED
  BY <1>1, <1>2, <1>3, OnePlace DEF Catalogue!Settle, Shelves

\* The last step of a task gives the verdict that the index calls for.
LEMMA MapsFinish ==
    ASSUME DocInv, NEW d \in Docs, TaskMarkReady(d) \/ TaskMarkNoted(d) \/ TaskMarkError(d)
    PROVE  Catalogue!Settle(d)
<1> USE DEF TaskMarkReady, TaskMarkNoted, TaskMarkError, Finish
<1>1. task[d] \in TaskLive /\ row[d] # "none"
  BY DEF TaskLive
<1>2. task'[d] = "done" /\ row'[d] \in {"ready", "error"}
  BY DEF DocInv, TypeOK
<1>3. \A e \in Docs \ {d} : row'[e] = row[e] /\ noted'[e] = noted[e] /\ task'[e] = task[e]
  BY DEF DocInv, TypeOK
<1>4. CASE Purged(d)
  BY <1>1, <1>2, <1>3, <1>4, MapsDoomedEnd DEF TaskLive
<1>5. CASE ~Purged(d)
  <2>1. Shelf(d) = "processing" /\ ~Purged(d)'
    BY <1>1, <1>5, LiveShelf, SamePurged
  <2>2. \/ Shelf(d)' = "searchable" /\ index[d] # 0
        \/ Shelf(d)' = "failed" /\ index[d] = 0
        \/ Shelf(d)' = "unsure"
    <3>1. CASE TaskMarkReady(d)
      <4>1. row'[d] = "ready" /\ ~noted'[d]
        BY <3>1 DEF DocInv, TypeOK
      <4>2. index[d] # 0
        BY <3>1, <1>5 DEF DocInv, IndexPart, TypeOK
      <4>3. QED
        BY <4>1, <4>2, <2>1 DEF Shelf
    <3>2. CASE TaskMarkNoted(d)
      <4>1. row'[d] = "ready" /\ noted'[d]
        BY <3>2 DEF DocInv, TypeOK
      <4>2. QED
        BY <4>1, <2>1 DEF Shelf
    <3>3. CASE TaskMarkError(d)
      <4>1. row'[d] = "error"
        BY <3>3 DEF DocInv, TypeOK
      <4>2. index[d] = 0
        BY <3>3 DEF DocInv, IndexPart
      <4>3. QED
        BY <4>1, <4>2, <2>1 DEF Shelf
    <3>4. QED
      BY <3>1, <3>2, <3>3
  <2>3. Elsewhere(d)
    BY <1>3, TaskLocal
  <2>4. UNCHANGED <<Listed, Found>>
    BY <1>1, <1>2, <2>3 DEF Elsewhere, Listed, Found
  <2>5. QED
    BY <2>1, <2>2, <2>3, <2>4, OnePlace DEF Catalogue!Settle, Shelves, Found
<1>6. QED
  BY <1>4, <1>5

\* A task that finds its row gone ends with nothing to tell.
LEMMA MapsRowGone ==
    ASSUME DocInv, NEW d \in Docs, TaskLoad(d) \/ TaskRowGone(d)
    PROVE  Catalogue!Settle(d) \/ UNCHANGED Catalogue!vars
<1> USE DEF TaskLoad, TaskRowGone, stores
<1>1. task[d] \in TaskLive
  BY DEF TaskLive
<1>2. \A e \in Docs \ {d} : task'[e] = task[e]
  BY DEF DocInv, TypeOK
<1>3. CASE row[d] = "none"
  <2>1. Purged(d)
    BY <1>1, <1>3, LiveShelf
  <2>2. task'[d] \notin TaskLive
    BY <1>3 DEF DocInv, TypeOK, TaskLive
  <2>3. QED
    BY <1>1, <1>2, <2>1, <2>2, MapsDoomedEnd
<1>4. CASE row[d] # "none"
  <2>1. task'[d] \in TaskLive
    BY <1>4 DEF DocInv, TypeOK, TaskLive
  <2>2. \A e \in Docs : Shelf(e)' = Shelf(e)
    BY <1>1, <1>2, <2>1, SamePurged, KeepsShelf
  <2>3. QED
    BY <2>2, SamePlace
<1>5. QED
  BY <1>3, <1>4

\* A set of tasks that are cut short, by the database or with the process,
\* interrupts the processing of their documents.
LEMMA MapsInterrupt ==
    ASSUME DocInv, NEW S \in SUBSET Docs,
           \A d \in S : task[d] \in TaskLive /\ task'[d] = "lost",
           \A d \in Docs \ S : task'[d] = task[d],
           \A d \in Docs : Purged(d)' <=> Purged(d),
           UNCHANGED <<row, noted, index>>
    PROVE  Catalogue!Interrupt(S)
<1>1. \A d \in S : Shelf(d) \in {"processing", "doomed"}
  BY LiveShelf
<1>2. ASSUME NEW d \in S
      PROVE  Shelf(d)' = IF Shelf(d) = "doomed" THEN "withdrawn" ELSE "abandoned"
  <2>1. task'[d] \notin TaskLive
    BY DEF TaskLive
  <2>2. CASE Purged(d)
    BY <2>1, <2>2, LiveShelf DEF Shelf
  <2>3. CASE ~Purged(d)
    BY <2>1, <2>3, LiveShelf DEF Shelf
  <2>4. QED
    BY <2>2, <2>3
<1>3. \A d \in Docs \ S : Shelf(d)' = Shelf(d)
  BY KeepsShelf
<1>4. UNCHANGED <<Listed, Found>>
  BY DEF Listed, Found
<1>5. QED
  BY <1>1, <1>2, <1>3, <1>4 DEF Catalogue!Interrupt, Shelves

\* Unlinking the file and clearing the index withdraws a listed document.
LEMMA MapsPurge ==
    ASSUME DocInv, NEW r \in Deletes, NEW d \in Docs, DeletePurge(r, d) \/ DeleteChromaFails(r, d)
    PROVE  Catalogue!Withdraw(d)
<1> USE DEF DeletePurge, DeleteChromaFails
<1>1. upl[d] = "done"
  BY DEF DocInv, DeletePart, Holds
<1>2. Shelf(d) # "absent"
  BY <1>1 DEF DocInv, FilePart, TypeOK, Statuses, Shelf
<1>3. Shelf(d) \in {"processing", "doomed"} <=> task[d] \in TaskLive
  <2>1. task[d] \in TaskLive => Shelf(d) \in {"processing", "doomed"}
    BY LiveShelf
  <2>2. task[d] \notin TaskLive => Shelf(d) \notin {"processing", "doomed"}
    BY DEF Shelf
  <2>3. QED
    BY <2>1, <2>2
<1>4. del'[r].doc = d /\ del'[r].pc \in {"purged", "broken"} /\ \A q \in Deletes \ {r} : del'[q] = del[q]
  BY DEF DocInv, TypeOK
<1>5. Purged(d)' /\ \A e \in Docs \ {d} : Purged(e)' <=> Purged(e)
  BY <1>4 DEF Purged
<1>6. Shelf(d)' = IF task[d] \in TaskLive THEN "doomed" ELSE "withdrawn"
  BY <1>5 DEF Shelf
<1>7. \A e \in Docs \ {d} : index'[e] = index[e]
  BY DEF DocInv, TypeOK
<1>8. Elsewhere(d)
  BY <1>5, <1>7, KeepsShelf DEF Elsewhere
<1>9. index'[d] \in {0, index[d]}
  BY DEF DocInv, TypeOK
<1>10. Found' \in {Found, [Found EXCEPT ![d] = FALSE]}
  BY <1>7, <1>9 DEF Found
<1>11. UNCHANGED Listed
  BY DEF Listed
<1>12. QED
  BY <1>2, <1>3, <1>6, <1>8, <1>10, <1>11, OnePlace DEF Catalogue!Withdraw, Shelves

\* The commit of a DELETE takes the document off the list.
LEMMA MapsUnlist ==
    ASSUME DocInv, NEW r \in Deletes, NEW d \in Docs, DeleteCommit(r, d)
    PROVE  Catalogue!Unlist(d)
<1> USE DEF DeleteCommit
<1>1. Purged(d) /\ Purged(d)'
  BY DEF Purged, DocInv, TypeOK
<1>2. \A e \in Docs \ {d} : Purged(e)' <=> Purged(e)
  BY DEF Purged, DocInv, TypeOK
<1>3. Shelf(d)' = Shelf(d) /\ Shelf(d) \in {"doomed", "withdrawn"}
  BY <1>1 DEF Shelf
<1>4. \A e \in Docs \ {d} : row'[e] = row[e] /\ noted'[e] = noted[e]
  BY DEF DocInv, TypeOK
<1>5. Elsewhere(d)
  BY <1>2, <1>4, KeepsShelf DEF Elsewhere
<1>6. row'[d] = "none"
  BY DEF DocInv, TypeOK
<1>7. \A e \in Docs : Shelf(e)' = Shelf(e)
  BY <1>3, <1>5 DEF Elsewhere
<1>8. UNCHANGED <<Shelves, Found>>
  BY <1>7 DEF Shelves, Found
<1>9. QED
  BY <1>3, <1>5, <1>6, <1>8, OnePlace DEF Catalogue!Unlist, Shelves

\* A DELETE that loads its document, or that the database fails under, does
\* not change who has withdrawn what.
LEMMA MapsRequest ==
    ASSUME DocInv, NEW r \in Deletes,
           (\E u \in Users, d \in Docs : DeleteLoad(r, u, d)) \/ DeleteDbFails(r)
    PROVE  UNCHANGED Catalogue!vars
<1> USE DEF DeleteLoad, DeleteDbFails, stores
<1>1. \A q \in Deletes \ {r} : del'[q] = del[q]
  BY DEF DocInv, TypeOK
<1>2. \A e \in Docs : Purged(e)' <=> Purged(e)
  <2>1. CASE \E u \in Users, d \in Docs : DeleteLoad(r, u, d)
    <3>1. /\ del[r].pc \notin {"purged", "broken", "done"}
          /\ del'[r].pc \notin {"purged", "broken", "done"}
      BY <2>1 DEF DocInv, TypeOK
    <3>2. QED
      BY <1>1, <3>1 DEF Purged
  <2>2. CASE DeleteDbFails(r)
    <3>1. /\ del'[r].doc = del[r].doc
          /\ del'[r].pc \in {"purged", "broken", "done"} <=> del[r].pc \in {"purged", "broken", "done"}
      BY <2>2 DEF DocInv, TypeOK
    <3>2. QED
      BY <1>1, <3>1 DEF Purged
  <2>3. QED
    BY <2>1, <2>2
<1>3. \A e \in Docs : Shelf(e)' = Shelf(e)
  BY <1>2, KeepsShelf
<1>4. QED
  BY <1>3, SamePlace

\* Every step of the three stores is a step of the catalogue or none.
LEMMA MapsStep == DocInv /\ [Next]_vars => [Catalogue!Next]_Catalogue!vars
<1> SUFFICES ASSUME DocInv, [Next]_vars PROVE [Catalogue!Next]_Catalogue!vars
  OBVIOUS
<1>1. ASSUME NEW d \in Docs,
             UploadAccept(d) \/ UploadOpen(d) \/ UploadSaved(d) \/ UploadDiskFails(d) \/ UploadDbFails(d)
      PROVE  [Catalogue!Next]_Catalogue!vars
  BY <1>1, UploadInvisible
  DEF UploadAccept, UploadOpen, UploadSaved, UploadDiskFails, UploadDbFails, stores
<1>2. ASSUME NEW d \in Docs, UploadCommit(d) PROVE [Catalogue!Next]_Catalogue!vars
  BY <1>2, MapsCommit DEF Catalogue!Next
<1>3. ASSUME NEW d \in Docs, TaskParse(d) PROVE [Catalogue!Next]_Catalogue!vars
  BY <1>3, MapsParse
<1>4. ASSUME NEW d \in Docs, TaskIndex(d) \/ TaskIndexFails(d) PROVE [Catalogue!Next]_Catalogue!vars
  <2>1. /\ task[d] = "embedding" /\ task'[d] \in TaskLive
        /\ \A e \in Docs \ {d} : task'[e] = task[e]
        /\ index' \in {index, [index EXCEPT ![d] = text[d]]}
        /\ UNCHANGED <<row, noted, del>>
    BY <1>4 DEF TaskIndex, TaskIndexFails, TaskLive, DocInv, TypeOK
  <2>2. QED
    BY <2>1, MapsIndex DEF Catalogue!Next
<1>5. ASSUME NEW d \in Docs, TaskMarkReady(d) \/ TaskMarkNoted(d) \/ TaskMarkError(d)
      PROVE  [Catalogue!Next]_Catalogue!vars
  BY <1>5, MapsFinish DEF Catalogue!Next
<1>6. ASSUME NEW d \in Docs, TaskLoad(d) \/ TaskRowGone(d) PROVE [Catalogue!Next]_Catalogue!vars
  BY <1>6, MapsRowGone DEF Catalogue!Next
<1>7. ASSUME NEW d \in Docs, TaskDbFails(d) PROVE [Catalogue!Next]_Catalogue!vars
  <2>1. /\ task[d] \in TaskLive /\ task'[d] = "lost"
        /\ \A e \in Docs \ {d} : task'[e] = task[e]
        /\ UNCHANGED <<row, noted, index, del>>
    BY <1>7 DEF TaskDbFails, TaskLive, DocInv, TypeOK, stores
  <2>2. Catalogue!Interrupt({d})
    BY <2>1, MapsInterrupt, SamePurged
  <2>3. QED
    BY <2>2 DEF Catalogue!Next
<1>8. ASSUME NEW r \in Deletes, (\E u \in Users, d \in Docs : DeleteLoad(r, u, d)) \/ DeleteDbFails(r)
      PROVE  [Catalogue!Next]_Catalogue!vars
  BY <1>8, MapsRequest
<1>9. ASSUME NEW r \in Deletes, NEW d \in Docs, DeletePurge(r, d) \/ DeleteChromaFails(r, d)
      PROVE  [Catalogue!Next]_Catalogue!vars
  BY <1>9, MapsPurge DEF Catalogue!Next
<1>10. ASSUME NEW r \in Deletes, NEW d \in Docs, DeleteCommit(r, d)
       PROVE  [Catalogue!Next]_Catalogue!vars
  BY <1>10, MapsUnlist DEF Catalogue!Next
<1>11. CASE Crash
  <2> DEFINE S == {d \in Docs : task[d] \in TaskLive}
  <2>1. ASSUME NEW r \in Deletes
        PROVE  /\ del'[r].doc = del[r].doc
               /\ del'[r].pc \in {"purged", "broken", "done"} <=> del[r].pc \in {"purged", "broken", "done"}
    BY <1>11 DEF Crash, DocInv, TypeOK
  <2>2. \A e \in Docs : Purged(e)' <=> Purged(e)
    BY <2>1 DEF Purged
  <2>3. /\ \A d \in S : task[d] \in TaskLive /\ task'[d] = "lost"
        /\ \A d \in Docs \ S : task'[d] = task[d]
        /\ UNCHANGED <<row, noted, index>>
    BY <1>11 DEF Crash, stores
  <2>4. S \in SUBSET Docs
    OBVIOUS
  <2>5. Catalogue!Interrupt(S)
    BY <2>2, <2>3, <2>4, MapsInterrupt
  <2>6. QED
    BY <2>4, <2>5 DEF Catalogue!Next
<1>12. CASE UNCHANGED vars
  BY <1>12, UploadInvisible DEF vars
<1>13. QED
  BY <1>1, <1>2, <1>3, <1>4, <1>5, <1>6, <1>7, <1>8, <1>9, <1>10, <1>11, <1>12
  DEF Next, UploadStep, TaskStep, DeleteStep

\* Documents keep what the catalogue promises, however many documents, users
\* and requests there are and whatever fails: document_service.py over its
\* three stores implements Catalogue.
THEOREM Refinement == Spec => ImplementsCatalogue
<1>1. QED
  BY MapsInit, MapsStep, Invariance, PTL DEF Spec, ImplementsCatalogue, Catalogue!Spec
=============================================================================
