-------------------------- MODULE FileQueueProofs --------------------------
(***************************************************************************)
(* The file an attachment names, for any number of attempts and stops.      *)
(***************************************************************************)
EXTENDS FileQueue, FiniteSetTheorems, TLAPS

\* The worker works for an entry that was pending and may be gone by now, and the file
\* it has written is its own.
WorkInv ==
  /\ work # "idle" => status \in {"pending", "none"} /\ message # "awaited"
  /\ status = "pending" => attempts <= MaxAttempts
  /\ message = "awaited" => status = "none" /\ attempts = 0
  /\ work = "thumbnail" => fetched # named /\ (fetched \in disk \/ swept)

FileInv == FileTypeOK /\ WorkInv /\ NamedFileThere

\* With room on the disk there is a name no file has and no row names.
LEMMA FreshFacts ==
  ASSUME FileTypeOK, Room
  PROVE  FreshName \in Names /\ FreshName \notin disk \cup {named}
<1> DEFINE k == MaxAttempts + MaxStops + 2
<1>1. k \in Nat /\ IsFiniteSet(Names) /\ Cardinality(Names) = k
  BY FileAssumption, FS_Interval DEF Names
<1>2. IsFiniteSet(disk)
  BY <1>1, FS_Subset DEF FileTypeOK
<1>3. IsFiniteSet(disk \cup {named}) /\ Cardinality(disk \cup {named}) \in Nat
      /\ Cardinality(disk) \in Nat
      /\ Cardinality(disk \cup {named}) <= Cardinality(disk) + 1
  <2>1. /\ IsFiniteSet(disk \cup {named})
        /\ Cardinality(disk \cup {named})
             = IF named \in disk THEN Cardinality(disk) ELSE Cardinality(disk) + 1
    BY <1>2, FS_AddElement
  <2>2. Cardinality(disk) \in Nat /\ Cardinality(disk \cup {named}) \in Nat
    BY <1>2, <2>1, FS_CardinalityType
  <2> QED BY <2>1, <2>2
<1>4. Cardinality(disk \cup {named}) < k
  BY <1>3, FileAssumption DEF Room
<1>5. \E n \in Names : n \notin disk \cup {named}
  <2> SUFFICES ASSUME Names \subseteq disk \cup {named} PROVE FALSE
    OBVIOUS
  <2>1. Cardinality(Names) <= Cardinality(disk \cup {named})
    BY <1>3, FS_Subset
  <2> QED BY <1>1, <1>3, <1>4, <2>1
<1> QED BY <1>5 DEF FreshName

LEMMA FileStart == ASSUME FileInit PROVE FileInv
<1> USE FileAssumption DEF FileInit
<1>1. FileTypeOK
  <2>1. 0 \in 0..MaxStops /\ 0 \in 0..(MaxAttempts + 1)
    OBVIOUS
  <2>2. named \in Names \cup {NoFile} /\ fetched \in Names \cup {NoFile} /\ disk \subseteq Names
    OBVIOUS
  <2> QED BY <2>1, <2>2 DEF FileTypeOK
<1>2. WorkInv /\ NamedFileThere
  BY DEF WorkInv, NamedFileThere
<1> QED BY <1>1, <1>2 DEF FileInv

LEMMA NameFacts == ASSUME FileTypeOK PROVE NoFile \notin Names
BY DEF NoFile, Names

LEMMA ReceiveMessageKeeps == ASSUME FileInv, ReceiveMessage PROVE FileInv'
BY FileAssumption DEF FileInv, ReceiveMessage, FileTypeOK, WorkInv, NamedFileThere, RowIs, NoFile

\* A refused entry is settled for good.
LEMMA RefusedKeeps ==
  ASSUME FileInv, Refused, work' = "idle", fetched' = NoFile,
         UNCHANGED <<claimed, actual, message, attachment, named, attempts, disk, swept>>
  PROVE  FileInv'
<1>1. status' \in {"none", "rejected"} /\ told' \in BOOLEAN /\ stops' \in 0..MaxStops
      /\ (status = "none" => status' = "none")
  <2>1. CASE told' = (told \/ message = "held") /\ UNCHANGED stops
    BY <2>1 DEF FileInv, FileTypeOK, Refused, Entry
  <2>2. CASE stops < MaxStops /\ stops' = stops + 1 /\ UNCHANGED told
    BY <2>2, FileAssumption DEF FileInv, FileTypeOK, Refused, Entry
  <2> QED BY <2>1, <2>2 DEF Refused
<1>2. FileTypeOK'
  BY <1>1 DEF FileInv, FileTypeOK
<1>3. WorkInv' /\ NamedFileThere'
  BY <1>1 DEF FileInv, WorkInv, NamedFileThere
<1> QED BY <1>2, <1>3 DEF FileInv

LEMMA BeginKeeps == ASSUME FileInv, Begin PROVE FileInv'
<1> USE FileAssumption DEF FileInv, Begin
<1>1. CASE claimed = "too_big"
  BY <1>1, RefusedKeeps DEF FileTypeOK
<1>2. CASE claimed # "too_big"
  BY <1>2 DEF FileTypeOK, WorkInv, NamedFileThere
<1> QED BY <1>1, <1>2

\* A failure is counted against an entry that is still there.
LEMMA FailedFacts ==
  ASSUME FileInv, Failed, work # "idle"
  PROVE  /\ status' \in {"none", "pending", "failed"}
         /\ attempts' \in 0..(MaxAttempts + 1)
         /\ status' = "pending" => attempts' <= MaxAttempts
BY FileAssumption DEF FileInv, FileTypeOK, WorkInv, Failed, Entry

LEMMA FetchFailsKeeps == ASSUME FileInv, FetchFails PROVE FileInv'
<1> USE DEF FileInv, FetchFails
<1>1. FileTypeOK'
  BY FailedFacts DEF FileTypeOK
<1>2. WorkInv'
  BY FailedFacts DEF WorkInv
<1>3. NamedFileThere'
  BY DEF NamedFileThere
<1> QED BY <1>1, <1>2, <1>3

LEMMA FetchDoneKeeps == ASSUME FileInv, FetchDone PROVE FileInv'
<1> USE FileAssumption DEF FileInv, FetchDone
<1>1. CASE actual = "too_big"
  BY <1>1, RefusedKeeps DEF FileTypeOK
<1>2. CASE actual # "too_big"
  <2>1. FreshName \in Names /\ FreshName \notin disk \cup {named} /\ NoFile \notin Names
    BY FreshFacts, NameFacts
  <2>2. FileTypeOK'
    BY <1>2, <2>1 DEF FileTypeOK
  <2>3. WorkInv' /\ NamedFileThere'
    BY <1>2, <2>1 DEF WorkInv, NamedFileThere
  <2> QED BY <2>2, <2>3
<1> QED BY <1>1, <1>2

LEMMA ThumbnailDoneKeeps == ASSUME FileInv, ThumbnailDone PROVE FileInv'
<1> USE FileAssumption DEF FileInv, ThumbnailDone
<1>1. CASE message = "held"
  <2>1. fetched \in Names /\ NoFile \notin Names
    BY NameFacts DEF FileTypeOK
  <2>2. FileTypeOK'
    BY <1>1, <2>1 DEF FileTypeOK, RowIs, Entry
  <2>3. WorkInv' /\ NamedFileThere'
    BY <1>1 DEF WorkInv, NamedFileThere, RowIs, Entry
  <2> QED BY <2>2, <2>3
<1>2. CASE message # "held"
  <2>1. FileTypeOK'
    BY <1>2, FailedFacts DEF FileTypeOK
  <2>2. WorkInv' /\ NamedFileThere'
    BY <1>2, FailedFacts DEF WorkInv, NamedFileThere
  <2> QED BY <2>1, <2>2
<1> QED BY <1>1, <1>2

LEMMA StopKeeps == ASSUME FileInv, Stop PROVE FileInv'
<1> USE FileAssumption DEF FileInv, Stop
<1>1. disk \subseteq disk' /\ disk' \subseteq Names
  BY FreshFacts DEF FileTypeOK
<1>2. FileTypeOK'
  BY <1>1 DEF FileTypeOK
<1>3. WorkInv' /\ NamedFileThere'
  BY <1>1 DEF WorkInv, NamedFileThere
<1> QED BY <1>2, <1>3

\* A deleted row takes its own file along, never the worker's.
LEMMA DeleteMessageKeeps == ASSUME FileInv, DeleteMessage PROVE FileInv'
<1> USE DEF FileInv, DeleteMessage
<1>1. FileTypeOK'
  BY DEF FileTypeOK, RowGone, RowIs
<1>2. WorkInv' /\ NamedFileThere'
  BY NameFacts DEF FileTypeOK, WorkInv, NamedFileThere, RowGone, RowIs
<1> QED BY <1>1, <1>2

LEMMA CleanupOldMediaKeeps == ASSUME FileInv, CleanupOldMedia PROVE FileInv'
<1> USE DEF FileInv, CleanupOldMedia
<1>1. FileTypeOK'
  BY DEF FileTypeOK, RowGone, RowIs
<1>2. WorkInv' /\ NamedFileThere'
  BY NameFacts DEF FileTypeOK, WorkInv, NamedFileThere, RowGone, RowIs
<1> QED BY <1>1, <1>2

LEMMA CleanupStorageKeeps == ASSUME FileInv, CleanupStorage PROVE FileInv'
<1> USE DEF FileInv, CleanupStorage
<1>1. FileTypeOK'
  BY DEF FileTypeOK
<1>2. WorkInv' /\ NamedFileThere'
  BY DEF FileTypeOK, WorkInv, NamedFileThere, Orphans
<1> QED BY <1>1, <1>2

LEMMA ExpireEntryKeeps == ASSUME FileInv, ExpireEntry PROVE FileInv'
BY DEF FileInv, ExpireEntry, FileTypeOK, WorkInv, NamedFileThere

LEMMA FileStep == ASSUME FileInv, [FileNext]_fileVars PROVE FileInv'
<1>1. CASE UNCHANGED fileVars
  BY <1>1 DEF fileVars, FileInv, FileTypeOK, WorkInv, NamedFileThere
<1>2. CASE FileNext
  BY <1>2, ReceiveMessageKeeps, BeginKeeps, FetchFailsKeeps, FetchDoneKeeps, ThumbnailDoneKeeps,
     StopKeeps, DeleteMessageKeeps, CleanupOldMediaKeeps, CleanupStorageKeeps, ExpireEntryKeeps
  DEF FileNext
<1> QED BY <1>1, <1>2

\* The type invariant of the row, the entry and the worker: the attempts stay within
\* their limit although the worker goes by what it read when it began.
THEOREM FileTypeCorrect == FileSpec => []FileTypeOK
<1>1. FileInv => FileTypeOK
  BY DEF FileInv
<1> QED BY FileStart, FileStep, <1>1, PTL DEF FileSpec

\* Whatever is deleted, expired, retried or stopped, an attachment names a file that is
\* there, unless the sweep took the worker's new file for an orphan.
THEOREM NamedFileCorrect == FileSpec => []NamedFileThere
<1>1. FileInv => NamedFileThere
  BY DEF FileInv
<1> QED BY FileStart, FileStep, <1>1, PTL DEF FileSpec
=============================================================================
