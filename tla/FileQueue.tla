------------------------------ MODULE FileQueue ------------------------------
(***************************************************************************)
(* The download of one attachment of a relayed message: the attachment row, *)
(* its entry in the file queue, the worker that fetches the file, and what   *)
(* else touches the row, the entry and the upload directory meanwhile.       *)
(***************************************************************************)
EXTENDS Naturals, FiniteSets

CONSTANTS
  MaxAttempts,  \* MAX_FILE_ATTEMPTS
  MaxStops      \* times the process stops during a download

ASSUME FileAssumption == MaxAttempts \in Nat /\ MaxStops \in Nat

VARIABLES
  claimed, actual,  \* the size the event claims, and the size of the file
  message,    \* the relayed message: not here yet, held or deleted
  attachment, \* its attachment row: none, naming the remote URL, or a local file
  named,      \* the local file it names
  status,     \* the status of the queue entry, "none" without one
  attempts,   \* its failed attempts
  work,       \* the worker: idle, or waiting for the file or its thumbnail
  fetched,    \* the file it has just written, while the thumbnail is made
  disk,       \* the files in the upload directory
  told,       \* file_rejected is queued for the sender's instance
  stops,
  swept       \* history: the sweep took a file the worker was not done with

fileVars == <<claimed, actual, message, attachment, named, status, attempts, work, fetched, disk,
              told, stops, swept>>
-----------------------------------------------------------------------------
Size == {"fits", "too_big"}
Names == 1..(MaxAttempts + MaxStops + 2)  \* files there can be at once
NoFile == 0

FileTypeOK ==
  /\ claimed \in Size /\ actual \in Size
  /\ message \in {"awaited", "held", "deleted"}
  /\ attachment \in {"none", "url", "local"} /\ (attachment # "none" => message = "held")
  /\ named \in Names \cup {NoFile} /\ (attachment = "local" <=> named # NoFile)
  /\ status \in {"none", "pending", "completed", "failed", "rejected"}
  /\ attempts \in 0..(MaxAttempts + 1)
  /\ work \in {"idle", "fetch", "thumbnail"}
  /\ fetched \in Names \cup {NoFile} /\ (work = "thumbnail" <=> fetched # NoFile)
  /\ disk \subseteq Names
  /\ told \in BOOLEAN /\ stops \in 0..MaxStops /\ swept \in BOOLEAN

FileInit ==
  /\ claimed \in Size /\ actual \in Size
  /\ message = "awaited" /\ attachment = "none" /\ named = NoFile
  /\ status = "none" /\ attempts = 0
  /\ work = "idle" /\ fetched = NoFile /\ disk = {}
  /\ told = FALSE /\ stops = 0 /\ swept = FALSE

RowIs(kind, file) == attachment' = kind /\ named' = file

\* processCreateEvent: the row names the URL until the file is here.
ReceiveMessage ==
  /\ message = "awaited"
  /\ message' = "held" /\ RowIs("url", NoFile) /\ status' = "pending"
  /\ UNCHANGED <<claimed, actual, attempts, work, fetched, disk, told, stops, swept>>

-----------------------------------------------------------------------------
(* The worker.  The entry is the one it read when it started.               *)

\* The status of the entry, if there still is one.
Entry(s) == status' = IF status = "none" THEN "none" ELSE s

\* A failure that is not the network's is not counted.
Failed_NetworkOnly ==
  IF work = "fetch"
  THEN attempts' = attempts + 1 /\ Entry(IF attempts < MaxAttempts THEN "pending" ELSE "failed")
  ELSE UNCHANGED <<attempts, status>>

Failed ==
  /\ attempts' = IF status = "none" THEN attempts ELSE attempts + 1
  /\ Entry(IF attempts < MaxAttempts THEN "pending" ELSE "failed")

\* handleSizeRejection after the entry is rejected; a stop in between loses the notice.
Refused ==
  /\ Entry("rejected")
  /\ \/ told' = (told \/ message = "held") /\ UNCHANGED stops
     \/ stops < MaxStops /\ stops' = stops + 1 /\ UNCHANGED told

Begin ==
  /\ work = "idle" /\ status = "pending"
  /\ IF claimed = "too_big"
     THEN Refused /\ UNCHANGED work
     ELSE work' = "fetch" /\ UNCHANGED <<status, told, stops>>
  /\ UNCHANGED <<claimed, actual, message, attachment, named, attempts, fetched, disk, swept>>

FetchFails ==
  /\ work = "fetch"
  /\ work' = "idle"
  /\ Failed
  /\ UNCHANGED <<claimed, actual, message, attachment, named, fetched, disk, told, stops, swept>>

\* A snowflake no file and no row has.
FreshName == CHOOSE n \in Names : n \notin disk \cup {named}

\* The bound on the files: one for each attempt and each stop.
Room == Cardinality(disk) < MaxAttempts + MaxStops + 1

FetchDone ==
  /\ work = "fetch"
  /\ Room
  /\ IF actual = "too_big"
     THEN work' = "idle" /\ Refused /\ UNCHANGED <<fetched, disk>>
     ELSE /\ work' = "thumbnail" /\ fetched' = FreshName /\ disk' = disk \cup {FreshName}
          /\ UNCHANGED <<status, told, stops>>
  /\ UNCHANGED <<claimed, actual, message, attachment, named, attempts, swept>>

\* The row is inserted again whether or not its message is still there.
ThumbnailDone_NoForeignKey ==
  /\ work = "thumbnail"
  /\ work' = "idle" /\ fetched' = NoFile
  /\ RowIs("local", fetched) /\ Entry("completed")
  /\ UNCHANGED <<claimed, actual, message, attempts, disk, told, stops, swept>>

\* The row is updated, or inserted again for a message that is still held; for a
\* deleted one the insert fails on the foreign key and the file stays behind.
ThumbnailDone ==
  /\ work = "thumbnail"
  /\ work' = "idle" /\ fetched' = NoFile
  /\ IF message = "held"
     THEN RowIs("local", fetched) /\ Entry("completed") /\ UNCHANGED attempts
     ELSE Failed /\ UNCHANGED <<attachment, named>>
  /\ UNCHANGED <<claimed, actual, message, disk, told, stops, swept>>

\* stopFederationWorkers, or the process is killed and leaves a part of the file.
Stop ==
  /\ work # "idle" /\ stops < MaxStops
  /\ stops' = stops + 1
  /\ work' = "idle" /\ fetched' = NoFile
  /\ \/ UNCHANGED disk
     \/ work = "fetch" /\ Room /\ disk' = disk \cup {FreshName}
  /\ UNCHANGED <<claimed, actual, message, attachment, named, status, attempts, told, swept>>

-----------------------------------------------------------------------------
(* Meanwhile.                                                               *)

RowGone == RowIs("none", NoFile) /\ disk' = disk \ {named}

\* processDeleteEvent leaves the entry alone; the purge of a deleted conversation
\* takes it along.
DeleteMessage ==
  /\ message = "held"
  /\ message' = "deleted"
  /\ RowGone
  /\ status' \in {status, "none"}
  /\ UNCHANGED <<claimed, actual, attempts, work, fetched, told, stops, swept>>

\* cleanupOldMedia
CleanupOldMedia ==
  /\ attachment # "none"
  /\ RowGone
  /\ UNCHANGED <<claimed, actual, message, status, attempts, work, fetched, told, stops, swept>>

\* The sweep goes by the queue: a file counts from the entry's completion.
Orphans_Completed == IF status = "completed" THEN disk \ {named} ELSE disk

Orphans == disk \ {named}

\* cleanupStorage: it knows no age of a file and nothing of the worker.
CleanupStorage ==
  /\ Orphans # {}
  /\ disk' = disk \ Orphans
  /\ swept' = (swept \/ fetched \in Orphans)
  /\ UNCHANGED <<claimed, actual, message, attachment, named, status, attempts, work, fetched, told, stops>>

\* cleanupFederationFileQueue
ExpireEntry ==
  /\ status # "none"
  /\ status' = "none"
  /\ UNCHANGED <<claimed, actual, message, attachment, named, attempts, work, fetched, disk, told,
                 stops, swept>>

FileNext ==
  \/ ReceiveMessage \/ Begin \/ FetchFails \/ FetchDone \/ ThumbnailDone \/ Stop
  \/ DeleteMessage \/ CleanupOldMedia \/ CleanupStorage \/ ExpireEntry

\* The queue's timer and the time-outs of fetches; the stops end with MaxStops.
FileFairness ==
  /\ WF_fileVars(Begin) /\ WF_fileVars(FetchFails \/ FetchDone) /\ WF_fileVars(ThumbnailDone)

FileSpec == FileInit /\ [][FileNext]_fileVars /\ FileFairness

-----------------------------------------------------------------------------
\* A row that names a local file names one that is there, whatever was deleted,
\* swept and fetched again, unless the sweep took the file from under the worker.
NamedFileThere == attachment = "local" => named \in disk \/ swept

\* Every download ends: the entry is settled or gone, also when its message was
\* deleted during the fetch and every attempt fails on the missing message.
DownloadEnds == status = "pending" ~> status # "pending"
=============================================================================
