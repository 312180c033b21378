----------------------------- MODULE DmDelivery -----------------------------
(***************************************************************************)
(* One direct message on its way to one peer: the sender's outbox queue    *)
(* for it (federationOutboxQueue.ts), the worker that posts the queue's    *)
(* head (federationWorker.ts), the receiver's handlers of create, update   *)
(* and delete (events/dmMessages.ts), and the receiver's pull of the       *)
(* sender's mutation log with the events it keeps for later                *)
(* (federationSync.ts, syncPage.ts).  Queues, pulled subjects and handlers *)
(* of different messages share nothing, so one message suffices.           *)
(*                                                                         *)
(* A step is what a process does between two awaits.  A POST may be lost,  *)
(* answered late or answered to nobody, and sent again; the pull may       *)
(* re-read any part of the log; either process may stop at any time.       *)
(***************************************************************************)
EXTENDS Naturals, Sequences, FiniteSets

CONSTANTS
  MaxEdits,    \* bound: edits of the message
  MaxFaults,   \* bound: losses, timeouts, crashes, expiries and dropped events
  Hydrates     \* a create may wait for the download of a participant's image

ASSUME BoundsAssumption == MaxEdits \in Nat /\ MaxFaults \in Nat
ASSUME HydratesAssumption == Hydrates \in BOOLEAN

VARIABLES
  text,      \* the message at its home
  rows,      \* the rows of its queue (federation_outbox)
  nextId,    \* the id the next row gets
  log,       \* its rows in federation_mutation_log
  post,      \* the relay POST the worker waits for
  net,       \* the relay requests on the wire or being handled
  copy,      \* the receiver's row of the message (dm_messages)
  tomb,      \* whether its deletion is recorded (federation_applied_events)
  ready,     \* whether the receiver has the conversation yet
  welcome,   \* whether the receiver lets this sender speak for the author
  cursor,    \* the receiver's sync cursor: log rows consumed
  job,       \* the receiver's pull or retry run for this peer (runForPeer)
  kept,      \* the pulled events kept for later (federation_sync_retry)
  cancelled, \* whether a delete was settled against an unsent create
  unqueued,  \* whether the queue lost an event: not written, or expired
  dropped,   \* whether a kept event was given up for its age
  faults     \* losses so far

source   == <<text, rows, nextId, log, cancelled>>
replica  == <<copy, tomb>>
wire     == <<post, net>>
puller   == <<cursor, job, kept>>
place    == <<ready, welcome>>
lapses   == <<unqueued, dropped>>
vars == <<source, replica, wire, puller, place, lapses, faults>>

-----------------------------------------------------------------------------
(* Data *)

Types == {"create", "update", "delete"}

\* `ver' numbers the message's edits and is also the time of the edit; the
\* time of version 0 is NULL.
Messages == [state : {"none", "live", "deleted"}, ver : Nat]

Rows == [id : Nat, type : Types, ver : Nat, offered : BOOLEAN]

\* A pulled event: the log row it stands for, as it was served.  A row that
\* is not served to the peer stands as "none" in its page.
Events == [type : Types \cup {"none"}, ver : Nat, at : Nat]

Copies == [held : BOOLEAN, ver : Nat, edited : Nat]
NoCopy == [held |-> FALSE, ver |-> 0, edited |-> 0]

Reasons == {"accepted", "duplicate", "attribution_mismatch",
            "channel_not_found", "unknown_message", "processing_error"}

\* classifyRejection: what an answer means for the row it answers.
Outcome(reason) ==
  CASE reason \in {"accepted", "duplicate"} -> "taken"
    [] reason = "attribution_mismatch"      -> "refused"
    [] OTHER                                -> "retry"

\* classifyPulledRejection with messageCannotArrive: the log's create came
\* first, so a message its own home's update does not find will never come.
PulledOutcome(reason) ==
  IF reason = "unknown_message" THEN "refused" ELSE Outcome(reason)

\* `live': the worker still waits for the answer.
Requests == [id : Nat, type : Types, ver : Nat, live : BOOLEAN,
             stage : {"transit", "hydrating"}]

Posts == [id : Nat, type : Types, at : {"idle", "sent"} \cup Reasons]
NoPost == [id |-> 0, type |-> "create", at |-> "idle"]

\* `page': what is left of the pulled page; `upTo': its checkpoint.
Jobs == [kind : {"idle", "pull", "retry"}, page : Seq(Events), upTo : Nat,
         hydrating : BOOLEAN]
NoJob == [kind |-> "idle", page |-> <<>>, upTo |-> 0, hydrating |-> FALSE]

Fault == faults < MaxFaults /\ faults' = faults + 1

-----------------------------------------------------------------------------
Init ==
  /\ text = [state |-> "none", ver |-> 0]
  /\ rows = {} /\ nextId = 1 /\ log = <<>>
  /\ post = NoPost /\ net = {}
  /\ copy = NoCopy /\ tomb = FALSE
  /\ ready \in BOOLEAN /\ welcome \in BOOLEAN
  /\ cursor = 0 /\ job = NoJob /\ kept = <<>>
  /\ cancelled = FALSE /\ unqueued = FALSE /\ dropped = FALSE /\ faults = 0

-----------------------------------------------------------------------------
(* The sender's queue *)

Oldest(r) == r \in rows /\ \A x \in rows : r.id <= x.id
Newest(r) == r \in rows /\ \A x \in rows : x.id <= r.id

NewRow(type, ver) == [id |-> nextId, type |-> type, ver |-> ver, offered |-> FALSE]

\* Whether the sent rows were offered is not looked at (as before #372).
UnofferedCreate_AnyCreate(r) == r.type = "create"

\* A create no path has offered: the only row the peer is known not to hold.
UnofferedCreate(r) == r.type = "create" /\ ~r.offered

\* An edit replaces a queued edit in place, under the same row id.
QueuedUpdate_InPlace(ver) ==
  {IF Newest(r) /\ r.type = "update" THEN [r EXCEPT !.ver = ver] ELSE r : r \in rows}
    \cup (IF \E r \in rows : Newest(r) /\ r.type = "update" THEN {}
          ELSE {NewRow("update", ver)})

\* A queued edit is left where it is.
QueuedUpdate_Appended(ver) == rows \cup {NewRow("update", ver)}

\* planMessageWrite for an update that is not absorbed.
QueuedUpdate(ver) ==
  {r \in rows : ~(Newest(r) /\ r.type = "update")} \cup {NewRow("update", ver)}

\* planMessageWrite, update: absorbed by an unoffered create at the tail.
AfterUpdate(ver) ==
  IF \E r \in rows : Newest(r) /\ UnofferedCreate(r)
  THEN {IF Newest(r) THEN [r EXCEPT !.ver = ver] ELSE r : r \in rows}
  ELSE QueuedUpdate(ver)

\* planMessageWrite, delete: everything queued goes; with an unoffered create
\* among it nothing is sent at all.
Cancels == \E r \in rows : UnofferedCreate(r)
AfterDelete == IF Cancels THEN {} ELSE {NewRow("delete", text.ver)}

\* queueDmRelay and queueDmMessageDeleteRelay: the mutation log, then the
\* queue.  The queue is left alone when the peer takes no mail just then, when
\* writing it fails (queueOutboxEvent never throws), and in a crash.
Written(type, newText, newRows) ==
  /\ text' = newText
  /\ log' = Append(log, type)
  /\ nextId' = nextId + 1
  /\ \/ rows' = newRows /\ UNCHANGED <<unqueued, faults>>
     \/ Fault /\ unqueued' = TRUE /\ UNCHANGED rows
  /\ UNCHANGED <<replica, wire, puller, place, dropped>>

CreateMessage ==
  /\ text.state = "none"
  /\ Written("create", [text EXCEPT !.state = "live"], {NewRow("create", 0)})
  /\ UNCHANGED cancelled

EditMessage ==
  /\ text.state = "live" /\ text.ver < MaxEdits
  /\ Written("update", [text EXCEPT !.ver = @ + 1], AfterUpdate(text.ver + 1))
  /\ UNCHANGED cancelled

DeleteMessage ==
  /\ text.state = "live"
  /\ Written("delete", [text EXCEPT !.state = "deleted"], AfterDelete)
  /\ cancelled' = (Cancels /\ rows' = {})

-----------------------------------------------------------------------------
(* The outbox worker *)

\* takeOutboxBatch and the POST: the head of the queue, marked offered before
\* the request leaves.
SendHead ==
  /\ post = NoPost
  /\ \E r \in rows :
       /\ Oldest(r)
       /\ rows' = (rows \ {r}) \cup {[r EXCEPT !.offered = TRUE]}
       /\ post' = [id |-> r.id, type |-> r.type, at |-> "sent"]
       /\ net' = net \cup {[id |-> r.id, type |-> r.type, ver |-> r.ver,
                            live |-> TRUE, stage |-> "transit"]}
  /\ UNCHANGED <<text, nextId, log, cancelled, replica, puller, place, lapses, faults>>

\* settleAnsweredBatch: the answered row goes by its id, and a refused create
\* takes what is queued behind it; a row to retry only has its backoff moved.
Settled(outcome) ==
  IF outcome = "retry" THEN rows
  ELSE IF outcome = "refused" /\ post.type = "create" THEN {}
  ELSE {r \in rows : r.id # post.id}

SettleAnswer ==
  /\ post.at \in Reasons
  /\ rows' = Settled(Outcome(post.at))
  /\ post' = NoPost
  /\ UNCHANGED <<text, nextId, log, cancelled, net, replica, puller, place, lapses, faults>>

\* The worker learns nothing: its request or the answer was lost.  The row
\* stays offered, and is sent again.
TimeOut ==
  /\ post.at = "sent"
  /\ ~ \E m \in net : m.live
  /\ post' = NoPost
  /\ UNCHANGED <<source, net, replica, puller, place, lapses, faults>>

\* A timeout, an abort, or a sender that stops, with the request still on its
\* way or being handled: it goes on, and nobody hears the answer.
Abandon ==
  /\ Fault
  /\ post.at = "sent"
  /\ \E m \in net : m.live
  /\ post' = NoPost
  /\ net' = {[m EXCEPT !.live = FALSE] : m \in net}
  /\ UNCHANGED <<source, replica, puller, place, lapses>>

LoseRequest ==
  /\ Fault
  /\ \E m \in net : m.stage = "transit" /\ net' = net \ {m}
  /\ UNCHANGED <<source, post, replica, puller, place, lapses>>

\* expireOutboxQueues: an expired row takes the rows behind it.
ExpireRow ==
  /\ Fault
  /\ \E r \in rows : rows' = {x \in rows : x.id < r.id}
  /\ unqueued' = TRUE
  /\ UNCHANGED <<text, nextId, log, cancelled, wire, replica, puller, place, dropped>>

-----------------------------------------------------------------------------
(* The receiver's handlers: the answer, and what the copy and its tombstone  *)
(* become.                                                                   *)

Answer(reason) == [reason |-> reason, copy |-> copy, tomb |-> tomb]

Store(version, edited) ==
  [reason |-> "accepted", tomb |-> tomb,
   copy |-> [held |-> TRUE, ver |-> version, edited |-> edited]]

\* processCreateEvent before its first await: the author must belong to the
\* sender, and a message deleted or held already is answered so.
PassesChecks(e) == welcome /\ ~tomb /\ ~copy.held

\* processCreateEvent after its last await: the conversation must be here, and
\* the unique index on the message's coordinates holds.  What is stored counts
\* as never edited, whatever version the create carries.
InsertMessage(e) ==
  IF ~ready THEN Answer("channel_not_found")
  ELSE IF copy.held THEN Answer("processing_error")
  ELSE Store(e.ver, 0)

\* The tombstone a delete leaves is not looked at.
ProcessCreate_NoTombstone(e) ==
  IF ~welcome THEN Answer("attribution_mismatch")
  ELSE IF copy.held THEN Answer("duplicate")
  ELSE InsertMessage(e)

ProcessCreate(e) ==
  IF ~welcome THEN Answer("attribution_mismatch")
  ELSE IF ~PassesChecks(e) THEN Answer("duplicate")
  ELSE InsertMessage(e)

\* processUpdateEvent: the last edit wins, by the author's time of the edit.
ProcessUpdate(e) ==
  IF ~welcome THEN Answer("attribution_mismatch")
  ELSE IF ~copy.held THEN Answer("unknown_message")
  ELSE IF copy.edited # 0 /\ e.ver <= copy.edited THEN Answer("accepted")
  ELSE Store(e.ver, e.ver)

\* processDeleteEvent: accepted, held or not, and remembered.
ProcessDelete(e) ==
  IF ~welcome THEN Answer("attribution_mismatch")
  ELSE [reason |-> "accepted", copy |-> NoCopy, tomb |-> TRUE]

Processed(e) ==
  CASE e.type = "create" -> ProcessCreate(e)
    [] e.type = "update" -> ProcessUpdate(e)
    [] e.type = "delete" -> ProcessDelete(e)

\* A create that gets as far as the participants may wait for their images.
MayHydrate(e) == Hydrates /\ e.type = "create" /\ PassesChecks(e)

Take(result) == copy' = result.copy /\ tomb' = result.tomb

-----------------------------------------------------------------------------
(* The live relay at the receiver *)

\* The request leaves the wire; its answer reaches a worker that still waits
\* for it, unless it is lost.
Reply(m, result) ==
  /\ Take(result)
  /\ net' = net \ {m}
  /\ \/ /\ post' = IF m.live THEN [post EXCEPT !.at = result.reason] ELSE post
        /\ UNCHANGED faults
     \/ m.live /\ Fault /\ UNCHANGED post
  /\ UNCHANGED <<source, puller, place, lapses>>

Receive ==
  \E m \in net : m.stage = "transit" /\ Reply(m, Processed(m))

StartHydration ==
  \E m \in net :
    /\ m.stage = "transit" /\ MayHydrate(m)
    /\ net' = (net \ {m}) \cup {[m EXCEPT !.stage = "hydrating"]}
    /\ UNCHANGED <<source, post, replica, puller, place, lapses, faults>>

\* The images are here: the rest of processCreateEvent, with the checks it made
\* before it waited.
FinishHydration ==
  \E m \in net : m.stage = "hydrating" /\ Reply(m, InsertMessage(m))

-----------------------------------------------------------------------------
(* The pull *)

\* serializeSyncRow: a create or update carries the message as it is now, and
\* is left out once the message is deleted.
Served(i) ==
  IF log[i] = "delete" THEN [type |-> "delete", ver |-> text.ver, at |-> i]
  ELSE IF text.state = "deleted" THEN [type |-> "none", ver |-> 0, at |-> i]
  ELSE [type |-> log[i], ver |-> text.ver, at |-> i]

\* A page read from behind the cursor (the first page overlaps what was read)
\* or at it, of which other messages' rows take any part.  The sender marks
\* everything queued for the peer before it serves.
ReadPage(since, upTo) ==
  /\ job = NoJob
  /\ rows' = {[r EXCEPT !.offered = TRUE] : r \in rows}
  /\ job' = [kind |-> "pull", upTo |-> upTo, hydrating |-> FALSE,
             page |-> [i \in 1 .. upTo - since |-> Served(since + i)]]
  /\ UNCHANGED <<text, nextId, log, cancelled, replica, wire, cursor, kept,
                 place, lapses, faults>>

PullPage == \E since \in 0 .. cursor : \E upTo \in since .. Len(log) : ReadPage(since, upTo)

\* keepEvent: the kept events stay in the log's order, equal ones once.
Keep(e) ==
  IF \E i \in DOMAIN kept : kept[i] = e THEN UNCHANGED kept
  ELSE \E p \in 0 .. Len(kept) :
         /\ \A i \in DOMAIN kept : i <= p <=> kept[i].at <= e.at
         /\ kept' = SubSeq(kept, 1, p) \o <<e>> \o SubSeq(kept, p + 1, Len(kept))

InPage == job.kind = "pull" /\ job.page # <<>> /\ ~job.hydrating
NextInPage == [job EXCEPT !.page = Tail(@), !.hydrating = FALSE]

SkipRow ==
  /\ InPage /\ Head(job.page).type = "none"
  /\ job' = NextInPage
  /\ UNCHANGED <<source, replica, wire, cursor, kept, place, lapses, faults>>

\* Kept events are no obstacle to the ones behind them.
HeldBehind_Nothing == FALSE

\* hasKeptEvents: an event waits behind a kept one of its message.
HeldBehind == kept # <<>>

HoldBehindKept ==
  /\ InPage /\ Head(job.page).type # "none"
  /\ HeldBehind
  /\ Keep(Head(job.page))
  /\ job' = NextInPage
  /\ UNCHANGED <<source, replica, wire, cursor, place, lapses, faults>>

\* handlePulledEvent's switch: refused for now is kept, anything else is done.
AppliedInPage(result) ==
  /\ Take(result)
  /\ IF PulledOutcome(result.reason) = "retry" THEN Keep(Head(job.page)) ELSE UNCHANGED kept
  /\ job' = NextInPage
  /\ UNCHANGED <<source, wire, cursor, place, lapses, faults>>

ApplyPulled ==
  /\ InPage /\ Head(job.page).type # "none"
  /\ ~HeldBehind
  /\ AppliedInPage(Processed(Head(job.page)))

SuspendPulled ==
  /\ InPage /\ ~HeldBehind /\ MayHydrate(Head(job.page))
  /\ job' = [job EXCEPT !.hydrating = TRUE]
  /\ UNCHANGED <<source, replica, wire, cursor, kept, place, lapses, faults>>

FinishPulled ==
  /\ job.kind = "pull" /\ job.hydrating
  /\ AppliedInPage(InsertMessage(Head(job.page)))

\* The cursor goes on to the last row read, never back.
EndPage ==
  /\ job.kind = "pull" /\ job.page = <<>>
  /\ cursor' = IF job.upTo > cursor THEN job.upTo ELSE cursor
  /\ job' = NoJob
  /\ UNCHANGED <<source, replica, wire, kept, place, lapses, faults>>

-----------------------------------------------------------------------------
(* The kept events *)

\* A kept event refused again is given up.
AfterRetry_Once(reason) == Tail(kept)

\* retryPeerEvents: an event still refused for now stays at the head.
AfterRetry(reason) ==
  IF PulledOutcome(reason) = "retry" THEN kept ELSE Tail(kept)

\* The run goes on to the next event, and ends with the one it has to keep or
\* with the last.
AfterKept ==
  IF kept' \in {kept, <<>>} THEN NoJob ELSE [NoJob EXCEPT !.kind = "retry"]

Retried(result) ==
  /\ Take(result)
  /\ kept' = AfterRetry(result.reason)
  /\ job' = AfterKept
  /\ UNCHANGED <<source, wire, cursor, place, lapses, faults>>

\* A run is on, or may begin: pulls and runs of a peer take turns (runForPeer).
MayRetry == job.kind \in {"idle", "retry"} /\ ~job.hydrating /\ kept # <<>>

RetryKept ==
  /\ MayRetry
  /\ Retried(Processed(Head(kept)))

SuspendKept ==
  /\ MayRetry /\ MayHydrate(Head(kept))
  /\ job' = [NoJob EXCEPT !.kind = "retry", !.hydrating = TRUE]
  /\ UNCHANGED <<source, replica, wire, cursor, kept, place, lapses, faults>>

FinishKept ==
  /\ job.kind = "retry" /\ job.hydrating
  /\ Retried(InsertMessage(Head(kept)))

\* SYNC_RETRY_MAX_AGE_MS: a kept event is dropped, and the next one's turn comes.
DropKept ==
  /\ Fault
  /\ MayRetry
  /\ kept' = Tail(kept)
  /\ job' = AfterKept
  /\ dropped' = TRUE
  /\ UNCHANGED <<source, replica, wire, cursor, place, unqueued>>

-----------------------------------------------------------------------------
(* The receiver's surroundings *)

\* Its copy of the conversation arrives (the member_add that bootstraps it).
BecomeReady ==
  /\ ~ready /\ ready' = TRUE
  /\ UNCHANGED <<source, replica, wire, puller, welcome, lapses, faults>>

\* The receiver stops: the page it read and the requests it was handling are
\* gone; the cursor and the kept events are in its database.
StopReceiver ==
  /\ Fault
  /\ job' = NoJob
  /\ net' = {m \in net : m.stage = "transit"}
  /\ UNCHANGED <<source, post, replica, cursor, kept, place, lapses>>

-----------------------------------------------------------------------------
Author == CreateMessage \/ EditMessage \/ DeleteMessage

Worker == SendHead \/ SettleAnswer \/ TimeOut \/ Abandon \/ LoseRequest \/ ExpireRow

Relay == Receive \/ StartHydration \/ FinishHydration

Pull == PullPage \/ SkipRow \/ HoldBehindKept \/ ApplyPulled \/ SuspendPulled
          \/ FinishPulled \/ EndPage

Retry == RetryKept \/ SuspendKept \/ FinishKept \/ DropKept

Next == Author \/ Worker \/ Relay \/ Pull \/ Retry \/ BecomeReady \/ StopReceiver

Spec == Init /\ [][Next]_vars

\* The worker's tick and the timers of the pull never stop, and a handler runs
\* to its end.  A pass goes on to the end of the log, and runForPeer gives the
\* passes and the retry runs of a peer their turn first come, first served:
\* strong fairness.  Nobody owes the author's acts, the conversation's arrival,
\* or a loss.
ReadOn == ReadPage(cursor, Len(log))

Fairness ==
  /\ WF_vars(SendHead) /\ WF_vars(SettleAnswer) /\ WF_vars(TimeOut)
  /\ WF_vars(Receive) /\ WF_vars(FinishHydration)
  /\ WF_vars(SkipRow \/ HoldBehindKept \/ ApplyPulled \/ FinishPulled \/ EndPage)
  /\ SF_vars(ReadOn)
  /\ SF_vars(RetryKept \/ FinishKept)

FairSpec == Spec /\ Fairness

-----------------------------------------------------------------------------
(* Properties *)

\* Every variable has its type; a queue holds at most one row of a kind, its
\* create first and its delete alone, and at most one request is waited for.
TypeOK ==
  /\ text \in Messages
  /\ rows \subseteq Rows /\ nextId \in Nat \ {0}
  /\ \A r \in rows : r.id < nextId
  /\ \A r, x \in rows : r.id # x.id => r.type # x.type
  /\ log \in Seq(Types)
  /\ post \in Posts
  /\ net \subseteq Requests
  /\ copy \in Copies /\ tomb \in BOOLEAN
  /\ ready \in BOOLEAN /\ welcome \in BOOLEAN
  /\ cursor \in 0 .. Len(log)
  /\ job \in Jobs /\ kept \in Seq(Events)
  /\ {cancelled, unqueued, dropped} \subseteq BOOLEAN
  /\ faults \in 0 .. MaxFaults

\* A delete that was settled against an unsent create, so that nothing went
\* out, was right to: the peer never comes to hold the message, by the relay or
\* by a pull (federationOutboxQueue.ts, "the only row the peer is known not to
\* hold").
CancelledNeverHeld == cancelled => ~copy.held

\* Once the receiver has recorded the deletion, no create delayed behind it,
\* sent again or pulled brings the message back (federationAppliedEvents.ts).
TombstoneFinal == tomb => ~copy.held

CopyAgrees ==
  CASE text.state = "live"    -> copy.held /\ copy.ver = text.ver
    [] text.state = "deleted" -> ~copy.held
    [] text.state = "none"    -> ~copy.held

\* A drained queue has done its work: when the worker has nothing left to send
\* or to settle, and lost nothing, the copy is what its author made of the
\* message, whatever older requests are still on the wire and whatever the pull
\* is in the middle of.
DrainedAgrees ==
  rows = {} /\ post = NoPost /\ ~unqueued /\ welcome => CopyAgrees

\* A pull that has read the whole log and keeps nothing back has caught the
\* copy up, whatever the queue lost.
PulledAgrees ==
  cursor = Len(log) /\ job = NoJob /\ kept = <<>> /\ ~dropped /\ welcome => CopyAgrees

\* Every run of this module is one the abstract replica allows.
Shown ==
  IF copy.held THEN [at |-> "held", ver |-> copy.ver]
  ELSE [at |-> IF tomb THEN "gone" ELSE "none", ver |-> 0]

R == INSTANCE Replica WITH shown <- Shown
ReplicaSpec == R!Spec

\* Whatever the queue, the wire and the restarts lost, the copy ends up as its
\* author left the message, once the conversation is here, unless a kept event
\* was given up for its age or a create that waited for an image brought a
\* deleted message back (TombstoneFinal).
Converges == <>[](ready /\ welcome /\ ~dropped /\ TombstoneFinal => CopyAgrees)
=============================================================================
