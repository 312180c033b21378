-------------------------- MODULE DmDeliveryProofs --------------------------
(***************************************************************************)
(* As long as no create waits for an image, a message's delivery           *)
(* implements the abstract replica of Replica.tla, whatever is lost, late, *)
(* repeated or crashed, for any number of edits and faults.  What the      *)
(* queue, the live relay and the pull leave of the message: no copy of one *)
(* that was never offered, and the author's version once the queue is      *)
(* drained or the log is read.                                             *)
(***************************************************************************)
EXTENDS DmDelivery, SequenceTheorems, TLAPS

\* An event says no more of the message than its author did.
Sound(e) ==
  /\ text.state # "none"
  /\ e.ver <= text.ver
  /\ e.type = "delete" => text.state = "deleted"

QueueInv ==
  /\ text \in Messages
  /\ nextId \in Nat
  /\ rows \subseteq Rows
  /\ \A r \in rows : Sound(r)

LogInv ==
  /\ log \in Seq(Types)
  /\ \A i \in DOMAIN log : text.state # "none" /\ (log[i] = "delete" => text.state = "deleted")

NetInv == net \subseteq Requests /\ \A m \in net : m.stage = "transit" /\ Sound(m)

PullInv ==
  /\ cursor \in Nat
  /\ job \in Jobs /\ ~job.hydrating
  /\ \A i \in DOMAIN job.page : job.page[i].type # "none" => Sound(job.page[i])

KeptInv ==
  /\ kept \in Seq(Events)
  /\ \A i \in DOMAIN kept : kept[i].type # "none" /\ Sound(kept[i])

CopyInv ==
  /\ copy \in Copies /\ tomb \in BOOLEAN
  /\ copy.held => text.state # "none" /\ copy.ver <= text.ver /\ ~tomb
  /\ tomb => text.state = "deleted"

DeliveryInv == QueueInv /\ LogInv /\ NetInv /\ PullInv /\ KeptInv /\ CopyInv

AbstractStep == [R!Next]_<<text, Shown>>

\* Whatever the author does, what was said of the message before stays sound.
LEMMA WrittenKeeps ==
  ASSUME DeliveryInv,
         NEW type \in Types, NEW newText \in Messages, NEW newRows \in SUBSET Rows,
         text.state # "deleted", newText.state # "none", text.ver <= newText.ver,
         type = "delete" => newText.state = "deleted",
         \A r \in newRows : r.ver <= newText.ver
                              /\ (r.type = "delete" => newText.state = "deleted"),
         Written(type, newText, newRows)
  PROVE  DeliveryInv'
<1> USE DEF Messages
<1>1. text' = newText /\ log' = Append(log, type) /\ nextId' = nextId + 1
      /\ rows' \in {rows, newRows}
      /\ UNCHANGED <<copy, tomb, post, net, cursor, job, kept>>
  BY DEF Written, replica, wire, puller
<1>2. ASSUME NEW e, e.ver \in Nat, Sound(e) PROVE Sound(e)'
  BY <1>1, <1>2, SMT DEF Sound, DeliveryInv, QueueInv
<1>3. QueueInv'
  <2>1. \A r \in rows : Sound(r)'
    BY <1>2 DEF DeliveryInv, QueueInv, Rows
  <2>2. \A r \in newRows : Sound(r)'
    BY <1>1 DEF Sound
  <2> QED BY <1>1, <2>1, <2>2 DEF DeliveryInv, QueueInv
<1>4. LogInv'
  <2>1. log \in Seq(Types) /\ log' \in Seq(Types) /\ Len(log') = Len(log) + 1
    BY <1>1, AppendProperties DEF DeliveryInv, LogInv
  <2>2. \A i \in DOMAIN log : log[i] # "delete"
    BY DEF DeliveryInv, LogInv
  <2>3. \A i \in DOMAIN log' : log'[i] = type \/ log'[i] # "delete"
    BY <1>1, <2>1, <2>2, SMT
  <2> QED BY <1>1, <2>1, <2>3 DEF LogInv
<1>5. NetInv'
  BY <1>1, <1>2 DEF DeliveryInv, NetInv, Requests
<1>6. PullInv'
  <2>1. \A i \in DOMAIN job.page : job.page[i] \in Events
    BY DEF DeliveryInv, PullInv, Jobs
  <2> QED BY <1>1, <1>2, <2>1 DEF DeliveryInv, PullInv, Events
<1>7. KeptInv'
  <2>1. \A i \in DOMAIN kept : kept[i] \in Events
    BY DEF DeliveryInv, KeptInv
  <2> QED BY <1>1, <1>2, <2>1 DEF DeliveryInv, KeptInv, Events
<1>8. CopyInv'
  BY <1>1, SMT DEF DeliveryInv, CopyInv, QueueInv, Copies
<1> QED BY <1>3, <1>4, <1>5, <1>6, <1>7, <1>8 DEF DeliveryInv

\* Nothing that is queued is beyond the author's text.
LEMMA QueuedRows ==
  ASSUME DeliveryInv, text.state = "live", NEW ver \in Nat, text.ver <= ver
  PROVE  /\ AfterUpdate(ver) \in SUBSET Rows
         /\ \A r \in AfterUpdate(ver) : r.ver <= ver /\ r.type # "delete"
<1>1. \A r \in rows : r \in Rows /\ r.ver <= ver /\ r.type # "delete"
  BY SMT DEF DeliveryInv, QueueInv, Sound, Rows, Messages
<1>2. NewRow("update", ver) \in Rows /\ NewRow("update", ver).ver = ver
      /\ NewRow("update", ver).type = "update"
  BY DEF NewRow, Rows, Types, DeliveryInv, QueueInv
<1>3. \A r \in rows : [r EXCEPT !.ver = ver] \in Rows
      /\ [r EXCEPT !.ver = ver].ver = ver /\ [r EXCEPT !.ver = ver].type = r.type
  BY <1>1 DEF Rows
<1>4. CASE \E r \in rows : Newest(r) /\ UnofferedCreate(r)
  <2>1. AfterUpdate(ver) = {IF Newest(r) THEN [r EXCEPT !.ver = ver] ELSE r : r \in rows}
    BY <1>4 DEF AfterUpdate
  <2>2. \A r \in rows : LET x == IF Newest(r) THEN [r EXCEPT !.ver = ver] ELSE r
                         IN  x \in Rows /\ x.ver <= ver /\ x.type # "delete"
    BY <1>1, <1>3
  <2> QED BY <2>1, <2>2, Zenon
<1>5. CASE ~ \E r \in rows : Newest(r) /\ UnofferedCreate(r)
  <2>1. AfterUpdate(ver) \subseteq rows \cup {NewRow("update", ver)}
    BY <1>5 DEF AfterUpdate, QueuedUpdate
  <2> QED BY <2>1, <1>1, <1>2
<1> QED BY <1>4, <1>5

\* The author's acts are the abstract author's.
LEMMA AuthorStep ==
  ASSUME DeliveryInv, Author
  PROVE  DeliveryInv' /\ AbstractStep
<1> USE DEF Messages, Types
<1>0. text \in Messages /\ nextId \in Nat
  BY DEF DeliveryInv, QueueInv
<1>1. CASE CreateMessage
  <2> DEFINE new == [text EXCEPT !.state = "live"]
  <2>1. Written("create", new, {NewRow("create", 0)}) /\ text.state = "none"
    BY <1>1 DEF CreateMessage
  <2>2. new \in Messages /\ new.state = "live" /\ new.ver = text.ver
    BY <1>0
  <2>3. {NewRow("create", 0)} \in SUBSET Rows
        /\ \A r \in {NewRow("create", 0)} : r.ver = 0 /\ r.type = "create"
    BY <1>0 DEF NewRow, Rows
  <2>4. DeliveryInv'
    <3> HIDE DEF new
    <3> QED BY <2>1, <2>2, <2>3, <1>0, WrittenKeeps
  <2>5. R!Write
    BY <2>1 DEF R!Write, Written, Shown, replica
  <2> QED BY <2>4, <2>5 DEF AbstractStep, R!Next
<1>2. CASE EditMessage
  <2> DEFINE new == [text EXCEPT !.ver = @ + 1]
  <2>1. Written("update", new, AfterUpdate(text.ver + 1)) /\ text.state = "live"
    BY <1>2 DEF EditMessage
  <2>2. new \in Messages /\ new.state = "live" /\ new.ver = text.ver + 1
        /\ text.ver + 1 \in Nat /\ text.ver <= text.ver + 1
    BY <1>0, <2>1
  <2>3. AfterUpdate(text.ver + 1) \in SUBSET Rows
        /\ \A r \in AfterUpdate(text.ver + 1) : r.ver <= text.ver + 1 /\ r.type # "delete"
    BY <2>1, <2>2, QueuedRows
  <2>4. DeliveryInv'
    <3> HIDE DEF new
    <3> QED BY <2>1, <2>2, <2>3, <1>0, WrittenKeeps
  <2>5. R!Write
    BY <2>1 DEF R!Write, Written, Shown, replica
  <2> QED BY <2>4, <2>5 DEF AbstractStep, R!Next
<1>3. CASE DeleteMessage
  <2> DEFINE new == [text EXCEPT !.state = "deleted"]
  <2>1. Written("delete", new, AfterDelete) /\ text.state = "live"
    BY <1>3 DEF DeleteMessage
  <2>2. new \in Messages /\ new.state = "deleted" /\ new.ver = text.ver /\ text.ver \in Nat
    BY <1>0, <2>1
  <2>3. AfterDelete \in SUBSET Rows /\ \A r \in AfterDelete : r.ver = text.ver
    BY <1>0, <2>2 DEF AfterDelete, NewRow, Rows
  <2>4. DeliveryInv'
    <3> HIDE DEF new
    <3> QED BY <2>1, <2>2, <2>3, <1>0, WrittenKeeps
  <2>5. R!Write
    BY <2>1 DEF R!Write, Written, Shown, replica
  <2> QED BY <2>4, <2>5 DEF AbstractStep, R!Next
<1> QED BY <1>1, <1>2, <1>3 DEF Author

\* Whatever a handler makes of a sound event, and of an insertion it did not
\* have to wait for, is a step of the abstract replica.
LEMMA HandledSoundly ==
  ASSUME QueueInv, CopyInv, NEW e, e.type \in Types, e.ver \in Nat, Sound(e),
         Take(Processed(e)), UNCHANGED text
  PROVE  CopyInv' /\ AbstractStep
<1> USE DEF Messages
<1>0. text \in Messages /\ text.ver \in Nat /\ copy \in Copies /\ tomb \in BOOLEAN
  BY DEF QueueInv, CopyInv
<1>1. CASE UNCHANGED <<copy, tomb>>
  BY <1>1 DEF CopyInv, AbstractStep, Shown
<1>2. CASE copy' \in Copies /\ copy'.held /\ copy'.ver = e.ver /\ tomb' = tomb /\ ~tomb
  <2>2. CopyInv'
    BY <1>0, <1>2 DEF CopyInv, Sound
  <2>3. Shown' = R!Held(e.ver) /\ Shown # R!Gone /\ e.ver \in 0 .. text.ver
    <3>1. Shown' = [at |-> "held", ver |-> e.ver]
      BY <1>2 DEF Shown
    <3>2. Shown # [at |-> "gone", ver |-> 0]
      <4>1. Shown.at # "gone"
        BY <1>2 DEF Shown
      <4> QED BY <4>1
    <3>3. e.ver \in 0 .. text.ver
      BY <1>0 DEF Sound
    <3> QED BY <3>1, <3>2, <3>3 DEF R!Held, R!Gone
  <2>4. R!Show
    BY <2>3 DEF R!Show, Sound
  <2> QED BY <2>2, <2>4 DEF AbstractStep, R!Next
<1>3. CASE copy' = NoCopy /\ tomb' = TRUE /\ e.type = "delete"
  <2>1. CopyInv'
    BY <1>0, <1>3 DEF CopyInv, Sound, NoCopy, Copies
  <2>2. Shown' = R!Gone
    BY <1>3 DEF Shown, R!Gone, NoCopy
  <2>3. R!Remove
    BY <1>3, <2>2 DEF R!Remove, Sound
  <2> QED BY <2>1, <2>3 DEF AbstractStep, R!Next
<1>4. UNCHANGED <<copy, tomb>> \/ <1>2!1 \/ <1>3!1
  <2>1. CASE e.type = "create"
    <3>1. Processed(e) = ProcessCreate(e)
      BY <2>1 DEF Processed
    <3>2. copy' = ProcessCreate(e).copy /\ tomb' = ProcessCreate(e).tomb
      BY <3>1 DEF Take
    <3>3. \/ ProcessCreate(e).copy = copy /\ ProcessCreate(e).tomb = tomb
          \/ ProcessCreate(e) = Store(e.ver, 0) /\ ~tomb
      BY DEF ProcessCreate, InsertMessage, PassesChecks, Answer
    <3>4. CASE ProcessCreate(e) = Store(e.ver, 0) /\ ~tomb
      BY <3>2, <3>4 DEF Store, Copies
    <3> QED BY <3>2, <3>3, <3>4
  <2>2. CASE e.type = "update"
    <3>1. Processed(e) = ProcessUpdate(e)
      BY <2>2 DEF Processed
    <3>2. copy' = ProcessUpdate(e).copy /\ tomb' = ProcessUpdate(e).tomb
      BY <3>1 DEF Take
    <3>3. \/ ProcessUpdate(e).copy = copy /\ ProcessUpdate(e).tomb = tomb
          \/ ProcessUpdate(e) = Store(e.ver, e.ver) /\ ~tomb
      BY DEF ProcessUpdate, CopyInv, Answer
    <3>4. CASE ProcessUpdate(e) = Store(e.ver, e.ver) /\ ~tomb
      BY <3>2, <3>4 DEF Store, Copies
    <3> QED BY <3>2, <3>3, <3>4
  <2>3. CASE e.type = "delete"
    <3>1. Processed(e) = ProcessDelete(e)
      BY <2>3 DEF Processed
    <3>2. copy' = ProcessDelete(e).copy /\ tomb' = ProcessDelete(e).tomb
      BY <3>1 DEF Take
    <3> QED BY <2>3, <3>2 DEF ProcessDelete, Answer
  <2> QED BY <2>1, <2>2, <2>3 DEF Types
<1> QED BY <1>1, <1>2, <1>3, <1>4

\* A step that leaves the text alone leaves every part of the invariant alone
\* whose variables it leaves alone.
LEMMA TextKept ==
  ASSUME DeliveryInv, UNCHANGED text
  PROVE  /\ \A e : Sound(e) => Sound(e)'
         /\ UNCHANGED <<rows, nextId>> => QueueInv'
         /\ UNCHANGED log => LogInv'
         /\ UNCHANGED net => NetInv'
         /\ UNCHANGED <<cursor, job>> => PullInv'
         /\ UNCHANGED kept => KeptInv'
         /\ UNCHANGED <<copy, tomb>> => CopyInv' /\ AbstractStep
<1>1. \A e : Sound(e) => Sound(e)'
  BY DEF Sound
<1>2. UNCHANGED <<rows, nextId>> => QueueInv'
  BY <1>1 DEF DeliveryInv, QueueInv
<1>3. UNCHANGED log => LogInv'
  BY DEF DeliveryInv, LogInv
<1>4. UNCHANGED net => NetInv'
  BY <1>1 DEF DeliveryInv, NetInv
<1>5. UNCHANGED <<cursor, job>> => PullInv'
  BY <1>1 DEF DeliveryInv, PullInv
<1>6. UNCHANGED kept => KeptInv'
  BY <1>1 DEF DeliveryInv, KeptInv
<1>7. UNCHANGED <<copy, tomb>> => CopyInv' /\ AbstractStep
  BY DEF DeliveryInv, CopyInv, AbstractStep, Shown
<1> QED BY <1>1, <1>2, <1>3, <1>4, <1>5, <1>6, <1>7

\* The worker sends what is queued and deletes what is answered for.
LEMMA WorkerStep ==
  ASSUME DeliveryInv, Worker
  PROVE  DeliveryInv' /\ AbstractStep
<1> USE DEF source, replica, puller, place, lapses, wire
<1>1. CASE SendHead
  <2>1. PICK r \in rows :
          /\ rows' = (rows \ {r}) \cup {[r EXCEPT !.offered = TRUE]}
          /\ net' = net \cup {[id |-> r.id, type |-> r.type, ver |-> r.ver,
                               live |-> TRUE, stage |-> "transit"]}
    BY <1>1 DEF SendHead, Oldest
  <2>2. UNCHANGED <<text, nextId, log, copy, tomb, cursor, job, kept>>
    BY <1>1 DEF SendHead
  <2> DEFINE sent == [id |-> r.id, type |-> r.type, ver |-> r.ver,
                      live |-> TRUE, stage |-> "transit"]
             kept1 == [r EXCEPT !.offered = TRUE]
  <2>3. r \in Rows /\ Sound(r)
    BY DEF DeliveryInv, QueueInv
  <2>4. kept1 \in Rows /\ Sound(kept1)'
    BY <2>2, <2>3 DEF Rows, Sound
  <2>5. sent \in Requests /\ Sound(sent)' /\ sent.stage = "transit"
    BY <2>2, <2>3 DEF Rows, Requests, Sound
  <2>6. QueueInv'
    <3> HIDE DEF kept1
    <3>1. rows' = (rows \ {r}) \cup {kept1}
      BY <2>1 DEF kept1
    <3> QED BY <3>1, <2>2, <2>4, TextKept DEF DeliveryInv, QueueInv
  <2>7. NetInv'
    <3> HIDE DEF sent
    <3>1. net' = net \cup {sent}
      BY <2>1 DEF sent
    <3> QED BY <3>1, <2>2, <2>5, TextKept DEF DeliveryInv, NetInv
  <2> QED BY <2>2, <2>6, <2>7, TextKept DEF DeliveryInv
<1>2. CASE SettleAnswer
  <2>1. rows' \subseteq rows /\ UNCHANGED <<text, nextId, log, net, copy, tomb, cursor, job, kept>>
    BY <1>2 DEF SettleAnswer, Settled
  <2>2. QueueInv'
    BY <2>1, TextKept DEF DeliveryInv, QueueInv
  <2> QED BY <2>1, <2>2, TextKept DEF DeliveryInv
<1>3. CASE TimeOut
  BY <1>3, TextKept DEF TimeOut, DeliveryInv
<1>4. CASE Abandon
  <2>1. /\ net' = {[m EXCEPT !.live = FALSE] : m \in net}
        /\ UNCHANGED <<text, rows, nextId, log, copy, tomb, cursor, job, kept>>
    BY <1>4 DEF Abandon
  <2>2. \A m \in net : [m EXCEPT !.live = FALSE] \in Requests
          /\ [m EXCEPT !.live = FALSE].stage = "transit" /\ Sound([m EXCEPT !.live = FALSE])
    BY DEF DeliveryInv, NetInv, Requests, Sound
  <2>3. NetInv'
    BY <2>1, <2>2, TextKept DEF NetInv
  <2> QED BY <2>1, <2>3, TextKept DEF DeliveryInv
<1>5. CASE LoseRequest
  <2>1. net' \subseteq net
        /\ UNCHANGED <<text, rows, nextId, log, copy, tomb, cursor, job, kept>>
    BY <1>5 DEF LoseRequest
  <2>2. NetInv'
    BY <2>1, TextKept DEF DeliveryInv, NetInv
  <2> QED BY <2>1, <2>2, TextKept DEF DeliveryInv
<1>6. CASE ExpireRow
  <2>1. rows' \subseteq rows /\ UNCHANGED <<text, nextId, log, net, copy, tomb, cursor, job, kept>>
    BY <1>6 DEF ExpireRow
  <2>2. QueueInv'
    BY <2>1, TextKept DEF DeliveryInv, QueueInv
  <2> QED BY <2>1, <2>2, TextKept DEF DeliveryInv
<1> QED BY <1>1, <1>2, <1>3, <1>4, <1>5, <1>6 DEF Worker

\* The live relay hands the handlers what was sent, late or repeated.
LEMMA RelayStep ==
  ASSUME ~Hydrates, DeliveryInv, Relay
  PROVE  DeliveryInv' /\ AbstractStep
<1> USE DEF source, puller, place, lapses
<1>1. PICK m \in net : Reply(m, Processed(m))
  <2>1. ~StartHydration
    BY DEF StartHydration, MayHydrate
  <2>2. ~FinishHydration
    BY DEF FinishHydration, DeliveryInv, NetInv
  <2> QED BY <2>1, <2>2 DEF Relay, Receive
<1>2. net' \subseteq net /\ Take(Processed(m))
      /\ UNCHANGED <<text, rows, nextId, log, cursor, job, kept>>
  BY <1>1 DEF Reply
<1>3. m.type \in Types /\ m.ver \in Nat /\ Sound(m)
  BY DEF DeliveryInv, NetInv, Requests
<1>4. CopyInv' /\ AbstractStep
  BY <1>2, <1>3, HandledSoundly DEF DeliveryInv
<1>5. NetInv'
  BY <1>2, TextKept DEF DeliveryInv, NetInv
<1> QED BY <1>2, <1>4, <1>5, TextKept DEF DeliveryInv

\* The log never serves more than the author has made of the message.
LEMMA PageServed ==
  ASSUME DeliveryInv, NEW since \in Nat, NEW upTo \in since .. Len(log), ReadPage(since, upTo)
  PROVE  DeliveryInv' /\ AbstractStep
<1> USE DEF replica, wire, place, lapses
<1> DEFINE page == [i \in 1 .. upTo - since |-> Served(since + i)]
<1>1. /\ job' = [kind |-> "pull", upTo |-> upTo, hydrating |-> FALSE, page |-> page]
      /\ rows' = {[r EXCEPT !.offered = TRUE] : r \in rows}
      /\ UNCHANGED <<text, nextId, log, net, copy, tomb, cursor, kept>>
  BY DEF ReadPage
<1>2. QueueInv'
  <2>1. \A r \in rows : [r EXCEPT !.offered = TRUE] \in Rows /\ Sound([r EXCEPT !.offered = TRUE])
    BY DEF DeliveryInv, QueueInv, Rows, Sound
  <2> QED BY <1>1, <2>1, TextKept DEF DeliveryInv, QueueInv
<1>3. \A i \in 1 .. upTo - since :
        Served(since + i) \in Events
          /\ (Served(since + i).type # "none" => Sound(Served(since + i)))
  <2> SUFFICES ASSUME NEW i \in 1 .. upTo - since
               PROVE  Served(since + i) \in Events
                        /\ (Served(since + i).type # "none" => Sound(Served(since + i)))
    OBVIOUS
  <2>1. log \in Seq(Types) /\ Len(log) \in Nat /\ upTo \in Nat
    BY DEF DeliveryInv, LogInv
  <2>2. since + i \in DOMAIN log /\ since + i \in Nat
    BY <2>1
  <2>3. log[since + i] \in Types /\ text.state # "none" /\ text.ver \in Nat
        /\ (log[since + i] = "delete" => text.state = "deleted")
    BY <2>1, <2>2 DEF DeliveryInv, LogInv, QueueInv, Messages
  <2> HIDE DEF Served
  <2>4. Served(since + i) \in Events
    BY <2>2, <2>3 DEF Served, Events, Types
  <2>5. Served(since + i).type # "none" => Sound(Served(since + i))
    BY <2>2, <2>3 DEF Served, Sound, Types
  <2> QED BY <2>4, <2>5
<1>4. page \in Seq(Events) /\ DOMAIN page = 1 .. upTo - since
  <2>1. upTo - since \in Nat
    BY DEF DeliveryInv, LogInv
  <2>2. page \in [1 .. upTo - since -> Events]
    BY <1>3
  <2> HIDE DEF page
  <2> QED BY <2>1, <2>2, IsASeq
<1>5. PullInv'
  <2>1. job' \in Jobs
    <3> HIDE DEF page
    <3>1. upTo \in Nat
      BY DEF DeliveryInv, LogInv
    <3> QED BY <1>1, <1>4, <3>1 DEF Jobs
  <2>2. \A i \in DOMAIN page : page[i].type # "none" => Sound(page[i])
    BY <1>3, <1>4
  <2>3. job'.page = page /\ ~job'.hydrating /\ UNCHANGED <<cursor, text>>
    BY <1>1
  <2> HIDE DEF page
  <2> QED BY <2>1, <2>2, <2>3 DEF PullInv, DeliveryInv, Sound
<1> QED BY <1>1, <1>2, <1>5, TextKept DEF DeliveryInv

\* The head of a page is served and sound, and so is what is left of it.
LEMMA PageHead ==
  ASSUME DeliveryInv, InPage
  PROVE  /\ Head(job.page) \in Events
         /\ Head(job.page).type # "none" => Sound(Head(job.page))
         /\ UNCHANGED text /\ cursor' = cursor /\ job' = NextInPage => PullInv'
<1>1. job \in Jobs /\ job.page \in Seq(Events) /\ job.page # <<>>
  BY DEF DeliveryInv, PullInv, Jobs, InPage
<1>2. /\ Head(job.page) = job.page[1] /\ 1 \in DOMAIN job.page
      /\ Tail(job.page) \in Seq(Events)
      /\ \A i \in DOMAIN Tail(job.page) : i + 1 \in DOMAIN job.page
           /\ Tail(job.page)[i] = job.page[i + 1]
  BY <1>1, HeadTailProperties
<1>3. ASSUME UNCHANGED text, cursor' = cursor, job' = NextInPage
      PROVE  PullInv'
  <2>1. NextInPage \in Jobs /\ NextInPage.page = Tail(job.page) /\ ~NextInPage.hydrating
    BY <1>1, <1>2 DEF NextInPage, Jobs
  <2>2. \A i \in DOMAIN Tail(job.page) :
          Tail(job.page)[i].type # "none" => Sound(Tail(job.page)[i])
    BY <1>2 DEF DeliveryInv, PullInv
  <2> QED BY <1>3, <2>1, <2>2, TextKept DEF DeliveryInv, PullInv
<1>4. Head(job.page) \in Events
  BY <1>1, <1>2
<1>5. Head(job.page).type # "none" => Sound(Head(job.page))
  BY <1>2 DEF DeliveryInv, PullInv
<1> QED BY <1>3, <1>4, <1>5

\* Keeping an event puts it behind those the log has before it, if it is not
\* kept yet.
LEMMA KeepPlaces ==
  ASSUME kept \in Seq(Events), NEW e \in Events, Keep(e)
  PROVE  \/ kept' = kept /\ \E i \in DOMAIN kept : kept[i] = e
         \/ \E p \in 0 .. Len(kept) :
              /\ \A i \in DOMAIN kept : i <= p <=> kept[i].at <= e.at
              /\ kept' \in Seq(Events) /\ Len(kept') = Len(kept) + 1
              /\ \A i \in 1 .. Len(kept) + 1 :
                   kept'[i] = IF i <= p THEN kept[i] ELSE IF i = p + 1 THEN e ELSE kept[i - 1]
<1>1. CASE \E i \in DOMAIN kept : kept[i] = e
  BY <1>1 DEF Keep
<1>2. CASE ~ \E i \in DOMAIN kept : kept[i] = e
  <2>1. PICK p \in 0 .. Len(kept) :
          /\ \A i \in DOMAIN kept : i <= p <=> kept[i].at <= e.at
          /\ kept' = SubSeq(kept, 1, p) \o <<e>> \o SubSeq(kept, p + 1, Len(kept))
    BY <1>2 DEF Keep
  <2> DEFINE before == SubSeq(kept, 1, p)
             after == SubSeq(kept, p + 1, Len(kept))
  <2>2. Len(kept) \in Nat
    OBVIOUS
  <2>3. before \in Seq(Events) /\ Len(before) = p
        /\ \A i \in 1 .. Len(before) : before[i] = kept[i]
    BY <2>2, SubSeqProperties
  <2>4. after \in Seq(Events) /\ Len(after) = Len(kept) - p
        /\ \A i \in 1 .. Len(after) : after[i] = kept[p + i]
    BY <2>2, SubSeqProperties
  <2> HIDE DEF before, after
  <2> DEFINE front == before \o <<e>>
  <2>5. kept' = front \o after
    BY <2>1 DEF before, after
  <2>6. <<e>> \in Seq(Events) /\ Len(<<e>>) = 1 /\ <<e>>[1] = e
    OBVIOUS
  <2>7. front \in Seq(Events) /\ Len(front) = Len(before) + 1
        /\ \A i \in 1 .. Len(before) + 1 :
             front[i] = IF i <= Len(before) THEN before[i] ELSE e
    BY <2>3, <2>6
  <2> HIDE DEF front
  <2>8. /\ kept' \in Seq(Events) /\ Len(kept') = Len(front) + Len(after)
        /\ \A i \in 1 .. Len(front) + Len(after) :
             kept'[i] = IF i <= Len(front) THEN front[i] ELSE after[i - Len(front)]
    BY <2>5, <2>7, <2>4, ConcatProperties
  <2>9. ASSUME NEW i \in 1 .. Len(kept) + 1
        PROVE  kept'[i] = IF i <= p THEN kept[i] ELSE IF i = p + 1 THEN e ELSE kept[i - 1]
    <3>1. i \in 1 .. Len(front) + Len(after) /\ Len(front) = p + 1
      BY <2>2, <2>3, <2>4, <2>7
    <3>2. CASE i <= p
      BY <2>3, <2>7, <2>8, <3>1, <3>2
    <3>3. CASE i = p + 1
      BY <2>3, <2>7, <2>8, <3>1, <3>3
    <3>4. CASE i > p + 1
      <4>1. i - Len(front) \in 1 .. Len(after) /\ p + (i - Len(front)) = i - 1
        BY <2>2, <2>4, <3>1, <3>4
      <4> QED BY <2>4, <2>8, <3>1, <3>4, <4>1
    <3> QED BY <2>2, <3>2, <3>3, <3>4
  <2>10. Len(kept') = Len(kept) + 1
    BY <2>2, <2>3, <2>4, <2>7, <2>8
  <2> QED BY <2>1, <2>8, <2>9, <2>10
<1> QED BY <1>1, <1>2

\* Keeping an event adds that event, and no other.
LEMMA KeepAddsOne ==
  ASSUME kept \in Seq(Events), NEW e \in Events, Keep(e)
  PROVE  /\ kept' \in Seq(Events)
         /\ \A i \in DOMAIN kept' : kept'[i] = e \/ \E k \in DOMAIN kept : kept'[i] = kept[k]
<1>1. CASE kept' = kept
  BY <1>1
<1>2. CASE \E p \in 0 .. Len(kept) :
             /\ kept' \in Seq(Events) /\ Len(kept') = Len(kept) + 1
             /\ \A i \in 1 .. Len(kept) + 1 :
                  kept'[i] = IF i <= p THEN kept[i] ELSE IF i = p + 1 THEN e ELSE kept[i - 1]
  <2>1. PICK p \in 0 .. Len(kept) :
          /\ kept' \in Seq(Events) /\ Len(kept') = Len(kept) + 1
          /\ \A i \in 1 .. Len(kept) + 1 :
               kept'[i] = IF i <= p THEN kept[i] ELSE IF i = p + 1 THEN e ELSE kept[i - 1]
    BY <1>2
  <2>2. ASSUME NEW i \in DOMAIN kept'
        PROVE  kept'[i] = e \/ \E k \in DOMAIN kept : kept'[i] = kept[k]
    <3>1. i \in 1 .. Len(kept) + 1 /\ Len(kept) \in Nat
      BY <2>1
    <3>2. i <= p => i \in DOMAIN kept
      BY <3>1
    <3>3. i > p + 1 => i - 1 \in DOMAIN kept
      BY <3>1
    <3> QED BY <2>1, <3>1, <3>2, <3>3
  <2> QED BY <2>1, <2>2
<1> QED BY <1>1, <1>2, KeepPlaces

\* What was kept stays kept, the event is kept with it, and the order of the log
\* is kept.
LEMMA KeepOrders ==
  ASSUME kept \in Seq(Events), NEW e \in Events, Keep(e)
  PROVE  /\ \E i \in DOMAIN kept' : kept'[i] = e
         /\ \A k \in DOMAIN kept : \E i \in DOMAIN kept' : kept'[i] = kept[k]
         /\ (\A i, j \in DOMAIN kept : i <= j => kept[i].at <= kept[j].at)
              => \A i, j \in DOMAIN kept' : i <= j => kept'[i].at <= kept'[j].at
<1>1. CASE kept' = kept /\ \E i \in DOMAIN kept : kept[i] = e
  BY <1>1
<1>2. CASE \E p \in 0 .. Len(kept) :
             /\ \A i \in DOMAIN kept : i <= p <=> kept[i].at <= e.at
             /\ kept' \in Seq(Events) /\ Len(kept') = Len(kept) + 1
             /\ \A i \in 1 .. Len(kept) + 1 :
                  kept'[i] = IF i <= p THEN kept[i] ELSE IF i = p + 1 THEN e ELSE kept[i - 1]
  <2>1. PICK p \in 0 .. Len(kept) :
          /\ \A i \in DOMAIN kept : i <= p <=> kept[i].at <= e.at
          /\ kept' \in Seq(Events) /\ Len(kept') = Len(kept) + 1
          /\ \A i \in 1 .. Len(kept) + 1 :
               kept'[i] = IF i <= p THEN kept[i] ELSE IF i = p + 1 THEN e ELSE kept[i - 1]
    BY <1>2
  <2>2. Len(kept) \in Nat /\ DOMAIN kept = 1 .. Len(kept) /\ DOMAIN kept' = 1 .. Len(kept) + 1
        /\ e.at \in Nat /\ \A i \in DOMAIN kept : kept[i].at \in Nat
    <3>1. Len(kept) \in Nat /\ DOMAIN kept = 1 .. Len(kept)
      OBVIOUS
    <3>2. DOMAIN kept' = 1 .. Len(kept) + 1
      BY <2>1, <3>1
    <3>3. e.at \in Nat /\ \A i \in DOMAIN kept : kept[i].at \in Nat
      <4>1. \A i \in DOMAIN kept : kept[i] \in Events
        OBVIOUS
      <4> QED BY <4>1 DEF Events
    <3> QED BY <3>1, <3>2, <3>3
  <2>3. p + 1 \in DOMAIN kept' /\ kept'[p + 1] = e
    BY <2>1, <2>2
  <2>4. ASSUME NEW k \in DOMAIN kept
        PROVE  \E i \in DOMAIN kept' : kept'[i] = kept[k]
    <3>1. CASE k <= p
      <4>1. k \in DOMAIN kept' /\ kept'[k] = kept[k]
        BY <2>1, <2>2, <3>1
      <4> QED BY <4>1
    <3>2. CASE k > p
      <4>1. k + 1 \in DOMAIN kept' /\ kept'[k + 1] = kept[k]
        BY <2>1, <2>2, <3>2
      <4> QED BY <4>1
    <3> QED BY <2>2, <3>1, <3>2
  <2>5. ASSUME \A i, j \in DOMAIN kept : i <= j => kept[i].at <= kept[j].at,
               NEW i \in DOMAIN kept', NEW j \in DOMAIN kept', i <= j
        PROVE  kept'[i].at <= kept'[j].at
    <3>1. /\ i <= p => i \in DOMAIN kept /\ kept'[i] = kept[i] /\ kept[i].at <= e.at
          /\ i = p + 1 => kept'[i] = e
          /\ i > p + 1 => i - 1 \in DOMAIN kept /\ kept'[i] = kept[i - 1] /\ e.at < kept[i - 1].at
      <4>1. i > p + 1 => i - 1 \in DOMAIN kept
        BY <2>2
      <4> QED BY <2>1, <2>2, <4>1
    <3>2. /\ j <= p => j \in DOMAIN kept /\ kept'[j] = kept[j] /\ kept[j].at <= e.at
          /\ j = p + 1 => kept'[j] = e
          /\ j > p + 1 => j - 1 \in DOMAIN kept /\ kept'[j] = kept[j - 1] /\ e.at < kept[j - 1].at
      <4>1. j > p + 1 => j - 1 \in DOMAIN kept
        BY <2>2
      <4> QED BY <2>1, <2>2, <4>1
    <3>3. i \in Nat /\ j \in Nat /\ p \in Nat
      BY <2>2
    <3>4. CASE j <= p
      BY <2>2, <2>5, <3>1, <3>2, <3>3, <3>4
    <3>5. CASE j = p + 1
      BY <2>2, <2>5, <3>1, <3>2, <3>3, <3>5
    <3>6. CASE j > p + 1 /\ i > p + 1
      BY <2>2, <2>5, <3>1, <3>2, <3>3, <3>6
    <3>7. CASE j > p + 1 /\ i <= p + 1
      BY <2>2, <2>5, <3>1, <3>2, <3>3, <3>7
    <3> QED BY <3>3, <3>4, <3>5, <3>6, <3>7
  <2> QED BY <2>3, <2>4, <2>5
<1> QED BY <1>1, <1>2, KeepPlaces

\* What is kept was served, and is as sound as it was.
LEMMA KeepsSound ==
  ASSUME DeliveryInv, UNCHANGED text, NEW e \in Events, e.type # "none", Sound(e), Keep(e)
  PROVE  KeptInv'
<1>1. /\ kept' \in Seq(Events)
      /\ \A i \in DOMAIN kept' : kept'[i] = e \/ \E k \in DOMAIN kept : kept'[i] = kept[k]
  BY KeepAddsOne DEF DeliveryInv, KeptInv
<1>2. \A i \in DOMAIN kept : kept[i].type # "none" /\ Sound(kept[i])
  BY DEF DeliveryInv, KeptInv
<1>3. \A i \in DOMAIN kept' : kept'[i].type # "none" /\ Sound(kept'[i])
  BY <1>1, <1>2
<1> QED BY <1>1, <1>3 DEF KeptInv, Sound

\* A pull hands the handlers what was served, or keeps it for later.
LEMMA PullStep ==
  ASSUME ~Hydrates, DeliveryInv, Pull
  PROVE  DeliveryInv' /\ AbstractStep
<1> USE DEF source, replica, wire, place, lapses
<1>0. cursor \in Nat /\ Len(log) \in Nat /\ job \in Jobs
  BY DEF DeliveryInv, PullInv, LogInv
<1>1. CASE PullPage
  <2>1. PICK since \in 0 .. cursor : \E upTo \in since .. Len(log) : ReadPage(since, upTo)
    BY <1>1 DEF PullPage
  <2>2. since \in Nat
    BY <1>0
  <2> QED BY <2>1, <2>2, PageServed
<1>2. CASE SkipRow
  <2>1. InPage /\ job' = NextInPage
        /\ UNCHANGED <<text, rows, nextId, log, net, copy, tomb, cursor, kept>>
    BY <1>2 DEF SkipRow
  <2> QED BY <2>1, PageHead, TextKept DEF DeliveryInv
<1>3. CASE HoldBehindKept
  <2>1. InPage /\ job' = NextInPage /\ Keep(Head(job.page)) /\ Head(job.page).type # "none"
        /\ UNCHANGED <<text, rows, nextId, log, net, copy, tomb, cursor>>
    BY <1>3 DEF HoldBehindKept
  <2>2. KeptInv'
    BY <2>1, PageHead, KeepsSound
  <2> QED BY <2>1, <2>2, PageHead, TextKept DEF DeliveryInv
<1>4. CASE ApplyPulled
  <2> DEFINE e == Head(job.page)
  <2>1. InPage /\ job' = NextInPage /\ e.type # "none" /\ Take(Processed(e))
        /\ (Keep(e) \/ UNCHANGED kept)
        /\ UNCHANGED <<text, rows, nextId, log, net, cursor>>
    BY <1>4 DEF ApplyPulled, AppliedInPage
  <2>2. e \in Events /\ Sound(e) /\ PullInv'
    BY <2>1, PageHead
  <2>3. e.type \in Types /\ e.ver \in Nat
    BY <2>1, <2>2 DEF Events
  <2> HIDE DEF e
  <2>4. KeptInv'
    BY <2>1, <2>2, KeepsSound, TextKept
  <2>5. CopyInv' /\ AbstractStep
    BY <2>1, <2>2, <2>3, HandledSoundly DEF DeliveryInv
  <2> QED BY <2>1, <2>2, <2>4, <2>5, TextKept DEF DeliveryInv
<1>5. CASE EndPage
  <2>1. cursor' \in Nat /\ job' = NoJob
        /\ UNCHANGED <<text, rows, nextId, log, net, copy, tomb, kept>>
    BY <1>0, <1>5 DEF EndPage, Jobs
  <2>2. PullInv'
    BY <2>1 DEF PullInv, NoJob, Jobs
  <2> QED BY <2>1, <2>2, TextKept DEF DeliveryInv
<1>6. ~SuspendPulled /\ ~FinishPulled
  BY DEF SuspendPulled, FinishPulled, MayHydrate, DeliveryInv, PullInv
<1> QED BY <1>1, <1>2, <1>3, <1>4, <1>5, <1>6 DEF Pull

\* A retry run hands the handlers what was kept, and keeps no more.
LEMMA RetryStep ==
  ASSUME ~Hydrates, DeliveryInv, Retry
  PROVE  DeliveryInv' /\ AbstractStep
<1> USE DEF source, wire, place, lapses, replica
<1>1. ASSUME kept # <<>>, UNCHANGED text, kept' \in {kept, Tail(kept)}
      PROVE  KeptInv' /\ kept[1] \in Events /\ kept[1].type # "none" /\ Sound(kept[1])
             /\ Head(kept) = kept[1]
  <2>1. kept \in Seq(Events) /\ Tail(kept) \in Seq(Events) /\ 1 \in DOMAIN kept
        /\ Head(kept) = kept[1]
        /\ \A i \in DOMAIN Tail(kept) : i + 1 \in DOMAIN kept /\ Tail(kept)[i] = kept[i + 1]
    BY <1>1, HeadTailProperties DEF DeliveryInv, KeptInv
  <2>2. \A i \in DOMAIN kept : kept[i] \in Events /\ kept[i].type # "none" /\ Sound(kept[i])
    BY DEF DeliveryInv, KeptInv
  <2>3. CASE kept' = kept
    BY <1>1, <2>1, <2>2, <2>3, TextKept
  <2>4. CASE kept' = Tail(kept)
    <3>1. \A i \in DOMAIN kept' : kept'[i].type # "none" /\ Sound(kept'[i])
      BY <2>1, <2>2, <2>4
    <3>2. KeptInv'
      BY <1>1, <2>1, <2>4, <3>1 DEF KeptInv, Sound
    <3> QED BY <2>1, <2>2, <3>2
  <2> QED BY <1>1, <2>3, <2>4
<1>2. ASSUME job' = AfterKept, cursor' = cursor, UNCHANGED text PROVE PullInv'
  <2>1. job' \in Jobs /\ ~job'.hydrating /\ job'.page = <<>>
    <3>1. NoJob \in Jobs /\ ~NoJob.hydrating /\ NoJob.page = <<>>
      BY DEF NoJob, Jobs
    <3>2. CASE job' = NoJob
      BY <3>1, <3>2
    <3>3. CASE job' = [NoJob EXCEPT !.kind = "retry"]
      BY <3>1, <3>3 DEF Jobs
    <3> QED BY <1>2, <3>2, <3>3 DEF AfterKept
  <2> QED BY <1>2, <2>1 DEF PullInv, DeliveryInv
<1>3. CASE RetryKept
  <2> DEFINE e == Head(kept)
  <2>1. /\ kept # <<>> /\ Take(Processed(e)) /\ job' = AfterKept
        /\ kept' \in {kept, Tail(kept)}
        /\ UNCHANGED <<text, rows, nextId, log, net, cursor>>
    BY <1>3 DEF RetryKept, MayRetry, Retried, AfterRetry
  <2>2. KeptInv' /\ PullInv' /\ e \in Events /\ e.type # "none" /\ Sound(e)
    BY <1>1, <1>2, <2>1
  <2>3. e.type \in Types /\ e.ver \in Nat
    BY <2>2 DEF Events
  <2> HIDE DEF e
  <2>4. CopyInv' /\ AbstractStep
    BY <2>1, <2>2, <2>3, HandledSoundly DEF DeliveryInv
  <2> QED BY <2>1, <2>2, <2>4, TextKept DEF DeliveryInv
<1>4. CASE DropKept
  <2>1. /\ kept # <<>> /\ job' = AfterKept /\ kept' = Tail(kept)
        /\ UNCHANGED <<text, rows, nextId, log, net, copy, tomb, cursor>>
    BY <1>4 DEF DropKept, MayRetry
  <2>2. KeptInv' /\ PullInv'
    BY <1>1, <1>2, <2>1
  <2> QED BY <2>1, <2>2, TextKept DEF DeliveryInv
<1>5. ~SuspendKept /\ ~FinishKept
  BY DEF SuspendKept, FinishKept, MayHydrate, DeliveryInv, PullInv
<1> QED BY <1>3, <1>4, <1>5 DEF Retry

\* A restart of the receiver forgets what it was doing, and nothing it stored.
LEMMA SurroundingsStep ==
  ASSUME DeliveryInv, BecomeReady \/ StopReceiver
  PROVE  DeliveryInv' /\ AbstractStep
<1> USE DEF source, replica, wire, puller, lapses, place
<1>1. CASE BecomeReady
  BY <1>1, TextKept DEF BecomeReady, DeliveryInv
<1>2. CASE StopReceiver
  <2>1. job' = NoJob /\ net' \subseteq net
        /\ UNCHANGED <<text, rows, nextId, log, copy, tomb, cursor, kept>>
    BY <1>2 DEF StopReceiver
  <2>2. PullInv'
    BY <2>1 DEF PullInv, NoJob, Jobs, DeliveryInv
  <2>3. NetInv'
    BY <2>1, TextKept DEF DeliveryInv, NetInv
  <2> QED BY <2>1, <2>2, <2>3, TextKept DEF DeliveryInv
<1> QED BY <1>1, <1>2

LEMMA DeliveryStep ==
  ASSUME ~Hydrates, DeliveryInv, [Next]_vars
  PROVE  DeliveryInv' /\ AbstractStep
<1>1. CASE UNCHANGED vars
  BY <1>1, TextKept DEF vars, source, replica, wire, puller, place, lapses, DeliveryInv
<1> QED BY <1>1, AuthorStep, WorkerStep, RelayStep, PullStep, RetryStep, SurroundingsStep
        DEF Next

LEMMA DeliveryStart ==
  ASSUME Init
  PROVE  DeliveryInv /\ R!Init
<1> USE DEF Init
<1>1. QueueInv /\ NetInv
  BY DEF QueueInv, NetInv, Messages
<1>2. LogInv /\ KeptInv
  BY DEF LogInv, KeptInv
<1>3. PullInv
  BY DEF PullInv, NoJob, Jobs
<1>4. CopyInv
  BY DEF CopyInv, NoCopy, Copies
<1>5. R!Init
  BY DEF R!Init, Shown, R!Absent, NoCopy
<1> QED BY <1>1, <1>2, <1>3, <1>4, <1>5 DEF DeliveryInv

\* As long as no create waits for an image, the delivery of a message
\* implements the abstract replica: the peer's copy only shows what the author
\* wrote, and a deletion it has learnt of is final, whatever the wire, the
\* restarts, the queue's folds and the pull's overlaps do.
THEOREM DeliveryImplementsReplica == ASSUME ~Hydrates PROVE Spec => ReplicaSpec
<1>1. Init => DeliveryInv /\ R!Init
  BY DeliveryStart
<1>2. DeliveryInv /\ [Next]_vars => DeliveryInv' /\ [R!Next]_<<text, Shown>>
  BY DeliveryStep DEF AbstractStep
<1> QED BY <1>1, <1>2, PTL DEF Spec, ReplicaSpec, R!Spec

\* In particular a create delayed behind its delete, sent again, or pulled
\* never brings the message back.
THEOREM TombstoneCorrect == ASSUME ~Hydrates PROVE Spec => []TombstoneFinal
<1>1. Init => DeliveryInv
  BY DeliveryStart
<1>2. DeliveryInv /\ [Next]_vars => DeliveryInv'
  BY DeliveryStep
<1>3. DeliveryInv => TombstoneFinal
  BY DEF DeliveryInv, CopyInv, TombstoneFinal
<1> QED BY <1>1, <1>2, <1>3, PTL DEF Spec

-----------------------------------------------------------------------------
(* Types, whether or not a create waits for an image *)

\* A queued edit is the newest row, and nothing is queued or logged before the
\* message is written.
SourceInv ==
  /\ text \in Messages
  /\ rows \subseteq Rows /\ nextId \in Nat \ {0}
  /\ \A r \in rows : r.id < nextId
  /\ \A r, x \in rows : r.id # x.id => r.type # x.type
  /\ \A r, x \in rows : r.type = "update" => x.id <= r.id
  /\ log \in Seq(Types)
  /\ text.state = "none" => rows = {} /\ log = <<>>

WireInv == post \in Posts /\ net \subseteq Requests

\* A pull or a retry run that waits for an image has an event it waits with.
ReadInv ==
  /\ cursor \in 0 .. Len(log)
  /\ job \in Jobs /\ job.upTo \in 0 .. Len(log)
  /\ job.hydrating /\ job.kind = "pull" => job.page # <<>> /\ Head(job.page).type # "none"
  /\ job.hydrating /\ job.kind = "retry" => kept # <<>>
  /\ kept \in Seq(Events) /\ \A i \in DOMAIN kept : kept[i].type # "none"

PlaceInv ==
  /\ copy \in Copies /\ tomb \in BOOLEAN
  /\ ready \in BOOLEAN /\ welcome \in BOOLEAN
  /\ {cancelled, unqueued, dropped} \subseteq BOOLEAN
  /\ faults \in 0 .. MaxFaults

TypeInv == SourceInv /\ WireInv /\ ReadInv /\ PlaceInv

LEMMA FaultTyped == ASSUME PlaceInv, Fault PROVE faults' \in 0 .. MaxFaults
BY BoundsAssumption DEF PlaceInv, Fault

\* An edit is absorbed by a row, takes a queued edit's place, or goes last.
LEMMA UpdateQueued ==
  ASSUME SourceInv, NEW ver \in Nat, NEW newRows, newRows = AfterUpdate(ver)
  PROVE  /\ newRows \subseteq Rows
         /\ \A r \in newRows : r.id <= nextId
         /\ \A r, x \in newRows : r.id # x.id => r.type # x.type
         /\ \A r, x \in newRows : r.type = "update" => x.id <= r.id
<1>1. CASE \E r \in rows : Newest(r) /\ UnofferedCreate(r)
  <2>1. newRows = {IF Newest(r) THEN [r EXCEPT !.ver = ver] ELSE r : r \in rows}
    BY <1>1 DEF AfterUpdate
  <2>2. ASSUME NEW r \in rows
        PROVE  LET x == IF Newest(r) THEN [r EXCEPT !.ver = ver] ELSE r
               IN  x \in Rows /\ x.id = r.id /\ x.type = r.type
    BY DEF SourceInv, Rows
  <2>3. \A x \in newRows : x \in Rows /\ \E r \in rows : x.id = r.id /\ x.type = r.type
    <3> SUFFICES ASSUME NEW x \in newRows
                 PROVE  x \in Rows /\ \E r \in rows : x.id = r.id /\ x.type = r.type
      OBVIOUS
    <3>1. PICK r \in rows : x = IF Newest(r) THEN [r EXCEPT !.ver = ver] ELSE r
      BY <2>1
    <3> QED BY <3>1, <2>2
  <2>4. newRows \subseteq Rows
    BY <2>3
  <2>5. \A r \in newRows : r.id <= nextId
    BY <2>3 DEF SourceInv, Rows
  <2>6. \A r, x \in newRows : r.id # x.id => r.type # x.type
    BY <2>3 DEF SourceInv
  <2>7. \A r, x \in newRows : r.type = "update" => x.id <= r.id
    BY <2>3 DEF SourceInv
  <2> QED BY <2>4, <2>5, <2>6, <2>7
<1>2. CASE ~ \E r \in rows : Newest(r) /\ UnofferedCreate(r)
  <2> DEFINE new == NewRow("update", ver)
  <2>1. new \in Rows /\ new.id = nextId /\ new.type = "update"
    BY DEF NewRow, Rows, Types, SourceInv
  <2>2. newRows = {r \in rows : ~(Newest(r) /\ r.type = "update")} \cup {new}
    BY <1>2 DEF AfterUpdate, QueuedUpdate
  <2> HIDE DEF new
  <2>3. \A r \in newRows : r = new \/ (r \in rows /\ r.type # "update")
    BY <2>2 DEF SourceInv, Newest
  <2>4. nextId \in Nat /\ \A r \in rows : r \in Rows /\ r.id < nextId /\ r.id \in Nat
    BY DEF SourceInv, Rows
  <2>5. \A r \in newRows : r \in Rows /\ r.id <= nextId
    BY <2>1, <2>3, <2>4
  <2>6. \A r, x \in newRows : r.id # x.id => r.type # x.type
    BY <2>1, <2>3 DEF SourceInv
  <2>7. \A r, x \in newRows : r.type = "update" => x.id <= r.id
    BY <2>1, <2>3, <2>5
  <2> QED BY <2>5, <2>6, <2>7
<1> QED BY <1>1, <1>2

LEMMA WrittenTyped ==
  ASSUME TypeInv,
         NEW type \in Types, NEW newText \in Messages, NEW newRows \in SUBSET Rows,
         newText.state # "none",
         \A r \in newRows : r.id <= nextId,
         \A r, x \in newRows : r.id # x.id => r.type # x.type,
         \A r, x \in newRows : r.type = "update" => x.id <= r.id,
         Written(type, newText, newRows), cancelled' \in BOOLEAN
  PROVE  TypeInv'
<1>1. text' = newText /\ log' = Append(log, type) /\ nextId' = nextId + 1
      /\ rows' \in {rows, newRows}
      /\ UNCHANGED <<copy, tomb, post, net, cursor, job, kept, ready, welcome, dropped>>
  BY DEF Written, replica, wire, puller, place
<1>2. log' \in Seq(Types) /\ Len(log') = Len(log) + 1 /\ Len(log) \in Nat
  BY <1>1, AppendProperties DEF TypeInv, SourceInv
<1>3. SourceInv'
  <2>1. nextId' \in Nat \ {0} /\ rows' \subseteq Rows
    BY <1>1 DEF TypeInv, SourceInv
  <2>2. \A r \in rows' : r.id < nextId'
    BY <1>1, <2>1 DEF TypeInv, SourceInv, Rows
  <2>3. (\A r, x \in rows' : r.id # x.id => r.type # x.type)
        /\ \A r, x \in rows' : r.type = "update" => x.id <= r.id
    BY <1>1 DEF TypeInv, SourceInv
  <2> QED BY <1>1, <1>2, <2>1, <2>2, <2>3 DEF SourceInv
<1>4. WireInv'
  BY <1>1 DEF TypeInv, WireInv
<1>5. ReadInv'
  BY <1>1, <1>2 DEF TypeInv, ReadInv
<1>6. PlaceInv'
  <2>1. unqueued' \in BOOLEAN /\ faults' \in 0 .. MaxFaults
    BY FaultTyped DEF Written, TypeInv, PlaceInv
  <2> QED BY <1>1, <2>1 DEF TypeInv, PlaceInv
<1> QED BY <1>3, <1>4, <1>5, <1>6 DEF TypeInv

LEMMA AuthorTyped == ASSUME TypeInv, Author PROVE TypeInv'
<1> USE DEF Messages, Types
<1>0. text \in Messages /\ nextId \in Nat
  BY DEF TypeInv, SourceInv
<1>1. CASE CreateMessage
  <2> DEFINE new == [text EXCEPT !.state = "live"]
             newRows == {NewRow("create", 0)}
  <2>1. Written("create", new, newRows) /\ cancelled' \in BOOLEAN
    BY <1>1 DEF CreateMessage, TypeInv, PlaceInv
  <2>2. new \in Messages /\ new.state # "none"
    BY <1>0
  <2>3. newRows \in SUBSET Rows
        /\ \A r \in newRows : r.id = nextId /\ r.type = "create"
    BY <1>0 DEF NewRow, Rows
  <2> HIDE DEF new, newRows
  <2> QED BY <1>0, <2>1, <2>2, <2>3, WrittenTyped
<1>2. CASE EditMessage
  <2> DEFINE new == [text EXCEPT !.ver = @ + 1]
             newRows == AfterUpdate(text.ver + 1)
  <2>1. Written("update", new, newRows) /\ cancelled' \in BOOLEAN
    BY <1>2 DEF EditMessage, TypeInv, PlaceInv
  <2>2. new \in Messages /\ new.state # "none" /\ text.ver + 1 \in Nat
    BY <1>0, <1>2 DEF EditMessage
  <2>3. /\ newRows \subseteq Rows
        /\ \A r \in newRows : r.id <= nextId
        /\ \A r, x \in newRows : r.id # x.id => r.type # x.type
        /\ \A r, x \in newRows : r.type = "update" => x.id <= r.id
    BY <2>2, UpdateQueued DEF TypeInv
  <2> HIDE DEF new, newRows
  <2> QED BY <2>1, <2>2, <2>3, WrittenTyped
<1>3. CASE DeleteMessage
  <2> DEFINE new == [text EXCEPT !.state = "deleted"]
             newRows == AfterDelete
  <2>1. Written("delete", new, newRows) /\ cancelled' \in BOOLEAN
    BY <1>3 DEF DeleteMessage
  <2>2. new \in Messages /\ new.state # "none"
    BY <1>0
  <2>3. newRows \in SUBSET Rows
        /\ \A r \in newRows : r.id = nextId /\ r.type = "delete"
    BY <1>0 DEF AfterDelete, NewRow, Rows
  <2> HIDE DEF new, newRows
  <2> QED BY <1>0, <2>1, <2>2, <2>3, WrittenTyped
<1> QED BY <1>1, <1>2, <1>3 DEF Author

\* A step that leaves variables alone leaves the parts about them alone.
LEMMA TypesKept ==
  ASSUME TypeInv
  PROVE  /\ UNCHANGED <<text, rows, nextId, log>> => SourceInv'
         /\ UNCHANGED <<post, net>> => WireInv'
         /\ UNCHANGED <<log, cursor, job, kept>> => ReadInv'
         /\ UNCHANGED <<copy, tomb, ready, welcome, cancelled, unqueued, dropped>>
              /\ faults' \in 0 .. MaxFaults => PlaceInv'
         /\ UNCHANGED <<copy, tomb, ready, welcome, cancelled, unqueued, dropped, faults>>
              => PlaceInv'
<1>1. SourceInv /\ WireInv /\ ReadInv /\ PlaceInv
  BY DEF TypeInv
<1>2. UNCHANGED <<text, rows, nextId, log>> => SourceInv'
  BY <1>1 DEF SourceInv
<1>3. UNCHANGED <<post, net>> => WireInv'
  BY <1>1 DEF WireInv
<1>4. UNCHANGED <<log, cursor, job, kept>> => ReadInv'
  BY <1>1 DEF ReadInv
<1>5. UNCHANGED <<copy, tomb, ready, welcome, cancelled, unqueued, dropped>>
        /\ faults' \in 0 .. MaxFaults => PlaceInv'
  BY <1>1 DEF PlaceInv
<1>6. faults \in 0 .. MaxFaults
  BY <1>1 DEF PlaceInv
<1> QED BY <1>2, <1>3, <1>4, <1>5, <1>6

LEMMA FewerRows ==
  ASSUME SourceInv, rows' \subseteq rows, UNCHANGED <<text, nextId, log>>
  PROVE  SourceInv'
BY DEF SourceInv

LEMMA WorkerTyped == ASSUME TypeInv, Worker PROVE TypeInv'
<1> USE DEF source, replica, puller, place, lapses, wire
<1>0. SourceInv /\ WireInv /\ ReadInv /\ PlaceInv
  BY DEF TypeInv
<1>1. CASE SendHead
  <2>1. PICK r \in rows :
          /\ rows' = (rows \ {r}) \cup {[r EXCEPT !.offered = TRUE]}
          /\ post' = [id |-> r.id, type |-> r.type, at |-> "sent"]
          /\ net' = net \cup {[id |-> r.id, type |-> r.type, ver |-> r.ver,
                               live |-> TRUE, stage |-> "transit"]}
    BY <1>1 DEF SendHead, Oldest
  <2>2. UNCHANGED <<text, nextId, log, cursor, job, kept>>
        /\ UNCHANGED <<copy, tomb, ready, welcome, cancelled, unqueued, dropped, faults>>
    BY <1>1 DEF SendHead
  <2> DEFINE out == [r EXCEPT !.offered = TRUE]
             sent == [id |-> r.id, type |-> r.type, ver |-> r.ver,
                      live |-> TRUE, stage |-> "transit"]
  <2>3. r \in Rows /\ out \in Rows /\ out.id = r.id /\ out.type = r.type
    BY <1>0 DEF SourceInv, Rows
  <2>4. sent \in Requests /\ post' \in Posts
    BY <2>1, <2>3 DEF Rows, Requests, Posts
  <2>5. WireInv'
    <3> HIDE DEF sent
    <3>1. net' = net \cup {sent}
      BY <2>1 DEF sent
    <3> QED BY <3>1, <1>0, <2>4 DEF WireInv
  <2>6. SourceInv'
    <3> HIDE DEF out
    <3>1. rows' = (rows \ {r}) \cup {out}
      BY <2>1 DEF out
    <3>2. \A x \in rows' : x \in Rows /\ \E y \in rows : x.id = y.id /\ x.type = y.type
      BY <1>0, <3>1, <2>3 DEF SourceInv
    <3>3. rows' \subseteq Rows /\ \A x \in rows' : x.id < nextId'
      BY <1>0, <2>2, <3>2 DEF SourceInv
    <3>4. \A x, y \in rows' : x.id # y.id => x.type # y.type
      BY <1>0, <3>2 DEF SourceInv
    <3>5. \A x, y \in rows' : x.type = "update" => y.id <= x.id
      BY <1>0, <3>2 DEF SourceInv
    <3>6. text.state # "none"
      BY <1>0 DEF SourceInv
    <3> QED BY <1>0, <2>2, <3>3, <3>4, <3>5, <3>6 DEF SourceInv
  <2> QED BY <2>2, <2>5, <2>6, TypesKept DEF TypeInv
<1>2. CASE SettleAnswer
  <2>1. rows' \subseteq rows /\ post' = NoPost
        /\ UNCHANGED <<text, nextId, log, net, cursor, job, kept>>
        /\ UNCHANGED <<copy, tomb, ready, welcome, cancelled, unqueued, dropped, faults>>
    BY <1>2 DEF SettleAnswer, Settled
  <2>2. WireInv'
    BY <1>0, <2>1 DEF WireInv, NoPost, Posts, Types
  <2> QED BY <1>0, <2>1, <2>2, TypesKept, FewerRows DEF TypeInv
<1>3. CASE TimeOut
  <2>1. post' = NoPost
        /\ UNCHANGED <<text, rows, nextId, log, net, cursor, job, kept>>
        /\ UNCHANGED <<copy, tomb, ready, welcome, cancelled, unqueued, dropped, faults>>
    BY <1>3 DEF TimeOut
  <2>2. WireInv'
    BY <1>0, <2>1 DEF WireInv, NoPost, Posts, Types
  <2> QED BY <2>1, <2>2, TypesKept DEF TypeInv
<1>4. CASE Abandon
  <2>1. /\ post' = NoPost /\ net' = {[m EXCEPT !.live = FALSE] : m \in net}
        /\ UNCHANGED <<text, rows, nextId, log, cursor, job, kept>>
        /\ UNCHANGED <<copy, tomb, ready, welcome, cancelled, unqueued, dropped>>
    BY <1>4 DEF Abandon
  <2>2. \A m \in net : [m EXCEPT !.live = FALSE] \in Requests
    BY <1>0 DEF WireInv, Requests
  <2>3. WireInv'
    BY <1>0, <2>1, <2>2 DEF WireInv, NoPost, Posts, Types
  <2>4. faults' \in 0 .. MaxFaults
    BY <1>0, <1>4, FaultTyped DEF Abandon
  <2> QED BY <2>1, <2>3, <2>4, TypesKept DEF TypeInv
<1>5. CASE LoseRequest
  <2>1. net' \subseteq net
        /\ UNCHANGED <<text, rows, nextId, log, post, cursor, job, kept>>
        /\ UNCHANGED <<copy, tomb, ready, welcome, cancelled, unqueued, dropped>>
    BY <1>5 DEF LoseRequest
  <2>2. WireInv' /\ faults' \in 0 .. MaxFaults
    BY <1>0, <1>5, <2>1, FaultTyped DEF WireInv, LoseRequest
  <2> QED BY <2>1, <2>2, TypesKept DEF TypeInv
<1>6. CASE ExpireRow
  <2>1. rows' \subseteq rows /\ unqueued' = TRUE
        /\ UNCHANGED <<text, nextId, log, post, net, cursor, job, kept>>
        /\ UNCHANGED <<copy, tomb, ready, welcome, cancelled, dropped>>
    BY <1>6 DEF ExpireRow
  <2>2. PlaceInv'
    BY <1>0, <1>6, <2>1, FaultTyped DEF ExpireRow, PlaceInv
  <2> QED BY <1>0, <2>1, <2>2, TypesKept, FewerRows DEF TypeInv
<1> QED BY <1>1, <1>2, <1>3, <1>4, <1>5, <1>6 DEF Worker

\* What the handlers answer, and what they make of the copy.
LEMMA HandledTyped ==
  ASSUME PlaceInv, NEW e, e.ver \in Nat
  PROVE  /\ InsertMessage(e).reason \in Reasons /\ InsertMessage(e).copy \in Copies
         /\ InsertMessage(e).tomb \in BOOLEAN
         /\ e.type \in Types =>
              /\ Processed(e).reason \in Reasons /\ Processed(e).copy \in Copies
              /\ Processed(e).tomb \in BOOLEAN
<1> DEFINE Typed(result) == result.reason \in Reasons /\ result.copy \in Copies
                              /\ result.tomb \in BOOLEAN
<1>1. \A reason \in Reasons : Typed(Answer(reason))
  BY DEF Answer, PlaceInv
<1>2. \A version, edited \in Nat : Typed(Store(version, edited))
  BY DEF Store, PlaceInv, Copies, Reasons
<1>3. Typed([reason |-> "accepted", copy |-> NoCopy, tomb |-> TRUE])
  BY DEF NoCopy, Copies, Reasons
<1>4. {"accepted", "duplicate", "attribution_mismatch", "channel_not_found",
       "unknown_message", "processing_error"} \subseteq Reasons
  BY DEF Reasons
<1> HIDE DEF Typed
<1>5. Typed(InsertMessage(e))
  BY <1>1, <1>2, <1>4 DEF InsertMessage
<1>6. Typed(ProcessCreate(e))
  BY <1>1, <1>4, <1>5 DEF ProcessCreate
<1>7. Typed(ProcessUpdate(e))
  BY <1>1, <1>2, <1>4 DEF ProcessUpdate
<1>8. Typed(ProcessDelete(e))
  BY <1>1, <1>3, <1>4 DEF ProcessDelete
<1>9. e.type \in Types => Typed(Processed(e))
  BY <1>6, <1>7, <1>8 DEF Processed, Types
<1> QED BY <1>5, <1>9 DEF Typed

LEMMA RelayTyped == ASSUME TypeInv, Relay PROVE TypeInv'
<1> USE DEF source, replica, puller, place, lapses
<1>0. SourceInv /\ WireInv /\ ReadInv /\ PlaceInv
  BY DEF TypeInv
<1>1. ASSUME NEW m \in net, NEW result, Reply(m, result), result.reason \in Reasons,
             result.copy \in Copies, result.tomb \in BOOLEAN
      PROVE  TypeInv'
  <2>1. net' \subseteq net /\ copy' = result.copy /\ tomb' = result.tomb
        /\ UNCHANGED <<text, rows, nextId, log, cursor, job, kept>>
        /\ UNCHANGED <<ready, welcome, cancelled, unqueued, dropped>>
    BY <1>1 DEF Reply, Take
  <2>2. post' \in {post, [post EXCEPT !.at = result.reason]}
        /\ (Fault \/ UNCHANGED faults)
    BY <1>1 DEF Reply
  <2>3. WireInv'
    BY <1>0, <1>1, <2>1, <2>2 DEF WireInv, Posts
  <2>4. PlaceInv'
    BY <1>0, <1>1, <2>1, <2>2, FaultTyped DEF PlaceInv
  <2> QED BY <2>1, <2>3, <2>4, TypesKept DEF TypeInv
<1>2. \A m \in net : m \in Requests /\ m.ver \in Nat /\ m.type \in Types
  BY <1>0 DEF WireInv, Requests
<1>3. CASE Receive
  BY <1>0, <1>1, <1>2, <1>3, HandledTyped DEF Receive
<1>4. CASE FinishHydration
  BY <1>0, <1>1, <1>2, <1>4, HandledTyped DEF FinishHydration
<1>5. CASE StartHydration
  <2>1. PICK m \in net : net' = (net \ {m}) \cup {[m EXCEPT !.stage = "hydrating"]}
    BY <1>5 DEF StartHydration
  <2>2. [m EXCEPT !.stage = "hydrating"] \in Requests
    BY <1>2 DEF Requests
  <2>3. UNCHANGED <<text, rows, nextId, log, post, cursor, job, kept>>
        /\ UNCHANGED <<copy, tomb, ready, welcome, cancelled, unqueued, dropped, faults>>
    BY <1>5 DEF StartHydration
  <2>4. WireInv'
    BY <1>0, <2>1, <2>2, <2>3 DEF WireInv
  <2> QED BY <2>3, <2>4, TypesKept DEF TypeInv
<1> QED BY <1>3, <1>4, <1>5 DEF Relay

LEMMA PageTyped ==
  ASSUME TypeInv, NEW since \in Nat, NEW upTo \in since .. Len(log), ReadPage(since, upTo)
  PROVE  TypeInv'
<1> USE DEF replica, wire, place, lapses
<1> DEFINE page == [i \in 1 .. upTo - since |-> Served(since + i)]
<1>0. SourceInv /\ WireInv /\ ReadInv /\ PlaceInv
  BY DEF TypeInv
<1>1. /\ job' = [kind |-> "pull", upTo |-> upTo, hydrating |-> FALSE, page |-> page]
      /\ rows' = {[r EXCEPT !.offered = TRUE] : r \in rows}
      /\ UNCHANGED <<text, nextId, log, post, net, cursor, kept>>
      /\ UNCHANGED <<copy, tomb, ready, welcome, cancelled, unqueued, dropped, faults>>
  BY DEF ReadPage
<1>2. log \in Seq(Types) /\ Len(log) \in Nat /\ upTo \in Nat /\ upTo \in 0 .. Len(log)
      /\ text.ver \in Nat
  BY <1>0 DEF SourceInv, Messages
<1>3. \A i \in 1 .. upTo - since : Served(since + i) \in Events
  <2> SUFFICES ASSUME NEW i \in 1 .. upTo - since PROVE Served(since + i) \in Events
    OBVIOUS
  <2>1. since + i \in DOMAIN log /\ since + i \in Nat
    BY <1>2
  <2>2. log[since + i] \in Types
    BY <1>2, <2>1
  <2> QED BY <1>2, <2>1, <2>2 DEF Served, Events, Types
<1>4. page \in Seq(Events)
  <2>1. upTo - since \in Nat /\ page \in [1 .. upTo - since -> Events]
    BY <1>2, <1>3
  <2> HIDE DEF page
  <2> QED BY <2>1, IsASeq
<1>5. ReadInv'
  <2> HIDE DEF page
  <2>1. job' \in Jobs /\ job'.upTo = upTo /\ ~job'.hydrating
    BY <1>1, <1>2, <1>4 DEF Jobs
  <2> QED BY <1>0, <1>1, <1>2, <2>1 DEF ReadInv
<1>6. SourceInv'
  <2>1. \A r \in rows : LET x == [r EXCEPT !.offered = TRUE]
                        IN  x \in Rows /\ x.id = r.id /\ x.type = r.type
    BY <1>0 DEF SourceInv, Rows
  <2>2. \A x \in rows' : x \in Rows /\ \E r \in rows : x.id = r.id /\ x.type = r.type
    BY <1>1, <2>1
  <2>3. rows' \subseteq Rows /\ \A x \in rows' : x.id < nextId'
    BY <1>0, <1>1, <2>2 DEF SourceInv
  <2>4. (\A x, y \in rows' : x.id # y.id => x.type # y.type)
        /\ \A x, y \in rows' : x.type = "update" => y.id <= x.id
    BY <1>0, <2>2 DEF SourceInv
  <2>5. text.state = "none" => rows' = {}
    BY <1>0, <2>2 DEF SourceInv
  <2> QED BY <1>0, <1>1, <2>3, <2>4, <2>5 DEF SourceInv
<1> QED BY <1>1, <1>5, <1>6, TypesKept DEF TypeInv

LEMMA PageTypes ==
  ASSUME TypeInv, job.page # <<>>
  PROVE  /\ job \in Jobs /\ Head(job.page) \in Events
         /\ NextInPage \in Jobs /\ NextInPage.upTo = job.upTo /\ ~NextInPage.hydrating
         /\ NextInPage.kind = job.kind /\ NextInPage.page = Tail(job.page)
<1>1. job \in Jobs /\ job.page \in Seq(Events)
  BY DEF TypeInv, ReadInv, Jobs
<1>2. Head(job.page) \in Events /\ Tail(job.page) \in Seq(Events)
  BY <1>1, HeadTailProperties
<1> QED BY <1>1, <1>2 DEF NextInPage, Jobs

LEMMA KeptTyped ==
  ASSUME kept \in Seq(Events), \A i \in DOMAIN kept : kept[i].type # "none",
         NEW e \in Events, e.type # "none", Keep(e)
  PROVE  kept' \in Seq(Events) /\ \A i \in DOMAIN kept' : kept'[i].type # "none"
BY KeepAddsOne

LEMMA PullTyped == ASSUME TypeInv, Pull PROVE TypeInv'
<1> USE DEF source, replica, wire, place, lapses
<1>0. SourceInv /\ WireInv /\ ReadInv /\ PlaceInv /\ Len(log) \in Nat /\ cursor \in Nat
  BY DEF TypeInv, SourceInv, ReadInv
<1>1. CASE PullPage
  <2>1. PICK since \in 0 .. cursor : \E upTo \in since .. Len(log) : ReadPage(since, upTo)
    BY <1>1 DEF PullPage
  <2>2. since \in Nat
    BY <1>0
  <2> QED BY <2>1, <2>2, PageTyped
<1>2. ASSUME job.page # <<>>, job' = NextInPage, UNCHANGED <<log, cursor>>,
             kept' \in Seq(Events), \A i \in DOMAIN kept' : kept'[i].type # "none"
      PROVE  ReadInv'
  BY <1>0, <1>2, PageTypes DEF ReadInv
<1>3. CASE SkipRow
  <2>1. job.page # <<>> /\ job' = NextInPage
        /\ UNCHANGED <<text, rows, nextId, log, post, net, cursor, kept>>
        /\ UNCHANGED <<copy, tomb, ready, welcome, cancelled, unqueued, dropped, faults>>
    BY <1>3 DEF SkipRow, InPage
  <2>2. ReadInv'
    BY <1>0, <1>2, <2>1 DEF ReadInv
  <2> QED BY <2>1, <2>2, TypesKept DEF TypeInv
<1>4. CASE HoldBehindKept
  <2>1. job.page # <<>> /\ job' = NextInPage /\ Keep(Head(job.page))
        /\ Head(job.page).type # "none"
        /\ UNCHANGED <<text, rows, nextId, log, post, net, cursor>>
        /\ UNCHANGED <<copy, tomb, ready, welcome, cancelled, unqueued, dropped, faults>>
    BY <1>4 DEF HoldBehindKept, InPage
  <2>2. kept' \in Seq(Events) /\ \A i \in DOMAIN kept' : kept'[i].type # "none"
    BY <1>0, <2>1, PageTypes, KeptTyped DEF ReadInv
  <2>3. ReadInv'
    BY <1>2, <2>1, <2>2
  <2> QED BY <2>1, <2>3, TypesKept DEF TypeInv
<1>5. ASSUME NEW result, AppliedInPage(result), job.page # <<>>, Head(job.page).type # "none",
             result.copy \in Copies, result.tomb \in BOOLEAN
      PROVE  TypeInv'
  <2>1. copy' = result.copy /\ tomb' = result.tomb /\ job' = NextInPage
        /\ (Keep(Head(job.page)) \/ UNCHANGED kept)
        /\ UNCHANGED <<text, rows, nextId, log, post, net, cursor>>
        /\ UNCHANGED <<ready, welcome, cancelled, unqueued, dropped, faults>>
    BY <1>5 DEF AppliedInPage, Take
  <2>2. kept' \in Seq(Events) /\ \A i \in DOMAIN kept' : kept'[i].type # "none"
    BY <1>0, <1>5, <2>1, PageTypes, KeptTyped DEF ReadInv
  <2>3. ReadInv'
    BY <1>2, <1>5, <2>1, <2>2
  <2>4. PlaceInv'
    BY <1>0, <1>5, <2>1 DEF PlaceInv
  <2> QED BY <2>1, <2>3, <2>4, TypesKept DEF TypeInv
<1>6. CASE ApplyPulled
  <2>1. job.page # <<>> /\ Head(job.page).type # "none" /\ AppliedInPage(Processed(Head(job.page)))
    BY <1>6 DEF ApplyPulled, InPage
  <2>2. Head(job.page).ver \in Nat /\ Head(job.page).type \in Types
    BY <2>1, PageTypes DEF Events
  <2> QED BY <1>0, <1>5, <2>1, <2>2, HandledTyped
<1>7. CASE FinishPulled
  <2>1. job.page # <<>> /\ Head(job.page).type # "none"
        /\ AppliedInPage(InsertMessage(Head(job.page)))
    BY <1>0, <1>7 DEF FinishPulled, ReadInv
  <2>2. Head(job.page).ver \in Nat
    BY <2>1, PageTypes DEF Events
  <2> QED BY <1>0, <1>5, <2>1, <2>2, HandledTyped
<1>8. CASE SuspendPulled
  <2>1. job.kind = "pull" /\ job.page # <<>> /\ Head(job.page).type # "none"
        /\ job' = [job EXCEPT !.hydrating = TRUE]
        /\ UNCHANGED <<text, rows, nextId, log, post, net, cursor, kept>>
        /\ UNCHANGED <<copy, tomb, ready, welcome, cancelled, unqueued, dropped, faults>>
    BY <1>8 DEF SuspendPulled, InPage, MayHydrate
  <2>2. job' \in Jobs /\ job'.upTo = job.upTo /\ job'.page = job.page /\ job'.kind = "pull"
    BY <1>0, <2>1 DEF ReadInv, Jobs
  <2>3. ReadInv'
    BY <1>0, <2>1, <2>2 DEF ReadInv
  <2> QED BY <2>1, <2>3, TypesKept DEF TypeInv
<1>9. CASE EndPage
  <2>1. job' = NoJob /\ cursor' \in {cursor, job.upTo}
        /\ UNCHANGED <<text, rows, nextId, log, post, net, kept>>
        /\ UNCHANGED <<copy, tomb, ready, welcome, cancelled, unqueued, dropped, faults>>
    BY <1>9 DEF EndPage
  <2>2. NoJob \in Jobs /\ NoJob.upTo = 0 /\ ~NoJob.hydrating
    BY DEF NoJob, Jobs
  <2>3. ReadInv'
    BY <1>0, <2>1, <2>2 DEF ReadInv
  <2> QED BY <2>1, <2>3, TypesKept DEF TypeInv
<1> QED BY <1>1, <1>3, <1>4, <1>6, <1>7, <1>8, <1>9 DEF Pull

LEMMA RetryTyped == ASSUME TypeInv, Retry PROVE TypeInv'
<1> USE DEF source, replica, wire, place, lapses
<1>0. SourceInv /\ WireInv /\ ReadInv /\ PlaceInv /\ Len(log) \in Nat
  BY DEF TypeInv, SourceInv
<1>1. ASSUME kept # <<>>
      PROVE  /\ Head(kept) \in Events /\ Head(kept).type # "none" /\ Tail(kept) \in Seq(Events)
             /\ \A i \in DOMAIN Tail(kept) : Tail(kept)[i].type # "none"
  <2>1. kept \in Seq(Events) /\ Tail(kept) \in Seq(Events) /\ 1 \in DOMAIN kept
        /\ Head(kept) = kept[1]
        /\ \A i \in DOMAIN Tail(kept) : i + 1 \in DOMAIN kept /\ Tail(kept)[i] = kept[i + 1]
    BY <1>0, <1>1, HeadTailProperties DEF ReadInv
  <2> QED BY <1>0, <2>1 DEF ReadInv
<1>2. ASSUME kept # <<>>, job' = AfterKept, kept' \in {kept, Tail(kept)},
             UNCHANGED <<log, cursor>>
      PROVE  ReadInv'
  <2>1. NoJob \in Jobs /\ NoJob.upTo = 0 /\ ~NoJob.hydrating
    BY DEF NoJob, Jobs
  <2>2. job' \in Jobs /\ job'.upTo = 0 /\ ~job'.hydrating
    BY <1>2, <2>1 DEF AfterKept, Jobs
  <2>3. cursor' \in 0 .. Len(log') /\ 0 \in 0 .. Len(log')
    BY <1>0, <1>2 DEF ReadInv
  <2>4. kept' \in Seq(Events) /\ \A i \in DOMAIN kept' : kept'[i].type # "none"
    <3>1. CASE kept' = kept
      BY <1>0, <3>1 DEF ReadInv
    <3>2. CASE kept' = Tail(kept)
      BY <1>1, <1>2, <3>2
    <3> QED BY <1>2, <3>1, <3>2
  <2> QED BY <2>2, <2>3, <2>4 DEF ReadInv
<1>3. ASSUME NEW result, Retried(result), kept # <<>>,
             result.copy \in Copies, result.tomb \in BOOLEAN
      PROVE  TypeInv'
  <2>1. copy' = result.copy /\ tomb' = result.tomb /\ job' = AfterKept
        /\ kept' \in {kept, Tail(kept)}
        /\ UNCHANGED <<text, rows, nextId, log, post, net, cursor>>
        /\ UNCHANGED <<ready, welcome, cancelled, unqueued, dropped, faults>>
    BY <1>3 DEF Retried, Take, AfterRetry
  <2>2. ReadInv' /\ PlaceInv'
    BY <1>0, <1>2, <1>3, <2>1 DEF PlaceInv
  <2> QED BY <2>1, <2>2, TypesKept DEF TypeInv
<1>4. CASE RetryKept
  <2>1. kept # <<>> /\ Retried(Processed(Head(kept)))
    BY <1>4 DEF RetryKept, MayRetry
  <2>2. Head(kept).ver \in Nat /\ Head(kept).type \in Types
    BY <1>1, <2>1 DEF Events
  <2> QED BY <1>0, <1>3, <2>1, <2>2, HandledTyped
<1>5. CASE FinishKept
  <2>1. kept # <<>> /\ Retried(InsertMessage(Head(kept)))
    BY <1>0, <1>5 DEF FinishKept, ReadInv
  <2>2. Head(kept).ver \in Nat
    BY <1>1, <2>1 DEF Events
  <2> QED BY <1>0, <1>3, <2>1, <2>2, HandledTyped
<1>6. CASE SuspendKept
  <2>1. kept # <<>> /\ job' = [NoJob EXCEPT !.kind = "retry", !.hydrating = TRUE]
        /\ UNCHANGED <<text, rows, nextId, log, post, net, cursor, kept>>
        /\ UNCHANGED <<copy, tomb, ready, welcome, cancelled, unqueued, dropped, faults>>
    BY <1>6 DEF SuspendKept, MayRetry
  <2>2. job' \in Jobs /\ job'.upTo = 0 /\ job'.kind = "retry"
    <3>1. NoJob \in Jobs /\ NoJob.upTo = 0
      BY DEF NoJob, Jobs
    <3> QED BY <2>1, <3>1 DEF Jobs
  <2>3. ReadInv'
    BY <1>0, <2>1, <2>2 DEF ReadInv
  <2> QED BY <2>1, <2>3, TypesKept DEF TypeInv
<1>7. CASE DropKept
  <2>1. kept # <<>> /\ job' = AfterKept /\ kept' = Tail(kept) /\ dropped' = TRUE /\ Fault
        /\ UNCHANGED <<text, rows, nextId, log, post, net, cursor>>
        /\ UNCHANGED <<copy, tomb, ready, welcome, cancelled, unqueued>>
    BY <1>7 DEF DropKept, MayRetry
  <2>2. ReadInv'
    BY <1>2, <2>1
  <2>3. PlaceInv'
    BY <1>0, <2>1, FaultTyped DEF PlaceInv
  <2> QED BY <2>1, <2>2, <2>3, TypesKept DEF TypeInv
<1> QED BY <1>4, <1>5, <1>6, <1>7 DEF Retry

LEMMA SurroundingsTyped == ASSUME TypeInv, BecomeReady \/ StopReceiver PROVE TypeInv'
<1> USE DEF source, replica, puller, wire, lapses, place
<1>0. SourceInv /\ WireInv /\ ReadInv /\ PlaceInv /\ Len(log) \in Nat
  BY DEF TypeInv, SourceInv
<1>1. CASE BecomeReady
  <2>1. PlaceInv'
    BY <1>0, <1>1 DEF BecomeReady, PlaceInv
  <2>2. UNCHANGED <<text, rows, nextId, log, post, net, cursor, job, kept>>
    BY <1>1 DEF BecomeReady
  <2> QED BY <2>1, <2>2, TypesKept DEF TypeInv
<1>2. CASE StopReceiver
  <2>1. job' = NoJob /\ net' \subseteq net /\ Fault
        /\ UNCHANGED <<text, rows, nextId, log, post, cursor, kept>>
        /\ UNCHANGED <<copy, tomb, ready, welcome, cancelled, unqueued, dropped>>
    BY <1>2 DEF StopReceiver
  <2>2. NoJob \in Jobs /\ NoJob.upTo = 0 /\ ~NoJob.hydrating
    BY DEF NoJob, Jobs
  <2>3. ReadInv' /\ WireInv'
    BY <1>0, <2>1, <2>2 DEF ReadInv, WireInv
  <2>4. PlaceInv'
    BY <1>0, <2>1, FaultTyped DEF PlaceInv
  <2> QED BY <2>1, <2>3, <2>4, TypesKept DEF TypeInv
<1> QED BY <1>1, <1>2

LEMMA TypedStep == ASSUME TypeInv, [Next]_vars PROVE TypeInv'
<1>1. CASE UNCHANGED vars
  BY <1>1, TypesKept DEF vars, source, replica, wire, puller, place, lapses, TypeInv
<1> QED BY <1>1, AuthorTyped, WorkerTyped, RelayTyped, PullTyped, RetryTyped, SurroundingsTyped
        DEF Next

LEMMA TypedStart == ASSUME Init PROVE TypeInv
<1> USE DEF Init
<1>1. SourceInv /\ WireInv
  BY DEF SourceInv, WireInv, Messages, NoPost, Posts, Types
<1>2. ReadInv
  BY DEF ReadInv, NoJob, Jobs
<1>3. PlaceInv
  <2>1. NoCopy \in Copies
    BY DEF NoCopy, Copies
  <2>2. 0 \in 0 .. MaxFaults
    BY BoundsAssumption
  <2> QED BY <2>1, <2>2 DEF PlaceInv
<1> QED BY <1>1, <1>2, <1>3 DEF TypeInv

\* Every variable keeps its type, and a queue holds at most one row of a kind,
\* whatever is edited, folded, sent, lost, pulled or kept, for any number of
\* edits and faults.
THEOREM DeliveryTypeCorrect == Spec => []TypeOK
<1>1. Init => TypeInv
  BY TypedStart
<1>2. TypeInv /\ [Next]_vars => TypeInv'
  BY TypedStep
<1>3. TypeInv => TypeOK
  BY DEF TypeInv, SourceInv, WireInv, ReadInv, PlaceInv, TypeOK
<1> QED BY <1>1, <1>2, <1>3, PTL DEF Spec
-----------------------------------------------------------------------------
(* A delete settled against an unsent create *)

Unoffered == \E r \in rows : UnofferedCreate(r)

\* Nobody has been told that the message exists.
Unsaid == text.state = "none" \/ Unoffered \/ cancelled

\* Nothing on its way to the copy, or kept for it, could make the peer hold the
\* message.
Silent ==
  /\ ~copy.held /\ ~job.hydrating
  /\ \A m \in net : m.type = "delete" /\ m.stage = "transit"
  /\ \A i \in DOMAIN job.page : job.page[i].type \in {"none", "delete"}
  /\ \A i \in DOMAIN kept : kept[i].type = "delete"

\* An unoffered create is alone in its queue: what is written after it is
\* absorbed, so that nothing of the message can be sent before it.
CancelInv ==
  /\ Unoffered => \E r \in rows : rows = {r}
  /\ cancelled => rows = {} /\ text.state = "deleted"
  /\ Unsaid => Silent

SilentInv == TypeInv /\ CancelInv

LEMMA CancelAuthor == ASSUME SilentInv, Author PROVE CancelInv'
<1>0. UNCHANGED <<copy, job, net, kept>>
  BY DEF Author, CreateMessage, EditMessage, DeleteMessage, Written, replica, wire, puller
<1>1. Silent => Silent'
  BY <1>0 DEF Silent
<1>2. CASE CreateMessage
  <2>1. text.state = "none" /\ text'.state = "live" /\ rows' \in {rows, {NewRow("create", 0)}}
        /\ rows = {} /\ cancelled' = cancelled
    BY <1>2 DEF CreateMessage, Written, SilentInv, TypeInv, SourceInv, Messages
  <2>2. Silent /\ ~cancelled
    BY <2>1 DEF SilentInv, CancelInv, Unsaid
  <2> QED BY <1>1, <2>1, <2>2 DEF CancelInv, Unoffered
<1>3. CASE EditMessage
  <2> DEFINE ver == text.ver + 1
  <2>1. text.state = "live" /\ text'.state = "live" /\ rows' \in {rows, AfterUpdate(ver)}
        /\ cancelled' = cancelled
    BY <1>3 DEF EditMessage, Written, SilentInv, TypeInv, SourceInv, Messages
  <2>2. ~cancelled
    BY <2>1 DEF SilentInv, CancelInv
  <2> HIDE DEF ver
  <2>3. CASE Unoffered
    <3>1. PICK r \in rows : rows = {r}
      BY <2>3 DEF SilentInv, CancelInv
    <3>2. UnofferedCreate(r) /\ Newest(r)
      BY <2>3, <3>1 DEF Unoffered, Newest, SilentInv, TypeInv, SourceInv, Rows
    <3>3. AfterUpdate(ver) = {[r EXCEPT !.ver = ver]}
      BY <3>1, <3>2 DEF AfterUpdate
    <3>4. (\E x \in rows' : rows' = {x}) /\ Silent
      BY <2>1, <2>3, <3>1, <3>3 DEF SilentInv, CancelInv, Unsaid
    <3> QED BY <1>1, <2>1, <2>2, <3>4 DEF CancelInv
  <2>4. CASE ~Unoffered
    <3>1. AfterUpdate(ver) \subseteq rows \cup {NewRow("update", ver)}
      BY <2>4 DEF AfterUpdate, QueuedUpdate, Unoffered
    <3>2. ~UnofferedCreate(NewRow("update", ver))
      BY DEF UnofferedCreate, NewRow
    <3>3. ~Unoffered'
      BY <2>1, <2>4, <3>1, <3>2 DEF Unoffered, UnofferedCreate
    <3> QED BY <2>1, <2>2, <3>3 DEF CancelInv, Unsaid
  <2> QED BY <2>3, <2>4
<1>4. CASE DeleteMessage
  <2>1. text'.state = "deleted" /\ rows' \in {rows, AfterDelete}
        /\ cancelled' = (Cancels /\ rows' = {})
    BY <1>4 DEF DeleteMessage, Written, SilentInv, TypeInv, SourceInv, Messages
  <2>2. CASE Unoffered
    <3>1. Silent' /\ AfterDelete = {} /\ \E r \in rows : rows = {r}
      BY <1>1, <2>2 DEF SilentInv, CancelInv, Unsaid, AfterDelete, Cancels, Unoffered
    <3>2. cancelled' => rows' = {}
      BY <2>1
    <3>3. Unoffered' => \E r \in rows' : rows' = {r}
      BY <2>1, <3>1 DEF Unoffered
    <3> QED BY <2>1, <3>1, <3>2, <3>3 DEF CancelInv
  <2>3. CASE ~Unoffered
    <3>1. ~cancelled' /\ AfterDelete = {NewRow("delete", text.ver)}
      BY <2>1, <2>3 DEF Cancels, Unoffered, AfterDelete
    <3>2. ~UnofferedCreate(NewRow("delete", text.ver))
      BY DEF UnofferedCreate, NewRow
    <3>3. ~Unoffered'
      BY <2>1, <2>3, <3>1, <3>2 DEF Unoffered, UnofferedCreate
    <3> QED BY <2>1, <3>1, <3>3 DEF CancelInv, Unsaid
  <2> QED BY <2>2, <2>3
<1> QED BY <1>2, <1>3, <1>4 DEF Author

\* The queue only shrinks, and nothing new is under way.
LEMMA CancelKept ==
  ASSUME CancelInv, rows' \subseteq rows, UNCHANGED <<text, cancelled>>, Silent => Silent'
  PROVE  CancelInv'
<1>1. Unoffered' => Unoffered
  BY DEF Unoffered, UnofferedCreate
<1>2. Unoffered' => \E r \in rows' : rows' = {r}
  BY <1>1 DEF CancelInv, Unoffered
<1> QED BY <1>1, <1>2 DEF CancelInv, Unsaid

\* Every row is marked before anything of it leaves.
LEMMA CancelOffered ==
  ASSUME CancelInv, ~Unoffered', rows = {} => rows' = {}, UNCHANGED <<text, cancelled>>,
         (text.state = "none" \/ cancelled) /\ Silent => Silent'
  PROVE  CancelInv'
BY DEF CancelInv, Unsaid

LEMMA CancelWorker == ASSUME SilentInv, Worker PROVE CancelInv'
<1> USE DEF replica, puller, wire
<1>0. CancelInv /\ SourceInv
  BY DEF SilentInv, TypeInv
<1>1. CASE SendHead
  <2>1. PICK r \in rows : rows' = (rows \ {r}) \cup {[r EXCEPT !.offered = TRUE]}
    BY <1>1 DEF SendHead, Oldest
  <2>2. UNCHANGED <<text, cancelled>> /\ rows # {}
    BY <1>1 DEF SendHead, Oldest
  <2>3. ~UnofferedCreate([r EXCEPT !.offered = TRUE])
    BY <1>0 DEF UnofferedCreate, SourceInv, Rows
  <2>4. ~Unoffered'
    <3>1. CASE Unoffered
      <4>1. rows = {r}
        BY <1>0, <3>1 DEF CancelInv
      <4> QED BY <2>1, <2>3, <4>1 DEF Unoffered, UnofferedCreate
    <3>2. CASE ~Unoffered
      BY <2>1, <2>3, <3>2 DEF Unoffered, UnofferedCreate
    <3> QED BY <3>1, <3>2
  <2>5. text.state # "none" /\ ~cancelled
    BY <1>0, <2>2 DEF CancelInv, SourceInv
  <2> QED BY <1>0, <2>2, <2>4, <2>5, CancelOffered
<1>2. CASE SettleAnswer
  BY <1>0, <1>2, CancelKept DEF SettleAnswer, Settled, Silent
<1>3. CASE TimeOut
  BY <1>0, <1>3, CancelKept DEF TimeOut, Silent, source
<1>4. CASE Abandon
  <2>1. net' = {[m EXCEPT !.live = FALSE] : m \in net}
        /\ UNCHANGED <<text, rows, cancelled, copy, job, kept>>
    BY <1>4 DEF Abandon, source
  <2>2. \A m \in net : [m EXCEPT !.live = FALSE].type = m.type
                        /\ [m EXCEPT !.live = FALSE].stage = m.stage
    BY DEF SilentInv, TypeInv, WireInv, Requests
  <2>3. Silent => Silent'
    BY <2>1, <2>2 DEF Silent
  <2> QED BY <1>0, <2>1, <2>3, CancelKept
<1>5. CASE LoseRequest
  <2>1. net' \subseteq net /\ UNCHANGED <<text, rows, cancelled, copy, job, kept>>
    BY <1>5 DEF LoseRequest, source
  <2>2. Silent => Silent'
    BY <2>1 DEF Silent
  <2> QED BY <1>0, <2>1, <2>2, CancelKept
<1>6. CASE ExpireRow
  <2>1. rows' \subseteq rows /\ UNCHANGED <<text, net, cancelled, copy, job, kept>>
    BY <1>6 DEF ExpireRow
  <2>2. Silent => Silent'
    BY <2>1 DEF Silent
  <2> QED BY <1>0, <2>1, <2>2, CancelKept
<1> QED BY <1>1, <1>2, <1>3, <1>4, <1>5, <1>6 DEF Worker

\* A delete leaves no copy, whoever brings it.
LEMMA DeleteHolds ==
  ASSUME ~copy.held, NEW e, e.type = "delete", Take(Processed(e))
  PROVE  ~copy'.held
<1>1. copy' = ProcessDelete(e).copy
  BY DEF Take, Processed
<1> QED BY <1>1 DEF ProcessDelete, Answer, NoCopy

LEMMA CancelRelay == ASSUME SilentInv, Relay PROVE CancelInv'
<1>0. CancelInv /\ UNCHANGED <<text, rows, cancelled, job, kept>>
  BY DEF SilentInv, Relay, Receive, StartHydration, FinishHydration, Reply, source, puller
<1>1. ASSUME Silent PROVE Silent'
  <2>1. ~StartHydration /\ ~FinishHydration
    BY <1>1 DEF Silent, StartHydration, FinishHydration, MayHydrate
  <2>2. PICK m \in net : Reply(m, Processed(m))
    BY <2>1 DEF Relay, Receive
  <2>3. net' \subseteq net /\ Take(Processed(m)) /\ m.type = "delete"
    BY <1>1, <2>2 DEF Reply, Silent
  <2>4. ~copy'.held
    BY <1>1, <2>3, DeleteHolds DEF Silent
  <2> QED BY <1>0, <1>1, <2>3, <2>4 DEF Silent
<1> QED BY <1>0, <1>1, CancelKept

LEMMA CancelPull == ASSUME SilentInv, Pull PROVE CancelInv'
<1> USE DEF source, replica, wire
<1>0. CancelInv /\ TypeInv /\ SourceInv /\ ReadInv /\ Len(log) \in Nat /\ cursor \in Nat
      /\ kept \in Seq(Events)
  BY DEF SilentInv, TypeInv, SourceInv, ReadInv
<1>1. CASE PullPage
  <2>0. PICK since \in 0 .. cursor : \E upTo \in since .. Len(log) : ReadPage(since, upTo)
    BY <1>1 DEF PullPage
  <2>1. PICK upTo \in since .. Len(log) : ReadPage(since, upTo)
    BY <2>0
  <2> DEFINE page == [i \in 1 .. upTo - since |-> Served(since + i)]
  <2>2. rows' = {[r EXCEPT !.offered = TRUE] : r \in rows} /\ job'.page = page
        /\ ~job'.hydrating /\ UNCHANGED <<text, cancelled, copy, net, kept>>
    BY <2>1 DEF ReadPage
  <2>3. \A r \in rows : ~UnofferedCreate([r EXCEPT !.offered = TRUE])
    BY <1>0 DEF UnofferedCreate, SourceInv, Rows
  <2>4. ~Unoffered' /\ (rows = {} => rows' = {})
    BY <2>2, <2>3 DEF Unoffered, UnofferedCreate
  <2>5. ASSUME text.state = "none" \/ cancelled, Silent PROVE Silent'
    <3>1. ASSUME NEW i \in 1 .. upTo - since PROVE Served(since + i).type \in {"none", "delete"}
      <4>1. CASE text.state = "none"
        <5>1. Len(log) = 0
          BY <1>0, <4>1 DEF SourceInv
        <5> QED BY <1>0, <5>1
      <4>2. CASE cancelled
        BY <1>0, <4>2 DEF CancelInv, Served
      <4> QED BY <2>5, <4>1, <4>2
    <3>2. DOMAIN job'.page = 1 .. upTo - since
          /\ \A i \in 1 .. upTo - since : job'.page[i] = Served(since + i)
      BY <2>2
    <3>3. \A i \in DOMAIN job'.page : job'.page[i].type \in {"none", "delete"}
      BY <3>1, <3>2
    <3> QED BY <2>2, <2>5, <3>3 DEF Silent
  <2> QED BY <1>0, <2>2, <2>4, <2>5, CancelOffered
<1>2. ASSUME Silent, job.page # <<>>
      PROVE  /\ Head(job.page).type \in {"none", "delete"}
             /\ \A i \in DOMAIN Tail(job.page) : Tail(job.page)[i].type \in {"none", "delete"}
             /\ ~NextInPage.hydrating /\ NextInPage.page = Tail(job.page)
             /\ Head(job.page) \in Events
  <2>1. job.page \in Seq(Events) /\ 1 \in DOMAIN job.page
        /\ Head(job.page) = job.page[1]
        /\ \A i \in DOMAIN Tail(job.page) : i + 1 \in DOMAIN job.page
             /\ Tail(job.page)[i] = job.page[i + 1]
    BY <1>0, <1>2, HeadTailProperties DEF ReadInv, Jobs
  <2> QED BY <1>0, <1>2, <2>1, PageTypes DEF Silent
<1>3. ASSUME Silent, ~PullPage PROVE Silent' /\ UNCHANGED <<text, rows, cancelled>>
  <2>1. CASE SkipRow
    BY <1>2, <1>3, <2>1 DEF SkipRow, InPage, Silent
  <2>2. CASE HoldBehindKept
    <3>1. job.page # <<>> /\ Head(job.page).type # "none" /\ Keep(Head(job.page))
          /\ job' = NextInPage /\ UNCHANGED <<text, rows, cancelled, copy, net>>
      BY <2>2 DEF HoldBehindKept, InPage
    <3>2. \A i \in DOMAIN kept' : kept'[i].type = "delete"
      BY <1>0, <1>2, <1>3, <3>1, KeepAddsOne DEF Silent
    <3> QED BY <1>2, <1>3, <3>1, <3>2 DEF Silent
  <2>3. CASE ApplyPulled
    <3>1. job.page # <<>> /\ Head(job.page).type # "none" /\ Take(Processed(Head(job.page)))
          /\ (Keep(Head(job.page)) \/ UNCHANGED kept)
          /\ job' = NextInPage /\ UNCHANGED <<text, rows, cancelled, net>>
      BY <2>3 DEF ApplyPulled, AppliedInPage, InPage
    <3>2. \A i \in DOMAIN kept' : kept'[i].type = "delete"
      BY <1>0, <1>2, <1>3, <3>1, KeepAddsOne DEF Silent
    <3>3. ~copy'.held
      BY <1>2, <1>3, <3>1, DeleteHolds DEF Silent
    <3> QED BY <1>2, <1>3, <3>1, <3>2, <3>3 DEF Silent
  <2>4. ~SuspendPulled /\ ~FinishPulled
    BY <1>2, <1>3 DEF Silent, SuspendPulled, FinishPulled, MayHydrate, InPage
  <2>5. CASE EndPage
    BY <1>3, <2>5 DEF EndPage, Silent, NoJob
  <2> QED BY <1>3, <2>1, <2>2, <2>3, <2>4, <2>5 DEF Pull
<1>4. ~PullPage => UNCHANGED <<text, rows, cancelled>>
  BY DEF Pull, SkipRow, HoldBehindKept, ApplyPulled, SuspendPulled, FinishPulled, EndPage,
         AppliedInPage
<1> QED BY <1>0, <1>1, <1>3, <1>4, CancelKept

LEMMA CancelRetry == ASSUME SilentInv, Retry \/ BecomeReady \/ StopReceiver PROVE CancelInv'
<1> USE DEF source, replica, wire, puller
<1>0. CancelInv /\ kept \in Seq(Events)
      /\ UNCHANGED <<text, rows, cancelled>>
  BY DEF SilentInv, TypeInv, ReadInv, Retry, RetryKept, SuspendKept, FinishKept, DropKept,
         Retried, BecomeReady, StopReceiver
<1>1. ASSUME kept # <<>>, Silent
      PROVE  /\ Head(kept).type = "delete"
             /\ \A i \in DOMAIN Tail(kept) : Tail(kept)[i].type = "delete"
  <2>1. 1 \in DOMAIN kept /\ Head(kept) = kept[1]
        /\ \A i \in DOMAIN Tail(kept) : i + 1 \in DOMAIN kept /\ Tail(kept)[i] = kept[i + 1]
    BY <1>0, <1>1, HeadTailProperties
  <2> QED BY <1>1, <2>1 DEF Silent
<1>2. job' = AfterKept => ~job'.hydrating /\ job'.page = <<>>
  BY DEF AfterKept, NoJob
<1>3. ASSUME Silent PROVE Silent'
  <2>1. CASE RetryKept
    <3>1. kept # <<>> /\ Take(Processed(Head(kept))) /\ job' = AfterKept
          /\ kept' \in {kept, Tail(kept)} /\ UNCHANGED net
      BY <2>1 DEF RetryKept, MayRetry, Retried, AfterRetry
    <3>2. ~copy'.held
      BY <1>1, <1>3, <3>1, DeleteHolds DEF Silent
    <3> QED BY <1>1, <1>2, <1>3, <3>1, <3>2 DEF Silent
  <2>2. CASE DropKept
    BY <1>1, <1>2, <1>3, <2>2 DEF DropKept, MayRetry, Silent
  <2>3. ~SuspendKept /\ ~FinishKept
    BY <1>1, <1>3 DEF Silent, SuspendKept, FinishKept, MayRetry, MayHydrate
  <2>4. CASE BecomeReady
    BY <1>3, <2>4 DEF BecomeReady, Silent
  <2>5. CASE StopReceiver
    BY <1>3, <2>5 DEF StopReceiver, Silent, NoJob
  <2> QED BY <2>1, <2>2, <2>3, <2>4, <2>5 DEF Retry
<1> QED BY <1>0, <1>3, CancelKept

LEMMA CancelStep == ASSUME SilentInv, [Next]_vars PROVE SilentInv'
<1>1. TypeInv'
  BY TypedStep DEF SilentInv
<1>2. CASE UNCHANGED vars
  <2>1. UNCHANGED <<text, rows, cancelled, copy, job, net, kept>>
    BY <1>2 DEF vars, source, replica, wire, puller
  <2>2. Silent => Silent'
    BY <2>1 DEF Silent
  <2> QED BY <1>1, <2>1, <2>2, CancelKept DEF SilentInv
<1>3. CASE Next
  BY <1>1, <1>3, CancelAuthor, CancelWorker, CancelRelay, CancelPull, CancelRetry
     DEF Next, SilentInv
<1> QED BY <1>2, <1>3

\* A delete that only took an unoffered create from the queue, so that nothing
\* was sent at all, leaves no copy behind: neither a request, nor a page, nor a
\* kept event ever brings the message, images to wait for or not.
THEOREM CancelCorrect == Spec => []CancelledNeverHeld
<1>1. Init => SilentInv
  <2>1. Init => CancelInv
    BY DEF Init, CancelInv, Unoffered, Unsaid, Silent, NoCopy, NoJob
  <2> QED BY <2>1, TypedStart DEF SilentInv
<1>2. SilentInv /\ [Next]_vars => SilentInv'
  BY CancelStep
<1>3. SilentInv => CancelledNeverHeld
  BY DEF SilentInv, CancelInv, Unsaid, Silent, CancelledNeverHeld
<1> QED BY <1>1, <1>2, <1>3, PTL DEF Spec

-----------------------------------------------------------------------------
(* A drained queue *)

\* A row that was offered never changes under its request, and the worker waits
\* for one answer at most.
PostInv ==
  /\ text.state = "none" => text.ver = 0 /\ post.at = "idle"
  /\ \A r, x \in rows : r.id = x.id => r = x
  /\ post.at # "idle" =>
       post.id < nextId /\ \A r \in rows : r.id = post.id => r.offered /\ r.type = post.type
  /\ \A m \in net :
       /\ m.id < nextId
       /\ m.live => post.at = "sent" /\ m.id = post.id /\ m.type = post.type
       /\ \A r \in rows : m.id = r.id => r.offered /\ m.type = r.type /\ m.ver = r.ver
  /\ \A m, n \in net : m.live /\ n.live => m = n

Taken == post.at \in {"accepted", "duplicate"}

\* What an answer that deletes its row says of the copy stays true until the row
\* is deleted.
AnswerInv ==
  /\ post.at = "attribution_mismatch" => ~welcome
  /\ Taken /\ post.type = "delete" => tomb
  /\ Taken /\ text.state = "live" =>
       /\ post.type = "create" => copy.held
       /\ post.type = "update" =>
            \A r \in rows : r.id = post.id => copy.held /\ r.ver <= copy.edited
  /\ copy.held => copy.edited \in {0, copy.ver}

\* Nobody has seen the message but as it is now.
Unedited ==
  /\ copy.held => copy.ver = text.ver
  /\ \A m \in net : m.ver = text.ver
  /\ \A r \in rows : r.ver = text.ver
  /\ \A i \in DOMAIN job.page : job.page[i].type # "none" => job.page[i].ver = text.ver
  /\ \A i \in DOMAIN kept : kept[i].ver = text.ver

\* What the copy lacks is queued.  It may show the current version as one that
\* was never edited, which a late older edit would overwrite, only while there
\* is no older edit or the newest is queued still.
ContentInv ==
  ~unqueued /\ welcome =>
    /\ text.state = "live" =>
         /\ copy.held \/ \E r \in rows : r.type = "create"
         /\ \/ Unedited
            \/ \E r \in rows : r.type = "update" /\ r.ver = text.ver
            \/ copy.held /\ copy.edited = text.ver
    /\ text.state = "deleted" => tomb \/ cancelled \/ \E r \in rows : r.type = "delete"

DrainInv == DeliveryInv /\ TypeInv /\ CancelInv /\ PostInv /\ AnswerInv /\ ContentInv

\* What is said of the queue holds of what an edit leaves of it.
LEMMA DrainEdit ==
  ASSUME DrainInv, EditMessage
  PROVE  PostInv' /\ AnswerInv' /\ ContentInv'
<1> DEFINE ver == text.ver + 1
           new == NewRow("update", ver)
<1>0. /\ text.state = "live" /\ text'.state = "live" /\ text'.ver = ver /\ text.ver \in Nat
      /\ nextId' = nextId + 1 /\ nextId \in Nat /\ rows \subseteq Rows
      /\ rows' \in {rows, AfterUpdate(ver)} /\ (rows' = AfterUpdate(ver) \/ unqueued')
      /\ (unqueued => unqueued')
      /\ UNCHANGED <<post, net, copy, tomb, job, kept, welcome, cancelled>>
  BY DEF EditMessage, Written, DrainInv, TypeInv, SourceInv, PlaceInv, Messages,
         replica, wire, puller, place
<1>1. post \in Posts /\ net \subseteq Requests
  BY DEF DrainInv, TypeInv, WireInv
<1>2. new.type = "update" /\ new.id = nextId /\ new.ver = text'.ver
  BY <1>0 DEF NewRow
<1>3. CASE Unoffered /\ rows' = AfterUpdate(ver)
  <2>1. PICK r \in rows : rows = {r}
    BY <1>3 DEF DrainInv, CancelInv
  <2>2. UnofferedCreate(r) /\ Newest(r) /\ r \in Rows
    BY <1>0, <1>3, <2>1 DEF Unoffered, Newest, Rows
  <2> DEFINE x == [r EXCEPT !.ver = ver]
  <2>3. rows' = {x} /\ x.id = r.id /\ x.type = "create" /\ x.ver = ver
    <3>1. AfterUpdate(ver) = {x}
      BY <2>1, <2>2 DEF AfterUpdate
    <3> QED BY <1>3, <2>2, <3>1 DEF UnofferedCreate, Rows
  <2> HIDE DEF x
  <2>4. (\A m \in net : m.id # x.id) /\ (post.at # "idle" => post.id # x.id)
        /\ r.id < nextId
    BY <2>1, <2>2, <2>3 DEF DrainInv, PostInv, UnofferedCreate, TypeInv, SourceInv
  <2>5. net = {} /\ kept = <<>> /\ ~copy.held
        /\ \A i \in DOMAIN job.page : job.page[i].type = "none"
    <3>1. Silent /\ DeliveryInv
      BY <1>3 DEF DrainInv, CancelInv, Unsaid
    <3>2. \A i \in DOMAIN kept : FALSE
      BY <1>0, <3>1 DEF Silent, DeliveryInv, KeptInv, Sound
    <3>3. kept = <<>>
      BY <3>2 DEF DrainInv, TypeInv, ReadInv
    <3>4. net = {} /\ \A i \in DOMAIN job.page : job.page[i].type = "none"
      BY <1>0, <3>1 DEF Silent, DeliveryInv, NetInv, PullInv, Sound
    <3> QED BY <3>1, <3>3, <3>4 DEF Silent
  <2>6. PostInv'
    BY <1>0, <1>1, <2>3, <2>4, <2>5 DEF DrainInv, PostInv, Posts
  <2>7. AnswerInv'
    BY <1>0, <2>3, <2>4, <2>5 DEF DrainInv, AnswerInv, Taken
  <2>8. Unedited'
    BY <1>0, <2>3, <2>5 DEF Unedited
  <2> QED BY <1>0, <2>3, <2>6, <2>7, <2>8 DEF ContentInv
<1>4. CASE ~(Unoffered /\ rows' = AfterUpdate(ver))
  <2>1. rows' \subseteq rows \cup {new}
        /\ (rows' = rows \/ (new \in rows' /\ \A r \in rows : r.type # "update" => r \in rows'))
    <3>1. CASE rows' = rows
      BY <3>1
    <3>2. CASE ~Unoffered /\ rows' = AfterUpdate(ver)
      BY <3>2 DEF Unoffered, AfterUpdate, QueuedUpdate
    <3> QED BY <1>0, <1>4, <3>1, <3>2
  <2> HIDE DEF new
  <2>2. \A r \in rows : r.id < nextId /\ r.id \in Nat
    BY <1>0 DEF DrainInv, TypeInv, SourceInv, Rows
  <2>3. (\A m \in net : m.id # new.id /\ m.id \in Nat)
        /\ (post.at # "idle" => post.id # new.id) /\ post.id \in Nat
    BY <1>0, <1>1, <1>2 DEF DrainInv, PostInv, Requests, Posts
  <2>4. PostInv'
    <3>1. \A r, x \in rows' : r.id = x.id => r = x
      BY <1>2, <2>1, <2>2 DEF DrainInv, PostInv
    <3>2. post'.at # "idle" =>
            post'.id < nextId' /\ \A r \in rows' : r.id = post'.id => r.offered /\ r.type = post'.type
      BY <1>0, <2>1, <2>3 DEF DrainInv, PostInv
    <3>3. \A m \in net' :
            /\ m.id < nextId'
            /\ m.live => post'.at = "sent" /\ m.id = post'.id /\ m.type = post'.type
            /\ \A r \in rows' : m.id = r.id => r.offered /\ m.type = r.type /\ m.ver = r.ver
      BY <1>0, <2>1, <2>3 DEF DrainInv, PostInv
    <3>4. \A m, n \in net' : m.live /\ n.live => m = n
      BY <1>0 DEF DrainInv, PostInv
    <3> QED BY <1>0, <3>1, <3>2, <3>3, <3>4 DEF PostInv
  <2>5. AnswerInv'
    BY <1>0, <2>1, <2>3 DEF DrainInv, AnswerInv, Taken
  <2>6. ContentInv'
    <3> SUFFICES ASSUME ~unqueued', welcome'
                 PROVE  /\ copy.held \/ \E r \in rows' : r.type = "create"
                        /\ \E r \in rows' : r.type = "update" /\ r.ver = text'.ver
      BY <1>0 DEF ContentInv
    <3>1. ~Unoffered /\ rows' = AfterUpdate(ver) /\ ~unqueued /\ welcome
      BY <1>0, <1>4 DEF DrainInv, TypeInv
    <3>2. new \in rows' /\ \A r \in rows : r.type # "update" => r \in rows'
      BY <3>1 DEF Unoffered, AfterUpdate, QueuedUpdate, new
    <3>3. copy.held \/ \E r \in rows : r.type = "create"
      BY <1>0, <3>1 DEF DrainInv, ContentInv
    <3> QED BY <1>2, <3>2, <3>3
  <2> QED BY <2>4, <2>5, <2>6
<1> QED BY <1>0, <1>3, <1>4

LEMMA DrainWrite ==
  ASSUME DrainInv, CreateMessage \/ DeleteMessage
  PROVE  PostInv' /\ AnswerInv' /\ ContentInv'
<1>0. /\ nextId' = nextId + 1 /\ nextId \in Nat /\ rows \subseteq Rows
      /\ text'.ver = text.ver /\ text.ver \in Nat
      /\ UNCHANGED <<post, net, copy, tomb, job, kept, welcome>>
  BY DEF CreateMessage, DeleteMessage, Written, DrainInv, TypeInv, SourceInv, PlaceInv, Messages,
         replica, wire, puller, place
<1>1. post \in Posts /\ net \subseteq Requests
  BY DEF DrainInv, TypeInv, WireInv
<1>2. (\A m \in net : m.id < nextId /\ m.id \in Nat)
      /\ (post.at # "idle" => post.id < nextId) /\ post.id \in Nat
  BY <1>1 DEF DrainInv, PostInv, Requests, Posts
\* A row with the new id is the peer's first word of it.
<1>3. ASSUME NEW r, r.id = nextId, rows' \in {rows, {}, {r}}, text'.state # "none"
      PROVE  PostInv' /\ (text'.state = "deleted" \/ post.at = "idle" => AnswerInv')
  <2>1. \A x, y \in rows' : x.id = y.id => x = y
    BY <1>3 DEF DrainInv, PostInv
  <2>2. post'.at # "idle" =>
          post'.id < nextId' /\ \A x \in rows' : x.id = post'.id => x.offered /\ x.type = post'.type
    BY <1>0, <1>2, <1>3 DEF DrainInv, PostInv
  <2>3. \A m \in net' :
          /\ m.id < nextId'
          /\ m.live => post'.at = "sent" /\ m.id = post'.id /\ m.type = post'.type
          /\ \A x \in rows' : m.id = x.id => x.offered /\ m.type = x.type /\ m.ver = x.ver
    BY <1>0, <1>2, <1>3 DEF DrainInv, PostInv
  <2>4. \A m, n \in net' : m.live /\ n.live => m = n
    BY <1>0 DEF DrainInv, PostInv
  <2>5. text'.state = "deleted" \/ post.at = "idle" => AnswerInv'
    BY <1>0 DEF DrainInv, AnswerInv, Taken
  <2> QED BY <1>3, <2>1, <2>2, <2>3, <2>4, <2>5 DEF PostInv
<1>4. CASE CreateMessage
  <2> DEFINE new == NewRow("create", 0)
  <2>1. text.state = "none" /\ text'.state = "live" /\ rows' \in {rows, {new}}
        /\ (rows' = {new} \/ unqueued')
    BY <1>4 DEF CreateMessage, Written, DrainInv, TypeInv, SourceInv, Messages
  <2>2. new.id = nextId /\ new.type = "create" /\ new.ver = 0
    BY DEF NewRow
  <2> HIDE DEF new
  <2>3. post.at = "idle" /\ text.ver = 0
    BY <2>1 DEF DrainInv, PostInv
  <2>4. net = {} /\ ~copy.held /\ (\A i \in DOMAIN kept : FALSE)
        /\ \A i \in DOMAIN job.page : job.page[i].type = "none"
    BY <2>1 DEF DrainInv, DeliveryInv, NetInv, KeptInv, PullInv, CopyInv, Sound
  <2>5. rows' = {new} => Unedited'
    BY <1>0, <2>2, <2>3, <2>4 DEF Unedited
  <2>6. ContentInv'
    BY <2>1, <2>2, <2>5 DEF ContentInv
  <2> QED BY <1>3, <2>1, <2>2, <2>3, <2>6
<1>5. CASE DeleteMessage
  <2> DEFINE new == NewRow("delete", text.ver)
  <2>1. text'.state = "deleted" /\ rows' \in {rows, AfterDelete}
        /\ (rows' = AfterDelete \/ unqueued') /\ cancelled' = (Cancels /\ rows' = {})
    BY <1>5 DEF DeleteMessage, Written, DrainInv, TypeInv, SourceInv, Messages
  <2>2. new.id = nextId /\ new.type = "delete" /\ AfterDelete = IF Cancels THEN {} ELSE {new}
    BY DEF NewRow, AfterDelete
  <2> HIDE DEF new
  <2>3. ContentInv'
    BY <2>1, <2>2 DEF ContentInv
  <2> QED BY <1>3, <2>1, <2>2, <2>3
<1> QED BY <1>4, <1>5

\* As long as the queue keeps its rows, nothing that changes the copy takes the
\* current version from it.
LEMMA ContentKept ==
  ASSUME DrainInv, CopyInv', AnswerInv', UNCHANGED <<text, welcome, cancelled>>,
         unqueued => unqueued',
         \A r \in rows : \E x \in rows' : x.type = r.type /\ x.ver = r.ver,
         tomb => tomb',
         text.state = "live" /\ copy.held => copy'.held /\ copy.edited <= copy'.edited,
         Unedited => Unedited'
  PROVE  ContentInv'
<1> SUFFICES ASSUME ~unqueued', welcome'
             PROVE  /\ text.state = "live" =>
                         /\ copy'.held \/ \E r \in rows' : r.type = "create"
                         /\ \/ Unedited'
                            \/ \E r \in rows' : r.type = "update" /\ r.ver = text.ver
                            \/ copy'.held /\ copy'.edited = text.ver
                    /\ text.state = "deleted" =>
                         tomb' \/ cancelled \/ \E r \in rows' : r.type = "delete"
  BY DEF ContentInv
<1>1. ~unqueued /\ welcome
  BY DEF DrainInv, TypeInv, PlaceInv
<1>2. text.state = "live" /\ copy.held /\ copy.edited = text.ver
        => copy'.held /\ copy'.edited = text.ver
  <2> SUFFICES ASSUME text.state = "live", copy.held, copy.edited = text.ver
               PROVE  copy'.held /\ copy'.edited = text.ver
    OBVIOUS
  <2>1. copy'.held /\ text.ver <= copy'.edited /\ copy'.edited \in {0, copy'.ver}
    BY DEF AnswerInv
  <2>2. copy' \in Copies /\ copy'.ver <= text.ver /\ text.ver \in Nat
    BY <2>1 DEF CopyInv, DrainInv, TypeInv, SourceInv, Messages
  <2> QED BY <2>1, <2>2 DEF Copies
<1> QED BY <1>1, <1>2 DEF DrainInv, ContentInv

\* What a handler answers and what it leaves of the copy.
LEMMA HandledDrains ==
  ASSUME DrainInv, NEW e, e.type \in Types, e.ver \in Nat, Sound(e),
         Take(Processed(e))
  PROVE  /\ tomb => tomb'
         /\ text.state = "live" /\ copy.held => copy'.held /\ copy.edited <= copy'.edited
         /\ copy'.held => copy'.edited \in {0, copy'.ver}
         /\ copy' = copy \/ (copy'.held => copy'.ver = e.ver)
         /\ Processed(e).reason = "attribution_mismatch" => ~welcome
         /\ Processed(e).reason \in {"accepted", "duplicate"} =>
              /\ e.type = "delete" => tomb'
              /\ e.type = "create" /\ text.state = "live" => copy'.held
              /\ e.type = "update" => copy'.held /\ e.ver <= copy'.edited
<1>0. copy \in Copies /\ tomb \in BOOLEAN /\ (tomb => text.state = "deleted")
      /\ (copy.held => copy.edited \in {0, copy.ver} /\ copy.edited \in Nat)
      /\ copy' = Processed(e).copy /\ tomb' = Processed(e).tomb
  BY DEF DrainInv, DeliveryInv, CopyInv, AnswerInv, Copies, Take
<1>1. CASE e.type = "create"
  <2>1. Processed(e) = ProcessCreate(e)
    BY <1>1 DEF Processed
  <2>2. \/ ~welcome /\ Processed(e) = Answer("attribution_mismatch")
        \/ (tomb \/ copy.held) /\ Processed(e) = Answer("duplicate")
        \/ Processed(e) = Answer("channel_not_found")
        \/ ~copy.held /\ Processed(e) = Store(e.ver, 0)
    BY <2>1 DEF ProcessCreate, PassesChecks, InsertMessage
  <2> QED BY <1>0, <1>1, <2>2 DEF Answer, Store
<1>2. CASE e.type = "update"
  <2>1. Processed(e) = ProcessUpdate(e)
    BY <1>2 DEF Processed
  <2>2. \/ ~welcome /\ Processed(e) = Answer("attribution_mismatch")
        \/ Processed(e) = Answer("unknown_message")
        \/ copy.held /\ e.ver <= copy.edited /\ Processed(e) = Answer("accepted")
        \/ copy.held /\ copy.edited <= e.ver /\ Processed(e) = Store(e.ver, e.ver)
    BY <1>0, <2>1 DEF ProcessUpdate
  <2>3. CASE copy.held /\ copy.edited <= e.ver /\ Processed(e) = Store(e.ver, e.ver)
    BY <1>0, <1>2, <2>3 DEF Store
  <2> QED BY <1>0, <1>2, <2>2, <2>3 DEF Answer
<1>3. CASE e.type = "delete"
  <2>1. Processed(e) = ProcessDelete(e) /\ text.state = "deleted"
    BY <1>3 DEF Processed, Sound
  <2> QED BY <1>0, <1>3, <2>1 DEF ProcessDelete, Answer, NoCopy
<1> QED BY <1>1, <1>2, <1>3 DEF Types

LEMMA DrainWorker ==
  ASSUME DrainInv, CopyInv', Worker
  PROVE  PostInv' /\ AnswerInv' /\ ContentInv'
<1> USE DEF source, replica, puller, place, lapses, wire
<1>0. /\ PostInv /\ AnswerInv /\ ContentInv /\ rows \subseteq Rows /\ net \subseteq Requests
      /\ post \in Posts /\ (text.state = "none" => rows = {}) /\ unqueued \in BOOLEAN
      /\ \A r \in rows : r.id < nextId
  BY DEF DrainInv, TypeInv, SourceInv, WireInv, PlaceInv
\* What the worker does but to settle an answer.
<1>1. ASSUME UNCHANGED <<text, welcome, cancelled, copy, tomb, job, kept>>,
             unqueued => unqueued', AnswerInv',
             \A r \in rows : \E x \in rows' : x.type = r.type /\ x.ver = r.ver,
             \A m \in net' : \E x \in net \cup rows : m.ver = x.ver,
             \A x \in rows' : \E r \in rows : r.ver = x.ver
      PROVE  ContentInv'
  <2>1. copy.edited <= copy.edited
    BY DEF DrainInv, DeliveryInv, CopyInv, Copies
  <2>2. Unedited => Unedited'
    BY <1>1 DEF Unedited
  <2> QED BY <1>1, <2>1, <2>2, ContentKept
<1>2. CASE SendHead
  <2>1. PICK r \in rows :
          /\ rows' = (rows \ {r}) \cup {[r EXCEPT !.offered = TRUE]}
          /\ post' = [id |-> r.id, type |-> r.type, at |-> "sent"]
          /\ net' = net \cup {[id |-> r.id, type |-> r.type, ver |-> r.ver,
                               live |-> TRUE, stage |-> "transit"]}
    BY <1>2 DEF SendHead, Oldest
  <2>2. post.at = "idle" /\ UNCHANGED <<text, nextId, welcome, cancelled, unqueued>>
        /\ UNCHANGED <<copy, tomb, job, kept>>
    BY <1>2 DEF SendHead, NoPost
  <2> DEFINE out == [r EXCEPT !.offered = TRUE]
             sent == [id |-> r.id, type |-> r.type, ver |-> r.ver,
                      live |-> TRUE, stage |-> "transit"]
  <2>3. out.id = r.id /\ out.type = r.type /\ out.ver = r.ver /\ out.offered /\ r \in rows
    BY <1>0 DEF Rows
  <2>4. sent.id = r.id /\ sent.type = r.type /\ sent.ver = r.ver /\ sent.live
    OBVIOUS
  <2>5. rows' = (rows \ {r}) \cup {out} /\ net' = net \cup {sent}
        /\ post'.id = r.id /\ post'.type = r.type /\ post'.at = "sent"
    BY <2>1
  <2> HIDE DEF out, sent
  <2>6. \A m \in net : ~m.live
    BY <1>0, <2>2 DEF PostInv
  <2>7. PostInv'
    <3>1. \A x, y \in rows' : x.id = y.id => x = y
      BY <1>0, <2>3, <2>5 DEF PostInv
    <3>2. \A x \in rows' : x.id = r.id => x = out
      BY <1>0, <2>3, <2>5 DEF PostInv
    <3>3. \A x \in rows' : x = out \/ x \in rows
      BY <2>5
    <3>4. \A m \in net' : m = sent \/ m \in net
      BY <2>5
    <3>5. text.state # "none" /\ r.id < nextId
      BY <1>0
    <3>6. \A m \in net' :
            /\ m.id < nextId'
            /\ m.live => post'.at = "sent" /\ m.id = post'.id /\ m.type = post'.type
            /\ \A x \in rows' : m.id = x.id => x.offered /\ m.type = x.type /\ m.ver = x.ver
      <4> SUFFICES ASSUME NEW m \in net'
                   PROVE  /\ m.id < nextId'
                          /\ m.live => post'.at = "sent" /\ m.id = post'.id /\ m.type = post'.type
                          /\ \A x \in rows' : m.id = x.id
                               => x.offered /\ m.type = x.type /\ m.ver = x.ver
        OBVIOUS
      <4>1. CASE m = sent
        BY <2>2, <2>3, <2>4, <2>5, <3>2, <3>5, <4>1
      <4>2. CASE m \in net
        BY <1>0, <2>2, <2>3, <2>6, <3>2, <3>3, <4>2 DEF PostInv
      <4> QED BY <3>4, <4>1, <4>2
    <3>7. \A m, n \in net' : m.live /\ n.live => m = n
      BY <2>6, <3>4
    <3> QED BY <2>2, <2>3, <2>5, <3>1, <3>2, <3>5, <3>6, <3>7 DEF PostInv
  <2>8. AnswerInv'
    BY <1>0, <2>2, <2>5 DEF AnswerInv, Taken
  <2>9. /\ \A x \in rows : \E y \in rows' : y.type = x.type /\ y.ver = x.ver
        /\ \A m \in net' : \E x \in net \cup rows : m.ver = x.ver
        /\ \A x \in rows' : \E y \in rows : y.ver = x.ver
    BY <2>3, <2>4, <2>5
  <2> QED BY <1>1, <2>2, <2>7, <2>8, <2>9
<1>3. CASE SettleAnswer
  <2>1. post.at \in Reasons /\ rows' = Settled(Outcome(post.at)) /\ post' = NoPost
        /\ UNCHANGED <<text, nextId, welcome, cancelled, unqueued, net, copy, tomb, job, kept>>
    BY <1>3 DEF SettleAnswer
  <2>2. rows' \subseteq rows /\ post'.at = "idle" /\ post.at # "sent"
    BY <2>1 DEF Settled, NoPost, Reasons
  <2>3. PostInv'
    BY <1>0, <2>1, <2>2 DEF PostInv
  <2>4. AnswerInv'
    BY <1>0, <2>1, <2>2 DEF AnswerInv, Taken
  <2> SUFFICES ContentInv'
    BY <2>3, <2>4
  <2>5. CASE Taken
    <3>1. rows' = {r \in rows : r.id # post.id}
      BY <2>1, <2>5 DEF Settled, Outcome, Taken
    <3>2. SUFFICES ASSUME ~unqueued, welcome
                   PROVE  /\ text.state = "live" =>
                               /\ copy.held \/ \E r \in rows' : r.type = "create"
                               /\ \/ Unedited'
                                  \/ \E r \in rows' : r.type = "update" /\ r.ver = text.ver
                                  \/ copy.held /\ copy.edited = text.ver
                          /\ text.state = "deleted" =>
                               tomb \/ cancelled \/ \E r \in rows' : r.type = "delete"
      BY <2>1 DEF ContentInv
    <3>3. \A r \in rows : r \in rows' \/ (r.id = post.id /\ r.type = post.type)
      BY <1>0, <2>2, <2>5, <3>1 DEF PostInv, Taken
    <3>4. CASE text.state = "live"
      <4>1. copy.held \/ \E r \in rows' : r.type = "create"
        BY <1>0, <2>5, <3>2, <3>3, <3>4 DEF ContentInv, AnswerInv
      <4>2. CASE Unedited
        BY <2>1, <2>2, <3>4, <4>1, <4>2 DEF Unedited
      <4>3. CASE copy.held /\ copy.edited = text.ver
        BY <3>4, <4>1, <4>3
      <4>4. ASSUME NEW r \in rows, r.type = "update", r.ver = text.ver
            PROVE  \/ \E x \in rows' : x.type = "update" /\ x.ver = text.ver
                   \/ copy.held /\ copy.edited = text.ver
        <5>1. CASE r \in rows'
          BY <4>4, <5>1
        <5>2. CASE r \notin rows'
          <6>1. copy.held /\ text.ver <= copy.edited /\ copy.edited \in {0, copy.ver}
            BY <1>0, <2>5, <3>3, <3>4, <4>4, <5>2 DEF AnswerInv
          <6>2. copy \in Copies /\ copy.ver <= text.ver /\ text.ver \in Nat
            BY <6>1 DEF DrainInv, DeliveryInv, CopyInv, TypeInv, SourceInv, Messages
          <6> QED BY <6>1, <6>2 DEF Copies
        <5> QED BY <5>1, <5>2
      <4> QED BY <1>0, <3>2, <3>4, <4>1, <4>2, <4>3, <4>4 DEF ContentInv
    <3>5. CASE text.state = "deleted"
      BY <1>0, <2>5, <3>2, <3>3, <3>5 DEF ContentInv, AnswerInv
    <3> QED BY <3>4, <3>5
  <2>6. CASE post.at = "attribution_mismatch"
    BY <1>0, <2>1, <2>6 DEF ContentInv, AnswerInv
  <2>7. CASE ~Taken /\ post.at # "attribution_mismatch"
    <3>1. rows' = rows
      BY <2>1, <2>7 DEF Settled, Outcome, Taken
    <3>2. /\ \A r \in rows : \E x \in rows' : x.type = r.type /\ x.ver = r.ver
          /\ \A m \in net' : \E x \in net \cup rows : m.ver = x.ver
          /\ \A x \in rows' : \E r \in rows : r.ver = x.ver
      BY <2>1, <3>1
    <3> QED BY <1>1, <2>1, <2>4, <3>2
  <2> QED BY <2>5, <2>6, <2>7
<1>4. ASSUME UNCHANGED <<text, nextId, rows, welcome, cancelled, unqueued>>,
             UNCHANGED <<copy, tomb, job, kept>>,
             post' = post \/ post'.at = "idle",
             \A m \in net' : \E x \in net : m.id = x.id /\ m.type = x.type /\ m.ver = x.ver
                               /\ (m.live => post' = post /\ m = x)
      PROVE  PostInv' /\ AnswerInv' /\ ContentInv'
  <2>1. PostInv'
    <3>1. \A m \in net' :
            /\ m.id < nextId'
            /\ m.live => post'.at = "sent" /\ m.id = post'.id /\ m.type = post'.type
            /\ \A r \in rows' : m.id = r.id => r.offered /\ m.type = r.type /\ m.ver = r.ver
      BY <1>0, <1>4 DEF PostInv
    <3>2. \A m, n \in net' : m.live /\ n.live => m = n
      BY <1>0, <1>4 DEF PostInv
    <3> QED BY <1>0, <1>4, <3>1, <3>2 DEF PostInv
  <2>2. AnswerInv'
    BY <1>0, <1>4 DEF AnswerInv, Taken
  <2>3. ContentInv'
    <3>1. /\ \A r \in rows : \E x \in rows' : x.type = r.type /\ x.ver = r.ver
          /\ \A m \in net' : \E x \in net \cup rows : m.ver = x.ver
          /\ \A x \in rows' : \E r \in rows : r.ver = x.ver
      BY <1>4
    <3> QED BY <1>1, <1>4, <2>2, <3>1
  <2> QED BY <2>1, <2>2, <2>3
<1>5. CASE TimeOut
  <2>1. post'.at = "idle" /\ (\A m \in net : ~m.live)
        /\ UNCHANGED <<text, nextId, rows, welcome, cancelled, unqueued>>
        /\ UNCHANGED <<net, copy, tomb, job, kept>>
    BY <1>5 DEF TimeOut, NoPost
  <2>2. \A m \in net' : \E x \in net : m.id = x.id /\ m.type = x.type /\ m.ver = x.ver /\ ~m.live
    BY <2>1
  <2> QED BY <1>4, <2>1, <2>2
<1>6. CASE Abandon
  <2>1. post'.at = "idle" /\ net' = {[m EXCEPT !.live = FALSE] : m \in net}
        /\ UNCHANGED <<text, nextId, rows, welcome, cancelled, unqueued>>
        /\ UNCHANGED <<copy, tomb, job, kept>>
    BY <1>6 DEF Abandon, NoPost
  <2>2. \A m \in net : LET n == [m EXCEPT !.live = FALSE]
                       IN  n.id = m.id /\ n.type = m.type /\ n.ver = m.ver /\ ~n.live
    BY <1>0 DEF Requests
  <2>3. \A n \in net' : \E m \in net : n.id = m.id /\ n.type = m.type /\ n.ver = m.ver /\ ~n.live
    BY <2>1, <2>2
  <2> QED BY <1>4, <2>1, <2>3
<1>7. CASE LoseRequest
  <2>1. net' \subseteq net
        /\ UNCHANGED <<text, nextId, rows, welcome, cancelled, unqueued>>
        /\ UNCHANGED <<post, copy, tomb, job, kept>>
    BY <1>7 DEF LoseRequest
  <2>2. \A m \in net' : \E x \in net : m.id = x.id /\ m.type = x.type /\ m.ver = x.ver /\ m = x
    BY <2>1
  <2> QED BY <1>4, <2>1, <2>2
<1>8. CASE ExpireRow
  <2>1. rows' \subseteq rows /\ unqueued' = TRUE
        /\ UNCHANGED <<text, nextId, welcome, post, net, copy, tomb>>
    BY <1>8 DEF ExpireRow
  <2>2. PostInv'
    BY <1>0, <2>1 DEF PostInv
  <2>3. AnswerInv'
    BY <1>0, <2>1 DEF AnswerInv, Taken
  <2> QED BY <2>1, <2>2, <2>3 DEF ContentInv
<1> QED BY <1>2, <1>3, <1>5, <1>6, <1>7, <1>8 DEF Worker

\* A handler run by a pull or a retry run tells the worker nothing.
LEMMA DrainHandled ==
  ASSUME DrainInv, CopyInv', NEW e, e.type \in Types, e.ver \in Nat, Sound(e),
         Unedited => e.ver = text.ver,
         Take(Processed(e)) \/ UNCHANGED <<copy, tomb>>,
         UNCHANGED <<text, nextId, rows, post, net, welcome, cancelled, unqueued>>,
         Unedited => \A i \in DOMAIN job'.page :
                       job'.page[i].type # "none" => job'.page[i].ver = text.ver,
         Unedited => \A i \in DOMAIN kept' : kept'[i].ver = text.ver
  PROVE  PostInv' /\ AnswerInv' /\ ContentInv'
<1>1. PostInv /\ AnswerInv /\ copy \in Copies
  BY DEF DrainInv, DeliveryInv, CopyInv
<1>2. /\ tomb => tomb'
      /\ text.state = "live" /\ copy.held => copy'.held /\ copy.edited <= copy'.edited
      /\ copy'.held => copy'.edited \in {0, copy'.ver}
      /\ copy' = copy \/ (copy'.held => copy'.ver = e.ver)
  <2>1. CASE Take(Processed(e))
    BY <2>1, HandledDrains
  <2>2. CASE UNCHANGED <<copy, tomb>>
    BY <1>1, <2>2 DEF AnswerInv, Copies
  <2> QED BY <2>1, <2>2
<1>3. PostInv'
  BY <1>1 DEF PostInv
<1>4. AnswerInv'
  <2>1. copy'.held => copy' \in Copies
    BY DEF CopyInv
  <2>2. \A r \in rows : text.state = "live" /\ copy.held /\ r.ver <= copy.edited
          => r.ver <= copy'.edited
    <3>1. \A r \in rows : r.ver \in Nat
      BY DEF DrainInv, TypeInv, SourceInv, Rows
    <3> QED BY <1>1, <1>2, <2>1, <3>1 DEF Copies
  <2> QED BY <1>1, <1>2, <2>2 DEF AnswerInv, Taken
<1>5. Unedited => Unedited'
  BY <1>2 DEF Unedited
<1> QED BY <1>2, <1>3, <1>4, <1>5, ContentKept

LEMMA DrainRelay ==
  ASSUME ~Hydrates, DrainInv, CopyInv', Relay
  PROVE  PostInv' /\ AnswerInv' /\ ContentInv'
<1> USE DEF source, puller, place, lapses
<1>1. ~StartHydration /\ ~FinishHydration
  BY DEF StartHydration, FinishHydration, MayHydrate, DrainInv, DeliveryInv, NetInv
<1>2. PICK m \in net : Reply(m, Processed(m))
  BY <1>1 DEF Relay, Receive
<1>9. PICK result : result = Processed(m) /\ Reply(m, result)
  BY <1>2
<1>3. net' = net \ {m} /\ Take(result)
      /\ UNCHANGED <<text, nextId, rows, job, kept, welcome, cancelled, unqueued>>
      /\ (post' = post \/ (m.live /\ post' = [post EXCEPT !.at = result.reason]))
  <2>1. net' = net \ {m} /\ Take(result)
        /\ UNCHANGED <<text, nextId, rows, job, kept, welcome, cancelled, unqueued>>
    BY <1>9 DEF Reply
  <2>2. post' = post \/ (m.live /\ post' = [post EXCEPT !.at = result.reason])
    <3>1. CASE m.live
      BY <1>9, <3>1 DEF Reply
    <3>2. CASE ~m.live
      BY <1>9, <3>2 DEF Reply
    <3> QED BY <3>1, <3>2
  <2> QED BY <2>1, <2>2
<1>4. /\ PostInv /\ AnswerInv /\ post \in Posts /\ copy \in Copies /\ copy' \in Copies
      /\ m.type \in Types /\ m.ver \in Nat /\ Sound(m)
      /\ PlaceInv /\ \A r \in rows : r.ver \in Nat
  BY DEF DrainInv, DeliveryInv, CopyInv, NetInv, TypeInv, WireInv, SourceInv, Rows, Requests
<1>5. /\ tomb => tomb'
      /\ text.state = "live" /\ copy.held => copy'.held /\ copy.edited <= copy'.edited
      /\ copy'.held => copy'.edited \in {0, copy'.ver}
      /\ copy' = copy \/ (copy'.held => copy'.ver = m.ver)
      /\ result.reason = "attribution_mismatch" => ~welcome
      /\ result.reason \in {"accepted", "duplicate"} =>
           /\ m.type = "delete" => tomb'
           /\ m.type = "create" /\ text.state = "live" => copy'.held
           /\ m.type = "update" => copy'.held /\ m.ver <= copy'.edited
      /\ result.reason \in Reasons
  <2>1. result.reason \in Reasons
    BY <1>9, <1>4, HandledTyped
  <2> QED BY <1>9, <1>3, <1>4, <2>1, HandledDrains
<1>6. PostInv' /\ AnswerInv'
  <2>1. CASE post' = post
    <3>1. PostInv'
      BY <1>3, <1>4, <2>1 DEF PostInv
    <3>2. \A r \in rows : text.state = "live" /\ copy.held /\ r.ver <= copy.edited
            => r.ver <= copy'.edited
      BY <1>4, <1>5 DEF Copies
    <3>3. AnswerInv'
      BY <1>3, <1>4, <1>5, <2>1, <3>2 DEF AnswerInv, Taken
    <3> QED BY <3>1, <3>3
  <2>2. CASE m.live /\ post' = [post EXCEPT !.at = result.reason]
    <3>1. /\ post'.at = result.reason /\ post'.id = post.id /\ post'.type = post.type
          /\ post.at = "sent" /\ m.id = post.id /\ m.type = post.type
          /\ result.reason # "idle"
      BY <1>4, <1>5, <2>2 DEF PostInv, Posts, Reasons
    <3>2. \A n \in net' : ~n.live
      BY <1>3, <1>4, <2>2 DEF PostInv
    <3>3. PostInv'
      BY <1>3, <1>4, <3>1, <3>2 DEF PostInv
    <3>4. \A r \in rows : r.id = post.id => r.ver = m.ver
      BY <1>4, <3>1 DEF PostInv
    <3>5. AnswerInv'
      BY <1>3, <1>5, <3>1, <3>4 DEF AnswerInv, Taken
    <3> QED BY <3>3, <3>5
  <2> QED BY <1>3, <2>1, <2>2
<1>7. Unedited => Unedited'
  BY <1>3, <1>5 DEF Unedited
<1> QED BY <1>3, <1>5, <1>6, <1>7, ContentKept

LEMMA DrainPull ==
  ASSUME ~Hydrates, DrainInv, CopyInv', Pull
  PROVE  PostInv' /\ AnswerInv' /\ ContentInv'
<1> USE DEF source, replica, wire, place, lapses
<1>0. /\ PostInv /\ AnswerInv /\ ReadInv /\ SourceInv /\ TypeInv /\ cursor \in Nat
      /\ copy.edited <= copy.edited
  BY DEF DrainInv, TypeInv, ReadInv, SourceInv, DeliveryInv, CopyInv, Copies
<1>1. CASE PullPage
  <2>1. PICK since \in 0 .. cursor : \E upTo \in since .. Len(log) : ReadPage(since, upTo)
    BY <1>1 DEF PullPage
  <2>2. PICK upTo \in since .. Len(log) : ReadPage(since, upTo)
    BY <2>1
  <2> DEFINE page == [i \in 1 .. upTo - since |-> Served(since + i)]
  <2>3. /\ rows' = {[r EXCEPT !.offered = TRUE] : r \in rows} /\ job'.page = page
        /\ UNCHANGED <<text, nextId, post, net, copy, tomb, kept, welcome, cancelled, unqueued>>
    BY <2>2 DEF ReadPage
  <2>4. \A r \in rows : LET x == [r EXCEPT !.offered = TRUE]
                        IN  x.id = r.id /\ x.type = r.type /\ x.ver = r.ver /\ x.offered
    BY <1>0 DEF SourceInv, Rows
  <2>5. \A i \in DOMAIN page : page[i].type # "none" => page[i].ver = text.ver
    BY DEF Served
  <2> HIDE DEF page
  <2>6. /\ \A x \in rows' : \E r \in rows : x = [r EXCEPT !.offered = TRUE] /\ x.id = r.id
                              /\ x.type = r.type /\ x.ver = r.ver /\ x.offered
        /\ \A r \in rows : \E x \in rows' : x.id = r.id /\ x.type = r.type /\ x.ver = r.ver
    BY <2>3, <2>4
  <2>7. PostInv'
    <3>1. ASSUME NEW x \in rows', NEW y \in rows', x.id = y.id PROVE x = y
      <4>1. PICK r \in rows : x = [r EXCEPT !.offered = TRUE] /\ x.id = r.id
        BY <2>6
      <4>2. PICK q \in rows : y = [q EXCEPT !.offered = TRUE] /\ y.id = q.id
        BY <2>6
      <4>3. r = q
        BY <1>0, <3>1, <4>1, <4>2 DEF PostInv
      <4> QED BY <4>1, <4>2, <4>3
    <3>2. \A x \in rows' : x.offered /\ (post.at # "idle" /\ x.id = post.id => x.type = post.type)
                           /\ \A m \in net : m.id = x.id => m.type = x.type /\ m.ver = x.ver
      BY <1>0, <2>6 DEF PostInv
    <3> QED BY <1>0, <2>3, <3>1, <3>2 DEF PostInv
  <2>8. AnswerInv'
    BY <1>0, <2>3, <2>6 DEF AnswerInv, Taken
  <2>9. Unedited => Unedited'
    <3> SUFFICES ASSUME Unedited PROVE Unedited'
      OBVIOUS
    <3>1. \A x \in rows' : x.ver = text.ver
      BY <2>6 DEF Unedited
    <3> QED BY <2>3, <2>5, <3>1 DEF Unedited
  <2> QED BY <1>0, <2>3, <2>6, <2>7, <2>8, <2>9, ContentKept
<1>2. ASSUME job.page # <<>>, job' = NextInPage
      PROVE  Unedited => \A i \in DOMAIN job'.page :
                           job'.page[i].type # "none" => job'.page[i].ver = text.ver
  <2>1. job.page \in Seq(Events) /\ job'.page = Tail(job.page)
    BY <1>0, <1>2, PageTypes DEF Jobs
  <2>2. \A i \in DOMAIN Tail(job.page) : i + 1 \in DOMAIN job.page
          /\ Tail(job.page)[i] = job.page[i + 1]
    BY <1>2, <2>1, HeadTailProperties
  <2> QED BY <2>1, <2>2 DEF Unedited
<1>3. ASSUME job.page # <<>>, Head(job.page).type # "none"
      PROVE  LET e == Head(job.page)
             IN  /\ e.type \in Types /\ e.ver \in Nat /\ Sound(e) /\ e \in Events
                 /\ Unedited => e.ver = text.ver
  <2>1. job.page \in Seq(Events) /\ Head(job.page) \in Events
    BY <1>0, <1>3, PageTypes DEF Jobs
  <2>2. Head(job.page) = job.page[1] /\ 1 \in DOMAIN job.page
    BY <1>3, <2>1, HeadTailProperties
  <2>3. Sound(Head(job.page))
    BY <1>3, <2>2 DEF DrainInv, DeliveryInv, PullInv
  <2>4. Head(job.page).type \in Types /\ Head(job.page).ver \in Nat
    BY <1>3, <2>1 DEF Events
  <2> QED BY <1>3, <2>1, <2>2, <2>3, <2>4 DEF Unedited
\* What is kept is of the version of the rest.
<1>4. ASSUME NEW e \in Events, Unedited => e.ver = text.ver, Keep(e) \/ UNCHANGED kept
      PROVE  Unedited => \A i \in DOMAIN kept' : kept'[i].ver = text.ver
  <2>1. \A i \in DOMAIN kept' : (Keep(e) /\ kept'[i] = e) \/ \E k \in DOMAIN kept : kept'[i] = kept[k]
    BY <1>0, <1>4, KeepAddsOne DEF ReadInv
  <2> QED BY <1>4, <2>1 DEF Unedited
\* A step that runs no handler and sends nothing.
<1>5. ASSUME UNCHANGED <<text, nextId, rows, post, net, copy, tomb, welcome, cancelled, unqueued>>,
             Unedited => \A i \in DOMAIN job'.page :
                           job'.page[i].type # "none" => job'.page[i].ver = text.ver,
             Unedited => \A i \in DOMAIN kept' : kept'[i].ver = text.ver
      PROVE  PostInv' /\ AnswerInv' /\ ContentInv'
  <2>1. PostInv' /\ AnswerInv'
    BY <1>0, <1>5 DEF PostInv, AnswerInv, Taken
  <2>2. Unedited => Unedited'
    BY <1>5 DEF Unedited
  <2> QED BY <1>0, <1>5, <2>1, <2>2, ContentKept
<1>6. CASE SkipRow
  <2>1. job.page # <<>> /\ job' = NextInPage /\ UNCHANGED kept
        /\ UNCHANGED <<text, nextId, rows, post, net, copy, tomb, welcome, cancelled, unqueued>>
    BY <1>6 DEF SkipRow, InPage
  <2> QED BY <1>2, <1>5, <2>1 DEF Unedited
<1>7. CASE HoldBehindKept
  <2>1. job.page # <<>> /\ Head(job.page).type # "none" /\ job' = NextInPage
        /\ Keep(Head(job.page))
        /\ UNCHANGED <<text, nextId, rows, post, net, copy, tomb, welcome, cancelled, unqueued>>
    BY <1>7 DEF HoldBehindKept, InPage
  <2> QED BY <1>2, <1>3, <1>4, <1>5, <2>1
<1>8. CASE ApplyPulled
  <2> DEFINE e == Head(job.page)
  <2>1. job.page # <<>> /\ e.type # "none" /\ job' = NextInPage
        /\ Take(Processed(e)) /\ (Keep(e) \/ UNCHANGED kept)
        /\ UNCHANGED <<text, nextId, rows, post, net, welcome, cancelled, unqueued>>
    BY <1>8 DEF ApplyPulled, AppliedInPage, InPage
  <2>2. e.type \in Types /\ e.ver \in Nat /\ Sound(e) /\ e \in Events
        /\ (Unedited => e.ver = text.ver)
    BY <1>3, <2>1
  <2> HIDE DEF e
  <2> QED BY <1>2, <1>4, <2>1, <2>2, DrainHandled
<1>9. CASE EndPage
  <2>1. job' = NoJob /\ UNCHANGED kept
        /\ UNCHANGED <<text, nextId, rows, post, net, copy, tomb, welcome, cancelled, unqueued>>
    BY <1>9 DEF EndPage
  <2> QED BY <1>5, <2>1 DEF Unedited, NoJob
<1>10. ~SuspendPulled /\ ~FinishPulled
  BY DEF SuspendPulled, FinishPulled, MayHydrate, DrainInv, DeliveryInv, PullInv
<1> QED BY <1>1, <1>6, <1>7, <1>8, <1>9, <1>10 DEF Pull

LEMMA DrainRest ==
  ASSUME ~Hydrates, DrainInv, CopyInv', Retry \/ BecomeReady \/ StopReceiver \/ UNCHANGED vars
  PROVE  PostInv' /\ AnswerInv' /\ ContentInv'
<1> USE DEF source, replica, wire, puller, place, lapses
<1>0. /\ PostInv /\ AnswerInv /\ kept \in Seq(Events) /\ copy.edited <= copy.edited
      /\ net \subseteq Requests
  BY DEF DrainInv, TypeInv, ReadInv, WireInv, DeliveryInv, CopyInv, Copies
<1>1. ASSUME kept # <<>>, kept' \in {kept, Tail(kept)}
      PROVE  LET e == Head(kept)
             IN  /\ e.type \in Types /\ e.ver \in Nat /\ Sound(e)
                 /\ Unedited => e.ver = text.ver
                 /\ Unedited => \A i \in DOMAIN kept' : kept'[i].ver = text.ver
  <2>1. Head(kept) = kept[1] /\ 1 \in DOMAIN kept /\ kept[1] \in Events
        /\ \A i \in DOMAIN Tail(kept) : i + 1 \in DOMAIN kept /\ Tail(kept)[i] = kept[i + 1]
    BY <1>0, <1>1, HeadTailProperties
  <2>2. kept[1].type # "none" /\ Sound(kept[1])
    BY <2>1 DEF DrainInv, DeliveryInv, KeptInv
  <2>3. kept[1].type \in Types /\ kept[1].ver \in Nat
    BY <2>1, <2>2 DEF Events
  <2>4. Unedited => \A i \in DOMAIN kept' : kept'[i].ver = text.ver
    BY <1>1, <2>1 DEF Unedited
  <2>5. Unedited => kept[1].ver = text.ver
    BY <2>1 DEF Unedited
  <2> QED BY <2>1, <2>2, <2>3, <2>4, <2>5
<1>2. job' \in {AfterKept, NoJob} => job'.page = <<>>
  BY DEF AfterKept, NoJob
\* A step that runs no handler.
<1>3. ASSUME UNCHANGED <<text, nextId, rows, post, copy, tomb, welcome, cancelled, unqueued>>,
             net' \subseteq net,
             Unedited => \A i \in DOMAIN job'.page :
                           job'.page[i].type # "none" => job'.page[i].ver = text.ver,
             Unedited => \A i \in DOMAIN kept' : kept'[i].ver = text.ver
      PROVE  PostInv' /\ AnswerInv' /\ ContentInv'
  <2>1. PostInv' /\ AnswerInv'
    BY <1>0, <1>3 DEF PostInv, AnswerInv, Taken
  <2>2. Unedited => Unedited'
    BY <1>3 DEF Unedited
  <2> QED BY <1>0, <1>3, <2>1, <2>2, ContentKept
<1>4. CASE RetryKept
  <2> DEFINE e == Head(kept)
  <2>1. kept # <<>> /\ Take(Processed(e)) /\ job' = AfterKept /\ kept' \in {kept, Tail(kept)}
        /\ UNCHANGED <<text, nextId, rows, post, net, welcome, cancelled, unqueued>>
    BY <1>4 DEF RetryKept, MayRetry, Retried, AfterRetry
  <2>2. /\ e.type \in Types /\ e.ver \in Nat /\ Sound(e) /\ (Unedited => e.ver = text.ver)
        /\ Unedited => \A i \in DOMAIN kept' : kept'[i].ver = text.ver
    BY <1>1, <2>1
  <2>3. job'.page = <<>>
    BY <1>2, <2>1
  <2> HIDE DEF e
  <2> QED BY <2>1, <2>2, <2>3, DrainHandled
<1>5. CASE DropKept
  <2>1. kept # <<>> /\ job' = AfterKept /\ kept' = Tail(kept)
        /\ UNCHANGED <<text, nextId, rows, post, net, copy, tomb, welcome, cancelled, unqueued>>
    BY <1>5 DEF DropKept, MayRetry
  <2> QED BY <1>1, <1>2, <1>3, <2>1
<1>6. ~SuspendKept /\ ~FinishKept
  BY DEF SuspendKept, FinishKept, MayHydrate, DrainInv, DeliveryInv, PullInv
<1>7. CASE BecomeReady
  BY <1>3, <1>7 DEF BecomeReady, Unedited
<1>8. CASE StopReceiver
  <2>1. job' = NoJob /\ net' \subseteq net
        /\ UNCHANGED <<text, nextId, rows, post, copy, tomb, kept, welcome, cancelled, unqueued>>
    BY <1>8 DEF StopReceiver
  <2> QED BY <1>2, <1>3, <2>1 DEF Unedited
<1>9. CASE UNCHANGED vars
  BY <1>3, <1>9 DEF vars, Unedited
<1> QED BY <1>4, <1>5, <1>6, <1>7, <1>8, <1>9 DEF Retry

LEMMA DrainStep == ASSUME ~Hydrates, DrainInv, [Next]_vars PROVE DrainInv'
<1>1. DeliveryInv' /\ CopyInv'
  BY DeliveryStep DEF DrainInv, DeliveryInv
<1>2. TypeInv' /\ CancelInv'
  BY CancelStep DEF DrainInv, SilentInv
<1>3. PostInv' /\ AnswerInv' /\ ContentInv'
  BY <1>1, DrainWrite, DrainEdit, DrainWorker, DrainRelay, DrainPull, DrainRest DEF Next, Author
<1> QED BY <1>1, <1>2, <1>3 DEF DrainInv

LEMMA DrainStart == ASSUME Init PROVE DrainInv
<1>1. DeliveryInv /\ TypeInv
  BY DeliveryStart, TypedStart
<1>2. CancelInv
  BY DEF Init, CancelInv, Unoffered, Unsaid, Silent, NoCopy, NoJob
<1>3. PostInv /\ AnswerInv /\ ContentInv
  BY DEF Init, PostInv, AnswerInv, ContentInv, Taken, NoPost, NoCopy
<1> QED BY <1>1, <1>2, <1>3 DEF DrainInv

\* As long as no create waits for an image, a queue that has nothing left and
\* lost nothing has done its work: the copy is what the author made of the
\* message, whatever was sent twice or late and whatever the pull brought.
THEOREM DrainedCorrect == ASSUME ~Hydrates PROVE Spec => []DrainedAgrees
<1>1. Init => DrainInv
  BY DrainStart
<1>2. DrainInv /\ [Next]_vars => DrainInv'
  BY DrainStep
<1>3. DrainInv => DrainedAgrees
  <2> SUFFICES ASSUME DrainInv, rows = {}, ~unqueued, welcome PROVE CopyAgrees
    BY DEF DrainedAgrees
  <2>1. CopyInv /\ ContentInv /\ AnswerInv /\ CancelInv /\ text \in Messages
    BY DEF DrainInv, DeliveryInv, TypeInv, SourceInv
  <2>2. CASE text.state = "none"
    BY <2>1, <2>2 DEF CopyInv, CopyAgrees
  <2>3. CASE text.state = "live"
    <3>1. copy.held /\ (Unedited \/ copy.edited = text.ver)
      BY <2>1, <2>3 DEF ContentInv
    <3>2. copy.ver = text.ver
      <4>1. copy.ver \in Nat /\ copy.ver <= text.ver /\ copy.edited \in {0, copy.ver}
            /\ text.ver \in Nat
        BY <2>1, <3>1 DEF CopyInv, AnswerInv, Copies, Messages
      <4> QED BY <3>1, <4>1 DEF Unedited
    <3> QED BY <2>3, <3>1, <3>2 DEF CopyAgrees
  <2>4. CASE text.state = "deleted"
    <3>1. tomb \/ cancelled
      BY <2>1, <2>4 DEF ContentInv
    <3>2. ~copy.held
      BY <2>1, <3>1 DEF CopyInv, CancelInv, Unsaid, Silent
    <3> QED BY <2>4, <3>2 DEF CopyAgrees
  <2> QED BY <2>1, <2>2, <2>3, <2>4 DEF Messages
<1> QED BY <1>1, <1>2, <1>3, PTL DEF Spec

-----------------------------------------------------------------------------
(* A pull that has caught up *)

\* The last log row the receiver has consumed: a page overlaps what was read.
Done ==
  IF job.kind = "pull" /\ job.upTo - Len(job.page) > cursor
  THEN job.upTo - Len(job.page) ELSE cursor

\* A served event says what its log row says; the last row's has seen it all.
Faithful(e) ==
  /\ e.at \in DOMAIN log
  /\ e.type # "none" => e.type = log[e.at]
  /\ e.type = "none" => text.state = "deleted" /\ e.at < Len(log)
  /\ e.at = Len(log) => e.ver = text.ver

LogShape ==
  /\ text.state # "none" => 1 \in DOMAIN log
  /\ \A i \in DOMAIN log : log[i] = "create" <=> i = 1
  /\ text.state = "deleted" => log[Len(log)] = "delete"
  /\ Len(log) = 1 => text.ver = 0

\* The page and the kept events are in the log's order.
OrderInv ==
  /\ LogShape
  /\ Len(job.page) <= job.upTo
  /\ \A k \in DOMAIN job.page :
       Faithful(job.page[k]) /\ job.page[k].at = job.upTo - Len(job.page) + k
  /\ \A k \in DOMAIN kept : Faithful(kept[k])
  /\ \A i, j \in DOMAIN kept : i <= j => kept[i].at <= kept[j].at

HasCreate == copy.held \/ \E k \in DOMAIN kept : kept[k].type = "create"

HasLatest ==
  \/ copy.held /\ copy.edited = text.ver
  \/ \E k \in DOMAIN kept : kept[k].type = "update" /\ kept[k].ver = text.ver

HasDelete == tomb \/ \E k \in DOMAIN kept : kept[k].type = "delete"

\* What was consumed shows in the copy, or is kept for it.
CaughtInv ==
  welcome /\ ~dropped =>
    /\ text.state = "live" =>
         /\ Done >= 1 => HasCreate
         /\ Done = Len(log) /\ Len(log) > 1 => HasLatest
    /\ text.state = "deleted" /\ Done = Len(log) => HasDelete

CatchInv == DrainInv /\ OrderInv /\ CaughtInv

\* The handlers' part of it: what a copy may lose.
CopyGrows ==
  /\ tomb => tomb'
  /\ text.state = "live" /\ copy.held => copy'.held /\ copy.edited <= copy'.edited

LEMMA CatchTypes ==
  ASSUME CatchInv
  PROVE  /\ text \in Messages /\ text.ver \in Nat
         /\ log \in Seq(Types) /\ Len(log) \in Nat /\ DOMAIN log = 1 .. Len(log)
         /\ (text.state = "none" => log = <<>>)
         /\ \A i \in DOMAIN log : log[i] = "delete" => text.state = "deleted"
         /\ cursor \in 0 .. Len(log) /\ job \in Jobs /\ job.upTo \in 0 .. Len(log)
         /\ job.page \in Seq(Events) /\ Len(job.page) \in Nat
         /\ kept \in Seq(Events) /\ (\A k \in DOMAIN kept : kept[k].type # "none")
         /\ copy \in Copies /\ Done \in 0 .. Len(log) /\ cursor <= Done
<1>1. /\ text \in Messages /\ log \in Seq(Types) /\ (text.state = "none" => log = <<>>)
      /\ \A i \in DOMAIN log : log[i] = "delete" => text.state = "deleted"
      /\ cursor \in 0 .. Len(log) /\ job \in Jobs /\ job.upTo \in 0 .. Len(log)
      /\ kept \in Seq(Events) /\ (\A k \in DOMAIN kept : kept[k].type # "none")
      /\ copy \in Copies
  BY DEF CatchInv, DrainInv, TypeInv, SourceInv, ReadInv, PlaceInv, DeliveryInv, LogInv
<1>2. text.ver \in Nat /\ Len(log) \in Nat /\ DOMAIN log = 1 .. Len(log)
      /\ job.page \in Seq(Events) /\ Len(job.page) \in Nat
  BY <1>1 DEF Messages, Jobs
<1>3. Done \in 0 .. Len(log) /\ cursor <= Done
  BY <1>1, <1>2 DEF Done
<1> QED BY <1>1, <1>2, <1>3

\* An edit's time can only be the last one's when it is as late.
LEMMA LatestEdit ==
  ASSUME CatchInv, CopyInv', AnswerInv', UNCHANGED text,
         copy'.held, text.ver <= copy'.edited
  PROVE  copy'.edited = text.ver
<1>1. copy' \in Copies /\ copy'.ver <= text.ver /\ copy'.edited \in {0, copy'.ver}
  BY DEF CopyInv, AnswerInv
<1> QED BY <1>1, CatchTypes DEF Copies

\* As long as nothing more is consumed, what may happen to the copy is no loss.
LEMMA CaughtKept ==
  ASSUME CatchInv, CopyInv', AnswerInv', CopyGrows, dropped => dropped',
         UNCHANGED <<text, log, welcome, kept>>, Done' \in {Done, cursor}
  PROVE  CaughtInv'
<1>1. /\ text.state = "live" => (HasCreate => HasCreate') /\ (HasLatest => HasLatest')
      /\ HasDelete => HasDelete'
  <2>1. text.state = "live" /\ copy.held /\ copy.edited = text.ver
          => copy'.held /\ copy'.edited = text.ver
    BY LatestEdit DEF CopyGrows
  <2> QED BY <2>1 DEF CopyGrows, HasCreate, HasLatest, HasDelete
<1>2. Done \in 0 .. Len(log) /\ cursor \in 0 .. Len(log) /\ cursor <= Done /\ Len(log) \in Nat
  BY CatchTypes
<1>3. (Done' >= 1 => Done >= 1) /\ (Done' = Len(log) => Done = Len(log))
  BY <1>2
<1>4. welcome' /\ ~dropped' => welcome /\ ~dropped
  BY DEF CatchInv, DrainInv, TypeInv, PlaceInv
<1> QED BY <1>1, <1>3, <1>4 DEF CatchInv, CaughtInv

\* A receiver without a page keeps its events in order.
LEMMA OrderIdle ==
  ASSUME CatchInv, UNCHANGED <<text, log, kept>>, job'.page = <<>>, job'.upTo \in Nat
  PROVE  OrderInv'
<1>1. LogShape' /\ (\A k \in DOMAIN kept : Faithful(kept[k]))'
  BY DEF CatchInv, OrderInv, LogShape, Faithful
<1> QED BY <1>1 DEF CatchInv, OrderInv

\* Whatever runs beside the pull.
LEMMA CaughtBeside ==
  ASSUME CatchInv, CopyInv', AnswerInv', CopyGrows, dropped => dropped',
         UNCHANGED <<text, log, welcome, cursor, kept>>, job' \in {job, NoJob}
  PROVE  OrderInv' /\ CaughtInv'
<1>1. NoJob.page = <<>> /\ NoJob.upTo = 0 /\ NoJob.kind = "idle"
  BY DEF NoJob
<1>2. Done' \in {Done, cursor}
  BY <1>1, CatchTypes DEF Done
<1>3. CASE job' = job
  BY <1>2, <1>3, CaughtKept DEF CatchInv, OrderInv, LogShape, Faithful
<1>4. CASE job' = NoJob
  BY <1>1, <1>2, <1>4, CaughtKept, OrderIdle
<1> QED BY <1>3, <1>4

\* What the author does is not consumed yet.
LEMMA CaughtAuthor == ASSUME CatchInv, Author PROVE OrderInv' /\ CaughtInv'
<1>1. PICK type \in Types :
        /\ log' = Append(log, type) /\ text.state # "deleted"
        /\ text'.state = IF type = "delete" THEN "deleted" ELSE "live"
        /\ type = "create" <=> text.state = "none"
        /\ text'.ver = IF type = "update" THEN text.ver + 1 ELSE text.ver
        /\ UNCHANGED <<cursor, job, kept, copy, tomb, welcome, dropped>>
  <2>1. text \in Messages
    BY CatchTypes
  <2>2. CASE CreateMessage
    BY <2>1, <2>2 DEF CreateMessage, Written, replica, puller, place, Messages, Types
  <2>3. CASE EditMessage
    BY <2>1, <2>3 DEF EditMessage, Written, replica, puller, place, Messages, Types
  <2>4. CASE DeleteMessage
    BY <2>1, <2>4 DEF DeleteMessage, Written, replica, puller, place, Messages, Types
  <2> QED BY <2>2, <2>3, <2>4 DEF Author
<1>2. /\ log' \in Seq(Types) /\ Len(log') = Len(log) + 1 /\ log'[Len(log) + 1] = type
      /\ \A i \in DOMAIN log : log'[i] = log[i]
      /\ DOMAIN log' = 1 .. Len(log) + 1 /\ DOMAIN log = 1 .. Len(log) /\ Len(log) \in Nat
  BY <1>1, CatchTypes, AppendProperties
<1>3. type = "create" => Len(log) = 0 /\ text.ver = 0
  BY <1>1, CatchTypes DEF CatchInv, DrainInv, PostInv
<1>4. type # "create" => 1 \in DOMAIN log
  BY <1>1 DEF CatchInv, OrderInv, LogShape
<1>5. LogShape'
  <2>1. \A i \in DOMAIN log' : i \in DOMAIN log \/ i = Len(log) + 1
    BY <1>2
  <2>2. \A i \in DOMAIN log' : log'[i] = "create" <=> i = 1
    BY <1>2, <1>3, <1>4, <2>1 DEF CatchInv, OrderInv, LogShape
  <2>3. 1 \in DOMAIN log' /\ (text'.state = "deleted" => log'[Len(log')] = "delete")
    BY <1>1, <1>2
  <2>4. Len(log') = 1 => text'.ver = 0
    BY <1>1, <1>2, <1>3, <1>4
  <2> QED BY <2>2, <2>3, <2>4 DEF LogShape
<1>6. \A e \in Events : Faithful(e) => Faithful(e)'
  BY <1>1, <1>2 DEF Faithful, Events
<1>7. OrderInv'
  <2>1. \A k \in DOMAIN job.page : job.page[k] \in Events
    BY CatchTypes
  <2>2. \A k \in DOMAIN kept : kept[k] \in Events
    BY CatchTypes
  <2> QED BY <1>1, <1>5, <1>6, <2>1, <2>2 DEF CatchInv, OrderInv
<1>8. CaughtInv'
  <2>1. Done' = Done /\ Done \in 0 .. Len(log) /\ Done' # Len(log')
    BY <1>1, <1>2, CatchTypes DEF Done
  <2>2. Done' >= 1 => text.state # "none"
    BY <1>2, <2>1, CatchTypes
  <2>3. text.state \in {"none", "live"} /\ (HasCreate => HasCreate')
    BY <1>1, CatchTypes DEF Messages, HasCreate
  <2> QED BY <1>1, <2>1, <2>2, <2>3 DEF CatchInv, CaughtInv
<1> QED BY <1>7, <1>8

\* What the receiver does with an event that it does not have to keep.
LEMMA HandledSettles ==
  ASSUME CatchInv, NEW e, e.type \in Types, e.ver \in Nat, Sound(e), Take(Processed(e))
  PROVE  /\ CopyGrows
         /\ welcome /\ PulledOutcome(Processed(e).reason) # "retry" =>
              /\ e.type = "delete" => tomb'
              /\ e.type = "create" /\ text.state = "live" => copy'.held
              /\ e.type = "update" /\ copy.held => copy'.held /\ e.ver <= copy'.edited
<1>1. CopyGrows
  BY HandledDrains DEF CopyGrows, CatchInv
<1> SUFFICES ASSUME welcome, PulledOutcome(Processed(e).reason) # "retry"
             PROVE  /\ e.type = "delete" => tomb'
                    /\ e.type = "create" /\ text.state = "live" => copy'.held
                    /\ e.type = "update" /\ copy.held => copy'.held /\ e.ver <= copy'.edited
  BY <1>1
<1>2. \/ Processed(e).reason \in {"accepted", "duplicate"}
      \/ Processed(e).reason = "attribution_mismatch"
      \/ Processed(e).reason = "unknown_message"
  BY DEF PulledOutcome, Outcome
<1>3. Processed(e).reason # "attribution_mismatch"
  BY HandledDrains DEF CatchInv
<1>4. CASE Processed(e).reason = "unknown_message"
  <2>1. e.type = "create" => Processed(e) = ProcessCreate(e)
    BY DEF Processed
  <2>2. e.type = "update" => Processed(e) = ProcessUpdate(e)
    BY DEF Processed
  <2>3. e.type = "delete" => Processed(e) = ProcessDelete(e)
    BY DEF Processed
  <2>4. ProcessCreate(e).reason # "unknown_message" /\ ProcessDelete(e).reason # "unknown_message"
    BY DEF ProcessCreate, ProcessDelete, InsertMessage, Answer, Store
  <2>5. copy.held => ProcessUpdate(e).reason # "unknown_message"
    BY DEF ProcessUpdate, Answer, Store
  <2> QED BY <1>4, <2>1, <2>2, <2>3, <2>4, <2>5
<1> QED BY <1>2, <1>3, <1>4, HandledDrains DEF CatchInv

\* One more row of the page is consumed.
LEMMA CaughtRow ==
  ASSUME CatchInv, CopyInv', AnswerInv', CopyGrows,
         job.kind = "pull", job.page # <<>>, job' = NextInPage,
         UNCHANGED <<text, log, cursor, welcome, dropped>>,
         kept' \in Seq(Events),
         kept' = kept \/ Keep(Head(job.page)),
         welcome /\ Head(job.page).type = "create" /\ text.state = "live" => HasCreate',
         welcome /\ Head(job.page).type = "update" /\ text.state = "live"
           /\ Head(job.page).ver = text.ver /\ HasCreate => HasLatest',
         welcome /\ Head(job.page).type = "delete" => HasDelete'
  PROVE  OrderInv' /\ CaughtInv'
<1> DEFINE e == Head(job.page)
           n == job.upTo - Len(job.page)
<1>1. /\ e = job.page[1] /\ 1 \in DOMAIN job.page /\ e \in Events
      /\ job'.page = Tail(job.page) /\ job'.upTo = job.upTo /\ job'.kind = "pull"
      /\ Len(Tail(job.page)) = Len(job.page) - 1
      /\ \A i \in DOMAIN Tail(job.page) : i + 1 \in DOMAIN job.page
           /\ Tail(job.page)[i] = job.page[i + 1]
  BY CatchTypes, PageTypes, HeadTailProperties DEF CatchInv, DrainInv
<1>2. Faithful(e) /\ e.at = n + 1 /\ n \in Nat /\ e.at \in DOMAIN log
  <2>1. Faithful(e) /\ e.at = n + 1 /\ Len(job.page) <= job.upTo
    BY <1>1 DEF CatchInv, OrderInv
  <2> QED BY <2>1, CatchTypes DEF Faithful
<1>4. OrderInv'
  <2>1. LogShape'
    BY DEF CatchInv, OrderInv, LogShape
  <2>2. Len(job'.page) <= job'.upTo
    BY <1>1, CatchTypes DEF CatchInv, OrderInv
  <2>3. \A k \in DOMAIN Tail(job.page) :
          Faithful(Tail(job.page)[k])
            /\ Tail(job.page)[k].at = job.upTo - (Len(job.page) - 1) + k
    <3> SUFFICES ASSUME NEW k \in DOMAIN Tail(job.page)
                 PROVE  Faithful(Tail(job.page)[k])
                          /\ Tail(job.page)[k].at = job.upTo - (Len(job.page) - 1) + k
      OBVIOUS
    <3>1. k + 1 \in DOMAIN job.page /\ Tail(job.page)[k] = job.page[k + 1]
      BY <1>1
    <3>2. Faithful(job.page[k + 1]) /\ job.page[k + 1].at = job.upTo - Len(job.page) + (k + 1)
      BY <3>1 DEF CatchInv, OrderInv
    <3>3. k \in Int /\ job.upTo \in Int /\ Len(job.page) \in Int
      BY <1>1, CatchTypes
    <3> QED BY <3>1, <3>2, <3>3
  <2>4. \A k \in DOMAIN kept' : Faithful(kept'[k])
    <3>1. \A k \in DOMAIN kept' : kept'[k] = e \/ \E i \in DOMAIN kept : kept'[k] = kept[i]
      BY <1>1, CatchTypes, KeepAddsOne
    <3> QED BY <1>2, <3>1 DEF CatchInv, OrderInv
  <2>5. \A i, j \in DOMAIN kept' : i <= j => kept'[i].at <= kept'[j].at
    BY <1>1, CatchTypes, KeepOrders DEF CatchInv, OrderInv
  <2>6. (\A k \in DOMAIN job.page :
           Faithful(job.page[k]) /\ job.page[k].at = job.upTo - Len(job.page) + k)'
    BY <1>1, <2>3 DEF Faithful
  <2>7. (\A k \in DOMAIN kept : Faithful(kept[k]))'
    BY <2>4 DEF Faithful
  <2> QED BY <2>1, <2>2, <2>5, <2>6, <2>7 DEF OrderInv
<1>5. Done' \in {Done, e.at} /\ n <= Done /\ (Done' = Done \/ (Done' = e.at /\ cursor <= n))
  <2>1. job'.upTo - Len(job'.page) = n + 1 /\ job'.kind = "pull" /\ cursor \in Nat
    BY <1>1, CatchTypes
  <2>2. Done = IF n > cursor THEN n ELSE cursor
    BY DEF Done
  <2>3. Done' = IF n + 1 > cursor THEN n + 1 ELSE cursor
    BY <2>1 DEF Done
  <2> HIDE DEF e, n
  <2> QED BY <1>2, <2>1, <2>2, <2>3
<1>6. \A k \in DOMAIN kept : \E i \in DOMAIN kept' : kept'[i] = kept[k]
  BY <1>1, CatchTypes, KeepOrders
<1>7. /\ text.state = "live" => (HasCreate => HasCreate') /\ (HasLatest => HasLatest')
      /\ HasDelete => HasDelete'
  <2>1. text.state = "live" /\ copy.held /\ copy.edited = text.ver
          => copy'.held /\ copy'.edited = text.ver
    BY LatestEdit DEF CopyGrows
  <2> QED BY <1>6, <2>1 DEF CopyGrows, HasCreate, HasLatest, HasDelete
<1> HIDE DEF e, n
<1>8. CaughtInv'
  <2> SUFFICES ASSUME welcome', ~dropped'
               PROVE  /\ text.state = "live" =>
                           /\ Done' >= 1 => HasCreate'
                           /\ Done' = Len(log) /\ Len(log) > 1 => HasLatest'
                      /\ text.state = "deleted" /\ Done' = Len(log) => HasDelete'
    BY DEF CaughtInv
  <2>1. welcome /\ ~dropped
    OBVIOUS
  <2>2. CASE Done' = Done
    BY <1>7, <2>1, <2>2 DEF CatchInv, CaughtInv
  <2>3. CASE Done' = e.at /\ cursor <= n
    <3>1. ASSUME text.state = "live" PROVE HasCreate'
      <4>1. CASE Done >= 1
        BY <1>7, <2>1, <3>1, <4>1 DEF CatchInv, CaughtInv
      <4>2. CASE ~(Done >= 1)
        <5>1. e.at = 1
          BY <1>2, <1>5, <4>2, CatchTypes
        <5>2. e.type = "create"
          BY <1>2, <3>1, <5>1 DEF Faithful, CatchInv, OrderInv, LogShape
        <5> QED BY <2>1, <3>1, <5>2 DEF e
      <4> QED BY <4>1, <4>2
    <3>2. ASSUME text.state = "live", Done' = Len(log), Len(log) > 1 PROVE HasLatest'
      <4>1. Done >= 1 /\ e.at # 1 /\ e.at = Len(log)
        BY <1>2, <1>5, <2>3, <3>2, CatchTypes
      <4>2. HasCreate
        BY <2>1, <3>2, <4>1 DEF CatchInv, CaughtInv
      <4>3. e.type = log[e.at] /\ e.ver = text.ver
        BY <1>2, <3>2, <4>1 DEF Faithful
      <4>4. e.type = "update"
        <5>1. log[e.at] \in Types /\ log[e.at] # "create" /\ log[e.at] # "delete"
          BY <1>2, <3>2, <4>1, CatchTypes DEF CatchInv, OrderInv, LogShape
        <5> QED BY <4>3, <5>1 DEF Types
      <4> QED BY <2>1, <3>2, <4>2, <4>3, <4>4 DEF e
    <3>3. ASSUME text.state = "deleted", Done' = Len(log) PROVE HasDelete'
      <4>1. e.type = "delete"
        BY <1>2, <2>3, <3>3, CatchTypes DEF Faithful, CatchInv, OrderInv, LogShape
      <4> QED BY <2>1, <4>1 DEF e
    <3> QED BY <3>1, <3>2, <3>3
  <2> QED BY <1>5, <2>2, <2>3
<1> QED BY <1>4, <1>8

LEMMA CopyStays == ASSUME CatchInv, UNCHANGED <<copy, tomb>> PROVE CopyGrows
BY CatchTypes DEF CopyGrows, Copies

LEMMA CaughtPull ==
  ASSUME ~Hydrates, CatchInv, CopyInv', AnswerInv', Pull
  PROVE  OrderInv' /\ CaughtInv'
<1> USE DEF source, replica, wire, place, lapses
<1>1. CASE PullPage
  <2>1. PICK since \in 0 .. cursor : \E upTo \in since .. Len(log) : ReadPage(since, upTo)
    BY <1>1 DEF PullPage
  <2>2. PICK upTo \in since .. Len(log) : ReadPage(since, upTo)
    BY <2>1
  <2> DEFINE page == [i \in 1 .. upTo - since |-> Served(since + i)]
  <2>3. /\ job'.page = page /\ job'.upTo = upTo /\ job'.kind = "pull"
        /\ UNCHANGED <<text, log, copy, tomb, cursor, kept, welcome, dropped>>
    BY <2>2 DEF ReadPage
  <2>4. since \in Nat /\ upTo \in Nat /\ since <= upTo /\ upTo - since \in Nat /\ since <= cursor
        /\ cursor \in Nat /\ Len(log) \in Nat
    BY CatchTypes
  <2>5. page \in Seq(Events) /\ Len(page) = upTo - since
    <3>1. job'.page \in Seq(Events)
      BY CatchTypes, PageTyped, <2>2, <2>4 DEF CatchInv, DrainInv, TypeInv, ReadInv, Jobs
    <3>2. DOMAIN page = 1 .. upTo - since
      OBVIOUS
    <3> HIDE DEF page
    <3> QED BY <2>3, <2>4, <3>1, <3>2
  <2>6. \A i \in 1 .. upTo - since : Faithful(Served(since + i)) /\ Served(since + i).at = since + i
    <3> SUFFICES ASSUME NEW i \in 1 .. upTo - since
                 PROVE  Faithful(Served(since + i)) /\ Served(since + i).at = since + i
      OBVIOUS
    <3>1. since + i \in DOMAIN log /\ since + i \in Nat /\ since + i <= Len(log)
      BY <2>4, CatchTypes
    <3>2. log[since + i] = "delete" => text.state = "deleted"
      BY <3>1, CatchTypes
    <3>3. log[since + i] \in Types /\ (text.state = "deleted" => log[Len(log)] = "delete")
      BY <3>1, CatchTypes DEF CatchInv, OrderInv, LogShape
    <3>4. Served(since + i).at = since + i
      BY DEF Served
    <3>5. Served(since + i).type # "none" => Served(since + i).type = log[since + i]
      BY DEF Served
    <3>6. Served(since + i).type = "none" => text.state = "deleted" /\ since + i # Len(log)
      BY <3>3 DEF Served, Types
    <3>7. Served(since + i).type # "none" => Served(since + i).ver = text.ver
      BY DEF Served
    <3> QED BY <3>1, <3>4, <3>5, <3>6, <3>7, <2>4 DEF Faithful
  <2>7. \A k \in DOMAIN page : Faithful(page[k]) /\ page[k].at = upTo - Len(page) + k
    <3>1. \A k \in 1 .. upTo - since : Faithful(page[k]) /\ page[k].at = since + k
      BY <2>6
    <3> HIDE DEF page
    <3> QED BY <2>4, <2>5, <3>1
  <2> HIDE DEF page
  <2>8. OrderInv'
    <3>1. LogShape' /\ (\A k \in DOMAIN kept : Faithful(kept[k]))'
      BY <2>3 DEF CatchInv, OrderInv, LogShape, Faithful
    <3>2. (\A k \in DOMAIN job.page :
             Faithful(job.page[k]) /\ job.page[k].at = job.upTo - Len(job.page) + k)'
      BY <2>3, <2>7 DEF Faithful
    <3> QED BY <2>3, <2>4, <2>5, <3>1, <3>2 DEF CatchInv, OrderInv
  <2>9. Done' = cursor
    BY <2>3, <2>4, <2>5 DEF Done
  <2> QED BY <2>3, <2>8, <2>9, CopyStays, CaughtKept
<1>2. CASE SkipRow
  <2>1. job.kind = "pull" /\ job.page # <<>> /\ job' = NextInPage /\ Head(job.page).type = "none"
        /\ UNCHANGED <<text, log, copy, tomb, cursor, kept, welcome, dropped>>
    BY <1>2 DEF SkipRow, InPage
  <2>2. kept' \in Seq(Events)
    BY <2>1, CatchTypes
  <2> QED BY <2>1, <2>2, CopyStays, CaughtRow
<1>3. CASE HoldBehindKept
  <2>1. job.kind = "pull" /\ job.page # <<>> /\ job' = NextInPage /\ Keep(Head(job.page))
        /\ UNCHANGED <<text, log, copy, tomb, cursor, welcome, dropped>>
    BY <1>3 DEF HoldBehindKept, InPage
  <2>2. kept \in Seq(Events) /\ Head(job.page) \in Events
    BY <2>1, CatchTypes, PageTypes DEF CatchInv, DrainInv
  <2>3. kept' \in Seq(Events) /\ \E i \in DOMAIN kept' : kept'[i] = Head(job.page)
    BY <2>1, <2>2, KeepAddsOne, KeepOrders
  <2>4. /\ Head(job.page).type = "create" => HasCreate'
        /\ Head(job.page).type = "update" /\ Head(job.page).ver = text.ver => HasLatest'
        /\ Head(job.page).type = "delete" => HasDelete'
    BY <2>1, <2>3 DEF HasCreate, HasLatest, HasDelete
  <2> QED BY <2>1, <2>3, <2>4, CopyStays, CaughtRow
<1>4. CASE ApplyPulled
  <2> DEFINE e == Head(job.page)
  <2>1. /\ job.kind = "pull" /\ job.page # <<>> /\ job' = NextInPage /\ e.type # "none"
        /\ Take(Processed(e)) /\ kept = <<>>
        /\ UNCHANGED <<text, log, cursor, welcome, dropped>>
    BY <1>4 DEF ApplyPulled, AppliedInPage, InPage, HeldBehind
  <2>2. IF PulledOutcome(Processed(e).reason) = "retry" THEN Keep(e) ELSE UNCHANGED kept
    BY <1>4 DEF ApplyPulled, AppliedInPage
  <2>3. e \in Events /\ Sound(e) /\ kept \in Seq(Events)
    BY <2>1, CatchTypes, PageHead DEF CatchInv, DrainInv, InPage, DeliveryInv, PullInv
  <2>4. e.type \in Types /\ e.ver \in Nat
    BY <2>1, <2>3 DEF Events
  <2>5. CopyGrows
    BY <2>1, <2>3, <2>4, HandledSettles
  <2>6. CASE PulledOutcome(Processed(e).reason) = "retry"
    <3>1. Keep(e)
      BY <2>2, <2>6
    <3>2. kept' \in Seq(Events) /\ \E i \in DOMAIN kept' : kept'[i] = e
      BY <2>3, <3>1, KeepAddsOne, KeepOrders
    <3>3. /\ e.type = "create" => HasCreate'
          /\ e.type = "update" /\ e.ver = text.ver => HasLatest'
          /\ e.type = "delete" => HasDelete'
      BY <2>1, <3>2 DEF HasCreate, HasLatest, HasDelete
    <3> QED BY <2>1, <2>5, <3>1, <3>2, <3>3, CaughtRow
  <2>7. CASE PulledOutcome(Processed(e).reason) # "retry"
    <3>1. kept' = kept
      BY <2>2, <2>7
    <3>2. welcome /\ e.type = "create" /\ text.state = "live" => HasCreate'
      BY <2>1, <2>3, <2>4, <2>7, HandledSettles DEF HasCreate
    <3>3. welcome /\ e.type = "update" /\ text.state = "live" /\ e.ver = text.ver /\ HasCreate
            => HasLatest'
      <4> SUFFICES ASSUME welcome, e.type = "update", e.ver = text.ver, HasCreate
                   PROVE  HasLatest'
        OBVIOUS
      <4>1. copy.held
        BY <2>1 DEF HasCreate
      <4>2. copy'.held /\ text.ver <= copy'.edited
        BY <2>1, <2>3, <2>4, <2>7, <4>1, HandledSettles
      <4>3. copy'.edited = text.ver
        BY <2>1, <4>2, LatestEdit
      <4> QED BY <2>1, <4>2, <4>3 DEF HasLatest
    <3>4. welcome /\ e.type = "delete" => HasDelete'
      BY <2>1, <2>3, <2>4, <2>7, HandledSettles DEF HasDelete
    <3> QED BY <2>1, <2>3, <2>5, <3>1, <3>2, <3>3, <3>4, CaughtRow
  <2> QED BY <2>6, <2>7
<1>5. CASE EndPage
  <2>1. /\ job.kind = "pull" /\ job.page = <<>> /\ job' = NoJob
        /\ cursor' = IF job.upTo > cursor THEN job.upTo ELSE cursor
        /\ UNCHANGED <<text, log, copy, tomb, kept, welcome, dropped>>
    BY <1>5 DEF EndPage
  <2>2. NoJob.page = <<>> /\ NoJob.upTo = 0 /\ NoJob.kind = "idle"
    BY DEF NoJob
  <2>3. Done' = Done
    BY <2>1, <2>2, CatchTypes DEF Done
  <2> QED BY <2>1, <2>2, <2>3, CopyStays, CaughtKept, OrderIdle
<1>6. ~SuspendPulled /\ ~FinishPulled
  BY DEF SuspendPulled, FinishPulled, MayHydrate, CatchInv, DrainInv, DeliveryInv, PullInv
<1> QED BY <1>1, <1>2, <1>3, <1>4, <1>5, <1>6 DEF Pull

LEMMA CaughtRetry ==
  ASSUME ~Hydrates, CatchInv, CopyInv', AnswerInv', Retry
  PROVE  OrderInv' /\ CaughtInv'
<1> USE DEF source, replica, wire, place, lapses
<1>0. kept \in Seq(Events) /\ cursor \in Nat /\ text.ver \in Nat
      /\ \A k \in DOMAIN kept : kept[k].type # "none" /\ Faithful(kept[k])
  BY CatchTypes DEF CatchInv, OrderInv
\* A retry run takes the oldest event and leaves the rest in order.
<1>1. ASSUME kept # <<>>, job' = AfterKept, UNCHANGED <<text, log, cursor>>,
             kept' \in {kept, Tail(kept)}, job.kind \in {"idle", "retry"}
      PROVE  /\ OrderInv' /\ Done' = cursor /\ Done = cursor
             /\ Head(kept) = kept[1] /\ 1 \in DOMAIN kept
             /\ \A k \in DOMAIN kept : k = 1 \/ (k - 1 \in DOMAIN Tail(kept) /\ Tail(kept)[k - 1] = kept[k])
  <2>1. /\ Head(kept) = kept[1] /\ 1 \in DOMAIN kept /\ Tail(kept) \in Seq(Events)
        /\ Len(Tail(kept)) = Len(kept) - 1
        /\ \A k \in 1 .. Len(Tail(kept)) : Tail(kept)[k] = kept[k + 1]
    BY <1>0, <1>1, HeadTailProperties
  <2>2. /\ \A k \in DOMAIN kept :
             k = 1 \/ (k - 1 \in DOMAIN Tail(kept) /\ Tail(kept)[k - 1] = kept[k])
        /\ \A k \in DOMAIN Tail(kept) : k + 1 \in DOMAIN kept /\ Tail(kept)[k] = kept[k + 1]
    BY <1>0, <2>1
  <2>3. job'.page = <<>> /\ job'.upTo = 0 /\ job'.kind \in {"idle", "retry"}
    BY <1>1 DEF AfterKept, NoJob
  <2>4. LogShape' /\ \A k \in DOMAIN kept' : Faithful(kept'[k])
    BY <1>0, <1>1, <2>2 DEF CatchInv, OrderInv, LogShape
  <2>5. (\A k \in DOMAIN kept : Faithful(kept[k]))'
    BY <1>1, <2>4 DEF Faithful
  <2>6. \A i, j \in DOMAIN kept' : i <= j => kept'[i].at <= kept'[j].at
    <3>1. \A i, j \in DOMAIN Tail(kept) : i <= j => Tail(kept)[i].at <= Tail(kept)[j].at
      <4> SUFFICES ASSUME NEW i \in DOMAIN Tail(kept), NEW j \in DOMAIN Tail(kept), i <= j
                   PROVE  Tail(kept)[i].at <= Tail(kept)[j].at
        OBVIOUS
      <4>1. i + 1 \in DOMAIN kept /\ j + 1 \in DOMAIN kept /\ i + 1 <= j + 1
        BY <2>1, <2>2
      <4> QED BY <2>2, <4>1 DEF CatchInv, OrderInv
    <3> QED BY <1>1, <3>1 DEF CatchInv, OrderInv
  <2>7. OrderInv'
    BY <2>3, <2>4, <2>5, <2>6 DEF OrderInv
  <2>8. Done' = cursor /\ Done = cursor
    BY <1>1, <2>3 DEF Done
  <2> QED BY <2>1, <2>2, <2>7, <2>8
<1>2. CASE RetryKept
  <2> DEFINE e == Head(kept)
  <2>1. /\ kept # <<>> /\ Take(Processed(e)) /\ job' = AfterKept
        /\ kept' = IF PulledOutcome(Processed(e).reason) = "retry" THEN kept ELSE Tail(kept)
        /\ job.kind \in {"idle", "retry"}
        /\ UNCHANGED <<text, log, cursor, welcome, dropped>>
    BY <1>2 DEF RetryKept, MayRetry, Retried, AfterRetry
  <2>2. kept' \in {kept, Tail(kept)}
    BY <2>1
  <2>3. /\ OrderInv' /\ Done' = cursor /\ Done = cursor
        /\ e = kept[1] /\ 1 \in DOMAIN kept
        /\ \A k \in DOMAIN kept : k = 1 \/ (k - 1 \in DOMAIN Tail(kept) /\ Tail(kept)[k - 1] = kept[k])
    BY <1>1, <2>1, <2>2
  <2>4. e \in Events /\ Sound(e) /\ e.type # "none"
    BY <1>0, <2>3 DEF CatchInv, DrainInv, DeliveryInv, KeptInv
  <2>5. e.type \in Types /\ e.ver \in Nat
    BY <2>4 DEF Events
  <2>6. CopyGrows
    BY <2>1, <2>4, <2>5, HandledSettles
  <2>7. CASE kept' = kept
    BY <2>1, <2>3, <2>6, <2>7, CaughtKept
  <2>8. CASE kept' = Tail(kept) /\ PulledOutcome(Processed(e).reason) # "retry"
    <3>1. /\ welcome /\ e.type = "delete" => tomb'
          /\ welcome /\ e.type = "create" /\ text.state = "live" => copy'.held
          /\ welcome /\ e.type = "update" /\ copy.held => copy'.held /\ e.ver <= copy'.edited
      BY <2>1, <2>4, <2>5, <2>8, HandledSettles
    <3>2. \A k \in DOMAIN kept : kept[k] = e \/ \E i \in DOMAIN kept' : kept'[i] = kept[k]
      BY <2>3, <2>8
    <3>3. welcome /\ text.state = "live" /\ HasCreate => HasCreate'
      BY <2>6, <3>1, <3>2 DEF HasCreate, CopyGrows
    <3>4. welcome /\ HasDelete => HasDelete'
      BY <2>6, <3>1, <3>2 DEF HasDelete, CopyGrows
    <3>5. ASSUME welcome, text.state = "live", HasLatest, HasCreate PROVE HasLatest'
      <4>1. CASE copy.held /\ copy.edited = text.ver
        BY <2>1, <2>6, <3>5, <4>1, LatestEdit DEF CopyGrows, HasLatest
      <4>2. CASE \E k \in DOMAIN kept : kept[k].type = "update" /\ kept[k].ver = text.ver
        <5>1. PICK k \in DOMAIN kept : kept[k].type = "update" /\ kept[k].ver = text.ver
          BY <4>2
        <5>2. CASE \E i \in DOMAIN kept' : kept'[i] = kept[k]
          BY <2>1, <5>1, <5>2 DEF HasLatest
        <5>3. CASE kept[k] = e
          <6>1. e.type = "update" /\ e.ver = text.ver
            BY <5>1, <5>3
          <6>2. copy.held
            <7> SUFFICES ASSUME NEW j \in DOMAIN kept, kept[j].type = "create" PROVE FALSE
              BY <3>5 DEF HasCreate
            <7>1. 1 <= j /\ kept[1].at <= kept[j].at
              BY <1>0, <2>3 DEF CatchInv, OrderInv
            <7>2. kept[j].at = 1
              BY <1>0 DEF Faithful, CatchInv, OrderInv, LogShape
            <7>3. kept[1].at \in DOMAIN log /\ kept[1].at # 1
              BY <1>0, <2>3, <6>1 DEF Faithful, CatchInv, OrderInv, LogShape
            <7> QED BY <7>1, <7>2, <7>3, CatchTypes
          <6>3. copy'.held /\ text.ver <= copy'.edited
            BY <3>1, <3>5, <6>1, <6>2
          <6> QED BY <2>1, <6>3, LatestEdit DEF HasLatest
        <5> QED BY <3>2, <5>2, <5>3
      <4> QED BY <3>5, <4>1, <4>2 DEF HasLatest
    <3>6. Len(log) > 1 /\ cursor = Len(log) => cursor >= 1
      BY CatchTypes
    <3> QED BY <2>1, <2>3, <3>3, <3>4, <3>5, <3>6 DEF CatchInv, CaughtInv
  <2> QED BY <2>1, <2>3, <2>7, <2>8
<1>3. CASE DropKept
  <2>1. /\ kept # <<>> /\ job' = AfterKept /\ kept' = Tail(kept) /\ dropped' = TRUE
        /\ job.kind \in {"idle", "retry"} /\ UNCHANGED <<text, log, cursor>>
    BY <1>3 DEF DropKept, MayRetry
  <2>2. OrderInv'
    BY <1>1, <2>1
  <2> QED BY <2>1, <2>2 DEF CaughtInv
<1>4. ~SuspendKept /\ ~FinishKept
  BY DEF SuspendKept, FinishKept, MayHydrate, CatchInv, DrainInv, DeliveryInv, PullInv
<1> QED BY <1>2, <1>3, <1>4 DEF Retry

\* The worker, the live relay, the conversation's arrival and a restart.
LEMMA CaughtElse ==
  ASSUME ~Hydrates, CatchInv, CopyInv', AnswerInv',
         Worker \/ Relay \/ BecomeReady \/ StopReceiver \/ UNCHANGED vars
  PROVE  OrderInv' /\ CaughtInv'
<1> USE DEF source, replica, wire, puller, place, lapses
<1>1. CASE Relay
  <2>1. ~StartHydration /\ ~FinishHydration
    BY DEF StartHydration, FinishHydration, MayHydrate, CatchInv, DrainInv, DeliveryInv, NetInv
  <2>2. PICK m \in net : Reply(m, Processed(m))
    BY <1>1, <2>1 DEF Relay, Receive
  <2>3. Take(Processed(m)) /\ UNCHANGED <<text, log, welcome, dropped, cursor, job, kept>>
    BY <2>2 DEF Reply
  <2>4. m.type \in Types /\ m.ver \in Nat /\ Sound(m)
    BY DEF CatchInv, DrainInv, DeliveryInv, NetInv, Requests
  <2> QED BY <2>3, <2>4, HandledSettles, CaughtBeside
<1>2. CASE Worker \/ BecomeReady \/ StopReceiver \/ UNCHANGED vars
  <2>1. /\ UNCHANGED <<text, log, welcome, dropped, cursor, kept, copy, tomb>>
        /\ job' \in {job, NoJob}
    <3>1. CASE Worker
      BY <3>1 DEF Worker, SendHead, SettleAnswer, TimeOut, Abandon, LoseRequest, ExpireRow
    <3>2. CASE BecomeReady \/ StopReceiver \/ UNCHANGED vars
      BY <3>2 DEF BecomeReady, StopReceiver, vars
    <3> QED BY <1>2, <3>1, <3>2
  <2> QED BY <2>1, CopyStays, CaughtBeside
<1> QED BY <1>1, <1>2

\* As long as no create waits for an image, a pull that has read the whole log
\* and keeps nothing back has caught the copy up, whatever the queue lost, in
\* whatever pages the log was read and however often a run was cut short.
THEOREM PulledCorrect == ASSUME ~Hydrates PROVE Spec => []PulledAgrees
<1>1. Init => CatchInv
  <2>1. Init => OrderInv /\ CaughtInv
    BY DEF Init, OrderInv, LogShape, CaughtInv, NoJob
  <2> QED BY <2>1, DrainStart DEF CatchInv
<1>2. CatchInv /\ [Next]_vars => CatchInv'
  <2> SUFFICES ASSUME CatchInv, [Next]_vars PROVE CatchInv'
    OBVIOUS
  <2>1. DrainInv' /\ CopyInv' /\ AnswerInv'
    BY DrainStep DEF CatchInv, DrainInv, DeliveryInv
  <2>2. OrderInv' /\ CaughtInv'
    BY <2>1, CaughtAuthor, CaughtPull, CaughtRetry, CaughtElse DEF Next
  <2> QED BY <2>1, <2>2 DEF CatchInv
<1>3. CatchInv => PulledAgrees
  <2> SUFFICES ASSUME CatchInv, cursor = Len(log), job = NoJob, kept = <<>>, ~dropped, welcome
               PROVE  CopyAgrees
    BY DEF PulledAgrees
  <2>1. Done = Len(log) /\ Len(log) \in Nat
    BY CatchTypes DEF Done, NoJob
  <2>2. CopyInv /\ AnswerInv /\ CaughtInv /\ LogShape /\ text \in Messages
    BY CatchTypes DEF CatchInv, DrainInv, DeliveryInv, OrderInv
  <2>3. CASE text.state = "none"
    BY <2>2, <2>3 DEF CopyInv, CopyAgrees
  <2>4. CASE text.state = "live"
    <3>1. Done >= 1 /\ (Len(log) > 1 \/ text.ver = 0)
      BY <2>1, <2>2, <2>4, CatchTypes DEF LogShape
    <3>2. copy.held /\ (Len(log) > 1 => copy.edited = text.ver)
      BY <2>1, <2>2, <2>4, <3>1 DEF CaughtInv, HasCreate, HasLatest
    <3>3. copy.ver = text.ver
      <4>1. copy.ver \in Nat /\ copy.ver <= text.ver /\ copy.edited \in {0, copy.ver}
            /\ text.ver \in Nat
        BY <2>2, <3>2 DEF CopyInv, AnswerInv, Copies, Messages
      <4> QED BY <3>1, <3>2, <4>1
    <3> QED BY <2>4, <3>2, <3>3 DEF CopyAgrees
  <2>5. CASE text.state = "deleted"
    BY <2>1, <2>2, <2>5 DEF CaughtInv, HasDelete, CopyInv, CopyAgrees
  <2> QED BY <2>2, <2>3, <2>4, <2>5 DEF Messages
<1> QED BY <1>1, <1>2, <1>3, PTL DEF Spec
=============================================================================
