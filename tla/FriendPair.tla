----------------------------- MODULE FriendPair -----------------------------
(***************************************************************************)
(* One pair of friends whose users live on two instances.  Each instance   *)
(* keeps its own rows of `friends' and `friend_requests' for the pair and   *)
(* tells the other of every change by an event, which arrives by the live   *)
(* relay, by a pull of the mutation log, or by both, in any order.  The     *)
(* pair's subject clock orders what arrives; the ledger stops a second      *)
(* delivery.                                                               *)
(***************************************************************************)
EXTENDS Naturals, FiniteSets

CONSTANT MaxChanges   \* changes the two users make, the bound on time

ASSUME MaxChangesAssumption == MaxChanges \in Nat

VARIABLES
  friends,    \* friends[s]: the rows at s, each named by the user in `userId'
  pending,    \* pending[s]: who sent the pending request at s, or Nobody
  answered,   \* answered[s]: who sent the requests answered at s
  pairClock,  \* pairClock[s]: the pair's row of federation_subject_clocks
  sent,       \* the events in the mutation logs
  taken,      \* taken[s]: federation_applied_events, what s accepted
  refused,    \* refused[s]: what s answered invalid_target
  handling,   \* handling[s]: events s waits on a profile download for
  pairTime,   \* the time of the latest change
  newest,     \* history: the latest change
  consent,    \* history: the user at s has asked or accepted since ending it, or
              \* still has a request open
  stray       \* history: changes crossed, or a request overtook a removal

pairVars == <<friends, pending, answered, pairClock, sent, taken, refused, handling,
              pairTime, newest, consent, stray>>
-----------------------------------------------------------------------------
Side == {"left", "right"}
Nobody == "nobody"
Other(s) == IF s = "left" THEN "right" ELSE "left"
Path == {"live", "catch_up"}

\* What a user's change relays.  An acceptance is two events of one time.
Kind == {"create", "accept", "decline", "cancel", "add", "remove"}
Event == [kind : Kind, by : Side, at : 1..MaxChanges]
Change == {"none", "request", "accept", "decline", "cancel", "remove"}

\* The user who sent the request an event is about: the one who asks and cancels,
\* and the one who did not for an answer.
Requester(e) == IF e.kind \in {"create", "cancel"} THEN e.by ELSE Other(e.by)

PairTypeOK ==
  /\ friends \in [Side -> SUBSET Side]
  /\ pending \in [Side -> Side \cup {Nobody}]
  /\ answered \in [Side -> SUBSET Side]
  /\ pairClock \in [Side -> 0..MaxChanges]
  /\ sent \subseteq Event
  /\ taken \in [Side -> SUBSET Event]
  /\ refused \in [Side -> SUBSET Event]
  /\ handling \in [Side -> SUBSET (Event \X Path)]
  /\ pairTime \in 0..MaxChanges
  /\ newest \in Change
  /\ consent \in [Side -> BOOLEAN]
  /\ stray \in BOOLEAN

PairInit ==
  /\ friends = [s \in Side |-> {}]
  /\ pending = [s \in Side |-> Nobody]
  /\ answered = [s \in Side |-> {}]
  /\ pairClock = [s \in Side |-> 0]
  /\ sent = {}
  /\ taken = [s \in Side |-> {}]
  /\ refused = [s \in Side |-> {}]
  /\ handling = [s \in Side |-> {}]
  /\ pairTime = 0
  /\ newest = "none"
  /\ consent = [s \in Side |-> FALSE]
  /\ stray = FALSE

AreFriends(s) == friends[s] # {}
For(s) == {e \in sent : e.by = Other(s)}
Settled(s) == For(s) \subseteq taken[s] \cup refused[s]

\* recordSubjectChange: never back.  isSubjectChangeStale: an equal time is not.
Recorded(s, at) == IF at > pairClock[s] THEN [pairClock EXCEPT ![s] = at] ELSE pairClock
Stale(s, e) == e.at < pairClock[s]

-----------------------------------------------------------------------------
(* The routes.  A change made here takes the next time, moves the clock to   *)
(* it and writes its events to the log and the queue.                        *)

\* The events are stamped before the change has its time.
Tell_OldTime(s, kinds, change, agrees, again) ==
  /\ pairTime < MaxChanges
  /\ pairTime' = pairTime + 1
  /\ pairClock' = Recorded(s, pairTime + 1)
  /\ sent' = sent \cup {[kind |-> k, by |-> s, at |-> pairTime] : k \in kinds}
  /\ newest' = change
  /\ consent' = [consent EXCEPT ![s] = agrees]
  /\ stray' = (stray \/ ~Settled(s) \/ again)
  /\ UNCHANGED <<taken, refused, handling>>

Tell(s, kinds, change, agrees, again) ==
  /\ pairTime < MaxChanges
  /\ pairTime' = pairTime + 1
  /\ pairClock' = Recorded(s, pairTime + 1)
  /\ sent' = sent \cup {[kind |-> k, by |-> s, at |-> pairTime + 1] : k \in kinds}
  /\ newest' = change
  /\ consent' = [consent EXCEPT ![s] = agrees]
  /\ stray' = (stray \/ ~Settled(s) \/ again)
  /\ UNCHANGED <<taken, refused, handling>>

\* POST /api/social/requests.  A request of either direction, or a friendship, ends it.
Request(s) ==
  /\ pending[s] = Nobody
  /\ ~AreFriends(s)
  /\ pending' = [pending EXCEPT ![s] = s]
  /\ Tell(s, {"create"}, "request", TRUE, FALSE)
  /\ UNCHANGED <<friends, answered>>

\* The rows PATCH may name: any request the other user sent, pending or answered
\* (a second device may still show one that was answered).
Answerable(s) ==
  (IF pending[s] = Other(s) THEN {FALSE} ELSE {})
    \cup (IF Other(s) \in answered[s] THEN {TRUE} ELSE {})

Answered(s, again) ==
  /\ pending' = IF again THEN pending ELSE [pending EXCEPT ![s] = Nobody]
  /\ answered' = [answered EXCEPT ![s] = @ \cup {Other(s)}]

\* The primary key refuses a second row of the same direction, and the whole
\* transaction with it.
Accept(s) ==
  \E again \in Answerable(s) :
    /\ Other(s) \notin friends[s]
    /\ friends' = [friends EXCEPT ![s] = @ \cup {Other(s)}]
    /\ Answered(s, again)
    /\ Tell(s, {"accept", "add"}, "accept", TRUE, again)

Decline(s) ==
  \E again \in Answerable(s) :
    /\ Answered(s, again)
    /\ Tell(s, {"decline"}, "decline", consent[s] /\ (AreFriends(s) \/ pending[s] = s), again)
    /\ UNCHANGED friends

\* DELETE /api/social/requests/:id
CancelRequest(s) ==
  /\ pending[s] = s
  /\ pending' = [pending EXCEPT ![s] = Nobody]
  /\ Tell(s, {"cancel"}, "cancel", consent[s] /\ AreFriends(s), FALSE)
  /\ UNCHANGED <<friends, answered>>

\* DELETE /api/social/friends/:id
RemoveFriend(s) ==
  /\ AreFriends(s)
  /\ friends' = [friends EXCEPT ![s] = {}]
  /\ Tell(s, {"remove"}, "remove", pending[s] = s, FALSE)
  /\ UNCHANGED <<pending, answered>>

-----------------------------------------------------------------------------
(* The processors.  Each claims the clock where it writes.                   *)

Took(s, e) ==
  /\ taken' = [taken EXCEPT ![s] = @ \cup {e}]
  /\ UNCHANGED refused

Pair(s, rows, asked, done) ==
  /\ friends' = [friends EXCEPT ![s] = rows]
  /\ pending' = [pending EXCEPT ![s] = asked]
  /\ answered' = [answered EXCEPT ![s] = done]

Unmoved == UNCHANGED <<friends, pending, answered>>

\* A stale event is accepted and changes nothing.
Claimed(s, e) == pairClock' = IF Stale(s, e) THEN pairClock ELSE Recorded(s, e.at)

ProcessRequestCreate(s, e) ==
  /\ Claimed(s, e)
  /\ Took(s, e)
  /\ IF ~Stale(s, e) /\ ~AreFriends(s) /\ pending[s] = Nobody
     THEN Pair(s, {}, Other(s), answered[s])
     ELSE Unmoved

\* An acceptance forms the friendship with the answer, unless there is one.
ProcessRequestUpdate(s, e) ==
  /\ Claimed(s, e)
  /\ Took(s, e)
  /\ IF ~Stale(s, e) /\ pending[s] = Requester(e)
     THEN Pair(s,
               IF e.kind = "accept" /\ ~AreFriends(s) THEN {Requester(e)} ELSE friends[s],
               Nobody,
               answered[s] \cup {Requester(e)})
     ELSE Unmoved

\* A cancel that finds nothing to cancel leaves the clock where it is.
ProcessRequestCancel_NoClaim(s, e) ==
  /\ Took(s, e)
  /\ IF ~Stale(s, e) /\ pending[s] = Requester(e)
     THEN Claimed(s, e) /\ Pair(s, friends[s], Nobody, answered[s])
     ELSE UNCHANGED pairClock /\ Unmoved

ProcessRequestCancel(s, e) ==
  /\ Claimed(s, e)
  /\ Took(s, e)
  /\ IF ~Stale(s, e) /\ pending[s] = Requester(e)
     THEN Pair(s, friends[s], Nobody, answered[s])
     ELSE Unmoved

ProcessFriendRemove(s, e) ==
  /\ Claimed(s, e)
  /\ Took(s, e)
  /\ IF ~Stale(s, e)
     THEN Pair(s, {}, pending[s], answered[s])
     ELSE Unmoved

\* friend_add up to the profile downloads: stale, already friends, no pending
\* request (refused), or on to the downloads.
BeginFriendAdd(s, e, p) ==
  \/ /\ Stale(s, e) \/ AreFriends(s)
     /\ Claimed(s, e)
     /\ Took(s, e)
     /\ UNCHANGED handling
     /\ Unmoved
  \/ /\ ~Stale(s, e) /\ ~AreFriends(s)
     /\ pending[s] # Requester(e)
     /\ refused' = [refused EXCEPT ![s] = @ \cup {e}]
     /\ UNCHANGED <<taken, handling, pairClock>>
     /\ Unmoved
  \/ /\ ~Stale(s, e) /\ ~AreFriends(s)
     /\ pending[s] = Requester(e)
     /\ handling' = [handling EXCEPT ![s] = @ \cup {<<e, p>>}]
     /\ UNCHANGED <<taken, refused, pairClock>>
     /\ Unmoved

\* The clock is not asked again after the downloads.
FinishFriendAdd_Unclaimed(s, e) ==
  /\ pairClock' = Recorded(s, e.at)
  /\ \/ /\ Requester(e) \in friends[s]
        /\ UNCHANGED <<taken, refused>>
        /\ Unmoved
     \/ /\ Requester(e) \notin friends[s]
        /\ Took(s, e)
        /\ Pair(s, friends[s] \cup {Requester(e)}, Nobody,
                answered[s] \cup ({pending[s]} \ {Nobody}))

\* friend_add after the downloads: only the clock is asked again.  The insert of
\* a row that is there throws (processing_error: the event stays to be retried),
\* after the claim.  A crossed request is resolved too.
FinishFriendAdd(s, e) ==
  /\ Claimed(s, e)
  /\ \/ /\ Stale(s, e)
        /\ Took(s, e)
        /\ Unmoved
     \/ /\ ~Stale(s, e)
        /\ Requester(e) \in friends[s]
        /\ UNCHANGED <<taken, refused>>
        /\ Unmoved
     \/ /\ ~Stale(s, e)
        /\ Requester(e) \notin friends[s]
        /\ Took(s, e)
        /\ Pair(s, friends[s] \cup {Requester(e)}, Nobody,
                answered[s] \cup ({pending[s]} \ {Nobody}))

-----------------------------------------------------------------------------
(* processRelayEvents: an event in the ledger is a duplicate; a refused one  *)
(* may come again (the pull reads what the relay dropped).                   *)

\* A request, or its cancel, is delivered before the removal it followed.
Overtakes(s, e) ==
  e.kind \in {"create", "cancel"} /\ \E f \in For(s) \ taken[s] : f.kind = "remove" /\ f.at < e.at

Receive(s, e, p) ==
  /\ e \in For(s) \ taken[s]
  /\ stray' = (stray \/ Overtakes(s, e))
  /\ \/ /\ e.kind = "create"
        /\ handling' = [handling EXCEPT ![s] = @ \cup {<<e, p>>}]
        /\ Unmoved
        /\ UNCHANGED <<taken, refused, pairClock>>
     \/ /\ e.kind \in {"accept", "decline"}
        /\ ProcessRequestUpdate(s, e)
        /\ UNCHANGED handling
     \/ /\ e.kind = "cancel"
        /\ ProcessRequestCancel(s, e)
        /\ UNCHANGED handling
     \/ /\ e.kind = "remove"
        /\ ProcessFriendRemove(s, e)
        /\ UNCHANGED handling
     \/ /\ e.kind = "add"
        /\ BeginFriendAdd(s, e, p)
  /\ UNCHANGED <<sent, pairTime, newest, consent>>

\* The downloads of a create's or an add's profiles are done.
Resume(s, e, p) ==
  /\ <<e, p>> \in handling[s]
  /\ handling' = [handling EXCEPT ![s] = @ \ {<<e, p>>}]
  /\ IF e.kind = "create" THEN ProcessRequestCreate(s, e) ELSE FinishFriendAdd(s, e)
  /\ UNCHANGED <<sent, pairTime, newest, consent, stray>>

\* The process stops: what it waited on is forgotten and will be delivered again.
StopHandling(s) ==
  /\ handling[s] # {}
  /\ handling' = [handling EXCEPT ![s] = {}]
  /\ UNCHANGED <<friends, pending, answered, pairClock, sent, taken, refused,
                 pairTime, newest, consent, stray>>

UserChange(s) ==
  \/ Request(s)
  \/ Accept(s)
  \/ Decline(s)
  \/ CancelRequest(s)
  \/ RemoveFriend(s)

PairNext ==
  \E s \in Side :
    \/ UserChange(s)
    \/ StopHandling(s)
    \/ \E e \in For(s), p \in Path : Receive(s, e, p)
    \/ \E h \in handling[s] : Resume(s, h[1], h[2])

PairSpec == PairInit /\ [][PairNext]_pairVars

-----------------------------------------------------------------------------
\* A friendship shows at an instance only if its own user asked for it or
\* accepted it, and has not ended it, cancelled or declined since (a request still
\* open counts): no event of the other side, late, repeated or in flight over a
\* download, forms one alone.
FriendsConsent == \A s \in Side : AreFriends(s) => consent[s]

Delivered == \A s \in Side : Settled(s) /\ handling[s] = {}

\* Once everything is delivered, in whatever order, both instances show what the
\* newest change says, provided each change was made knowing the other side's
\* earlier ones and answered a pending request.
OrderlyPairAgrees ==
  Delivered /\ ~stray => \A s \in Side : AreFriends(s) <=> newest = "accept"
=============================================================================
