-------------------------- MODULE FriendPairProofs --------------------------
(***************************************************************************)
(* No friendship without the consent of the instance's own user, and one   *)
(* friendship on both sides once everything has arrived, for any number of *)
(* changes and any order of deliveries.                                    *)
(***************************************************************************)
EXTENDS FriendPair, TLAPS

\* No event, and no clock, is ahead of the changes made so far.
TimeInv ==
  /\ \A e \in sent : e.at <= pairTime
  /\ \A s \in Side : \A h \in handling[s] : h[1] \in sent /\ h[1].by = Other(s)
                                     /\ h[1].kind \in {"create", "add"}

\* A request, or a friendship, is there with the consent of the user who is at home;
\* an add that waits for its downloads has it, or is stale by now.
ConsentInv ==
  /\ FriendsConsent
  /\ \A s \in Side : pending[s] = s => consent[s]
  /\ \A s \in Side : \A h \in handling[s] :
       h[1].kind = "add" => consent[s] \/ h[1].at < pairClock[s]

PairInv == PairTypeOK /\ TimeInv /\ ConsentInv

LEMMA SideFacts == \A s \in Side : Other(s) \in Side \ {s} /\ Other(Other(s)) = s
  BY DEF Side, Other

LEMMA NobodyFact == Nobody \notin Side
BY DEF Nobody, Side

\* The clock only moves on.
LEMMA ClockFacts ==
  ASSUME PairTypeOK, NEW s \in Side, NEW at \in 1..MaxChanges
  PROVE  /\ Recorded(s, at) \in [Side -> 0..MaxChanges]
         /\ Recorded(s, at)[s] >= at
         /\ \A t \in Side : Recorded(s, at)[t] >= pairClock[t]
BY MaxChangesAssumption DEF PairTypeOK, Recorded

LEMMA PairStart == ASSUME PairInit PROVE PairInv
<1>1. friends \in [Side -> SUBSET Side] /\ answered \in [Side -> SUBSET Side]
      /\ pending \in [Side -> Side \cup {Nobody}] /\ consent \in [Side -> BOOLEAN]
  BY DEF PairInit
<1>2. taken \in [Side -> SUBSET Event] /\ refused \in [Side -> SUBSET Event]
      /\ handling \in [Side -> SUBSET (Event \X Path)] /\ sent \subseteq Event
  BY DEF PairInit
<1>3. pairClock \in [Side -> 0..MaxChanges] /\ pairTime \in 0..MaxChanges
      /\ newest \in Change /\ stray \in BOOLEAN
  <2>1. 0 \in 0..MaxChanges
    BY MaxChangesAssumption
  <2> QED BY <2>1 DEF PairInit, Change
<1>4. PairTypeOK
  BY <1>1, <1>2, <1>3 DEF PairTypeOK
<1>5. TimeInv
  BY DEF TimeInv, PairInit
<1>6. ConsentInv
  BY DEF ConsentInv, FriendsConsent, AreFriends, Nobody, Side, PairInit
<1> QED BY <1>4, <1>5, <1>6 DEF PairInv

\* A change at side s leaves there what its user agrees to.
RowsMoved(s, agrees) ==
  /\ friends' \in [Side -> SUBSET Side]
  /\ pending' \in [Side -> Side \cup {Nobody}]
  /\ answered' \in [Side -> SUBSET Side]
  /\ \A t \in Side \ {s} : friends'[t] = friends[t] /\ pending'[t] = pending[t]
  /\ friends'[s] # {} \/ pending'[s] = s => agrees

\* A change that is told: it makes every add in flight at its side stale.
LEMMA TellKeeps ==
  ASSUME PairInv, NEW s \in Side, NEW kinds \in SUBSET Kind, NEW change \in Change,
         NEW agrees \in BOOLEAN, NEW again \in BOOLEAN,
         RowsMoved(s, agrees), Tell(s, kinds, change, agrees, again)
  PROVE  PairInv'
<1> USE MaxChangesAssumption DEF PairInv, Tell, RowsMoved
<1>0. pairTime \in Nat /\ pairTime' = pairTime + 1 /\ pairTime' \in 1..MaxChanges
  BY DEF PairTypeOK
<1>1. /\ pairClock' \in [Side -> 0..MaxChanges] /\ pairClock'[s] >= pairTime + 1
      /\ \A t \in Side : pairClock'[t] >= pairClock[t]
  BY <1>0, ClockFacts
<1>2. sent \subseteq sent' /\ sent' \subseteq Event
  BY <1>0 DEF Event, PairTypeOK
<1>3. PairTypeOK'
  <2>1. consent' \in [Side -> BOOLEAN]
    BY DEF PairTypeOK
  <2>2. stray' \in BOOLEAN
    BY DEF PairTypeOK
  <2>3. newest' \in Change
    OBVIOUS
  <2> QED BY <1>0, <1>1, <1>2, <2>1, <2>2, <2>3 DEF PairTypeOK
<1>4. \A e \in sent' : e.at <= pairTime'
  BY <1>0 DEF TimeInv, PairTypeOK, Event
<1>5. TimeInv'
  BY <1>2, <1>4 DEF TimeInv
<1>6. consent'[s] = agrees /\ \A t \in Side \ {s} : consent'[t] = consent[t]
  BY DEF PairTypeOK
<1>7. FriendsConsent' /\ \A t \in Side : pending'[t] = t => consent'[t]
  BY <1>6 DEF ConsentInv, FriendsConsent, AreFriends
<1>8. ASSUME NEW t \in Side, NEW h \in handling'[t], h[1].kind = "add"
      PROVE  consent'[t] \/ h[1].at < pairClock'[t]
  <2>1. h \in handling[t] /\ h[1] \in sent /\ h[1].at <= pairTime /\ h[1].at \in Nat
    BY <1>8 DEF TimeInv, PairTypeOK, Event
  <2>2. CASE t = s
    BY <1>0, <1>1, <2>1, <2>2 DEF PairTypeOK
  <2>3. CASE t # s
    <3>1. consent[t] \/ h[1].at < pairClock[t]
      BY <1>8, <2>1 DEF ConsentInv
    <3>2. consent'[t] = consent[t] /\ pairClock'[t] >= pairClock[t]
          /\ pairClock[t] \in Nat /\ pairClock'[t] \in Nat
      BY <1>1, <1>6, <2>3 DEF PairTypeOK
    <3> QED BY <2>1, <3>1, <3>2
  <2> QED BY <2>2, <2>3
<1> QED BY <1>3, <1>5, <1>7, <1>8 DEF ConsentInv

LEMMA RequestKeeps == ASSUME PairInv, NEW s \in Side, Request(s) PROVE PairInv'
<1>1. Tell(s, {"create"}, "request", TRUE, FALSE)
  BY DEF Request
<1>2. RowsMoved(s, TRUE)
  BY DEF Request, RowsMoved, PairInv, PairTypeOK
<1>3. {"create"} \in SUBSET Kind /\ "request" \in Change
  BY DEF Kind, Change
<1> QED BY <1>1, <1>2, <1>3, TellKeeps, Zenon

LEMMA AcceptKeeps == ASSUME PairInv, NEW s \in Side, Accept(s) PROVE PairInv'
<1>1. PICK again \in BOOLEAN :
        /\ friends' = [friends EXCEPT ![s] = @ \cup {Other(s)}]
        /\ Answered(s, again)
        /\ Tell(s, {"accept", "add"}, "accept", TRUE, again)
  BY DEF Accept, Answerable
<1>2. RowsMoved(s, TRUE)
  BY <1>1, SideFacts DEF RowsMoved, Answered, PairInv, PairTypeOK
<1>3. {"accept", "add"} \in SUBSET Kind /\ "accept" \in Change
  BY DEF Kind, Change
<1>4. Tell(s, {"accept", "add"}, "accept", TRUE, again)
  BY <1>1
<1> QED BY <1>2, <1>3, <1>4, TellKeeps, Zenon

LEMMA DeclineKeeps == ASSUME PairInv, NEW s \in Side, Decline(s) PROVE PairInv'
<1> DEFINE agrees == consent[s] /\ (AreFriends(s) \/ pending[s] = s)
<1>1. PICK again \in BOOLEAN :
        /\ Answered(s, again)
        /\ Tell(s, {"decline"}, "decline", agrees, again)
        /\ UNCHANGED friends
  BY DEF Decline, Answerable
<1>2. RowsMoved(s, agrees)
  BY <1>1, SideFacts, NobodyFact
  DEF RowsMoved, Answered, PairInv, PairTypeOK, ConsentInv, FriendsConsent, AreFriends
<1>3. {"decline"} \in SUBSET Kind /\ "decline" \in Change /\ agrees \in BOOLEAN
  BY DEF Kind, Change
<1>4. Tell(s, {"decline"}, "decline", agrees, again)
  BY <1>1
<1> HIDE DEF agrees
<1> QED BY <1>2, <1>3, <1>4, TellKeeps, Zenon

LEMMA CancelKeeps == ASSUME PairInv, NEW s \in Side, CancelRequest(s) PROVE PairInv'
<1> DEFINE agrees == consent[s] /\ AreFriends(s)
<1>1. Tell(s, {"cancel"}, "cancel", agrees, FALSE)
  BY DEF CancelRequest
<1>2. RowsMoved(s, agrees)
  BY NobodyFact DEF CancelRequest, RowsMoved, PairInv, PairTypeOK, ConsentInv, FriendsConsent,
     AreFriends
<1>3. {"cancel"} \in SUBSET Kind /\ "cancel" \in Change /\ agrees \in BOOLEAN
  BY DEF Kind, Change
<1> HIDE DEF agrees
<1> QED BY <1>1, <1>2, <1>3, TellKeeps, Zenon

LEMMA RemoveKeeps == ASSUME PairInv, NEW s \in Side, RemoveFriend(s) PROVE PairInv'
<1> DEFINE agrees == pending[s] = s
<1>1. Tell(s, {"remove"}, "remove", agrees, FALSE)
  BY DEF RemoveFriend
<1>2. RowsMoved(s, agrees)
  BY DEF RemoveFriend, RowsMoved, PairInv, PairTypeOK
<1>3. {"remove"} \in SUBSET Kind /\ "remove" \in Change /\ agrees \in BOOLEAN
  BY DEF Kind, Change
<1> HIDE DEF agrees
<1> QED BY <1>1, <1>2, <1>3, TellKeeps, Zenon

-----------------------------------------------------------------------------
\* A processed event: its side's rows end up with the consent they had, the clock
\* moves on, and only an add that had the consent starts its downloads.
LEMMA ProcessedKeeps ==
  ASSUME PairInv, NEW s \in Side,
         UNCHANGED <<sent, pairTime, newest, consent>>, stray' \in BOOLEAN,
         friends' \in [Side -> SUBSET Side],
         pending' \in [Side -> Side \cup {Nobody}],
         answered' \in [Side -> SUBSET Side],
         taken' \in [Side -> SUBSET Event], refused' \in [Side -> SUBSET Event],
         handling' \in [Side -> SUBSET (Event \X Path)],
         pairClock' \in [Side -> 0..MaxChanges],
         \A t \in Side : pairClock'[t] >= pairClock[t],
         \A t \in Side \ {s} : /\ friends'[t] = friends[t] /\ pending'[t] = pending[t]
                               /\ handling'[t] \subseteq handling[t],
         friends'[s] # {} \/ pending'[s] = s => consent[s],
         \A h \in handling'[s] \ handling[s] :
           h[1] \in For(s) /\ (h[1].kind = "create" \/ (h[1].kind = "add" /\ consent[s]))
  PROVE  PairInv'
<1> USE DEF PairInv
<1>1. PairTypeOK'
  BY DEF PairTypeOK
<1>2. TimeInv'
  BY DEF TimeInv, For
<1>3. FriendsConsent' /\ \A t \in Side : pending'[t] = t => consent'[t]
  BY DEF ConsentInv, FriendsConsent, AreFriends
<1>4. ASSUME NEW t \in Side, NEW h \in handling'[t], h[1].kind = "add"
      PROVE  consent'[t] \/ h[1].at < pairClock'[t]
  <2>1. h[1] \in Event /\ h[1].at \in Nat /\ pairClock[t] \in Nat /\ pairClock'[t] \in Nat
    BY DEF PairTypeOK, Event
  <2>2. CASE h \in handling[t]
    BY <1>4, <2>1, <2>2 DEF ConsentInv
  <2>3. CASE h \notin handling[t]
    BY <1>4, <2>3
  <2> QED BY <2>2, <2>3
<1> QED BY <1>1, <1>2, <1>3, <1>4 DEF ConsentInv

LEMMA ClaimFacts ==
  ASSUME PairTypeOK, NEW s \in Side, NEW e \in Event, Claimed(s, e) \/ UNCHANGED pairClock
  PROVE  /\ pairClock' \in [Side -> 0..MaxChanges]
         /\ \A t \in Side : pairClock'[t] >= pairClock[t]
<1>1. e.at \in 1..MaxChanges
  BY DEF Event
<1>2. \A t \in Side : pairClock[t] \in Nat
  BY DEF PairTypeOK
<1>3. CASE UNCHANGED pairClock
  BY <1>2, <1>3 DEF PairTypeOK
<1>4. CASE pairClock' = Recorded(s, e.at)
  BY <1>1, <1>4, ClockFacts
<1> QED BY <1>3, <1>4 DEF Claimed

\* Who sent the request an arriving event is about.
LEMMA RequesterFacts ==
  ASSUME PairTypeOK, NEW s \in Side, NEW e \in For(s)
  PROVE  /\ e \in Event /\ Requester(e) \in Side
         /\ e.kind \in {"create", "cancel"} => Requester(e) = Other(s)
         /\ e.kind \in {"accept", "decline", "add"} => Requester(e) = s
BY SideFacts DEF PairTypeOK, For, Requester, Event

\* What each processor may leave at its side.
RowsKept(s) ==
  /\ friends' \in [Side -> SUBSET Side]
  /\ pending' \in [Side -> Side \cup {Nobody}]
  /\ answered' \in [Side -> SUBSET Side]
  /\ \A t \in Side \ {s} : friends'[t] = friends[t] /\ pending'[t] = pending[t]
  /\ friends'[s] # {} \/ pending'[s] = s => consent[s]

LEMMA PairKeepsRows ==
  ASSUME PairInv, NEW s \in Side, NEW rows \in SUBSET Side, NEW asked \in Side \cup {Nobody},
         NEW done \in SUBSET Side, Pair(s, rows, asked, done),
         rows # {} \/ asked = s => consent[s]
  PROVE  RowsKept(s)
BY DEF PairInv, PairTypeOK, Pair, RowsKept

LEMMA UnmovedKeepsRows == ASSUME PairInv, NEW s \in Side, Unmoved PROVE RowsKept(s)
BY DEF PairInv, PairTypeOK, Unmoved, RowsKept, ConsentInv, FriendsConsent, AreFriends

LEMMA TookFacts ==
  ASSUME PairTypeOK, NEW s \in Side, NEW e \in Event, Took(s, e)
  PROVE  taken' \in [Side -> SUBSET Event] /\ refused' \in [Side -> SUBSET Event]
BY DEF PairTypeOK, Took

\* A processor that answers at once.
LEMMA AnsweredKeeps ==
  ASSUME PairInv, NEW s \in Side, NEW e \in For(s),
         RowsKept(s), Claimed(s, e) \/ UNCHANGED pairClock,
         Took(s, e) \/ UNCHANGED <<taken, refused>>,
         handling' \in [Side -> SUBSET (Event \X Path)],
         \A t \in Side : handling'[t] \subseteq handling[t],
         UNCHANGED <<sent, pairTime, newest, consent>>, stray' \in BOOLEAN
  PROVE  PairInv'
<1>0. e \in Event
  BY RequesterFacts DEF PairInv
<1>1. taken' \in [Side -> SUBSET Event] /\ refused' \in [Side -> SUBSET Event]
  BY <1>0, TookFacts DEF PairInv, PairTypeOK
<1>2. pairClock' \in [Side -> 0..MaxChanges] /\ \A t \in Side : pairClock'[t] >= pairClock[t]
  BY <1>0, ClaimFacts DEF PairInv
<1> QED BY <1>1, <1>2, ProcessedKeeps DEF RowsKept

LEMMA CreateRows ==
  ASSUME PairInv, NEW s \in Side, NEW e \in For(s), ProcessRequestCreate(s, e)
  PROVE  RowsKept(s)
<1>1. CASE ~Stale(s, e) /\ ~AreFriends(s) /\ pending[s] = Nobody
  <2>1. Pair(s, {}, Other(s), answered[s])
    BY <1>1 DEF ProcessRequestCreate
  <2> QED BY <2>1, SideFacts, PairKeepsRows DEF PairInv, PairTypeOK
<1>2. CASE Unmoved
  BY <1>2, UnmovedKeepsRows
<1> QED BY <1>1, <1>2 DEF ProcessRequestCreate

LEMMA UpdateRows ==
  ASSUME PairInv, NEW s \in Side, NEW e \in For(s), e.kind \in {"accept", "decline"},
         ProcessRequestUpdate(s, e)
  PROVE  RowsKept(s)
<1>1. CASE ~Stale(s, e) /\ pending[s] = Requester(e)
  <2>1. Requester(e) = s /\ consent[s]
    BY <1>1, RequesterFacts DEF PairInv, ConsentInv
  <2> DEFINE rows == IF e.kind = "accept" /\ ~AreFriends(s) THEN {s} ELSE friends[s]
             done == answered[s] \cup {s}
  <2>2. Pair(s, rows, Nobody, done)
    BY <1>1, <2>1 DEF ProcessRequestUpdate
  <2>3. rows \in SUBSET Side /\ done \in SUBSET Side
    BY DEF PairInv, PairTypeOK
  <2> HIDE DEF rows, done
  <2> QED BY <2>1, <2>2, <2>3, PairKeepsRows
<1>2. CASE Unmoved
  BY <1>2, UnmovedKeepsRows
<1> QED BY <1>1, <1>2 DEF ProcessRequestUpdate

LEMMA CancelRows ==
  ASSUME PairInv, NEW s \in Side, NEW e \in For(s), ProcessRequestCancel(s, e)
  PROVE  RowsKept(s)
<1>1. CASE Pair(s, friends[s], Nobody, answered[s])
  BY <1>1, NobodyFact, PairKeepsRows
  DEF PairInv, PairTypeOK, ConsentInv, FriendsConsent, AreFriends
<1>2. CASE Unmoved
  BY <1>2, UnmovedKeepsRows
<1> QED BY <1>1, <1>2 DEF ProcessRequestCancel

LEMMA RemoveRows ==
  ASSUME PairInv, NEW s \in Side, NEW e \in For(s), ProcessFriendRemove(s, e)
  PROVE  RowsKept(s)
<1>1. CASE Pair(s, {}, pending[s], answered[s])
  BY <1>1, PairKeepsRows DEF PairInv, PairTypeOK, ConsentInv
<1>2. CASE Unmoved
  BY <1>2, UnmovedKeepsRows
<1> QED BY <1>1, <1>2 DEF ProcessFriendRemove

\* The clock is what stops an add whose user thought better of it meanwhile.
LEMMA AddRows ==
  ASSUME PairInv, NEW s \in Side, NEW h \in handling[s], h[1].kind = "add",
         FinishFriendAdd(s, h[1])
  PROVE  RowsKept(s)
<1> DEFINE e == h[1]
<1>0. e \in For(s) /\ Requester(e) = s
  BY RequesterFacts DEF PairInv, TimeInv, For
<1>1. CASE ~Stale(s, e) /\ Requester(e) \notin friends[s]
  <2> DEFINE rows == friends[s] \cup {Requester(e)}
             done == answered[s] \cup ({pending[s]} \ {Nobody})
  <2>1. Pair(s, rows, Nobody, done)
    BY <1>1 DEF FinishFriendAdd
  <2>2. rows \in SUBSET Side /\ done \in SUBSET Side
    BY <1>0 DEF PairInv, PairTypeOK
  <2>3. consent[s]
    BY <1>1 DEF PairInv, ConsentInv, Stale
  <2> HIDE DEF rows, done
  <2> QED BY <2>1, <2>2, <2>3, PairKeepsRows
<1>2. CASE Unmoved
  BY <1>2, UnmovedKeepsRows
<1> QED BY <1>1, <1>2 DEF FinishFriendAdd

LEMMA ReceiveKeeps ==
  ASSUME PairInv, NEW s \in Side, NEW e \in For(s), NEW p \in Path, Receive(s, e, p)
  PROVE  PairInv'
<1> USE DEF Receive
<1>0. /\ UNCHANGED <<sent, pairTime, newest, consent>>
      /\ stray' \in BOOLEAN
      /\ e \in Event
  BY RequesterFacts DEF PairInv, PairTypeOK
<1>1. handling \in [Side -> SUBSET (Event \X Path)]
  BY DEF PairInv, PairTypeOK
<1>2. ASSUME handling' = [handling EXCEPT ![s] = @ \cup {<<e, p>>}], Unmoved,
             UNCHANGED <<taken, refused, pairClock>>,
             e.kind = "create" \/ (e.kind = "add" /\ consent[s])
      PROVE  PairInv'
  <2>1. RowsKept(s)
    BY <1>2, UnmovedKeepsRows
  <2>2. handling' \in [Side -> SUBSET (Event \X Path)]
    BY <1>0, <1>1, <1>2
  <2>3. \A t \in Side \ {s} : handling'[t] \subseteq handling[t]
    BY <1>1, <1>2
  <2>4. \A h \in handling'[s] \ handling[s] : h[1] \in For(s) /\ (h[1].kind = "create" \/ (h[1].kind = "add" /\ consent[s]))
    BY <1>1, <1>2
  <2>5. taken' \in [Side -> SUBSET Event] /\ refused' \in [Side -> SUBSET Event]
        /\ pairClock' \in [Side -> 0..MaxChanges]
        /\ \A t \in Side : pairClock'[t] >= pairClock[t]
    BY <1>2 DEF PairInv, PairTypeOK
  <2> QED BY <1>0, <2>1, <2>2, <2>3, <2>4, <2>5, ProcessedKeeps DEF RowsKept
<1>3. ASSUME UNCHANGED handling, RowsKept(s), Claimed(s, e), Took(s, e) PROVE PairInv'
  BY <1>0, <1>1, <1>3, AnsweredKeeps
<1>4. CASE e.kind = "create"
  BY <1>2, <1>4
<1>5. CASE e.kind \in {"accept", "decline"}
  BY <1>3, <1>5, UpdateRows DEF ProcessRequestUpdate
<1>6. CASE e.kind = "cancel"
  BY <1>3, <1>6, CancelRows DEF ProcessRequestCancel
<1>7. CASE e.kind = "remove"
  BY <1>3, <1>7, RemoveRows DEF ProcessFriendRemove
<1>8. CASE e.kind = "add"
  <2>1. BeginFriendAdd(s, e, p)
    BY <1>8
  <2>2. CASE Claimed(s, e) /\ Took(s, e) /\ UNCHANGED handling /\ Unmoved
    BY <1>3, <2>2, UnmovedKeepsRows
  <2>3. CASE /\ refused' = [refused EXCEPT ![s] = @ \cup {e}]
             /\ UNCHANGED <<taken, handling, pairClock>> /\ Unmoved
    <3>1. refused' \in [Side -> SUBSET Event] /\ taken' \in [Side -> SUBSET Event]
          /\ pairClock' \in [Side -> 0..MaxChanges]
          /\ \A t \in Side : pairClock'[t] >= pairClock[t]
      BY <1>0, <2>3 DEF PairInv, PairTypeOK
    <3>2. RowsKept(s)
      BY <2>3, UnmovedKeepsRows
    <3> QED BY <1>0, <1>1, <2>3, <3>1, <3>2, ProcessedKeeps DEF RowsKept
  <2>4. CASE /\ pending[s] = Requester(e)
             /\ handling' = [handling EXCEPT ![s] = @ \cup {<<e, p>>}]
             /\ UNCHANGED <<taken, refused, pairClock>> /\ Unmoved
    <3>1. consent[s]
      BY <1>8, <2>4, RequesterFacts DEF PairInv, ConsentInv
    <3> QED BY <1>2, <1>8, <2>4, <3>1
  <2> QED BY <2>1, <2>2, <2>3, <2>4 DEF BeginFriendAdd
<1> QED BY <1>4, <1>5, <1>6, <1>7, <1>8

LEMMA ResumeKeeps ==
  ASSUME PairInv, NEW s \in Side, NEW h \in handling[s], Resume(s, h[1], h[2])
  PROVE  PairInv'
<1>0. h[1] \in For(s) /\ h[1] \in Event
  BY RequesterFacts DEF PairInv, TimeInv, For
<1>1. /\ handling' \in [Side -> SUBSET (Event \X Path)]
      /\ \A t \in Side : handling'[t] \subseteq handling[t]
      /\ UNCHANGED <<sent, pairTime, newest, consent>> /\ stray' \in BOOLEAN
  BY DEF Resume, PairInv, PairTypeOK
<1>2. CASE ProcessRequestCreate(s, h[1])
  BY <1>0, <1>1, <1>2, CreateRows, AnsweredKeeps DEF ProcessRequestCreate
<1>3. CASE h[1].kind # "create" /\ FinishFriendAdd(s, h[1])
  <2>1. CASE h[1].kind = "add"
    <3>1. RowsKept(s)
      BY <1>3, <2>1, AddRows
    <3> QED BY <1>0, <1>1, <1>3, <3>1, AnsweredKeeps DEF FinishFriendAdd
  <2> QED BY <1>3, <2>1 DEF PairInv, TimeInv
<1> QED BY <1>2, <1>3 DEF Resume

LEMMA StopKeeps == ASSUME PairInv, NEW s \in Side, StopHandling(s) PROVE PairInv'
<1>1. RowsKept(s)
  BY UnmovedKeepsRows DEF StopHandling, Unmoved
<1>2. /\ handling' \in [Side -> SUBSET (Event \X Path)]
      /\ \A t \in Side : handling'[t] \subseteq handling[t]
      /\ handling'[s] = {}
  BY DEF StopHandling, PairInv, PairTypeOK
<1>3. /\ UNCHANGED <<sent, pairTime, newest, consent, stray, taken, refused, pairClock>>
      /\ stray' \in BOOLEAN
      /\ taken' \in [Side -> SUBSET Event] /\ refused' \in [Side -> SUBSET Event]
      /\ pairClock' \in [Side -> 0..MaxChanges]
      /\ \A t \in Side : pairClock'[t] >= pairClock[t]
  BY DEF StopHandling, PairInv, PairTypeOK
<1> QED BY <1>1, <1>2, <1>3, ProcessedKeeps DEF RowsKept

LEMMA PairStep == ASSUME PairInv, [PairNext]_pairVars PROVE PairInv'
<1>1. CASE UNCHANGED pairVars
  BY <1>1 DEF pairVars, PairInv, PairTypeOK, TimeInv, ConsentInv, FriendsConsent, AreFriends
<1>2. ASSUME NEW s \in Side, UserChange(s) PROVE PairInv'
  BY <1>2, RequestKeeps, AcceptKeeps, DeclineKeeps, CancelKeeps, RemoveKeeps DEF UserChange
<1>3. CASE PairNext
  BY <1>2, <1>3, ReceiveKeeps, ResumeKeeps, StopKeeps DEF PairNext
<1> QED BY <1>1, <1>3

-----------------------------------------------------------------------------
(* The newest change, as both sides tell it *)

\* The side of the newest change.
Lead(s) == \E e \in sent : e.by = s /\ e.at = pairTime

Says(e, change) ==
  \/ change = "request" /\ e.kind = "create"
  \/ change = "accept" /\ e.kind \in {"accept", "add"}
  \/ change \in {"decline", "cancel", "remove"} /\ e.kind = change

Open == newest \in {"request", "cancel"}
Forms(e) == e.kind \in {"accept", "add"}
Removes(e) == e.kind = "remove"
Missing(s, e) == e \in For(s) /\ e \notin taken[s]

\* What was told, and when.
LogInv ==
  /\ \A e, f \in sent : e.at = f.at => e.by = f.by
  /\ \A e \in sent : e.at = pairTime => Says(e, newest)
  /\ pairTime > 0 \/ newest # "none" => \E e \in sent : e.at = pairTime /\ ~(e.kind = "add")
  /\ \A e \in sent : e.at <= pairClock[e.by]
  /\ \A s \in Side : pairClock[s] <= pairTime
  /\ \A s \in Side : \A e \in taken[s] : e.at <= pairClock[s]
  /\ \A s \in Side : \A e \in refused[s] : e.kind = "add"
  /\ \A e, f \in sent : e.by # f.by /\ f.at < e.at => f \in taken[e.by] \cup refused[e.by]

\* A removal is the last word on a friendship, and nothing gets ahead of it.
RemovalInv ==
  /\ \A e \in sent : Forms(e) => e.at = pairTime \/ \E f \in sent : Removes(f) /\ f.at > e.at
  /\ \A s \in Side : \A f \in sent : Missing(s, f) /\ Removes(f) =>
       /\ pairClock[s] <= f.at
       /\ \A h \in handling[s] : h[1].kind = "create" => h[1].at <= f.at
       /\ ~AreFriends(Other(s)) /\ pending[Other(s)] # s
       /\ \A e \in sent : e.by = f.by /\ f.at < e.at => e.kind \in {"create", "cancel"}

\* The rows of the side that spoke last say what it said.
LeadInv ==
  \A s \in Side : Lead(s) =>
    /\ pending[s] = IF newest = "request" THEN s ELSE Nobody
    /\ AreFriends(s) <=> newest = "accept"

\* The rows of either side say what it was told.
ToldInv ==
  \A s \in Side :
    /\ AreFriends(s) => pending[s] = Nobody
    /\ AreFriends(s) => newest = "accept" \/ \E f \in sent : Missing(s, f) /\ Removes(f)
    /\ pending[s] = Other(s) =>
         /\ \A e \in sent : e.by = s => e.at < pairClock[Other(s)]
         /\ Lead(Other(s)) /\ Open
         /\ newest = "cancel" =>
              \E e \in sent : Missing(s, e) /\ e.kind = "cancel" /\ e.at = pairTime
    /\ AreFriends(s) \/ (Lead(s) /\ ~Open) =>
         \A e \in sent : e.by = s /\ ~Forms(e) /\ e.at < pairTime => e.at < pairClock[Other(s)]
    /\ Lead(Other(s)) /\ newest = "accept" =>
         /\ AreFriends(s) \/ pending[s] = s
         /\ \A e \in taken[s] : e.kind = "accept" /\ e.at = pairTime => AreFriends(s)

OrderlyInv == ~stray => LogInv /\ RemovalInv /\ LeadInv /\ ToldInv

LEMMA EventFacts ==
  ASSUME PairInv
  PROVE  /\ pairTime \in Nat /\ \A s \in Side : pairClock[s] \in Nat
         /\ \A e \in sent : e \in Event /\ e.at \in Nat /\ e.at >= 1 /\ e.by \in Side
         /\ \A s \in Side : \A e \in taken[s] : e.at \in Nat
         /\ \A s \in Side : \A h \in handling[s] : h[1] \in sent /\ h[1] \in For(s)
         /\ \A s \in Side, e \in sent : e \in For(s) <=> e.by # s
<1>1. pairTime \in Nat /\ \A s \in Side : pairClock[s] \in Nat
  BY DEF PairInv, PairTypeOK
<1>2. \A e \in Event : e.at \in Nat /\ e.at >= 1 /\ e.by \in Side
  BY DEF Event
<1>3. sent \subseteq Event /\ \A s \in Side : taken[s] \subseteq Event
  BY DEF PairInv, PairTypeOK
<1>4. \A s \in Side : \A h \in handling[s] : h[1] \in sent /\ h[1] \in For(s)
  BY DEF PairInv, TimeInv, For
<1>5. \A s \in Side, e \in sent : e \in For(s) <=> e.by # s
  BY <1>2, <1>3 DEF For, Other, Side
<1> QED BY <1>1, <1>2, <1>3, <1>4, <1>5

\* Everything the other side told has been answered here, and was not refused.
LEMMA SettledFacts ==
  ASSUME LogInv, NEW s \in Side, Settled(s)
  PROVE  \A e \in For(s) : e \in taken[s] \/ e.kind = "add"
BY DEF LogInv, Settled

\* One side had the last word.
LEMMA SomeLead ==
  ASSUME PairInv, LogInv, NEW s \in Side
  PROVE  /\ pairTime > 0 => Lead(s) \/ Lead(Other(s))
         /\ ~(Lead(s) /\ Lead(Other(s)))
<1>1. \A e \in sent : e.by = s \/ e.by = Other(s)
  BY EventFacts DEF Side, Other
<1>2. Other(s) # s
  BY SideFacts
<1> QED BY <1>1, <1>2 DEF LogInv, Lead

\* A side that has heard everything shows the friendship the newest change made.
LEMMA AcceptedShows ==
  ASSUME PairInv, LogInv, LeadInv, ToldInv, NEW s \in Side, Settled(s), newest = "accept",
         pairTime > 0
  PROVE  AreFriends(s)
<1>1. CASE Lead(s)
  BY <1>1 DEF LeadInv
<1>2. CASE Lead(Other(s)) /\ ~Lead(s)
  <2>1. PICK e \in sent : e.at = pairTime /\ e.kind # "add"
    BY DEF LogInv
  <2>2. e.kind = "accept"
    BY <2>1 DEF LogInv, Says
  <2>3. e \in For(s)
    BY <1>2, <2>1, EventFacts DEF Lead
  <2>4. e \in taken[s]
    BY <2>1, <2>3, SettledFacts
  <2> QED BY <1>2, <2>1, <2>2, <2>4 DEF ToldInv
<1> QED BY <1>1, <1>2, SomeLead

\* Side s, having heard everything, makes a change and tells it.
Speaks(s, change) ==
  /\ newest' = change /\ pairTime' = pairTime + 1
  /\ sent \subseteq sent'
  /\ \A e \in sent' \ sent : e.by = s /\ e.at = pairTime + 1 /\ Says(e, change)
  /\ \E e \in sent' \ sent : e.kind # "add"
  /\ pairClock'[s] = pairTime + 1 /\ pairClock'[Other(s)] = pairClock[Other(s)]
  /\ UNCHANGED <<taken, refused, handling>>

LEMMA TellSpeaks ==
  ASSUME PairInv, LogInv, NEW s \in Side, NEW kinds \in SUBSET Kind, NEW change,
         NEW agrees, NEW again, Tell(s, kinds, change, agrees, again), ~stray',
         \A e \in Event : e.kind \in kinds => Says(e, change),
         \E k \in kinds : k # "add"
  PROVE  ~stray /\ ~again /\ Settled(s) /\ Speaks(s, change)
<1> DEFINE new == {[kind |-> k, by |-> s, at |-> pairTime + 1] : k \in kinds}
<1>1. pairTime + 1 \in 1..MaxChanges /\ pairTime \in Nat
  BY MaxChangesAssumption DEF Tell, PairInv, PairTypeOK
<1>2. new \subseteq Event /\ \A e \in new : e.by = s /\ e.at = pairTime + 1 /\ e.kind \in kinds
  BY <1>1 DEF Event
<1>3. sent' = sent \cup new /\ newest' = change /\ pairTime' = pairTime + 1
      /\ pairClock' = Recorded(s, pairTime + 1) /\ UNCHANGED <<taken, refused, handling>>
  BY DEF Tell
<1>4. \E e \in new : e.kind # "add"
  <2>1. PICK k \in kinds : k # "add"
    OBVIOUS
  <2> WITNESS [kind |-> k, by |-> s, at |-> pairTime + 1] \in new
  <2> QED BY <2>1
<1> HIDE DEF new
<1>5. \A e \in new : e \notin sent
  BY <1>1, <1>2, EventFacts DEF PairInv, TimeInv
<1>6. pairClock'[s] = pairTime + 1 /\ pairClock'[Other(s)] = pairClock[Other(s)]
  <2>1. pairClock[s] <= pairTime /\ pairClock[s] \in Nat
    BY EventFacts DEF LogInv
  <2>2. pairClock' = [pairClock EXCEPT ![s] = pairTime + 1]
    BY <1>1, <1>3, <2>1 DEF Recorded
  <2> QED BY <2>2, SideFacts DEF PairInv, PairTypeOK
<1>7. ~stray /\ ~again /\ Settled(s)
  BY DEF Tell
<1>8. \A e \in new : Says(e, change)
  BY <1>2
<1> QED BY <1>2, <1>3, <1>4, <1>5, <1>6, <1>7, <1>8 DEF Speaks

LEMMA SpeaksLog ==
  ASSUME PairInv, PairInv', LogInv, NEW s \in Side, Settled(s), NEW change, Speaks(s, change)
  PROVE  /\ LogInv'
         /\ (\A t \in Side : Lead(t) <=> t = s)'
         /\ \A e \in sent : e.at <= pairTime /\ e.at < pairTime + 1
         /\ \A t \in Side, e \in sent : Missing(t, e)' <=> Missing(t, e)
         /\ \A e \in sent' \ sent : Missing(Other(s), e)' /\ ~Missing(s, e)'
<1> USE DEF Speaks
<1>0. \A e \in sent : e.at <= pairTime /\ e.at < pairTime + 1 /\ e.at \in Nat
  BY EventFacts DEF PairInv, TimeInv
<1>s. pairTime \in Nat /\ Other(s) \in Side /\ Other(s) # s /\ \A t \in Side : t = s \/ t = Other(s)
  BY EventFacts, SideFacts DEF Side, Other
<1>1. \A e, f \in sent' : e.at = f.at => e.by = f.by
  BY <1>0, <1>s DEF LogInv
<1>2. \A e \in sent' : e.at = pairTime' => Says(e, newest')
  BY <1>0, <1>s
<1>3. \E e \in sent' : e.at = pairTime' /\ ~(e.kind = "add")
  OBVIOUS
<1>4. \A e \in sent' : e.at <= pairClock'[e.by]
  <2>1. \A e \in sent : e.by \in Side /\ e.at <= pairClock[e.by] /\ pairClock[e.by] \in Nat
    BY EventFacts DEF LogInv
  <2> QED BY <1>0, <1>s, <2>1
<1>5. \A t \in Side : pairClock'[t] <= pairTime'
  <2>1. \A t \in Side : pairClock[t] <= pairTime /\ pairClock[t] \in Nat
    BY EventFacts DEF LogInv
  <2> QED BY <1>s, <2>1
<1>6. \A t \in Side : \A e \in taken'[t] : e.at <= pairClock'[t]
  <2>1. \A t \in Side : \A e \in taken[t] : e.at <= pairClock[t] /\ e.at \in Nat
    BY EventFacts DEF LogInv
  <2>2. \A t \in Side : pairClock[t] <= pairTime /\ pairClock[t] \in Nat
    BY EventFacts DEF LogInv
  <2>3. \A t \in Side : pairClock[t] <= pairClock'[t] /\ pairClock'[t] \in Nat
    BY <1>s, <2>2
  <2> QED BY <2>1, <2>2, <2>3
<1>7. \A t \in Side : \A e \in refused'[t] : e.kind = "add"
  BY DEF LogInv
<1>8. \A e, f \in sent' : e.by # f.by /\ f.at < e.at => f \in taken'[e.by] \cup refused'[e.by]
  <2> SUFFICES ASSUME NEW e \in sent', NEW f \in sent', e.by # f.by, f.at < e.at
               PROVE  f \in taken[e.by] \cup refused[e.by]
    OBVIOUS
  <2>1. f \in sent
    BY <1>0, <1>s
  <2>2. CASE e \in sent
    BY <2>1, <2>2 DEF LogInv
  <2>3. CASE e \notin sent
    <3>1. e.by = s /\ f \in For(s)
      BY <2>1, <2>3, EventFacts
    <3> QED BY <3>1 DEF Settled
  <2> QED BY <2>2, <2>3
<1>9. LogInv'
  BY <1>1, <1>2, <1>3, <1>4, <1>5, <1>6, <1>7, <1>8 DEF LogInv
<1>10. (\A t \in Side : Lead(t) <=> t = s)'
  BY <1>0, <1>s DEF Lead
<1>11. \A t \in Side, e \in sent : Missing(t, e)' <=> Missing(t, e)
  BY DEF Missing, For
<1>12. \A e \in sent' \ sent : Missing(Other(s), e)' /\ ~Missing(s, e)'
  <2> TAKE e \in sent' \ sent
  <2>1. e.by = s /\ e.at = pairTime + 1
    OBVIOUS
  <2>2. e \notin taken[Other(s)]
    <3>1. \A g \in taken[Other(s)] : g.at <= pairClock[Other(s)] /\ g.at \in Nat
      BY <1>s, EventFacts DEF LogInv
    <3>2. pairClock[Other(s)] <= pairTime /\ pairClock[Other(s)] \in Nat
      BY <1>s, EventFacts DEF LogInv
    <3> QED BY <1>s, <2>1, <3>1, <3>2
  <2>3. e \in For(Other(s))' /\ e \notin For(s)'
    BY <1>s, <2>1, SideFacts DEF For
  <2> QED BY <2>2, <2>3 DEF Missing
<1> QED BY <1>0, <1>9, <1>10, <1>11, <1>12

\* What the rows of s must have been for its change, and what they are after it.
ChangesRows(s, change) ==
  /\ friends'[Other(s)] = friends[Other(s)] /\ pending'[Other(s)] = pending[Other(s)]
  /\ pending'[s] = IF change = "request" THEN s ELSE Nobody
  /\ friends'[s] # {} <=> change = "accept"
  /\ \/ change \in {"accept", "decline"} /\ pending[s] = Other(s)
     \/ change = "remove" /\ AreFriends(s)
     \/ change = "request" /\ ~AreFriends(s) /\ pending[s] = Nobody
     \/ change = "cancel" /\ ~AreFriends(s) /\ pending[s] = s

\* Nothing but a removal follows an acceptance that the side has heard of.
LEMMA NextIsRemoval ==
  ASSUME PairInv, LogInv, LeadInv, ToldInv, NEW s \in Side, Settled(s), NEW change,
         ChangesRows(s, change), newest = "accept", pairTime > 0
  PROVE  change = "remove"
<1>1. AreFriends(s)
  BY AcceptedShows
<1>2. pending[s] = Nobody
  BY <1>1 DEF ToldInv
<1>3. s # Nobody /\ Other(s) # Nobody
  BY SideFacts, NobodyFact
<1> QED BY <1>1, <1>2, <1>3 DEF ChangesRows

LEMMA SpeaksRemovals ==
  ASSUME PairInv, PairInv', LogInv, RemovalInv, LeadInv, ToldInv, NEW s \in Side, Settled(s),
         NEW change, Speaks(s, change), ChangesRows(s, change)
  PROVE  RemovalInv'
<1> DEFINE t == Other(s)
<1>s. pairTime \in Nat /\ t \in Side /\ t # s /\ Other(t) = s /\ \A u \in Side : u = s \/ u = t
  BY EventFacts, SideFacts DEF Side, Other
<1>l. /\ \A e \in sent : e.at < pairTime + 1 /\ e.at <= pairTime /\ e.at \in Nat /\ e.by \in Side
      /\ \A u \in Side, e \in sent : Missing(u, e)' <=> Missing(u, e)
      /\ \A e \in sent' \ sent : Missing(t, e)' /\ ~Missing(s, e)'
  BY SpeaksLog, EventFacts
<1>n. /\ sent \subseteq sent' /\ pairTime' = pairTime + 1 /\ newest' = change
      /\ \A e \in sent' \ sent : e.by = s /\ e.at = pairTime + 1 /\ Says(e, change)
      /\ \E e \in sent' \ sent : e.kind # "add"
      /\ pairClock'[s] = pairTime + 1 /\ pairClock'[t] = pairClock[t]
      /\ UNCHANGED <<taken, refused, handling>>
  BY DEF Speaks
<1>1. \A e \in sent' : Forms(e) => e.at = pairTime' \/ \E f \in sent' : Removes(f) /\ f.at > e.at
  <2> SUFFICES ASSUME NEW e \in sent, Forms(e)
               PROVE  \E f \in sent' : Removes(f) /\ f.at > e.at
    BY <1>n
  <2>1. CASE e.at = pairTime
    <3>1. newest = "accept" /\ pairTime > 0
      BY <2>1, EventFacts DEF LogInv, Says, Forms
    <3>2. change = "remove"
      BY <3>1, NextIsRemoval
    <3>3. PICK f \in sent' \ sent : Says(f, "remove") /\ f.at = pairTime + 1
      BY <1>n, <3>2
    <3> QED BY <1>s, <2>1, <3>3 DEF Says, Removes
  <2>2. CASE e.at # pairTime
    BY <1>n, <2>2 DEF RemovalInv
  <2> QED BY <2>1, <2>2
<1>2. ASSUME NEW u \in Side, NEW f \in sent', Missing(u, f)', Removes(f), f \in sent
      PROVE  /\ u = t /\ Missing(t, f)
             /\ pairClock'[u] <= f.at
             /\ \A h \in handling'[u] : h[1].kind = "create" => h[1].at <= f.at
             /\ ~AreFriends(s) /\ pending[s] # t
             /\ \A e \in sent : e.by = f.by /\ f.at < e.at => e.kind \in {"create", "cancel"}
  <2>1. Missing(u, f)
    BY <1>2, <1>l
  <2>2. u = t
    <3>1. ~Missing(s, f)
      BY <1>2, SettledFacts DEF Missing, Removes
    <3> QED BY <1>s, <2>1, <3>1
  <2> QED BY <1>2, <1>n, <1>s, <2>1, <2>2 DEF RemovalInv
<1>3. ASSUME NEW u \in Side, NEW f \in sent', Missing(u, f)', Removes(f)
      PROVE  /\ pairClock'[u] <= f.at
             /\ \A h \in handling'[u] : h[1].kind = "create" => h[1].at <= f.at
             /\ ~AreFriends(Other(u))' /\ pending'[Other(u)] # u
             /\ \A e \in sent' : e.by = f.by /\ f.at < e.at => e.kind \in {"create", "cancel"}
  <2>1. CASE f \in sent
    <3>1. u = t /\ f.by = s
      BY <1>2, <1>3, <1>s, <1>l, <2>1, EventFacts DEF Missing
    <3>2. ~AreFriends(s) /\ pending[s] # t
      BY <1>2, <1>3, <2>1
    <3>3. change \in {"request", "cancel"}
      BY <3>2 DEF ChangesRows
    <3>4. ~AreFriends(s)' /\ pending'[s] # t
      <4>1. s # t /\ t # Nobody
        BY <1>s, NobodyFact
      <4> QED BY <3>3, <4>1 DEF ChangesRows, AreFriends
    <3>5. \A e \in sent' \ sent : e.kind \in {"create", "cancel"}
      BY <1>n, <3>3 DEF Says
    <3> QED BY <1>2, <1>3, <1>s, <2>1, <3>1, <3>4, <3>5
  <2>2. CASE f \notin sent
    <3>1. f.by = s /\ f.at = pairTime + 1 /\ Says(f, change)
      BY <1>n, <2>2
    <3>2. u = t
      BY <1>l, <1>s, <1>3, <2>2
    <3>3. change = "remove"
      BY <1>3, <3>1 DEF Says, Removes
    <3>4. ~AreFriends(s)' /\ pending'[s] # t
      <4>1. t # Nobody
        BY <1>s, NobodyFact
      <4> QED BY <3>3, <4>1 DEF ChangesRows, AreFriends
    <3>5. pairClock'[u] <= f.at
      <4>1. pairClock[t] <= pairTime /\ pairClock[t] \in Nat
        BY <1>s, EventFacts DEF LogInv
      <4> QED BY <1>n, <1>s, <3>1, <3>2, <4>1
    <3>6. \A h \in handling'[u] : h[1].at <= f.at
      <4>1. \A h \in handling[t] : h[1] \in sent
        BY <1>s, EventFacts
      <4> QED BY <1>n, <1>l, <1>s, <3>1, <3>2, <4>1
    <3>7. \A e \in sent' : ~(f.at < e.at)
      BY <1>n, <1>l, <1>s, <3>1
    <3> QED BY <1>s, <3>2, <3>4, <3>5, <3>6, <3>7
  <2> QED BY <2>1, <2>2
<1> HIDE DEF t
<1> QED BY <1>1, <1>3 DEF RemovalInv

LEMMA SpeaksRows ==
  ASSUME PairInv, PairInv', LogInv, RemovalInv, LeadInv, ToldInv, NEW s \in Side, Settled(s),
         NEW change, Speaks(s, change), ChangesRows(s, change)
  PROVE  LeadInv' /\ ToldInv'
<1> DEFINE t == Other(s)
<1>s. /\ pairTime \in Nat /\ t \in Side /\ t # s /\ Other(t) = s /\ \A u \in Side : u = s \/ u = t
      /\ s # Nobody /\ t # Nobody
  BY EventFacts, SideFacts, NobodyFact DEF Side, Other
<1>l. /\ \A e \in sent : /\ e.at < pairTime + 1 /\ e.at <= pairTime /\ e.at \in Nat
                         /\ e.by \in Side /\ e.at >= 1
      /\ \A u \in Side, e \in sent : Missing(u, e)' <=> Missing(u, e)
      /\ \A e \in sent' \ sent : Missing(t, e)' /\ ~Missing(s, e)'
      /\ (\A u \in Side : Lead(u) <=> u = s)'
  BY SpeaksLog, EventFacts
<1>n. /\ sent \subseteq sent' /\ pairTime' = pairTime + 1 /\ newest' = change
      /\ \A e \in sent' \ sent : e.by = s /\ e.at = pairTime + 1 /\ Says(e, change)
      /\ \E e \in sent' \ sent : e.kind # "add"
      /\ pairClock'[s] = pairTime + 1 /\ pairClock'[t] = pairClock[t]
      /\ UNCHANGED <<taken, refused, handling>>
  BY DEF Speaks
<1>r. /\ friends'[t] = friends[t] /\ pending'[t] = pending[t]
      /\ pending'[s] = IF change = "request" THEN s ELSE Nobody
      /\ AreFriends(s)' <=> change = "accept"
      /\ AreFriends(t)' <=> AreFriends(t)
  BY DEF ChangesRows, AreFriends
<1>ls. Lead(s)' /\ ~Lead(t)'
  <2>1. \A u \in Side : Lead(u)' <=> u = s
    BY <1>l
  <2> QED BY <1>s, <2>1
<1> HIDE DEF t
<1>1. LeadInv'
  BY <1>s, <1>ls, <1>n, <1>r DEF LeadInv
<1>2. \A u \in Side : AreFriends(u)' => pending'[u] = Nobody
  <2>1. AreFriends(s)' => pending'[s] = Nobody
    BY <1>r
  <2>2. AreFriends(t)' => pending'[t] = Nobody
    BY <1>s, <1>r DEF ToldInv
  <2> QED BY <1>s, <2>1, <2>2
<1>3. AreFriends(s)' => newest' = "accept"
  BY <1>n, <1>r
<1>4. AreFriends(t)' => newest' = "accept" \/ \E f \in sent' : Missing(t, f)' /\ Removes(f)
  <2> SUFFICES ASSUME AreFriends(t) PROVE \E f \in sent' : Missing(t, f)' /\ Removes(f)
    BY <1>r
  <2>1. CASE \E f \in sent : Missing(t, f) /\ Removes(f)
    BY <1>l, <1>n, <1>s, <2>1
  <2>2. CASE newest = "accept"
    <3>1. pairTime > 0
      <4>1. \E e \in sent : e.at = pairTime
        BY <2>2 DEF LogInv
      <4> QED BY <1>l, <1>s, <4>1
    <3>2. change = "remove"
      BY <2>2, <3>1, NextIsRemoval
    <3>3. PICK f \in sent' \ sent : Says(f, "remove")
      BY <1>n, <3>2
    <3>4. Missing(t, f)' /\ Removes(f)
      BY <1>l, <3>3 DEF Says, Removes
    <3> QED BY <3>4
  <2> QED BY <1>s, <2>1, <2>2 DEF ToldInv
<1>5. pending'[s] # t
  BY <1>s, <1>r
<1>6. ASSUME pending'[t] = s
      PROVE  /\ \A e \in sent' : e.by = t => e.at < pairClock'[s]
             /\ Open'
             /\ newest' = "cancel" =>
                  \E e \in sent' : Missing(t, e)' /\ e.kind = "cancel" /\ e.at = pairTime'
  <2>1. Lead(s) /\ Open
    BY <1>6, <1>r, <1>s DEF ToldInv
  <2>2. pending[s] \in {s, Nobody} /\ ~AreFriends(s)
    BY <2>1 DEF LeadInv, Open
  <2>3. change \in {"request", "cancel"}
    BY <1>s, <2>2 DEF ChangesRows, t
  <2>4. change = "cancel" => \E e \in sent' : Missing(t, e)' /\ e.kind = "cancel" /\ e.at = pairTime'
    BY <1>n, <1>l DEF Says
  <2>5. \A e \in sent' : e.by = t => e.at < pairClock'[s]
    BY <1>n, <1>l, <1>s
  <2> QED BY <1>n, <2>3, <2>4, <2>5 DEF Open
<1>7. AreFriends(s)' \/ ~Open' =>
         \A e \in sent' : e.by = s /\ ~Forms(e) /\ e.at < pairTime' => e.at < pairClock'[t]
  <2> SUFFICES ASSUME change \notin {"request", "cancel"},
                      NEW e \in sent, e.by = s, ~Forms(e)
               PROVE  e.at < pairClock[t]
    BY <1>n, <1>r, <1>s DEF Open
  <2>1. CASE pending[s] = t
    BY <2>1 DEF ToldInv, t
  <2>2. CASE AreFriends(s)
    <3>1. e.at < pairTime
      <4>1. CASE e.at = pairTime
        <5>1. Lead(s)
          BY <4>1 DEF Lead
        <5>2. newest = "accept"
          BY <2>2, <5>1 DEF LeadInv
        <5> QED BY <4>1, <5>2 DEF LogInv, Says, Forms
      <4> QED BY <1>l, <1>s, <4>1
    <3> QED BY <2>2, <3>1 DEF ToldInv, t
  <2> QED BY <2>1, <2>2 DEF ChangesRows, t
<1>8. \A e \in sent' : e.by = t => e.at < pairClock'[s]
  BY <1>n, <1>l, <1>s
<1>9. newest' = "accept" => /\ AreFriends(t)' \/ pending'[t] = t
                            /\ \A e \in taken'[t] : e.kind = "accept" /\ e.at = pairTime' => AreFriends(t)'
  <2> SUFFICES ASSUME change = "accept"
               PROVE  /\ pending[t] = t
                      /\ \A e \in taken[t] : e.at # pairTime + 1
    BY <1>n, <1>r
  <2>1. pending[s] = t
    BY DEF ChangesRows, t
  <2>2. Lead(t) /\ Open
    BY <2>1 DEF ToldInv, t
  <2>3. newest # "cancel"
    <3>1. \A e \in sent : Missing(s, e) => e.kind = "add"
      BY SettledFacts DEF Missing
    <3> QED BY <2>1, <3>1 DEF ToldInv, t
  <2>4. pending[t] = t
    BY <1>s, <2>2, <2>3 DEF LeadInv, Open
  <2>5. \A e \in taken[t] : e.at <= pairTime /\ e.at \in Nat
    <3>1. pairClock[t] <= pairTime /\ pairClock[t] \in Nat
      BY <1>s, EventFacts DEF LogInv
    <3>2. \A e \in taken[t] : e.at <= pairClock[t] /\ e.at \in Nat
      BY <1>s, EventFacts DEF LogInv
    <3> QED BY <1>s, <3>1, <3>2
  <2> QED BY <1>s, <2>4, <2>5
<1>10. ToldInv'
  <2> SUFFICES ASSUME NEW u \in Side
        PROVE /\ AreFriends(u)' => pending'[u] = Nobody
              /\ AreFriends(u)' => newest' = "accept" \/ \E f \in sent' : Missing(u, f)' /\ Removes(f)
              /\ pending'[u] = Other(u) =>
                   /\ \A e \in sent' : e.by = u => e.at < pairClock'[Other(u)]
                   /\ Lead(Other(u))' /\ Open'
                   /\ newest' = "cancel" =>
                        \E e \in sent' : Missing(u, e)' /\ e.kind = "cancel" /\ e.at = pairTime'
              /\ AreFriends(u)' \/ (Lead(u)' /\ ~Open') =>
                   \A e \in sent' : e.by = u /\ ~Forms(e) /\ e.at < pairTime' => e.at < pairClock'[Other(u)]
              /\ Lead(Other(u))' /\ newest' = "accept" =>
                   /\ AreFriends(u)' \/ pending'[u] = u
                   /\ \A e \in taken'[u] : e.kind = "accept" /\ e.at = pairTime' => AreFriends(u)'
    BY DEF ToldInv
  <2>1. CASE u = s
    BY <1>s, <1>ls, <1>2, <1>3, <1>5, <1>7, <2>1 DEF t
  <2>2. CASE u = t
    <3>1. Other(u) = s
      BY <1>s, <2>2
    <3> QED BY <1>s, <1>ls, <1>2, <1>4, <1>6, <1>8, <1>9, <2>2, <3>1
  <2> QED BY <1>s, <2>1, <2>2
<1> QED BY <1>1, <1>10

LEMMA ChangeOrderly ==
  ASSUME PairInv, PairInv', LogInv, RemovalInv, LeadInv, ToldInv, NEW s \in Side,
         UserChange(s), ~stray'
  PROVE  LogInv' /\ RemovalInv' /\ LeadInv' /\ ToldInv'
<1>s. s # Nobody /\ Other(s) # Nobody /\ Other(s) \in Side /\ Other(s) # s
  BY SideFacts, NobodyFact
<1>t. friends \in [Side -> SUBSET Side] /\ pending \in [Side -> Side \cup {Nobody}]
  BY DEF PairInv, PairTypeOK
<1>f. AreFriends(s) => pending[s] = Nobody
  BY DEF ToldInv
<1>0. ASSUME NEW change, NEW kinds \in SUBSET Kind, NEW agrees, NEW again,
             Tell(s, kinds, change, agrees, again), ChangesRows(s, change),
             \A e \in Event : e.kind \in kinds => Says(e, change),
             \E k \in kinds : k # "add"
      PROVE  LogInv' /\ RemovalInv' /\ LeadInv' /\ ToldInv'
  <2>1. Settled(s) /\ Speaks(s, change)
    BY <1>0, TellSpeaks
  <2> QED BY <1>0, <2>1, SpeaksLog, SpeaksRemovals, SpeaksRows
<1>1. CASE Request(s)
  <2>1. Tell(s, {"create"}, "request", TRUE, FALSE)
    BY <1>1 DEF Request
  <2>2. ChangesRows(s, "request")
    BY <1>1, <1>s, <1>t DEF Request, ChangesRows, AreFriends
  <2>3. {"create"} \in SUBSET Kind /\ (\E k \in {"create"} : k # "add")
        /\ \A e \in Event : e.kind \in {"create"} => Says(e, "request")
    BY DEF Kind, Says
  <2> QED BY <1>0, <2>1, <2>2, <2>3
<1>2. CASE Accept(s)
  <2>1. PICK again \in Answerable(s) :
          /\ friends' = [friends EXCEPT ![s] = @ \cup {Other(s)}]
          /\ Answered(s, again)
          /\ Tell(s, {"accept", "add"}, "accept", TRUE, again)
    BY <1>2 DEF Accept
  <2>2. {"accept", "add"} \in SUBSET Kind /\ (\E k \in {"accept", "add"} : k # "add")
        /\ \A e \in Event : e.kind \in {"accept", "add"} => Says(e, "accept")
    BY DEF Kind, Says
  <2>3. ~again
    BY <2>1 DEF Tell
  <2>4. pending[s] = Other(s) /\ pending' = [pending EXCEPT ![s] = Nobody]
    BY <2>1, <2>3 DEF Answerable, Answered
  <2>5. ChangesRows(s, "accept")
    BY <1>s, <1>t, <2>1, <2>4 DEF ChangesRows
  <2> QED BY <1>0, <2>1, <2>2, <2>5
<1>3. CASE Decline(s)
  <2>1. PICK again \in Answerable(s) :
          /\ Answered(s, again)
          /\ Tell(s, {"decline"}, "decline", consent[s] /\ (AreFriends(s) \/ pending[s] = s), again)
          /\ UNCHANGED friends
    BY <1>3 DEF Decline
  <2>2. {"decline"} \in SUBSET Kind /\ (\E k \in {"decline"} : k # "add")
        /\ \A e \in Event : e.kind \in {"decline"} => Says(e, "decline")
    BY DEF Kind, Says
  <2>3. ~again
    BY <2>1 DEF Tell
  <2>4. pending[s] = Other(s) /\ pending' = [pending EXCEPT ![s] = Nobody]
    BY <2>1, <2>3 DEF Answerable, Answered
  <2>5. ChangesRows(s, "decline")
    BY <1>f, <1>s, <1>t, <2>1, <2>4 DEF ChangesRows, AreFriends
  <2> QED BY <1>0, <2>1, <2>2, <2>5
<1>4. CASE CancelRequest(s)
  <2>1. Tell(s, {"cancel"}, "cancel", consent[s] /\ AreFriends(s), FALSE)
    BY <1>4 DEF CancelRequest
  <2>2. ChangesRows(s, "cancel")
    BY <1>4, <1>f, <1>s, <1>t DEF CancelRequest, ChangesRows, AreFriends
  <2>3. {"cancel"} \in SUBSET Kind /\ (\E k \in {"cancel"} : k # "add")
        /\ \A e \in Event : e.kind \in {"cancel"} => Says(e, "cancel")
    BY DEF Kind, Says
  <2> QED BY <1>0, <2>1, <2>2, <2>3
<1>5. CASE RemoveFriend(s)
  <2>1. Tell(s, {"remove"}, "remove", pending[s] = s, FALSE)
    BY <1>5 DEF RemoveFriend
  <2>2. ChangesRows(s, "remove")
    BY <1>5, <1>f, <1>s, <1>t DEF RemoveFriend, ChangesRows, AreFriends
  <2>3. {"remove"} \in SUBSET Kind /\ (\E k \in {"remove"} : k # "add")
        /\ \A e \in Event : e.kind \in {"remove"} => Says(e, "remove")
    BY DEF Kind, Says
  <2> QED BY <1>0, <2>1, <2>2, <2>3
<1> QED BY <1>1, <1>2, <1>3, <1>4, <1>5 DEF UserChange

-----------------------------------------------------------------------------
\* Side s processes e: only its own clock, ledger and waiting events move.
Hears(s, e) ==
  LET t == Other(s) IN
  /\ UNCHANGED <<sent, pairTime, newest>>
  /\ friends'[t] = friends[t] /\ pending'[t] = pending[t]
  /\ pairClock'[t] = pairClock[t] /\ taken'[t] = taken[t] /\ refused'[t] = refused[t]
  /\ handling'[t] = handling[t]
  /\ pairClock'[s] = pairClock[s] \/ (pairClock'[s] = e.at /\ pairClock[s] <= e.at)
  /\ taken'[s] = taken[s] \/ (taken'[s] = taken[s] \cup {e} /\ e.at <= pairClock'[s])
  /\ refused'[s] = refused[s] \/ (refused'[s] = refused[s] \cup {e} /\ e.kind = "add")
  /\ \A h \in handling'[s] \ handling[s] : h[1] = e

\* What e does to the rows of s.  A stale event does nothing.
Heeds(s, e) ==
  \/ UNCHANGED <<friends, pending>>
  \/ /\ ~Stale(s, e)
     /\ \/ /\ e.kind = "create" /\ ~AreFriends(s) /\ pending[s] = Nobody
           /\ friends'[s] = {} /\ pending'[s] = Other(s)
        \/ /\ e.kind \in {"accept", "decline"} /\ pending[s] = s
           /\ friends'[s] # {} <=> e.kind = "accept" \/ AreFriends(s)
           /\ pending'[s] = Nobody
        \/ /\ e.kind = "cancel" /\ pending[s] = Other(s)
           /\ friends'[s] = friends[s] /\ pending'[s] = Nobody
        \/ e.kind = "remove" /\ friends'[s] = {} /\ pending'[s] = pending[s]
        \/ e.kind = "add" /\ friends'[s] # {} /\ pending'[s] = Nobody

\* An event that counts as taken has done what it is for, or came too late.
Done(s, e) ==
  e \in taken'[s] \ taken[s] =>
    \/ Stale(s, e)
    \/ /\ e.kind = "cancel" => pending'[s] # Other(s)
       /\ e.kind = "remove" => friends'[s] = {}
       /\ e.kind = "accept" => pending[s] # s \/ friends'[s] # {}

\* It did not get ahead of a removal.
Waits(s, e) ==
  \A f \in sent : Missing(s, f) /\ Removes(f) /\ e.kind \in {"create", "cancel"} =>
    e.at <= f.at

LEMMA HearsLog ==
  ASSUME PairInv, PairInv', LogInv, NEW s \in Side, NEW e \in For(s), Hears(s, e)
  PROVE  /\ LogInv'
         /\ \A u \in Side : Lead(u)' <=> Lead(u)
         /\ \A u \in Side, f \in sent : Missing(u, f)' => Missing(u, f)
         /\ \A f \in sent : f \notin taken'[Other(s)] <=> f \notin taken[Other(s)]
         /\ \A u \in Side : pairClock[u] <= pairClock'[u]
<1> DEFINE t == Other(s)
<1>s. t \in Side /\ t # s /\ \A u \in Side : u = s \/ u = t
  BY SideFacts DEF Side, Other
<1>e. e \in sent /\ e.at \in Nat /\ e.at <= pairTime
  BY EventFacts DEF For, PairInv, TimeInv
<1>n. /\ UNCHANGED <<sent, pairTime, newest>>
      /\ pairClock'[t] = pairClock[t] /\ taken'[t] = taken[t] /\ refused'[t] = refused[t]
      /\ pairClock'[s] = pairClock[s] \/ (pairClock'[s] = e.at /\ pairClock[s] <= e.at)
      /\ taken'[s] = taken[s] \/ (taken'[s] = taken[s] \cup {e} /\ e.at <= pairClock'[s])
      /\ refused'[s] = refused[s] \/ (refused'[s] = refused[s] \cup {e} /\ e.kind = "add")
  BY DEF Hears
<1>c. \A u \in Side : pairClock[u] \in Nat /\ pairClock'[u] \in Nat /\ pairTime \in Nat
  BY EventFacts DEF PairInv, PairTypeOK
<1> HIDE DEF t
<1>1. \A u \in Side : pairClock[u] <= pairClock'[u]
  BY <1>s, <1>n, <1>c
<1>2. \A g \in sent : g.at <= pairClock'[g.by]
  <2>1. \A g \in sent : g.by \in Side /\ g.at <= pairClock[g.by] /\ g.at \in Nat
    BY EventFacts DEF LogInv
  <2> QED BY <1>1, <1>c, <2>1
<1>3. \A u \in Side : pairClock'[u] <= pairTime
  BY <1>s, <1>n, <1>c, <1>e DEF LogInv
<1>4. \A u \in Side : \A g \in taken'[u] : g.at <= pairClock'[u]
  <2>1. \A u \in Side : \A g \in taken[u] : g.at <= pairClock[u] /\ g.at \in Nat
    BY EventFacts DEF LogInv
  <2>2. \A u \in Side : \A g \in taken[u] : g.at <= pairClock'[u]
    BY <1>1, <1>c, <2>1
  <2> QED BY <1>s, <1>n, <2>2
<1>5. \A u \in Side : \A g \in refused'[u] : g.kind = "add"
  BY <1>s, <1>n DEF LogInv
<1>6. \A u \in Side : taken[u] \subseteq taken'[u] /\ refused[u] \subseteq refused'[u]
  BY <1>s, <1>n
<1>7. \A g, f \in sent : g.by # f.by /\ f.at < g.at => f \in taken'[g.by] \cup refused'[g.by]
  <2>1. \A g \in sent : g.by \in Side
    BY EventFacts
  <2> QED BY <1>6, <2>1 DEF LogInv
<1>8. LogInv'
  BY <1>n, <1>2, <1>3, <1>4, <1>5, <1>7 DEF LogInv
<1>9. \A u \in Side : Lead(u)' <=> Lead(u)
  BY <1>n DEF Lead
<1>10. \A u \in Side, f \in sent : Missing(u, f)' => Missing(u, f)
  BY <1>n, <1>6 DEF Missing, For
<1> QED BY <1>n, <1>1, <1>8, <1>9, <1>10 DEF t

\* The side of the newest change is not moved by what it hears.
LEMMA LeadUnmoved ==
  ASSUME PairInv, LogInv, NEW s \in Side, NEW e \in For(s), Heeds(s, e), Lead(s)
  PROVE  Stale(s, e) /\ UNCHANGED <<friends, pending>>
<1>1. PICK g \in sent : g.by = s /\ g.at = pairTime
  BY DEF Lead
<1>2. e \in sent /\ e.by # s /\ e.at \in Nat /\ e.at <= pairTime /\ pairTime \in Nat
  BY EventFacts DEF For, PairInv, TimeInv
<1>3. e.at # pairTime
  BY <1>1, <1>2 DEF LogInv
<1>4. pairTime <= pairClock[s] /\ pairClock[s] \in Nat
  BY <1>1, EventFacts DEF LogInv
<1>5. Stale(s, e)
  BY <1>2, <1>3, <1>4 DEF Stale
<1> QED BY <1>5 DEF Heeds

\* An event that is not stale is later than all its side told, and the other side's
\* earlier ones had reached the one who told it.
LEMMA FreshFacts ==
  ASSUME PairInv, LogInv, NEW s \in Side, NEW e \in For(s), ~Stale(s, e)
  PROVE  /\ pairClock[s] <= e.at /\ e.at <= pairClock[Other(s)]
         /\ \A f \in sent : f.by = s =>
              /\ f.at < e.at /\ f.at < pairClock[Other(s)]
              /\ f \in taken[Other(s)] \/ f.kind = "add"
         /\ ~Lead(s) /\ Lead(Other(s))
<1>1. e \in sent /\ e.by = Other(s) /\ Other(s) # s /\ e.at \in Nat /\ e.at >= 1
      /\ e.at <= pairTime /\ pairTime \in Nat
  BY EventFacts, SideFacts DEF For, PairInv, TimeInv
<1>2. pairClock[s] \in Nat /\ pairClock[Other(s)] \in Nat
  BY EventFacts, SideFacts
<1>3. pairClock[s] <= e.at
  BY <1>1, <1>2 DEF Stale
<1>4. e.at <= pairClock[Other(s)]
  BY <1>1 DEF LogInv
<1>5. ASSUME NEW f \in sent, f.by = s
      PROVE  f.at < e.at /\ f.at < pairClock[Other(s)] /\ (f \in taken[Other(s)] \/ f.kind = "add")
  <2>1. f.at <= pairClock[s] /\ f.at \in Nat
    BY <1>5, EventFacts DEF LogInv
  <2>2. f.at # e.at
    BY <1>1, <1>5 DEF LogInv
  <2>3. f.at < e.at
    BY <1>1, <1>2, <1>3, <2>1, <2>2
  <2>4. f \in taken[Other(s)] \cup refused[Other(s)]
    BY <1>1, <1>5, <2>3 DEF LogInv
  <2>5. f \in refused[Other(s)] => f.kind = "add"
    BY SideFacts DEF LogInv
  <2> QED BY <1>1, <1>2, <1>4, <2>1, <2>3, <2>4, <2>5
<1>6. ~Lead(s)
  <2> SUFFICES ASSUME Lead(s) PROVE FALSE
    OBVIOUS
  <2>1. PICK g \in sent : g.by = s /\ g.at = pairTime
    BY DEF Lead
  <2>2. g.at < e.at /\ g.at \in Nat
    BY <1>5, <2>1, EventFacts
  <2> QED BY <1>1, <2>1, <2>2
<1>7. pairTime > 0
  BY <1>1
<1> QED BY <1>3, <1>4, <1>5, <1>6, <1>7, SomeLead

LEMMA HearsRemovals ==
  ASSUME PairInv, PairInv', LogInv, RemovalInv, LeadInv, ToldInv, NEW s \in Side,
         NEW e \in For(s), Hears(s, e), Heeds(s, e), Waits(s, e)
  PROVE  RemovalInv'
<1> DEFINE t == Other(s)
<1>s. t \in Side /\ t # s /\ Other(t) = s /\ t # Nobody /\ s # Nobody
      /\ \A u \in Side : u = s \/ u = t
  BY SideFacts, NobodyFact DEF Side, Other
<1>e. e \in sent /\ e.by = t /\ e.at \in Nat
  BY EventFacts DEF For
<1>n. /\ UNCHANGED <<sent, pairTime, newest>>
      /\ friends'[t] = friends[t] /\ pending'[t] = pending[t]
      /\ pairClock'[t] = pairClock[t] /\ handling'[t] = handling[t]
      /\ pairClock'[s] = pairClock[s] \/ pairClock'[s] = e.at
      /\ \A h \in handling'[s] \ handling[s] : h[1] = e
  BY DEF Hears
<1>m. \A u \in Side, f \in sent : Missing(u, f)' => Missing(u, f)
  BY HearsLog
<1>r. \A f \in sent : f \notin taken'[t] <=> f \notin taken[t]
  BY HearsLog
<1> HIDE DEF t
<1>1. ASSUME NEW f \in sent, Missing(s, f), Removes(f)
      PROVE  /\ pairClock'[s] <= f.at
             /\ \A h \in handling'[s] : h[1].kind = "create" => h[1].at <= f.at
             /\ ~AreFriends(t)' /\ pending'[t] # s
  <2>1. f.by = t /\ f.at \in Nat
    BY <1>1, EventFacts DEF Missing, For, t
  <2>2. f.at < e.at => e.kind \in {"create", "cancel"}
    BY <1>1, <1>e, <2>1 DEF RemovalInv
  <2>3. e.at <= f.at
    BY <1>1, <1>e, <2>1, <2>2 DEF Waits
  <2>4. pairClock'[s] <= f.at
    BY <1>1, <1>n, <2>3 DEF RemovalInv
  <2>5. \A h \in handling'[s] : h[1].kind = "create" => h[1].at <= f.at
    BY <1>1, <1>n, <2>3 DEF RemovalInv
  <2>6. ~AreFriends(t)' /\ pending'[t] # s
    BY <1>1, <1>n DEF RemovalInv, AreFriends, t
  <2> QED BY <2>4, <2>5, <2>6
<1>2. ASSUME NEW f \in sent, Missing(t, f), Removes(f)
      PROVE  /\ pairClock'[t] <= f.at
             /\ \A h \in handling'[t] : h[1].kind = "create" => h[1].at <= f.at
             /\ ~AreFriends(s)' /\ pending'[s] # t
  <2>1. pairClock'[t] <= f.at /\ \A h \in handling'[t] : h[1].kind = "create" => h[1].at <= f.at
    BY <1>2, <1>n, <1>s DEF RemovalInv
  <2>2. ~AreFriends(s) /\ pending[s] # t
    BY <1>2, <1>s DEF RemovalInv
  <2>3. f.by = s /\ f \notin taken[t] /\ f.kind # "add"
    BY <1>2, <1>s DEF Missing, For, Removes
  <2>4. Stale(s, e)
    BY <2>3, FreshFacts DEF t
  <2> QED BY <2>1, <2>2, <2>4 DEF Heeds, AreFriends
<1>3. \A u \in Side : \A f \in sent : Missing(u, f)' /\ Removes(f) =>
       /\ pairClock'[u] <= f.at
       /\ \A h \in handling'[u] : h[1].kind = "create" => h[1].at <= f.at
       /\ ~AreFriends(Other(u))' /\ pending'[Other(u)] # u
       /\ \A g \in sent : g.by = f.by /\ f.at < g.at => g.kind \in {"create", "cancel"}
  <2> SUFFICES ASSUME NEW u \in Side, NEW f \in sent, Missing(u, f)', Removes(f)
       PROVE /\ pairClock'[u] <= f.at
             /\ \A h \in handling'[u] : h[1].kind = "create" => h[1].at <= f.at
             /\ ~AreFriends(Other(u))' /\ pending'[Other(u)] # u
             /\ \A g \in sent : g.by = f.by /\ f.at < g.at => g.kind \in {"create", "cancel"}
    OBVIOUS
  <2>1. Missing(u, f)
    BY <1>m
  <2>2. \A g \in sent : g.by = f.by /\ f.at < g.at => g.kind \in {"create", "cancel"}
    BY <2>1 DEF RemovalInv
  <2>3. CASE u = s
    BY <1>1, <2>1, <2>2, <2>3 DEF t
  <2>4. CASE u = t
    <3>1. Other(u) = s
      BY <1>s, <2>4
    <3> QED BY <1>2, <2>1, <2>2, <2>4, <3>1
  <2> QED BY <1>s, <2>3, <2>4
<1>4. \A g \in sent : Forms(g) => g.at = pairTime \/ \E f \in sent : Removes(f) /\ f.at > g.at
  BY DEF RemovalInv
<1> QED BY <1>n, <1>3, <1>4 DEF RemovalInv

\* What an event that is not stale leaves at the side that heeds it.
LEMMA FreshRows ==
  ASSUME PairInv, PairInv', LogInv, RemovalInv, LeadInv, ToldInv, NEW s \in Side,
         NEW e \in For(s), Hears(s, e), Heeds(s, e), ~Stale(s, e), ~UNCHANGED <<friends, pending>>
  PROVE  /\ AreFriends(s)' => /\ pending'[s] = Nobody
                              /\ newest = "accept" \/ \E f \in sent : Missing(s, f)' /\ Removes(f)
         /\ pending'[s] = Other(s) =>
              /\ Open
              /\ newest = "cancel" =>
                   \E g \in sent : Missing(s, g)' /\ g.kind = "cancel" /\ g.at = pairTime
         /\ newest = "accept" => AreFriends(s)'
<1> DEFINE t == Other(s)
<1>s. /\ t \in Side /\ t # s /\ Other(t) = s /\ t # Nobody /\ s # Nobody
      /\ pairClock[s] \in Nat /\ pairTime \in Nat
  BY SideFacts, NobodyFact, EventFacts
<1>e. e \in sent /\ e.by = t /\ e.at \in Nat /\ e.at <= pairTime
  BY EventFacts DEF For, PairInv, TimeInv
<1>f. /\ pairClock[s] <= e.at /\ Lead(t) /\ ~Lead(s)
      /\ \A f \in sent : f.by = s => f.at < e.at
  BY FreshFacts
<1>k. UNCHANGED sent /\ (taken'[s] = taken[s] \/ taken'[s] = taken[s] \cup {e})
  BY DEF Hears
<1>h. \/ /\ e.kind = "create" /\ ~AreFriends(s) /\ pending[s] = Nobody
         /\ ~AreFriends(s)' /\ pending'[s] = t
      \/ /\ e.kind = "accept" /\ AreFriends(s)' /\ pending'[s] = Nobody
      \/ /\ e.kind = "decline" /\ pending[s] = s
         /\ (AreFriends(s)' <=> AreFriends(s)) /\ pending'[s] = Nobody
      \/ /\ e.kind = "cancel" /\ pending[s] = t
         /\ (AreFriends(s)' <=> AreFriends(s)) /\ pending'[s] = Nobody
      \/ e.kind = "remove" /\ ~AreFriends(s)' /\ pending'[s] = pending[s]
      \/ e.kind = "add" /\ AreFriends(s)' /\ pending'[s] = Nobody
  BY DEF Heeds, AreFriends
<1>a. AreFriends(s) => pending[s] = Nobody
  BY DEF ToldInv
<1> HIDE DEF t
<1>1. AreFriends(s)' => Forms(e) /\ pending'[s] = Nobody
  BY <1>h, <1>a, <1>s DEF Forms
<1>2. AreFriends(s)' => newest = "accept" \/ \E f \in sent : Missing(s, f)' /\ Removes(f)
  <2> SUFFICES ASSUME AreFriends(s)' PROVE newest = "accept" \/ \E f \in sent : Missing(s, f)' /\ Removes(f)
    OBVIOUS
  <2>1. CASE e.at = pairTime
    BY <1>1, <1>e, <2>1 DEF LogInv, Says, Forms
  <2>2. ASSUME NEW f \in sent, Removes(f), f.at > e.at PROVE Missing(s, f)'
    <3>1. f.at \in Nat /\ f.by # s
      BY <1>e, <1>f, <2>2, EventFacts
    <3>2. f \notin taken[s]
      <4>1. f \in taken[s] => f.at <= pairClock[s]
        BY DEF LogInv
      <4> QED BY <1>e, <1>f, <1>s, <2>2, <3>1, <4>1
    <3>3. f # e
      BY <1>1, <2>2 DEF Removes, Forms
    <3>4. f \in For(s)
      BY <3>1, EventFacts
    <3> QED BY <1>k, <3>2, <3>3, <3>4 DEF Missing, For
  <2> QED BY <1>1, <1>e, <2>1, <2>2 DEF RemovalInv
<1>3. ~Forms(e) => newest # "accept" /\ (e.at = pairTime \/ Open)
  <2> SUFFICES ASSUME ~Forms(e) PROVE newest # "accept" /\ (e.at = pairTime \/ Open)
    OBVIOUS
  <2>1. CASE e.at = pairTime
    BY <1>e, <2>1 DEF LogInv, Says, Forms
  <2>2. CASE e.at # pairTime
    <3>1. e.at < pairTime
      BY <1>e, <1>s, <2>2
    <3>2. ~Open => e.at < pairClock[Other(t)]
      BY <1>e, <1>f, <1>s, <3>1 DEF ToldInv
    <3>3. Open
      BY <1>e, <1>f, <1>s, <3>2
    <3> QED BY <3>3 DEF Open
  <2> QED BY <2>1, <2>2
<1>4. newest = "accept" => AreFriends(s)'
  BY <1>3, <1>h DEF Forms
<1>5. ASSUME pending'[s] = t
      PROVE  /\ Open
             /\ newest = "cancel" =>
                   \E g \in sent : Missing(s, g)' /\ g.kind = "cancel" /\ g.at = pairTime
  <2>1. CASE e.kind = "create"
    <3>1. Open
      <4>1. CASE e.at = pairTime
        BY <1>e, <2>1, <4>1 DEF LogInv, Says, Open
      <4> QED BY <1>3, <2>1, <4>1 DEF Forms
    <3>2. ASSUME newest = "cancel"
          PROVE  \E g \in sent : Missing(s, g)' /\ g.kind = "cancel" /\ g.at = pairTime
      <4>1. PICK g \in sent : g.at = pairTime
        BY <3>2 DEF LogInv
      <4>2. g.kind = "cancel"
        BY <3>2, <4>1 DEF LogInv, Says
      <4>3. g.by # s
        BY <1>f, <4>1 DEF Lead
      <4>4. e.at # pairTime
        BY <1>e, <2>1, <3>2 DEF LogInv, Says
      <4>5. g \notin taken[s]
        <5>1. g \in taken[s] => g.at <= pairClock[s]
          BY DEF LogInv
        <5> QED BY <1>e, <1>f, <1>s, <4>1, <4>4, <5>1
      <4>6. g # e /\ g \in For(s)
        BY <4>1, <4>3, <4>4, EventFacts
      <4> QED BY <1>k, <4>1, <4>2, <4>5, <4>6 DEF Missing, For
    <3> QED BY <3>1, <3>2
  <2>2. CASE e.kind = "remove"
    <3>1. pending[s] = t
      BY <1>5, <1>h, <2>2
    <3>2. Open /\ (newest = "cancel" =>
                    \E g \in sent : Missing(s, g) /\ g.kind = "cancel" /\ g.at = pairTime)
      BY <3>1 DEF ToldInv, t
    <3>3. \A g \in sent : Missing(s, g) /\ g.kind = "cancel" => Missing(s, g)'
      BY <1>k, <2>2 DEF Missing, For
    <3> QED BY <3>2, <3>3
  <2> QED BY <1>5, <1>h, <1>s, <2>1, <2>2
<1> QED BY <1>1, <1>2, <1>4, <1>5 DEF t

LEMMA HearsRows ==
  ASSUME PairInv, PairInv', LogInv, RemovalInv, LeadInv, ToldInv, NEW s \in Side,
         NEW e \in For(s), Hears(s, e), Heeds(s, e), Done(s, e)
  PROVE  LeadInv' /\ ToldInv'
<1> DEFINE t == Other(s)
<1>s. /\ t \in Side /\ t # s /\ Other(t) = s /\ t # Nobody /\ s # Nobody
      /\ \A u \in Side : u = s \/ u = t
      /\ pairTime \in Nat /\ \A u \in Side : pairClock[u] \in Nat /\ pairClock'[u] \in Nat
  BY SideFacts, NobodyFact, EventFacts DEF Side, Other, PairInv, PairTypeOK
<1>e. /\ e \in sent /\ e.by = t /\ e.at \in Nat /\ e.at <= pairTime
      /\ \A g \in sent : g.at \in Nat /\ g.by \in Side
  BY EventFacts DEF For, PairInv, TimeInv
<1>n. /\ UNCHANGED <<sent, pairTime, newest>>
      /\ friends'[t] = friends[t] /\ pending'[t] = pending[t]
      /\ pairClock'[t] = pairClock[t] /\ taken'[t] = taken[t]
      /\ taken'[s] = taken[s] \/ taken'[s] = taken[s] \cup {e}
  BY DEF Hears
<1>m. /\ \A u \in Side : Lead(u)' <=> Lead(u)
      /\ \A u \in Side : pairClock[u] <= pairClock'[u]
      /\ \A f \in sent : Missing(t, f)' <=> Missing(t, f)
  BY <1>n, HearsLog DEF Missing, For
<1>c. \A u \in Side, g \in sent : g.at < pairClock[u] => g.at < pairClock'[u]
  BY <1>m, <1>s, <1>e
<1>o. Open' <=> Open
  BY <1>n DEF Open
<1>ft. AreFriends(t)' <=> AreFriends(t)
  BY <1>n DEF AreFriends
<1> HIDE DEF t
<1>1. LeadInv'
  <2>1. ASSUME Lead(s)
        PROVE  /\ pending'[s] = IF newest = "request" THEN s ELSE Nobody
               /\ AreFriends(s)' <=> newest = "accept"
    BY <2>1, LeadUnmoved DEF LeadInv, AreFriends
  <2>2. ASSUME Lead(t)
        PROVE  /\ pending'[t] = IF newest = "request" THEN t ELSE Nobody
               /\ AreFriends(t)' <=> newest = "accept"
    BY <1>s, <1>n, <1>ft, <2>2 DEF LeadInv
  <2> QED BY <1>s, <1>n, <1>m, <2>1, <2>2 DEF LeadInv
<1>2. ASSUME UNCHANGED <<friends, pending>>
      PROVE  /\ AreFriends(s)' => newest = "accept" \/ \E f \in sent : Missing(s, f)' /\ Removes(f)
             /\ pending[s] = t /\ newest = "cancel" =>
                  \E g \in sent : Missing(s, g)' /\ g.kind = "cancel" /\ g.at = pairTime
             /\ Lead(t) /\ newest = "accept" =>
                  \A g \in taken'[s] : g.kind = "accept" /\ g.at = pairTime => AreFriends(s)
  <2>0. \A g \in sent : Missing(s, g) /\ ~Missing(s, g)' => g = e /\ e \in taken'[s] \ taken[s]
    BY <1>n DEF Missing, For
  <2>p. pairClock[s] <= pairTime
    BY DEF LogInv
  <2>1. AreFriends(s) => newest = "accept" \/ \E f \in sent : Missing(s, f)' /\ Removes(f)
    <3> SUFFICES ASSUME AreFriends(s), NEW f \in sent, Missing(s, f), Removes(f) PROVE Missing(s, f)'
      BY DEF ToldInv
    <3>1. ~Stale(s, f)
      <4>1. pairClock[s] <= f.at
        BY DEF RemovalInv
      <4> QED BY <1>s, <1>e, <4>1 DEF Stale
    <3> QED BY <1>2, <2>0, <3>1 DEF Done, Removes, AreFriends
  <2>2. pending[s] = t /\ newest = "cancel" =>
                  \E g \in sent : Missing(s, g)' /\ g.kind = "cancel" /\ g.at = pairTime
    <3> SUFFICES ASSUME pending[s] = t, newest = "cancel"
                 PROVE  \E g \in sent : Missing(s, g)' /\ g.kind = "cancel" /\ g.at = pairTime
      OBVIOUS
    <3>1. PICK g \in sent : Missing(s, g) /\ g.kind = "cancel" /\ g.at = pairTime
      BY DEF ToldInv, t
    <3>2. ~Stale(s, g)
      BY <1>s, <1>e, <2>p, <3>1 DEF Stale
    <3>3. Missing(s, g)'
      BY <1>2, <2>0, <3>1, <3>2 DEF Done, t
    <3> QED BY <3>1, <3>3
  <2>3. Lead(t) /\ newest = "accept" =>
                  \A g \in taken'[s] : g.kind = "accept" /\ g.at = pairTime => AreFriends(s)
    <3> SUFFICES ASSUME Lead(t), newest = "accept", NEW g \in taken'[s],
                        g.kind = "accept", g.at = pairTime
                 PROVE  AreFriends(s)
      OBVIOUS
    <3>1. CASE g \in taken[s]
      BY <3>1 DEF ToldInv, t
    <3>2. CASE g \notin taken[s]
      <4>1. g = e /\ e \in taken'[s] \ taken[s]
        BY <1>n, <3>2
      <4>2. ~Stale(s, e)
        BY <1>s, <1>e, <2>p, <4>1 DEF Stale
      <4>3. pending[s] # s \/ AreFriends(s)
        BY <1>2, <4>1, <4>2 DEF Done, AreFriends
      <4> QED BY <4>3 DEF ToldInv, t
    <3> QED BY <3>1, <3>2
  <2> QED BY <1>2, <2>1, <2>2, <2>3 DEF AreFriends
<1>3. /\ AreFriends(s)' => pending'[s] = Nobody
      /\ AreFriends(s)' => newest = "accept" \/ \E f \in sent : Missing(s, f)' /\ Removes(f)
      /\ pending'[s] = t =>
           /\ \A g \in sent : g.by = s => g.at < pairClock[t]
           /\ Lead(t) /\ Open
           /\ newest = "cancel" =>
                \E g \in sent : Missing(s, g)' /\ g.kind = "cancel" /\ g.at = pairTime
      /\ AreFriends(s)' \/ (Lead(s) /\ ~Open) =>
           \A g \in sent : g.by = s /\ ~Forms(g) /\ g.at < pairTime => g.at < pairClock[t]
      /\ Lead(t) /\ newest = "accept" =>
           /\ AreFriends(s)' \/ pending'[s] = s
           /\ \A g \in taken'[s] : g.kind = "accept" /\ g.at = pairTime => AreFriends(s)'
  <2>1. CASE UNCHANGED <<friends, pending>>
    <3>1. (AreFriends(s)' <=> AreFriends(s)) /\ pending'[s] = pending[s]
      BY <2>1 DEF AreFriends
    <3> QED BY <1>2, <2>1, <3>1 DEF ToldInv, t
  <2>2. CASE ~Stale(s, e) /\ ~UNCHANGED <<friends, pending>>
    <3>1. Lead(t) /\ \A g \in sent : g.by = s => g.at < pairClock[t]
      BY <2>2, FreshFacts DEF t
    <3> QED BY <2>2, <3>1, FreshRows DEF t
  <2> QED BY <2>1, <2>2 DEF Heeds
<1>4. ToldInv'
  <2> SUFFICES ASSUME NEW u \in Side
        PROVE /\ AreFriends(u)' => pending'[u] = Nobody
              /\ AreFriends(u)' => newest' = "accept" \/ \E f \in sent' : Missing(u, f)' /\ Removes(f)
              /\ pending'[u] = Other(u) =>
                   /\ \A g \in sent' : g.by = u => g.at < pairClock'[Other(u)]
                   /\ Lead(Other(u))' /\ Open'
                   /\ newest' = "cancel" =>
                        \E g \in sent' : Missing(u, g)' /\ g.kind = "cancel" /\ g.at = pairTime'
              /\ AreFriends(u)' \/ (Lead(u)' /\ ~Open') =>
                   \A g \in sent' : g.by = u /\ ~Forms(g) /\ g.at < pairTime' => g.at < pairClock'[Other(u)]
              /\ Lead(Other(u))' /\ newest' = "accept" =>
                   /\ AreFriends(u)' \/ pending'[u] = u
                   /\ \A g \in taken'[u] : g.kind = "accept" /\ g.at = pairTime' => AreFriends(u)'
    BY DEF ToldInv
  <2>1. CASE u = s
    <3>1. Other(u) = t /\ pairClock'[t] = pairClock[t]
      BY <1>n, <2>1 DEF t
    <3> QED BY <1>s, <1>n, <1>m, <1>o, <1>3, <2>1, <3>1
  <2>2. CASE u = t
    <3>1. Other(u) = s
      BY <1>s, <2>2
    <3>2. /\ AreFriends(t) => pending[t] = Nobody
          /\ AreFriends(t) => newest = "accept" \/ \E f \in sent : Missing(t, f) /\ Removes(f)
          /\ pending[t] = s =>
               /\ \A g \in sent : g.by = t => g.at < pairClock[s]
               /\ Lead(s) /\ Open
               /\ newest = "cancel" =>
                    \E g \in sent : Missing(t, g) /\ g.kind = "cancel" /\ g.at = pairTime
          /\ AreFriends(t) \/ (Lead(t) /\ ~Open) =>
               \A g \in sent : g.by = t /\ ~Forms(g) /\ g.at < pairTime => g.at < pairClock[s]
          /\ Lead(s) /\ newest = "accept" =>
               /\ AreFriends(t) \/ pending[t] = t
               /\ \A g \in taken[t] : g.kind = "accept" /\ g.at = pairTime => AreFriends(t)
      BY <1>s DEF ToldInv
    <3> QED BY <1>s, <1>n, <1>m, <1>c, <1>o, <1>ft, <2>2, <3>1, <3>2
  <2> QED BY <1>s, <2>1, <2>2
<1> QED BY <1>1, <1>4

LEMMA HearOrderly ==
  ASSUME PairInv, PairInv', LogInv, RemovalInv, LeadInv, ToldInv, NEW s \in Side,
         NEW e \in For(s), Hears(s, e), Heeds(s, e), Done(s, e), Waits(s, e)
  PROVE  LogInv' /\ RemovalInv' /\ LeadInv' /\ ToldInv'
BY HearsLog, HearsRemovals, HearsRows

\* A claim only raises the clock, and to the event's time.
LEMMA ClaimsFacts ==
  ASSUME PairInv, NEW s \in Side, NEW e \in For(s), Claimed(s, e)
  PROVE  /\ pairClock'[Other(s)] = pairClock[Other(s)]
         /\ pairClock'[s] = pairClock[s] \/ (pairClock'[s] = e.at /\ pairClock[s] <= e.at)
         /\ e.at <= pairClock'[s]
<1>1. e.at \in Nat /\ pairClock[s] \in Nat /\ pairClock \in [Side -> 0..MaxChanges]
      /\ Other(s) \in Side /\ Other(s) # s
  BY EventFacts, SideFacts DEF For, PairInv, PairTypeOK
<1>2. CASE Stale(s, e) \/ ~(e.at > pairClock[s])
  <2>1. pairClock' = pairClock
    BY <1>2 DEF Claimed, Recorded
  <2> QED BY <1>1, <1>2, <2>1 DEF Stale
<1>3. CASE ~Stale(s, e) /\ e.at > pairClock[s]
  <2>1. pairClock' = [pairClock EXCEPT ![s] = e.at]
    BY <1>3 DEF Claimed, Recorded
  <2> QED BY <1>1, <1>3, <2>1
<1> QED BY <1>2, <1>3

\* An event that is claimed and taken, or left for later.
LEMMA TakenHears ==
  ASSUME PairInv, NEW s \in Side, NEW e \in For(s), Claimed(s, e),
         Took(s, e) \/ UNCHANGED <<taken, refused>>,
         UNCHANGED <<sent, pairTime, newest>>,
         friends'[Other(s)] = friends[Other(s)], pending'[Other(s)] = pending[Other(s)],
         handling'[Other(s)] = handling[Other(s)], handling'[s] \subseteq handling[s]
  PROVE  Hears(s, e)
<1>1. /\ taken \in [Side -> SUBSET Event] /\ Other(s) \in Side /\ Other(s) # s
  BY SideFacts DEF PairInv, PairTypeOK
<1>2. taken'[Other(s)] = taken[Other(s)] /\ UNCHANGED refused
      /\ (taken'[s] = taken[s] \/ taken'[s] = taken[s] \cup {e})
  BY <1>1 DEF Took
<1> QED BY <1>2, ClaimsFacts DEF Hears

\* The rows of one side, as the processors set them.
LEMMA PairRows ==
  ASSUME PairInv, NEW s \in Side, NEW rows, NEW asked, NEW done, Pair(s, rows, asked, done)
  PROVE  /\ friends'[s] = rows /\ pending'[s] = asked
         /\ friends'[Other(s)] = friends[Other(s)] /\ pending'[Other(s)] = pending[Other(s)]
BY SideFacts DEF Pair, PairInv, PairTypeOK

\* What a processor that answers at once, or after its downloads, comes to.
LEMMA ProcessorsHeed ==
  ASSUME PairInv, NEW s \in Side, NEW e \in For(s),
         \/ e.kind = "create" /\ ProcessRequestCreate(s, e)
         \/ e.kind \in {"accept", "decline"} /\ ProcessRequestUpdate(s, e)
         \/ e.kind = "cancel" /\ ProcessRequestCancel(s, e)
         \/ e.kind = "remove" /\ ProcessFriendRemove(s, e)
         \/ e.kind = "add" /\ FinishFriendAdd(s, e)
  PROVE  /\ Heeds(s, e) /\ Done(s, e) /\ Claimed(s, e)
         /\ Took(s, e) \/ UNCHANGED <<taken, refused>>
         /\ friends'[Other(s)] = friends[Other(s)] /\ pending'[Other(s)] = pending[Other(s)]
<1>s. Other(s) # s /\ Nobody # s /\ Nobody # Other(s)
  BY SideFacts, NobodyFact
<1>u. Unmoved => /\ UNCHANGED <<friends, pending>>
                 /\ friends'[Other(s)] = friends[Other(s)] /\ pending'[Other(s)] = pending[Other(s)]
  BY DEF Unmoved
<1>r. /\ e.kind \in {"create", "cancel"} => Requester(e) = Other(s)
      /\ e.kind \in {"accept", "decline", "add"} => Requester(e) = s
  BY RequesterFacts DEF PairInv
<1>1. CASE e.kind = "create" /\ ProcessRequestCreate(s, e)
  <2>1. Claimed(s, e) /\ Took(s, e)
    BY <1>1 DEF ProcessRequestCreate
  <2>2. CASE ~Stale(s, e) /\ ~AreFriends(s) /\ pending[s] = Nobody
    <3>1. Pair(s, {}, Other(s), answered[s])
      BY <1>1, <2>2 DEF ProcessRequestCreate
    <3> QED BY <1>1, <2>1, <2>2, <3>1, PairRows DEF Heeds, Done
  <2>3. CASE ~(~Stale(s, e) /\ ~AreFriends(s) /\ pending[s] = Nobody)
    <3>1. Unmoved
      BY <1>1, <2>3 DEF ProcessRequestCreate
    <3> QED BY <1>1, <1>u, <2>1, <3>1 DEF Heeds, Done
  <2> QED BY <2>2, <2>3
<1>2. CASE e.kind \in {"accept", "decline"} /\ ProcessRequestUpdate(s, e)
  <2>1. Claimed(s, e) /\ Took(s, e)
    BY <1>2 DEF ProcessRequestUpdate
  <2>2. CASE ~Stale(s, e) /\ pending[s] = s
    <3> DEFINE rows == IF e.kind = "accept" /\ ~AreFriends(s) THEN {s} ELSE friends[s]
    <3>1. Pair(s, rows, Nobody, answered[s] \cup {s})
      BY <1>2, <1>r, <2>2 DEF ProcessRequestUpdate
    <3>2. rows # {} <=> e.kind = "accept" \/ AreFriends(s)
      BY DEF AreFriends
    <3> HIDE DEF rows
    <3> QED BY <1>2, <1>s, <2>1, <2>2, <3>1, <3>2, PairRows DEF Heeds, Done
  <2>3. CASE Stale(s, e) \/ pending[s] # s
    <3>1. Unmoved
      BY <1>2, <1>r, <2>3 DEF ProcessRequestUpdate
    <3> QED BY <1>2, <1>u, <2>1, <2>3, <3>1 DEF Heeds, Done
  <2> QED BY <2>2, <2>3
<1>3. CASE e.kind = "cancel" /\ ProcessRequestCancel(s, e)
  <2>1. Claimed(s, e) /\ Took(s, e)
    BY <1>3 DEF ProcessRequestCancel
  <2>2. CASE ~Stale(s, e) /\ pending[s] = Other(s)
    <3>1. Pair(s, friends[s], Nobody, answered[s])
      BY <1>3, <1>r, <2>2 DEF ProcessRequestCancel
    <3> QED BY <1>3, <1>s, <2>1, <2>2, <3>1, PairRows DEF Heeds, Done
  <2>3. CASE Stale(s, e) \/ pending[s] # Other(s)
    <3>1. Unmoved
      BY <1>3, <1>r, <2>3 DEF ProcessRequestCancel
    <3> QED BY <1>3, <1>u, <2>1, <2>3, <3>1 DEF Heeds, Done
  <2> QED BY <2>2, <2>3
<1>4. CASE e.kind = "remove" /\ ProcessFriendRemove(s, e)
  <2>1. Claimed(s, e) /\ Took(s, e)
    BY <1>4 DEF ProcessFriendRemove
  <2>2. CASE ~Stale(s, e)
    <3>1. Pair(s, {}, pending[s], answered[s])
      BY <1>4, <2>2 DEF ProcessFriendRemove
    <3> QED BY <1>4, <2>1, <2>2, <3>1, PairRows DEF Heeds, Done
  <2>3. CASE Stale(s, e)
    <3>1. Unmoved
      BY <1>4, <2>3 DEF ProcessFriendRemove
    <3> QED BY <1>4, <1>u, <2>1, <2>3, <3>1 DEF Heeds, Done
  <2> QED BY <2>2, <2>3
<1>5. CASE e.kind = "add" /\ FinishFriendAdd(s, e)
  <2>1. Claimed(s, e) /\ (Took(s, e) \/ UNCHANGED <<taken, refused>>)
    BY <1>5 DEF FinishFriendAdd
  <2>2. CASE Unmoved
    BY <1>5, <1>u, <2>1, <2>2 DEF Heeds, Done
  <2>3. CASE ~Unmoved
    <3> DEFINE rows == friends[s] \cup {s}
               done == answered[s] \cup ({pending[s]} \ {Nobody})
    <3>1. ~Stale(s, e) /\ Pair(s, rows, Nobody, done)
      BY <1>5, <1>r, <2>3 DEF FinishFriendAdd
    <3>2. rows # {}
      OBVIOUS
    <3> HIDE DEF rows, done
    <3> QED BY <1>5, <2>1, <3>1, <3>2, PairRows DEF Heeds, Done
  <2> QED BY <2>2, <2>3
<1> QED BY <1>1, <1>2, <1>3, <1>4, <1>5

LEMMA ReceiveOrderly ==
  ASSUME PairInv, PairInv', LogInv, RemovalInv, LeadInv, ToldInv, NEW s \in Side,
         NEW e \in For(s), NEW p \in Path, Receive(s, e, p), ~stray'
  PROVE  LogInv' /\ RemovalInv' /\ LeadInv' /\ ToldInv'
<1>0. UNCHANGED <<sent, pairTime, newest>> /\ Other(s) \in Side /\ Other(s) # s
  BY SideFacts DEF Receive
<1>h. handling \in [Side -> SUBSET (Event \X Path)] /\ refused \in [Side -> SUBSET Event]
  BY DEF PairInv, PairTypeOK
<1>1. Waits(s, e)
  <2>1. ~Overtakes(s, e)
    BY DEF Receive
  <2>2. \A f \in sent : Missing(s, f) /\ Removes(f) /\ e.kind \in {"create", "cancel"} => ~(f.at < e.at)
    BY <2>1 DEF Overtakes, Missing, Removes
  <2>3. e.at \in Nat /\ \A f \in sent : f.at \in Nat
    BY EventFacts DEF For
  <2> QED BY <2>2, <2>3 DEF Waits
<1>2. CASE /\ Unmoved /\ UNCHANGED <<taken, refused, pairClock>>
           /\ handling' = [handling EXCEPT ![s] = @ \cup {<<e, p>>}]
  <2>1. Hears(s, e)
    BY <1>0, <1>2, <1>h DEF Hears, Unmoved
  <2>2. Heeds(s, e) /\ Done(s, e)
    BY <1>2 DEF Heeds, Done, Unmoved
  <2> QED BY <1>1, <2>1, <2>2, HearOrderly
<1>3. CASE /\ Unmoved /\ UNCHANGED <<taken, handling, pairClock>> /\ e.kind = "add"
           /\ refused' = [refused EXCEPT ![s] = @ \cup {e}]
  <2>1. Hears(s, e)
    BY <1>0, <1>3, <1>h DEF Hears, Unmoved
  <2>2. Heeds(s, e) /\ Done(s, e)
    BY <1>3 DEF Heeds, Done, Unmoved
  <2> QED BY <1>1, <2>1, <2>2, HearOrderly
<1>4. CASE /\ e.kind = "add" /\ UNCHANGED handling
           /\ Claimed(s, e) /\ Took(s, e) /\ Unmoved
  <2>1. Hears(s, e)
    BY <1>0, <1>4, TakenHears DEF Unmoved
  <2>2. Heeds(s, e) /\ Done(s, e)
    BY <1>4 DEF Heeds, Done, Unmoved
  <2> QED BY <1>1, <2>1, <2>2, HearOrderly
<1>5. CASE /\ UNCHANGED handling
           /\ \/ e.kind \in {"accept", "decline"} /\ ProcessRequestUpdate(s, e)
              \/ e.kind = "cancel" /\ ProcessRequestCancel(s, e)
              \/ e.kind = "remove" /\ ProcessFriendRemove(s, e)
  <2>1. /\ Heeds(s, e) /\ Done(s, e) /\ Claimed(s, e)
        /\ Took(s, e) \/ UNCHANGED <<taken, refused>>
        /\ friends'[Other(s)] = friends[Other(s)] /\ pending'[Other(s)] = pending[Other(s)]
    BY <1>5, ProcessorsHeed
  <2>2. Hears(s, e)
    BY <1>0, <1>5, <2>1, TakenHears
  <2> QED BY <1>1, <2>1, <2>2, HearOrderly
<1> QED BY <1>2, <1>3, <1>4, <1>5 DEF Receive, BeginFriendAdd

LEMMA ResumeOrderly ==
  ASSUME PairInv, PairInv', LogInv, RemovalInv, LeadInv, ToldInv, NEW s \in Side,
         NEW h \in handling[s], Resume(s, h[1], h[2])
  PROVE  LogInv' /\ RemovalInv' /\ LeadInv' /\ ToldInv'
<1> DEFINE e == h[1]
<1>1. e \in For(s) /\ e.kind \in {"create", "add"}
  BY EventFacts DEF PairInv, TimeInv
<1>2. \/ e.kind = "create" /\ ProcessRequestCreate(s, e)
      \/ e.kind = "add" /\ FinishFriendAdd(s, e)
  BY <1>1 DEF Resume
<1>3. UNCHANGED <<sent, pairTime, newest>> /\ Other(s) \in Side /\ Other(s) # s
  BY SideFacts DEF Resume
<1>4. handling'[Other(s)] = handling[Other(s)] /\ handling'[s] \subseteq handling[s]
  BY <1>3 DEF Resume, PairInv, PairTypeOK
<1>5. Waits(s, e)
  BY <1>1 DEF Waits, RemovalInv
<1> HIDE DEF e
<1>6. /\ Heeds(s, e) /\ Done(s, e) /\ Claimed(s, e)
      /\ Took(s, e) \/ UNCHANGED <<taken, refused>>
      /\ friends'[Other(s)] = friends[Other(s)] /\ pending'[Other(s)] = pending[Other(s)]
  BY <1>1, <1>2, ProcessorsHeed
<1>7. Hears(s, e)
  BY <1>1, <1>3, <1>4, <1>6, TakenHears
<1> QED BY <1>1, <1>5, <1>6, <1>7, HearOrderly

\* Nothing the orderly invariants are about changes but what waits.
LEMMA IdleOrderly ==
  ASSUME PairInv, LogInv, RemovalInv, LeadInv, ToldInv,
         UNCHANGED <<friends, pending, pairClock, sent, taken, refused, pairTime, newest>>,
         \A s \in Side : handling'[s] \subseteq handling[s]
  PROVE  LogInv' /\ RemovalInv' /\ LeadInv' /\ ToldInv'
<1>1. /\ \A s : (Lead(s)' <=> Lead(s)) /\ (AreFriends(s)' <=> AreFriends(s))
      /\ \A s, e : Missing(s, e)' <=> Missing(s, e)
      /\ Open' <=> Open
  BY DEF Lead, AreFriends, Missing, For, Open
<1>2. LogInv'
  BY DEF LogInv
<1>3. RemovalInv'
  BY <1>1 DEF RemovalInv
<1>4. LeadInv' /\ ToldInv'
  BY <1>1 DEF LeadInv, ToldInv
<1> QED BY <1>2, <1>3, <1>4

LEMMA OrderlyStart == ASSUME PairInit PROVE OrderlyInv
<1> USE DEF PairInit
<1>1. sent = {} /\ pairTime = 0 /\ newest = "none"
      /\ \A s \in Side : /\ taken[s] = {} /\ refused[s] = {} /\ pairClock[s] = 0
                         /\ friends[s] = {} /\ pending[s] = Nobody
  OBVIOUS
<1> HIDE DEF PairInit
<1>2. LogInv
  BY <1>1 DEF LogInv
<1>3. RemovalInv
  BY <1>1 DEF RemovalInv
<1>4. LeadInv
  BY <1>1 DEF LeadInv, Lead
<1>5. ToldInv
  BY <1>1, SideFacts, NobodyFact DEF ToldInv, AreFriends, Lead
<1> QED BY <1>2, <1>3, <1>4, <1>5 DEF OrderlyInv

LEMMA OrderlyStep ==
  ASSUME PairInv, PairInv', OrderlyInv, [PairNext]_pairVars
  PROVE  OrderlyInv'
<1> SUFFICES ASSUME ~stray' PROVE LogInv' /\ RemovalInv' /\ LeadInv' /\ ToldInv'
  BY DEF OrderlyInv
<1>1. ASSUME ~stray, NEW s \in Side, UserChange(s)
      PROVE  LogInv' /\ RemovalInv' /\ LeadInv' /\ ToldInv'
  BY <1>1, ChangeOrderly DEF OrderlyInv
<1>2. ASSUME ~stray, NEW s \in Side, StopHandling(s)
      PROVE  LogInv' /\ RemovalInv' /\ LeadInv' /\ ToldInv'
  <2>1. \A t \in Side : handling'[t] \subseteq handling[t]
    BY <1>2 DEF StopHandling, PairInv, PairTypeOK
  <2> QED BY <1>2, <2>1, IdleOrderly DEF StopHandling, OrderlyInv
<1>3. ASSUME ~stray, NEW s \in Side, NEW e \in For(s), NEW p \in Path, Receive(s, e, p)
      PROVE  LogInv' /\ RemovalInv' /\ LeadInv' /\ ToldInv'
  BY <1>3, ReceiveOrderly DEF OrderlyInv
<1>4. ASSUME ~stray, NEW s \in Side, NEW h \in handling[s], Resume(s, h[1], h[2])
      PROVE  LogInv' /\ RemovalInv' /\ LeadInv' /\ ToldInv'
  BY <1>4, ResumeOrderly DEF OrderlyInv
<1>5. CASE UNCHANGED pairVars
  BY <1>5, IdleOrderly DEF pairVars, OrderlyInv
<1>6. CASE PairNext
  <2>1. ~stray
    BY <1>6 DEF PairNext, UserChange, Request, Accept, Decline, CancelRequest, RemoveFriend,
                Tell, StopHandling, Receive, Resume
  <2> QED BY <1>1, <1>2, <1>3, <1>4, <1>6, <2>1 DEF PairNext
<1> QED BY <1>5, <1>6

\* The type invariant of the pair's rows, clocks, ledgers and logs.
THEOREM PairTypeCorrect == PairSpec => []PairTypeOK
<1>1. PairInv => PairTypeOK
  BY DEF PairInv
<1> QED BY PairStart, PairStep, <1>1, PTL DEF PairSpec

\* Whatever crosses, repeats, is refused or waits on a download, for any number of
\* changes, an instance only shows a friendship its own user agreed to.
THEOREM ConsentCorrect == PairSpec => []FriendsConsent
<1>1. PairInv => FriendsConsent
  BY DEF PairInv, ConsentInv
<1> QED BY PairStart, PairStep, <1>1, PTL DEF PairSpec

\* Once all is delivered, live or by a pull, in whatever order and however often,
\* both instances show what the newest change says, for any number of changes that
\* were made knowing the other side's earlier ones: the pair's subject clock, with
\* no more than one time per change, is enough.
THEOREM OrderlyPairCorrect == PairSpec => []OrderlyPairAgrees
<1>1. PairInit => PairInv /\ OrderlyInv
  BY PairStart, OrderlyStart
<1>2. PairInv /\ OrderlyInv /\ [PairNext]_pairVars => PairInv' /\ OrderlyInv'
  BY PairStep, OrderlyStep
<1>3. PairInv /\ OrderlyInv => OrderlyPairAgrees
  <2> SUFFICES ASSUME PairInv, OrderlyInv, Delivered, ~stray, NEW s \in Side
               PROVE  AreFriends(s) <=> newest = "accept"
    BY DEF OrderlyPairAgrees
  <2>1. LogInv /\ RemovalInv /\ LeadInv /\ ToldInv /\ Settled(s)
    BY DEF OrderlyInv, Delivered
  <2>2. ASSUME AreFriends(s) PROVE newest = "accept"
    <3>1. \A f \in sent : Missing(s, f) => ~Removes(f)
      BY <2>1, SettledFacts DEF Missing, Removes
    <3> QED BY <2>1, <2>2, <3>1 DEF ToldInv
  <2>3. ASSUME newest = "accept" PROVE AreFriends(s)
    <3>1. PICK e \in sent : e.at = pairTime
      BY <2>1, <2>3 DEF LogInv
    <3>2. pairTime > 0
      BY <3>1, EventFacts
    <3> QED BY <2>1, <2>3, <3>2, AcceptedShows
  <2> QED BY <2>2, <2>3
<1> QED BY <1>1, <1>2, <1>3, PTL DEF PairSpec
=============================================================================
