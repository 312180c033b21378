---------------------------- MODULE DmCallProofs ----------------------------
(***************************************************************************)
(* A running call has somebody in it, and a group call's host seats who is *)
(* in it through the other instance, for any number of calls, relays in    *)
(* flight and faults.                                                      *)
(***************************************************************************)
EXTENDS DmCall, SequenceTheorems, TLAPS

\* What only a guest's instance sends.
GuestRelay == {r \in Relay : r.by \in Guest}

HostOK ==
  /\ room \in Phase /\ seats \subseteq {Caller} \cup Guest /\ declined \subseteq Guest
  /\ placed \in 0..MaxCalls /\ starts \in [1..MaxCalls -> Posted]

HolderOK ==
  /\ entry \in Phase /\ joined \subseteq Guest /\ heldFor \in 0..MaxCalls
  /\ window \in BOOLEAN /\ accepts \in [Guest -> Posted \ {"missed"}]
  /\ entry # "active" => joined = {}
  /\ entry = "none" => ~window

WireOK ==
  /\ toHost \in Seq(GuestRelay) /\ Len(toHost) <= MaxWire
  /\ toHolder \in Seq(Relay) /\ Len(toHolder) <= MaxWire

FaultOK == faults \in 0..MaxFaults /\ marred \in BOOLEAN

ShapeInv == group \in BOOLEAN /\ HostOK /\ HolderOK /\ WireOK /\ FaultOK

\* The start of the newest call has reached the other instance.
Told == placed = 0 \/ starts[placed] # "sent"

\* Relays to the other instance stand in the order of their calls, each call's
\* start first; an entry is of a call whose start was heard.
OrderInv ==
  /\ \A n \in 1..MaxCalls : starts[n] = "sent" <=>
       \E i \in DOMAIN toHolder : toHolder[i].kind = "start" /\ toHolder[i].about = n
  /\ \A i, j \in DOMAIN toHolder : i < j =>
       /\ toHolder[i].about <= toHolder[j].about
       /\ toHolder[j].kind = "start" => toHolder[i].about < toHolder[j].about
  /\ \A i \in DOMAIN toHolder :
       /\ toHolder[i].about <= placed
       /\ toHolder[i].kind = "start" => toHolder[i].about \in 1..MaxCalls
       /\ Told => toHolder[i].about = placed
  /\ heldFor <= placed
  /\ \A n \in 1..MaxCalls :
       /\ starts[n] = "sent" => heldFor < n
       /\ starts[n] = "missed" => heldFor # n

Ending(n) == \E i \in DOMAIN toHolder : toHolder[i].kind = "end" /\ toHolder[i].about = n

Running(n) == n = placed /\ room # "none"

\* The end of a call that another instance knows of, or will hear of, is on its way.
EndInv ==
  /\ \A n \in 0..MaxCalls : Ending(n) => ~Running(n)
  /\ \A i \in DOMAIN toHolder : toHolder[i].kind = "start" =>
       Running(toHolder[i].about) \/ Ending(toHolder[i].about)
  /\ entry # "none" => Running(heldFor) \/ Ending(heldFor)

\* The relay at place i moves m in or out of the running call.
Moves(m, i) ==
  /\ toHost[i].by = m /\ toHost[i].about = placed
  /\ toHost[i].kind \in {"accept", "end"}

\* Once the relays under way have arrived, the host has m in the call.
WillSit(m) ==
  \/ \E i \in DOMAIN toHost : /\ Moves(m, i) /\ toHost[i].kind = "accept"
                              /\ \A j \in DOMAIN toHost : j > i => ~Moves(m, j)
  \/ m \in seats /\ \A i \in DOMAIN toHost : ~Moves(m, i)

SeatInv ==
  /\ \A i \in DOMAIN toHost : toHost[i].about <= heldFor
  /\ room # "none" /\ ~Told => seats \cap Guest = {}
  /\ room # "none" /\ Told => \A m \in Guest : m \in joined <=> WillSit(m)

RoomInv == (room # "active" => seats = {}) /\ CallHasSomebody

OrderlyInv == ~marred /\ group => OrderInv /\ EndInv /\ SeatInv

CallInv == ShapeInv /\ RoomInv /\ OrderlyInv
-----------------------------------------------------------------------------
(* Sequences *)

\* A relay taken out at a place leaves a shorter sequence of the others.
LEMMA RemoveAtFacts ==
  ASSUME NEW S, NEW q \in Seq(S), NEW i \in DOMAIN q
  PROVE  RemoveAt(q, i) \in Seq(S) /\ Len(RemoveAt(q, i)) = Len(q) - 1
<1> DEFINE left == SubSeq(q, 1, i - 1)
           right == SubSeq(q, i + 1, Len(q))
<1>1. i \in 1 .. Len(q) /\ Len(q) \in Nat /\ \A k \in 1 .. Len(q) : q[k] \in S
  OBVIOUS
<1>2. left \in Seq(S) /\ Len(left) = i - 1
  BY <1>1, SubSeqProperties
<1>3. right \in Seq(S) /\ Len(right) = Len(q) - i
  BY <1>1, SubSeqProperties
<1>4. RemoveAt(q, i) = left \o right
  BY DEF RemoveAt
<1> HIDE DEF left, right
<1>5. left \o right \in Seq(S) /\ Len(left \o right) = Len(left) + Len(right)
  BY <1>2, <1>3, ConcatProperties
<1> QED BY <1>1, <1>2, <1>3, <1>4, <1>5

\* The first one taken out leaves the tail.
LEMMA RemoveFirstFacts ==
  ASSUME NEW S, NEW q \in Seq(S), 1 \in DOMAIN q
  PROVE  /\ DOMAIN RemoveAt(q, 1) = 1 .. Len(q) - 1
         /\ \A i \in 1 .. Len(q) - 1 : RemoveAt(q, 1)[i] = q[i + 1]
<1>1. Len(q) \in Nat /\ q # << >>
  OBVIOUS
<1>2. Tail(q) \in Seq(S) /\ Len(Tail(q)) = Len(q) - 1
      /\ \A i \in 1 .. Len(q) - 1 : Tail(q)[i] = q[i + 1]
  BY <1>1, HeadTailProperties
<1>3. SubSeq(q, 1, 0) = << >>
  BY SubSeqEmpty
<1>4. RemoveAt(q, 1) = << >> \o Tail(q)
  BY <1>1, <1>3, TailIsSubSeq DEF RemoveAt
<1>5. RemoveAt(q, 1) = Tail(q)
  BY <1>2, <1>4, ConcatEmptySeq
<1> QED BY <1>2, <1>5

\* One more relay at the end.
LEMMA AppendFacts ==
  ASSUME NEW S, NEW q \in Seq(S), NEW e \in S
  PROVE  /\ Append(q, e) \in Seq(S) /\ Len(Append(q, e)) = Len(q) + 1
         /\ DOMAIN Append(q, e) = 1 .. Len(q) + 1 /\ DOMAIN q = 1 .. Len(q)
         /\ Append(q, e)[Len(q) + 1] = e
         /\ \A i \in 1 .. Len(q) : Append(q, e)[i] = q[i]
OBVIOUS

-----------------------------------------------------------------------------
(* Types, and somebody in a running call *)

LEMMA NamesFact == Caller \notin Guest
BY DEF Caller, Guest

\* The room after one step, whoever moved in it.
RoomOK ==
  /\ room' \in Phase /\ seats' \subseteq {Caller} \cup Guest /\ declined' \subseteq Guest
  /\ room' # "active" => seats' = {}
  /\ room' = "active" => seats' # {}

HolderWire == toHolder' \in Seq(Relay) /\ Len(toHolder') <= MaxWire
HostWire == toHost' \in Seq(GuestRelay) /\ Len(toHost') <= MaxWire

LEMMA SendTyped ==
  ASSUME ShapeInv
  PROVE  /\ \A kind \in {"start", "accept", "end"}, about \in 0..MaxCalls :
              ToHolder(kind, about) => HolderWire
         /\ \A kind \in {"accept", "decline", "end"}, m \in Guest :
              ToHost(kind, m) => HostWire
         /\ UNCHANGED toHolder => HolderWire
         /\ UNCHANGED toHost => HostWire
         /\ \A i \in DOMAIN toHolder : toHolder' = RemoveAt(toHolder, i) => HolderWire
         /\ \A i \in DOMAIN toHost : toHost' = RemoveAt(toHost, i) => HostWire
<1> USE DEF ShapeInv, WireOK
<1>1. ASSUME NEW kind \in {"start", "accept", "end"}, NEW about \in 0..MaxCalls,
             ToHolder(kind, about)
      PROVE  HolderWire
  <2> DEFINE r == [kind |-> kind, by |-> Caller, about |-> about]
  <2>1. r \in Relay
    BY DEF Relay
  <2>2. toHolder' = Append(toHolder, r) /\ Len(toHolder) < MaxWire /\ Len(toHolder) \in Nat
    BY <1>1 DEF ToHolder
  <2> HIDE DEF r
  <2> QED BY <2>1, <2>2, AppendFacts, CallAssumption DEF HolderWire
<1>2. ASSUME NEW kind \in {"accept", "decline", "end"}, NEW m \in Guest, ToHost(kind, m)
      PROVE  HostWire
  <2> DEFINE r == [kind |-> kind, by |-> m, about |-> heldFor]
  <2>1. r \in GuestRelay
    BY DEF Relay, GuestRelay, HolderOK
  <2>2. toHost' = Append(toHost, r) /\ Len(toHost) < MaxWire /\ Len(toHost) \in Nat
    BY <1>2 DEF ToHost
  <2> HIDE DEF r
  <2> QED BY <2>1, <2>2, AppendFacts, CallAssumption DEF HostWire
<1>3. \A i \in DOMAIN toHolder : toHolder' = RemoveAt(toHolder, i) => HolderWire
  BY RemoveAtFacts, CallAssumption DEF HolderWire
<1>4. \A i \in DOMAIN toHost : toHost' = RemoveAt(toHost, i) => HostWire
  BY RemoveAtFacts, CallAssumption DEF HostWire
<1> QED BY <1>1, <1>2, <1>3, <1>4 DEF HolderWire, HostWire

\* What the host does on its own, or with a relay it hears.
LEMMA RoomMoves ==
  ASSUME ShapeInv, RoomInv
  PROVE  /\ EndAndTell => RoomOK /\ HolderWire
         /\ EndQuietly => RoomOK /\ HolderWire
         /\ \A m \in seats : room = "active" /\ SeatEmptied(m) => RoomOK /\ HolderWire
         /\ \A m \in Guest : HearAccept(m) \/ HearDecline(m) \/ HearEnd(m) =>
              RoomOK /\ HolderWire
         /\ UNCHANGED <<room, seats, declined>> => RoomOK
<1> USE DEF ShapeInv, HostOK, RoomInv, CallHasSomebody
<1>1. EndAndTell => RoomOK /\ HolderWire
  BY SendTyped DEF EndAndTell, RoomIs, RoomOK, Phase
<1>2. EndQuietly => RoomOK /\ HolderWire
  BY SendTyped DEF EndQuietly, RoomIs, RoomOK, Phase
<1>3. UNCHANGED <<room, seats, declined>> => RoomOK
  BY DEF RoomOK
<1>4. UNCHANGED toHolder => HolderWire
  BY SendTyped
<1>5. ASSUME NEW m \in seats, room = "active", SeatEmptied(m)
      PROVE  RoomOK /\ HolderWire
  <2>1. CASE seats = {m}
    BY <1>1, <1>5, <2>1 DEF SeatEmptied
  <2>2. CASE seats # {m}
    BY <1>4, <1>5, <2>2 DEF SeatEmptied, RoomIs, RoomOK
  <2> QED BY <2>1, <2>2
<1>6. ASSUME NEW m \in Guest, HearAccept(m)
      PROVE  RoomOK /\ HolderWire
  <2>1. CASE room = "none"
    BY <1>3, <1>4, <1>6, <2>1 DEF HearAccept
  <2>2. CASE room # "none"
    <3>1. room' = "active" /\ declined' \subseteq Guest /\ UNCHANGED toHolder
          /\ seats' = seats \cup (IF room = "ringing" THEN {Caller} ELSE {})
                         \cup (IF group THEN {m} ELSE {})
      BY <1>6, <2>2 DEF HearAccept, RoomIs
    <3>2. seats' # {}
      BY <2>2, <3>1 DEF Phase
    <3>3. seats' \subseteq {Caller} \cup Guest
      BY <3>1
    <3> QED BY <1>4, <3>1, <3>2, <3>3 DEF RoomOK, Phase
  <2> QED BY <2>1, <2>2
<1>7. ASSUME NEW m \in Guest, HearDecline(m)
      PROVE  RoomOK /\ HolderWire
  BY <1>1, <1>2, <1>3, <1>4, <1>7 DEF HearDecline, RoomIs, RoomOK
<1>8. ASSUME NEW m \in Guest, HearEnd(m)
      PROVE  RoomOK /\ HolderWire
  BY <1>2, <1>3, <1>4, <1>5, <1>8 DEF HearEnd, Phase
<1> QED BY <1>1, <1>2, <1>3, <1>5, <1>6, <1>7, <1>8

\* The entry after one step.
EntryOK ==
  /\ entry' \in Phase /\ joined' \subseteq Guest /\ window' \in BOOLEAN
  /\ entry' # "active" => joined' = {}
  /\ entry' = "none" => ~window'

LEMMA EntryMoves ==
  ASSUME ShapeInv
  PROVE  /\ Cleared => EntryOK
         /\ \A m \in joined : LeftEntry(m) => EntryOK
         /\ UNCHANGED <<entry, joined, window>> => EntryOK
<1> USE DEF ShapeInv, HolderOK
<1>1. Cleared => EntryOK
  BY DEF EntryOK, Cleared, Phase
<1>2. UNCHANGED <<entry, joined, window>> => EntryOK
  BY DEF EntryOK
<1>3. ASSUME NEW m \in joined, LeftEntry(m)
      PROVE  EntryOK
  <2>1. CASE joined = {m} /\ entry = "active" /\ ~window
    BY <1>1, <1>3, <2>1 DEF LeftEntry
  <2>2. CASE ~(joined = {m} /\ entry = "active" /\ ~window)
    <3>1. joined' = joined \ {m} /\ UNCHANGED <<entry, window>>
      BY <1>3, <2>2 DEF LeftEntry
    <3>2. entry = "active"
      BY <1>3
    <3> QED BY <3>1, <3>2 DEF EntryOK
  <2> QED BY <2>1, <2>2
<1> QED BY <1>1, <1>2, <1>3

CountsOK ==
  /\ placed' \in 0..MaxCalls /\ starts' \in [1..MaxCalls -> Posted]
  /\ heldFor' \in 0..MaxCalls /\ accepts' \in [Guest -> Posted \ {"missed"}]
  /\ faults' \in 0..MaxFaults /\ marred' \in BOOLEAN

LEMMA PartsTyped ==
  ASSUME ShapeInv, UNCHANGED group, RoomOK, EntryOK, HolderWire, HostWire, CountsOK
  PROVE  ShapeInv' /\ RoomInv'
<1>1. Guest' = Guest /\ Relay' = Relay
  BY DEF Guest, Relay
<1>2. GuestRelay' = GuestRelay
  BY <1>1 DEF GuestRelay
<1>3. HostOK' /\ FaultOK' /\ group' \in BOOLEAN
  BY <1>1 DEF HostOK, FaultOK, RoomOK, CountsOK, ShapeInv
<1>4. HolderOK'
  BY <1>1 DEF HolderOK, EntryOK, CountsOK
<1>5. WireOK'
  BY <1>1, <1>2 DEF WireOK, HolderWire, HostWire
<1>6. RoomInv'
  BY DEF RoomInv, CallHasSomebody, RoomOK
<1> QED BY <1>3, <1>4, <1>5, <1>6 DEF ShapeInv

\* Every step of the host's own.
LEMMA HostTyped ==
  ASSUME ShapeInv, RoomInv,
         \/ StartCall \/ JoinAgain \/ CallerLeaves \/ RingTimeout \/ DropGuests
         \/ \E n \in 1..MaxCalls : StartAnswered(n) \/ StartLost(n)
  PROVE  ShapeInv' /\ RoomInv'
<1> USE DEF ShapeInv, HostOK, HolderOK, FaultOK, hostVars, holderVars
<1>p. \A n \in 1..MaxCalls, x \in Posted : [starts EXCEPT ![n] = x] \in [1..MaxCalls -> Posted]
  OBVIOUS
<1>n. {"none", "sent", "heard", "missed"} \subseteq Posted
  BY DEF Posted
<1>f. faults < MaxFaults => faults + 1 \in 0..MaxFaults
  BY CallAssumption
<1>0. placed \in 0..MaxCalls
  OBVIOUS
<1>1. CASE StartCall
  <2>1. placed + 1 \in 1..MaxCalls /\ placed + 1 \in 0..MaxCalls
    BY <1>1, CallAssumption DEF StartCall
  <2>2. RoomOK
    BY <1>1 DEF StartCall, RoomIs, RoomOK, Phase
  <2>3. HolderWire
    BY <1>1, <2>1, SendTyped DEF StartCall
  <2>4. EntryOK /\ HostWire
    BY <1>1, EntryMoves, SendTyped DEF StartCall
  <2>5. CountsOK
    BY <1>1, <1>p, <1>n, <2>1 DEF StartCall, CountsOK
  <2>6. UNCHANGED group
    BY <1>1 DEF StartCall
  <2> QED BY <2>2, <2>3, <2>4, <2>5, <2>6, PartsTyped
<1>2. CASE JoinAgain
  <2>1. RoomOK
    BY <1>2 DEF JoinAgain, RoomIs, RoomOK, Phase
  <2>2. HolderWire
    BY <1>2, <1>0, SendTyped DEF JoinAgain
  <2>3. EntryOK /\ HostWire /\ CountsOK /\ UNCHANGED group
    BY <1>2, EntryMoves, SendTyped DEF JoinAgain, CountsOK
  <2> QED BY <2>1, <2>2, <2>3, PartsTyped
<1>3. CASE CallerLeaves \/ RingTimeout
  <2>1. RoomOK /\ HolderWire
    BY <1>3, RoomMoves DEF CallerLeaves, RingTimeout
  <2>2. EntryOK /\ HostWire /\ CountsOK /\ UNCHANGED group
    BY <1>3, EntryMoves, SendTyped DEF CallerLeaves, RingTimeout, CountsOK
  <2> QED BY <2>1, <2>2, PartsTyped
<1>4. CASE DropGuests
  <2>1. RoomOK /\ HolderWire
    <3>1. CASE seats \subseteq Guest
      BY <1>4, <3>1, RoomMoves DEF DropGuests
    <3>2. CASE ~(seats \subseteq Guest)
      <4>1. RoomIs(room, seats \ Guest, declined) /\ UNCHANGED toHolder
        BY <1>4, <3>2 DEF DropGuests
      <4>2. RoomOK
        BY <3>2, <4>1 DEF RoomIs, RoomOK, RoomInv
      <4> QED BY <4>1, <4>2, SendTyped
    <3> QED BY <3>1, <3>2
  <2>2. EntryOK /\ HostWire /\ CountsOK /\ UNCHANGED group
    BY <1>4, <1>f, EntryMoves, SendTyped DEF DropGuests, CountsOK
  <2> QED BY <2>1, <2>2, PartsTyped
<1>5. ASSUME NEW n \in 1..MaxCalls, StartAnswered(n)
      PROVE  ShapeInv' /\ RoomInv'
  <2>1. RoomOK
    BY <1>5, RoomMoves DEF StartAnswered, StartFailed, RoomIs, RoomOK, Phase
  <2>2. HolderWire /\ EntryOK /\ HostWire /\ UNCHANGED group
    BY <1>5, EntryMoves, SendTyped DEF StartAnswered, StartFailed
  <2>3. CountsOK
    BY <1>5, <1>p, <1>n DEF StartAnswered, StartFailed, CountsOK
  <2> QED BY <2>1, <2>2, <2>3, PartsTyped
<1>6. ASSUME NEW n \in 1..MaxCalls, StartLost(n)
      PROVE  ShapeInv' /\ RoomInv'
  <2>1. RoomOK
    BY <1>6 DEF StartLost, StartFailed, RoomIs, RoomOK, Phase
  <2>2. HolderWire /\ EntryOK /\ HostWire /\ UNCHANGED group
    BY <1>6, EntryMoves, SendTyped DEF StartLost, StartFailed
  <2>3. CountsOK
    BY <1>6, <1>p, <1>n, <1>f DEF StartLost, StartFailed, CountsOK
  <2> QED BY <2>1, <2>2, <2>3, PartsTyped
<1> QED BY <1>1, <1>2, <1>3, <1>4, <1>5, <1>6

\* Every step of the instance with the entry.
LEMMA HolderTyped ==
  ASSUME ShapeInv, RoomInv,
         \/ \E m \in Guest : \/ AnswerCall(m) \/ DeclineCall(m) \/ LeaveCall(m)
                             \/ LoseSession(m) \/ AcceptAnswered(m) \/ AcceptLost(m)
         \/ WindowCloses \/ EvictEntry
  PROVE  ShapeInv' /\ RoomInv'
<1> USE DEF ShapeInv, HostOK, HolderOK, FaultOK, hostVars, holderVars
<1>p. \A m \in Guest, x \in Posted \ {"missed"} :
        [accepts EXCEPT ![m] = x] \in [Guest -> Posted \ {"missed"}]
  OBVIOUS
<1>n. {"none", "sent", "heard"} \subseteq Posted \ {"missed"}
  BY DEF Posted
<1>f. faults < MaxFaults => faults + 1 \in 0..MaxFaults
  BY CallAssumption
<1>r. UNCHANGED hostVars => RoomOK
  BY RoomMoves
<1>1. ASSUME NEW m \in Guest, AnswerCall(m) PROVE ShapeInv' /\ RoomInv'
  <2>1. EntryOK
    BY <1>1 DEF AnswerCall, EntryOK, Phase
  <2>2. HostWire /\ HolderWire /\ RoomOK /\ UNCHANGED group
    BY <1>1, <1>r, SendTyped DEF AnswerCall
  <2>3. CountsOK
    BY <1>1, <1>p, <1>n DEF AnswerCall, CountsOK
  <2> QED BY <2>1, <2>2, <2>3, PartsTyped
<1>2. ASSUME NEW m \in Guest, DeclineCall(m) PROVE ShapeInv' /\ RoomInv'
  <2>1. EntryOK
    BY <1>2, EntryMoves DEF DeclineCall
  <2>2. HostWire /\ HolderWire /\ RoomOK /\ CountsOK /\ UNCHANGED group
    BY <1>2, <1>r, SendTyped DEF DeclineCall, CountsOK
  <2> QED BY <2>1, <2>2, PartsTyped
<1>3. ASSUME NEW m \in Guest, LeaveCall(m) PROVE ShapeInv' /\ RoomInv'
  <2>1. EntryOK
    BY <1>3, EntryMoves DEF LeaveCall
  <2>2. HostWire /\ HolderWire /\ RoomOK /\ CountsOK /\ UNCHANGED group
    BY <1>3, <1>r, SendTyped DEF LeaveCall, CountsOK
  <2> QED BY <2>1, <2>2, PartsTyped
<1>4. ASSUME NEW m \in Guest, LoseSession(m) PROVE ShapeInv' /\ RoomInv'
  <2>1. EntryOK
    BY <1>4, EntryMoves DEF LoseSession
  <2>2. HostWire /\ HolderWire /\ RoomOK /\ CountsOK /\ UNCHANGED group
    BY <1>4, <1>r, SendTyped DEF LoseSession, CountsOK
  <2> QED BY <2>1, <2>2, PartsTyped
<1>5. ASSUME NEW m \in Guest, AcceptAnswered(m) PROVE ShapeInv' /\ RoomInv'
  <2>1. EntryOK /\ HostWire /\ HolderWire /\ RoomOK /\ UNCHANGED group
    BY <1>5, <1>r, SendTyped, EntryMoves DEF AcceptAnswered
  <2>2. CountsOK
    BY <1>5, <1>p, <1>n DEF AcceptAnswered, CountsOK
  <2> QED BY <2>1, <2>2, PartsTyped
<1>6. ASSUME NEW m \in Guest, AcceptLost(m) PROVE ShapeInv' /\ RoomInv'
  <2>1. EntryOK /\ HostWire /\ HolderWire /\ RoomOK /\ UNCHANGED group
    BY <1>6, <1>r, SendTyped, EntryMoves DEF AcceptLost
  <2>2. CountsOK
    BY <1>6, <1>p, <1>n, <1>f DEF AcceptLost, CountsOK
  <2> QED BY <2>1, <2>2, PartsTyped
<1>7. CASE WindowCloses
  <2>1. EntryOK
    BY <1>7, EntryMoves DEF WindowCloses, EntryOK
  <2>2. HostWire /\ HolderWire /\ RoomOK /\ CountsOK /\ UNCHANGED group
    BY <1>7, <1>r, SendTyped DEF WindowCloses, CountsOK
  <2> QED BY <2>1, <2>2, PartsTyped
<1>8. CASE EvictEntry
  <2>1. EntryOK /\ HostWire /\ HolderWire /\ RoomOK /\ UNCHANGED group
    BY <1>8, <1>r, SendTyped, EntryMoves DEF EvictEntry
  <2>2. CountsOK
    BY <1>8, <1>f DEF EvictEntry, CountsOK
  <2> QED BY <2>1, <2>2, PartsTyped
<1> QED BY <1>1, <1>2, <1>3, <1>4, <1>5, <1>6, <1>7, <1>8

\* A relay arrives, or is lost.
LEMMA WireTyped ==
  ASSUME ShapeInv, RoomInv,
         LoseRelay \/ \E i \in 1..MaxWire : ArriveAtHost(i) \/ ArriveAtHolder(i)
  PROVE  ShapeInv' /\ RoomInv'
<1> USE DEF ShapeInv, HostOK, HolderOK, FaultOK, hostVars, holderVars
<1>f. faults < MaxFaults => faults + 1 \in 0..MaxFaults
  BY CallAssumption
<1>1. CASE LoseRelay
  <2>1. HostWire /\ HolderWire /\ RoomOK /\ EntryOK /\ UNCHANGED group
    BY <1>1, SendTyped, RoomMoves, EntryMoves DEF LoseRelay
  <2>2. CountsOK
    BY <1>1, <1>f DEF LoseRelay, CountsOK
  <2> QED BY <2>1, <2>2, PartsTyped
<1>2. ASSUME NEW i \in 1..MaxWire, ArriveAtHost(i) PROVE ShapeInv' /\ RoomInv'
  <2> DEFINE r == toHost[i]
  <2>1. r \in GuestRelay /\ r.by \in Guest
    BY <1>2 DEF ArriveAtHost, WireOK, GuestRelay
  <2>2. HearAccept(r.by) \/ HearDecline(r.by) \/ HearEnd(r.by)
    BY <1>2 DEF ArriveAtHost
  <2>3. RoomOK /\ HolderWire
    BY <2>1, <2>2, RoomMoves
  <2>4. HostWire /\ EntryOK /\ UNCHANGED group
    BY <1>2, SendTyped, EntryMoves DEF ArriveAtHost
  <2>5. accepts' = accepts \/ accepts' = [accepts EXCEPT ![r.by] = "heard"]
    BY <1>2 DEF ArriveAtHost
  <2>6. CountsOK
    <3>1. accepts' \in [Guest -> Posted \ {"missed"}]
      BY <2>1, <2>5 DEF Posted
    <3> QED BY <1>2, <3>1 DEF ArriveAtHost, CountsOK
  <2> QED BY <2>3, <2>4, <2>6, PartsTyped
<1>3. ASSUME NEW i \in 1..MaxWire, ArriveAtHolder(i) PROVE ShapeInv' /\ RoomInv'
  <2> DEFINE r == toHolder[i]
  <2>1. r.about \in 0..MaxCalls
    <3>1. r \in Relay
      BY <1>3 DEF ArriveAtHolder, WireOK
    <3> QED BY <3>1 DEF Relay
  <2>2. \/ HearStart(r.about)
        \/ Cleared /\ UNCHANGED <<starts, heldFor>>
        \/ /\ entry' = IF entry = "ringing" THEN "active" ELSE entry
           /\ UNCHANGED <<joined, heldFor, window, starts>>
    BY <1>3 DEF ArriveAtHolder
  <2>3. EntryOK
    BY <2>2, EntryMoves DEF HearStart, EntryOK, Phase
  <2>4. starts' \in [1..MaxCalls -> Posted] /\ heldFor' \in 0..MaxCalls
    BY <2>1, <2>2 DEF HearStart, Posted
  <2>5. HolderWire /\ HostWire /\ RoomOK /\ UNCHANGED group
    BY <1>3, SendTyped, RoomMoves DEF ArriveAtHolder
  <2>6. CountsOK
    BY <1>3, <2>4 DEF ArriveAtHolder, CountsOK
  <2> QED BY <2>3, <2>5, <2>6, PartsTyped
<1> QED BY <1>1, <1>2, <1>3

LEMMA ShapeStart == ASSUME CallInit PROVE ShapeInv /\ RoomInv
<1> USE DEF CallInit
<1>1. HostOK
  BY CallAssumption DEF HostOK, Phase, Posted
<1>2. HolderOK
  <2>1. accepts \in [Guest -> Posted \ {"missed"}]
    BY DEF Posted
  <2>2. heldFor \in 0..MaxCalls
    BY CallAssumption
  <2> QED BY <2>1, <2>2 DEF HolderOK, Phase
<1>3. WireOK /\ FaultOK /\ group \in BOOLEAN
  <2>1. << >> \in Seq(GuestRelay) /\ << >> \in Seq(Relay) /\ Len(<< >>) = 0
    BY EmptySeq
  <2>2. 0 <= MaxWire /\ 0 \in 0..MaxFaults
    BY CallAssumption
  <2>3. toHost = << >> /\ toHolder = << >> /\ faults = 0 /\ marred = FALSE /\ group \in BOOLEAN
    BY DEF CallInit
  <2> HIDE DEF CallInit
  <2> QED BY <2>1, <2>2, <2>3 DEF WireOK, FaultOK
<1>4. RoomInv
  BY DEF RoomInv, CallHasSomebody
<1> QED BY <1>1, <1>2, <1>3, <1>4 DEF ShapeInv

LEMMA ShapeStep ==
  ASSUME ShapeInv, RoomInv, [CallNext]_callVars
  PROVE  ShapeInv' /\ RoomInv'
<1>1. CASE UNCHANGED callVars
  <2>1. RoomOK /\ EntryOK /\ HolderWire /\ HostWire /\ UNCHANGED group
    BY <1>1, RoomMoves, EntryMoves, SendTyped DEF callVars
  <2>2. CountsOK
    BY <1>1 DEF callVars, CountsOK, ShapeInv, HostOK, HolderOK, FaultOK
  <2> QED BY <2>1, <2>2, PartsTyped
<1>2. CASE CallNext
  BY <1>2, HostTyped, HolderTyped, WireTyped DEF CallNext
<1> QED BY <1>1, <1>2

\* The type invariant of the calls (ws/events.ts, routes/federation/events/calls.ts): the room, the
\* entry and the relays keep their shapes for any number of calls and faults, and an
\* entry that is gone has nobody in it and no timer running.
THEOREM CallTypeCorrect == CallSpec => []CallTypeOK
<1>1. ShapeInv => CallTypeOK
  <2> SUFFICES ASSUME ShapeInv PROVE CallTypeOK
    OBVIOUS
  <2>1. Range(toHost) \subseteq Relay /\ Range(toHolder) \subseteq Relay
    BY DEF ShapeInv, WireOK, GuestRelay, Range
  <2> QED BY <2>1 DEF ShapeInv, HostOK, HolderOK, WireOK, FaultOK, CallTypeOK
<1>2. CallInit => ShapeInv /\ RoomInv
  BY ShapeStart
<1>3. ShapeInv /\ RoomInv /\ [CallNext]_callVars => ShapeInv' /\ RoomInv'
  BY ShapeStep
<1> QED BY <1>1, <1>2, <1>3, PTL DEF CallSpec

\* A room that is not ringing any more has somebody in it, in whatever order
\* hang-ups, relays, late failures of starts and peers that go away come in.
THEOREM SomebodyCorrect == CallSpec => []CallHasSomebody
<1>1. CallInit => ShapeInv /\ RoomInv
  BY ShapeStart
<1>2. ShapeInv /\ RoomInv /\ [CallNext]_callVars => ShapeInv' /\ RoomInv'
  BY ShapeStep
<1>3. RoomInv => CallHasSomebody
  BY DEF RoomInv
<1> QED BY <1>1, <1>2, <1>3, PTL DEF CallSpec

-----------------------------------------------------------------------------
(* The seats of a group call *)

\* What the two wires hold, place by place.
LEMMA PlacesTyped ==
  ASSUME ShapeInv
  PROVE  /\ MaxCalls \in Nat /\ Len(toHolder) \in Nat /\ Len(toHost) \in Nat
         /\ DOMAIN toHolder = 1 .. Len(toHolder) /\ DOMAIN toHost = 1 .. Len(toHost)
         /\ \A i \in DOMAIN toHolder : toHolder[i].about \in 0..MaxCalls
         /\ \A i \in DOMAIN toHost : toHost[i].about \in 0..MaxCalls /\ toHost[i].by \in Guest
<1>1. \A i \in DOMAIN toHolder : toHolder[i] \in Relay
  BY DEF ShapeInv, WireOK
<1>2. \A i \in DOMAIN toHost : toHost[i] \in GuestRelay
  BY DEF ShapeInv, WireOK
<1>3. \A r \in Relay : r.about \in 0..MaxCalls
  BY DEF Relay
<1>4. \A r \in GuestRelay : r \in Relay /\ r.by \in Guest
  BY DEF GuestRelay
<1>5. Len(toHolder) \in Nat /\ DOMAIN toHolder = 1 .. Len(toHolder)
      /\ Len(toHost) \in Nat /\ DOMAIN toHost = 1 .. Len(toHost)
  BY DEF ShapeInv, WireOK
<1> QED BY <1>1, <1>2, <1>3, <1>4, <1>5, CallAssumption

\* The host says one more thing about the newest call.
LEMMA TellNewest ==
  ASSUME ShapeInv, OrderInv, NEW kind \in {"accept", "end"}, ToHolder(kind, placed),
         UNCHANGED <<placed, starts, heldFor>>
  PROVE  /\ OrderInv'
         /\ \A n : Ending(n)' <=> Ending(n) \/ (kind = "end" /\ n = placed)
         /\ \A i \in DOMAIN toHolder' : toHolder'[i].kind = "start" =>
              \E j \in DOMAIN toHolder : toHolder[j].kind = "start"
                                         /\ toHolder[j].about = toHolder'[i].about
<1> DEFINE r == [kind |-> kind, by |-> Caller, about |-> placed]
           len == Len(toHolder)
<1>1. r \in Relay /\ r.kind = kind /\ r.about = placed /\ placed \in 0..MaxCalls
  BY DEF Relay, ShapeInv, HostOK
<1>2. toHolder' = Append(toHolder, r)
  BY DEF ToHolder
<1> HIDE DEF r
<1>3. /\ DOMAIN toHolder' = 1 .. len + 1 /\ DOMAIN toHolder = 1 .. len /\ len \in Nat
      /\ toHolder'[len + 1] = r /\ \A i \in 1 .. len : toHolder'[i] = toHolder[i]
  BY <1>1, <1>2, AppendFacts, PlacesTyped DEF ShapeInv, WireOK
<1> HIDE DEF len
<1>4. MaxCalls \in Nat /\ \A i \in 1 .. len : toHolder[i].about \in 0..MaxCalls
  BY <1>3, PlacesTyped
<1>5. Told' <=> Told
  BY DEF Told
<1>6. \A n \in 1..MaxCalls : starts'[n] = "sent" <=>
       \E i \in DOMAIN toHolder' : toHolder'[i].kind = "start" /\ toHolder'[i].about = n
  BY <1>1, <1>3 DEF OrderInv
<1>7. \A i, j \in DOMAIN toHolder' : i < j =>
       /\ toHolder'[i].about <= toHolder'[j].about
       /\ toHolder'[j].kind = "start" => toHolder'[i].about < toHolder'[j].about
  <2> SUFFICES ASSUME NEW i \in 1 .. len + 1, NEW j \in 1 .. len + 1, i < j
               PROVE  /\ toHolder'[i].about <= toHolder'[j].about
                      /\ toHolder'[j].kind = "start" => toHolder'[i].about < toHolder'[j].about
    BY <1>3
  <2>1. i \in 1 .. len /\ toHolder'[i] = toHolder[i]
    BY <1>3
  <2>2. CASE j = len + 1
    BY <1>1, <1>3, <2>1, <2>2 DEF OrderInv
  <2>3. CASE j \in 1 .. len
    BY <1>3, <2>1, <2>3 DEF OrderInv
  <2> QED BY <1>3, <2>2, <2>3
<1>8. \A i \in DOMAIN toHolder' :
       /\ toHolder'[i].about <= placed'
       /\ toHolder'[i].kind = "start" => toHolder'[i].about \in 1..MaxCalls
       /\ Told' => toHolder'[i].about = placed'
  BY <1>1, <1>3, <1>5 DEF OrderInv
<1>9. OrderInv'
  BY <1>6, <1>7, <1>8 DEF OrderInv
<1>10. \A n : Ending(n)' <=> Ending(n) \/ (kind = "end" /\ n = placed)
  BY <1>1, <1>3 DEF Ending
<1>11. \A i \in DOMAIN toHolder' : toHolder'[i].kind = "start" =>
              \E j \in DOMAIN toHolder : toHolder[j].kind = "start"
                                         /\ toHolder[j].about = toHolder'[i].about
  BY <1>1, <1>3
<1> QED BY <1>9, <1>10, <1>11

\* A call is ended, and the other instance told.
LEMMA EndTold ==
  ASSUME ShapeInv, OrderInv, EndInv, room # "none", EndAndTell,
         UNCHANGED <<placed, starts, heldFor, entry>>,
         \A i \in DOMAIN toHost' : toHost'[i].about <= heldFor
  PROVE  OrderInv' /\ EndInv' /\ SeatInv'
<1>1. room' = "none" /\ ToHolder("end", placed)
  BY DEF EndAndTell, RoomIs
<1>2. /\ OrderInv'
      /\ \A n : Ending(n)' <=> Ending(n) \/ n = placed
      /\ \A i \in DOMAIN toHolder' : toHolder'[i].kind = "start" =>
              \E j \in DOMAIN toHolder : toHolder[j].kind = "start"
                                         /\ toHolder[j].about = toHolder'[i].about
  BY <1>1, TellNewest
<1>3. \A n : ~Running(n)'
  BY <1>1 DEF Running
<1>4. \A n : Running(n) => n = placed
  BY DEF Running
<1>5. EndInv'
  <2>1. (\A i \in DOMAIN toHolder : toHolder[i].kind = "start" => Ending(toHolder[i].about))'
    BY <1>2, <1>4 DEF EndInv
  <2>2. entry' # "none" => Ending(heldFor)'
    BY <1>2, <1>4 DEF EndInv
  <2> QED BY <1>3, <2>1, <2>2 DEF EndInv
<1>6. SeatInv'
  BY <1>1 DEF SeatInv
<1> QED BY <1>2, <1>5, <1>6

\* Nothing is said to the other instance, and the same call runs.
LEMMA NothingTold ==
  ASSUME OrderInv, EndInv, UNCHANGED <<placed, starts, heldFor, toHolder>>,
         room' = "none" <=> room = "none", entry' # "none" => entry # "none"
  PROVE  OrderInv' /\ EndInv' /\ (Told' <=> Told)
<1>1. (Told' <=> Told) /\ \A n : (Running(n)' <=> Running(n)) /\ (Ending(n)' <=> Ending(n))
  BY DEF Told, Running, Ending
<1>2. OrderInv'
  BY <1>1 DEF OrderInv
<1>3. EndInv'
  BY <1>1 DEF EndInv
<1> QED BY <1>1, <1>2, <1>3

\* Who will sit, when only the seats change, and not those of guests.
LEMMA SameSitters ==
  ASSUME NEW m, UNCHANGED <<toHost, placed>>, m \in seats' <=> m \in seats
  PROVE  WillSit(m)' <=> WillSit(m)
<1>1. \A i : Moves(m, i)' <=> Moves(m, i)
  BY DEF Moves
<1> QED BY <1>1 DEF WillSit

LEMMA StartOrderly ==
  ASSUME ShapeInv, RoomInv, OrderInv, EndInv, SeatInv, group, StartCall
  PROVE  OrderInv' /\ EndInv' /\ SeatInv'
<1> DEFINE r == [kind |-> "start", by |-> Caller, about |-> placed + 1]
           len == Len(toHolder)
<1>1. /\ room = "none" /\ room' = "ringing" /\ seats' = {} /\ placed' = placed + 1
      /\ starts' = [starts EXCEPT ![placed + 1] = "sent"]
      /\ UNCHANGED <<entry, joined, heldFor, toHost>>
      /\ toHolder' = Append(toHolder, r)
  BY DEF StartCall, RoomIs, ToHolder, holderVars
<1>2. placed \in 0..MaxCalls /\ placed + 1 \in 1..MaxCalls /\ heldFor \in 0..MaxCalls
  BY PlacesTyped DEF StartCall, ShapeInv, HostOK, HolderOK
<1>3. r \in Relay /\ r.kind = "start" /\ r.about = placed + 1
  BY <1>2, PlacesTyped DEF Relay
<1> HIDE DEF r
<1>4. /\ DOMAIN toHolder' = 1 .. len + 1 /\ DOMAIN toHolder = 1 .. len /\ len \in Nat
      /\ toHolder'[len + 1] = r /\ \A i \in 1 .. len : toHolder'[i] = toHolder[i]
  BY <1>1, <1>3, AppendFacts, PlacesTyped DEF ShapeInv, WireOK
<1>5. MaxCalls \in Nat /\ \A i \in 1 .. len : toHolder[i].about \in 0..MaxCalls
  BY <1>4, PlacesTyped
<1>6. \A i \in 1 .. len : toHolder[i].about <= placed
  BY <1>4 DEF OrderInv
<1> HIDE DEF len
<1>7. \A n \in 1..MaxCalls : starts'[n] = IF n = placed + 1 THEN "sent" ELSE starts[n]
  BY <1>1 DEF ShapeInv, HostOK
<1>8. ~Told'
  BY <1>1, <1>2, <1>7 DEF Told
<1>9. OrderInv'
  <2>1. \A n \in 1..MaxCalls : starts'[n] = "sent" <=>
       \E i \in DOMAIN toHolder' : toHolder'[i].kind = "start" /\ toHolder'[i].about = n
    <3> SUFFICES ASSUME NEW n \in 1..MaxCalls
                 PROVE  starts'[n] = "sent" <=>
                         \E i \in 1 .. len + 1 : toHolder'[i].kind = "start" /\ toHolder'[i].about = n
      BY <1>4
    <3>1. CASE n = placed + 1
      BY <1>3, <1>4, <1>7, <3>1
    <3>2. CASE n # placed + 1
      <4>1. starts'[n] = "sent" <=> \E i \in 1 .. len : toHolder[i].kind = "start" /\ toHolder[i].about = n
        BY <1>4, <1>7, <3>2 DEF OrderInv
      <4> QED BY <1>3, <1>4, <3>2, <4>1
    <3> QED BY <3>1, <3>2
  <2>2. \A i, j \in DOMAIN toHolder' : i < j =>
       /\ toHolder'[i].about <= toHolder'[j].about
       /\ toHolder'[j].kind = "start" => toHolder'[i].about < toHolder'[j].about
    <3> SUFFICES ASSUME NEW i \in 1 .. len + 1, NEW j \in 1 .. len + 1, i < j
                 PROVE  /\ toHolder'[i].about <= toHolder'[j].about
                        /\ toHolder'[j].kind = "start" => toHolder'[i].about < toHolder'[j].about
      BY <1>4
    <3>1. i \in 1 .. len /\ toHolder'[i] = toHolder[i]
      BY <1>4
    <3>2. CASE j = len + 1
      BY <1>2, <1>3, <1>4, <1>5, <1>6, <3>1, <3>2
    <3>3. CASE j \in 1 .. len
      BY <1>4, <3>1, <3>3 DEF OrderInv
    <3> QED BY <1>4, <3>2, <3>3
  <2>3. \A i \in DOMAIN toHolder' :
       /\ toHolder'[i].about <= placed'
       /\ toHolder'[i].kind = "start" => toHolder'[i].about \in 1..MaxCalls
    BY <1>1, <1>2, <1>3, <1>4, <1>5, <1>6 DEF OrderInv
  <2>4. heldFor' <= placed'
    BY <1>1, <1>2 DEF OrderInv
  <2>5. \A n \in 1..MaxCalls :
       /\ starts'[n] = "sent" => heldFor' < n
       /\ starts'[n] = "missed" => heldFor' # n
    BY <1>1, <1>2, <1>7 DEF OrderInv
  <2> QED BY <1>8, <2>1, <2>2, <2>3, <2>4, <2>5 DEF OrderInv
<1>10. \A n : /\ Ending(n)' <=> Ending(n)
              /\ ~Running(n)
              /\ Running(n)' <=> n = placed + 1
  BY <1>1, <1>3, <1>4 DEF Ending, Running
<1>11. EndInv'
  <2>1. \A n \in 0..MaxCalls : Ending(n)' => ~Running(n)'
    BY <1>2, <1>4, <1>6, <1>10 DEF Ending
  <2>2. (\A i \in DOMAIN toHolder : toHolder[i].kind = "start" =>
           Running(toHolder[i].about) \/ Ending(toHolder[i].about))'
    BY <1>3, <1>4, <1>10 DEF EndInv
  <2>3. entry' # "none" => Ending(heldFor)'
    BY <1>1, <1>10 DEF EndInv
  <2> QED BY <2>1, <2>2, <2>3 DEF EndInv
<1>12. SeatInv'
  BY <1>1, <1>8 DEF SeatInv
<1> QED BY <1>9, <1>11, <1>12

\* What the host does on its own besides starting a call.
LEMMA HostOrderly ==
  ASSUME ShapeInv, RoomInv, OrderInv, EndInv, SeatInv, group, ~marred',
         \/ JoinAgain \/ CallerLeaves \/ RingTimeout
         \/ \E n \in 1..MaxCalls : StartAnswered(n)
  PROVE  OrderInv' /\ EndInv' /\ SeatInv'
<1>g. group' = group /\ Guest' = Guest
  BY DEF JoinAgain, CallerLeaves, RingTimeout, StartAnswered, StartFailed, Guest
<1>h. \A i \in DOMAIN toHost : toHost[i].about <= heldFor
  BY DEF SeatInv
<1>1. CASE JoinAgain
  <2>1. /\ room = "active" /\ room' = "active" /\ seats' = seats \cup {Caller}
        /\ ToHolder("accept", placed)
        /\ UNCHANGED <<placed, starts, entry, joined, heldFor, toHost>>
    BY <1>1 DEF JoinAgain, RoomIs, holderVars
  <2>2. /\ OrderInv'
        /\ \A n : Ending(n)' <=> Ending(n)
        /\ \A i \in DOMAIN toHolder' : toHolder'[i].kind = "start" =>
              \E j \in DOMAIN toHolder : toHolder[j].kind = "start"
                                         /\ toHolder[j].about = toHolder'[i].about
    BY <2>1, TellNewest
  <2>3. (Told' <=> Told) /\ \A n : Running(n)' <=> Running(n)
    BY <2>1 DEF Told, Running
  <2>4. EndInv'
    BY <2>1, <2>2, <2>3 DEF EndInv
  <2>5. \A m \in Guest : m \in seats' <=> m \in seats
    BY <2>1, NamesFact
  <2>6. \A m \in Guest : WillSit(m)' <=> WillSit(m)
    BY <2>1, <2>5, SameSitters
  <2>7. SeatInv'
    <3>1. ~Told' => seats' \cap Guest' = {}
      BY <1>g, <2>1, <2>3, <2>5 DEF SeatInv
    <3>2. Told' => \A m \in Guest' : m \in joined' <=> WillSit(m)'
      BY <1>g, <2>1, <2>3, <2>6 DEF SeatInv
    <3> QED BY <1>h, <2>1, <3>1, <3>2 DEF SeatInv
  <2> QED BY <2>2, <2>4, <2>7
<1>2. CASE \/ CallerLeaves /\ EndAndTell
           \/ RingTimeout
  <2>1. room # "none" /\ EndAndTell /\ UNCHANGED <<placed, starts, heldFor, entry, toHost>>
    BY <1>2 DEF CallerLeaves, RingTimeout, holderVars
  <2> QED BY <1>h, <2>1, EndTold
<1>3. CASE CallerLeaves /\ ~EndAndTell
  <2>1. /\ room = "active" /\ room' = room /\ seats' = seats \ {Caller} /\ UNCHANGED toHolder
        /\ UNCHANGED <<placed, starts, entry, joined, heldFor, toHost>>
    BY <1>3 DEF CallerLeaves, SeatEmptied, RoomIs, holderVars
  <2>2. OrderInv' /\ EndInv' /\ (Told' <=> Told)
    BY <2>1, NothingTold
  <2>3. \A m \in Guest : m \in seats' <=> m \in seats
    BY <2>1, NamesFact
  <2>4. \A m \in Guest : WillSit(m)' <=> WillSit(m)
    BY <2>1, <2>3, SameSitters
  <2>5. SeatInv'
    <3>1. ~Told' => seats' \cap Guest' = {}
      BY <1>g, <2>1, <2>2, <2>3 DEF SeatInv
    <3>2. Told' => \A m \in Guest' : m \in joined' <=> WillSit(m)'
      BY <1>g, <2>1, <2>2, <2>4 DEF SeatInv
    <3> QED BY <1>h, <2>1, <3>1, <3>2 DEF SeatInv
  <2> QED BY <2>2, <2>5
<1>4. ASSUME NEW n \in 1..MaxCalls, StartAnswered(n), starts[n] = "heard"
      PROVE  OrderInv' /\ EndInv' /\ SeatInv'
  <2>1. /\ starts' = [starts EXCEPT ![n] = "none"]
        /\ UNCHANGED <<room, seats, placed, entry, joined, heldFor, toHost, toHolder>>
    BY <1>4 DEF StartAnswered, holderVars
  <2>2. \A k \in 1..MaxCalls : /\ starts'[k] = "sent" <=> starts[k] = "sent"
                               /\ starts'[k] = "missed" => starts[k] = "missed"
    BY <1>4, <2>1 DEF ShapeInv, HostOK
  <2>3. Told' <=> Told
    <3>1. placed = 0 \/ placed \in 1..MaxCalls
      BY PlacesTyped DEF ShapeInv, HostOK
    <3> QED BY <2>1, <2>2, <3>1 DEF Told
  <2>4. \A k : (Running(k)' <=> Running(k)) /\ (Ending(k)' <=> Ending(k))
    BY <2>1 DEF Running, Ending
  <2>5. OrderInv'
    BY <2>1, <2>2, <2>3 DEF OrderInv
  <2>6. EndInv'
    BY <2>1, <2>4 DEF EndInv
  <2>7. \A m \in Guest : WillSit(m)' <=> WillSit(m)
    BY <2>1, SameSitters
  <2>8. SeatInv'
    BY <1>g, <2>1, <2>3, <2>7 DEF SeatInv
  <2> QED BY <2>5, <2>6, <2>8
<1>5. ASSUME NEW n \in 1..MaxCalls, StartAnswered(n), starts[n] = "missed"
      PROVE  OrderInv' /\ EndInv' /\ SeatInv'
  <2>1. /\ starts' = [starts EXCEPT ![n] = "none"] /\ room' = "none"
        /\ room = "none" \/ n = placed
        /\ UNCHANGED <<placed, entry, joined, heldFor, toHost, toHolder>>
    BY <1>5 DEF StartAnswered, StartFailed, RoomIs, holderVars
  <2>2. \A k \in 1..MaxCalls : /\ starts'[k] = "sent" <=> starts[k] = "sent"
                               /\ starts'[k] = "missed" => starts[k] = "missed"
    BY <1>5, <2>1 DEF ShapeInv, HostOK
  <2>3. Told' <=> Told
    <3>1. placed = 0 \/ placed \in 1..MaxCalls
      BY PlacesTyped DEF ShapeInv, HostOK
    <3> QED BY <2>1, <2>2, <3>1 DEF Told
  <2>4. \A k : ~Running(k)' /\ (Ending(k)' <=> Ending(k))
    BY <2>1 DEF Running, Ending
  <2>5. OrderInv'
    BY <2>1, <2>2, <2>3 DEF OrderInv
  <2>6. \A k : Running(k) => k = n
    BY <2>1 DEF Running
  <2>7. (\A i \in DOMAIN toHolder : toHolder[i].kind = "start" => Ending(toHolder[i].about))'
    <3>1. \A i \in DOMAIN toHolder : toHolder[i].kind = "start" => toHolder[i].about # n
      BY <1>5 DEF OrderInv
    <3> QED BY <2>1, <2>4, <2>6, <3>1 DEF EndInv
  <2>8. entry' # "none" => Ending(heldFor)'
    <3>1. heldFor # n
      BY <1>5 DEF OrderInv
    <3> QED BY <2>1, <2>4, <2>6, <3>1 DEF EndInv
  <2>9. EndInv'
    BY <2>4, <2>7, <2>8 DEF EndInv
  <2>10. SeatInv'
    BY <1>h, <2>1 DEF SeatInv
  <2> QED BY <2>5, <2>9, <2>10
<1>6. \A n : StartAnswered(n) => starts[n] \in {"heard", "missed"}
  BY DEF StartAnswered
<1> QED BY <1>1, <1>2, <1>3, <1>4, <1>5, <1>6

\* An entry of a conversation whose newest call runs, and was told, is of that call.
LEMMA HeldIsNewest ==
  ASSUME ShapeInv, OrderInv, EndInv, entry # "none", room # "none", Told
  PROVE  heldFor = placed
<1>1. \A n : Running(n) <=> n = placed
  BY DEF Running
<1>2. \A n : Ending(n) => n = placed
  BY DEF Ending, OrderInv
<1> QED BY <1>1, <1>2 DEF EndInv

\* A member's relay: the last of theirs decides where they will sit.
LEMMA TellHost ==
  ASSUME ShapeInv, SeatInv, NEW m \in Guest, NEW kind \in {"accept", "decline", "end"},
         ToHost(kind, m), UNCHANGED <<seats, placed, heldFor>>
  PROVE  /\ \A i \in DOMAIN toHost' : toHost'[i].about <= heldFor
         /\ heldFor = placed => \A x \in Guest :
              WillSit(x)' <=> IF x = m /\ kind # "decline" THEN kind = "accept" ELSE WillSit(x)
<1> DEFINE r == [kind |-> kind, by |-> m, about |-> heldFor]
<1>0. PICK len \in Nat : len = Len(toHost)
  BY PlacesTyped
<1>1. r \in GuestRelay /\ r.kind = kind /\ r.by = m /\ r.about = heldFor /\ heldFor \in 0..MaxCalls
  BY DEF Relay, GuestRelay, ShapeInv, HolderOK
<1>2. toHost' = Append(toHost, r)
  BY DEF ToHost
<1> HIDE DEF r
<1>3. /\ DOMAIN toHost' = 1 .. len + 1 /\ DOMAIN toHost = 1 .. len /\ len \in Nat
      /\ toHost'[len + 1] = r /\ \A i \in 1 .. len : toHost'[i] = toHost[i]
  BY <1>0, <1>1, <1>2, AppendFacts, PlacesTyped DEF ShapeInv, WireOK
<1>4. \A i \in DOMAIN toHost' : toHost'[i].about <= heldFor
  BY <1>1, <1>3, PlacesTyped DEF SeatInv
<1>5. ASSUME heldFor = placed, NEW x \in Guest
      PROVE  WillSit(x)' <=> IF x = m /\ kind # "decline" THEN kind = "accept" ELSE WillSit(x)
  <2>1. \A i \in 1 .. len : /\ Moves(x, i)' <=> Moves(x, i)
                            /\ toHost'[i].kind = toHost[i].kind
    BY <1>3 DEF Moves
  <2>2. Moves(x, len + 1)' <=> x = m /\ kind # "decline"
    BY <1>1, <1>3, <1>5 DEF Moves
  <2>3. WillSit(x)' <=>
          \/ \E i \in 1 .. len + 1 :
               /\ Moves(x, i)' /\ toHost'[i].kind = "accept"
               /\ \A j \in 1 .. len + 1 : j > i => ~Moves(x, j)'
          \/ x \in seats /\ \A i \in 1 .. len + 1 : ~Moves(x, i)'
    BY <1>3 DEF WillSit
  <2>4. WillSit(x) <=>
          \/ \E i \in 1 .. len : /\ Moves(x, i) /\ toHost[i].kind = "accept"
                                 /\ \A j \in 1 .. len : j > i => ~Moves(x, j)
          \/ x \in seats /\ \A i \in 1 .. len : ~Moves(x, i)
    BY <1>3 DEF WillSit
  <2>5. len + 1 \in 1 .. len + 1 /\ \A i \in 1 .. len + 1 : i \in 1 .. len \/ i = len + 1
    BY <1>3
  <2>6. toHost'[len + 1].kind = kind
    BY <1>1, <1>3
  <2>7. CASE x = m /\ kind # "decline"
    <3>1. CASE kind = "accept"
      <4>1. \A j \in 1 .. len + 1 : ~(j > len + 1)
        BY <1>3
      <4> QED BY <2>2, <2>3, <2>5, <2>6, <2>7, <3>1, <4>1
    <3>2. CASE kind = "end"
      <4>1. \A i \in 1 .. len : len + 1 > i
        BY <1>3
      <4> QED BY <2>2, <2>3, <2>5, <2>6, <2>7, <3>2, <4>1
    <3> QED BY <2>7, <3>1, <3>2
  <2>8. CASE ~(x = m /\ kind # "decline")
    <3>1. ~Moves(x, len + 1)'
      BY <2>2, <2>8
    <3>2. \A i \in 1 .. len : i \in 1 .. len + 1
      BY <1>3
    <3> QED BY <2>1, <2>3, <2>4, <2>5, <2>8, <3>1, <3>2
  <2> QED BY <2>7, <2>8
<1> QED BY <1>4, <1>5

\* What the members of the other instance do, and its ring window.
LEMMA HolderOrderly ==
  ASSUME ShapeInv, RoomInv, OrderInv, EndInv, SeatInv, group,
         \/ \E m \in Guest : \/ AnswerCall(m) \/ DeclineCall(m) \/ LeaveCall(m)
                             \/ LoseSession(m) \/ AcceptAnswered(m)
         \/ WindowCloses
  PROVE  OrderInv' /\ EndInv' /\ SeatInv'
<1>h. \A i \in DOMAIN toHost : toHost[i].about <= heldFor
  BY DEF SeatInv
<1>j. \A m : m \in joined => entry = "active"
  BY DEF ShapeInv, HolderOK
<1>l. ASSUME NEW m, LeftEntry(m)
      PROVE  joined' = joined \ {m} /\ (entry' # "none" => entry' = entry)
  BY <1>l DEF LeftEntry, Cleared
<1>1. ASSUME NEW m \in Guest, NEW kind \in {"accept", "decline", "end"},
             entry # "none", ToHost(kind, m), UNCHANGED <<group, hostVars, heldFor, toHolder>>,
             joined' = IF kind = "accept" THEN joined \cup {m}
                       ELSE IF kind = "end" THEN joined \ {m} ELSE joined
      PROVE  OrderInv' /\ EndInv' /\ SeatInv'
  <2>1. UNCHANGED <<group, room, seats, placed, starts, heldFor, toHolder>>
    BY <1>1 DEF hostVars
  <2>2. OrderInv' /\ EndInv' /\ (Told' <=> Told)
    BY <1>1, <2>1, NothingTold
  <2>3. \A i \in DOMAIN toHost' : toHost'[i].about <= heldFor
    BY <1>1, <2>1, TellHost
  <2>4. room' # "none" /\ Told' => \A x \in Guest : x \in joined' <=> WillSit(x)'
    <3> SUFFICES ASSUME room' # "none", Told', NEW x \in Guest
                 PROVE  x \in joined' <=> WillSit(x)'
      OBVIOUS
    <3>1. heldFor = placed
      BY <1>1, <2>1, <2>2, HeldIsNewest
    <3>2. x \in joined <=> WillSit(x)
      BY <2>1, <2>2 DEF SeatInv
    <3>3. WillSit(x)' <=> IF x = m /\ kind # "decline" THEN kind = "accept" ELSE WillSit(x)
      BY <1>1, <2>1, <3>1, TellHost
    <3>4. x \in joined' <=> IF x = m /\ kind # "decline" THEN kind = "accept" ELSE x \in joined
      BY <1>1
    <3> QED BY <3>2, <3>3, <3>4
  <2>5. Guest' = Guest
    BY <2>1 DEF Guest
  <2> QED BY <2>1, <2>2, <2>3, <2>4, <2>5 DEF SeatInv
<1>2. ASSUME UNCHANGED <<group, hostVars, heldFor, toHost, toHolder, joined>>,
             entry' # "none" => entry # "none"
      PROVE  OrderInv' /\ EndInv' /\ SeatInv'
  <2>1. UNCHANGED <<group, room, seats, placed, starts, heldFor, toHost, toHolder, joined>>
    BY <1>2 DEF hostVars
  <2>2. OrderInv' /\ EndInv' /\ (Told' <=> Told)
    BY <1>2, <2>1, NothingTold
  <2>3. \A m : WillSit(m)' <=> WillSit(m)
    BY <2>1, SameSitters
  <2>4. Guest' = Guest
    BY <2>1 DEF Guest
  <2> QED BY <1>h, <2>1, <2>2, <2>3, <2>4 DEF SeatInv
<1>3. ASSUME NEW m \in Guest, AnswerCall(m) PROVE OrderInv' /\ EndInv' /\ SeatInv'
  BY <1>1, <1>3 DEF AnswerCall
<1>4. ASSUME NEW m \in Guest, DeclineCall(m) PROVE OrderInv' /\ EndInv' /\ SeatInv'
  BY <1>1, <1>4 DEF DeclineCall
<1>5. ASSUME NEW m \in Guest, LeaveCall(m) PROVE OrderInv' /\ EndInv' /\ SeatInv'
  BY <1>1, <1>5, <1>l DEF LeaveCall
<1>6. ASSUME NEW m \in Guest, LoseSession(m) PROVE OrderInv' /\ EndInv' /\ SeatInv'
  BY <1>1, <1>6, <1>l, <1>j DEF LoseSession
<1>7. ASSUME NEW m \in Guest, AcceptAnswered(m) PROVE OrderInv' /\ EndInv' /\ SeatInv'
  BY <1>2, <1>7 DEF AcceptAnswered
<1>8. CASE WindowCloses
  <2>1. joined' = joined /\ (entry' # "none" => entry # "none")
    BY <1>8, <1>j DEF WindowCloses, Cleared, ShapeInv, HolderOK
  <2> QED BY <1>2, <1>8, <2>1 DEF WindowCloses
<1> QED BY <1>3, <1>4, <1>5, <1>6, <1>7, <1>8

\* The first relay has arrived at the host: who will sit, when it moves whom it says.
LEMMA FirstHeard ==
  ASSUME ShapeInv, SeatInv, 1 \in DOMAIN toHost, toHost' = RemoveAt(toHost, 1),
         UNCHANGED <<placed, heldFor>>
  PROVE  /\ \A i \in DOMAIN toHost' : toHost'[i].about <= heldFor
         /\ \A x \in Guest :
              (x \in seats' <=> IF Moves(x, 1) THEN toHost[1].kind = "accept" ELSE x \in seats)
                => (WillSit(x)' <=> WillSit(x))
<1>0. PICK len \in Nat : len = Len(toHost)
  BY PlacesTyped
<1>1. /\ DOMAIN toHost = 1 .. len /\ DOMAIN toHost' = 1 .. len - 1
      /\ \A i \in 1 .. len - 1 : toHost'[i] = toHost[i + 1]
  BY <1>0, RemoveFirstFacts, PlacesTyped DEF ShapeInv, WireOK
<1>2. \A i \in 1 .. len - 1 : i + 1 \in 1 .. len
  BY <1>0
<1>3. \A i \in DOMAIN toHost' : toHost'[i].about <= heldFor
  BY <1>1, <1>2 DEF SeatInv
<1>4. ASSUME NEW x \in Guest,
             x \in seats' <=> IF Moves(x, 1) THEN toHost[1].kind = "accept" ELSE x \in seats
      PROVE  WillSit(x)' <=> WillSit(x)
  <2>1. \A i \in 1 .. len - 1 : Moves(x, i)' <=> Moves(x, i + 1)
    BY <1>1 DEF Moves
  <2>2. \A i \in 1 .. len : i = 1 \/ (i - 1 \in 1 .. len - 1 /\ i = (i - 1) + 1)
    BY <1>0
  <2>3. 1 \in 1 .. len
    BY <1>1
  <2>4. ASSUME WillSit(x) PROVE WillSit(x)'
    <3>1. CASE x \in seats /\ \A i \in DOMAIN toHost : ~Moves(x, i)
      BY <1>1, <1>2, <1>4, <2>1, <2>3, <3>1 DEF WillSit
    <3>2. ASSUME NEW i \in 1 .. len, Moves(x, i), toHost[i].kind = "accept",
                 \A j \in 1 .. len : j > i => ~Moves(x, j)
          PROVE  WillSit(x)'
      <4>1. CASE i = 1
        <5>1. x \in seats'
          BY <1>4, <3>2, <4>1
        <5>2. \A j \in 1 .. len - 1 : ~Moves(x, j)'
          <6>1. \A j \in 1 .. len - 1 : j + 1 > i
            BY <1>0, <4>1
          <6> QED BY <1>2, <2>1, <3>2, <6>1
        <5> QED BY <1>1, <5>1, <5>2 DEF WillSit
      <4>2. CASE i # 1
        <5>1. PICK k \in 1 .. len - 1 : i = k + 1
          BY <2>2, <4>2
        <5>2. Moves(x, k)' /\ toHost'[k].kind = "accept"
          BY <1>1, <2>1, <3>2, <5>1
        <5>3. \A j \in 1 .. len - 1 : j > k => ~Moves(x, j)'
          <6>1. \A j \in 1 .. len - 1 : j > k => j + 1 > i
            BY <1>0, <5>1
          <6> QED BY <1>2, <2>1, <3>2, <6>1
        <5> QED BY <1>1, <5>2, <5>3 DEF WillSit
      <4> QED BY <4>1, <4>2
    <3> QED BY <1>1, <2>4, <3>1, <3>2 DEF WillSit
  <2>5. ASSUME WillSit(x)' PROVE WillSit(x)
    <3>1. CASE x \in seats' /\ \A i \in 1 .. len - 1 : ~Moves(x, i)'
      <4>1. \A i \in 1 .. len : i # 1 => ~Moves(x, i)
        <5> SUFFICES ASSUME NEW i \in 1 .. len, i # 1 PROVE ~Moves(x, i)
          OBVIOUS
        <5>1. PICK k \in 1 .. len - 1 : i = k + 1
          BY <2>2
        <5> QED BY <2>1, <3>1, <5>1
      <4>2. CASE Moves(x, 1)
        <5>1. \A j \in 1 .. len : j > 1 => ~Moves(x, j)
          BY <4>1
        <5> QED BY <1>1, <1>4, <2>3, <3>1, <4>2, <5>1 DEF WillSit
      <4>3. CASE ~Moves(x, 1)
        BY <1>1, <1>4, <3>1, <4>1, <4>3 DEF WillSit
      <4> QED BY <4>2, <4>3
    <3>2. ASSUME NEW k \in 1 .. len - 1, Moves(x, k)', toHost'[k].kind = "accept",
                 \A j \in 1 .. len - 1 : j > k => ~Moves(x, j)'
          PROVE  WillSit(x)
      <4>1. Moves(x, k + 1) /\ toHost[k + 1].kind = "accept" /\ k + 1 \in 1 .. len
        BY <1>1, <1>2, <2>1, <3>2
      <4>2. \A j \in 1 .. len : j > k + 1 => ~Moves(x, j)
        <5> SUFFICES ASSUME NEW j \in 1 .. len, j > k + 1 PROVE ~Moves(x, j)
          OBVIOUS
        <5>1. PICK l \in 1 .. len - 1 : j = l + 1
          BY <1>0, <2>2
        <5>2. l > k
          BY <1>0, <5>1
        <5> QED BY <2>1, <3>2, <5>1, <5>2
      <4> QED BY <1>1, <4>1, <4>2 DEF WillSit
    <3> QED BY <1>1, <2>5, <3>1, <3>2 DEF WillSit
  <2> QED BY <2>4, <2>5
<1> QED BY <1>3, <1>4

\* A relay arrives at the host.
LEMMA ArriveHostOrderly ==
  ASSUME ShapeInv, RoomInv, OrderInv, EndInv, SeatInv, group, ~marred',
         NEW i \in 1..MaxWire, ArriveAtHost(i)
  PROVE  OrderInv' /\ EndInv' /\ SeatInv'
<1> DEFINE r == toHost[1]
<1>1. i = 1
  <2>1. marred' = (marred \/ i > 1 \/ (room # "none" /\ toHost[i].about # placed))
    BY DEF ArriveAtHost
  <2>2. ~(i > 1)
    BY <2>1
  <2> QED BY <2>2, CallAssumption
<1>2. /\ 1 \in DOMAIN toHost /\ toHost' = RemoveAt(toHost, 1)
      /\ room # "none" => r.about = placed
      /\ UNCHANGED <<group, placed, starts, entry, joined, heldFor>>
      /\ \/ r.kind = "accept" /\ HearAccept(r.by)
         \/ r.kind = "decline" /\ HearDecline(r.by)
         \/ r.kind = "end" /\ HearEnd(r.by)
  BY <1>1 DEF ArriveAtHost
<1>3. \A k \in DOMAIN toHost' : toHost'[k].about <= heldFor
  BY <1>2, FirstHeard
<1>4. r.by \in Guest /\ r.by # Caller /\ r.about <= heldFor /\ r.about \in 0..MaxCalls
  BY <1>2, PlacesTyped, NamesFact DEF SeatInv
<1> HIDE DEF r
<1>5. Guest' = Guest
  BY <1>2 DEF Guest
<1>6. CASE room = "none"
  <2>1. UNCHANGED <<room, seats, toHolder>>
    BY <1>2, <1>6 DEF HearAccept, HearDecline, HearEnd
  <2>2. OrderInv' /\ EndInv'
    BY <1>2, <2>1, NothingTold
  <2> QED BY <1>2, <1>3, <1>6, <2>1, <2>2 DEF SeatInv
<1>7. CASE room # "none" /\ EndAndTell
  BY <1>2, <1>3, <1>7, EndTold
<1>8. CASE room # "none" /\ ~EndAndTell
  <2>1. r.about = placed /\ heldFor = placed
    BY <1>2, <1>4, <1>8 DEF OrderInv, ShapeInv, HostOK, HolderOK
  <2>2. Told
    <3>1. placed = 0 \/ placed \in 1..MaxCalls
      BY PlacesTyped DEF ShapeInv, HostOK
    <3> QED BY <2>1, <3>1 DEF Told, OrderInv
  <2>3. /\ room' # "none" /\ UNCHANGED toHolder
        /\ \A x \in Guest : x \in seats' <=>
             IF x = r.by /\ r.kind \in {"accept", "end"} THEN r.kind = "accept" ELSE x \in seats
    <3>1. CASE r.kind = "accept" /\ HearAccept(r.by)
      <4>1. room' = "active" /\ UNCHANGED toHolder
            /\ seats' = seats \cup (IF room = "ringing" THEN {Caller} ELSE {}) \cup {r.by}
        BY <1>8, <3>1 DEF HearAccept, RoomIs
      <4> QED BY <3>1, <4>1, NamesFact
    <3>2. CASE r.kind = "decline" /\ HearDecline(r.by)
      BY <1>8, <3>2 DEF HearDecline, RoomIs
    <3>3. CASE r.kind = "end" /\ HearEnd(r.by)
      <4>1. CASE r.by \in seats
        BY <1>8, <3>3, <4>1 DEF HearEnd, SeatEmptied, RoomIs
      <4>2. CASE r.by \notin seats
        BY <1>8, <3>3, <4>2 DEF HearEnd
      <4> QED BY <4>1, <4>2
    <3> QED BY <1>2, <3>1, <3>2, <3>3
  <2>4. OrderInv' /\ EndInv' /\ (Told' <=> Told)
    BY <1>2, <1>8, <2>3, NothingTold
  <2>5. \A x \in Guest : Moves(x, 1) <=> x = r.by /\ r.kind \in {"accept", "end"}
    BY <2>1 DEF Moves, r
  <2>6. \A x \in Guest : WillSit(x)' <=> WillSit(x)
    <3>1. \A x \in Guest : x \in seats' <=>
             IF Moves(x, 1) THEN toHost[1].kind = "accept" ELSE x \in seats
      BY <2>3, <2>5 DEF r
    <3> QED BY <1>2, <3>1, FirstHeard
  <2>7. \A x \in Guest : x \in joined <=> WillSit(x)
    BY <1>8, <2>2 DEF SeatInv
  <2> QED BY <1>2, <1>3, <1>5, <2>2, <2>4, <2>6, <2>7 DEF SeatInv
<1> QED BY <1>6, <1>7, <1>8

\* A relay arrives at the entry's instance.
LEMMA ArriveHolderOrderly ==
  ASSUME ShapeInv, RoomInv, OrderInv, EndInv, SeatInv, group, ~marred',
         NEW i \in 1..MaxWire, ArriveAtHolder(i)
  PROVE  OrderInv' /\ EndInv' /\ SeatInv'
<1>0. PICK len \in Nat : len = Len(toHolder)
  BY PlacesTyped
<1>1. i = 1
  <2>1. ~(i > 1)
    BY DEF ArriveAtHolder
  <2> QED BY <2>1, CallAssumption
<1>2. PICK first \in Relay : first = toHolder[1]
  BY <1>1 DEF ArriveAtHolder, ShapeInv, WireOK
<1>3. /\ 1 \in DOMAIN toHolder /\ toHolder' = RemoveAt(toHolder, 1)
      /\ UNCHANGED <<group, room, seats, declined, placed, toHost>>
  BY <1>1 DEF ArriveAtHolder
<1>4. \/ first.kind = "start" /\ HearStart(first.about)
      \/ first.kind = "end" /\ Cleared /\ UNCHANGED <<starts, heldFor>>
      \/ /\ first.kind = "accept"
         /\ entry' = IF entry = "ringing" THEN "active" ELSE entry
         /\ UNCHANGED <<joined, heldFor, window, starts>>
  BY <1>1, <1>2 DEF ArriveAtHolder
<1>5. /\ DOMAIN toHolder = 1 .. len /\ DOMAIN toHolder' = 1 .. len - 1
      /\ \A k \in 1 .. len - 1 : toHolder'[k] = toHolder[k + 1]
  BY <1>0, <1>3, RemoveFirstFacts, PlacesTyped DEF ShapeInv, WireOK
<1>6. /\ \A k \in 1 .. len - 1 : k + 1 \in 1 .. len
      /\ \A k \in 1 .. len : k = 1 \/ (k - 1 \in 1 .. len - 1 /\ k = (k - 1) + 1)
      /\ 1 \in 1 .. len /\ \A k \in 1 .. len - 1 : 1 < k + 1
  BY <1>0, <1>3, <1>5
<1>7. /\ MaxCalls \in Nat /\ placed \in 0..MaxCalls /\ heldFor \in 0..MaxCalls
      /\ first.about \in 0..MaxCalls /\ \A k \in 1 .. len : toHolder[k].about \in 0..MaxCalls
  BY <1>2, <1>5, <1>6, PlacesTyped DEF ShapeInv, HostOK, HolderOK
<1>8. /\ first.about <= placed
      /\ first.kind = "start" => first.about \in 1..MaxCalls
      /\ Told => first.about = placed
  BY <1>2, <1>5, <1>6 DEF OrderInv
<1>9. \A k \in 1 .. len - 1 : /\ first.about <= toHolder'[k].about
                              /\ toHolder'[k].kind = "start" => first.about < toHolder'[k].about
                              /\ toHolder'[k].about \in 0..MaxCalls
  <2> TAKE k \in 1 .. len - 1
  <2>1. k + 1 \in DOMAIN toHolder /\ 1 \in DOMAIN toHolder /\ 1 < k + 1
    BY <1>5, <1>6
  <2>2. /\ toHolder[1].about <= toHolder[k + 1].about
        /\ toHolder[k + 1].kind = "start" => toHolder[1].about < toHolder[k + 1].about
    BY <2>1 DEF OrderInv
  <2>3. toHolder'[k] = toHolder[k + 1] /\ toHolder[k + 1].about \in 0..MaxCalls
    BY <1>5, <1>7, <2>1
  <2> QED BY <1>2, <2>2, <2>3
<1>10. \A n : /\ Running(n)' <=> Running(n)
              /\ first.kind # "end" => (Ending(n)' <=> Ending(n))
              /\ first.about # n => (Ending(n)' <=> Ending(n))
              /\ Ending(n)' => Ending(n)
  <2> TAKE n
  <2>1. Ending(n)' <=> \E k \in 1 .. len - 1 : toHolder[k + 1].kind = "end" /\ toHolder[k + 1].about = n
    BY <1>5 DEF Ending
  <2>2. Ending(n) <=> \E k \in 1 .. len : toHolder[k].kind = "end" /\ toHolder[k].about = n
    BY <1>5 DEF Ending
  <2>3. Ending(n) <=> Ending(n)' \/ (first.kind = "end" /\ first.about = n)
    BY <1>2, <1>6, <2>1, <2>2
  <2> QED BY <1>3, <2>3 DEF Running
<1>11. \A k1, k2 \in DOMAIN toHolder' : k1 < k2 =>
       /\ toHolder'[k1].about <= toHolder'[k2].about
       /\ toHolder'[k2].kind = "start" => toHolder'[k1].about < toHolder'[k2].about
  <2> SUFFICES ASSUME NEW k1 \in 1 .. len - 1, NEW k2 \in 1 .. len - 1, k1 < k2
               PROVE  /\ toHolder'[k1].about <= toHolder'[k2].about
                      /\ toHolder'[k2].kind = "start" => toHolder'[k1].about < toHolder'[k2].about
    BY <1>5
  <2>1. k1 + 1 \in DOMAIN toHolder /\ k2 + 1 \in DOMAIN toHolder /\ k1 + 1 < k2 + 1
    BY <1>0, <1>5
  <2>2. /\ toHolder[k1 + 1].about <= toHolder[k2 + 1].about
        /\ toHolder[k2 + 1].kind = "start" => toHolder[k1 + 1].about < toHolder[k2 + 1].about
    BY <2>1 DEF OrderInv
  <2>3. toHolder'[k1] = toHolder[k1 + 1] /\ toHolder'[k2] = toHolder[k2 + 1]
    BY <1>5
  <2> QED BY <2>2, <2>3
<1>12. \A k \in 1 .. len - 1 : /\ toHolder'[k].about <= placed
                               /\ toHolder'[k].kind = "start" => toHolder'[k].about \in 1..MaxCalls
                               /\ Told => toHolder'[k].about = placed
  <2> TAKE k \in 1 .. len - 1
  <2>1. k + 1 \in DOMAIN toHolder /\ toHolder'[k] = toHolder[k + 1]
    BY <1>5, <1>6
  <2> QED BY <2>1 DEF OrderInv
<1>13. \A n : /\ n # first.about \/ first.kind # "start" =>
                 ((\E k \in DOMAIN toHolder' : toHolder'[k].kind = "start" /\ toHolder'[k].about = n)
                   <=> \E k \in DOMAIN toHolder : toHolder[k].kind = "start" /\ toHolder[k].about = n)
  <2> SUFFICES ASSUME NEW n, n # first.about \/ first.kind # "start"
               PROVE ((\E k \in DOMAIN toHolder' : toHolder'[k].kind = "start" /\ toHolder'[k].about = n)
                   <=> \E k \in DOMAIN toHolder : toHolder[k].kind = "start" /\ toHolder[k].about = n)
    OBVIOUS
  <2> DEFINE Start(k) == toHolder[k].kind = "start" /\ toHolder[k].about = n
  <2>1. ~Start(1)
    BY <1>2
  <2> HIDE DEF Start
  <2>2. (\E k \in 1 .. len - 1 : Start(k + 1)) <=> \E k \in 1 .. len : Start(k)
    <3>1. ASSUME NEW k \in 1 .. len, Start(k) PROVE \E j \in 1 .. len - 1 : Start(j + 1)
      <4>1. k - 1 \in 1 .. len - 1 /\ k = (k - 1) + 1
        BY <1>6, <2>1, <3>1
      <4> QED BY <3>1, <4>1
    <3> QED BY <1>6, <3>1
  <2> QED BY <1>5, <2>2 DEF Start
<1>14. (\A k \in DOMAIN toHolder : toHolder[k].kind = "start" =>
          Running(toHolder[k].about) \/ Ending(toHolder[k].about))'
  <2> SUFFICES ASSUME NEW k \in 1 .. len - 1, toHolder'[k].kind = "start"
               PROVE  Running(toHolder[k].about)' \/ Ending(toHolder[k].about)'
    BY <1>5
  <2>1. PICK n : n = toHolder'[k].about
    OBVIOUS
  <2>2. Running(n) \/ Ending(n)
    BY <1>5, <1>6, <2>1 DEF EndInv
  <2>3. n # first.about
    BY <1>7, <1>9, <2>1
  <2>4. Running(n)' \/ Ending(n)'
    BY <1>10, <2>2, <2>3
  <2> QED BY <2>1, <2>4
<1>15. \A n \in 0..MaxCalls : Ending(n)' => ~Running(n)'
  BY <1>10 DEF EndInv
<1>16. \A x : WillSit(x)' <=> WillSit(x)
  BY <1>3, SameSitters
<1>17. Guest' = Guest
  BY <1>3 DEF Guest
<1>18. \A k \in DOMAIN toHost' : toHost'[k].about <= heldFor
  BY <1>3 DEF SeatInv
<1>19. CASE first.kind # "start"
  <2>1. UNCHANGED <<starts, heldFor>>
    BY <1>4, <1>19
  <2>2. Told' <=> Told
    BY <1>3, <2>1 DEF Told
  <2>3. OrderInv'
    <3>1. \A n \in 1..MaxCalls : starts'[n] = "sent" <=>
            \E k \in DOMAIN toHolder' : toHolder'[k].kind = "start" /\ toHolder'[k].about = n
      BY <1>13, <1>19, <2>1 DEF OrderInv
    <3>2. \A k \in DOMAIN toHolder' :
            /\ toHolder'[k].about <= placed'
            /\ toHolder'[k].kind = "start" => toHolder'[k].about \in 1..MaxCalls
            /\ Told' => toHolder'[k].about = placed'
      BY <1>3, <1>5, <1>12, <2>2
    <3> QED BY <1>3, <1>11, <2>1, <3>1, <3>2 DEF OrderInv
  <2>4. CASE first.kind = "accept"
    <3>1. joined' = joined /\ (entry' # "none" => entry # "none")
      BY <1>4, <2>4
    <3>2. entry' # "none" => Running(heldFor)' \/ Ending(heldFor)'
      <4>1. PICK n : n = heldFor
        OBVIOUS
      <4>2. entry' # "none" => Running(n)' \/ Ending(n)'
        BY <1>10, <2>4, <3>1, <4>1 DEF EndInv
      <4> QED BY <2>1, <4>1, <4>2
    <3>3. EndInv'
      BY <1>14, <1>15, <3>2 DEF EndInv
    <3>4. SeatInv'
      BY <1>3, <1>16, <1>17, <1>18, <2>1, <2>2, <3>1 DEF SeatInv
    <3> QED BY <2>3, <3>3, <3>4
  <2>5. CASE first.kind = "end"
    <3>1. entry' = "none"
      BY <1>4, <2>5 DEF Cleared
    <3>2. EndInv'
      BY <1>14, <1>15, <3>1 DEF EndInv
    <3>3. Told => room = "none"
      <4>1. Ending(first.about)
        BY <1>2, <1>5, <1>6, <2>5 DEF Ending
      <4> QED BY <1>7, <1>8, <4>1 DEF EndInv, Running
    <3>4. SeatInv'
      BY <1>3, <1>17, <1>18, <2>1, <2>2, <3>3 DEF SeatInv
    <3> QED BY <2>3, <3>2, <3>4
  <2> QED BY <1>4, <1>19, <2>4, <2>5
<1>20. CASE first.kind = "start"
  <2>1. PICK n \in 1..MaxCalls : n = first.about
    BY <1>8, <1>20
  <2>2. HearStart(n)
    BY <1>4, <1>20, <2>1
  <2>3. starts[n] = "sent" /\ heldFor < n /\ n <= placed
    BY <1>2, <1>5, <1>6, <1>8, <1>20, <2>1 DEF OrderInv
  <2>4. /\ \A k \in 1..MaxCalls : k # n => starts'[k] = starts[k]
        /\ \/ starts'[n] = "heard" /\ entry' = "ringing" /\ joined' = {} /\ heldFor' = n
           \/ starts'[n] = "missed" /\ UNCHANGED <<entry, joined, heldFor>>
    BY <2>2 DEF HearStart, ShapeInv, HostOK
  <2>5. Told <=> FALSE
    <3>1. Told => n = placed
      BY <1>8, <2>1
    <3> QED BY <1>7, <2>1, <2>3, <3>1 DEF Told
  <2>6. Told' <=> n = placed
    <3>1. placed \in 1..MaxCalls /\ placed # 0
      BY <1>7, <2>1, <2>3
    <3>2. starts[placed] = "sent"
      BY <2>5 DEF Told
    <3> QED BY <1>3, <2>4, <3>1, <3>2 DEF Told
  <2>7. OrderInv'
    <3>1. \A m \in 1..MaxCalls : starts'[m] = "sent" <=>
            \E k \in DOMAIN toHolder' : toHolder'[k].kind = "start" /\ toHolder'[k].about = m
      <4> TAKE m \in 1..MaxCalls
      <4>1. CASE m = n
        <5>1. ~\E k \in DOMAIN toHolder' : toHolder'[k].kind = "start" /\ toHolder'[k].about = n
          BY <1>5, <1>7, <1>9, <2>1
        <5> QED BY <2>4, <4>1, <5>1
      <4>2. CASE m # n
        BY <1>13, <2>1, <2>4, <4>2 DEF OrderInv
      <4> QED BY <4>1, <4>2
    <3>2. \A k \in DOMAIN toHolder' :
            /\ toHolder'[k].about <= placed'
            /\ toHolder'[k].kind = "start" => toHolder'[k].about \in 1..MaxCalls
            /\ Told' => toHolder'[k].about = placed'
      <4> SUFFICES ASSUME NEW k \in 1 .. len - 1
                   PROVE  /\ toHolder'[k].about <= placed
                          /\ toHolder'[k].kind = "start" => toHolder'[k].about \in 1..MaxCalls
                          /\ Told' => toHolder'[k].about = placed
        BY <1>3, <1>5
      <4>1. toHolder'[k].about <= placed /\ n <= toHolder'[k].about /\ toHolder'[k].about \in 0..MaxCalls
        BY <1>9, <1>12, <2>1
      <4>2. Told' => toHolder'[k].about = placed
        BY <1>7, <2>6, <4>1
      <4> QED BY <1>12, <4>1, <4>2
    <3>3. heldFor' <= placed'
      BY <1>3, <2>3, <2>4 DEF OrderInv
    <3>4. \A m \in 1..MaxCalls : /\ starts'[m] = "sent" => heldFor' < m
                                 /\ starts'[m] = "missed" => heldFor' # m
      <4> TAKE m \in 1..MaxCalls
      <4>1. CASE m = n
        BY <1>7, <2>3, <2>4, <4>1
      <4>2. CASE m # n
        <5>1. starts[m] = "sent" => n < m
          <6>1. starts[m] = "sent" => \E k \in DOMAIN toHolder' :
                  toHolder'[k].kind = "start" /\ toHolder'[k].about = m
            BY <2>4, <3>1, <4>2
          <6> QED BY <1>5, <1>9, <2>1, <6>1
        <5> QED BY <2>4, <4>2, <5>1 DEF OrderInv
      <4> QED BY <4>1, <4>2
    <3> QED BY <1>11, <3>1, <3>2, <3>3, <3>4 DEF OrderInv
  <2>8. Running(n) \/ Ending(n)
    BY <1>2, <1>5, <1>6, <1>20, <2>1 DEF EndInv
  <2>9. EndInv'
    <3>1. entry' # "none" => Running(heldFor)' \/ Ending(heldFor)'
      <4>1. PICK held : held = heldFor'
        OBVIOUS
      <4>2. entry' # "none" => Running(held) \/ Ending(held)
        BY <2>4, <2>8, <4>1 DEF EndInv
      <4>3. entry' # "none" => Running(held)' \/ Ending(held)'
        BY <1>10, <1>20, <4>2
      <4> QED BY <4>1, <4>3
    <3> QED BY <1>14, <1>15, <3>1 DEF EndInv
  <2>10. SeatInv'
    <3>1. \A k \in DOMAIN toHost' : toHost'[k].about <= heldFor'
      <4>1. \A k \in DOMAIN toHost' : toHost'[k].about \in 0..MaxCalls
        BY <1>3, PlacesTyped
      <4> QED BY <1>7, <1>18, <2>3, <2>4, <4>1
    <3>2. room' # "none" => seats' \cap Guest' = {}
      BY <1>3, <1>17, <2>5 DEF SeatInv
    <3>3. n = placed /\ room # "none" => joined' = {}
      <4> SUFFICES ASSUME n = placed, room # "none" PROVE joined' = {}
        OBVIOUS
      <4>1. ~Running(heldFor)
        BY <1>7, <2>3 DEF Running
      <4>2. ~Ending(heldFor)
        BY <1>2, <1>5, <1>6, <1>7, <1>9, <2>1, <2>3 DEF Ending, OrderInv
      <4>3. joined = {}
        BY <4>1, <4>2 DEF EndInv, ShapeInv, HolderOK
      <4> QED BY <2>4, <4>3
    <3>4. n = placed /\ room # "none" => \A x \in Guest : ~WillSit(x)
      <4> SUFFICES ASSUME n = placed, room # "none", NEW x \in Guest PROVE ~WillSit(x)
        OBVIOUS
      <4>1. \A k \in DOMAIN toHost : toHost[k].about # placed
        <5>1. \A k \in DOMAIN toHost : toHost[k].about \in 0..MaxCalls /\ toHost[k].about <= heldFor
          BY PlacesTyped DEF SeatInv
        <5> QED BY <1>7, <2>3, <5>1
      <4>2. x \notin seats
        BY <1>3, <1>17, <3>2
      <4> QED BY <4>1, <4>2 DEF WillSit, Moves
    <3> QED BY <1>3, <1>16, <1>17, <2>6, <3>1, <3>2, <3>3, <3>4 DEF SeatInv
  <2> QED BY <2>7, <2>9, <2>10
<1> QED BY <1>19, <1>20

LEMMA OrderlyStart == ASSUME CallInit PROVE OrderlyInv
<1> USE DEF CallInit
<1>1. DOMAIN toHolder = {} /\ DOMAIN toHost = {}
  OBVIOUS
<1>2. placed = 0 /\ heldFor = 0 /\ entry = "none" /\ room = "none"
  OBVIOUS
<1>3. \A n \in 1..MaxCalls : starts[n] = "none"
  OBVIOUS
<1> HIDE DEF CallInit
<1>4. OrderInv
  BY <1>1, <1>2, <1>3, CallAssumption DEF OrderInv
<1>5. EndInv
  BY <1>1, <1>2 DEF EndInv, Ending, Running
<1>6. SeatInv
  BY <1>1, <1>2 DEF SeatInv
<1> QED BY <1>4, <1>5, <1>6 DEF OrderlyInv

LEMMA OrderlyStep ==
  ASSUME ShapeInv, RoomInv, OrderlyInv, [CallNext]_callVars
  PROVE  OrderlyInv'
<1> SUFFICES ASSUME ~marred', group' PROVE OrderInv' /\ EndInv' /\ SeatInv'
  BY DEF OrderlyInv
<1> USE DEF hostVars, holderVars
<1>1. group' = group
  BY DEF CallNext, callVars, StartCall, JoinAgain, CallerLeaves, RingTimeout, DropGuests,
         StartAnswered, StartLost, StartFailed, AnswerCall, DeclineCall, LeaveCall, LoseSession,
         AcceptAnswered, AcceptLost, WindowCloses, EvictEntry, LoseRelay, ArriveAtHost,
         ArriveAtHolder
<1>2. ~(DropGuests \/ EvictEntry \/ LoseRelay) /\ \A x : ~StartLost(x) /\ ~AcceptLost(x)
  BY DEF DropGuests, EvictEntry, LoseRelay, StartLost, AcceptLost
<1>3. ~marred
  <2>1. marred \in BOOLEAN
    BY DEF ShapeInv, FaultOK
  <2> SUFFICES ASSUME marred PROVE FALSE
    OBVIOUS
  <2>2. CASE \E i \in 1..MaxWire : ArriveAtHost(i) \/ ArriveAtHolder(i)
    BY <2>1, <2>2 DEF ArriveAtHost, ArriveAtHolder
  <2>3. CASE \E n \in 1..MaxCalls : StartAnswered(n)
    BY <2>1, <2>3 DEF StartAnswered
  <2>4. CASE \/ UNCHANGED callVars \/ StartCall \/ JoinAgain \/ CallerLeaves \/ RingTimeout
             \/ \E m \in Guest : \/ AnswerCall(m) \/ DeclineCall(m) \/ LeaveCall(m)
                                 \/ LoseSession(m) \/ AcceptAnswered(m)
             \/ WindowCloses
    BY <2>4 DEF callVars, StartCall, JoinAgain, CallerLeaves, RingTimeout, AnswerCall,
                DeclineCall, LeaveCall, LoseSession, AcceptAnswered, WindowCloses
  <2> QED BY <1>2, <2>2, <2>3, <2>4 DEF CallNext
<1>4. OrderInv /\ EndInv /\ SeatInv /\ group
  BY <1>1, <1>3 DEF OrderlyInv
<1>5. CASE UNCHANGED callVars
  <2>1. OrderInv' /\ EndInv' /\ (Told' <=> Told)
    BY <1>4, <1>5, NothingTold DEF callVars
  <2>2. \A m : WillSit(m)' <=> WillSit(m)
    BY <1>5, SameSitters DEF callVars
  <2>3. Guest' = Guest
    BY <1>1 DEF Guest
  <2> QED BY <1>4, <1>5, <2>1, <2>2, <2>3 DEF SeatInv, callVars
<1>6. CASE CallNext
  <2>1. CASE StartCall
    BY <1>4, <2>1, StartOrderly
  <2>2. CASE \/ JoinAgain \/ CallerLeaves \/ RingTimeout
             \/ \E n \in 1..MaxCalls : StartAnswered(n)
    BY <1>4, <2>2, HostOrderly
  <2>3. CASE \/ \E m \in Guest : \/ AnswerCall(m) \/ DeclineCall(m) \/ LeaveCall(m)
                                 \/ LoseSession(m) \/ AcceptAnswered(m)
             \/ WindowCloses
    BY <1>4, <2>3, HolderOrderly
  <2>4. CASE \E i \in 1..MaxWire : ArriveAtHost(i) \/ ArriveAtHolder(i)
    BY <1>4, <2>4, ArriveHostOrderly, ArriveHolderOrderly
  <2> QED BY <1>2, <1>6, <2>1, <2>2, <2>3, <2>4 DEF CallNext
<1> QED BY <1>5, <1>6

\* With every relay answered, host and entry agree on who is in the group call
\* (ws/events.ts, routes/federation/events/calls.ts): the members the host seats are
\* the members who joined through the other instance, however many calls were
\* placed, ended, missed and answered, unless a relay was lost, overtaken, or
\* crossed the end of its call.
THEOREM SeatsCorrect == CallSpec => []SeatsAgree
<1>1. CallInit => CallInv
  BY ShapeStart, OrderlyStart DEF CallInv
<1>2. CallInv /\ [CallNext]_callVars => CallInv'
  BY ShapeStep, OrderlyStep DEF CallInv
<1>3. CallInv => SeatsAgree
  <2> SUFFICES ASSUME CallInv, Quiet, ~marred, group PROVE seats \cap Guest = joined
    BY DEF SeatsAgree
  <2>1. ShapeInv /\ RoomInv /\ OrderInv /\ EndInv /\ SeatInv
    BY DEF CallInv, OrderlyInv
  <2>2. DOMAIN toHost = {} /\ DOMAIN toHolder = {} /\ \A n \in 1..MaxCalls : starts[n] = "none"
    BY DEF Quiet
  <2>3. joined \subseteq Guest /\ (entry = "none" => joined = {})
    BY <2>1 DEF ShapeInv, HolderOK
  <2>4. CASE room = "none"
    <3>1. entry = "none"
      BY <2>1, <2>2, <2>4 DEF EndInv, Running, Ending
    <3>2. seats = {}
      BY <2>1, <2>4 DEF RoomInv
    <3> QED BY <2>3, <3>1, <3>2
  <2>5. CASE room # "none"
    <3>1. Told
      <4>1. placed = 0 \/ placed \in 1..MaxCalls
        BY <2>1, PlacesTyped DEF ShapeInv, HostOK
      <4> QED BY <2>2, <4>1 DEF Told
    <3>2. \A m \in Guest : m \in joined <=> WillSit(m)
      BY <2>1, <2>5, <3>1 DEF SeatInv
    <3>3. \A m \in Guest : WillSit(m) <=> m \in seats
      BY <2>2 DEF WillSit
    <3> QED BY <2>3, <3>2, <3>3
  <2> QED BY <2>4, <2>5
<1> QED BY <1>1, <1>2, <1>3, PTL DEF CallSpec

=============================================================================
