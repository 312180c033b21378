------------------------------- MODULE DmCall -------------------------------
(***************************************************************************)
(* Voice calls of one conversation whose members live on two instances.    *)
(* The caller's instance hosts the room; the other keeps an entry for the   *)
(* call and lets its members join, decline and leave through it.  The two   *)
(* tell each other by relays that are posted once: they may be lost, may    *)
(* overtake each other, and name the conversation, not the call.            *)
(***************************************************************************)
EXTENDS Naturals, Sequences, SequencesExt

CONSTANTS
  MaxCalls,   \* calls the caller places
  MaxFaults,  \* lost relays, lost answers and peers that go away
  MaxWire     \* relays in flight in one direction

ASSUME CallAssumption ==
  /\ MaxCalls \in Nat \ {0}
  /\ MaxFaults \in Nat
  /\ MaxWire \in Nat \ {0}

VARIABLES
  group,      \* DmRoomMeta.group: the conversation is a group
  room,       \* the host's room of the conversation
  seats,      \* its participants
  declined,   \* declinedUserIds
  placed,     \* history: the number of the newest call
  starts,     \* starts[n]: the relay of the start of call n, until it is answered
  entry,      \* the state of the other instance's FederatedCallEntry
  joined,     \* joinedUserIds
  heldFor,    \* history: the call the newest entry is of
  window,     \* the entry's 60 s ring window is open
  accepts,    \* accepts[m]: the relay of m's accept, until it is answered
  toHost,     \* relays on their way to the host
  toHolder,   \* relays on their way to the entry's instance
  faults,     \* what went wrong on the network so far
  marred      \* history: a fault, or relays that overtook or crossed others

callVars == <<group, room, seats, declined, placed, starts, entry, joined, heldFor, window,
              accepts, toHost, toHolder, faults, marred>>
hostVars == <<room, seats, declined, placed, starts>>
holderVars == <<entry, joined, heldFor, window, accepts>>
-----------------------------------------------------------------------------
Caller == "caller"
Guest == IF group THEN {"ann", "ben"} ELSE {"ann"}
Phase == {"none", "ringing", "active"}
Posted == {"none", "sent", "heard", "missed"}

\* A relay, and (history) the call it was about.
Relay == [kind : {"start", "accept", "decline", "end"}, by : {Caller} \cup Guest,
          about : 0..MaxCalls]

CallTypeOK ==
  /\ group \in BOOLEAN
  /\ room \in Phase
  /\ seats \subseteq {Caller} \cup Guest
  /\ declined \subseteq Guest
  /\ placed \in 0..MaxCalls
  /\ starts \in [1..MaxCalls -> Posted]
  /\ entry \in Phase
  /\ joined \subseteq Guest
  /\ heldFor \in 0..MaxCalls
  /\ window \in BOOLEAN
  /\ accepts \in [Guest -> Posted \ {"missed"}]
  /\ Len(toHost) <= MaxWire /\ Range(toHost) \subseteq Relay
  /\ Len(toHolder) <= MaxWire /\ Range(toHolder) \subseteq Relay
  /\ faults \in 0..MaxFaults
  /\ marred \in BOOLEAN
  /\ entry = "none" => joined = {} /\ ~window

CallInit ==
  /\ group \in BOOLEAN
  /\ room = "none" /\ seats = {} /\ declined = {}
  /\ placed = 0
  /\ starts = [n \in 1..MaxCalls |-> "none"]
  /\ entry = "none" /\ joined = {} /\ heldFor = 0 /\ window = FALSE
  /\ accepts = [m \in Guest |-> "none"]
  /\ toHost = <<>> /\ toHolder = <<>>
  /\ faults = 0
  /\ marred = FALSE

ToHolder(kind, about) ==
  /\ Len(toHolder) < MaxWire
  /\ toHolder' = Append(toHolder, [kind |-> kind, by |-> Caller, about |-> about])

ToHost(kind, m) ==
  /\ Len(toHost) < MaxWire
  /\ toHost' = Append(toHost, [kind |-> kind, by |-> m, about |-> heldFor])

-----------------------------------------------------------------------------
(* The host.                                                                *)

RoomIs(state, in, out) == room' = state /\ seats' = in /\ declined' = out

\* endDmRoom with fanOutCallEnd or sendFederatedCallEnd
EndAndTell == RoomIs("none", {}, {}) /\ ToHolder("end", placed)

\* What a relay from the other instance ends it does not hear of in a 1-on-1.
EndQuietly == RoomIs("none", {}, {}) /\ UNCHANGED toHolder

\* dm_call_start without a room, and sendFederatedCallStart
StartCall ==
  /\ room = "none"
  /\ placed < MaxCalls
  /\ RoomIs("ringing", {}, {})
  /\ placed' = placed + 1
  /\ starts' = [starts EXCEPT ![placed + 1] = "sent"]
  /\ ToHolder("start", placed + 1)
  /\ UNCHANGED <<group, holderVars, toHost, faults, marred>>

\* dm_call_start by a caller who is not in the running call: joinHostedDmCall
JoinAgain ==
  /\ room = "active" /\ Caller \notin seats
  /\ RoomIs("active", seats \cup {Caller}, declined)
  /\ ToHolder("accept", placed)
  /\ UNCHANGED <<group, placed, starts, holderVars, toHost, faults, marred>>

\* A participant is out: the last one ends the call (afterDmCallLeave).
SeatEmptied_Stays(m) == RoomIs(room, seats \ {m}, declined) /\ UNCHANGED toHolder

SeatEmptied(m) ==
  IF seats = {m} THEN EndAndTell ELSE RoomIs(room, seats \ {m}, declined) /\ UNCHANGED toHolder

\* The caller hangs up, goes to another room, or loses the session for good.
CallerLeaves ==
  /\ \/ room = "ringing" /\ EndAndTell
     \/ room = "active" /\ ~group /\ EndAndTell
     \/ room = "active" /\ group /\ Caller \in seats /\ SeatEmptied(Caller)
  /\ UNCHANGED <<group, placed, starts, holderVars, toHost, faults, marred>>

RingTimeout ==
  /\ room = "ringing"
  /\ EndAndTell
  /\ UNCHANGED <<group, placed, starts, holderVars, toHost, faults, marred>>

\* The one who accepts is never seated.
HearAccept_CallerOnly(m) ==
  /\ IF room = "none"
     THEN UNCHANGED <<room, seats, declined>>
     ELSE RoomIs("active", seats \cup {Caller}, declined)
  /\ UNCHANGED toHolder

\* processDmCallAcceptEvent: the first accept seats the caller, and in a group the
\* one who accepts is seated too.
HearAccept(m) ==
  /\ IF room = "none"
     THEN UNCHANGED <<room, seats, declined>>
     ELSE RoomIs("active",
                 seats \cup (IF room = "ringing" THEN {Caller} ELSE {})
                       \cup (IF group THEN {m} ELSE {}),
                 IF group THEN declined \ {m} ELSE declined)
  /\ UNCHANGED toHolder

\* processDmCallRejectEvent, declineGroupDmCall
HearDecline(m) ==
  \/ room # "none" /\ ~group /\ EndQuietly
  \/ /\ room = "ringing" /\ group /\ declined \cup {m} = Guest
     /\ EndAndTell
  \/ /\ room # "none" /\ group /\ ~(room = "ringing" /\ declined \cup {m} = Guest)
     /\ RoomIs(room, seats, IF m \in seats THEN declined ELSE declined \cup {m})
     /\ UNCHANGED toHolder
  \/ room = "none" /\ UNCHANGED <<room, seats, declined, toHolder>>

\* processDmCallEndEvent, leaveGroupDmCall
HearEnd(m) ==
  \/ room # "none" /\ ~group /\ EndQuietly
  \/ room # "none" /\ group /\ m \in seats /\ SeatEmptied(m)
  \/ /\ room = "none" \/ (group /\ m \notin seats)
     /\ UNCHANGED <<room, seats, declined, toHolder>>

\* dropRemoteCallParticipants: the peer left `active'.
DropGuests ==
  /\ seats \cap Guest # {}
  /\ faults < MaxFaults
  /\ faults' = faults + 1
  /\ marred' = TRUE
  /\ IF seats \subseteq Guest
     THEN EndAndTell
     ELSE RoomIs(room, seats \ Guest, declined) /\ UNCHANGED toHolder
  /\ UNCHANGED <<group, placed, starts, holderVars, toHost>>

\* The start of call n rang nobody or failed: emitUndeliverableAndMaybeDestroy ends
\* the room there is, whose ever it is, and tells no peer.
StartFailed(n) ==
  /\ starts' = [starts EXCEPT ![n] = "none"]
  /\ RoomIs("none", {}, {})
  /\ UNCHANGED <<group, placed, holderVars, toHost>>

StartAnswered(n) ==
  \/ /\ starts[n] = "heard"
     /\ starts' = [starts EXCEPT ![n] = "none"]
     /\ UNCHANGED <<group, room, seats, declined, placed, holderVars, toHost, toHolder,
                    faults, marred>>
  \/ /\ starts[n] = "missed"
     /\ StartFailed(n)
     /\ marred' = (marred \/ (room # "none" /\ n # placed))
     /\ UNCHANGED <<toHolder, faults>>

StartLost(n) ==
  /\ \/ starts[n] = "heard" /\ UNCHANGED toHolder
     \/ /\ starts[n] = "sent"
        /\ \E i \in DOMAIN toHolder : /\ toHolder[i].kind = "start" /\ toHolder[i].about = n
                                    /\ toHolder' = RemoveAt(toHolder, i)
  /\ faults < MaxFaults
  /\ faults' = faults + 1
  /\ marred' = TRUE
  /\ StartFailed(n)

-----------------------------------------------------------------------------
(* The instance that holds the entry.                                       *)

\* The ring window's timer is left running.
Cleared_TimerRuns == entry' = "none" /\ joined' = {} /\ UNCHANGED window

Cleared == entry' = "none" /\ joined' = {} /\ window' = FALSE

\* leaveFederatedCallEntry, dropFederatedCallIfIdle
LeftEntry(m) ==
  IF joined = {m} /\ entry = "active" /\ ~window
  THEN Cleared
  ELSE joined' = joined \ {m} /\ UNCHANGED <<entry, window>>

\* dm_call_accept, Path 2: at once here, then the relay.
AnswerCall(m) ==
  /\ entry # "none"
  /\ accepts[m] = "none"
  /\ entry' = "active"
  /\ joined' = joined \cup {m}
  /\ accepts' = [accepts EXCEPT ![m] = "sent"]
  /\ ToHost("accept", m)
  /\ UNCHANGED <<group, hostVars, heldFor, window, toHolder, faults, marred>>

\* dm_call_reject, Path 2
DeclineCall(m) ==
  /\ entry # "none"
  /\ IF group THEN m \notin joined /\ UNCHANGED <<entry, joined, window>> ELSE Cleared
  /\ ToHost("decline", m)
  /\ UNCHANGED <<group, hostVars, heldFor, accepts, toHolder, faults, marred>>

\* dm_call_end, Path 2
LeaveCall(m) ==
  /\ entry # "none"
  /\ IF group THEN m \in joined /\ LeftEntry(m) ELSE Cleared
  /\ ToHost("end", m)
  /\ UNCHANGED <<group, hostVars, heldFor, accepts, toHolder, faults, marred>>

\* Only a hang-up is relayed.
LoseSession_Silent(m) ==
  /\ m \in joined
  /\ LeftEntry(m)
  /\ UNCHANGED <<group, hostVars, heldFor, accepts, toHost, toHolder, faults, marred>>

\* leaveJoinedFederatedCall: a session lost past its grace, or another room.
LoseSession(m) ==
  /\ m \in joined
  /\ LeftEntry(m)
  /\ IF group THEN ToHost("end", m) ELSE UNCHANGED toHost
  /\ UNCHANGED <<group, hostVars, heldFor, accepts, toHolder, faults, marred>>

\* The window's timer leaves an answered call alone.
WindowCloses_Ringing ==
  /\ window
  /\ IF entry = "active" THEN window' = FALSE /\ UNCHANGED <<entry, joined>> ELSE Cleared
  /\ UNCHANGED <<group, hostVars, heldFor, accepts, toHost, toHolder, faults, marred>>

\* The timer of createFederatedCall: a ringing call ends, an answered one only if
\* nobody here is in it.
WindowCloses ==
  /\ window
  /\ IF entry = "active" /\ joined # {}
     THEN window' = FALSE /\ UNCHANGED <<entry, joined>>
     ELSE Cleared
  /\ UNCHANGED <<group, hostVars, heldFor, accepts, toHost, toHolder, faults, marred>>

\* The answer to an accept.
AcceptAnswered(m) ==
  /\ accepts[m] = "heard"
  /\ accepts' = [accepts EXCEPT ![m] = "none"]
  /\ UNCHANGED <<group, hostVars, entry, joined, heldFor, window, toHost, toHolder, faults, marred>>

\* It failed: the entry of the conversation goes, whoever is in it by now.
AcceptLost(m) ==
  /\ \/ accepts[m] = "heard" /\ UNCHANGED toHost
     \/ /\ accepts[m] = "sent"
        /\ \E i \in DOMAIN toHost : /\ toHost[i].kind = "accept" /\ toHost[i].by = m
                                  /\ toHost' = RemoveAt(toHost, i)
  /\ faults < MaxFaults
  /\ faults' = faults + 1
  /\ marred' = TRUE
  /\ accepts' = [accepts EXCEPT ![m] = "none"]
  /\ Cleared
  /\ UNCHANGED <<group, hostVars, heldFor, toHolder>>

\* evictFederatedCallsForHost, on a status change or by the sentinel
EvictEntry ==
  /\ entry # "none"
  /\ faults < MaxFaults
  /\ faults' = faults + 1
  /\ marred' = TRUE
  /\ Cleared
  /\ UNCHANGED <<group, hostVars, heldFor, accepts, toHost, toHolder>>

\* processDmCallStartEvent: rings whom it can, over any entry there was.
HearStart(n) ==
  /\ \/ /\ starts' = [starts EXCEPT ![n] = "heard"]
        /\ entry' = "ringing" /\ joined' = {} /\ heldFor' = n /\ window' = TRUE
     \/ /\ starts' = [starts EXCEPT ![n] = "missed"]
        /\ UNCHANGED <<entry, joined, heldFor, window>>

-----------------------------------------------------------------------------
(* The network.                                                             *)

\* The relay at place i arrives at the host.
ArriveAtHost(i) ==
  /\ i \in DOMAIN toHost
  /\ toHost' = RemoveAt(toHost, i)
  /\ LET r == toHost[i] IN
     /\ \/ r.kind = "accept" /\ HearAccept(r.by)
        \/ r.kind = "decline" /\ HearDecline(r.by)
        \/ r.kind = "end" /\ HearEnd(r.by)
     /\ accepts' = IF r.kind = "accept" THEN [accepts EXCEPT ![r.by] = "heard"] ELSE accepts
     /\ marred' = (marred \/ i > 1 \/ (room # "none" /\ r.about # placed))
  /\ UNCHANGED <<group, placed, starts, entry, joined, heldFor, window, faults>>

ArriveAtHolder(i) ==
  /\ i \in DOMAIN toHolder
  /\ toHolder' = RemoveAt(toHolder, i)
  /\ LET r == toHolder[i] IN
     \/ r.kind = "start" /\ HearStart(r.about)
     \/ r.kind = "end" /\ Cleared /\ UNCHANGED <<starts, heldFor>>
     \/ /\ r.kind = "accept"
        /\ entry' = IF entry = "ringing" THEN "active" ELSE entry
        /\ UNCHANGED <<joined, heldFor, window, starts>>
  /\ marred' = (marred \/ i > 1)
  /\ UNCHANGED <<group, room, seats, declined, placed, accepts, toHost, faults>>

\* A relay whose sender does nothing about a failure is lost.
LoseRelay ==
  /\ faults < MaxFaults
  /\ faults' = faults + 1
  /\ marred' = TRUE
  /\ \/ \E i \in DOMAIN toHost : toHost[i].kind # "accept" /\ toHost' = RemoveAt(toHost, i)
                                 /\ UNCHANGED toHolder
     \/ \E i \in DOMAIN toHolder : toHolder[i].kind # "start" /\ toHolder' = RemoveAt(toHolder, i)
                                   /\ UNCHANGED toHost
  /\ UNCHANGED <<group, hostVars, holderVars>>

CallNext ==
  \/ StartCall \/ JoinAgain \/ CallerLeaves \/ RingTimeout \/ DropGuests
  \/ \E n \in 1..MaxCalls : StartAnswered(n) \/ StartLost(n)
  \/ \E m \in Guest : AnswerCall(m) \/ DeclineCall(m) \/ LeaveCall(m) \/ LoseSession(m)
                      \/ AcceptAnswered(m) \/ AcceptLost(m)
  \/ WindowCloses \/ EvictEntry \/ LoseRelay
  \/ \E i \in 1..MaxWire : ArriveAtHost(i) \/ ArriveAtHolder(i)

\* Timers fire and posts end.  Nobody has to call, answer or hang up.
CallFairness ==
  /\ WF_callVars(RingTimeout)
  /\ WF_callVars(WindowCloses)
  /\ WF_callVars(ArriveAtHost(1))
  /\ WF_callVars(ArriveAtHolder(1))

CallSpec == CallInit /\ [][CallNext]_callVars /\ CallFairness

-----------------------------------------------------------------------------
\* A room that is not ringing any more has somebody in it, however the last
\* participant went: a hang-up here or relayed, a peer that went away.
CallHasSomebody == room = "active" => seats # {}

Quiet ==
  /\ toHost = <<>> /\ toHolder = <<>>
  /\ \A n \in 1..MaxCalls : starts[n] = "none"
  /\ \A m \in Guest : accepts[m] = "none"

\* With every relay answered, the host seats exactly the members who are in the
\* group call through the other instance, unless a relay was lost, overtaken, or
\* crossed the end of the call it was about.
SeatsAgree == Quiet /\ ~marred /\ group => seats \cap Guest = joined

\* An entry nobody here is in goes, even when the host's end never comes.
IdleEntryGoes == (entry # "none" /\ joined = {}) ~> (entry = "none" \/ joined # {})

\* A group call that everyone left ends, unless a relay went astray.
DesertedCallEnds ==
  (room = "active" /\ group /\ Caller \notin seats /\ joined = {})
    ~> (room # "active" \/ Caller \in seats \/ joined # {} \/ marred)

\* The failure of a start, however late, ends the ring it was the start of and no
\* other call (events.ts emitUndeliverableAndMaybeDestroy: "if the caller already
\* cancelled mid-race, the room is already gone").
StartEndsOwnRing ==
  [][\A n \in 1..MaxCalls : StartLost(n) \/ (starts[n] = "missed" /\ StartAnswered(n)) =>
       room = "none" \/ n = placed]_callVars
=============================================================================
